----------------------------- MODULE RateLimiter -----------------------------
(***************************************************************************)
(* RateLimiter: one bucket per client address that counts the requests let *)
(* through until its resetTime, a bound on the addresses tracked with the  *)
(* one inserted first evicted, and a periodic collection of what expired.  *)
(* Time is Date.now() in ticks, taken to be monotone.                      *)
(***************************************************************************)
EXTENDS Integers, Sequences

CONSTANTS
    Ips,             \* the client addresses
    MaxRequests,     \* options.maxRequests, positive where a limiter is made
    WindowTicks,     \* options.windowMs in ticks
    MaxTrackedIps,   \* options.maxTrackedIps
    MaxTime,         \* bound: how long a behaviour is followed
    HistoryCap       \* bound: the history counts requests up to here

ASSUME MaxRequestsAssumption == MaxRequests \in Nat \ {0}
ASSUME WindowAssumption == WindowTicks \in Nat \ {0}
ASSUME TrackedAssumption == MaxTrackedIps \in Nat \ {0}
ASSUME TimeAssumption == MaxTime \in Nat
ASSUME HistoryAssumption == HistoryCap \in Nat /\ HistoryCap > 2 * MaxRequests

VARIABLES
    now,             \* Date.now()
    order,           \* the keys of the map "buckets", in insertion order
    count,           \* count of the bucket of each tracked address
    resetTime,       \* resetTime of the bucket of each tracked address
    collecting,      \* whether gcInterval is set: FALSE after destroy()
    recent,          \* history: recent[ip][a] requests of ip let through in this tick
                     \* and the a ticks before it
    forgotten        \* history: the addresses that lost a bucket still open

limiterVars == <<now, order, count, resetTime, collecting, recent, forgotten>>

Ages == 0..(WindowTicks - 1)

Tracked == {order[i] : i \in DOMAIN order}

\* A bucket that still counts, and not one the next request will replace.
BucketOpen(ip) == ip \in Tracked /\ now < resetTime[ip]

\* What is known of the requests let through in the last WindowTicks ticks.
GrantedInWindow(ip) == recent[ip][WindowTicks - 1]

Grant(ip) ==
    recent' = [recent EXCEPT ![ip] =
                 [a \in Ages |-> IF @[a] < HistoryCap THEN @[a] + 1 ELSE @[a]]]

(***************************************************************************)
(* Insertion into the map: the oldest key goes when the map is full, even  *)
(* if ip is tracked already, and a tracked key keeps its place.            *)
(***************************************************************************)
AfterEvictionOffByOne ==
    IF Len(order) > MaxTrackedIps THEN Tail(order) ELSE order

AfterEviction ==
    IF Len(order) >= MaxTrackedIps THEN Tail(order) ELSE order

Inserted(ip) ==
    IF \E i \in DOMAIN AfterEviction : AfterEviction[i] = ip
    THEN AfterEviction
    ELSE Append(AfterEviction, ip)

\* Only eviction takes a bucket that is still open.
Forget ==
    forgotten' = forgotten \cup {ip \in Tracked : BucketOpen(ip) /\ AfterEviction # order /\ ip = Head(order)}

-----------------------------------------------------------------------------

LimiterInit ==
    /\ now = 0
    /\ order = <<>>
    /\ count = [ip \in Ips |-> 0]
    /\ resetTime = [ip \in Ips |-> 0]
    /\ collecting = TRUE
    /\ recent = [ip \in Ips |-> [a \in Ages |-> 0]]
    /\ forgotten = {}

\* allow(): no bucket, or one that expired; a new one is opened.
AllowFreshKeepingCount(ip) ==
    /\ collecting
    /\ ~BucketOpen(ip)
    /\ order' = Inserted(ip)
    /\ count' = [count EXCEPT ![ip] = @ + 1]
    /\ resetTime' = [resetTime EXCEPT ![ip] = now + WindowTicks]
    /\ Grant(ip)
    /\ Forget
    /\ UNCHANGED <<now, collecting>>

AllowFresh(ip) ==
    /\ collecting
    /\ ~BucketOpen(ip)
    /\ order' = Inserted(ip)
    /\ count' = [count EXCEPT ![ip] = 1]
    /\ resetTime' = [resetTime EXCEPT ![ip] = now + WindowTicks]
    /\ Grant(ip)
    /\ Forget
    /\ UNCHANGED <<now, collecting>>

\* allow(): the bucket counts and has room.
AllowCounted(ip) ==
    /\ collecting
    /\ BucketOpen(ip)
    /\ count[ip] < MaxRequests
    /\ count' = [count EXCEPT ![ip] = @ + 1]
    /\ Grant(ip)
    /\ UNCHANGED <<now, order, resetTime, collecting, forgotten>>

\* The buckets at these places stay, in the order they are in.
Keeping(places) ==
    \E n \in 0..Len(order) : \E kept \in [1..n -> DOMAIN order] :
        /\ \A i, j \in 1..n : i < j => kept[i] < kept[j]
        /\ {kept[i] : i \in 1..n} = places
        /\ order' = [i \in 1..n |-> order[kept[i]]]

\* garbageCollect(): every expired bucket goes.
GarbageCollectEager ==
    /\ collecting
    /\ Keeping({k \in DOMAIN order : now + 1 < resetTime[order[k]]})
    /\ UNCHANGED <<now, count, resetTime, collecting, recent, forgotten>>

GarbageCollect ==
    /\ collecting
    /\ Keeping({k \in DOMAIN order : now < resetTime[order[k]]})
    /\ UNCHANGED <<now, count, resetTime, collecting, recent, forgotten>>

\* destroy(): the timer and the buckets go; the handler drops the limiter.
Destroy ==
    /\ collecting
    /\ collecting' = FALSE
    /\ order' = <<>>
    /\ UNCHANGED <<now, count, resetTime, recent, forgotten>>

\* Time passes; what was let through WindowTicks ago leaves the history.
Tick ==
    /\ now < MaxTime
    /\ now' = now + 1
    /\ recent' = [ip \in Ips |-> [a \in Ages |-> IF a = 0 THEN 0 ELSE recent[ip][a - 1]]]
    /\ UNCHANGED <<order, count, resetTime, collecting, forgotten>>

LimiterNext ==
    \/ \E ip \in Ips : AllowFresh(ip) \/ AllowCounted(ip)
    \/ GarbageCollect
    \/ Destroy
    \/ Tick

LimiterSpec == LimiterInit /\ [][LimiterNext]_limiterVars

-----------------------------------------------------------------------------

\* Types; and the map holds at most maxTrackedIps buckets, each address once,
\* however the insertions, evictions and collections follow each other.
LimiterTypeOK ==
    /\ now \in 0..MaxTime
    /\ order \in Seq(Ips) /\ Len(order) <= MaxTrackedIps
    /\ \A i, j \in DOMAIN order : order[i] = order[j] => i = j
    /\ count \in [Ips -> Nat]
    /\ resetTime \in [Ips -> Nat]
    /\ collecting \in BOOLEAN
    /\ recent \in [Ips -> [Ages -> 0..HistoryCap]]
    /\ forgotten \subseteq Ips

\* No client gets more than twice its quota through in any span as long as the
\* window, wherever the span begins, unless it lost a bucket to another client.
AtMostTwiceTheQuota ==
    \A ip \in Ips \ forgotten : GrantedInWindow(ip) <= 2 * MaxRequests

\* A client that is refused did use up its quota within the last window, even
\* where buckets are evicted, collected and opened again.
RefusalIsJustified ==
    \A ip \in Ips :
        BucketOpen(ip) /\ count[ip] >= MaxRequests => GrantedInWindow(ip) >= MaxRequests
=============================================================================
