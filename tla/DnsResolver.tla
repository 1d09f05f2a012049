----------------------------- MODULE DnsResolver -----------------------------
(***************************************************************************)
(* DevDnsServer.resolve: what a query is answered from the configured      *)
(* hosts, the firewall and the fallback, and the cache of those answers, a *)
(* Map whose insertion order is kept in order of use, with an age limit.   *)
(* A call of resolve is one step: nothing in it waits.                     *)
(*                                                                         *)
(* Names are looked up as HostTable says.  Responses are far below the 4096*)
(* bytes of the encoder's buffer.  Time is in seconds.                     *)
(***************************************************************************)
EXTENDS HostTable, SequencesExt

CONSTANTS
    Queries,        \* records [id, wellFormed, questions]
    Hosts,          \* config.hosts: from keys to sequences of records
    Denied,         \* the normalised names evaluateDomain denies
    CacheMaxSize,   \* dnsCacheMaxSize
    CacheTtl,       \* dnsCacheTtlMs, in seconds; 0 disables the cache
    MaxTime         \* bound: how long a behaviour is followed

Questions == [name : Seq(STRING), type : STRING]

ASSUME QueriesAssumption ==
    Queries \subseteq [id : Nat, wellFormed : BOOLEAN, questions : Seq(Questions)]
ASSUME HostsAssumption == DOMAIN Hosts \subseteq [wild : BOOLEAN, labels : Seq(STRING)]
ASSUME CacheMaxSizeAssumption == CacheMaxSize \in Nat \ {0}
ASSUME CacheTtlAssumption == CacheTtl \in Nat
ASSUME MaxTimeAssumption == MaxTime \in Nat

VARIABLES
    fallback,       \* whether config.fallbackDns is set
    now,            \* Date.now()
    keys,           \* the keys of cacheMap, in its order
    entry,          \* entry[k]: response and insertedAt, for the keys
    born,           \* history: when the response under a key was computed
    recency,        \* history: <<j, k>> for keys of cacheMap, k used after j last was
    last            \* the last query, its response, whether that was from the
                    \* cache, and how long ago it had been computed

vars == <<fallback, now, keys, entry, born, recency, last>>

-----------------------------------------------------------------------------

(***************************************************************************)
(* generateCacheKey: names as they were spelt and types, without the ID.   *)
(***************************************************************************)
CacheKeyUntyped(questions) ==
    [i \in DOMAIN questions |-> <<questions[i].name>>]

CacheKey(questions) ==
    [i \in DOMAIN questions |-> <<questions[i].name, questions[i].type>>]

HostOf(question) == FindHost(Hosts, Normalized(question.name))

Known(questions) == \E i \in DOMAIN questions : HostOf(questions[i]) # NoHost

\* buildAnswers: the places, in the host's list, of the records of the type
\* asked for.
Matching(question) ==
    IF HostOf(question) = NoHost THEN {}
    ELSE {j \in DOMAIN HostOf(question) : HostOf(question)[j].type = question.type}

\* An answer stands at its place: that of its question, then of its record.
AllMatching(questions) ==
    UNION {{i} \X Matching(questions[i]) : i \in DOMAIN questions}

\* buildSingleAnswer has no data for these types, and buildResponsePacket
\* passes over an answer without data.
Unencodable == {"PTR"}

Answers(questions) ==
    LET record(place) == HostOf(questions[place[1]])[place[2]]
    IN  [place \in {p \in AllMatching(questions) : record(p).type \notin Unencodable} |->
            record(place)]

\* The TTL of an answer from the configuration, and of one from the cache.
FreshTtl == 300
CachedTtl == IF CacheTtl < 1 THEN 1 ELSE CacheTtl

\* Questions go out in lower case, however the client spelt them.
Written(questions) ==
    [i \in DOMAIN questions |-> [questions[i] EXCEPT !.name = Normalized(@)]]

\* The header's flags are left out: in an answer from the cache they are those
\* of the query it was made for.
Response(id, rcode, questions, answers, ttl) ==
    [id |-> id, rcode |-> rcode, questions |-> Written(questions), answers |-> answers,
     ttl |-> ttl]

\* The empty buffer: nothing is sent to the client.
Silence == Response(0, "none", <<>>, <<>>, 0)

\* null: the caller asks the upstream resolver.
Forwarded == Response(0, "forward", <<>>, <<>>, 0)

(***************************************************************************)
(* What resolve makes of a query it has no entry for.                      *)
(***************************************************************************)
Computed(q) ==
    LET qs == q.questions IN
    CASE qs = <<>> -> Response(q.id, "NXDOMAIN", qs, <<>>, FreshTtl)
      [] qs # <<>> /\ Known(qs) -> Response(q.id, "NOERROR", qs, Answers(qs), FreshTtl)
      [] qs # <<>> /\ ~Known(qs) /\ (\E i \in DOMAIN qs : Normalized(qs[i].name) \in Denied)
           -> Response(q.id, "REFUSED", qs, <<>>, FreshTtl)
      [] OTHER -> IF fallback THEN Forwarded
                  ELSE Response(q.id, "NXDOMAIN", qs, <<>>, FreshTtl)

\* The branches that call addToCache.
CacheableAlways(q) == q.questions # <<>> /\ Computed(q) # Forwarded

Cacheable(q) ==
    /\ q.questions # <<>>
    /\ Computed(q).rcode \in {"NOERROR", "NXDOMAIN"}

\* rewriteResponseTtl.
Rewritten(response) == [response EXCEPT !.ttl = CachedTtl]

-----------------------------------------------------------------------------

\* The keys without k, in their order.
Without(k) == RemoveFirst(keys, k)

Fresh(k) == k \in ToSet(keys) /\ now - entry[k].insertedAt < CacheTtl

\* addToCache: the least recently used key goes when the map is full, and the
\* new one becomes the most recently used.
RoomForUnbounded(ks) == ks

RoomFor(ks) == IF Len(ks) >= CacheMaxSize THEN Tail(ks) ELSE ks

\* k is the key used last.
Used(k) ==
    recency' = {p \in recency : p[1] # k /\ p[2] # k /\ {p[1], p[2]} \subseteq ToSet(keys')}
                   \cup ((ToSet(keys') \ {k}) \X {k})

ObserveHit(q, k) ==
    last' = [query |-> q, response |-> entry[k].response, hit |-> TRUE, age |-> now - born[k]]

ObserveMiss(q, response) ==
    last' = [query |-> q, response |-> response, hit |-> FALSE, age |-> 0]

\* Before the first query.
NoQuery == [id |-> 0, wellFormed |-> FALSE, questions |-> <<>>]

Init ==
    /\ fallback \in BOOLEAN
    /\ now = 0
    /\ keys = <<>>
    /\ entry = <<>>
    /\ born = <<>>
    /\ recency = {}
    /\ last = [query |-> NoQuery, response |-> Silence, hit |-> FALSE, age |-> 0]

\* Too short, a response, no recursion desired, or sections that a question
\* has not: the query is not answered.
ResolveMalformed(q) ==
    /\ ~q.wellFormed
    /\ ObserveMiss(q, Silence)
    /\ UNCHANGED <<fallback, now, keys, entry, born, recency>>

\* getFromCache finds an entry young enough: it is used last, and the response
\* goes out as it was stored.
ResolveHitInPlace(q) ==
    LET k == CacheKey(q.questions) IN
    /\ q.wellFormed
    /\ Fresh(k)
    /\ UNCHANGED <<fallback, now, keys, entry, born>>
    /\ Used(k)
    /\ ObserveHit(q, k)

ResolveHitRenewing(q) ==
    LET k == CacheKey(q.questions) IN
    /\ q.wellFormed
    /\ Fresh(k)
    /\ keys' = Append(Without(k), k)
    /\ entry' = [entry EXCEPT ![k].insertedAt = now]
    /\ Used(k)
    /\ ObserveHit(q, k)
    /\ UNCHANGED <<fallback, now, born>>

ResolveHit(q) ==
    LET k == CacheKey(q.questions) IN
    /\ q.wellFormed
    /\ Fresh(k)
    /\ keys' = Append(Without(k), k)
    /\ Used(k)
    /\ ObserveHit(q, k)
    /\ UNCHANGED <<fallback, now, entry, born>>

\* No entry, or one too old, which is deleted: the response is computed and,
\* in some cases, stored.
ResolveStored(q) ==
    LET k == CacheKey(q.questions) IN
    /\ q.wellFormed /\ ~Fresh(k)
    /\ Cacheable(q) /\ CacheTtl > 0
    /\ keys' = Append(RoomFor(Without(k)), k)
    /\ entry' = [x \in ToSet(keys') |->
                    IF x = k THEN [response |-> Rewritten(Computed(q)), insertedAt |-> now]
                    ELSE entry[x]]
    /\ born' = [x \in ToSet(keys') |-> IF x = k THEN now ELSE born[x]]
    /\ Used(k)
    /\ ObserveMiss(q, Computed(q))
    /\ UNCHANGED <<fallback, now>>

ResolveUnstored(q) ==
    LET k == CacheKey(q.questions) IN
    /\ q.wellFormed /\ ~Fresh(k)
    /\ ~Cacheable(q) \/ CacheTtl = 0
    /\ keys' = Without(k)
    /\ entry' = [x \in ToSet(keys') |-> entry[x]]
    /\ born' = [x \in ToSet(keys') |-> born[x]]
    /\ ObserveMiss(q, Computed(q))
    /\ recency' = {p \in recency : p[1] # k /\ p[2] # k}
    /\ UNCHANGED <<fallback, now>>

Tick ==
    /\ now < MaxTime
    /\ now' = now + 1
    /\ UNCHANGED <<fallback, keys, entry, born, recency, last>>

Next ==
    \/ \E q \in Queries :
          ResolveMalformed(q) \/ ResolveHit(q) \/ ResolveStored(q) \/ ResolveUnstored(q)
    \/ Tick

Spec == Init /\ [][Next]_vars

-----------------------------------------------------------------------------

AllKeys == {CacheKey(q.questions) : q \in Queries}

\* Types; and the cache holds at most dnsCacheMaxSize entries, each key once,
\* after every sequence of hits, expiries, evictions and insertions.
TypeOK ==
    /\ fallback \in BOOLEAN
    /\ now \in 0..MaxTime
    /\ keys \in Seq(AllKeys) /\ IsInjective(keys) /\ Len(keys) <= CacheMaxSize
    /\ DOMAIN entry = ToSet(keys) /\ DOMAIN born = ToSet(keys)
    /\ recency \subseteq AllKeys \X AllKeys
    /\ last.query \in Queries \cup {NoQuery} /\ last.hit \in BOOLEAN

\* A response from the cache is, up to its ID and its TTL, what would be
\* computed for the query now; in particular a REFUSED is never replayed.
Payload(response) == [rcode |-> response.rcode, answers |-> response.answers]

CacheIsTransparent ==
    last.hit => /\ Payload(last.response) = Payload(Computed(last.query))
                /\ last.response.rcode # "REFUSED"

\* A question about one name is answered with the records of the host closest
\* to it, all of the type asked for, whatever stands in the cache.
AnsweredByClosestHost ==
    LET q == last.query.questions[1] IN
    last.query.wellFormed /\ Len(last.query.questions) = 1 =>
        \E h \in ClosestHosts(Hosts, Normalized(q.name)) :
            IF h = NoHost THEN last.response.rcode # "NOERROR"
            ELSE /\ last.response.rcode = "NOERROR"
                 /\ Range(last.response.answers) =
                        {r \in Range(h) : r.type = q.type /\ r.type \notin Unencodable}

\* What is served from the cache was computed less than dnsCacheTtlMs ago,
\* however often it was asked for since.
NoStaleHit == last.hit => last.age < CacheTtl

\* Eviction takes the entry that was asked for or stored longest ago.
OldestUseGoesFirst ==
    \A i, j \in DOMAIN keys : i < j => <<keys[i], keys[j]>> \in recency
=============================================================================
