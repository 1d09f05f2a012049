--------------------------- MODULE DnsServiceProofs ---------------------------
(***************************************************************************)
(* Theorems about what dns-service.ts answers.  HostTable, for every table:*)
(* the host that says most about a name is found.  DnsResolver, for any    *)
(* hosts, queries, denied names and limits: the cache changes no answer,   *)
(* forgets in time and evicts what was used longest ago.                   *)
(***************************************************************************)
EXTENDS DnsResolver, SequenceTheorems, WellFoundedInduction, TLAPS

-----------------------------------------------------------------------------
(* HostTable.                                                               *)

LEMMA LeastElement ==
    ASSUME NEW S, S \subseteq Nat, S # {}
    PROVE  Min(S) \in S /\ (\A m \in S : Min(S) <= m)
<1> DEFINE R == OpToRel(<, Nat)
<1>1. \A x, y \in Nat : <<x, y>> \in R <=> x < y
  BY DEF OpToRel
<1>2. IsWellFoundedOn(R, Nat)
  BY NatLessThanWellFounded
<1> HIDE DEF R
<1>3. PICK n \in S : \A m \in S : ~(<<m, n>> \in R)
  BY <1>2, WFMin
<1>4. ASSUME NEW m \in S PROVE n <= m
  <2>1. m \in Nat /\ n \in Nat
    OBVIOUS
  <2>2. ~(m < n)
    BY <1>1, <1>3, <2>1
  <2> QED
    BY <2>1, <2>2
<1> QED
  BY <1>4 DEF Min

LEMMA SuffixLength ==
    ASSUME NEW S, NEW name \in Seq(S), NEW i \in 1..(Len(name) + 1)
    PROVE  Len(Suffix(name, i)) = Len(name) + 1 - i
BY DEF Suffix

\* The lookup of the DNS server finds, in every table and for every name, the
\* entry that says most about the name: itself, or its longest suffix with a
\* wildcard.
THEOREM ClosestIsFound ==
    ASSUME NEW S, NEW name \in Seq(S), NEW table,
           DOMAIN table \subseteq [wild : BOOLEAN, labels : Seq(S)]
    PROVE  FindHost(table, name) \in ClosestHosts(table, name)
<1> DEFINE matching == {k \in DOMAIN table : Covers(k, name)}
           Closest(k) == \A l \in matching : ~k.wild \/ (l.wild /\ Len(l.labels) <= Len(k.labels))
           found == {i \in 1..(Len(name) + 1 - 0) : Under(Suffix(name, i)) \in DOMAIN table}
<1>1. ClosestHosts(table, name) =
        IF matching = {} THEN {NoHost} ELSE {table[k] : k \in {m \in matching : Closest(m)}}
  BY DEF ClosestHosts
<1>2. CASE Exact(name) \in DOMAIN table
  <2>1. Exact(name) \in matching /\ ~Exact(name).wild
    BY <1>2 DEF Covers, Exact
  <2>2. Closest(Exact(name))
    BY <2>1
  <2>3. FindHost(table, name) = table[Exact(name)]
    BY <1>2 DEF FindHost
  <2> HIDE DEF matching, Closest
  <2> QED
    BY <1>1, <2>1, <2>2, <2>3
<1>3. CASE Exact(name) \notin DOMAIN table
  <2>1. FindHost(table, name) = IF found = {} THEN NoHost ELSE table[Under(Suffix(name, Min(found)))]
    BY <1>3 DEF FindHost, Wildcard
  <2>2. ASSUME NEW k \in matching
        PROVE  k.wild /\ \E i \in found : k = Under(Suffix(name, i))
    <3>1. k \in [wild : BOOLEAN, labels : Seq(S)] /\ Covers(k, name)
      OBVIOUS
    <3>2. k.wild
      <4>1. ~k.wild => k = Exact(name)
        BY <3>1 DEF Covers, Exact
      <4> QED
        BY <1>3, <4>1
    <3>3. PICK i \in 1..(Len(name) + 1) : k.labels = Suffix(name, i)
      BY <3>1, <3>2 DEF Covers
    <3>4. k = Under(Suffix(name, i))
      BY <3>1, <3>2, <3>3 DEF Under
    <3>5. i \in found
      BY <3>4
    <3> QED
      BY <3>2, <3>4, <3>5
  <2>3. ASSUME NEW i \in found PROVE Under(Suffix(name, i)) \in matching
    BY DEF Covers, Under
  <2>4. CASE found = {}
    <3>1. matching = {}
      BY <2>2, <2>4
    <3> QED
      BY <1>1, <2>1, <2>4, <3>1
  <2>5. CASE found # {}
    <3> DEFINE k == Under(Suffix(name, Min(found)))
    <3>1. Min(found) \in found /\ \A j \in found : Min(found) <= j
      <4>1. found \subseteq Nat
        OBVIOUS
      <4> HIDE DEF found
      <4> QED
        BY <2>5, <4>1, LeastElement
    <3>2. k \in matching
      BY <2>3, <3>1
    <3>3. ASSUME NEW l \in matching PROVE l.wild /\ Len(l.labels) <= Len(k.labels)
      <4>1. PICK j \in found : l = Under(Suffix(name, j))
        BY <2>2
      <4>2. j \in 1..(Len(name) + 1) /\ Min(found) \in 1..(Len(name) + 1) /\ Min(found) <= j
        BY <3>1
      <4>3. Len(l.labels) = Len(name) + 1 - j /\ Len(k.labels) = Len(name) + 1 - Min(found)
        BY <4>1, <4>2, SuffixLength DEF Under
      <4> QED
        BY <2>2, <4>2, <4>3
    <3>4. Closest(k)
      BY <3>3
    <3>5. FindHost(table, name) = table[k]
      BY <2>1, <2>5
    <3> HIDE DEF matching, Closest, k, found
    <3> QED
      BY <1>1, <3>2, <3>4, <3>5
  <2> QED
    BY <2>4, <2>5
<1> QED
  BY <1>2, <1>3

-----------------------------------------------------------------------------
(* DnsResolver: what is answered.                                           *)

\* What the response to these questions says, without its ID and TTL; whether
\* a fallback is set decides on the ones nobody knows.
Said(set, qs) ==
    CASE qs = <<>> -> [rcode |-> "NXDOMAIN", answers |-> <<>>]
      [] qs # <<>> /\ Known(qs) -> [rcode |-> "NOERROR", answers |-> Answers(qs)]
      [] qs # <<>> /\ ~Known(qs) /\ (\E i \in DOMAIN qs : Normalized(qs[i].name) \in Denied)
           -> [rcode |-> "REFUSED", answers |-> <<>>]
      [] OTHER -> [rcode |-> IF set THEN "forward" ELSE "NXDOMAIN", answers |-> <<>>]

\* The questions determine the response but for its ID and TTL.
LEMMA QuestionsDecide ==
    ASSUME NEW q
    PROVE  Payload(Computed(q)) = Said(fallback, q.questions)
<1> DEFINE qs == q.questions
           denied == \E i \in DOMAIN qs : Normalized(qs[i].name) \in Denied
<1>1. CASE qs = <<>>
  BY <1>1 DEF Computed, Said, Payload, Response
<1>2. CASE qs # <<>> /\ Known(qs)
  BY <1>2 DEF Computed, Said, Payload, Response
<1>3. CASE qs # <<>> /\ ~Known(qs) /\ denied
  BY <1>3 DEF Computed, Said, Payload, Response
<1>4. CASE qs # <<>> /\ ~Known(qs) /\ ~denied
  BY <1>4 DEF Computed, Said, Payload, Response, Forwarded
<1>5. QED
  BY <1>1, <1>2, <1>3, <1>4

\* The TTL of a response is written over, and nothing else.
LEMMA RewrittenKeeps ==
    ASSUME NEW q
    PROVE  /\ Rewritten(Computed(q)).rcode = Computed(q).rcode
           /\ Payload(Rewritten(Computed(q))) = Payload(Computed(q))
<1> DEFINE r == Computed(q)
<1>1. \E id, rcode, qs, answers, ttl : r = Response(id, rcode, qs, answers, ttl)
  BY DEF Computed, Forwarded
<1> HIDE DEF r
<1>2. Rewritten(r).rcode = r.rcode /\ Rewritten(r).answers = r.answers
  BY <1>1 DEF Rewritten, Response
<1>3. QED
  BY <1>2 DEF Payload, r

\* Only queries that ask the same share a key of the cache.
LEMMA KeyIdentifies ==
    ASSUME NEW p \in Queries, NEW q \in Queries, CacheKey(p.questions) = CacheKey(q.questions)
    PROVE  p.questions = q.questions
<1> DEFINE ps == p.questions
           qs == q.questions
<1>1. ps \in Seq(Questions) /\ qs \in Seq(Questions)
  BY QueriesAssumption
<1> HIDE DEF ps, qs
<1>2. DOMAIN CacheKey(ps) = DOMAIN ps /\ DOMAIN CacheKey(qs) = DOMAIN qs
  BY DEF CacheKey
<1>3. DOMAIN ps = DOMAIN qs
  BY <1>2 DEF ps, qs
<1>4. ASSUME NEW i \in DOMAIN ps PROVE ps[i] = qs[i]
  <2>1. CacheKey(ps)[i] = <<ps[i].name, ps[i].type>> /\ CacheKey(qs)[i] = <<qs[i].name, qs[i].type>>
    BY <1>3 DEF CacheKey
  <2>2. CacheKey(ps)[i] = CacheKey(qs)[i]
    BY DEF ps, qs
  <2>3. ps[i].name = qs[i].name /\ ps[i].type = qs[i].type
    BY <2>1, <2>2
  <2>4. ps[i] \in Questions /\ qs[i] \in Questions
    BY <1>1, <1>3
  <2>5. QED
    BY <2>3, <2>4 DEF Questions
<1>5. ps = qs
  BY <1>1, <1>3, <1>4
<1>6. QED
  BY <1>5 DEF ps, qs

\* The answer to one question: the records, of its type, of the host found.
LEMMA OneQuestion ==
    ASSUME NEW q, NEW qs, qs = <<q>>
    PROVE  /\ Known(qs) <=> HostOf(q) # NoHost
           /\ HostOf(q) # NoHost =>
                Range(Answers(qs)) =
                    {r \in Range(HostOf(q)) : r.type = q.type /\ r.type \notin Unencodable}
<1>1. qs # <<>> /\ DOMAIN qs = {1} /\ qs[1] = q
  OBVIOUS
<1>2. Known(qs) <=> HostOf(q) # NoHost
  BY <1>1 DEF Known
<1>3. ASSUME HostOf(q) # NoHost
      PROVE  Range(Answers(qs)) =
                {r \in Range(HostOf(q)) : r.type = q.type /\ r.type \notin Unencodable}
  <2> DEFINE h == HostOf(q)
             record(place) == HostOf(qs[place[1]])[place[2]]
             places == {p \in AllMatching(qs) : record(p).type \notin Unencodable}
             js == {j \in DOMAIN h : h[j].type = q.type}
  <2>1. AllMatching(qs) = {1} \X js
    BY <1>1, <1>3 DEF AllMatching, Matching
  <2>2. \A p \in {1} \X js : p[1] = 1 /\ p[2] \in js /\ p = <<1, p[2]>>
    OBVIOUS
  <2>3. \A p \in {1} \X js : record(p) = h[p[2]]
    BY <1>1, <2>2
  <2>4. Answers(qs) = [p \in places |-> record(p)]
    BY DEF Answers
  <2>5. Range(Answers(qs)) = {record(p) : p \in places}
    BY <2>4 DEF Range
  <2>6. ASSUME NEW r \in {record(p) : p \in places}
        PROVE  r \in Range(h) /\ r.type = q.type /\ r.type \notin Unencodable
    <3>1. PICK p \in places : r = record(p)
      BY <2>6
    <3>2. p \in {1} \X js
      BY <2>1
    <3>3. p[2] \in js /\ r = h[p[2]]
      BY <2>2, <2>3, <3>1, <3>2
    <3>4. r.type \notin Unencodable
      BY <3>1
    <3>5. QED
      BY <3>3, <3>4 DEF Range
  <2>7. ASSUME NEW r \in Range(h), r.type = q.type, r.type \notin Unencodable
        PROVE  r \in {record(p) : p \in places}
    <3>1. PICK j \in DOMAIN h : r = h[j]
      BY DEF Range
    <3>2. <<1, j>> \in {1} \X js /\ <<1, j>>[2] = j
      BY <2>7, <3>1
    <3>3. record(<<1, j>>) = r
      BY <2>3, <3>1, <3>2
    <3>4. <<1, j>> \in places
      BY <2>1, <2>7, <3>2, <3>3
    <3>5. QED
      BY <3>3, <3>4
  <2> HIDE DEF h, record, places, js
  <2>8. QED
    BY <2>5, <2>6, <2>7 DEF h
<1>4. QED
  BY <1>2, <1>3

\* A name in lower case is still a sequence of labels.
LEMMA NormalizedIsName ==
    ASSUME NEW name \in Seq(STRING)
    PROVE  \E S : /\ Normalized(name) \in Seq(S)
                  /\ DOMAIN Hosts \subseteq [wild : BOOLEAN, labels : Seq(S)]
<1> DEFINE L == {Lower(name[i]) : i \in 1..Len(name)}
           S == STRING \cup L
<1>1. Normalized(name) = [i \in 1..Len(name) |-> Lower(name[i])]
  BY DEF Normalized
<1>2. \A i \in 1..Len(name) : Lower(name[i]) \in S
  OBVIOUS
<1>3. ASSUME NEW s \in Seq(STRING) PROVE s \in Seq(S)
  <2>1. \A i \in 1..Len(s) : s[i] \in S
    OBVIOUS
  <2> HIDE DEF S
  <2>2. QED
    BY <2>1
<1> HIDE DEF S
<1>4. Normalized(name) \in Seq(S)
  BY <1>1, <1>2
<1>5. DOMAIN Hosts \subseteq [wild : BOOLEAN, labels : Seq(S)]
  BY <1>3, HostsAssumption
<1>6. QED
  BY <1>4, <1>5

\* What is said to one question is what the host closest to its name has.
LEMMA ClosestSays ==
    ASSUME NEW q \in Questions, NEW qs, qs = <<q>>, NEW set, NEW said, said = Said(set, qs)
    PROVE  \E h \in ClosestHosts(Hosts, Normalized(q.name)) :
              IF h = NoHost THEN said.rcode # "NOERROR"
              ELSE /\ said.rcode = "NOERROR"
                   /\ Range(said.answers) =
                        {r \in Range(h) : r.type = q.type /\ r.type \notin Unencodable}
<1>1. HostOf(q) \in ClosestHosts(Hosts, Normalized(q.name))
  <2>1. q.name \in Seq(STRING)
    BY DEF Questions
  <2>2. QED
    BY <2>1, NormalizedIsName, ClosestIsFound DEF HostOf
<1>2. qs # <<>>
  OBVIOUS
<1>3. CASE HostOf(q) = NoHost
  <2>1. ~Known(qs)
    BY <1>3, OneQuestion
  <2>2. said.rcode # "NOERROR"
    BY <1>2, <2>1 DEF Said
  <2>3. QED
    BY <1>1, <1>3, <2>2
<1>4. CASE HostOf(q) # NoHost
  <2>1. said = [rcode |-> "NOERROR", answers |-> Answers(qs)]
    BY <1>2, <1>4, OneQuestion DEF Said
  <2>2. Range(Answers(qs)) = {r \in Range(HostOf(q)) : r.type = q.type /\ r.type \notin Unencodable}
    BY <1>4, OneQuestion
  <2>3. QED
    BY <1>1, <1>4, <2>1, <2>2
<1>5. QED
  BY <1>3, <1>4

-----------------------------------------------------------------------------
(* DnsResolver: the cache.                                                  *)

\* An entry is what would be computed for a query that has its key, and as old
\* as its insertion says.
EntriesAreComputed ==
    \A k \in ToSet(keys) :
        /\ entry[k].insertedAt = born[k]
        /\ \E q \in Queries : /\ CacheKey(q.questions) = k /\ Cacheable(q)
                              /\ entry[k].response = Rewritten(Computed(q))

\* What was answered last is, ID and TTL apart, what would be computed.
LastIsComputed ==
    /\ last.query.wellFormed =>
          last.query \in Queries /\ Payload(last.response) = Said(fallback, last.query.questions)
    /\ last.hit => last.query.wellFormed /\ last.response.rcode # "REFUSED"

CacheInv ==
    /\ TypeOK
    /\ EntriesAreComputed
    /\ LastIsComputed
    /\ NoStaleHit
    /\ OldestUseGoesFirst

\* The elements of s are in t, in the same order.
InOrder(s, t) ==
    /\ ToSet(s) \subseteq ToSet(t)
    /\ \A i, j \in DOMAIN s : i < j =>
          \E a, b \in DOMAIN t : a < b /\ s[i] = t[a] /\ s[j] = t[b]

LEMMA InOrderItself ==
    ASSUME NEW s
    PROVE  InOrder(s, s)
BY DEF InOrder

LEMMA InOrderInTurn ==
    ASSUME NEW s, NEW t, NEW u, InOrder(s, t), InOrder(t, u)
    PROVE  InOrder(s, u)
<1>1. ToSet(s) \subseteq ToSet(u)
  BY DEF InOrder
<1>2. ASSUME NEW i \in DOMAIN s, NEW j \in DOMAIN s, i < j
      PROVE  \E a, b \in DOMAIN u : a < b /\ s[i] = u[a] /\ s[j] = u[b]
  <2>1. PICK a, b \in DOMAIN t : a < b /\ s[i] = t[a] /\ s[j] = t[b]
    BY <1>2 DEF InOrder
  <2>2. QED
    BY <2>1 DEF InOrder
<1>3. QED
  BY <1>1, <1>2 DEF InOrder

\* What is removed is the element at its place, when it stands at one only.
LEMMA PlaceFound ==
    ASSUME NEW S, NEW s \in Seq(S), IsInjective(s), NEW k, NEW p \in 1..Len(s), s[p] = k
    PROVE  RemoveFirst(s, k) = RemoveAt(s, p)
<1> DEFINE I == {i \in 1..Len(s) : s[i] = k}
<1>1. I = {p}
  BY DEF IsInjective
<1>2. Min(I) = p
  <2>1. p \in I /\ \A n \in I : p <= n
    BY <1>1
  <2>2. \A m \in I : m = p
    BY <1>1
  <2> HIDE DEF I
  <2>3. QED
    BY <2>1, <2>2 DEF Min
<1>3. I # {}
  BY <1>1
<1> HIDE DEF I
<1>4. RemoveFirst(s, k) = RemoveAt(s, IF I # {} THEN Min(I) ELSE 0)
  BY DEF RemoveFirst, SelectInSeq, I
<1>5. QED
  BY <1>2, <1>3, <1>4

\* One element less, and the others in their order.
LEMMA Removed ==
    ASSUME NEW S, NEW s \in Seq(S), IsInjective(s), NEW k, NEW r, r = RemoveFirst(s, k)
    PROVE  /\ r \in Seq(S) /\ IsInjective(r)
           /\ Len(r) <= Len(s) /\ (k \in ToSet(s) => Len(r) < Len(s))
           /\ ToSet(r) = ToSet(s) \ {k} /\ InOrder(r, s)
<1>1. Len(s) \in Nat /\ DOMAIN s = 1..Len(s) /\ \A i \in 1..Len(s) : s[i] \in S
  OBVIOUS
<1>2. CASE k \notin ToSet(s)
  <2>1. r = s
    BY <1>1, <1>2 DEF RemoveFirst, ToSet
  <2>2. QED
    BY <1>1, <1>2, <2>1, InOrderItself
<1>3. CASE k \in ToSet(s)
  <2>1. PICK p \in 1..Len(s) : s[p] = k
    BY <1>1, <1>3 DEF ToSet
  <2>2. r = SubSeq(s, 1, p - 1) \o SubSeq(s, p + 1, Len(s))
    <3>1. r = RemoveAt(s, p)
      BY <2>1, PlaceFound
    <3>2. QED
      BY <3>1 DEF RemoveAt
  <2> DEFINE u == SubSeq(s, 1, p - 1)
             v == SubSeq(s, p + 1, Len(s))
  <2>3. /\ u \in Seq(S) /\ Len(u) = p - 1
        /\ \A i \in 1..(p - 1) : u[i] = s[i]
    <3>1. 1 \in Int /\ p - 1 \in Int /\ \A i \in 1..(p - 1) : s[i] \in S
      BY <1>1, <2>1
    <3>2. /\ u \in Seq(S) /\ Len(u) = IF 1 <= p - 1 THEN p - 1 - 1 + 1 ELSE 0
          /\ \A i \in 1..(p - 1 - 1 + 1) : u[i] = s[1 + i - 1]
      BY <3>1, SubSeqProperties
    <3>3. p \in Nat /\ p >= 1 /\ p - 1 - 1 + 1 = p - 1 /\ \A i \in 1..(p - 1) : 1 + i - 1 = i
      BY <1>1, <2>1
    <3> HIDE DEF u
    <3>4. QED
      BY <3>2, <3>3
  <2>4. /\ v \in Seq(S) /\ Len(v) = Len(s) - p
        /\ \A i \in 1..(Len(s) - p) : v[i] = s[p + i]
    <3>1. p + 1 \in Int /\ Len(s) \in Int /\ \A i \in (p + 1)..Len(s) : s[i] \in S
      BY <1>1, <2>1
    <3>2. /\ v \in Seq(S) /\ Len(v) = IF p + 1 <= Len(s) THEN Len(s) - (p + 1) + 1 ELSE 0
          /\ \A i \in 1..(Len(s) - (p + 1) + 1) : v[i] = s[p + 1 + i - 1]
      BY <3>1, SubSeqProperties
    <3>3. /\ p \in Nat /\ p <= Len(s) /\ Len(s) - (p + 1) + 1 = Len(s) - p
          /\ \A i \in 1..(Len(s) - p) : p + 1 + i - 1 = p + i
      BY <1>1, <2>1
    <3> HIDE DEF v
    <3>4. Len(v) = Len(s) - p
      <4>1. CASE p + 1 <= Len(s)
        BY <3>2, <3>3, <4>1
      <4>2. CASE ~(p + 1 <= Len(s))
        <5>1. Len(s) = p
          <6>1. \A m, n \in Nat : m <= n /\ ~(m + 1 <= n) => n = m
            OBVIOUS
          <6>2. QED
            BY <1>1, <3>3, <4>2, <6>1, Zenon
        <5>2. Len(v) = 0
          BY <3>2, <4>2
        <5>3. QED
          BY <3>3, <5>1, <5>2
      <4>3. QED
        BY <4>1, <4>2
    <3>5. \A i \in 1..(Len(s) - p) : v[i] = s[p + i]
      BY <3>2, <3>3
    <3>6. QED
      BY <3>2, <3>4, <3>5
  <2> HIDE DEF u, v
  <2> DEFINE from(j) == IF j < p THEN j ELSE j + 1
  <2>5. r \in Seq(S) /\ Len(r) = Len(s) - 1 /\ DOMAIN r = 1..(Len(s) - 1)
    <3>1. r \in Seq(S) /\ Len(r) = Len(u) + Len(v)
      BY <2>2, <2>3, <2>4, ConcatProperties DEF u, v
    <3>2. Len(r) = Len(s) - 1
      BY <1>1, <2>1, <2>3, <2>4, <3>1
    <3>3. QED
      BY <3>1, <3>2
  <2>6. ASSUME NEW j \in 1..(Len(s) - 1)
        PROVE  from(j) \in 1..Len(s) /\ from(j) # p /\ r[j] = s[from(j)]
    <3>1. j \in Nat /\ j >= 1 /\ j <= Len(s) - 1 /\ p \in Nat /\ p >= 1 /\ p <= Len(s)
      BY <1>1, <2>1
    <3>2. j \in 1..(Len(u) + Len(v))
      BY <1>1, <2>3, <2>4, <3>1
    <3>3. r[j] = IF j <= Len(u) THEN u[j] ELSE v[j - Len(u)]
      <4>1. r = u \o v
        BY <2>2 DEF u, v
      <4>2. QED
        BY <2>3, <2>4, <3>2, <4>1, ConcatProperties
    <3>4. CASE j < p
      <4>1. j <= Len(u) /\ j \in 1..(p - 1) /\ from(j) = j /\ j \in 1..Len(s)
        BY <1>1, <2>3, <3>1, <3>4
      <4>2. QED
        BY <2>3, <3>1, <3>3, <3>4, <4>1
    <3>5. CASE ~(j < p)
      <4>1. /\ ~(j <= Len(u)) /\ j - Len(u) \in 1..(Len(s) - p) /\ p + (j - Len(u)) = j + 1
            /\ from(j) = j + 1 /\ j + 1 \in 1..Len(s) /\ j + 1 # p
        BY <1>1, <2>3, <3>1, <3>5
      <4>2. r[j] = v[j - Len(u)] /\ v[j - Len(u)] = s[j + 1]
        BY <2>4, <3>3, <4>1
      <4>3. QED
        BY <4>1, <4>2
    <3>6. QED
      BY <3>4, <3>5
  <2>7. \A i, j \in 1..(Len(s) - 1) : /\ from(i) = from(j) => i = j
                                      /\ i < j => from(i) < from(j)
    BY <1>1, <2>1
  <2>8. ASSUME NEW m \in 1..Len(s), m # p
        PROVE  \E j \in 1..(Len(s) - 1) : from(j) = m
    <3>1. CASE m < p
      BY <1>1, <2>1, <3>1
    <3>2. CASE ~(m < p)
      <4>1. m - 1 \in 1..(Len(s) - 1) /\ from(m - 1) = m
        BY <1>1, <2>1, <2>8, <3>2
      <4>2. QED
        BY <4>1
    <3>3. QED
      BY <3>1, <3>2
  <2> HIDE DEF from
  <2>9. IsInjective(r)
    BY <1>1, <2>5, <2>6, <2>7 DEF IsInjective
  <2>10. \A m \in 1..Len(s) : s[m] = k => m = p
    BY <1>1, <2>1 DEF IsInjective
  <2>11. ToSet(r) = ToSet(s) \ {k}
    <3>1. ASSUME NEW x \in ToSet(r) PROVE x \in ToSet(s) \ {k}
      BY <1>1, <2>5, <2>6, <2>10, <3>1 DEF ToSet
    <3>2. ASSUME NEW x \in ToSet(s) \ {k} PROVE x \in ToSet(r)
      <4>1. PICK m \in 1..Len(s) : s[m] = x
        BY <1>1 DEF ToSet
      <4>2. PICK j \in 1..(Len(s) - 1) : from(j) = m
        BY <2>1, <2>8, <3>2, <4>1
      <4>3. QED
        BY <2>5, <2>6, <4>1, <4>2 DEF ToSet
    <3>3. QED
      BY <3>1, <3>2
  <2>12. InOrder(r, s)
    <3>1. ASSUME NEW i \in DOMAIN r, NEW j \in DOMAIN r, i < j
          PROVE  \E a, b \in DOMAIN s : a < b /\ r[i] = s[a] /\ r[j] = s[b]
      <4>1. /\ from(i) \in DOMAIN s /\ from(j) \in DOMAIN s /\ from(i) < from(j)
            /\ r[i] = s[from(i)] /\ r[j] = s[from(j)]
        BY <1>1, <2>5, <2>6, <2>7, <3>1
      <4>2. QED
        BY <4>1
    <3>2. QED
      BY <2>11, <3>1 DEF InOrder
  <2>13. QED
    BY <1>1, <2>5, <2>9, <2>11, <2>12
<1>4. QED
  BY <1>2, <1>3

\* What the eviction leaves has room for one key more.
LEMMA RoomMade ==
    ASSUME NEW S, NEW s \in Seq(S), IsInjective(s), Len(s) <= CacheMaxSize,
           NEW r, r = RoomFor(s)
    PROVE  r \in Seq(S) /\ IsInjective(r) /\ Len(r) < CacheMaxSize /\ InOrder(r, s)
<1>1. /\ Len(s) \in Nat /\ DOMAIN s = 1..Len(s)
      /\ CacheMaxSize \in Nat /\ CacheMaxSize >= 1
  BY CacheMaxSizeAssumption
<1>2. CASE Len(s) >= CacheMaxSize
  <2>1. s # <<>> /\ r = Tail(s)
    BY <1>1, <1>2 DEF RoomFor
  <2>2. r \in Seq(S) /\ Len(r) = Len(s) - 1 /\ \A i \in 1..Len(r) : r[i] = s[i + 1]
    BY <2>1, HeadTailProperties
  <2>3. DOMAIN r = 1..Len(r) /\ \A i \in 1..Len(r) : i + 1 \in 1..Len(s)
    BY <1>1, <2>2
  <2>4. IsInjective(r)
    <3> SUFFICES ASSUME NEW i \in 1..Len(r), NEW j \in 1..Len(r), r[i] = r[j] PROVE i = j
      BY <2>3 DEF IsInjective
    <3>1. s[i + 1] = s[j + 1]
      BY <2>2
    <3>2. i + 1 = j + 1
      BY <1>1, <2>3, <3>1 DEF IsInjective
    <3>3. QED
      BY <3>2
  <2>5. InOrder(r, s)
    <3>1. ToSet(r) \subseteq ToSet(s)
      BY <1>1, <2>2, <2>3 DEF ToSet
    <3>2. ASSUME NEW i \in DOMAIN r, NEW j \in DOMAIN r, i < j
          PROVE  \E a, b \in DOMAIN s : a < b /\ r[i] = s[a] /\ r[j] = s[b]
      <4>1. i + 1 \in DOMAIN s /\ j + 1 \in DOMAIN s /\ i + 1 < j + 1
        BY <1>1, <2>3, <3>2
      <4>2. r[i] = s[i + 1] /\ r[j] = s[j + 1]
        BY <2>2, <2>3
      <4>3. QED
        BY <4>1, <4>2
    <3>3. QED
      BY <3>1, <3>2 DEF InOrder
  <2>6. Len(r) < CacheMaxSize
    BY <1>1, <2>2
  <2>7. QED
    BY <2>2, <2>4, <2>5, <2>6
<1>3. CASE ~(Len(s) >= CacheMaxSize)
  <2>1. r = s
    BY <1>3 DEF RoomFor
  <2>2. QED
    BY <1>1, <1>3, <2>1, InOrderItself
<1>4. QED
  BY <1>2, <1>3

\* One element more, at the end.
LEMMA Appended ==
    ASSUME NEW S, NEW s \in Seq(S), IsInjective(s), NEW k \in S, k \notin ToSet(s)
    PROVE  /\ Append(s, k) \in Seq(S) /\ IsInjective(Append(s, k))
           /\ Len(Append(s, k)) = Len(s) + 1 /\ DOMAIN Append(s, k) = 1..(Len(s) + 1)
           /\ Append(s, k)[Len(s) + 1] = k /\ \A i \in 1..Len(s) : Append(s, k)[i] = s[i]
           /\ ToSet(Append(s, k)) = ToSet(s) \cup {k}
<1> DEFINE t == Append(s, k)
<1>1. /\ Len(s) \in Nat /\ DOMAIN s = 1..Len(s)
      /\ \A i \in 1..(Len(s) + 1) : i \in 1..Len(s) \/ i = Len(s) + 1
      /\ \A i \in 1..Len(s) : i \in 1..(Len(s) + 1)
      /\ Len(s) + 1 \in 1..(Len(s) + 1)
  OBVIOUS
<1>2. /\ t \in Seq(S) /\ Len(t) = Len(s) + 1 /\ DOMAIN t = 1..(Len(s) + 1)
      /\ \A i \in 1..Len(s) : t[i] = s[i]
      /\ t[Len(s) + 1] = k
  <2>1. t \in Seq(S) /\ Len(t) = Len(s) + 1
    BY AppendProperties
  <2>2. QED
    BY <2>1, AppendProperties
<1> HIDE DEF t
<1>3. \A i \in 1..Len(s) : s[i] # k
  BY <1>1 DEF ToSet
<1>4. IsInjective(t)
  BY <1>1, <1>2, <1>3 DEF IsInjective
<1>5. ToSet(t) = ToSet(s) \cup {k}
  <2>1. \A x \in ToSet(t) : x \in ToSet(s) \cup {k}
    BY <1>1, <1>2 DEF ToSet
  <2>2. \A x \in ToSet(s) \cup {k} : x \in ToSet(t)
    BY <1>1, <1>2 DEF ToSet
  <2>3. QED
    BY <2>1, <2>2
<1>6. QED
  BY <1>2, <1>4, <1>5 DEF t

\* What became of the keys when one of them was used: it is the last of them,
\* the history says so, and nothing of their order has changed otherwise.
LEMMA KeysUsed ==
    ASSUME TypeOK, OldestUseGoesFirst, NEW k \in AllKeys,
           NEW s \in Seq(AllKeys), IsInjective(s), Len(s) < CacheMaxSize,
           k \notin ToSet(s), InOrder(s, keys), keys' = Append(s, k), Used(k)
    PROVE  /\ keys' \in Seq(AllKeys) /\ IsInjective(keys') /\ Len(keys') <= CacheMaxSize
           /\ ToSet(keys') = ToSet(s) \cup {k}
           /\ recency' \subseteq AllKeys \X AllKeys
           /\ OldestUseGoesFirst'
<1> DEFINE t == keys'
<1>1. t = Append(s, k)
  OBVIOUS
<1>2. recency' = {p \in recency : p[1] # k /\ p[2] # k /\ {p[1], p[2]} \subseteq ToSet(t)}
                     \cup ((ToSet(t) \ {k}) \X {k})
  BY DEF Used
<1> HIDE DEF t
<1>3. /\ t \in Seq(AllKeys) /\ IsInjective(t) /\ Len(t) = Len(s) + 1
      /\ DOMAIN t = 1..(Len(s) + 1) /\ t[Len(s) + 1] = k
      /\ \A i \in 1..Len(s) : t[i] = s[i]
      /\ ToSet(t) = ToSet(s) \cup {k}
  BY <1>1, Appended
<1>4. Len(s) \in Nat /\ DOMAIN s = 1..Len(s) /\ CacheMaxSize \in Nat
  BY CacheMaxSizeAssumption
<1>5. Len(t) <= CacheMaxSize
  BY <1>3, <1>4
<1>6. recency' \subseteq AllKeys \X AllKeys
  <2>1. ToSet(t) \subseteq AllKeys
    BY <1>3, <1>4 DEF ToSet
  <2>2. QED
    BY <1>2, <2>1 DEF TypeOK
<1>7. ASSUME NEW i \in DOMAIN t, NEW j \in DOMAIN t, i < j PROVE <<t[i], t[j]>> \in recency'
  <2>1. i \in 1..Len(s) /\ (j \in 1..Len(s) \/ j = Len(s) + 1)
    BY <1>3, <1>4, <1>7
  <2>2. s[i] \in ToSet(s) /\ s[i] # k /\ t[i] = s[i]
    BY <1>3, <1>4, <2>1 DEF ToSet
  <2>3. CASE j \in 1..Len(s)
    <3>1. s[j] \in ToSet(s) /\ s[j] # k /\ t[j] = s[j]
      BY <1>3, <1>4, <2>3 DEF ToSet
    <3>2. PICK a, b \in DOMAIN keys : a < b /\ s[i] = keys[a] /\ s[j] = keys[b]
      BY <1>4, <1>7, <2>1, <2>3 DEF InOrder
    <3>3. <<s[i], s[j]>> \in recency
      BY <3>2 DEF OldestUseGoesFirst
    <3>4. QED
      BY <1>3, <1>2, <2>2, <3>1, <3>3
  <2>4. CASE j = Len(s) + 1
    <3>1. t[j] = k /\ t[i] \in ToSet(t) \ {k}
      BY <1>3, <2>2, <2>4
    <3>2. QED
      BY <1>2, <3>1
  <2>5. QED
    BY <2>1, <2>3, <2>4
<1>8. OldestUseGoesFirst'
  BY <1>7 DEF OldestUseGoesFirst, t
<1>9. QED
  BY <1>3, <1>5, <1>6, <1>8 DEF t

\* Whether config.fallbackDns is set is all of the state a response depends on.
LEMMA ComputedKept ==
    ASSUME fallback' = fallback, NEW q
    PROVE  Computed(q)' = Computed(q) /\ Cacheable(q)' = Cacheable(q)
<1>1. Computed(q)' = Computed(q)
  BY DEF Computed
<1>2. QED
  BY <1>1 DEF Cacheable

LEMMA KeyOfQuery ==
    ASSUME NEW q \in Queries
    PROVE  CacheKey(q.questions) \in AllKeys
BY DEF AllKeys

LEMMA CacheInit == Init => CacheInv
<1> SUFFICES ASSUME Init PROVE CacheInv
  OBVIOUS
<1>1. /\ keys = <<>> /\ ToSet(keys) = {} /\ DOMAIN entry = {} /\ DOMAIN born = {} /\ recency = {}
      /\ fallback \in BOOLEAN /\ now = 0
      /\ last = [query |-> NoQuery, response |-> Silence, hit |-> FALSE, age |-> 0]
      /\ ~NoQuery.wellFormed
  BY DEF Init, ToSet, NoQuery
<1>2. TypeOK
  <2>1. <<>> \in Seq(AllKeys) /\ Len(<<>>) = 0 /\ IsInjective(<<>>)
    BY DEF IsInjective
  <2>2. now \in 0..MaxTime /\ 0 <= CacheMaxSize
    BY <1>1, MaxTimeAssumption, CacheMaxSizeAssumption
  <2>3. QED
    BY <1>1, <2>1, <2>2 DEF TypeOK
<1>3. EntriesAreComputed /\ LastIsComputed /\ NoStaleHit /\ OldestUseGoesFirst
  BY <1>1 DEF EntriesAreComputed, LastIsComputed, NoStaleHit, OldestUseGoesFirst
<1>4. QED
  BY <1>2, <1>3 DEF CacheInv

LEMMA MalformedKeeps ==
    ASSUME CacheInv, NEW q \in Queries, ResolveMalformed(q)
    PROVE  CacheInv'
<1> USE DEF ResolveMalformed, ObserveMiss
<1>1. last' = [query |-> q, response |-> Silence, hit |-> FALSE, age |-> 0] /\ ~q.wellFormed
  OBVIOUS
<1>2. UNCHANGED <<fallback, now, keys, entry, born, recency>>
  OBVIOUS
<1>3. TypeOK'
  BY <1>1, <1>2 DEF CacheInv, TypeOK
<1>4. EntriesAreComputed'
  BY <1>2, ComputedKept DEF CacheInv, EntriesAreComputed
<1>5. LastIsComputed' /\ NoStaleHit' /\ OldestUseGoesFirst'
  BY <1>1, <1>2 DEF CacheInv, LastIsComputed, NoStaleHit, OldestUseGoesFirst
<1>6. QED
  BY <1>3, <1>4, <1>5 DEF CacheInv

LEMMA HitKeeps ==
    ASSUME CacheInv, NEW q \in Queries, ResolveHit(q)
    PROVE  CacheInv'
<1> DEFINE k == CacheKey(q.questions)
           s == Without(k)
<1>1. /\ q.wellFormed /\ k \in ToSet(keys) /\ now - entry[k].insertedAt < CacheTtl
      /\ keys' = Append(s, k) /\ Used(k)
      /\ last' = [query |-> q, response |-> entry[k].response, hit |-> TRUE, age |-> now - born[k]]
      /\ UNCHANGED <<fallback, now, entry, born>>
  BY DEF ResolveHit, Fresh, ObserveHit
<1>2. k \in AllKeys
  BY KeyOfQuery
<1>3. /\ keys \in Seq(AllKeys) /\ IsInjective(keys) /\ Len(keys) <= CacheMaxSize
      /\ Len(keys) \in Nat /\ CacheMaxSize \in Nat
  BY CacheMaxSizeAssumption DEF CacheInv, TypeOK
<1>4. s = RemoveFirst(keys, k)
  BY DEF Without
<1> HIDE DEF k, s
<1>5. /\ s \in Seq(AllKeys) /\ IsInjective(s) /\ Len(s) < Len(keys)
      /\ ToSet(s) = ToSet(keys) \ {k} /\ InOrder(s, keys)
  BY <1>1, <1>3, <1>4, Removed
<1>6. Len(s) < CacheMaxSize
  BY <1>3, <1>5
<1>7. /\ keys' \in Seq(AllKeys) /\ IsInjective(keys') /\ Len(keys') <= CacheMaxSize
      /\ ToSet(keys') = ToSet(keys)
      /\ recency' \subseteq AllKeys \X AllKeys
      /\ OldestUseGoesFirst'
  <2>1. k \notin ToSet(s) /\ ToSet(s) \cup {k} = ToSet(keys)
    BY <1>1, <1>5
  <2>2. QED
    BY <1>1, <1>2, <1>5, <1>6, <2>1, KeysUsed DEF CacheInv
<1>8. TypeOK'
  BY <1>1, <1>7 DEF CacheInv, TypeOK
<1>9. EntriesAreComputed'
  BY <1>1, <1>7, ComputedKept DEF CacheInv, EntriesAreComputed
<1>10. LastIsComputed'
  <2>1. PICK p \in Queries : /\ CacheKey(p.questions) = k /\ Cacheable(p)
                             /\ entry[k].response = Rewritten(Computed(p))
    BY <1>1 DEF CacheInv, EntriesAreComputed
  <2>2. p.questions = q.questions
    BY <2>1, KeyIdentifies DEF k
  <2>3. /\ entry[k].response.rcode = Computed(p).rcode
        /\ Payload(entry[k].response) = Payload(Computed(p))
    BY <2>1, RewrittenKeeps
  <2>4. Payload(entry[k].response) = Said(fallback, q.questions)
    BY <2>2, <2>3, QuestionsDecide
  <2>5. entry[k].response.rcode # "REFUSED"
    BY <2>1, <2>3 DEF Cacheable
  <2>6. last'.query = q /\ last'.response = entry[k].response /\ fallback' = fallback
    BY <1>1
  <2>7. QED
    BY <1>1, <2>4, <2>5, <2>6 DEF LastIsComputed
<1>11. NoStaleHit'
  <2>1. now - born[k] < CacheTtl
    BY <1>1 DEF CacheInv, EntriesAreComputed
  <2>2. QED
    BY <1>1, <2>1 DEF NoStaleHit
<1>12. QED
  BY <1>7, <1>8, <1>9, <1>10, <1>11 DEF CacheInv

LEMMA StoredKeeps ==
    ASSUME CacheInv, NEW q \in Queries, ResolveStored(q)
    PROVE  CacheInv'
<1> DEFINE k == CacheKey(q.questions)
           left0 == Without(k)
           s == RoomFor(left0)
<1>1. /\ q.wellFormed /\ Cacheable(q)
      /\ keys' = Append(s, k) /\ Used(k)
      /\ entry' = [x \in ToSet(keys') |->
                      IF x = k THEN [response |-> Rewritten(Computed(q)), insertedAt |-> now]
                      ELSE entry[x]]
      /\ born' = [x \in ToSet(keys') |-> IF x = k THEN now ELSE born[x]]
      /\ last' = [query |-> q, response |-> Computed(q), hit |-> FALSE, age |-> 0]
      /\ UNCHANGED <<fallback, now>>
  BY DEF ResolveStored, ObserveMiss
<1>2. k \in AllKeys
  BY KeyOfQuery
<1>3. /\ keys \in Seq(AllKeys) /\ IsInjective(keys) /\ Len(keys) <= CacheMaxSize
      /\ Len(keys) \in Nat /\ CacheMaxSize \in Nat
  BY CacheMaxSizeAssumption DEF CacheInv, TypeOK
<1>4. left0 = RemoveFirst(keys, k) /\ s = RoomFor(left0)
  BY DEF Without
<1> HIDE DEF k, left0, s
<1>5. /\ left0 \in Seq(AllKeys) /\ IsInjective(left0) /\ Len(left0) <= CacheMaxSize
      /\ ToSet(left0) = ToSet(keys) \ {k} /\ InOrder(left0, keys)
  <2>1. /\ left0 \in Seq(AllKeys) /\ IsInjective(left0) /\ Len(left0) <= Len(keys)
        /\ ToSet(left0) = ToSet(keys) \ {k} /\ InOrder(left0, keys)
    BY <1>3, <1>4, Removed
  <2>2. Len(left0) \in Nat
    BY <2>1
  <2>3. QED
    BY <1>3, <2>1, <2>2
<1>6. s \in Seq(AllKeys) /\ IsInjective(s) /\ Len(s) < CacheMaxSize /\ InOrder(s, left0)
  BY <1>4, <1>5, RoomMade
<1>7. InOrder(s, keys) /\ ToSet(s) \subseteq ToSet(keys) \ {k}
  <2>1. ToSet(s) \subseteq ToSet(left0)
    BY <1>6 DEF InOrder
  <2>2. QED
    BY <1>5, <1>6, <2>1, InOrderInTurn
<1>8. /\ keys' \in Seq(AllKeys) /\ IsInjective(keys') /\ Len(keys') <= CacheMaxSize
      /\ ToSet(keys') = ToSet(s) \cup {k}
      /\ recency' \subseteq AllKeys \X AllKeys
      /\ OldestUseGoesFirst'
  <2>1. k \notin ToSet(s)
    BY <1>7
  <2>2. QED
    BY <1>1, <1>2, <1>6, <1>7, <2>1, KeysUsed DEF CacheInv
<1>9. TypeOK'
  BY <1>1, <1>8 DEF CacheInv, TypeOK
<1>10. EntriesAreComputed'
  <2> SUFFICES ASSUME NEW x \in ToSet(keys')
               PROVE  /\ entry'[x].insertedAt = born'[x]
                      /\ \E p \in Queries : /\ CacheKey(p.questions) = x /\ Cacheable(p)
                                            /\ entry'[x].response = Rewritten(Computed(p))
    BY <1>1, ComputedKept DEF EntriesAreComputed
  <2>1. CASE x = k
    <3>1. entry'[x] = [response |-> Rewritten(Computed(q)), insertedAt |-> now] /\ born'[x] = now
      BY <1>1, <2>1
    <3>2. CacheKey(q.questions) = x
      BY <2>1 DEF k
    <3>3. QED
      BY <1>1, <3>1, <3>2
  <2>2. CASE x # k
    <3>1. entry'[x] = entry[x] /\ born'[x] = born[x] /\ x \in ToSet(keys)
      BY <1>1, <1>7, <1>8, <2>2
    <3>2. QED
      BY <3>1 DEF CacheInv, EntriesAreComputed
  <2>3. QED
    BY <2>1, <2>2
<1>11. LastIsComputed' /\ NoStaleHit'
  BY <1>1, QuestionsDecide DEF LastIsComputed, NoStaleHit
<1>12. QED
  BY <1>8, <1>9, <1>10, <1>11 DEF CacheInv

LEMMA UnstoredKeeps ==
    ASSUME CacheInv, NEW q \in Queries, ResolveUnstored(q)
    PROVE  CacheInv'
<1> DEFINE k == CacheKey(q.questions)
           s == Without(k)
<1>1. /\ keys' = s
      /\ entry' = [x \in ToSet(keys') |-> entry[x]]
      /\ born' = [x \in ToSet(keys') |-> born[x]]
      /\ last' = [query |-> q, response |-> Computed(q), hit |-> FALSE, age |-> 0]
      /\ recency' = {p \in recency : p[1] # k /\ p[2] # k}
      /\ UNCHANGED <<fallback, now>>
  BY DEF ResolveUnstored, ObserveMiss
<1>2. /\ keys \in Seq(AllKeys) /\ IsInjective(keys) /\ Len(keys) <= CacheMaxSize
      /\ Len(keys) \in Nat /\ CacheMaxSize \in Nat
  BY CacheMaxSizeAssumption DEF CacheInv, TypeOK
<1>3. s = RemoveFirst(keys, k)
  BY DEF Without
<1> HIDE DEF k, s
<1>4. /\ s \in Seq(AllKeys) /\ IsInjective(s) /\ Len(s) <= Len(keys)
      /\ ToSet(s) = ToSet(keys) \ {k} /\ InOrder(s, keys)
  BY <1>2, <1>3, Removed
<1>5. Len(s) <= CacheMaxSize /\ DOMAIN s = 1..Len(s)
  BY <1>2, <1>4
<1>6. TypeOK'
  <2>1. keys' \in Seq(AllKeys) /\ IsInjective(keys') /\ Len(keys') <= CacheMaxSize
    BY <1>1, <1>4, <1>5
  <2>2. QED
    BY <1>1, <2>1 DEF CacheInv, TypeOK
<1>7. EntriesAreComputed'
  <2> SUFFICES ASSUME NEW x \in ToSet(keys')
               PROVE  /\ entry'[x].insertedAt = born'[x]
                      /\ \E p \in Queries : /\ CacheKey(p.questions) = x /\ Cacheable(p)
                                            /\ entry'[x].response = Rewritten(Computed(p))
    BY <1>1, ComputedKept DEF EntriesAreComputed
  <2>1. entry'[x] = entry[x] /\ born'[x] = born[x] /\ x \in ToSet(keys)
    BY <1>1, <1>4
  <2>2. QED
    BY <2>1 DEF CacheInv, EntriesAreComputed
<1>8. LastIsComputed' /\ NoStaleHit'
  BY <1>1, QuestionsDecide DEF LastIsComputed, NoStaleHit
<1>9. OldestUseGoesFirst'
  <2> SUFFICES ASSUME NEW i \in DOMAIN s, NEW j \in DOMAIN s, i < j
               PROVE  <<s[i], s[j]>> \in recency'
    BY <1>1 DEF OldestUseGoesFirst
  <2>1. PICK a, b \in DOMAIN keys : a < b /\ s[i] = keys[a] /\ s[j] = keys[b]
    BY <1>4 DEF InOrder
  <2>2. <<s[i], s[j]>> \in recency
    BY <2>1 DEF CacheInv, OldestUseGoesFirst
  <2>3. s[i] # k /\ s[j] # k
    <3>1. s[i] \in ToSet(s) /\ s[j] \in ToSet(s)
      BY DEF ToSet
    <3>2. QED
      BY <1>4, <3>1
  <2>4. QED
    BY <1>1, <2>2, <2>3
<1>10. QED
  BY <1>6, <1>7, <1>8, <1>9 DEF CacheInv

\* What is known of the cache does not depend on the clock.
LEMMA IdleKeeps ==
    ASSUME CacheInv, now' \in 0..MaxTime,
           UNCHANGED <<fallback, keys, entry, born, recency, last>>
    PROVE  CacheInv'
<1>1. TypeOK'
  BY DEF CacheInv, TypeOK
<1>2. EntriesAreComputed'
  BY ComputedKept DEF CacheInv, EntriesAreComputed
<1>3. LastIsComputed' /\ NoStaleHit' /\ OldestUseGoesFirst'
  BY DEF CacheInv, LastIsComputed, NoStaleHit, OldestUseGoesFirst
<1>4. QED
  BY <1>1, <1>2, <1>3 DEF CacheInv

LEMMA CacheStep == CacheInv /\ [Next]_vars => CacheInv'
<1> SUFFICES ASSUME CacheInv, [Next]_vars PROVE CacheInv'
  OBVIOUS
<1>1. ASSUME NEW q \in Queries, ResolveMalformed(q) PROVE CacheInv'
  BY <1>1, MalformedKeeps
<1>2. ASSUME NEW q \in Queries, ResolveHit(q) PROVE CacheInv'
  BY <1>2, HitKeeps
<1>3. ASSUME NEW q \in Queries, ResolveStored(q) PROVE CacheInv'
  BY <1>3, StoredKeeps
<1>4. ASSUME NEW q \in Queries, ResolveUnstored(q) PROVE CacheInv'
  BY <1>4, UnstoredKeeps
<1>5. CASE Tick
  <2>1. now' \in 0..MaxTime
    BY <1>5, MaxTimeAssumption DEF Tick, CacheInv, TypeOK
  <2>2. QED
    BY <1>5, <2>1, IdleKeeps DEF Tick
<1>6. CASE UNCHANGED vars
  <2>1. now' \in 0..MaxTime
    BY <1>6 DEF vars, CacheInv, TypeOK
  <2>2. QED
    BY <1>6, <2>1, IdleKeeps DEF vars
<1>7. QED
  BY <1>1, <1>2, <1>3, <1>4, <1>5, <1>6 DEF Next

\* What stands in the cache is what would be computed, at any time and after
\* any hits, expiries, evictions and insertions.
THEOREM CacheInvariant == Spec => []CacheInv
BY CacheInit, CacheStep, PTL DEF Spec

\* Types; and the cache holds at most dnsCacheMaxSize entries, each key once.
THEOREM CacheTypeCorrect == Spec => []TypeOK
<1>1. CacheInv => TypeOK
  BY DEF CacheInv
<1>2. QED
  BY <1>1, CacheInvariant, PTL

\* A response from the cache says what would be computed for the query, for
\* any hosts, queries and denied names: no query is answered with another's.
THEOREM CacheTransparent == Spec => []CacheIsTransparent
<1>1. CacheInv => CacheIsTransparent
  BY QuestionsDecide DEF CacheInv, LastIsComputed, CacheIsTransparent
<1>2. QED
  BY <1>1, CacheInvariant, PTL

\* A question is answered with the records of the host closest to its name,
\* for any table of hosts, whether or not the cache answers.
THEOREM ClosestHostAnswers == Spec => []AnsweredByClosestHost
<1>1. CacheInv => AnsweredByClosestHost
  <2> DEFINE qs == last.query.questions
             q == qs[1]
             said == Payload(last.response)
  <2> SUFFICES ASSUME CacheInv, last.query.wellFormed, Len(qs) = 1
               PROVE  \E h \in ClosestHosts(Hosts, Normalized(q.name)) :
                         IF h = NoHost THEN last.response.rcode # "NOERROR"
                         ELSE /\ last.response.rcode = "NOERROR"
                              /\ Range(last.response.answers) =
                                   {r \in Range(h) : r.type = q.type /\ r.type \notin Unencodable}
    BY DEF AnsweredByClosestHost
  <2>1. last.query \in Queries /\ said = Said(fallback, qs)
    BY DEF CacheInv, LastIsComputed
  <2>2. said.rcode = last.response.rcode /\ said.answers = last.response.answers
    BY DEF Payload
  <2>3. qs \in Seq(Questions)
    BY <2>1, QueriesAssumption
  <2> HIDE DEF qs, said
  <2>4. q \in Questions /\ qs = <<q>>
    BY <2>3
  <2> HIDE DEF q
  <2>5. QED
    BY <2>1, <2>2, <2>4, ClosestSays
<1>2. QED
  BY <1>1, CacheInvariant, PTL

\* What is served from the cache was computed less than dnsCacheTtlMs ago.
THEOREM HitsAreFresh == Spec => []NoStaleHit
<1>1. CacheInv => NoStaleHit
  BY DEF CacheInv
<1>2. QED
  BY <1>1, CacheInvariant, PTL

\* The entries stand in the order of their last use, so that eviction takes the
\* one used longest ago, for any size of the cache.
THEOREM EvictionIsByUse == Spec => []OldestUseGoesFirst
<1>1. CacheInv => OldestUseGoesFirst
  BY DEF CacheInv
<1>2. QED
  BY <1>1, CacheInvariant, PTL
=============================================================================
