--------------------------- MODULE WireFormatProofs ---------------------------
(***************************************************************************)
(* Theorems about the packets of dns-service.ts.  PacketReader, for every  *)
(* set of packets and every limit on the pointers of a name: the reader    *)
(* stays within the packet and ends.  WireFormat, for every set of queries *)
(* and answers and every size of the encoder's buffer: a query is forwarded*)
(* with the questions it was asked with, a client that asked for plain     *)
(* names reads them in the response, and the cache changes no byte of a    *)
(* response but its TTLs.                                                  *)
(*                                                                         *)
(* What a recursive function of the model computes is shown in two steps.  *)
(* A function that satisfies its equation exists (ChainExists, TableExists)*)
(* and so CHOOSE gives one.  A property of every value of it has no least  *)
(* counterexample (NoLeast).                                               *)
(***************************************************************************)
EXTENDS WireFormat, SequenceTheorems, WellFoundedInduction, TLAPS

-----------------------------------------------------------------------------
(* PacketReader.                                                            *)

\* Before the first pointer of a name the reader is behind the header, and
\* while it reads, a question of the count is still to be read.
ReaderInv ==
    /\ ReaderTypeOK
    /\ jumps = 0 => pos >= Header
    /\ status = "reading" => left >= 1

\* A byte of a packet is a byte.
LEMMA ByteIsByte ==
    ASSUME NEW p \in Seq(Byte), NEW o \in Nat, o < Len(p)
    PROVE  At(p, o) \in Byte
  BY DEF At

\* A number of two bytes is a natural number.
LEMMA NumberIsNatural ==
    ASSUME NEW p \in Seq(Byte), NEW o \in Nat, o + 1 < Len(p)
    PROVE  U16(p, o) \in Nat
<1>1. At(p, o) \in Byte
  BY ByteIsByte
<1>2. At(p, o + 1) \in Byte
  BY ByteIsByte
<1>3. \A c, d \in Byte : c * 256 + d \in Nat
  BY DEF Byte
<1>4. At(p, o) * 256 + At(p, o + 1) \in Nat
  BY <1>1, <1>2, <1>3, Zenon
<1>5. QED
  BY <1>4 DEF U16

\* What a name is ended with: the offset behind it, within the packet.
Behind(end) == IF saved = NoOffset THEN end ELSE saved

\* The end of a name and its question keeps the invariant and is an advance.
LEMMA NameEnds ==
    ASSUME ReaderInv, Reading,
           NEW end \in Nat, end <= Len(buf), jumps = 0 => end >= Header,
           NEW broken \in BOOLEAN, EndName(end, broken)
    PROVE  ReaderInv' /\ (left' < left \/ status' = "read")
<1> DEFINE o == Behind(end)
           whole == o + 4 <= Len(buf) /\ U16(buf, o + 2) \in Classes
<1>1. o \in Header..Len(buf)
  BY DEF ReaderInv, ReaderTypeOK, Behind, Header, NoOffset
<1>2. /\ status' = IF whole /\ left > 1 THEN "reading" ELSE "read"
      /\ left' = IF whole THEN left - 1 ELSE left
      /\ pos' = IF whole THEN o + 4 ELSE o
      /\ jumps' = 0 /\ saved' = NoOffset /\ buf' = buf
  BY DEF EndName, Behind
<1>3. left \in Nat /\ left >= 1 /\ buf \in Seq(Byte) /\ Len(buf) >= Header /\ MaxJumps \in Nat
  BY MaxJumpsAssumption DEF ReaderInv, ReaderTypeOK, Reading
<1>4. CASE whole
  BY <1>1, <1>2, <1>3, <1>4 DEF ReaderInv, ReaderTypeOK, Header
<1>5. CASE ~whole
  BY <1>1, <1>2, <1>3, <1>5 DEF ReaderInv, ReaderTypeOK, Header
<1>6. QED
  BY <1>4, <1>5

\* So does a pointer that is followed.
LEMMA PointerFollowed ==
    ASSUME ReaderInv, Pointer
    PROVE  ReaderInv' /\ left' = left /\ jumps' > jumps
<1>1. /\ pos \in Nat /\ jumps \in 0..MaxJumps /\ left \in Nat /\ MaxJumps \in Nat
      /\ buf \in Seq(Byte) /\ Len(buf) \in Nat
  BY MaxJumpsAssumption DEF ReaderInv, ReaderTypeOK
<1>2. At(buf, pos) \in Byte /\ At(buf, pos + 1) \in Byte
  <2>1. pos + 1 \in Nat /\ pos + 1 < Len(buf)
    BY <1>1 DEF Pointer
  <2>2. QED
    BY <1>1, <2>1, ByteIsByte
<1>3. pos' \in Nat
  <2>1. \A c, d \in Byte : c >= 192 => (c - 192) * 256 + d \in Nat
    BY DEF Byte
  <2>2. At(buf, pos) >= 192 /\ pos' = (At(buf, pos) - 192) * 256 + At(buf, pos + 1)
    BY DEF Pointer
  <2>3. QED
    BY <1>2, <2>1, <2>2, Zenon
<1>4. jumps' = jumps + 1 /\ jumps' \in 1..MaxJumps
  BY <1>1 DEF Pointer
<1>5. saved' \in Header..Len(buf)
  BY <1>1 DEF Pointer, ReaderInv, ReaderTypeOK, Header, NoOffset
<1>6. QED
  BY <1>1, <1>3, <1>4, <1>5 DEF ReaderInv, ReaderTypeOK, Pointer, Inside, Reading

\* And so does a label.
LEMMA LabelRead ==
    ASSUME ReaderInv, Label
    PROVE  ReaderInv' /\ left' = left /\ jumps' = jumps /\ pos' > pos
<1>1. pos \in Nat /\ buf \in Seq(Byte) /\ Len(buf) \in Nat
  BY DEF ReaderInv, ReaderTypeOK
<1>2. PICK n \in 1..63 : pos' = pos + 1 + n /\ pos + 1 + n <= Len(buf)
  BY DEF Label
<1>3. pos' \in Nat /\ pos' > pos /\ pos' <= Len(buf)
  BY <1>1, <1>2
<1>4. UNCHANGED <<buf, status, left, jumps, saved>>
  BY DEF Label
<1>5. QED
  BY <1>1, <1>3, <1>4 DEF ReaderInv, ReaderTypeOK, Header

Advance ==
    \/ left' < left \/ status' = "read"
    \/ left' = left /\ jumps' > jumps
    \/ left' = left /\ jumps' = jumps /\ pos' > pos

\* Each turn of the loop keeps the invariant and is an advance.
LEMMA ReadOnAdvances ==
    ASSUME ReaderInv, ReadOn
    PROVE  ReaderInv' /\ Advance
<1>1. pos \in Nat /\ Len(buf) \in Nat /\ (jumps = 0 => pos >= Header /\ pos <= Len(buf))
  BY DEF ReaderInv, ReaderTypeOK
<1>2. CASE PastEnd
  \* Behind a pointer the reader may be anywhere: then it ends at the packet's end.
  <2>1. CASE jumps = 0
    BY <1>1, <1>2, <2>1, NameEnds DEF PastEnd, Advance
  <2>2. CASE jumps # 0
    <3>1. saved # NoOffset
      BY <2>2 DEF ReaderInv, ReaderTypeOK, NoOffset, Header
    <3>2. EndName(Len(buf), TRUE)
      BY <1>2, <3>1 DEF PastEnd, EndName
    <3>3. Len(buf) <= Len(buf) /\ Reading /\ ~(jumps = 0)
      BY <1>1, <1>2, <2>2 DEF PastEnd
    <3>4. QED
      BY <1>1, <1>2, <2>2, <3>2, <3>3, NameEnds DEF PastEnd, Advance
  <2>3. QED
    BY <2>1, <2>2
<1>3. CASE Root \/ BadPointer \/ BadLabel
  <2>1. PICK broken \in BOOLEAN : EndName(pos + 1, broken)
    BY <1>3 DEF Root, BadPointer, BadLabel
  <2>2. Reading /\ pos < Len(buf)
    BY <1>3 DEF Root, BadPointer, BadLabel, Inside
  <2>3. pos + 1 \in Nat /\ pos + 1 <= Len(buf) /\ (jumps = 0 => pos + 1 >= Header)
    BY <1>1, <2>2 DEF Header
  <2>4. QED
    BY <2>1, <2>2, <2>3, NameEnds DEF Advance
<1>4. CASE Pointer
  BY <1>4, PointerFollowed DEF Advance
<1>5. CASE Label
  BY <1>5, LabelRead DEF Advance
<1>6. QED
  BY <1>2, <1>3, <1>4, <1>5, ReadOn DEF ReadOn

\* The inductive invariant of the loop in readDomainName.
THEOREM ReaderInvariant == ReaderSpec => []ReaderInv
<1>1. ReaderInit => ReaderInv
  <2> SUFFICES ASSUME ReaderInit PROVE ReaderInv
    OBVIOUS
  <2>1. buf \in Seq(Byte) /\ Len(buf) >= Header /\ Len(buf) \in Nat
    BY PacketsAssumption DEF ReaderInit
  <2>2. U16(buf, 4) \in Nat
    BY <2>1, NumberIsNatural DEF Header
  <2>3. QED
    BY <2>1, <2>2, MaxJumpsAssumption DEF ReaderInit, ReaderInv, ReaderTypeOK, Header
<1>2. ReaderInv /\ [ReadOn]_readerVars => ReaderInv'
  <2>1. ReaderInv /\ ReadOn => ReaderInv'
    BY ReadOnAdvances
  <2>2. ReaderInv /\ UNCHANGED readerVars => ReaderInv'
    BY DEF ReaderInv, ReaderTypeOK, readerVars
  <2>3. QED
    BY <2>1, <2>2
<1>3. QED
  BY <1>1, <1>2, PTL DEF ReaderSpec

\* No name of any packet leads the reader out of the packet: whatever its
\* pointers and lengths, the next question begins within it or at its end.
THEOREM ReaderStaysInside == ReaderSpec => []ReaderTypeOK
<1>1. ReaderInv => ReaderTypeOK
  BY DEF ReaderInv
<1>2. QED
  BY <1>1, ReaderInvariant, PTL

\* Every turn of the loop advances, so that no packet is read for ever.
THEOREM ReadingAdvances == ReaderSpec => EveryStepAdvances
<1>1. ReaderInv /\ [ReadOn]_readerVars => [ReadOn => Advance]_readerVars
  BY ReadOnAdvances
<1>2. ReaderSpec => [][ReadOn => Advance]_readerVars
  BY <1>1, ReaderInvariant, PTL DEF ReaderSpec
<1>3. QED
  BY <1>2 DEF EveryStepAdvances, Advance

-----------------------------------------------------------------------------
(* What is defined by recursion.                                            *)

\* A set of numbers that a counterexample would be the least of is empty.
LEMMA NoLeast ==
    ASSUME NEW S, S \subseteq Nat, \A n \in S : \E m \in S : m < n
    PROVE  S = {}
<1> DEFINE R == OpToRel(<, Nat)
<1>1. \A x, y \in Nat : <<x, y>> \in R <=> x < y
  BY DEF OpToRel
<1>2. IsWellFoundedOn(R, Nat)
  BY NatLessThanWellFounded
<1> HIDE DEF R
<1>3. SUFFICES ASSUME S # {} PROVE FALSE
  OBVIOUS
<1>4. PICK n \in S : \A m \in S : ~(<<m, n>> \in R)
  BY <1>2, <1>3, WFMin
<1>5. PICK m \in S : m < n
  OBVIOUS
<1>6. m \in Nat /\ n \in Nat
  OBVIOUS
<1>7. QED
  BY <1>1, <1>4, <1>5, <1>6

\* A chain of values, each made of the one before it.
IsChain(f, N, a, F) == f[0] = a /\ \A i \in 1..N : f[i] = F[i][f[i - 1]]

LEMMA ChainExists ==
    ASSUME NEW N \in Nat, NEW S, NEW a \in S, NEW F \in [1..N -> [S -> S]]
    PROVE  \E f \in [0..N -> S] : IsChain(f, N, a, F)
<1> DEFINE Is(n, f) == f \in [0..n -> S] /\ f[0] = a /\ \A i \in 1..n : f[i] = F[i][f[i - 1]]
           Bad == {n \in 0..N : ~\E f : Is(n, f)}
<1>1. ASSUME NEW n \in Bad PROVE \E m \in Bad : m < n
  <2>1. n # 0
    <3>1. Is(0, [i \in 0..0 |-> a])
      OBVIOUS
    <3>2. QED
      BY <3>1
  <2>2. n - 1 \in 0..N /\ n - 1 < n /\ n \in 1..N
    BY <2>1
  <2>3. SUFFICES ASSUME n - 1 \notin Bad PROVE FALSE
    BY <2>2
  <2>4. PICK f : Is(n - 1, f)
    BY <2>2, <2>3
  <2>5. F[n][f[n - 1]] \in S
    BY <2>2, <2>4
  <2> DEFINE g == [i \in 0..n |-> IF i = n THEN F[n][f[n - 1]] ELSE f[i]]
  <2>6. g \in [0..n -> S] /\ g[0] = a
    BY <2>2, <2>4, <2>5
  <2>7. ASSUME NEW i \in 1..n PROVE g[i] = F[i][g[i - 1]]
    <3>1. CASE i = n
      <4>1. g[n] = F[n][f[n - 1]] /\ g[n - 1] = f[n - 1]
        BY <2>2
      <4>2. QED
        BY <3>1, <4>1
    <3>2. CASE i # n
      <4>1. i \in 1..(n - 1) /\ g[i] = f[i] /\ g[i - 1] = f[i - 1]
        BY <2>2, <3>2
      <4>2. QED
        BY <2>4, <4>1
    <3>3. QED
      BY <3>1, <3>2
  <2>8. Is(n, g)
    BY <2>6, <2>7
  <2>9. QED
    BY <2>8
<1>2. Bad \subseteq Nat
  OBVIOUS
<1>3. Bad = {}
  <2> HIDE DEF Bad
  <2> QED
    BY <1>1, <1>2, NoLeast
<1>4. N \in 0..N
  OBVIOUS
<1>5. QED
  BY <1>3, <1>4 DEF IsChain

\* A table filled from its end: each value is given, or made of a later one.
IsTable(f, N, Given, base, next, F) ==
    \A o \in 0..N : f[o] = IF o \in Given THEN base[o] ELSE F[o][f[next[o]]]

LEMMA TableExists ==
    ASSUME NEW N \in Nat, NEW S, NEW Given \in SUBSET (0..N), NEW base \in [0..N -> S],
           NEW next \in [0..N -> Nat], NEW F \in [0..N -> [S -> S]],
           \A o \in 0..N : o \notin Given => next[o] \in (o + 1)..N
    PROVE  \E f \in [0..N -> S] : IsTable(f, N, Given, base, next, F)
<1> DEFINE Is(n, f) == /\ f \in [(N - n)..N -> S]
                       /\ \A o \in (N - n)..N : f[o] = IF o \in Given THEN base[o] ELSE F[o][f[next[o]]]
           Bad == {n \in 0..N : ~\E f : Is(n, f)}
<1>1. ASSUME NEW n \in Bad PROVE \E m \in Bad : m < n
  <2>1. n # 0
    <3>1. N \in Given /\ base[N] \in S /\ (N - 0)..N = {N}
      OBVIOUS
    <3>2. Is(0, [o \in (N - 0)..N |-> base[N]])
      BY <3>1
    <3>3. QED
      BY <3>2
  <2>2. n - 1 \in 0..N /\ n - 1 < n /\ n \in 1..N
    BY <2>1
  <2>3. SUFFICES ASSUME n - 1 \notin Bad PROVE FALSE
    BY <2>2
  <2>4. PICK f : Is(n - 1, f)
    BY <2>2, <2>3
  <2> DEFINE p == N - n
             v == IF p \in Given THEN base[p] ELSE F[p][f[next[p]]]
             g == [o \in p..N |-> IF o = p THEN v ELSE f[o]]
  <2>5. p \in 0..N /\ N - (n - 1) = p + 1
    BY <2>2
  <2> HIDE DEF p
  <2>6. f \in [(p + 1)..N -> S] /\ (p \notin Given => next[p] \in (p + 1)..N)
    BY <2>4, <2>5
  <2>7. v \in S
    <3>1. p \notin Given => f[next[p]] \in S
      BY <2>6
    <3>2. QED
      BY <2>5, <3>1
  <2> HIDE DEF v
  <2>8. g \in [p..N -> S] /\ g[p] = v /\ \A o \in (p + 1)..N : g[o] = f[o]
    BY <2>5, <2>6, <2>7
  <2> HIDE DEF g
  <2>9. ASSUME NEW o \in p..N PROVE g[o] = IF o \in Given THEN base[o] ELSE F[o][g[next[o]]]
    <3>1. CASE o = p
      <4>1. p \notin Given => g[next[p]] = f[next[p]]
        BY <2>6, <2>8
      <4>2. QED
        BY <2>8, <3>1, <4>1 DEF v
    <3>2. CASE o # p
      <4>1. o \in (p + 1)..N /\ o \in 0..N
        BY <2>5, <3>2
      <4>2. o \notin Given => next[o] \in (p + 1)..N
        BY <2>5, <4>1
      <4>3. f[o] = IF o \in Given THEN base[o] ELSE F[o][f[next[o]]]
        BY <2>4, <2>5, <4>1
      <4>4. QED
        BY <2>8, <4>1, <4>2, <4>3
    <3>3. QED
      BY <3>1, <3>2
  <2>10. Is(n, g)
    BY <2>8, <2>9 DEF p
  <2>11. QED
    BY <2>10
<1>2. Bad \subseteq Nat
  OBVIOUS
<1>3. Bad = {}
  <2> HIDE DEF Bad
  <2> QED
    BY <1>1, <1>2, NoLeast
<1>4. N \in 0..N /\ N - N = 0
  OBVIOUS
<1>5. PICK f : Is(N, f)
  BY <1>3, <1>4
<1>6. QED
  BY <1>4, <1>5 DEF IsTable

-----------------------------------------------------------------------------
(* The walk that draws the case of letters.                                 *)

\* An offset cut at the end of a packet, and the one behind a label.
Clipped(b, o) == IF o > Len(b) THEN Len(b) ELSE o
NextLabel(b, o) == Clipped(b, o + 1 + At(b, o))

LEMMA NextInside ==
    ASSUME NEW b \in Seq(Byte), NEW o \in 0..Len(b), o # Len(b), At(b, o) # 0
    PROVE  NextLabel(b, o) \in (o + 1)..Len(b)
<1>1. o \in Nat /\ o < Len(b) /\ Len(b) \in Nat
  OBVIOUS
<1>2. At(b, o) \in 0..255
  BY <1>1, ByteIsByte DEF Byte
<1>3. \A a \in 0..255, n \in Nat, p \in Nat :
        a # 0 /\ p < n => (IF p + 1 + a > n THEN n ELSE p + 1 + a) \in (p + 1)..n
  OBVIOUS
<1>4. NextLabel(b, o) = IF o + 1 + At(b, o) > Len(b) THEN Len(b) ELSE o + 1 + At(b, o)
  BY DEF NextLabel, Clipped
<1>5. QED
  BY <1>1, <1>2, <1>3, <1>4

\* What Walk says of an offset: a label, a pointer or a root byte.
LEMMA WalkEquation ==
    ASSUME NEW b \in Seq(Byte)
    PROVE  /\ Walk(b) \in [0..Len(b) -> [end : 0..Len(b), over : SUBSET Nat]]
           /\ \A o \in 0..Len(b) : Walk(b)[o] =
                IF o = Len(b) THEN [end |-> Len(b), over |-> {}]
                ELSE IF At(b, o) = 0 THEN [end |-> o + 1, over |-> {}]
                ELSE IF At(b, o) >= 192 THEN [end |-> Clipped(b, o + 2), over |-> {}]
                ELSE [end |-> Walk(b)[NextLabel(b, o)].end,
                      over |-> ((o + 1)..(NextLabel(b, o) - 1)) \cup Walk(b)[NextLabel(b, o)].over]
<1> DEFINE E == Len(b)
           S == [end : 0..E, over : SUBSET Nat]
           Given == {o \in 0..E : o = E \/ At(b, o) = 0 \/ At(b, o) >= 192}
           base == [o \in 0..E |->
                      IF o = E THEN [end |-> E, over |-> {}]
                      ELSE IF At(b, o) = 0 THEN [end |-> o + 1, over |-> {}]
                      ELSE [end |-> Clipped(b, o + 2), over |-> {}]]
           next == [o \in 0..E |-> IF o \in Given THEN 0 ELSE NextLabel(b, o)]
           F == [o \in 0..E |-> [w \in S |->
                   [end |-> w.end, over |-> ((o + 1)..(next[o] - 1)) \cup w.over]]]
           Is(f) == f = [o \in 0..E |->
                IF o = E THEN [end |-> E, over |-> {}]
                ELSE IF At(b, o) = 0 THEN [end |-> o + 1, over |-> {}]
                ELSE IF At(b, o) >= 192 THEN [end |-> Clipped(b, o + 2), over |-> {}]
                ELSE [end |-> f[NextLabel(b, o)].end,
                      over |-> ((o + 1)..(NextLabel(b, o) - 1)) \cup f[NextLabel(b, o)].over]]
<1>1. E \in Nat /\ \A o \in 0..E : o # E => At(b, o) \in 0..255
  <2>1. ASSUME NEW o \in 0..E, o # E PROVE At(b, o) \in 0..255
    <3>1. o \in Nat /\ o < Len(b)
      BY <2>1
    <3>2. QED
      BY <3>1, ByteIsByte DEF Byte
  <2>2. QED
    BY <2>1
<1>2. \A o \in 0..E : o \notin Given => next[o] = NextLabel(b, o) /\ next[o] \in (o + 1)..E
  <2>1. ASSUME NEW o \in 0..E, o \notin Given PROVE next[o] = NextLabel(b, o) /\ next[o] \in (o + 1)..E
    <3>1. next[o] = NextLabel(b, o) /\ o # E /\ At(b, o) # 0
      BY <2>1
    <3>2. QED
      BY <3>1, NextInside
  <2>2. QED
    BY <2>1
<1>3. Given \in SUBSET (0..E) /\ next \in [0..E -> Nat]
  BY <1>1, <1>2
<1>4. base \in [0..E -> S]
  BY <1>1 DEF Clipped
<1>5. F \in [0..E -> [S -> S]]
  <2>1. ASSUME NEW o \in 0..E, NEW w \in S
        PROVE  [end |-> w.end, over |-> ((o + 1)..(next[o] - 1)) \cup w.over] \in S
    <3>1. (o + 1)..(next[o] - 1) \subseteq Nat
      BY <1>3
    <3>2. QED
      BY <3>1
  <2>2. QED
    BY <2>1
<1> HIDE DEF E
<1>6. PICK f \in [0..E -> S] : IsTable(f, E, Given, base, next, F)
  <2>1. E \in Nat /\ \A o \in 0..E : o \notin Given => next[o] \in (o + 1)..E
    BY <1>1, <1>2
  <2> HIDE DEF Given, base, next, F, S
  <2> QED
    BY <2>1, <1>3, <1>4, <1>5, TableExists
<1>7. ASSUME NEW o \in 0..E
      PROVE  f[o] = IF o = E THEN [end |-> E, over |-> {}]
                    ELSE IF At(b, o) = 0 THEN [end |-> o + 1, over |-> {}]
                    ELSE IF At(b, o) >= 192 THEN [end |-> Clipped(b, o + 2), over |-> {}]
                    ELSE [end |-> f[NextLabel(b, o)].end,
                          over |-> ((o + 1)..(NextLabel(b, o) - 1)) \cup f[NextLabel(b, o)].over]
  <2>1. CASE o \in Given
    <3>1. f[o] = base[o]
      BY <1>6, <2>1 DEF IsTable
    <3>2. QED
      BY <2>1, <3>1
  <2>2. CASE o \notin Given
    <3>1. f[o] = F[o][f[next[o]]] /\ next[o] = NextLabel(b, o) /\ next[o] \in 0..E
      <4>1. next[o] = NextLabel(b, o) /\ next[o] \in (o + 1)..E
        BY <1>2, <2>2
      <4> HIDE DEF F, Given, next, base
      <4>2. f[o] = F[o][f[next[o]]]
        BY <1>6, <2>2 DEF IsTable
      <4>3. (o + 1)..E \subseteq 0..E
        BY <1>1
      <4>4. QED
        BY <4>1, <4>2, <4>3
    <3>2. f[next[o]] \in S
      BY <3>1
    <3>3. F[o][f[next[o]]] = [end |-> f[next[o]].end,
                              over |-> ((o + 1)..(next[o] - 1)) \cup f[next[o]].over]
      BY <3>2
    <3>4. o # E /\ At(b, o) # 0 /\ ~(At(b, o) >= 192)
      BY <2>2
    <3>5. QED
      BY <3>1, <3>3, <3>4
  <2>3. QED
    BY <2>1, <2>2
<1>8. Is(f)
  <2> HIDE DEF S
  <2> QED
    BY <1>7
<1>9. Walk(b) = CHOOSE g : Is(g)
  BY DEF Walk, Clipped, NextLabel, E
<1>10. Is(Walk(b))
  <2> HIDE DEF Is
  <2> QED
    BY <1>8, <1>9
<1>11. Walk(b) \in [0..E -> S]
  <2> DEFINE Bad == {n \in 0..E : Walk(b)[E - n] \notin S}
  <2>1. ASSUME NEW n \in Bad PROVE \E m \in Bad : m < n
    <3> DEFINE o == E - n
    <3>1. o \in 0..E /\ Walk(b)[o] \notin S
      BY <1>1
    <3>2. o \notin Given
      <4>1. o \in Given => base[o] \in S
        BY <1>4, <3>1
      <4>2. o \in Given => Walk(b)[o] = base[o]
        BY <1>10, <3>1
      <4>3. QED
        BY <3>1, <4>1, <4>2
    <3>3. NextLabel(b, o) \in (o + 1)..E
      BY <1>2, <3>1, <3>2
    <3>4. Walk(b)[NextLabel(b, o)] \notin S
      <4>1. Walk(b)[o] = [end |-> Walk(b)[NextLabel(b, o)].end,
                 over |-> ((o + 1)..(NextLabel(b, o) - 1)) \cup Walk(b)[NextLabel(b, o)].over]
        BY <1>10, <3>1, <3>2
      <4>2. (o + 1)..(NextLabel(b, o) - 1) \subseteq Nat
        BY <1>1, <3>1, <3>3
      <4>3. QED
        BY <3>1, <4>1, <4>2
    <3>5. E - NextLabel(b, o) \in 0..E /\ E - NextLabel(b, o) < n /\ E - (E - NextLabel(b, o)) = NextLabel(b, o)
      <4>1. \A p \in (o + 1)..E : E - p \in 0..E /\ E - p < n /\ E - (E - p) = p
        BY <1>1
      <4>2. QED
        BY <3>3, <4>1
    <3>6. QED
      BY <3>4, <3>5
  <2>2. Bad \subseteq Nat
    BY <1>1
  <2>3. Bad = {}
    <3> HIDE DEF Bad
    <3> QED
      BY <2>1, <2>2, NoLeast
  <2>4. ASSUME NEW o \in 0..E PROVE Walk(b)[o] \in S
    <3>1. E - o \in 0..E /\ E - (E - o) = o
      BY <1>1
    <3>2. QED
      BY <2>3, <3>1
  <2>5. Walk(b) = [o \in 0..E |-> Walk(b)[o]]
    BY <1>10
  <2>6. QED
    <3> HIDE DEF S
    <3> QED
      BY <2>4, <2>5
<1>12. \A o \in 0..E : Walk(b)[o] =
                IF o = E THEN [end |-> E, over |-> {}]
                ELSE IF At(b, o) = 0 THEN [end |-> o + 1, over |-> {}]
                ELSE IF At(b, o) >= 192 THEN [end |-> Clipped(b, o + 2), over |-> {}]
                ELSE [end |-> Walk(b)[NextLabel(b, o)].end,
                      over |-> ((o + 1)..(NextLabel(b, o) - 1)) \cup Walk(b)[NextLabel(b, o)].over]
  BY <1>10
<1>13. QED
  BY <1>11, <1>12 DEF E

\* What a walk over one name goes over lies between its ends.
LEMMA WalkSpan ==
    ASSUME NEW b \in Seq(Byte), NEW o \in 0..Len(b)
    PROVE  /\ Walk(b)[o].end \in o..Len(b)
           /\ \A p \in Walk(b)[o].over : p \in (o + 1)..(Walk(b)[o].end - 1)
<1> DEFINE E == Len(b)
           Good(p) == /\ Walk(b)[p].end \in p..E
                      /\ \A q \in Walk(b)[p].over : q \in (p + 1)..(Walk(b)[p].end - 1)
           Bad == {n \in 0..E : ~Good(E - n)}
<1>1. E \in Nat
  OBVIOUS
<1>2. ASSUME NEW n \in Bad PROVE \E m \in Bad : m < n
  <2>1. PICK p \in 0..E : p = E - n /\ ~Good(p)
    BY <1>1
  <2>2. p # E /\ At(b, p) # 0 /\ ~(At(b, p) >= 192)
    <3>1. p = E => Good(p)
      <4>1. p = E => Walk(b)[p] = [end |-> E, over |-> {}]
        BY <2>1, WalkEquation
      <4>2. QED
        BY <1>1, <4>1
    <3>2. p # E /\ At(b, p) = 0 => Good(p)
      <4>1. p # E /\ At(b, p) = 0 => Walk(b)[p] = [end |-> p + 1, over |-> {}]
        BY <2>1, WalkEquation
      <4>2. QED
        BY <1>1, <4>1
    <3>3. p # E /\ At(b, p) # 0 /\ At(b, p) >= 192 => Good(p)
      <4>1. p # E => Clipped(b, p + 2) \in p..E
        BY <1>1, <2>1 DEF Clipped
      <4>2. p # E /\ At(b, p) # 0 /\ At(b, p) >= 192
              => Walk(b)[p] = [end |-> Clipped(b, p + 2), over |-> {}]
        BY <2>1, WalkEquation
      <4>3. QED
        BY <1>1, <4>1, <4>2
    <3>4. QED
      BY <2>1, <3>1, <3>2, <3>3
  <2> DEFINE q == NextLabel(b, p)
  <2>3. q \in (p + 1)..E
    BY <2>1, <2>2, NextInside
  <2>4. Walk(b)[p] = [end |-> Walk(b)[q].end, over |-> ((p + 1)..(q - 1)) \cup Walk(b)[q].over]
    BY <2>1, <2>2, WalkEquation
  <2> HIDE DEF q
  <2>5. ~Good(q)
    <3>1. SUFFICES ASSUME Good(q) PROVE Good(p)
      BY <2>1
    <3>2. Walk(b)[p].end = Walk(b)[q].end /\ Walk(b)[p].end \in p..E
      BY <1>1, <2>1, <2>3, <2>4, <3>1
    <3>3. ASSUME NEW r \in Walk(b)[p].over PROVE r \in (p + 1)..(Walk(b)[p].end - 1)
      <4>1. r \in (p + 1)..(q - 1) \/ r \in Walk(b)[q].over
        BY <2>4, <3>3
      <4>2. r \in (p + 1)..(q - 1) \/ r \in (q + 1)..(Walk(b)[q].end - 1)
        BY <3>1, <4>1
      <4>3. Walk(b)[q].end \in q..E
        BY <3>1
      <4>4. QED
        BY <1>1, <2>1, <2>3, <3>2, <4>2, <4>3
    <3>4. QED
      BY <3>2, <3>3
  <2>6. E - q \in 0..E /\ E - q < n /\ E - (E - q) = q
    BY <1>1, <2>1, <2>3
  <2>7. QED
    <3> HIDE DEF Good
    <3> QED
      BY <2>5, <2>6
<1>3. Bad \subseteq Nat
  BY <1>1
<1>4. Bad = {}
  <2> HIDE DEF Bad
  <2> QED
    BY <1>2, <1>3, NoLeast
<1>5. E - o \in 0..E /\ E - (E - o) = o
  BY <1>1
<1>6. Good(o)
  <2> HIDE DEF Good
  <2> QED
    BY <1>4, <1>5
<1>7. QED
  BY <1>6

\* Types of what a walk says.
Spans(b) == [end : Header..Len(b), over : SUBSET Nat]

\* A number of two bytes.
LEMMA U16Range ==
    ASSUME NEW n \in Int
    PROVE  n \in U16Values <=> 0 <= n /\ n <= 65535
  BY SMTT(60) DEF U16Values

LEMMA U16IsNatural == U16Values \subseteq Nat
  BY DEF U16Values

LEMMA NumberIsU16 ==
    ASSUME NEW p \in Seq(Byte), NEW o \in Nat, o + 1 < Len(p)
    PROVE  U16(p, o) \in U16Values
<1>1. At(p, o) \in Byte
  BY ByteIsByte
<1>2. At(p, o + 1) \in Byte
  BY ByteIsByte
<1>3. \A c, d \in Byte : c * 256 + d \in U16Values
  <2>1. ASSUME NEW c \in Byte, NEW d \in Byte PROVE c * 256 + d \in U16Values
    <3>1. c \in Int /\ 0 <= c /\ c <= 255 /\ d \in Int /\ 0 <= d /\ d <= 255
      BY DEF Byte
    <3>2. c * 256 + d \in Int /\ 0 <= c * 256 + d /\ c * 256 + d <= 65535
      BY <3>1
    <3>3. QED
      BY <3>2, U16Range
  <2>2. QED
    BY <2>1
<1>4. At(p, o) * 256 + At(p, o + 1) \in U16Values
  BY <1>1, <1>2, <1>3, Zenon
<1>5. QED
  BY <1>4 DEF U16

LEMMA WalkOnCount ==
    ASSUME NEW b \in Seq(Byte), Len(b) >= Header
    PROVE  U16(b, 4) \in U16Values /\ U16(b, 4) \in Nat
<1>1. 4 + 1 < Len(b)
  BY DEF Header
<1>2. U16(b, 4) \in U16Values
  BY <1>1, NumberIsU16
<1>3. QED
  BY <1>2, U16IsNatural

\* What WalkOn says of a question.
LEMMA WalkOnEquation ==
    ASSUME NEW b \in Seq(Byte), Len(b) >= Header
    PROVE  /\ WalkOn(b)[0] = [end |-> Header, over |-> {}]
           /\ \A i \in 0..U16(b, 4) : WalkOn(b)[i] \in Spans(b)
           /\ \A i \in 1..U16(b, 4) : WalkOn(b)[i] =
                [end |-> PastType(b, Walk(b)[WalkOn(b)[i - 1].end].end),
                 over |-> WalkOn(b)[i - 1].over \cup Walk(b)[WalkOn(b)[i - 1].end].over]
<1> DEFINE N == U16(b, 4)
           a == [end |-> Header, over |-> {}]
           Made(w) == [end |-> PastType(b, Walk(b)[w.end].end), over |-> w.over \cup Walk(b)[w.end].over]
           F == [i \in 1..N |-> [w \in Spans(b) |-> Made(w)]]
           Is(f) == f = [i \in 0..N |-> IF i = 0 THEN a ELSE Made(f[i - 1])]
<1>1. N \in Nat
  BY WalkOnCount
<1>2. a \in Spans(b)
  BY DEF Spans, Header
<1>3. ASSUME NEW w \in Spans(b) PROVE Made(w) \in Spans(b)
  <2>1. w.end \in 0..Len(b) /\ w.end \in Header..Len(b) /\ w.over \subseteq Nat
    BY <1>3 DEF Spans, Header
  <2>2. Walk(b)[w.end].end \in w.end..Len(b) /\ Walk(b)[w.end].over \subseteq Nat
    BY <2>1, WalkSpan, WalkEquation
  <2>3. PastType(b, Walk(b)[w.end].end) \in Header..Len(b)
    BY <2>1, <2>2 DEF PastType, Header
  <2>4. QED
    BY <2>1, <2>2, <2>3 DEF Spans
<1> HIDE DEF Made, a
<1>4. F \in [1..N -> [Spans(b) -> Spans(b)]]
  BY <1>3
<1>5. PICK f \in [0..N -> Spans(b)] : IsChain(f, N, a, F)
  <2> HIDE DEF N, F
  <2> QED
    BY <1>1, <1>2, <1>4, ChainExists
<1> HIDE DEF N
<1>6. Is(f)
  <2>1. ASSUME NEW i \in 0..N PROVE f[i] = IF i = 0 THEN a ELSE Made(f[i - 1])
    <3>1. CASE i = 0
      BY <1>5, <3>1 DEF IsChain
    <3>2. CASE i # 0
      <4>1. i \in 1..N /\ i - 1 \in 0..N
        BY <1>1, <3>2
      <4>2. f[i] = F[i][f[i - 1]] /\ f[i - 1] \in Spans(b)
        BY <1>5, <4>1 DEF IsChain
      <4>3. QED
        BY <3>2, <4>1, <4>2
    <3>3. QED
      BY <3>1, <3>2
  <2>2. QED
    BY <2>1
<1>7. WalkOn(b) = CHOOSE g : Is(g)
  BY DEF WalkOn, Made, a, N
<1>8. Is(WalkOn(b))
  <2> HIDE DEF Is
  <2> QED
    BY <1>6, <1>7
<1>9. ASSUME NEW i \in 0..N PROVE WalkOn(b)[i] \in Spans(b)
  <2> DEFINE Bad == {n \in 0..N : WalkOn(b)[n] \notin Spans(b)}
  <2>1. ASSUME NEW n \in Bad PROVE \E m \in Bad : m < n
    <3>1. n # 0
      BY <1>2, <1>8
    <3>2. n - 1 \in 0..N /\ n - 1 < n /\ WalkOn(b)[n] = Made(WalkOn(b)[n - 1])
      BY <1>1, <1>8, <3>1
    <3>3. WalkOn(b)[n - 1] \notin Spans(b)
      BY <1>3, <3>2
    <3>4. QED
      BY <3>2, <3>3
  <2>2. Bad \subseteq Nat
    BY <1>1
  <2>3. Bad = {}
    <3> HIDE DEF Bad
    <3> QED
      BY <2>1, <2>2, NoLeast
  <2>4. QED
    BY <2>3
<1>10. \A i \in 1..N : i \in 0..N /\ i # 0
  BY <1>1
<1>11. WalkOn(b)[0] = a
  BY <1>1, <1>8
<1>12. ASSUME NEW i \in 1..N PROVE WalkOn(b)[i] = Made(WalkOn(b)[i - 1])
  BY <1>8, <1>10
<1>13. QED
  BY <1>9, <1>11, <1>12 DEF N, Made, a

\* The bytes that a walk has gone over are before its end.
LEMMA OverBelow ==
    ASSUME NEW b \in Seq(Byte), Len(b) >= Header, NEW k \in 0..U16(b, 4)
    PROVE  \A p \in WalkOn(b)[k].over : p < WalkOn(b)[k].end
<1> DEFINE N == U16(b, 4)
           Good(i) == \A p \in WalkOn(b)[i].over : p < WalkOn(b)[i].end
           Bad == {i \in 0..N : ~Good(i)}
<1>1. N \in Nat
  BY WalkOnCount
<1>2. ASSUME NEW i \in Bad PROVE \E m \in Bad : m < i
  <2>1. i # 0
    BY WalkOnEquation
  <2>2. i \in 1..N /\ i - 1 \in 0..N /\ i - 1 < i
    BY <1>1, <2>1
  <2> DEFINE u == WalkOn(b)[i - 1]
             w == Walk(b)[u.end]
  <2>3. u \in Spans(b)
    BY <2>2, WalkOnEquation
  <2>4. WalkOn(b)[i] = [end |-> PastType(b, w.end), over |-> u.over \cup w.over]
    BY <2>2, WalkOnEquation
  <2>5. u.end \in 0..Len(b) /\ u.over \subseteq Nat
    BY <2>3 DEF Spans, Header
  <2>6. w.end \in u.end..Len(b) /\ (\A p \in w.over : p \in (u.end + 1)..(w.end - 1))
    BY <2>5, WalkSpan
  <2>7. w.end <= PastType(b, w.end) /\ PastType(b, w.end) \in Int /\ w.end \in Int /\ u.end \in Int
    BY <2>5, <2>6 DEF PastType
  <2>8. ~Good(i - 1)
    <3>1. SUFFICES ASSUME Good(i - 1) PROVE Good(i)
      OBVIOUS
    <3>2. ASSUME NEW p \in WalkOn(b)[i].over PROVE p < WalkOn(b)[i].end
      <4>1. p \in u.over \/ p \in w.over
        BY <2>4
      <4> HIDE DEF w
      <4>2. CASE p \in u.over
        <5>1. p < u.end /\ p \in Nat
          BY <2>5, <3>1, <4>2
        <5>2. QED
          BY <2>4, <2>6, <2>7, <5>1
      <4>3. CASE p \in w.over
        BY <2>4, <2>6, <2>7, <4>3
      <4>4. QED
        BY <4>1, <4>2, <4>3
    <3>3. QED
      BY <3>2
  <2>9. QED
    BY <2>2, <2>8
<1>3. Bad \subseteq Nat
  BY <1>1
<1>4. Bad = {}
  <2> HIDE DEF Bad
  <2> QED
    BY <1>2, <1>3, NoLeast
<1>5. QED
  BY <1>4

\* No walk goes over the type and class of a question.
LEMMA TypeIsKept ==
    ASSUME NEW b \in Seq(Byte), Len(b) >= Header, NEW k \in 0..(U16(b, 4) - 1),
           Walk(b)[WalkOn(b)[k].end].end + 4 <= Len(b),
           NEW d \in 0..3
    PROVE  Walk(b)[WalkOn(b)[k].end].end + d \notin Drawn(b)
<1> DEFINE N == U16(b, 4)
           o == Walk(b)[WalkOn(b)[k].end].end
           Good(i) == o + d \notin WalkOn(b)[i].over /\ WalkOn(b)[i].end >= o + 4
           Bad == {i \in (k + 1)..N : ~Good(i)}
<1>1. N \in Nat /\ k \in Nat /\ k \in 0..N /\ k + 1 \in 1..N
  BY WalkOnCount
<1>2. WalkOn(b)[k] \in Spans(b) /\ WalkOn(b)[k].end \in 0..Len(b)
  <2>1. WalkOn(b)[k] \in Spans(b)
    BY <1>1, WalkOnEquation
  <2>2. QED
    BY <2>1 DEF Spans, Header
<1>3. /\ o \in WalkOn(b)[k].end..Len(b)
      /\ \A p \in Walk(b)[WalkOn(b)[k].end].over : p \in (WalkOn(b)[k].end + 1)..(o - 1)
  BY <1>2, WalkSpan
<1>4. o \in Nat /\ WalkOn(b)[k].end \in Nat /\ WalkOn(b)[k].end <= o
  BY <1>2, <1>3
<1>5. ASSUME NEW i \in Bad PROVE \E m \in Bad : m < i
  <2>1. i # k + 1
    <3>1. SUFFICES Good(k + 1)
      OBVIOUS
    <3>2. WalkOn(b)[k + 1] = [end |-> PastType(b, o), over |-> WalkOn(b)[k].over \cup Walk(b)[WalkOn(b)[k].end].over]
      <4>1. (k + 1) - 1 = k
        BY <1>1
      <4>2. QED
        BY <1>1, <4>1, WalkOnEquation
    <3>3. PastType(b, o) = o + 4
      BY DEF PastType
    <3>4. o + d \notin WalkOn(b)[k].over
      <4>1. \A p \in WalkOn(b)[k].over : p < WalkOn(b)[k].end
        BY <1>1, OverBelow
      <4> HIDE DEF o
      <4>2. ~(o + d < WalkOn(b)[k].end)
        BY <1>4
      <4>3. QED
        BY <4>1, <4>2
    <3>5. o + d \notin Walk(b)[WalkOn(b)[k].end].over
      <4> HIDE DEF o
      <4>1. o + d \notin (WalkOn(b)[k].end + 1)..(o - 1)
        BY <1>4
      <4>2. QED
        BY <1>3, <4>1
    <3> HIDE DEF o
    <3>6. o + 4 >= o + 4
      BY <1>4
    <3>7. QED
      BY <3>2, <3>3, <3>4, <3>5, <3>6
  <2>2. i \in 1..N /\ i - 1 \in (k + 1)..N /\ i - 1 \in 0..N /\ i - 1 < i
    BY <1>1, <2>1
  <2> DEFINE u == WalkOn(b)[i - 1]
             w == Walk(b)[u.end]
  <2>3. u \in Spans(b)
    BY <2>2, WalkOnEquation
  <2>4. WalkOn(b)[i] = [end |-> PastType(b, w.end), over |-> u.over \cup w.over]
    BY <2>2, WalkOnEquation
  <2>5. u.end \in 0..Len(b) /\ u.over \subseteq Nat
    BY <2>3 DEF Spans, Header
  <2>6. w.end \in u.end..Len(b) /\ (\A p \in w.over : p \in (u.end + 1)..(w.end - 1))
    BY <2>5, WalkSpan
  <2>7. w.end <= PastType(b, w.end) /\ PastType(b, w.end) \in Int /\ w.end \in Int /\ u.end \in Int
    BY <2>5, <2>6 DEF PastType
  <2>8. ~Good(i - 1)
    <3>1. SUFFICES ASSUME Good(i - 1) PROVE Good(i)
      OBVIOUS
    <3> HIDE DEF w, o
    <3>2. o + d \notin (u.end + 1)..(w.end - 1) /\ PastType(b, w.end) >= o + 4
      BY <1>4, <2>5, <2>6, <2>7, <3>1
    <3>3. QED
      BY <2>4, <2>6, <3>1, <3>2
  <2>9. QED
    BY <2>2, <2>8
<1>6. Bad \subseteq Nat
  BY <1>1
<1>7. Bad = {}
  <2> HIDE DEF Bad
  <2> QED
    BY <1>5, <1>6, NoLeast
<1>8. N \in (k + 1)..N
  BY <1>1
<1>9. QED
  BY <1>7, <1>8 DEF Drawn

-----------------------------------------------------------------------------
(* The reader, as long as it reads regularly, and the walk.                 *)

\* What the reader knows at a turn of its loop, and what it begins with.
States == [status : {"reading", "read", "thrown"}, left : Nat, pos : Nat, jumps : Nat, saved : Int,
           labels : Seq(Seq(Byte)), questions : Seq([name : Seq(Seq(Byte)), type : Nat])]

Here == [status |-> status, left |-> left, pos |-> pos, jumps |-> jumps, saved |-> saved,
         labels |-> labels, questions |-> questions]

Start(b) == [status |-> IF U16(b, 4) = 0 THEN "read" ELSE "reading", left |-> U16(b, 4), pos |-> Header,
             jumps |-> 0, saved |-> NoOffset, labels |-> <<>>, questions |-> <<>>]

\* The turns that keep a name regular, and the one that ends it.
LabelTurn(b, s, t) ==
    /\ s.status = "reading" /\ s.pos < Len(b)
    /\ At(b, s.pos) \in 1..63 /\ s.pos + 1 + At(b, s.pos) <= Len(b)
    /\ t = [status |-> s.status, left |-> s.left, pos |-> s.pos + 1 + At(b, s.pos),
            jumps |-> s.jumps, saved |-> s.saved, questions |-> s.questions,
            labels |-> Append(s.labels, SubSeq(b, s.pos + 2, s.pos + 1 + At(b, s.pos)))]

PointerTurn(b, s, t) ==
    /\ s.status = "reading" /\ s.pos < Len(b)
    /\ At(b, s.pos) >= 192 /\ s.jumps < MaxJumps /\ s.pos + 1 < Len(b)
    /\ t = [status |-> s.status, left |-> s.left, pos |-> (At(b, s.pos) - 192) * 256 + At(b, s.pos + 1),
            jumps |-> s.jumps + 1, saved |-> IF s.saved = NoOffset THEN s.pos + 2 ELSE s.saved,
            questions |-> s.questions, labels |-> s.labels]
    /\ t.pos >= Header

NameEnd(s) == IF s.saved = NoOffset THEN s.pos + 1 ELSE s.saved

RootTurn(b, s, t) ==
    /\ s.status = "reading" /\ s.pos < Len(b)
    /\ At(b, s.pos) = 0 /\ NameEnd(s) + 4 <= Len(b) /\ U16(b, NameEnd(s) + 2) \in Classes
    /\ t = [status |-> IF s.left > 1 THEN "reading" ELSE "read", left |-> s.left - 1, pos |-> NameEnd(s) + 4,
            jumps |-> 0, saved |-> NoOffset, labels |-> <<>>,
            questions |-> Append(s.questions, [name |-> s.labels, type |-> U16(b, NameEnd(s))])]

Turn(b, s, t) == LabelTurn(b, s, t) \/ PointerTurn(b, s, t) \/ RootTurn(b, s, t)

\* A name that ends regularly.
LEMMA RegularEnd ==
    ASSUME NEW end, EndName(end, FALSE), regular', Inside, At(buf, pos) = 0, end = pos + 1
    PROVE  regular /\ RootTurn(buf, Here, Here')
  BY DEF EndName, RootTurn, Here, NameEnd, Inside, Reading

\* A turn of the loop that is regular is one of the three.
LEMMA RegularReadOn ==
    ASSUME ReadOn, regular'
    PROVE  regular /\ Turn(buf, Here, Here')
<1>1. CASE PastEnd \/ BadPointer \/ BadLabel
  BY <1>1 DEF PastEnd, BadPointer, BadLabel, EndName
<1>2. CASE Root
  BY <1>2, RegularEnd DEF Root, Turn
<1>3. CASE Pointer
  <2>1. /\ status' = status /\ left' = left /\ pos' = (At(buf, pos) - 192) * 256 + At(buf, pos + 1)
        /\ jumps' = jumps + 1 /\ saved' = (IF saved = NoOffset THEN pos + 2 ELSE saved)
        /\ labels' = labels /\ questions' = questions
    BY <1>3 DEF Pointer
  <2>2. /\ regular /\ pos' >= Header /\ status = "reading" /\ pos < Len(buf)
        /\ At(buf, pos) >= 192 /\ jumps < MaxJumps /\ pos + 1 < Len(buf)
    BY <1>3 DEF Pointer, Inside, Reading
  <2>3. Here'.pos >= Header
    BY <2>2 DEF Here
  <2>4. PointerTurn(buf, Here, Here')
    BY <2>1, <2>2, <2>3 DEF PointerTurn, Here
  <2>5. QED
    BY <2>2, <2>4 DEF Turn
<1>4. CASE Label
  <2>1. /\ status' = status /\ left' = left /\ pos' = pos + 1 + At(buf, pos) /\ jumps' = jumps
        /\ saved' = saved /\ labels' = Append(labels, SubSeq(buf, pos + 2, pos + 1 + At(buf, pos)))
        /\ questions' = questions
    BY <1>4 DEF Label
  <2>2. /\ regular /\ status = "reading" /\ pos < Len(buf)
        /\ At(buf, pos) \in 1..63 /\ pos + 1 + At(buf, pos) <= Len(buf)
    BY <1>4 DEF Label, Inside, Reading
  <2>3. LabelTurn(buf, Here, Here')
    BY <2>1, <2>2 DEF LabelTurn, Here
  <2>4. QED
    BY <2>2, <2>3 DEF Turn
<1>5. QED
  BY <1>1, <1>2, <1>3, <1>4 DEF ReadOn

LEMMA ReadOnKeeps == ASSUME ReadOn PROVE buf' = buf
  BY DEF ReadOn, PastEnd, Root, BadPointer, Pointer, BadLabel, Label, EndName

\* Where the walk is when the reader reads.
Goal(b, s) == Walk(b)[WalkOn(b)[Len(s.questions)].end].end

\* Before its first pointer the reader is in the name that the walk is in, and
\* after it, it comes back where the walk goes on.
Aligned(b, s) ==
    /\ s \in States /\ s.pos >= Header
    /\ s.status = "reading" =>
         /\ Len(s.questions) < U16(b, 4) /\ s.left = U16(b, 4) - Len(s.questions)
         /\ s.jumps = 0 => s.saved = NoOffset /\ s.pos <= Len(b) /\ Walk(b)[s.pos].end = Goal(b, s)
         /\ s.jumps > 0 => s.saved = Goal(b, s) /\ s.saved # NoOffset

LEMMA AlignedStart ==
    ASSUME NEW b \in Seq(Byte), Len(b) >= Header
    PROVE  Aligned(b, Start(b))
<1>1. U16(b, 4) \in Nat
  BY WalkOnCount
<1>2. Start(b) \in States
  BY <1>1 DEF Start, States, Header, NoOffset
<1>3. WalkOn(b)[0] = [end |-> Header, over |-> {}]
  BY WalkOnEquation
<1>4. Len(Start(b).questions) = 0 /\ Start(b).pos = Header
  BY DEF Start
<1>5. Goal(b, Start(b)) = Walk(b)[Start(b).pos].end
  BY <1>3, <1>4 DEF Goal
<1>6. Header \in Nat /\ Header <= Len(b)
  BY DEF Header
<1>7. Start(b).jumps = 0 /\ Start(b).saved = NoOffset /\ Start(b).left = U16(b, 4)
      /\ (Start(b).status = "reading" => U16(b, 4) # 0)
  BY DEF Start
<1> QED
  BY <1>1, <1>2, <1>4, <1>5, <1>6, <1>7 DEF Aligned

\* The walk stays in the packet.
LEMMA GoalInside ==
    ASSUME NEW b \in Seq(Byte), Len(b) >= Header, NEW k \in 0..U16(b, 4)
    PROVE  /\ WalkOn(b)[k].end \in Header..Len(b)
           /\ Walk(b)[WalkOn(b)[k].end].end \in Header..Len(b)
<1>1. WalkOn(b)[k] \in Spans(b)
  BY WalkOnEquation
<1>2. WalkOn(b)[k].end \in Header..Len(b) /\ WalkOn(b)[k].end \in 0..Len(b)
  BY <1>1 DEF Spans, Header
<1>3. Walk(b)[WalkOn(b)[k].end].end \in WalkOn(b)[k].end..Len(b)
  BY <1>2, WalkSpan
<1>4. QED
  BY <1>2, <1>3 DEF Header

LEMMA AlignedLabel ==
    ASSUME NEW b \in Seq(Byte), Len(b) >= Header, NEW s, Aligned(b, s), NEW t, LabelTurn(b, s, t)
    PROVE  Aligned(b, t)
<1> DEFINE n == At(b, s.pos)
           label == SubSeq(b, s.pos + 2, s.pos + 1 + n)
<1>1. s \in States /\ s.pos \in Nat /\ s.pos >= Header /\ n \in 1..63 /\ s.pos + 1 + n <= Len(b)
      /\ s.pos < Len(b) /\ s.status = "reading"
  BY DEF Aligned, LabelTurn, States
<1>2. t = [status |-> s.status, left |-> s.left, pos |-> s.pos + 1 + n, jumps |-> s.jumps,
           saved |-> s.saved, questions |-> s.questions, labels |-> Append(s.labels, label)]
  BY DEF LabelTurn
<1> HIDE DEF n
<1>3. label \in Seq(Byte)
  BY <1>1
<1> HIDE DEF label
<1>4. Append(s.labels, label) \in Seq(Seq(Byte)) /\ s.pos + 1 + n \in Nat /\ s.pos + 1 + n >= Header
  <2>1. s.labels \in Seq(Seq(Byte))
    BY <1>1 DEF States
  <2>2. Append(s.labels, label) \in Seq(Seq(Byte))
    BY <1>3, <2>1, AppendProperties
  <2>3. QED
    BY <1>1, <2>2 DEF Header
<1>5. t \in States /\ t.pos >= Header
  BY <1>1, <1>2, <1>4 DEF States
<1>6. /\ t.status = s.status /\ t.left = s.left /\ t.jumps = s.jumps /\ t.saved = s.saved
      /\ t.questions = s.questions /\ t.pos = s.pos + 1 + n
  BY <1>1, <1>2 DEF States
<1>7. Walk(b)[s.pos].end = Walk(b)[s.pos + 1 + n].end
  <2>1. NextLabel(b, s.pos) = s.pos + 1 + n
    <3>1. NextLabel(b, s.pos) = Clipped(b, s.pos + 1 + n)
      BY DEF NextLabel, n
    <3>2. QED
      BY <1>1, <3>1 DEF Clipped
  <2>2. s.pos \in 0..Len(b) /\ s.pos # Len(b) /\ n # 0 /\ ~(n >= 192)
    BY <1>1
  <2>3. Walk(b)[s.pos] = [end |-> Walk(b)[NextLabel(b, s.pos)].end,
                          over |-> ((s.pos + 1)..(NextLabel(b, s.pos) - 1)) \cup Walk(b)[NextLabel(b, s.pos)].over]
    BY <2>2, WalkEquation DEF n
  <2>4. QED
    BY <2>1, <2>3
<1>8. Goal(b, t) = Goal(b, s)
  BY <1>6 DEF Goal
<1>9. QED
  BY <1>1, <1>5, <1>6, <1>7, <1>8 DEF Aligned

LEMMA AlignedPointer ==
    ASSUME NEW b \in Seq(Byte), Len(b) >= Header, NEW s, Aligned(b, s), NEW t, PointerTurn(b, s, t)
    PROVE  Aligned(b, t)
<1>1. s \in States /\ s.pos \in Nat /\ s.pos >= Header /\ s.jumps \in Nat /\ s.saved \in Int
      /\ s.pos + 1 < Len(b) /\ At(b, s.pos) >= 192 /\ s.status = "reading" /\ t.pos >= Header
  BY DEF Aligned, PointerTurn, States
<1> DEFINE to == (At(b, s.pos) - 192) * 256 + At(b, s.pos + 1)
           after == IF s.saved = NoOffset THEN s.pos + 2 ELSE s.saved
<1>2. t = [status |-> s.status, left |-> s.left, pos |-> to, jumps |-> s.jumps + 1,
           saved |-> after, questions |-> s.questions, labels |-> s.labels]
  BY DEF PointerTurn
<1>3. to \in Nat
  <2>1. \A c, d \in Byte : c >= 192 => (c - 192) * 256 + d \in Nat
    BY DEF Byte
  <2>2. At(b, s.pos) \in Byte /\ At(b, s.pos + 1) \in Byte
    BY <1>1, ByteIsByte
  <2>3. QED
    BY <1>1, <2>1, <2>2
<1> HIDE DEF to
<1>4. t \in States
  <2>1. after \in Int /\ s.jumps + 1 \in Nat
    BY <1>1
  <2> HIDE DEF after
  <2>2. QED
    BY <1>1, <1>2, <1>3, <2>1 DEF States
<1>5. /\ t.status = s.status /\ t.left = s.left /\ t.jumps = s.jumps + 1 /\ t.saved = after
      /\ t.questions = s.questions
  BY <1>1, <1>2 DEF States
<1>6. after = Goal(b, s) /\ after # NoOffset
  <2>1. CASE s.jumps = 0
    <3>1. Walk(b)[s.pos].end = Goal(b, s) /\ s.saved = NoOffset
      BY <1>1, <2>1 DEF Aligned
    <3>2. Walk(b)[s.pos] = [end |-> Clipped(b, s.pos + 2), over |-> {}]
      <4>1. s.pos \in 0..Len(b) /\ s.pos # Len(b) /\ At(b, s.pos) # 0 /\ At(b, s.pos) >= 192
        BY <1>1, ByteIsByte DEF Byte
      <4>2. QED
        BY <4>1, WalkEquation
    <3>3. Clipped(b, s.pos + 2) = s.pos + 2
      BY <1>1 DEF Clipped
    <3>4. QED
      BY <1>1, <3>1, <3>2, <3>3 DEF NoOffset
  <2>2. CASE s.jumps # 0
    BY <1>1, <2>2 DEF Aligned
  <2>3. QED
    BY <2>1, <2>2
<1>7. Goal(b, t) = Goal(b, s)
  BY <1>5 DEF Goal
<1>8. Len(s.questions) < U16(b, 4) /\ s.left = U16(b, 4) - Len(s.questions)
  BY <1>1 DEF Aligned
<1>9. t.jumps # 0
  BY <1>1, <1>5
<1> HIDE DEF after
<1>10. QED
  BY <1>1, <1>4, <1>5, <1>6, <1>7, <1>8, <1>9 DEF Aligned

\* Where the name ends for the reader, the walk ends too.
LEMMA EndsAlike ==
    ASSUME NEW b \in Seq(Byte), Len(b) >= Header, NEW s, Aligned(b, s), s.status = "reading",
           s.pos < Len(b), At(b, s.pos) = 0
    PROVE  NameEnd(s) = Goal(b, s)
<1>1. s.pos \in Nat /\ s.pos \in 0..Len(b) /\ s.pos # Len(b) /\ s.jumps \in Nat
  BY DEF Aligned, States
<1>2. CASE s.jumps = 0
  <2>1. Walk(b)[s.pos].end = Goal(b, s) /\ s.saved = NoOffset
    BY <1>2 DEF Aligned
  <2>2. Walk(b)[s.pos] = [end |-> s.pos + 1, over |-> {}]
    BY <1>1, WalkEquation
  <2>3. QED
    BY <2>1, <2>2 DEF NameEnd
<1>3. CASE s.jumps # 0
  BY <1>1, <1>3 DEF Aligned, NameEnd
<1>4. QED
  BY <1>2, <1>3

LEMMA AlignedRoot ==
    ASSUME NEW b \in Seq(Byte), Len(b) >= Header, NEW s, Aligned(b, s), NEW t, RootTurn(b, s, t)
    PROVE  Aligned(b, t)
<1> DEFINE k == Len(s.questions)
           o == NameEnd(s)
           N == U16(b, 4)
           qs == Append(s.questions, [name |-> s.labels, type |-> U16(b, o)])
<1>1. s \in States /\ s.status = "reading" /\ s.left \in Nat /\ k \in Nat /\ k < N /\ s.left = N - k
      /\ s.pos < Len(b) /\ At(b, s.pos) = 0 /\ o + 4 <= Len(b)
  BY DEF Aligned, RootTurn, States
<1>2. t = [status |-> IF s.left > 1 THEN "reading" ELSE "read", left |-> s.left - 1, pos |-> o + 4,
           jumps |-> 0, saved |-> NoOffset, labels |-> <<>>, questions |-> qs]
  BY DEF RootTurn
<1>3. N \in Nat
  BY WalkOnCount
<1>4. o = Walk(b)[WalkOn(b)[k].end].end
  BY <1>1, EndsAlike DEF Goal
<1>5. o \in Header..Len(b) /\ o \in Nat
  <2>1. k \in 0..N
    BY <1>1, <1>3
  <2>2. QED
    BY <1>4, <2>1, GoalInside DEF Header
<1>6. U16(b, o) \in Nat
  <2> HIDE DEF o
  <2>1. o + 1 < Len(b)
    BY <1>1, <1>5
  <2>2. U16(b, o) \in U16Values
    BY <1>5, <2>1, NumberIsU16
  <2>3. QED
    BY <2>2, U16IsNatural
<1> HIDE DEF o, N
<1>7. qs \in Seq([name : Seq(Seq(Byte)), type : Nat]) /\ Len(qs) = k + 1
  BY <1>1, <1>6 DEF States
<1> HIDE DEF qs
<1>8. t \in States /\ t.pos >= Header
  BY <1>1, <1>2, <1>3, <1>5, <1>7 DEF States, NoOffset, Header
<1>9. WalkOn(b)[k + 1].end = o + 4
  <2>1. k + 1 \in 1..N /\ (k + 1) - 1 = k
    BY <1>1, <1>3
  <2>2. WalkOn(b)[k + 1].end = PastType(b, Walk(b)[WalkOn(b)[k].end].end)
    <3> HIDE DEF k
    <3>1. \A i \in 1..N : WalkOn(b)[i].end = PastType(b, Walk(b)[WalkOn(b)[i - 1].end].end)
      <4>1. ASSUME NEW i \in 1..N PROVE WalkOn(b)[i].end = PastType(b, Walk(b)[WalkOn(b)[i - 1].end].end)
        <5>1. WalkOn(b)[i] =
                [end |-> PastType(b, Walk(b)[WalkOn(b)[i - 1].end].end),
                 over |-> WalkOn(b)[i - 1].over \cup Walk(b)[WalkOn(b)[i - 1].end].over]
          BY WalkOnEquation DEF N
        <5>2. QED
          BY <5>1
      <4>2. QED
        BY <4>1
    <3>2. QED
      BY <2>1, <3>1
  <2>3. QED
    BY <1>1, <1>4, <2>2 DEF PastType
<1>10. Goal(b, t) = Walk(b)[t.pos].end
  BY <1>2, <1>7, <1>9 DEF Goal
<1>11. QED
  <2>1. t.status = "reading" => s.left > 1
    BY <1>2
  <2>2. t.jumps = 0 /\ t.saved = NoOffset /\ t.left = s.left - 1 /\ Len(t.questions) = k + 1 /\ t.pos = o + 4
    BY <1>2, <1>7
  <2> HIDE DEF k
  <2>3. s.left > 1 => k + 1 < N /\ t.left = N - (k + 1)
    BY <1>1, <1>3, <2>2
  <2>4. QED
    BY <1>1, <1>3, <1>5, <1>8, <1>10, <2>1, <2>2, <2>3 DEF Aligned, N

\* The reader ends each name where the walk that draws cases ends it.
LEMMA AlignedTurn ==
    ASSUME NEW b \in Seq(Byte), Len(b) >= Header, NEW s, Aligned(b, s), NEW t, Turn(b, s, t)
    PROVE  Aligned(b, t)
  BY AlignedLabel, AlignedPointer, AlignedRoot DEF Turn

-----------------------------------------------------------------------------
(* The packet that is forwarded is read as the query was.                   *)

\* Packet b is query q but for the case of the letters drawn, its ID and what
\* comes behind it.
Alike(q, b) ==
    /\ b \in Seq(Byte) /\ Len(b) >= Len(q) /\ U16(b, 4) = U16(q, 4)
    /\ \A o \in Header..(Len(q) - 1) :
         \/ At(b, o) = At(q, o)
         \/ o \in Drawn(q) /\ LowerByte(At(b, o)) = LowerByte(At(q, o))

LEMMA UndrawnByte ==
    ASSUME NEW q \in Seq(Byte), NEW b, Alike(q, b), NEW o \in Nat, o >= Header, o < Len(q), o \notin Drawn(q)
    PROVE  At(b, o) = At(q, o)
<1>1. o \in Header..(Len(q) - 1)
  BY DEF Header
<1>2. QED
  BY <1>1 DEF Alike

\* A length or a pointer is no letter.
LEMMA OtherByte ==
    ASSUME NEW q \in Seq(Byte), NEW b, Alike(q, b), NEW o \in Nat, o >= Header, o < Len(q),
           At(q, o) \in 0..63 \/ At(q, o) >= 192
    PROVE  At(b, o) = At(q, o)
<1>1. At(q, o) \in 0..255
  BY ByteIsByte DEF Byte
<1>2. At(q, o) \notin Letters
  <2>1. \A c \in 0..255 : c \in 0..63 \/ c >= 192 => c \notin Letters
    BY DEF Letters
  <2>2. QED
    BY <1>1, <2>1
<1>3. QED
  BY <1>2, UndrawnByte DEF Drawn

LEMMA AnyByte ==
    ASSUME NEW q \in Seq(Byte), NEW b, Alike(q, b), NEW o \in Nat, o >= Header, o < Len(q)
    PROVE  LowerByte(At(b, o)) = LowerByte(At(q, o))
<1>1. o \in Header..(Len(q) - 1)
  BY DEF Header
<1>2. QED
  BY <1>1 DEF Alike

\* Names, questions and turns of the reader that differ in the case of letters.
LikeLabels(x, y) ==
    /\ Len(x) = Len(y)
    /\ \A j \in 1..Len(x) :
         /\ Len(x[j]) = Len(y[j])
         /\ \A k \in 1..Len(x[j]) : LowerByte(x[j][k]) = LowerByte(y[j][k])

LikeQuestions(x, y) ==
    /\ Len(x) = Len(y)
    /\ \A i \in 1..Len(x) : x[i].type = y[i].type /\ LikeLabels(x[i].name, y[i].name)

Like(s, t) ==
    /\ s.status = t.status /\ s.left = t.left /\ s.pos = t.pos /\ s.jumps = t.jumps /\ s.saved = t.saved
    /\ LikeLabels(s.labels, t.labels) /\ LikeQuestions(s.questions, t.questions)

\* Each turn of the reader over the query has one like it over the packet.
LEMMA FollowLabel ==
    ASSUME NEW q \in Seq(Byte), Len(q) >= Header, Alike(q, buf),
           NEW s, Aligned(q, s), NEW t, LabelTurn(q, s, t), Like(s, Here), Here \in States, ReadOn
    PROVE  (regular => regular') /\ Like(t, Here')
<1> DEFINE n == At(q, pos)
           old == SubSeq(q, pos + 2, pos + 1 + n)
           new == SubSeq(buf, pos + 2, pos + 1 + n)
<1>1. /\ s \in States /\ s.status = status /\ s.left = left /\ s.pos = pos /\ s.jumps = jumps
      /\ s.saved = saved /\ LikeLabels(s.labels, labels) /\ LikeQuestions(s.questions, questions)
  BY DEF Aligned, Like, Here
<1>2. /\ pos \in Nat /\ pos >= Header /\ pos < Len(q) /\ n \in 1..63 /\ pos + 1 + n <= Len(q)
      /\ Len(q) <= Len(buf) /\ buf \in Seq(Byte)
      /\ t = [status |-> status, left |-> left, pos |-> pos + 1 + n, jumps |-> jumps, saved |-> saved,
              questions |-> s.questions, labels |-> Append(s.labels, old)]
  BY <1>1 DEF Aligned, LabelTurn, Alike, States
<1>3. At(buf, pos) = n
  <2>1. n \in 0..63
    BY <1>2
  <2>2. QED
    BY <1>2, <2>1, OtherByte
<1> HIDE DEF n
<1>4. Label
  <2>1. pos < Len(buf) /\ ~(n = 0) /\ ~(n >= 192) /\ ~(n > 63) /\ ~(pos + 1 + n > Len(buf))
    BY <1>2
  <2>2. ~PastEnd
    <3>1. ~(pos >= Len(buf))
      BY <1>2, <2>1
    <3>2. QED
      BY <3>1 DEF PastEnd
  <2>3. ~Root
    BY <1>3, <2>1 DEF Root
  <2>4. ~BadPointer /\ ~Pointer
    BY <1>3, <2>1 DEF BadPointer, Pointer
  <2>5. ~BadLabel
    BY <1>3, <2>1 DEF BadLabel
  <2>6. QED
    BY <2>2, <2>3, <2>4, <2>5 DEF ReadOn
<1>5. /\ regular' = regular /\ status' = status /\ left' = left /\ pos' = pos + 1 + n /\ jumps' = jumps
      /\ saved' = saved /\ questions' = questions /\ labels' = Append(labels, new)
  BY <1>3, <1>4 DEF Label
<1>6. Len(old) = n /\ Len(new) = n /\ \A k \in 1..n : old[k] = At(q, pos + k) /\ new[k] = At(buf, pos + k)
  <2>1. Len(q) \in Nat /\ Len(buf) \in Nat /\ pos + 1 + n <= Len(buf)
    BY <1>2
  <2>2. Len(old) = n /\ Len(new) = n
    BY <1>2, <2>1
  <2>3. ASSUME NEW k \in 1..n PROVE old[k] = At(q, pos + k) /\ new[k] = At(buf, pos + k)
    BY <1>2, <2>1 DEF At
  <2>4. QED
    BY <2>2, <2>3
<1>7. \A k \in 1..n : LowerByte(old[k]) = LowerByte(new[k])
  <2>1. ASSUME NEW k \in 1..n PROVE LowerByte(old[k]) = LowerByte(new[k])
    <3>1. pos + k \in Nat /\ pos + k >= Header /\ pos + k < Len(q)
      BY <1>2 DEF Header
    <3>2. QED
      BY <1>6, <3>1, AnyByte
  <2>2. QED
    BY <2>1
<1>8. s.labels \in Seq(Seq(Byte)) /\ labels \in Seq(Seq(Byte))
  BY <1>1 DEF States, Here
<1> HIDE DEF old, new
<1>9. LikeLabels(Append(s.labels, old), Append(labels, new))
  <2>1. Len(s.labels) = Len(labels) /\ Len(labels) \in Nat
    BY <1>1, <1>8 DEF LikeLabels
  <2>2. ASSUME NEW j \in 1..(Len(s.labels) + 1)
        PROVE  /\ Len(Append(s.labels, old)[j]) = Len(Append(labels, new)[j])
               /\ \A k \in 1..Len(Append(s.labels, old)[j]) :
                    LowerByte(Append(s.labels, old)[j][k]) = LowerByte(Append(labels, new)[j][k])
    <3>1. CASE j = Len(s.labels) + 1
      <4>1. Append(s.labels, old)[j] = old /\ Append(labels, new)[j] = new
        BY <1>8, <2>1, <3>1
      <4>2. QED
        BY <1>6, <1>7, <4>1
    <3>2. CASE j # Len(s.labels) + 1
      <4>1. j \in 1..Len(s.labels)
        BY <2>1, <3>2
      <4>2. Append(s.labels, old)[j] = s.labels[j] /\ Append(labels, new)[j] = labels[j]
        BY <1>8, <2>1, <4>1
      <4>3. QED
        BY <1>1, <4>1, <4>2 DEF LikeLabels
    <3>3. QED
      BY <3>1, <3>2
  <2>3. Len(Append(s.labels, old)) = Len(s.labels) + 1 /\ Len(Append(labels, new)) = Len(labels) + 1
    BY <1>8
  <2>4. QED
    BY <2>1, <2>2, <2>3 DEF LikeLabels
<1>10. QED
  BY <1>1, <1>2, <1>5, <1>9 DEF Like, Here

LEMMA FollowPointer ==
    ASSUME NEW q \in Seq(Byte), Len(q) >= Header, Alike(q, buf), TextIsNoPointer(q),
           NEW s, Aligned(q, s), NEW t, PointerTurn(q, s, t), Like(s, Here), ReadOn
    PROVE  (regular => regular') /\ Like(t, Here')
<1> DEFINE to == (At(q, pos) - 192) * 256 + At(q, pos + 1)
           after == IF saved = NoOffset THEN pos + 2 ELSE saved
<1>1. /\ s.status = status /\ s.left = left /\ s.pos = pos /\ s.jumps = jumps
      /\ s.saved = saved /\ LikeLabels(s.labels, labels) /\ LikeQuestions(s.questions, questions)
  BY DEF Like, Here
<1>2. /\ pos \in Nat /\ pos >= Header /\ pos + 1 < Len(q) /\ pos < Len(q) /\ At(q, pos) >= 192
      /\ jumps < MaxJumps /\ Len(q) <= Len(buf) /\ buf \in Seq(Byte) /\ jumps \in Nat
      /\ t = [status |-> status, left |-> left, pos |-> to, jumps |-> jumps + 1, saved |-> after,
              questions |-> s.questions, labels |-> s.labels]
      /\ to >= Header
  BY <1>1 DEF Aligned, PointerTurn, Alike, States
<1>3. At(buf, pos) = At(q, pos)
  BY <1>2, OtherByte
<1>4. At(buf, pos + 1) = At(q, pos + 1)
  <2>1. (pos + 1) - 1 = pos
    BY <1>2
  <2>2. pos + 1 \notin Drawn(q)
    <3>1. SUFFICES ASSUME pos + 1 \in Drawn(q) PROVE FALSE
      OBVIOUS
    <3>2. At(q, (pos + 1) - 1) < 192
      BY <3>1 DEF TextIsNoPointer
    <3>3. At(q, pos) \in 0..255
      BY <1>2, ByteIsByte DEF Byte
    <3>4. \A c \in 0..255 : ~(c < 192 /\ c >= 192)
      OBVIOUS
    <3>5. At(q, pos) < 192
      BY <2>1, <3>2
    <3>6. QED
      BY <1>2, <3>3, <3>4, <3>5
  <2>3. pos + 1 \in Nat /\ pos + 1 >= Header
    BY <1>2 DEF Header
  <2>4. QED
    BY <1>2, <2>2, <2>3, UndrawnByte
<1>5. Pointer
  <2>1. pos < Len(buf) /\ pos + 1 < Len(buf) /\ MaxJumps \in Nat
    BY <1>2, MaxJumpsAssumption
  <2>2. At(q, pos) \in 0..255
    BY <1>2, ByteIsByte DEF Byte
  <2>3. ~(At(q, pos) = 0) /\ ~(At(q, pos) \in 1..191) /\ ~(At(q, pos) \in 1..63)
    <3> DEFINE c == At(q, pos)
    <3>1. c \in 0..255 /\ c >= 192
      BY <1>2, <2>2
    <3> HIDE DEF c
    <3>2. ~(c = 0) /\ ~(c \in 1..191) /\ ~(c \in 1..63)
      BY <3>1
    <3>3. QED
      BY <3>2 DEF c
  <2>4. ~(pos + 1 >= Len(buf)) /\ ~(pos >= Len(buf)) /\ ~(jumps = MaxJumps)
    <3>1. Len(buf) \in Nat
      BY <1>2
    <3> HIDE DEF to, after
    <3>2. QED
      BY <1>2, <2>1, <3>1
  <2>5. ~PastEnd
    BY <2>4 DEF PastEnd
  <2>6. ~Root /\ ~Label /\ ~BadLabel
    BY <1>3, <2>3 DEF Root, Label, BadLabel
  <2>7. ~BadPointer
    BY <2>4 DEF BadPointer
  <2>8. QED
    BY <2>5, <2>6, <2>7 DEF ReadOn
<1>6. /\ status' = status /\ left' = left /\ pos' = to /\ jumps' = jumps + 1
      /\ saved' = after /\ questions' = questions /\ labels' = labels
  BY <1>3, <1>4, <1>5 DEF Pointer
<1>7. regular' = (regular /\ pos' >= Header)
  BY <1>5 DEF Pointer
<1> HIDE DEF to, after
<1>8. Like(t, Here')
  BY <1>1, <1>2, <1>6 DEF Like, Here
<1>9. regular => regular'
  BY <1>2, <1>6, <1>7
<1>10. QED
  BY <1>8, <1>9

LEMMA FollowRoot ==
    ASSUME NEW q \in Seq(Byte), Len(q) >= Header, Alike(q, buf),
           NEW s, Aligned(q, s), NEW t, RootTurn(q, s, t), Like(s, Here), Here \in States, ReadOn
    PROVE  (regular => regular') /\ Like(t, Here')
<1> DEFINE o == NameEnd(s)
           k == Len(s.questions)
<1>1. /\ s \in States /\ s.status = status /\ s.left = left /\ s.pos = pos /\ s.jumps = jumps
      /\ s.saved = saved /\ LikeLabels(s.labels, labels) /\ LikeQuestions(s.questions, questions)
  BY DEF Aligned, Like, Here
<1>2. /\ status = "reading" /\ pos \in Nat /\ pos >= Header /\ pos < Len(q) /\ At(q, pos) = 0
      /\ Len(q) <= Len(buf) /\ buf \in Seq(Byte)
      /\ o + 4 <= Len(q) /\ U16(q, o + 2) \in Classes
      /\ t = [status |-> IF left > 1 THEN "reading" ELSE "read", left |-> left - 1, pos |-> o + 4,
              jumps |-> 0, saved |-> NoOffset, labels |-> <<>>,
              questions |-> Append(s.questions, [name |-> s.labels, type |-> U16(q, o)])]
      /\ k < U16(q, 4)
  BY <1>1 DEF Aligned, RootTurn, Alike, States
<1>3. At(buf, pos) = 0
  <2>1. At(q, pos) \in 0..63
    BY <1>2
  <2>2. QED
    BY <1>2, <2>1, OtherByte
<1>4. o = Goal(q, s)
  BY <1>1, <1>2, EndsAlike
<1>5. k \in 0..(U16(q, 4) - 1) /\ k \in 0..U16(q, 4)
  <2>1. k \in Nat /\ U16(q, 4) \in Nat
    BY <1>1, WalkOnCount DEF States
  <2> HIDE DEF k
  <2>2. QED
    BY <1>2, <2>1
<1>6. o \in Nat /\ o >= Header
  <2>1. o \in Header..Len(q)
    BY <1>4, <1>5, GoalInside DEF Goal
  <2> HIDE DEF o
  <2>2. QED
    BY <2>1 DEF Header
<1>7. \A d \in 0..3 : At(buf, o + d) = At(q, o + d)
  <2>1. ASSUME NEW d \in 0..3 PROVE At(buf, o + d) = At(q, o + d)
    <3>1. o + d \notin Drawn(q)
      <4> HIDE DEF o, k
      <4>1. o = Walk(q)[WalkOn(q)[k].end].end
        BY <1>4 DEF Goal, k
      <4>2. QED
        BY <1>2, <1>5, <4>1, TypeIsKept
    <3> HIDE DEF o, k
    <3>2. o + d \in Nat /\ o + d >= Header /\ o + d < Len(q)
      BY <1>2, <1>6 DEF Header
    <3>3. QED
      BY <3>1, <3>2, UndrawnByte
  <2>2. QED
    BY <2>1
<1>8. o = IF saved = NoOffset THEN pos + 1 ELSE saved
  BY <1>1 DEF NameEnd
<1> HIDE DEF o, k
<1>9. U16(buf, o) = U16(q, o) /\ U16(buf, o + 2) = U16(q, o + 2)
  <2>1. o = o + 0 /\ (o + 2) + 1 = o + 3
    BY <1>6
  <2>2. At(buf, o) = At(q, o) /\ At(buf, o + 1) = At(q, o + 1) /\ At(buf, o + 2) = At(q, o + 2)
        /\ At(buf, o + 3) = At(q, o + 3)
    <3>1. 0 \in 0..3 /\ 1 \in 0..3 /\ 2 \in 0..3 /\ 3 \in 0..3
      OBVIOUS
    <3>2. QED
      BY <1>7, <2>1, <3>1
  <2>3. QED
    BY <2>1, <2>2 DEF U16
<1>10. pos < Len(buf) /\ o + 4 <= Len(buf)
  BY <1>2, <1>6
<1>11. Root
  <2>1. ~PastEnd
    <3>1. ~(pos >= Len(buf))
      BY <1>2, <1>10
    <3>2. QED
      BY <3>1 DEF PastEnd
  <2>2. ~BadPointer /\ ~Pointer /\ ~Label /\ ~BadLabel
    BY <1>3 DEF BadPointer, Pointer, Label, BadLabel
  <2>3. QED
    BY <2>1, <2>2 DEF ReadOn
<1> DEFINE type == U16(q, o)
           asking == [name |-> labels, type |-> type]
           old == [name |-> s.labels, type |-> type]
<1>12. /\ regular => regular'
       /\ status' = (IF left > 1 THEN "reading" ELSE "read") /\ left' = left - 1 /\ pos' = o + 4
       /\ jumps' = 0 /\ saved' = NoOffset /\ labels' = <<>> /\ questions' = Append(questions, asking)
  <2>1. EndName(pos + 1, FALSE)
    BY <1>11 DEF Root
  <2>2. o + 4 <= Len(buf) /\ U16(buf, o + 2) \in Classes
    BY <1>2, <1>9, <1>10
  <2>3. QED
    BY <1>8, <1>9, <2>1, <2>2 DEF EndName
<1>13. /\ s.questions \in Seq([name : Seq(Seq(Byte)), type : Nat])
       /\ questions \in Seq([name : Seq(Seq(Byte)), type : Nat])
  BY <1>1 DEF States, Here
<1>14. asking.type = old.type /\ LikeLabels(old.name, asking.name)
  BY <1>1
<1>15. LikeQuestions(Append(s.questions, old), Append(questions, asking))
  <2> HIDE DEF asking, old
  <2>1. Len(s.questions) = Len(questions) /\ Len(questions) \in Nat
    BY <1>1, <1>13 DEF LikeQuestions
  <2>2. ASSUME NEW i \in 1..(Len(s.questions) + 1)
        PROVE  /\ Append(s.questions, old)[i].type = Append(questions, asking)[i].type
               /\ LikeLabels(Append(s.questions, old)[i].name, Append(questions, asking)[i].name)
    <3>1. CASE i = Len(s.questions) + 1
      <4>1. Append(s.questions, old)[i] = old /\ Append(questions, asking)[i] = asking
        BY <1>13, <2>1, <3>1
      <4>2. QED
        BY <1>14, <4>1
    <3>2. CASE i # Len(s.questions) + 1
      <4>1. i \in 1..Len(s.questions)
        BY <2>1, <3>2
      <4>2. Append(s.questions, old)[i] = s.questions[i] /\ Append(questions, asking)[i] = questions[i]
        BY <1>13, <2>1, <4>1
      <4>3. QED
        BY <1>1, <4>1, <4>2 DEF LikeQuestions
    <3>3. QED
      BY <3>1, <3>2
  <2>3. Len(Append(s.questions, old)) = Len(s.questions) + 1 /\ Len(Append(questions, asking)) = Len(questions) + 1
    BY <1>13
  <2>4. QED
    BY <2>1, <2>2, <2>3 DEF LikeQuestions
<1>16. LikeLabels(<<>>, <<>>)
  BY DEF LikeLabels
<1>17. t.questions = Append(s.questions, old)
  BY <1>2
<1> HIDE DEF asking, old
<1>18. QED
  BY <1>2, <1>12, <1>15, <1>16, <1>17 DEF Like, Here

\* Two packets that are alike but for the case of the letters are read alike.
LEMMA FollowTurn ==
    ASSUME NEW q \in Seq(Byte), Len(q) >= Header, Alike(q, buf), TextIsNoPointer(q),
           NEW s, Aligned(q, s), NEW t, Turn(q, s, t), Like(s, Here), Here \in States, ReadOn
    PROVE  (regular => regular') /\ Like(t, Here')
  BY FollowLabel, FollowPointer, FollowRoot DEF Turn

\* The walk begins behind the header.
LEMMA OverAbove ==
    ASSUME NEW b \in Seq(Byte), Len(b) >= Header, NEW k \in 0..U16(b, 4)
    PROVE  \A p \in WalkOn(b)[k].over : p \in Nat /\ p >= Header
<1> DEFINE N == U16(b, 4)
           Good(i) == \A p \in WalkOn(b)[i].over : p \in Nat /\ p >= Header
           Bad == {i \in 0..N : ~Good(i)}
<1>1. N \in Nat
  BY WalkOnCount
<1>2. ASSUME NEW i \in Bad PROVE \E m \in Bad : m < i
  <2>1. i # 0
    BY WalkOnEquation
  <2>2. i \in 1..N /\ i - 1 \in 0..N /\ i - 1 < i
    BY <1>1, <2>1
  <2> DEFINE u == WalkOn(b)[i - 1]
             w == Walk(b)[u.end]
  <2>3. u.end \in Header..Len(b) /\ u.end \in 0..Len(b)
    BY <2>2, GoalInside DEF Header
  <2>4. WalkOn(b)[i] = [end |-> PastType(b, w.end), over |-> u.over \cup w.over]
    BY <2>2, WalkOnEquation
  <2>5. \A p \in w.over : p \in (u.end + 1)..(w.end - 1)
    BY <2>3, WalkSpan
  <2>6. \A p \in w.over : p \in Nat /\ p >= Header
    BY <2>3, <2>5 DEF Header
  <2>7. ~Good(i - 1)
    <3>1. SUFFICES ASSUME Good(i - 1) PROVE Good(i)
      OBVIOUS
    <3> HIDE DEF w
    <3>2. QED
      BY <2>4, <2>6, <3>1
  <2>8. QED
    BY <2>2, <2>7
<1>3. Bad \subseteq Nat
  BY <1>1
<1>4. Bad = {}
  <2> HIDE DEF Bad
  <2> QED
    BY <1>2, <1>3, NoLeast
<1>5. QED
  BY <1>4

LEMMA DrawnBehindHeader ==
    ASSUME NEW b \in Seq(Byte), Len(b) >= Header
    PROVE  \A p \in Drawn(b) : p \in Nat /\ p >= Header /\ At(b, p) \in Letters
<1>1. U16(b, 4) \in 0..U16(b, 4)
  BY WalkOnCount
<1>2. QED
  BY <1>1, OverAbove DEF Drawn

\* What each step of the rewriting leaves alone.
LEMMA RecasedBytes ==
    ASSUME NEW q \in Seq(Byte), Len(q) >= Header, NEW upper \in SUBSET Drawn(q)
    PROVE  /\ Recased(q, upper) \in Seq(Byte) /\ Len(Recased(q, upper)) = Len(q)
           /\ \A o \in 0..(Len(q) - 1) :
                /\ LowerByte(At(Recased(q, upper), o)) = LowerByte(At(q, o))
                /\ o \notin Drawn(q) => At(Recased(q, upper), o) = At(q, o)
<1> DEFINE F(i) == IF (i - 1) \in upper THEN UpperByte(q[i])
                   ELSE IF (i - 1) \in Drawn(q) THEN LowerByte(q[i]) ELSE q[i]
           r == [i \in 1..Len(q) |-> F(i)]
<1>1. \A c \in Byte : /\ UpperByte(c) \in Byte /\ LowerByte(c) \in Byte
                      /\ LowerByte(UpperByte(c)) = LowerByte(c)
                      /\ LowerByte(LowerByte(c)) = LowerByte(c)
  BY DEF Byte, UpperByte, LowerByte
<1>2. ASSUME NEW i \in 1..Len(q)
      PROVE  /\ F(i) \in Byte /\ LowerByte(F(i)) = LowerByte(q[i])
             /\ (i - 1) \notin Drawn(q) => F(i) = q[i]
  <2>1. q[i] \in Byte
    OBVIOUS
  <2>2. QED
    BY <1>1, <2>1
<1>3. Recased(q, upper) = r
  BY DEF Recased
<1> HIDE DEF F
<1>4. r \in Seq(Byte) /\ Len(r) = Len(q)
  BY <1>2
<1>5. ASSUME NEW o \in 0..(Len(q) - 1)
      PROVE  LowerByte(At(r, o)) = LowerByte(At(q, o)) /\ (o \notin Drawn(q) => At(r, o) = At(q, o))
  <2>1. o + 1 \in 1..Len(q) /\ (o + 1) - 1 = o
    OBVIOUS
  <2>2. At(r, o) = F(o + 1) /\ At(q, o) = q[o + 1]
    BY <2>1 DEF At
  <2>3. QED
    BY <1>2, <2>1, <2>2
<1>6. QED
  BY <1>3, <1>4, <1>5

LEMMA WithIdBytes ==
    ASSUME NEW r \in Seq(Byte), Len(r) >= Header
    PROVE  /\ WithId(r, 9) \in Seq(Byte) /\ Len(WithId(r, 9)) = Len(r)
           /\ \A o \in 2..(Len(r) - 1) : At(WithId(r, 9), o) = At(r, o)
<1> DEFINE rest == SubSeq(r, 3, Len(r))
<1>1. Bytes16(9) \in Seq(Byte) /\ Len(Bytes16(9)) = 2
  BY DEF Bytes16, Byte
<1>2. rest \in Seq(Byte) /\ Len(rest) = Len(r) - 2 /\ \A j \in 1..Len(rest) : rest[j] = r[j + 2]
  BY DEF Header
<1>3. WithId(r, 9) = Bytes16(9) \o rest
  BY DEF WithId
<1> DEFINE two == Bytes16(9)
<1> HIDE DEF rest, two
<1>4. two \in Seq(Byte) /\ Len(two) = 2 /\ WithId(r, 9) = two \o rest
  BY <1>1, <1>3 DEF two
<1>5. /\ two \o rest \in Seq(Byte) /\ Len(two \o rest) = Len(r)
      /\ \A i \in 1..Len(r) : (two \o rest)[i] = IF i <= 2 THEN two[i] ELSE rest[i - 2]
  <2>1. rest \in Seq(Byte) /\ Len(rest) = Len(r) - 2 /\ Len(r) \in Nat
    BY <1>2
  <2>2. /\ two \o rest \in Seq(Byte) /\ Len(two \o rest) = Len(two) + Len(rest)
        /\ \A i \in 1..(Len(two) + Len(rest)) :
             (two \o rest)[i] = IF i <= Len(two) THEN two[i] ELSE rest[i - Len(two)]
    BY <1>4, <2>1, ConcatProperties
  <2>3. Len(two) + Len(rest) = Len(r)
    BY <1>4, <2>1
  <2>4. QED
    BY <1>4, <2>2, <2>3
<1>6. ASSUME NEW o \in 2..(Len(r) - 1) PROVE At(two \o rest, o) = At(r, o)
  <2>1. (two \o rest)[o + 1] = rest[o - 1]
    <3>1. o + 1 \in 1..Len(r) /\ ~(o + 1 <= 2) /\ (o + 1) - 2 = o - 1
      OBVIOUS
    <3>2. QED
      BY <1>5, <3>1
  <2>2. rest[o - 1] = r[o + 1]
    <3>1. o - 1 \in 1..Len(rest) /\ (o - 1) + 2 = o + 1
      BY <1>2
    <3>2. QED
      BY <1>2, <3>1
  <2>3. QED
    BY <2>1, <2>2 DEF At
<1>7. QED
  BY <1>4, <1>5, <1>6

LEMMA WithOptBytes ==
    ASSUME NEW r \in Seq(Byte), Len(r) >= Header
    PROVE  /\ WithOpt(r) \in Seq(Byte) /\ Len(WithOpt(r)) >= Len(r)
           /\ \A o \in 0..(Len(r) - 1) : o \notin {10, 11} => At(WithOpt(r), o) = At(r, o)
<1>1. CASE U16(r, 10) > 0
  BY <1>1 DEF WithOpt
<1>2. CASE ~(U16(r, 10) > 0)
  <2> DEFINE w == [r EXCEPT ![11] = 0, ![12] = 1]
             opt == OptRecord
  <2>1. opt \in Seq(Byte) /\ Len(opt) = 11
    BY DEF OptRecord, Byte
  <2>2. w \in Seq(Byte) /\ Len(w) = Len(r) /\ \A i \in 1..Len(r) : i \notin {11, 12} => w[i] = r[i]
    <3> DEFINE v == [r EXCEPT ![11] = 0]
    <3>1. 11 \in 1..Len(r) /\ 12 \in 1..Len(r) /\ 0 \in Byte /\ 1 \in Byte
      BY DEF Header, Byte
    <3>2. v \in Seq(Byte) /\ Len(v) = Len(r) /\ \A i \in 1..Len(r) : v[i] = IF i = 11 THEN 0 ELSE r[i]
      BY <3>1, ExceptSeq
    <3>3. w = [v EXCEPT ![12] = 1]
      OBVIOUS
    <3> HIDE DEF v, w
    <3>4. w \in Seq(Byte) /\ Len(w) = Len(r) /\ \A i \in 1..Len(r) : w[i] = IF i = 12 THEN 1 ELSE v[i]
      BY <3>1, <3>2, <3>3, ExceptSeq
    <3>5. QED
      BY <3>2, <3>4
  <2>3. WithOpt(r) = w \o opt
    BY <1>2 DEF WithOpt
  <2> HIDE DEF w, opt
  <2>4. w \o opt \in Seq(Byte) /\ Len(w \o opt) >= Len(r)
    BY <2>1, <2>2
  <2>5. ASSUME NEW o \in 0..(Len(r) - 1), o \notin {10, 11} PROVE At(w \o opt, o) = At(r, o)
    <3>1. o + 1 \in 1..Len(r) /\ o + 1 \notin {11, 12}
      BY <2>5
    <3>2. (w \o opt)[o + 1] = w[o + 1]
      BY <2>1, <2>2, <3>1
    <3>3. QED
      BY <2>2, <3>1, <3>2 DEF At
  <2>6. QED
    BY <2>3, <2>4, <2>5
<1>3. QED
  BY <1>1, <1>2

\* What is forwarded is the query, but for the case of its letters.
LEMMA ForwardedIsAlike ==
    ASSUME NEW q \in Seq(Byte), Len(q) >= Header, NEW upper \in SUBSET Drawn(q)
    PROVE  Alike(q, WithOpt(WithId(Recased(q, upper), 9)))
<1> DEFINE r == Recased(q, upper)
           w == WithId(r, 9)
           b == WithOpt(w)
<1>1. /\ r \in Seq(Byte) /\ Len(r) = Len(q)
      /\ \A o \in 0..(Len(q) - 1) :
                /\ LowerByte(At(r, o)) = LowerByte(At(q, o))
                /\ o \notin Drawn(q) => At(r, o) = At(q, o)
  BY RecasedBytes
<1> HIDE DEF r
<1>2. w \in Seq(Byte) /\ Len(w) = Len(r) /\ \A o \in 2..(Len(r) - 1) : At(w, o) = At(r, o)
  BY <1>1, WithIdBytes
<1> HIDE DEF w
<1>3. b \in Seq(Byte) /\ Len(b) >= Len(w) /\ \A o \in 0..(Len(w) - 1) : o \notin {10, 11} => At(b, o) = At(w, o)
  BY <1>1, <1>2, WithOptBytes
<1> HIDE DEF b
<1>4. ASSUME NEW o \in 2..(Len(q) - 1), o \notin {10, 11} PROVE At(b, o) = At(r, o) /\ o \in 0..(Len(q) - 1)
  BY <1>1, <1>2, <1>3, <1>4
<1>5. U16(b, 4) = U16(q, 4)
  <2>1. ASSUME NEW o \in {4, 5} PROVE At(b, o) = At(q, o)
    <3>1. o \in 2..(Len(q) - 1) /\ o \notin {10, 11}
      BY DEF Header
    <3>2. o \notin Drawn(q)
      BY DrawnBehindHeader DEF Header
    <3>3. QED
      BY <1>1, <1>4, <3>1, <3>2
  <2>2. 4 + 1 = 5
    OBVIOUS
  <2>3. QED
    BY <2>1, <2>2 DEF U16
<1>6. ASSUME NEW o \in Header..(Len(q) - 1)
      PROVE  \/ At(b, o) = At(q, o)
             \/ o \in Drawn(q) /\ LowerByte(At(b, o)) = LowerByte(At(q, o))
  <2>1. o \in 2..(Len(q) - 1) /\ o \notin {10, 11}
    BY DEF Header
  <2>2. QED
    BY <1>1, <1>4, <2>1
<1>7. Len(b) >= Len(q)
  BY <1>1, <1>2, <1>3
<1>8. Alike(q, b)
  BY <1>3, <1>5, <1>6, <1>7 DEF Alike
<1>9. QED
  BY <1>8 DEF b, w, r

-----------------------------------------------------------------------------
(* The forwarded packet is read along the trace of the query.               *)

\* The turns by which packet q was read.
Trace(q, tr, n) ==
    /\ n \in Nat /\ tr[0] = Start(q)
    /\ \A i \in 0..n : Aligned(q, tr[i])
    /\ \A i \in 0..(n - 1) : Turn(q, tr[i], tr[i + 1])

LEMMA TraceBegins ==
    ASSUME NEW q \in Seq(Byte), Len(q) >= Header
    PROVE  Trace(q, [i \in 0..0 |-> Start(q)], 0)
<1>1. Aligned(q, Start(q))
  BY AlignedStart
<1>2. 0..0 = {0} /\ 0..(0 - 1) = {}
  OBVIOUS
<1>3. QED
  BY <1>1, <1>2 DEF Trace

LEMMA TraceGoesOn ==
    ASSUME NEW q \in Seq(Byte), Len(q) >= Header, NEW tr, NEW n, Trace(q, tr, n),
           NEW t, Turn(q, tr[n], t)
    PROVE  \E g : Trace(q, g, n + 1) /\ g[n + 1] = t
<1> DEFINE g == [i \in 0..(n + 1) |-> IF i = n + 1 THEN t ELSE tr[i]]
<1>1. n \in Nat /\ n \in 0..n
  BY DEF Trace
<1>2. Aligned(q, t)
  BY <1>1, AlignedTurn DEF Trace
<1>3. g[n + 1] = t /\ \A i \in 0..n : g[i] = tr[i]
  BY <1>1
<1> HIDE DEF g
<1>4. g[0] = Start(q)
  BY <1>1, <1>3 DEF Trace
<1>5. ASSUME NEW i \in 0..(n + 1) PROVE Aligned(q, g[i])
  <2>1. i = n + 1 \/ i \in 0..n
    BY <1>1
  <2>2. QED
    BY <1>2, <1>3, <2>1 DEF Trace
<1>6. ASSUME NEW i \in 0..((n + 1) - 1) PROVE Turn(q, g[i], g[i + 1])
  <2>1. i \in 0..n /\ (i = n \/ (i \in 0..(n - 1) /\ i + 1 \in 0..n))
    BY <1>1
  <2>2. CASE i = n
    BY <1>1, <1>3, <2>2
  <2>3. CASE i # n
    BY <1>3, <2>1, <2>3 DEF Trace
  <2>4. QED
    BY <2>2, <2>3
<1>7. Trace(q, g, n + 1)
  BY <1>1, <1>4, <1>5, <1>6 DEF Trace
<1>8. QED
  BY <1>3, <1>7

\* A query that was regular so far was read turn by turn.
QueryRead ==
    role = "query" =>
      /\ buf \in Seq(Byte) /\ Len(buf) >= Header /\ status \in {"reading", "read"}
      /\ regular => \E n, tr : Trace(buf, tr, n) /\ tr[n] = Here

\* What is being read of the packet that was forwarded, was read of the query.
Follows(q, tr, n, i) ==
    /\ q \in Seq(Byte) /\ Len(q) >= Header /\ TextIsNoPointer(q) /\ Alike(q, buf)
    /\ Trace(q, tr, n) /\ tr[n].status = "read" /\ tr[n].questions = asked
    /\ i \in 0..n /\ Like(tr[i], Here)

\* What the reader of the forwarded packet keeps: every turn it has taken is
\* like one by which the query was read.
ForwardedRead ==
    role = "forwarded" /\ status # "thrown" /\ sound =>
      /\ buf \in Seq(Byte) /\ Len(buf) >= Header /\ regular /\ Aligned(buf, Here)
      /\ \E q, tr, n, i : Follows(q, tr, n, i)

ForwardInv == QueryRead /\ ForwardedRead

LEMMA QueryReadsOn ==
    ASSUME QueryRead, role = "query", ReadOn, role' = role
    PROVE  QueryRead'
<1>1. buf' = buf
  BY ReadOnKeeps
<1>2. status' \in {"reading", "read"}
  <2>1. status = "reading"
    BY DEF ReadOn, PastEnd, Root, BadPointer, Pointer, BadLabel, Label, Inside, Reading
  <2>2. QED
    BY <2>1 DEF ReadOn, PastEnd, Root, BadPointer, Pointer, BadLabel, Label, EndName
<1>3. buf \in Seq(Byte) /\ Len(buf) >= Header
  BY DEF QueryRead
<1>4. ASSUME regular' PROVE \E n, tr : Trace(buf, tr, n) /\ tr[n] = Here'
  <2>1. regular /\ Turn(buf, Here, Here')
    BY <1>4, RegularReadOn
  <2>2. PICK n, tr : Trace(buf, tr, n) /\ tr[n] = Here
    BY <2>1 DEF QueryRead
  <2>3. \E g : Trace(buf, g, n + 1) /\ g[n + 1] = Here'
    BY <1>3, <2>1, <2>2, TraceGoesOn
  <2>4. QED
    BY <2>3
<1>5. regular' => (\E n, tr : Trace(buf, tr, n) /\ tr[n] = Here)'
  BY <1>1, <1>4 DEF Trace
<1>6. QED
  BY <1>1, <1>2, <1>3, <1>5 DEF QueryRead

\* A reader that is reading takes a turn of the trace it follows.
LEMMA FollowsOn ==
    ASSUME NEW q, NEW tr, NEW n, NEW i, Follows(q, tr, n, i), Here \in States, ReadOn, asked' = asked
    PROVE  (regular => regular') /\ Follows(q, tr, n, i + 1)'
<1>1. /\ q \in Seq(Byte) /\ Len(q) >= Header /\ TextIsNoPointer(q) /\ Alike(q, buf)
      /\ Trace(q, tr, n) /\ tr[n].status = "read" /\ tr[n].questions = asked
      /\ i \in 0..n /\ Like(tr[i], Here) /\ n \in Nat
  BY DEF Follows, Trace
<1>2. status = "reading" /\ buf' = buf
  <2>1. status = "reading"
    BY DEF ReadOn, PastEnd, Root, BadPointer, Pointer, BadLabel, Label, Inside, Reading
  <2>2. QED
    BY <2>1, ReadOnKeeps
<1>3. i # n
  BY <1>1, <1>2 DEF Like, Here
<1>4. i \in 0..(n - 1) /\ i + 1 \in 0..n
  BY <1>1, <1>3
<1>5. Turn(q, tr[i], tr[i + 1]) /\ Aligned(q, tr[i])
  BY <1>1, <1>4 DEF Trace
<1>6. (regular => regular') /\ Like(tr[i + 1], Here')
  BY <1>1, <1>5, FollowTurn
<1>7. Alike(q, buf')
  BY <1>1, <1>2
<1>8. QED
  BY <1>1, <1>4, <1>6, <1>7 DEF Follows

LEMMA ForwardedReadsOn ==
    ASSUME ForwardedRead, role = "forwarded", ReadOn, UNCHANGED <<role, asked, sound>>
    PROVE  ForwardedRead'
<1>1. SUFFICES ASSUME sound
               PROVE  /\ buf' \in Seq(Byte) /\ Len(buf') >= Header /\ regular' /\ Aligned(buf', Here')
                      /\ \E q, tr, n, i : Follows(q, tr, n, i)'
  BY DEF ForwardedRead
<1>2. status = "reading" /\ buf' = buf
  <2>1. status = "reading"
    BY DEF ReadOn, PastEnd, Root, BadPointer, Pointer, BadLabel, Label, Inside, Reading
  <2>2. QED
    BY <2>1, ReadOnKeeps
<1>3. /\ buf \in Seq(Byte) /\ Len(buf) >= Header /\ regular /\ Aligned(buf, Here)
      /\ \E q, tr, n, i : Follows(q, tr, n, i)
  BY <1>1, <1>2 DEF ForwardedRead
<1>4. PICK q, tr, n, i : Follows(q, tr, n, i)
  BY <1>3
<1>5. Here \in States
  BY <1>3 DEF Aligned
<1>6. regular' /\ Follows(q, tr, n, i + 1)'
  BY <1>3, <1>4, <1>5, FollowsOn
<1>7. Aligned(buf, Here')
  <2>1. Turn(buf, Here, Here')
    BY <1>6, RegularReadOn
  <2>2. QED
    BY <1>3, <2>1, AlignedTurn
<1>8. QED
  BY <1>2, <1>3, <1>6, <1>7

LEMMA BeginsHere == ASSUME NEW b, Begin(b) PROVE Here' = Start(b) /\ regular' /\ buf' = b
  BY DEF Begin, Here, Start

LEMMA LikeStart ==
    ASSUME NEW q, NEW b, Alike(q, b)
    PROVE  Like(Start(q), Start(b))
  BY DEF Alike, Like, Start, LikeLabels, LikeQuestions

\* The query goes out, read to its end, and is read from its beginning.
LEMMA ForwardBegins ==
    ASSUME QueryRead, Forward
    PROVE  ForwardedRead'
<1>1. SUFFICES ASSUME sound', status' # "thrown"
               PROVE  /\ buf' \in Seq(Byte) /\ Len(buf') >= Header /\ regular' /\ Aligned(buf', Here')
                      /\ \E q, tr, n, i : Follows(q, tr, n, i)'
  BY DEF ForwardedRead
<1>2. /\ status = "read" /\ role = "query" /\ asked' = questions /\ regular /\ TextIsNoPointer(buf)
  BY <1>1 DEF Forward
<1>3. PICK upper \in SUBSET Drawn(buf) : Begin(WithOpt(WithId(Recased(buf, upper), 9)))
  BY <1>1 DEF Forward, Throw
<1>15. PICK q : q = buf
  OBVIOUS
<1> DEFINE b == WithOpt(WithId(Recased(buf, upper), 9))
<1>4. q \in Seq(Byte) /\ Len(q) >= Header /\ \E n, tr : Trace(q, tr, n) /\ tr[n] = Here
  BY <1>2, <1>15 DEF QueryRead
<1>5. PICK n, tr : Trace(q, tr, n) /\ tr[n] = Here
  BY <1>4
<1>6. Alike(q, b)
  BY <1>4, <1>15, ForwardedIsAlike
<1> HIDE DEF b
<1>7. Here' = Start(b) /\ regular' /\ buf' = b
  BY <1>3, BeginsHere DEF b
<1>8. b \in Seq(Byte) /\ Len(b) >= Header
  BY <1>4, <1>6 DEF Alike, Header
<1>9. Aligned(b, Start(b))
  BY <1>8, AlignedStart
<1>10. tr[n].status = "read" /\ tr[n].questions = questions
  BY <1>2, <1>5 DEF Here
<1>11. tr[0] = Start(q) /\ 0 \in 0..n
  BY <1>5 DEF Trace
<1>12. Like(tr[0], Here')
  BY <1>6, <1>7, <1>11, LikeStart
<1>13. Follows(q, tr, n, 0)'
  BY <1>2, <1>4, <1>5, <1>6, <1>7, <1>10, <1>11, <1>12, <1>15 DEF Follows
<1>14. QED
  BY <1>7, <1>8, <1>9, <1>13

\* The invariant holds at first, and each step keeps it.
LEMMA ForwardInit == WireInit => ForwardInv
<1> SUFFICES ASSUME WireInit PROVE ForwardInv
  OBVIOUS
<1>1. buf \in Seq(Byte) /\ Len(buf) >= Header /\ role = "query" /\ status \in {"reading", "read"}
  BY PacketsAssumption DEF WireInit, ReaderInit
<1>2. Here = Start(buf)
  BY DEF WireInit, ReaderInit, Here, Start
<1> DEFINE tr == [i \in 0..0 |-> Start(buf)]
<1>3. Trace(buf, tr, 0) /\ tr[0] = Here
  BY <1>1, <1>2, TraceBegins
<1> HIDE DEF tr
<1>4. QED
  BY <1>1, <1>3 DEF ForwardInv, QueryRead, ForwardedRead

LEMMA ForwardStep == ForwardInv /\ [WireNext]_wireVars => ForwardInv'
<1> SUFFICES ASSUME ForwardInv, [WireNext]_wireVars PROVE ForwardInv'
  OBVIOUS
<1> USE DEF ForwardInv
<1>1. CASE ReadOn /\ UNCHANGED <<role, asked, sound, answers>>
  <2>1. QueryRead'
    <3>1. CASE role = "query"
      BY <1>1, <3>1, QueryReadsOn
    <3>2. CASE role # "query"
      BY <1>1, <3>2 DEF QueryRead
    <3>3. QED
      BY <3>1, <3>2
  <2>2. ForwardedRead'
    <3>1. CASE role = "forwarded"
      BY <1>1, <3>1, ForwardedReadsOn
    <3>2. CASE role # "forwarded"
      BY <1>1, <3>2 DEF ForwardedRead
    <3>3. QED
      BY <3>1, <3>2
  <2>3. QED
    BY <2>1, <2>2
<1>2. CASE Forward
  <2>1. QueryRead'
    BY <1>2 DEF Forward, QueryRead
  <2>2. QED
    BY <1>2, <2>1, ForwardBegins
<1>3. CASE \E rs \in AnswerLists : RespondTo(rs)
  <2>1. role' = "response"
    BY <1>3 DEF RespondTo
  <2>2. QED
    BY <2>1 DEF QueryRead, ForwardedRead
<1>4. CASE UNCHANGED wireVars
  <2>1. UNCHANGED <<buf, status, left, pos, jumps, saved, labels, questions, regular, role, asked, sound>>
    BY <1>4 DEF wireVars, readerVars
  <2>2. Here' = Here
    BY <2>1 DEF Here
  <2>3. QueryRead'
    BY <2>1, <2>2 DEF QueryRead
  <2>4. \A q, tr, n, i : Follows(q, tr, n, i)' <=> Follows(q, tr, n, i)
    BY <2>1, <2>2 DEF Follows
  <2>5. ForwardedRead'
    BY <2>1, <2>2, <2>4 DEF ForwardedRead
  <2>6. QED
    BY <2>3, <2>5
<1>5. QED
  BY <1>1, <1>2, <1>3, <1>4 DEF WireNext

\* Questions that are alike are the same in lower case.
LEMMA FoldedAlike ==
    ASSUME NEW x \in Seq([name : Seq(Seq(Byte)), type : Nat]),
           NEW y \in Seq([name : Seq(Seq(Byte)), type : Nat]), LikeQuestions(x, y)
    PROVE  Folded(x) = Folded(y)
<1> DEFINE FoldedName(n) == [j \in DOMAIN n |-> [k \in DOMAIN n[j] |-> LowerByte(n[j][k])]]
           Q == [name : Seq(Seq(Byte)), type : Nat]
<1>1. \A r \in Q : [r EXCEPT !.name = FoldedName(r.name)] = [name |-> FoldedName(r.name), type |-> r.type]
  <2> HIDE DEF FoldedName
  <2>1. ASSUME NEW r \in Q, NEW v PROVE [r EXCEPT !.name = v] = [name |-> v, type |-> r.type]
    <3>1. \A a, c \in [name : {v}, type : Nat] : a.type = c.type => a = c
      <4>1. \A a \in [name : {v}, type : Nat] : a = [name |-> v, type |-> a.type]
        <5>1. ASSUME NEW a \in [name : {v}, type : Nat] PROVE a = [name |-> v, type |-> a.type]
          <6>1. a = [name |-> a.name, type |-> a.type] /\ a.name = v
            OBVIOUS
          <6>2. QED
            BY <6>1
        <5>2. QED
          BY <5>1
      <4>2. ASSUME NEW a \in [name : {v}, type : Nat], NEW c \in [name : {v}, type : Nat], a.type = c.type
            PROVE  a = c
        BY <4>1, <4>2
      <4>3. QED
        BY <4>2
    <3>2. [r EXCEPT !.name = v] \in [name : {v}, type : Nat] /\ [r EXCEPT !.name = v].type = r.type
      OBVIOUS
    <3>3. [name |-> v, type |-> r.type] \in [name : {v}, type : Nat]
      OBVIOUS
    <3>4. QED
      BY <3>1, <3>2, <3>3
  <2> HIDE DEF Q
  <2>2. QED
    BY <2>1
<1>2. Folded(x) = [i \in 1..Len(x) |-> [x[i] EXCEPT !.name = FoldedName(x[i].name)]]
  BY DEF Folded
<1>3. Folded(y) = [i \in 1..Len(x) |-> [y[i] EXCEPT !.name = FoldedName(y[i].name)]]
  BY DEF Folded, LikeQuestions
<1>4. ASSUME NEW m \in Seq(Seq(Byte)), NEW n \in Seq(Seq(Byte)), LikeLabels(m, n)
      PROVE  FoldedName(m) = FoldedName(n)
  <2>1. DOMAIN m = 1..Len(m) /\ DOMAIN n = 1..Len(m)
    BY <1>4 DEF LikeLabels
  <2>2. ASSUME NEW j \in 1..Len(m)
        PROVE  [k \in DOMAIN m[j] |-> LowerByte(m[j][k])] = [k \in DOMAIN n[j] |-> LowerByte(n[j][k])]
    <3>1. m[j] \in Seq(Byte) /\ n[j] \in Seq(Byte)
      BY <2>1, ElementOfSeq
    <3>2. DOMAIN m[j] = 1..Len(m[j]) /\ DOMAIN n[j] = 1..Len(m[j])
      BY <1>4, <3>1 DEF LikeLabels
    <3>3. \A k \in 1..Len(m[j]) : LowerByte(m[j][k]) = LowerByte(n[j][k])
      BY <1>4 DEF LikeLabels
    <3>4. QED
      BY <3>2, <3>3
  <2>3. QED
    BY <2>1, <2>2
<1> HIDE DEF FoldedName
<1>5. ASSUME NEW i \in 1..Len(x)
      PROVE  [x[i] EXCEPT !.name = FoldedName(x[i].name)] = [y[i] EXCEPT !.name = FoldedName(y[i].name)]
  <2>1. x[i] \in Q /\ y[i] \in Q
    BY ElementOfSeq DEF LikeQuestions
  <2>2. x[i].type = y[i].type /\ LikeLabels(x[i].name, y[i].name)
    BY DEF LikeQuestions
  <2>3. FoldedName(x[i].name) = FoldedName(y[i].name)
    BY <1>4, <2>1, <2>2
  <2>4. QED
    BY <1>1, <2>1, <2>2, <2>3
<1>6. QED
  BY <1>2, <1>3, <1>5

\* Whatever query is forwarded, the upstream resolver is asked what the client
\* asked.
THEOREM ForwardAsksTheSame == WireSpec => []ForwardedAsAsked
<1>1. WireSpec => []ForwardInv
  BY ForwardInit, ForwardStep, PTL DEF WireSpec
<1>2. ForwardInv => ForwardedAsAsked
  <2> SUFFICES ASSUME ForwardInv, role = "forwarded", status = "read", sound
               PROVE  regular /\ Folded(questions) = Folded(asked)
    BY DEF ForwardedAsAsked
  <2>1. regular /\ Aligned(buf, Here) /\ \E q, tr, n, i : Follows(q, tr, n, i)
    BY DEF ForwardInv, ForwardedRead
  <2>2. PICK q, tr, n, i : Follows(q, tr, n, i)
    BY <2>1
  <2>3. i = n
    <3>1. SUFFICES ASSUME i # n PROVE FALSE
      OBVIOUS
    <3>2. i \in 0..(n - 1)
      BY <2>2, <3>1 DEF Follows, Trace
    <3>3. Turn(q, tr[i], tr[i + 1])
      BY <2>2, <3>2 DEF Follows, Trace
    <3>4. tr[i].status = "reading"
      BY <3>3 DEF Turn, LabelTurn, PointerTurn, RootTurn
    <3>5. tr[i].status = "read"
      BY <2>2 DEF Follows, Like, Here
    <3>6. QED
      BY <3>4, <3>5
  <2>4. LikeQuestions(asked, questions)
    BY <2>2, <2>3 DEF Follows, Like, Here
  <2>5. tr[n] \in States /\ Here \in States
    BY <2>1, <2>2 DEF Follows, Trace, Aligned
  <2>6. /\ asked \in Seq([name : Seq(Seq(Byte)), type : Nat])
        /\ questions \in Seq([name : Seq(Seq(Byte)), type : Nat])
    BY <2>2, <2>5 DEF Follows, States, Here
  <2>7. QED
    BY <2>1, <2>4, <2>6, FoldedAlike
<1>3. QED
  BY <1>1, <1>2, PTL

-----------------------------------------------------------------------------
(* Sequences laid end to end.                                               *)

\* Where each of the sequences ends.
Sums(off, ss) ==
    /\ off \in [0..Len(ss) -> Nat] /\ off[0] = 0
    /\ \A i \in 1..Len(ss) : off[i] = off[i - 1] + Len(ss[i])

\* The sequence they make.
Joined(f, off, ss) ==
    /\ Len(f) = off[Len(ss)]
    /\ \A i \in 1..Len(ss) : \A d \in 1..Len(ss[i]) : f[off[i - 1] + d] = ss[i][d]

LEMMA SumsStep ==
    ASSUME NEW S, NEW ss \in Seq(Seq(S)), NEW off, Sums(off, ss), NEW i \in 1..Len(ss)
    PROVE  /\ i - 1 \in 0..Len(ss) /\ i \in 0..Len(ss) /\ ss[i] \in Seq(S) /\ Len(ss[i]) \in Nat
           /\ off[i - 1] \in Nat /\ off[i] \in Nat /\ off[i] = off[i - 1] + Len(ss[i])
<1>1. Len(ss) \in Nat
  OBVIOUS
<1>2. i - 1 \in 0..Len(ss) /\ i \in 0..Len(ss)
  BY <1>1
<1>3. ss[i] \in Seq(S)
  BY ElementOfSeq
<1>4. Len(ss[i]) \in Nat
  BY <1>3
<1>5. off[i - 1] \in Nat /\ off[i] \in Nat
  BY <1>2 DEF Sums
<1>6. off[i] = off[i - 1] + Len(ss[i])
  BY DEF Sums
<1>7. QED
  BY <1>2, <1>3, <1>4, <1>5, <1>6

LEMMA SumsExist ==
    ASSUME NEW S, NEW ss \in Seq(Seq(S))
    PROVE  \E off : Sums(off, ss)
<1> DEFINE N == Len(ss)
           F == [i \in 1..N |-> [n \in Nat |-> n + Len(ss[i])]]
<1>1. N \in Nat /\ 0 \in Nat
  OBVIOUS
<1>2. F \in [1..N -> [Nat -> Nat]]
  <2>1. ASSUME NEW i \in 1..N PROVE Len(ss[i]) \in Nat
    <3>1. ss[i] \in Seq(S)
      BY ElementOfSeq
    <3>2. QED
      BY <3>1
  <2> HIDE DEF N
  <2>2. QED
    BY <2>1
<1>3. PICK off \in [0..N -> Nat] : IsChain(off, N, 0, F)
  <2> HIDE DEF N, F
  <2> QED
    BY <1>1, <1>2, ChainExists
<1>4. ASSUME NEW i \in 1..N PROVE off[i] = off[i - 1] + Len(ss[i])
  <2>1. off[i] = F[i][off[i - 1]]
    BY <1>3 DEF IsChain
  <2>2. off[i - 1] \in Nat
    <3>1. i - 1 \in 0..N
      BY <1>1
    <3> HIDE DEF N
    <3>2. QED
      BY <3>1
  <2>3. QED
    BY <2>1, <2>2
<1>5. off[0] = 0
  BY <1>3 DEF IsChain
<1>6. QED
  BY <1>3, <1>4, <1>5 DEF Sums

LEMMA SumsGrow ==
    ASSUME NEW S, NEW ss \in Seq(Seq(S)), NEW off, Sums(off, ss),
           NEW i \in 0..Len(ss), NEW j \in i..Len(ss)
    PROVE  off[i] <= off[j] /\ off[i] \in Nat /\ off[j] \in Nat
<1> DEFINE N == Len(ss)
           Bad == {m \in i..N : ~(off[i] <= off[m])}
<1>1. N \in Nat /\ i \in Nat /\ off \in [0..N -> Nat]
  BY DEF Sums
<1>2. ASSUME NEW m \in Bad PROVE \E k \in Bad : k < m
  <2>1. m # i
    BY <1>1
  <2>2. m \in 1..N /\ m - 1 \in i..N /\ m - 1 \in 0..N /\ m - 1 < m
    BY <1>1, <2>1
  <2>3. off[m] = off[m - 1] + Len(ss[m]) /\ Len(ss[m]) \in Nat /\ off[m - 1] \in Nat /\ off[i] \in Nat
    <3>1. off[i] \in Nat
      BY <1>1
    <3>2. m \in 1..Len(ss)
      BY <2>2
    <3>3. off[m] = off[m - 1] + Len(ss[m]) /\ Len(ss[m]) \in Nat /\ off[m - 1] \in Nat
      BY <3>2, SumsStep
    <3>4. QED
      BY <3>1, <3>3
  <2>4. ~(off[i] <= off[m - 1])
    BY <2>3
  <2>5. QED
    BY <2>2, <2>4
<1>3. Bad \subseteq Nat
  BY <1>1
<1>4. Bad = {}
  <2> HIDE DEF Bad
  <2> QED
    BY <1>2, <1>3, NoLeast
<1>5. QED
  BY <1>1, <1>4

\* A place in one of the sequences, and that every place is in one.
InPiece(x, off, ss) == \E i \in 1..Len(ss) : \E d \in 1..Len(ss[i]) : x = off[i - 1] + d

LEMMA PieceFound ==
    ASSUME NEW S, NEW ss \in Seq(Seq(S)), NEW off, Sums(off, ss), NEW x, x \in 1..off[Len(ss)]
    PROVE  InPiece(x, off, ss)
<1> DEFINE N == Len(ss)
           Further == {i \in 0..N : x <= off[i]}
<1>1. N \in Nat /\ off \in [0..N -> Nat] /\ x \in Nat /\ x >= 1 /\ off[0] = 0
  BY DEF Sums
<1>2. SUFFICES ASSUME ~\E i \in 1..N : \E d \in 1..Len(ss[i]) : x = off[i - 1] + d
               PROVE  Further = {}
  BY <1>1 DEF InPiece
<1>3. ASSUME NEW m \in Further PROVE \E k \in Further : k < m
  <2>1. m # 0
    BY <1>1
  <2>2. m \in 1..N /\ m - 1 \in 0..N /\ m - 1 < m
    BY <1>1, <2>1
  <2>3. off[m] = off[m - 1] + Len(ss[m]) /\ off[m - 1] \in Nat /\ Len(ss[m]) \in Nat
    BY <2>2, SumsStep
  <2>4. x <= off[m - 1]
    <3>1. SUFFICES ASSUME ~(x <= off[m - 1]) PROVE FALSE
      OBVIOUS
    <3>2. x - off[m - 1] \in 1..Len(ss[m]) /\ x = off[m - 1] + (x - off[m - 1])
      BY <1>1, <2>3, <3>1
    <3>3. QED
      BY <1>2, <2>2, <3>2
  <2>5. QED
    BY <2>2, <2>4
<1>4. Further \subseteq Nat
  OBVIOUS
<1>5. QED
  <2> HIDE DEF Further
  <2> QED
    BY <1>3, <1>4, NoLeast

\* FlattenSeq joins them.
LEMMA FlattenJoins ==
    ASSUME NEW S, NEW ss \in Seq(Seq(S)), NEW off, Sums(off, ss)
    PROVE  FlattenSeq(ss) \in Seq(S) /\ Joined(FlattenSeq(ss), off, ss)
<1> DEFINE N == Len(ss)
           Is(f) == f = [i \in 1..N |-> IF i = 1 THEN ss[i] ELSE f[i - 1] \o ss[i]]
<1>1. N \in Nat /\ off \in [0..N -> Nat] /\ off[0] = 0
      /\ \A i \in 1..N : ss[i] \in Seq(S) /\ off[i] = off[i - 1] + Len(ss[i])
  BY DEF Sums
<1>2. CASE N = 0
  <2>1. ss = <<>> /\ FlattenSeq(ss) = ss
    BY <1>2 DEF FlattenSeq
  <2>2. QED
    BY <1>1, <1>2, <2>1 DEF Joined
<1>3. CASE N # 0
  <2> DEFINE F == [i \in 1..N |-> [s \in Seq(S) |-> s \o ss[i]]]
             flatten == CHOOSE f : Is(f)
  <2>1. F \in [1..N -> [Seq(S) -> Seq(S)]]
    BY <1>1
  <2>2. <<>> \in Seq(S)
    OBVIOUS
  <2>3. PICK g \in [0..N -> Seq(S)] : IsChain(g, N, <<>>, F)
    <3> HIDE DEF N, F
    <3> QED
      BY <1>1, <2>1, <2>2, ChainExists
  <2>4. Is([i \in 1..N |-> g[i]])
    <3>1. ASSUME NEW i \in 1..N PROVE g[i] = IF i = 1 THEN ss[i] ELSE g[i - 1] \o ss[i]
      <4>1. g[i] = F[i][g[i - 1]] /\ g[i - 1] \in Seq(S)
        <5>1. i - 1 \in 0..N
          BY <1>1
        <5>2. g[i - 1] \in Seq(S)
          BY <2>3, <5>1
        <5> HIDE DEF F
        <5>3. QED
          BY <2>3, <5>2 DEF IsChain
      <4>2. g[i] = g[i - 1] \o ss[i]
        BY <4>1
      <4>3. i = 1 => g[i - 1] = <<>>
        BY <2>3 DEF IsChain
      <4>4. <<>> \o ss[i] = ss[i]
        BY <1>1, ConcatEmptySeq
      <4>5. QED
        BY <4>2, <4>3, <4>4
    <3>2. ASSUME NEW i \in 1..N, i # 1 PROVE i - 1 \in 1..N
      BY <1>1, <3>2
    <3>3. QED
      BY <3>1, <3>2
  <2>5. Is(flatten)
    <3> HIDE DEF Is
    <3> QED
      BY <2>4
  <2>6. FlattenSeq(ss) = flatten[N]
    BY <1>3 DEF FlattenSeq
  <2> HIDE DEF flatten, F
  <2> DEFINE Good(i) == /\ flatten[i] \in Seq(S) /\ Len(flatten[i]) = off[i]
                        /\ \A j \in 1..i : \A d \in 1..Len(ss[j]) : flatten[i][off[j - 1] + d] = ss[j][d]
             Bad == {i \in 1..N : ~Good(i)}
  <2>7. ASSUME NEW i \in Bad PROVE \E m \in Bad : m < i
    <3>1. CASE i = 1
      <4>1. flatten[1] = ss[1] /\ off[1] = Len(ss[1]) /\ ss[1] \in Seq(S)
        BY <1>1, <2>5, <3>1
      <4>2. \A j \in 1..1 : \A d \in 1..Len(ss[j]) : flatten[1][off[j - 1] + d] = ss[j][d]
        BY <1>1, <4>1
      <4>3. Good(1)
        BY <1>1, <4>1, <4>2
      <4>4. QED
        BY <3>1, <4>3
    <3>2. CASE i # 1
      <4>1. i \in 1..N /\ i - 1 \in 1..N /\ i - 1 < i /\ i - 1 \in 0..N
        BY <1>1, <3>2
      <4>2. flatten[i] = flatten[i - 1] \o ss[i] /\ off[i] = off[i - 1] + Len(ss[i]) /\ ss[i] \in Seq(S)
            /\ off[i - 1] \in Nat
        BY <1>1, <2>5, <3>2, <4>1
      <4>3. ~Good(i - 1)
        <5>1. SUFFICES ASSUME Good(i - 1) PROVE Good(i)
          OBVIOUS
        <5>2. flatten[i - 1] \in Seq(S) /\ Len(flatten[i - 1]) = off[i - 1]
          BY <5>1
        <5> DEFINE a == flatten[i - 1]
                   c == ss[i]
        <5> HIDE DEF a, c
        <5>3. /\ a \o c \in Seq(S) /\ Len(a \o c) = Len(a) + Len(c)
              /\ \A k \in 1..(Len(a) + Len(c)) : (a \o c)[k] = IF k <= Len(a) THEN a[k] ELSE c[k - Len(a)]
          BY <4>2, <5>2, ConcatProperties DEF a, c
        <5>4. a \in Seq(S) /\ c \in Seq(S) /\ Len(a) = off[i - 1] /\ Len(a) \in Nat /\ Len(c) \in Nat
          BY <4>2, <5>2 DEF a, c
        <5>5. ASSUME NEW j \in 1..i, NEW d \in 1..Len(ss[j]) PROVE (a \o c)[off[j - 1] + d] = ss[j][d]
          <6>1. CASE j = i
            <7>1. off[i - 1] + d \in 1..(Len(a) + Len(c)) /\ ~(off[i - 1] + d <= Len(a))
                  /\ (off[i - 1] + d) - Len(a) = d
              <8>1. d \in Nat /\ 1 <= d /\ d <= Len(c)
                BY <5>4, <6>1 DEF c
              <8> DEFINE o == off[i - 1]
                         l == Len(c)
              <8>2. Len(a) = o /\ o \in Nat /\ l \in Nat
                BY <4>2, <5>4
              <8>3. d <= l
                BY <8>1
              <8> HIDE DEF o, l
              <8>4. o + d \in 1..(o + l) /\ ~(o + d <= o) /\ (o + d) - o = d
                BY ONLY <8>1, <8>2, <8>3
              <8>5. QED
                BY <8>2, <8>4 DEF o, l
            <7>2. QED
              BY <5>3, <6>1, <7>1 DEF c
          <6>2. CASE j # i
            <7>1. j \in 1..(i - 1) /\ j \in 1..N /\ j - 1 \in 0..N
              BY <4>1, <6>2
            <7>2. off[j - 1] + d \in 1..Len(a)
              <8>1. off[j] = off[j - 1] + Len(ss[j]) /\ off[j - 1] \in Nat /\ Len(ss[j]) \in Nat
                BY <7>1, SumsStep
              <8>2. off[j] <= off[i - 1]
                <9>1. j \in 0..Len(ss) /\ i - 1 \in j..Len(ss)
                  BY <1>1, <4>1, <7>1
                <9>2. QED
                  BY <9>1, SumsGrow
              <8>3. d \in Nat /\ 1 <= d /\ d <= Len(ss[j])
                BY <8>1
              <8>4. Len(a) = off[i - 1] /\ off[i - 1] \in Nat
                BY <4>2, <5>4
              <8>5. off[j - 1] + d <= off[j] /\ off[j] \in Nat /\ off[j - 1] + d \in Nat /\ off[j - 1] + d >= 1
                <9>1. \A p, l \in Nat : \A e \in 1..l :
                        p + e <= p + l /\ p + l \in Nat /\ p + e \in Nat /\ p + e >= 1
                  OBVIOUS
                <9>2. d \in 1..Len(ss[j])
                  OBVIOUS
                <9>3. QED
                  BY <8>1, <9>1, <9>2, Zenon
              <8>6. off[j - 1] + d <= off[i - 1]
                BY <8>2, <8>4, <8>5
              <8>7. QED
                BY <8>4, <8>5, <8>6
            <7>3. off[j - 1] + d \in 1..(Len(a) + Len(c)) /\ off[j - 1] + d <= Len(a)
              BY <5>4, <7>2
            <7>4. (a \o c)[off[j - 1] + d] = a[off[j - 1] + d]
              BY <5>3, <7>3
            <7>5. a[off[j - 1] + d] = ss[j][d]
              BY <5>1, <7>1 DEF a
            <7>6. QED
              BY <7>4, <7>5
          <6>3. QED
            BY <6>1, <6>2
        <5>6. flatten[i] = a \o c
          BY <4>2 DEF a, c
        <5>7. Len(a) + Len(c) = off[i]
          BY <4>2, <5>4 DEF c
        <5>8. QED
          BY <5>3, <5>5, <5>6, <5>7
      <4>4. QED
        <5> HIDE DEF Good
        <5> QED
          BY <4>1, <4>3
    <3>3. QED
      BY <3>1, <3>2
  <2>8. Bad \subseteq Nat
    BY <1>1
  <2>9. Bad = {}
    <3> HIDE DEF Bad
    <3> QED
      BY <2>7, <2>8, NoLeast
  <2>10. N \in 1..N
    BY <1>1, <1>3
  <2>11. Good(N)
    <3> HIDE DEF Good
    <3> QED
      BY <2>9, <2>10
  <2>12. QED
    BY <2>6, <2>11 DEF Joined
<1>4. QED
  BY <1>2, <1>3

-----------------------------------------------------------------------------
(* What is written of a question.                                           *)

\* A number and its two bytes.
LEMMA NumberWritten ==
    ASSUME NEW n \in U16Values
    PROVE  /\ Bytes16(n) \in Seq(Byte) /\ Len(Bytes16(n)) = 2
           /\ Bytes16(n)[1] * 256 + Bytes16(n)[2] = n
<1>1. n \in Int /\ 0 <= n /\ n <= 65535
  BY U16Range, U16IsNatural
<1>2. n \div 256 \in 0..255 /\ n % 256 \in 0..255 /\ (n \div 256) * 256 + (n % 256) = n
  BY <1>1
<1>3. Bytes16(n) = <<n \div 256, n % 256>>
  BY DEF Bytes16
<1> DEFINE h == n \div 256
           l == n % 256
<1> HIDE DEF h, l
<1>4. Bytes16(n) = <<h, l>> /\ h \in Byte /\ l \in Byte /\ h * 256 + l = n
  BY <1>2, <1>3 DEF h, l, Byte
<1>5. QED
  BY <1>4

\* Labels as a reader takes them, and plain ones.
LabelsRead == {l \in Seq(Byte) : Len(l) \in 1..63}
PlainLabels == {l \in LabelsRead : \A d \in 1..Len(l) : l[d] # 46 /\ l[d] <= 127}

Lowered(l) == [d \in DOMAIN l |-> LowerByte(l[d])]

LEMMA LoweredIs ==
    ASSUME NEW l \in LabelsRead
    PROVE  /\ Lowered(l) \in LabelsRead /\ Len(Lowered(l)) = Len(l)
           /\ \A d \in 1..Len(l) : Lowered(l)[d] = LowerByte(l[d])
<1>1. l \in Seq(Byte) /\ Len(l) \in 1..63 /\ DOMAIN l = 1..Len(l)
  BY DEF LabelsRead
<1>2. \A c \in Byte : LowerByte(c) \in Byte
  BY DEF Byte, LowerByte
<1>3. \A d \in 1..Len(l) : l[d] \in Byte
  BY <1>1
<1>4. Lowered(l) = [d \in 1..Len(l) |-> LowerByte(l[d])]
  BY <1>1 DEF Lowered
<1>5. Lowered(l) \in Seq(Byte) /\ Len(Lowered(l)) = Len(l)
  BY <1>1, <1>2, <1>3, <1>4
<1>6. QED
  BY <1>1, <1>4, <1>5 DEF LabelsRead

\* A plain label is encoded byte by byte.
LEMMA EncodedIs ==
    ASSUME NEW l \in PlainLabels
    PROVE  Encoded(l) = Lowered(l)
<1> DEFINE ss == [i \in 1..Len(l) |-> <<LowerByte(l[i])>>]
           off == [i \in 0..Len(l) |-> i]
<1>1. l \in LabelsRead /\ l \in Seq(Byte) /\ Len(l) \in Nat /\ \A d \in 1..Len(l) : ~(l[d] > 127) /\ l[d] \in Byte
  <2>1. l \in LabelsRead /\ l \in Seq(Byte) /\ Len(l) \in Nat
    BY DEF PlainLabels, LabelsRead
  <2>2. \A d \in 1..Len(l) : l[d] \in Byte /\ l[d] <= 127
    BY <2>1 DEF PlainLabels
  <2>3. \A c \in Byte : c <= 127 => ~(c > 127)
    BY DEF Byte
  <2>4. QED
    BY <2>1, <2>2, <2>3
<1>2. Encoded(l) = FlattenSeq(ss)
  <2>1. DOMAIN l = 1..Len(l)
    BY <1>1
  <2>2. QED
    BY <1>1, <2>1 DEF Encoded
<1>3. \A i \in 1..Len(l) : LowerByte(l[i]) \in Byte
  <2>1. \A c \in Byte : LowerByte(c) \in Byte
    BY DEF Byte, LowerByte
  <2>2. QED
    BY <1>1, <2>1
<1>4. ss \in Seq(Seq(Byte)) /\ Len(ss) = Len(l) /\ \A i \in 1..Len(l) : ss[i] = <<LowerByte(l[i])>> /\ Len(ss[i]) = 1
  BY <1>1, <1>3
<1>5. Sums(off, ss)
  BY <1>1, <1>4 DEF Sums
<1> HIDE DEF ss
<1>6. FlattenSeq(ss) \in Seq(Byte) /\ Joined(FlattenSeq(ss), off, ss)
  BY <1>4, <1>5, FlattenJoins
<1>7. Len(FlattenSeq(ss)) = Len(l)
  BY <1>1, <1>4, <1>6 DEF Joined
<1>8. ASSUME NEW i \in 1..Len(l) PROVE FlattenSeq(ss)[i] = Lowered(l)[i]
  <2>1. FlattenSeq(ss)[off[i - 1] + 1] = ss[i][1]
    <3>1. i \in 1..Len(ss) /\ 1 \in 1..Len(ss[i])
      <4>1. Len(ss) = Len(l) /\ Len(ss[i]) = 1
        BY <1>4
      <4>2. QED
        BY <4>1
    <3> HIDE DEF off
    <3>2. QED
      BY <1>6, <3>1 DEF Joined
  <2>2. off[i - 1] + 1 = i
    BY <1>1
  <2>3. ss[i][1] = LowerByte(l[i])
    BY <1>4
  <2>4. QED
    BY <1>1, <2>1, <2>2, <2>3, LoweredIs
<1>9. Lowered(l) \in Seq(Byte) /\ Len(Lowered(l)) = Len(l)
  BY <1>1, LoweredIs DEF LabelsRead
<1>10. QED
  BY <1>2, <1>6, <1>7, <1>8, <1>9, SeqEqual

\* A plain label is written as its length and its bytes in lower case.
LEMMA LabelWritten ==
    ASSUME NEW l \in PlainLabels
    PROVE  /\ WrittenLabel(l) \in Seq(Byte) /\ Len(WrittenLabel(l)) = Len(l) + 1
           /\ WrittenLabel(l)[1] = Len(l)
           /\ \A d \in 1..Len(l) : WrittenLabel(l)[d + 1] = LowerByte(l[d])
<1> DEFINE first == <<Len(l)>> \o Lowered(l)
           ss == [i \in 1..(Len(l) + 1) |-> IF i = 1 THEN first ELSE <<>>]
           off == [i \in 0..(Len(l) + 1) |-> IF i = 0 THEN 0 ELSE Len(l) + 1]
           dots == {i \in DOMAIN l : l[i] = 46}
           part(i) == LET ends == {j \in dots : j >= i} \cup {Len(l) + 1}
                      IN  SubSeq(l, i, (CHOOSE j \in ends : \A k \in ends : j <= k) - 1)
           starts == {1} \cup {i + 1 : i \in dots}
<1>1. l \in LabelsRead /\ l \in Seq(Byte) /\ Len(l) \in 1..63 /\ Len(l) \in Nat /\ \A d \in 1..Len(l) : l[d] # 46
  BY DEF PlainLabels, LabelsRead
<1>2. dots = {}
  BY <1>1
<1>3. starts = {1}
  BY <1>2
<1>4. part(1) = l
  <2>1. {j \in dots : j >= 1} \cup {Len(l) + 1} = {Len(l) + 1}
    BY <1>2
  <2>2. (CHOOSE j \in {Len(l) + 1} : \A k \in {Len(l) + 1} : j <= k) = Len(l) + 1
    BY <1>1
  <2>3. part(1) = SubSeq(l, 1, (Len(l) + 1) - 1)
    <3> HIDE DEF dots
    <3> QED
      BY <2>1, <2>2
  <2>4. (Len(l) + 1) - 1 = Len(l)
    BY <1>1
  <2>5. QED
    BY <1>1, <2>3, <2>4, SubSeqFull
<1>5. WrittenLabel(l) = FlattenSeq([i \in 1..(Len(l) + 1) |->
            IF i \in starts /\ part(i) # <<>> THEN <<Len(part(i))>> \o Encoded(part(i)) ELSE <<>>])
  BY DEF WrittenLabel
<1> HIDE DEF part, starts
<1>6. WrittenLabel(l) = FlattenSeq(ss)
  <2>1. ASSUME NEW i \in 1..(Len(l) + 1)
        PROVE  (IF i \in starts /\ part(i) # <<>> THEN <<Len(part(i))>> \o Encoded(part(i)) ELSE <<>>)
                 = IF i = 1 THEN first ELSE <<>>
    <3>1. CASE i = 1
      <4>1. part(i) = l /\ l # <<>> /\ i \in starts
        BY <1>1, <1>3, <1>4, <3>1
      <4>2. Encoded(l) = Lowered(l)
        BY EncodedIs
      <4>3. QED
        BY <3>1, <4>1, <4>2
    <3>2. CASE i # 1
      BY <1>3, <3>2
    <3>3. QED
      BY <3>1, <3>2
  <2>2. QED
    BY <1>5, <2>1
<1>7. Lowered(l) \in Seq(Byte) /\ Len(Lowered(l)) = Len(l) /\ \A d \in 1..Len(l) : Lowered(l)[d] = LowerByte(l[d])
  BY <1>1, LoweredIs DEF LabelsRead
<1>8. first \in Seq(Byte) /\ Len(first) = Len(l) + 1 /\ first[1] = Len(l)
      /\ \A d \in 1..Len(l) : first[d + 1] = Lowered(l)[d]
  <2> DEFINE low == Lowered(l)
             one == <<Len(l)>>
  <2>1. one \in Seq(Byte) /\ Len(one) = 1 /\ one[1] = Len(l)
    BY <1>1 DEF Byte
  <2>2. low \in Seq(Byte) /\ Len(low) = Len(l)
    BY <1>7
  <2> HIDE DEF low, one
  <2>3. /\ one \o low \in Seq(Byte) /\ Len(one \o low) = Len(one) + Len(low)
        /\ \A i \in 1..(Len(one) + Len(low)) : (one \o low)[i] = IF i <= Len(one) THEN one[i] ELSE low[i - Len(one)]
    <3>1. one \in Seq(Byte) /\ low \in Seq(Byte)
      BY <2>1, <2>2
    <3>2. QED
      BY ONLY <3>1, ConcatProperties
  <2>4. Len(one) + Len(low) = Len(l) + 1
    BY <1>1, <2>1, <2>2
  <2>5. (one \o low)[1] = Len(l)
    BY <1>1, <2>1, <2>3, <2>4
  <2>6. ASSUME NEW d \in 1..Len(l) PROVE (one \o low)[d + 1] = low[d]
    <3>1. d + 1 \in 1..(Len(l) + 1) /\ ~(d + 1 <= 1) /\ (d + 1) - 1 = d
      BY <1>1
    <3>2. QED
      BY <2>1, <2>3, <2>4, <3>1
  <2>7. QED
    BY <2>3, <2>4, <2>5, <2>6 DEF one, low
<1> HIDE DEF first
<1>9. ss \in Seq(Seq(Byte)) /\ Len(ss) = Len(l) + 1 /\ ss[1] = first
      /\ \A i \in 1..(Len(l) + 1) : ss[i] = IF i = 1 THEN first ELSE <<>>
  <2>1. <<>> \in Seq(Byte)
    OBVIOUS
  <2>2. QED
    BY <1>1, <1>8, <2>1
<1> HIDE DEF ss
<1>10. Sums(off, ss)
  <2>1. ASSUME NEW i \in 1..Len(ss) PROVE off[i] = off[i - 1] + Len(ss[i])
    <3>1. CASE i = 1
      <4>1. off[1] = Len(l) + 1 /\ off[0] = 0
        BY <1>1
      <4>2. QED
        BY <1>1, <1>8, <1>9, <3>1, <4>1
    <3>2. CASE i # 1
      <4>1. i - 1 \in 1..(Len(l) + 1) /\ i \in 1..(Len(l) + 1)
        BY <1>1, <1>9, <3>2
      <4>2. off[i] = Len(l) + 1 /\ off[i - 1] = Len(l) + 1 /\ Len(ss[i]) = 0
        BY <1>1, <1>9, <3>2, <4>1
      <4>3. QED
        BY <1>1, <4>2
    <3>3. QED
      BY <3>1, <3>2
  <2>2. off \in [0..Len(ss) -> Nat] /\ off[0] = 0
    BY <1>1, <1>9
  <2>3. QED
    BY <2>1, <2>2 DEF Sums
<1>11. FlattenSeq(ss) \in Seq(Byte) /\ Joined(FlattenSeq(ss), off, ss)
  BY <1>9, <1>10, FlattenJoins
<1>12. Len(FlattenSeq(ss)) = Len(l) + 1
  <2>1. off[Len(l) + 1] = Len(l) + 1
    BY <1>1
  <2>2. QED
    BY <1>9, <1>11, <2>1 DEF Joined
<1>13. \A d \in 1..(Len(l) + 1) : FlattenSeq(ss)[d] = first[d]
  <2>1. ASSUME NEW d \in 1..(Len(l) + 1) PROVE FlattenSeq(ss)[d] = first[d]
    <3>1. 1 \in 1..Len(ss) /\ d \in 1..Len(ss[1]) /\ off[1 - 1] + d = d
      BY <1>1, <1>8, <1>9
    <3>2. FlattenSeq(ss)[off[1 - 1] + d] = ss[1][d]
      BY <1>11, <3>1 DEF Joined
    <3>3. QED
      BY <1>9, <3>1, <3>2
  <2>2. QED
    BY <2>1
<1>14. QED
  <2>1. FlattenSeq(ss)[1] = Len(l)
    BY <1>1, <1>8, <1>13
  <2>2. ASSUME NEW d \in 1..Len(l) PROVE FlattenSeq(ss)[d + 1] = LowerByte(l[d])
    <3>1. d + 1 \in 1..(Len(l) + 1)
      BY <1>1
    <3>2. QED
      BY <1>7, <1>8, <1>13, <3>1
  <2>3. QED
    BY <1>6, <1>11, <1>12, <2>1, <2>2

LEMMA ConcatBytes ==
    ASSUME NEW S, NEW a \in Seq(S), NEW b \in Seq(S)
    PROVE  /\ a \o b \in Seq(S) /\ Len(a \o b) = Len(a) + Len(b) /\ Len(a) \in Nat /\ Len(b) \in Nat
           /\ \A d \in 1..Len(a) : (a \o b)[d] = a[d]
           /\ \A d \in 1..Len(b) : (a \o b)[Len(a) + d] = b[d]
<1>1. /\ a \o b \in Seq(S) /\ Len(a \o b) = Len(a) + Len(b)
      /\ \A i \in 1..(Len(a) + Len(b)) : (a \o b)[i] = IF i <= Len(a) THEN a[i] ELSE b[i - Len(a)]
  BY ConcatProperties
<1>2. Len(a) \in Nat /\ Len(b) \in Nat
  OBVIOUS
<1>3. ASSUME NEW d \in 1..Len(a) PROVE (a \o b)[d] = a[d]
  <2>1. d \in 1..(Len(a) + Len(b)) /\ d <= Len(a)
    BY <1>2
  <2>2. QED
    BY <1>1, <2>1
<1>4. ASSUME NEW d \in 1..Len(b) PROVE (a \o b)[Len(a) + d] = b[d]
  <2>1. Len(a) + d \in 1..(Len(a) + Len(b)) /\ ~(Len(a) + d <= Len(a)) /\ (Len(a) + d) - Len(a) = d
    BY <1>2
  <2>2. QED
    BY <1>1, <2>1
<1>5. QED
  BY <1>1, <1>2, <1>3, <1>4

\* Questions of plain names, and what is written of their labels.
PlainQuestions == [name : Seq(PlainLabels), type : U16Values]
WrittenLabels(n) == [j \in DOMAIN n |-> WrittenLabel(n[j])]

LEMMA LabelsWritten ==
    ASSUME NEW n \in Seq(PlainLabels)
    PROVE  /\ WrittenLabels(n) \in Seq(Seq(Byte)) /\ Len(WrittenLabels(n)) = Len(n)
           /\ \A j \in 1..Len(n) : WrittenLabels(n)[j] = WrittenLabel(n[j]) /\ n[j] \in PlainLabels
<1>1. DOMAIN n = 1..Len(n) /\ Len(n) \in Nat
  OBVIOUS
<1>2. ASSUME NEW j \in 1..Len(n) PROVE n[j] \in PlainLabels /\ WrittenLabel(n[j]) \in Seq(Byte)
  <2>1. n[j] \in PlainLabels
    BY ElementOfSeq
  <2>2. QED
    BY <2>1, LabelWritten
<1>3. WrittenLabels(n) = [j \in 1..Len(n) |-> WrittenLabel(n[j])]
  BY <1>1 DEF WrittenLabels
<1>4. QED
  BY <1>1, <1>2, <1>3

\* Where the labels of a question, its type and its class are written.
LEMMA QuestionWritten ==
    ASSUME NEW q \in PlainQuestions, NEW inner, Sums(inner, WrittenLabels(q.name))
    PROVE  /\ WrittenQuestion(q) \in Seq(Byte) /\ Len(q.name) \in Nat
           /\ inner[Len(q.name)] \in Nat
           /\ Len(WrittenQuestion(q)) = inner[Len(q.name)] + 5
           /\ \A j \in 1..Len(q.name) :
                /\ inner[j - 1] \in Nat /\ inner[j] = inner[j - 1] + 1 + Len(q.name[j])
                /\ inner[j] <= inner[Len(q.name)]
                /\ WrittenQuestion(q)[inner[j - 1] + 1] = Len(q.name[j])
                /\ \A d \in 1..Len(q.name[j]) :
                     WrittenQuestion(q)[inner[j - 1] + 1 + d] = LowerByte(q.name[j][d])
           /\ WrittenQuestion(q)[inner[Len(q.name)] + 1] = 0
           /\ WrittenQuestion(q)[inner[Len(q.name)] + 2] * 256
                + WrittenQuestion(q)[inner[Len(q.name)] + 3] = q.type
           /\ WrittenQuestion(q)[inner[Len(q.name)] + 4] * 256
                + WrittenQuestion(q)[inner[Len(q.name)] + 5] = 1
<1> DEFINE n == q.name
           N == Len(n)
           ss == WrittenLabels(n)
           flat == FlattenSeq(ss)
           e == inner[N]
           type == Bytes16(q.type)
           class == Bytes16(1)
           name == flat \o <<0>>
           typed == name \o type
           W == typed \o class
<1>1. n \in Seq(PlainLabels) /\ q.type \in U16Values /\ N \in Nat
  BY DEF PlainQuestions
<1>2. /\ ss \in Seq(Seq(Byte)) /\ Len(ss) = N
      /\ \A j \in 1..N : ss[j] = WrittenLabel(n[j]) /\ n[j] \in PlainLabels
  BY <1>1, LabelsWritten
<1>3. Sums(inner, ss)
  OBVIOUS
<1>4. WrittenQuestion(q) = W
  BY DEF WrittenQuestion, WrittenName, WrittenLabels
<1> HIDE DEF n, ss
<1>5. flat \in Seq(Byte) /\ Joined(flat, inner, ss)
  BY <1>2, <1>3, FlattenJoins
<1>6. Len(flat) = e /\ e \in Nat
  BY <1>2, <1>5 DEF Joined
<1>7. type \in Seq(Byte) /\ Len(type) = 2 /\ type[1] * 256 + type[2] = q.type
  BY <1>1, NumberWritten
<1>8. class \in Seq(Byte) /\ Len(class) = 2 /\ class[1] * 256 + class[2] = 1
  <2>1. 1 \in U16Values
    BY U16Range
  <2>2. QED
    BY <2>1, NumberWritten
<1> HIDE DEF flat, e, type, class
<1>9. <<0>> \in Seq(Byte) /\ Len(<<0>>) = 1 /\ <<0>>[1] = 0
  BY DEF Byte
<1>10. /\ name \in Seq(Byte) /\ Len(name) = e + 1 /\ \A d \in 1..e : name[d] = flat[d]
       /\ name[e + 1] = 0
  <2>1. /\ name \in Seq(Byte) /\ Len(name) = Len(flat) + Len(<<0>>)
        /\ \A d \in 1..Len(flat) : name[d] = flat[d]
        /\ \A d \in 1..Len(<<0>>) : name[Len(flat) + d] = <<0>>[d]
    BY <1>5, <1>9, ConcatBytes
  <2> HIDE DEF name
  <2>2. name[Len(flat) + 1] = 0
    BY <1>9, <2>1
  <2>3. QED
    BY <1>6, <1>9, <2>1, <2>2
<1> HIDE DEF name
<1>11. /\ typed \in Seq(Byte) /\ Len(typed) = e + 3 /\ \A d \in 1..(e + 1) : typed[d] = name[d]
       /\ typed[e + 2] = type[1] /\ typed[e + 3] = type[2]
  <2>1. /\ typed \in Seq(Byte) /\ Len(typed) = Len(name) + Len(type)
        /\ \A d \in 1..Len(name) : typed[d] = name[d]
        /\ \A d \in 1..Len(type) : typed[Len(name) + d] = type[d]
    <3>1. name \in Seq(Byte) /\ type \in Seq(Byte)
      BY <1>7, <1>10
    <3>2. QED
      BY ONLY <3>1, ConcatBytes
  <2> HIDE DEF typed
  <2>2. typed[Len(name) + 1] = type[1] /\ typed[Len(name) + 2] = type[2]
    BY <1>7, <2>1
  <2>3. Len(name) + 1 = e + 2 /\ Len(name) + 2 = e + 3 /\ Len(name) + Len(type) = e + 3
    BY <1>6, <1>7, <1>10
  <2>4. QED
    BY <1>10, <2>1, <2>2, <2>3
<1> HIDE DEF typed
<1>12. /\ W \in Seq(Byte) /\ Len(W) = e + 5 /\ \A d \in 1..(e + 3) : W[d] = typed[d]
       /\ W[e + 4] = class[1] /\ W[e + 5] = class[2]
  <2>1. /\ W \in Seq(Byte) /\ Len(W) = Len(typed) + Len(class)
        /\ \A d \in 1..Len(typed) : W[d] = typed[d]
        /\ \A d \in 1..Len(class) : W[Len(typed) + d] = class[d]
    <3>1. typed \in Seq(Byte) /\ class \in Seq(Byte)
      BY <1>8, <1>11
    <3>2. QED
      BY ONLY <3>1, ConcatBytes
  <2> HIDE DEF W
  <2>2. W[Len(typed) + 1] = class[1] /\ W[Len(typed) + 2] = class[2]
    BY <1>8, <2>1
  <2>3. Len(typed) + 1 = e + 4 /\ Len(typed) + 2 = e + 5 /\ Len(typed) + Len(class) = e + 5
    BY <1>6, <1>8, <1>11
  <2>4. QED
    BY <1>11, <2>1, <2>2, <2>3
<1> HIDE DEF W
<1>13. \A d \in 1..e : W[d] = flat[d]
  <2>1. ASSUME NEW d \in 1..e PROVE W[d] = flat[d]
    <3>1. d \in 1..(e + 1) /\ d \in 1..(e + 3)
      BY <1>6
    <3>2. QED
      BY <1>10, <1>11, <1>12, <3>1
  <2>2. QED
    BY <2>1
<1>14. W[e + 1] = 0 /\ W[e + 2] = type[1] /\ W[e + 3] = type[2]
  <2>1. e + 1 \in 1..(e + 1) /\ e + 1 \in 1..(e + 3) /\ e + 2 \in 1..(e + 3) /\ e + 3 \in 1..(e + 3)
    BY <1>6
  <2>2. QED
    BY <1>10, <1>11, <1>12, <2>1
<1>15. ASSUME NEW j \in 1..N
       PROVE  /\ inner[j - 1] \in Nat /\ inner[j] = inner[j - 1] + 1 + Len(n[j])
              /\ inner[j] <= e
              /\ W[inner[j - 1] + 1] = Len(n[j])
              /\ \A d \in 1..Len(n[j]) : W[inner[j - 1] + 1 + d] = LowerByte(n[j][d])
  <2>1. n[j] \in PlainLabels /\ ss[j] = WrittenLabel(n[j])
    BY <1>2
  <2> DEFINE w == WrittenLabel(n[j])
             m == Len(n[j])
  <2>2. /\ w \in Seq(Byte) /\ Len(w) = m + 1 /\ w[1] = m
        /\ \A d \in 1..m : w[d + 1] = LowerByte(n[j][d])
    BY <2>1, LabelWritten
  <2>3. m \in Nat
    BY <2>1 DEF PlainLabels, LabelsRead
  <2>4. j \in 1..Len(ss)
    BY <1>2
  <2>5. inner[j] = inner[j - 1] + Len(ss[j]) /\ inner[j - 1] \in Nat /\ j \in 0..Len(ss)
    BY <1>2, <1>3, <2>4, SumsStep
  <2>6. inner[j] <= e
    <3>1. Len(ss) \in j..Len(ss)
      BY <1>1, <1>2, <2>4
    <3>2. QED
      BY <1>2, <1>3, <2>5, <3>1, SumsGrow DEF e
  <2> HIDE DEF w, m
  <2>7. inner[j] = inner[j - 1] + 1 + m
    <3>1. Len(ss[j]) = m + 1
      BY <2>1, <2>2 DEF w
    <3>2. QED
      BY <2>3, <2>5, <3>1
  <2>8. ASSUME NEW d \in 1..(m + 1) PROVE W[inner[j - 1] + d] = w[d]
    <3>1. d \in 1..Len(ss[j])
      BY <2>1, <2>2 DEF w
    <3>2. flat[inner[j - 1] + d] = ss[j][d]
      BY <1>5, <2>4, <3>1 DEF Joined
    <3>3. inner[j - 1] + d \in 1..e
      BY <1>6, <2>3, <2>5, <2>6, <2>7
    <3>4. QED
      BY <1>13, <2>1, <3>2, <3>3 DEF w
  <2>9. W[inner[j - 1] + 1] = m
    <3>1. 1 \in 1..(m + 1)
      BY <2>3
    <3>2. QED
      BY <2>2, <2>8, <3>1
  <2>10. ASSUME NEW d \in 1..m PROVE W[inner[j - 1] + 1 + d] = LowerByte(n[j][d])
    <3>1. d + 1 \in 1..(m + 1) /\ inner[j - 1] + (d + 1) = inner[j - 1] + 1 + d
      <4>1. \A p, l \in Nat : \A x \in 1..l : x + 1 \in 1..(l + 1) /\ p + (x + 1) = p + 1 + x
        OBVIOUS
      <4>2. inner[j - 1] \in Nat
        BY <2>5
      <4>3. QED
        BY <2>3, <4>1, <4>2
    <3>2. QED
      BY <2>2, <2>8, <3>1
  <2>11. QED
    BY <2>5, <2>6, <2>7, <2>9, <2>10 DEF m
<1>16. Len(q.name) = N /\ inner[Len(q.name)] = e
  BY DEF n, e
<1>17. W[e + 2] * 256 + W[e + 3] = q.type
  BY <1>7, <1>14
<1>18. W[e + 4] * 256 + W[e + 5] = 1
  BY <1>8, <1>12
<1>19. QED
  BY <1>1, <1>4, <1>6, <1>12, <1>14, <1>15, <1>16, <1>17, <1>18 DEF n

\* A sequence read up to k and its next element.
LEMMA AppendNext ==
    ASSUME NEW S, NEW s \in Seq(S), NEW k \in 0..(Len(s) - 1)
    PROVE  Append(SubSeq(s, 1, k), s[k + 1]) = SubSeq(s, 1, k + 1)
<1>1. Len(s) \in Nat /\ k \in Nat /\ k + 1 <= Len(s)
  OBVIOUS
<1> DEFINE a == SubSeq(s, 1, k)
           c == SubSeq(s, 1, k + 1)
           e == s[k + 1]
<1>2. a \in Seq(S) /\ Len(a) = k /\ \A i \in 1..k : a[i] = s[i]
  BY <1>1
<1>3. c \in Seq(S) /\ Len(c) = k + 1 /\ \A i \in 1..(k + 1) : c[i] = s[i]
  BY <1>1
<1>4. e \in S
  BY <1>1
<1> HIDE DEF a, c, e
<1>5. Append(a, e) \in Seq(S) /\ Len(Append(a, e)) = k + 1
  BY <1>1, <1>2, <1>4
<1>6. ASSUME NEW i \in 1..(k + 1) PROVE Append(a, e)[i] = c[i]
  <2>1. CASE i = k + 1
    BY <1>1, <1>2, <1>3, <1>4, <2>1 DEF e
  <2>2. CASE i # k + 1
    <3>1. i \in 1..k
      BY <1>1, <2>2
    <3>2. Append(a, e)[i] = a[i]
      BY <1>2, <1>4, <3>1
    <3>3. QED
      BY <1>2, <1>3, <3>1, <3>2
  <2>3. QED
    BY <2>1, <2>2
<1>7. Append(a, e) = c
  BY <1>3, <1>5, <1>6, SeqEqual
<1>8. QED
  BY <1>7 DEF a, c, e

\* What the reader gives of names in lower case.
LoweredName(n) == [j \in DOMAIN n |-> Lowered(n[j])]
LoweredQuestions(qs) == [i \in DOMAIN qs |-> [name |-> LoweredName(qs[i].name), type |-> qs[i].type]]

LEMMA LoweredNameIs ==
    ASSUME NEW n \in Seq(PlainLabels)
    PROVE  /\ LoweredName(n) \in Seq(LabelsRead) /\ Len(LoweredName(n)) = Len(n)
           /\ \A j \in 1..Len(n) : LoweredName(n)[j] = Lowered(n[j])
<1>1. DOMAIN n = 1..Len(n) /\ Len(n) \in Nat
  OBVIOUS
<1>2. ASSUME NEW j \in 1..Len(n) PROVE Lowered(n[j]) \in LabelsRead
  <2>1. n[j] \in PlainLabels
    BY ElementOfSeq
  <2>2. n[j] \in LabelsRead
    BY <2>1 DEF PlainLabels
  <2>3. QED
    BY <2>2, LoweredIs
<1>3. LoweredName(n) = [j \in 1..Len(n) |-> Lowered(n[j])]
  BY <1>1 DEF LoweredName
<1>4. QED
  BY <1>1, <1>2, <1>3

\* What the reader gives of any packet.
QuestionsRead == [name : Seq(LabelsRead), type : U16Values]

LEMMA LoweredQuestionsAre ==
    ASSUME NEW qs \in Seq(PlainQuestions)
    PROVE  /\ LoweredQuestions(qs) \in Seq(QuestionsRead) /\ Len(LoweredQuestions(qs)) = Len(qs)
           /\ \A i \in 1..Len(qs) :
                /\ qs[i] \in PlainQuestions
                /\ LoweredQuestions(qs)[i] = [name |-> LoweredName(qs[i].name), type |-> qs[i].type]
<1>1. DOMAIN qs = 1..Len(qs) /\ Len(qs) \in Nat
  OBVIOUS
<1>2. ASSUME NEW i \in 1..Len(qs)
      PROVE  /\ qs[i] \in PlainQuestions
             /\ [name |-> LoweredName(qs[i].name), type |-> qs[i].type] \in QuestionsRead
  <2>1. qs[i] \in PlainQuestions
    BY ElementOfSeq
  <2>2. qs[i].name \in Seq(PlainLabels) /\ qs[i].type \in U16Values
    BY <2>1 DEF PlainQuestions
  <2>3. LoweredName(qs[i].name) \in Seq(LabelsRead)
    BY <2>2, LoweredNameIs
  <2>4. QED
    BY <2>1, <2>2, <2>3 DEF QuestionsRead
<1>3. LoweredQuestions(qs) = [i \in 1..Len(qs) |-> [name |-> LoweredName(qs[i].name), type |-> qs[i].type]]
  BY <1>1 DEF LoweredQuestions
<1>4. QED
  BY <1>1, <1>2, <1>3

WrittenQuestions(qs) == [i \in DOMAIN qs |-> WrittenQuestion(qs[i])]

\* A packet that holds these questions, and nothing before them but a header.
Laid(b, qs, off) ==
    /\ qs \in Seq(PlainQuestions) /\ Sums(off, WrittenQuestions(qs))
    /\ b \in Seq(Byte) /\ U16(b, 4) = Len(qs) /\ Header + off[Len(qs)] <= Len(b)
    /\ \A i \in 1..Len(qs) : \A d \in 1..Len(WrittenQuestion(qs[i])) :
         b[Header + off[i - 1] + d] = WrittenQuestion(qs[i])[d]

LEMMA QuestionsWritten ==
    ASSUME NEW qs \in Seq(PlainQuestions)
    PROVE  /\ WrittenQuestions(qs) \in Seq(Seq(Byte)) /\ Len(WrittenQuestions(qs)) = Len(qs)
           /\ \A i \in 1..Len(qs) : WrittenQuestions(qs)[i] = WrittenQuestion(qs[i]) /\ qs[i] \in PlainQuestions
<1>1. DOMAIN qs = 1..Len(qs) /\ Len(qs) \in Nat
  OBVIOUS
<1>2. ASSUME NEW i \in 1..Len(qs) PROVE qs[i] \in PlainQuestions /\ WrittenQuestion(qs[i]) \in Seq(Byte)
  <2>1. qs[i] \in PlainQuestions
    BY ElementOfSeq
  <2>2. WrittenLabels(qs[i].name) \in Seq(Seq(Byte))
    BY <2>1, LabelsWritten DEF PlainQuestions
  <2>3. PICK inner : Sums(inner, WrittenLabels(qs[i].name))
    BY <2>2, SumsExist
  <2>4. QED
    BY <2>1, <2>3, QuestionWritten
<1>3. WrittenQuestions(qs) = [i \in 1..Len(qs) |-> WrittenQuestion(qs[i])]
  BY <1>1 DEF WrittenQuestions
<1>4. QED
  BY <1>1, <1>2, <1>3

\* Where question k + 1 and its labels are.
LEMMA QuestionLaid ==
    ASSUME NEW b, NEW qs, NEW off, Laid(b, qs, off), NEW k \in 0..(Len(qs) - 1),
           NEW inner, Sums(inner, WrittenLabels(qs[k + 1].name))
    PROVE  LET q == qs[k + 1]
               e == inner[Len(q.name)]
               start == Header + off[k]
           IN  /\ q \in PlainQuestions /\ off[k] \in Nat /\ e \in Nat /\ Len(q.name) \in Nat
               /\ off[k + 1] = off[k] + e + 5 /\ start + e + 5 <= Len(b)
               /\ At(b, start + e) = 0
               /\ U16(b, start + e + 1) = q.type
               /\ U16(b, start + e + 3) = 1
               /\ \A j \in 0..(Len(q.name) - 1) :
                    /\ inner[j] \in Nat /\ inner[j + 1] = inner[j] + 1 + Len(q.name[j + 1])
                    /\ start + inner[j + 1] <= Len(b)
                    /\ At(b, start + inner[j]) = Len(q.name[j + 1])
                    /\ \A d \in 1..Len(q.name[j + 1]) :
                         At(b, start + inner[j] + d) = LowerByte(q.name[j + 1][d])
<1> DEFINE q == qs[k + 1]
           N == Len(q.name)
           e == inner[N]
           start == Header + off[k]
           W == WrittenQuestion(q)
<1>1. qs \in Seq(PlainQuestions) /\ Len(qs) \in Nat /\ k + 1 \in 1..Len(qs) /\ (k + 1) - 1 = k /\ k \in 0..Len(qs)
  BY DEF Laid
<1>2. q \in PlainQuestions
  BY <1>1, ElementOfSeq
<1>3. /\ W \in Seq(Byte) /\ N \in Nat /\ e \in Nat /\ Len(W) = e + 5
      /\ \A j \in 1..N :
           /\ inner[j - 1] \in Nat /\ inner[j] = inner[j - 1] + 1 + Len(q.name[j]) /\ inner[j] <= e
           /\ W[inner[j - 1] + 1] = Len(q.name[j])
           /\ \A d \in 1..Len(q.name[j]) : W[inner[j - 1] + 1 + d] = LowerByte(q.name[j][d])
      /\ W[e + 1] = 0 /\ W[e + 2] * 256 + W[e + 3] = q.type /\ W[e + 4] * 256 + W[e + 5] = 1
  <2>1. Sums(inner, WrittenLabels(q.name))
    OBVIOUS
  <2>2. QED
    BY ONLY <1>2, <2>1, QuestionWritten, ZenonT(60)
<1>3a. W \in Seq(Byte) /\ N \in Nat /\ e \in Nat /\ Len(W) = e + 5
  BY ONLY <1>3
<1>3b. W[e + 1] = 0 /\ W[e + 2] * 256 + W[e + 3] = q.type /\ W[e + 4] * 256 + W[e + 5] = 1
  BY ONLY <1>3
<1>3c. \A j \in 1..N :
           /\ inner[j - 1] \in Nat /\ inner[j] = inner[j - 1] + 1 + Len(q.name[j]) /\ inner[j] <= e
           /\ W[inner[j - 1] + 1] = Len(q.name[j])
           /\ \A d \in 1..Len(q.name[j]) : W[inner[j - 1] + 1 + d] = LowerByte(q.name[j][d])
  BY ONLY <1>3
<1>4. off[k] \in Nat /\ off[k + 1] \in Nat /\ off[k + 1] = off[k] + e + 5 /\ start + e + 5 <= Len(b) /\ Len(b) \in Nat
  <2>1. /\ WrittenQuestions(qs) \in Seq(Seq(Byte)) /\ Len(WrittenQuestions(qs)) = Len(qs)
        /\ WrittenQuestions(qs)[k + 1] = W
    BY <1>1, QuestionsWritten
  <2>2. Sums(off, WrittenQuestions(qs))
    BY DEF Laid
  <2>3. off[k] \in Nat /\ off[k + 1] \in Nat /\ off[k + 1] = off[k] + Len(W)
    BY <1>1, <2>1, <2>2, SumsStep
  <2>4. off[k + 1] <= off[Len(qs)] /\ off[Len(qs)] \in Nat
    <3>1. k + 1 \in 0..Len(WrittenQuestions(qs)) /\ Len(qs) \in (k + 1)..Len(WrittenQuestions(qs))
      BY <1>1, <2>1
    <3>2. QED
      BY <2>1, <2>2, <3>1, SumsGrow
  <2>5. Header + off[Len(qs)] <= Len(b) /\ Len(b) \in Nat
    BY DEF Laid
  <2> HIDE DEF W, e
  <2>6. QED
    <3>1. Len(W) = e + 5 /\ e \in Nat
      BY <1>3a
    <3> DEFINE o == off[k]
    <3>2. o \in Nat /\ off[k + 1] \in Nat /\ off[k + 1] = o + e + 5 
      BY <2>3, <3>1
    <3> HIDE DEF o
    <3>3. (Header + o) + e + 5 <= Len(b)
      BY <2>4, <2>5, <3>1, <3>2 DEF Header
    <3>4. QED
      BY <2>5, <3>2, <3>3 DEF o
<1>5. start \in Nat
  BY <1>4 DEF Header
<1> HIDE DEF W, e
<1>6. ASSUME NEW x \in 0..(e + 4) PROVE At(b, start + x) = W[x + 1]
  <2>1. x + 1 \in 1..Len(W) /\ (start + x) + 1 = start + (x + 1)
    BY <1>3a, <1>5
  <2>2. b[Header + off[(k + 1) - 1] + (x + 1)] = W[x + 1]
    BY <1>1, <2>1 DEF Laid, W
  <2>3. QED
    BY <1>1, <2>1, <2>2 DEF At
<1> HIDE DEF start
<1>7. At(b, start + e) = 0
  <2>1. e \in 0..(e + 4)
    BY <1>3a
  <2>2. QED
    BY <1>3b, <1>6, <2>1
<1>8. U16(b, start + e + 1) = q.type
  <2>1. e + 1 \in 0..(e + 4) /\ e + 2 \in 0..(e + 4) /\ (e + 1) + 1 = e + 2 /\ (e + 2) + 1 = e + 3
        /\ start + e + 1 = start + (e + 1) /\ (start + e + 1) + 1 = start + (e + 2)
    BY <1>3a, <1>5
  <2>2. At(b, start + (e + 1)) = W[e + 2] /\ At(b, start + (e + 2)) = W[e + 3]
    BY <1>6, <2>1
  <2>3. U16(b, start + e + 1) = At(b, start + (e + 1)) * 256 + At(b, start + (e + 2))
    BY <2>1 DEF U16
  <2>4. QED
    BY <1>3b, <2>2, <2>3
<1>9. U16(b, start + e + 3) = 1
  <2>1. e + 3 \in 0..(e + 4) /\ e + 4 \in 0..(e + 4) /\ (e + 3) + 1 = e + 4 /\ (e + 4) + 1 = e + 5
        /\ start + e + 3 = start + (e + 3) /\ (start + e + 3) + 1 = start + (e + 4)
    BY <1>3a, <1>5
  <2>2. At(b, start + (e + 3)) = W[e + 4] /\ At(b, start + (e + 4)) = W[e + 5]
    BY <1>6, <2>1
  <2>3. U16(b, start + e + 3) = At(b, start + (e + 3)) * 256 + At(b, start + (e + 4))
    BY <2>1 DEF U16
  <2>4. QED
    BY <1>3b, <2>2, <2>3
<1>10. ASSUME NEW j \in 0..(N - 1)
       PROVE  /\ inner[j] \in Nat /\ inner[j + 1] = inner[j] + 1 + Len(q.name[j + 1])
              /\ start + inner[j + 1] <= Len(b)
              /\ At(b, start + inner[j]) = Len(q.name[j + 1])
              /\ \A d \in 1..Len(q.name[j + 1]) :
                   At(b, start + inner[j] + d) = LowerByte(q.name[j + 1][d])
  <2> DEFINE m == Len(q.name[j + 1])
             p == inner[j]
  <2>1. j + 1 \in 1..N /\ (j + 1) - 1 = j
    BY <1>3a
  <2>2. /\ p \in Nat /\ inner[j + 1] = p + 1 + m /\ inner[j + 1] <= e
        /\ W[p + 1] = m
        /\ \A d \in 1..m : W[p + 1 + d] = LowerByte(q.name[j + 1][d])
    BY <1>3c, <2>1
  <2>3. m \in Nat
    <3>1. q.name \in Seq(PlainLabels)
      BY <1>2 DEF PlainQuestions
    <3>2. q.name[j + 1] \in PlainLabels
      BY <2>1, <3>1, ElementOfSeq
    <3>3. QED
      BY <3>2 DEF PlainLabels, LabelsRead
  <2> HIDE DEF m, p, q, N
  <2>4. p \in 0..(e + 4) /\ start + inner[j + 1] <= Len(b)
    <3>1. p \in Nat /\ inner[j + 1] = p + 1 + m /\ inner[j + 1] <= e /\ e \in Nat
      BY <1>3a, <2>2
    <3>2. start + e + 5 <= Len(b) /\ Len(b) \in Nat
      BY <1>4 DEF start
    <3>3. QED
      BY <1>5, <2>3, <3>1, <3>2
  <2>5. At(b, start + p) = m
    BY <1>6, <2>2, <2>4
  <2>6. ASSUME NEW d \in 1..m PROVE At(b, start + p + d) = LowerByte(q.name[j + 1][d])
    <3>1. p \in Nat /\ p + 1 + m <= e /\ e \in Nat
      BY <1>3a, <2>2
    <3>2. d \in Nat /\ d <= m
      BY <2>3
    <3>3. p + d \in 0..(e + 4) /\ start + p + d = start + (p + d) /\ (p + d) + 1 = p + 1 + d
      BY ONLY <1>5, <2>3, <3>1, <3>2
    <3>4. At(b, start + (p + d)) = W[(p + d) + 1]
      BY <1>6, <3>3
    <3>5. QED
      BY <2>2, <3>3, <3>4
  <2>7. QED
    BY <2>2, <2>4, <2>5, <2>6 DEF m, p
<1>11. QED
  BY <1>2, <1>3a, <1>4, <1>7, <1>8, <1>9, <1>10 DEF e, start

-----------------------------------------------------------------------------
(* The client reads the questions of a response.                            *)

\* How far a client has read a response: k questions and j labels.
ReadUpTo(qs, off, k, inner, j) ==
    /\ k \in 0..Len(qs) /\ regular /\ left = Len(qs) - k
    /\ questions = SubSeq(LoweredQuestions(qs), 1, k)
    /\ status = IF k = Len(qs) THEN "read" ELSE "reading"
    /\ jumps = 0 /\ saved = NoOffset
    /\ k # Len(qs) =>
         /\ Sums(inner, WrittenLabels(qs[k + 1].name)) /\ j \in 0..Len(qs[k + 1].name)
         /\ labels = SubSeq(LoweredName(qs[k + 1].name), 1, j)
         /\ pos = Header + off[k] + inner[j]

\* The reader follows what was written.
ResponseFollows(qs, off) == Laid(buf, qs, off) /\ \E k, inner, j : ReadUpTo(qs, off, k, inner, j)

\* The labels of a question written in a packet.
LEMMA NextName ==
    ASSUME NEW qs \in Seq(PlainQuestions), NEW i \in 1..Len(qs)
    PROVE  /\ qs[i] \in PlainQuestions /\ qs[i].name \in Seq(PlainLabels)
           /\ \E inner : Sums(inner, WrittenLabels(qs[i].name)) /\ inner[0] = 0
<1>1. qs[i] \in PlainQuestions
  BY ElementOfSeq
<1>2. qs[i].name \in Seq(PlainLabels)
  BY <1>1 DEF PlainQuestions
<1>3. WrittenLabels(qs[i].name) \in Seq(Seq(Byte))
  BY <1>2, LabelsWritten
<1>4. PICK inner : Sums(inner, WrittenLabels(qs[i].name))
  BY <1>3, SumsExist
<1>5. QED
  BY <1>1, <1>2, <1>4 DEF Sums

\* Label j + 1 of question k + 1, and where it is.
NextIsLabel(b, qs, off, k, inner, j) ==
    /\ Laid(b, qs, off) /\ k \in 0..(Len(qs) - 1)
    /\ Sums(inner, WrittenLabels(qs[k + 1].name)) /\ j \in 0..(Len(qs[k + 1].name) - 1)

\* The length of the label and its letters, in the packet.
LabelThere(b, start, inner, j, label) ==
    /\ inner[j] \in Nat /\ inner[j + 1] = inner[j] + 1 + Len(label)
    /\ start + inner[j + 1] <= Len(b)
    /\ At(b, start + inner[j]) = Len(label)
    /\ \A d \in 1..Len(label) : At(b, start + inner[j] + d) = LowerByte(label[d])

LEMMA LabelLaid ==
    ASSUME NEW b, NEW qs, NEW off, NEW k, NEW inner, NEW j, NextIsLabel(b, qs, off, k, inner, j)
    PROVE  LabelThere(b, Header + off[k], inner, j, qs[k + 1].name[j + 1])
<1>1. /\ Laid(b, qs, off) /\ k \in 0..(Len(qs) - 1)
      /\ Sums(inner, WrittenLabels(qs[k + 1].name)) /\ j \in 0..(Len(qs[k + 1].name) - 1)
  BY DEF NextIsLabel
<1>2. QED
  BY <1>1, QuestionLaid, SMTT(60) DEF LabelThere

\* The client reads a label.
LEMMA LabelFollows ==
    ASSUME NEW qs, NEW off, Laid(buf, qs, off), NEW k, NEW inner, NEW j, ReadUpTo(qs, off, k, inner, j),
           k # Len(qs), j # Len(qs[k + 1].name), ReadOn
    PROVE  ReadUpTo(qs, off, k, inner, j + 1)'
<1> DEFINE q == qs[k + 1]
           N == Len(q.name)
           start == Header + off[k]
           m == Len(q.name[j + 1])
           low == LoweredName(q.name)
<1>1. /\ qs \in Seq(PlainQuestions) /\ buf \in Seq(Byte) /\ Len(qs) \in Nat /\ k \in 0..(Len(qs) - 1)
      /\ k \in 0..Len(qs) /\ k + 1 \in 1..Len(qs)
  BY DEF Laid, ReadUpTo
<1>2. /\ regular /\ left = Len(qs) - k
      /\ questions = SubSeq(LoweredQuestions(qs), 1, k)
      /\ status = "reading" /\ jumps = 0 /\ saved = NoOffset
      /\ Sums(inner, WrittenLabels(q.name)) /\ j \in 0..N
      /\ labels = SubSeq(low, 1, j) /\ pos = start + inner[j]
  BY DEF ReadUpTo
<1>3. q \in PlainQuestions /\ off[k] \in Nat /\ N \in Nat
  BY <1>1, <1>2, QuestionLaid
<1>4. j \in 0..(N - 1) /\ j + 1 \in 1..N /\ j + 1 \in 0..N
  BY <1>2, <1>3
<1>5. /\ inner[j] \in Nat /\ inner[j + 1] = inner[j] + 1 + m
      /\ start + inner[j + 1] <= Len(buf)
      /\ At(buf, start + inner[j]) = m
      /\ \A d \in 1..m : At(buf, start + inner[j] + d) = LowerByte(q.name[j + 1][d])
  <2>1. Laid(buf, qs, off)
    OBVIOUS
  <2>2. Sums(inner, WrittenLabels(q.name)) /\ k \in 0..(Len(qs) - 1)
    BY <1>1, <1>2
  <2>3. j \in 0..(Len(qs[k + 1].name) - 1)
    BY <1>4
  <2>4. QED
    <3>1. NextIsLabel(buf, qs, off, k, inner, j)
      BY <2>1, <2>2, <2>3 DEF NextIsLabel
    <3>2. LabelThere(buf, start, inner, j, q.name[j + 1])
      BY <3>1, LabelLaid
    <3>3. QED
      BY <3>2 DEF LabelThere
<1>5a. inner[j] \in Nat /\ inner[j + 1] = inner[j] + 1 + m /\ start + inner[j + 1] <= Len(buf)
  BY ONLY <1>5
<1>5b. At(buf, start + inner[j]) = m
  BY ONLY <1>5
<1>6. q.name \in Seq(PlainLabels) /\ q.name[j + 1] \in PlainLabels /\ q.name[j + 1] \in LabelsRead /\ m \in 1..63
  <2>1. q.name \in Seq(PlainLabels)
    BY <1>3 DEF PlainQuestions
  <2>2. q.name[j + 1] \in PlainLabels
    BY <1>4, <2>1, ElementOfSeq
  <2>3. QED
    BY <2>1, <2>2 DEF PlainLabels, LabelsRead
<1> HIDE DEF q, N, m, low
<1>7. pos \in Nat /\ pos + 1 + m <= Len(buf) /\ pos < Len(buf) /\ Len(buf) \in Nat /\ At(buf, pos) = m
      /\ pos + 1 + m = start + inner[j + 1]
  <2>1. off[k] \in Nat /\ inner[j] \in Nat /\ m \in Nat /\ m >= 1 /\ Len(buf) \in Nat
    <3>1. m \in Nat /\ m >= 1
      BY <1>6
    <3>2. Len(buf) \in Nat
      BY <1>1
    <3>3. QED
      BY <1>3, <1>5a, <3>1, <3>2
  <2>2. start \in Nat
    BY <2>1 DEF Header
  <2>3. pos = start + inner[j]
    BY <1>2
  <2> HIDE DEF start
  <2>4. QED
    BY <1>5a, <1>5b, <2>1, <2>2, <2>3
<1>8. Label
  <2>1. ~PastEnd /\ ~Root /\ ~BadPointer /\ ~Pointer /\ ~BadLabel
    <3>1. m >= 1 /\ m <= 63 /\ m \in Int
      BY <1>6
    <3>2. Len(buf) \in Int /\ pos \in Int /\ pos < Len(buf) /\ pos + 1 + m <= Len(buf) /\ At(buf, pos) = m
      BY <1>7
    <3>3. ~PastEnd
      BY <3>2 DEF PastEnd, EndName
    <3>4. ~Root
      BY <3>1, <3>2 DEF Root, EndName
    <3>5. ~BadPointer /\ ~Pointer
      BY <3>1, <3>2 DEF BadPointer, Pointer, EndName
    <3>6. ~BadLabel
      BY <3>1, <3>2 DEF BadLabel, EndName
    <3>7. QED
      BY <3>3, <3>4, <3>5, <3>6
  <2>2. QED
    BY <2>1 DEF ReadOn
<1>9. /\ labels' = Append(labels, SubSeq(buf, pos + 2, pos + 1 + m)) /\ pos' = pos + 1 + m
      /\ UNCHANGED <<buf, status, left, jumps, saved, questions, regular>>
  BY <1>7, <1>8 DEF Label
<1>10. low \in Seq(LabelsRead) /\ Len(low) = N /\ low[j + 1] = Lowered(q.name[j + 1])
  BY <1>4, <1>6, LoweredNameIs DEF low, N
<1>11. SubSeq(buf, pos + 2, pos + 1 + m) = Lowered(q.name[j + 1])
  <2> DEFINE s == SubSeq(buf, pos + 2, pos + 1 + m)
             t == Lowered(q.name[j + 1])
  <2>0. m \in Nat /\ m >= 1 /\ pos \in Nat /\ Len(buf) \in Nat /\ pos + 1 + m <= Len(buf)
    <3>1. m \in 1..63
      BY ONLY <1>6, Zenon
    <3>2. m \in Nat /\ m >= 1
      BY ONLY <3>1
    <3>3. pos \in Nat /\ Len(buf) \in Nat /\ pos + 1 + m <= Len(buf)
      BY ONLY <1>7, Zenon
    <3>4. QED
      BY ONLY <3>2, <3>3
  <2>1. \A d \in (pos + 2)..(pos + 1 + m) : d \in 1..Len(buf)
    BY ONLY <2>0
  <2>2. \A d \in (pos + 2)..(pos + 1 + m) : buf[d] \in Byte
    BY <1>1, <2>1
  <2>3. /\ s \in Seq(Byte) /\ Len(s) = m /\ \A d \in 1..m : s[d] = buf[pos + 1 + d]
    <3>1. pos + 2 \in Int /\ pos + 1 + m \in Int
      BY ONLY <2>0
    <3>2. /\ s \in Seq(Byte)
          /\ Len(s) = IF pos + 2 <= pos + 1 + m THEN (pos + 1 + m) - (pos + 2) + 1 ELSE 0
          /\ \A i \in 1..((pos + 1 + m) - (pos + 2) + 1) : s[i] = buf[(pos + 2) + i - 1]
      BY ONLY <2>2, <3>1, SubSeqProperties
    <3> HIDE DEF s
    <3>3. (pos + 1 + m) - (pos + 2) + 1 = m /\ pos + 2 <= pos + 1 + m
      BY ONLY <2>0
    <3>4. \A i \in 1..m : (pos + 2) + i - 1 = pos + 1 + i
      BY ONLY <2>0
    <3>5. QED
      BY <3>2, <3>3, <3>4
  <2>4. t \in Seq(Byte) /\ Len(t) = m /\ \A d \in 1..m : t[d] = LowerByte(q.name[j + 1][d])
    BY <1>6, LoweredIs DEF m, LabelsRead
  <2>5. ASSUME NEW d \in 1..m PROVE s[d] = t[d]
    <3>1. pos + 1 + d = (pos + d) + 1
      BY <1>6, <1>7
    <3>2. At(buf, pos + d) = LowerByte(q.name[j + 1][d])
      BY <1>2, <1>5
    <3>3. QED
      BY <2>3, <2>4, <3>1, <3>2 DEF At
  <2> HIDE DEF s, t
  <2>6. s = t
    BY <2>3, <2>4, <2>5, SeqEqual
  <2>7. QED
    BY <2>6 DEF s, t
<1>12. labels' = SubSeq(low, 1, j + 1)
  <2>1. j \in 0..(Len(low) - 1)
    BY <1>4, <1>10
  <2>2. QED
    BY <1>2, <1>9, <1>10, <1>11, <2>1, AppendNext
<1>13. pos' = Header + off[k] + inner[j + 1]
  BY <1>7, <1>9
<1>14. QED
  BY <1>1, <1>2, <1>4, <1>9, <1>12, <1>13 DEF ReadUpTo, q, N, low

\* The end of the name of question k + 1, its type and class, and the next one.
NextIsEnd(b, qs, off, k, inner) ==
    /\ Laid(b, qs, off) /\ k \in 0..(Len(qs) - 1)
    /\ Sums(inner, WrittenLabels(qs[k + 1].name))

\* A root byte, the type and class, and the next question behind them.
EndThere(b, start, after, e, q) ==
    /\ q \in PlainQuestions /\ start \in Nat /\ e \in Nat
    /\ after = start + e + 5 /\ start + e + 5 <= Len(b)
    /\ At(b, start + e) = 0 /\ U16(b, start + e + 1) = q.type /\ U16(b, start + e + 3) = 1

LEMMA EndLaid ==
    ASSUME NEW b, NEW qs, NEW off, NEW k, NEW inner, NextIsEnd(b, qs, off, k, inner)
    PROVE  EndThere(b, Header + off[k], Header + off[k + 1], inner[Len(qs[k + 1].name)], qs[k + 1])
<1> DEFINE q == qs[k + 1]
           e == inner[Len(q.name)]
           start == Header + off[k]
<1>1. /\ Laid(b, qs, off) /\ k \in 0..(Len(qs) - 1)
      /\ Sums(inner, WrittenLabels(qs[k + 1].name))
  BY DEF NextIsEnd
<1>2. /\ q \in PlainQuestions /\ off[k] \in Nat /\ e \in Nat
      /\ off[k + 1] = off[k] + e + 5 /\ start + e + 5 <= Len(b)
  BY <1>1, QuestionLaid
<1>3. At(b, start + e) = 0 /\ U16(b, start + e + 1) = q.type /\ U16(b, start + e + 3) = 1
  BY <1>1, QuestionLaid
<1>4. start \in Nat /\ Header + off[k + 1] = start + e + 5
  <2> HIDE DEF e
  <2>1. QED
    BY <1>2 DEF Header
<1>5. QED
  BY <1>2, <1>3, <1>4 DEF EndThere

\* The client reads the end of a question.
LEMMA QuestionFollows ==
    ASSUME NEW qs, NEW off, Laid(buf, qs, off), NEW k, NEW inner, NEW j, ReadUpTo(qs, off, k, inner, j),
           k # Len(qs), j = Len(qs[k + 1].name), ReadOn
    PROVE  \E next : ReadUpTo(qs, off, k + 1, next, 0)'
<1> DEFINE q == qs[k + 1]
           N == Len(q.name)
           start == Header + off[k]
           e == inner[N]
           low == LoweredName(q.name)
<1>1. /\ qs \in Seq(PlainQuestions) /\ buf \in Seq(Byte) /\ Len(qs) \in Nat /\ k \in 0..(Len(qs) - 1)
      /\ k \in 0..Len(qs) /\ k + 1 \in 1..Len(qs) /\ k + 1 \in 0..Len(qs)
  BY DEF Laid, ReadUpTo
<1>2. /\ regular /\ left = Len(qs) - k
      /\ questions = SubSeq(LoweredQuestions(qs), 1, k)
      /\ status = "reading" /\ jumps = 0 /\ saved = NoOffset
      /\ Sums(inner, WrittenLabels(q.name))
      /\ labels = SubSeq(low, 1, N) /\ pos = start + e
  BY DEF ReadUpTo
<1>3. EndThere(buf, start, Header + off[k + 1], e, q)
  <2>1. NextIsEnd(buf, qs, off, k, inner)
    BY <1>1, <1>2 DEF NextIsEnd
  <2>2. QED
    BY <2>1, EndLaid
<1> HIDE DEF q, N, start, e, low
<1>4. /\ q \in PlainQuestions /\ start \in Nat /\ e \in Nat /\ Len(buf) \in Nat
      /\ Header + off[k + 1] = start + e + 5 /\ start + e + 5 <= Len(buf)
  BY <1>1, <1>3 DEF EndThere
<1>5. At(buf, start + e) = 0 /\ U16(buf, start + e + 1) = q.type /\ U16(buf, start + e + 3) = 1
  BY <1>3 DEF EndThere
<1>6. pos \in Nat /\ pos < Len(buf) /\ At(buf, pos) = 0 /\ (pos + 1) + 4 <= Len(buf)
      /\ (pos + 1) + 4 = Header + off[k + 1]
  BY <1>2, <1>4, <1>5
<1>7. U16(buf, pos + 1) = q.type /\ U16(buf, (pos + 1) + 2) \in Classes
  <2>1. (pos + 1) + 2 = start + e + 3 /\ pos + 1 = start + e + 1
    BY <1>2, <1>4
  <2>2. QED
    BY <1>5, <2>1 DEF Classes
<1>8. Root
  <2>1. ~PastEnd
    BY <1>4, <1>6 DEF PastEnd, EndName
  <2>2. ~BadPointer /\ ~Pointer
    BY <1>6 DEF BadPointer, Pointer, EndName
  <2>3. ~BadLabel
    BY <1>6 DEF BadLabel, EndName
  <2>4. ~Label
    BY <1>6 DEF Label
  <2>5. QED
    BY <2>1, <2>2, <2>3, <2>4 DEF ReadOn
<1>9. EndName(pos + 1, FALSE)
  BY <1>8 DEF Root
<1>10. /\ regular' /\ questions' = Append(questions, [name |-> labels, type |-> q.type])
       /\ status' = IF left > 1 THEN "reading" ELSE "read"
       /\ left' = left - 1 /\ pos' = Header + off[k + 1]
       /\ jumps' = 0 /\ saved' = NoOffset /\ labels' = <<>> /\ buf' = buf
  BY <1>2, <1>6, <1>7, <1>9 DEF EndName
<1>11. labels = low
  <2>1. low \in Seq(LabelsRead) /\ Len(low) = N
    BY <1>4, LoweredNameIs DEF low, N, PlainQuestions
  <2>2. QED
    BY <1>2, <2>1, SubSeqFull
<1>12. questions' = SubSeq(LoweredQuestions(qs), 1, k + 1)
  <2>1. /\ LoweredQuestions(qs) \in Seq(QuestionsRead) /\ Len(LoweredQuestions(qs)) = Len(qs)
        /\ LoweredQuestions(qs)[k + 1] = [name |-> low, type |-> q.type]
    BY <1>1, LoweredQuestionsAre DEF q, low
  <2>2. k \in 0..(Len(LoweredQuestions(qs)) - 1)
    BY <1>1, <2>1
  <2>3. QED
    BY <1>2, <1>10, <1>11, <2>1, <2>2, AppendNext
<1>13. left' = Len(qs) - (k + 1) /\ status' = IF k + 1 = Len(qs) THEN "read" ELSE "reading"
  BY <1>1, <1>2, <1>10
<1>14. CASE k + 1 = Len(qs)
  BY <1>1, <1>10, <1>12, <1>13, <1>14 DEF ReadUpTo
<1>15. CASE k + 1 # Len(qs)
  <2>1. (k + 1) + 1 \in 1..Len(qs)
    BY <1>1, <1>15
  <2>2. PICK next : Sums(next, WrittenLabels(qs[(k + 1) + 1].name)) /\ next[0] = 0
    BY <1>1, <2>1, NextName
  <2> DEFINE name == qs[(k + 1) + 1].name
  <2>3. name \in Seq(PlainLabels)
    BY <1>1, <2>1, NextName
  <2>4. 0 \in 0..Len(name) /\ SubSeq(LoweredName(name), 1, 0) = <<>>
    <3>1. 0 \in 0..Len(name)
      <4>1. Len(name) \in Nat
        <5> HIDE DEF name
        <5>1. QED
          BY <2>3
      <4>2. QED
        BY <4>1
    <3>2. SubSeq(LoweredName(name), 1, 0) = <<>>
      BY SubSeqEmpty
    <3>3. QED
      BY <3>1, <3>2
  <2>5. pos' = Header + off[k + 1] + next[0]
    BY <1>4, <1>10, <2>2
  <2>6. ReadUpTo(qs, off, k + 1, next, 0)'
    BY <1>1, <1>10, <1>12, <1>13, <2>2, <2>4, <2>5 DEF ReadUpTo
  <2>7. QED
    BY <2>6
<1>16. QED
  BY <1>14, <1>15

\* Whatever the client reads next, it follows the response.
LEMMA ResponseReadsOn ==
    ASSUME NEW qs, NEW off, ResponseFollows(qs, off), ReadOn
    PROVE  ResponseFollows(qs, off)'
<1>1. Laid(buf, qs, off) /\ \E k, inner, j : ReadUpTo(qs, off, k, inner, j)
  BY DEF ResponseFollows
<1>2. PICK k, inner, j : ReadUpTo(qs, off, k, inner, j)
  BY <1>1
<1>3. buf' = buf
  BY ReadOnKeeps
<1>4. k # Len(qs)
  <2>1. status = "reading"
    BY DEF ReadOn, PastEnd, Root, BadPointer, Pointer, BadLabel, Label, Inside, Reading
  <2>2. QED
    BY <1>2, <2>1 DEF ReadUpTo
<1>5. \E l, next, m : ReadUpTo(qs, off, l, next, m)'
  <2>1. CASE j = Len(qs[k + 1].name)
    BY <1>1, <1>2, <1>4, <2>1, QuestionFollows
  <2>2. CASE j # Len(qs[k + 1].name)
    BY <1>1, <1>2, <1>4, <2>2, LabelFollows
  <2>3. QED
    BY <2>1, <2>2
<1>6. QED
  BY <1>1, <1>3, <1>5 DEF ResponseFollows

-----------------------------------------------------------------------------
(* What a reader gives of any query.                                        *)

\* What is read of any query: labels and questions of a packet.
QueryTyped ==
    /\ ReaderInv
    /\ labels \in Seq(LabelsRead) /\ questions \in Seq(QuestionsRead)
    /\ left \in Nat /\ Len(questions) + left <= 65535

\* A question that was read has a name of labels and a type of two bytes.
LEMMA QuestionTyped ==
    ASSUME QueryTyped, Reading, NEW end \in Nat, NEW broken \in BOOLEAN, EndName(end, broken)
    PROVE  /\ labels' \in Seq(LabelsRead) /\ questions' \in Seq(QuestionsRead)
           /\ left' \in Nat /\ Len(questions') + left' <= 65535
<1> DEFINE o == Behind(end)
           whole == o + 4 <= Len(buf) /\ U16(buf, o + 2) \in Classes
           q == [name |-> labels, type |-> U16(buf, o)]
<1>1. /\ buf \in Seq(Byte) /\ Len(buf) \in Nat /\ o \in Nat /\ left \in Nat /\ left >= 1
      /\ labels \in Seq(LabelsRead) /\ questions \in Seq(QuestionsRead) /\ Len(questions) \in Nat
      /\ Len(questions) + left <= 65535
  BY DEF QueryTyped, ReaderInv, ReaderTypeOK, Reading, Behind, NoOffset, Header
<1>2. /\ questions' = IF whole THEN Append(questions, q) ELSE questions
      /\ left' = IF whole THEN left - 1 ELSE left
      /\ labels' = <<>>
  BY DEF EndName, Behind
<1> HIDE DEF o
<1>3. CASE whole
  <2>1. q \in QuestionsRead
    <3>1. o + 1 < Len(buf)
      BY <1>1, <1>3
    <3>2. U16(buf, o) \in U16Values
      BY <1>1, <3>1, NumberIsU16
    <3>3. QED
      BY <1>1, <3>2 DEF QuestionsRead
  <2>2. questions' = Append(questions, q) /\ left' = left - 1
    BY <1>2, <1>3
  <2> HIDE DEF q, whole
  <2>3. questions' \in Seq(QuestionsRead) /\ Len(questions') = Len(questions) + 1
    BY <1>1, <2>1, <2>2
  <2>4. left' \in Nat /\ Len(questions') + left' <= 65535
    BY <1>1, <2>2, <2>3
  <2>5. QED
    BY <1>2, <2>3, <2>4
<1>4. CASE ~whole
  <2>1. questions' = questions /\ left' = left
    BY <1>2, <1>4
  <2> HIDE DEF q, whole
  <2>2. QED
    BY <1>1, <1>2, <2>1
<1>5. QED
  BY <1>3, <1>4

LEMMA TypedReadOn ==
    ASSUME QueryTyped, ReadOn
    PROVE  QueryTyped'
<1>1. ReaderInv'
  BY ReadOnAdvances DEF QueryTyped
<1>2. pos \in Nat /\ buf \in Seq(Byte) /\ Len(buf) \in Nat
  BY DEF QueryTyped, ReaderInv, ReaderTypeOK
<1>3. CASE PastEnd \/ Root \/ BadPointer \/ BadLabel
  <2>1. PICK end \in Nat, broken \in BOOLEAN : Reading /\ EndName(end, broken)
    <3>1. pos + 1 \in Nat
      BY <1>2
    <3>2. QED
      BY <1>2, <1>3, <3>1 DEF PastEnd, Root, BadPointer, BadLabel, Inside
  <2>2. QED
    BY <1>1, <2>1, QuestionTyped DEF QueryTyped
<1>4. CASE Pointer
  BY <1>1, <1>4 DEF Pointer, QueryTyped
<1>5. CASE Label
  <2> DEFINE n == At(buf, pos)
  <2>1. n \in 1..63 /\ pos + 1 + n <= Len(buf) /\ labels' = Append(labels, SubSeq(buf, pos + 2, pos + 1 + n))
        /\ UNCHANGED <<left, questions>>
    BY <1>5 DEF Label
  <2> HIDE DEF n
  <2>2. SubSeq(buf, pos + 2, pos + 1 + n) \in LabelsRead
    <3> DEFINE s == SubSeq(buf, pos + 2, pos + 1 + n)
    <3>1. pos + 2 \in Int /\ pos + 1 + n \in Int
      BY <1>2, <2>1
    <3>2. \A d \in (pos + 2)..(pos + 1 + n) : buf[d] \in Byte
      BY <1>2, <2>1
    <3>3. /\ s \in Seq(Byte)
          /\ Len(s) = IF pos + 2 <= pos + 1 + n THEN (pos + 1 + n) - (pos + 2) + 1 ELSE 0
      BY ONLY <3>1, <3>2, SubSeqProperties
    <3> HIDE DEF s
    <3>4. Len(s) = n
      BY <1>2, <2>1, <3>3
    <3>5. QED
      BY <2>1, <3>3, <3>4 DEF s, LabelsRead
  <2>3. labels' \in Seq(LabelsRead)
    BY <2>1, <2>2 DEF QueryTyped
  <2>4. QED
    BY <1>1, <2>1, <2>3 DEF QueryTyped
<1>6. QED
  BY <1>3, <1>4, <1>5 DEF ReadOn

-----------------------------------------------------------------------------
(* What is written of an answer, and of a whole response.                   *)

\* Numbers and other pairs of bytes, one behind the other.
Pairs(V) == {p \in Seq(V) : Len(p) = 2}

LEMMA PairJoins ==
    ASSUME NEW V, NEW s \in Seq(V), NEW p \in Pairs(V)
    PROVE  /\ s \o p \in Seq(V) /\ Len(s \o p) = Len(s) + 2 /\ Len(s) \in Nat
           /\ \A d \in 1..Len(s) : (s \o p)[d] = s[d]
           /\ (s \o p)[Len(s) + 1] = p[1] /\ (s \o p)[Len(s) + 2] = p[2]
<1>1. p \in Seq(V) /\ Len(p) = 2
  BY DEF Pairs
<1> DEFINE t == s \o p
<1>2. /\ t \in Seq(V) /\ Len(t) = Len(s) + Len(p) /\ Len(s) \in Nat
      /\ \A d \in 1..Len(s) : t[d] = s[d]
      /\ \A d \in 1..Len(p) : t[Len(s) + d] = p[d]
  BY ONLY <1>1, s \in Seq(V), ConcatBytes
<1> HIDE DEF t
<1>3. t[Len(s) + 1] = p[1] /\ t[Len(s) + 2] = p[2]
  BY <1>1, <1>2
<1>4. QED
  BY <1>1, <1>2, <1>3 DEF t

\* Four pairs one behind the other.
FourJoined(s, a, b, c, d) ==
    /\ Len(s) = 8
    /\ s[1] = a[1] /\ s[2] = a[2] /\ s[3] = b[1] /\ s[4] = b[2]
    /\ s[5] = c[1] /\ s[6] = c[2] /\ s[7] = d[1] /\ s[8] = d[2]

LEMMA FourPairs ==
    ASSUME NEW V, NEW a \in Pairs(V), NEW b \in Pairs(V), NEW c \in Pairs(V), NEW d \in Pairs(V)
    PROVE  a \o b \o c \o d \in Seq(V) /\ FourJoined(a \o b \o c \o d, a, b, c, d)
<1> DEFINE ab == a \o b
           abc == ab \o c
           s == abc \o d
<1>1. a \in Seq(V) /\ Len(a) = 2
  BY DEF Pairs
<1>2. ab \in Seq(V) /\ Len(ab) = 4 /\ ab[1] = a[1] /\ ab[2] = a[2] /\ ab[3] = b[1] /\ ab[4] = b[2]
  <2>1. /\ ab \in Seq(V) /\ Len(ab) = Len(a) + 2 /\ Len(a) \in Nat
        /\ \A i \in 1..Len(a) : ab[i] = a[i]
        /\ ab[Len(a) + 1] = b[1] /\ ab[Len(a) + 2] = b[2]
    BY <1>1, PairJoins
  <2> HIDE DEF ab
  <2>2. QED
    BY <1>1, <2>1
<1> HIDE DEF ab
<1>3. /\ abc \in Seq(V) /\ Len(abc) = 6 /\ abc[1] = a[1] /\ abc[2] = a[2] /\ abc[3] = b[1] /\ abc[4] = b[2]
      /\ abc[5] = c[1] /\ abc[6] = c[2]
  <2>1. /\ abc \in Seq(V) /\ Len(abc) = Len(ab) + 2 /\ Len(ab) \in Nat
        /\ \A i \in 1..Len(ab) : abc[i] = ab[i]
        /\ abc[Len(ab) + 1] = c[1] /\ abc[Len(ab) + 2] = c[2]
    BY <1>2, PairJoins
  <2> HIDE DEF abc
  <2>2. QED
    BY <1>2, <2>1
<1> HIDE DEF abc
<1>4. /\ s \in Seq(V) /\ Len(s) = 8 /\ s[1] = a[1] /\ s[2] = a[2] /\ s[3] = b[1] /\ s[4] = b[2]
      /\ s[5] = c[1] /\ s[6] = c[2] /\ s[7] = d[1] /\ s[8] = d[2]
  <2>1. /\ s \in Seq(V) /\ Len(s) = Len(abc) + 2 /\ Len(abc) \in Nat
        /\ \A i \in 1..Len(abc) : s[i] = abc[i]
        /\ s[Len(abc) + 1] = d[1] /\ s[Len(abc) + 2] = d[2]
    BY <1>3, PairJoins
  <2> HIDE DEF s
  <2>2. QED
    BY <1>3, <2>1
<1>5. QED
  BY <1>4 DEF ab, abc, FourJoined

\* Records an answer may have.
AnswerRecords == {r \in Records : Len(r.data) <= 65535}

LEMMA RecordIs ==
    ASSUME NEW r \in AnswerRecords
    PROVE  /\ r.type \in U16Values /\ r.ttl \in U16Values /\ r.data \in Seq(Byte)
           /\ Len(r.data) \in Nat /\ Len(r.data) \in U16Values
           /\ r = [type |-> r.type, ttl |-> r.ttl, data |-> r.data]
<1>1. r \in Records /\ Len(r.data) <= 65535
  BY DEF AnswerRecords
<1>2. r.type \in U16Values /\ r.ttl \in U16Values /\ r.data \in Seq(Byte)
      /\ r = [type |-> r.type, ttl |-> r.ttl, data |-> r.data]
  BY <1>1 DEF Records
<1>3. Len(r.data) \in Nat
  BY <1>2
<1>4. Len(r.data) \in U16Values
  BY <1>1, <1>3, U16Range
<1>5. QED
  BY <1>2, <1>3, <1>4

LEMMA NumberIsPair ==
    ASSUME NEW n \in U16Values
    PROVE  Bytes16(n) \in Pairs(Byte)
  BY NumberWritten DEF Pairs

\* What is written of an answer.
AnswerIs(w, r) ==
    /\ w \in Seq(Byte) /\ Len(w) = 12 + Len(r.data)
    /\ w[1] = 192 /\ w[2] = Header /\ w[3] = Bytes16(r.type)[1] /\ w[4] = Bytes16(r.type)[2]
    /\ w[5] = Bytes16(1)[1] /\ w[6] = Bytes16(1)[2] /\ w[7] = 0 /\ w[8] = 0
    /\ w[9] = Bytes16(r.ttl)[1] /\ w[10] = Bytes16(r.ttl)[2]
    /\ w[11] = Bytes16(Len(r.data))[1] /\ w[12] = Bytes16(Len(r.data))[2]
    /\ \A d \in 1..Len(r.data) : w[12 + d] = r.data[d]

LEMMA AnswerWritten ==
    ASSUME NEW r \in AnswerRecords
    PROVE  AnswerIs(WrittenAnswer(r), r)
<1> DEFINE a == <<192, Header>>
           t == Bytes16(r.type)
           c == Bytes16(1)
           z == <<0, 0>>
           l == Bytes16(r.ttl)
           n == Bytes16(Len(r.data))
           four == a \o t \o c \o z
           five == four \o l
           six == five \o n
           w == six \o r.data
<1>1. WrittenAnswer(r) = w
  BY DEF WrittenAnswer
<1>2. t \in Pairs(Byte) /\ l \in Pairs(Byte) /\ n \in Pairs(Byte) /\ r.data \in Seq(Byte)
  BY RecordIs, NumberIsPair
<1>3. c \in Pairs(Byte)
  <2>1. 1 \in U16Values
    BY U16Range
  <2>2. QED
    BY <2>1, NumberIsPair
<1>4. a \in Pairs(Byte) /\ z \in Pairs(Byte) /\ a[1] = 192 /\ a[2] = Header /\ z[1] = 0 /\ z[2] = 0
  BY DEF Pairs, Byte, Header
<1> HIDE DEF a, t, c, z, l, n
<1>5. /\ four \in Seq(Byte) /\ Len(four) = 8
      /\ four[1] = a[1] /\ four[2] = a[2] /\ four[3] = t[1] /\ four[4] = t[2]
      /\ four[5] = c[1] /\ four[6] = c[2] /\ four[7] = z[1] /\ four[8] = z[2]
  <2>1. a \in Pairs(Byte) /\ t \in Pairs(Byte) /\ c \in Pairs(Byte) /\ z \in Pairs(Byte)
    BY <1>2, <1>3, <1>4
  <2>2. four \in Seq(Byte) /\ FourJoined(four, a, t, c, z)
    BY ONLY <2>1, FourPairs
  <2> HIDE DEF four
  <2>3. QED
    BY <2>2 DEF FourJoined
<1> HIDE DEF four
<1>6. /\ five \in Seq(Byte) /\ Len(five) = 10 /\ five[9] = l[1] /\ five[10] = l[2]
      /\ \A i \in 1..8 : five[i] = four[i]
  <2>1. /\ five \in Seq(Byte) /\ Len(five) = Len(four) + 2
        /\ \A i \in 1..Len(four) : five[i] = four[i]
        /\ five[Len(four) + 1] = l[1] /\ five[Len(four) + 2] = l[2]
    <3>1. four \in Seq(Byte) /\ l \in Pairs(Byte)
      BY <1>2, <1>5
    <3>2. QED
      BY ONLY <3>1, PairJoins
  <2> HIDE DEF five
  <2>2. QED
    BY <1>5, <2>1
<1> HIDE DEF five
<1>7. /\ six \in Seq(Byte) /\ Len(six) = 12 /\ six[11] = n[1] /\ six[12] = n[2]
      /\ \A i \in 1..10 : six[i] = five[i]
  <2>1. /\ six \in Seq(Byte) /\ Len(six) = Len(five) + 2
        /\ \A i \in 1..Len(five) : six[i] = five[i]
        /\ six[Len(five) + 1] = n[1] /\ six[Len(five) + 2] = n[2]
    <3>1. five \in Seq(Byte) /\ n \in Pairs(Byte)
      BY <1>2, <1>6
    <3>2. QED
      BY ONLY <3>1, PairJoins
  <2> HIDE DEF six
  <2>2. QED
    BY <1>6, <2>1
<1> HIDE DEF six
<1>8. /\ w \in Seq(Byte) /\ Len(w) = 12 + Len(r.data)
      /\ \A i \in 1..12 : w[i] = six[i]
      /\ \A d \in 1..Len(r.data) : w[12 + d] = r.data[d]
  <2> DEFINE data == r.data
  <2>1. data \in Seq(Byte)
    BY <1>2
  <2> HIDE DEF data
  <2>2. /\ six \o data \in Seq(Byte) /\ Len(six \o data) = Len(six) + Len(data)
        /\ \A i \in 1..Len(six) : (six \o data)[i] = six[i]
        /\ \A d \in 1..Len(data) : (six \o data)[Len(six) + d] = data[d]
    <3>1. six \in Seq(Byte)
      BY <1>7
    <3>2. QED
      BY ONLY <2>1, <3>1, ConcatBytes
  <2>3. Len(six) = 12
    BY <1>7
  <2>4. QED
    BY <2>2, <2>3 DEF data
<1> HIDE DEF w
<1>9. /\ w[1] = 192 /\ w[2] = Header /\ w[3] = t[1] /\ w[4] = t[2] /\ w[5] = c[1] /\ w[6] = c[2]
      /\ w[7] = 0 /\ w[8] = 0 /\ w[9] = l[1] /\ w[10] = l[2] /\ w[11] = n[1] /\ w[12] = n[2]
  <2>1. \A i \in 1..8 : w[i] = four[i]
    <3>1. ASSUME NEW i \in 1..8 PROVE w[i] = four[i]
      <4>1. i \in 1..10 /\ i \in 1..12
        OBVIOUS
      <4>2. w[i] = six[i] /\ six[i] = five[i] /\ five[i] = four[i]
        BY <1>6, <1>7, <1>8, <4>1
      <4>3. QED
        BY <4>2
    <3>2. QED
      BY <3>1
  <2>2. w[9] = l[1] /\ w[10] = l[2]
    BY <1>6, <1>7, <1>8
  <2>3. w[11] = n[1] /\ w[12] = n[2]
    BY <1>7, <1>8
  <2>4. w[1] = 192 /\ w[2] = Header /\ w[3] = t[1] /\ w[4] = t[2] /\ w[5] = c[1] /\ w[6] = c[2]
        /\ w[7] = 0 /\ w[8] = 0
    BY <1>4, <1>5, <2>1
  <2>5. QED
    BY <2>2, <2>3, <2>4
<1>10. QED
  BY <1>1, <1>8, <1>9 DEF AnswerIs, t, c, l, n

\* What is written of the answers.
WrittenAnswers(rs) == [i \in DOMAIN rs |-> WrittenAnswer(rs[i])]

LEMMA AnswersWritten ==
    ASSUME NEW rs \in Seq(AnswerRecords)
    PROVE  /\ WrittenAnswers(rs) \in Seq(Seq(Byte)) /\ Len(WrittenAnswers(rs)) = Len(rs)
           /\ \A i \in 1..Len(rs) : /\ WrittenAnswers(rs)[i] = WrittenAnswer(rs[i]) /\ rs[i] \in AnswerRecords
                                    /\ AnswerIs(WrittenAnswers(rs)[i], rs[i])
<1>1. DOMAIN rs = 1..Len(rs) /\ Len(rs) \in Nat
  OBVIOUS
<1>2. ASSUME NEW i \in 1..Len(rs)
      PROVE  rs[i] \in AnswerRecords /\ WrittenAnswer(rs[i]) \in Seq(Byte) /\ AnswerIs(WrittenAnswer(rs[i]), rs[i])
  <2>1. rs[i] \in AnswerRecords
    BY ElementOfSeq
  <2>2. AnswerIs(WrittenAnswer(rs[i]), rs[i])
    BY <2>1, AnswerWritten
  <2>3. QED
    BY <2>1, <2>2 DEF AnswerIs
<1>3. WrittenAnswers(rs) = [i \in 1..Len(rs) |-> WrittenAnswer(rs[i])]
  BY <1>1 DEF WrittenAnswers
<1>4. QED
  BY <1>1, <1>2, <1>3

\* The first twelve bytes of a response.
HeaderIs(p, q, n, m) ==
    /\ p[1] = q[1] /\ p[2] = q[2] /\ p[3] = 133 /\ p[4] = 0
    /\ p[5] = Bytes16(n)[1] /\ p[6] = Bytes16(n)[2]
    /\ p[7] = Bytes16(m)[1] /\ p[8] = Bytes16(m)[2]
    /\ p[9] = 0 /\ p[10] = 0 /\ p[11] = 0 /\ p[12] = 0

\* How they are written.
ResponseHeader(q, n, m) ==
    SubSeq(q, 1, 2) \o <<133, 0>> \o Bytes16(n) \o Bytes16(m) \o <<0, 0, 0, 0>>

LEMMA HeaderWritten ==
    ASSUME NEW V, Byte \subseteq V, NEW q \in Seq(Byte), Len(q) >= Header, NEW n \in U16Values, NEW m \in Nat,
           Bytes16(m) \in Pairs(V)
    PROVE  /\ ResponseHeader(q, n, m) \in Seq(V) /\ Len(ResponseHeader(q, n, m)) = Header
           /\ HeaderIs(ResponseHeader(q, n, m), q, n, m)
<1> DEFINE id == SubSeq(q, 1, 2)
           flags == <<133, 0>>
           c == Bytes16(n)
           d == Bytes16(m)
           zeros == <<0, 0, 0, 0>>
           four == id \o flags \o c \o d
           p == four \o zeros
<1>1. ResponseHeader(q, n, m) = p
  BY DEF ResponseHeader
<1>2. id \in Pairs(V) /\ id[1] = q[1] /\ id[2] = q[2]
  <2>1. Len(q) \in Nat /\ Len(q) >= 12
    BY DEF Header
  <2>2. \A i \in 1..2 : q[i] \in V
    <3>1. ASSUME NEW i \in 1..2 PROVE q[i] \in V
      <4>1. i \in 1..Len(q)
        BY <2>1
      <4>2. q[i] \in Byte
        BY <4>1
      <4>3. QED
        BY <4>2
    <3>2. QED
      BY <3>1
  <2>3. /\ id \in Seq(V) /\ Len(id) = IF 1 <= 2 THEN 2 - 1 + 1 ELSE 0
        /\ \A i \in 1..(2 - 1 + 1) : id[i] = q[1 + i - 1]
    BY ONLY <2>2, SubSeqProperties
  <2> HIDE DEF id
  <2>4. id[1] = q[1] /\ id[2] = q[2] /\ Len(id) = 2
    BY <2>3
  <2>5. QED
    BY <2>3, <2>4 DEF Pairs
<1>3. flags \in Pairs(V) /\ flags[1] = 133 /\ flags[2] = 0
  BY DEF Pairs, Byte
<1>4. c \in Pairs(V)
  <2>1. c \in Pairs(Byte)
    BY NumberIsPair
  <2>2. QED
    BY <2>1 DEF Pairs
<1>5. zeros \in Seq(V) /\ Len(zeros) = 4 /\ zeros[1] = 0 /\ zeros[2] = 0 /\ zeros[3] = 0 /\ zeros[4] = 0
  BY DEF Byte
<1> HIDE DEF id, flags, c, d, zeros
<1>6. four \in Seq(V) /\ FourJoined(four, id, flags, c, d)
  <2>1. id \in Pairs(V) /\ flags \in Pairs(V) /\ c \in Pairs(V) /\ d \in Pairs(V)
    BY <1>2, <1>3, <1>4 DEF d
  <2>2. QED
    BY ONLY <2>1, FourPairs
<1> HIDE DEF four
<1>7. /\ p \in Seq(V) /\ Len(p) = Len(four) + Len(zeros)
      /\ \A i \in 1..Len(four) : p[i] = four[i]
      /\ \A i \in 1..Len(zeros) : p[Len(four) + i] = zeros[i]
  <2>1. four \in Seq(V) /\ zeros \in Seq(V)
    BY <1>5, <1>6
  <2>2. QED
    BY ONLY <2>1, ConcatBytes
<1> HIDE DEF p
<1>8. Len(four) = 8 /\ Len(p) = 12
  BY <1>5, <1>6, <1>7 DEF FourJoined
<1>9. p[9] = 0 /\ p[10] = 0 /\ p[11] = 0 /\ p[12] = 0
  BY <1>5, <1>7, <1>8
<1>10. \A i \in 1..8 : p[i] = four[i]
  BY <1>7, <1>8
<1>11. /\ p[1] = id[1] /\ p[2] = id[2] /\ p[3] = flags[1] /\ p[4] = flags[2]
       /\ p[5] = c[1] /\ p[6] = c[2] /\ p[7] = d[1] /\ p[8] = d[2]
  BY <1>6, <1>10 DEF FourJoined
<1>12. HeaderIs(p, q, n, m)
  BY <1>2, <1>3, <1>9, <1>11 DEF HeaderIs, c, d
<1>13. QED
  BY <1>1, <1>7, <1>8, <1>12 DEF Header

\* A whole response: its header, the questions and the answers.
ResponseIs(p, q, qs, rs, off, ends) ==
    /\ Len(p) = Header + off[Len(qs)] + ends[Len(rs)]
    /\ HeaderIs(p, q, Len(qs), Len(rs))
    /\ \A i \in 1..Len(qs) : \A d \in 1..Len(WrittenQuestion(qs[i])) :
         p[Header + off[i - 1] + d] = WrittenQuestion(qs[i])[d]
    /\ \A i \in 1..Len(rs) : \A d \in 1..Len(WrittenAnswer(rs[i])) :
         p[Header + off[Len(qs)] + ends[i - 1] + d] = WrittenAnswer(rs[i])[d]

LEMMA SeqOfMore ==
    ASSUME NEW V, NEW S, S \subseteq V, NEW ss \in Seq(Seq(S))
    PROVE  ss \in Seq(Seq(V))
<1>1. ASSUME NEW i \in 1..Len(ss) PROVE ss[i] \in Seq(V)
  <2>1. ss[i] \in Seq(S)
    BY ElementOfSeq
  <2>2. QED
    BY <2>1
<1>2. QED
  BY <1>1

\* buildResponsePacket writes what ResponseIs says, for any number of answers
\* that its two bytes hold.
LEMMA ResponseWritten ==
    ASSUME NEW V, Byte \subseteq V, NEW q \in Seq(Byte), Len(q) >= Header,
           NEW qs \in Seq(PlainQuestions), Len(qs) \in U16Values, NEW off, Sums(off, WrittenQuestions(qs)),
           NEW rs, Sendable(rs) \in Seq(AnswerRecords), NEW ends, Sums(ends, WrittenAnswers(Sendable(rs))),
           Bytes16(Len(Sendable(rs))) \in Pairs(V)
    PROVE  /\ ResponsePacket(q, qs, rs) \in Seq(V)
           /\ ResponseIs(ResponsePacket(q, qs, rs), q, qs, Sendable(rs), off, ends)
<1> DEFINE S == Sendable(rs)
           h == ResponseHeader(q, Len(qs), Len(S))
           fq == FlattenSeq(WrittenQuestions(qs))
           fa == FlattenSeq(WrittenAnswers(S))
           hq == h \o fq
           p == hq \o fa
           a == off[Len(qs)]
           c == ends[Len(S)]
<1>1. ResponsePacket(q, qs, rs) = p
  BY DEF ResponsePacket, ResponseHeader, WrittenQuestions, WrittenAnswers
<1>2. S \in Seq(AnswerRecords) /\ Len(S) \in Nat /\ Len(qs) \in Nat
  OBVIOUS
<1>3. h \in Seq(V) /\ Len(h) = Header /\ HeaderIs(h, q, Len(qs), Len(S))
  <2> HIDE DEF S
  <2>1. Bytes16(Len(S)) \in Pairs(V)
    BY DEF S
  <2>2. QED
    BY <1>2, <2>1, HeaderWritten
<1>4. /\ WrittenQuestions(qs) \in Seq(Seq(V)) /\ Len(WrittenQuestions(qs)) = Len(qs)
      /\ \A i \in 1..Len(qs) : WrittenQuestions(qs)[i] = WrittenQuestion(qs[i])
  BY QuestionsWritten, SeqOfMore
<1>5. /\ WrittenAnswers(S) \in Seq(Seq(V)) /\ Len(WrittenAnswers(S)) = Len(S)
      /\ \A i \in 1..Len(S) : WrittenAnswers(S)[i] = WrittenAnswer(S[i])
  <2> HIDE DEF S
  <2>1. QED
    BY <1>2, AnswersWritten, SeqOfMore
<1>6. fq \in Seq(V) /\ Joined(fq, off, WrittenQuestions(qs))
  BY <1>4, FlattenJoins
<1>7. fa \in Seq(V) /\ Joined(fa, ends, WrittenAnswers(S))
  BY <1>5, FlattenJoins
<1> HIDE DEF S, h, fq, fa
<1>8. /\ Len(fq) = a /\ a \in Nat
      /\ \A i \in 1..Len(qs) : \A d \in 1..Len(WrittenQuestion(qs[i])) :
           fq[off[i - 1] + d] = WrittenQuestion(qs[i])[d]
  BY <1>4, <1>6 DEF Joined
<1>9. /\ Len(fa) = c /\ c \in Nat
      /\ \A i \in 1..Len(S) : \A d \in 1..Len(WrittenAnswer(S[i])) :
           fa[ends[i - 1] + d] = WrittenAnswer(S[i])[d]
  BY <1>5, <1>7 DEF Joined
<1> HIDE DEF a, c
<1>10. /\ hq \in Seq(V) /\ Len(hq) = Header + a
       /\ \A i \in 1..Header : hq[i] = h[i]
       /\ \A i \in 1..a : hq[Header + i] = fq[i]
  <2>1. h \in Seq(V) /\ fq \in Seq(V)
    BY <1>3, <1>6
  <2>2. /\ hq \in Seq(V) /\ Len(hq) = Len(h) + Len(fq)
        /\ \A i \in 1..Len(h) : hq[i] = h[i]
        /\ \A i \in 1..Len(fq) : hq[Len(h) + i] = fq[i]
    BY ONLY <2>1, ConcatBytes
  <2>3. Len(h) = Header /\ Len(fq) = a
    BY <1>3, <1>8
  <2> HIDE DEF hq
  <2>4. QED
    BY <2>2, <2>3
<1> HIDE DEF hq
<1>11. /\ p \in Seq(V) /\ Len(p) = (Header + a) + c
       /\ \A i \in 1..(Header + a) : p[i] = hq[i]
       /\ \A i \in 1..c : p[(Header + a) + i] = fa[i]
  <2>1. hq \in Seq(V) /\ fa \in Seq(V)
    BY <1>10, <1>7
  <2>2. /\ p \in Seq(V) /\ Len(p) = Len(hq) + Len(fa)
        /\ \A i \in 1..Len(hq) : p[i] = hq[i]
        /\ \A i \in 1..Len(fa) : p[Len(hq) + i] = fa[i]
    BY ONLY <2>1, ConcatBytes
  <2>3. Len(hq) = Header + a /\ Len(fa) = c
    BY <1>9, <1>10
  <2> HIDE DEF p
  <2>4. QED
    BY <2>2, <2>3
<1> HIDE DEF p
<1>12. HeaderIs(p, q, Len(qs), Len(S))
  <2>1. \A i \in 1..12 : p[i] = h[i]
    <3>1. ASSUME NEW i \in 1..12 PROVE p[i] = h[i]
      <4>1. i \in 1..Header /\ i \in 1..(Header + a)
        BY <1>8 DEF Header
      <4>2. QED
        BY <1>10, <1>11, <4>1
    <3>2. QED
      BY <3>1
  <2>2. /\ p[1] = h[1] /\ p[2] = h[2] /\ p[3] = h[3] /\ p[4] = h[4] /\ p[5] = h[5] /\ p[6] = h[6]
        /\ p[7] = h[7] /\ p[8] = h[8] /\ p[9] = h[9] /\ p[10] = h[10] /\ p[11] = h[11] /\ p[12] = h[12]
    BY <2>1
  <2>3. QED
    BY <1>3, <2>2 DEF HeaderIs
<1>13. ASSUME NEW i \in 1..Len(qs), NEW d \in 1..Len(WrittenQuestion(qs[i]))
       PROVE  p[Header + off[i - 1] + d] = WrittenQuestion(qs[i])[d]
  <2>1. fq[off[i - 1] + d] = WrittenQuestion(qs[i])[d]
    BY <1>8
  <2>2. off[i - 1] \in Nat /\ off[i - 1] + d \in 1..a
    <3>1. i \in 1..Len(WrittenQuestions(qs)) /\ WrittenQuestions(qs)[i] = WrittenQuestion(qs[i])
      BY <1>4
    <3>2. off[i - 1] \in Nat /\ off[i] = off[i - 1] + Len(WrittenQuestion(qs[i])) /\ Len(WrittenQuestion(qs[i])) \in Nat
          /\ i \in 0..Len(WrittenQuestions(qs)) /\ off[i] \in Nat
      BY <1>4, <3>1, SumsStep
    <3>3. off[i] <= a
      <4>1. Len(qs) \in i..Len(WrittenQuestions(qs))
        BY <1>2, <1>4
      <4>2. QED
        BY <1>4, <3>2, <4>1, SumsGrow DEF a
    <3> DEFINE l == Len(WrittenQuestion(qs[i]))
               o == off[i - 1]
    <3>4. o \in Nat /\ l \in Nat /\ d \in 1..l /\ off[i] = o + l
      BY <3>2
    <3> HIDE DEF o, l
    <3>5. o + d \in 1..a
      BY <1>8, <3>2, <3>3, <3>4
    <3>6. QED
      BY <3>4, <3>5 DEF o
  <2> DEFINE x == off[i - 1] + d
  <2>3. x \in 1..a /\ x \in Nat /\ Header + off[i - 1] + d = Header + x
    BY <2>2 DEF Header
  <2> HIDE DEF x
  <2>4. Header + x \in 1..(Header + a)
    BY <1>8, <2>3 DEF Header
  <2>5. p[Header + x] = hq[Header + x] /\ hq[Header + x] = fq[x]
    BY <1>10, <1>11, <2>3, <2>4
  <2>6. QED
    BY <2>1, <2>3, <2>5 DEF x
<1>14. ASSUME NEW i \in 1..Len(S), NEW d \in 1..Len(WrittenAnswer(S[i]))
       PROVE  p[Header + a + ends[i - 1] + d] = WrittenAnswer(S[i])[d]
  <2>1. fa[ends[i - 1] + d] = WrittenAnswer(S[i])[d]
    BY <1>9
  <2>2. ends[i - 1] \in Nat /\ ends[i - 1] + d \in 1..c
    <3>1. i \in 1..Len(WrittenAnswers(S)) /\ WrittenAnswers(S)[i] = WrittenAnswer(S[i])
          /\ Sums(ends, WrittenAnswers(S))
      BY <1>5 DEF S
    <3>2. ends[i - 1] \in Nat /\ ends[i] = ends[i - 1] + Len(WrittenAnswer(S[i])) /\ Len(WrittenAnswer(S[i])) \in Nat
          /\ i \in 0..Len(WrittenAnswers(S)) /\ ends[i] \in Nat
      BY <1>5, <3>1, SumsStep
    <3>3. ends[i] <= c
      <4>1. Len(S) \in i..Len(WrittenAnswers(S))
        BY <1>2, <1>5
      <4>2. QED
        BY <1>5, <3>1, <3>2, <4>1, SumsGrow DEF c
    <3> DEFINE l == Len(WrittenAnswer(S[i]))
               o == ends[i - 1]
    <3>4. o \in Nat /\ l \in Nat /\ d \in 1..l /\ ends[i] = o + l
      BY <3>2
    <3> HIDE DEF o, l
    <3>5. o + d \in 1..c
      BY <1>9, <3>2, <3>3, <3>4
    <3>6. QED
      BY <3>4, <3>5 DEF o
  <2> DEFINE x == ends[i - 1] + d
  <2>3. x \in 1..c /\ Header + a + ends[i - 1] + d = (Header + a) + x
    BY <1>8, <2>2 DEF Header
  <2> HIDE DEF x
  <2>4. p[(Header + a) + x] = fa[x]
    BY <1>11, <2>3
  <2>5. QED
    BY <2>1, <2>3, <2>4 DEF x
<1>15. QED
  BY <1>1, <1>11, <1>12, <1>13, <1>14 DEF ResponseIs, S, a, c

-----------------------------------------------------------------------------
(* What the buffer of the encoder keeps of a response.                      *)

\* The size of the buffer.
LEMMA CapacityIs == Capacity \in Nat /\ Header <= Capacity /\ Capacity <= 65535
  BY CapacityAssumption, SMTT(60) DEF Header

LEMMA SendableIs ==
    ASSUME NEW R, NEW rs \in Seq(R)
    PROVE  Sendable(rs) \in Seq(R)
<1> DEFINE ss == [i \in 1..Len(rs) |-> IF Len(rs[i].data) < 2 THEN <<>> ELSE <<rs[i]>>]
<1>1. DOMAIN rs = 1..Len(rs) /\ Len(rs) \in Nat
  OBVIOUS
<1>2. Sendable(rs) = FlattenSeq(ss)
  BY <1>1 DEF Sendable
<1>3. ASSUME NEW i \in 1..Len(rs) PROVE (IF Len(rs[i].data) < 2 THEN <<>> ELSE <<rs[i]>>) \in Seq(R)
  <2>1. rs[i] \in R
    BY ElementOfSeq
  <2>2. QED
    BY <2>1
<1>4. ss \in Seq(Seq(R))
  BY <1>1, <1>3
<1> HIDE DEF ss
<1>5. PICK off : Sums(off, ss)
  BY <1>4, SumsExist
<1>6. QED
  BY <1>2, <1>4, <1>5, FlattenJoins

\* Sequences that are not empty end at their number at least.
LEMMA SumsCount ==
    ASSUME NEW S, NEW ss \in Seq(Seq(S)), NEW off, Sums(off, ss), \A i \in 1..Len(ss) : Len(ss[i]) >= 1,
           NEW k \in 0..Len(ss)
    PROVE  off[k] \in Nat /\ k <= off[k]
<1> DEFINE N == Len(ss)
           Bad == {m \in 0..N : ~(m <= off[m])}
<1>1. N \in Nat /\ off \in [0..N -> Nat] /\ off[0] = 0
  BY DEF Sums
<1>2. ASSUME NEW m \in Bad PROVE \E n \in Bad : n < m
  <2>1. m # 0
    BY <1>1
  <2>2. m \in 1..N /\ m - 1 \in 0..N /\ m - 1 < m /\ m \in Nat
    BY <1>1, <2>1
  <2>3. off[m] = off[m - 1] + Len(ss[m]) /\ Len(ss[m]) >= 1 /\ off[m - 1] \in Nat /\ Len(ss[m]) \in Nat
    BY <2>2, SumsStep
  <2>4. ~(m - 1 <= off[m - 1])
    BY <2>2, <2>3
  <2>5. QED
    BY <2>2, <2>4
<1>3. Bad \subseteq Nat
  OBVIOUS
<1>4. Bad = {}
  <2> HIDE DEF Bad
  <2> QED
    BY <1>2, <1>3, NoLeast
<1>5. QED
  BY <1>1, <1>4

\* How much of a packet is kept.
CutLen(p) == IF Len(p) <= Capacity THEN Len(p) ELSE Capacity

\* The response to a query, as far as the encoder's buffer reaches.
ResponseTo(b, q, qs, rs) ==
    /\ q \in Seq(Byte) /\ Len(q) >= Header
    /\ Len(ResponsePacket(q, qs, rs)) - LastData(rs) <= Capacity
    /\ b = SubSeq(ResponsePacket(q, qs, rs), 1, CutLen(ResponsePacket(q, qs, rs)))

\* What is in it.
Shape(b, p, q, qs, rs, off, ends) ==
    /\ Sums(off, WrittenQuestions(qs)) /\ off[Len(qs)] \in Nat
    /\ Sums(ends, WrittenAnswers(rs))
    /\ rs \in Seq(AnswerRecords) /\ Len(rs) \in U16Values /\ Len(rs) \in Nat
    /\ p \in Seq(Byte) /\ ResponseIs(p, q, qs, rs, off, ends)
    /\ b \in Seq(Byte) /\ Len(b) \in Nat /\ Len(b) <= Len(p) /\ Header + off[Len(qs)] <= Len(b)
    /\ Len(rs) # 0 => Header + off[Len(qs)] + ends[Len(rs) - 1] + 12 <= Len(b)
    /\ \A i \in 1..Len(b) : b[i] = p[i]

\* Only the data of the last answer may be cut.
LEMMA ShapeExists ==
    ASSUME NEW b, NEW q, NEW qs \in Seq(PlainQuestions), Len(qs) \in U16Values, NEW rs \in AnswerLists,
           ResponseTo(b, q, qs, rs)
    PROVE  \E off, ends : Shape(b, ResponsePacket(q, qs, rs), q, qs, Sendable(rs), off, ends)
<1> DEFINE S == Sendable(rs)
           p == ResponsePacket(q, qs, rs)
           n == Len(qs)
           k == Len(S)
           last == LastData(rs)
           cut == CutLen(p)
<1>1. q \in Seq(Byte) /\ Len(q) >= Header /\ Len(p) - last <= Capacity /\ b = SubSeq(p, 1, cut)
  BY DEF ResponseTo
<1>2. S \in Seq(AnswerRecords) /\ k \in Nat /\ n \in Nat
  <2>1. rs \in Seq(AnswerRecords)
    BY AnswersAssumption DEF AnswerRecords
  <2>2. S \in Seq(AnswerRecords)
    BY <2>1, SendableIs
  <2> HIDE DEF S
  <2>3. QED
    BY <2>2
<1>3. /\ WrittenQuestions(qs) \in Seq(Seq(Byte)) /\ Len(WrittenQuestions(qs)) = n
      /\ WrittenAnswers(S) \in Seq(Seq(Byte)) /\ Len(WrittenAnswers(S)) = k
      /\ \A i \in 1..k : WrittenAnswers(S)[i] = WrittenAnswer(S[i]) /\ AnswerIs(WrittenAnswer(S[i]), S[i])
                         /\ S[i] \in AnswerRecords
  <2> HIDE DEF S
  <2>1. QED
    BY <1>2, QuestionsWritten, AnswersWritten
<1>4. PICK off : Sums(off, WrittenQuestions(qs))
  BY <1>3, SumsExist
<1>5. PICK ends : Sums(ends, WrittenAnswers(S))
  <2> HIDE DEF S
  <2>1. QED
    BY <1>3, SumsExist
<1>6. off[n] \in Nat
  <2>1. n \in 0..Len(WrittenQuestions(qs))
    BY <1>2, <1>3
  <2>2. QED
    BY <1>4, <2>1 DEF Sums
<1>7. p \in Seq(Nat) /\ Len(p) = Header + off[n] + ends[k] /\ ends[k] \in Nat
  <2>1. Bytes16(k) \in Pairs(Nat)
    <3> HIDE DEF k
    <3>1. k \div 256 \in Nat /\ k % 256 \in Nat
      BY <1>2
    <3> DEFINE h == k \div 256
               l == k % 256
    <3>2. Bytes16(k) = <<h, l>>
      BY DEF Bytes16
    <3> HIDE DEF h, l
    <3>3. <<h, l>> \in Pairs(Nat)
      BY <3>1 DEF Pairs, h, l
    <3>4. QED
      BY <3>2, <3>3
  <2>2. Byte \subseteq Nat
    BY DEF Byte
  <2>3. p \in Seq(Nat) /\ ResponseIs(p, q, qs, S, off, ends)
    BY <1>1, <1>2, <1>4, <1>5, <2>1, <2>2, ResponseWritten
  <2>4. ends[k] \in Nat
    <3> HIDE DEF S
    <3>1. k \in 0..Len(WrittenAnswers(S))
      BY <1>2, <1>3
    <3>2. QED
      BY <1>5, <3>1 DEF Sums
  <2>5. QED
    BY <2>3, <2>4 DEF ResponseIs
<1>8. CASE k = 0
  <2>1. S = <<>> /\ last = 0
    <3>1. S = <<>>
      BY <1>2, <1>8
    <3>2. QED
      BY <3>1 DEF LastData
  <2> HIDE DEF S, last
  <2>2. Len(p) <= Capacity /\ cut = Len(p)
    <3> HIDE DEF p
    <3>1. Len(p) \in Nat
      BY <1>7
    <3>2. QED
      BY <1>1, <2>1, <3>1 DEF CutLen
  <2>3. b = p
    <3> HIDE DEF p
    <3>1. QED
      BY <1>1, <1>7, <2>2, SubSeqFull
  <2>4. ends[0] = 0
    BY <1>5 DEF Sums
  <2>5. Len(S) \in U16Values
    BY <1>8, U16Range
  <2>6. p \in Seq(Byte) /\ ResponseIs(p, q, qs, S, off, ends)
    <3>1. Bytes16(Len(S)) \in Pairs(Byte)
      BY <2>5, NumberIsPair
    <3>2. QED
      BY <1>1, <1>2, <1>4, <1>5, <3>1, ResponseWritten DEF S
  <2> HIDE DEF p
  <2>7. Len(b) \in Nat /\ Header + off[n] <= Len(b) /\ Len(b) <= Len(p)
    BY <1>6, <1>7, <1>8, <2>3, <2>4 DEF Header
  <2>8. Shape(b, p, q, qs, S, off, ends)
    BY <1>2, <1>4, <1>5, <1>6, <1>8, <2>3, <2>5, <2>6, <2>7 DEF Shape
  <2>9. QED
    BY <2>8 DEF p, S
<1>9. CASE k # 0
  <2> DEFINE l == Len(S[k].data)
             upTo == ends[k - 1]
  <2>1. k \in 1..k /\ S[k] \in AnswerRecords /\ l \in Nat
    <3>1. k \in 1..k
      BY <1>2, <1>9
    <3>2. S[k] \in AnswerRecords
      BY <1>3, <3>1
    <3>3. QED
      BY <3>1, <3>2, RecordIs
  <2>2. last = l
    <3>1. S # <<>>
      BY <1>9
    <3>2. QED
      BY <3>1 DEF LastData
  <2>3. upTo \in Nat /\ ends[k] = upTo + (12 + l)
    <3> HIDE DEF S
    <3>1. WrittenAnswers(S)[k] = WrittenAnswer(S[k]) /\ AnswerIs(WrittenAnswer(S[k]), S[k])
      BY <1>3, <2>1
    <3>2. Len(WrittenAnswers(S)[k]) = 12 + l
      BY <3>1 DEF AnswerIs
    <3>3. k \in 1..Len(WrittenAnswers(S))
      BY <1>3, <2>1
    <3>4. QED
      BY <1>3, <1>5, <3>2, <3>3, SumsStep
  <2>4. k - 1 <= upTo
    <3> HIDE DEF S
    <3>1. \A i \in 1..Len(WrittenAnswers(S)) : Len(WrittenAnswers(S)[i]) >= 1
      <4>1. ASSUME NEW i \in 1..k PROVE Len(WrittenAnswer(S[i])) >= 1
        <5>1. Len(WrittenAnswer(S[i])) = 12 + Len(S[i].data) /\ S[i] \in AnswerRecords
          BY <1>3 DEF AnswerIs
        <5>2. Len(S[i].data) \in Nat
          BY <5>1, RecordIs
        <5>3. QED
          BY <5>1, <5>2
      <4>2. QED
        BY <1>3, <4>1
    <3>2. k - 1 \in 0..Len(WrittenAnswers(S))
      BY <1>2, <1>3, <1>9
    <3>3. QED
      BY <1>3, <1>5, <3>1, <3>2, SumsCount
  <2> HIDE DEF k, l, upTo, last, p, cut, S
  <2>5. Header + off[n] + upTo + 12 <= Capacity /\ Len(p) \in Nat /\ Len(p) = Header + off[n] + upTo + 12 + l
    <3>1. Len(p) \in Nat
      BY <1>7
    <3>2. Len(p) - l <= Capacity
      BY <1>1, <2>2
    <3>3. Len(p) = Header + off[n] + (upTo + (12 + l))
      BY <1>7, <2>3
    <3>4. off[n] \in Nat /\ upTo \in Nat /\ l \in Nat /\ Capacity \in Nat
      BY <1>6, <2>1, <2>3, CapacityIs
    <3> DEFINE o == off[n]
    <3> HIDE DEF o
    <3>5. Len(p) = Header + o + (upTo + (12 + l)) /\ o \in Nat
      BY <3>3, <3>4 DEF o
    <3>6. Header + o + upTo + 12 <= Capacity /\ Len(p) = Header + o + upTo + 12 + l
      BY <3>1, <3>2, <3>4, <3>5 DEF Header
    <3>7. QED
      BY <3>1, <3>6 DEF o
  <2>6. k \in U16Values
    <3>1. k <= 65535
      BY <1>2, <1>6, <2>3, <2>4, <2>5, CapacityIs DEF Header
    <3>2. QED
      BY <1>2, <3>1, U16Range
  <2>7. p \in Seq(Byte) /\ ResponseIs(p, q, qs, S, off, ends)
    <3>1. Bytes16(Len(S)) \in Pairs(Byte)
      BY <2>6, NumberIsPair DEF k
    <3>2. QED
      BY <1>1, <1>2, <1>4, <1>5, <3>1, ResponseWritten DEF S, p
  <2>8. cut \in Nat /\ cut <= Len(p) /\ Header + off[n] + upTo + 12 <= cut
    <3>1. cut = IF Len(p) <= Capacity THEN Len(p) ELSE Capacity
      BY DEF cut, CutLen
    <3>2. Header + off[n] + upTo + 12 <= Len(p)
      BY <1>6, <2>1, <2>3, <2>5 DEF Header
    <3>3. QED
      BY <2>5, <3>1, <3>2, CapacityIs
  <2>9. b \in Seq(Byte) /\ Len(b) = cut /\ \A i \in 1..cut : b[i] = p[i]
    <3>1. \A i \in 1..cut : p[i] \in Byte
      BY <2>7, <2>8
    <3>2. 1 \in Int /\ cut \in Int
      BY <2>8
    <3>3. /\ SubSeq(p, 1, cut) \in Seq(Byte) /\ Len(SubSeq(p, 1, cut)) = IF 1 <= cut THEN cut - 1 + 1 ELSE 0
          /\ \A i \in 1..(cut - 1 + 1) : SubSeq(p, 1, cut)[i] = p[1 + i - 1]
      BY ONLY <3>1, <3>2, SubSeqProperties
    <3>4. b = SubSeq(p, 1, cut)
      BY <1>1 DEF cut
    <3>5. QED
      BY <2>8, <3>3, <3>4
  <2>10. Header + off[n] <= Len(b) /\ Header + off[n] + ends[k - 1] + 12 <= Len(b)
    BY <1>6, <2>3, <2>8, <2>9 DEF upTo, Header
  <2>11. Shape(b, p, q, qs, S, off, ends)
    BY <1>2, <1>4, <1>5, <1>6, <2>6, <2>7, <2>8, <2>9, <2>10 DEF Shape, k
  <2>12. QED
    BY <2>11 DEF p, S
<1>10. QED
  BY <1>8, <1>9

\* A response holds the questions it was written with.
LEMMA ShapeIsLaid ==
    ASSUME NEW qs \in Seq(PlainQuestions), Len(qs) \in U16Values,
           NEW b, NEW p, NEW q, NEW rs, NEW off, NEW ends, Shape(b, p, q, qs, rs, off, ends)
    PROVE  Laid(b, qs, off)
<1> DEFINE n == Len(qs)
           a == off[n]
<1>1. /\ Sums(off, WrittenQuestions(qs)) /\ a \in Nat /\ ResponseIs(p, q, qs, rs, off, ends)
      /\ b \in Seq(Byte) /\ Len(b) \in Nat /\ Header + a <= Len(b)
      /\ \A i \in 1..Len(b) : b[i] = p[i]
  BY DEF Shape
<1>2. U16(b, 4) = n
  <2>1. 5 \in 1..Len(b) /\ 6 \in 1..Len(b)
    BY <1>1 DEF Header
  <2>2. b[5] = Bytes16(n)[1] /\ b[6] = Bytes16(n)[2]
    BY <1>1, <2>1 DEF ResponseIs, HeaderIs
  <2>3. U16(b, 4) = b[5] * 256 + b[6]
    BY DEF U16, At
  <2>4. Bytes16(n)[1] * 256 + Bytes16(n)[2] = n
    BY NumberWritten
  <2>5. QED
    BY <2>2, <2>3, <2>4
<1>3. ASSUME NEW i \in 1..n, NEW d \in 1..Len(WrittenQuestion(qs[i]))
      PROVE  b[Header + off[i - 1] + d] = WrittenQuestion(qs[i])[d]
  <2>1. p[Header + off[i - 1] + d] = WrittenQuestion(qs[i])[d]
    BY <1>1 DEF ResponseIs
  <2>2. /\ WrittenQuestions(qs) \in Seq(Seq(Byte)) /\ Len(WrittenQuestions(qs)) = n
        /\ WrittenQuestions(qs)[i] = WrittenQuestion(qs[i])
    BY QuestionsWritten
  <2> DEFINE l == Len(WrittenQuestion(qs[i]))
             o == off[i - 1]
  <2>3. o \in Nat /\ off[i] = o + l /\ l \in Nat /\ off[i] \in Nat /\ i \in 0..Len(WrittenQuestions(qs))
    BY <1>1, <2>2, SumsStep
  <2>4. off[i] <= a
    <3>1. n \in i..Len(WrittenQuestions(qs))
      BY <2>2
    <3>2. QED
      BY <1>1, <2>2, <2>3, <3>1, SumsGrow
  <2> HIDE DEF l, o, a
  <2>5. d \in 1..l
    BY DEF l
  <2>6. Header + o + d \in 1..Len(b)
    <3>1. o + d <= a /\ d >= 1 /\ d \in Nat
      BY <1>1, <2>3, <2>4, <2>5
    <3>2. Header + a <= Len(b) /\ a \in Nat /\ Len(b) \in Nat
      BY <1>1
    <3>3. QED
      BY <2>3, <3>1, <3>2 DEF Header
  <2>7. b[Header + o + d] = p[Header + o + d]
    BY <1>1, <2>6
  <2>8. QED
    BY <2>1, <2>7 DEF o
<1>4. QED
  BY <1>1, <1>2, <1>3 DEF Laid

\* Questions of plain names, and what they are in lower case.
LEMMA PlainAre ==
    ASSUME NEW qs \in Seq(QuestionsRead), Plain(qs)
    PROVE  qs \in Seq(PlainQuestions)
<1>1. ASSUME NEW i \in 1..Len(qs) PROVE qs[i] \in PlainQuestions
  <2> DEFINE q == qs[i]
             n == q.name
  <2>1. q \in QuestionsRead
    BY ElementOfSeq
  <2>2. n \in Seq(LabelsRead) /\ q.type \in U16Values /\ q = [name |-> q.name, type |-> q.type]
    BY <2>1 DEF QuestionsRead
  <2>3. ASSUME NEW j \in 1..Len(n) PROVE n[j] \in PlainLabels
    <3>1. n[j] \in LabelsRead
      BY <2>2, ElementOfSeq
    <3>2. DOMAIN n[j] = 1..Len(n[j])
      BY <3>1 DEF LabelsRead
    <3>3. i \in DOMAIN qs /\ j \in DOMAIN qs[i].name
      <4>1. DOMAIN n = 1..Len(n) /\ DOMAIN qs = 1..Len(qs)
        BY <2>2
      <4>2. QED
        BY <4>1
    <3>4. \A d \in 1..Len(n[j]) : n[j][d] # 46 /\ n[j][d] <= 127
      BY <3>2, <3>3 DEF Plain
    <3>5. QED
      BY <3>1, <3>4 DEF PlainLabels
  <2>4. n \in Seq(PlainLabels)
    <3> HIDE DEF n
    <3>1. QED
      BY <2>2, <2>3
  <2>5. QED
    BY <2>2, <2>4 DEF PlainQuestions
<1>2. QED
  BY <1>1

\* Both ways to say that names are in lower case.
LEMMA FoldedIs ==
    ASSUME NEW qs \in Seq(QuestionsRead)
    PROVE  Folded(qs) = LoweredQuestions(qs)
<1> DEFINE FoldedName(n) == [j \in DOMAIN n |-> [k \in DOMAIN n[j] |-> LowerByte(n[j][k])]]
<1>1. Folded(qs) = [i \in DOMAIN qs |-> [qs[i] EXCEPT !.name = FoldedName(qs[i].name)]]
  BY DEF Folded
<1>2. \A n : FoldedName(n) = LoweredName(n)
  BY DEF LoweredName, Lowered
<1> HIDE DEF FoldedName
<1>3. ASSUME NEW i \in DOMAIN qs
      PROVE  [qs[i] EXCEPT !.name = FoldedName(qs[i].name)] = [name |-> LoweredName(qs[i].name), type |-> qs[i].type]
  <2>1. qs[i] \in QuestionsRead
    BY ElementOfSeq
  <2>2. ASSUME NEW r \in QuestionsRead, NEW v PROVE [r EXCEPT !.name = v] = [name |-> v, type |-> r.type]
    <3>1. DOMAIN [r EXCEPT !.name = v] = {"name", "type"} /\ [r EXCEPT !.name = v].name = v
          /\ [r EXCEPT !.name = v].type = r.type
      BY DEF QuestionsRead
    <3>2. ASSUME NEW f \in [name : {v}, type : U16Values] PROVE f = [name |-> f.name, type |-> f.type] /\ f.name = v
      OBVIOUS
    <3>3. [r EXCEPT !.name = v] \in [name : {v}, type : U16Values]
      BY DEF QuestionsRead
    <3>4. QED
      BY <3>1, <3>2, <3>3
  <2>3. QED
    BY <1>2, <2>1, <2>2
<1>4. QED
  BY <1>1, <1>3 DEF LoweredQuestions

-----------------------------------------------------------------------------
(* The response is read back.                                               *)

\* A response that is what was written of the questions of a query.
Answered ==
    /\ asked \in Seq(QuestionsRead) /\ Len(asked) \in U16Values /\ answers \in AnswerLists
    /\ \E q : ResponseTo(buf, q, asked, answers)

\* The client follows what was written, if the names are plain.
ResponseRead ==
    asked \in Seq(PlainQuestions) => \E off : ResponseFollows(asked, off)

\* A query gives questions, and a response is read as it was written.
ResponseInv ==
    /\ role = "query" => QueryTyped
    /\ role = "response" /\ status # "thrown" => Answered /\ ResponseRead

LEMMA ResponseBegins ==
    ASSUME NEW qs \in Seq(PlainQuestions), Len(qs) \in U16Values, NEW off, Laid(buf', qs, off), Begin(buf')
    PROVE  ResponseFollows(qs, off)'
<1> DEFINE N == Len(qs)
<1>1. /\ Sums(off, WrittenQuestions(qs)) /\ U16(buf', 4) = N /\ buf' \in Seq(Byte)
  BY DEF Laid
<1>2. /\ status' = IF N = 0 THEN "read" ELSE "reading"
      /\ left' = N /\ pos' = Header /\ jumps' = 0 /\ saved' = NoOffset /\ labels' = <<>>
      /\ questions' = <<>> /\ regular'
  BY <1>1 DEF Begin
<1>3. off[0] = 0 /\ N \in Nat /\ 0 \in 0..N
  BY <1>1 DEF Sums
<1>4. \A s : SubSeq(s, 1, 0) = <<>>
  BY SubSeqEmpty
<1>5. CASE N = 0
  <2>1. ReadUpTo(qs, off, 0, off, 0)'
    BY <1>2, <1>3, <1>4, <1>5 DEF ReadUpTo
  <2>2. QED
    BY <2>1 DEF ResponseFollows
<1>6. CASE N # 0
  <2>1. 1 \in 1..Len(qs) /\ 0 + 1 = 1
    BY <1>3, <1>6
  <2>2. qs[1].name \in Seq(PlainLabels)
    BY <2>1, NextName
  <2>3. PICK inner : Sums(inner, WrittenLabels(qs[1].name)) /\ inner[0] = 0
    BY <2>1, NextName
  <2>4. 0 \in 0..Len(qs[1].name)
    <3> DEFINE name == qs[1].name
    <3> HIDE DEF name
    <3>1. Len(name) \in Nat
      BY <2>2 DEF name
    <3>2. QED
      BY <3>1 DEF name
  <2>5. pos' = Header + off[0] + inner[0]
    BY <1>2, <1>3, <2>3 DEF Header
  <2>6. ReadUpTo(qs, off, 0, inner, 0)'
    BY <1>2, <1>3, <1>4, <1>6, <2>1, <2>3, <2>4, <2>5 DEF ReadUpTo
  <2>7. QED
    BY <2>6 DEF ResponseFollows
<1>7. QED
  BY <1>5, <1>6

\* The query is answered.
LEMMA ResponseIsRead ==
    ASSUME QueryTyped, NEW rs \in AnswerLists, RespondTo(rs), status' # "thrown"
    PROVE  (Answered /\ ResponseRead)'
<1> DEFINE p == ResponsePacket(buf, questions, rs)
<1>1. /\ buf \in Seq(Byte) /\ Len(buf) >= Header /\ questions \in Seq(QuestionsRead)
      /\ Len(questions) \in U16Values
  <2>1. Len(questions) \in Nat /\ left \in Nat /\ Len(questions) + left <= 65535 /\ questions \in Seq(QuestionsRead)
    BY DEF QueryTyped
  <2>2. Len(questions) <= 65535
    BY <2>1
  <2>3. Len(questions) \in U16Values
    BY <2>1, <2>2, U16Range
  <2>4. QED
    BY <2>1, <2>3 DEF QueryTyped, ReaderInv, ReaderTypeOK
<1>2. asked' = questions /\ answers' = rs
  BY DEF RespondTo
<1>3. Len(p) - LastData(rs) <= Capacity /\ Begin(SubSeq(p, 1, CutLen(p)))
  BY DEF RespondTo, Throw, CutLen
<1>4. PICK q : q = buf
  OBVIOUS
<1>5. buf' = SubSeq(p, 1, CutLen(p)) /\ Begin(buf')
  BY <1>3 DEF Begin
<1>6. ResponseTo(buf', q, asked', rs)
  BY <1>1, <1>2, <1>3, <1>4, <1>5 DEF ResponseTo
<1>7. Answered'
  BY <1>1, <1>2, <1>6 DEF Answered
<1>8. ASSUME questions \in Seq(PlainQuestions) PROVE \E off : ResponseFollows(asked, off)'
  <2>1. PICK qs : qs = questions
    OBVIOUS
  <2>2. qs \in Seq(PlainQuestions) /\ Len(qs) \in U16Values /\ ResponseTo(buf', q, qs, rs) /\ asked' = qs
    BY <1>1, <1>2, <1>6, <1>8, <2>1
  <2>3. PICK off, ends : Shape(buf', ResponsePacket(q, qs, rs), q, qs, Sendable(rs), off, ends)
    BY <2>2, ShapeExists
  <2>4. Laid(buf', qs, off)
    BY <2>2, <2>3, ShapeIsLaid
  <2>5. ResponseFollows(qs, off)'
    BY <1>5, <2>2, <2>4, ResponseBegins
  <2>6. QED
    BY <2>2, <2>5
<1>9. QED
  BY <1>2, <1>7, <1>8 DEF ResponseRead

\* The invariant holds at first, and each step keeps it.
LEMMA ResponseInit == WireInit => ResponseInv
<1> SUFFICES ASSUME WireInit PROVE ResponseInv
  OBVIOUS
<1>1. role = "query" /\ ReaderInit
  BY DEF WireInit
<1>2. buf \in Seq(Byte) /\ Len(buf) >= Header /\ Len(buf) \in Nat
  BY <1>1, PacketsAssumption DEF ReaderInit
<1>3. U16(buf, 4) \in U16Values
  <2>1. 4 + 1 < Len(buf)
    BY <1>2 DEF Header
  <2>2. QED
    BY <1>2, <2>1, NumberIsU16
<1>4. U16(buf, 4) \in Nat /\ U16(buf, 4) <= 65535
  <2>1. U16(buf, 4) \in Nat
    BY <1>3, U16IsNatural
  <2>2. QED
    BY <1>3, <2>1, U16Range
<1>5. ReaderInv
  BY <1>1, <1>2, <1>4, MaxJumpsAssumption DEF ReaderInit, ReaderInv, ReaderTypeOK, Header
<1>6. labels = <<>> /\ questions = <<>> /\ left = U16(buf, 4)
  BY <1>1 DEF ReaderInit
<1>7. QueryTyped
  BY <1>4, <1>5, <1>6 DEF QueryTyped
<1>8. QED
  BY <1>1, <1>7 DEF ResponseInv

LEMMA ResponseStep == ResponseInv /\ [WireNext]_wireVars => ResponseInv'
<1> SUFFICES ASSUME ResponseInv, [WireNext]_wireVars PROVE ResponseInv'
  OBVIOUS
<1> USE DEF ResponseInv
<1>1. CASE ReadOn /\ UNCHANGED <<role, asked, sound, answers>>
  <2>1. (role = "query" => QueryTyped)'
    BY <1>1, TypedReadOn
  <2>2. ASSUME role = "response" PROVE (Answered /\ ResponseRead)'
    <3>1. buf' = buf /\ status = "reading"
      <4>1. status = "reading"
        BY <1>1 DEF ReadOn, PastEnd, Root, BadPointer, Pointer, BadLabel, Label, Inside, Reading
      <4>2. QED
        BY <1>1, <4>1, ReadOnKeeps
    <3>2. Answered /\ ResponseRead
      BY <2>2, <3>1
    <3>3. Answered'
      BY <1>1, <3>1, <3>2 DEF Answered
    <3>4. ASSUME asked \in Seq(PlainQuestions) PROVE \E off : ResponseFollows(asked, off)'
      <4>1. PICK qs : qs = asked
        OBVIOUS
      <4>2. PICK off : ResponseFollows(qs, off)
        BY <3>2, <3>4, <4>1 DEF ResponseRead
      <4>3. ResponseFollows(qs, off)'
        BY <1>1, <4>2, ResponseReadsOn
      <4>4. qs = asked'
        BY <1>1, <4>1
      <4>5. QED
        BY <4>3, <4>4
    <3>5. QED
      BY <1>1, <3>3, <3>4 DEF ResponseRead
  <2>3. QED
    BY <1>1, <2>1, <2>2
<1>2. CASE Forward
  <2>1. role' = "forwarded"
    BY <1>2 DEF Forward
  <2>2. QED
    BY <2>1
<1>3. CASE \E rs \in AnswerLists : RespondTo(rs)
  <2>1. PICK rs \in AnswerLists : RespondTo(rs)
    BY <1>3
  <2>2. role' = "response" /\ QueryTyped
    BY <2>1 DEF RespondTo
  <2>3. status' # "thrown" => (Answered /\ ResponseRead)'
    BY <2>1, <2>2, ResponseIsRead
  <2>4. QED
    BY <2>2, <2>3
<1>4. CASE UNCHANGED wireVars
  <2>1. UNCHANGED <<buf, status, left, pos, jumps, saved, labels, questions, regular, role, asked, answers>>
    BY <1>4 DEF wireVars, readerVars
  <2>2. QueryTyped => QueryTyped'
    BY <2>1 DEF QueryTyped, ReaderInv, ReaderTypeOK
  <2>3. Answered => Answered'
    BY <2>1 DEF Answered
  <2>4. \A qs, off, k, inner, j : ReadUpTo(qs, off, k, inner, j) => ReadUpTo(qs, off, k, inner, j)'
    BY <2>1 DEF ReadUpTo
  <2>5. \A off : ResponseFollows(asked, off) => ResponseFollows(asked, off)'
    BY <2>1, <2>4 DEF ResponseFollows
  <2>6. ResponseRead => ResponseRead'
    BY <2>1, <2>5 DEF ResponseRead
  <2>7. QED
    BY <2>1, <2>2, <2>3, <2>6
<1>5. QED
  BY <1>1, <1>2, <1>3, <1>4 DEF WireNext

\* Every response, as long as it is read, is what was written from the questions
\* of its query, and the client has read of it what it asked.
THEOREM ResponseInvariant == WireSpec => []ResponseInv
  BY ResponseInit, ResponseStep, PTL DEF WireSpec

\* Whatever plain names a client asks for, it reads its questions back from the
\* response.
THEOREM ResponseRepeatsQuestions == WireSpec => []ResponsesReadBack
<1>1. ResponseInv => ResponsesReadBack
  <2> SUFFICES ASSUME ResponseInv, role = "response", status = "read", Plain(asked)
               PROVE  regular /\ questions = Folded(asked)
    BY DEF ResponsesReadBack
  <2>1. asked \in Seq(QuestionsRead) /\ ResponseRead
    BY DEF ResponseInv, Answered
  <2>2. asked \in Seq(PlainQuestions)
    BY <2>1, PlainAre
  <2>3. PICK off : ResponseFollows(asked, off)
    BY <2>1, <2>2 DEF ResponseRead
  <2>4. PICK k, inner, j : ReadUpTo(asked, off, k, inner, j)
    BY <2>3 DEF ResponseFollows
  <2>5. k = Len(asked) /\ regular /\ questions = SubSeq(LoweredQuestions(asked), 1, k)
    BY <2>4 DEF ReadUpTo
  <2>6. LoweredQuestions(asked) \in Seq(QuestionsRead) /\ Len(LoweredQuestions(asked)) = Len(asked)
    BY <2>2, LoweredQuestionsAre
  <2>7. SubSeq(LoweredQuestions(asked), 1, Len(asked)) = LoweredQuestions(asked)
    BY <2>6, SubSeqFull
  <2>8. QED
    BY <2>1, <2>5, <2>7, FoldedIs
<1>2. QED
  BY <1>1, ResponseInvariant, PTL

-----------------------------------------------------------------------------
(* The TTLs of a response in the cache.                                     *)

\* skipQuestionSection skips a question that was written.
LEMMA QuestionSkipped ==
    ASSUME NEW b, NEW qs, NEW off, NEW k, NEW inner, NextIsEnd(b, qs, off, k, inner)
    PROVE  Skipped(b, Header + off[k]) = Header + off[k + 1]
<1> DEFINE E == Len(b)
           Given == {p \in 0..E : p = E \/ At(b, p) = 0 \/ At(b, p) >= 192 \/ p + 1 + At(b, p) > E}
           base == [p \in 0..E |->
                      IF p = E THEN p
                      ELSE IF At(b, p) = 0 THEN p + 1
                      ELSE IF At(b, p) >= 192 THEN (IF p + 1 >= E THEN NoOffset ELSE p + 2)
                      ELSE NoOffset]
           next == [p \in 0..E |-> IF p \in Given THEN 0 ELSE p + 1 + At(b, p)]
           F == [p \in 0..E |-> [x \in Int |-> x]]
           Is(f) == f = [p \in 0..E |->
                      IF p = E THEN p
                      ELSE IF At(b, p) = 0 THEN p + 1
                      ELSE IF At(b, p) >= 192 THEN (IF p + 1 >= E THEN NoOffset ELSE p + 2)
                      ELSE IF p + 1 + At(b, p) > E THEN NoOffset
                      ELSE f[p + 1 + At(b, p)]]
           end == CHOOSE f : Is(f)
           q == qs[k + 1]
           N == Len(q.name)
           e == inner[N]
           start == Header + off[k]
<1>1. /\ Laid(b, qs, off) /\ k \in 0..(Len(qs) - 1) /\ Sums(inner, WrittenLabels(q.name))
      /\ b \in Seq(Byte) /\ E \in Nat
  BY DEF NextIsEnd, Laid
<1>2. EndThere(b, start, Header + off[k + 1], e, q)
  BY EndLaid
<1>3. \A p \in 0..E : p # E => At(b, p) \in 0..255
  <2>1. ASSUME NEW p \in 0..E, p # E PROVE At(b, p) \in 0..255
    <3>1. p \in Nat /\ p < Len(b)
      BY <1>1, <2>1
    <3>2. QED
      BY <1>1, <3>1, ByteIsByte DEF Byte
  <2>2. QED
    BY <2>1
<1>4. \A p \in 0..E : p \notin Given => next[p] = p + 1 + At(b, p) /\ next[p] \in (p + 1)..E
  <2>1. ASSUME NEW p \in 0..E, p \notin Given PROVE next[p] = p + 1 + At(b, p) /\ next[p] \in (p + 1)..E
    <3>1. p # E /\ At(b, p) # 0 /\ ~(p + 1 + At(b, p) > E) /\ next[p] = p + 1 + At(b, p)
      BY <2>1
    <3> DEFINE l == At(b, p)
    <3>2. l \in 0..255 /\ l # 0 /\ ~(p + 1 + l > E) /\ next[p] = p + 1 + l
      BY <1>3, <3>1
    <3> HIDE DEF l, E, next
    <3>3. next[p] \in (p + 1)..E
      BY <1>1, <3>2
    <3>4. QED
      BY <3>2, <3>3 DEF l
  <2>2. QED
    BY <2>1
<1>5. Given \in SUBSET (0..E) /\ next \in [0..E -> Nat]
  BY <1>1, <1>4
<1>6. base \in [0..E -> Int]
  BY <1>1 DEF NoOffset
<1>7. F \in [0..E -> [Int -> Int]]
  OBVIOUS
<1>8. PICK f \in [0..E -> Int] : IsTable(f, E, Given, base, next, F)
  <2>1. E \in Nat /\ \A p \in 0..E : p \notin Given => next[p] \in (p + 1)..E
    BY <1>1, <1>4
  <2> HIDE DEF E, Given, base, next, F
  <2> QED
    BY <2>1, <1>5, <1>6, <1>7, TableExists
<1>9. Is(f)
  <2>1. ASSUME NEW p \in 0..E
        PROVE  f[p] = IF p = E THEN p
                      ELSE IF At(b, p) = 0 THEN p + 1
                      ELSE IF At(b, p) >= 192 THEN (IF p + 1 >= E THEN NoOffset ELSE p + 2)
                      ELSE IF p + 1 + At(b, p) > E THEN NoOffset
                      ELSE f[p + 1 + At(b, p)]
    <3>1. CASE p \in Given
      <4>1. f[p] = base[p]
        BY <1>8, <3>1 DEF IsTable
      <4>2. QED
        BY <3>1, <4>1
    <3>2. CASE p \notin Given
      <4>1. next[p] = p + 1 + At(b, p) /\ next[p] \in 0..E
        BY <1>4, <3>2
      <4>2. f[p] = F[p][f[next[p]]]
        <5> HIDE DEF E, Given, base, next, F
        <5> QED
          BY <1>8, <3>2 DEF IsTable
      <4>3. f[next[p]] \in Int
        <5> HIDE DEF E, next
        <5> QED
          BY <1>8, <4>1
      <4>4. f[p] = f[next[p]]
        <5> HIDE DEF E, next
        <5> QED
          BY <4>2, <4>3
      <4>5. ~(p = E) /\ ~(At(b, p) = 0) /\ ~(At(b, p) >= 192) /\ ~(p + 1 + At(b, p) > E)
        BY <3>2
      <4>6. QED
        <5> HIDE DEF E, next
        <5> QED
          BY <4>1, <4>4, <4>5
    <3>3. QED
      BY <3>1, <3>2
  <2>2. QED
    <3> HIDE DEF E
    <3> QED
      BY <1>8, <2>1
<1>10. Is(end)
  <2> HIDE DEF Is
  <2> QED
    BY <1>9
<1>11. \A o : Skipped(b, o) = IF end[o] = NoOffset \/ end[o] + 4 > E THEN o ELSE end[o] + 4
  BY DEF Skipped
<1> HIDE DEF end, q, N, start, e, E
<1>12. /\ q \in PlainQuestions /\ start \in Nat /\ e \in Nat
       /\ Header + off[k + 1] = start + e + 5 /\ start + e + 5 <= E /\ At(b, start + e) = 0
  BY <1>2 DEF EndThere, E
<1>13. N \in Nat /\ q.name \in Seq(PlainLabels) /\ \A j \in 1..N : q.name[j] \in PlainLabels
  <2>1. q.name \in Seq(PlainLabels)
    BY <1>12 DEF PlainQuestions
  <2>2. \A j \in 1..N : q.name[j] \in PlainLabels
    BY <2>1, ElementOfSeq DEF N
  <2>3. QED
    BY <2>1, <2>2 DEF N
<1>14. ASSUME NEW j \in 0..(N - 1)
       PROVE  end[start + inner[j]] = end[start + inner[j + 1]]
  <2>1. NextIsLabel(b, qs, off, k, inner, j)
    BY <1>1 DEF NextIsLabel, q, N
  <2>2. LabelThere(b, start, inner, j, q.name[j + 1])
    BY <2>1, LabelLaid DEF start, q
  <2> DEFINE l == Len(q.name[j + 1])
             p == start + inner[j]
  <2>3. /\ inner[j] \in Nat /\ inner[j + 1] = inner[j] + 1 + l
        /\ start + inner[j + 1] <= E /\ At(b, p) = l
    BY <2>2 DEF LabelThere, E
  <2>4. l \in 1..63
    <3>1. j + 1 \in 1..N
      BY <1>13
    <3>2. QED
      BY <1>13, <3>1 DEF PlainLabels, LabelsRead
  <2> HIDE DEF l
  <2>5. p \in Nat /\ p + 1 + l = start + inner[j + 1] /\ p + 1 + l <= E
    BY <1>12, <2>3, <2>4
  <2> HIDE DEF p
  <2>6. p \in 0..E /\ p # E /\ ~(At(b, p) = 0) /\ ~(At(b, p) >= 192) /\ ~(p + 1 + At(b, p) > E)
    BY <1>1, <2>3, <2>4, <2>5
  <2>7. end[p] = end[p + 1 + At(b, p)]
    BY <1>10, <2>6
  <2>8. QED
    BY <2>3, <2>5, <2>7 DEF p
<1>15. end[start + e] = start + e + 1
  <2> DEFINE p == start + e
  <2>1. p \in 0..E /\ p # E /\ At(b, p) = 0
    BY <1>1, <1>12
  <2> HIDE DEF p
  <2>2. end[p] = p + 1
    BY <1>10, <2>1
  <2>3. QED
    BY <2>2 DEF p
<1>16. end[start + inner[0]] = start + e + 1
  <2> DEFINE Bad == {m \in 0..N : end[start + inner[N - m]] # start + e + 1}
  <2>1. ASSUME NEW m \in Bad PROVE \E x \in Bad : x < m
    <3>1. m # 0
      <4>1. N - 0 = N
        BY <1>13
      <4>2. QED
        BY <1>15, <4>1 DEF e
    <3>2. N - m \in 0..(N - 1) /\ m - 1 \in 0..N /\ m - 1 < m /\ (N - m) + 1 = N - (m - 1)
      BY <1>13, <3>1
    <3>3. end[start + inner[N - m]] = end[start + inner[N - (m - 1)]]
      BY <1>14, <3>2
    <3>4. QED
      BY <3>2, <3>3
  <2>2. Bad \subseteq Nat
    BY <1>13
  <2>3. Bad = {}
    <3> HIDE DEF Bad
    <3> QED
      BY <2>1, <2>2, NoLeast
  <2>4. N \in 0..N /\ N - N = 0
    BY <1>13
  <2>5. QED
    BY <2>3, <2>4
<1>17. start + inner[0] = start
  <2>1. inner[0] = 0
    BY <1>1 DEF Sums
  <2>2. QED
    BY <1>12, <2>1
<1>18. Skipped(b, start) = IF end[start] = NoOffset \/ end[start] + 4 > E THEN start ELSE end[start] + 4
  BY <1>11
<1>19. end[start] = start + e + 1
  BY <1>16, <1>17
<1>20. Skipped(b, start) = start + e + 5
  BY <1>1, <1>12, <1>18, <1>19 DEF NoOffset
<1>21. QED
  BY <1>12, <1>20 DEF start

\* The answers of a response.
AnswerThere(b, o, after, r) ==
    /\ o \in Nat /\ o + 12 <= Len(b) /\ U16(b, o + 10) = Len(r.data)
    /\ after = o + 12 + Len(r.data) /\ Len(r.data) \in Nat

\* Every answer is where it was written, but for data that were cut.
LEMMA AnswerLaid ==
    ASSUME NEW qs, NEW b, NEW p, NEW q, NEW rs, NEW off, NEW ends, Shape(b, p, q, qs, rs, off, ends),
           NEW i \in 1..Len(rs)
    PROVE  /\ AnswerThere(b, Header + off[Len(qs)] + ends[i - 1], Header + off[Len(qs)] + ends[i], rs[i])
           /\ ends[i - 1] \in Nat
<1> DEFINE a == off[Len(qs)]
           k == Len(rs)
           r == rs[i]
           l == Len(r.data)
           z == ends[i - 1]
           o == Header + a + z
           w == WrittenAnswer(r)
<1>1. /\ a \in Nat /\ k \in Nat /\ rs \in Seq(AnswerRecords) /\ Sums(ends, WrittenAnswers(rs))
      /\ b \in Seq(Byte) /\ Len(b) \in Nat /\ ResponseIs(p, q, qs, rs, off, ends)
      /\ k # 0 => Header + a + ends[k - 1] + 12 <= Len(b)
      /\ \A x \in 1..Len(b) : b[x] = p[x]
  BY DEF Shape
<1>2. /\ WrittenAnswers(rs) \in Seq(Seq(Byte)) /\ Len(WrittenAnswers(rs)) = k
      /\ WrittenAnswers(rs)[i] = w /\ r \in AnswerRecords /\ AnswerIs(w, r)
  BY <1>1, AnswersWritten
<1>3. l \in Nat /\ l \in U16Values
  BY <1>2, RecordIs
<1>4. Len(w) = 12 + l /\ w[11] = Bytes16(l)[1] /\ w[12] = Bytes16(l)[2]
  BY <1>2 DEF AnswerIs
<1>5. z \in Nat /\ ends[i] = z + (12 + l) /\ z <= ends[k - 1] /\ ends[k - 1] \in Nat
  <2>1. i \in 1..Len(WrittenAnswers(rs)) /\ i - 1 \in 0..Len(WrittenAnswers(rs))
        /\ k - 1 \in (i - 1)..Len(WrittenAnswers(rs))
    BY <1>1, <1>2
  <2>2. ends[i] = z + Len(WrittenAnswers(rs)[i])
    BY <1>1, <1>2, <2>1, SumsStep
  <2>3. z \in Nat /\ z <= ends[k - 1] /\ ends[k - 1] \in Nat
    BY <1>1, <1>2, <2>1, SumsGrow
  <2>4. Len(WrittenAnswers(rs)[i]) = 12 + l
    BY <1>2, <1>4
  <2>5. QED
    BY <2>2, <2>3, <2>4
<1>6. k # 0
  BY <1>1
<1>7. Header + a + ends[k - 1] + 12 <= Len(b)
  BY <1>1, <1>6
<1> HIDE DEF a, k, l, z, w
<1>8. o \in Nat /\ o + 12 <= Len(b) /\ Header + a + ends[i] = o + 12 + l
  BY <1>1, <1>3, <1>5, <1>7 DEF Header
<1>9. p[o + 11] = w[11] /\ p[o + 12] = w[12]
  <2>1. 11 \in 1..Len(w) /\ 12 \in 1..Len(w)
    BY <1>3, <1>4
  <2>2. \A d \in 1..Len(w) : p[Header + a + z + d] = w[d]
    BY <1>1 DEF ResponseIs, a, z, w
  <2>3. QED
    BY <2>1, <2>2
<1>10. U16(b, o + 10) = l
  <2> HIDE DEF o
  <2>1. (o + 10) + 1 = o + 11 /\ ((o + 10) + 1) + 1 = o + 12 /\ o + 11 \in 1..Len(b) /\ o + 12 \in 1..Len(b)
    BY <1>1, <1>8
  <2>2. U16(b, o + 10) = b[o + 11] * 256 + b[o + 12]
    BY <2>1 DEF U16, At
  <2>3. b[o + 11] = Bytes16(l)[1] /\ b[o + 12] = Bytes16(l)[2]
    BY <1>1, <1>4, <1>9, <2>1
  <2>4. Bytes16(l)[1] * 256 + Bytes16(l)[2] = l
    BY <1>3, NumberWritten
  <2>5. QED
    BY <2>2, <2>3, <2>4
<1>11. QED
  BY <1>3, <1>5, <1>8, <1>10 DEF AnswerThere, a, l, z

\* rewriteResponseTtl finds the TTLs of the answers.
LEMMA TtlsFound ==
    ASSUME NEW qs \in Seq(PlainQuestions), Len(qs) \in U16Values,
           NEW b, NEW p, NEW q, NEW rs, NEW off, NEW ends, Shape(b, p, q, qs, rs, off, ends)
    PROVE  TtlOffsets(b) = {Header + off[Len(qs)] + ends[j] + 6 : j \in 0..(Len(rs) - 1)}
<1> DEFINE n == Len(qs)
           k == Len(rs)
           a == off[n]
           IsQ(f) == f = [i \in 0..U16(b, 4) |-> IF i = 0 THEN Header ELSE Skipped(b, f[i - 1])]
           behind == CHOOSE f : IsQ(f)
           IsA(f) == f = [i \in 0..U16(b, 6) |->
                            IF i = 0 THEN behind[U16(b, 4)]
                            ELSE IF f[i - 1] + 12 > Len(b) THEN Len(b) ELSE f[i - 1] + 12 + U16(b, f[i - 1] + 10)]
           answer == CHOOSE f : IsA(f)
<1>1. TtlOffsets(b) = {answer[i] + 6 : i \in {j \in 0..(U16(b, 6) - 1) : answer[j] + 12 <= Len(b)}}
  BY DEF TtlOffsets
<1>2. Laid(b, qs, off)
  BY ShapeIsLaid
<1>3. /\ U16(b, 4) = n /\ n \in Nat /\ k \in Nat /\ a \in Nat /\ Sums(off, WrittenQuestions(qs)) /\ off[0] = 0
      /\ Sums(ends, WrittenAnswers(rs)) /\ ends[0] = 0 /\ Len(b) \in Nat /\ k \in U16Values
  BY <1>2 DEF Laid, Shape, Sums
<1>4. U16(b, 6) = k
  <2>1. HeaderIs(p, q, n, k) /\ (\A i \in 1..Len(b) : b[i] = p[i]) /\ Header + a <= Len(b)
    BY DEF Shape, ResponseIs
  <2>2. 7 \in 1..Len(b) /\ 8 \in 1..Len(b)
    BY <1>3, <2>1 DEF Header
  <2>3. b[7] = Bytes16(k)[1] /\ b[8] = Bytes16(k)[2]
    BY <2>1, <2>2 DEF HeaderIs
  <2>4. U16(b, 6) = b[7] * 256 + b[8]
    BY DEF U16, At
  <2>5. Bytes16(k)[1] * 256 + Bytes16(k)[2] = k
    BY <1>3, NumberWritten
  <2>6. QED
    BY <2>3, <2>4, <2>5
<1>5. ASSUME NEW i \in 1..n PROVE Skipped(b, Header + off[i - 1]) = Header + off[i] /\ i - 1 \in 0..n
  <2>1. i - 1 \in 0..(n - 1) /\ (i - 1) + 1 = i /\ i - 1 \in 0..n
    BY <1>3
  <2>2. PICK inner : Sums(inner, WrittenLabels(qs[i].name))
    BY NextName
  <2>3. NextIsEnd(b, qs, off, i - 1, inner)
    BY <1>2, <2>1, <2>2 DEF NextIsEnd
  <2>4. Skipped(b, Header + off[i - 1]) = Header + off[(i - 1) + 1]
    BY <2>3, QuestionSkipped
  <2>5. QED
    BY <2>1, <2>4
<1>6. IsQ(behind)
  <2> DEFINE f == [i \in 0..n |-> Header + off[i]]
  <2>1. ASSUME NEW i \in 0..n PROVE f[i] = IF i = 0 THEN Header ELSE Skipped(b, f[i - 1])
    <3>1. CASE i = 0
      BY <1>3, <3>1 DEF Header
    <3>2. CASE i # 0
      <4>1. i \in 1..n
        BY <1>3, <3>2
      <4>2. f[i - 1] = Header + off[i - 1]
        BY <1>5, <4>1
      <4>3. QED
        BY <1>5, <3>2, <4>1, <4>2
    <3>3. QED
      BY <3>1, <3>2
  <2>2. f = [i \in 0..n |-> IF i = 0 THEN Header ELSE Skipped(b, f[i - 1])]
    BY <2>1
  <2>3. IsQ(f)
    <3> HIDE DEF f
    <3> QED
      BY <1>3, <2>2
  <2> HIDE DEF IsQ, f
  <2>4. QED
    BY <2>3
<1>7. behind[n] = Header + a
  <2> DEFINE Bad == {i \in 0..n : behind[i] # Header + off[i]}
  <2> HIDE DEF behind
  <2>1. behind = [i \in 0..n |-> IF i = 0 THEN Header ELSE Skipped(b, behind[i - 1])]
    BY <1>3, <1>6
  <2>2. ASSUME NEW i \in Bad PROVE \E m \in Bad : m < i
    <3>1. i # 0
      <4>1. behind[0] = Header
        BY <1>3, <2>1
      <4>2. QED
        BY <1>3, <4>1 DEF Header
    <3>2. i \in 1..n /\ i - 1 \in 0..n /\ i - 1 < i
      BY <1>3, <3>1
    <3>3. behind[i] = Skipped(b, behind[i - 1])
      BY <2>1, <3>1
    <3>4. Skipped(b, Header + off[i - 1]) = Header + off[i]
      BY <1>5, <3>2
    <3>5. behind[i - 1] # Header + off[i - 1]
      BY <3>3, <3>4
    <3>6. QED
      BY <3>2, <3>5
  <2>3. Bad \subseteq Nat
    OBVIOUS
  <2>4. Bad = {}
    <3> HIDE DEF Bad
    <3> QED
      BY <2>2, <2>3, NoLeast
  <2>5. n \in 0..n
    BY <1>3
  <2>6. QED
    BY <2>4, <2>5
<1> HIDE DEF behind, IsQ
<1>8. ASSUME NEW i \in 1..k
      PROVE  LET o == Header + a + ends[i - 1]
             IN  /\ o \in Nat /\ o + 12 <= Len(b) /\ o + 12 + U16(b, o + 10) = Header + a + ends[i]
                 /\ i - 1 \in 0..k
  <2>1. AnswerThere(b, Header + a + ends[i - 1], Header + a + ends[i], rs[i])
    BY AnswerLaid
  <2>2. QED
    BY <1>3, <2>1 DEF AnswerThere
<1>9. IsA(answer)
  <2> DEFINE f == [i \in 0..k |-> Header + a + ends[i]]
  <2>1. ASSUME NEW i \in 0..k
        PROVE  f[i] = IF i = 0 THEN behind[n]
                      ELSE IF f[i - 1] + 12 > Len(b) THEN Len(b) ELSE f[i - 1] + 12 + U16(b, f[i - 1] + 10)
    <3>1. CASE i = 0
      BY <1>3, <1>7, <3>1 DEF Header
    <3>2. CASE i # 0
      <4>1. i \in 1..k
        BY <1>3, <3>2
      <4> DEFINE o == Header + a + ends[i - 1]
      <4>2. f[i - 1] = o
        BY <1>8, <4>1
      <4>3. o \in Nat /\ o + 12 <= Len(b) /\ o + 12 + U16(b, o + 10) = Header + a + ends[i]
        BY <1>8, <4>1
      <4>4. f[i] = Header + a + ends[i]
        OBVIOUS
      <4> HIDE DEF f, o
      <4>5. ~(o + 12 > Len(b))
        BY <1>3, <4>3
      <4>6. QED
        BY <3>2, <4>2, <4>3, <4>4, <4>5
    <3>3. QED
      BY <3>1, <3>2
  <2>2. f = [i \in 0..k |-> IF i = 0 THEN behind[n]
                      ELSE IF f[i - 1] + 12 > Len(b) THEN Len(b) ELSE f[i - 1] + 12 + U16(b, f[i - 1] + 10)]
    BY <2>1
  <2>3. IsA(f)
    <3> HIDE DEF f
    <3> QED
      BY <1>3, <1>4, <2>2
  <2> HIDE DEF IsA, f
  <2>4. QED
    BY <2>3
<1>10. ASSUME NEW i \in 0..k PROVE answer[i] = Header + a + ends[i]
  <2> DEFINE Bad == {m \in 0..k : answer[m] # Header + a + ends[m]}
  <2> HIDE DEF answer
  <2>1. answer = [m \in 0..k |-> IF m = 0 THEN behind[n]
                      ELSE IF answer[m - 1] + 12 > Len(b) THEN Len(b)
                      ELSE answer[m - 1] + 12 + U16(b, answer[m - 1] + 10)]
    BY <1>3, <1>4, <1>9
  <2>2. ASSUME NEW m \in Bad PROVE \E x \in Bad : x < m
    <3>1. m # 0
      <4>1. answer[0] = Header + a
        BY <1>3, <1>7, <2>1
      <4>2. QED
        BY <1>3, <4>1 DEF Header
    <3>2. m \in 1..k /\ m - 1 \in 0..k /\ m - 1 < m
      BY <1>3, <3>1
    <3>3. answer[m] = IF answer[m - 1] + 12 > Len(b) THEN Len(b)
                      ELSE answer[m - 1] + 12 + U16(b, answer[m - 1] + 10)
      BY <2>1, <3>1
    <3> DEFINE o == Header + a + ends[m - 1]
    <3>4. o \in Nat /\ o + 12 <= Len(b) /\ o + 12 + U16(b, o + 10) = Header + a + ends[m]
      BY <1>8, <3>2
    <3> HIDE DEF o
    <3>5. answer[m - 1] # o
      <4>1. ~(o + 12 > Len(b))
        BY <1>3, <3>4
      <4>2. QED
        BY <3>3, <3>4, <4>1
    <3>6. QED
      BY <3>2, <3>5 DEF o
  <2>3. Bad \subseteq Nat
    OBVIOUS
  <2>4. Bad = {}
    <3> HIDE DEF Bad
    <3> QED
      BY <2>2, <2>3, NoLeast
  <2>5. QED
    BY <2>4
<1> HIDE DEF answer, IsA
<1>11. ASSUME NEW j \in 0..(k - 1) PROVE answer[j] = Header + a + ends[j] /\ answer[j] + 12 <= Len(b)
  <2>1. j \in 0..k /\ j + 1 \in 1..k /\ (j + 1) - 1 = j
    BY <1>3
  <2>2. Header + a + ends[(j + 1) - 1] + 12 <= Len(b)
    BY <1>8, <2>1
  <2>3. QED
    BY <1>10, <2>1, <2>2
<1>12. {j \in 0..(U16(b, 6) - 1) : answer[j] + 12 <= Len(b)} = 0..(k - 1)
  BY <1>4, <1>11
<1>13. {answer[i] + 6 : i \in 0..(k - 1)} = {Header + a + ends[j] + 6 : j \in 0..(k - 1)}
  BY <1>11
<1>14. QED
  BY <1>1, <1>12, <1>13

\* A record with the TTL of the cache.
Renewed(r) == [r EXCEPT !.ttl = NewTtl]
RenewedAll(rs) == [i \in DOMAIN rs |-> [rs[i] EXCEPT !.ttl = NewTtl]]
NewBytes == <<0, 0>> \o Bytes16(NewTtl)

\* The four bytes of the TTL that the cache writes.
LEMMA NewBytesAre ==
    /\ NewTtl \in U16Values /\ NewBytes[1] = 0 /\ NewBytes[2] = 0
    /\ NewBytes[3] = Bytes16(NewTtl)[1] /\ NewBytes[4] = Bytes16(NewTtl)[2]
<1>1. NewTtl \in U16Values
  BY U16Range DEF NewTtl
<1> DEFINE z == <<0, 0>>
           t == Bytes16(NewTtl)
<1>2. z \in Seq(Byte) /\ Len(z) = 2 /\ z[1] = 0 /\ z[2] = 0
  BY DEF Byte
<1>3. t \in Pairs(Byte)
  BY <1>1, NumberIsPair
<1> HIDE DEF z, t
<1>4. /\ \A d \in 1..Len(z) : (z \o t)[d] = z[d]
      /\ (z \o t)[Len(z) + 1] = t[1] /\ (z \o t)[Len(z) + 2] = t[2]
  BY <1>2, <1>3, PairJoins
<1>5. (z \o t)[1] = 0 /\ (z \o t)[2] = 0 /\ (z \o t)[3] = t[1] /\ (z \o t)[4] = t[2]
  <2>1. 1 \in 1..Len(z) /\ 2 \in 1..Len(z) /\ Len(z) + 1 = 3 /\ Len(z) + 2 = 4
    BY <1>2
  <2>2. (z \o t)[1] = z[1] /\ (z \o t)[2] = z[2]
    BY <1>4, <2>1
  <2>3. (z \o t)[3] = t[1] /\ (z \o t)[4] = t[2]
    BY <1>4, <2>1
  <2>4. QED
    BY <1>2, <2>2, <2>3
<1>6. QED
  BY <1>1, <1>5 DEF NewBytes, z, t

\* The TTL is the only field of a record that changes.
LEMMA RecordRenewed ==
    ASSUME NEW r \in AnswerRecords
    PROVE  /\ Renewed(r) \in AnswerRecords /\ Renewed(r).type = r.type /\ Renewed(r).data = r.data
           /\ Renewed(r).ttl = NewTtl
<1>1. r \in Records /\ Len(r.data) <= 65535
  BY DEF AnswerRecords
<1>2. NewTtl \in U16Values
  BY NewBytesAre
<1>3. /\ Renewed(r) \in Records /\ Renewed(r).type = r.type /\ Renewed(r).data = r.data /\ Renewed(r).ttl = NewTtl
  BY <1>1, <1>2 DEF Renewed, Records
<1>4. QED
  BY <1>1, <1>3 DEF AnswerRecords

\* Only the bytes of the TTL are others.
LEMMA AnswerRenewed ==
    ASSUME NEW r \in AnswerRecords
    PROVE  /\ Len(WrittenAnswer(Renewed(r))) = Len(WrittenAnswer(r))
           /\ Len(WrittenAnswer(r)) \in Nat /\ Len(WrittenAnswer(r)) >= 12
           /\ \A d \in 1..Len(WrittenAnswer(r)) :
                WrittenAnswer(Renewed(r))[d] = IF d \in 7..10 THEN NewBytes[d - 6] ELSE WrittenAnswer(r)[d]
<1> DEFINE s == Renewed(r)
           w == WrittenAnswer(r)
           v == WrittenAnswer(s)
           l == Len(r.data)
<1>1. s \in AnswerRecords /\ s.type = r.type /\ s.data = r.data /\ s.ttl = NewTtl
  BY RecordRenewed
<1>2. AnswerIs(w, r) /\ AnswerIs(v, s) /\ l \in Nat
  BY <1>1, AnswerWritten, RecordIs
<1> HIDE DEF s, w, v
<1>3. /\ Len(w) = 12 + l
      /\ w[1] = 192 /\ w[2] = Header /\ w[3] = Bytes16(r.type)[1] /\ w[4] = Bytes16(r.type)[2]
      /\ w[5] = Bytes16(1)[1] /\ w[6] = Bytes16(1)[2]
      /\ w[11] = Bytes16(l)[1] /\ w[12] = Bytes16(l)[2]
      /\ \A d \in 1..l : w[12 + d] = r.data[d]
  BY <1>2 DEF AnswerIs
<1>4. /\ Len(v) = 12 + l
      /\ v[1] = 192 /\ v[2] = Header /\ v[3] = Bytes16(r.type)[1] /\ v[4] = Bytes16(r.type)[2]
      /\ v[5] = Bytes16(1)[1] /\ v[6] = Bytes16(1)[2]
      /\ v[11] = Bytes16(l)[1] /\ v[12] = Bytes16(l)[2]
      /\ \A d \in 1..l : v[12 + d] = r.data[d]
  BY <1>1, <1>2 DEF AnswerIs
<1>5. v[7] = 0 /\ v[8] = 0 /\ v[9] = Bytes16(NewTtl)[1] /\ v[10] = Bytes16(NewTtl)[2]
  BY <1>1, <1>2 DEF AnswerIs
<1> HIDE DEF l
<1>6. ASSUME NEW d \in 1..(12 + l) PROVE v[d] = IF d \in 7..10 THEN NewBytes[d - 6] ELSE w[d]
  <2>1. CASE d \in 7..10
    <3>1. d = 7 \/ d = 8 \/ d = 9 \/ d = 10
      BY <2>1
    <3>2. QED
      BY <1>5, <2>1, <3>1, NewBytesAre
  <2>2. CASE d \in 1..6
    <3>1. d = 1 \/ d = 2 \/ d = 3 \/ d = 4 \/ d = 5 \/ d = 6
      BY <2>2
    <3>2. ~(d \in 7..10)
      BY <2>2
    <3>3. QED
      BY <1>3, <1>4, <3>1, <3>2
  <2>3. CASE d \in 11..12
    <3>1. d = 11 \/ d = 12
      BY <2>3
    <3>2. ~(d \in 7..10)
      BY <2>3
    <3>3. QED
      BY <1>3, <1>4, <3>1, <3>2
  <2>4. CASE d > 12
    <3>1. d - 12 \in 1..l /\ 12 + (d - 12) = d /\ ~(d \in 7..10)
      BY <1>2, <2>4 DEF l
    <3>2. w[12 + (d - 12)] = r.data[d - 12] /\ v[12 + (d - 12)] = r.data[d - 12]
      BY <1>3, <1>4, <3>1
    <3>3. QED
      BY <3>1, <3>2
  <2>5. d \in 1..6 \/ d \in 7..10 \/ d \in 11..12 \/ d > 12
    BY <1>2 DEF l
  <2>6. QED
    BY <2>1, <2>2, <2>3, <2>4, <2>5
<1>7. l \in Nat
  BY <1>2 DEF l
<1>8. QED
  BY <1>3, <1>4, <1>6, <1>7 DEF s, w, v

\* Which records are sent does not depend on their TTLs.
LEMMA SendableRenewed ==
    ASSUME NEW rs \in Seq(AnswerRecords)
    PROVE  /\ RenewedAll(rs) \in Seq(AnswerRecords)
           /\ Len(Sendable(RenewedAll(rs))) = Len(Sendable(rs))
           /\ \A x \in 1..Len(Sendable(rs)) : Sendable(RenewedAll(rs))[x] = Renewed(Sendable(rs)[x])
<1> DEFINE ts == RenewedAll(rs)
           N == Len(rs)
           One(r) == IF Len(r.data) < 2 THEN <<>> ELSE <<r>>
           ss == [i \in 1..N |-> One(rs[i])]
           uu == [i \in 1..N |-> One(ts[i])]
<1>1. DOMAIN rs = 1..N /\ N \in Nat /\ \A i \in 1..N : rs[i] \in AnswerRecords
  BY ElementOfSeq
<1>2. ts = [i \in 1..N |-> Renewed(rs[i])]
  BY <1>1 DEF RenewedAll, Renewed
<1>3. ts \in Seq(AnswerRecords) /\ Len(ts) = N /\ \A i \in 1..N : ts[i] = Renewed(rs[i]) /\ ts[i] \in AnswerRecords
  <2>1. \A i \in 1..N : Renewed(rs[i]) \in AnswerRecords
    BY <1>1, RecordRenewed
  <2> HIDE DEF N, ts
  <2>2. QED
    BY <1>1, <1>2, <2>1
<1>4. Sendable(rs) = FlattenSeq(ss)
  BY <1>1 DEF Sendable
<1>5. Sendable(ts) = FlattenSeq(uu)
  <2>1. DOMAIN ts = 1..N
    BY <1>2
  <2> HIDE DEF ts
  <2>2. QED
    BY <2>1 DEF Sendable
<1> HIDE DEF ts, N
<1>6. ASSUME NEW r \in AnswerRecords PROVE One(r) \in Seq(AnswerRecords)
  BY <1>6
<1>7. ss \in Seq(Seq(AnswerRecords)) /\ Len(ss) = N /\ uu \in Seq(Seq(AnswerRecords)) /\ Len(uu) = N
  <2>1. \A i \in 1..N : One(rs[i]) \in Seq(AnswerRecords) /\ One(ts[i]) \in Seq(AnswerRecords)
    BY <1>1, <1>3, <1>6
  <2> HIDE DEF One
  <2>2. ss \in Seq(Seq(AnswerRecords)) /\ Len(ss) = N
    BY <1>1, <2>1
  <2>3. uu \in Seq(Seq(AnswerRecords)) /\ Len(uu) = N
    BY <1>1, <2>1
  <2>4. QED
    BY <2>2, <2>3
<1>8. ASSUME NEW i \in 1..N
      PROVE  /\ ss[i] = One(rs[i]) /\ uu[i] = One(ts[i]) /\ Len(ss[i]) = Len(uu[i])
             /\ \A d \in 1..Len(ss[i]) : d = 1 /\ uu[i][d] = Renewed(ss[i][d])
  <2>1. ts[i] = Renewed(rs[i]) /\ ts[i].data = rs[i].data
    BY <1>1, <1>3, RecordRenewed
  <2>2. ss[i] = One(rs[i]) /\ uu[i] = One(ts[i])
    OBVIOUS
  <2>3. CASE Len(rs[i].data) < 2
    <3>1. ss[i] = <<>> /\ uu[i] = <<>>
      BY <2>1, <2>2, <2>3
    <3>2. QED
      BY <2>2, <3>1
  <2>4. CASE ~(Len(rs[i].data) < 2)
    <3>1. ss[i] = <<rs[i]>> /\ uu[i] = <<ts[i]>>
      BY <2>1, <2>2, <2>4
    <3>2. Len(ss[i]) = 1 /\ Len(uu[i]) = 1 /\ ss[i][1] = rs[i] /\ uu[i][1] = ts[i]
      BY <3>1
    <3>3. QED
      BY <2>1, <2>2, <3>2
  <2>5. QED
    BY <2>3, <2>4
<1> HIDE DEF ss, uu, One
<1>9. PICK off : Sums(off, ss)
  BY <1>7, SumsExist
<1>10. Sums(off, uu)
  BY <1>7, <1>8, <1>9 DEF Sums
<1>11. /\ FlattenSeq(ss) \in Seq(AnswerRecords) /\ Joined(FlattenSeq(ss), off, ss)
       /\ FlattenSeq(uu) \in Seq(AnswerRecords) /\ Joined(FlattenSeq(uu), off, uu)
  BY <1>7, <1>9, <1>10, FlattenJoins
<1>12. Len(FlattenSeq(ss)) = off[N] /\ Len(FlattenSeq(uu)) = off[N]
  BY <1>7, <1>11 DEF Joined
<1>13. ASSUME NEW x \in 1..Len(FlattenSeq(ss)) PROVE FlattenSeq(uu)[x] = Renewed(FlattenSeq(ss)[x])
  <2>1. x \in 1..off[Len(ss)]
    BY <1>7, <1>12
  <2>2. PICK i \in 1..Len(ss) : \E d \in 1..Len(ss[i]) : x = off[i - 1] + d
    <3>1. ss \in Seq(Seq(AnswerRecords))
      BY <1>7
    <3>2. QED
      BY <1>9, <2>1, <3>1, PieceFound DEF InPiece
  <2> PICK d \in 1..Len(ss[i]) : x = off[i - 1] + d
    BY <2>2
  <2>3. i \in 1..N /\ i \in 1..Len(uu) /\ d \in 1..Len(uu[i]) /\ uu[i][d] = Renewed(ss[i][d])
    BY <1>7, <1>8
  <2>4. FlattenSeq(ss)[x] = ss[i][d] /\ FlattenSeq(uu)[x] = uu[i][d]
    BY <1>11, <2>2, <2>3 DEF Joined
  <2>5. QED
    BY <2>3, <2>4
<1>14. QED
  BY <1>3, <1>4, <1>5, <1>12, <1>13 DEF ts

\* The TTL at an offset has the byte.
TtlCovers(o, x) == x - 1 - o \in 0..3

\* A byte of an answer is in the TTL of that answer or in none.
LEMMA OwnTtl ==
    ASSUME NEW rs \in Seq(AnswerRecords), NEW ends, Sums(ends, WrittenAnswers(rs)), NEW base \in Nat,
           NEW i \in 1..Len(rs), NEW d \in 1..Len(WrittenAnswer(rs[i])), NEW j \in 0..(Len(rs) - 1)
    PROVE  /\ ends[i - 1] \in Nat /\ ends[j] \in Nat /\ d \in Nat
           /\ TtlCovers(base + ends[j] + 6, base + ends[i - 1] + d) <=> j = i - 1 /\ d \in 7..10
<1> DEFINE k == Len(rs)
           ws == WrittenAnswers(rs)
           z == ends[i - 1]
           y == ends[j]
<1>1. ws \in Seq(Seq(Byte)) /\ Len(ws) = k /\ Sums(ends, ws) /\ k \in Nat
  BY AnswersWritten
<1>2. ASSUME NEW m \in 1..k
      PROVE  /\ ends[m - 1] \in Nat /\ ends[m] \in Nat /\ ends[m] = ends[m - 1] + Len(WrittenAnswer(rs[m]))
             /\ Len(WrittenAnswer(rs[m])) \in Nat /\ Len(WrittenAnswer(rs[m])) >= 12
  <2>1. ws[m] = WrittenAnswer(rs[m]) /\ rs[m] \in AnswerRecords /\ m \in 1..Len(ws)
    BY <1>1, AnswersWritten
  <2> HIDE DEF ws
  <2>2. ends[m - 1] \in Nat /\ ends[m] \in Nat /\ ends[m] = ends[m - 1] + Len(ws[m])
    BY <1>1, <2>1, SumsStep
  <2>3. QED
    BY <2>1, <2>2, AnswerRenewed
<1>3. \A m \in 0..k : \A o \in m..k : ends[m] <= ends[o]
  <2> SUFFICES ASSUME NEW m \in 0..k, NEW o \in m..k PROVE ends[m] <= ends[o]
    OBVIOUS
  <2> HIDE DEF ws
  <2>1. m \in 0..Len(ws) /\ o \in m..Len(ws)
    BY <1>1
  <2>2. QED
    BY <1>1, <2>1, SumsGrow
<1> DEFINE l == Len(WrittenAnswer(rs[i]))
           v == Len(WrittenAnswer(rs[j + 1]))
<1>4. z \in Nat /\ ends[i] \in Nat /\ ends[i] = z + l /\ l \in Nat /\ l >= 12 /\ d \in 1..l
  BY <1>2
<1>5. y \in Nat /\ ends[j + 1] \in Nat /\ ends[j + 1] = y + v /\ v \in Nat /\ v >= 12
  <2>1. j + 1 \in 1..k /\ j + 1 - 1 = j
    BY <1>1
  <2> HIDE DEF k
  <2>2. ends[j + 1 - 1] = y
    BY <2>1
  <2>3. QED
    BY <1>2, <2>1, <2>2
<1>6. j < i - 1 => ends[j + 1] <= z
  <2> SUFFICES ASSUME j < i - 1 PROVE ends[j + 1] <= z
    OBVIOUS
  <2>1. j + 1 \in 0..k /\ i - 1 \in (j + 1)..k
    BY <1>1
  <2>2. QED
    BY <1>3, <2>1
<1>7. j > i - 1 => ends[i] <= y
  <2> SUFFICES ASSUME j > i - 1 PROVE ends[i] <= y
    OBVIOUS
  <2>1. i \in 0..k /\ j \in i..k
    BY <1>1
  <2>2. QED
    BY <1>3, <2>1
<1> DEFINE far == ends[j + 1]
           end == ends[i]
<1>8. /\ end \in Nat /\ end = z + l /\ far \in Nat /\ far = y + v
      /\ j < i - 1 => far <= z
      /\ j > i - 1 => end <= y
      /\ j = i - 1 => y = z
  BY <1>4, <1>5, <1>6, <1>7
<1>9. j \in Nat /\ i \in Nat
  BY <1>1
<1> HIDE DEF k, z, y, l, v, far, end
<1>10. (base + z + d) - 1 - (base + y + 6) = z + d - 7 - y
  BY <1>4, <1>5
<1>11. z + d - 7 - y \in 0..3 <=> j = i - 1 /\ d \in 7..10
  <2>1. CASE j < i - 1
    BY <1>4, <1>5, <1>8, <1>9, <2>1
  <2>2. CASE j > i - 1
    BY <1>4, <1>5, <1>8, <1>9, <2>2
  <2>3. CASE j = i - 1
    BY <1>4, <1>5, <1>8, <1>9, <2>3
  <2>4. QED
    BY <1>9, <2>1, <2>2, <2>3
<1>12. QED
  <2>1. TtlCovers(base + y + 6, base + z + d) <=> j = i - 1 /\ d \in 7..10
    <3>1. TtlCovers(base + y + 6, base + z + d) <=> z + d - 7 - y \in 0..3
      <4>1. (base + z + d) - 1 - (base + y + 6) \in 0..3 <=> z + d - 7 - y \in 0..3
        BY <1>4, <1>5, <1>10
      <4>2. QED
        BY <4>1 DEF TtlCovers
    <3>2. QED
      BY <1>11, <3>1
  <2>2. QED
    BY <1>4, <1>5, <2>1 DEF z, y

\* The packet written with the cache's TTLs has the bytes of the first one up
\* to the answers.
LEMMA BytesBefore ==
    ASSUME NEW qs \in Seq(PlainQuestions), Len(qs) \in U16Values,
           NEW b, NEW p, NEW q, NEW rs, NEW off, NEW ends, Shape(b, p, q, qs, rs, off, ends),
           NEW r, NEW ts, Len(ts) = Len(rs), ResponseIs(r, b, qs, ts, off, ends),
           NEW x \in 1..(Header + off[Len(qs)])
    PROVE  r[x] = b[x]
<1> DEFINE a == off[Len(qs)]
           ws == WrittenQuestions(qs)
<1>1. /\ a \in Nat /\ Sums(off, ws) /\ ResponseIs(p, q, qs, rs, off, ends)
      /\ b \in Seq(Byte) /\ Len(b) \in Nat /\ Header + a <= Len(b)
      /\ \A i \in 1..Len(b) : b[i] = p[i]
  BY DEF Shape
<1>2. b[x] = p[x] /\ x \in Nat /\ x >= 1
  BY <1>1 DEF Header
<1>3. CASE x <= 12
  <2>1. x = 1 \/ x = 2 \/ x = 3 \/ x = 4 \/ x = 5 \/ x = 6 \/ x = 7 \/ x = 8 \/ x = 9 \/ x = 10 \/ x = 11 \/ x = 12
    BY <1>2, <1>3
  <2>2. HeaderIs(p, q, Len(qs), Len(rs)) /\ HeaderIs(r, b, Len(qs), Len(rs))
    BY <1>1 DEF ResponseIs
  <2>3. QED
    BY <1>2, <2>1, <2>2 DEF HeaderIs
<1>4. CASE x > 12
  <2>1. ws \in Seq(Seq(Byte)) /\ Len(ws) = Len(qs) /\ \A i \in 1..Len(qs) : ws[i] = WrittenQuestion(qs[i])
    BY QuestionsWritten
  <2>2. x - 12 \in 1..a
    BY <1>1, <1>2, <1>4 DEF Header
  <2> HIDE DEF ws
  <2>3. InPiece(x - 12, off, ws)
    <3>1. x - 12 \in 1..off[Len(ws)]
      BY <2>1, <2>2
    <3>2. QED
      BY <1>1, <2>1, <3>1, PieceFound
  <2>4. PICK i \in 1..Len(ws) : \E d \in 1..Len(ws[i]) : x - 12 = off[i - 1] + d
    BY <2>3 DEF InPiece
  <2>5. PICK d \in 1..Len(ws[i]) : x - 12 = off[i - 1] + d
    BY <2>4
  <2>6. i \in 1..Len(qs) /\ d \in 1..Len(WrittenQuestion(qs[i]))
    BY <2>1
  <2>7. p[Header + off[i - 1] + d] = r[Header + off[i - 1] + d]
    BY <1>1, <2>6 DEF ResponseIs
  <2>8. Header + off[i - 1] + d = x
    <3> DEFINE o == off[i - 1]
    <3>1. o \in Nat /\ d \in Nat
      BY <1>1, <2>1, SumsStep
    <3> HIDE DEF o
    <3>2. x - 12 = o + d
      BY <2>5 DEF o
    <3>3. Header + o + d = x
      BY <1>2, <3>1, <3>2 DEF Header
    <3>4. QED
      BY <3>3 DEF o
  <2>9. QED
    BY <1>2, <2>7, <2>8
<1>5. QED
  BY <1>2, <1>3, <1>4

\* The TTLs that cover a byte.
TtlsAt(b, x) == {o \in TtlOffsets(b) : TtlCovers(o, x)}

\* Records that differ in their TTLs.
RenewedFrom(ts, rs) == Len(ts) = Len(rs) /\ \A i \in 1..Len(rs) : ts[i] = Renewed(rs[i])

\* The d-th byte of the i-th answer.
InAnswer(x, i, d, qs, rs, off, ends) ==
    /\ i \in 1..Len(rs) /\ d \in 1..Len(WrittenAnswer(rs[i]))
    /\ x = Header + off[Len(qs)] + ends[i - 1] + d

\* A byte of what rewriteResponseTtl makes.
RewrittenByte(b, x) ==
    IF TtlsAt(b, x) = {} THEN b[x] ELSE NewBytes[x - (CHOOSE o \in TtlsAt(b, x) : TRUE)]

LEMMA TtlRewrittenIs ==
    ASSUME NEW b \in Seq(Byte)
    PROVE  TtlRewritten(b, NewTtl) = [x \in 1..Len(b) |-> RewrittenByte(b, x)]
<1>1. DOMAIN b = 1..Len(b)
  OBVIOUS
<1>2. QED
  BY <1>1 DEF TtlRewritten, RewrittenByte, TtlsAt, TtlCovers, NewBytes

\* What the packet written with the cache's TTLs has where an answer is.
LEMMA BytesWithin ==
    ASSUME NEW qs \in Seq(PlainQuestions), Len(qs) \in U16Values,
           NEW b, NEW p, NEW q, NEW rs, NEW off, NEW ends, Shape(b, p, q, qs, rs, off, ends),
           NEW r, NEW ts, RenewedFrom(ts, rs), ResponseIs(r, b, qs, ts, off, ends),
           NEW i, NEW d, NEW x \in 1..Len(b), InAnswer(x, i, d, qs, rs, off, ends)
    PROVE  r[x] = RewrittenByte(b, x)
<1> DEFINE a == off[Len(qs)]
           k == Len(rs)
           base == Header + a
           w == WrittenAnswer(rs[i])
           z == ends[i - 1]
<1>1. /\ a \in Nat /\ k \in Nat /\ rs \in Seq(AnswerRecords) /\ Sums(ends, WrittenAnswers(rs))
      /\ ResponseIs(p, q, qs, rs, off, ends) /\ \A c \in 1..Len(b) : b[c] = p[c]
      /\ i \in 1..k /\ d \in 1..Len(w) /\ x = base + z + d
      /\ Len(ts) = k /\ \A m \in 1..k : ts[m] = Renewed(rs[m])
  BY DEF Shape, InAnswer, RenewedFrom
<1>2. base \in Nat
  BY <1>1 DEF Header
<1>3. rs[i] \in AnswerRecords
  BY <1>1, ElementOfSeq
<1>4. b[x] = w[d]
  <2>1. p[base + z + d] = w[d]
    BY <1>1 DEF ResponseIs
  <2>2. QED
    BY <1>1, <2>1
<1>5. r[x] = IF d \in 7..10 THEN NewBytes[d - 6] ELSE w[d]
  <2>1. i \in 1..Len(ts) /\ ts[i] = Renewed(rs[i])
    BY <1>1
  <2>2. d \in 1..Len(WrittenAnswer(ts[i])) /\ WrittenAnswer(ts[i])[d] = IF d \in 7..10 THEN NewBytes[d - 6] ELSE w[d]
    BY <1>1, <1>3, <2>1, AnswerRenewed
  <2>3. r[x] = WrittenAnswer(ts[i])[d]
    <3>1. r[base + z + d] = WrittenAnswer(ts[i])[d]
      BY <2>1, <2>2 DEF ResponseIs
    <3>2. QED
      BY <1>1, <3>1
  <2>4. QED
    BY <2>2, <2>3
<1>6. TtlOffsets(b) = {base + ends[j] + 6 : j \in 0..(k - 1)}
  <2>1. TtlOffsets(b) = {Header + off[Len(qs)] + ends[j] + 6 : j \in 0..(Len(rs) - 1)}
    BY TtlsFound
  <2>2. QED
    BY <2>1
<1>7. \A j \in 0..(k - 1) : TtlCovers(base + ends[j] + 6, x) <=> j = i - 1 /\ d \in 7..10
  <2> SUFFICES ASSUME NEW j \in 0..(k - 1)
               PROVE  TtlCovers(base + ends[j] + 6, x) <=> j = i - 1 /\ d \in 7..10
    OBVIOUS
  <2> HIDE DEF base
  <2>1. TtlCovers(base + ends[j] + 6, base + z + d) <=> j = i - 1 /\ d \in 7..10
    BY <1>1, <1>2, OwnTtl
  <2>2. x = base + z + d
    BY <1>1
  <2> HIDE DEF z, k
  <2>3. QED
    BY ONLY <2>1, <2>2, Zenon
<1>8. i - 1 \in 0..(k - 1) /\ z \in Nat /\ d \in Nat
  <2>1. i - 1 \in 0..(k - 1)
    BY <1>1
  <2> HIDE DEF base
  <2>2. QED
    BY <1>1, <1>2, <2>1, OwnTtl
<1>9. CASE d \in 7..10
  <2> DEFINE o == base + z + 6
  <2>1. TtlsAt(b, x) = {o}
    <3>1. TtlsAt(b, x) = {e \in {base + ends[j] + 6 : j \in 0..(k - 1)} : TtlCovers(e, x)}
      BY <1>6 DEF TtlsAt
    <3> HIDE DEF base
    <3>2. \A j \in 0..(k - 1) : TtlCovers(base + ends[j] + 6, x) <=> j = i - 1
      BY <1>7, <1>9
    <3>3. QED
      BY <1>8, <3>1, <3>2
  <2>2. (CHOOSE e \in TtlsAt(b, x) : TRUE) = o /\ TtlsAt(b, x) # {}
    <3> HIDE DEF o
    <3>1. QED
      BY <2>1
  <2>3. x - o = d - 6
    <3>1. x = base + z + d
      BY <1>1
    <3> HIDE DEF base, z
    <3>2. QED
      BY <1>2, <1>8, <3>1
  <2> HIDE DEF o
  <2>4. QED
    BY <1>5, <1>9, <2>2, <2>3 DEF RewrittenByte
<1>10. CASE ~(d \in 7..10)
  <2>1. TtlsAt(b, x) = {}
    <3>1. TtlsAt(b, x) = {e \in {base + ends[j] + 6 : j \in 0..(k - 1)} : TtlCovers(e, x)}
      BY <1>6 DEF TtlsAt
    <3> HIDE DEF base
    <3>2. \A j \in 0..(k - 1) : ~(TtlCovers(base + ends[j] + 6, x))
      BY <1>7, <1>10
    <3>3. QED
      BY <3>1, <3>2
  <2>2. QED
    BY <1>4, <1>5, <1>10, <2>1 DEF RewrittenByte
<1>11. QED
  BY <1>9, <1>10

\* Overwriting the TTLs makes the packet that would have been written with them.
LEMMA RewrittenIsWritten ==
    ASSUME NEW qs \in Seq(PlainQuestions), Len(qs) \in U16Values,
           NEW b, NEW p, NEW q, NEW rs, NEW off, NEW ends, Shape(b, p, q, qs, rs, off, ends),
           NEW r \in Seq(Byte), NEW ts, RenewedFrom(ts, rs), ResponseIs(r, b, qs, ts, off, ends)
    PROVE  TtlRewritten(b, NewTtl) = SubSeq(r, 1, Len(b))
<1> DEFINE a == off[Len(qs)]
           c == ends[Len(rs)]
           ws == WrittenAnswers(rs)
           t == SubSeq(r, 1, Len(b))
<1>1. /\ a \in Nat /\ Len(rs) \in Nat /\ rs \in Seq(AnswerRecords) /\ Sums(ends, ws)
      /\ Len(p) = Header + a + c /\ Len(b) <= Len(p)
      /\ b \in Seq(Byte) /\ Len(b) \in Nat
  BY DEF Shape, ResponseIs
<1>2. ws \in Seq(Seq(Byte)) /\ Len(ws) = Len(rs) /\ \A i \in 1..Len(rs) : ws[i] = WrittenAnswer(rs[i])
  BY <1>1, AnswersWritten
<1>3. c \in Nat /\ Len(r) = Header + a + c /\ Len(ts) = Len(rs)
  <2> HIDE DEF ws
  <2>1. c \in Nat
    <3>1. Len(rs) \in 0..Len(ws) /\ Len(ws) \in Len(rs)..Len(ws)
      BY <1>1, <1>2
    <3>2. QED
      BY <1>1, <1>2, <3>1, SumsGrow
  <2>2. QED
    BY <2>1 DEF ResponseIs, RenewedFrom
<1>4. ASSUME NEW x \in 1..Len(b) PROVE r[x] = RewrittenByte(b, x)
  <2>1. CASE x <= Header + a
    <3>1. x \in 1..(Header + a)
      BY <1>1, <2>1 DEF Header
    <3>2. r[x] = b[x]
      BY <1>3, <3>1, BytesBefore
    <3>3. TtlsAt(b, x) = {}
      <4>1. TtlOffsets(b) = {Header + a + ends[j] + 6 : j \in 0..(Len(rs) - 1)}
        BY TtlsFound
      <4>2. \A j \in 0..(Len(rs) - 1) : ends[j] \in Nat
        <5> SUFFICES ASSUME NEW j \in 0..(Len(rs) - 1) PROVE ends[j] \in Nat
          OBVIOUS
        <5> HIDE DEF ws
        <5>1. j \in 0..Len(ws) /\ Len(ws) \in j..Len(ws)
          BY <1>1, <1>2
        <5>2. QED
          BY <1>1, <1>2, <5>1, SumsGrow
      <4>3. \A j \in 0..(Len(rs) - 1) : ~(x - 1 - (Header + a + ends[j] + 6) \in 0..3)
        <5> SUFFICES ASSUME NEW j \in 0..(Len(rs) - 1) PROVE ~(x - 1 - (Header + a + ends[j] + 6) \in 0..3)
          OBVIOUS
        <5> DEFINE y == ends[j]
        <5>1. y \in Nat /\ x \in Nat
          BY <1>1, <4>2
        <5> HIDE DEF y, a
        <5>2. ~(x - 1 - (Header + a + y + 6) \in 0..3)
          BY <1>1, <2>1, <5>1 DEF Header
        <5>3. QED
          BY <5>2 DEF y
      <4> HIDE DEF a
      <4>4. QED
        BY <4>1, <4>3 DEF TtlsAt, TtlCovers
    <3>4. QED
      BY <3>2, <3>3 DEF RewrittenByte
  <2>2. CASE ~(x <= Header + a)
    <3> DEFINE y == x - (Header + a)
    <3>1. y \in 1..c
      <4> HIDE DEF a, c
      <4>1. QED
        BY <1>1, <1>3, <2>2 DEF Header
    <3>2. InPiece(y, ends, ws)
      <4> HIDE DEF ws
      <4>1. y \in 1..ends[Len(ws)]
        BY <1>2, <3>1
      <4>2. QED
        BY <1>1, <1>2, <4>1, PieceFound
    <3> HIDE DEF ws
    <3>3. PICK i \in 1..Len(ws) : \E d \in 1..Len(ws[i]) : y = ends[i - 1] + d
      BY <3>2 DEF InPiece
    <3>4. PICK d \in 1..Len(ws[i]) : y = ends[i - 1] + d
      BY <3>3
    <3>5. i \in 1..Len(rs) /\ d \in 1..Len(WrittenAnswer(rs[i]))
      BY <1>2
    <3>6. x = Header + a + ends[i - 1] + d
      <4> DEFINE o == ends[i - 1]
      <4>1. o \in Nat /\ d \in Nat
        BY <1>1, <1>2, SumsStep
      <4>2. y = o + d
        BY <3>4
      <4> HIDE DEF o, a
      <4>3. x = Header + a + o + d
        BY <1>1, <4>1, <4>2 DEF Header
      <4>4. QED
        BY <4>3 DEF o
    <3>7. InAnswer(x, i, d, qs, rs, off, ends)
      BY <3>5, <3>6 DEF InAnswer
    <3>8. QED
      BY <3>7, BytesWithin
  <2>3. QED
    BY <2>1, <2>2
<1>5. TtlRewritten(b, NewTtl) = [x \in 1..Len(b) |-> RewrittenByte(b, x)]
  BY <1>1, TtlRewrittenIs
<1>6. t \in Seq(Byte) /\ Len(t) = Len(b) /\ \A x \in 1..Len(b) : t[x] = r[x]
  <2>1. Len(b) <= Len(r)
    BY <1>1, <1>3
  <2>2. \A x \in 1..Len(b) : r[x] \in Byte
    BY <1>1, <2>1
  <2>3. 1 \in Int /\ Len(b) \in Int
    BY <1>1
  <2>4. /\ t \in Seq(Byte) /\ Len(t) = IF 1 <= Len(b) THEN Len(b) - 1 + 1 ELSE 0
        /\ \A x \in 1..(Len(b) - 1 + 1) : t[x] = r[1 + x - 1]
    BY ONLY <2>2, <2>3, SubSeqProperties
  <2> HIDE DEF t
  <2>5. QED
    BY <1>1, <2>4
<1> HIDE DEF t
<1>7. t = [x \in 1..Len(b) |-> t[x]]
  BY <1>6
<1>8. [x \in 1..Len(b) |-> t[x]] = [x \in 1..Len(b) |-> RewrittenByte(b, x)]
  BY <1>4, <1>6
<1>9. QED
  BY <1>5, <1>7, <1>8 DEF t

\* Whatever is answered, the response in the cache is the one that would have
\* been written with the cache's TTL.
THEOREM CacheChangesOnlyTtls == WireSpec => []OnlyTtlsAreRewritten
<1>1. ResponseInv => OnlyTtlsAreRewritten
  <2> SUFFICES ASSUME ResponseInv, role = "response", status # "thrown", Plain(asked)
               PROVE  TtlRewritten(buf, NewTtl) = SubSeq(ResponsePacket(buf, asked, RenewedAll(answers)), 1, Len(buf))
    BY DEF OnlyTtlsAreRewritten, RenewedAll
  <2> DEFINE ts == RenewedAll(answers)
             rs == Sendable(answers)
             r == ResponsePacket(buf, asked, ts)
  <2>1. asked \in Seq(QuestionsRead) /\ Len(asked) \in U16Values /\ answers \in AnswerLists
    BY DEF ResponseInv, Answered
  <2>2. PICK q : ResponseTo(buf, q, asked, answers)
    BY DEF ResponseInv, Answered
  <2>3. asked \in Seq(PlainQuestions)
    BY <2>1, PlainAre
  <2>4. PICK off, ends : Shape(buf, ResponsePacket(q, asked, answers), q, asked, rs, off, ends)
    BY <2>1, <2>2, <2>3, ShapeExists
  <2>5. /\ Sums(off, WrittenQuestions(asked)) /\ off[Len(asked)] \in Nat /\ Sums(ends, WrittenAnswers(rs))
        /\ rs \in Seq(AnswerRecords) /\ Len(rs) \in U16Values /\ Len(rs) \in Nat
        /\ buf \in Seq(Byte) /\ Len(buf) \in Nat /\ Header + off[Len(asked)] <= Len(buf)
    BY <2>4 DEF Shape
  <2>6. answers \in Seq(AnswerRecords)
    BY <2>1, AnswersAssumption DEF AnswerRecords
  <2>7. /\ ts \in Seq(AnswerRecords) /\ Len(Sendable(ts)) = Len(rs)
        /\ \A i \in 1..Len(rs) : Sendable(ts)[i] = Renewed(rs[i])
    BY <2>6, SendableRenewed
  <2> HIDE DEF ts, rs
  <2>8. Sendable(ts) \in Seq(AnswerRecords)
    BY <2>7, SendableIs
  <2>9. Sums(ends, WrittenAnswers(Sendable(ts)))
    <3>1. /\ Len(WrittenAnswers(rs)) = Len(rs)
          /\ \A i \in 1..Len(rs) : WrittenAnswers(rs)[i] = WrittenAnswer(rs[i]) /\ rs[i] \in AnswerRecords
      BY <2>5, AnswersWritten
    <3>2. /\ Len(WrittenAnswers(Sendable(ts))) = Len(rs)
          /\ \A i \in 1..Len(rs) : WrittenAnswers(Sendable(ts))[i] = WrittenAnswer(Renewed(rs[i]))
      BY <2>7, <2>8, AnswersWritten
    <3>3. \A i \in 1..Len(rs) : Len(WrittenAnswers(Sendable(ts))[i]) = Len(WrittenAnswers(rs)[i])
      BY <3>1, <3>2, AnswerRenewed
    <3>4. QED
      BY <2>5, <3>1, <3>2, <3>3 DEF Sums
  <2>10. Len(buf) >= Header
    BY <2>5 DEF Header
  <2>11. r \in Seq(Byte) /\ ResponseIs(r, buf, asked, Sendable(ts), off, ends)
    <3>1. Bytes16(Len(Sendable(ts))) \in Pairs(Byte)
      BY <2>5, <2>7, NumberIsPair
    <3>2. QED
      BY <2>1, <2>3, <2>5, <2>8, <2>9, <2>10, <3>1, ResponseWritten
  <2>14. RenewedFrom(Sendable(ts), rs)
    BY <2>7 DEF RenewedFrom
  <2>12. TtlRewritten(buf, NewTtl) = SubSeq(r, 1, Len(buf))
    <3> HIDE DEF r
    <3>1. QED
      BY <2>1, <2>3, <2>4, <2>11, <2>14, RewrittenIsWritten
  <2>13. QED
    BY <2>12 DEF ts
<1>2. QED
  BY <1>1, ResponseInvariant, PTL
=============================================================================
