----------------------------- MODULE WireFormat -----------------------------
(***************************************************************************)
(* DNS packets as zonzon changes and writes them: a query with the case of *)
(* its letters drawn anew and an OPT record added, as it is forwarded; the *)
(* response written from the questions of a query; and the response whose  *)
(* TTLs were overwritten for the cache.  Each is read back by PacketReader.*)
(*                                                                         *)
(* A byte above 127 stands for one that begins no UTF-8 sequence.          *)
(***************************************************************************)
EXTENDS PacketReader, SequencesExt

CONSTANTS
    AnswerLists,   \* sequences of records to answer with
    Capacity       \* the size of the encoder's buffer, 4096

U16Values == 0..65535

\* A record as it is written; its data were made by an encoder too.
Records == [type : U16Values, ttl : U16Values, data : Seq(Byte)]

ASSUME CapacityAssumption == Capacity \in Header..65535
ASSUME AnswersAssumption ==
    AnswerLists \subseteq Seq({r \in Records : Len(r.data) <= 65535})

VARIABLES
    role,          \* what is being read: "query", "forwarded" or "response"
    asked,         \* history: the questions of the query
    sound,         \* history: whether the query was regular, and its text no pointer
    answers        \* history: the records answered with

wireVars == <<readerVars, role, asked, sound, answers>>

Bytes16(n) == <<n \div 256, n % 256>>

-----------------------------------------------------------------------------
(* What is made of a packet or of its questions.                            *)

Letters == (65..90) \cup (97..122)
LowerByte(c) == IF c \in 65..90 THEN c + 32 ELSE c
UpperByte(c) == IF c \in 97..122 THEN c - 32 ELSE c

\* The walk of apply0x20Encoding over a packet: where each offset's name ends
\* and which bytes of its labels it goes over.  Past the end is the end.
WalkShort(b) ==
    LET E == Len(b)
        Cut(o) == IF o > E THEN E ELSE o
        name[o \in 0..E] ==
            IF o = E THEN [end |-> E, over |-> {}]
            ELSE IF At(b, o) = 0 \/ At(b, o) >= 192 THEN [end |-> o + 1, over |-> {}]
            ELSE LET next == Cut(o + 1 + At(b, o))
                 IN  [end |-> name[next].end, over |-> ((o + 1)..(next - 1)) \cup name[next].over]
    IN  name

Walk(b) ==
    LET E == Len(b)
        Cut(o) == IF o > E THEN E ELSE o
        name[o \in 0..E] ==
            IF o = E THEN [end |-> E, over |-> {}]
            ELSE IF At(b, o) = 0 THEN [end |-> o + 1, over |-> {}]
            ELSE IF At(b, o) >= 192 THEN [end |-> Cut(o + 2), over |-> {}]
            ELSE LET next == Cut(o + 1 + At(b, o))
                 IN  [end |-> name[next].end, over |-> ((o + 1)..(next - 1)) \cup name[next].over]
    IN  name

\* The same over the first i questions, with their types and classes.
PastType(b, o) == IF o + 4 <= Len(b) THEN o + 4 ELSE o

WalkOn(b) ==
    LET upTo[i \in 0..U16(b, 4)] ==
            IF i = 0 THEN [end |-> Header, over |-> {}]
            ELSE LET w == Walk(b)[upTo[i - 1].end]
                 IN  [end |-> PastType(b, w.end), over |-> upTo[i - 1].over \cup w.over]
    IN  upTo

\* The bytes whose case apply0x20Encoding draws.
Drawn(b) == {o \in WalkOn(b)[U16(b, 4)].over : At(b, o) \in Letters}

Recased(b, upper) ==
    [i \in DOMAIN b |->
        IF (i - 1) \in upper THEN UpperByte(b[i])
        ELSE IF (i - 1) \in Drawn(b) THEN LowerByte(b[i]) ELSE b[i]]

\* A pointer that leads into a label may find a pointer in its bytes, and that
\* one changes with the case of a letter; in UTF-8 no letter follows such a byte.
TextIsNoPointer(b) == \A o \in Drawn(b) : At(b, o - 1) < 192

WithId(b, id) == Bytes16(id) \o SubSeq(b, 3, Len(b))

\* appendEdns0DoBit: an OPT record, unless the query has an additional one.
OptRecord == <<0, 0, 41, 16, 0, 0, 0, 128, 0, 0, 0>>

WithOpt(b) ==
    IF U16(b, 10) > 0 THEN b ELSE [b EXCEPT ![11] = 0, ![12] = 1] \o OptRecord

\* The encoder throws where there is no room for the record.
RoomForOpt(b) == U16(b, 10) > 0 \/ Len(b) + Len(OptRecord) <= Capacity

\* A label decoded as UTF-8 and encoded again, a dot in it ending a label: the
\* replacement character takes three bytes, and the length counts characters.
Encoded(label) ==
    FlattenSeq([i \in DOMAIN label |->
        IF label[i] > 127 THEN <<239, 191, 189>> ELSE <<LowerByte(label[i])>>])

WrittenLabel(label) ==
    LET dots == {i \in DOMAIN label : label[i] = 46}
        part(i) == LET ends == {j \in dots : j >= i} \cup {Len(label) + 1}
                   IN  SubSeq(label, i, (CHOOSE j \in ends : \A k \in ends : j <= k) - 1)
        starts == {1} \cup {i + 1 : i \in dots}
    IN  FlattenSeq([i \in 1..(Len(label) + 1) |->
            IF i \in starts /\ part(i) # <<>> THEN <<Len(part(i))>> \o Encoded(part(i)) ELSE <<>>])

\* writeDomainName.
WrittenNameOpen(name) == FlattenSeq([i \in DOMAIN name |-> WrittenLabel(name[i])])

WrittenName(name) == FlattenSeq([i \in DOMAIN name |-> WrittenLabel(name[i])]) \o <<0>>

WrittenQuestion(q) == WrittenName(q.name) \o Bytes16(q.type) \o Bytes16(1)

\* buildResponsePacket, for a query whose flags are RD.  The name of an answer
\* is a pointer to the first question's; an answer of no data is passed over.
WrittenAnswer(r) ==
    <<192, Header>> \o Bytes16(r.type) \o Bytes16(1) \o <<0, 0>> \o Bytes16(r.ttl)
        \o Bytes16(Len(r.data)) \o r.data

Sendable(rs) == FlattenSeq([i \in DOMAIN rs |-> IF Len(rs[i].data) < 2 THEN <<>> ELSE <<rs[i]>>])

ResponsePacket(q, qs, rs) ==
    SubSeq(q, 1, 2) \o <<133, 0>> \o Bytes16(Len(qs)) \o Bytes16(Len(Sendable(rs)))
        \o <<0, 0, 0, 0>> \o FlattenSeq([i \in DOMAIN qs |-> WrittenQuestion(qs[i])])
        \o FlattenSeq([i \in DOMAIN Sendable(rs) |-> WrittenAnswer(Sendable(rs)[i])])

\* The encoder copies bytes up to the end of its buffer and throws on a number
\* beyond it: only the data of the last answer may be cut.
LastData(rs) ==
    IF Sendable(rs) = <<>> THEN 0 ELSE Len(Sendable(rs)[Len(Sendable(rs))].data)

\* skipQuestionSection: the same offset where it cannot skip.
SkippedName(b, o) ==
    LET E == Len(b)
        end[p \in 0..E] ==
            IF p = E THEN p
            ELSE IF At(b, p) = 0 THEN p + 1
            ELSE IF At(b, p) >= 192 THEN p + 2
            ELSE end[p + 1 + At(b, p)]
    IN  end[o]

Skipped(b, o) ==
    LET E == Len(b)
        end[p \in 0..E] ==
            IF p = E THEN p
            ELSE IF At(b, p) = 0 THEN p + 1
            ELSE IF At(b, p) >= 192 THEN (IF p + 1 >= E THEN NoOffset ELSE p + 2)
            ELSE IF p + 1 + At(b, p) > E THEN NoOffset
            ELSE end[p + 1 + At(b, p)]
    IN  IF end[o] = NoOffset \/ end[o] + 4 > E THEN o ELSE end[o] + 4

\* rewriteResponseTtl: the offsets of the TTLs, and the packet with a new one.
TtlOffsets(b) ==
    LET afterQuestions[i \in 0..U16(b, 4)] ==
            IF i = 0 THEN Header ELSE Skipped(b, afterQuestions[i - 1])
        answer[i \in 0..U16(b, 6)] ==
            IF i = 0 THEN afterQuestions[U16(b, 4)]
            ELSE LET o == answer[i - 1]
                 IN  IF o + 12 > Len(b) THEN Len(b) ELSE o + 12 + U16(b, o + 10)
    IN  {answer[i] + 6 : i \in {j \in 0..(U16(b, 6) - 1) : answer[j] + 12 <= Len(b)}}

TtlRewritten(b, ttl) ==
    LET new == <<0, 0>> \o Bytes16(ttl)
        at(i) == {o \in TtlOffsets(b) : i - 1 - o \in 0..3}
    IN  [i \in DOMAIN b |->
            IF at(i) = {} THEN b[i] ELSE new[i - (CHOOSE o \in at(i) : TRUE)]]

-----------------------------------------------------------------------------

WireInit ==
    /\ ReaderInit
    /\ role = "query" /\ asked = <<>> /\ sound = TRUE /\ answers = <<>>

Throw ==
    /\ status' = "thrown"
    /\ UNCHANGED <<buf, left, pos, jumps, saved, labels, questions, regular>>

\* The query goes on to the upstream resolver under an ID of its own, and is
\* read again for the names its answer has to repeat.
Forward ==
    /\ status = "read" /\ role = "query"
    /\ role' = "forwarded" /\ asked' = questions /\ sound' = (regular /\ TextIsNoPointer(buf))
    /\ UNCHANGED answers
    /\ IF RoomForOpt(buf)
       THEN \E upper \in SUBSET Drawn(buf) : Begin(WithOpt(WithId(Recased(buf, upper), 9)))
       ELSE Throw

\* The query is answered here, and the client reads the response.
RespondTo(rs) ==
    LET packet == ResponsePacket(buf, questions, rs) IN
    /\ status = "read" /\ role = "query" /\ questions # <<>>
    /\ role' = "response" /\ asked' = questions /\ sound' = regular /\ answers' = rs
    /\ IF Len(packet) - LastData(rs) <= Capacity
       THEN Begin(SubSeq(packet, 1, IF Len(packet) <= Capacity THEN Len(packet) ELSE Capacity))
       ELSE Throw

WireNext ==
    \/ ReadOn /\ UNCHANGED <<role, asked, sound, answers>>
    \/ Forward
    \/ \E rs \in AnswerLists : RespondTo(rs)

WireSpec == WireInit /\ [][WireNext]_wireVars

-----------------------------------------------------------------------------

Folded(qs) ==
    [i \in DOMAIN qs |->
        [qs[i] EXCEPT !.name = [j \in DOMAIN @ |-> [k \in DOMAIN @[j] |-> LowerByte(@[j][k])]]]]

\* A query is forwarded with the questions it was asked with, but for the case
\* of the letters: the walk that draws cases changes no length and no type,
\* although it is another one than the reader's.  Only of a sound query: no
\* name of it is broken off or led into the header by a pointer, and no byte in
\* front of a letter looks like a pointer.
ForwardedAsAsked ==
    role = "forwarded" /\ status = "read" /\ sound =>
        regular /\ Folded(questions) = Folded(asked)

\* Names of letters, digits and hyphens, as opposed to any bytes.
Plain(qs) ==
    \A i \in DOMAIN qs : \A j \in DOMAIN qs[i].name : \A k \in DOMAIN qs[i].name[j] :
        qs[i].name[j][k] # 46 /\ qs[i].name[j][k] <= 127

\* A client that asked for plain names reads its questions, in lower case, in
\* the response, compressed as the query may have been.
ResponsesReadBack ==
    role = "response" /\ status = "read" /\ Plain(asked) =>
        regular /\ questions = Folded(asked)

\* The response kept in the cache is the one that would have been written with
\* the cache's TTL: no other byte of it changes.
NewTtl == 515
OnlyTtlsAreRewritten ==
    role = "response" /\ status # "thrown" /\ Plain(asked) =>
        TtlRewritten(buf, NewTtl) =
            SubSeq(ResponsePacket(buf, asked, [i \in DOMAIN answers |-> [answers[i] EXCEPT !.ttl = NewTtl]]),
                   1, Len(buf))
=============================================================================
