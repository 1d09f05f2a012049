---------------------------- MODULE PacketReader ----------------------------
(***************************************************************************)
(* extractQuestions: the questions of a DNS packet, read label by label and*)
(* pointer by pointer.  A step is one turn of the loop in readDomainName;  *)
(* the last turn of a name also reads type and class behind it.            *)
(*                                                                         *)
(* A packet is a sequence of bytes; offsets count from 0 as in the code.   *)
(***************************************************************************)
EXTENDS Integers, Sequences

CONSTANTS
    Packets,       \* what is read, all of 12 bytes at least
    MaxJumps       \* MAX_JUMPS, 5

Byte == 0..255
Header == 12
NoOffset == -1

ASSUME PacketsAssumption == \A p \in Packets : p \in Seq(Byte) /\ Len(p) >= Header
ASSUME MaxJumpsAssumption == MaxJumps \in Nat

VARIABLES
    buf,           \* the packet
    status,        \* "reading", "read", or "thrown" by an encoder
    left,          \* the questions of the count in the header still to read
    pos,           \* currentOffset of readDomainName
    jumps,         \* the pointers followed for this name
    saved,         \* savedOffset: behind the first pointer of this name
    labels,        \* the labels of this name
    questions,     \* the questions read
    regular        \* history: no name was broken off or led into the header

readerVars == <<buf, status, left, pos, jumps, saved, labels, questions, regular>>

At(b, o) == b[o + 1]
U16(b, o) == At(b, o) * 256 + At(b, o + 1)

\* The classes parseQuestion takes: IN and ANY.
Classes == {1, 255}

-----------------------------------------------------------------------------

\* The reader sets out on packet b.
Begin(b) ==
    /\ buf' = b
    /\ status' = IF U16(b, 4) = 0 THEN "read" ELSE "reading"
    /\ left' = U16(b, 4)
    /\ pos' = Header
    /\ jumps' = 0 /\ saved' = NoOffset /\ labels' = <<>>
    /\ questions' = <<>>
    /\ regular' = TRUE

ReaderInit ==
    /\ buf \in Packets
    /\ status = IF U16(buf, 4) = 0 THEN "read" ELSE "reading"
    /\ left = U16(buf, 4)
    /\ pos = Header
    /\ jumps = 0 /\ saved = NoOffset /\ labels = <<>>
    /\ questions = <<>>
    /\ regular = TRUE

\* readDomainName returns, having read up to "end", and parseQuestion reads
\* type and class; a question that is cut or of another class ends the list.
EndName(end, broken) ==
    LET o == IF saved = NoOffset THEN end ELSE saved
        whole == o + 4 <= Len(buf) /\ U16(buf, o + 2) \in Classes
    IN  /\ regular' = (regular /\ ~broken /\ whole)
        /\ questions' = IF whole THEN Append(questions, [name |-> labels, type |-> U16(buf, o)])
                        ELSE questions
        /\ status' = IF whole /\ left > 1 THEN "reading" ELSE "read"
        /\ left' = IF whole THEN left - 1 ELSE left
        /\ pos' = IF whole THEN o + 4 ELSE o
        /\ jumps' = 0 /\ saved' = NoOffset /\ labels' = <<>>
        /\ UNCHANGED buf

Reading == status = "reading"
Inside == Reading /\ pos < Len(buf)

PastEnd == Reading /\ pos >= Len(buf) /\ EndName(pos, TRUE)

Root == Inside /\ At(buf, pos) = 0 /\ EndName(pos + 1, FALSE)

\* A pointer too many, or one whose second byte is missing.
BadPointer ==
    /\ Inside /\ At(buf, pos) >= 192
    /\ jumps = MaxJumps \/ pos + 1 >= Len(buf)
    /\ EndName(pos + 1, TRUE)

PointerUncounted ==
    /\ Inside /\ At(buf, pos) >= 192
    /\ jumps < MaxJumps /\ pos + 1 < Len(buf)
    /\ saved' = IF saved = NoOffset THEN pos + 2 ELSE saved
    /\ pos' = (At(buf, pos) - 192) * 256 + At(buf, pos + 1)
    /\ UNCHANGED <<buf, status, left, jumps, labels, questions, regular>>

Pointer ==
    /\ Inside /\ At(buf, pos) >= 192
    /\ jumps < MaxJumps /\ pos + 1 < Len(buf)
    /\ jumps' = jumps + 1
    /\ saved' = IF saved = NoOffset THEN pos + 2 ELSE saved
    /\ pos' = (At(buf, pos) - 192) * 256 + At(buf, pos + 1)
    /\ regular' = (regular /\ pos' >= Header)
    /\ UNCHANGED <<buf, status, left, labels, questions>>

\* More than 63 bytes, or more than are left.
BadLabel ==
    /\ Inside /\ At(buf, pos) \in 1..191
    /\ At(buf, pos) > 63 \/ pos + 1 + At(buf, pos) > Len(buf)
    /\ EndName(pos + 1, TRUE)

Label ==
    /\ Inside /\ At(buf, pos) \in 1..63
    /\ pos + 1 + At(buf, pos) <= Len(buf)
    /\ labels' = Append(labels, SubSeq(buf, pos + 2, pos + 1 + At(buf, pos)))
    /\ pos' = pos + 1 + At(buf, pos)
    /\ UNCHANGED <<buf, status, left, jumps, saved, questions, regular>>

ReadOn == PastEnd \/ Root \/ BadPointer \/ Pointer \/ BadLabel \/ Label

\* Some packet being read, and nothing else.
ReaderSpec == ReaderInit /\ [][ReadOn]_readerVars

-----------------------------------------------------------------------------

\* Types, and that no name leads out of the packet: wherever its pointers lead,
\* the next question begins within the packet or at its end.
ReaderTypeOK ==
    /\ buf \in Seq(Byte) /\ Len(buf) >= Header
    /\ status \in {"reading", "read", "thrown"}
    /\ left \in Nat /\ pos \in Nat
    /\ jumps \in 0..MaxJumps
    /\ jumps = 0 => saved = NoOffset /\ pos <= Len(buf)
    /\ jumps > 0 => saved \in Header..Len(buf)

\* A packet is read in finitely many steps, whatever its pointers point to:
\* each step ends a question, follows a pointer of the few allowed, or moves on.
EveryStepAdvances ==
    [][ReadOn => \/ left' < left \/ status' = "read"
                 \/ left' = left /\ jumps' > jumps
                 \/ left' = left /\ jumps' = jumps /\ pos' > pos]_readerVars
=============================================================================
