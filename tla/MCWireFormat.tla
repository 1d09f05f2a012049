---------------------------- MODULE MCWireFormat ----------------------------
(* Small instances of WireFormat: queries of one and two questions whose     *)
(* names are of every kind the reader tells apart, cut at the end, and one    *)
(* that leaves no room for an OPT record.                                    *)
EXTENDS WireFormat

Head12(count) == <<7, 7, 1, 0, 0, count, 0, 0, 0, 0, 0, 0>>

\* The first question begins at offset 12.  Two labels, one label and the root;
\* pointers to the start (a loop, for the first question), to the label at 14,
\* to the header and behind the first question; labels that are malformed or
\* not plain.
Names == {
    <<1, 65, 1, 98, 0>>, <<1, 66, 0>>, <<0>>,
    <<192, 12>>, <<1, 97, 192, 14>>, <<192, 0>>, <<192, 18>>, <<1, 67, 192, 12>>, <<192>>,
    <<64, 65>>, <<3, 65>>, <<1, 200, 0>>, <<3, 65, 46, 66, 0>> }

Tails == {<<0, 1, 0, 1>>, <<0, 65, 0, 255>>, <<0, 1, 0, 3>>, <<0, 1, 0>>}

MCQueries ==
    {Head12(1) \o n \o t : n \in Names, t \in Tails}
    \cup {Head12(2) \o n \o <<0, 1, 0, 1>> \o m \o t : n, m \in Names, t \in Tails}
    \cup {Head12(0)}
    \cup {Head12(1) \o <<1, 66, 0>> \o <<0, 1, 0, 1>> \o [i \in 1..40 |-> 0]}

Record(t, d) == [type |-> t, ttl |-> 300, data |-> d]

MCAnswerLists == {
    <<>>, <<Record(1, <<1, 2, 3, 4>>)>>, <<Record(12, <<>>), Record(16, <<1, 65>>)>>,
    <<Record(1, <<1, 2, 3, 4>>), Record(1, <<5, 6, 7, 8>>)>> }
=============================================================================
