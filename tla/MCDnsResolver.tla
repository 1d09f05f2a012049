---------------------------- MODULE MCDnsResolver ----------------------------
(* Small instances of DnsResolver: a host with an A and a PTR record, asked  *)
(* for in two spellings, hosts of two wildcards, one below the other, an     *)
(* unknown name, a denied one, and queries of two questions, of none and one *)
(* that is malformed.                                                        *)
EXTENDS DnsResolver

MCLower(label) == IF label = "WWW" THEN "www" ELSE label

Host    == <<"www", "a", "z">>
Spelt   == <<"WWW", "a", "z">>
Nested  == <<"x", "y", "a", "z">>
Other   == <<"x", "z">>
Unknown == <<"x", "u">>
Bad     == <<"bad">>

MCDenied == {Bad}

Record(t, d) == [type |-> t, data |-> d]

MCHosts ==
    [k \in {Exact(Host), Under(<<"a", "z">>), Under(<<"z">>)} |->
        IF k = Exact(Host) THEN <<Record("A", 1), Record("PTR", 2)>>
        ELSE IF k = Under(<<"z">>) THEN <<Record("A", 3)>>
        ELSE <<Record("A", 4)>>]

Ask(n, t) == [name |-> n, type |-> t]

MCQueries ==
    {[id |-> 1, wellFormed |-> TRUE, questions |-> qs] : qs \in {
        <<Ask(Host, "A")>>, <<Ask(Spelt, "A")>>, <<Ask(Host, "PTR")>>,
        <<Ask(Nested, "A")>>, <<Ask(Other, "A")>>, <<Ask(Unknown, "A")>>, <<Ask(Bad, "A")>>,
        <<Ask(Unknown, "A"), Ask(Host, "A")>>, <<>>}}
    \cup {[id |-> 1, wellFormed |-> FALSE, questions |-> <<>>]}
=============================================================================
