------------------------------ MODULE HostTable ------------------------------
(***************************************************************************)
(* How a configured host is found by a name: by the name itself, or by the *)
(* longest of its suffixes that has a wildcard entry.  The DNS server, the *)
(* HTTP handler, its name resolution and the SNI proxy share the idea and  *)
(* differ in the wildcards they take.                                      *)
(*                                                                         *)
(* A name is the sequence of its labels, none of which is "*"; a table is a*)
(* function from keys, which validateServerConfig has put in lower case.   *)
(***************************************************************************)
EXTENDS Naturals, Sequences, FiniteSetsExt

CONSTANTS
    Lower(_),      \* a label in lower case
    NoHost         \* undefined: no entry of the table

Exact(name) == [wild |-> FALSE, labels |-> name]

\* The key "*." and the suffix; "*" itself when the suffix is empty.
Under(suffix) == [wild |-> TRUE, labels |-> suffix]

\* normalizeHost: in lower case, without the dot of the root.
Normalized(name) == [i \in DOMAIN name |-> Lower(name[i])]

Suffix(name, i) == SubSeq(name, i, Len(name))

\* The wildcard of the longest suffix, of at least "least" labels.
ShortestWildcard(table, name, least) ==
    LET found == {i \in 1..(Len(name) + 1 - least) : Under(Suffix(name, i)) \in DOMAIN table}
    IN  IF found = {} THEN NoHost ELSE table[Under(Suffix(name, Max(found)))]

Wildcard(table, name, least) ==
    LET found == {i \in 1..(Len(name) + 1 - least) : Under(Suffix(name, i)) \in DOMAIN table}
    IN  IF found = {} THEN NoHost ELSE table[Under(Suffix(name, Min(found)))]

\* findHostConfig of the DNS server: any wildcard, and "*" for all names.
FindHost(table, name) ==
    IF Exact(name) \in DOMAIN table THEN table[Exact(name)] ELSE Wildcard(table, name, 0)

\* resolveHost of the HTTP proxy: no wildcard of one label, and no "*".
ProxyHost(table, name) ==
    IF Exact(name) \in DOMAIN table THEN table[Exact(name)] ELSE Wildcard(table, name, 2)

\* The HTTP handler's own lookup: the Host header as it was spelt, then the
\* wildcards of its normalised form.
RoutedHost(table, spelt) ==
    IF Exact(spelt) \in DOMAIN table THEN table[Exact(spelt)]
    ELSE Wildcard(table, Normalized(spelt), 2)

-----------------------------------------------------------------------------

\* What a key is meant to match: its own name, or every name that ends in it.
Covers(key, name) ==
    IF key.wild THEN \E i \in 1..(Len(name) + 1) : key.labels = Suffix(name, i)
    ELSE key.labels = name

\* The reference for FindHost: of the keys that match, one that says most about
\* the name, an exact one before any wildcard.
ClosestHosts(table, name) ==
    LET matching == {k \in DOMAIN table : Covers(k, name)}
        closest  == {k \in matching : \A l \in matching :
                        ~k.wild \/ (l.wild /\ Len(l.labels) <= Len(k.labels))}
    IN  IF matching = {} THEN {NoHost} ELSE {table[k] : k \in closest}
=============================================================================
