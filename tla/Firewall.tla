------------------------------ MODULE Firewall ------------------------------
(***************************************************************************)
(* FirewallEngine: the verdicts on names and addresses.                    *)
(*                                                                         *)
(* An address is a record: of an IPv4 address [family, body], its body the *)
(* four octets; of an IPv6 address, which can be written in many ways,     *)
(*   body    the eight groups of 16 bits,                                  *)
(*   begun   whether the text begins like the shortest one, as far as the  *)
(*           first group that is not zero; :: and ::1 are no other text    *)
(*   dotted  whether the last two groups are written as a dotted quad,     *)
(*   text    which of the texts left it is, 0 for the usual one;           *)
(* "text" with nothing, for anything that is no address.  So two addresses *)
(* are equal when their texts are.  Zones (%eth0) are left out.            *)
(*                                                                         *)
(* A name is the sequence of its labels in lower case.                     *)
(***************************************************************************)
EXTENDS Integers, Sequences

Octets == [1..4 -> 0..255]
Words == 0..\hFFFF
Groups == [1..8 -> Words]

V4(a, b, c, d) == [family |-> "v4", body |-> <<a, b, c, d>>]

\* An IPv6 address in its usual text.
V6(groups) == [family |-> "v6", body |-> groups, begun |-> TRUE, dotted |-> FALSE, text |-> 0]
Text == [family |-> "text", body |-> <<>>]

\* What a configuration without a firewall section comes to.
NoFirewall == [present |-> FALSE]

ZeroTo(g, n) == \A i \in 1..n : g[i] = 0

\* ::ffff:0:0/96, and the text ::ffff:x:a.b.c.d of an address next to it.
HoldsV4(g) == ZeroTo(g, 5) /\ g[6] = \hFFFF
Misread(ip) == ip.begun /\ ip.dotted /\ ZeroTo(ip.body, 4) /\ ip.body[5] = \hFFFF

FromPair(x, y) == V4(x \div 256, x % 256, y \div 256, y % 256)

\* The decimal digits of an octet, read as hexadecimal ones.
AsHex(octet) == 256 * (octet \div 100) + 16 * ((octet \div 10) % 10) + (octet % 10)

\* Of the text after ::ffff:, either a dotted quad or two groups: where it is a
\* group and a dotted quad, of the quad only the first octet is read.
NormalizeIp(ip) ==
    LET g == ip.body IN
    CASE ip.family = "v6" /\ ip.begun /\ HoldsV4(g) -> FromPair(g[7], g[8])
      [] ip.family = "v6" /\ Misread(ip) -> FromPair(g[6], AsHex(g[7] \div 256))
      [] OTHER -> ip

IsV4(ip) == ip.family = "v4"
IsAddress(ip) == ip.family # "text"

-----------------------------------------------------------------------------

\* The values of an octet that agree in its first n bits differ by less than Span.
Span == [n \in 0..8 |-> <<256, 128, 64, 32, 16, 8, 4, 2, 1>>[n + 1]]

\* matchCidr: of the bits that count, those that fall into each octet.
MatchCidr(octets, cidr) ==
    \A i \in 1..4 :
        LET b == cidr.bits - 8 * (i - 1)
            n == IF b < 0 THEN 0 ELSE IF b > 8 THEN 8 ELSE b
        IN  octets[i] \div Span[n] = cidr.range[i] \div Span[n]

\* matchDomain: "*" is the wildcard of no label.  A wildcard does not match the
\* name under its asterisk, unlike the wildcards of hosts.
MatchDomain(name, pattern) ==
    IF pattern.wild
    THEN /\ pattern.labels = <<>> \/ Len(name) > Len(pattern.labels)
         /\ pattern.labels = SubSeq(name, Len(name) + 1 - Len(pattern.labels), Len(name))
    ELSE pattern.labels = name

InRanges(ip, ranges) == IsV4(ip) /\ \E c \in ranges : MatchCidr(ip.body, c)

\* isRestrictedOutbound, of an address that is normalised.
IsRestricted(ip) ==
    LET p == ip.body IN
    CASE ip.family = "v4" ->
            \/ p[1] \in {0, 10, 127}
            \/ p[1] = 100 /\ p[2] >= 64 /\ p[2] <= 127
            \/ p[1] = 169 /\ p[2] = 254
            \/ p[1] = 172 /\ p[2] >= 16 /\ p[2] <= 31
            \/ p[1] = 192 /\ p[2] = 168
            \/ p[1] >= 224 /\ p[1] <= 239
            \/ p[1] >= 240 /\ p[1] <= 255
      [] ip.family = "v6" ->
            \/ ip.begun /\ ZeroTo(p, 7) /\ p[8] \in {0, 1}
            \/ p[1] = \hFE80 \/ p[1] = \hFC00 \/ (p[1] >= \hFD00 /\ p[1] <= \hFDFF)
            \/ ip.begun /\ (p[1] = \hFD \/ (p[1] >= \hFD0 /\ p[1] <= \hFDF))
      [] OTHER -> TRUE

Allowlisted(ip, fw) == ip \in fw.allowIps \/ InRanges(ip, fw.allowRanges)

EvaluateOutbound(raw, fw) ==
    LET ip == NormalizeIp(raw) IN
    (fw.present /\ Allowlisted(ip, fw)) \/ ~IsRestricted(ip)

EvaluateIp(raw, fw) ==
    LET ip == NormalizeIp(raw) IN
    \/ ~fw.present
    \/ /\ IsAddress(ip)
       /\ ip \notin fw.blockIps
       /\ ~InRanges(ip, fw.blockRanges)
       /\ Allowlisted(ip, fw) \/ fw.allowByDefault

EvaluateDomain(name, fw) ==
    \/ ~fw.present
    \/ /\ \A p \in fw.blockDomains : ~MatchDomain(name, p)
       /\ (\E p \in fw.allowDomains : MatchDomain(name, p)) \/ fw.allowByDefault

-----------------------------------------------------------------------------
(* What the verdicts are meant to be, from the blocks of addresses that are  *)
(* set aside for other uses than hosts on the Internet.                      *)

Net(a, b, bits) == [range |-> <<a, b, 0, 0>>, bits |-> bits]

SetAside == {
    Net(0, 0, 8), Net(10, 0, 8), Net(127, 0, 8), Net(100, 64, 10),
    Net(169, 254, 16), Net(172, 16, 12), Net(192, 168, 16),
    Net(224, 0, 4), Net(240, 0, 4) }

\* ::/96 (the loopback and unspecified addresses, and IPv4 addresses in the old
\* form), link-local, unique local and multicast addresses.
IsSetAsideV6(g) ==
    \/ ZeroTo(g, 6)
    \/ g[1] >= \hFE80 /\ g[1] <= \hFEBF
    \/ g[1] >= \hFC00 /\ g[1] <= \hFDFF
    \/ g[1] >= \hFF00

\* An address whatever its text: the IPv4 address it holds, or else its value.
Canonical(ip) ==
    CASE ip.family = "v6" /\ HoldsV4(ip.body) -> FromPair(ip.body[7], ip.body[8])
      [] ip.family = "v6" /\ ~HoldsV4(ip.body) -> V6(ip.body)
      [] OTHER -> ip

ForInternet(ip) ==
    LET c == Canonical(ip) IN
    CASE c.family = "v4" -> ~InRanges(c, SetAside)
      [] c.family = "v6" -> ~IsSetAsideV6(c.body)
      [] OTHER -> FALSE

\* An address in no block of the blocklist, and either in the allowlist or both
\* allowed by default and fit for the Internet.
Permitted(ip, fw) ==
    LET listed(ips, ranges) == \/ \E a \in ips : Canonical(a) = Canonical(ip)
                               \/ InRanges(Canonical(ip), ranges)
    IN  IF fw.present
        THEN /\ ~listed(fw.blockIps, fw.blockRanges)
             /\ listed(fw.allowIps, fw.allowRanges) \/ (fw.allowByDefault /\ ForInternet(ip))
        ELSE ForInternet(ip)

(* What the verdicts, which compare texts, do not see of an IPv6 address.    *)

\* That it is set aside: texts other than ::1 and ::, the IPv4 address it holds
\* in a text that does not begin ::ffff:, and the rest of the blocks of which
\* fe80:, fc00: and fd are known.
Unrecognised(ip) ==
    LET g == ip.body IN
    /\ ip.family = "v6"
    /\ \/ HoldsV4(g) /\ ~ip.begun
       \/ ZeroTo(g, 6) /\ ~(ip.begun /\ ZeroTo(g, 7) /\ g[8] \in {0, 1})
       \/ g[1] > \hFE80 /\ g[1] <= \hFEBF
       \/ g[1] > \hFC00 /\ g[1] < \hFD00
       \/ g[1] >= \hFF00

\* That, or what it is, or that it is in the blocklist in another text.
Overlooked(ip, fw) ==
    \/ Unrecognised(ip)
    \/ ip.family = "v6" /\ Misread(ip)
    \/ fw.present /\ \E a \in fw.blockIps \ {NormalizeIp(ip)} : Canonical(a) = Canonical(ip)
=============================================================================
