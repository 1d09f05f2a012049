----------------------------- MODULE ProxyProofs -----------------------------
(***************************************************************************)
(* Theorems about what the proxies let through.                            *)
(*                                                                         *)
(* HttpProxy for any requests, configuration, resolver and limits: its     *)
(* types, that only permitted addresses are dialled, that no breaker is    *)
(* left half open, and that no request goes round a third time where the   *)
(* idle timer is no longer than a window.                                  *)
(*                                                                         *)
(* Of FirewallEngine, whose verdicts it asks for: that its comparisons set *)
(* aside the IPv4 blocks they are meant to, that its two verdicts on an    *)
(* address together permit what the configuration permits, for every       *)
(* configuration, and exactly which IPv6 addresses they overlook.          *)
(*                                                                         *)
(* Tunnel, for any number of connections: activeConnections is exact while *)
(* a proxy is up, no client hangs on a tunnel whose target is gone, and    *)
(* stop() leaves nothing but late dials.                                   *)
(***************************************************************************)
EXTENDS HttpProxy, Tunnel, WellFoundedInduction, TLAPS

-----------------------------------------------------------------------------
(* FirewallEngine.                                                          *)

LEMMA SpanValues ==
    /\ Span[0] = 256 /\ Span[1] = 128 /\ Span[2] = 64 /\ Span[3] = 32 /\ Span[4] = 16
    /\ Span[5] = 8 /\ Span[6] = 4 /\ Span[7] = 2 /\ Span[8] = 1
BY DEF Span

LEMMA Divisions ==
    ASSUME NEW x \in 0..255
    PROVE  x \div 256 = 0 /\ x \div 1 = x
OBVIOUS

\* One octet of the comparison.
Agree(octets, cidr, i) ==
    LET b == cidr.bits - 8 * (i - 1)
        n == IF b < 0 THEN 0 ELSE IF b > 8 THEN 8 ELSE b
    IN  octets[i] \div Span[n] = cidr.range[i] \div Span[n]

LEMMA FourOctets ==
    ASSUME NEW octets, NEW cidr
    PROVE  MatchCidr(octets, cidr) <=>
               /\ Agree(octets, cidr, 1) /\ Agree(octets, cidr, 2)
               /\ Agree(octets, cidr, 3) /\ Agree(octets, cidr, 4)
<1>1. MatchCidr(octets, cidr) <=> \A i \in 1..4 : Agree(octets, cidr, i)
  BY DEF MatchCidr, Agree
<1>2. 1..4 = {1, 2, 3, 4}
  OBVIOUS
<1> QED
  BY <1>1, <1>2

\* The blocks of SetAside end in the first octet or in the second.
LEMMA ShortBlock ==
    ASSUME NEW octets \in Octets, NEW a \in 0..255, NEW bits \in {4, 8}
    PROVE  MatchCidr(octets, Net(a, 0, bits)) <=> octets[1] \div Span[bits] = a \div Span[bits]
<1> DEFINE net == Net(a, 0, bits)
<1>1. /\ net.bits = bits /\ net.range[1] = a /\ net.range[2] = 0
      /\ net.range[3] = 0 /\ net.range[4] = 0
  BY DEF Net
<1>2. octets[1] \in 0..255 /\ octets[2] \in 0..255 /\ octets[3] \in 0..255 /\ octets[4] \in 0..255
  BY DEF Octets
<1>3. Agree(octets, net, 1) <=> octets[1] \div Span[bits] = a \div Span[bits]
  BY <1>1 DEF Agree
<1>4. Agree(octets, net, 2) /\ Agree(octets, net, 3) /\ Agree(octets, net, 4)
  BY <1>1, <1>2, SpanValues, Divisions DEF Agree
<1> QED
  BY <1>3, <1>4, FourOctets

\* What counts of the second octet.
High(octet, bits) == octet \div Span[bits - 8]

LongNet(net) ==
    /\ net.bits \in {10, 12, 16}
    /\ net.range[1] \in 0..255 /\ net.range[2] \in 0..255
    /\ net.range[3] = 0 /\ net.range[4] = 0

LEMMA LongBlock ==
    ASSUME NEW octets \in Octets, NEW net, LongNet(net)
    PROVE  MatchCidr(octets, net) <=>
               /\ octets[1] = net.range[1]
               /\ High(octets[2], net.bits) = High(net.range[2], net.bits)
<1>1. LongNet(net)
  OBVIOUS
<1>2. octets[1] \in 0..255 /\ octets[2] \in 0..255 /\ octets[3] \in 0..255 /\ octets[4] \in 0..255
  BY DEF Octets
<1>3. Agree(octets, net, 1) <=> octets[1] = net.range[1]
  <2>1. Agree(octets, net, 1) <=> octets[1] \div Span[8] = net.range[1] \div Span[8]
    BY <1>1 DEF Agree, LongNet
  <2>2. octets[1] \div 1 = octets[1] /\ net.range[1] \div 1 = net.range[1]
    BY <1>1, <1>2 DEF LongNet
  <2> QED
    BY <2>1, <2>2, SpanValues
<1>4. Agree(octets, net, 2) <=> High(octets[2], net.bits) = High(net.range[2], net.bits)
  BY <1>1 DEF Agree, High, LongNet
<1>5. Agree(octets, net, 3) /\ Agree(octets, net, 4)
  BY <1>1, <1>2, SpanValues, Divisions DEF Agree, LongNet
<1> QED
  BY <1>3, <1>4, <1>5, FourOctets

-----------------------------------------------------------------------------

LEMMA FirstOctets ==
    ASSUME NEW p \in Octets
    PROVE  /\ MatchCidr(p, Net(0, 0, 8)) <=> p[1] = 0
           /\ MatchCidr(p, Net(10, 0, 8)) <=> p[1] = 10
           /\ MatchCidr(p, Net(127, 0, 8)) <=> p[1] = 127
           /\ MatchCidr(p, Net(224, 0, 4)) <=> p[1] >= 224 /\ p[1] <= 239
           /\ MatchCidr(p, Net(240, 0, 4)) <=> p[1] >= 240 /\ p[1] <= 255
<1>1. p[1] \in 0..255
  BY DEF Octets
<1>2. \A a \in 0..255 : MatchCidr(p, Net(a, 0, 8)) <=> p[1] = a
  <2>1. \A a \in 0..255 : MatchCidr(p, Net(a, 0, 8)) <=> p[1] \div Span[8] = a \div Span[8]
    BY ShortBlock
  <2>2. \A a \in 0..255 : p[1] \div Span[8] = a \div Span[8] <=> p[1] = a
    BY <1>1, SpanValues, Divisions
  <2> QED
    BY <2>1, <2>2
<1>3. \A a \in 0..255 : MatchCidr(p, Net(a, 0, 4)) <=> p[1] \div Span[4] = a \div Span[4]
  BY ShortBlock
<1>4. 224 \div 16 = 14 /\ 240 \div 16 = 15
  OBVIOUS
<1>5. /\ p[1] \div 16 = 14 <=> p[1] >= 224 /\ p[1] <= 239
      /\ p[1] \div 16 = 15 <=> p[1] >= 240 /\ p[1] <= 255
  BY <1>1
<1> QED
  BY <1>2, <1>3, <1>4, <1>5, SpanValues

LEMMA SecondOctets ==
    ASSUME NEW p \in Octets
    PROVE  /\ MatchCidr(p, Net(100, 64, 10)) <=> p[1] = 100 /\ p[2] >= 64 /\ p[2] <= 127
           /\ MatchCidr(p, Net(169, 254, 16)) <=> p[1] = 169 /\ p[2] = 254
           /\ MatchCidr(p, Net(172, 16, 12)) <=> p[1] = 172 /\ p[2] >= 16 /\ p[2] <= 31
           /\ MatchCidr(p, Net(192, 168, 16)) <=> p[1] = 192 /\ p[2] = 168
<1>1. p[1] \in 0..255 /\ p[2] \in 0..255
  BY DEF Octets
<1>2. High(p[2], 10) = High(64, 10) <=> p[2] >= 64 /\ p[2] <= 127
  BY <1>1, SpanValues DEF High
<1>3. High(p[2], 12) = High(16, 12) <=> p[2] >= 16 /\ p[2] <= 31
  BY <1>1, SpanValues DEF High
<1>4. \A x \in 0..255 : High(x, 16) = x
  BY SpanValues, Divisions DEF High
<1>5. MatchCidr(p, Net(100, 64, 10)) <=> p[1] = 100 /\ p[2] >= 64 /\ p[2] <= 127
  <2> DEFINE net == Net(100, 64, 10)
  <2>1. LongNet(net) /\ net.bits = 10 /\ net.range[1] = 100 /\ net.range[2] = 64
    BY DEF LongNet, Net
  <2> HIDE DEF net
  <2>2. MatchCidr(p, net) <=> p[1] = 100 /\ High(p[2], 10) = High(64, 10)
    BY <2>1, LongBlock
  <2> QED
    BY <2>2, <1>2 DEF net
<1>6. MatchCidr(p, Net(172, 16, 12)) <=> p[1] = 172 /\ p[2] >= 16 /\ p[2] <= 31
  <2> DEFINE net == Net(172, 16, 12)
  <2>1. LongNet(net) /\ net.bits = 12 /\ net.range[1] = 172 /\ net.range[2] = 16
    BY DEF LongNet, Net
  <2> HIDE DEF net
  <2>2. MatchCidr(p, net) <=> p[1] = 172 /\ High(p[2], 12) = High(16, 12)
    BY <2>1, LongBlock
  <2> QED
    BY <2>2, <1>3 DEF net
<1>7. MatchCidr(p, Net(169, 254, 16)) <=> p[1] = 169 /\ p[2] = 254
  <2> DEFINE net == Net(169, 254, 16)
  <2>1. LongNet(net) /\ net.bits = 16 /\ net.range[1] = 169 /\ net.range[2] = 254
    BY DEF LongNet, Net
  <2> HIDE DEF net
  <2>2. MatchCidr(p, net) <=> p[1] = 169 /\ High(p[2], 16) = High(254, 16)
    BY <2>1, LongBlock
  <2> QED
    BY <2>2, <1>1, <1>4 DEF net
<1>8. MatchCidr(p, Net(192, 168, 16)) <=> p[1] = 192 /\ p[2] = 168
  <2> DEFINE net == Net(192, 168, 16)
  <2>1. LongNet(net) /\ net.bits = 16 /\ net.range[1] = 192 /\ net.range[2] = 168
    BY DEF LongNet, Net
  <2> HIDE DEF net
  <2>2. MatchCidr(p, net) <=> p[1] = 192 /\ High(p[2], 16) = High(168, 16)
    BY <2>1, LongBlock
  <2> QED
    BY <2>2, <1>1, <1>4 DEF net
<1> QED
  BY <1>5, <1>6, <1>7, <1>8

\* isRestrictedOutbound keeps from the proxy exactly the IPv4 addresses of the
\* blocks that are set aside.
THEOREM RestrictedIsSetAside ==
    ASSUME NEW ip, ip.family = "v4", ip.body \in Octets
    PROVE  IsRestricted(ip) <=> InRanges(ip, SetAside)
<1> DEFINE p == ip.body
<1>1. InRanges(ip, SetAside) <=>
        \/ MatchCidr(p, Net(0, 0, 8)) \/ MatchCidr(p, Net(10, 0, 8))
        \/ MatchCidr(p, Net(127, 0, 8)) \/ MatchCidr(p, Net(100, 64, 10))
        \/ MatchCidr(p, Net(169, 254, 16)) \/ MatchCidr(p, Net(172, 16, 12))
        \/ MatchCidr(p, Net(192, 168, 16)) \/ MatchCidr(p, Net(224, 0, 4))
        \/ MatchCidr(p, Net(240, 0, 4))
  BY DEF InRanges, IsV4, SetAside
<1>2. IsRestricted(ip) <=>
        \/ p[1] \in {0, 10, 127}
        \/ p[1] = 100 /\ p[2] >= 64 /\ p[2] <= 127
        \/ p[1] = 169 /\ p[2] = 254
        \/ p[1] = 172 /\ p[2] >= 16 /\ p[2] <= 31
        \/ p[1] = 192 /\ p[2] = 168
        \/ p[1] >= 224 /\ p[1] <= 239
        \/ p[1] >= 240 /\ p[1] <= 255
  BY DEF IsRestricted
<1>3. p \in Octets
  OBVIOUS
<1> HIDE DEF p
<1> QED
  BY <1>1, <1>2, <1>3, FirstOctets, SecondOctets

-----------------------------------------------------------------------------
(* IPv6 addresses.                                                           *)

LEMMA PairOctets ==
    ASSUME NEW x \in Nat, NEW y \in Nat, x < 65536, y < 65536
    PROVE  FromPair(x, y).family = "v4" /\ FromPair(x, y).body \in Octets
<1>1. x \div 256 \in 0..255 /\ x % 256 \in 0..255 /\ y \div 256 \in 0..255 /\ y % 256 \in 0..255
  OBVIOUS
<1> DEFINE body == <<x \div 256, x % 256, y \div 256, y % 256>>
<1>2. body \in Octets
  BY <1>1 DEF Octets
<1> QED
  BY <1>2 DEF FromPair, V4

LEMMA GroupBounds ==
    ASSUME NEW g \in Groups
    PROVE  \A i \in 1..8 : g[i] \in Nat /\ g[i] < 65536
<1>1. \A x \in Words : x \in Nat /\ x < 65536
  BY DEF Words
<1>2. \A i \in 1..8 : g[i] \in Words
  BY DEF Groups
<1> QED
  BY <1>1, <1>2

\* What is known of an IPv6 address whose text the verdicts read rightly.
LEMMA V6Normalized ==
    ASSUME NEW ip \in V6Addresses, ~Misread(ip), ~(HoldsV4(ip.body) /\ ~ip.begun)
    PROVE  /\ Canonical(NormalizeIp(ip)) = Canonical(ip)
           /\ IF HoldsV4(ip.body)
              THEN NormalizeIp(ip) = Canonical(ip) /\ Canonical(ip).family = "v4" /\ Canonical(ip).body \in Octets
              ELSE NormalizeIp(ip) = ip /\ Canonical(ip) = V6(ip.body)
<1>1. ip.family = "v6" /\ ip.body \in Groups
  BY DEF V6Addresses
<1>2. CASE HoldsV4(ip.body)
  <2> DEFINE pair == FromPair(ip.body[7], ip.body[8])
  <2>1. NormalizeIp(ip) = pair /\ Canonical(ip) = pair
    BY <1>1, <1>2 DEF NormalizeIp, Canonical
  <2>2. pair.family = "v4" /\ pair.body \in Octets
    BY <1>1, GroupBounds, PairOctets
  <2> HIDE DEF pair
  <2>3. Canonical(pair) = pair
    BY <2>2 DEF Canonical
  <2> QED
    BY <1>2, <2>1, <2>2, <2>3
<1>3. CASE ~HoldsV4(ip.body)
  BY <1>1, <1>3 DEF NormalizeIp, Canonical
<1> QED
  BY <1>2, <1>3

\* isRestrictedOutbound keeps from the proxy every address that is set aside,
\* but for the IPv6 ones it does not recognise.
THEOREM RestrictedOrOverlooked ==
    ASSUME NEW ip \in V4Addresses \cup V6Addresses, ~(ip.family = "v6" /\ Misread(ip)),
           ~Unrecognised(ip), ~IsRestricted(NormalizeIp(ip))
    PROVE  ForInternet(ip)
<1>1. CASE ip \in V4Addresses
  <2>1. ip.family = "v4" /\ ip.body \in Octets /\ NormalizeIp(ip) = ip /\ Canonical(ip) = ip
    BY <1>1 DEF V4Addresses, NormalizeIp, Canonical
  <2> QED
    BY <2>1, RestrictedIsSetAside DEF ForInternet
<1>2. CASE ip \in V6Addresses
  <2>1. ip.family = "v6" /\ ip.body \in Groups /\ ~Misread(ip) /\ ~(HoldsV4(ip.body) /\ ~ip.begun)
    BY <1>2 DEF V6Addresses, Unrecognised
  <2>2. CASE HoldsV4(ip.body)
    <3>1. NormalizeIp(ip) = Canonical(ip) /\ Canonical(ip).family = "v4" /\ Canonical(ip).body \in Octets
      BY <1>2, <2>1, <2>2, V6Normalized
    <3> QED
      BY <3>1, RestrictedIsSetAside DEF ForInternet
  <2>3. CASE ~HoldsV4(ip.body)
    <3> DEFINE g == ip.body
    <3>1. NormalizeIp(ip) = ip /\ Canonical(ip) = V6(g)
      BY <1>2, <2>1, <2>3, V6Normalized
    <3>2. ForInternet(ip) <=> ~IsSetAsideV6(g)
      BY <3>1 DEF ForInternet, V6
    <3>3. /\ ~(ip.begun /\ ZeroTo(g, 7) /\ g[8] \in {0, 1})
          /\ g[1] # 65152 /\ g[1] # 64512 /\ ~(g[1] >= 64768 /\ g[1] <= 65023)
      BY <2>1, <3>1 DEF IsRestricted
    <3>4. /\ ~(ZeroTo(g, 6) /\ ~(ip.begun /\ ZeroTo(g, 7) /\ g[8] \in {0, 1}))
          /\ ~(g[1] > 65152 /\ g[1] <= 65215) /\ ~(g[1] > 64512 /\ g[1] < 64768) /\ ~(g[1] >= 65280)
      BY <2>1 DEF Unrecognised
    <3>5. g[1] \in Nat
      BY <2>1, GroupBounds
    <3> HIDE DEF g
    <3>6. ~ZeroTo(g, 6)
      BY <3>3, <3>4
    <3>7. /\ ~(g[1] >= 65152 /\ g[1] <= 65215)
          /\ ~(g[1] >= 64512 /\ g[1] <= 65023)
          /\ ~(g[1] >= 65280)
      BY ONLY <3>3, <3>4, <3>5
    <3> QED
      BY <3>2, <3>6, <3>7 DEF IsSetAsideV6
  <2> QED
    BY <2>2, <2>3
<1> QED
  BY <1>1, <1>2

\* What is overlooked is let through: with no firewall section, or as far as the
\* outbound verdict goes, every IPv6 address that is unrecognised is dialled.
THEOREM UnrecognisedPass ==
    ASSUME NEW ip \in V6Addresses, Unrecognised(ip), NEW fw
    PROVE  EvaluateOutbound(ip, fw)
<1> DEFINE g == ip.body
<1>1. ip.family = "v6" /\ g \in Groups
  BY DEF V6Addresses
<1>2. g[1] \in Nat /\ g[6] \in Nat /\ g[5] \in Nat
  BY <1>1, GroupBounds
<1>3. NormalizeIp(ip) = ip
  <2>1. ~(ip.begun /\ HoldsV4(g))
    <3> SUFFICES ASSUME ip.begun, HoldsV4(g) PROVE FALSE
      OBVIOUS
    <3>1. g[1] = 0 /\ g[6] = 65535
      BY DEF HoldsV4, ZeroTo
    <3>2. ~ZeroTo(g, 6)
      BY <3>1 DEF ZeroTo
    <3> QED
      BY <3>1, <3>2 DEF Unrecognised
  <2>2. ~Misread(ip)
    <3> SUFFICES ASSUME Misread(ip) PROVE FALSE
      OBVIOUS
    <3>1. g[1] = 0 /\ g[5] = 65535
      BY DEF Misread, ZeroTo
    <3>2. ~ZeroTo(g, 6) /\ ~HoldsV4(g)
      BY <3>1 DEF ZeroTo, HoldsV4
    <3> QED
      BY <3>1, <3>2 DEF Unrecognised
  <2> QED
    BY <1>1, <2>1, <2>2 DEF NormalizeIp
<1>4. ~IsRestricted(ip)
  <2>1. IsRestricted(ip) <=>
          \/ ip.begun /\ ZeroTo(g, 7) /\ g[8] \in {0, 1}
          \/ g[1] = 65152 \/ g[1] = 64512 \/ (g[1] >= 64768 /\ g[1] <= 65023)
          \/ ip.begun /\ (g[1] = 253 \/ (g[1] >= 4048 /\ g[1] <= 4063))
    BY <1>1 DEF IsRestricted
  <2>2. \/ HoldsV4(g) /\ ~ip.begun
        \/ ZeroTo(g, 6) /\ ~(ip.begun /\ ZeroTo(g, 7) /\ g[8] \in {0, 1})
        \/ g[1] > 65152 /\ g[1] <= 65215
        \/ g[1] > 64512 /\ g[1] < 64768
        \/ g[1] >= 65280
    BY DEF Unrecognised
  <2>3. (ZeroTo(g, 6) => g[1] = 0) /\ (ZeroTo(g, 7) => g[1] = 0) /\ (HoldsV4(g) => g[1] = 0)
    BY DEF ZeroTo, HoldsV4
  <2> HIDE DEF g
  <2> QED
    BY ONLY <1>2, <2>1, <2>2, <2>3
<1>5. EvaluateOutbound(ip, fw) <=> (fw.present /\ Allowlisted(ip, fw)) \/ ~IsRestricted(ip)
  BY <1>3 DEF EvaluateOutbound
<1> QED
  BY <1>4, <1>5

\* An address that passes both verdicts is permitted, for every configuration,
\* or it is one of the IPv6 addresses that are overlooked.
THEOREM VerdictsPermit ==
    ASSUME NEW fw, NEW ip \in V4Addresses \cup V6Addresses,
           EvaluateIp(ip, fw), EvaluateOutbound(ip, fw)
    PROVE  Permitted(ip, fw) \/ Overlooked(ip, fw)
<1> SUFFICES ASSUME ~Overlooked(ip, fw) PROVE Permitted(ip, fw)
  OBVIOUS
<1> DEFINE n == NormalizeIp(ip)
           c == Canonical(ip)
<1>1. /\ ~Unrecognised(ip) /\ ~(ip.family = "v6" /\ Misread(ip))
      /\ fw.present => \A a \in fw.blockIps : a # n => Canonical(a) # c
  BY DEF Overlooked
<1>2. Canonical(n) = c /\ IsAddress(n) /\ (IsV4(n) <=> IsV4(c)) /\ (IsV4(c) => n = c)
  <2>1. CASE ip \in V4Addresses
    BY <2>1 DEF V4Addresses, NormalizeIp, Canonical, IsAddress, IsV4
  <2>2. CASE ip \in V6Addresses
    <3>1. ip.family = "v6" /\ ~Misread(ip) /\ ~(HoldsV4(ip.body) /\ ~ip.begun)
      BY <1>1, <2>2 DEF V6Addresses, Unrecognised
    <3>2. CASE HoldsV4(ip.body)
      BY <2>2, <3>1, <3>2, V6Normalized DEF IsAddress, IsV4
    <3>3. CASE ~HoldsV4(ip.body)
      BY <2>2, <3>1, <3>3, V6Normalized DEF IsAddress, IsV4, V6
    <3> QED
      BY <3>2, <3>3
  <2> QED
    BY <2>1, <2>2
<1>3. EvaluateOutbound(ip, fw) <=> (fw.present /\ Allowlisted(n, fw)) \/ ~IsRestricted(n)
  BY DEF EvaluateOutbound
<1>4. EvaluateIp(ip, fw) <=>
        \/ ~fw.present
        \/ /\ n \notin fw.blockIps /\ ~InRanges(n, fw.blockRanges)
           /\ Allowlisted(n, fw) \/ fw.allowByDefault
  BY <1>2 DEF EvaluateIp
<1>5. ~IsRestricted(n) => ForInternet(ip)
  BY <1>1, RestrictedOrOverlooked
<1>6. Permitted(ip, fw) <=>
        IF fw.present
        THEN /\ ~((\E a \in fw.blockIps : Canonical(a) = c) \/ InRanges(c, fw.blockRanges))
             /\ \/ (\E a \in fw.allowIps : Canonical(a) = c) \/ InRanges(c, fw.allowRanges)
                \/ fw.allowByDefault /\ ForInternet(ip)
        ELSE ForInternet(ip)
  BY DEF Permitted
<1>7. \A ranges : InRanges(n, ranges) <=> InRanges(c, ranges)
  BY <1>2 DEF InRanges
<1> HIDE DEF n, c
<1>8. CASE ~fw.present
  BY <1>3, <1>5, <1>6, <1>8
<1>9. CASE fw.present
  <2>1. /\ n \notin fw.blockIps /\ ~InRanges(c, fw.blockRanges)
        /\ Allowlisted(n, fw) \/ (fw.allowByDefault /\ ForInternet(ip))
    BY <1>3, <1>4, <1>5, <1>7, <1>9
  <2>2. ~\E a \in fw.blockIps : Canonical(a) = c
    BY <1>1, <1>9, <2>1
  <2>3. Allowlisted(n, fw) => (\E a \in fw.allowIps : Canonical(a) = c) \/ InRanges(c, fw.allowRanges)
    BY <1>2, <1>7 DEF Allowlisted
  <2> QED
    BY <1>6, <1>9, <2>1, <2>2, <2>3
<1> QED
  BY <1>8, <1>9

\* Of an IPv4 address nothing is overlooked and nothing refused that is permitted,
\* as long as the lists have their IPv4 addresses as IPv4 addresses.
THEOREM V4VerdictsExact ==
    ASSUME NEW fw, NEW ip \in V4Addresses,
           fw.present => \A a \in fw.blockIps \cup fw.allowIps : Canonical(a) = ip => a = ip
    PROVE  EvaluateIp(ip, fw) /\ EvaluateOutbound(ip, fw) <=> Permitted(ip, fw)
<1>1. ip.family = "v4" /\ ip.body \in Octets
  BY DEF V4Addresses
<1>2. NormalizeIp(ip) = ip /\ Canonical(ip) = ip /\ IsAddress(ip)
  BY <1>1 DEF NormalizeIp, Canonical, IsAddress
<1>3. EvaluateOutbound(ip, fw) <=> (fw.present /\ Allowlisted(ip, fw)) \/ ~IsRestricted(ip)
  BY <1>2 DEF EvaluateOutbound
<1>4. EvaluateIp(ip, fw) <=>
        \/ ~fw.present
        \/ /\ ip \notin fw.blockIps /\ ~InRanges(ip, fw.blockRanges)
           /\ Allowlisted(ip, fw) \/ fw.allowByDefault
  BY <1>2 DEF EvaluateIp
<1>5. IsRestricted(ip) <=> ~ForInternet(ip)
  BY <1>1, <1>2, RestrictedIsSetAside DEF ForInternet
<1>6. Permitted(ip, fw) <=>
        IF fw.present
        THEN /\ ~((\E a \in fw.blockIps : Canonical(a) = ip) \/ InRanges(ip, fw.blockRanges))
             /\ \/ (\E a \in fw.allowIps : Canonical(a) = ip) \/ InRanges(ip, fw.allowRanges)
                \/ fw.allowByDefault /\ ForInternet(ip)
        ELSE ForInternet(ip)
  BY <1>2 DEF Permitted
<1>7. CASE ~fw.present
  BY <1>3, <1>4, <1>5, <1>6, <1>7
<1>8. CASE fw.present
  <2>1. (\E a \in fw.blockIps : Canonical(a) = ip) <=> ip \in fw.blockIps
    BY <1>2, <1>8
  <2>2. (\E a \in fw.allowIps : Canonical(a) = ip) <=> ip \in fw.allowIps
    BY <1>2, <1>8
  <2>3. Allowlisted(ip, fw) <=> ip \in fw.allowIps \/ InRanges(ip, fw.allowRanges)
    BY DEF Allowlisted
  <2> QED
    BY <1>3, <1>4, <1>5, <1>6, <1>8, <2>1, <2>2, <2>3
<1> QED
  BY <1>7, <1>8

\* An address that passes is never text.
LEMMA TextIsRefused ==
    ASSUME NEW fw
    PROVE  ~(EvaluateIp(Text, fw) /\ EvaluateOutbound(Text, fw))
<1>1. NormalizeIp(Text) = Text /\ ~IsAddress(Text)
  BY DEF NormalizeIp, Text, IsAddress
<1>2. IsRestricted(Text)
  BY DEF IsRestricted, Text
<1> QED
  BY <1>1, <1>2 DEF EvaluateIp, EvaluateOutbound

-----------------------------------------------------------------------------
(* Exchanges and the clock.                                                 *)

LEMMA ExchangeParts ==
    ASSUME NEW e \in Exchanges
    PROVE  /\ e[1] \in Requests /\ e[2] \in 1..Rounds /\ e = <<e[1], e[2]>>
           /\ e[2] > 1 => Parent(e) \in Exchanges /\ Child(Parent(e)) = e /\ Parent(e)[2] = e[2] - 1
           /\ e[2] < Rounds => Child(e) \in Exchanges /\ Parent(Child(e)) = e /\ Child(e)[2] = e[2] + 1
<1>0. Rounds \in Nat
  BY LimitsAssumption
<1>1. e[1] \in Requests /\ e[2] \in 1..Rounds /\ e = <<e[1], e[2]>>
  BY DEF Exchanges
<1>2. ASSUME e[2] > 1
      PROVE  Parent(e) \in Exchanges /\ Child(Parent(e)) = e /\ Parent(e)[2] = e[2] - 1
  <2>1. e[2] - 1 \in 1..Rounds /\ (e[2] - 1) + 1 = e[2]
    BY <1>0, <1>1, <1>2
  <2> QED
    BY <1>1, <2>1 DEF Exchanges, Parent, Child
<1>3. ASSUME e[2] < Rounds
      PROVE  Child(e) \in Exchanges /\ Parent(Child(e)) = e /\ Child(e)[2] = e[2] + 1
  <2>1. e[2] + 1 \in 1..Rounds /\ (e[2] + 1) - 1 = e[2]
    BY <1>0, <1>1, <1>3
  <2> QED
    BY <1>1, <2>1 DEF Exchanges, Parent, Child
<1> QED
  BY <1>1, <1>2, <1>3

\* Two times no further apart than a window lie in the same window or in
\* neighbouring ones.
LEMMA Windows ==
    ASSUME NEW W \in Nat \ {0}, NEW s \in Nat, NEW t \in Nat, s <= t, t - s <= W
    PROVE  (t \div W) - (s \div W) \in {0, 1}
<1> DEFINE q == s \div W
           r == t \div W
<1>1. /\ q \in Nat /\ W * q <= s /\ s < W * q + W
      /\ r \in Nat /\ W * r <= t /\ t < W * r + W
  OBVIOUS
<1> HIDE DEF q, r
<1>2. r >= q
  <2> SUFFICES ASSUME r + 1 <= q PROVE FALSE
    BY <1>1
  <2>1. W * (r + 1) <= W * q
    BY <1>1
  <2> QED
    BY <2>1, <1>1
<1>3. r <= q + 1
  <2> SUFFICES ASSUME q + 2 <= r PROVE FALSE
    BY <1>1
  <2>1. W * (q + 2) <= W * r
    BY <1>1
  <2> QED
    BY <2>1, <1>1
<1> QED
  BY <1>1, <1>2, <1>3 DEF q, r

-----------------------------------------------------------------------------
(* Where a request leads to.                                                 *)

LEMMA LeastElement ==
    ASSUME NEW S, S \subseteq Nat, S # {}
    PROVE  Min(S) \in S /\ (\A m \in S : Min(S) <= m)
<1> DEFINE R == OpToRel(<, Nat)
<1>1. \A x, y \in Nat : <<x, y>> \in R <=> x < y
  BY DEF OpToRel
<1>2. IsWellFoundedOn(R, Nat)
  BY NatLessThanWellFounded
<1> HIDE DEF R
<1>3. PICK n \in S : \A m \in S : ~(<<m, n>> \in R)
  BY <1>2, WFMin
<1>4. ASSUME NEW m \in S PROVE n <= m
  <2>1. m \in Nat /\ n \in Nat
    OBVIOUS
  <2>2. ~(m < n)
    BY <1>1, <1>3, <2>1
  <2> QED
    BY <2>1, <2>2
<1> QED
  BY <1>4 DEF Min

\* A host that is found is one of the table's.
LEMMA FoundHost ==
    ASSUME NEW table, NEW name, NEW least \in Nat, Len(name) \in Nat,
           Wildcard(table, name, least) # NoHost
    PROVE  \E k \in DOMAIN table : Wildcard(table, name, least) = table[k]
<1> DEFINE found == {i \in 1..(Len(name) + 1 - least) : Under(Suffix(name, i)) \in DOMAIN table}
<1>1. found # {} /\ Wildcard(table, name, least) = table[Under(Suffix(name, Min(found)))]
  BY DEF Wildcard
<1>2. found \subseteq Nat
  OBVIOUS
<1>3. Min(found) \in found
  BY <1>1, <1>2, LeastElement
<1> QED
  BY <1>1, <1>3

LEMMA NormalizedLength ==
    ASSUME NEW name \in Seq(STRING)
    PROVE  Len(Normalized(name)) \in Nat
<1> DEFINE L == {Lower(name[i]) : i \in 1..Len(name)}
<1>1. Normalized(name) = [i \in 1..Len(name) |-> Lower(name[i])]
  BY DEF Normalized
<1>2. Normalized(name) \in Seq(L)
  BY <1>1
<1> QED
  BY <1>2

\* Every way to a host of the configuration leads to one of its entries.
LEMMA HostIsConfigured ==
    ASSUME NEW name \in Seq(STRING)
    PROVE  /\ RoutedHost(Hosts, name) # NoHost =>
                  \E k \in DOMAIN Hosts : RoutedHost(Hosts, name) = Hosts[k]
           /\ ProxyHost(Hosts, Normalized(name)) # NoHost =>
                  \E k \in DOMAIN Hosts : ProxyHost(Hosts, Normalized(name)) = Hosts[k]
<1>1. Wildcard(Hosts, Normalized(name), 2) # NoHost =>
          \E k \in DOMAIN Hosts : Wildcard(Hosts, Normalized(name), 2) = Hosts[k]
  BY NormalizedLength, FoundHost
<1> QED
  BY <1>1 DEF RoutedHost, ProxyHost

LEMMA AskedIsTarget ==
    ASSUME TypeOK, NEW e \in Exchanges
    PROVE  Asked(e) \in Targets
<1>1. CASE e[2] = 1
  BY <1>1, ExchangeParts, AddressAssumption DEF Asked
<1>2. CASE e[2] # 1
  <2>1. Parent(e) \in Exchanges
    BY <1>2, ExchangeParts
  <2> QED
    BY <1>2, <2>1 DEF Asked, TypeOK
<1> QED
  BY <1>1, <1>2

LEMMA ToIsTarget ==
    ASSUME TypeOK, NEW e \in Exchanges
    PROVE  To(e) \in Targets
<1>1. Asked(e) \in Targets
  BY AskedIsTarget
<1>2. HostConfig(e) # NoHost => HostConfig(e).redirect \in Targets /\ HostConfig(e).upstream \in Targets
  <2>1. Asked(e).name \in Seq(STRING)
    BY <1>1 DEF Targets
  <2> QED
    BY <2>1, HostIsConfigured, AddressAssumption DEF HostConfig
<1>3. Route(e) \in {"redirect", "upstream"} => HostConfig(e) # NoHost
  BY DEF Route
<1> QED
  BY <1>1, <1>2, <1>3 DEF To

LEMMA HostIsTarget ==
    ASSUME NEW t \in Targets
    PROVE  AsHost(t) \in Targets
<1>1. CASE t.ip.family = "v6"
  <2>1. t.ip \in V6Addresses
    BY <1>1 DEF Targets, Addresses, V4Addresses, Text
  <2>2. t.ip.body \in Groups
    BY <2>1 DEF V6Addresses
  <2>3. V6(t.ip.body) \in Addresses
    BY <2>2 DEF V6, V6Addresses, Addresses
  <2> QED
    BY <1>1, <2>3 DEF AsHost, Targets
<1>2. CASE t.ip.family # "v6"
  BY <1>2 DEF AsHost
<1> QED
  BY <1>1, <1>2

LEMMA ResolvedAddress ==
    ASSUME TypeOK, NEW e \in Exchanges, NEW ips \in Resolutions(To(e)), ips # <<>>
    PROVE  ips \in Seq(Addresses) /\ 1 \in DOMAIN ips /\ ips[1] \in Addresses
<1>1. ips \in Seq(Addresses)
  <2> DEFINE t == To(e)
             h == ProxyHost(Hosts, Normalized(t.name))
  <2>1. t \in Targets
    BY ToIsTarget
  <2>2. t.name \in Seq(STRING) /\ <<t.ip>> \in Seq(Addresses)
    BY <2>1 DEF Targets
  <2>3. h # NoHost => h.records \in Seq(Addresses)
    BY <2>2, HostIsConfigured, AddressAssumption
  <2>4. ips \in IF IsLiteral(t) THEN {<<t.ip>>}
                ELSE IF h # NoHost /\ h.records # <<>> THEN {h.records} ELSE NameService
    BY DEF Resolutions
  <2> HIDE DEF t, h
  <2> QED
    BY <2>2, <2>3, <2>4, AddressAssumption
<1> QED
  BY <1>1

\* The map of breakers keeps its types, its bound and one entry per host.
LEMMA BreakerIsKept ==
    ASSUME TypeOK, NEW e \in Exchanges
    PROVE  LET m == Breaker(e).map IN
           /\ Breaker(e).id \in Exchanges
           /\ m \in Seq([key : Targets, id : Exchanges]) /\ Len(m) <= MaxBreakers
           /\ \A i, j \in 1..Len(m) : m[i].key = m[j].key => i = j
<1> DEFINE Entries == [key : Targets, id : Exchanges]
           known == {i \in DOMAIN breakers : breakers[i].key = To(e)}
           room == IF Len(breakers) >= MaxBreakers THEN Tail(breakers) ELSE breakers
           new == [key |-> To(e), id |-> e]
<1>1. breakers \in Seq(Entries) /\ Len(breakers) <= MaxBreakers
  BY DEF TypeOK
<1>2. \A i, j \in 1..Len(breakers) : breakers[i].key = breakers[j].key => i = j
  BY DEF TypeOK
<1>3. MaxBreakers \in Nat \ {0}
  BY LimitsAssumption
<1>4. CASE known # {}
  <2>1. /\ Breaker(e).map = breakers
        /\ \E i \in known : Breaker(e).id = breakers[i].id
    BY <1>4 DEF Breaker
  <2>2. Breaker(e).id \in Exchanges
    <3>1. PICK i \in known : Breaker(e).id = breakers[i].id
      BY <2>1
    <3>2. i \in DOMAIN breakers
      OBVIOUS
    <3> HIDE DEF Entries, known
    <3>3. breakers[i] \in Entries
      BY <3>2, <1>1
    <3> QED
      BY <3>1, <3>3 DEF Entries
  <2> HIDE DEF known
  <2> QED
    BY <2>1, <2>2, <1>1, <1>2
<1>5. CASE known = {}
  <2>1. Breaker(e).map = Append(room, new) /\ Breaker(e).id = e
    BY <1>5 DEF Breaker
  <2>2. new \in Entries
    BY ToIsTarget
  <2>3. /\ room \in Seq(Entries) /\ Len(room) < MaxBreakers
        /\ \A i \in 1..Len(room) : \E k \in 1..Len(breakers) : room[i] = breakers[k]
        /\ \A i, j \in 1..Len(room) : room[i].key = room[j].key => i = j
    <3>1. CASE Len(breakers) >= MaxBreakers
      <4>1. room = Tail(breakers) /\ breakers # <<>>
        BY <3>1, <1>1, <1>3
      <4>2. /\ room \in Seq(Entries) /\ Len(room) = Len(breakers) - 1
            /\ \A i \in 1..Len(room) : room[i] = breakers[i + 1]
        BY <4>1, <1>1
      <4> QED
        BY <4>2, <1>1, <1>2, <1>3
    <3>2. CASE ~(Len(breakers) >= MaxBreakers)
      BY <3>2, <1>1, <1>2, <1>3
    <3> QED
      BY <3>1, <3>2
  <2>4. \A i \in 1..Len(room) : room[i].key # new.key
    BY <2>3, <1>1, <1>5
  <2> HIDE DEF room, new, Entries
  <2>5. /\ Append(room, new) \in Seq(Entries) /\ Len(Append(room, new)) = Len(room) + 1
        /\ \A i \in 1..Len(room) : Append(room, new)[i] = room[i]
        /\ Append(room, new)[Len(room) + 1] = new
    BY <2>2, <2>3
  <2>6. \A i, j \in 1..(Len(room) + 1) : Append(room, new)[i].key = Append(room, new)[j].key => i = j
    BY <2>3, <2>4, <2>5
  <2> QED
    BY <1>3, <2>1, <2>3, <2>5, <2>6 DEF Entries
<1> QED
  BY <1>4, <1>5

-----------------------------------------------------------------------------
(* The steps.                                                                *)

\* A loop's hop arrives before its sender's idle timer fires.
HopsAreTimely ==
    \A e \in Exchanges :
        e[2] < Rounds /\ stage[e] = "trying" /\ IsSelf(try[e].ip) /\ stage[Child(e)] = "idle"
            => now - try[e].begun <= Idle

\* A breaker that is not closed has had enough failures, which no late answer
\* takes back: a failure while it is half open opens it again.
BreakersCount ==
    \A b \in Exchanges : circuit[b].state # "CLOSED" => circuit[b].failures >= Threshold

ProxyInv ==
    /\ TypeOK /\ DialsArePermitted /\ BreakersCount /\ HalfOpenIsUnderTrial
    /\ HopsAreTimely /\ LoopsEnd

MayBeDialled(ip) == Permitted(ip, Policy) \/ Overlooked(ip, Policy)

\* What Accepts lets through may be dialled.
LEMMA AcceptedIsPermitted ==
    ASSUME TypeOK, NEW e \in Exchanges, NEW ips \in Resolutions(To(e)), Accepts(e, ips)
    PROVE  ips[1] \in Addresses /\ MayBeDialled(ips[1])
<1>1. ips # <<>> /\ ips[1] \in Addresses /\ 1 \in DOMAIN ips
  BY ResolvedAddress DEF Accepts
<1>2. AddressVerdict(ips[1])
  BY <1>1 DEF Accepts
<1>3. EvaluateIp(ips[1], Policy) /\ EvaluateOutbound(ips[1], Policy)
  BY <1>2 DEF AddressVerdict
<1>4. ips[1] # Text
  BY <1>3, TextIsRefused
<1> QED
  BY <1>1, <1>3, <1>4, VerdictsPermit DEF Addresses, MayBeDialled

LEMMA ProxyInit == Init => ProxyInv
<1> SUFFICES ASSUME Init PROVE ProxyInv
  OBVIOUS
<1> USE DEF Init, Untried, Closed
<1>1. Text \in Addresses /\ NoTarget \in Targets
  BY DEF Addresses, Targets, NoTarget
<1>2. TypeOK
  BY <1>1, LimitsAssumption DEF TypeOK, Answers
<1>3. DialsArePermitted /\ BreakersCount /\ HalfOpenIsUnderTrial
  BY DEF DialsArePermitted, BreakersCount, HalfOpenIsUnderTrial
<1>4. HopsAreTimely /\ LoopsEnd
  BY DEF HopsAreTimely, LoopsEnd
<1> QED
  BY <1>2, <1>3, <1>4 DEF ProxyInv

LEMMA TypesStep == ProxyInv /\ [Next]_vars => TypeOK'
<1> SUFFICES ASSUME TypeOK, [Next]_vars PROVE TypeOK'
  BY DEF ProxyInv
<1>1. now \in Nat /\ MaxTime \in Nat
  BY LimitsAssumption DEF TypeOK
<1> USE DEF TypeOK, Answers
<1>2. CASE Tick
  <2>1. 0..now \subseteq 0..now' /\ now' \in Nat
    BY <1>1, <1>2 DEF Tick
  <2> QED
    BY <1>2, <2>1 DEF Tick
<1>3. ASSUME NEW e \in Exchanges, Receive(e) PROVE TypeOK'
  BY <1>3 DEF Receive, Moved
<1>4. ASSUME NEW e \in Exchanges, Refuse(e) PROVE TypeOK'
  BY <1>4 DEF Refuse, Moved
<1>5. ASSUME NEW e \in Exchanges, Redirect(e) PROVE TypeOK'
  BY <1>5 DEF Redirect, Moved
<1>6. ASSUME NEW e \in Exchanges, NEW ips \in Resolutions(To(e)), Enter(e, ips) PROVE TypeOK'
  <2> DEFINE b == Breaker(e)
  <2>1. /\ b.id \in Exchanges
        /\ b.map \in Seq([key : Targets, id : Exchanges]) /\ Len(b.map) <= MaxBreakers
        /\ \A i, j \in 1..Len(b.map) : b.map[i].key = b.map[j].key => i = j
    BY BreakerIsKept
  <2>2. ips[1] \in Addresses /\ AsHost(To(e)) \in Targets
    BY <1>6, AcceptedIsPermitted, ToIsTarget, HostIsTarget DEF Enter
  <2> HIDE DEF b
  <2>3. breakers' = b.map /\ now' = now
    BY <1>6 DEF Enter, b
  <2>4. CASE Refuses(circuit[b.id])
    BY <1>6, <2>1, <2>3, <2>4 DEF Enter, Moved, b
  <2>5. CASE ~Refuses(circuit[b.id])
    <3>1. /\ stage' = [stage EXCEPT ![e] = "trying"]
          /\ try' = [try EXCEPT ![e] = [ip |-> ips[1], host |-> AsHost(To(e)), breaker |-> b.id, begun |-> now]]
          /\ circuit' = [circuit EXCEPT ![b.id] = Entered(@)]
      BY <1>6, <2>5 DEF Enter, Moved, b
    <3>2. Entered(circuit[b.id]) \in [state : {"CLOSED", "OPEN", "HALF_OPEN"}, failures : Nat, last : 0..now]
      BY <2>1 DEF Entered
    <3>3. [ip |-> ips[1], host |-> AsHost(To(e)), breaker |-> b.id, begun |-> now]
            \in [ip : Addresses, host : Targets, breaker : Exchanges, begun : 0..now]
      BY <1>1, <2>1, <2>2
    <3> QED
      BY <2>1, <2>3, <3>1, <3>2, <3>3
  <2> QED
    BY <2>4, <2>5
<1>7. ASSUME NEW e \in Exchanges, Headers(e) \/ Fail(e) PROVE TypeOK'
  <2> DEFINE b == try[e].breaker
             Circuits == [state : {"CLOSED", "OPEN", "HALF_OPEN"}, failures : Nat, last : 0..now]
  <2>1. b \in Exchanges /\ try[e].begun \in 0..now
    OBVIOUS
  <2>2. /\ stage' = [stage EXCEPT ![e] = "answered"] /\ now' = now /\ breakers' = breakers
        /\ try' = [try EXCEPT ![e] = [Untried(e) EXCEPT !.host = try[e].host]]
    BY <1>7 DEF Headers, Fail, Ended, Moved
  <2>3. \/ circuit' = [circuit EXCEPT ![b] = Succeeded(@)]
        \/ circuit' = [circuit EXCEPT ![b] = Failed(@, try[e].begun)]
    BY <1>7 DEF Headers, Fail
  <2> HIDE DEF b
  <2>4. circuit' \in [Exchanges -> Circuits]
    <3>1. circuit[b] \in Circuits /\ circuit \in [Exchanges -> Circuits]
      BY <2>1
    <3>2. Succeeded(circuit[b]) \in Circuits
      BY <3>1 DEF Succeeded
    <3>3. Failed(circuit[b], try[e].begun) \in Circuits
      <4> DEFINE c == circuit[b]
                 state == IF c.failures + 1 >= Threshold THEN "OPEN" ELSE c.state
      <4>1. Failed(c, try[e].begun) =
              [c EXCEPT !.failures = c.failures + 1, !.last = try[e].begun, !.state = state]
        BY DEF Failed
      <4>2. c \in Circuits /\ c.failures + 1 \in Nat /\ state \in {"CLOSED", "OPEN", "HALF_OPEN"}
        BY <3>1
      <4> HIDE DEF c, state
      <4> QED
        BY <2>1, <4>1, <4>2 DEF c
    <3> HIDE DEF Circuits
    <3> QED
      BY <2>1, <2>3, <3>1, <3>2, <3>3
  <2>5. [Untried(e) EXCEPT !.host = try[e].host]
            \in [ip : Addresses, host : Targets, breaker : Exchanges, begun : 0..now]
    <3>1. Untried(e) \in [ip : Addresses, host : Targets, breaker : Exchanges, begun : 0..now]
      <4>1. Text \in Addresses /\ NoTarget \in Targets
        BY DEF Addresses, Targets, NoTarget
      <4> QED
        BY <1>1, <4>1 DEF Untried
    <3> HIDE DEF Untried
    <3> QED
      BY <3>1
  <2> QED
    BY <2>2, <2>4, <2>5
<1>8. CASE UNCHANGED vars
  BY <1>8 DEF vars
<1> QED
  BY <1>2, <1>3, <1>4, <1>5, <1>6, <1>7, <1>8 DEF Next

\* What a step does to the exchanges and the breakers: one comes in, or is
\* answered, without being tried; one is let through; one that was tried ends.
Handled(e) ==
    /\ stage[e] \in {"idle", "resolving"}
    /\ \E s \in Answers \cup {"resolving"} : stage' = [stage EXCEPT ![e] = s]
    /\ stage[e] = "idle" => Receive(e)
    /\ UNCHANGED <<try, circuit, now>>

LetThrough(e, b, ip) ==
    /\ stage[e] = "resolving" /\ stage' = [stage EXCEPT ![e] = "trying"]
    /\ MayBeDialled(ip)
    /\ try'[e].ip = ip /\ try'[e].breaker = b /\ try'[e].begun = now
    /\ \A x \in Exchanges \ {e} : try'[x] = try[x]
    /\ circuit' = [circuit EXCEPT ![b] = Entered(circuit[b])]
    /\ now' = now

Over(e) ==
    /\ stage[e] = "trying" /\ stage' = [stage EXCEPT ![e] = "answered"]
    /\ \A x \in Exchanges \ {e} : try'[x] = try[x]
    /\ \/ circuit' = [circuit EXCEPT ![try[e].breaker] = Succeeded(circuit[try[e].breaker])]
       \/ circuit' = [circuit EXCEPT ![try[e].breaker] = Failed(circuit[try[e].breaker], try[e].begun)]
    /\ now' = now

LEMMA StepKinds ==
    ASSUME TypeOK, [Next]_vars
    PROVE  \/ Tick \/ UNCHANGED vars
           \/ \E e \in Exchanges : Handled(e) \/ Over(e)
           \/ \E e \in Exchanges : \E b \in Exchanges : \E ip \in Addresses : LetThrough(e, b, ip)
<1>1. "answered" \in Answers /\ "redirected" \in Answers
  BY DEF Answers
<1>2. ASSUME NEW e \in Exchanges, Receive(e)
      PROVE  Handled(e)
  BY <1>2 DEF Receive, Moved, Answers, Handled
<1>3. ASSUME NEW e \in Exchanges,
             Refuse(e) \/ Redirect(e)
      PROVE  Handled(e)
  BY <1>1, <1>3 DEF Refuse, Redirect, Moved, Handled
<1>4. ASSUME NEW e \in Exchanges, NEW ips \in Resolutions(To(e)), Enter(e, ips)
      PROVE  Handled(e) \/ \E b \in Exchanges : \E ip \in Addresses : LetThrough(e, b, ip)
  <2> DEFINE b == Breaker(e).id
  <2>1. b \in Exchanges
    BY BreakerIsKept
  <2>2. ips[1] \in Addresses /\ MayBeDialled(ips[1])
    BY <1>4, AcceptedIsPermitted DEF Enter
  <2>3. stage[e] = "resolving" /\ now' = now
    BY <1>4 DEF Enter
  <2>4. CASE Refuses(circuit[b])
    BY <1>1, <1>4, <2>3, <2>4 DEF Enter, Moved, Handled
  <2>5. CASE ~Refuses(circuit[b])
    <3>1. /\ stage' = [stage EXCEPT ![e] = "trying"]
          /\ try' = [try EXCEPT ![e] = [ip |-> ips[1], host |-> AsHost(To(e)), breaker |-> b, begun |-> now]]
          /\ circuit' = [circuit EXCEPT ![b] = Entered(@)]
      BY <1>4, <2>5 DEF Enter, Moved
    <3> HIDE DEF b
    <3>2. /\ try'[e].ip = ips[1] /\ try'[e].breaker = b /\ try'[e].begun = now
          /\ \A x \in Exchanges \ {e} : try'[x] = try[x]
      BY <3>1 DEF TypeOK
    <3>3. LetThrough(e, b, ips[1])
      BY <2>2, <2>3, <3>1, <3>2 DEF LetThrough
    <3> QED
      BY <2>1, <2>2, <3>3
  <2> QED
    BY <2>4, <2>5
<1>5. ASSUME NEW e \in Exchanges, Headers(e) \/ Fail(e)
      PROVE  Over(e)
  BY <1>5 DEF Headers, Fail, Ended, Moved, TypeOK, Over
<1> QED
  BY <1>2, <1>3, <1>4, <1>5 DEF Next

LEMMA DialsStep == ProxyInv /\ [Next]_vars => DialsArePermitted'
<1> SUFFICES ASSUME TypeOK, DialsArePermitted, [Next]_vars
             PROVE  DialsArePermitted'
  BY DEF ProxyInv
<1>1. CASE Tick \/ UNCHANGED vars
  BY <1>1 DEF MayBeDialled, DialsArePermitted, Tick, vars
<1>2. ASSUME NEW e \in Exchanges, Handled(e) PROVE DialsArePermitted'
  BY <1>2 DEF MayBeDialled, DialsArePermitted, Handled, Answers, TypeOK
<1>3. ASSUME NEW e \in Exchanges, Over(e) PROVE DialsArePermitted'
  BY <1>3 DEF MayBeDialled, DialsArePermitted, Over, TypeOK
<1>4. ASSUME NEW e \in Exchanges, NEW b \in Exchanges, NEW ip \in Addresses, LetThrough(e, b, ip)
      PROVE  DialsArePermitted'
  BY <1>4 DEF MayBeDialled, DialsArePermitted, LetThrough, TypeOK
<1> QED
  BY <1>1, <1>2, <1>3, <1>4, StepKinds

LEMMA CountStep == ProxyInv /\ [Next]_vars => BreakersCount'
<1> SUFFICES ASSUME TypeOK, BreakersCount, [Next]_vars
             PROVE  BreakersCount'
  BY DEF ProxyInv
<1> USE LimitsAssumption DEF TypeOK
<1>1. CASE Tick \/ UNCHANGED vars
  BY <1>1 DEF BreakersCount, Tick, vars
<1>2. ASSUME NEW e \in Exchanges, Handled(e) PROVE BreakersCount'
  BY <1>2 DEF BreakersCount, Handled
<1>3. ASSUME NEW e \in Exchanges, Over(e) PROVE BreakersCount'
  <2> DEFINE b == try[e].breaker
             c == circuit[b]
             d == circuit'[b]
  <2>1. /\ b \in Exchanges /\ Threshold \in Nat
        /\ c \in [state : {"CLOSED", "OPEN", "HALF_OPEN"}, failures : Nat, last : 0..now]
    OBVIOUS
  <2>2. \A x \in Exchanges : x # b => circuit'[x] = circuit[x]
    BY <1>3 DEF Over
  <2>3. d = Succeeded(c) \/ d = Failed(c, try[e].begun)
    BY <1>3, <2>1 DEF Over
  <2>4. c.state # "CLOSED" => c.failures >= Threshold
    BY <2>1 DEF BreakersCount
  <2> HIDE DEF b, c, d
  <2>5. d.state # "CLOSED" => d.failures >= Threshold
    <3>1. CASE d = Succeeded(c)
      BY <2>1, <2>4, <3>1 DEF Succeeded
    <3>2. CASE d = Failed(c, try[e].begun)
      <4>1. d.failures = c.failures + 1
        BY <2>1, <3>2 DEF Failed
      <4>2. d.state = IF c.failures + 1 >= Threshold THEN "OPEN" ELSE c.state
        BY <2>1, <3>2 DEF Failed
      <4> QED
        BY <2>1, <2>4, <4>1, <4>2
    <3> QED
      BY <2>3, <3>1, <3>2
  <2> QED
    BY <2>2, <2>5 DEF BreakersCount, b, c, d
<1>4. ASSUME NEW e \in Exchanges, NEW b \in Exchanges, NEW ip \in Addresses, LetThrough(e, b, ip)
      PROVE  BreakersCount'
  BY <1>4 DEF BreakersCount, LetThrough, Entered
<1> QED
  BY <1>1, <1>2, <1>3, <1>4, StepKinds

LEMMA HalfOpenStep == ProxyInv /\ [Next]_vars => HalfOpenIsUnderTrial'
<1> SUFFICES ASSUME TypeOK, BreakersCount, HalfOpenIsUnderTrial, [Next]_vars,
                    NEW b \in Exchanges, circuit'[b].state = "HALF_OPEN"
             PROVE  \E x \in Exchanges : stage'[x] = "trying" /\ try'[x].breaker = b
  BY DEF ProxyInv, HalfOpenIsUnderTrial, Trials
<1>1. circuit[b].state = "HALF_OPEN" =>
        \E x \in Exchanges : stage[x] = "trying" /\ try[x].breaker = b
  BY DEF HalfOpenIsUnderTrial, Trials
<1>2. CASE Tick \/ UNCHANGED vars
  BY <1>1, <1>2 DEF Tick, vars
<1>3. ASSUME NEW e \in Exchanges, Handled(e)
      PROVE  \E x \in Exchanges : stage'[x] = "trying" /\ try'[x].breaker = b
  <2>1. PICK x \in Exchanges : stage[x] = "trying" /\ try[x].breaker = b
    BY <1>1, <1>3 DEF Handled
  <2> QED
    BY <1>3, <2>1 DEF Handled, TypeOK
<1>4. ASSUME NEW e \in Exchanges, Over(e)
      PROVE  \E x \in Exchanges : stage'[x] = "trying" /\ try'[x].breaker = b
  <2>1. try[e].breaker # b
    <3> SUFFICES ASSUME try[e].breaker = b PROVE FALSE
      OBVIOUS
    <3> DEFINE c == circuit[b]
    <3>1. /\ Threshold \in Nat
          /\ c \in [state : {"CLOSED", "OPEN", "HALF_OPEN"}, failures : Nat, last : 0..now]
      BY LimitsAssumption DEF TypeOK
    <3>2. circuit'[b] = Succeeded(c) \/ circuit'[b] = Failed(c, try[e].begun)
      BY <1>4 DEF Over, TypeOK
    <3>3. c.state # "CLOSED" => c.failures >= Threshold
      BY DEF BreakersCount
    <3> HIDE DEF c
    <3>4. Succeeded(c).state # "HALF_OPEN"
      BY <3>1 DEF Succeeded
    <3>5. Failed(c, try[e].begun).state = IF c.failures + 1 >= Threshold THEN "OPEN" ELSE c.state
      BY <3>1 DEF Failed
    <3>6. Failed(c, try[e].begun).state # "HALF_OPEN"
      BY <3>1, <3>3, <3>5
    <3> QED
      BY <3>2, <3>4, <3>6
  <2>2. circuit'[b] = circuit[b]
    BY <1>4, <2>1 DEF Over, TypeOK
  <2>3. PICK x \in Exchanges : stage[x] = "trying" /\ try[x].breaker = b
    BY <1>1, <2>2
  <2> QED
    BY <1>4, <2>1, <2>3 DEF Over, TypeOK
<1>5. ASSUME NEW e \in Exchanges, NEW c \in Exchanges, NEW ip \in Addresses, LetThrough(e, c, ip)
      PROVE  \E x \in Exchanges : stage'[x] = "trying" /\ try'[x].breaker = b
  <2>1. CASE c = b
    BY <1>5, <2>1 DEF LetThrough, TypeOK
  <2>2. CASE c # b
    <3>1. circuit'[b] = circuit[b]
      BY <1>5, <2>2 DEF LetThrough, TypeOK
    <3>2. PICK x \in Exchanges : stage[x] = "trying" /\ try[x].breaker = b
      BY <1>1, <3>1
    <3> QED
      BY <1>5, <3>2 DEF LetThrough, TypeOK
  <2> QED
    BY <2>1, <2>2
<1> QED
  BY <1>2, <1>3, <1>4, <1>5, StepKinds

LEMMA HopsStep == ProxyInv /\ [Next]_vars => HopsAreTimely'
<1> SUFFICES ASSUME TypeOK, HopsAreTimely, [Next]_vars,
                    NEW e \in Exchanges, e[2] < Rounds,
                    stage'[e] = "trying", IsSelf(try'[e].ip), stage'[Child(e)] = "idle"
             PROVE  now' - try'[e].begun <= Idle
  BY DEF ProxyInv, HopsAreTimely
<1> USE LimitsAssumption DEF TypeOK
<1>1. Child(e) \in Exchanges /\ Child(e) # e
  BY ExchangeParts
<1>2. CASE Tick
  BY <1>2 DEF HopsAreTimely, Tick
<1>3. CASE UNCHANGED vars
  BY <1>3 DEF HopsAreTimely, vars
<1>4. ASSUME NEW x \in Exchanges, Handled(x) \/ Over(x)
      PROVE  now' - try'[e].begun <= Idle
  <2>1. stage[e] = "trying" /\ stage[Child(e)] = "idle" /\ try'[e] = try[e] /\ now' = now
    BY <1>1, <1>4 DEF Handled, Over, Answers
  <2> QED
    BY <2>1 DEF HopsAreTimely
<1>5. ASSUME NEW x \in Exchanges, NEW b \in Exchanges, NEW ip \in Addresses, LetThrough(x, b, ip)
      PROVE  now' - try'[e].begun <= Idle
  <2>1. CASE x = e
    BY <1>5, <2>1 DEF LetThrough
  <2>2. CASE x # e
    <3>1. stage[e] = "trying" /\ stage[Child(e)] = "idle" /\ try'[e] = try[e] /\ now' = now
      BY <1>1, <1>5, <2>2 DEF LetThrough
    <3> QED
      BY <3>1 DEF HopsAreTimely
  <2> QED
    BY <2>1, <2>2
<1> QED
  BY <1>2, <1>3, <1>4, <1>5, StepKinds

LEMMA LoopsStep == ProxyInv /\ [Next]_vars => LoopsEnd'
<1> SUFFICES ASSUME TypeOK, HopsAreTimely, LoopsEnd, [Next]_vars, Idle <= Window,
                    NEW e \in Exchanges, e[2] >= 3
             PROVE  stage'[e] \in {"idle", "looped"}
  BY DEF ProxyInv, LoopsEnd
<1>1. stage[e] \in {"idle", "looped"}
  BY DEF LoopsEnd
<1>2. ASSUME Receive(e) PROVE stage'[e] = "looped"
  <2> DEFINE p == Parent(e)
  <2>1. /\ e[2] \in Nat /\ e[2] > 1 /\ e[2] <= Rounds /\ Rounds \in Nat
        /\ p \in Exchanges /\ Child(p) = e /\ p[2] = e[2] - 1
    BY ExchangeParts, LimitsAssumption
  <2>2. stage[p] = "trying" /\ IsSelf(try[p].ip) /\ stage[e] = "idle"
    BY <1>2, <2>1 DEF Receive
  <2>3. ~(p[2] >= 3)
    BY <2>1, <2>2 DEF LoopsEnd
  <2>4. p[2] = 2 /\ p[2] < Rounds /\ e[2] = 3
    BY <2>1, <2>3
  <2>5. ClientOf(p) = ClientOf(e)
    BY <2>4 DEF ClientOf
  <2> HIDE DEF p
  <2>6. try[p].begun \in 0..now /\ now \in Nat /\ now - try[p].begun <= Idle
    BY <2>1, <2>2, <2>4 DEF HopsAreTimely, TypeOK
  <2>7. now - try[p].begun <= Window /\ Window \in Nat \ {0} /\ try[p].begun \in Nat /\ try[p].begun <= now
    BY <2>6, LimitsAssumption
  <2>8. (now \div Window) - (try[p].begun \div Window) \in {0, 1}
    BY <2>6, <2>7, Windows
  <2>9. IsLoop(e)
    BY <2>1, <2>5, <2>8 DEF IsLoop, p
  <2> QED
    BY <1>2, <2>9 DEF Receive, Moved, TypeOK
<1>3. CASE Tick \/ UNCHANGED vars
  BY <1>1, <1>3 DEF Tick, vars
<1>4. ASSUME NEW x \in Exchanges, Handled(x)
      PROVE  stage'[e] \in {"idle", "looped"}
  BY <1>1, <1>2, <1>4 DEF Handled, TypeOK
<1>5. ASSUME NEW x \in Exchanges, Over(x)
      PROVE  stage'[e] \in {"idle", "looped"}
  BY <1>1, <1>5 DEF Over, TypeOK
<1>6. ASSUME NEW x \in Exchanges, NEW b \in Exchanges, NEW ip \in Addresses, LetThrough(x, b, ip)
      PROVE  stage'[e] \in {"idle", "looped"}
  BY <1>1, <1>6 DEF LetThrough, TypeOK
<1> QED
  BY <1>3, <1>4, <1>5, <1>6, StepKinds

-----------------------------------------------------------------------------
(* The theorems.                                                             *)

\* The inductive invariant of requests, breakers and the hops of a loop.
THEOREM ProxyInvariant == Spec => []ProxyInv
<1>1. ProxyInv /\ [Next]_vars => ProxyInv'
  BY TypesStep, DialsStep, CountStep, HalfOpenStep, HopsStep, LoopsStep DEF ProxyInv
<1> QED
  BY <1>1, ProxyInit, PTL DEF Spec

\* The types, and the limit of the map of breakers.
THEOREM ProxyTypeCorrect == Spec => []TypeOK
<1>1. ProxyInv => TypeOK
  BY DEF ProxyInv
<1> QED
  BY <1>1, ProxyInvariant, PTL

\* No connection is opened to an address the configuration does not permit,
\* but for the IPv6 addresses that are overlooked.
THEOREM ProxyDialsArePermitted == Spec => []DialsArePermitted
<1>1. ProxyInv => DialsArePermitted
  BY DEF ProxyInv
<1> QED
  BY <1>1, ProxyInvariant, PTL

\* A half-open breaker waits for a request it let through, however many requests
\* of earlier times end meanwhile and whatever the limits are.
THEOREM ProxyHalfOpenIsUnderTrial == Spec => []HalfOpenIsUnderTrial
<1>1. ProxyInv => HalfOpenIsUnderTrial
  BY DEF ProxyInv
<1> QED
  BY <1>1, ProxyInvariant, PTL

\* No request comes round a third time unrecognised, if the idle timeout is no
\* longer than the window of the token.
THEOREM ProxyLoopsEnd == Spec => []LoopsEnd
<1>1. ProxyInv => LoopsEnd
  BY DEF ProxyInv
<1> QED
  BY <1>1, ProxyInvariant, PTL

-----------------------------------------------------------------------------
(* Tunnel.                                                                  *)

\* A handler that has not chosen its target yet has no socket to it.
NoTargetYet ==
    \A c \in Conns :
        /\ client[c] = "none" <=> handling[c] = "new"
        /\ handling[c] # "decided" => upstream[c] = "none"

\* What still resolves a name for a stopped proxy did so when it was stopped.
ResolvingIsLate ==
    \A kind \in Kinds : service[kind] # "up" =>
        \A c \in Of(kind) : handling[c] = "resolving" => c \in late

TunnelInv ==
    /\ TunnelTypeOK
    /\ NoTargetYet
    /\ ResolvingIsLate
    /\ ActiveIsExact
    /\ TargetGoneClientGone
    /\ StopLeavesOnlyLateDials

-----------------------------------------------------------------------------

\* Each connection belongs to one of the two proxies.
LEMMA KindsPartition ==
    /\ \A c \in Conns : \E kind \in Kinds : c \in Of(kind)
    /\ \A kind \in Kinds : Of(kind) \subseteq Conns
    /\ \A k1, k2 \in Kinds : \A c \in Conns : c \in Of(k1) /\ c \in Of(k2) => k1 = k2
  BY KindsAssumption DEF KindsAssumption, Conns, Kinds, Of

\* What TearDown (the mutual destroy() of the two sockets) does, socket by
\* socket and entry by entry.
LEMMA TearDownPointwise ==
    ASSUME TunnelTypeOK, NEW cs \in SUBSET Conns, TearDown(cs)
    PROVE  /\ client' \in [Conns -> {"none", "open", "closed"}]
           /\ upstream' \in [Conns -> {"none", "connecting", "open", "closed"}]
           /\ active' \subseteq Conns \X Ends
           /\ \A c \in Conns :
                 /\ c \notin cs => client'[c] = client[c] /\ upstream'[c] = upstream[c]
                 /\ c \in cs => /\ client'[c] = (IF client[c] = "open" THEN "closed" ELSE client[c])
                                /\ upstream'[c] = (IF upstream[c] \in Live THEN "closed"
                                                   ELSE upstream[c])
           /\ \A c \in Conns, end \in Ends :
                 <<c, end>> \in active' <=> <<c, end>> \in active /\ c \notin cs
  <1>1. /\ client' \in [Conns -> {"none", "open", "closed"}]
        /\ upstream' \in [Conns -> {"none", "connecting", "open", "closed"}]
    BY DEF TearDown, TunnelTypeOK, Live
  <1>2. \A c \in Conns :
           /\ c \notin cs => client'[c] = client[c] /\ upstream'[c] = upstream[c]
           /\ c \in cs => /\ client'[c] = (IF client[c] = "open" THEN "closed" ELSE client[c])
                          /\ upstream'[c] = (IF upstream[c] \in Live THEN "closed"
                                             ELSE upstream[c])
    BY DEF TearDown
  <1>3. active' = {e \in active : e[1] \notin cs}
    BY DEF TearDown
  <1>4. active' \subseteq Conns \X Ends
    BY <1>3 DEF TunnelTypeOK
  <1>5. \A c \in Conns, end \in Ends :
           <<c, end>> \in active' <=> <<c, end>> \in active /\ c \notin cs
    BY <1>3
  <1>6. QED
    BY <1>1, <1>2, <1>4, <1>5

\* Initially no connection exists and both proxies are up.
LEMMA TunnelInitInv == TunnelInit => TunnelInv
  <1> SUFFICES ASSUME TunnelInit PROVE TunnelInv
    OBVIOUS
  <1>1. TunnelTypeOK
    BY DEF TunnelInit, TunnelTypeOK
  <1>2. NoTargetYet
    BY DEF TunnelInit, NoTargetYet
  <1>3. /\ \A kind \in Kinds : service[kind] = "up"
        /\ \A c \in Conns : client[c] = "none" /\ upstream[c] = "none"
    BY DEF TunnelInit
  <1>4. ResolvingIsLate /\ StopLeavesOnlyLateDials
    BY <1>3 DEF ResolvingIsLate, StopLeavesOnlyLateDials
  <1>5. ActiveIsExact
    BY <1>3, KindsPartition DEF TunnelInit, ActiveIsExact, Live
  <1>6. TargetGoneClientGone
    BY <1>3 DEF TargetGoneClientGone
  <1>7. QED
    BY <1>1, <1>2, <1>4, <1>5, <1>6 DEF TunnelInv

(***************************************************************************)
(* A step that destroys both sockets of one connection, and at most moves  *)
(* its handler to the end, keeps the invariant: it leaves neither socket   *)
(* open nor in activeConnections.  The stages it may leave are those of a  *)
(* connection that was accepted.                                           *)
(***************************************************************************)
LEMMA DestroyingOneKeepsInv ==
    ASSUME TunnelInv, NEW c \in Conns, TearDown({c}), UNCHANGED <<service, late>>,
           handling' = handling \/ (handling[c] # "new" /\ handling' = [handling EXCEPT ![c] = "decided"]),
           faulted' \in BOOLEAN
    PROVE  TunnelInv'
  <1> USE KindsPartition DEF TunnelInv
  <1>0. TearDown({c}) /\ {c} \in SUBSET Conns
    OBVIOUS
  <1>1. /\ client' \in [Conns -> {"none", "open", "closed"}]
        /\ upstream' \in [Conns -> {"none", "connecting", "open", "closed"}]
        /\ active' \subseteq Conns \X Ends
        /\ \A d \in Conns :
              /\ d # c => client'[d] = client[d] /\ upstream'[d] = upstream[d]
              /\ d = c => /\ client'[d] = (IF client[d] = "open" THEN "closed" ELSE client[d])
                          /\ upstream'[d] = (IF upstream[d] \in Live THEN "closed"
                                             ELSE upstream[d])
        /\ \A d \in Conns, end \in Ends :
              <<d, end>> \in active' <=> <<d, end>> \in active /\ d # c
    BY <1>0, TearDownPointwise
  <1>2. /\ handling' \in [Conns -> {"new", "hello", "resolving", "decided"}]
        /\ \A d \in Conns : handling'[d] = handling[d] \/ (handling[d] # "new" /\ handling'[d] = "decided")
    BY DEF TunnelTypeOK
  <1>3. TunnelTypeOK'
    BY <1>1, <1>2 DEF TunnelTypeOK, Ends
  <1>4. NoTargetYet'
    BY <1>1, <1>2 DEF NoTargetYet, Live
  <1>5. ResolvingIsLate'
    BY <1>2 DEF ResolvingIsLate
  <1>6. ActiveIsExact'
    <2> SUFFICES ASSUME NEW kind \in Kinds, service[kind] = "up", NEW d \in Of(kind)
                 PROVE  /\ <<d, "client">> \in active' <=> client'[d] = "open"
                        /\ <<d, "upstream">> \in active' <=> upstream'[d] \in Live
      BY DEF ActiveIsExact
    <2>1. d \in Conns /\ "client" \in Ends /\ "upstream" \in Ends
      BY DEF Ends
    <2>2. /\ <<d, "client">> \in active <=> client[d] = "open"
          /\ <<d, "upstream">> \in active <=> upstream[d] \in Live
      BY DEF ActiveIsExact
    <2>3. QED
      BY <1>1, <2>1, <2>2 DEF Live
  <1>7. TargetGoneClientGone'
    BY <1>1 DEF TargetGoneClientGone, Live
  <1>8. StopLeavesOnlyLateDials'
    BY <1>1 DEF StopLeavesOnlyLateDials, Live
  <1>9. QED
    BY <1>3, <1>4, <1>5, <1>6, <1>7, <1>8

\* A client that connects is in activeConnections and has no target yet.
LEMMA AcceptKeepsInv ==
    ASSUME TunnelInv, NEW kind \in Kinds, NEW c \in Conns, Accept(kind, c)
    PROVE  TunnelInv'
  <1> USE KindsPartition DEF TunnelInv
  <1>1. /\ service[kind] = "up" /\ c \in Of(kind) /\ client[c] = "none"
        /\ handling[c] = "new" /\ upstream[c] = "none"
        /\ UNCHANGED <<service, upstream, late, faulted>>
    BY DEF Accept, NoTargetYet
  <1>2. /\ client'[c] = "open" /\ handling'[c] \in {"hello", "resolving"}
        /\ \A d \in Conns : d # c => client'[d] = client[d] /\ handling'[d] = handling[d]
    BY DEF Accept, TunnelTypeOK
  <1>3. /\ \A d \in Conns : <<d, "client">> \in active' <=> <<d, "client">> \in active \/ d = c
        /\ \A d \in Conns : <<d, "upstream">> \in active' <=> <<d, "upstream">> \in active
    BY DEF Accept
  <1>4. TunnelTypeOK'
    BY DEF Accept, TunnelTypeOK, Ends
  <1>5. NoTargetYet'
    BY <1>1, <1>2 DEF NoTargetYet
  <1>6. ResolvingIsLate' /\ StopLeavesOnlyLateDials'
    BY <1>1, <1>2 DEF ResolvingIsLate, StopLeavesOnlyLateDials
  <1>7. ActiveIsExact'
    BY <1>1, <1>2, <1>3 DEF ActiveIsExact, Live
  <1>8. TargetGoneClientGone'
    BY <1>1, <1>2 DEF TargetGoneClientGone
  <1>9. QED
    BY <1>4, <1>5, <1>6, <1>7, <1>8

\* A ClientHello is complete only on a socket that is open, which none is once
\* the proxy was stopped: whoever starts to resolve later is not late.
LEMMA HelloKeepsInv ==
    ASSUME TunnelInv, NEW c \in Conns, Hello(c)
    PROVE  TunnelInv'
  <1> USE KindsPartition DEF TunnelInv
  <1>1. /\ handling[c] = "hello" /\ client[c] = "open" /\ handling'[c] = "resolving"
        /\ \A d \in Conns : d # c => handling'[d] = handling[d]
        /\ UNCHANGED <<service, client, upstream, active, late, faulted>>
    BY DEF Hello, TunnelTypeOK
  <1>2. TunnelTypeOK'
    BY DEF Hello, TunnelTypeOK
  <1>3. NoTargetYet'
    BY <1>1 DEF NoTargetYet
  <1>4. ResolvingIsLate'
    BY <1>1 DEF ResolvingIsLate, StopLeavesOnlyLateDials
  <1>5. ActiveIsExact' /\ TargetGoneClientGone' /\ StopLeavesOnlyLateDials'
    BY <1>1 DEF ActiveIsExact, TargetGoneClientGone, StopLeavesOnlyLateDials
  <1>6. QED
    BY <1>2, <1>3, <1>4, <1>5

\* net.connect: the new socket is in activeConnections from the start; in a
\* stopped proxy only a handler that was resolving gets here.
LEMMA DialKeepsInv ==
    ASSUME TunnelInv, NEW c \in Conns, Dial(c)
    PROVE  TunnelInv'
  <1> USE KindsPartition DEF TunnelInv
  <1>1. /\ (handling[c] = "hello" /\ client[c] = "open") \/ handling[c] = "resolving"
        /\ upstream[c] = "none" /\ handling'[c] = "decided" /\ upstream'[c] = "connecting"
        /\ \A d \in Conns : d # c => handling'[d] = handling[d] /\ upstream'[d] = upstream[d]
        /\ UNCHANGED <<service, client, late, faulted>>
    BY DEF Dial, AtTarget, TunnelTypeOK, NoTargetYet
  <1>2. /\ \A d \in Conns : <<d, "client">> \in active' <=> <<d, "client">> \in active
        /\ \A d \in Conns :
              <<d, "upstream">> \in active' <=> <<d, "upstream">> \in active \/ d = c
    BY DEF Dial
  <1>3. TunnelTypeOK'
    BY DEF Dial, TunnelTypeOK, Ends
  <1>4. NoTargetYet'
    BY <1>1 DEF NoTargetYet
  <1>5. ResolvingIsLate'
    BY <1>1 DEF ResolvingIsLate
  <1>6. ActiveIsExact'
    BY <1>1, <1>2 DEF ActiveIsExact, Live
  <1>7. TargetGoneClientGone'
    BY <1>1 DEF TargetGoneClientGone
  <1>8. StopLeavesOnlyLateDials'
    BY <1>1 DEF StopLeavesOnlyLateDials, ResolvingIsLate, Live
  <1>9. QED
    BY <1>3, <1>4, <1>5, <1>6, <1>7, <1>8

\* The target accepts: a live socket stays a live one.
LEMMA ConnectedKeepsInv ==
    ASSUME TunnelInv, NEW c \in Conns, Connected(c)
    PROVE  TunnelInv'
  <1> USE KindsPartition DEF TunnelInv
  <1>1. /\ upstream[c] = "connecting" /\ upstream'[c] = "open"
        /\ \A d \in Conns : d # c => upstream'[d] = upstream[d]
        /\ UNCHANGED <<service, client, handling, active, late, faulted>>
    BY DEF Connected, TunnelTypeOK
  <1>2. TunnelTypeOK'
    BY DEF Connected, TunnelTypeOK
  <1>3. NoTargetYet' /\ ResolvingIsLate'
    BY <1>1 DEF NoTargetYet, ResolvingIsLate
  <1>4. ActiveIsExact' /\ TargetGoneClientGone' /\ StopLeavesOnlyLateDials'
    BY <1>1 DEF ActiveIsExact, TargetGoneClientGone, StopLeavesOnlyLateDials, Live
  <1>5. QED
    BY <1>2, <1>3, <1>4

\* stop(): activeConnections is exact at that moment, so every socket of the
\* proxy is destroyed; those of the other proxy are not touched.
LEMMA StopKeepsInv ==
    ASSUME TunnelInv, NEW kind \in Kinds, Stop(kind)
    PROVE  TunnelInv'
  <1> USE KindsPartition DEF TunnelInv
  <1> DEFINE cs == {c \in Of(kind) : \E end \in {"client", "upstream"} : <<c, end>> \in active}
  <1>1. /\ service[kind] = "up" /\ service'[kind] = "stopping"
        /\ \A k \in Kinds : k # kind => service'[k] = service[k]
        /\ UNCHANGED <<handling, faulted>>
    BY DEF Stop, TunnelTypeOK
  <1>2. \A c \in Conns : c \in late' <=> c \in late \/ (c \in Of(kind) /\ handling[c] = "resolving")
    BY DEF Stop
  <1>3. cs \in SUBSET Conns /\ TearDown(cs)
    BY DEF Stop
  <1>4. \A c \in Of(kind) : c \notin cs => client[c] # "open" /\ upstream[c] \notin Live
    BY <1>1 DEF ActiveIsExact
  <1>5. \A c \in Conns : c \notin Of(kind) => c \notin cs
    OBVIOUS
  <1> HIDE DEF cs
  <1>6. /\ client' \in [Conns -> {"none", "open", "closed"}]
        /\ upstream' \in [Conns -> {"none", "connecting", "open", "closed"}]
        /\ active' \subseteq Conns \X Ends
        /\ \A c \in Conns :
              /\ c \notin cs => client'[c] = client[c] /\ upstream'[c] = upstream[c]
              /\ c \in cs => /\ client'[c] = (IF client[c] = "open" THEN "closed" ELSE client[c])
                             /\ upstream'[c] = (IF upstream[c] \in Live THEN "closed"
                                                ELSE upstream[c])
        /\ \A c \in Conns, end \in Ends :
              <<c, end>> \in active' <=> <<c, end>> \in active /\ c \notin cs
    BY <1>3, TearDownPointwise
  <1>7. \A c \in Of(kind) : client'[c] # "open" /\ upstream'[c] \notin Live
    BY <1>4, <1>6 DEF Live
  <1>8. TunnelTypeOK'
    <2>1. service' \in [Kinds -> {"up", "stopping", "down"}] /\ late' \subseteq Conns
      BY DEF Stop, TunnelTypeOK
    <2>2. QED
      BY <1>1, <1>6, <2>1 DEF TunnelTypeOK
  <1>9. NoTargetYet'
    BY <1>1, <1>6 DEF NoTargetYet, Live
  <1>10. ResolvingIsLate'
    BY <1>1, <1>2 DEF ResolvingIsLate
  <1>11. ActiveIsExact'
    <2> SUFFICES ASSUME NEW k \in Kinds, service'[k] = "up", NEW d \in Of(k)
                 PROVE  /\ <<d, "client">> \in active' <=> client'[d] = "open"
                        /\ <<d, "upstream">> \in active' <=> upstream'[d] \in Live
      BY DEF ActiveIsExact
    <2>1. k # kind /\ d \in Conns /\ d \notin cs
      BY <1>1, <1>5
    <2>2. "client" \in Ends /\ "upstream" \in Ends
      BY DEF Ends
    <2>3. /\ <<d, "client">> \in active <=> client[d] = "open"
          /\ <<d, "upstream">> \in active <=> upstream[d] \in Live
      BY <1>1, <2>1 DEF ActiveIsExact
    <2>4. QED
      BY <1>6, <2>1, <2>2, <2>3
  <1>12. TargetGoneClientGone'
    BY <1>6 DEF TargetGoneClientGone, Live
  <1>13. StopLeavesOnlyLateDials'
    <2> SUFFICES ASSUME NEW k \in Kinds, service'[k] # "up", NEW d \in Of(k)
                 PROVE  client'[d] # "open" /\ (upstream'[d] \in Live => d \in late')
      BY DEF StopLeavesOnlyLateDials
    <2>1. CASE k = kind
      BY <1>7, <2>1
    <2>2. CASE k # kind
      <3>1. d \in Conns /\ d \notin cs /\ service[k] # "up"
        BY <1>1, <1>5, <2>2
      <3>2. QED
        BY <1>2, <1>6, <3>1 DEF StopLeavesOnlyLateDials
    <2>3. QED
      BY <2>1, <2>2
  <1>14. QED
    BY <1>8, <1>9, <1>10, <1>11, <1>12, <1>13

\* The server of a stopped proxy has closed: only entries of that proxy go.
LEMMA StoppedKeepsInv ==
    ASSUME TunnelInv, NEW kind \in Kinds, Stopped(kind)
    PROVE  TunnelInv'
  <1> USE KindsPartition DEF TunnelInv
  <1>1. /\ service[kind] = "stopping" /\ service'[kind] = "down"
        /\ \A k \in Kinds : k # kind => service'[k] = service[k]
        /\ UNCHANGED <<client, upstream, handling, late, faulted>>
    BY DEF Stopped, TunnelTypeOK
  <1>2. active' = {e \in active : e[1] \notin Of(kind)}
    BY DEF Stopped
  <1>3. \A c \in Conns \ Of(kind) : \A end \in Ends :
           <<c, end>> \in active' <=> <<c, end>> \in active
    BY <1>2
  <1>4. TunnelTypeOK'
    <2>1. service' \in [Kinds -> {"up", "stopping", "down"}]
      BY DEF Stopped, TunnelTypeOK
    <2>2. QED
      BY <1>1, <1>2, <2>1 DEF TunnelTypeOK
  <1>5. NoTargetYet' /\ TargetGoneClientGone'
    BY <1>1 DEF NoTargetYet, TargetGoneClientGone
  <1>6. ResolvingIsLate' /\ StopLeavesOnlyLateDials'
    BY <1>1 DEF ResolvingIsLate, StopLeavesOnlyLateDials
  <1>7. ActiveIsExact'
    BY <1>1, <1>3 DEF ActiveIsExact, Ends
  <1>8. QED
    BY <1>4, <1>5, <1>6, <1>7

\* Every step of the two proxies keeps the invariant.
LEMMA TunnelNextInv == TunnelInv /\ [TunnelNext]_tunnelVars => TunnelInv'
  <1> SUFFICES ASSUME TunnelInv, [TunnelNext]_tunnelVars PROVE TunnelInv'
    OBVIOUS
  <1>1. ASSUME NEW kind \in Kinds, NEW c \in Conns, Accept(kind, c) PROVE TunnelInv'
    BY <1>1, AcceptKeepsInv
  <1>2. ASSUME NEW kind \in Kinds, Stop(kind) PROVE TunnelInv'
    BY <1>2, StopKeepsInv
  <1>3. ASSUME NEW kind \in Kinds, Stopped(kind) PROVE TunnelInv'
    BY <1>3, StoppedKeepsInv
  <1>4. ASSUME NEW c \in Conns, Hello(c) PROVE TunnelInv'
    BY <1>4, HelloKeepsInv
  <1>5. ASSUME NEW c \in Conns, HelloTimeout(c) PROVE TunnelInv'
    BY <1>5, DestroyingOneKeepsInv DEF HelloTimeout, TunnelInv, TunnelTypeOK
  <1>6. ASSUME NEW c \in Conns, RefuseClient(c) PROVE TunnelInv'
    BY <1>6, DestroyingOneKeepsInv DEF RefuseClient, AtTarget, TunnelInv, TunnelTypeOK
  <1>7. ASSUME NEW c \in Conns, Dial(c) PROVE TunnelInv'
    BY <1>7, DialKeepsInv
  <1>8. ASSUME NEW c \in Conns, Connected(c) PROVE TunnelInv'
    BY <1>8, ConnectedKeepsInv
  <1>9. ASSUME NEW c \in Conns, UpstreamCloses(c) PROVE TunnelInv'
    BY <1>9, DestroyingOneKeepsInv DEF UpstreamCloses, TunnelInv, TunnelTypeOK
  <1>10. ASSUME NEW c \in Conns, UpstreamIdle(c) PROVE TunnelInv'
    BY <1>10, DestroyingOneKeepsInv DEF UpstreamIdle, TunnelInv, TunnelTypeOK
  <1>11. ASSUME NEW c \in Conns, ClientCloses(c) PROVE TunnelInv'
    BY <1>11, DestroyingOneKeepsInv DEF ClientCloses, TunnelInv, TunnelTypeOK
  <1>12. CASE UNCHANGED tunnelVars
    BY <1>12
    DEF tunnelVars, TunnelInv, TunnelTypeOK, NoTargetYet, ResolvingIsLate, ActiveIsExact,
        TargetGoneClientGone, StopLeavesOnlyLateDials
  <1>13. QED
    BY <1>1, <1>2, <1>3, <1>4, <1>5, <1>6, <1>7, <1>8, <1>9, <1>10, <1>11, <1>12 DEF TunnelNext

-----------------------------------------------------------------------------

\* The inductive invariant holds in every reachable state of the two proxies.
THEOREM TunnelInvariance == TunnelSpec => []TunnelInv
  BY TunnelInitInv, TunnelNextInv, PTL DEF TunnelSpec

\* Every variable of Tunnel keeps its type.
THEOREM TunnelTypeCorrect == TunnelSpec => []TunnelTypeOK
  <1>1. TunnelInv => TunnelTypeOK
    BY DEF TunnelInv
  <1>2. QED
    BY <1>1, TunnelInvariance, PTL

\* activeConnections holds exactly the sockets that are not closed, so stop()
\* finds all of them, for any number of connections.
THEOREM ActiveExact == TunnelSpec => []ActiveIsExact
  <1>1. TunnelInv => ActiveIsExact
    BY DEF TunnelInv
  <1>2. QED
    BY <1>1, TunnelInvariance, PTL

\* The close, error and timeout handlers of the socket to the target always
\* take the client's socket with it.
THEOREM NoClientHangs == TunnelSpec => []TargetGoneClientGone
  <1>1. TunnelInv => TargetGoneClientGone
    BY DEF TunnelInv
  <1>2. QED
    BY <1>1, TunnelInvariance, PTL

\* After stop() no socket is left but those to targets whose names were being
\* resolved at that moment.
THEOREM StopLeavesLittle == TunnelSpec => []StopLeavesOnlyLateDials
  <1>1. TunnelInv => StopLeavesOnlyLateDials
    BY DEF TunnelInv
  <1>2. QED
    BY <1>1, TunnelInvariance, PTL
=============================================================================
