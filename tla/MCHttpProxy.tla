----------------------------- MODULE MCHttpProxy -----------------------------
(* A small instance of HttpProxy: two requests for a host whose upstream may *)
(* be the proxy, one whose URL names a host with an IPv6 address that is     *)
(* overlooked, and one that is redirected to where the first two lead.  The  *)
(* resolver answers with an address that is fit to be dialled, puts one      *)
(* before it that is not, or gives the proxy's own.                          *)
EXTENDS HttpProxy, TLC

CONSTANTS r1, r2, r3, r4

Name(n) == [name |-> n, ip |-> Text]
Site == <<"site", "lan">>
Back == <<"back", "lan">>
Home == <<"home", "net">>

Public == V4(8, 8, 8, 8)
Own == V4(192, 168, 0, 9)
Unfit == { V4(172, 31, 0, 1), V4(192, 168, 1, 9), V4(198, 51, 100, 1), Text }

MCAsked(r) == IF r \in {r1, r2} THEN Name(Site) ELSE Name(Home)
MCClient(r) == V4(1, 1, 1, 1)
MCLower(l) == l
Entry == [records |-> <<>>, redirect |-> NoTarget, upstream |-> NoTarget]
MCHosts ==
    (Exact(Site) :> [Entry EXCEPT !.upstream = Name(Back)])
    @@ (Under(Home) :> [Entry EXCEPT !.records = <<V6(<<\hFE90, 0, 0, 0, 0, 0, 0, 1>>)>>, !.redirect = Name(Back)])
MCPolicy ==
    [present |-> TRUE, allowByDefault |-> TRUE, blockDomains |-> {}, allowDomains |-> {},
     allowIps |-> {}, allowRanges |-> {[range |-> <<192, 168, 0, 0>>, bits |-> 24]},
     blockIps |-> {}, blockRanges |-> {[range |-> <<198, 51, 0, 0>>, bits |-> 16]}]
MCSymmetry == Permutations({r1, r2})
MCNameService == {<<Public>>, <<Own>>} \cup {<<a, Public>> : a \in Unfit}

\* The verdicts on addresses in texts of every kind, with and without a policy.
Bodies == { <<0, 0, 0, 0, 0, 0, 0, 0>>, <<0, 0, 0, 0, 0, 0, 0, 1>>, <<0, 0, 0, 0, 0, 0, \h7F00, 1>>,
            <<0, 0, 0, 0, 0, \hFFFF, \h7F00, 1>>, <<0, 0, 0, 0, 0, \hFFFF, \h0808, \h0808>>,
            <<0, 0, 0, 0, \hFFFF, \h0808, \h0808, \h0808>>, <<0, 0, 0, 0, \hFFFF, \h0A00, \hFF00, 1>> }
          \cup {<<first, 0, 0, 0, 0, 0, 0, 1>> : first \in
                 {\hFD, \hFD5, \h2001, \hFC00, \hFC01, \hFD00, \hFDFF, \hFE80, \hFE90, \hFEC0, \hFF02}}
Spelt == [family : {"v6"}, body : Bodies, begun : BOOLEAN, dotted : BOOLEAN, text : 0..1]
Blocking == [MCPolicy EXCEPT !.blockIps = {V6(b) : b \in Bodies}]
ASSUME VerdictsOnSpellings ==
    \A ip \in Spelt, fw \in {NoFirewall, MCPolicy, Blocking} :
        /\ EvaluateIp(ip, fw) /\ EvaluateOutbound(ip, fw) => Permitted(ip, fw) \/ Overlooked(ip, fw)
        /\ Unrecognised(ip) => EvaluateOutbound(ip, NoFirewall)
=============================================================================
