---------------------------- MODULE MCDnsExchange ----------------------------
(* An instance of DnsExchange for TLC: a host with an IPv6 address and one   *)
(* with an IPv4 address only.                                                *)
EXTENDS DnsExchange, TLC

CONSTANTS r1, r2, r3, six, four

TwoResolvers == {r1, r2}
ThreeResolvers == {r1, r2, r3}
TwoHosts == {six, four}
Records ==
    [h \in Hosts |-> IF h = six THEN [AAAA |-> "ok", A |-> "ok"]
                                ELSE [AAAA |-> "not_found", A |-> "ok"]]

Symmetry == Permutations(Resolvers)
=============================================================================
