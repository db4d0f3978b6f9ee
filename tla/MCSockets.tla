------------------------------ MODULE MCSockets ------------------------------
(* Instances of Sockets for TLC. *)
EXTENDS Sockets, TLC

CONSTANTS t1, t2, v1, v2, u1, u2, f1, f2, f3

OneTcp == {t1}
TwoTcps == {t1, t2}
OneServer == {v1}
TwoServers == {v1, v2}
OneUdp == {u1}
TwoFds == {f1, f2}
ThreeFds == {f1, f2, f3}

Symmetry ==
    Permutations(Tcps) \cup Permutations(Servers) \cup Permutations(Udps)
        \cup Permutations(Fds)
=============================================================================
