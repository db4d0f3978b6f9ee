----------------------------- MODULE MCDnsLookup -----------------------------
(* Instances of DnsLookup for TLC: names of the small sets of callers,       *)
(* thread objects and resolvers, and the symmetry of the safety runs.        *)
EXTENDS DnsLookup, TLC

CONSTANTS c1, c2, t1, t2, t3, r1, r2, r3

OneClient == {c1}
TwoClients == {c1, c2}
OneThread == {t1}
TwoThreads == {t1, t2}
ThreeThreads == {t1, t2, t3}
OneResolver == {r1}
TwoResolvers == {r1, r2}
ThreeResolvers == {r1, r2, r3}

\* Clients, thread objects and (where none of them is told apart) resolvers
\* are interchangeable.
Symmetry == Permutations(Clients) \cup Permutations(Threads)
                \cup (IF NoServer = {} /\ Belated \in {{}, Resolvers}
                      THEN Permutations(Resolvers)
                      ELSE {})
=============================================================================
