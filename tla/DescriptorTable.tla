--------------------------- MODULE DescriptorTable ---------------------------
(***************************************************************************)
(* What the socket classes of setka promise about descriptors: each one    *)
(* that the process has open belongs to one object, which takes it when it *)
(* is opened, gives it up once, or hands it on to an object that is moved  *)
(* to and whose own descriptor is closed by that.                          *)
(***************************************************************************)
CONSTANTS Objects, Fds, Invalid

VARIABLES
    open,    \* descriptors of the process that are open
    holds    \* the descriptor of each object

tableVars == <<open, holds>>

TableInit ==
    /\ open = {}
    /\ holds = [s \in Objects |-> Invalid]

Take(s, fd) ==
    /\ holds[s] = Invalid
    /\ fd \notin open
    /\ open' = open \cup {fd}
    /\ holds' = [holds EXCEPT ![s] = fd]

GiveUp(s) ==
    /\ holds[s] # Invalid
    /\ open' = open \ {holds[s]}
    /\ holds' = [holds EXCEPT ![s] = Invalid]

HandOn(s, t) ==
    /\ s # t
    /\ open' = open \ {holds[t]}
    /\ holds' = [holds EXCEPT ![t] = holds[s], ![s] = Invalid]

TableNext ==
    \E s \in Objects :
        \/ \E fd \in Fds : Take(s, fd)
        \/ GiveUp(s)
        \/ \E t \in Objects : HandOn(s, t)

TableSpec == TableInit /\ [][TableNext]_tableVars
=============================================================================
