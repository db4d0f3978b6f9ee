--------------------------- MODULE ServedRequests ---------------------------
(***************************************************************************)
(* What the lookup threads of dns_resolver.cpp are to their callers, how-  *)
(* ever often they stop, fail and are replaced: one set of requests that   *)
(* is served, and callbacks that come one at a time.  A thread that failed *)
(* may be replaced while it still completes its requests: its successor    *)
(* makes no callback before all those are completed.                       *)
(*                                                                         *)
(* A request ends without a callback and without cancel() only when a      *)
(* thread that has stopped is replaced, and at most one is lost then.      *)
(***************************************************************************)
CONSTANT Resolvers

VARIABLES
    stopped,  \* there is no thread, or it has ended
    served,   \* requests that cancel() finds
    leaving,  \* those of a thread that failed and was replaced
    calling   \* the resolver whose on_completed() runs, if there is one

serviceVars == <<stopped, served, leaving, calling>>

ServiceInit == stopped = TRUE /\ served = {} /\ leaving = {} /\ calling = {}

Accept(r) ==
    /\ r \notin served
    /\ served' = served \cup {r}
    /\ UNCHANGED <<stopped, leaving, calling>>

Withdraw(r) ==
    /\ r \in served
    /\ served' = served \ {r}
    /\ UNCHANGED <<stopped, leaving, calling>>

\* The request is over before on_completed() is called.
CallBack(r) ==
    /\ ~stopped
    /\ calling = {} /\ calling' = {r}
    /\ \/ r \in leaving /\ leaving' = leaving \ {r} /\ UNCHANGED served
       \/ leaving = {} /\ r \in served /\ served' = served \ {r} /\ UNCHANGED leaving
    /\ UNCHANGED stopped

CallEnds ==
    /\ calling # {} /\ calling' = {}
    /\ UNCHANGED <<stopped, served, leaving>>

\* A thread stops when it has no callback to make; it may leave requests behind.
Stop ==
    /\ ~stopped /\ stopped' = TRUE
    /\ leaving = {} /\ calling = {}
    /\ UNCHANGED <<served, leaving, calling>>

\* At most one request is lost with the thread that had stopped.
Start ==
    /\ stopped /\ stopped' = FALSE
    /\ served = {} \/ \E r \in Resolvers : served = {r}
    /\ served' = {}
    /\ UNCHANGED <<leaving, calling>>

\* A thread that completes its requests because it failed is replaced.
Supersede ==
    /\ ~stopped
    /\ leaving = {} /\ leaving' = served
    /\ served' = {}
    /\ UNCHANGED <<stopped, calling>>

ServiceNext ==
    \/ \E r \in Resolvers : Accept(r) \/ Withdraw(r) \/ CallBack(r)
    \/ CallEnds \/ Stop \/ Start \/ Supersede

ServiceSpec == ServiceInit /\ [][ServiceNext]_serviceVars
=============================================================================
