-------------------------- MODULE DnsLookupProofs --------------------------
(***************************************************************************)
(* Proofs about DnsLookup, for any numbers of callers, thread objects and  *)
(* resolvers: the types, how many thread objects there are and which of    *)
(* them works, the wake-ups, what cancel() guarantees, and what callers    *)
(* see of all this.                                                        *)
(***************************************************************************)
EXTENDS DnsLookup, FiniteSetTheorems, TLAPS

-----------------------------------------------------------------------------
(* Types                                                                   *)

\* A call that begins is a call record.
LEMMA BeginType ==
    ASSUME TypeOK, NEW p \in Callers, NEW r \in Resolvers,
           BeginResolve(p, r) \/ BeginCancel(p, r)
    PROVE  call' \in [Callers -> CallRecords]
BY DEF TypeOK, BeginResolve, BeginCancel, Call, CallRecords

\* A call goes from each of its points to the next one.
LEMMA GotoType ==
    ASSUME TypeOK, NEW p \in Callers, NEW at, Goto(p, at),
           \/ call[p].at = "lock" /\ call[p].op = "resolve" /\ at \in {"check", "insert"}
           \/ call[p].at = "check" /\ at = "insert"
           \/ call[p].at = "lock" /\ call[p].op = "cancel" /\ at = "remove"
           \/ call[p].at = "remove" /\ at = "waitC"
           \/ call[p].at = "lock" /\ call[p].op = "clean_up" /\ at = "join"
    PROVE  call' \in [Callers -> CallRecords]
<1>1. call[p] \in CallRecords
  BY DEF TypeOK
<1>2. [call[p] EXCEPT !.at = at] \in CallRecords
  BY <1>1 DEF CallRecords, Idle
<1> QED
  BY <1>2 DEF TypeOK, Goto

\* A call that returns leaves its caller idle and dns::mutex free.
LEMMA ReturnType ==
    ASSUME TypeOK, NEW p \in Callers, Return(p)
    PROVE  call' \in [Callers -> CallRecords] /\ dnsMutex' \in Callers \cup {Null}
BY DEF TypeOK, Return, CallRecords

\* So does the completion of a request.
LEMMA CompleteType ==
    ASSUME TypeOK, NEW g \in Threads, NEW r \in Resolvers, Complete(g, r)
    PROVE  /\ resolversMap' \in [Threads -> SUBSET Resolvers]
           /\ sendList' \in [Threads -> SUBSET Resolvers]
           /\ stray' \in [Threads -> SUBSET Resolvers]
           /\ dangling' \in [Threads -> BOOLEAN]
           /\ recordA' \in [Threads -> SUBSET Resolvers]
           /\ due' \in [Threads -> SUBSET Resolvers]
           /\ completing' \in [Threads -> Resolvers \cup {Null}]
           /\ mutex' \in [Threads -> Callers \cup {Null}]
BY DEF TypeOK, Complete, RemoveResolver

\* The variables of a LookupThread and of the library keep their types.
THEOREM TypeCorrect == Spec => []TypeOK
<1>1. Init => TypeOK
  BY DEF Init, TypeOK, CallRecords, Points, LockedPoints
<1>2. TypeOK /\ [Next]_vars => TypeOK'
  <2> SUFFICES ASSUME TypeOK, [Next]_vars PROVE TypeOK'
    OBVIOUS
  <2>1. ASSUME NEW p \in Callers, NEW r \in Resolvers, BeginResolve(p, r) PROVE TypeOK'
    <3>1. call' \in [Callers -> CallRecords]
      BY <2>1, BeginType
    <3> QED
      BY <2>1, <3>1 DEF BeginResolve, Call, TypeOK, requests, signals, io, locks, chain
  <2>2. ASSUME NEW p \in Callers, NEW r \in Resolvers, BeginCancel(p, r) PROVE TypeOK'
    <3>1. call' \in [Callers -> CallRecords]
      BY <2>2, BeginType
    <3> QED
      BY <2>2, <3>1 DEF BeginCancel, Call, TypeOK, requests, signals, io, locks, chain
  <2>3. ASSUME NEW p \in Clients, BeginCleanUp(p) PROVE TypeOK'
    <3>1. call' \in [Callers -> CallRecords]
      BY <2>3 DEF BeginCleanUp, Call, CallRecords, Callers, TypeOK
    <3> QED
      BY <2>3, <3>1 DEF BeginCleanUp, Call, TypeOK, requests, signals, io, locks, chain
  <2>4. ASSUME NEW p \in Callers, ResolveLock(p) PROVE TypeOK'
    <3>1. call' \in [Callers -> CallRecords]
      BY <2>4, GotoType DEF ResolveLock
    <3> QED
      BY <2>4, <3>1 DEF ResolveLock, Construct, TypeOK, Points, requests, io, chain
  <2>5. ASSUME NEW p \in Callers, ResolveCheck(p) PROVE TypeOK'
    <3>1. call' \in [Callers -> CallRecords] /\ dnsMutex' \in Callers \cup {Null}
      BY <2>5, GotoType, ReturnType DEF ResolveCheck, TypeOK
    <3>2. isExiting' \in [Threads -> BOOLEAN] /\ pc' \in [Threads -> Points]
      BY <2>5 DEF ResolveCheck, Construct, TypeOK, Points
    <3>3. /\ thread' \in Threads \cup {Null}
           /\ prevThread' \in [Threads -> Threads \cup {Null}]
      BY <2>5 DEF ResolveCheck, Construct, TypeOK, chain
    <3> QED
      BY <2>5, <3>1, <3>2, <3>3 DEF ResolveCheck, TypeOK, requests, io
  <2>6. ASSUME NEW p \in Callers, ResolveTooMany(p) PROVE TypeOK'
    BY <2>6 DEF ResolveTooMany, Return, TypeOK, Callers, Points, LockedPoints,
       CallRecords, requests, signals, io, locks, chain
  <2>7. ASSUME NEW p \in Callers, ResolveInsert(p) PROVE TypeOK'
    <3>1. call' \in [Callers -> CallRecords] /\ dnsMutex' \in Callers \cup {Null}
      BY <2>7, ReturnType DEF ResolveInsert
    <3>2. call[p].r \in Resolvers
      BY <2>7 DEF ResolveInsert, TypeOK, CallRecords, Idle
    <3>3. isExiting' \in [Threads -> BOOLEAN]
      BY <2>7 DEF ResolveInsert, TypeOK
    <3>4. queue' \in [Threads -> SUBSET {"send", "nop"}]
      BY <2>7 DEF ResolveInsert, Send, TypeOK
    <3>5. pc' \in [Threads -> Points]
      BY <2>7 DEF ResolveInsert, TypeOK, Points
    <3>6. /\ resolversMap' \in [Threads -> SUBSET Resolvers]
           /\ sendList' \in [Threads -> SUBSET Resolvers]
      <4>1. /\ resolversMap' = [resolversMap EXCEPT ![thread] = @ \cup {call[p].r}]
            /\ sendList' = [sendList EXCEPT ![thread] = @ \cup {call[p].r}]
        BY <2>7 DEF ResolveInsert
      <4>2. resolversMap \in [Threads -> SUBSET Resolvers] /\ sendList \in [Threads -> SUBSET Resolvers]
        BY DEF TypeOK
      <4> QED
        BY <3>2, <4>1, <4>2
    <3> QED
      BY <2>7, <3>1, <3>3, <3>4, <3>5, <3>6 DEF ResolveInsert, TypeOK, io, chain
  <2>8. ASSUME NEW p \in Callers, CancelLock(p) PROVE TypeOK'
    <3>1. call' \in [Callers -> CallRecords] /\ dnsMutex' \in Callers \cup {Null}
      BY <2>8, GotoType, ReturnType DEF CancelLock, TypeOK
    <3> QED
      BY <2>8, <3>1 DEF CancelLock, TypeOK, requests, signals, io, chain
  <2>9. ASSUME NEW p \in Callers, CancelRemove(p) PROVE TypeOK'
    <3>1. call' \in [Callers -> CallRecords] /\ dnsMutex' \in Callers \cup {Null}
      BY <2>9, GotoType, ReturnType DEF CancelRemove, TypeOK
    <3>2. quitFlag' \in [Threads -> BOOLEAN]
      BY <2>9 DEF CancelRemove, TypeOK
    <3>3. queue' \in [Threads -> SUBSET {"send", "nop"}]
      BY <2>9 DEF CancelRemove, Send, TypeOK
    <3>4. mutex' \in [Threads -> Callers \cup {Null}]
      BY <2>9 DEF CancelRemove, TypeOK
    <3>5. /\ resolversMap' \in [Threads -> SUBSET Resolvers]
           /\ sendList' \in [Threads -> SUBSET Resolvers]
           /\ stray' \in [Threads -> SUBSET Resolvers]
           /\ dangling' \in [Threads -> BOOLEAN]
           /\ recordA' \in [Threads -> SUBSET Resolvers]
           /\ due' \in [Threads -> SUBSET Resolvers]
      BY <2>9 DEF CancelRemove, RemoveResolver, TypeOK
    <3> QED
      BY <2>9, <3>1, <3>2, <3>3, <3>4, <3>5 DEF CancelRemove, TypeOK, io, chain
  <2>10. ASSUME NEW p \in Callers, CancelWait(p) PROVE TypeOK'
    BY <2>10 DEF CancelWait, Return, TypeOK, Callers, Points, LockedPoints, CallRecords,
       requests, signals, io, locks, chain
  <2>11. ASSUME NEW p \in Callers, CleanUpLock(p) PROVE TypeOK'
    <3>1. call' \in [Callers -> CallRecords] /\ dnsMutex' \in Callers \cup {Null}
      BY <2>11, GotoType, ReturnType DEF CleanUpLock, TypeOK
    <3>2. quitFlag' \in [Threads -> BOOLEAN]
      BY <2>11 DEF CleanUpLock, TypeOK
    <3>3. queue' \in [Threads -> SUBSET {"send", "nop"}]
      BY <2>11 DEF CleanUpLock, Send, TypeOK
    <3> QED
      BY <2>11, <3>1, <3>2, <3>3 DEF CleanUpLock, TypeOK, requests, io, chain
  <2>12. ASSUME NEW p \in Callers, CleanUpJoin(p) PROVE TypeOK'
    BY <2>12 DEF CleanUpJoin, Destroy, Return, TypeOK, Callers, Points, LockedPoints,
       CallRecords, requests, signals, io, locks, chain
  <2>13. ASSUME NEW g \in Threads, JoinPrevious(g) PROVE TypeOK'
    BY <2>13 DEF JoinPrevious, Destroy, TypeOK, Callers, Points, LockedPoints, requests,
       signals, io, locks, chain
  <2>14. ASSUME NEW g \in Threads, Open(g) PROVE TypeOK'
    BY <2>14 DEF Open, Continue, TypeOK, Callers, Points, LockedPoints, requests,
       signals, io, locks, chain
  <2>15. ASSUME NEW g \in Threads, OpenFails(g) PROVE TypeOK'
    BY <2>15 DEF OpenFails, SetExiting, Continue, TypeOK, Callers, Points, LockedPoints,
       requests, signals, io, locks, chain
  <2>16. ASSUME NEW g \in Threads, OpenFailing(g) PROVE TypeOK'
    <3>1. CASE \E r \in resolversMap[g] : Complete(g, r) /\ UNCHANGED <<dnsMutex, pc>>
      <4>1. PICK r \in Resolvers : Complete(g, r)
        BY <3>1 DEF TypeOK
      <4> QED
        BY <2>16, <3>1, <4>1, CompleteType DEF OpenFailing, TypeOK, signals, io, chain
    <3>2. CASE UNCHANGED <<requests, completing>> /\ Continue(g, "done")
      BY <2>16, <3>2 DEF OpenFailing, Unlock, Continue, TypeOK, Callers, Points, requests,
         signals, io, chain
    <3> QED
      BY <2>16, <3>1, <3>2 DEF OpenFailing
  <2>17. ASSUME NEW g \in Threads, Loop(g) PROVE TypeOK'
    BY <2>17 DEF Loop, Continue, TypeOK, Callers, Points, LockedPoints, requests,
       signals, io, locks, chain
  <2>18. ASSUME NEW g \in Threads, Check(g) PROVE TypeOK'
    <3>1. mutex' \in [Threads -> Callers \cup {Null}]
      BY <2>18 DEF Check, TypeOK, Callers
    <3>2. isExiting' \in [Threads -> BOOLEAN]
      <4>1. isExiting' = isExiting \/ isExiting' = [isExiting EXCEPT ![g] = TRUE]
        BY <2>18 DEF Check, SetExiting
      <4> QED
        BY <4>1 DEF TypeOK
    <3>3. pc' \in [Threads -> Points]
      <4>1. pc \in [Threads -> Points]
        BY DEF TypeOK
      <4>2. \E point \in Points : pc' = [pc EXCEPT ![g] = point]
        BY <2>18 DEF Check, SetExiting, Continue, Points, LockedPoints
      <4> QED
        BY <4>1, <4>2
    <3> QED
      BY <2>18, <3>1, <3>2, <3>3 DEF Check, TypeOK, requests, io, chain
  <2>19. ASSUME NEW g \in Threads, Relock(g) PROVE TypeOK'
    BY <2>19 DEF Relock, TypeOK, Callers, Points, LockedPoints, requests, signals, io,
       locks, chain
  <2>20. ASSUME NEW g \in Threads, ReadNothing(g) PROVE TypeOK'
    BY <2>20 DEF ReadNothing, At, Continue, TypeOK, Callers, Points, LockedPoints,
       requests, signals, io, locks, chain
  <2>21. ASSUME NEW g \in Threads, ReadFails(g) PROVE TypeOK'
    BY <2>21 DEF ReadFails, At, SetExiting, Continue, TypeOK, Callers, Points,
       LockedPoints, requests, signals, io, locks, chain
  <2>22. ASSUME NEW g \in Threads, ReadReply(g) PROVE TypeOK'
    BY <2>22 DEF ReadReply, At, Complete, RemoveResolver, Continue, TypeOK, Callers,
       Points, LockedPoints, requests, signals, io, locks, chain
  <2>23. ASSUME NEW g \in Threads, ReadFallback(g) PROVE TypeOK'
    BY <2>23 DEF ReadFallback, At, Continue, TypeOK, Callers, Points, LockedPoints,
       requests, signals, io, locks, chain
  <2>24. ASSUME NEW g \in Threads, Write(g) PROVE TypeOK'
    BY <2>24 DEF Write, At, Continue, TypeOK, Callers, Points, LockedPoints, requests,
       signals, io, locks, chain
  <2>25. ASSUME NEW g \in Threads, SendOne(g) PROVE TypeOK'
    BY <2>25 DEF SendOne, At, TypeOK, Callers, Points, LockedPoints, requests, signals,
       io, locks, chain
  <2>26. ASSUME NEW g \in Threads, SendNotReady(g) PROVE TypeOK'
    BY <2>26 DEF SendNotReady, At, Continue, TypeOK, Callers, Points, LockedPoints,
       requests, signals, io, locks, chain
  <2>27. ASSUME NEW g \in Threads, SendFails(g) PROVE TypeOK'
    BY <2>27 DEF SendFails, At, SetExiting, Continue, TypeOK, Callers, Points,
       LockedPoints, requests, signals, io, locks, chain
  <2>28. ASSUME NEW g \in Threads, SendNoServer(g) PROVE TypeOK'
    BY <2>28 DEF SendNoServer, At, Complete, RemoveResolver, TypeOK, Callers, Points,
       LockedPoints, requests, signals, io, locks, chain
  <2>28a. ASSUME NEW g \in Threads, SendDangling(g) PROVE TypeOK'
    BY <2>28a DEF SendDangling, At, Continue, TypeOK, Callers, Points, LockedPoints,
       requests, signals, io, locks, chain
  <2>29. ASSUME NEW g \in Threads, SendingDone(g) PROVE TypeOK'
    BY <2>29 DEF SendingDone, At, Continue, TypeOK, Callers, Points, LockedPoints,
       requests, signals, io, locks, chain
  <2>30. ASSUME NEW g \in Threads, Expire(g) PROVE TypeOK'
    BY <2>30 DEF Expire, At, Complete, RemoveResolver, TypeOK, Callers, Points,
       LockedPoints, requests, signals, io, locks, chain
  <2>31. ASSUME NEW g \in Threads, TimeoutsDone(g) PROVE TypeOK'
    <3>1. mutex' \in [Threads -> Callers \cup {Null}]
      BY <2>31 DEF TimeoutsDone, Unlock, TypeOK
    <3>2. isExiting' \in [Threads -> BOOLEAN]
      BY <2>31 DEF TimeoutsDone, SetExiting, TypeOK
    <3>3. pc' \in [Threads -> Points]
      BY <2>31 DEF TimeoutsDone, SetExiting, Continue, TypeOK, Points
    <3> QED
      BY <2>31, <3>1, <3>2, <3>3 DEF TimeoutsDone, TypeOK, requests, io, chain
  <2>32. ASSUME NEW g \in Threads, Failing(g) PROVE TypeOK'
    <3>1. CASE \E r \in resolversMap[g] : Complete(g, r) /\ UNCHANGED pc
      <4>1. PICK r \in Resolvers : Complete(g, r)
        BY <3>1 DEF TypeOK
      <4> QED
        BY <2>32, <3>1, <4>1, CompleteType DEF Failing, TypeOK, signals, io, chain
    <3>2. CASE UNCHANGED <<requests, completing>> /\ Continue(g, "done") /\ Unlock(g)
      <4>1. mutex' \in [Threads -> Callers \cup {Null}] /\ pc' \in [Threads -> Points]
        BY <3>2 DEF Unlock, Continue, TypeOK, Points
      <4> QED
        BY <2>32, <3>2, <4>1 DEF Failing, TypeOK, requests, signals, io, chain
    <3> QED
      BY <2>32, <3>1, <3>2 DEF Failing
  <2>33. ASSUME NEW g \in Threads, WaitTimesOut(g) PROVE TypeOK'
    BY <2>33 DEF WaitTimesOut, Continue, TypeOK, Callers, Points, LockedPoints,
       requests, signals, io, locks, chain
  <2>34. ASSUME NEW g \in Threads, WaitReturns(g) PROVE TypeOK'
    <3>1. SocketEvents(g) \subseteq {"read", "write", "error"}
      BY  DEF SocketEvents
    <3>2. flags' \in [Threads -> SUBSET {"read", "write", "error"}]
      BY <2>34, <3>1 DEF WaitReturns, TypeOK
    <3>3. pc' \in [Threads -> Points]
      BY <2>34 DEF WaitReturns, Continue, TypeOK, Points
    <3> QED
      BY <2>34, <3>2, <3>3 DEF WaitReturns, TypeOK, requests, signals, locks, chain
  <2>35. ASSUME NEW g \in Threads, Drain(g) PROVE TypeOK'
    BY <2>35 DEF Drain, Continue, TypeOK, Callers, Points, LockedPoints, requests,
       signals, io, locks, chain
  <2>36. ASSUME NEW g \in Threads, CallbackReturns(g) PROVE TypeOK'
    BY <2>36 DEF CallbackReturns, TypeOK, Callers, Points, LockedPoints, requests,
       signals, io, locks, chain
  <2>37. ASSUME NEW g \in Threads, NEW r \in Resolvers, DeadlinePasses(g, r) PROVE TypeOK'
    BY <2>37 DEF DeadlinePasses, TypeOK, Callers, Points, LockedPoints, requests,
       signals, io, locks, chain
  <2>38. CASE UNCHANGED vars
    BY <2>38 DEF TypeOK, vars, requests, signals, io, locks, chain
  <2> QED
    BY <2>1, <2>2, <2>3, <2>4, <2>5, <2>6, <2>7, <2>8, <2>9, <2>10, <2>11, <2>12, <2>13,
       <2>14, <2>15, <2>16, <2>17, <2>18, <2>19, <2>20, <2>21, <2>22, <2>23, <2>24,
       <2>25, <2>26, <2>27, <2>28, <2>28a, <2>29, <2>30, <2>31, <2>32, <2>33, <2>34, <2>35,
       <2>36, <2>37, <2>38
       DEF Next, Step, Caller, Run
<1> QED
  BY <1>1, <1>2, PTL DEF Spec

-----------------------------------------------------------------------------
(* Locks and thread objects                                                *)

\* Past its point "lock", a call holds dns::mutex and has a thread object.
Holds(p) == call[p].at \in {"check", "insert", "remove", "waitC", "join"}

DnsMutexInv ==
    /\ \A p \in Callers : Holds(p) => dnsMutex = p /\ thread # Null
    /\ \A g \in Threads : pc[g] = "openFailing" => dnsMutex = g /\ ~Holds(g)

\* The steps of run() other than the join change the state of their own object
\* only; none of them brings an object back among those that serve.
LEMMA RunFrame ==
    ASSUME TypeOK, NEW g \in Threads, Run(g), ~JoinPrevious(g)
    PROVE  /\ UNCHANGED <<call, thread, prevThread>>
           /\ pc[g] \in Working \cup {"start"}
           /\ pc[g] = "start" => prevThread[g] = Null
           /\ pc'[g] \in Working \cup {"done"}
           /\ pc'[g] \in Serving => pc[g] \in Serving /\ isExiting'[g] = isExiting[g]
           /\ pc'[g] = "openFailing" => pc[g] = "openFailing" \/ OpenFails(g)
           /\ pc[g] = "openFailing" => OpenFailing(g) \/ dnsMutex' = dnsMutex
           /\ dnsMutex' = dnsMutex \/ OpenFails(g) \/ OpenFailing(g)
           /\ resolversMap'[g] \subseteq resolversMap[g]
           /\ \A h \in Threads \ {g} : /\ pc'[h] = pc[h]
                                       /\ isExiting'[h] = isExiting[h]
                                       /\ resolversMap'[h] = resolversMap[h]
<1> USE DEF TypeOK, Serving, Working, LockedPoints, requests, signals, io, locks, chain
<1>1. CASE Open(g)
  BY <1>1 DEF Open, Continue
<1>2. CASE OpenFails(g)
  BY <1>2 DEF OpenFails, SetExiting, Continue
<1>3. CASE OpenFailing(g)
  BY <1>3 DEF OpenFailing, Complete, RemoveResolver, Continue
<1>4. CASE Loop(g)
  BY <1>4 DEF Loop, Continue
<1>5. CASE Check(g)
  BY <1>5 DEF Check, SetExiting, Continue
<1>6. CASE Relock(g)
  BY <1>6 DEF Relock
<1>7. CASE ReadNothing(g)
  BY <1>7 DEF ReadNothing, At, Continue
<1>8. CASE ReadFails(g)
  BY <1>8 DEF ReadFails, At, SetExiting, Continue
<1>9. CASE ReadReply(g)
  BY <1>9 DEF ReadReply, At, Complete, RemoveResolver, Continue
<1>10. CASE ReadFallback(g)
  BY <1>10 DEF ReadFallback, At, Continue
<1>11. CASE Write(g)
  BY <1>11 DEF Write, At, Continue
<1>12. CASE SendOne(g)
  BY <1>12 DEF SendOne, At
<1>13. CASE SendNotReady(g)
  BY <1>13 DEF SendNotReady, At, Continue
<1>14. CASE SendFails(g)
  BY <1>14 DEF SendFails, At, SetExiting, Continue
<1>15. CASE SendNoServer(g)
  BY <1>15 DEF SendNoServer, At, Complete, RemoveResolver
<1>15a. CASE SendDangling(g)
  BY <1>15a DEF SendDangling, At, Continue
<1>16. CASE SendingDone(g)
  BY <1>16 DEF SendingDone, At, Continue
<1>17. CASE Expire(g)
  BY <1>17 DEF Expire, At, Complete, RemoveResolver
<1>18. CASE TimeoutsDone(g)
  BY <1>18 DEF TimeoutsDone, At, Unlock, SetExiting, Continue
<1>19. CASE Failing(g)
  BY <1>19 DEF Failing, At, Complete, RemoveResolver, Unlock, Continue
<1>20. CASE WaitTimesOut(g)
  BY <1>20 DEF WaitTimesOut, Continue
<1>21. CASE WaitReturns(g)
  BY <1>21 DEF WaitReturns, SocketEvents, Continue
<1>22. CASE Drain(g)
  BY <1>22 DEF Drain, Continue
<1> QED
    BY <1>1, <1>2, <1>3, <1>4, <1>5, <1>6, <1>7, <1>8, <1>9, <1>10, <1>11, <1>12,
     <1>13, <1>14, <1>15, <1>15a, <1>16, <1>17, <1>18, <1>19, <1>20, <1>21, <1>22 DEF Run

\* dns::mutex is held by the one call that is past "lock", or by the thread that
\* failed to open its socket; and dns::thread is not reset under a call's feet.
THEOREM DnsMutexCorrect == Spec => []DnsMutexInv
<1>1. Init => DnsMutexInv
  BY DEF Init, DnsMutexInv, Holds, Idle
<1>2. TypeOK /\ DnsMutexInv /\ [Next]_vars => DnsMutexInv'
  <2> SUFFICES ASSUME TypeOK, DnsMutexInv, [Next]_vars PROVE DnsMutexInv'
    OBVIOUS
  <2> USE ConstantsAssumption DEF DnsMutexInv, Holds, Idle, Callers
  <2>0. call \in [Callers -> CallRecords] /\ pc \in [Threads -> Points]
    BY DEF TypeOK
  <2>1. ASSUME NEW p \in Callers, NEW r \in Resolvers, BeginResolve(p, r) \/ BeginCancel(p, r)
        PROVE  DnsMutexInv'
    BY <2>1 DEF BeginResolve, BeginCancel, Call, TypeOK, locks, chain
  <2>2. ASSUME NEW p \in Clients, BeginCleanUp(p) PROVE DnsMutexInv'
    BY <2>2 DEF BeginCleanUp, Call, TypeOK, locks, chain
  <2>3. ASSUME NEW p \in Callers, ResolveLock(p) PROVE DnsMutexInv'
    BY <2>0, <2>3 DEF ResolveLock, Construct, Goto, chain
  <2>4. ASSUME NEW p \in Callers, ResolveCheck(p) PROVE DnsMutexInv'
    BY <2>0, <2>4 DEF ResolveCheck, Construct, Goto, Return, chain
  <2>5. ASSUME NEW p \in Callers, ResolveTooMany(p) PROVE DnsMutexInv'
    BY <2>0, <2>5 DEF ResolveTooMany, Return, chain
  <2>6. ASSUME NEW p \in Callers, ResolveInsert(p) PROVE DnsMutexInv'
    BY <2>0, <2>6 DEF ResolveInsert, Return, chain
  <2>7. ASSUME NEW p \in Callers, CancelLock(p) PROVE DnsMutexInv'
    BY <2>0, <2>7 DEF CancelLock, Goto, Return, chain
  <2>8. ASSUME NEW p \in Callers, CancelRemove(p) PROVE DnsMutexInv'
    <3>1. dnsMutex = p /\ thread # Null /\ pc' = pc /\ thread' = thread
      BY <2>8 DEF CancelRemove, chain
    <3>2. Holds(p)
      BY <2>8 DEF CancelRemove
    <3>3. CASE Return(p)
      <4>1. call' = [q \in Callers |-> IF q = p THEN Idle ELSE call[q]]
        BY <2>0, <3>3 DEF Return
      <4>2. \A q \in Callers : ~Holds(q)'
        BY <3>1, <4>1
      <4> QED
        BY <3>1, <3>2, <4>2
    <3>4. CASE Goto(p, "waitC") /\ UNCHANGED dnsMutex
      <4>1. \A q \in Callers : Holds(q)' => q = p \/ Holds(q)
        BY <2>0, <3>4 DEF Goto
      <4> QED
        BY <3>1, <3>2, <3>4, <4>1
    <3> QED
      BY <2>8, <3>3, <3>4 DEF CancelRemove
  <2>9. ASSUME NEW p \in Callers, CancelWait(p) PROVE DnsMutexInv'
    BY <2>0, <2>9 DEF CancelWait, Return, chain
  <2>10. ASSUME NEW p \in Callers, CleanUpLock(p) PROVE DnsMutexInv'
    BY <2>0, <2>10 DEF CleanUpLock, Goto, Return, chain
  <2>11. ASSUME NEW p \in Callers, CleanUpJoin(p) PROVE DnsMutexInv'
    BY <2>0, <2>11 DEF CleanUpJoin, Destroy, Return
  <2>12. ASSUME NEW g \in Threads, JoinPrevious(g) PROVE DnsMutexInv'
    BY <2>0, <2>12 DEF JoinPrevious, Destroy
  <2>13. ASSUME NEW g \in Threads, OpenFails(g) PROVE DnsMutexInv'
    BY <2>0, <2>13 DEF OpenFails, SetExiting, Continue, chain
  <2>14. ASSUME NEW g \in Threads, OpenFailing(g) PROVE DnsMutexInv'
    BY <2>0, <2>14 DEF OpenFailing, Continue, chain
  <2>15. ASSUME NEW g \in Threads, Run(g), ~JoinPrevious(g), ~OpenFails(g), ~OpenFailing(g)
         PROVE  DnsMutexInv'
    BY <2>15, RunFrame
  <2>16. ASSUME NEW g \in Threads, CallbackReturns(g) PROVE DnsMutexInv'
    BY <2>16 DEF CallbackReturns, chain
  <2>17. ASSUME NEW g \in Threads, NEW r \in Resolvers, DeadlinePasses(g, r) PROVE DnsMutexInv'
    BY <2>17 DEF DeadlinePasses, locks, chain
  <2>18. CASE UNCHANGED vars
    BY <2>18 DEF vars, locks, chain
  <2> QED
    BY <2>1, <2>2, <2>3, <2>4, <2>5, <2>6, <2>7, <2>8, <2>9, <2>10, <2>11, <2>12, <2>13,
       <2>14, <2>15, <2>16, <2>17, <2>18 DEF Next, Step, Caller
<1> QED
  BY <1>1, <1>2, TypeCorrect, PTL DEF Spec

\* Which objects exist, and in which state: dns::thread serves or is about to be
\* started; any other object has failed or is done, and only a thread that has
\* not joined it yet refers to it.
ObjectsInv ==
    /\ TwoObjects
    /\ thread # Null => pc[thread] # "absent"
    /\ \A g \in Threads : pc[g] \in Serving => thread = g /\ ~isExiting[g]
    /\ \A g \in Threads : pc[g] = "new" =>
          thread = g /\ \E p \in Callers : call[p].at = "insert"
    /\ \A g \in Threads : prevThread[g] # Null => pc[g] \in {"new", "start"}
    /\ \A g \in Threads : pc[g] \in {"absent", "new"} => resolversMap[g] = {}

\* The invariant of thread objects holds: at most two of them exist, and only
\* the one dns::thread refers to serves requests.
THEOREM ObjectsCorrect == Spec => []ObjectsInv
<1>1. Init => ObjectsInv
  BY DEF Init, ObjectsInv, TwoObjects, Serving
<1>2. TypeOK /\ DnsMutexInv /\ ObjectsInv /\ [Next]_vars => ObjectsInv'
  <2> SUFFICES ASSUME TypeOK, DnsMutexInv, ObjectsInv, [Next]_vars PROVE ObjectsInv'
    OBVIOUS
  <2> USE ConstantsAssumption DEF ObjectsInv, TwoObjects, Serving
  <2>1. ASSUME NEW p \in Callers, NEW r \in Resolvers, BeginResolve(p, r) \/ BeginCancel(p, r)
        PROVE  ObjectsInv'
    <3>1. call[p] = Idle /\ \A q \in Callers \ {p} : call'[q] = call[q]
      BY <2>1 DEF BeginResolve, BeginCancel, MayCall, Call, TypeOK
    <3>2. \A q \in Callers : call[q].at = "insert" => call'[q].at = "insert"
      BY <3>1 DEF Idle
    <3>3. UNCHANGED <<thread, prevThread, isExiting, pc, resolversMap>>
      BY <2>1 DEF BeginResolve, BeginCancel, Call, requests, signals, chain
    <3> QED
      BY <3>2, <3>3
  <2>2. ASSUME NEW p \in Clients, BeginCleanUp(p) PROVE ObjectsInv'
    BY <2>2 DEF BeginCleanUp, MayCall, Call, Idle, TypeOK, requests, signals, chain
  <2>3. ASSUME NEW p \in Callers, ResolveLock(p) PROVE ObjectsInv'
    <3>1. \A q \in Callers : call[q].at # "insert"
      BY <2>3 DEF ResolveLock, DnsMutexInv, Callers, Holds
    <3>2. CASE thread = Null
      <4>1. PICK g \in Threads : Construct(g, Null)
        BY <2>3, <3>2 DEF ResolveLock
      <4>2. \A h \in Threads : pc[h] = "absent"
        BY <3>2
      <4>3. call'[p].at = "insert"
        BY <2>3, <3>2 DEF ResolveLock, Goto, TypeOK, CallRecords, Idle
      <4>4. /\ pc' = [h \in Threads |-> IF h = g THEN "new" ELSE "absent"]
            /\ thread' = g
            /\ prevThread' = prevThread
            /\ resolversMap' = resolversMap
        BY <2>3, <4>1, <4>2 DEF ResolveLock, Construct, TypeOK, requests
      <4> QED
        BY <4>2, <4>3, <4>4, <3>2
    <3>3. CASE thread # Null
      <4>1. UNCHANGED <<isExiting, pc, chain, requests>>
        BY <2>3, <3>3 DEF ResolveLock
      <4> QED
        BY <3>1, <4>1 DEF requests, chain
    <3> QED
      BY <3>2, <3>3
  <2>4. ASSUME NEW p \in Callers, ResolveCheck(p) PROVE ObjectsInv'
    <3>1. \A q \in Callers : q # p => call[q].at # "insert"
      BY <2>4 DEF ResolveCheck, DnsMutexInv, Holds
    <3>2. thread \in Threads /\ pc[thread] # "new"
      BY <2>4, <3>1 DEF ResolveCheck, DnsMutexInv, Holds, TypeOK
    <3>3. CASE /\ isExiting[thread]
               /\ \E g \in Threads : Construct(g, thread)
               /\ Goto(p, "insert")
      <4>1. PICK g \in Threads : Construct(g, thread)
        BY <3>3
      <4>2. \A h \in Threads : pc[h] # "absent" => h = thread
        BY <3>2, <3>3
      <4>3. call'[p].at = "insert"
        BY <3>3 DEF Goto, TypeOK, CallRecords, Idle
      <4>4. /\ pc' = [pc EXCEPT ![g] = "new"]
            /\ isExiting' = [isExiting EXCEPT ![g] = TRUE]
            /\ prevThread' = [prevThread EXCEPT ![g] = thread]
            /\ thread' = g
            /\ resolversMap' = resolversMap
            /\ pc[g] = "absent"
        BY <2>4, <4>1 DEF ResolveCheck, Construct, requests
      <4> QED
        BY <3>2, <3>3, <4>2, <4>3, <4>4 DEF TypeOK
    <3>4. CASE UNCHANGED <<isExiting, pc, chain>>
      <4>1. resolversMap' = resolversMap
        BY <2>4 DEF ResolveCheck, requests
      <4>2. \A g \in Threads : pc[g] # "new"
        BY <3>2
      <4> QED
        BY <3>4, <4>1, <4>2 DEF chain
    <3> QED
      BY <2>4, <3>3, <3>4 DEF ResolveCheck
  <2>5. ASSUME NEW p \in Callers, ResolveTooMany(p) PROVE ObjectsInv'
    <3>1. pc[thread] # "new"
      <4>1. thread \in Threads
        BY <2>5 DEF ResolveTooMany, DnsMutexInv, Holds, TypeOK
      <4>2. Cardinality(resolversMap[thread]) # 0
        <5>1. /\ ~(0 >= MaxRequests)
              /\ Cardinality(resolversMap[thread]) >= MaxRequests
          BY <2>5 DEF ResolveTooMany
        <5> QED
          BY <5>1
      <4>3. resolversMap[thread] # {}
        BY <4>2, FS_EmptySet
      <4> QED
        BY <4>1, <4>3
    <3> QED
      BY <2>5, <3>1 DEF ResolveTooMany, Return, requests, signals, chain
  <2>6. ASSUME NEW p \in Callers, ResolveInsert(p) PROVE ObjectsInv'
    BY <2>6 DEF ResolveInsert, Return, Idle, TypeOK, chain
  <2>7. ASSUME NEW p \in Callers, CancelLock(p) PROVE ObjectsInv'
    BY <2>7 DEF CancelLock, Goto, Return, TypeOK, requests, signals, chain
  <2>8. ASSUME NEW p \in Callers, CancelRemove(p) PROVE ObjectsInv'
    BY <2>8 DEF CancelRemove, RemoveResolver, Goto, Return, TypeOK, chain
  <2>9. ASSUME NEW p \in Callers, CancelWait(p) PROVE ObjectsInv'
    BY <2>9 DEF CancelWait, Return, TypeOK, requests, signals, chain
  <2>10. ASSUME NEW p \in Callers, CleanUpLock(p) PROVE ObjectsInv'
    BY <2>10 DEF CleanUpLock, Goto, Return, TypeOK, requests, chain
  <2>11. ASSUME NEW p \in Callers, CleanUpJoin(p) PROVE ObjectsInv'
    BY <2>11 DEF CleanUpJoin, Destroy, Return, TypeOK
  <2>12. ASSUME NEW g \in Threads, JoinPrevious(g) PROVE ObjectsInv'
    BY <2>12 DEF JoinPrevious, Destroy, TypeOK
  <2>13. ASSUME NEW g \in Threads, Run(g), ~JoinPrevious(g) PROVE ObjectsInv'
    <3>1. /\ UNCHANGED <<call, thread, prevThread>>
          /\ pc[g] \in Working \cup {"start"}
          /\ pc[g] = "start" => prevThread[g] = Null
          /\ pc'[g] \in Working \cup {"done"}
          /\ pc'[g] \in Serving => pc[g] \in Serving /\ isExiting'[g] = isExiting[g]
          /\ \A h \in Threads \ {g} : /\ pc'[h] = pc[h]
                                      /\ isExiting'[h] = isExiting[h]
                                      /\ resolversMap'[h] = resolversMap[h]
      BY <2>13, RunFrame
    <3>2. pc[g] # "absent" /\ pc'[g] \notin {"absent", "new", "start"}
      BY <3>1 DEF Working
    <3>3. TwoObjects' /\ (thread' # Null => pc'[thread'] # "absent")
      BY <3>1, <3>2 DEF TypeOK
    <3>4. \A h \in Threads : pc'[h] \in Serving => thread' = h /\ ~isExiting'[h]
      BY <3>1
    <3>5. \A h \in Threads : pc'[h] = "new" =>
             thread' = h /\ \E p \in Callers : call'[p].at = "insert"
      BY <3>1, <3>2
    <3>6. \A h \in Threads : prevThread'[h] # Null => pc'[h] \in {"new", "start"}
      BY <3>1 DEF Working
    <3>7. \A h \in Threads : pc'[h] \in {"absent", "new"} => resolversMap'[h] = {}
      BY <3>1, <3>2
    <3> QED
      BY <3>3, <3>4, <3>5, <3>6, <3>7
  <2>14. ASSUME NEW g \in Threads, CallbackReturns(g) PROVE ObjectsInv'
    BY <2>14 DEF CallbackReturns, requests, signals, chain
  <2>15. ASSUME NEW g \in Threads, NEW r \in Resolvers, DeadlinePasses(g, r) PROVE ObjectsInv'
    BY <2>15 DEF DeadlinePasses, signals, chain
  <2>16. CASE UNCHANGED vars
    BY <2>16 DEF vars, requests, signals, chain
  <2> QED
    BY <2>1, <2>2, <2>3, <2>4, <2>5, <2>6, <2>7, <2>8, <2>9, <2>10, <2>11, <2>12, <2>13,
       <2>14, <2>15, <2>16 DEF Next, Step, Caller
<1> QED
  BY <1>1, <1>2, TypeCorrect, DnsMutexCorrect, PTL DEF Spec

\* Lookup threads work one at a time.
THEOREM OneWorkerCorrect == Spec => []OneWorker
<1>1. TypeOK /\ ObjectsInv => OneWorker
  <2> SUFFICES ASSUME TypeOK, ObjectsInv, NEW g \in Threads, NEW h \in Threads,
                      pc[g] \in Working, pc[h] \in Working
               PROVE  g = h
    BY DEF OneWorker
  <2>1. prevThread[g] = Null /\ prevThread[h] = Null
    BY DEF ObjectsInv, Working, Serving
  <2>2. \A k \in {g, h} : k = thread \/ (thread # Null /\ prevThread[thread] = k)
    BY DEF ObjectsInv, TwoObjects, Working, Serving
  <2>3. thread \in Threads
    BY <2>2, ConstantsAssumption DEF TypeOK
  <2>4. CASE g = thread \/ h = thread
    BY <2>1, <2>2, <2>4, ConstantsAssumption
  <2>5. CASE g # thread /\ h # thread
    BY <2>2, <2>5
  <2> QED
    BY <2>4, <2>5
<1> QED
  BY <1>1, TypeCorrect, ObjectsCorrect, PTL

\* At most two LookupThread objects exist, however often threads are replaced.
THEOREM TwoObjectsCorrect == Spec => []TwoObjects
BY ObjectsCorrect, PTL DEF ObjectsInv

\* The closures resolve() queues act on the thread that runs them.
THEOREM DrainsOwnQueueCorrect == Spec => []DrainsOwnQueue
<1>1. ObjectsInv => DrainsOwnQueue
  BY DEF ObjectsInv, DrainsOwnQueue, Serving
<1> QED
  BY <1>1, ObjectsCorrect, PTL

-----------------------------------------------------------------------------
(* Wake-ups                                                                *)

\* No StartSending() message is lost: a request that is still to be sent is noticed.
THEOREM UnsentIsNoticedCorrect == Spec => []UnsentIsNoticed
<1>1. Init => UnsentIsNoticed
  BY DEF Init, UnsentIsNoticed, ListEmpty
<1>2. TypeOK /\ ObjectsInv /\ UnsentIsNoticed /\ [Next]_vars => UnsentIsNoticed'
  <2> SUFFICES ASSUME TypeOK, ObjectsInv, UnsentIsNoticed, [Next]_vars PROVE UnsentIsNoticed'
    OBVIOUS
  <2>a. \A g \in Threads : pc[g] = "drain" => thread = g
    BY DEF ObjectsInv, Serving
  <2> USE DEF TypeOK, UnsentIsNoticed, ListEmpty
  <2>1. ASSUME NEW p \in Callers, NEW r \in Resolvers, BeginResolve(p, r) PROVE
     UnsentIsNoticed'
    BY <2>1 DEF BeginResolve, Call, MayCall, requests, signals, io
  <2>2. ASSUME NEW p \in Callers, NEW r \in Resolvers, BeginCancel(p, r) PROVE
     UnsentIsNoticed'
    BY <2>2 DEF BeginCancel, Call, MayCall, requests, signals, io
  <2>3. ASSUME NEW p \in Clients, BeginCleanUp(p) PROVE UnsentIsNoticed'
    BY <2>3 DEF BeginCleanUp, Call, MayCall, requests, signals, io
  <2>4. ASSUME NEW p \in Callers, ResolveLock(p) PROVE UnsentIsNoticed'
    BY <2>4 DEF ResolveLock, Construct, Goto, requests, signals, io
  <2>5. ASSUME NEW p \in Callers, ResolveCheck(p) PROVE UnsentIsNoticed'
    BY <2>5 DEF ResolveCheck, Construct, Goto, Return, requests, signals, io
  <2>6. ASSUME NEW p \in Callers, ResolveTooMany(p) PROVE UnsentIsNoticed'
    BY <2>6 DEF ResolveTooMany, Return, requests, signals, io
  <2>7. ASSUME NEW p \in Callers, ResolveInsert(p) PROVE UnsentIsNoticed'
    BY <2>7 DEF ResolveInsert, Send, Return, requests, signals, io
  <2>8. ASSUME NEW p \in Callers, CancelLock(p) PROVE UnsentIsNoticed'
    BY <2>8 DEF CancelLock, Goto, Return, requests, signals, io
  <2>9. ASSUME NEW p \in Callers, CancelRemove(p) PROVE UnsentIsNoticed'
    BY <2>9 DEF CancelRemove, RemoveResolver, Send, Goto, Return, requests, signals, io
  <2>10. ASSUME NEW p \in Callers, CancelWait(p) PROVE UnsentIsNoticed'
    BY <2>10 DEF CancelWait, Return, requests, signals, io
  <2>11. ASSUME NEW p \in Callers, CleanUpLock(p) PROVE UnsentIsNoticed'
    BY <2>11 DEF CleanUpLock, Send, Goto, requests, signals, io
  <2>12. ASSUME NEW p \in Callers, CleanUpJoin(p) PROVE UnsentIsNoticed'
    BY <2>12 DEF CleanUpJoin, Destroy, Return, requests, signals, io
  <2>13. ASSUME NEW g \in Threads, JoinPrevious(g) PROVE UnsentIsNoticed'
    BY <2>13 DEF JoinPrevious, Destroy, requests, signals, io
  <2>14. ASSUME NEW g \in Threads, Open(g) PROVE UnsentIsNoticed'
    BY <2>14 DEF Open, Continue, requests, signals, io
  <2>15. ASSUME NEW g \in Threads, OpenFails(g) PROVE UnsentIsNoticed'
    BY <2>15 DEF OpenFails, SetExiting, Continue, requests, signals, io
  <2>16. ASSUME NEW g \in Threads, OpenFailing(g) PROVE UnsentIsNoticed'
    BY <2>16 DEF OpenFailing, Complete, RemoveResolver, Continue, requests, signals, io
  <2>17. ASSUME NEW g \in Threads, Loop(g) PROVE UnsentIsNoticed'
    BY <2>17 DEF Loop, Continue, requests, signals, io
  <2>18. ASSUME NEW g \in Threads, Check(g) PROVE UnsentIsNoticed'
    BY <2>18 DEF Check, SetExiting, Continue, requests, signals, io
  <2>19. ASSUME NEW g \in Threads, Relock(g) PROVE UnsentIsNoticed'
    BY <2>19 DEF Relock, requests, signals, io
  <2>20. ASSUME NEW g \in Threads, ReadNothing(g) PROVE UnsentIsNoticed'
    BY <2>20 DEF ReadNothing, At, Continue, requests, signals, io
  <2>21. ASSUME NEW g \in Threads, ReadFails(g) PROVE UnsentIsNoticed'
    BY <2>21 DEF ReadFails, At, SetExiting, Continue, requests, signals, io
  <2>22. ASSUME NEW g \in Threads, ReadReply(g) PROVE UnsentIsNoticed'
    BY <2>22 DEF ReadReply, At, Complete, RemoveResolver, Continue, requests, signals, io
  <2>23. ASSUME NEW g \in Threads, ReadFallback(g) PROVE UnsentIsNoticed'
    <3>1. \A h \in Threads \ {g} :
             /\ sendList'[h] = sendList[h] /\ stray'[h] = stray[h]
             /\ dangling'[h] = dangling[h] /\ writeWait'[h] = writeWait[h]
      BY <2>23 DEF ReadFallback
    <3>2. queue' = queue
      BY <2>23 DEF ReadFallback, signals
    <3>3. writeWait'[g] = (writeWait[g] \/ ListEmpty(g))
      BY <2>23 DEF ReadFallback
    <3>4. writeWait'[g] \/ "send" \in queue[g]
      BY <3>3
    <3> QED
      BY <3>1, <3>2, <3>4
  <2>24. ASSUME NEW g \in Threads, Write(g) PROVE UnsentIsNoticed'
    BY <2>24 DEF Write, At, Continue, requests, signals, io
  <2>25. ASSUME NEW g \in Threads, SendOne(g) PROVE UnsentIsNoticed'
    BY <2>25 DEF SendOne, At, requests, signals, io
  <2>26. ASSUME NEW g \in Threads, SendNotReady(g) PROVE UnsentIsNoticed'
    BY <2>26 DEF SendNotReady, At, Continue, requests, signals, io
  <2>27. ASSUME NEW g \in Threads, SendFails(g) PROVE UnsentIsNoticed'
    BY <2>27 DEF SendFails, At, SetExiting, Continue, requests, signals, io
  <2>28. ASSUME NEW g \in Threads, SendNoServer(g) PROVE UnsentIsNoticed'
    BY <2>28 DEF SendNoServer, At, Complete, RemoveResolver, requests, signals, io
  <2>28a. ASSUME NEW g \in Threads, SendDangling(g) PROVE UnsentIsNoticed'
    BY <2>28a DEF SendDangling, At, Continue, requests, signals, io
  <2>29. ASSUME NEW g \in Threads, SendingDone(g) PROVE UnsentIsNoticed'
    BY <2>29 DEF SendingDone, At, Continue, requests, signals, io
  <2>30. ASSUME NEW g \in Threads, Expire(g) PROVE UnsentIsNoticed'
    BY <2>30 DEF Expire, At, Complete, RemoveResolver, requests, signals, io
  <2>31. ASSUME NEW g \in Threads, TimeoutsDone(g) PROVE UnsentIsNoticed'
    BY <2>31 DEF TimeoutsDone, At, Unlock, SetExiting, Continue, requests, signals, io
  <2>32. ASSUME NEW g \in Threads, Failing(g) PROVE UnsentIsNoticed'
    BY <2>32 DEF Failing, At, Complete, RemoveResolver, Unlock, Continue, requests,
       signals, io
  <2>33. ASSUME NEW g \in Threads, WaitTimesOut(g) PROVE UnsentIsNoticed'
    BY <2>33 DEF WaitTimesOut, Continue, requests, signals, io
  <2>34. ASSUME NEW g \in Threads, WaitReturns(g) PROVE UnsentIsNoticed'
    BY <2>34 DEF WaitReturns, SocketEvents, Continue, requests, signals, io
  <2>35. ASSUME NEW g \in Threads, Drain(g) PROVE UnsentIsNoticed'
    BY <2>35, <2>a DEF Drain, requests
  <2>36. ASSUME NEW g \in Threads, CallbackReturns(g) PROVE UnsentIsNoticed'
    BY <2>36 DEF CallbackReturns, requests, signals, io
  <2>37. ASSUME NEW g \in Threads, NEW r \in Resolvers, DeadlinePasses(g, r) PROVE
     UnsentIsNoticed'
    BY <2>37 DEF DeadlinePasses, requests, signals, io
  <2>38. CASE UNCHANGED vars
    BY <2>38 DEF vars, requests, signals, io
  <2> QED
    BY <2>1, <2>2, <2>3, <2>4, <2>5, <2>6, <2>7, <2>8, <2>9, <2>10, <2>11, <2>12, <2>13,
       <2>14, <2>15, <2>16, <2>17, <2>18, <2>19, <2>20, <2>21, <2>22, <2>23, <2>24, <2>25,
       <2>26, <2>27, <2>28, <2>28a, <2>29, <2>30, <2>31, <2>32, <2>33, <2>34, <2>35, <2>36, <2>37,
       <2>38 DEF Next, Step, Caller, Run
<1> QED
  BY <1>1, <1>2, TypeCorrect, ObjectsCorrect, PTL DEF Spec

\* A thread that was asked to quit after it last looked has a message to wake it.
QuitInv ==
    \A g \in Threads : quitFlag[g] /\ pc[g] \in {"check", "read", "write", "sending", "timeouts", "wait"}
                          => queue[g] # {}

\* No request to quit is lost.
THEOREM QuitIsNoticedCorrect == Spec => []QuitIsNoticed
<1>1. Init => QuitInv
  BY DEF Init, QuitInv
<1>2. TypeOK /\ QuitInv /\ [Next]_vars => QuitInv'
  <2> SUFFICES ASSUME TypeOK, QuitInv, [Next]_vars PROVE QuitInv'
    OBVIOUS
  <2> USE DEF TypeOK, QuitInv
  <2>1. ASSUME NEW p \in Callers, NEW r \in Resolvers, BeginResolve(p, r) PROVE QuitInv'
    BY <2>1 DEF BeginResolve, Call, MayCall, signals
  <2>2. ASSUME NEW p \in Callers, NEW r \in Resolvers, BeginCancel(p, r) PROVE QuitInv'
    BY <2>2 DEF BeginCancel, Call, MayCall, signals
  <2>3. ASSUME NEW p \in Clients, BeginCleanUp(p) PROVE QuitInv'
    BY <2>3 DEF BeginCleanUp, Call, MayCall, signals
  <2>4. ASSUME NEW p \in Callers, ResolveLock(p) PROVE QuitInv'
    BY <2>4 DEF ResolveLock, Construct, Goto, signals
  <2>5. ASSUME NEW p \in Callers, ResolveCheck(p) PROVE QuitInv'
    BY <2>5 DEF ResolveCheck, Construct, Goto, Return, signals
  <2>6. ASSUME NEW p \in Callers, ResolveTooMany(p) PROVE QuitInv'
    BY <2>6 DEF ResolveTooMany, Return, signals
  <2>7. ASSUME NEW p \in Callers, ResolveInsert(p) PROVE QuitInv'
    BY <2>7 DEF ResolveInsert, Send, Return, signals
  <2>8. ASSUME NEW p \in Callers, CancelLock(p) PROVE QuitInv'
    BY <2>8 DEF CancelLock, Goto, Return, signals
  <2>9. ASSUME NEW p \in Callers, CancelRemove(p) PROVE QuitInv'
    <3>1. \A h \in Threads : queue[h] \subseteq queue'[h]
      BY <2>9 DEF CancelRemove, Send
    <3>2. \A h \in Threads : quitFlag'[h] => quitFlag[h] \/ queue'[h] # {}
      <4>1. CASE UNCHANGED quitFlag
        BY <4>1
      <4>2. CASE Send(thread, "nop") /\ quitFlag' = [quitFlag EXCEPT ![thread] = TRUE]
        BY <4>2 DEF Send
      <4> QED
        BY <2>9, <4>1, <4>2 DEF CancelRemove
    <3>3. pc' = pc
      BY <2>9 DEF CancelRemove
    <3> QED
      BY <3>1, <3>2, <3>3
  <2>10. ASSUME NEW p \in Callers, CancelWait(p) PROVE QuitInv'
    BY <2>10 DEF CancelWait, Return, signals
  <2>11. ASSUME NEW p \in Callers, CleanUpLock(p) PROVE QuitInv'
    <3>1. \A h \in Threads : queue[h] \subseteq queue'[h]
      BY <2>11 DEF CleanUpLock, Send
    <3>2. \A h \in Threads : quitFlag'[h] => quitFlag[h] \/ queue'[h] # {}
      <4>1. CASE UNCHANGED quitFlag
        BY <4>1
      <4>2. CASE Send(thread, "nop") /\ quitFlag' = [quitFlag EXCEPT ![thread] = TRUE]
        BY <4>2 DEF Send
      <4> QED
        BY <2>11, <4>1, <4>2 DEF CleanUpLock
    <3>3. pc' = pc
      BY <2>11 DEF CleanUpLock
    <3> QED
      BY <3>1, <3>2, <3>3
  <2>12. ASSUME NEW p \in Callers, CleanUpJoin(p) PROVE QuitInv'
    BY <2>12 DEF CleanUpJoin, Destroy, Return, signals
  <2>13. ASSUME NEW g \in Threads, JoinPrevious(g) PROVE QuitInv'
    BY <2>13 DEF JoinPrevious, Destroy, signals
  <2>14. ASSUME NEW g \in Threads, Open(g) PROVE QuitInv'
    BY <2>14 DEF Open, Continue, signals
  <2>15. ASSUME NEW g \in Threads, OpenFails(g) PROVE QuitInv'
    BY <2>15 DEF OpenFails, SetExiting, Continue, signals
  <2>16. ASSUME NEW g \in Threads, OpenFailing(g) PROVE QuitInv'
    BY <2>16 DEF OpenFailing, Complete, RemoveResolver, Continue, signals
  <2>17. ASSUME NEW g \in Threads, Loop(g) PROVE QuitInv'
    BY <2>17 DEF Loop, Continue, signals
  <2>18. ASSUME NEW g \in Threads, Check(g) PROVE QuitInv'
    BY <2>18 DEF Check, SetExiting, Continue, signals
  <2>19. ASSUME NEW g \in Threads, Relock(g) PROVE QuitInv'
    BY <2>19 DEF Relock, signals
  <2>20. ASSUME NEW g \in Threads, ReadNothing(g) PROVE QuitInv'
    BY <2>20 DEF ReadNothing, At, Continue, signals
  <2>21. ASSUME NEW g \in Threads, ReadFails(g) PROVE QuitInv'
    BY <2>21 DEF ReadFails, At, SetExiting, Continue, signals
  <2>22. ASSUME NEW g \in Threads, ReadReply(g) PROVE QuitInv'
    BY <2>22 DEF ReadReply, At, Complete, RemoveResolver, Continue, signals
  <2>23. ASSUME NEW g \in Threads, ReadFallback(g) PROVE QuitInv'
    BY <2>23 DEF ReadFallback, At, Continue, signals
  <2>24. ASSUME NEW g \in Threads, Write(g) PROVE QuitInv'
    BY <2>24 DEF Write, At, Continue, signals
  <2>25. ASSUME NEW g \in Threads, SendOne(g) PROVE QuitInv'
    BY <2>25 DEF SendOne, At, signals
  <2>26. ASSUME NEW g \in Threads, SendNotReady(g) PROVE QuitInv'
    BY <2>26 DEF SendNotReady, At, Continue, signals
  <2>27. ASSUME NEW g \in Threads, SendFails(g) PROVE QuitInv'
    BY <2>27 DEF SendFails, At, SetExiting, Continue, signals
  <2>28. ASSUME NEW g \in Threads, SendNoServer(g) PROVE QuitInv'
    BY <2>28 DEF SendNoServer, At, Complete, RemoveResolver, signals
  <2>28a. ASSUME NEW g \in Threads, SendDangling(g) PROVE QuitInv'
    BY <2>28a DEF SendDangling, At, Continue, signals
  <2>29. ASSUME NEW g \in Threads, SendingDone(g) PROVE QuitInv'
    BY <2>29 DEF SendingDone, At, Continue, signals
  <2>30. ASSUME NEW g \in Threads, Expire(g) PROVE QuitInv'
    BY <2>30 DEF Expire, At, Complete, RemoveResolver, signals
  <2>31. ASSUME NEW g \in Threads, TimeoutsDone(g) PROVE QuitInv'
    BY <2>31 DEF TimeoutsDone, At, Unlock, SetExiting, Continue, signals
  <2>32. ASSUME NEW g \in Threads, Failing(g) PROVE QuitInv'
    BY <2>32 DEF Failing, At, Complete, RemoveResolver, Unlock, Continue, signals
  <2>33. ASSUME NEW g \in Threads, WaitTimesOut(g) PROVE QuitInv'
    BY <2>33 DEF WaitTimesOut, Continue, signals
  <2>34. ASSUME NEW g \in Threads, WaitReturns(g) PROVE QuitInv'
    BY <2>34 DEF WaitReturns, SocketEvents, Continue, signals
  <2>35. ASSUME NEW g \in Threads, Drain(g) PROVE QuitInv'
    BY <2>35 DEF Drain, Continue, signals
  <2>36. ASSUME NEW g \in Threads, CallbackReturns(g) PROVE QuitInv'
    BY <2>36 DEF CallbackReturns, signals
  <2>37. ASSUME NEW g \in Threads, NEW r \in Resolvers, DeadlinePasses(g, r) PROVE
     QuitInv'
    BY <2>37 DEF DeadlinePasses, signals
  <2>38. CASE UNCHANGED vars
    BY <2>38 DEF vars, signals
  <2> QED
    BY <2>1, <2>2, <2>3, <2>4, <2>5, <2>6, <2>7, <2>8, <2>9, <2>10, <2>11, <2>12, <2>13,
       <2>14, <2>15, <2>16, <2>17, <2>18, <2>19, <2>20, <2>21, <2>22, <2>23, <2>24, <2>25,
       <2>26, <2>27, <2>28, <2>28a, <2>29, <2>30, <2>31, <2>32, <2>33, <2>34, <2>35, <2>36, <2>37,
       <2>38 DEF Next, Step, Caller, Run
<1>3. QuitInv => QuitIsNoticed
  BY DEF QuitInv, QuitIsNoticed
<1> QED
  BY <1>1, <1>2, <1>3, TypeCorrect, PTL DEF Spec

-----------------------------------------------------------------------------
(* The containers of requests                                              *)

\* Every container of an object holds requests of its resolversMap, and one that is listed
\* twice asks for an A record, whatever step adds, removes or destroys them
\* (dns_resolver.cpp:503-526, 726-742, 955-1050); but for what MapsAgree leaves out, the
\* entry that a removed request leaves in sendList.
THEOREM MapsAgreeCorrect == Spec => []MapsAgree
<1>1. Init => MapsAgree
  BY DEF Init, MapsAgree
<1>2. TypeOK /\ MapsAgree /\ [Next]_vars => MapsAgree'
  <2> SUFFICES ASSUME TypeOK, MapsAgree, [Next]_vars PROVE MapsAgree'
    OBVIOUS
  <2> USE DEF TypeOK, MapsAgree
  <2>1. ASSUME NEW g \in Threads, NEW r, RemoveResolver(g, r) PROVE MapsAgree'
    BY <2>1 DEF RemoveResolver
  <2>2. CASE UNCHANGED requests
    BY <2>2 DEF requests
  <2>3. ASSUME NEW p \in Callers, Caller(p) PROVE MapsAgree'
    <3>1. CASE ResolveInsert(p)
      <4> DEFINE r == call[p].r
      <4>1. /\ resolversMap' = [resolversMap EXCEPT ![thread] = @ \cup {r}]
            /\ sendList' = [sendList EXCEPT ![thread] = @ \cup {r}]
            /\ UNCHANGED <<stray, recordA, due>>
        BY <3>1 DEF ResolveInsert
      <4> QED
        BY <4>1
    <3>2. CASE CancelRemove(p)
      <4>1. RemoveResolver(thread, call[p].r)
        BY <3>2 DEF CancelRemove
      <4> QED
        BY <4>1 DEF RemoveResolver
    <3>3. CASE CleanUpJoin(p)
      <4>1. Destroy(thread)
        BY <3>3 DEF CleanUpJoin
      <4> QED
        BY <4>1 DEF Destroy
    <3>4. CASE \/ ResolveLock(p) \/ ResolveCheck(p) \/ ResolveTooMany(p)
               \/ CancelLock(p) \/ CancelWait(p) \/ CleanUpLock(p)
      BY <2>2, <3>4
         DEF ResolveLock, ResolveCheck, ResolveTooMany, CancelLock, CancelWait, CleanUpLock
    <3> QED
      BY <2>3, <3>1, <3>2, <3>3, <3>4 DEF Caller
  <2>4. ASSUME NEW g \in Threads, Run(g) PROVE MapsAgree'
    <3>1. CASE JoinPrevious(g)
      <4>1. Destroy(prevThread[g])
        BY <3>1 DEF JoinPrevious
      <4> QED
        BY <4>1 DEF Destroy
    <3>2. CASE \/ OpenFailing(g) \/ ReadReply(g) \/ SendNoServer(g)
               \/ Expire(g) \/ Failing(g)
      <4>1. (\E r : Complete(g, r)) \/ UNCHANGED requests
        BY <3>2 DEF OpenFailing, ReadReply, SendNoServer, Expire, Failing
      <4> QED
        BY <2>1, <2>2, <4>1 DEF Complete
    <3>3. CASE ReadFallback(g)
      <4>1. PICK r \in resolversMap[g] :
               /\ recordA' = [recordA EXCEPT ![g] = @ \cup {r}]
               /\ sendList' = [sendList EXCEPT ![g] = @ \cup {r}]
               /\ stray' = [stray EXCEPT ![g] = @ \cup (sendList[g] \cap {r})]
        BY <3>3 DEF ReadFallback
      <4> QED
        BY <3>3, <4>1 DEF ReadFallback
    <3>4. CASE SendOne(g)
      BY <3>4 DEF SendOne
    <3>5. CASE \/ Open(g) \/ OpenFails(g) \/ Loop(g) \/ Check(g) \/ Relock(g)
               \/ ReadNothing(g) \/ ReadFails(g) \/ Write(g) \/ SendNotReady(g)
               \/ SendFails(g) \/ SendDangling(g) \/ SendingDone(g) \/ TimeoutsDone(g)
               \/ WaitTimesOut(g) \/ WaitReturns(g) \/ Drain(g)
      BY <2>2, <3>5
         DEF Open, OpenFails, Loop, Check, Relock, ReadNothing, ReadFails, Write,
             SendNotReady, SendFails, SendDangling, SendingDone, TimeoutsDone, WaitTimesOut,
             WaitReturns, Drain
    <3> QED
      BY <2>4, <3>1, <3>2, <3>3, <3>4, <3>5 DEF Run
  <2>5. ASSUME NEW g \in Threads, NEW r \in Resolvers, DeadlinePasses(g, r) PROVE MapsAgree'
    BY <2>5 DEF DeadlinePasses
  <2> QED
    BY <2>2, <2>3, <2>4, <2>5
       DEF Next, Step, BeginResolve, BeginCancel, BeginCleanUp, Call, CallbackReturns, vars
<1> QED
  BY <1>1, <1>2, TypeCorrect, PTL DEF Spec

-----------------------------------------------------------------------------
(* What cancel() guarantees                                                *)

CallbackInv ==
    /\ \A g \in Threads : completing[g] # Null =>
          pc[g] \in {"write", "sending", "timeouts", "failing", "openFailing"}
    /\ \A p \in Callers : call[p].at = "waitC" => call[p].r \notin resolversMap[thread]

\* A lookup thread exits only when it has no callback to make, and a cancel() that
\* waits has removed its request.
LEMMA CallbackInvariant == Spec => []CallbackInv
<1>1. Init => CallbackInv
  BY DEF Init, CallbackInv, Idle
<1>2. TypeOK /\ DnsMutexInv /\ CallbackInv /\ [Next]_vars => CallbackInv'
  <2> SUFFICES ASSUME TypeOK, DnsMutexInv, CallbackInv, [Next]_vars PROVE CallbackInv'
    OBVIOUS
  <2>a. \A q \in Callers : call[q].at = "waitC" =>
           dnsMutex # Null /\ \A p \in Callers \ {q} : ~Holds(p)
    BY ConstantsAssumption DEF DnsMutexInv, Holds, Callers
  <2>b. \A p \in Callers : call[p] \in CallRecords
    BY DEF TypeOK
  <2>c. \A q \in Callers : call[q].at = "waitC" => thread \in Threads
    BY DEF DnsMutexInv, Holds, TypeOK
  <2> USE ConstantsAssumption DEF TypeOK, CallbackInv
  <2>1. ASSUME NEW p \in Callers, NEW r \in Resolvers, BeginResolve(p, r) PROVE
     CallbackInv'
    BY <2>1 DEF BeginResolve, Call, MayCall, requests, signals, io, locks, chain
  <2>2. ASSUME NEW p \in Callers, NEW r \in Resolvers, BeginCancel(p, r) PROVE
     CallbackInv'
    BY <2>2 DEF BeginCancel, Call, MayCall, requests, signals, io, locks, chain
  <2>3. ASSUME NEW p \in Clients, BeginCleanUp(p) PROVE CallbackInv'
    BY <2>3 DEF BeginCleanUp, Call, MayCall, requests, signals, io, locks, chain
  <2>4. ASSUME NEW p \in Callers, ResolveLock(p) PROVE CallbackInv'
    <3>1. \A q \in Callers : call'[q].at # "waitC"
      <4>1. \A q \in Callers : call[q].at # "waitC"
        BY <2>4, <2>a DEF ResolveLock
      <4>2. Goto(p, "insert") \/ Goto(p, "check")
        BY <2>4 DEF ResolveLock
      <4>3. call'[p].at # "waitC"
        BY <4>2, <2>b DEF Goto, CallRecords, Idle
      <4>4. \A q \in Callers \ {p} : call'[q] = call[q]
        BY <4>2 DEF Goto
      <4> QED
        BY <4>1, <4>3, <4>4
    <3>2. \A g \in Threads : /\ pc'[g] = pc[g] \/ pc'[g] \in {"absent", "new", "start"}
                             /\ pc'[g] # pc[g] => pc[g] \in {"absent", "new", "done"}
                             /\ completing'[g] = completing[g]
      BY <2>4 DEF ResolveLock, Construct, io
    <3> QED
      BY <3>1, <3>2
  <2>5. ASSUME NEW p \in Callers, ResolveCheck(p) PROVE CallbackInv'
    <3>1. \A q \in Callers : call'[q].at # "waitC"
      BY <2>5, <2>a, <2>b DEF ResolveCheck, Goto, Return, Holds, CallRecords, Idle
    <3>2. \A g \in Threads : /\ pc'[g] = pc[g] \/ pc'[g] \in {"absent", "new", "start"}
                             /\ pc'[g] # pc[g] => pc[g] \in {"absent", "new", "done"}
                             /\ completing'[g] = completing[g]
      BY <2>5 DEF ResolveCheck, Construct, io
    <3> QED
      BY <3>1, <3>2
  <2>6. ASSUME NEW p \in Callers, ResolveTooMany(p) PROVE CallbackInv'
    <3>1. \A q \in Callers : call'[q].at # "waitC"
      BY <2>6, <2>a, <2>b DEF ResolveTooMany, Return, Holds, CallRecords, Idle
    <3>2. \A g \in Threads : /\ pc'[g] = pc[g] \/ pc'[g] \in {"absent", "new", "start"}
                             /\ pc'[g] # pc[g] => pc[g] \in {"absent", "new", "done"}
                             /\ completing'[g] = completing[g]
      BY <2>6 DEF ResolveTooMany, io
    <3> QED
      BY <3>1, <3>2
  <2>7. ASSUME NEW p \in Callers, ResolveInsert(p) PROVE CallbackInv'
    <3>1. \A q \in Callers : call'[q].at # "waitC"
      BY <2>7, <2>a, <2>b DEF ResolveInsert, Return, Holds, CallRecords, Idle
    <3>2. \A g \in Threads : /\ pc'[g] = pc[g] \/ pc'[g] \in {"absent", "new", "start"}
                             /\ pc'[g] # pc[g] => pc[g] \in {"absent", "new", "done"}
                             /\ completing'[g] = completing[g]
      BY <2>7 DEF ResolveInsert, io
    <3> QED
      BY <3>1, <3>2
  <2>8. ASSUME NEW p \in Callers, CancelLock(p) PROVE CallbackInv'
    <3>1. \A q \in Callers : call'[q].at # "waitC"
      BY <2>8, <2>a, <2>b DEF CancelLock, Goto, Return, Holds, CallRecords, Idle
    <3>2. \A g \in Threads : /\ pc'[g] = pc[g] \/ pc'[g] \in {"absent", "new", "start"}
                             /\ pc'[g] # pc[g] => pc[g] \in {"absent", "new", "done"}
                             /\ completing'[g] = completing[g]
      BY <2>8 DEF CancelLock, io
    <3> QED
      BY <3>1, <3>2
  <2>9. ASSUME NEW p \in Callers, CancelRemove(p) PROVE CallbackInv'
    <3>1. \A q \in Callers \ {p} : call'[q].at # "waitC"
      BY <2>9, <2>a DEF CancelRemove, Goto, Return, Holds
    <3>2. call'[p].at = "waitC" => call'[p].r = call[p].r
      BY <2>9, <2>b DEF CancelRemove, Goto, Return, CallRecords, Idle
    <3>3. call[p].r \notin resolversMap'[thread]
      BY <2>9 DEF CancelRemove, RemoveResolver, DnsMutexInv, Holds
    <3>4. UNCHANGED <<pc, completing, thread>>
      BY <2>9 DEF CancelRemove, io, chain
    <3> QED
      BY <3>1, <3>2, <3>3, <3>4
  <2>10. ASSUME NEW p \in Callers, CancelWait(p) PROVE CallbackInv'
    <3>1. \A q \in Callers : call'[q].at # "waitC"
      BY <2>10, <2>a, <2>b DEF CancelWait, Return, Holds, CallRecords, Idle
    <3>2. \A g \in Threads : /\ pc'[g] = pc[g] \/ pc'[g] \in {"absent", "new", "start"}
                             /\ pc'[g] # pc[g] => pc[g] \in {"absent", "new", "done"}
                             /\ completing'[g] = completing[g]
      BY <2>10 DEF CancelWait, io
    <3> QED
      BY <3>1, <3>2
  <2>11. ASSUME NEW p \in Callers, CleanUpLock(p) PROVE CallbackInv'
    <3>1. \A q \in Callers : call'[q].at # "waitC"
      BY <2>11, <2>a, <2>b DEF CleanUpLock, Goto, Return, Holds, CallRecords, Idle
    <3>2. \A g \in Threads : /\ pc'[g] = pc[g] \/ pc'[g] \in {"absent", "new", "start"}
                             /\ pc'[g] # pc[g] => pc[g] \in {"absent", "new", "done"}
                             /\ completing'[g] = completing[g]
      BY <2>11 DEF CleanUpLock, io
    <3> QED
      BY <3>1, <3>2
  <2>12. ASSUME NEW p \in Callers, CleanUpJoin(p) PROVE CallbackInv'
    <3>1. \A q \in Callers : call'[q].at # "waitC"
      BY <2>12, <2>a, <2>b DEF CleanUpJoin, Return, Holds, CallRecords, Idle
    <3>2. \A g \in Threads : /\ pc'[g] = pc[g] \/ pc'[g] \in {"absent", "new", "start"}
                             /\ pc'[g] # pc[g] => pc[g] \in {"absent", "new", "done"}
                             /\ completing'[g] = completing[g]
      BY <2>12 DEF CleanUpJoin, Destroy
    <3> QED
      BY <3>1, <3>2
  <2>13. ASSUME NEW g \in Threads, JoinPrevious(g) PROVE CallbackInv'
    BY <2>13 DEF JoinPrevious, Destroy, requests, signals, io, locks, chain
  <2>14. ASSUME NEW g \in Threads, Open(g) PROVE CallbackInv'
    BY <2>14 DEF Open, Continue, requests, signals, io, locks, chain
  <2>15. ASSUME NEW g \in Threads, OpenFails(g) PROVE CallbackInv'
    BY <2>15 DEF OpenFails, SetExiting, Continue, requests, signals, io, locks, chain
  <2>16. ASSUME NEW g \in Threads, OpenFailing(g) PROVE CallbackInv'
    <3>1. CASE \E r \in resolversMap[g] : Complete(g, r) /\ pc' = pc
      <4>1. \A h \in Threads : resolversMap'[h] \subseteq resolversMap[h]
        BY <3>1 DEF Complete, RemoveResolver
      <4>2. \A h \in Threads \ {g} : completing'[h] = completing[h]
        BY <3>1 DEF Complete
      <4>3. UNCHANGED <<call, thread, pc>> /\ pc[g] \in {"failing", "openFailing"}
        BY <2>16, <3>1 DEF OpenFailing, chain
      <4> QED
        BY <2>c, <4>1, <4>2, <4>3
    <3>2. CASE UNCHANGED <<requests, completing>> /\ Continue(g, "done")
      BY <2>16, <3>2 DEF OpenFailing, Continue, requests, chain
    <3> QED
      BY <2>16, <3>1, <3>2 DEF OpenFailing
  <2>17. ASSUME NEW g \in Threads, Loop(g) PROVE CallbackInv'
    BY <2>17 DEF Loop, Continue, requests, signals, io, locks, chain
  <2>18. ASSUME NEW g \in Threads, Check(g) PROVE CallbackInv'
    BY <2>18 DEF Check, SetExiting, Continue, requests, signals, io, locks, chain
  <2>19. ASSUME NEW g \in Threads, Relock(g) PROVE CallbackInv'
    BY <2>19 DEF Relock, requests, signals, io, locks, chain
  <2>20. ASSUME NEW g \in Threads, ReadNothing(g) PROVE CallbackInv'
    BY <2>20 DEF ReadNothing, At, Continue, requests, signals, io, locks, chain
  <2>21. ASSUME NEW g \in Threads, ReadFails(g) PROVE CallbackInv'
    BY <2>21 DEF ReadFails, At, SetExiting, Continue, requests, signals, io, locks, chain
  <2>22. ASSUME NEW g \in Threads, ReadReply(g) PROVE CallbackInv'
    BY <2>22 DEF ReadReply, At, Complete, RemoveResolver, Continue, requests, signals, io,
       locks, chain
  <2>23. ASSUME NEW g \in Threads, ReadFallback(g) PROVE CallbackInv'
    BY <2>23 DEF ReadFallback, At, Continue, requests, signals, io, locks, chain
  <2>24. ASSUME NEW g \in Threads, Write(g) PROVE CallbackInv'
    BY <2>24 DEF Write, At, Continue, requests, signals, io, locks, chain
  <2>25. ASSUME NEW g \in Threads, SendOne(g) PROVE CallbackInv'
    BY <2>25 DEF SendOne, At, requests, signals, io, locks, chain
  <2>26. ASSUME NEW g \in Threads, SendNotReady(g) PROVE CallbackInv'
    BY <2>26 DEF SendNotReady, At, Continue, requests, signals, io, locks, chain
  <2>27. ASSUME NEW g \in Threads, SendFails(g) PROVE CallbackInv'
    BY <2>27 DEF SendFails, At, SetExiting, Continue, requests, signals, io, locks, chain
  <2>28. ASSUME NEW g \in Threads, SendNoServer(g) PROVE CallbackInv'
    BY <2>28 DEF SendNoServer, At, Complete, RemoveResolver, requests, signals, io, locks,
       chain
  <2>28a. ASSUME NEW g \in Threads, SendDangling(g) PROVE CallbackInv'
    BY <2>28a DEF SendDangling, At, Continue, requests, signals, io, locks, chain
  <2>29. ASSUME NEW g \in Threads, SendingDone(g) PROVE CallbackInv'
    BY <2>29 DEF SendingDone, At, Continue, requests, signals, io, locks, chain
  <2>30. ASSUME NEW g \in Threads, Expire(g) PROVE CallbackInv'
    BY <2>30 DEF Expire, At, Complete, RemoveResolver, requests, signals, io, locks, chain
  <2>31. ASSUME NEW g \in Threads, TimeoutsDone(g) PROVE CallbackInv'
    BY <2>31 DEF TimeoutsDone, At, Unlock, SetExiting, Continue, requests, signals, io,
       locks, chain
  <2>32. ASSUME NEW g \in Threads, Failing(g) PROVE CallbackInv'
    <3>1. CASE \E r \in resolversMap[g] : Complete(g, r) /\ pc' = pc
      <4>1. \A h \in Threads : resolversMap'[h] \subseteq resolversMap[h]
        BY <3>1 DEF Complete, RemoveResolver
      <4>2. \A h \in Threads \ {g} : completing'[h] = completing[h]
        BY <3>1 DEF Complete
      <4>3. UNCHANGED <<call, thread, pc>> /\ pc[g] \in {"failing", "openFailing"}
        BY <2>32, <3>1 DEF Failing, At, chain
      <4> QED
        BY <2>c, <4>1, <4>2, <4>3
    <3>2. CASE UNCHANGED <<requests, completing>> /\ Continue(g, "done")
      BY <2>32, <3>2 DEF Failing, At, Continue, requests, chain
    <3> QED
      BY <2>32, <3>1, <3>2 DEF Failing
  <2>33. ASSUME NEW g \in Threads, WaitTimesOut(g) PROVE CallbackInv'
    BY <2>33 DEF WaitTimesOut, Continue, requests, signals, io, locks, chain
  <2>34. ASSUME NEW g \in Threads, WaitReturns(g) PROVE CallbackInv'
    BY <2>34 DEF WaitReturns, SocketEvents, Continue, requests, signals, io, locks, chain
  <2>35. ASSUME NEW g \in Threads, Drain(g) PROVE CallbackInv'
    BY <2>35 DEF Drain, Continue, requests, signals, io, locks, chain
  <2>36. ASSUME NEW g \in Threads, CallbackReturns(g) PROVE CallbackInv'
    BY <2>36 DEF CallbackReturns, requests, signals, io, locks, chain
  <2>37. ASSUME NEW g \in Threads, NEW r \in Resolvers, DeadlinePasses(g, r) PROVE
     CallbackInv'
    BY <2>37 DEF DeadlinePasses, requests, signals, io, locks, chain
  <2>38. CASE UNCHANGED vars
    BY <2>38 DEF vars, requests, signals, io, locks, chain
  <2> QED
    BY <2>1, <2>2, <2>3, <2>4, <2>5, <2>6, <2>7, <2>8, <2>9, <2>10, <2>11, <2>12, <2>13,
       <2>14, <2>15, <2>16, <2>17, <2>18, <2>19, <2>20, <2>21, <2>22, <2>23, <2>24, <2>25,
       <2>26, <2>27, <2>28, <2>28a, <2>29, <2>30, <2>31, <2>32, <2>33, <2>34, <2>35, <2>36, <2>37,
       <2>38 DEF Next, Step, Caller, Run
<1> QED
  BY <1>1, <1>2, TypeCorrect, DnsMutexCorrect, PTL DEF Spec

\* When cancel() returns, no callback for a request made before is coming or
\* running (dns_resolver.hpp:88), but for those of a thread that failed and is no
\* longer dns::thread.
THEOREM CancelStopsCallbacksCorrect == Spec => CancelStopsCallbacks
<1> DEFINE Quiet(p, g) ==
      /\ call[p].r \in resolversMap'[g] => pc'[g] = "done"
      /\ call[p].at = "waitC" => completing'[g] # call[p].r
<1>1. ASSUME TypeOK, ObjectsInv, DnsMutexInv, CallbackInv, [Next]_vars,
             NEW p \in Callers, Cancelled(p),
             NEW g \in Threads, g = thread \/ pc[g] # "failing"
      PROVE  Quiet(p, g)
  <2>1. call[p].op = "cancel" /\ call[p].at \in {"lock", "remove", "waitC"} /\ call[p].r \in Resolvers
    BY <1>1 DEF Cancelled, TypeOK, CallRecords, Idle
  <2>2. call'[p] # call[p]
    BY <1>1, <2>1 DEF Cancelled, Idle
  <2>3. CancelLock(p) \/ CancelRemove(p) \/ CancelWait(p)
    <3>1. ASSUME NEW q \in Callers, NEW r \in Resolvers, BeginResolve(q, r) \/ BeginCancel(q, r)
          PROVE  FALSE
      BY <1>1, <2>1, <2>2, <3>1
         DEF BeginResolve, BeginCancel, Call, Cancelled, Idle, TypeOK
    <3>2. ASSUME NEW q \in Clients, BeginCleanUp(q) PROVE FALSE
      BY <1>1, <2>1, <2>2, <3>2 DEF BeginCleanUp, Call, Cancelled, Idle, TypeOK
    <3>3. ASSUME NEW q \in Callers, Caller(q)
          PROVE  CancelLock(p) \/ CancelRemove(p) \/ CancelWait(p)
      <4>1. q = p
        BY <1>1, <2>2, <3>3
           DEF Caller, ResolveLock, ResolveCheck, ResolveTooMany, ResolveInsert, CancelLock,
               CancelRemove, CancelWait, CleanUpLock, CleanUpJoin, Goto, Return, TypeOK
      <4> QED
        BY <2>1, <3>3, <4>1
           DEF Caller, ResolveLock, ResolveCheck, ResolveTooMany, ResolveInsert,
               CleanUpLock, CleanUpJoin
    <3>4. ASSUME NEW h \in Threads, Run(h) PROVE FALSE
      <4>1. call' = call
        BY <1>1, <3>4, RunFrame DEF JoinPrevious
      <4> QED
        BY <2>2, <4>1
    <3>5. ASSUME NEW h \in Threads, NEW r \in Resolvers, DeadlinePasses(h, r) PROVE FALSE
      BY <2>2, <3>5 DEF DeadlinePasses
    <3>6. ASSUME NEW h \in Threads, CallbackReturns(h) PROVE FALSE
      BY <2>2, <3>6 DEF CallbackReturns
    <3>7. CASE UNCHANGED vars
      BY <2>2, <3>7 DEF vars
    <3> QED
      BY <1>1, <3>1, <3>2, <3>3, <3>4, <3>5, <3>6, <3>7 DEF Next, Step
  <2>4. pc[g] # "openFailing"
    <3>1. dnsMutex # g \/ Holds(g)
      BY <1>1, <2>3, ConstantsAssumption
         DEF CancelLock, CancelRemove, CancelWait, DnsMutexInv, Holds
    <3> QED
      BY <1>1, <3>1 DEF DnsMutexInv
  <2>5. g # thread => /\ pc[g] = "done" \/ (pc[g] = "absent" /\ resolversMap[g] = {})
                      /\ completing[g] = Null
    BY <1>1, <2>4 DEF ObjectsInv, CallbackInv, Serving, TypeOK, Points, LockedPoints
  <2>6. CASE CancelLock(p)
    <3>1. thread = Null
      BY <1>1, <2>6 DEF CancelLock, Cancelled, Goto, TypeOK, CallRecords, Idle
    <3>2. g # thread
      BY <3>1, ConstantsAssumption
    <3> QED
      BY <2>5, <2>6, <3>2 DEF CancelLock, requests
  <2>7. CASE CancelRemove(p)
    <3>1. call[p].r \notin resolversMap'[thread] /\ pc' = pc
      BY <1>1, <2>7 DEF CancelRemove, RemoveResolver, TypeOK, DnsMutexInv, Holds
    <3>2. g # thread => resolversMap'[g] = resolversMap[g]
      BY <1>1, <2>7 DEF CancelRemove, RemoveResolver, TypeOK
    <3> QED
      BY <2>5, <2>7, <3>1, <3>2 DEF CancelRemove
  <2>8. CASE CancelWait(p)
    <3>1. call[p].r \notin resolversMap[thread] /\ completing[thread] = Null
      BY <1>1, <2>8 DEF CancelWait, CallbackInv
    <3>2. UNCHANGED <<resolversMap, pc, completing>>
      BY <2>8 DEF CancelWait, requests
    <3>3. completing[g] # call[p].r
      BY <2>1, <2>5, <3>1, ConstantsAssumption
    <3> QED
      BY <2>5, <3>1, <3>2, <3>3
  <2> QED
    BY <2>3, <2>6, <2>7, <2>8
<1>2. TypeOK /\ ObjectsInv /\ DnsMutexInv /\ CallbackInv /\ [Next]_vars
        => [\A p \in Callers : Cancelled(p) =>
              \A g \in Threads : g = thread \/ pc[g] # "failing" => Quiet(p, g)]_vars
  BY <1>1
<1> QED
  BY <1>2, TypeCorrect, ObjectsCorrect, DnsMutexCorrect, CallbackInvariant, PTL
     DEF Spec, CancelStopsCallbacks

-----------------------------------------------------------------------------
(* The threads as their callers see them                                   *)

\* What a step of run() is to callers: it completes a request, or leaves the requests
\* and the callback alone, and then ends only as the code says.
CompletesOne(g) ==
    /\ completing[g] = Null
    /\ \E r \in resolversMap[g] : /\ resolversMap' = [resolversMap EXCEPT ![g] = @ \ {r}]
                                  /\ completing' = [completing EXCEPT ![g] = r]
    /\ pc'[g] # "done"
    /\ pc'[g] = "failing" <=> pc[g] = "failing"
CompletesNone(g) ==
    /\ UNCHANGED <<resolversMap, completing>>
    /\ pc'[g] = "failing" => pc[g] \in Serving \cup {"failing"}
    /\ pc[g] = "failing" /\ pc'[g] # "failing" => resolversMap[g] = {}
    /\ pc'[g] = "done" => /\ completing[g] = Null \/ pc[g] = "loop"
                          /\ resolversMap[g] = {} \/ (pc[g] = "loop" /\ ~isExiting'[g])

\* Every step of run() but the join is one of these.
LEMMA RunCompletes ==
    ASSUME TypeOK, ObjectsInv, MapsAgree, NEW g \in Threads, Run(g), ~JoinPrevious(g)
    PROVE  CompletesOne(g) \/ CompletesNone(g)
<1> USE DEF TypeOK, Serving, LockedPoints, requests, signals, io, locks, chain
<1>1. CASE Open(g)
  BY <1>1 DEF Open, Continue, CompletesNone
<1>2. CASE OpenFails(g)
  BY <1>2 DEF OpenFails, SetExiting, Continue, CompletesNone
<1>3. CASE OpenFailing(g)
  BY <1>3 DEF OpenFailing, Complete, RemoveResolver, Continue, CompletesOne, CompletesNone
<1>4. CASE Loop(g)
  BY <1>4 DEF Loop, Continue, ObjectsInv, CompletesNone
<1>5. CASE Check(g)
  BY <1>5 DEF Check, SetExiting, Continue, CompletesNone
<1>6. CASE Relock(g)
  BY <1>6 DEF Relock, CompletesNone
<1>7. CASE ReadNothing(g)
  BY <1>7 DEF ReadNothing, At, Continue, CompletesNone
<1>8. CASE ReadFails(g)
  BY <1>8 DEF ReadFails, At, SetExiting, Continue, CompletesNone
<1>9. CASE ReadReply(g)
  BY <1>9 DEF ReadReply, At, Complete, RemoveResolver, Continue, CompletesOne
<1>10. CASE ReadFallback(g)
  BY <1>10 DEF ReadFallback, At, Continue, CompletesNone
<1>11. CASE Write(g)
  BY <1>11 DEF Write, At, Continue, CompletesNone
<1>12. CASE SendOne(g)
  BY <1>12 DEF SendOne, At, CompletesNone
<1>13. CASE SendNotReady(g)
  BY <1>13 DEF SendNotReady, At, Continue, CompletesNone
<1>14. CASE SendFails(g)
  BY <1>14 DEF SendFails, At, SetExiting, Continue, CompletesNone
<1>15. CASE SendNoServer(g)
  <2>1. PICK r \in (sendList[g] \cup stray[g]) \cap NoServer : Complete(g, r)
    BY <1>15 DEF SendNoServer
  <2>2. r \in resolversMap[g]
    BY <2>1 DEF MapsAgree
  <2> QED
    BY <1>15, <2>1, <2>2 DEF SendNoServer, At, Complete, RemoveResolver, CompletesOne
<1>15a. CASE SendDangling(g)
  BY <1>15a DEF SendDangling, At, Continue, CompletesNone
<1>16. CASE SendingDone(g)
  BY <1>16 DEF SendingDone, At, Continue, CompletesNone
<1>17. CASE Expire(g)
  BY <1>17 DEF MapsAgree, Expire, At, Complete, RemoveResolver, CompletesOne
<1>18. CASE TimeoutsDone(g)
  BY <1>18 DEF TimeoutsDone, At, Unlock, SetExiting, Continue, CompletesNone
<1>19. CASE Failing(g)
  BY <1>19 DEF Failing, At, Complete, RemoveResolver, Unlock, Continue, CompletesOne, CompletesNone
<1>20. CASE WaitTimesOut(g)
  BY <1>20 DEF WaitTimesOut, Continue, CompletesNone
<1>21. CASE WaitReturns(g)
  BY <1>21 DEF WaitReturns, SocketEvents, Continue, CompletesNone
<1>22. CASE Drain(g)
  BY <1>22 DEF Drain, Continue, CompletesNone
<1> QED
  BY <1>1, <1>2, <1>3, <1>4, <1>5, <1>6, <1>7, <1>8, <1>9, <1>10, <1>11, <1>12,
     <1>13, <1>14, <1>15, <1>15a, <1>16, <1>17, <1>18, <1>19, <1>20, <1>21, <1>22 DEF Run

\* While clean_up() runs no request is served, and nothing else is called.
CleanUpInv ==
    \A p \in Callers : call[p].op = "clean_up" =>
        /\ p \in Clients
        /\ \A q \in Callers \ {p} : call[q] = Idle
        /\ thread # Null => resolversMap[thread] = {}
\* A thread that ended and is marked as exiting has left no request, unless a resolve()
\* that had seen it run inserted one since (953-998). No other can follow: it would
\* find the object exiting.
StoppedInv ==
    thread # Null /\ pc[thread] = "done" /\ isExiting[thread] =>
        \/ resolversMap[thread] = {}
        \/ /\ \E r \in Resolvers : resolversMap[thread] = {r}
           /\ \A p \in Callers : call[p].at # "insert"
\* A thread that could not open its socket is not replaced while it completes its
\* requests: it holds dns::mutex.
FailedOpenInv == \A g \in Threads : pc[g] = "openFailing" => thread = g

\* CleanUpInv is inductive with the types and ObjectsInv.
LEMMA CleanUpInvariant == Spec => []CleanUpInv
<1>1. Init => CleanUpInv
  BY DEF Init, CleanUpInv, Idle
<1>2. TypeOK /\ ObjectsInv /\ CleanUpInv /\ [Next]_vars => CleanUpInv'
  <2> SUFFICES ASSUME TypeOK, ObjectsInv, CleanUpInv, [Next]_vars PROVE CleanUpInv'
    OBVIOUS
  <2> USE ConstantsAssumption DEF CleanUpInv
  <2>a. \A p \in Callers : call[p] \in CallRecords
    BY DEF TypeOK
  <2>1. ASSUME NEW p \in Callers, NEW r \in Resolvers, BeginResolve(p, r) \/ BeginCancel(p, r)
        PROVE  CleanUpInv'
    <3>1. /\ \A q \in Callers : call[q].op # "clean_up"
          /\ call'[p].op # "clean_up" /\ \A q \in Callers \ {p} : call'[q] = call[q]
      BY <2>1 DEF BeginResolve, BeginCancel, MayCall, Call, TypeOK
    <3> QED
      BY <3>1
  <2>2. ASSUME NEW p \in Clients, BeginCleanUp(p) PROVE CleanUpInv'
    <3>1. /\ \A q \in Callers \ {p} : call'[q] = call[q] /\ call[q] = Idle
          /\ UNCHANGED <<thread, resolversMap>>
          /\ thread # Null => resolversMap[thread] = {}
      BY <2>2 DEF BeginCleanUp, Call, TypeOK, requests, chain
    <3> QED
      BY <3>1 DEF Idle
  <2>3. ASSUME NEW p \in Callers, Caller(p) PROVE CleanUpInv'
    <3>1. \A q \in Callers \ {p} : call[q].op # "clean_up"
      <4>1. call[p] # Idle
        BY <2>3
           DEF Caller, ResolveLock, ResolveCheck, ResolveTooMany, ResolveInsert, CancelLock,
               CancelRemove, CancelWait, CleanUpLock, CleanUpJoin, Idle
      <4> QED
        BY <4>1
    <3>2. CASE call[p].op # "clean_up"
      <4>1. \A q \in Callers : call'[q].op # "clean_up"
        BY <2>3, <2>a, <3>1, <3>2
           DEF Caller, ResolveLock, ResolveCheck, ResolveTooMany, ResolveInsert, CancelLock,
               CancelRemove, CancelWait, CleanUpLock, CleanUpJoin, Goto, Return, Idle,
               CallRecords, TypeOK
      <4> QED
        BY <4>1
    <3>3. CASE call[p].op = "clean_up"
      <4>1. CleanUpLock(p) \/ CleanUpJoin(p)
        BY <2>3, <2>a, <3>3
           DEF Caller, ResolveLock, ResolveCheck, ResolveTooMany, ResolveInsert, CancelLock,
               CancelRemove, CancelWait, CallRecords, Idle
      <4>2. \A q \in Callers \ {p} : call'[q] = call[q] /\ call[q] = Idle
        BY <3>3, <4>1 DEF CleanUpLock, CleanUpJoin, Goto, Return, TypeOK
      <4>3. \A q \in Callers \ {p} : call'[q].op # "clean_up"
        BY <4>2 DEF Idle
      <4>4. thread' # Null => resolversMap'[thread'] = {}
        BY <3>3, <4>1 DEF CleanUpLock, CleanUpJoin, requests, chain
      <4> QED
        BY <3>3, <4>2, <4>3, <4>4
    <3> QED
      BY <3>2, <3>3
  <2>4. ASSUME NEW g \in Threads, Run(g) PROVE CleanUpInv'
    <3>1. UNCHANGED <<call, thread>> /\ \A h \in Threads : resolversMap'[h] \subseteq resolversMap[h]
      <4>1. CASE JoinPrevious(g)
        BY <4>1 DEF JoinPrevious, Destroy, TypeOK
      <4>2. CASE ~JoinPrevious(g)
        BY <2>4, <4>2, RunFrame
      <4> QED
        BY <4>1, <4>2
    <3>2. thread # Null => thread \in Threads
      BY DEF TypeOK
    <3> QED
      BY <3>1, <3>2
  <2>5. ASSUME NEW g \in Threads, CallbackReturns(g) PROVE CleanUpInv'
    BY <2>5 DEF CallbackReturns, requests, chain
  <2>6. ASSUME NEW g \in Threads, NEW r \in Resolvers, DeadlinePasses(g, r) PROVE CleanUpInv'
    BY <2>6 DEF DeadlinePasses, chain
  <2>7. CASE UNCHANGED vars
    BY <2>7 DEF vars, requests, chain
  <2> QED
    BY <2>1, <2>2, <2>3, <2>4, <2>5, <2>6, <2>7 DEF Next, Step
<1> QED
  BY <1>1, <1>2, TypeCorrect, ObjectsCorrect, PTL DEF Spec

\* FailedOpenInv is inductive with DnsMutexInv.
LEMMA FailedOpenInvariant == Spec => []FailedOpenInv
<1>1. Init => FailedOpenInv
  BY DEF Init, FailedOpenInv
<1>2. TypeOK /\ DnsMutexInv /\ ObjectsInv /\ FailedOpenInv /\ [Next]_vars => FailedOpenInv'
  <2> SUFFICES ASSUME TypeOK, DnsMutexInv, ObjectsInv, FailedOpenInv, [Next]_vars PROVE FailedOpenInv'
    OBVIOUS
  <2> USE ConstantsAssumption DEF FailedOpenInv
  <2>1. ASSUME NEW p \in Callers, Caller(p) PROVE FailedOpenInv'
    <3>1. CASE thread' = thread
      <4>1. \A g \in Threads : pc'[g] = "openFailing" => pc[g] = "openFailing"
        BY <2>1
           DEF Caller, ResolveLock, ResolveCheck, ResolveTooMany, ResolveInsert, CancelLock,
               CancelRemove, CancelWait, CleanUpLock, CleanUpJoin, Construct, Destroy, TypeOK
      <4> QED
        BY <3>1, <4>1
    <3>2. CASE thread' # thread
      <4>1. ResolveLock(p) \/ ResolveCheck(p) \/ CleanUpJoin(p)
        BY <2>1, <3>2
           DEF Caller, ResolveTooMany, ResolveInsert, CancelLock,
               CancelRemove, CancelWait, CleanUpLock, chain
      <4>2. dnsMutex = Null \/ (dnsMutex = p /\ Holds(p))
        BY <4>1 DEF ResolveLock, ResolveCheck, CleanUpJoin, DnsMutexInv, Holds
      <4>3. \A g \in Threads : pc[g] # "openFailing"
        BY <4>2 DEF DnsMutexInv
      <4>4. \A g \in Threads : pc'[g] # "openFailing"
        BY <4>1, <4>3
           DEF ResolveLock, ResolveCheck, CleanUpJoin, Construct, Destroy, TypeOK
      <4> QED
        BY <4>4
    <3> QED
      BY <3>1, <3>2
  <2>2. ASSUME NEW g \in Threads, JoinPrevious(g) PROVE FailedOpenInv'
    BY <2>2 DEF JoinPrevious, Destroy, TypeOK
  <2>3. ASSUME NEW g \in Threads, Run(g), ~JoinPrevious(g) PROVE FailedOpenInv'
    <3>1. UNCHANGED thread /\ \A h \in Threads \ {g} : pc'[h] = pc[h]
      BY <2>3, RunFrame
    <3>2. pc'[g] = "openFailing" => pc[g] = "openFailing" \/ OpenFails(g)
      BY <2>3, RunFrame
    <3>3. OpenFails(g) => thread = g
      BY DEF OpenFails, ObjectsInv, Serving
    <3> QED
      BY <3>1, <3>2, <3>3
  <2>4. ASSUME NEW p \in Callers, NEW r \in Resolvers, BeginResolve(p, r) \/ BeginCancel(p, r)
        PROVE  FailedOpenInv'
    BY <2>4 DEF BeginResolve, BeginCancel, Call, chain
  <2>5. ASSUME NEW p \in Clients, BeginCleanUp(p) PROVE FailedOpenInv'
    BY <2>5 DEF BeginCleanUp, Call, chain
  <2>6. ASSUME NEW g \in Threads, CallbackReturns(g) PROVE FailedOpenInv'
    BY <2>6 DEF CallbackReturns, chain
  <2>7. ASSUME NEW g \in Threads, NEW r \in Resolvers, DeadlinePasses(g, r) PROVE FailedOpenInv'
    BY <2>7 DEF DeadlinePasses, chain
  <2>8. CASE UNCHANGED vars
    BY <2>8 DEF vars, chain
  <2> QED
    BY <2>1, <2>2, <2>3, <2>4, <2>5, <2>6, <2>7, <2>8 DEF Next, Step
<1> QED
  BY <1>1, <1>2, TypeCorrect, DnsMutexCorrect, ObjectsCorrect, PTL DEF Spec

\* StoppedInv is inductive with MapsAgree: run() ends after all requests are removed.
LEMMA StoppedInvariant == Spec => []StoppedInv
<1>1. Init => StoppedInv
  BY DEF Init, StoppedInv
<1>2. TypeOK /\ DnsMutexInv /\ ObjectsInv /\ MapsAgree /\ StoppedInv /\ [Next]_vars => StoppedInv'
  <2> SUFFICES ASSUME TypeOK, DnsMutexInv, ObjectsInv, MapsAgree, StoppedInv, [Next]_vars
               PROVE  StoppedInv'
    OBVIOUS
  <2> USE ConstantsAssumption
  <2>a. thread # Null => thread \in Threads
    BY DEF TypeOK
  <2>b. \A p \in Callers : call[p] \in CallRecords
    BY DEF TypeOK
  <2>c. ASSUME NEW p \in Callers, NEW at, Goto(p, at)
        PROVE  \A q \in Callers : call'[q] = call[q] \/ call'[q].at = at
    BY <2>b, <2>c DEF Goto, CallRecords, Idle, TypeOK
  <2>d. ASSUME NEW p \in Callers, Return(p)
        PROVE  \A q \in Callers : call'[q] = call[q] \/ call'[q].at = "idle"
    BY <2>d DEF Return, Idle, TypeOK
  <2>1. \* A step that changes neither the thread nor what its map may hold.
        ASSUME UNCHANGED <<thread, pc, isExiting>>,
               \A g \in Threads : resolversMap'[g] \subseteq resolversMap[g],
               \A p \in Callers : call'[p].at = "insert" => call[p].at = "insert"
        PROVE  StoppedInv'
    <3>1. CASE thread # Null /\ pc[thread] = "done" /\ isExiting[thread]
      <4>1. CASE resolversMap[thread] = {}
        BY <2>1, <2>a, <3>1, <4>1 DEF StoppedInv
      <4>2. CASE resolversMap[thread] # {}
        <5>1. PICK r \in Resolvers : resolversMap[thread] = {r}
          BY <3>1, <4>2 DEF StoppedInv
        <5>2. resolversMap'[thread] = {} \/ resolversMap'[thread] = {r}
          BY <2>1, <2>a, <3>1, <5>1
        <5>3. \A p \in Callers : call'[p].at # "insert"
          BY <2>1, <3>1, <4>2 DEF StoppedInv
        <5> QED
          BY <2>1, <5>2, <5>3 DEF StoppedInv
      <4> QED
        BY <4>1, <4>2
    <3>2. CASE ~(thread # Null /\ pc[thread] = "done" /\ isExiting[thread])
      BY <2>1, <3>2 DEF StoppedInv
    <3> QED
      BY <3>1, <3>2
  <2>2. ASSUME NEW p \in Callers, NEW r \in Resolvers, BeginResolve(p, r) \/ BeginCancel(p, r)
        PROVE  StoppedInv'
    <3>1. /\ UNCHANGED <<thread, pc, isExiting, resolversMap>>
          /\ \A q \in Callers : call'[q].at = "insert" => call[q].at = "insert"
      BY <2>2 DEF BeginResolve, BeginCancel, Call, TypeOK, requests, signals, chain
    <3> QED
      BY <2>1, <3>1
  <2>3. ASSUME NEW p \in Clients, BeginCleanUp(p) PROVE StoppedInv'
    <3>1. /\ UNCHANGED <<thread, pc, isExiting, resolversMap>>
          /\ \A q \in Callers : call'[q].at = "insert" => call[q].at = "insert"
      BY <2>3 DEF BeginCleanUp, Call, TypeOK, requests, signals, chain
    <3> QED
      BY <2>1, <3>1
  <2>4. ASSUME NEW p \in Callers, ResolveLock(p) PROVE StoppedInv'
    <3>1. CASE thread = Null
      <4>1. PICK g \in Threads : Construct(g, Null)
        BY <2>4, <3>1 DEF ResolveLock
      <4>2. thread' = g /\ pc'[thread'] = "new"
        BY <4>1 DEF Construct, TypeOK
      <4> QED
        BY <4>2 DEF StoppedInv
    <3>2. CASE thread # Null
      <4>1. /\ UNCHANGED <<thread, pc, isExiting, resolversMap>>
            /\ \A q \in Callers : call'[q].at = "insert" => call[q].at = "insert"
        <5>1. Goto(p, "check") /\ UNCHANGED <<isExiting, pc, thread, resolversMap>>
          BY <2>4, <3>2 DEF ResolveLock, requests, chain
        <5> QED
          BY <2>c, <5>1
      <4> QED
        BY <2>1, <4>1
    <3> QED
      BY <3>1, <3>2
  <2>5. ASSUME NEW p \in Callers, ResolveCheck(p) PROVE StoppedInv'
    <3>1. CASE \E g \in Threads : Construct(g, thread)
      <4>1. PICK g \in Threads : Construct(g, thread)
        BY <3>1
      <4>2. thread' = g /\ pc'[thread'] = "new"
        BY <4>1 DEF Construct, TypeOK
      <4> QED
        BY <4>2 DEF StoppedInv
    <3>2. CASE ~isExiting[thread] /\ UNCHANGED <<isExiting, pc, chain>>
      BY <3>2 DEF StoppedInv, chain
    <3>3. CASE Return(p) /\ UNCHANGED <<isExiting, pc, chain>>
      <4>1. /\ UNCHANGED <<thread, pc, isExiting, resolversMap>>
            /\ \A q \in Callers : call'[q].at = "insert" => call[q].at = "insert"
        <5>1. resolversMap' = resolversMap
          BY <2>5 DEF ResolveCheck, requests
        <5> QED
          BY <2>d, <3>3, <5>1 DEF chain
      <4> QED
        BY <2>1, <4>1
    <3> QED
      BY <2>5, <3>1, <3>2, <3>3 DEF ResolveCheck
  <2>6. ASSUME NEW p \in Callers, ResolveInsert(p) PROVE StoppedInv'
    <3>1. call[p].at = "insert" /\ call[p].r \in Resolvers /\ thread \in Threads
      BY <2>6, <2>a, <2>b DEF ResolveInsert, DnsMutexInv, Holds, CallRecords, Idle
    <3>2. \A q \in Callers : call'[q].at # "insert"
      <4>1. \A q \in Callers \ {p} : call[q].at # "insert"
        BY <3>1 DEF DnsMutexInv, Holds
      <4> QED
        BY <2>6, <4>1 DEF ResolveInsert, Return, Idle, TypeOK
    <3>3. /\ thread' = thread
          /\ resolversMap'[thread] = resolversMap[thread] \cup {call[p].r}
          /\ pc'[thread] = "done" => pc[thread] = "done" /\ isExiting'[thread] = isExiting[thread]
      BY <2>6, <3>1 DEF ResolveInsert, TypeOK, chain
    <3>4. thread' # Null /\ pc'[thread'] = "done" /\ isExiting'[thread'] => resolversMap[thread] = {}
      BY <3>1, <3>3 DEF StoppedInv
    <3> QED
      BY <3>1, <3>2, <3>3, <3>4 DEF StoppedInv
  <2>7. ASSUME NEW p \in Callers,
               ResolveTooMany(p) \/ CancelLock(p) \/ CancelRemove(p) \/ CancelWait(p) \/ CleanUpLock(p)
        PROVE  StoppedInv'
    <3>1. UNCHANGED <<thread, pc, isExiting>>
      BY <2>7 DEF ResolveTooMany, CancelLock, CancelRemove, CancelWait, CleanUpLock, signals, chain
    <3>2. \A g \in Threads : resolversMap'[g] \subseteq resolversMap[g]
      <4>1. RemoveResolver(thread, call[p].r) \/ UNCHANGED resolversMap
        BY <2>7
           DEF ResolveTooMany, CancelLock, CancelRemove, CancelWait, CleanUpLock, requests
      <4> QED
        BY <4>1 DEF RemoveResolver, TypeOK
    <3>3. \A q \in Callers : call'[q].at = "insert" => call[q].at = "insert"
      <4>1. Return(p) \/ \E at \in {"remove", "waitC", "join"} : Goto(p, at)
        BY <2>7 DEF ResolveTooMany, CancelLock, CancelRemove, CancelWait, CleanUpLock
      <4> QED
        BY <2>c, <2>d, <4>1
    <3> QED
      BY <2>1, <3>1, <3>2, <3>3
  <2>8. ASSUME NEW p \in Callers, CleanUpJoin(p) PROVE StoppedInv'
    BY <2>8 DEF CleanUpJoin, StoppedInv
  <2>9. ASSUME NEW g \in Threads, JoinPrevious(g) PROVE StoppedInv'
    <3>1. thread = g /\ pc[g] = "start"
      BY <2>9 DEF JoinPrevious, ObjectsInv, Serving
    <3>2. thread' = g /\ pc'[g] # "done"
      BY <2>9, <3>1 DEF JoinPrevious, Destroy, TypeOK
    <3> QED
      BY <3>2 DEF StoppedInv
  <2>10. ASSUME NEW g \in Threads, Run(g), ~JoinPrevious(g) PROVE StoppedInv'
    <3>1. /\ UNCHANGED <<call, thread>>
          /\ pc[g] # "done"
          /\ \A h \in Threads \ {g} : /\ pc'[h] = pc[h]
                                      /\ isExiting'[h] = isExiting[h]
                                      /\ resolversMap'[h] = resolversMap[h]
      BY <2>10, RunFrame DEF Working, Serving
    <3>2. CASE thread = g
      <4>1. pc'[g] = "done" /\ isExiting'[g] => resolversMap'[g] = {}
        BY <2>10, RunCompletes DEF CompletesOne, CompletesNone
      <4> QED
        BY <3>1, <3>2, <4>1 DEF StoppedInv
    <3>3. CASE thread # g
      <4>1. thread # Null => thread \in Threads \ {g}
        BY <2>a, <3>3
      <4> QED
        BY <3>1, <4>1 DEF StoppedInv
    <3> QED
      BY <3>2, <3>3
  <2>11. ASSUME NEW g \in Threads, CallbackReturns(g) PROVE StoppedInv'
    BY <2>1, <2>11 DEF CallbackReturns, requests, signals, chain
  <2>12. ASSUME NEW g \in Threads, NEW r \in Resolvers, DeadlinePasses(g, r) PROVE StoppedInv'
    BY <2>1, <2>12 DEF DeadlinePasses, signals, chain
  <2>13. CASE UNCHANGED vars
    BY <2>1, <2>13 DEF vars, requests, signals, chain
  <2> QED
    BY <2>2, <2>3, <2>4, <2>5, <2>6, <2>7, <2>8, <2>9, <2>10, <2>11, <2>12, <2>13
       DEF Next, Step, Caller
<1> QED
  BY <1>1, <1>2, TypeCorrect, DnsMutexCorrect, ObjectsCorrect, MapsAgreeCorrect, PTL DEF Spec

\* The variables of ServedRequests, as Seen has them.
Stopped == thread = Null \/ pc[thread] = "done"
Served == IF thread = Null THEN {} ELSE resolversMap[thread]
Leaving == UNION {resolversMap[g] : g \in {h \in Threads \ {thread} : pc[h] = "failing"}}
Calling == {completing[g] : g \in Threads} \ {Null}
Unseen == UNCHANGED <<Stopped, Served, Leaving, Calling>>

\* Beside dns::thread there is at most one object, which failed or has stopped, and only
\* until its successor has joined it; and a thread that works is alone in making callbacks.
LEMMA Others ==
    ASSUME TypeOK, ObjectsInv, OneWorker, CallbackInv, FailedOpenInv
    PROVE  /\ \A h \in Threads \ {thread} : pc[h] \in {"absent", "failing", "done"}
           /\ thread # Null /\ pc[thread] \notin {"new", "start"} =>
                 \A h \in Threads \ {thread} : pc[h] = "absent"
           /\ \A g, h \in Threads : pc[g] = "failing" /\ pc[h] = "failing" => g = h
           /\ \A g, h \in Threads : pc[g] \in Working /\ g # h => completing[h] = Null
           /\ thread = Null => \A h \in Threads : pc[h] = "absent"
           /\ \A h \in Threads : pc[h] \in {"absent", "done"} => completing[h] = Null
<1>1. \A h \in Threads \ {thread} : pc[h] \in {"absent", "failing", "done"}
  BY DEF ObjectsInv, FailedOpenInv, TypeOK, Points, LockedPoints, Serving
<1>2. thread # Null /\ pc[thread] \notin {"new", "start"} =>
         \A h \in Threads \ {thread} : pc[h] = "absent"
  BY ConstantsAssumption DEF ObjectsInv, TwoObjects, TypeOK
<1>3. \A g, h \in Threads : pc[g] = "failing" /\ pc[h] = "failing" => g = h
  BY DEF OneWorker, Working
<1>4. \A g, h \in Threads : pc[g] \in Working /\ g # h => completing[h] = Null
  BY DEF OneWorker, CallbackInv, Working, Serving
<1>5. thread = Null => \A h \in Threads : pc[h] = "absent"
  BY ConstantsAssumption DEF ObjectsInv, TwoObjects
<1>6. \A h \in Threads : pc[h] \in {"absent", "done"} => completing[h] = Null
  BY DEF CallbackInv
<1> QED
  BY <1>1, <1>2, <1>3, <1>4, <1>5, <1>6

\* A new dns::thread starts the service again, or supersedes a thread that failed.
LEMMA ReplacementSeen ==
    ASSUME TypeOK, ObjectsInv, OneWorker, CallbackInv, FailedOpenInv, StoppedInv, DnsMutexInv,
           NEW p \in Callers, NEW g \in Threads, Construct(g, thread),
           UNCHANGED <<resolversMap, completing>>,
           thread = Null \/ (thread # Null /\ isExiting[thread] /\ call[p].at = "check")
    PROVE  Seen!Start \/ Seen!Supersede
<1> USE ConstantsAssumption
<1>1. /\ pc[g] = "absent" /\ pc' = [pc EXCEPT ![g] = "new"] /\ thread' = g
      /\ resolversMap[g] = {} /\ g # Null
  BY DEF Construct, ObjectsInv
<1>2. ~Stopped' /\ Served' = {}
  BY <1>1 DEF Stopped, Served, TypeOK
<1>3. Calling' = Calling
  BY DEF Calling
<1>4. CASE thread = Null
  <2>1. \A h \in Threads : pc[h] = "absent" /\ pc'[h] # "failing"
    BY <1>1, <1>4, Others DEF TypeOK
  <2>2. Leaving = {} /\ Leaving' = {} /\ Stopped /\ Served = {}
    BY <1>4, <2>1 DEF Leaving, Stopped, Served
  <2> QED
    BY <1>2, <1>3, <2>2 DEF Seen!Start, Stopped, Served, Leaving, Calling
<1>5. CASE thread # Null
  <2>1. thread \in Threads /\ isExiting[thread] /\ Holds(p) /\ dnsMutex = p
    BY <1>5 DEF TypeOK, DnsMutexInv, Holds
  <2>2. pc[thread] \notin {"absent", "openFailing"} /\ pc[thread] \notin Serving
    BY <2>1 DEF ObjectsInv, DnsMutexInv
  <2>3. pc[thread] # "new"
    BY <1>5, <2>1 DEF ObjectsInv, DnsMutexInv, Holds
  <2>4. pc[thread] \in {"failing", "done"}
    BY <2>1, <2>2, <2>3 DEF TypeOK, Points, LockedPoints, Serving
  <2>5. \A h \in Threads \ {thread} : pc[h] = "absent"
    BY <2>4, <1>5, Others
  <2>6. Leaving = {} /\ Served = resolversMap[thread]
    BY <1>5, <2>5 DEF Leaving, Served
  <2>7. \A h \in Threads \ {g, thread} : pc'[h] = "absent"
    BY <1>1, <2>5
  <2>8. pc'[thread] = pc[thread] /\ thread # g /\ pc'[g] = "new"
    BY <1>1, <2>1, <2>2 DEF TypeOK
  <2>9. CASE pc[thread] = "failing"
    <3>1. {h \in Threads \ {g} : pc'[h] = "failing"} = {thread}
      BY <2>1, <2>7, <2>8, <2>9
    <3>2. Leaving' = resolversMap[thread]
      BY <1>1, <3>1 DEF Leaving
    <3>3. ~Stopped
      BY <1>5, <2>9 DEF Stopped
    <3> QED
      BY <1>2, <1>3, <2>6, <3>2, <3>3 DEF Seen!Supersede, Stopped, Served, Leaving, Calling
  <2>10. CASE pc[thread] = "done"
    <3>1. Leaving' = {}
      BY <1>1, <2>7, <2>8, <2>10 DEF Leaving
    <3>2. Stopped
      BY <2>10 DEF Stopped
    <3>3. Served = {} \/ \E r \in Resolvers : Served = {r}
      BY <1>5, <2>1, <2>6, <2>10 DEF StoppedInv
    <3> QED
      BY <1>2, <1>3, <2>6, <3>1, <3>2, <3>3 DEF Seen!Start, Stopped, Served, Leaving, Calling
  <2> QED
    BY <2>4, <2>9, <2>10
<1> QED
  BY <1>4, <1>5

\* A step of run() calls back, stops the service, or is not seen.
LEMMA RunSeen ==
    ASSUME TypeOK, ObjectsInv, OneWorker, CallbackInv, FailedOpenInv, MapsAgree,
           NEW g \in Threads, Run(g), ~JoinPrevious(g)
    PROVE  Unseen \/ Seen!Stop \/ \E r \in Resolvers : Seen!CallBack(r)
<1> USE ConstantsAssumption
<1>1. /\ thread' = thread
      /\ pc[g] \in Working \cup {"start"}
      /\ pc[g] = "start" => prevThread[g] = Null
      /\ pc'[g] \in Working \cup {"done"}
      /\ \A h \in Threads \ {g} : /\ pc'[h] = pc[h]
                                  /\ resolversMap'[h] = resolversMap[h]
  BY RunFrame
<1>2. pc[g] \notin {"absent", "new", "done"} /\ (thread # Null => thread \in Threads)
  BY <1>1 DEF Working, Serving, TypeOK
<1>3. thread # Null
  BY <1>2, Others
<1>4. thread # g => pc[g] = "failing"
  BY <1>2, Others
<1>5. thread = g => Leaving = {} /\ \A h \in Threads \ {g} : pc[h] = "absent"
  <2>1. CASE thread = g /\ pc[g] = "start"
    <3>1. \A h \in Threads \ {g} : pc[h] = "absent"
      BY <1>1, <2>1 DEF ObjectsInv, TwoObjects
    <3> QED
      BY <2>1, <3>1 DEF Leaving
  <2>2. CASE thread = g /\ pc[g] # "start"
    <3>1. \A h \in Threads \ {g} : pc[h] = "absent"
      BY <1>2, <1>3, <2>2, Others
    <3> QED
      BY <2>2, <3>1 DEF Leaving
  <2> QED
    BY <2>1, <2>2
<1>6. thread # g => Leaving = resolversMap[g]
  <2> SUFFICES ASSUME thread # g PROVE Leaving = resolversMap[g]
    OBVIOUS
  <2>1. {h \in Threads \ {thread} : pc[h] = "failing"} = {g}
    BY <1>4, Others
  <2> QED
    BY <2>1 DEF Leaving
<1>7. \A h \in Threads \ {g} : completing[h] = Null
  <2>1. CASE pc[g] \in Working
    BY <2>1, Others
  <2>2. CASE pc[g] = "start"
    <3>1. thread = g
      BY <1>4, <2>2
    <3> QED
      BY <1>5, <3>1, Others
  <2> QED
    BY <1>1, <2>1, <2>2
<1>8. completing[g] = Null => Calling = {}
  BY <1>7 DEF Calling
<1>9. ~Stopped
  <2>1. thread = g => pc[thread] # "done"
    BY <1>2
  <2>2. thread # g => pc[thread] # "done"
    BY <1>2, <1>3, Others
  <2> QED
    BY <1>3, <2>1, <2>2 DEF Stopped
<1>10. CASE CompletesOne(g)
  <2>1. PICK r \in resolversMap[g] : /\ resolversMap' = [resolversMap EXCEPT ![g] = @ \ {r}]
                                     /\ completing' = [completing EXCEPT ![g] = r]
    BY <1>10 DEF CompletesOne
  <2>2. r \in Resolvers /\ r # Null
    BY <2>1 DEF TypeOK
  <2>3. completing'[g] = r /\ \A h \in Threads \ {g} : completing'[h] = Null
    BY <1>7, <2>1 DEF TypeOK
  <2>4. Calling = {} /\ Calling' = {r}
    <3>1. Calling = {}
      BY <1>8, <1>10 DEF CompletesOne
    <3>2. Calling' = {r}
      BY <2>2, <2>3 DEF Calling
    <3> QED
      BY <3>1, <3>2
  <2>5. ~Stopped'
    <3>1. pc'[thread] # "done"
      BY <1>1, <1>2, <1>3, <1>9, <1>10 DEF CompletesOne, Stopped
    <3> QED
      BY <1>1, <1>3, <3>1 DEF Stopped
  <2>6. resolversMap'[g] = resolversMap[g] \ {r}
    BY <2>1 DEF TypeOK
  <2>7. CASE thread = g
    <3>1. Leaving' = {}
      BY <1>1, <1>5, <2>7 DEF Leaving
    <3>2. Served' = Served \ {r} /\ r \in Served
      BY <1>1, <1>3, <2>1, <2>6, <2>7 DEF Served
    <3>3. Leaving = {}
      BY <1>5, <2>7
    <3>4. Seen!CallBack(r)
      BY <1>9, <2>4, <2>5, <3>1, <3>2, <3>3 DEF Seen!CallBack, Stopped, Served, Leaving, Calling
    <3> QED
      BY <2>2, <3>4
  <2>8. CASE thread # g
    <3>1. pc'[g] = "failing" /\ \A h \in Threads \ {g, thread} : pc'[h] # "failing"
      BY <1>1, <1>4, <1>10, <2>8, Others DEF CompletesOne
    <3>2. {h \in Threads \ {thread} : pc'[h] = "failing"} = {g}
      BY <2>8, <3>1
    <3>3. Leaving' = resolversMap[g] \ {r}
      BY <1>1, <2>6, <3>2 DEF Leaving
    <3>4. Leaving' = Leaving \ {r} /\ r \in Leaving
      BY <1>6, <2>1, <2>8, <3>3
    <3>5. Served' = Served
      BY <1>1, <1>2, <1>3, <2>8 DEF Served
    <3>6. Seen!CallBack(r)
      BY <1>9, <2>4, <2>5, <3>4, <3>5 DEF Seen!CallBack, Stopped, Served, Leaving, Calling
    <3> QED
      BY <2>2, <3>6
  <2> QED
    BY <2>7, <2>8
<1>11. CASE CompletesNone(g)
  <2>1. UNCHANGED <<resolversMap, completing, thread>>
    BY <1>1, <1>11 DEF CompletesNone
  <2>2. UNCHANGED <<Served, Calling>>
    BY <2>1 DEF Served, Calling
  <2>3. UNCHANGED Leaving
    <3>1. CASE thread = g
      <4>1. \A h \in Threads \ {thread} : pc'[h] = pc[h]
        BY <1>1, <3>1
      <4> QED
        BY <2>1, <4>1 DEF Leaving
    <3>2. CASE thread # g /\ pc'[g] = "failing"
      <4>1. \A h \in Threads : pc'[h] = pc[h]
        BY <1>1, <1>4, <3>2
      <4> QED
        BY <2>1, <4>1 DEF Leaving
    <3>3. CASE thread # g /\ pc'[g] # "failing"
      <4>1. Leaving = {}
        BY <1>4, <1>6, <1>11, <3>3 DEF CompletesNone
      <4>2. \A h \in Threads \ {thread} : pc'[h] # "failing"
        BY <1>1, <1>4, <3>3, Others
      <4> QED
        BY <2>1, <4>1, <4>2 DEF Leaving
    <3> QED
      BY <3>1, <3>2, <3>3
  <2>4. CASE Stopped'
    <3>1. thread = g /\ pc'[g] = "done"
      BY <1>1, <1>2, <1>3, <1>9, <2>4 DEF Stopped
    <3>2. completing[g] = Null
      BY <1>11, <3>1 DEF CompletesNone, CallbackInv
    <3> QED
      BY <1>5, <1>8, <1>9, <2>2, <2>3, <2>4, <3>1, <3>2
         DEF Seen!Stop, Stopped, Served, Leaving, Calling
  <2>5. CASE ~Stopped'
    <3>1. Stopped' = Stopped
      BY <1>9, <2>5 DEF Stopped
    <3> QED
      BY <2>2, <2>3, <3>1 DEF Unseen
  <2> QED
    BY <2>4, <2>5
<1> QED
  BY <1>10, <1>11, RunCompletes

\* A step of a call accepts or withdraws a request, brings a thread, or is not seen.
LEMMA CallerSeen ==
    ASSUME TypeOK, ObjectsInv, OneWorker, CallbackInv, FailedOpenInv, StoppedInv, CleanUpInv,
           DnsMutexInv, NEW p \in Callers, Caller(p)
    PROVE  \/ Unseen \/ Seen!Start \/ Seen!Supersede
           \/ \E r \in Resolvers : Seen!Accept(r) \/ Seen!Withdraw(r)
<1> USE ConstantsAssumption
<1>0. ASSUME UNCHANGED <<thread, pc, resolversMap, completing>> PROVE Unseen
  BY <1>0 DEF Unseen, Stopped, Served, Leaving, Calling
<1>1. CASE ResolveLock(p)
  <2>1. CASE thread = Null
    <3>1. PICK g \in Threads : Construct(g, Null)
      BY <1>1, <2>1 DEF ResolveLock
    <3>2. UNCHANGED <<resolversMap, completing>>
      BY <1>1 DEF ResolveLock, requests
    <3> QED
      BY <2>1, <3>1, <3>2, ReplacementSeen
  <2>2. CASE thread # Null
    BY <1>0, <1>1, <2>2 DEF ResolveLock, requests, chain
  <2> QED
    BY <2>1, <2>2
<1>2. CASE ResolveCheck(p)
  <2>1. UNCHANGED <<resolversMap, completing>> /\ call[p].at = "check"
    BY <1>2 DEF ResolveCheck, requests
  <2>2. CASE isExiting[thread] /\ \E g \in Threads : Construct(g, thread)
    <3>1. thread # Null
      BY <2>1 DEF DnsMutexInv, Holds
    <3> QED
      BY <2>1, <2>2, <3>1, ReplacementSeen
  <2>3. CASE UNCHANGED <<isExiting, pc, chain>>
    BY <1>0, <2>1, <2>3 DEF chain
  <2> QED
    BY <1>2, <2>2, <2>3 DEF ResolveCheck
<1>3. CASE ResolveInsert(p)
  <2> DEFINE r == call[p].r
  <2>1. thread \in Threads /\ r \in Resolvers /\ thread # Null
    BY <1>3 DEF ResolveInsert, DnsMutexInv, Holds, TypeOK, CallRecords, Idle
  <2>2. /\ UNCHANGED <<thread, completing>>
        /\ resolversMap' = [resolversMap EXCEPT ![thread] = @ \cup {r}]
        /\ pc' = pc \/ (pc[thread] = "new" /\ pc' = [pc EXCEPT ![thread] = "start"])
    BY <1>3 DEF ResolveInsert, io, chain
  <2>3. Served' = Served \cup {r}
    BY <2>1, <2>2 DEF Served, TypeOK
  <2>4. \A h \in Threads \ {thread} : pc'[h] = pc[h] /\ resolversMap'[h] = resolversMap[h]
    BY <2>2 DEF TypeOK
  <2>5. UNCHANGED <<Leaving, Calling>>
    BY <2>2, <2>4 DEF Leaving, Calling
  <2>6. UNCHANGED Stopped
    BY <2>1, <2>2 DEF Stopped, TypeOK
  <2>7. CASE r \in Served
    BY <2>3, <2>5, <2>6, <2>7 DEF Unseen
  <2>8. CASE r \notin Served
    <3>1. Seen!Accept(r)
      BY <2>3, <2>5, <2>6, <2>8 DEF Seen!Accept, Stopped, Served, Leaving, Calling
    <3> QED
      BY <2>1, <3>1
  <2> QED
    BY <2>7, <2>8
<1>4. CASE CancelRemove(p)
  <2> DEFINE r == call[p].r
  <2>1. thread \in Threads /\ r \in Resolvers /\ thread # Null
    BY <1>4 DEF CancelRemove, DnsMutexInv, Holds, TypeOK, CallRecords, Idle
  <2>2. /\ UNCHANGED <<thread, completing, pc>>
        /\ resolversMap' = [resolversMap EXCEPT ![thread] = @ \ {r}]
    BY <1>4 DEF CancelRemove, RemoveResolver, io, chain
  <2>3. Served' = Served \ {r}
    BY <2>1, <2>2 DEF Served, TypeOK
  <2>4. \A h \in Threads \ {thread} : resolversMap'[h] = resolversMap[h]
    BY <2>2 DEF TypeOK
  <2>5. UNCHANGED <<Stopped, Leaving, Calling>>
    BY <2>2, <2>4 DEF Stopped, Leaving, Calling
  <2>6. CASE r \notin Served
    BY <2>3, <2>5, <2>6 DEF Unseen
  <2>7. CASE r \in Served
    <3>1. Seen!Withdraw(r)
      BY <2>3, <2>5, <2>7 DEF Seen!Withdraw, Stopped, Served, Leaving, Calling
    <3> QED
      BY <2>1, <3>1
  <2> QED
    BY <2>6, <2>7
<1>5. CASE ResolveTooMany(p) \/ CancelLock(p) \/ CancelWait(p) \/ CleanUpLock(p)
  <2>1. UNCHANGED <<thread, pc, resolversMap, completing>>
    BY <1>5 DEF ResolveTooMany, CancelLock, CancelWait, CleanUpLock, requests, chain
  <2> QED
    BY <1>0, <2>1
<1>6. CASE CleanUpJoin(p)
  <2>1. thread \in Threads /\ thread # Null /\ pc[thread] = "done" /\ thread' = Null
    BY <1>6 DEF CleanUpJoin, Destroy, DnsMutexInv, Holds, TypeOK
  <2>2. call[p].op = "clean_up"
    BY <1>6 DEF CleanUpJoin, TypeOK, CallRecords, Idle
  <2>3. Served = {} /\ Served' = {} /\ Stopped /\ Stopped'
    BY <2>1, <2>2 DEF CleanUpInv, Served, Stopped
  <2>4. \A h \in Threads : pc[h] # "failing" /\ pc'[h] # "failing"
    <3>1. \A h \in Threads : pc[h] # "failing"
      BY <2>1, Others
    <3> QED
      BY <1>6, <3>1 DEF CleanUpJoin, Destroy, TypeOK
  <2>5. Leaving = {} /\ Leaving' = {}
    BY <2>4 DEF Leaving
  <2>6. Calling' = Calling
    BY <1>6 DEF CleanUpJoin, Calling
  <2> QED
    BY <2>3, <2>5, <2>6 DEF Unseen, Stopped
<1> QED
  BY <1>1, <1>2, <1>3, <1>4, <1>5, <1>6 DEF Caller

\* The join of a predecessor is not seen: it had stopped.
LEMMA JoinUnseen ==
    ASSUME TypeOK, ObjectsInv, NEW g \in Threads, JoinPrevious(g)
    PROVE  Unseen
<1> DEFINE h == prevThread[g]
<1>1. thread = g /\ pc[g] = "start" /\ h \in Threads /\ pc[h] = "done" /\ g # h /\ thread # Null
  BY ConstantsAssumption DEF JoinPrevious, Destroy, ObjectsInv, Serving, TypeOK
<1>2. /\ UNCHANGED <<thread, completing>>
      /\ pc' = [pc EXCEPT ![h] = "absent"]
      /\ resolversMap' = [resolversMap EXCEPT ![h] = {}]
  BY DEF JoinPrevious, Destroy
<1>3. UNCHANGED <<Served, Stopped, Calling>>
  BY <1>1, <1>2 DEF Served, Stopped, Calling, TypeOK
<1>4. \A k \in Threads : pc[k] = "failing" \/ pc'[k] = "failing" =>
         pc'[k] = pc[k] /\ resolversMap'[k] = resolversMap[k]
  BY <1>1, <1>2 DEF TypeOK
<1>5. UNCHANGED Leaving
  BY <1>2, <1>4 DEF Leaving
<1> QED
  BY <1>3, <1>5 DEF Unseen

\* The return of on_completed() is the end of the callback.
LEMMA ReturnSeen ==
    ASSUME TypeOK, ObjectsInv, OneWorker, CallbackInv, FailedOpenInv,
           NEW g \in Threads, CallbackReturns(g)
    PROVE  Seen!CallEnds
<1>1. /\ completing[g] # Null /\ completing' = [completing EXCEPT ![g] = Null]
      /\ UNCHANGED <<thread, pc, resolversMap>>
  BY DEF CallbackReturns, requests, chain
<1>2. pc[g] \in Working
  BY <1>1 DEF CallbackInv, Working, Serving
<1>3. \A h \in Threads \ {g} : completing[h] = Null
  BY <1>2, Others
<1>4. Calling # {} /\ Calling' = {}
  <2>1. completing[g] \in Calling
    BY <1>1 DEF Calling
  <2>2. \A h \in Threads : completing'[h] = Null
    BY <1>1, <1>3 DEF TypeOK
  <2> QED
    BY <2>1, <2>2 DEF Calling
<1>5. UNCHANGED <<Stopped, Served, Leaving>>
  BY <1>1 DEF Stopped, Served, Leaving
<1> QED
  BY <1>4, <1>5 DEF Seen!CallEnds, Stopped, Served, Leaving, Calling

\* What is known of a state when its steps are mapped.
SeenInv ==
    /\ TypeOK /\ DnsMutexInv /\ ObjectsInv /\ OneWorker /\ MapsAgree
    /\ CallbackInv /\ CleanUpInv /\ StoppedInv /\ FailedOpenInv

\* Every step of callers and threads is one of ServedRequests, or is not seen.
LEMMA StepSeen == SeenInv /\ [Next]_vars => [Seen!ServiceNext]_(Seen!serviceVars)
<1> SUFFICES ASSUME SeenInv, [Next]_vars PROVE Seen!ServiceNext \/ Unseen
  BY DEF Seen!serviceVars, Unseen, Stopped, Served, Leaving, Calling
<1> USE DEF SeenInv, Seen!ServiceNext
<1>0. ASSUME UNCHANGED <<thread, pc, resolversMap, completing>> PROVE Unseen
  BY <1>0 DEF Unseen, Stopped, Served, Leaving, Calling
<1>1. ASSUME NEW p \in Callers, NEW r \in Resolvers, BeginResolve(p, r) \/ BeginCancel(p, r)
      PROVE  Unseen
  BY <1>0, <1>1 DEF BeginResolve, BeginCancel, Call, requests, locks, chain
<1>2. ASSUME NEW p \in Clients, BeginCleanUp(p) PROVE Unseen
  BY <1>0, <1>2 DEF BeginCleanUp, Call, requests, locks, chain
<1>3. ASSUME NEW p \in Callers, Caller(p) PROVE Seen!ServiceNext \/ Unseen
  BY <1>3, CallerSeen
<1>4. ASSUME NEW g \in Threads, Run(g) PROVE Seen!ServiceNext \/ Unseen
  BY <1>4, RunSeen, JoinUnseen
<1>5. ASSUME NEW g \in Threads, CallbackReturns(g) PROVE Seen!ServiceNext
  BY <1>5, ReturnSeen
<1>6. ASSUME NEW g \in Threads, NEW r \in Resolvers, DeadlinePasses(g, r) PROVE Unseen
  BY <1>0, <1>6 DEF DeadlinePasses, locks, chain
<1>7. CASE UNCHANGED vars
  BY <1>0, <1>7 DEF vars, requests, locks, chain
<1> QED
  BY <1>1, <1>2, <1>3, <1>4, <1>5, <1>6, <1>7 DEF Next, Step

\* No thread, no request.
LEMMA InitSeen == Init => Seen!ServiceInit
<1> SUFFICES ASSUME Init
             PROVE  Stopped = TRUE /\ Served = {} /\ Leaving = {} /\ Calling = {}
  BY DEF Seen!ServiceInit, Stopped, Served, Leaving, Calling
<1> QED
  BY DEF Init, Stopped, Served, Leaving, Calling

\* Whatever threads stop, fail or are replaced, a request is accepted once and ends once,
\* callbacks come from one thread at a time, those of a failed one first, and no more than
\* one request is lost with a thread (dns_resolver.cpp, resolve(), cancel() and run()).
THEOREM ServesRequestsCorrect == Spec => ServesRequests
<1>1. Spec => []SeenInv
  BY TypeCorrect, DnsMutexCorrect, ObjectsCorrect, OneWorkerCorrect, MapsAgreeCorrect,
     CallbackInvariant, CleanUpInvariant, StoppedInvariant, FailedOpenInvariant, PTL DEF SeenInv
<1>2. Spec => Seen!ServiceInit
  BY InitSeen, PTL DEF Spec
<1>3. Spec => [][Seen!ServiceNext]_(Seen!serviceVars)
  BY <1>1, StepSeen, PTL DEF Spec
<1> QED
  BY <1>2, <1>3, PTL DEF ServesRequests, Seen!ServiceSpec
=============================================================================
