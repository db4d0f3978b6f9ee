------------------------------ MODULE DnsLookup ------------------------------
(***************************************************************************)
(* The concurrency of src/src/setka/dns_resolver.cpp: callers of           *)
(* dns_resolver::resolve(), cancel() and clean_up(), the lookup thread     *)
(* that serves them, the chain of dying thread objects, and the three      *)
(* mutexes (dns::mutex, LookupThread::mutex, LookupThread::completedMutex) *)
(* that are all that orders them.                                          *)
(*                                                                         *)
(* A caller is a client thread, or a lookup thread that is running a       *)
(* user's on_completed() callback.  A step of the model is a critical      *)
(* section of the code, or the part of one between two points where the    *)
(* code takes or releases a mutex, blocks, or runs a callback.             *)
(*                                                                         *)
(* Deadlines are abstract: DeadlinePasses makes a request due, at any      *)
(* moment.  The network is abstract: it may answer any request, answer     *)
(* with nothing of use, or stay silent.                                    *)
(***************************************************************************)
EXTENDS Naturals, FiniteSets

CONSTANTS
    Clients,        \* application threads that call the API
    Threads,        \* identities of LookupThread objects, reused once destroyed
    Resolvers,      \* dns_resolver objects of the application
    Null,           \* null pointer, mutex not owned, no callback
    MaxRequests,    \* number of request ids: 65536 in the code
    NoServer,       \* resolvers for which no valid DNS server address is known
    Belated,        \* resolvers a late reply may make fall back before they are sent
    ClientOps,      \* operations the clients use
    CallbackOps,    \* operations the callbacks use
    CallbackDriven, \* clients only start the first request, callbacks the others
    OpenMayFail,    \* udp_socket::open() may throw
    SocketMayFail   \* the socket may report errors, its operations may throw

Ops == {"resolve", "cancel", "clean_up"}

ASSUME ConstantsAssumption ==
    /\ Null \notin Clients \cup Threads \cup Resolvers
    /\ Clients \cap Threads = {}
    /\ MaxRequests \in Nat \ {0}
    /\ NoServer \subseteq Resolvers
    /\ Belated \subseteq Resolvers
    /\ ClientOps \subseteq Ops
    /\ CallbackOps \subseteq Ops \ {"clean_up"}
    /\ {CallbackDriven, OpenMayFail, SocketMayFail} \subseteq BOOLEAN

VARIABLES
    dnsMutex,       \* owner of dns::mutex
    thread,         \* dns::thread, the current LookupThread
    call,           \* the API call each caller is making
    \* fields of the LookupThread objects
    mutex,          \* owner of the object's mutex
    completing,     \* resolver whose callback runs; completedMutex is held iff not Null
    prevThread, isExiting, quitFlag,
    queue,          \* kinds of messages waiting in the queue
    resolversMap,   \* requests accepted and not completed
    sendList,       \* those whose sendIter points into the object's sendList
    stray,          \* those with an entry there that no sendIter points to
    dangling,       \* is there a stray entry of a request removed since?
    recordA,        \* those whose recordType fell back from AAAA to A
    due,            \* those whose end time has passed for run()
    writeWait,      \* does waitSet wait for the socket to become writable?
    flags,          \* readiness flags of the socket
    pc              \* what run() is about to do

requests == <<resolversMap, sendList, stray, dangling, recordA, due>>
signals  == <<isExiting, quitFlag, queue>>
io       == <<writeWait, flags>>
locks    == <<dnsMutex, mutex, completing>>
chain    == <<thread, prevThread>>
vars     == <<requests, signals, io, locks, chain, call, pc>>

Callers == Clients \cup Threads
Idle == [op |-> "none", r |-> Null, at |-> "idle"]

\* Calls in progress: at "lock" they wait for dns::mutex, later they hold it.
CallRecords ==
    [op : {"resolve"}, r : Resolvers, at : {"lock", "check", "insert"}]
        \cup [op : {"cancel"}, r : Resolvers, at : {"lock", "remove", "waitC"}]
        \cup [op : {"clean_up"}, r : {Null}, at : {"lock", "join"}]
        \cup {Idle}

\* Program points of run() at which LookupThread::mutex has to be held.
LockedPoints == {"read", "write", "sending", "timeouts", "failing"}
Points == {"absent", "new", "start", "openFailing", "loop", "check", "wait", "drain", "done",
           "undefined"} \cup LockedPoints

TypeOK ==
    /\ dnsMutex \in Callers \cup {Null}
    /\ thread \in Threads \cup {Null}
    /\ call \in [Callers -> CallRecords]
    /\ mutex \in [Threads -> Callers \cup {Null}]
    /\ completing \in [Threads -> Resolvers \cup {Null}]
    /\ prevThread \in [Threads -> Threads \cup {Null}]
    /\ isExiting \in [Threads -> BOOLEAN]
    /\ quitFlag \in [Threads -> BOOLEAN]
    /\ queue \in [Threads -> SUBSET {"send", "nop"}]
    /\ resolversMap \in [Threads -> SUBSET Resolvers]
    /\ sendList \in [Threads -> SUBSET Resolvers]
    /\ stray \in [Threads -> SUBSET Resolvers]
    /\ dangling \in [Threads -> BOOLEAN]
    /\ recordA \in [Threads -> SUBSET Resolvers]
    /\ due \in [Threads -> SUBSET Resolvers]
    /\ writeWait \in [Threads -> BOOLEAN]
    /\ flags \in [Threads -> SUBSET {"read", "write", "error"}]
    /\ pc \in [Threads -> Points]

Init ==
    /\ dnsMutex = Null
    /\ thread = Null
    /\ call = [p \in Callers |-> Idle]
    /\ mutex = [g \in Threads |-> Null]
    /\ completing = [g \in Threads |-> Null]
    /\ prevThread = [g \in Threads |-> Null]
    /\ isExiting = [g \in Threads |-> FALSE]
    /\ quitFlag = [g \in Threads |-> FALSE]
    /\ queue = [g \in Threads |-> {}]
    /\ resolversMap = [g \in Threads |-> {}]
    /\ sendList = [g \in Threads |-> {}]
    /\ stray = [g \in Threads |-> {}]
    /\ dangling = [g \in Threads |-> FALSE]
    /\ recordA = [g \in Threads |-> {}]
    /\ due = [g \in Threads |-> {}]
    /\ writeWait = [g \in Threads |-> FALSE]
    /\ flags = [g \in Threads |-> {}]
    /\ pc = [g \in Threads |-> "absent"]

-----------------------------------------------------------------------------
(* LookupThread objects and their requests                                 *)

\* make_unique<LookupThread>() into dns::thread; the old object becomes prevThread.
Construct(g, prev) ==
    /\ pc[g] = "absent"
    /\ pc' = [pc EXCEPT ![g] = "new"]
    /\ isExiting' = [isExiting EXCEPT ![g] = TRUE]
    /\ prevThread' = [prevThread EXCEPT ![g] = prev]
    /\ thread' = g

\* The object is destroyed, after its thread has been joined.
Destroy(g) ==
    /\ pc[g] = "done"
    /\ mutex' = [mutex EXCEPT ![g] = Null]
    /\ isExiting' = [isExiting EXCEPT ![g] = FALSE]
    /\ quitFlag' = [quitFlag EXCEPT ![g] = FALSE]
    /\ queue' = [queue EXCEPT ![g] = {}]
    /\ resolversMap' = [resolversMap EXCEPT ![g] = {}]
    /\ sendList' = [sendList EXCEPT ![g] = {}]
    /\ stray' = [stray EXCEPT ![g] = {}]
    /\ dangling' = [dangling EXCEPT ![g] = FALSE]
    /\ recordA' = [recordA EXCEPT ![g] = {}]
    /\ due' = [due EXCEPT ![g] = {}]
    /\ writeWait' = [writeWait EXCEPT ![g] = FALSE]
    /\ flags' = [flags EXCEPT ![g] = {}]
    /\ pc' = [pc EXCEPT ![g] = "absent"]

\* The object's sendList is empty: one entry to each request to be sent, or two if it
\* fell back to an A record before it was sent, the first of them stray.
ListEmpty(g) == sendList[g] = {} /\ stray[g] = {} /\ ~dangling[g]

\* Mutant of RemoveResolver: the time map is forgotten.
RemoveResolverNotFromTimeMap(g, r) ==
    /\ resolversMap' = [resolversMap EXCEPT ![g] = @ \ {r}]
    /\ sendList' = [sendList EXCEPT ![g] = @ \ {r}]
    /\ stray' = [stray EXCEPT ![g] = @ \ {r}]
    /\ dangling' = [dangling EXCEPT ![g] = @ \/ r \in stray[g]]
    /\ recordA' = [recordA EXCEPT ![g] = @ \ {r}]
    /\ UNCHANGED due

\* The request leaves every container it is in, if it is in any.  Of sendList it
\* erases the entry that its sendIter points to and no other.
RemoveResolver(g, r) ==
    /\ resolversMap' = [resolversMap EXCEPT ![g] = @ \ {r}]
    /\ sendList' = [sendList EXCEPT ![g] = @ \ {r}]
    /\ stray' = [stray EXCEPT ![g] = @ \ {r}]
    /\ dangling' = [dangling EXCEPT ![g] = @ \/ r \in stray[g]]
    /\ recordA' = [recordA EXCEPT ![g] = @ \ {r}]
    /\ due' = [due EXCEPT ![g] = @ \ {r}]

\* Mutant of Complete: the request is removed only after its callback.
CompleteRemovesLater(g, r) ==
    /\ UNCHANGED requests
    /\ completing' = [completing EXCEPT ![g] = r]
    /\ mutex' = [mutex EXCEPT ![g] = Null]

\* RemoveResolver() and CallCallback() up to the call of on_completed():
\* completedMutex is taken before mutex is released.
Complete(g, r) ==
    /\ RemoveResolver(g, r)
    /\ completing' = [completing EXCEPT ![g] = r]
    /\ mutex' = [mutex EXCEPT ![g] = Null]

Send(g, msg) == queue' = [queue EXCEPT ![g] = @ \cup {msg}]

-----------------------------------------------------------------------------
(* dns_resolver::resolve(), cancel() and clean_up(), called by p           *)

\* A client, or a lookup thread within a callback, is free to call op.
MayCall(p, op) ==
    /\ call[p] = Idle
    /\ IF p \in Clients THEN op \in ClientOps
                        ELSE op \in CallbackOps /\ completing[p] # Null
    \* ~init_guard() is not run while the library is being used
    /\ \A c \in Clients : call[c].op # "clean_up"

Call(p, op, r) ==
    /\ call' = [call EXCEPT ![p] = [op |-> op, r |-> r, at |-> "lock"]]
    /\ UNCHANGED <<requests, signals, io, locks, chain, pc>>

Goto(p, at) == call' = [call EXCEPT ![p].at = at]

\* The call of p returns or throws, which releases dns::mutex.
Return(p) ==
    /\ call' = [call EXCEPT ![p] = Idle]
    /\ dnsMutex' = Null

BeginResolve(p, r) ==
    /\ MayCall(p, "resolve")
    /\ CallbackDriven /\ p \in Clients
          => thread = Null /\ \A c \in Clients : call[c] = Idle
    /\ Call(p, "resolve", r)

BeginCancel(p, r) ==
    /\ MayCall(p, "cancel")
    /\ Call(p, "cancel", r)

\* ~init_guard(): no other caller is in the library and no request is active.
BeginCleanUp(p) ==
    /\ MayCall(p, "clean_up")
    /\ \A c \in Callers : call[c] = Idle
    /\ thread # Null => resolversMap[thread] = {} /\ completing[thread] = Null
    /\ Call(p, "clean_up", Null)

\* resolve() takes dns::mutex; with no thread object, it makes one.
ResolveLock(p) ==
    /\ call[p].op = "resolve" /\ call[p].at = "lock"
    /\ dnsMutex = Null
    /\ dnsMutex' = p
    /\ \/ /\ thread = Null
          /\ \E g \in Threads : Construct(g, Null)
          /\ Goto(p, "insert")
       \/ /\ thread # Null
          /\ Goto(p, "check")
          /\ UNCHANGED <<isExiting, pc, chain>>
    /\ UNCHANGED <<requests, quitFlag, queue, io, mutex, completing>>

\* Mutant of ResolveCheck: a request already in progress is retried, not refused.
ResolveCheckRetries(p) ==
    /\ call[p].at = "check"
    /\ mutex[thread] = Null
    /\ IF call[p].r \in resolversMap[thread]
          THEN /\ Goto(p, "lock")
               /\ dnsMutex' = Null
               /\ UNCHANGED <<isExiting, pc, chain>>
          ELSE /\ Goto(p, "insert")
               /\ IF isExiting[thread] THEN \E g \in Threads : Construct(g, thread)
                                       ELSE UNCHANGED <<isExiting, pc, chain>>
               /\ UNCHANGED dnsMutex
    /\ UNCHANGED <<requests, quitFlag, queue, io, mutex, completing>>

\* First critical section: already in progress? is the thread exiting?
ResolveCheck(p) ==
    /\ call[p].at = "check"
    /\ mutex[thread] = Null
    /\ \/ /\ call[p].r \in resolversMap[thread]
          /\ Return(p)
          /\ UNCHANGED <<isExiting, pc, chain>>
       \/ /\ call[p].r \notin resolversMap[thread]
          /\ isExiting[thread]
          /\ \E g \in Threads : Construct(g, thread)
          /\ Goto(p, "insert")
          /\ UNCHANGED dnsMutex
       \/ /\ call[p].r \notin resolversMap[thread]
          /\ ~isExiting[thread]
          /\ Goto(p, "insert")
          /\ UNCHANGED <<dnsMutex, isExiting, pc, chain>>
    /\ UNCHANGED <<requests, quitFlag, queue, io, mutex, completing>>

\* FindFreeId() throws too_many_requests: nothing was inserted yet.
ResolveTooMany(p) ==
    /\ call[p].at = "insert"
    /\ mutex[thread] = Null
    /\ Cardinality(resolversMap[thread]) >= MaxRequests
    /\ Return(p)
    /\ UNCHANGED <<requests, signals, io, mutex, completing, chain, pc>>

\* Mutant of ResolveInsert: isExiting is not cleared when the thread starts.
ResolveInsertStaysExiting(p) ==
    /\ call[p].at = "insert"
    /\ LET g == thread
           r == call[p].r
       IN /\ mutex[g] = Null
          /\ Cardinality(resolversMap[g]) < MaxRequests
          /\ resolversMap' = [resolversMap EXCEPT ![g] = @ \cup {r}]
          /\ sendList' = [sendList EXCEPT ![g] = @ \cup {r}]
          /\ IF ListEmpty(g) THEN Send(g, "send") ELSE UNCHANGED queue
          /\ pc' = [pc EXCEPT ![g] = IF @ = "new" THEN "start" ELSE @]
    /\ Return(p)
    /\ UNCHANGED <<stray, dangling, recordA, due, isExiting, quitFlag>>
    /\ UNCHANGED <<io, mutex, completing, chain>>

\* Second critical section: insert the request, wake or start the thread.
ResolveInsert(p) ==
    /\ call[p].at = "insert"
    /\ LET g == thread
           r == call[p].r
       IN /\ mutex[g] = Null
          /\ Cardinality(resolversMap[g]) < MaxRequests
          /\ resolversMap' = [resolversMap EXCEPT ![g] = @ \cup {r}]
          /\ sendList' = [sendList EXCEPT ![g] = @ \cup {r}]
          /\ IF ListEmpty(g) THEN Send(g, "send") ELSE UNCHANGED queue
          /\ IF pc[g] = "new"
                THEN /\ pc' = [pc EXCEPT ![g] = "start"]
                     /\ isExiting' = [isExiting EXCEPT ![g] = FALSE]
                ELSE UNCHANGED <<pc, isExiting>>
    /\ Return(p)
    /\ UNCHANGED <<stray, dangling, recordA, due, quitFlag>>
    /\ UNCHANGED <<io, mutex, completing, chain>>

\* cancel() takes dns::mutex; with no thread object there is nothing to cancel.
CancelLock(p) ==
    /\ call[p].op = "cancel" /\ call[p].at = "lock"
    /\ dnsMutex = Null
    /\ IF thread = Null THEN Return(p)
                        ELSE Goto(p, "remove") /\ dnsMutex' = p
    /\ UNCHANGED <<requests, signals, io, mutex, completing, chain, pc>>

\* Mutant of CancelRemove: the thread asked to quit is marked as exiting at once.
CancelRemoveMarksExiting(p) ==
    /\ call[p].at = "remove"
    /\ mutex[thread] = Null
    /\ RemoveResolver(thread, call[p].r)
    /\ IF resolversMap[thread] \subseteq {call[p].r}
          THEN /\ Send(thread, "nop")
               /\ quitFlag' = [quitFlag EXCEPT ![thread] = TRUE]
               /\ isExiting' = [isExiting EXCEPT ![thread] = TRUE]
          ELSE UNCHANGED <<queue, quitFlag, isExiting>>
    /\ IF call[p].r \in resolversMap[thread]
          THEN Return(p) /\ UNCHANGED mutex
          ELSE /\ Goto(p, "waitC")
               /\ mutex' = [mutex EXCEPT ![thread] = p]
               /\ UNCHANGED dnsMutex
    /\ UNCHANGED <<io, completing, chain, pc>>

\* Mutant of CancelRemove: the thread is asked to quit and not woken.
CancelRemoveSilently(p) ==
    /\ call[p].at = "remove"
    /\ mutex[thread] = Null
    /\ RemoveResolver(thread, call[p].r)
    /\ quitFlag' = [quitFlag EXCEPT ![thread] = @ \/ resolversMap[thread] \subseteq {call[p].r}]
    /\ IF call[p].r \in resolversMap[thread]
          THEN Return(p) /\ UNCHANGED mutex
          ELSE /\ Goto(p, "waitC")
               /\ mutex' = [mutex EXCEPT ![thread] = p]
               /\ UNCHANGED dnsMutex
    /\ UNCHANGED <<queue, isExiting, io, completing, chain, pc>>

\* Remove the request; ask the thread to quit when no request is left.  When
\* there was no such request, go on to wait for a callback with both mutexes held.
CancelRemove(p) ==
    /\ call[p].at = "remove"
    /\ mutex[thread] = Null
    /\ RemoveResolver(thread, call[p].r)
    /\ IF resolversMap[thread] \subseteq {call[p].r}
          THEN Send(thread, "nop") /\ quitFlag' = [quitFlag EXCEPT ![thread] = TRUE]
          ELSE UNCHANGED <<queue, quitFlag>>
    /\ IF call[p].r \in resolversMap[thread]
          THEN Return(p) /\ UNCHANGED mutex
          ELSE /\ Goto(p, "waitC")
               /\ mutex' = [mutex EXCEPT ![thread] = p]
               /\ UNCHANGED dnsMutex
    /\ UNCHANGED <<isExiting, io, completing, chain, pc>>

\* Mutant of CancelWait: completedMutex is not waited for.
CancelWaitSkipped(p) ==
    /\ call[p].at = "waitC"
    /\ mutex' = [mutex EXCEPT ![thread] = Null]
    /\ Return(p)
    /\ UNCHANGED <<requests, signals, io, completing, chain, pc>>

\* Mutant of CancelWait: the thread's mutex stays locked.
CancelWaitKeepsMutex(p) ==
    /\ call[p].at = "waitC"
    /\ completing[thread] = Null
    /\ Return(p)
    /\ UNCHANGED <<requests, signals, io, mutex, completing, chain, pc>>

\* Lock and unlock completedMutex, then return FALSE.
CancelWait(p) ==
    /\ call[p].at = "waitC"
    /\ completing[thread] = Null
    /\ mutex' = [mutex EXCEPT ![thread] = Null]
    /\ Return(p)
    /\ UNCHANGED <<requests, signals, io, completing, chain, pc>>

CleanUpLock(p) ==
    /\ call[p].op = "clean_up" /\ call[p].at = "lock"
    /\ dnsMutex = Null
    /\ \/ /\ thread = Null
          /\ Return(p)
          /\ UNCHANGED <<quitFlag, queue>>
       \/ /\ thread # Null
          /\ dnsMutex' = p
          /\ quitFlag' = [quitFlag EXCEPT ![thread] = TRUE]
          /\ Send(thread, "nop")
          /\ Goto(p, "join")
    /\ UNCHANGED <<requests, isExiting, io, mutex, completing, chain, pc>>

CleanUpJoin(p) ==
    /\ call[p].at = "join"
    /\ Destroy(thread)
    /\ thread' = Null
    /\ Return(p)
    /\ UNCHANGED <<completing, prevThread>>

Caller(p) ==
    \/ ResolveLock(p) \/ ResolveCheck(p) \/ ResolveTooMany(p) \/ ResolveInsert(p)
    \/ CancelLock(p) \/ CancelRemove(p) \/ CancelWait(p)
    \/ CleanUpLock(p) \/ CleanUpJoin(p)

-----------------------------------------------------------------------------
(* LookupThread::run() of object g                                         *)

\* At a point where run() holds its mutex, and is not within a callback.
At(g, point) == pc[g] = point /\ mutex[g] = g /\ completing[g] = Null
Continue(g, point) == pc' = [pc EXCEPT ![g] = point]
Unlock(g) == mutex' = [mutex EXCEPT ![g] = Null]

\* From here on resolve() makes a new thread object.
SetExiting(g, point) ==
    /\ isExiting' = [isExiting EXCEPT ![g] = TRUE]
    /\ Continue(g, point)

\* prevThread->join(); prevThread.reset()
JoinPrevious(g) ==
    /\ pc[g] = "start"
    /\ prevThread[g] # Null
    /\ Destroy(prevThread[g])
    /\ prevThread' = [prevThread EXCEPT ![g] = Null]
    /\ UNCHANGED <<dnsMutex, completing, thread, call>>

\* Mutant of Open: the previous thread is not joined first.
OpenWithoutJoin(g) ==
    /\ pc[g] = "start"
    /\ dnsMutex = Null
    /\ Continue(g, "loop")
    /\ UNCHANGED <<requests, signals, io, locks, chain, call>>

\* The socket is opened under dns::mutex and added to the wait set.
Open(g) ==
    /\ pc[g] = "start"
    /\ prevThread[g] = Null
    /\ dnsMutex = Null
    /\ Continue(g, "loop")
    /\ UNCHANGED <<requests, signals, io, locks, chain, call>>

OpenFails(g) ==
    /\ OpenMayFail
    /\ pc[g] = "start"
    /\ prevThread[g] = Null
    /\ dnsMutex = Null
    /\ dnsMutex' = g
    /\ SetExiting(g, "openFailing")
    /\ UNCHANGED <<requests, quitFlag, queue, io, mutex, completing, chain, call>>

\* RemoveAllResolvers() after a failed open: dns::mutex is held, mutex is not,
\* so the unlock() of CallCallback() releases a mutex the thread does not own.
OpenFailing(g) ==
    /\ pc[g] = "openFailing"
    /\ completing[g] = Null
    /\ \/ /\ \E r \in resolversMap[g] : Complete(g, r)
          /\ UNCHANGED <<dnsMutex, pc>>
       \/ /\ resolversMap[g] = {}
          /\ dnsMutex' = Null
          /\ Continue(g, "done")
          /\ UNCHANGED <<requests, mutex, completing>>
    /\ UNCHANGED <<signals, io, chain, call>>

\* Mutant of Loop: the quit flag is ignored.
LoopForever(g) ==
    /\ pc[g] = "loop"
    /\ Continue(g, "check")
    /\ UNCHANGED <<requests, signals, io, locks, chain, call>>

\* while(!quitFlag)
Loop(g) ==
    /\ pc[g] = "loop"
    /\ Continue(g, IF quitFlag[g] THEN "done" ELSE "check")
    /\ UNCHANGED <<requests, signals, io, locks, chain, call>>

\* Take the mutex, look at the socket's error flag.
Check(g) ==
    /\ pc[g] = "check"
    /\ mutex[g] = Null
    /\ mutex' = [mutex EXCEPT ![g] = g]
    /\ IF "error" \in flags[g] THEN SetExiting(g, "failing")
                               ELSE Continue(g, "read") /\ UNCHANGED isExiting
    /\ UNCHANGED <<requests, quitFlag, queue, io, dnsMutex, completing, chain, call>>

\* The socket is not ready for reading, or what it received is of no use.
ReadNothing(g) ==
    /\ At(g, "read")
    /\ flags' = [flags EXCEPT ![g] = @ \ {"read"}]
    /\ Continue(g, "write")
    /\ UNCHANGED <<requests, signals, writeWait, locks, chain, call>>

\* recieve() throws.
ReadFails(g) ==
    /\ SocketMayFail
    /\ At(g, "read") /\ "read" \in flags[g]
    /\ flags' = [flags EXCEPT ![g] = @ \ {"read"}]
    /\ SetExiting(g, "failing")
    /\ UNCHANGED <<requests, quitFlag, queue, writeWait, locks, chain, call>>

\* The reply completes request r, whatever the result.  It need not be the answer
\* to r: a late one to an earlier request with the same id and host will do.
ReadReply(g) ==
    /\ At(g, "read") /\ "read" \in flags[g]
    /\ flags' = [flags EXCEPT ![g] = @ \ {"read"}]
    /\ \E r \in resolversMap[g] : Complete(g, r)
    /\ Continue(g, "write")
    /\ UNCHANGED <<signals, writeWait, dnsMutex, chain, call>>

\* Mutant of ReadFallback: StartSending() is not called.
ReadFallbackSilently(g) ==
    /\ At(g, "read") /\ "read" \in flags[g]
    /\ flags' = [flags EXCEPT ![g] = @ \ {"read"}]
    /\ \E r \in resolversMap[g] \ (recordA[g] \cup (sendList[g] \ Belated)) :
          /\ recordA' = [recordA EXCEPT ![g] = @ \cup {r}]
          /\ sendList' = [sendList EXCEPT ![g] = @ \cup {r}]
          /\ stray' = [stray EXCEPT ![g] = @ \cup (sendList[g] \cap {r})]
    /\ Continue(g, "write")
    /\ UNCHANGED <<resolversMap, dangling, due, signals, writeWait, locks, chain, call>>

\* No AAAA record: r is to be sent again, asking for an A record.  A late reply may
\* say so of an r that is not sent yet: its entry stays, sendIter is the new one's.
ReadFallback(g) ==
    /\ At(g, "read") /\ "read" \in flags[g]
    /\ flags' = [flags EXCEPT ![g] = @ \ {"read"}]
    /\ \E r \in resolversMap[g] \ (recordA[g] \cup (sendList[g] \ Belated)) :
          /\ recordA' = [recordA EXCEPT ![g] = @ \cup {r}]
          /\ sendList' = [sendList EXCEPT ![g] = @ \cup {r}]
          /\ stray' = [stray EXCEPT ![g] = @ \cup (sendList[g] \cap {r})]
    /\ writeWait' = [writeWait EXCEPT ![g] = @ \/ ListEmpty(g)]
    /\ Continue(g, "write")
    /\ UNCHANGED <<resolversMap, dangling, due, signals, locks, chain, call>>

Write(g) ==
    /\ At(g, "write")
    /\ Continue(g, IF "write" \in flags[g] THEN "sending" ELSE "timeouts")
    /\ UNCHANGED <<requests, signals, io, locks, chain, call>>

\* SendRequestToDNS() sends a request.  Of two entries the stray one comes first:
\* the other is stray then, as sendIter becomes end().
SendOne(g) ==
    /\ At(g, "sending")
    /\ \E r \in (sendList[g] \cup stray[g]) \ NoServer :
          /\ sendList' = [sendList EXCEPT ![g] = @ \ {r}]
          /\ stray' = [stray EXCEPT ![g] = @ \ ({r} \ sendList[g])]
    /\ flags' = [flags EXCEPT ![g] = @ \ {"write"}]
    /\ UNCHANGED <<resolversMap, dangling, recordA, due>>
    /\ UNCHANGED <<signals, writeWait, locks, chain, call, pc>>

\* SendRequestToDNS() returns FALSE: the socket is not ready after all.
SendNotReady(g) ==
    /\ At(g, "sending")
    /\ (sendList[g] \cup stray[g]) \ NoServer # {}
    /\ flags' = [flags EXCEPT ![g] = @ \ {"write"}]
    /\ Continue(g, "timeouts")
    /\ UNCHANGED <<requests, signals, writeWait, locks, chain, call>>

\* SendRequestToDNS() throws.
SendFails(g) ==
    /\ SocketMayFail
    /\ At(g, "sending")
    /\ (sendList[g] \cup stray[g]) \ NoServer # {}
    /\ flags' = [flags EXCEPT ![g] = @ \ {"write"}]
    /\ SetExiting(g, "failing")
    /\ UNCHANGED <<requests, quitFlag, queue, writeWait, locks, chain, call>>

\* A request without a valid DNS server address completes with an error.
SendNoServer(g) ==
    /\ At(g, "sending")
    /\ \E r \in (sendList[g] \cup stray[g]) \cap NoServer : Complete(g, r)
    /\ UNCHANGED <<signals, io, dnsMutex, chain, call, pc>>

\* The entry at the front is of a request that was removed: the pointer dangles,
\* what the program does from here on is undefined.
SendDangling(g) ==
    /\ At(g, "sending")
    /\ dangling[g]
    /\ Continue(g, "undefined")
    /\ UNCHANGED <<requests, signals, io, locks, chain, call>>

\* All is sent: wait for readability only.
SendingDone(g) ==
    /\ At(g, "sending")
    /\ ListEmpty(g)
    /\ writeWait' = [writeWait EXCEPT ![g] = FALSE]
    /\ Continue(g, "timeouts")
    /\ UNCHANGED <<requests, signals, flags, locks, chain, call>>

Expire(g) ==
    /\ At(g, "timeouts")
    /\ \E r \in due[g] : Complete(g, r)
    /\ UNCHANGED <<signals, io, dnsMutex, chain, call, pc>>

\* Mutant of TimeoutsDone: the thread exits when all requests are sent.
TimeoutsDoneOnceSent(g) ==
    /\ At(g, "timeouts")
    /\ due[g] = {}
    /\ Unlock(g)
    /\ IF ListEmpty(g) THEN SetExiting(g, "done")
                           ELSE Continue(g, "wait") /\ UNCHANGED isExiting
    /\ UNCHANGED <<requests, quitFlag, queue, io, dnsMutex, completing, chain, call>>

\* Nothing is due: exit when no request is left, else go and wait.
TimeoutsDone(g) ==
    /\ At(g, "timeouts")
    /\ due[g] = {}
    /\ Unlock(g)
    /\ IF resolversMap[g] = {} THEN SetExiting(g, "done")
                               ELSE Continue(g, "wait") /\ UNCHANGED isExiting
    /\ UNCHANGED <<requests, quitFlag, queue, io, dnsMutex, completing, chain, call>>

\* RemoveAllResolvers() after an error of the socket; the thread exits.
Failing(g) ==
    /\ At(g, "failing")
    /\ \/ /\ \E r \in resolversMap[g] : Complete(g, r)
          /\ UNCHANGED pc
       \/ /\ resolversMap[g] = {}
          /\ Unlock(g)
          /\ Continue(g, "done")
          /\ UNCHANGED <<requests, completing>>
    /\ UNCHANGED <<signals, io, dnsMutex, chain, call>>

\* on_completed() returns: completedMutex is released.  After a failed open the
\* mutex is taken again at once, since all who take it need dns::mutex first.
CallbackReturns(g) ==
    /\ completing[g] # Null
    /\ call[g] = Idle
    /\ completing' = [completing EXCEPT ![g] = Null]
    /\ mutex' = IF pc[g] = "openFailing" THEN [mutex EXCEPT ![g] = g] ELSE mutex
    /\ UNCHANGED <<requests, signals, io, dnsMutex, chain, call, pc>>

\* CallCallback() takes the mutex again.
Relock(g) ==
    /\ pc[g] \in LockedPoints
    /\ completing[g] = Null
    /\ mutex[g] = Null
    /\ mutex' = [mutex EXCEPT ![g] = g]
    /\ UNCHANGED <<requests, signals, io, dnsMutex, completing, chain, call, pc>>

\* waitSet.wait() returns 0; the timeout is finite.
WaitTimesOut(g) ==
    /\ pc[g] = "wait"
    /\ queue[g] = {}
    /\ Continue(g, "loop")
    /\ UNCHANGED <<requests, signals, io, locks, chain, call>>

\* Mutant of SocketEvents: the flags of the queue are taken for the socket's.
SocketEventsOfQueue(g) ==
    {"read"} \cup (IF writeWait[g] THEN {"write"} ELSE {})
             \cup (IF queue[g] # {} THEN {"queue"} ELSE {})

\* What the socket may report to the wait set.
SocketEvents(g) ==
    {"read"} \cup (IF writeWait[g] THEN {"write"} ELSE {})
             \cup (IF SocketMayFail THEN {"error"} ELSE {})

\* waitSet.wait() reports the queue, the socket or both.
WaitReturns(g) ==
    /\ pc[g] = "wait"
    /\ \E ready \in SUBSET SocketEvents(g) :
          /\ ready # {} \/ queue[g] # {}
          /\ flags' = [flags EXCEPT ![g] = @ \cup ready]
    /\ Continue(g, IF queue[g] # {} THEN "drain" ELSE "loop")
    /\ UNCHANGED <<requests, signals, writeWait, locks, chain, call>>

\* The messages of the queue are taken and run, up to the last: those that come
\* meanwhile may as well come before or after.  The one resolve() sends calls
\* StartSending() of dns::thread, whatever object that is by now.
Drain(g) ==
    /\ pc[g] = "drain"
    /\ queue' = [queue EXCEPT ![g] = {}]
    /\ writeWait' = IF "send" \in queue[g] THEN [writeWait EXCEPT ![thread] = TRUE]
                                           ELSE writeWait
    /\ Continue(g, "loop")
    /\ UNCHANGED <<requests, isExiting, quitFlag, flags, locks, chain, call>>

Run(g) ==
    \/ JoinPrevious(g) \/ Open(g) \/ OpenFails(g) \/ OpenFailing(g)
    \/ Loop(g) \/ Check(g) \/ Relock(g)
    \/ ReadNothing(g) \/ ReadFails(g) \/ ReadReply(g) \/ ReadFallback(g)
    \/ Write(g) \/ SendOne(g) \/ SendNotReady(g) \/ SendFails(g)
    \/ SendNoServer(g) \/ SendDangling(g) \/ SendingDone(g)
    \/ Expire(g) \/ TimeoutsDone(g) \/ Failing(g)
    \/ WaitTimesOut(g) \/ WaitReturns(g) \/ Drain(g)

\* The clock reaches the end time of request r.  run() samples the clock once
\* before it looks for timeouts: what is late after that waits for the next round.
DeadlinePasses(g, r) ==
    /\ r \in resolversMap[g] \ due[g]
    /\ pc[g] \notin {"timeouts", "done"}
    /\ due' = [due EXCEPT ![g] = @ \cup {r}]
    /\ UNCHANGED <<resolversMap, sendList, stray, dangling, recordA>>
    /\ UNCHANGED <<signals, io, locks, chain, call, pc>>

\* A thread took a dangling entry: there is nothing to say of the program any more.
Undefined == \E g \in Threads : pc[g] = "undefined"

Step ==
    \/ \E p \in Callers, r \in Resolvers : BeginResolve(p, r) \/ BeginCancel(p, r)
    \/ \E p \in Clients : BeginCleanUp(p)
    \/ \E p \in Callers : Caller(p)
    \/ \E g \in Threads : Run(g) \/ CallbackReturns(g)
    \/ \E g \in Threads, r \in Resolvers : DeadlinePasses(g, r)

Next == (~Undefined /\ Step) \/ (Undefined /\ UNCHANGED vars)

Spec == Init /\ [][Next]_vars

\* The scheduler runs every thread; a mutex that is released again and again is
\* granted in the end; callbacks return; the clock does not stop.
Fairness ==
    /\ \A p \in Callers : SF_vars(~Undefined /\ Caller(p))
    /\ \A g \in Threads : /\ SF_vars(~Undefined /\ Run(g))
                          /\ SF_vars(~Undefined /\ CallbackReturns(g))
    /\ \A g \in Threads, r \in Resolvers : SF_vars(~Undefined /\ DeadlinePasses(g, r))

FairSpec == Spec /\ Fairness

-----------------------------------------------------------------------------
(* Properties                                                              *)

\* run() is between its start and the decision to exit.
Serving == {"start", "loop", "check", "read", "write", "sending", "undefined", "timeouts",
            "wait", "drain"}
\* run() is past the join of the previous thread: it may use the socket.
Working == (Serving \ {"start"}) \cup {"failing", "openFailing"}

\* The containers of an object hold requests of its resolversMap only, and a request
\* is listed twice only after it fell back to an A record.  The exception is the
\* stray entry of a request removed before it was sent, which sendList keeps.
MapsAgree ==
    \A g \in Threads :
        /\ sendList[g] \cup recordA[g] \cup due[g] \subseteq resolversMap[g]
        /\ stray[g] \subseteq recordA[g]

\* The closure that resolve() queues reads dns::thread on the lookup thread,
\* without dns::mutex.  It is right all the same: while a thread drains its
\* queue, dns::thread is that thread.
DrainsOwnQueue == \A g \in Threads : pc[g] = "drain" => thread = g

\* Lookup threads work one at a time: a new one joins its predecessor first,
\* although resolve() makes it while the predecessor still runs callbacks.
OneWorker ==
    \A g, h \in Threads : pc[g] \in Working /\ pc[h] \in Working => g = h

\* However often threads exit and are replaced, the only objects that exist are
\* dns::thread and its prevThread.
TwoObjects ==
    \A g \in Threads : pc[g] # "absent" =>
        g = thread \/ (thread # Null /\ prevThread[thread] = g)

\* No lost wake-up of the sender: a request still to be sent is noticed, because
\* the wait set waits for writability, or a StartSending message is queued.
UnsentIsNoticed ==
    \A g \in Threads : ~ListEmpty(g) => writeWait[g] \/ "send" \in queue[g]

\* No lost wake-up of the quit flag: a thread that waits after it was asked to
\* quit has a message in its queue.
QuitIsNoticed ==
    \A g \in Threads : quitFlag[g] /\ pc[g] = "wait" => queue[g] # {}

\* What callers see of the threads: the requests of dns::thread, those of a thread
\* that failed and is not dns::thread any more, and the callback that runs.
Seen == INSTANCE ServedRequests WITH
            stopped <- thread = Null \/ pc[thread] = "done",
            served <- IF thread = Null THEN {} ELSE resolversMap[thread],
            leaving <- UNION {resolversMap[g] :
                               g \in {h \in Threads \ {thread} : pc[h] = "failing"}},
            calling <- {completing[g] : g \in Threads} \ {Null}

\* However threads exit, fail and are replaced, a request is accepted once, ends at most
\* once, and is called back by one thread at a time, those of a failed thread first.
ServesRequests == Seen!ServiceSpec

\* A call of cancel() by p returns in this step.
Cancelled(p) == call[p].op = "cancel" /\ call'[p] = Idle

\* When cancel() returns, no thread that serves is going to call the callback for
\* a request made so far, and when it returns FALSE none is calling it.  A thread
\* that fails while dns::thread is another object already is not looked at.
CancelStopsCallbacks ==
    [][\A p \in Callers : Cancelled(p) =>
         \A g \in Threads : g = thread \/ pc[g] # "failing" =>
            /\ call[p].r \in resolversMap'[g] => pc'[g] = "done"
            /\ call[p].at = "waitC" => completing'[g] # call[p].r]_vars

\* dns_resolver.hpp:88: after cancel() has returned it is guaranteed that
\* on_completed() will not be called anymore, for a request made so far.
NoCallbackAfterCancel ==
    [][\A p \in Callers : Cancelled(p) =>
         \A g \in Threads : call[p].r \in resolversMap'[g] => pc'[g] = "done"]_vars

\* dns_resolver.cpp:946: if there are active requests then the thread must be running.
ActiveRequestsHaveThread ==
    thread # Null /\ resolversMap[thread] # {} => pc[thread] # "done"

\* dns_resolver.cpp:494: no request is left in an object that is destroyed.
DestroyedEmpty ==
    [][\A g \in Threads : pc[g] # "absent" /\ pc'[g] = "absent" => resolversMap[g] = {}]_vars

\* A request that was accepted is completed, cancelled or timed out, unless the
\* program took a dangling entry of sendList before.
RequestsFinish ==
    \A g \in Threads, r \in Resolvers :
        r \in resolversMap[g] ~> r \notin resolversMap[g] \/ Undefined

\* Every call of resolve(), cancel() and clean_up() returns, with the same exception.
CallsReturn == \A p \in Callers : call[p] # Idle ~> call[p] = Idle \/ Undefined

\* A thread that was asked to quit stops, with the same exception.
QuitStops == \A g \in Threads : quitFlag[g] ~> pc[g] \in {"done", "absent"} \/ Undefined
=============================================================================
