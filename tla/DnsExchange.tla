----------------------------- MODULE DnsExchange -----------------------------
(***************************************************************************)
(* The packets of src/src/setka/dns_resolver.cpp: ids of requests, the     *)
(* list of requests to send, questions to the DNS server and its replies,  *)
(* and the fall-back from an AAAA to an A record.                          *)
(*                                                                         *)
(* The network is UDP: a question or its reply may be lost, come late, out *)
(* of order or several times.  A reply says what its question was: asked   *)
(* is the set of questions the server may still answer, the answer being a *)
(* constant of the model (Zone).                                           *)
(*                                                                         *)
(* Threads, mutexes and the clock are in DnsLookup and LookupTime: here    *)
(* one lookup thread exists at a time, with a socket of its own, and its   *)
(* mutex is free between rounds and while a callback runs.  A socket that  *)
(* cannot be opened, and a resolve() while a failed thread completes its   *)
(* requests, which goes to a new thread, are left to DnsLookup.            *)
(***************************************************************************)
EXTENDS Integers, FiniteSets, SequencesExt

CONSTANTS
    Resolvers,  \* dns_resolver objects of the application
    Hosts,      \* host names they look up
    Zone,       \* answer of the server for each host and record type
    MaxId,      \* greatest request id: 65535
    MaxAsked,   \* bound of the model: questions the server may still answer
    MaxListed,  \* bound of the model: entries of the send list after a fall-back
    Null        \* no request, no callback, no address

RecordTypes == {"AAAA", "A"}

\* A "dns_error" is also what run() makes of a reply with answers none of which
\* is a record of the type asked for, such as an alias alone.
Verdicts == {"ok", "not_found", "dns_error"}

Ids == 0 .. MaxId
Questions == [id : Ids, host : Hosts, type : RecordTypes]
Requests == [id : Ids, host : Hosts, recordType : RecordTypes]

ASSUME ExchangeAssumption ==
    /\ MaxId \in Nat /\ MaxAsked \in Nat \ {0} /\ MaxListed \in Nat
    /\ Zone \in [Hosts -> [RecordTypes -> Verdicts]]
    /\ Null \notin Hosts \cup Requests \cup Resolvers

VARIABLES
    resolversMap,   \* the active request of each resolver
    sendList,       \* requests to send, in order; Null for one that was destroyed
    unsent,         \* requests whose sendIter refers to the list
    asked,          \* questions the server may still answer
    callback,       \* what on_completed() is being called with
    quitFlag,       \* was the thread asked to quit?
    pc              \* what run() is about to do

requests == <<resolversMap, sendList, unsent>>
vars == <<requests, asked, callback, quitFlag, pc>>

Ips == [host : Hosts, type : RecordTypes]
Answers == [result : Verdicts \cup {"timeout", "error"}, ip : Ips \cup {Null}]

Active == {r \in Resolvers : resolversMap[r] # Null}
UsedIds == {resolversMap[r].id : r \in Active}

\* At "done" the next resolve() makes a new thread, at "quit" it does not.  Once run()
\* took a destroyed request from the send list, what follows is undefined.
Points == {"done", "quit", "loop", "round", "read", "sending", "timeouts", "failing",
           "undefined"}

TypeOK ==
    /\ resolversMap \in [Resolvers -> Requests \cup {Null}]
    /\ sendList \in Seq(Resolvers \cup {Null})
    /\ unsent \subseteq Active
    /\ asked \subseteq Questions
    /\ callback \in [to : Resolvers, answer : Answers] \cup {Null}
    /\ quitFlag \in BOOLEAN
    /\ pc \in Points

Init ==
    /\ resolversMap = [r \in Resolvers |-> Null]
    /\ sendList = <<>>
    /\ unsent = {}
    /\ asked = {}
    /\ callback = Null
    /\ quitFlag = FALSE
    /\ pc = "done"

\* LookupThread::mutex is free: resolve() and cancel() may run.
Unlocked == pc \in {"done", "quit", "loop", "round"} \/ callback # Null
At(point) == pc = point /\ callback = Null

-----------------------------------------------------------------------------
(* Ids: FindFreeId()                                                       *)

\* Mutant of Gaps: an id between two used ones is overlooked.
GapsOfTwo(used) == {i \in used : i + 1 < MaxId /\ i + 1 \notin used /\ i + 2 \notin used}

\* Used ids that are followed by a free one.
Gaps(used) == {i \in used : i < MaxId /\ i + 1 \notin used}

\* FindFreeId() throws too_many_requests.
TooMany(used) == 0 \in used /\ MaxId \in used /\ Gaps(used) = {}

\* Mutant of FindFreeId: that the greatest id may be in use is overlooked.
FindFreeIdWrapping(used) ==
    CASE used = {} -> 0
      [] used # {} /\ 0 \notin used -> Min(used) - 1
      [] 0 \in used -> (Max(used) + 1) % (MaxId + 1)

\* The id before the least used one, the one after the greatest, or the first gap.
FindFreeId(used) ==
    CASE used = {} -> 0
      [] used # {} /\ 0 \notin used -> Min(used) - 1
      [] 0 \in used /\ MaxId \notin used -> Max(used) + 1
      [] 0 \in used /\ MaxId \in used -> Min(Gaps(used)) + 1

-----------------------------------------------------------------------------
(* resolve() and cancel()                                                  *)

\* Where sendIter refers to: the request was appended last.
SendIter(r) == Max({i \in DOMAIN sendList : sendList[i] = r})

\* Mutant of RemoveResolver: the request stays in the send list.
RemoveResolverNotFromList(r) ==
    /\ resolversMap' = [resolversMap EXCEPT ![r] = Null]
    /\ UNCHANGED <<sendList, unsent>>

\* RemoveResolver(): what sendIter refers to is erased from the list, if anything.
\* Another entry of the request stays, and refers to nothing any more.
RemoveResolver(r) ==
    /\ resolversMap' = [resolversMap EXCEPT ![r] = Null]
    /\ LET left == IF r \in unsent THEN RemoveAt(sendList, SendIter(r)) ELSE sendList
       IN  sendList' = [i \in DOMAIN left |-> IF left[i] = r THEN Null ELSE left[i]]
    /\ unsent' = unsent \ {r}

Resolve(r, h) ==
    /\ Unlocked /\ pc # "failing"
    /\ r \notin Active
    /\ ~TooMany(UsedIds)
    /\ resolversMap' = [resolversMap EXCEPT
           ![r] = [id |-> FindFreeId(UsedIds), host |-> h, recordType |-> "AAAA"]]
    /\ sendList' = Append(sendList, r)
    /\ unsent' = unsent \cup {r}
    /\ IF pc = "done" THEN pc' = "loop" /\ quitFlag' = FALSE
                     ELSE UNCHANGED <<pc, quitFlag>>
    /\ UNCHANGED <<asked, callback>>

\* The thread is asked to quit when no request is left, or there was none.
Cancel(r) ==
    /\ Unlocked
    /\ RemoveResolver(r)
    /\ quitFlag' = (quitFlag \/ Active \subseteq {r})
    /\ UNCHANGED <<asked, callback, pc>>

\* RemoveResolver() and the call of on_completed().
Complete(r, result, ip) ==
    /\ RemoveResolver(r)
    /\ callback' = [to |-> r, answer |-> [result |-> result, ip |-> ip]]

-----------------------------------------------------------------------------
(* A round of run()                                                        *)

\* while(!quitFlag)
Loop ==
    /\ pc = "loop"
    /\ pc' = IF quitFlag THEN "quit" ELSE "round"
    /\ UNCHANGED <<requests, asked, callback, quitFlag>>

\* The mutex is taken.
Round ==
    /\ pc = "round"
    /\ pc' = "read"
    /\ UNCHANGED <<requests, asked, callback, quitFlag>>

\* Mutant of Matches: the host name is not compared.
MatchesId(r, q) == resolversMap[r].id = q.id

\* The reply to question q is for the request of r: same id and same host.
Matches(r, q) == resolversMap[r].id = q.id /\ resolversMap[r].host = q.host

\* ParseReplyFromDNS(): an answer counts if it is of the type r asks for now; that
\* there is none counts whatever type the question was of.
Parse(r, q) ==
    LET verdict == Zone[q.host][q.type]
    IN  IF verdict = "ok" /\ q.type # resolversMap[r].recordType THEN "dns_error" ELSE verdict

\* run() goes on to send, if the socket is ready for writing.
Continue == pc' \in {"sending", "timeouts"}

\* No packet, or one that matches no request.
ReadNothing ==
    /\ At("read")
    /\ Continue
    /\ UNCHANGED <<requests, asked, callback, quitFlag>>

ReadReply(r, q) ==
    /\ At("read")
    /\ Matches(r, q)
    /\ ~(Parse(r, q) = "not_found" /\ resolversMap[r].recordType = "AAAA")
    /\ Complete(r, Parse(r, q),
                IF Parse(r, q) = "ok" THEN [host |-> q.host, type |-> q.type] ELSE Null)
    /\ Continue
    /\ UNCHANGED <<asked, quitFlag>>

\* No AAAA record: r is to be sent again, asking for an A record.
ReadFallback(r, q) ==
    /\ At("read")
    /\ Matches(r, q)
    /\ Parse(r, q) = "not_found" /\ resolversMap[r].recordType = "AAAA"
    /\ Len(sendList) < MaxListed
    /\ resolversMap' = [resolversMap EXCEPT ![r].recordType = "A"]
    /\ sendList' = Append(sendList, r)
    /\ unsent' = unsent \cup {r}
    /\ Continue
    /\ UNCHANGED <<asked, callback, quitFlag>>

\* The first request of the list was not destroyed.
CanSend == sendList # <<>> /\ Head(sendList) # Null

\* SendRequestToDNS() for the first request of the list.  A packet that is lost is
\* one no reply to which is ever read; beyond the bound an older one is forgotten.
SendOne ==
    /\ At("sending") /\ CanSend
    /\ LET r == Head(sendList)
           q == [id |-> resolversMap[r].id, host |-> resolversMap[r].host,
                 type |-> resolversMap[r].recordType]
       IN /\ unsent' = unsent \ {r}
          /\ \E old \in SUBSET (asked \ {q}) :
                /\ Cardinality(old) < MaxAsked
                /\ old = asked \ {q} \/ Cardinality(old) = MaxAsked - 1
                /\ asked' = old \cup {q}
    /\ sendList' = Tail(sendList)
    /\ UNCHANGED <<resolversMap, callback, quitFlag, pc>>

\* The request at the front has no valid address of a DNS server, or none is known.
SendNoServer(r) ==
    /\ At("sending")
    /\ sendList # <<>> /\ r = Head(sendList)
    /\ Complete(r, "error", Null)
    /\ UNCHANGED <<asked, quitFlag, pc>>

\* The request at the front was destroyed.
SendDangling ==
    /\ At("sending")
    /\ sendList # <<>> /\ Head(sendList) = Null
    /\ pc' = "undefined"
    /\ UNCHANGED <<requests, asked, callback, quitFlag>>

\* All is sent, or the socket is not ready for more.
SendingStops ==
    /\ At("sending")
    /\ sendList = <<>> \/ CanSend
    /\ pc' = "timeouts"
    /\ UNCHANGED <<requests, asked, callback, quitFlag>>

\* The error flag of the socket is set or recieve() throws, or sending does.
SocketFails ==
    /\ At("read") \/ (At("sending") /\ CanSend)
    /\ pc' = "failing"
    /\ UNCHANGED <<requests, asked, callback, quitFlag>>

\* RemoveAllResolvers()
FailOne(r) ==
    /\ At("failing")
    /\ Complete(r, "error", Null)
    /\ UNCHANGED <<asked, quitFlag, pc>>

\* The thread ends; the next one has a socket and a list of its own.
FailingEnds ==
    /\ At("failing") /\ Active = {}
    /\ pc' = "done"
    /\ asked' = {} /\ sendList' = <<>>
    /\ UNCHANGED <<resolversMap, unsent, callback, quitFlag>>

Expire(r) ==
    /\ At("timeouts")
    /\ Complete(r, "timeout", Null)
    /\ UNCHANGED <<asked, quitFlag, pc>>

\* The round is over.  Without a request the thread ends, as when it fails.
RoundEnds ==
    /\ At("timeouts")
    /\ \/ /\ Active = {}
          /\ pc' = "done"
          /\ asked' = {} /\ sendList' = <<>>
       \/ /\ Active # {}
          /\ pc' = "loop"
          /\ UNCHANGED <<asked, sendList>>
    /\ UNCHANGED <<resolversMap, unsent, callback, quitFlag>>

CallbackReturns ==
    /\ callback # Null
    /\ callback' = Null
    /\ UNCHANGED <<requests, asked, quitFlag, pc>>

Next ==
    \/ \E r \in Resolvers, h \in Hosts : Resolve(r, h)
    \/ \E r \in Resolvers : Cancel(r)
    \/ \E r \in Active : SendNoServer(r) \/ Expire(r) \/ FailOne(r)
    \/ \E r \in Active, q \in asked : ReadReply(r, q) \/ ReadFallback(r, q)
    \/ Loop \/ Round \/ ReadNothing
    \/ SendOne \/ SendDangling \/ SendingStops
    \/ SocketFails \/ FailingEnds \/ RoundEnds \/ CallbackReturns

Spec == Init /\ [][Next]_vars

-----------------------------------------------------------------------------
(* Properties                                                              *)

\* No two active requests have the same id, however ids are freed and reused: a
\* reply is for one request at most.
IdsDistinct ==
    \A r, s \in Active : r # s => resolversMap[r].id # resolversMap[s].id

\* dns_resolver.cpp:144: resolve() throws too_many_requests only if all ids are
\* in use.
RefusedOnlyIfFull == TooMany(UsedIds) => UsedIds = Ids

Service == INSTANCE LookupService WITH
               wanted <- [r \in Resolvers |->
                             IF resolversMap[r] = Null THEN Null ELSE resolversMap[r].host],
               reported <- callback

\* The reply to a question for the other type may come, asked by the request of r before
\* it fell back or by an earlier one with its id and host.
AskedOtherwise(r) ==
    \E q \in asked : /\ q.id = resolversMap[r].id /\ q.host = resolversMap[r].host
                     /\ q.type # resolversMap[r].recordType

\* What run() makes of such a reply: "not_found" although there may be an A record, or
\* "dns_error" as the record is not of the type it looks for.
StaleReport ==
    \E r \in Active, result \in {"not_found", "dns_error"} :
        AskedOtherwise(r) /\ Service!Report(r, [result |-> result, ip |-> Null])

\* Every lookup ends as the service promises, however packets are lost, delayed,
\* repeated and reordered and ids are used again; but for a reply to a question for the
\* other type. It may make a "not_found" of a host with an A record, of which the DNS
\* server did not report "that there is not such domain name found" (dns_resolver.hpp:30).
MeetsService == Service!Init /\ [][Service!Next \/ StaleReport]_(Service!vars)

\* dns_resolver.cpp:736: a request that falls back to an A record is not in the
\* send list; so none is ever listed twice.
ListedOnce ==
    \A i, j \in DOMAIN sendList : sendList[i] = sendList[j] /\ sendList[i] # Null => i = j
=============================================================================
