---------------------------- MODULE LibraryProofs ----------------------------
(***************************************************************************)
(* For any lookups, any replies and any handlers of the application: what  *)
(* becomes of the handler of SIGPIPE, the types, the server a question is  *)
(* sent to, and the address that is reported.                              *)
(***************************************************************************)
EXTENDS Library, AddressProofs, PacketProofs, TLAPS

-----------------------------------------------------------------------------
(* The handler of SIGPIPE                                                  *)

\* What the guard leaves of the handler d.
Kept(d) == IF d = "default" THEN "ignore" ELSE d
Replaced(d) == d = chosen \/ (chosen = "ignore" /\ d = "default")

\* The handler at every stage of the guard; the lookup thread runs between its two ends.
GuardInv ==
    /\ GuardType
    /\ pc \in Points
    /\ guard = "none" => Replaced(sigpipe)
    /\ guard = "constructing" => ~since /\ sigpipe = "ignore" /\ Replaced(handler)
    /\ guard \in {"alive", "cleaning"} => sigpipe = IF since THEN chosen ELSE Kept(chosen)
    /\ guard = "restoring" =>
           sigpipe = "default" /\ handler = IF since THEN chosen ELSE Kept(chosen)
    /\ pc # "idle" => guard \in {"alive", "cleaning"}

LEMMA GuardInvInit == Init => GuardInv
BY DEF Init, GuardInit, GuardInv, GuardType, Points, Stages, Dispositions, Replaced

\* A request that ends is done, or what follows is undefined.
LEMMA LeaveEnds ==
    ASSUME Leave
    PROVE  pc' \in Ended /\ pc' \in Points /\ pc' \notin Listed \cup {"idle", "starting", "asked"}
BY DEF Leave, Ended, Points, Listed

LEMMA GuardInvStep == GuardInv /\ [Next]_vars => GuardInv'
<1> SUFFICES ASSUME GuardInv, [Next]_vars PROVE GuardInv'
  OBVIOUS
<1> USE DEF GuardInv, GuardType
<1>1. ASSUME NEW d \in Dispositions, Signal(d), UNCHANGED pc PROVE GuardInv'
  BY <1>1 DEF Signal, Replaced, Stages
<1>2. ASSUME Construct, UNCHANGED pc PROVE GuardInv'
  BY <1>2 DEF Construct, Replaced, Stages, Dispositions
<1>3. ASSUME Constructed, UNCHANGED pc PROVE GuardInv'
  BY <1>3 DEF Constructed, Replaced, Kept, Stages, Dispositions
<1>4. ASSUME BeginDestroy, UNCHANGED pc PROVE GuardInv'
  BY <1>4 DEF BeginDestroy, Stages
<1>5. ASSUME JoinedReset PROVE GuardInv'
  BY <1>5 DEF JoinedReset, ResetSignal, Stages, Dispositions
<1>6. ASSUME Destroyed, UNCHANGED pc PROVE GuardInv'
  BY <1>6 DEF Destroyed, Replaced, Kept, Stages, Dispositions
<1>7. ASSUME NEW l \in Lookups, NEW a \in Named(l.named), Resolve(l, a) PROVE GuardInv'
  BY <1>7 DEF Resolve, guardVars, Points
<1>8. ASSUME UNCHANGED guardVars, pc # "idle", pc' \in Points PROVE GuardInv'
  BY <1>8 DEF guardVars, Points
<1>9. CASE GuardStep
  BY <1>1, <1>2, <1>3, <1>4, <1>6, <1>9 DEF GuardStep
<1>10. CASE Start
  BY <1>8, <1>10 DEF Start, Points, Listed
<1>11. CASE SendQuestion
  BY <1>8, <1>11 DEF SendQuestion, Points, Listed
<1>12. CASE NoServerKnown
  BY <1>8, <1>12, LeaveEnds DEF NoServerKnown, Listed
<1>13. ASSUME NEW r \in Replies, Receive(r) PROVE GuardInv'
  <2>1. pc # "idle" /\ (pc' \in {"ready", "twice"} \/ Leave)
    BY <1>13 DEF Receive, Listed
  <2> QED
    BY <1>8, <1>13, <2>1, LeaveEnds DEF Receive, Points, Listed
<1>14. CASE Timeout
  BY <1>8, <1>14, LeaveEnds DEF Timeout, Listed
<1>15. CASE Cancel
  BY <1>8, <1>15, LeaveEnds DEF Cancel, Listed
<1>16. CASE RunEnds
  BY <1>8, <1>16 DEF RunEnds, Points
<1>17. CASE UNCHANGED vars
  BY <1>17 DEF vars, guardVars, Replaced
<1>18. CASE SocketFails
  BY <1>8, <1>18 DEF SocketFails, Complete, Points, Listed
<1> QED
  BY <1>5, <1>7, <1>9, <1>10, <1>11, <1>12, <1>13, <1>14, <1>15, <1>16, <1>17, <1>18
     DEF Next

LEMMA GuardInvCorrect == Spec => []GuardInv
BY GuardInvInit, GuardInvStep, PTL DEF Spec

\* While the guard lives and the thread runs, SIGPIPE does not end the process unless the
\* application has asked for that (init_guard.cpp:31-36, 53-59).
THEOREM SignalSafeCorrect == Spec => []SignalSafe
<1>1. GuardInv => SignalSafe
  BY DEF GuardInv, SignalSafe, Kept
<1> QED
  BY <1>1, GuardInvCorrect, PTL

\* A guard that comes and goes leaves the handler of the application (init_guard.cpp:31-36, 53-59).
THEOREM DispositionKeptCorrect == Spec => []DispositionKept
<1>1. GuardInv => DispositionKept
  BY DEF GuardInv, DispositionKept, Replaced
<1> QED
  BY <1>1, GuardInvCorrect, PTL

-----------------------------------------------------------------------------
(* The address a question is sent to                                       *)

LEMMA DecimalPartType ==
    ASSUME NEW v \in Half
    PROVE  DecimalPart(v) \in Half
<1> DEFINE P == {p \in Heads(v) : IsDecimal(p)}
<1>1. v \in Nat /\ v < 65536
  BY DEF Half
<1>2. Heads(v) \subseteq 0 .. v
  BY <1>1 DEF Heads
<1>3. 0 \in P
  <2>1. 0 \in Heads(v)
    BY DEF Heads
  <2>2. 0 \div 4096 = 0 /\ (0 \div 256) % 16 = 0 /\ (0 \div 16) % 16 = 0 /\ 0 % 16 = 0
    OBVIOUS
  <2>3. IsDecimal(0)
    BY <2>2 DEF IsDecimal
  <2> QED
    BY <2>1, <2>3
<1>4. P \in SUBSET (0 .. v) /\ P # {}
  BY <1>2, <1>3
<1> HIDE DEF P
<1>5. Max(P) \in P
  <2>1. v \in Nat
    BY <1>1
  <2> QED
    BY <1>4, <2>1, MaxOfNaturals
<1>6. Max(P) \in 0 .. v
  BY <1>4, <1>5
<1>7. DecimalPart(v) = Max(P)
  BY DEF DecimalPart, P
<1> QED
  BY <1>1, <1>6, <1>7 DEF Half

LEMMA CutType ==
    ASSUME NEW t, IsText(t)
    PROVE  IsText(Cut(t))
<1>1. CASE t.form # "v6"
  BY <1>1 DEF Cut
<1>2. CASE t.form = "v6"
  <2> DEFINE I == {i \in 1 .. Len(t.groups) : ~IsDecimal(t.groups[i])}
             k == IF I # {} THEN Min(I) ELSE 0
             before == SubSeq(t.groups, 1, k - 1)
             part == DecimalPart(t.groups[k])
             longer == Append(before, part)
             gapped == Len(t.groups) < 8
  <2>1. t.groups \in Seq(Half) /\ Len(t.groups) <= 8 /\ t.gap \in 0 .. Len(t.groups)
    BY <1>2 DEF IsText
  <2>2. Len(t.groups) \in Nat
    BY <2>1, LenProperties
  <2>3. CASE k = 0
    BY <1>2, <2>3 DEF Cut, SelectInSeq
  <2>4. CASE k # 0
    <3>1. I \in SUBSET Nat /\ I # {}
      BY <2>4
    <3>2. k \in 1 .. Len(t.groups)
      BY <3>1, MinOfNaturals
    <3> HIDE DEF k, I
    <3>3. \A i \in 1 .. k - 1 : t.groups[i] \in Half
      BY <2>1, <3>2
    <3>4. before \in Seq(Half) /\ Len(before) = k - 1
      BY <2>2, <3>2, <3>3, SubSeqProperties
    <3>5. part \in Half
      BY <2>1, <3>2, DecimalPartType
    <3> HIDE DEF before, part
    <3>6. longer \in Seq(Half) /\ Len(longer) = Len(before) + 1
      BY <3>4, <3>5, AppendProperties
    <3> HIDE DEF longer
    <3>7. Len(longer) = k
      BY <2>2, <3>2, <3>4, <3>6
    <3>8. t.gap = k - 1 => IsText(V6Text(before, t.gap))
      BY <2>1, <2>2, <3>2, <3>4 DEF IsText, V6Text
    <3>9. (gapped /\ t.gap < k) \/ k = 8 => IsText(V6Text(longer, t.gap))
      BY <2>1, <2>2, <3>2, <3>6, <3>7 DEF IsText, V6Text
    <3>10. IsText(BadText)
      BY DEF IsText, BadText
    <3> QED
      BY <1>2, <2>4, <3>8, <3>9, <3>10 DEF Cut, SelectInSeq, k, I, before, part, longer
  <2> QED
    BY <2>3, <2>4
<1> QED
  BY <1>1, <1>2

LEMMA InitDNSType ==
    ASSUME NEW f, \A i \in DOMAIN f : IsText(f[i].text), DOMAIN f = 1 .. Len(f)
    PROVE  InitDNS(f) \in AllAddresses
<1> DEFINE I == {i \in 1 .. Len(f) : Usable(f[i])}
<1>1. NoServer \in AllAddresses
  <2>1. Zero \in Quads /\ 0 \in Half
    BY DEF Zero, Quads, Half
  <2> QED
    BY <2>1, V4Type DEF NoServer, AllAddresses
<1>2. CASE I = {}
  BY <1>1, <1>2 DEF InitDNS, SelectInSeq
<1>3. CASE I # {}
  <2>1. I \in SUBSET Nat
    OBVIOUS
  <2>2. Min(I) \in I
    BY <1>3, <2>1, MinOfNaturals
  <2> DEFINE t == Cut(f[Min(I)].text)
             h == CHOOSE h \in Parse(t) : TRUE
  <2>3. IsText(t)
    BY <2>2, CutType
  <2>4. Parse(t) # {} /\ Parse(t) \subseteq Ips
    BY <2>2, <2>3, ParseType DEF Usable
  <2>5. h \in Ips
    BY <2>4
  <2>6. Min(I) # 0
    BY <2>2
  <2>7. InitDNS(f) = [host |-> h, port |-> DnsPort]
    BY <1>3, <2>6 DEF InitDNS, SelectInSeq
  <2> HIDE DEF h
  <2> QED
    BY <2>5, <2>7 DEF AllAddresses, DnsPort, Half
<1> QED
  BY <1>2, <1>3

\* The types, and that the question that waits for a reply went to the server.
LookupInv ==
    /\ TypeOK
    /\ pc \in {"again", "asked"} => peer = ToSockaddr(server)

LEMMA NoServerType == NoServer \in AllAddresses
<1>1. Zero \in Quads /\ 0 \in Half
  BY DEF Zero, Quads, Half
<1> QED
  BY <1>1, V4Type DEF NoServer, AllAddresses

LEMMA NamedType ==
    ASSUME NEW l \in Lookups
    PROVE  Named(l.named) \subseteq AllAddresses
<1>1. CASE l.named = Null
  BY <1>1, NoServerType DEF Named
<1>2. CASE l.named # Null
  BY <1>2, LibraryAssumption, ReadAddressType DEF Named, IsAddressText
<1> QED
  BY <1>1, <1>2

LEMMA FileTexts ==
    ASSUME NEW f, f = NoFile \/ \E l \in Lookups : f = l.file
    PROVE  /\ DOMAIN f = 1 .. Len(f) /\ Len(f) \in Nat
           /\ \A j \in DOMAIN f : IsText(f[j].text)
<1>1. CASE f = NoFile
  BY <1>1 DEF NoFile
<1>2. CASE \E l \in Lookups : f = l.file
  BY <1>2, LibraryAssumption
<1> QED
  BY <1>1, <1>2

LEMMA FileType ==
    ASSUME file = NoFile \/ \E l \in Lookups : file = l.file
    PROVE  InitDNS(file) \in AllAddresses
BY FileTexts, InitDNSType

LEMMA LookupInvInit == Init => LookupInv
BY GuardInvInit, NoServerType
   DEF Init, GuardInv, LookupInv, TypeOK, Points, RecordTypes, NoFile

LEMMA LookupInvStep == LookupInv /\ GuardInv /\ GuardInv' /\ [Next]_vars => LookupInv'
<1> SUFFICES ASSUME LookupInv, GuardInv, GuardInv', [Next]_vars PROVE LookupInv'
  OBVIOUS
<1>1. TypeOK /\ (pc \in {"again", "asked"} => peer = ToSockaddr(server))
  BY DEF LookupInv
<1>2. GuardType' /\ pc' \in Points
  BY DEF GuardInv
<1>3. ASSUME UNCHANGED <<request, wire, pc, dns>> PROVE LookupInv'
  BY <1>1, <1>2, <1>3 DEF LookupInv, TypeOK, request, wire
<1>4. CASE GuardStep
  BY <1>3, <1>4 DEF GuardStep
<1>5. CASE JoinedReset
  BY <1>3, <1>5 DEF JoinedReset
<1>6. ASSUME NEW l \in Lookups, NEW a \in Named(l.named), Resolve(l, a) PROVE LookupInv'
  <2>1. a \in AllAddresses
    BY NamedType
  <2> QED
    BY <1>1, <1>2, <1>6, <2>1 DEF Resolve, LookupInv, TypeOK, RecordTypes, wire
<1>7. CASE Start
  <2>1. InitDNS(file) \in AllAddresses
    BY <1>1, FileType DEF TypeOK
  <2> QED
    BY <1>1, <1>2, <1>7, <2>1 DEF Start, LookupInv, TypeOK, request, wire
<1>8. server \in AllAddresses /\ Chosen(server, dns) \in AllAddresses
  BY <1>1 DEF TypeOK, Chosen
<1>9. CASE SendQuestion
  BY <1>1, <1>2, <1>8, <1>9 DEF SendQuestion, LookupInv, TypeOK, NoFile
<1>10. CASE NoServerKnown
  <2>1. pc' \notin {"again", "asked"}
    BY <1>10, LeaveEnds DEF NoServerKnown, Listed
  <2> QED
    BY <1>1, <1>2, <1>8, <1>10, <2>1 DEF NoServerKnown, LookupInv, TypeOK, wire
<1>11. ASSUME NEW r \in Replies, Receive(r) PROVE LookupInv'
  <2>1. r.octets \in HeaderSize + 1 .. ReceiveBuffer
    <3>1. r.octets \in 0 .. ReceiveBuffer /\ r.octets >= HeaderSize + 1
      BY <1>11, LibraryAssumption DEF Receive
    <3> QED
      BY <3>1 DEF HeaderSize, ReceiveBuffer
  <2>2. pc' \in {"ready", "twice"} \/ Leave
    BY <1>11 DEF Receive
  <2>3. pc' \notin {"again", "asked"}
    BY <2>2, LeaveEnds DEF Listed
  <2>4. recordType' \in RecordTypes
    BY <1>1, <1>11 DEF Receive, TypeOK, RecordTypes
  <2>5. reply' = r /\ UNCHANGED <<host, server, named, file, dns>>
    BY <1>11 DEF Receive
  <2> QED
    BY <1>1, <1>2, <2>1, <2>3, <2>4, <2>5 DEF LookupInv, TypeOK
<1>12. CASE Timeout
  <2>1. pc' \notin {"again", "asked"}
    BY <1>12, LeaveEnds DEF Timeout, Listed
  <2> QED
    BY <1>1, <1>2, <1>12, <2>1 DEF Timeout, LookupInv, TypeOK, request, wire
<1>13. CASE Cancel
  <2>1. pc' \notin {"again", "asked"}
    BY <1>13, LeaveEnds DEF Cancel, Listed
  <2> QED
    BY <1>1, <1>2, <1>13, <2>1 DEF Cancel, LookupInv, TypeOK, request, wire
<1>14. CASE RunEnds
  BY <1>1, <1>2, <1>14, NoServerType DEF RunEnds, LookupInv, TypeOK, RecordTypes
<1>15. CASE UNCHANGED vars
  BY <1>3, <1>15 DEF vars
<1>16. CASE SocketFails
  BY <1>1, <1>2, <1>8, <1>16 DEF SocketFails, Complete, LookupInv, TypeOK, wire
<1> QED
  BY <1>4, <1>5, <1>6, <1>7, <1>9, <1>10, <1>11, <1>12, <1>13, <1>14, <1>15, <1>16 DEF Next

LEMMA LookupInvCorrect == Spec => []LookupInv
BY LookupInvInit, LookupInvStep, GuardInvCorrect, PTL DEF Spec

\* Whatever is resolved, and whatever is received, the fields of a request are what the
\* code takes them for: the server is an address and the reply is one of 13 to 512 bytes.
THEOREM LibraryTypeCorrect == Spec => []TypeOK
<1>1. LookupInv => TypeOK
  BY DEF LookupInv
<1> QED
  BY <1>1, LookupInvCorrect, PTL

\* The question is sent to the server of the request: its sockaddr reads back as that
\* address, also when it is mapped into IPv6 (udp_socket.cpp:149-201, 226-310).
THEOREM PeerIsServerCorrect == Spec => []PeerIsServer
<1>1. LookupInv => PeerIsServer
  <2> SUFFICES ASSUME LookupInv, pc \in {"again", "asked"}
               PROVE  /\ FromSockaddr(peer) = server
                      /\ IsV4(server.host) => FromSockaddr(Mapped(peer)) = server
    BY DEF PeerIsServer
  <2>1. server \in AllAddresses /\ peer = ToSockaddr(server)
    BY DEF LookupInv, TypeOK
  <2> QED
    BY <2>1, SockaddrReadsBack, MappedReadsBack
<1> QED
  BY <1>1, LookupInvCorrect, PTL

-----------------------------------------------------------------------------
(* A request from resolve() to the callback                                *)

\* A result is that of the reply that was parsed last, unless nothing was parsed.
ResultOfReply ==
    \/ result \in {NoResult, Result("error"), Result("timeout")}
    \/ /\ reply \in Replies /\ NameMayMatch(reply)
       /\ result = ParseReply(reply, host, recordType)

\* Which server a request has before and after its first question.
ServerInv ==
    /\ pc \in {"starting", "ready", "twice"} /\ question = Null => server \in Named(named)
    /\ pc \in {"ready", "twice"} /\ question = Null => dns = InitDNS(file)
    /\ question # Null => Chosen(server, dns) = server
    /\ pc \in {"again", "asked"} => question # Null
    /\ pc \in {"idle", "starting"} => question = Null

RequestInv ==
    /\ pc # "idle" => \E l \in Lookups : host = l.host /\ Size(host) <= 253
    /\ pc = "starting" => recordType = "AAAA"
    /\ pc \in {"twice", "again"} => recordType = "A"
    /\ pc \in {"again", "asked"} => question = Question(host, recordType)
    /\ ServerInv
    /\ pc \notin Ended => result = NoResult
    /\ ResultOfReply

LEMMA ChosenOnce ==
    ASSUME NEW asked, NEW known
    PROVE  Chosen(Chosen(asked, known), known) = Chosen(asked, known)
BY DEF Chosen

LEMMA RequestInvInit == Init => RequestInv
BY DEF Init, RequestInv, ServerInv, ResultOfReply, Ended

\* A request that ends keeps its server.
LEMMA ServerInvEnds ==
    ASSUME ServerInv, UNCHANGED <<question, dns>>, pc' \in Ended,
           server' \in {server, Chosen(server, dns)}
    PROVE  ServerInv'
BY ChosenOnce DEF ServerInv, Ended

LEMMA ServerInvStep == TypeOK /\ RequestInv /\ [Next]_vars => ServerInv'
<1> SUFFICES ASSUME TypeOK, RequestInv, [Next]_vars PROVE ServerInv'
  OBVIOUS
<1>1. ServerInv
  BY DEF RequestInv
<1>2. ASSUME UNCHANGED <<request, wire, pc, dns>> PROVE ServerInv'
  BY <1>1, <1>2 DEF ServerInv, request, wire
<1>3. CASE GuardStep
  BY <1>2, <1>3 DEF GuardStep
<1>4. CASE JoinedReset
  BY <1>2, <1>4 DEF JoinedReset
<1>5. ASSUME NEW l \in Lookups, NEW a \in Named(l.named), Resolve(l, a) PROVE ServerInv'
  BY <1>1, <1>5 DEF Resolve, ServerInv, wire
<1>6. CASE Start
  BY <1>1, <1>6 DEF Start, ServerInv, request, wire
<1>7. CASE SendQuestion
  <2>1. Chosen(server', dns') = server'
    BY <1>7, ChosenOnce DEF SendQuestion
  <2>2. pc # "idle"
    BY <1>7 DEF SendQuestion, Listed
  <2>3. PICK l \in Lookups : host = l.host
    BY <2>2 DEF RequestInv
  <2>4. recordType \in RecordTypes
    BY DEF TypeOK
  <2>5. question' # Null
    BY <1>7, <2>3, <2>4, LibraryAssumption DEF SendQuestion
  <2>6. pc' \in {"again", "asked"}
    BY <1>7 DEF SendQuestion
  <2> QED
    BY <2>1, <2>5, <2>6 DEF ServerInv
<1>8. CASE NoServerKnown
  BY <1>1, <1>8, ServerInvEnds, LeaveEnds DEF NoServerKnown, wire
<1>9. CASE SocketFails
  BY <1>1, <1>9, ServerInvEnds DEF SocketFails, Complete, wire, Ended
<1>10. ASSUME NEW r \in Replies, Receive(r) PROVE ServerInv'
  <2>1. UNCHANGED <<server, named, file, dns, question>> /\ pc \in Listed \cup {"asked"}
    BY <1>10 DEF Receive
  <2>2. CASE Leave
    BY <1>1, <2>1, <2>2, ServerInvEnds, LeaveEnds
  <2>3. CASE pc' = IF pc = "asked" THEN "ready" ELSE "twice"
    BY <1>1, <2>1, <2>3 DEF ServerInv, Listed
  <2> QED
    BY <1>10, <2>2, <2>3 DEF Receive
<1>11. CASE Timeout
  BY <1>1, <1>11, ServerInvEnds, LeaveEnds DEF Timeout, request, wire
<1>12. CASE Cancel
  BY <1>1, <1>12, ServerInvEnds, LeaveEnds DEF Cancel, request, wire
<1>13. CASE RunEnds
  BY <1>13 DEF RunEnds, ServerInv
<1>14. CASE UNCHANGED vars
  BY <1>2, <1>14 DEF vars
<1> QED
  BY <1>3, <1>4, <1>5, <1>6, <1>7, <1>8, <1>9, <1>10, <1>11, <1>12, <1>13, <1>14 DEF Next

\* A request that ends has the result of the reply, or one of no reply.
LEMMA RequestInvEnds ==
    ASSUME RequestInv, ServerInv', pc # "idle", pc' \in Ended, UNCHANGED host, ResultOfReply'
    PROVE  RequestInv'
BY DEF RequestInv, Ended

LEMMA RequestInvStep == TypeOK /\ RequestInv /\ [Next]_vars => RequestInv'
<1> SUFFICES ASSUME TypeOK, RequestInv, [Next]_vars PROVE RequestInv'
  OBVIOUS
<1>0. ServerInv'
  BY ServerInvStep
<1>1. pc \in Points /\ recordType \in RecordTypes
  BY DEF TypeOK
<1>2. ASSUME UNCHANGED <<request, wire, pc, dns, result>> PROVE RequestInv'
  BY <1>0, <1>2 DEF RequestInv, ResultOfReply, NameMayMatch, request, wire
<1>3. CASE GuardStep
  BY <1>2, <1>3 DEF GuardStep
<1>4. CASE JoinedReset
  BY <1>2, <1>4 DEF JoinedReset
<1>5. ASSUME NEW l \in Lookups, NEW a \in Named(l.named), Resolve(l, a) PROVE RequestInv'
  <2>1. pc = "idle" /\ result = NoResult /\ result' = result
    BY <1>5 DEF Resolve, RequestInv, Ended
  <2> QED
    BY <1>0, <1>5, <2>1 DEF Resolve, RequestInv, ResultOfReply, Ended
<1>6. CASE Start
  BY <1>0, <1>6 DEF Start, RequestInv, ResultOfReply, NameMayMatch, request, wire, Ended
<1>7. CASE SendQuestion
  BY <1>0, <1>7
     DEF SendQuestion, RequestInv, ResultOfReply, NameMayMatch, Listed, Ended
<1>8. ASSUME UNCHANGED host, pc' \in Ended, pc # "idle",
             result' \in {NoResult, Result("error"), Result("timeout")}
      PROVE  RequestInv'
  BY <1>0, <1>8, RequestInvEnds DEF ResultOfReply
<1>9. CASE NoServerKnown
  BY <1>8, <1>9, LeaveEnds DEF NoServerKnown, Listed
<1>10. CASE SocketFails
  BY <1>8, <1>10 DEF SocketFails, Complete, Listed, Ended
<1>11. ASSUME NEW r \in Replies, Receive(r) PROVE RequestInv'
  <2> DEFINE parsed == ParseReply(r, host, recordType)
  <2>1. /\ pc \in Listed \cup {"asked"} /\ reply' = r /\ UNCHANGED host
        /\ NameMayMatch(r)
    BY <1>11 DEF Receive
  <2>2. pc # "idle" /\ pc \notin Ended
    BY <2>1 DEF Listed, Ended
  <2>3. NameMayMatch(reply)' /\ result = NoResult
    BY <2>1, <2>2 DEF NameMayMatch, RequestInv
  <2>4. CASE parsed.result = "not_found" /\ recordType = "AAAA"
    <3>1. /\ recordType' = "A" /\ result' = result
          /\ pc' = IF pc = "asked" THEN "ready" ELSE "twice"
      BY <1>11, <2>4 DEF Receive
    <3> QED
      BY <1>0, <2>1, <2>2, <2>3, <3>1 DEF RequestInv, ResultOfReply, Ended
  <2>5. CASE ~(parsed.result = "not_found" /\ recordType = "AAAA")
    <3>1. Leave /\ result' = parsed /\ recordType' = recordType
      BY <1>11, <2>5 DEF Receive
    <3>2. ResultOfReply'
      BY <2>1, <2>3, <3>1 DEF ResultOfReply
    <3> QED
      BY <1>0, <2>1, <2>2, <3>1, <3>2, LeaveEnds, RequestInvEnds
  <2> QED
    BY <2>4, <2>5
<1>12. CASE Timeout
  <2>1. pc # "idle" /\ UNCHANGED host /\ result' = Result("timeout")
    BY <1>12 DEF Timeout, Listed, request
  <2> QED
    BY <1>8, <1>12, <2>1, LeaveEnds DEF Timeout
<1>13. CASE Cancel
  <2>1. pc # "idle" /\ pc \notin Ended /\ UNCHANGED <<host, result>>
    BY <1>13 DEF Cancel, Listed, Ended, request
  <2>2. result' = NoResult
    BY <2>1 DEF RequestInv
  <2> QED
    BY <1>8, <1>13, <2>1, <2>2, LeaveEnds DEF Cancel
<1>14. CASE RunEnds
  BY <1>0, <1>14 DEF RunEnds, RequestInv, ResultOfReply, Ended
<1>15. CASE UNCHANGED vars
  BY <1>2, <1>15 DEF vars
<1> QED
  BY <1>3, <1>4, <1>5, <1>6, <1>7, <1>9, <1>10, <1>11, <1>12, <1>13, <1>14, <1>15 DEF Next

LEMMA RequestInvCorrect == Spec => []RequestInv
<1>1. LookupInv /\ RequestInv /\ [Next]_vars => RequestInv'
  BY RequestInvStep DEF LookupInv
<1> QED
  BY <1>1, RequestInvInit, LookupInvCorrect, PTL DEF Spec

LEMMA HostType ==
    ASSUME NEW l \in Lookups
    PROVE  l.host \in Seq(Nat) /\ Len(l.host) > 0
<1>1. l.host \in Seq(0 .. 63) /\ Len(l.host) > 0
  BY LibraryAssumption
<1>2. 0 .. 63 \subseteq Nat
  OBVIOUS
<1> QED
  BY <1>1, <1>2, SeqMonotonic

\* The name in a question is read back as the one that was asked for, and the packet is as
\* long as what was written to it, if no label of the name is empty; and it fits the buffer
\* (dns_resolver.cpp, SendRequestToDNS() and ParseHostNameFromDNSPacket()).
THEOREM EchoIsRecognisedCorrect == Spec => []EchoIsRecognised
<1>1. RequestInv => EchoIsRecognised
  <2> SUFFICES ASSUME RequestInv, pc \in {"again", "asked"} PROVE EchoIsRecognised
    BY DEF EchoIsRecognised
  <2>1. PICK l \in Lookups : host = l.host /\ Size(host) <= 253
    BY DEF RequestInv
  <2>2. host \in Seq(Nat) /\ Len(host) > 0
    BY <2>1, HostType
  <2>3. question = Question(host, recordType)
    BY DEF RequestInv
  <2>4. /\ ReadName(question.labels) = host
               <=> host = <<0>> \/ \A i \in DOMAIN host : host[i] # 0
        /\ Last(host) # 0 => question.size = HeaderSize + Octets(question.labels) + 4
        /\ Size(host) <= 253 => question.size <= ReceiveBuffer
    BY <2>2, <2>3, QuestionReadsBack
  <2>5. (\A i \in DOMAIN host : host[i] # 0) => Last(host) # 0
    BY <2>2 DEF Last
  <2> QED
    BY <2>1, <2>4, <2>5 DEF EchoIsRecognised, NoHost
<1> QED
  BY <1>1, RequestInvCorrect, PTL

\* The port of the server an application names is the number its digits spell, if it has
\* any (address.cpp, the constructor from a string).
THEOREM PortAsSpelledCorrect == Spec => []PortAsSpelled
<1>1. TypeOK /\ RequestInv => PortAsSpelled
  <2> SUFFICES ASSUME TypeOK, RequestInv, pc = "starting", named # Null, named.digits # <<>>
               PROVE  server.port = Decimal(named.digits)
    BY DEF PortAsSpelled
  <2>1. server \in ReadAddress(named)
    BY DEF RequestInv, ServerInv, Named
  <2>2. IsAddressText(named)
    BY LibraryAssumption DEF TypeOK
  <2> QED
    BY <2>1, <2>2, ReadAddressPort
<1> QED
  BY <1>1, RequestInvCorrect, LibraryTypeCorrect, PTL

LEMMA ReplyType ==
    ASSUME NEW r \in Replies
    PROVE  /\ IsReply(r) /\ r.octets \in Nat
           /\ \A i \in 1 .. Len(r.answers) :
                  r.answers[i].type \in RecordTypes /\ r.answers[i].len >= DataSize(r.answers[i].type)
                      => r.answers[i].ip \in Ips
<1>1. /\ r.octets \in 0 .. ReceiveBuffer /\ IsReply(r)
      /\ \A i \in DOMAIN r.answers :
             LET a == r.answers[i]
             IN  a.type \in RecordTypes /\ a.len >= DataSize(a.type) => a.ip \in Ips
  BY LibraryAssumption
<1>2. DOMAIN r.answers = 1 .. Len(r.answers)
  BY <1>1 DEF IsReply
<1>3. r.octets \in Nat
  BY <1>1 DEF ReceiveBuffer
<1> QED
  BY <1>1, <1>2, <1>3, Zenon

\* An answer is looked for in every complete reply, whose name is that of the question.
LEMMA CompleteIsWalked ==
    ASSUME NEW r \in Replies, NEW name, NameReceived(r) => ReadName(r.labels) = name,
           NEW type, IsComplete(r, type), Len(r.answers) > 0
    PROVE  ParseReply(r, name, type) = ParseAnswers(r, type)
<1>1. IsReply(r) /\ r.octets \in Nat
  BY ReplyType
<1>2. /\ r.response /\ r.rcode = 0 /\ r.questions = 1 /\ r.count = Len(r.answers)
      /\ r.type = type /\ r.class = 1 /\ r.octets = FullSize(r)
  BY DEF IsComplete
<1>3. NameReceived(r)
  <2>1. 1 \in 1 .. Len(r.answers)
    BY <1>1 DEF IsReply
  <2>2. /\ AnswersEnd(r, 1) \in Nat /\ AnswersEnd(r, 1 - 1) \in Nat
        /\ AnswersEnd(r, 1) = AnswersEnd(r, 1 - 1) + AnswerSize(r.answers[1])
        /\ AnswerSize(r.answers[1]) \in Nat
        /\ AnswersEnd(r, 1) <= FullSize(r)
    BY <1>1, <2>1, AnswersEndStep, AnswerSizeType, AnswersEndBelow
  <2>3. AnswersEnd(r, 1 - 1) = QuestionEnd(r) /\ QuestionEnd(r) \in Nat
    BY <1>1, AnswersBegin, QuestionEndType
  <2>4. QuestionEnd(r) <= r.octets
    BY <1>1, <1>2, <2>2, <2>3
  <2>5. r.labels \in Seq(Nat) /\ Len(r.labels) \in Nat
    BY <1>1, LenProperties DEF IsReply
  <2>6. Octets(r.labels) \in Nat
    BY <2>5, TotalType DEF Octets
  <2> QED
    BY <1>1, <2>4, <2>6 DEF QuestionEnd, NameReceived, HeaderSize
<1> QED
  BY <1>2, <1>3 DEF ParseReply

LEMMA ReplyParsed ==
    ASSUME NEW r \in Replies, NEW name, NameReceived(r) => ReadName(r.labels) = name,
           NEW type \in RecordTypes
    PROVE  LET parsed == ParseReply(r, name, type)
               i == FirstOf(r, type)
           IN  /\ parsed.result = "ok" =>
                      /\ i \in 1 .. r.count /\ AnswersEnd(r, i) <= r.octets
                      /\ parsed.ip = r.answers[i].ip /\ parsed.ip \in Ips
               /\ IsComplete(r, type) /\ i # 0 => parsed.result = "ok"
<1> DEFINE parsed == ParseReply(r, name, type)
           walked == ParseAnswers(r, type)
           i == FirstOf(r, type)
<1>1. IsReply(r) /\ r.octets \in Nat
  BY ReplyType
<1>2. /\ \/ walked = Error
         \/ /\ walked = [result |-> "ok", ip |-> r.answers[i].ip]
            /\ i \in 1 .. Len(r.answers) /\ i <= r.count
            /\ AnswersEnd(r, i) <= r.octets
            /\ r.answers[i].type = type
            /\ r.answers[i].len >= DataSize(type)
      /\ /\ i # 0 /\ r.count = Len(r.answers) /\ FullSize(r) <= r.octets
         /\ \A j \in 1 .. Len(r.answers) : r.answers[j].owner.kind # "mixed"
         /\ r.answers[i].len >= DataSize(type)
         => walked.result = "ok"
  BY <1>1, FirstRecordFound
<1>3. \/ i = 0
      \/ i \in 1 .. Len(r.answers) /\ r.answers[i].type = type
  BY <1>1, FirstOfType
<1>4. Error.result = "dns_error" /\ Result("not_found").result = "not_found"
  BY DEF Error, Result
<1>5. parsed \in {Error, Result("not_found"), walked}
  BY DEF ParseReply
<1> HIDE DEF parsed, walked, i
<1>6. ASSUME parsed.result = "ok"
      PROVE  /\ i \in 1 .. r.count /\ AnswersEnd(r, i) <= r.octets
             /\ parsed.ip = r.answers[i].ip /\ parsed.ip \in Ips
  <2>1. /\ parsed = [result |-> "ok", ip |-> r.answers[i].ip]
        /\ i \in 1 .. Len(r.answers) /\ i <= r.count /\ AnswersEnd(r, i) <= r.octets
        /\ r.answers[i].type = type /\ r.answers[i].len >= DataSize(type)
    BY <1>2, <1>4, <1>5, <1>6
  <2>2. r.answers[i].ip \in Ips
    BY <2>1, ReplyType
  <2>3. i \in 1 .. r.count
    BY <1>1, <2>1 DEF IsReply
  <2> QED
    BY <2>1, <2>2, <2>3
<1>7. ASSUME IsComplete(r, type), i # 0 PROVE parsed.result = "ok"
  <2>1. i \in 1 .. Len(r.answers) /\ r.answers[i].type = type /\ Len(r.answers) \in Nat
    BY <1>1, <1>3, <1>7 DEF IsReply
  <2>2. /\ r.count = Len(r.answers) /\ r.octets = FullSize(r)
        /\ \A j \in 1 .. Len(r.answers) : r.answers[j].owner.kind # "mixed"
        /\ r.answers[i].len = DataSize(type)
    BY <1>1, <1>7, <2>1 DEF IsComplete, IsReply
  <2>3. DataSize(type) \in Nat /\ FullSize(r) \in Nat
    BY <1>1, <2>2 DEF DataSize
  <2>4. walked.result = "ok"
    BY <1>2, <1>7, <2>2, <2>3
  <2>5. parsed = walked
    BY <1>7, <2>1, CompleteIsWalked DEF parsed, walked
  <2> QED
    BY <2>4, <2>5
<1> QED
  BY <1>6, <1>7 DEF parsed, i

LEMMA ResultParsed ==
    ASSUME TypeOK, RequestInv, result.result \in {"ok", "dns_error", "not_found"}
    PROVE  /\ reply \in Replies /\ recordType \in RecordTypes
           /\ NameReceived(reply) => ReadName(reply.labels) = host
           /\ result = ParseReply(reply, host, recordType)
<1>1. result \notin {NoResult, Result("error"), Result("timeout")}
  BY DEF NoResult, Result
<1>2. ResultOfReply /\ recordType \in RecordTypes
  BY DEF RequestInv, TypeOK
<1> QED
  BY <1>1, <1>2 DEF ResultOfReply, NameMayMatch

\* What is reported is the first record of the type that was asked for, received in full;
\* a complete reply with such a record is not refused (dns_resolver.cpp, ParseReplyFromDNS()).
THEOREM FirstRecordReportedCorrect == Spec => []FirstRecordReported
<1>1. TypeOK /\ RequestInv => FirstRecordReported
  <2> SUFFICES ASSUME TypeOK, RequestInv,
                      pc \in Ended, result.result \in {"ok", "dns_error", "not_found"}
               PROVE  LET i == FirstOf(reply, recordType)
                      IN  /\ result.result = "ok" =>
                                 /\ i \in 1 .. reply.count
                                 /\ AnswersEnd(reply, i) <= reply.octets
                                 /\ result.ip = reply.answers[i].ip
                          /\ IsComplete(reply, recordType) /\ i # 0 => result.result = "ok"
    BY DEF FirstRecordReported, FirstOf
  <2> QED
    BY ResultParsed, ReplyParsed
<1> QED
  BY <1>1, RequestInvCorrect, LibraryTypeCorrect, PTL

-----------------------------------------------------------------------------
(* The choice of the server                                                *)

\* What the cut of a text leaves of it can be parsed only if the text can.
LEMMA CutParses ==
    ASSUME NEW t, IsText(t), Parse(Cut(t)) # {}
    PROVE  Parse(t) # {}
<1>1. CASE t.form = "v6"
  BY <1>1 DEF Parse, ParseV6
<1>2. CASE t.form # "v6"
  BY <1>2 DEF Cut, SelectInSeq
<1> QED
  BY <1>1, <1>2

\* What SelectInSeq makes of the places where its test holds.
FirstIn(I) == IF I # {} THEN Min(I) ELSE 0

LEMMA FirstInSet ==
    ASSUME NEW L \in Nat, NEW I \in SUBSET (1 .. L)
    PROVE  /\ FirstIn(I) = 0 <=> I = {}
           /\ FirstIn(I) # 0 => FirstIn(I) \in I /\ \A j \in I : FirstIn(I) <= j
<1>1. CASE I = {}
  BY <1>1 DEF FirstIn
<1>2. CASE I # {}
  <2>1. I \in SUBSET Nat /\ 0 \notin I
    OBVIOUS
  <2>2. Min(I) \in I /\ \A j \in I : Min(I) <= j
    BY <1>2, <2>1, MinOfNaturals
  <2>3. FirstIn(I) = Min(I)
    BY <1>2 DEF FirstIn
  <2> QED
    BY <1>2, <2>1, <2>2, <2>3
<1> QED
  BY <1>1, <1>2

LEMMA NoServerInvalid == ~IsValid(NoServer.host)
<1>1. Zero \in Quads
  BY DEF Zero, Quads, Half
<1> QED
  BY <1>1, V4Type DEF NoServer, IsValid

\* InitDNS() takes the first line whose address can be read, when no address up to
\* there is spelled with a letter; the server is not valid when it finds none.
LEMMA InitDNSFirst ==
    ASSUME NEW f, \A j \in DOMAIN f : IsText(f[j].text), DOMAIN f = 1 .. Len(f), Len(f) \in Nat,
           IsValid(InitDNS(f).host)
    PROVE  LET i == SelectInSeq(f, LAMBDA l : l.keyword /\ Parse(l.text) # {})
           IN  (\A j \in 1 .. i : HexFree(f[j])) =>
                   /\ i # 0 /\ InitDNS(f).host \in Parse(f[i].text) /\ InitDNS(f).port = 53
<1> DEFINE L == Len(f)
           I == {j \in 1 .. L : f[j].keyword /\ Parse(f[j].text) # {}}
           K == {j \in 1 .. L : Usable(f[j])}
           i == FirstIn(I)
           k == FirstIn(K)
<1>1. SelectInSeq(f, LAMBDA l : l.keyword /\ Parse(l.text) # {}) = i
  BY DEF SelectInSeq, FirstIn
<1>2. SelectInSeq(f, Usable) = k
  BY DEF SelectInSeq, FirstIn
<1>3. K \subseteq I
  BY CutParses DEF Usable
<1>4. /\ i = 0 <=> I = {}
      /\ i # 0 => i \in I /\ \A j \in I : i <= j
  BY FirstInSet, I \in SUBSET (1 .. L)
<1>5. /\ k = 0 <=> K = {}
      /\ k # 0 => k \in K /\ \A j \in K : k <= j
  BY FirstInSet, K \in SUBSET (1 .. L)
<1>6. ~IsValid(NoServer.host)
  BY NoServerInvalid
<1> SUFFICES ASSUME \A j \in 1 .. i : HexFree(f[j])
             PROVE  i # 0 /\ InitDNS(f).host \in Parse(f[i].text) /\ InitDNS(f).port = 53
  BY <1>1
<1>7. InitDNS(f) = IF k = 0 THEN NoServer
                   ELSE [host |-> CHOOSE h \in Parse(Cut(f[k].text)) : TRUE, port |-> DnsPort]
  BY <1>2 DEF InitDNS
<1> HIDE DEF i, k
<1>8. k # 0
  BY <1>6, <1>7
<1>9. i # 0 /\ i \in 1 .. L /\ k \in 1 .. L /\ i <= k
  BY <1>3, <1>4, <1>5, <1>8
<1>10. HexFree(f[i])
  BY <1>9, i \in 1 .. i
<1>11. i \in K
  BY <1>4, <1>9, <1>10 DEF Usable, HexFree
<1>12. i = k
  BY <1>5, <1>8, <1>9, <1>11
<1> DEFINE h == CHOOSE h \in Parse(Cut(f[k].text)) : TRUE
<1>13. Cut(f[k].text) = f[i].text /\ Parse(f[i].text) # {}
  BY <1>4, <1>9, <1>10, <1>12 DEF HexFree
<1>14. h \in Parse(f[i].text)
  BY <1>13
<1>15. InitDNS(f).host = h /\ InitDNS(f).port = 53
  BY <1>7, <1>8 DEF DnsPort
<1> HIDE DEF h
<1> QED
  BY <1>9, <1>14, <1>15

\* The first question goes to the server the application named, if the last quad of its
\* address is not zero; to the first in the file, up to which no address is spelled with a
\* letter, if it named none or one that is not valid; and later questions to the same
\* (dns_resolver.cpp, InitDNS() and run()).
THEOREM ServerChosenCorrect == Spec => ServerChosen
<1> DEFINE Trusted == named # Null /\ \A a \in ReadAddress(named) : GetV4(a.host) # Zero
           Unnamed == named = Null \/ \A a \in ReadAddress(named) : ~IsValid(a.host)
           i == SelectInSeq(file, LAMBDA l : l.keyword /\ Parse(l.text) # {})
           First == (\A j \in 1 .. i : HexFree(file[j])) =>
                        i # 0 /\ server'.host \in Parse(file[i].text) /\ server'.port = 53
           Right == IF question # Null THEN server' = server
                    ELSE /\ Trusted => server' \in ReadAddress(named)
                         /\ Unnamed => First
<1>1. ASSUME TypeOK, RequestInv, [Next]_vars, question' # Null
      PROVE  Right
  <2>1. ServerInv
    BY <1>1 DEF RequestInv
  <2>2. CASE question # Null
    <3>1. Chosen(server, dns) = server /\ pc \notin {"idle", "starting"}
      BY <2>1, <2>2 DEF ServerInv
    <3>2. server' = server
      BY <1>1, <2>2, <3>1
         DEF Next, GuardStep, JoinedReset, Resolve, Start, SendQuestion, NoServerKnown, SocketFails,
             Receive, Timeout, Cancel, RunEnds, vars, request
    <3> QED
      BY <2>2, <3>2
  <2>3. CASE question = Null
    <3>1. SendQuestion
      BY <1>1, <2>3 DEF Next, GuardStep, JoinedReset, Resolve, Start, NoServerKnown, SocketFails,
                        Receive, Timeout, Cancel, RunEnds, vars, wire
    <3>2. server' = Chosen(server, dns) /\ IsValid(server'.host) /\ pc \in Listed
      BY <3>1 DEF SendQuestion
    <3>3. server \in Named(named) /\ dns = InitDNS(file)
      BY <2>1, <2>3, <3>2 DEF ServerInv, Listed
    <3>4. ASSUME Trusted PROVE server' \in ReadAddress(named)
      <4>1. server \in ReadAddress(named)
        BY <3>3, <3>4 DEF Named
      <4> QED
        BY <3>2, <3>4, <4>1 DEF Chosen
    <3>5. ASSUME Unnamed PROVE First
      <4>1. ~IsValid(server.host)
        BY <3>3, <3>5, NoServerInvalid DEF Named
      <4>2. server' = InitDNS(file)
        BY <3>2, <3>3, <4>1 DEF Chosen
      <4>3. /\ DOMAIN file = 1 .. Len(file) /\ Len(file) \in Nat
            /\ \A j \in DOMAIN file : IsText(file[j].text)
        BY <1>1, FileTexts DEF TypeOK
      <4> QED
        BY <3>2, <4>2, <4>3, InitDNSFirst
    <3> QED
      BY <2>3, <3>4, <3>5
  <2> QED
    BY <2>2, <2>3
<1>2. TypeOK /\ RequestInv /\ [Next]_vars => [question' # Null => Right]_vars
  BY <1>1
<1> QED
  BY <1>2, RequestInvCorrect, LibraryTypeCorrect, PTL DEF Spec, ServerChosen
=============================================================================
