------------------------------- MODULE Library -------------------------------
(***************************************************************************)
(* One lookup from end to end in the life of the library: the guard that   *)
(* is made and destroyed around it, the DNS server it is sent to, the      *)
(* packets on the wire and the address it reports.                         *)
(*                                                                         *)
(* One request is followed.  The thread may serve others with the same     *)
(* socket, so a reply may come before the question is sent; how resolvers  *)
(* and their callers share the thread is in DnsLookup, how replies find    *)
(* their request in DnsExchange.  Here a reply has the id of the request.  *)
(***************************************************************************)
EXTENDS InitGuard, DnsServer, DnsPackets

CONSTANTS
    Lookups,    \* calls of resolve(): a host name, the text of an address the DNS
                \* server is made from (Null: none), and what /etc/resolv.conf holds
    Replies     \* what may be received from the network

RecordTypes == {"AAAA", "A"}

ASSUME LibraryAssumption ==
    /\ Null \notin Replies
    /\ \A r \in Replies :
           /\ r.octets \in 0 .. ReceiveBuffer
           /\ IsReply(r)
           /\ \A i \in DOMAIN r.answers :
                  LET a == r.answers[i]
                  IN  a.type \in RecordTypes /\ a.len >= DataSize(a.type) => a.ip \in Ips
    /\ \A l \in Lookups :
           /\ l.host \in Seq(0 .. 63) /\ Len(l.host) > 0
           /\ \A t \in RecordTypes : Question(l.host, t) # Null
           /\ l.named # Null => IsAddressText(l.named)
           /\ DOMAIN l.file = 1 .. Len(l.file)
           /\ \A i \in DOMAIN l.file : IsText(l.file[i].text)

NoFile == <<>>
NoResult == Result("none")

VARIABLES
    pc,          \* what the lookup thread is about to do; "idle": there is none
    host,        \* fields of dns::Resolver: the host name,
    server,      \* the DNS server,
    recordType,  \* and the type of record that is asked for
    named,       \* the text it was made from, until the server is asked
    file,        \* the contents of /etc/resolv.conf, until then
    dns,         \* LookupThread::dns
    peer,        \* the sockaddr the question was sent to
    question,    \* the question
    reply,       \* the reply that was parsed last
    result       \* what on_completed() was called with

request == <<host, server, recordType, named, file>>
wire == <<peer, question, reply>>
vars == <<guardVars, request, wire, pc, dns, result>>

\* The request is "ready" to be sent or was "asked".  It is listed "twice" after a
\* fall-back that came before it was sent, and when it was sent "again" is the other
\* entry.  "undefined": it has ended, and run() takes an entry of it from the send list.
Listed == {"ready", "twice", "again"}
Points == {"idle", "starting", "asked", "done", "undefined"} \cup Listed
Ended == {"done", "undefined"}
NoHost == <<0>>

TypeOK ==
    /\ GuardType
    /\ pc \in Points
    /\ host \in {l.host : l \in Lookups} \cup {NoHost}
    /\ server \in AllAddresses /\ dns \in AllAddresses
    /\ recordType \in RecordTypes
    /\ named = Null \/ \E l \in Lookups : named = l.named
    /\ file = NoFile \/ \E l \in Lookups : file = l.file
    /\ reply # Null => reply.octets \in HeaderSize + 1 .. ReceiveBuffer

Init ==
    /\ GuardInit
    /\ pc = "idle"
    /\ host = NoHost
    /\ server = NoServer /\ dns = NoServer
    /\ recordType = "AAAA"
    /\ named = Null
    /\ file = NoFile
    /\ peer = Null /\ question = Null /\ reply = Null
    /\ result = NoResult

-----------------------------------------------------------------------------
(* The guard.  The application ends its lookups before it destroys the     *)
(* guard (clean_up() asserts it), and clean_up() joins the lookup thread.  *)

GuardStep ==
    /\ pc # "undefined"
    /\ \/ \E d \in Dispositions : Signal(d)
       \/ Construct
       \/ Constructed
       \/ BeginDestroy /\ pc \in {"idle", "done"}
       \/ Destroyed
    /\ UNCHANGED <<request, wire, pc, dns, result>>

\* Mutant of JoinedReset: the handler is reset before the thread is joined.
JoinedResetEarly ==
    /\ ResetSignal
    /\ UNCHANGED <<request, wire, pc, dns, result>>

JoinedReset ==
    /\ pc = "idle"
    /\ ResetSignal
    /\ UNCHANGED <<request, wire, pc, dns, result>>

-----------------------------------------------------------------------------
(* The lookup                                                              *)

\* The DNS server argument of resolve(): none if its text is not an address.
Named(text) == IF text = Null THEN {NoServer} ELSE ReadAddress(text)

Resolve(l, a) ==
    /\ guard = "alive" /\ pc = "idle"
    /\ Size(l.host) <= 253
    /\ a \in Named(l.named)
    /\ host' = l.host /\ server' = a /\ recordType' = "AAAA"
    /\ named' = l.named /\ file' = l.file
    /\ pc' = "starting"
    /\ UNCHANGED <<guardVars, wire, dns, result>>

\* run() begins with InitDNS().
Start ==
    /\ pc = "starting"
    /\ dns' = InitDNS(file)
    /\ pc' = "ready"
    /\ UNCHANGED <<guardVars, request, wire, result>>

\* on_completed() is called, and the thread has nothing left to do.
Complete(res) == result' = res /\ pc' = "done"

\* The request ends while the thread goes on.  RemoveResolver() takes the entry sendIter
\* points to from the send list; another one is left with a pointer to what is deleted.
Leave == pc' \in IF pc \in {"twice", "again"} THEN Ended ELSE {"done"}

\* run() sends the question, the first one or that for an A record.  sendIter points to
\* the last entry, and the first one is taken from the list.
SendQuestion ==
    /\ pc \in Listed
    /\ server' = Chosen(server, dns)
    /\ IsValid(server'.host)
    /\ peer' = ToSockaddr(server')
    /\ question' = Question(host, recordType)
    /\ pc' = IF pc = "twice" THEN "again" ELSE "asked"
    /\ named' = Null /\ file' = NoFile
    /\ UNCHANGED <<guardVars, host, recordType, dns, reply, result>>

\* No server is known.
NoServerKnown ==
    /\ pc \in Listed
    /\ server' = Chosen(server, dns)
    /\ ~IsValid(server'.host)
    /\ result' = Result("error")
    /\ Leave
    /\ UNCHANGED <<guardVars, host, recordType, named, file, wire, dns>>

\* open(), send() or recieve() fails, or the socket has its error flag set.  The thread
\* ends, and with it the send list.
SocketFails ==
    /\ pc \in Listed \cup {"asked"}
    /\ server' \in {server, Chosen(server, dns)}
    /\ Complete(Result("error"))
    /\ UNCHANGED <<guardVars, host, recordType, named, file, wire, dns>>

\* run() looks for the name in the whole buffer: when the reply was cut inside its
\* name the rest is what an earlier packet left there, which may complete it.  Not for
\* the empty name: there ParseReplyFromDNS() would read on from where the name was cut.
NameMayMatch(r) == IF NameReceived(r) THEN ReadName(r.labels) = host ELSE host # NoHost

\* Replies that are too short or for another name are dropped.  The one that makes the
\* request fall back may be an answer to an earlier request with the same id.
Receive(r) ==
    /\ pc \in Listed \cup {"asked"}
    /\ r.octets >= HeaderSize + 1
    /\ NameMayMatch(r)
    /\ reply' = r
    /\ LET parsed == ParseReply(r, host, recordType)
       IN  IF parsed.result = "not_found" /\ recordType = "AAAA"
           THEN /\ recordType' = "A"
                /\ pc' = IF pc = "asked" THEN "ready" ELSE "twice"
                /\ UNCHANGED result
           ELSE result' = parsed /\ Leave /\ UNCHANGED recordType
    /\ UNCHANGED <<guardVars, host, server, named, file, dns, peer, question>>

Timeout ==
    /\ pc \in Listed \cup {"asked"}
    /\ result' = Result("timeout")
    /\ Leave
    /\ UNCHANGED <<guardVars, request, wire, dns>>

\* cancel(): the request is destroyed and on_completed() is not called.
Cancel ==
    /\ pc \in Listed \cup {"starting", "asked"}
    /\ Leave
    /\ UNCHANGED <<guardVars, request, wire, dns, result>>

\* run() returns and the thread is joined.
RunEnds ==
    /\ pc = "done"
    /\ pc' = "idle"
    /\ file' = NoFile
    /\ host' = NoHost /\ server' = NoServer /\ named' = Null /\ recordType' = "AAAA"
    /\ dns' = NoServer /\ result' = NoResult
    /\ peer' = Null /\ question' = Null /\ reply' = Null
    /\ UNCHANGED guardVars

Next ==
    \/ GuardStep
    \/ JoinedReset
    \/ \E l \in Lookups : \E a \in Named(l.named) : Resolve(l, a)
    \/ Start
    \/ SendQuestion
    \/ NoServerKnown
    \/ SocketFails
    \/ \E r \in Replies : Receive(r)
    \/ Timeout
    \/ Cancel
    \/ RunEnds

Spec == Init /\ [][Next]_vars

-----------------------------------------------------------------------------
(* Properties                                                              *)

\* From the end of its constructor, and as long as the lookup thread runs, a write to
\* a connection that was closed does not end the process, unless the application has
\* asked for that since; and a handler of the application stays in place.
SignalSafe ==
    (guard = "alive" \/ pc # "idle") /\ ~since
        => sigpipe = IF chosen = "default" THEN "ignore" ELSE chosen

\* Once the guard is gone the handler of SIGPIPE is what the application set last, but
\* for SIG_IGN: what was set before the guard was made is not remembered, and it may
\* be replaced by the default.
DispositionKept ==
    guard = "none" => sigpipe = chosen \/ (chosen = "ignore" /\ sigpipe = "default")

HexFree(line) == Cut(line.text) = line.text

\* The first question goes to the server the application named, if the last quad of its
\* address is not zero; if none was named, or its address is not valid, to the first one
\* listed whose address can be read, on port 53.  Later questions go to the same server.
\* Nothing is said of a valid IPv6 server whose last quad is zero, nor of a file that
\* spells an address with a letter up to there.
ServerChosen ==
    [][question' # Null =>
           IF question # Null THEN server' = server
           ELSE /\ named # Null /\ (\A a \in ReadAddress(named) : GetV4(a.host) # Zero)
                   => server' \in ReadAddress(named)
                /\ named = Null \/ (\A a \in ReadAddress(named) : ~IsValid(a.host)) =>
                      LET i == SelectInSeq(file, LAMBDA l : l.keyword /\ Parse(l.text) # {})
                      IN  (\A j \in 1 .. i : HexFree(file[j])) =>
                              i # 0 /\ server'.host \in Parse(file[i].text) /\ server'.port = 53
      ]_vars

\* The sockaddr of the question is that of the server: recieve() reads it back as the
\* same address, also when the system maps an IPv4 peer into IPv6.
PeerIsServer ==
    pc \in {"again", "asked"} =>
        /\ FromSockaddr(peer) = server
        /\ IsV4(server.host) => FromSockaddr(Mapped(peer)) = server

\* The port of an address text that spells one is the decimal number its digits spell.
\* Nothing is said of a text without a port.
PortAsSpelled ==
    pc = "starting" /\ named # Null /\ named.digits # <<>>
        => server.port = Decimal(named.digits)

\* The name a server echoes from the question is taken for the name asked for, and the
\* packet is as long as what was written to it, if no label of the name is empty; the
\* empty name is recognised too.  Every question fits into the buffer.
EchoIsRecognised ==
    pc \in {"again", "asked"} =>
        LET spelled == \A i \in DOMAIN host : host[i] # 0
        IN  /\ spelled \/ host = NoHost => ReadName(question.labels) = host
            /\ spelled => question.size = HeaderSize + Octets(question.labels) + 4
            /\ question.size <= ReceiveBuffer

\* Does the reply answer the question of that type without an error, in full, with
\* owners that the walk understands and records of the size of their type?
IsComplete(r, type) ==
    /\ r.response /\ r.rcode = 0 /\ r.questions = 1 /\ r.count = Len(r.answers)
    /\ r.type = type /\ r.class = 1 /\ r.octets = FullSize(r)
    /\ \A i \in DOMAIN r.answers :
           /\ r.answers[i].owner.kind # "mixed"
           /\ r.answers[i].type \in RecordTypes => r.answers[i].len = DataSize(r.answers[i].type)

\* The address reported is that of the first record of the type asked for, every byte of
\* which was received; and a complete reply with such a record is never refused.
FirstRecordReported ==
    pc \in Ended /\ result.result \in {"ok", "dns_error", "not_found"} =>
        LET i == SelectInSeq(reply.answers, LAMBDA a : a.type = recordType)
        IN  /\ result.result = "ok" =>
                   /\ i \in 1 .. reply.count /\ AnswersEnd(reply, i) <= reply.octets
                   /\ result.ip = reply.answers[i].ip
            /\ IsComplete(reply, recordType) /\ i # 0 => result.result = "ok"
=============================================================================
