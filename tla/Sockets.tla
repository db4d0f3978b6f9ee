------------------------------- MODULE Sockets -------------------------------
(***************************************************************************)
(* The socket classes of src/src/setka: socket.cpp, tcp_socket.cpp,        *)
(* tcp_server_socket.cpp and udp_socket.cpp, as built for Linux.           *)
(*                                                                         *)
(* Socket objects of several threads share the descriptors of the process. *)
(* A step ends with the system call it makes, so between two calls of one  *)
(* open() other objects may be opened and closed, and the descriptor that  *)
(* was given up for the fall-back to IPv4 may go to another object.  Each  *)
(* system call may fail.  An object is used by one thread at a time.       *)
(*                                                                         *)
(* The wait set is external: add(), remove() and wait(), which sets        *)
(* readiness flags.  Data sent and received is left out.                   *)
(***************************************************************************)
EXTENDS Integers, FiniteSets

CONSTANTS
    Tcps,       \* tcp_socket objects
    Servers,    \* tcp_server_socket objects
    Udps,       \* udp_socket objects
    Readiness,  \* flags the wait set reports: "read", "write" or both
    Fds,        \* descriptors of the process; sockets cannot be made beyond them
    Invalid     \* invalid_socket

Duals == Servers \cup Udps      \* made for IPv6 and IPv4
Sockets == Tcps \cup Duals

ASSUME SocketsAssumption ==
    /\ Invalid \notin Fds
    /\ Readiness \subseteq {"read", "write"}
    /\ Tcps \cap Servers = {} /\ Tcps \cap Udps = {} /\ Servers \cap Udps = {}

VARIABLES
    sock,       \* descriptor of each object
    flags,      \* readiness_flags
    ipv4,       \* member of a udp_socket, local variable of server open()
    naggle,     \* disable_naggle of a tcp_server_socket
    added,      \* is the object in a wait set?
    pc,         \* what open() is about to do
    result,     \* how the object got its descriptor
    kernel      \* what the system knows of each descriptor

vars == <<sock, flags, ipv4, naggle, added, pc, result, kernel>>

Opening == {"dual", "bind", "listen", "nonblocking", "broadcast", "connect"}

\* "none": nobody gave it one, or open() threw.  "ok": open() or accept() returned.
\* "blocking": open() threw because set_nonblocking_mode() did.  "reassigned": open()
\* returned, and an assignment to the server socket threw since.
Results == {"none", "ok", "blocking", "reassigned"}

\* dual: IPV6_V6ONLY is off.  nodelay: TCP_NODELAY; of a listening descriptor, what its
\* open() was asked to do with the connections it accepts (the kernel is not told).
Descriptors ==
    [family : {4, 6}, dual : BOOLEAN, nonblocking : BOOLEAN, nodelay : BOOLEAN]

Unused == [family |-> 0, dual |-> FALSE, nonblocking |-> FALSE, nodelay |-> FALSE]
Created(family, nodelay) ==
    [family |-> family, dual |-> FALSE, nonblocking |-> FALSE, nodelay |-> nodelay]

InUse(fd) == kernel[fd] # Unused
IsOpen(s) == sock[s] # Invalid

Init ==
    /\ sock = [s \in Sockets |-> Invalid]
    /\ flags = [s \in Sockets |-> {}]
    /\ ipv4 \in [Duals -> BOOLEAN]        \* a udp_socket does not initialise it
    /\ \A v \in Servers : ~ipv4[v]
    /\ naggle = [v \in Servers |-> FALSE]
    /\ added = [s \in Sockets |-> FALSE]
    /\ pc = [s \in Sockets |-> "idle"]
    /\ result = [s \in Sockets |-> "none"]
    /\ kernel = [fd \in Fds |-> Unused]

-----------------------------------------------------------------------------
\* ::close() of the descriptor of s, if it has one.
Freed(s) == [fd \in Fds |-> IF fd = sock[s] THEN Unused ELSE kernel[fd]]

CloseSocket(s) ==
    /\ kernel' = Freed(s)
    /\ sock' = [sock EXCEPT ![s] = Invalid]
    /\ flags' = [flags EXCEPT ![s] = {}]

Returns(s, r) ==
    /\ pc' = [pc EXCEPT ![s] = "idle"]
    /\ result' = [result EXCEPT ![s] = r]

Continues(s, next) ==
    /\ pc' = [pc EXCEPT ![s] = next]
    /\ UNCHANGED result

\* ::socket() succeeds with any descriptor that is not in use.
Creates(s, family, nodelay) == \E fd \in Fds :
    /\ ~InUse(fd)
    /\ kernel' = [kernel EXCEPT ![fd] = Created(family, nodelay)]
    /\ sock' = [sock EXCEPT ![s] = fd]

\* Mutant of CloseAndThrow: the failure is not thrown.
CloseAndGoOn(s) ==
    /\ CloseSocket(s)
    /\ UNCHANGED <<pc, result>>

CloseAndThrow(s) ==
    /\ CloseSocket(s)
    /\ Returns(s, "none")

-----------------------------------------------------------------------------
\* tcp_socket::open() up to ::socket() and the option TCP_NODELAY, whose failure is
\* ignored.
OpenTcp(s) ==
    /\ pc[s] = "idle" /\ ~IsOpen(s)
    /\ \/ /\ \E family \in {4, 6}, nodelay \in BOOLEAN : Creates(s, family, nodelay)
          /\ Continues(s, "nonblocking")
       \/ /\ Returns(s, "none")
          /\ UNCHANGED <<sock, kernel>>
    /\ UNCHANGED <<flags, ipv4, naggle, added>>

Disables(s) == s \in Servers /\ naggle[s]

\* Mutant of OpenDual: ipv4 is not reset.
OpenDualKeepsFamily(s) ==
    /\ pc[s] = "idle" /\ ~IsOpen(s)
    /\ \/ Creates(s, 6, Disables(s)) /\ Continues(s, "dual")
       \/ Continues(s, "fallback") /\ UNCHANGED <<sock, kernel>>
    /\ UNCHANGED <<flags, ipv4, naggle, added>>

\* open() of a server or UDP socket up to ::socket(PF_INET6).
OpenDual(s) ==
    /\ pc[s] = "idle" /\ ~IsOpen(s)
    /\ ipv4' = [ipv4 EXCEPT ![s] = FALSE]
    /\ IF s \in Servers
       THEN \E disable \in BOOLEAN : naggle' = [naggle EXCEPT ![s] = disable]
       ELSE UNCHANGED naggle
    /\ \/ /\ Creates(s, 6, Disables(s)')
          /\ Continues(s, "dual")
       \/ /\ Continues(s, "fallback")
          /\ UNCHANGED <<sock, kernel>>
    /\ UNCHANGED <<flags, added>>

\* ::socket(PF_INET), after IPv6 failed.
Fallback(s) ==
    /\ pc[s] = "fallback"
    /\ \/ /\ Creates(s, 4, Disables(s))
          /\ ipv4' = [ipv4 EXCEPT ![s] = TRUE]
          /\ Continues(s, "bind")
       \/ /\ Returns(s, "none")
          /\ UNCHANGED <<sock, ipv4, kernel>>
    /\ UNCHANGED <<flags, naggle, added>>

\* setsockopt(IPV6_V6ONLY); when it fails the IPv6 descriptor is closed.
TurnOffV6Only(s) ==
    /\ pc[s] = "dual"
    /\ \/ /\ kernel' = [kernel EXCEPT ![sock[s]].dual = TRUE]
          /\ Continues(s, "bind")
          /\ UNCHANGED <<sock, flags>>
       \/ /\ CloseSocket(s)
          /\ Continues(s, "fallback")
    /\ UNCHANGED <<ipv4, naggle, added>>

\* ::bind().  A UDP socket that is given port 0 is not bound.  A server's ipv4 is not
\* read again.
Bind(s) ==
    /\ pc[s] = "bind"
    /\ \/ /\ Continues(s, IF s \in Servers THEN "listen" ELSE "nonblocking")
          /\ UNCHANGED <<sock, flags, kernel>>
       \/ CloseAndThrow(s)
    /\ ipv4' = [ipv4 EXCEPT ![s] = @ /\ s \in Udps]
    /\ UNCHANGED <<naggle, added>>

Listen(s) ==
    /\ pc[s] = "listen"
    /\ \/ /\ Continues(s, "nonblocking")
          /\ UNCHANGED <<sock, flags, kernel>>
       \/ CloseAndThrow(s)
    /\ UNCHANGED <<ipv4, naggle, added>>

\* Mutant of SetNonblocking: the flags are not cleared.
SetNonblockingKeepsFlags(s) ==
    /\ pc[s] = "nonblocking"
    /\ kernel' = [kernel EXCEPT ![sock[s]].nonblocking = TRUE]
    /\ IF s \in Servers
       THEN Returns(s, "ok")
       ELSE Continues(s, IF s \in Tcps THEN "connect" ELSE "broadcast")
    /\ UNCHANGED <<sock, flags, ipv4, naggle, added>>

\* set_nonblocking_mode() within open(), which does not catch what it throws.
\* Here open() of a server returns, and a TCP socket clears its flags to connect.
SetNonblocking(s) ==
    /\ pc[s] = "nonblocking"
    /\ \/ /\ kernel' = [kernel EXCEPT ![sock[s]].nonblocking = TRUE]
          /\ flags' = IF s \in Tcps THEN [flags EXCEPT ![s] = {}] ELSE flags
          /\ IF s \in Servers
             THEN Returns(s, "ok")
             ELSE Continues(s, IF s \in Tcps THEN "connect" ELSE "broadcast")
       \/ /\ Returns(s, "blocking")
          /\ UNCHANGED <<flags, kernel>>
    /\ UNCHANGED <<sock, ipv4, naggle, added>>

\* Mutant of Broadcast: the socket is not closed when it fails.
BroadcastLeftOpen(s) ==
    /\ pc[s] = "broadcast"
    /\ \E r \in {"ok", "none"} : Returns(s, r)
    /\ UNCHANGED <<sock, flags, kernel, ipv4, naggle, added>>

\* setsockopt(SO_BROADCAST), the last step of udp_socket::open().
Broadcast(s) ==
    /\ pc[s] = "broadcast"
    /\ \/ /\ flags' = [flags EXCEPT ![s] = {}]
          /\ Returns(s, "ok")
          /\ UNCHANGED <<sock, kernel>>
       \/ CloseAndThrow(s)
    /\ UNCHANGED <<ipv4, naggle, added>>

\* connect(), the last step of tcp_socket::open(); EINTR and EINPROGRESS are no errors.
Connect(s) ==
    /\ pc[s] = "connect"
    /\ \/ /\ Returns(s, "ok")
          /\ UNCHANGED <<sock, flags, kernel>>
       \/ CloseAndThrow(s)
    /\ UNCHANGED <<ipv4, naggle, added>>

-----------------------------------------------------------------------------
\* Mutant of Accept: the connection is left in blocking mode.
AcceptBlocking(v, t) ==
    /\ pc[v] = "idle" /\ IsOpen(v)
    /\ pc[t] = "idle" /\ ~IsOpen(t) /\ flags[t] = {}
    /\ Creates(t, kernel[sock[v]].family, naggle[v])
    /\ result' = [result EXCEPT ![t] = "ok"]
    /\ UNCHANGED <<flags, ipv4, naggle, added, pc>>

\* accept() into t, a tcp_socket just constructed.  The new descriptor is made
\* non-blocking, and if that fails the destructor of the local variable closes it.
Accept(v, t) ==
    /\ pc[v] = "idle" /\ IsOpen(v)
    /\ pc[t] = "idle" /\ ~IsOpen(t) /\ flags[t] = {}
    /\ \E fd \in Fds :
        /\ ~InUse(fd)
        /\ sock' = [sock EXCEPT ![t] = fd]
        /\ kernel' = [kernel EXCEPT ![fd] =
                        [Created(kernel[sock[v]].family, naggle[v])
                            EXCEPT !.nonblocking = TRUE]]
    /\ result' = [result EXCEPT ![t] = "ok"]
    /\ flags' = [flags EXCEPT ![v] = @ \ {"read"}]
    /\ UNCHANGED <<ipv4, naggle, added, pc>>

\* ::accept() fails, with or without a connection waiting, and an invalid socket is
\* returned; or set_nonblocking_mode() throws.
AcceptNothing(v) ==
    /\ pc[v] = "idle" /\ IsOpen(v)
    /\ flags' = [flags EXCEPT ![v] = @ \ {"read"}]
    /\ UNCHANGED <<sock, ipv4, naggle, added, pc, result, kernel>>

\* The flag is cleared first; the call may then succeed, find nothing or throw.
SendTcp(s) ==
    /\ pc[s] = "idle" /\ IsOpen(s)
    /\ flags' = [flags EXCEPT ![s] = @ \ {"write"}]
    /\ UNCHANGED <<sock, ipv4, naggle, added, pc, result, kernel>>

\* The same for a datagram, whose address is of the family of its own, not the socket's.
SendUdp(s) ==
    /\ pc[s] = "idle" /\ IsOpen(s)
    /\ flags' = [flags EXCEPT ![s] = @ \ {"write"}]
    /\ UNCHANGED <<sock, ipv4, naggle, added, pc, result, kernel>>

\* tcp_socket::recieve() clears the flag even of a socket that is not open.
ReceiveTcp(s) ==
    /\ pc[s] = "idle"
    /\ flags' = [flags EXCEPT ![s] = @ \ {"read"}]
    /\ UNCHANGED <<sock, ipv4, naggle, added, pc, result, kernel>>

ReceiveUdp(s) ==
    /\ pc[s] = "idle" /\ IsOpen(s)
    /\ flags' = [flags EXCEPT ![s] = @ \ {"read"}]
    /\ UNCHANGED <<sock, ipv4, naggle, added, pc, result, kernel>>

\* close(), which must not be called on a socket in a wait set.
Close(s) ==
    /\ pc[s] = "idle" /\ ~added[s]
    /\ CloseSocket(s)
    /\ result' = [result EXCEPT ![s] = "none"]
    /\ UNCHANGED <<ipv4, naggle, added, pc>>

\* ipv4 of a udp_socket just constructed.
Uninitialised(s) ==
    IF s \in Udps THEN \E v4 \in BOOLEAN : ipv4' = [ipv4 EXCEPT ![s] = v4]
                  ELSE UNCHANGED ipv4

\* The destructor, and the constructor of an object in the same place.
Renew(s) ==
    /\ pc[s] = "idle" /\ ~added[s]
    /\ CloseSocket(s)
    /\ Uninitialised(s)
    /\ naggle' = [v \in Servers |-> v # s /\ naggle[v]]
    /\ result' = [result EXCEPT ![s] = "none"]
    /\ UNCHANGED <<added, pc>>

\* Mutant of Moves: the descriptor that t had is not closed.
MovesWithoutClose(t, s) ==
    /\ sock' = [sock EXCEPT ![t] = sock[s], ![s] = Invalid]
    /\ result' = [result EXCEPT ![t] = result[s], ![s] = "none"]
    /\ UNCHANGED <<flags, kernel>>

\* operator=(): close() follows the assignment of the waitable and clears the flags that
\* came with it.  Whether waitable's assignment leaves those of s is not known here.
Moves(t, s) ==
    /\ kernel' = Freed(t)
    /\ sock' = [sock EXCEPT ![t] = sock[s], ![s] = Invalid]
    /\ \E left \in {flags[s], {}} : flags' = [flags EXCEPT ![t] = {}, ![s] = left]
    /\ result' = [result EXCEPT ![t] = result[s], ![s] = "none"]

\* Mutant of CopiesNaggle: disable_naggle is not copied.
CopiesNoNaggle(t, s) == t # s /\ UNCHANGED naggle

CopiesNaggle(t, s) == naggle' = [v \in Servers |-> naggle[IF v = t THEN s ELSE v]]

SameClass(t, s) == \E class \in {Tcps, Servers, Udps} : {s, t} \subseteq class

\* Move assignment.  That of the waitable throws when one of them is in a wait set; a
\* server socket has copied disable_naggle by then.
MoveAssign(t, s) ==
    /\ pc[t] = "idle" /\ pc[s] = "idle" /\ t # s
    /\ CopiesNaggle(t, s)
    /\ IF added[t] \/ added[s]
       THEN /\ result' = [result EXCEPT ![t] =
                                IF t \in Servers /\ @ = "ok" THEN "reassigned" ELSE @]
            /\ UNCHANGED <<sock, flags, ipv4, kernel>>
       ELSE /\ Moves(t, s)
            /\ ipv4' = [u \in Duals |-> ipv4[IF u = t /\ u \in Udps THEN s ELSE u]]
    /\ UNCHANGED <<added, pc>>

\* Move construction of t, which is in no wait set yet.  The move constructor of
\* udp_socket leaves ipv4 uninitialised.
MoveConstruct(t, s) ==
    /\ pc[t] = "idle" /\ pc[s] = "idle" /\ t # s
    /\ ~IsOpen(t) /\ ~added[t] /\ ~added[s]
    /\ Moves(t, s)
    /\ Uninitialised(t)
    /\ CopiesNaggle(t, s)
    /\ UNCHANGED <<added, pc>>

-----------------------------------------------------------------------------
\* opros::wait_set: external.
Add(s) ==
    /\ pc[s] = "idle" /\ IsOpen(s) /\ ~added[s]
    /\ added' = [added EXCEPT ![s] = TRUE]
    /\ UNCHANGED <<sock, flags, ipv4, naggle, pc, result, kernel>>

\* A listening socket is watched for connections only.
Reported(s) == IF s \in Servers THEN Readiness \ {"write"} ELSE Readiness

Remove(s) ==
    /\ pc[s] = "idle" /\ added[s]
    /\ added' = [added EXCEPT ![s] = FALSE]
    /\ UNCHANGED <<sock, flags, ipv4, naggle, pc, result, kernel>>

Wait(s) ==
    /\ pc[s] = "idle" /\ added[s]
    /\ \E ready \in SUBSET Reported(s) : flags' = [flags EXCEPT ![s] = ready]
    /\ UNCHANGED <<sock, ipv4, naggle, added, pc, result, kernel>>

Next ==
    \/ \E s \in Tcps : OpenTcp(s) \/ Connect(s) \/ SendTcp(s) \/ ReceiveTcp(s)
    \/ \E s \in Duals :
        \/ OpenDual(s) \/ Fallback(s) \/ TurnOffV6Only(s) \/ Bind(s) \/ Listen(s)
        \/ Broadcast(s)
    \/ \E v \in Servers : AcceptNothing(v) \/ \E t \in Tcps : Accept(v, t)
    \/ \E s \in Udps : SendUdp(s) \/ ReceiveUdp(s)
    \/ \E s \in Sockets :
        \/ SetNonblocking(s) \/ Close(s) \/ Renew(s) \/ Add(s) \/ Remove(s) \/ Wait(s)
        \/ \E t \in Sockets :
            SameClass(t, s) /\ (MoveAssign(t, s) \/ MoveConstruct(t, s))

Spec == Init /\ [][Next]_vars

-----------------------------------------------------------------------------
\* The type invariant.  open() goes on with its system calls only while it has a
\* descriptor, and only an open socket is in a wait set.
TypeOK ==
    /\ sock \in [Sockets -> Fds \cup {Invalid}]
    /\ flags \in [Sockets -> SUBSET Readiness]
    /\ ipv4 \in [Duals -> BOOLEAN]
    /\ naggle \in [Servers -> BOOLEAN]
    /\ added \in [Sockets -> BOOLEAN]
    /\ pc \in [Sockets -> Opening \cup {"idle", "fallback"}]
    /\ result \in [Sockets -> Results]
    /\ kernel \in [Fds -> Descriptors \cup {Unused}]
    /\ \A s \in Sockets :
        /\ pc[s] \in Opening => IsOpen(s)
        /\ pc[s] = "fallback" => ~IsOpen(s)
        /\ added[s] => IsOpen(s) /\ pc[s] = "idle"

\* Each descriptor in use belongs to exactly one object, and no object has one that is
\* not in use: whichever call of an open() fails and however objects are moved, nothing
\* leaks and nothing is closed twice, which would close the socket of another thread.
DescriptorOwned ==
    /\ \A s \in Sockets : IsOpen(s) => InUse(sock[s])
    /\ \A s, t \in Sockets : IsOpen(s) /\ sock[s] = sock[t] => s = t
    /\ \A fd \in Fds : InUse(fd) => \E s \in Sockets : sock[s] = fd

\* A socket that is open is non-blocking, and unless it is a TCP connection it takes
\* IPv4 as well, as recieve(), accept() and open() are documented.  The exception is
\* one whose open() threw because set_nonblocking_mode() did.
ReadyAsPromised ==
    \A s \in Sockets : pc[s] = "idle" /\ IsOpen(s) /\ result[s] # "blocking" =>
        LET d == kernel[sock[s]] IN
        /\ d.nonblocking
        /\ s \in Duals => d.family = 4 \/ d.dual

\* When open() threw for any other reason the socket is closed, and open() can be called
\* again; and an object that was closed or moved from has no descriptor.
FailureCloses ==
    \A s \in Sockets : pc[s] = "idle" => (IsOpen(s) <=> result[s] # "none")

\* The address that open() gives to bind() is of the family of the
\* descriptor, also when the object was open before with the other family.
BindsItsFamily ==
    \A s \in Duals : pc[s] = "bind" => (ipv4[s] <=> kernel[sock[s]].family = 4)

\* Connections get the Nagle setting the listening socket was opened with, however it was
\* moved since; but for a move that threw.
NaggleAsOpened ==
    \A v \in Servers : pc[v] = "idle" /\ result[v] = "ok" =>
        naggle[v] = kernel[sock[v]].nodelay

\* When open() of a TCP or UDP socket succeeds, no readiness is left that was reported
\* for a descriptor the object had before, even if it was moved from.
QuietWhenOpened == [][
    \A s \in Tcps \cup Udps : pc[s] # "idle" /\ result'[s] = "ok" /\ pc'[s] = "idle" =>
        flags'[s] = {}]_vars

\* Objects take, give up and hand on descriptors as DescriptorTable allows: whatever
\* call fails, none changes hands any other way or is replaced without being closed.
Table == INSTANCE DescriptorTable WITH
    Objects <- Sockets, open <- {fd \in Fds : InUse(fd)}, holds <- sock
OwnsDescriptors == Table!TableSpec
=============================================================================
