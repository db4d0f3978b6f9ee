---------------------------- MODULE SocketsProofs ----------------------------
(***************************************************************************)
(* For any sets of sockets and descriptors: descriptors are owned by one   *)
(* object each, a socket whose open() returned is ready as promised, and   *)
(* one whose open() threw is closed but for the exception named.           *)
(***************************************************************************)
EXTENDS Sockets, TLAPS

-----------------------------------------------------------------------------
(* The inductive invariant                                                 *)

\* What the steps of open() have achieved when it has come to pc[s].
Progress(s) ==
    /\ pc[s] \in {"dual", "fallback", "bind", "listen", "broadcast"} => s \in Duals
    /\ pc[s] = "listen" => s \in Servers
    /\ pc[s] = "broadcast" => s \in Udps
    /\ pc[s] = "connect" => s \in Tcps
    /\ pc[s] = "dual" => kernel[sock[s]].family = 6 /\ ~ipv4[s]
    /\ pc[s] \in {"broadcast", "connect"} => kernel[sock[s]].nonblocking
    /\ s \in Duals /\ pc[s] \in {"bind", "listen", "nonblocking", "broadcast"} =>
        kernel[sock[s]].family = 4 \/ kernel[sock[s]].dual
    /\ s \in Servers /\ pc[s] \in Opening => naggle[s] = kernel[sock[s]].nodelay

\* The properties of one object, with what they rest on.
Good(s) ==
    /\ Progress(s)
    /\ pc[s] = "idle" /\ IsOpen(s) /\ result[s] # "blocking" =>
        /\ kernel[sock[s]].nonblocking
        /\ s \in Duals => kernel[sock[s]].family = 4 \/ kernel[sock[s]].dual
    /\ pc[s] = "idle" => (IsOpen(s) <=> result[s] # "none")
    /\ s \in Duals /\ pc[s] = "bind" => (ipv4[s] <=> kernel[sock[s]].family = 4)
    /\ s \in Servers /\ pc[s] = "idle" /\ result[s] = "ok" =>
        naggle[s] = kernel[sock[s]].nodelay

SocketsInv ==
    /\ TypeOK
    /\ DescriptorOwned
    /\ \A s \in Sockets : Good(s)

-----------------------------------------------------------------------------
(* Descriptors                                                             *)

LEMMA CreatedType ==
    ASSUME NEW family \in {4, 6}, NEW nodelay \in BOOLEAN
    PROVE  Created(family, nodelay) \in Descriptors /\ Created(family, nodelay) # Unused
BY DEF Created, Descriptors, Unused

LEMMA UsedIsDescriptor ==
    ASSUME TypeOK, DescriptorOwned, NEW s \in Sockets, IsOpen(s)
    PROVE  sock[s] \in Fds /\ kernel[sock[s]] \in Descriptors
BY DEF TypeOK, DescriptorOwned, IsOpen, InUse

LEMMA DescriptorsAreUsed == ASSUME NEW d \in Descriptors PROVE d # Unused
BY DEF Descriptors, Unused

\* Setting options of a descriptor leaves the owners alone.
LEMMA OptionKeepsOwners ==
    ASSUME DescriptorOwned, sock' = sock, \A fd \in Fds : InUse(fd)' <=> InUse(fd),
           TypeOK
    PROVE  DescriptorOwned'
BY DEF DescriptorOwned, IsOpen, TypeOK

\* A new descriptor is given to an object that has none.
LEMMA AllocateOwns ==
    ASSUME TypeOK, DescriptorOwned, NEW s \in Sockets, ~IsOpen(s), NEW d \in Descriptors,
           NEW fd \in Fds, ~InUse(fd),
           kernel' = [kernel EXCEPT ![fd] = d], sock' = [sock EXCEPT ![s] = fd]
    PROVE  /\ DescriptorOwned'
           /\ sock' \in [Sockets -> Fds \cup {Invalid}]
           /\ kernel' \in [Fds -> Descriptors \cup {Unused}]
           /\ IsOpen(s)' /\ kernel'[sock'[s]] = d
           /\ \A t \in Sockets \ {s} :
                sock'[t] = sock[t] /\ (IsOpen(t) => kernel'[sock[t]] = kernel[sock[t]])
<1>1. d # Unused /\ fd # Invalid
  BY DescriptorsAreUsed, SocketsAssumption
<1>2. sock' \in [Sockets -> Fds \cup {Invalid}] /\ sock'[s] = fd
  BY DEF TypeOK
<1>3. /\ kernel' \in [Fds -> Descriptors \cup {Unused}]
      /\ kernel'[fd] = d /\ \A g \in Fds \ {fd} : kernel'[g] = kernel[g]
  BY DEF TypeOK
<1>4. \A t \in Sockets \ {s} : /\ sock'[t] = sock[t]
                               /\ IsOpen(t) => sock[t] \in Fds \ {fd}
  BY DEF TypeOK, DescriptorOwned, IsOpen
<1>5. \A t \in Sockets : IsOpen(t)' => InUse(sock[t])'
  BY <1>1, <1>2, <1>3, <1>4 DEF DescriptorOwned, IsOpen, InUse
<1>6. \A t, u \in Sockets : IsOpen(t)' /\ sock'[t] = sock'[u] => t = u
  BY <1>1, <1>2, <1>4 DEF DescriptorOwned, IsOpen
<1>7. ASSUME NEW g \in Fds, InUse(g)' PROVE \E t \in Sockets : sock'[t] = g
  <2>1. CASE g = fd
    BY <1>2, <2>1
  <2>2. CASE g # fd
    <3>1. PICK t \in Sockets : sock[t] = g
      BY <1>3, <1>7, <2>2 DEF DescriptorOwned, InUse
    <3>2. t # s
      BY <3>1, SocketsAssumption DEF IsOpen
    <3> QED
      BY <1>4, <3>1, <3>2
  <2> QED
    BY <2>1, <2>2
<1> QED
  BY <1>1, <1>2, <1>3, <1>4, <1>5, <1>6, <1>7 DEF DescriptorOwned, IsOpen

LEMMA CreateOwns ==
    ASSUME TypeOK, DescriptorOwned, NEW s \in Sockets, ~IsOpen(s),
           NEW family \in {4, 6}, NEW nodelay \in BOOLEAN, Creates(s, family, nodelay)
    PROVE  /\ DescriptorOwned'
           /\ sock' \in [Sockets -> Fds \cup {Invalid}]
           /\ kernel' \in [Fds -> Descriptors \cup {Unused}]
           /\ IsOpen(s)' /\ kernel'[sock'[s]] = Created(family, nodelay)
           /\ \A t \in Sockets \ {s} :
                sock'[t] = sock[t] /\ (IsOpen(t) => kernel'[sock[t]] = kernel[sock[t]])
BY CreatedType, AllocateOwns DEF Creates

LEMMA CloseDisowns ==
    ASSUME TypeOK, DescriptorOwned, NEW s \in Sockets, CloseSocket(s)
    PROVE  /\ DescriptorOwned'
           /\ sock' \in [Sockets -> Fds \cup {Invalid}]
           /\ kernel' \in [Fds -> Descriptors \cup {Unused}]
           /\ flags' = [flags EXCEPT ![s] = {}]
           /\ ~IsOpen(s)'
           /\ \A t \in Sockets \ {s} :
                sock'[t] = sock[t] /\ (IsOpen(t) => kernel'[sock[t]] = kernel[sock[t]])
<1>1. sock' \in [Sockets -> Fds \cup {Invalid}] /\ sock'[s] = Invalid
  BY DEF CloseSocket, TypeOK
<1>2. /\ kernel' \in [Fds -> Descriptors \cup {Unused}]
      /\ \A fd \in Fds : kernel'[fd] = IF fd = sock[s] THEN Unused ELSE kernel[fd]
  BY DEF CloseSocket, Freed, TypeOK
<1>3. \A t \in Sockets \ {s} : /\ sock'[t] = sock[t]
                               /\ IsOpen(t) => sock[t] \in Fds /\ sock[t] # sock[s]
  BY DEF CloseSocket, TypeOK, DescriptorOwned, IsOpen
<1>4. DescriptorOwned'
  BY <1>1, <1>2, <1>3, SocketsAssumption DEF DescriptorOwned, IsOpen, InUse, TypeOK
<1> QED
  BY <1>1, <1>2, <1>3, <1>4 DEF CloseSocket, IsOpen

LEMMA MoveOwns ==
    ASSUME TypeOK, DescriptorOwned, NEW s \in Sockets, NEW t \in Sockets, t # s,
           Moves(t, s)
    PROVE  /\ DescriptorOwned'
           /\ sock' \in [Sockets -> Fds \cup {Invalid}]
           /\ kernel' \in [Fds -> Descriptors \cup {Unused}]
           /\ ~IsOpen(s)' /\ sock'[t] = sock[s]
           /\ \A u \in Sockets \ {s, t} : sock'[u] = sock[u]
           /\ \A u \in Sockets \ {t} : IsOpen(u) => kernel'[sock[u]] = kernel[sock[u]]
<1>1. /\ sock' \in [Sockets -> Fds \cup {Invalid}]
      /\ sock'[s] = Invalid /\ sock'[t] = sock[s]
      /\ \A u \in Sockets \ {s, t} : sock'[u] = sock[u]
  BY DEF Moves, TypeOK
<1>2. /\ kernel' \in [Fds -> Descriptors \cup {Unused}]
      /\ \A fd \in Fds : kernel'[fd] = IF fd = sock[t] THEN Unused ELSE kernel[fd]
  BY DEF Moves, Freed, TypeOK
<1>3. \A u \in Sockets \ {t} : IsOpen(u) => sock[u] \in Fds /\ sock[u] # sock[t]
  BY DEF TypeOK, DescriptorOwned, IsOpen
<1>4. DescriptorOwned'
  <2>1. \A u \in Sockets : IsOpen(u)' => InUse(sock[u])'
    BY <1>1, <1>2, <1>3, SocketsAssumption DEF DescriptorOwned, IsOpen, InUse
  <2> QED
    BY <1>1, <1>2, <1>3, <2>1, SocketsAssumption DEF DescriptorOwned, IsOpen, InUse, TypeOK
<1> QED
  BY <1>1, <1>2, <1>3, <1>4 DEF IsOpen

-----------------------------------------------------------------------------
(* Steps of one object                                                     *)

\* An object is as good as before if nothing of it changes.
LEMMA UntouchedStaysGood ==
    ASSUME SocketsInv, NEW t \in Sockets,
           sock'[t] = sock[t], pc'[t] = pc[t], result'[t] = result[t],
           t \in Duals => ipv4'[t] = ipv4[t],
           t \in Servers => naggle'[t] = naggle[t],
           IsOpen(t) => kernel'[sock[t]] = kernel[sock[t]]
    PROVE  Good(t)'
<1>1. /\ pc[t] \in Opening => IsOpen(t)
      /\ pc[t] = "idle" /\ result[t] = "ok" => IsOpen(t)
      /\ Good(t)
  BY DEF SocketsInv, TypeOK, Good
<1> QED
  BY <1>1 DEF Good, Progress, IsOpen, Opening

\* A step of open() that gets a descriptor for s.
LEMMA CreateInv ==
    ASSUME SocketsInv, NEW s \in Sockets, ~IsOpen(s), pc[s] \in {"idle", "fallback"},
           NEW family \in {4, 6}, NEW nodelay \in BOOLEAN, Creates(s, family, nodelay),
           NEW next \in Opening, Continues(s, next), UNCHANGED <<flags, added>>,
           ipv4' \in [Duals -> BOOLEAN], naggle' \in [Servers -> BOOLEAN],
           \A t \in Duals \ {s} : ipv4'[t] = ipv4[t],
           \A t \in Servers \ {s} : naggle'[t] = naggle[t],
           Good(s)'
    PROVE  SocketsInv'
<1>1. /\ DescriptorOwned'
      /\ sock' \in [Sockets -> Fds \cup {Invalid}]
      /\ kernel' \in [Fds -> Descriptors \cup {Unused}]
      /\ IsOpen(s)'
      /\ \A t \in Sockets \ {s} :
            sock'[t] = sock[t] /\ (IsOpen(t) => kernel'[sock[t]] = kernel[sock[t]])
  BY CreateOwns DEF SocketsInv
<1>2. /\ pc' \in [Sockets -> Opening \cup {"idle", "fallback"}]
      /\ pc'[s] = next /\ \A t \in Sockets \ {s} : pc'[t] = pc[t]
      /\ result' = result
  BY DEF Continues, SocketsInv, TypeOK
<1>3. ~added[s]
  BY DEF SocketsInv, TypeOK
<1>4. TypeOK'
  BY <1>1, <1>2, <1>3 DEF SocketsInv, TypeOK, IsOpen, Opening
<1>5. ASSUME NEW t \in Sockets \ {s} PROVE Good(t)'
  BY <1>1, <1>2, UntouchedStaysGood
<1> QED
  BY <1>1, <1>4, <1>5 DEF SocketsInv

LEMMA OpenTcpInv == ASSUME SocketsInv, NEW s \in Tcps, OpenTcp(s) PROVE SocketsInv'
<1>1. ASSUME NEW family \in {4, 6}, NEW nodelay \in BOOLEAN,
             Creates(s, family, nodelay), Continues(s, "nonblocking"),
             UNCHANGED <<flags, ipv4, naggle, added>>
      PROVE  SocketsInv'
  <2>1. s \in Sockets /\ s \notin Duals /\ s \notin Servers
    BY SocketsAssumption DEF Sockets, Duals
  <2>2. pc'[s] = "nonblocking"
    BY <1>1, <2>1 DEF Continues, SocketsInv, TypeOK
  <2>3. Good(s)'
    BY <2>1, <2>2 DEF Good, Progress
  <2> QED
    BY <1>1, <2>1, <2>3, CreateInv DEF OpenTcp, SocketsInv, TypeOK, Opening
<1>2. ASSUME Returns(s, "none"), UNCHANGED <<sock, kernel, flags, ipv4, naggle, added>>,
             ~IsOpen(s), pc[s] = "idle"
      PROVE  SocketsInv'
  <2>1. s \in Sockets /\ result[s] = "none"
    BY <1>2 DEF Sockets, SocketsInv, Good
  <2>2. pc' = pc /\ result' = result
    BY <1>2, <2>1 DEF Returns, SocketsInv, TypeOK
  <2>3. TypeOK' /\ DescriptorOwned'
    BY <1>2, <2>2 DEF SocketsInv, TypeOK, DescriptorOwned, IsOpen, InUse
  <2> QED
    BY <1>2, <2>2, <2>3, UntouchedStaysGood DEF SocketsInv
<1> QED
  BY <1>1, <1>2 DEF OpenTcp

\* Closing the descriptor of s.
LEMMA CloseInv ==
    ASSUME SocketsInv, NEW s \in Sockets, CloseSocket(s), ~added[s], UNCHANGED added,
           NEW next \in {"idle", "fallback"}, pc' = [pc EXCEPT ![s] = next],
           next = "fallback" => s \in Duals,
           NEW r \in Results, result' = [result EXCEPT ![s] = r],
           next = "idle" => r = "none",
           ipv4' \in [Duals -> BOOLEAN], naggle' \in [Servers -> BOOLEAN],
           \A t \in Duals \ {s} : ipv4'[t] = ipv4[t],
           \A t \in Servers \ {s} : naggle'[t] = naggle[t]
    PROVE  SocketsInv'
<1>1. /\ DescriptorOwned'
      /\ sock' \in [Sockets -> Fds \cup {Invalid}]
      /\ kernel' \in [Fds -> Descriptors \cup {Unused}]
      /\ flags' = [flags EXCEPT ![s] = {}]
      /\ ~IsOpen(s)'
      /\ \A t \in Sockets \ {s} :
            sock'[t] = sock[t] /\ (IsOpen(t) => kernel'[sock[t]] = kernel[sock[t]])
  BY CloseDisowns DEF SocketsInv
<1>2. /\ pc' \in [Sockets -> Opening \cup {"idle", "fallback"}]
      /\ result' \in [Sockets -> Results]
      /\ pc'[s] = next /\ result'[s] = r
      /\ \A t \in Sockets \ {s} : pc'[t] = pc[t] /\ result'[t] = result[t]
  BY DEF SocketsInv, TypeOK
<1>3. flags' \in [Sockets -> SUBSET Readiness]
  BY <1>1 DEF SocketsInv, TypeOK
<1>4. TypeOK'
  BY <1>1, <1>2, <1>3 DEF SocketsInv, TypeOK, IsOpen, Opening
<1>5. Good(s)'
  BY <1>1, <1>2 DEF Good, Progress, IsOpen, Opening
<1>6. ASSUME NEW t \in Sockets \ {s} PROVE Good(t)'
  BY <1>1, <1>2, UntouchedStaysGood
<1> QED
  BY <1>1, <1>4, <1>5, <1>6 DEF SocketsInv

LEMMA CloseAndThrowInv ==
    ASSUME SocketsInv, NEW s \in Sockets, pc[s] \in Opening, CloseAndThrow(s),
           UNCHANGED <<naggle, added>>,
           ipv4' \in [Duals -> BOOLEAN], \A t \in Duals \ {s} : ipv4'[t] = ipv4[t]
    PROVE  SocketsInv'
<1>1. ~added[s] /\ naggle' \in [Servers -> BOOLEAN]
  BY DEF SocketsInv, TypeOK, Opening
<1> QED
  BY <1>1, CloseInv DEF CloseAndThrow, Returns, Results

\* Steps that set options of a descriptor, or none.
LEMMA OptionInv ==
    ASSUME SocketsInv, NEW s \in Sockets, IsOpen(s), ~added[s], UNCHANGED <<sock, added>>,
           NEW d \in Descriptors, kernel' = [kernel EXCEPT ![sock[s]] = d],
           flags' \in [Sockets -> SUBSET Readiness],
           NEW next \in Opening \cup {"idle"}, pc' = [pc EXCEPT ![s] = next],
           NEW r \in Results, result' = [result EXCEPT ![s] = r],
           ipv4' \in [Duals -> BOOLEAN], \A t \in Duals \ {s} : ipv4'[t] = ipv4[t],
           UNCHANGED naggle,
           Good(s)'
    PROVE  SocketsInv'
<1>1. sock[s] \in Fds /\ d # Unused /\ InUse(sock[s])
  BY UsedIsDescriptor, DescriptorsAreUsed DEF SocketsInv, DescriptorOwned
<1>2. /\ kernel' \in [Fds -> Descriptors \cup {Unused}]
      /\ \A fd \in Fds : InUse(fd)' <=> InUse(fd)
  BY <1>1 DEF SocketsInv, TypeOK, InUse
<1>3. \A t \in Sockets \ {s} : IsOpen(t) => kernel'[sock[t]] = kernel[sock[t]]
  BY <1>1 DEF SocketsInv, TypeOK, DescriptorOwned, IsOpen
<1>4. DescriptorOwned'
  BY <1>2, OptionKeepsOwners DEF SocketsInv
<1>5. /\ pc' \in [Sockets -> Opening \cup {"idle", "fallback"}]
      /\ result' \in [Sockets -> Results]
      /\ pc'[s] = next /\ result'[s] = r
      /\ \A t \in Sockets \ {s} : pc'[t] = pc[t] /\ result'[t] = result[t]
  BY DEF SocketsInv, TypeOK
<1>6. TypeOK'
  BY <1>2, <1>5 DEF SocketsInv, TypeOK, IsOpen, Opening
<1>7. ASSUME NEW t \in Sockets \ {s} PROVE Good(t)'
  BY <1>3, <1>5, UntouchedStaysGood
<1> QED
  BY <1>4, <1>6, <1>7 DEF SocketsInv

\* Steps that change readiness flags or membership of the wait set only.
LEMMA FlagsInv ==
    ASSUME SocketsInv, UNCHANGED <<sock, ipv4, naggle, pc, result, kernel>>,
           flags' \in [Sockets -> SUBSET Readiness], added' \in [Sockets -> BOOLEAN],
           \A s \in Sockets : added'[s] => IsOpen(s) /\ pc[s] = "idle"
    PROVE  SocketsInv'
<1>1. TypeOK' /\ DescriptorOwned'
  BY DEF SocketsInv, TypeOK, DescriptorOwned, IsOpen, InUse
<1> QED
  BY <1>1, UntouchedStaysGood DEF SocketsInv

-----------------------------------------------------------------------------
(* The steps of open()                                                     *)

LEMMA OpenDualInv == ASSUME SocketsInv, NEW s \in Duals, OpenDual(s) PROVE SocketsInv'
<1>1. /\ s \in Sockets /\ s \notin Tcps /\ ~IsOpen(s) /\ pc[s] = "idle" /\ ~added[s]
      /\ UNCHANGED <<flags, added>>
  BY SocketsAssumption DEF Sockets, Duals, OpenDual, SocketsInv, TypeOK
<1>2. /\ ipv4' \in [Duals -> BOOLEAN] /\ ~ipv4'[s]
      /\ \A t \in Duals \ {s} : ipv4'[t] = ipv4[t]
  BY DEF OpenDual, SocketsInv, TypeOK
<1>3. /\ naggle' \in [Servers -> BOOLEAN]
      /\ \A t \in Servers \ {s} : naggle'[t] = naggle[t]
  BY DEF OpenDual, SocketsInv, TypeOK
<1>4. CASE Creates(s, 6, Disables(s)') /\ Continues(s, "dual")
  <2>1. Disables(s)' \in BOOLEAN /\ (s \in Servers => naggle'[s] = Disables(s)')
    BY <1>3 DEF Disables
  <2> DEFINE disable == Disables(s)'
  <2>2. Creates(s, 6, disable) /\ disable \in BOOLEAN
    BY <1>4, <2>1
  <2> HIDE DEF disable
  <2>3. kernel'[sock'[s]] = Created(6, disable) /\ IsOpen(s)'
    BY <1>1, <2>2, CreateOwns DEF SocketsInv
  <2>4. pc'[s] = "dual"
    BY <1>1, <1>4 DEF Continues, SocketsInv, TypeOK
  <2>5. s \in Servers => naggle'[s] = kernel'[sock'[s]].nodelay
    BY <2>1, <2>3 DEF Created, disable
  <2>6. Good(s)'
    BY <1>1, <1>2, <2>3, <2>4, <2>5 DEF Good, Progress, Created
  <2> QED
    BY <1>1, <1>2, <1>3, <1>4, <2>2, <2>6, CreateInv DEF Opening
<1>5. CASE Continues(s, "fallback") /\ UNCHANGED <<sock, kernel>>
  <2>1. /\ pc' \in [Sockets -> Opening \cup {"idle", "fallback"}]
        /\ pc'[s] = "fallback" /\ \A t \in Sockets \ {s} : pc'[t] = pc[t]
        /\ result' = result
    BY <1>1, <1>5 DEF Continues, SocketsInv, TypeOK
  <2>2. TypeOK'
    BY <1>1, <1>2, <1>3, <1>5, <2>1 DEF SocketsInv, TypeOK, IsOpen, Opening
  <2>3. DescriptorOwned'
    BY <1>5 DEF SocketsInv, DescriptorOwned, IsOpen, InUse
  <2>4. Good(s)'
    BY <1>1, <2>1 DEF Good, Progress, Opening
  <2>5. ASSUME NEW t \in Sockets \ {s} PROVE Good(t)'
    BY <1>2, <1>3, <1>5, <2>1, <2>5, UntouchedStaysGood
  <2> QED
    BY <2>2, <2>3, <2>4, <2>5 DEF SocketsInv
<1> QED
  BY <1>4, <1>5 DEF OpenDual

LEMMA FallbackInv == ASSUME SocketsInv, NEW s \in Duals, Fallback(s) PROVE SocketsInv'
<1>1. /\ s \in Sockets /\ s \notin Tcps /\ ~IsOpen(s) /\ pc[s] = "fallback" /\ ~added[s]
      /\ UNCHANGED <<flags, naggle, added>> /\ naggle \in [Servers -> BOOLEAN]
  BY SocketsAssumption DEF Sockets, Duals, Fallback, SocketsInv, TypeOK
<1>2. CASE /\ Creates(s, 4, Disables(s))
           /\ ipv4' = [ipv4 EXCEPT ![s] = TRUE]
           /\ Continues(s, "bind")
  <2>1. Disables(s) \in BOOLEAN /\ (s \in Servers => naggle[s] = Disables(s))
    BY <1>1 DEF Disables
  <2>2. /\ ipv4' \in [Duals -> BOOLEAN] /\ ipv4'[s]
        /\ \A t \in Duals \ {s} : ipv4'[t] = ipv4[t]
    BY <1>2 DEF SocketsInv, TypeOK
  <2>3. kernel'[sock'[s]] = Created(4, Disables(s)) /\ IsOpen(s)'
    BY <1>1, <1>2, <2>1, CreateOwns DEF SocketsInv
  <2>4. pc'[s] = "bind"
    BY <1>1, <1>2 DEF Continues, SocketsInv, TypeOK
  <2>5. Good(s)'
    BY <1>1, <2>1, <2>2, <2>3, <2>4 DEF Good, Progress, Created
  <2> QED
    BY <1>1, <1>2, <2>1, <2>2, <2>5, CreateInv DEF Opening
<1>3. CASE Returns(s, "none") /\ UNCHANGED <<sock, ipv4, kernel>>
  <2>1. /\ pc' \in [Sockets -> Opening \cup {"idle", "fallback"}]
        /\ result' \in [Sockets -> Results]
        /\ pc'[s] = "idle" /\ result'[s] = "none"
        /\ \A t \in Sockets \ {s} : pc'[t] = pc[t] /\ result'[t] = result[t]
    BY <1>1, <1>3 DEF Returns, SocketsInv, TypeOK, Results
  <2>2. TypeOK'
    BY <1>1, <1>3, <2>1 DEF SocketsInv, TypeOK, IsOpen, Opening
  <2>3. Good(s)'
    BY <1>1, <1>3, <2>1 DEF Good, Progress, IsOpen, Opening
  <2>5. DescriptorOwned'
    BY <1>3 DEF SocketsInv, DescriptorOwned, IsOpen, InUse
  <2>4. ASSUME NEW t \in Sockets \ {s} PROVE Good(t)'
    BY <1>1, <1>3, <2>1, UntouchedStaysGood
  <2> QED
    BY <2>2, <2>3, <2>4, <2>5 DEF SocketsInv
<1> QED
  BY <1>2, <1>3 DEF Fallback

\* At each of the following steps s has a descriptor and is in no wait set.
LEMMA OpeningHasDescriptor ==
    ASSUME SocketsInv, NEW s \in Sockets, pc[s] \in Opening
    PROVE  /\ IsOpen(s) /\ ~added[s]
           /\ sock[s] \in Fds /\ kernel[sock[s]] \in Descriptors
           /\ kernel = [kernel EXCEPT ![sock[s]] = kernel[sock[s]]]
           /\ result[s] \in Results /\ result = [result EXCEPT ![s] = result[s]]
<1>1. IsOpen(s) /\ ~added[s]
  BY DEF SocketsInv, TypeOK, Opening
<1> QED
  BY <1>1, UsedIsDescriptor DEF SocketsInv, TypeOK

LEMMA TurnOffV6OnlyInv ==
    ASSUME SocketsInv, NEW s \in Duals, TurnOffV6Only(s) PROVE SocketsInv'
<1>1. /\ s \in Sockets /\ s \notin Tcps /\ pc[s] = "dual"
      /\ UNCHANGED <<ipv4, naggle, added>>
      /\ ipv4 \in [Duals -> BOOLEAN] /\ naggle \in [Servers -> BOOLEAN]
  BY SocketsAssumption DEF Sockets, Duals, TurnOffV6Only, SocketsInv, TypeOK
<1>2. /\ IsOpen(s) /\ ~added[s]
      /\ sock[s] \in Fds /\ kernel[sock[s]] \in Descriptors
      /\ result[s] \in Results /\ result = [result EXCEPT ![s] = result[s]]
  BY <1>1, OpeningHasDescriptor DEF Opening
<1>3. CASE /\ kernel' = [kernel EXCEPT ![sock[s]].dual = TRUE]
           /\ Continues(s, "bind")
           /\ UNCHANGED <<sock, flags>>
  <2> DEFINE d == [kernel[sock[s]] EXCEPT !.dual = TRUE]
  <2>1. d \in Descriptors /\ kernel' = [kernel EXCEPT ![sock[s]] = d]
    BY <1>2, <1>3 DEF Descriptors
  <2>2. d.dual /\ d.family = kernel[sock[s]].family /\ d.nodelay = kernel[sock[s]].nodelay
    BY <1>2 DEF Descriptors
  <2> HIDE DEF d
  <2>3. kernel'[sock'[s]] = d
    BY <1>2, <1>3, <2>1 DEF SocketsInv, TypeOK
  <2>4. pc' = [pc EXCEPT ![s] = "bind"] /\ pc'[s] = "bind" /\ result' = result
    BY <1>1, <1>3 DEF Continues, SocketsInv, TypeOK
  <2>5. kernel[sock[s]].family = 6 /\ ~ipv4[s] /\
        (s \in Servers => naggle[s] = kernel[sock[s]].nodelay)
    BY <1>1 DEF SocketsInv, Good, Progress, Opening
  <2>6. Good(s)'
    BY <1>1, <2>2, <2>3, <2>4, <2>5 DEF Good, Progress
  <2>7. flags' \in [Sockets -> SUBSET Readiness] /\ "bind" \in Opening \cup {"idle"}
    BY <1>3 DEF SocketsInv, TypeOK, Opening
  <2> QED
    BY <1>1, <1>2, <1>3, <2>1, <2>4, <2>6, <2>7, OptionInv
<1>4. CASE CloseSocket(s) /\ Continues(s, "fallback")
  BY <1>1, <1>2, <1>4, CloseInv DEF Continues
<1> QED
  BY <1>3, <1>4 DEF TurnOffV6Only

\* A step that sets no option of the descriptor.
LEMMA GoesOnInv ==
    ASSUME SocketsInv, NEW s \in Sockets, pc[s] \in Opening,
           UNCHANGED <<sock, kernel, naggle, added>>,
           flags' \in [Sockets -> SUBSET Readiness],
           NEW next \in Opening \cup {"idle"}, pc' = [pc EXCEPT ![s] = next],
           NEW r \in Results, result' = [result EXCEPT ![s] = r],
           ipv4' \in [Duals -> BOOLEAN], \A t \in Duals \ {s} : ipv4'[t] = ipv4[t],
           Good(s)'
    PROVE  SocketsInv'
<1>1. /\ IsOpen(s) /\ ~added[s] /\ kernel[sock[s]] \in Descriptors
      /\ kernel' = [kernel EXCEPT ![sock[s]] = kernel[sock[s]]]
  BY OpeningHasDescriptor
<1> QED
  BY <1>1, OptionInv

LEMMA BindInv == ASSUME SocketsInv, NEW s \in Duals, Bind(s) PROVE SocketsInv'
<1>1. /\ s \in Sockets /\ s \notin Tcps /\ pc[s] = "bind" /\ pc[s] \in Opening
      /\ UNCHANGED <<naggle, added>>
      /\ ipv4' \in [Duals -> BOOLEAN] /\ \A t \in Duals \ {s} : ipv4'[t] = ipv4[t]
  BY SocketsAssumption DEF Sockets, Duals, Bind, Opening, SocketsInv, TypeOK
<1>2. CASE /\ Continues(s, IF s \in Servers THEN "listen" ELSE "nonblocking")
           /\ UNCHANGED <<sock, flags, kernel>>
  <2> DEFINE next == IF s \in Servers THEN "listen" ELSE "nonblocking"
  <2>1. /\ pc' = [pc EXCEPT ![s] = next] /\ pc'[s] = next
        /\ next \in Opening \cup {"idle"}
        /\ next = "listen" \/ (next = "nonblocking" /\ s \notin Servers)
    BY <1>1, <1>2 DEF Continues, SocketsInv, TypeOK, Opening
  <2> HIDE DEF next
  <2>2. /\ result[s] \in Results /\ result' = [result EXCEPT ![s] = result[s]]
        /\ flags' \in [Sockets -> SUBSET Readiness]
    BY <1>1, <1>2 DEF Continues, SocketsInv, TypeOK
  <2>3. next = "listen" => s \in Servers
    BY DEF next
  <2>4. Good(s)'
    BY <1>1, <1>2, <2>1, <2>3 DEF SocketsInv, Good, Progress, Opening
  <2> QED
    BY <1>1, <1>2, <2>1, <2>2, <2>4, GoesOnInv
<1>3. CASE CloseAndThrow(s)
  BY <1>1, <1>3, CloseAndThrowInv
<1> QED
  BY <1>2, <1>3 DEF Bind

LEMMA ListenInv == ASSUME SocketsInv, NEW s \in Duals, Listen(s) PROVE SocketsInv'
<1>1. /\ s \in Sockets /\ s \notin Tcps /\ pc[s] = "listen" /\ pc[s] \in Opening
      /\ UNCHANGED <<ipv4, naggle, added>> /\ ipv4 \in [Duals -> BOOLEAN]
  BY SocketsAssumption DEF Sockets, Duals, Listen, Opening, SocketsInv, TypeOK
<1>2. CASE Continues(s, "nonblocking") /\ UNCHANGED <<sock, flags, kernel>>
  <2>1. /\ pc' = [pc EXCEPT ![s] = "nonblocking"] /\ pc'[s] = "nonblocking"
        /\ "nonblocking" \in Opening \cup {"idle"}
    BY <1>1, <1>2 DEF Continues, SocketsInv, TypeOK, Opening
  <2>2. /\ result[s] \in Results /\ result' = [result EXCEPT ![s] = result[s]]
        /\ flags' \in [Sockets -> SUBSET Readiness]
    BY <1>1, <1>2 DEF Continues, SocketsInv, TypeOK
  <2>3. Good(s)'
    BY <1>1, <1>2, <2>1 DEF SocketsInv, Good, Progress, Opening
  <2> QED
    BY <1>1, <1>2, <2>1, <2>2, <2>3, GoesOnInv
<1>3. CASE CloseAndThrow(s)
  BY <1>1, <1>3, CloseAndThrowInv
<1> QED
  BY <1>2, <1>3 DEF Listen

LEMMA BroadcastInv == ASSUME SocketsInv, NEW s \in Duals, Broadcast(s) PROVE SocketsInv'
<1>1. /\ s \in Sockets /\ s \notin Tcps /\ pc[s] = "broadcast" /\ pc[s] \in Opening
      /\ UNCHANGED <<ipv4, naggle, added>> /\ ipv4 \in [Duals -> BOOLEAN]
  BY SocketsAssumption DEF Sockets, Duals, Broadcast, Opening, SocketsInv, TypeOK
<1>2. IsOpen(s)
  BY <1>1, OpeningHasDescriptor
<1>3. CASE /\ flags' = [flags EXCEPT ![s] = {}]
           /\ Returns(s, "ok")
           /\ UNCHANGED <<sock, kernel>>
  <2>1. /\ pc' = [pc EXCEPT ![s] = "idle"] /\ pc'[s] = "idle"
        /\ result' = [result EXCEPT ![s] = "ok"] /\ result'[s] = "ok" /\ "ok" \in Results
        /\ flags' \in [Sockets -> SUBSET Readiness]
    BY <1>1, <1>3 DEF Returns, SocketsInv, TypeOK, Results
  <2>2. s \notin Servers
    BY <1>1, SocketsAssumption DEF SocketsInv, Good, Progress
  <2>3. Good(s)'
    BY <1>1, <1>2, <1>3, <2>1, <2>2 DEF SocketsInv, Good, Progress, Opening, IsOpen
  <2> QED
    BY <1>1, <1>3, <2>1, <2>3, GoesOnInv
<1>4. CASE CloseAndThrow(s)
  BY <1>1, <1>4, CloseAndThrowInv
<1> QED
  BY <1>3, <1>4 DEF Broadcast

LEMMA ConnectInv == ASSUME SocketsInv, NEW s \in Tcps, Connect(s) PROVE SocketsInv'
<1>1. /\ s \in Sockets /\ s \notin Duals /\ pc[s] = "connect" /\ pc[s] \in Opening
      /\ UNCHANGED <<ipv4, naggle, added>> /\ ipv4 \in [Duals -> BOOLEAN]
  BY SocketsAssumption DEF Sockets, Duals, Connect, Opening, SocketsInv, TypeOK
<1>2. IsOpen(s)
  BY <1>1, OpeningHasDescriptor
<1>3. CASE Returns(s, "ok") /\ UNCHANGED <<sock, flags, kernel>>
  <2>1. /\ pc' = [pc EXCEPT ![s] = "idle"] /\ pc'[s] = "idle"
        /\ result' = [result EXCEPT ![s] = "ok"] /\ result'[s] = "ok" /\ "ok" \in Results
        /\ flags' \in [Sockets -> SUBSET Readiness]
    BY <1>1, <1>3 DEF Returns, SocketsInv, TypeOK, Results
  <2>2. Good(s)'
    BY <1>1, <1>2, <1>3, <2>1 DEF SocketsInv, Good, Progress, Opening, IsOpen, Duals
  <2> QED
    BY <1>1, <1>3, <2>1, <2>2, GoesOnInv
<1>4. CASE CloseAndThrow(s)
  BY <1>1, <1>4, CloseAndThrowInv
<1> QED
  BY <1>3, <1>4 DEF Connect

LEMMA SetNonblockingInv ==
    ASSUME SocketsInv, NEW s \in Sockets, SetNonblocking(s) PROVE SocketsInv'
<1>1. /\ pc[s] = "nonblocking" /\ pc[s] \in Opening
      /\ UNCHANGED <<sock, ipv4, naggle, added>> /\ ipv4 \in [Duals -> BOOLEAN]
  BY DEF SetNonblocking, Opening, SocketsInv, TypeOK
<1>2. /\ IsOpen(s) /\ ~added[s] /\ sock[s] \in Fds /\ kernel[sock[s]] \in Descriptors
      /\ result[s] \in Results /\ result = [result EXCEPT ![s] = result[s]]
  BY <1>1, OpeningHasDescriptor
<1>3. Good(s)
  BY DEF SocketsInv
<1>4. CASE /\ kernel' = [kernel EXCEPT ![sock[s]].nonblocking = TRUE]
           /\ flags' = IF s \in Tcps THEN [flags EXCEPT ![s] = {}] ELSE flags
           /\ IF s \in Servers
              THEN Returns(s, "ok")
              ELSE Continues(s, IF s \in Tcps THEN "connect" ELSE "broadcast")
  <2> DEFINE d == [kernel[sock[s]] EXCEPT !.nonblocking = TRUE]
  <2>1. d \in Descriptors /\ kernel' = [kernel EXCEPT ![sock[s]] = d]
    BY <1>2, <1>4 DEF Descriptors
  <2>2. /\ d.nonblocking /\ d.family = kernel[sock[s]].family
        /\ d.dual = kernel[sock[s]].dual /\ d.nodelay = kernel[sock[s]].nodelay
    BY <1>2 DEF Descriptors
  <2> HIDE DEF d
  <2>3. kernel'[sock'[s]] = d /\ IsOpen(s)'
    BY <1>1, <1>2, <2>1 DEF SocketsInv, TypeOK, IsOpen
  <2>4. flags' \in [Sockets -> SUBSET Readiness]
    BY <1>4 DEF SocketsInv, TypeOK
  <2>5. CASE s \in Servers
    <3>1. /\ pc' = [pc EXCEPT ![s] = "idle"] /\ pc'[s] = "idle"
          /\ result' = [result EXCEPT ![s] = "ok"] /\ result'[s] = "ok"
          /\ "ok" \in Results /\ "idle" \in Opening \cup {"idle"}
      BY <1>4, <2>5 DEF Returns, SocketsInv, TypeOK, Results
    <3>2. Good(s)'
      BY <1>1, <1>3, <2>2, <2>3, <2>5, <3>1 DEF Good, Progress, Duals, Opening
    <3> QED
      BY <1>1, <1>2, <2>1, <2>4, <3>1, <3>2, OptionInv
  <2>6. CASE s \notin Servers
    <3> DEFINE next == IF s \in Tcps THEN "connect" ELSE "broadcast"
    <3>1. /\ pc' = [pc EXCEPT ![s] = next] /\ pc'[s] = next /\ result' = result
          /\ next \in Opening \cup {"idle"}
      BY <1>4, <2>6 DEF Continues, SocketsInv, TypeOK, Opening
    <3>2. Good(s)'
      <4>1. (next = "connect" /\ s \in Tcps) \/ (next = "broadcast" /\ s \in Udps)
        BY <2>6 DEF Sockets, Duals
      <4> HIDE DEF next
      <4> QED
        BY <1>1, <1>3, <2>2, <2>3, <2>6, <3>1, <4>1, SocketsAssumption
        DEF Good, Progress, Duals
    <3> QED
      BY <1>1, <1>2, <2>1, <2>4, <3>1, <3>2, OptionInv
  <2> QED
    BY <2>5, <2>6
<1>5. CASE Returns(s, "blocking") /\ UNCHANGED <<flags, kernel>>
  <2>1. /\ pc' = [pc EXCEPT ![s] = "idle"] /\ pc'[s] = "idle"
        /\ result' = [result EXCEPT ![s] = "blocking"] /\ result'[s] = "blocking"
        /\ "blocking" \in Results /\ flags' \in [Sockets -> SUBSET Readiness]
    BY <1>5 DEF Returns, SocketsInv, TypeOK, Results
  <2>2. Good(s)'
    BY <1>1, <1>2, <2>1 DEF Good, Progress, Opening, IsOpen
  <2> QED
    BY <1>1, <1>5, <2>1, <2>2, GoesOnInv
<1> QED
  BY <1>4, <1>5 DEF SetNonblocking

-----------------------------------------------------------------------------
(* The other steps                                                         *)

LEMMA AcceptInv ==
    ASSUME SocketsInv, NEW v \in Servers, NEW t \in Tcps, Accept(v, t)
    PROVE  SocketsInv'
<1>1. /\ v \in Sockets /\ t \in Sockets /\ t \notin Duals /\ t # v
      /\ IsOpen(v) /\ pc[v] = "idle" /\ ~IsOpen(t) /\ pc[t] = "idle"
      /\ UNCHANGED <<ipv4, naggle, added, pc>>
  BY SocketsAssumption DEF Sockets, Duals, Accept
<1> DEFINE d == [Created(kernel[sock[v]].family, naggle[v]) EXCEPT !.nonblocking = TRUE]
<1>2. d \in Descriptors /\ d.nonblocking
  <2>1. kernel[sock[v]].family \in {4, 6} /\ naggle[v] \in BOOLEAN
    BY <1>1, UsedIsDescriptor DEF SocketsInv, TypeOK, Descriptors
  <2> QED
    BY <2>1 DEF Created, Descriptors
<1>3. PICK fd \in Fds : /\ ~InUse(fd)
                        /\ sock' = [sock EXCEPT ![t] = fd]
                        /\ kernel' = [kernel EXCEPT ![fd] = d]
  BY DEF Accept
<1> HIDE DEF d
<1>4. /\ DescriptorOwned'
      /\ sock' \in [Sockets -> Fds \cup {Invalid}]
      /\ kernel' \in [Fds -> Descriptors \cup {Unused}]
      /\ IsOpen(t)' /\ kernel'[sock'[t]] = d
      /\ \A u \in Sockets \ {t} :
            sock'[u] = sock[u] /\ (IsOpen(u) => kernel'[sock[u]] = kernel[sock[u]])
  BY <1>1, <1>2, <1>3, AllocateOwns DEF SocketsInv
<1>5. /\ result' \in [Sockets -> Results] /\ result'[t] = "ok"
      /\ \A u \in Sockets \ {t} : result'[u] = result[u]
      /\ flags' \in [Sockets -> SUBSET Readiness]
  BY <1>1 DEF Accept, SocketsInv, TypeOK, Results
<1>6. TypeOK'
  BY <1>1, <1>4, <1>5 DEF SocketsInv, TypeOK, IsOpen, Opening
<1>7. Good(t)'
  BY <1>1, <1>2, <1>4, <1>5 DEF Good, Progress, Opening, Duals
<1>8. ASSUME NEW u \in Sockets \ {t} PROVE Good(u)'
  BY <1>1, <1>4, <1>5, UntouchedStaysGood
<1> QED
  BY <1>4, <1>6, <1>7, <1>8 DEF SocketsInv

LEMMA FlagStepsInv ==
    ASSUME SocketsInv, NEW s \in Sockets,
           \/ AcceptNothing(s) \/ SendTcp(s) \/ SendUdp(s) \/ ReceiveTcp(s) \/ ReceiveUdp(s)
           \/ Add(s) \/ Remove(s) \/ Wait(s)
    PROVE  SocketsInv'
<1>1. CASE AcceptNothing(s) \/ SendTcp(s) \/ SendUdp(s) \/ ReceiveTcp(s) \/ ReceiveUdp(s)
  <2>1. /\ UNCHANGED <<sock, ipv4, naggle, pc, result, kernel, added>>
        /\ flags' \in [Sockets -> SUBSET Readiness]
    BY <1>1 DEF AcceptNothing, SendTcp, SendUdp, ReceiveTcp, ReceiveUdp, SocketsInv, TypeOK
  <2> QED
    BY <2>1, FlagsInv DEF SocketsInv, TypeOK
<1>2. CASE Wait(s)
  <2>1. PICK ready \in SUBSET Reported(s) : flags' = [flags EXCEPT ![s] = ready]
    BY <1>2 DEF Wait
  <2>2. flags' \in [Sockets -> SUBSET Readiness]
    BY <2>1 DEF Reported, SocketsInv, TypeOK
  <2> QED
    BY <1>2, <2>2, FlagsInv DEF Wait, SocketsInv, TypeOK
<1>3. CASE Add(s) \/ Remove(s)
  <2>1. /\ UNCHANGED <<sock, ipv4, naggle, pc, result, kernel, flags>>
        /\ added' \in [Sockets -> BOOLEAN]
        /\ \A t \in Sockets : added'[t] => IsOpen(t) /\ pc[t] = "idle"
    BY <1>3 DEF Add, Remove, SocketsInv, TypeOK
  <2> QED
    BY <2>1, FlagsInv DEF SocketsInv, TypeOK
<1> QED
  BY <1>1, <1>2, <1>3

LEMMA CloseStepsInv ==
    ASSUME SocketsInv, NEW s \in Sockets, Close(s) \/ Renew(s) PROVE SocketsInv'
<1>1. /\ pc[s] = "idle" /\ ~added[s] /\ CloseSocket(s) /\ UNCHANGED <<added, pc>>
      /\ result' = [result EXCEPT ![s] = "none"] /\ "none" \in Results
  BY DEF Close, Renew, Results
<1>2. pc' = [pc EXCEPT ![s] = "idle"]
  BY <1>1 DEF SocketsInv, TypeOK
<1>3. /\ ipv4' \in [Duals -> BOOLEAN]
      /\ \A t \in Duals \ {s} : ipv4'[t] = ipv4[t]
  BY DEF Close, Renew, Uninitialised, SocketsInv, TypeOK
<1>4. /\ naggle' \in [Servers -> BOOLEAN]
      /\ \A t \in Servers \ {s} : naggle'[t] = naggle[t]
  BY DEF Close, Renew, SocketsInv, TypeOK
<1> QED
  BY <1>1, <1>2, <1>3, <1>4, CloseInv

\* A move, by assignment or construction.
LEMMA MovesInv ==
    ASSUME SocketsInv, NEW s \in Sockets, NEW t \in Sockets, t # s, SameClass(t, s),
           pc[s] = "idle", pc[t] = "idle", ~added[s], ~added[t],
           Moves(t, s), CopiesNaggle(t, s), UNCHANGED <<added, pc>>,
           ipv4' \in [Duals -> BOOLEAN], \A u \in Duals \ {t} : ipv4'[u] = ipv4[u]
    PROVE  SocketsInv'
<1>1. /\ DescriptorOwned'
      /\ sock' \in [Sockets -> Fds \cup {Invalid}]
      /\ kernel' \in [Fds -> Descriptors \cup {Unused}]
      /\ ~IsOpen(s)' /\ sock'[t] = sock[s]
      /\ \A u \in Sockets \ {s, t} : sock'[u] = sock[u]
      /\ \A u \in Sockets \ {t} : IsOpen(u) => kernel'[sock[u]] = kernel[sock[u]]
  BY MoveOwns DEF SocketsInv
<1>2. /\ result' \in [Sockets -> Results]
      /\ result'[s] = "none" /\ result'[t] = result[s]
      /\ \A u \in Sockets \ {s, t} : result'[u] = result[u]
      /\ flags' \in [Sockets -> SUBSET Readiness]
  BY DEF Moves, SocketsInv, TypeOK, Results
<1>3. /\ t \in Duals <=> s \in Duals
      /\ t \in Servers <=> s \in Servers
  BY SocketsAssumption DEF SameClass, Duals
<1>4. /\ naggle' \in [Servers -> BOOLEAN]
      /\ \A u \in Servers \ {t} : naggle'[u] = naggle[u]
      /\ t \in Servers => naggle'[t] = naggle[s]
  BY <1>3 DEF CopiesNaggle, SocketsInv, TypeOK
<1>5. TypeOK'
  BY <1>1, <1>2, <1>4 DEF SocketsInv, TypeOK, IsOpen, Opening
<1>6. Good(s)'
  BY <1>1, <1>2 DEF Good, Progress, IsOpen, Opening
<1>7. Good(t)'
  <2>1. Good(s) /\ (IsOpen(s) => kernel'[sock'[t]] = kernel[sock[s]])
    BY <1>1 DEF SocketsInv
  <2>2. result[s] = "ok" => IsOpen(s)
    BY DEF SocketsInv, Good
  <2> QED
    BY <1>1, <1>2, <1>3, <1>4, <2>1, <2>2 DEF Good, Progress, IsOpen, Opening
<1>8. ASSUME NEW u \in Sockets \ {s, t} PROVE Good(u)'
  BY <1>1, <1>2, <1>4, UntouchedStaysGood
<1> QED
  BY <1>1, <1>5, <1>6, <1>7, <1>8 DEF SocketsInv

LEMMA MoveStepsInv ==
    ASSUME SocketsInv, NEW s \in Sockets, NEW t \in Sockets, SameClass(t, s),
           MoveAssign(t, s) \/ MoveConstruct(t, s)
    PROVE  SocketsInv'
<1>1. /\ pc[t] = "idle" /\ pc[s] = "idle" /\ t # s
      /\ CopiesNaggle(t, s) /\ UNCHANGED <<added, pc>>
  BY DEF MoveAssign, MoveConstruct
<1>2. t \in Servers <=> s \in Servers
  BY SocketsAssumption DEF SameClass
<1>3. CASE MoveConstruct(t, s)
  <2>1. ~added[t] /\ ~added[s] /\ Moves(t, s)
    BY <1>3 DEF MoveConstruct
  <2>2. /\ ipv4' \in [Duals -> BOOLEAN]
        /\ \A u \in Duals \ {t} : ipv4'[u] = ipv4[u]
    BY <1>3 DEF MoveConstruct, Uninitialised, SocketsInv, TypeOK
  <2> QED
    BY <1>1, <2>1, <2>2, MovesInv
<1>4. CASE MoveAssign(t, s) /\ ~(added[t] \/ added[s])
  <2>1. /\ ~added[t] /\ ~added[s] /\ Moves(t, s)
        /\ ipv4' = [u \in Duals |-> ipv4[IF u = t /\ u \in Udps THEN s ELSE u]]
    BY <1>4 DEF MoveAssign
  <2>2. t \in Udps => s \in Duals
    BY SocketsAssumption DEF SameClass, Duals
  <2>3. /\ ipv4' \in [Duals -> BOOLEAN]
        /\ \A u \in Duals \ {t} : ipv4'[u] = ipv4[u]
    BY <2>1, <2>2 DEF SocketsInv, TypeOK
  <2> QED
    BY <1>1, <2>1, <2>3, MovesInv
<1>5. CASE MoveAssign(t, s) /\ (added[t] \/ added[s])
  <2> DEFINE r == IF t \in Servers /\ result[t] = "ok" THEN "reassigned" ELSE result[t]
  <2>1. /\ result' = [result EXCEPT ![t] = r]
        /\ UNCHANGED <<sock, flags, ipv4, kernel>>
    BY <1>5 DEF MoveAssign
  <2>2. r \in Results /\ (t \in Servers => r # "ok")
        /\ (r = "none" <=> result[t] = "none") /\ (r = "blocking" <=> result[t] = "blocking")
    BY DEF SocketsInv, TypeOK, Results
  <2> HIDE DEF r
  <2>3. /\ result' \in [Sockets -> Results] /\ result'[t] = r
        /\ \A u \in Sockets \ {t} : result'[u] = result[u]
    BY <2>1, <2>2 DEF SocketsInv, TypeOK
  <2>4. /\ naggle' \in [Servers -> BOOLEAN]
        /\ \A u \in Servers \ {t} : naggle'[u] = naggle[u]
    BY <1>1, <1>2 DEF CopiesNaggle, SocketsInv, TypeOK
  <2>5. TypeOK'
    BY <1>1, <2>1, <2>3, <2>4 DEF SocketsInv, TypeOK, IsOpen
  <2>6. DescriptorOwned'
    BY <2>1 DEF SocketsInv, DescriptorOwned, IsOpen, InUse
  <2>7. Good(t)'
    BY <1>1, <2>1, <2>2, <2>3 DEF SocketsInv, Good, Progress, IsOpen, Opening
  <2>8. ASSUME NEW u \in Sockets \ {t} PROVE Good(u)'
    BY <1>1, <2>1, <2>3, <2>4, UntouchedStaysGood
  <2> QED
    BY <2>5, <2>6, <2>7, <2>8 DEF SocketsInv
<1> QED
  BY <1>3, <1>4, <1>5

-----------------------------------------------------------------------------
(* The theorems                                                            *)

LEMMA SocketsInit == Init => SocketsInv
<1> SUFFICES ASSUME Init PROVE SocketsInv
  OBVIOUS
<1>1. TypeOK
  BY DEF Init, TypeOK, Results, IsOpen, Opening
<1>2. DescriptorOwned
  BY SocketsAssumption DEF Init, DescriptorOwned, IsOpen, InUse
<1>3. \A s \in Sockets : Good(s)
  BY DEF Init, Good, Progress, IsOpen, Opening
<1> QED
  BY <1>1, <1>2, <1>3 DEF SocketsInv

LEMMA SocketsNext == SocketsInv /\ [Next]_vars => SocketsInv'
<1> SUFFICES ASSUME SocketsInv, [Next]_vars PROVE SocketsInv'
  OBVIOUS
<1>1. Tcps \subseteq Sockets /\ Duals \subseteq Sockets /\ Servers \subseteq Sockets
  BY DEF Sockets, Duals
<1>2. ASSUME NEW s \in Tcps, OpenTcp(s) \/ Connect(s) PROVE SocketsInv'
  BY <1>2, OpenTcpInv, ConnectInv
<1>3. ASSUME NEW s \in Duals,
             \/ OpenDual(s) \/ Fallback(s) \/ TurnOffV6Only(s) \/ Bind(s) \/ Listen(s)
             \/ Broadcast(s)
      PROVE  SocketsInv'
  BY <1>3, OpenDualInv, FallbackInv, TurnOffV6OnlyInv, BindInv, ListenInv, BroadcastInv
<1>4. ASSUME NEW v \in Servers, NEW t \in Tcps, Accept(v, t) PROVE SocketsInv'
  BY <1>4, AcceptInv
<1>5. ASSUME NEW s \in Sockets,
             \/ AcceptNothing(s) \/ SendTcp(s) \/ SendUdp(s) \/ ReceiveTcp(s) \/ ReceiveUdp(s)
             \/ Add(s) \/ Remove(s) \/ Wait(s)
      PROVE  SocketsInv'
  BY <1>5, FlagStepsInv
<1>6. ASSUME NEW s \in Sockets, SetNonblocking(s) PROVE SocketsInv'
  BY <1>6, SetNonblockingInv
<1>7. ASSUME NEW s \in Sockets, Close(s) \/ Renew(s) PROVE SocketsInv'
  BY <1>7, CloseStepsInv
<1>8. ASSUME NEW s \in Sockets, NEW t \in Sockets, SameClass(t, s),
             MoveAssign(t, s) \/ MoveConstruct(t, s)
      PROVE  SocketsInv'
  BY <1>8, MoveStepsInv
<1>9. CASE UNCHANGED vars
  BY <1>9, UntouchedStaysGood
  DEF vars, SocketsInv, TypeOK, DescriptorOwned, IsOpen, InUse
<1> QED
  BY <1>1, <1>2, <1>3, <1>4, <1>5, <1>6, <1>7, <1>8, <1>9 DEF Next, Sockets, Duals

\* What the other theorems follow from.
THEOREM SocketsInvariance == Spec => []SocketsInv
BY SocketsInit, SocketsNext, PTL DEF Spec

\* Types, for any sockets and any number of descriptors.  open() makes a system call only
\* on a descriptor it has, and no socket in a wait set is closed.
THEOREM SocketsTypeCorrect == Spec => []TypeOK
<1>1. SocketsInv => TypeOK
  BY DEF SocketsInv
<1> QED
  BY <1>1, SocketsInvariance, PTL

\* No descriptor leaks, is held twice or is used after it was closed, whichever system
\* calls fail and however objects are moved.
THEOREM DescriptorOwnedCorrect == Spec => []DescriptorOwned
<1>1. SocketsInv => DescriptorOwned
  BY DEF SocketsInv
<1> QED
  BY <1>1, SocketsInvariance, PTL

\* A socket that open() or accept() returned is non-blocking and, if it listens or takes
\* datagrams, takes IPv4.
THEOREM ReadyAsPromisedCorrect == Spec => []ReadyAsPromised
<1>1. SocketsInv => ReadyAsPromised
  BY DEF SocketsInv, Good, ReadyAsPromised
<1> QED
  BY <1>1, SocketsInvariance, PTL

\* An open() that threw leaves the socket closed, unless set_nonblocking_mode() threw.
THEOREM FailureClosesCorrect == Spec => []FailureCloses
<1>1. SocketsInv => FailureCloses
  BY DEF SocketsInv, Good, FailureCloses
<1> QED
  BY <1>1, SocketsInvariance, PTL

\* bind() gets an address of the family of its descriptor, in every open() of an object.
THEOREM BindsItsFamilyCorrect == Spec => []BindsItsFamily
<1>1. SocketsInv => BindsItsFamily
  BY DEF SocketsInv, Good, BindsItsFamily, Sockets
<1> QED
  BY <1>1, SocketsInvariance, PTL

\* disable_naggle stays with the listening descriptor, unless an assignment threw.
THEOREM NaggleAsOpenedCorrect == Spec => []NaggleAsOpened
<1>1. SocketsInv => NaggleAsOpened
  BY DEF SocketsInv, Good, NaggleAsOpened, Sockets, Duals
<1> QED
  BY <1>1, SocketsInvariance, PTL

-----------------------------------------------------------------------------
(* Readiness of a socket just opened                                       *)

\* A TCP socket that is connecting has had its flags cleared.
Quiet == \A s \in Tcps : pc[s] = "connect" => flags[s] = {}

\* A socket within open() is not touched by the steps of other sockets, and the step
\* that takes it to connect() clears its flags.
LEMMA ConnectingIsQuiet ==
    ASSUME SocketsInv, Quiet, [Next]_vars, NEW s \in Tcps, pc'[s] = "connect"
    PROVE  flags'[s] = {}
<1>1. /\ s \in Sockets /\ s \notin Duals /\ Tcps \subseteq Sockets
      /\ Duals \subseteq Sockets /\ Servers \subseteq Sockets
  BY SocketsAssumption DEF Sockets, Duals
<1>2. /\ flags \in [Sockets -> SUBSET Readiness]
      /\ pc \in [Sockets -> Opening \cup {"idle", "fallback"}]
      /\ pc[s] = "connect" => flags[s] = {} /\ ~added[s]
  BY <1>1 DEF SocketsInv, TypeOK, Quiet
<1>3. ASSUME NEW u \in Tcps, OpenTcp(u) \/ Connect(u) PROVE flags'[s] = {}
  BY <1>1, <1>2, <1>3
  DEF OpenTcp, Connect, Continues, Returns, CloseAndThrow, CloseSocket
<1>4. ASSUME NEW u \in Duals,
             \/ OpenDual(u) \/ Fallback(u) \/ TurnOffV6Only(u) \/ Bind(u) \/ Listen(u)
             \/ Broadcast(u)
      PROVE  flags'[s] = {}
  BY <1>1, <1>2, <1>4
  DEF OpenDual, Fallback, TurnOffV6Only, Bind, Listen, Broadcast, Continues, Returns,
      CloseAndThrow, CloseSocket
<1>5. ASSUME NEW u \in Sockets,
             \/ AcceptNothing(u) \/ SendTcp(u) \/ SendUdp(u) \/ ReceiveTcp(u) \/ ReceiveUdp(u)
             \/ Add(u) \/ Remove(u) \/ Wait(u) \/ Close(u) \/ Renew(u)
      PROVE  flags'[s] = {}
  BY <1>1, <1>2, <1>5
  DEF AcceptNothing, SendTcp, SendUdp, ReceiveTcp, ReceiveUdp, Add, Remove, Wait, Close, Renew, CloseSocket
<1>6. ASSUME NEW u \in Sockets, SetNonblocking(u) PROVE flags'[s] = {}
  BY <1>1, <1>2, <1>6 DEF SetNonblocking, Continues, Returns
<1>7. ASSUME NEW v \in Servers, NEW t \in Tcps, Accept(v, t) PROVE flags'[s] = {}
  BY <1>1, <1>2, <1>7 DEF Accept
<1>8. ASSUME NEW u \in Sockets, NEW t \in Sockets, MoveAssign(t, u) \/ MoveConstruct(t, u)
      PROVE  flags'[s] = {}
  BY <1>1, <1>2, <1>8 DEF MoveAssign, MoveConstruct, Moves
<1>9. CASE UNCHANGED vars
  BY <1>2, <1>9 DEF vars
<1> QED
  BY <1>1, <1>3, <1>4, <1>5, <1>6, <1>7, <1>8, <1>9 DEF Next, Sockets, Duals

LEMMA QuietInvariance == Spec => []Quiet
<1>1. Init => Quiet
  BY DEF Init, Quiet, Sockets
<1>2. SocketsInv /\ Quiet /\ [Next]_vars => Quiet'
  BY ConnectingIsQuiet DEF Quiet
<1> QED
  BY <1>1, <1>2, SocketsInvariance, PTL DEF Spec

LEMMA OpenedIsQuiet ==
    ASSUME SocketsInv, Quiet, [Next]_vars, NEW s \in Tcps \cup Udps,
           pc[s] # "idle", pc'[s] = "idle", result'[s] = "ok"
    PROVE  flags'[s] = {}
<1>1. /\ s \in Sockets /\ s \notin Servers
      /\ Tcps \subseteq Sockets /\ Duals \subseteq Sockets /\ Servers \subseteq Sockets
  BY SocketsAssumption DEF Sockets, Duals
<1>2. /\ flags \in [Sockets -> SUBSET Readiness]
      /\ pc \in [Sockets -> Opening \cup {"idle", "fallback"}]
      /\ result \in [Sockets -> Results]
      /\ s \in Tcps /\ pc[s] = "connect" => flags[s] = {}
  BY <1>1 DEF SocketsInv, TypeOK, Quiet
<1>3. ASSUME NEW u \in Tcps, OpenTcp(u) \/ Connect(u) PROVE flags'[s] = {}
  BY <1>1, <1>2, <1>3
  DEF OpenTcp, Connect, Continues, Returns, CloseAndThrow, CloseSocket
<1>4. ASSUME NEW u \in Duals,
             \/ OpenDual(u) \/ Fallback(u) \/ TurnOffV6Only(u) \/ Bind(u) \/ Listen(u)
             \/ Broadcast(u)
      PROVE  flags'[s] = {}
  BY <1>1, <1>2, <1>4
  DEF OpenDual, Fallback, TurnOffV6Only, Bind, Listen, Broadcast, Continues, Returns,
      CloseAndThrow, CloseSocket
<1>5. ASSUME NEW u \in Sockets, SetNonblocking(u) PROVE flags'[s] = {}
  BY <1>1, <1>2, <1>5 DEF SetNonblocking, Continues, Returns
<1>6. ASSUME UNCHANGED pc PROVE flags'[s] = {}
  BY <1>6
<1>7. ASSUME NEW u \in Sockets,
             \/ AcceptNothing(u) \/ SendTcp(u) \/ SendUdp(u) \/ ReceiveTcp(u) \/ ReceiveUdp(u)
             \/ Add(u) \/ Remove(u) \/ Wait(u) \/ Close(u) \/ Renew(u)
      PROVE  UNCHANGED pc
  BY <1>7 DEF AcceptNothing, SendTcp, SendUdp, ReceiveTcp, ReceiveUdp, Add, Remove, Wait, Close, Renew
<1>8. ASSUME NEW u \in Sockets, NEW t \in Sockets,
             Accept(u, t) \/ MoveAssign(t, u) \/ MoveConstruct(t, u)
      PROVE  UNCHANGED pc
  BY <1>8 DEF Accept, MoveAssign, MoveConstruct
<1>9. CASE UNCHANGED vars
  BY <1>6, <1>9 DEF vars
<1> QED
  BY <1>1, <1>3, <1>4, <1>5, <1>6, <1>7, <1>8, <1>9 DEF Next, Sockets, Duals

\* A TCP or UDP socket has no stale readiness when its open() returns.
THEOREM QuietWhenOpenedCorrect == Spec => QuietWhenOpened
<1>1. SocketsInv /\ Quiet /\ [Next]_vars =>
        [\A s \in Tcps \cup Udps : pc[s] # "idle" /\ result'[s] = "ok" /\ pc'[s] = "idle" =>
            flags'[s] = {}]_vars
  BY OpenedIsQuiet
<1> QED
  BY <1>1, SocketsInvariance, QuietInvariance, PTL DEF Spec, QuietWhenOpened

-----------------------------------------------------------------------------
(* The refinement: every step is one of DescriptorTable or leaves it alone *)

TableStep == Table!TableNext \/ UNCHANGED Table!tableVars

LEMMA TakeStep ==
    ASSUME TypeOK, NEW s \in Sockets, ~IsOpen(s), NEW fd \in Fds, ~InUse(fd),
           NEW d \in Descriptors,
           kernel' = [kernel EXCEPT ![fd] = d], sock' = [sock EXCEPT ![s] = fd]
    PROVE  TableStep
<1>1. kernel \in [Fds -> Descriptors \cup {Unused}] /\ d # Unused
  BY DescriptorsAreUsed DEF TypeOK
<1>2. {f \in Fds : InUse(f)}' = {f \in Fds : InUse(f)} \cup {fd}
  BY <1>1 DEF InUse
<1>3. Table!Take(s, fd)
  BY <1>2 DEF Table!Take, IsOpen
<1> QED
  BY <1>3 DEF TableStep, Table!TableNext

LEMMA CreateStep ==
    ASSUME TypeOK, NEW s \in Sockets, ~IsOpen(s), NEW family \in {4, 6},
           NEW nodelay \in BOOLEAN, Creates(s, family, nodelay)
    PROVE  TableStep
BY CreatedType, TakeStep DEF Creates

LEMMA CloseStep ==
    ASSUME TypeOK, DescriptorOwned, NEW s \in Sockets, CloseSocket(s)
    PROVE  TableStep
<1>1. {f \in Fds : InUse(f)}' = {f \in Fds : InUse(f)} \ {sock[s]}
  BY DEF CloseSocket, Freed, InUse
<1>2. CASE IsOpen(s)
  <2>1. Table!GiveUp(s)
    BY <1>1, <1>2 DEF Table!GiveUp, IsOpen, CloseSocket
  <2> QED
    BY <2>1 DEF TableStep, Table!TableNext
<1>3. CASE ~IsOpen(s)
  <2>1. sock[s] = Invalid /\ sock' = sock
    BY <1>3 DEF IsOpen, CloseSocket, TypeOK
  <2>2. {f \in Fds : InUse(f)}' = {f \in Fds : InUse(f)}
    BY <1>1, <2>1, SocketsAssumption
  <2> QED
    BY <2>1, <2>2 DEF TableStep, Table!tableVars
<1> QED
  BY <1>2, <1>3

LEMMA MoveStep ==
    ASSUME TypeOK, NEW s \in Sockets, NEW t \in Sockets, t # s, Moves(t, s)
    PROVE  TableStep
<1>1. {f \in Fds : InUse(f)}' = {f \in Fds : InUse(f)} \ {sock[t]}
  BY DEF Moves, Freed, InUse
<1>2. Table!HandOn(s, t)
  BY <1>1 DEF Table!HandOn, Moves
<1> QED
  BY <1>2 DEF TableStep, Table!TableNext

\* Setting an option of a descriptor in use opens and closes nothing.
LEMMA OptionStep ==
    ASSUME sock' = sock, \A fd \in Fds : InUse(fd)' <=> InUse(fd)
    PROVE  TableStep
BY DEF TableStep, Table!tableVars

LEMMA OpenSteps ==
    ASSUME SocketsInv, NEW s \in Sockets,
           \/ s \in Tcps /\ (OpenTcp(s) \/ Connect(s))
           \/ /\ s \in Duals
              /\ \/ OpenDual(s) \/ Fallback(s) \/ TurnOffV6Only(s) \/ Bind(s)
                 \/ Listen(s) \/ Broadcast(s)
           \/ SetNonblocking(s)
    PROVE  TableStep
<1>1. TypeOK /\ DescriptorOwned
  BY DEF SocketsInv
<1>2. ASSUME UNCHANGED <<sock, kernel>> PROVE TableStep
  BY <1>2, OptionStep DEF InUse
<1>3. ASSUME pc[s] \in Opening, NEW d \in Descriptors, sock' = sock,
             kernel' = [kernel EXCEPT ![sock[s]] = d]
      PROVE  TableStep
  <2>1. sock[s] \in Fds /\ kernel[sock[s]] # Unused /\ d # Unused
    BY <1>1, <1>3, UsedIsDescriptor, DescriptorsAreUsed DEF TypeOK
  <2> QED
    BY <1>1, <1>3, <2>1, OptionStep DEF InUse, TypeOK
<1>4. CASE OpenTcp(s)
  BY <1>1, <1>2, <1>4, CreateStep DEF OpenTcp
<1>5. CASE OpenDual(s) /\ s \in Duals
  <2>1. Disables(s)' \in BOOLEAN
    BY <1>1, <1>5 DEF OpenDual, Disables, TypeOK
  <2> QED
    BY <1>1, <1>2, <1>5, <2>1, CreateStep DEF OpenDual
<1>6. CASE Fallback(s)
  <2>1. Disables(s) \in BOOLEAN /\ ~IsOpen(s)
    BY <1>1, <1>6 DEF Fallback, Disables, TypeOK
  <2> QED
    BY <1>1, <1>2, <1>6, <2>1, CreateStep DEF Fallback
<1>7. CASE TurnOffV6Only(s)
  <2>1. pc[s] \in Opening /\ sock[s] \in Fds /\ kernel[sock[s]] \in Descriptors
    BY <1>1, <1>7, UsedIsDescriptor DEF TurnOffV6Only, Opening, TypeOK
  <2>2. [kernel[sock[s]] EXCEPT !.dual = TRUE] \in Descriptors
    BY <2>1 DEF Descriptors
  <2>3. CASE kernel' = [kernel EXCEPT ![sock[s]].dual = TRUE] /\ sock' = sock
    BY <1>3, <2>1, <2>2, <2>3
  <2> QED
    BY <1>1, <1>7, <2>3, CloseStep DEF TurnOffV6Only
<1>8. CASE SetNonblocking(s)
  <2>1. pc[s] \in Opening /\ sock[s] \in Fds /\ kernel[sock[s]] \in Descriptors
    BY <1>1, <1>8, UsedIsDescriptor DEF SetNonblocking, Opening, TypeOK
  <2>2. [kernel[sock[s]] EXCEPT !.nonblocking = TRUE] \in Descriptors
    BY <2>1 DEF Descriptors
  <2>3. CASE kernel' = [kernel EXCEPT ![sock[s]].nonblocking = TRUE] /\ sock' = sock
    BY <1>3, <2>1, <2>2, <2>3
  <2> QED
    BY <1>2, <1>8, <2>3 DEF SetNonblocking
<1>9. CASE Bind(s) \/ Listen(s) \/ Broadcast(s) \/ Connect(s)
  BY <1>1, <1>2, <1>9, CloseStep DEF Bind, Listen, Broadcast, Connect, CloseAndThrow
<1> QED
  BY <1>4, <1>5, <1>6, <1>7, <1>8, <1>9

LEMMA AcceptStep ==
    ASSUME SocketsInv, NEW v \in Servers, NEW t \in Tcps, Accept(v, t)
    PROVE  TableStep
<1>1. TypeOK /\ v \in Sockets /\ t \in Sockets /\ IsOpen(v) /\ ~IsOpen(t)
  BY DEF SocketsInv, Accept, Sockets, Duals
<1>2. kernel[sock[v]] \in Descriptors /\ naggle[v] \in BOOLEAN
  BY <1>1, UsedIsDescriptor DEF SocketsInv, TypeOK
<1>3. [Created(kernel[sock[v]].family, naggle[v]) EXCEPT !.nonblocking = TRUE] \in Descriptors
  BY <1>2 DEF Created, Descriptors
<1> QED
  BY <1>1, <1>3, TakeStep DEF Accept

LEMMA SocketsImplementTable == ASSUME SocketsInv, [Next]_vars PROVE TableStep
<1>1. /\ TypeOK /\ DescriptorOwned
      /\ Tcps \subseteq Sockets /\ Duals \subseteq Sockets
      /\ Servers \subseteq Sockets /\ Udps \subseteq Sockets
  BY DEF SocketsInv, Sockets, Duals
<1>2. ASSUME UNCHANGED <<sock, kernel>> PROVE TableStep
  BY <1>2, OptionStep DEF InUse
<1>3. ASSUME NEW s \in Sockets,
             \/ AcceptNothing(s) \/ SendTcp(s) \/ SendUdp(s) \/ ReceiveTcp(s) \/ ReceiveUdp(s)
             \/ Add(s) \/ Remove(s) \/ Wait(s)
      PROVE  TableStep
  BY <1>2, <1>3 DEF AcceptNothing, SendTcp, SendUdp, ReceiveTcp, ReceiveUdp, Add, Remove, Wait
<1>4. ASSUME NEW s \in Sockets, Close(s) \/ Renew(s) PROVE TableStep
  BY <1>1, <1>4, CloseStep DEF Close, Renew
<1>5. ASSUME NEW s \in Sockets, NEW t \in Sockets, MoveAssign(t, s) \/ MoveConstruct(t, s)
      PROVE  TableStep
  BY <1>1, <1>2, <1>5, MoveStep DEF MoveAssign, MoveConstruct
<1>6. CASE UNCHANGED vars
  BY <1>2, <1>6 DEF vars
<1> QED
  BY <1>1, <1>3, <1>4, <1>5, <1>6, OpenSteps, AcceptStep DEF Next

\* Whatever call of an open() fails and however sockets are moved, descriptors are taken,
\* handed on and given up as the table allows.
THEOREM OwnsDescriptorsCorrect == Spec => OwnsDescriptors
<1>1. Init => Table!TableInit
  BY DEF Init, Table!TableInit, InUse
<1>2. SocketsInv /\ [Next]_vars => [Table!TableNext]_(Table!tableVars)
  BY SocketsImplementTable DEF TableStep
<1> QED
  BY <1>1, <1>2, SocketsInvariance, PTL DEF Spec, OwnsDescriptors, Table!TableSpec
=============================================================================
