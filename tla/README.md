# A verification of setka

setka is a small C++ networking library: IP addresses, TCP and UDP sockets that
work with a wait set, and an asynchronous DNS resolver. This directory holds
TLA+ models of it, the TLC runs that check them on small instances, and proofs
checked by TLAPS for instances of any size. Paths are relative to the
repository; line numbers without a file are those of
`src/setka/dns_resolver.cpp`.

The resolver is where the library's own logic is. It has callers on any thread,
a lookup thread that comes and goes, three mutexes, user callbacks that call the
API again, a lossy network and a clock that wraps. The sockets wrap system
calls, several to one `open()`. Addresses, packets and the life of the library are
modelled together, as what one lookup goes through from end to end.

## Inventory

| Component | State | Operations | What makes it hard |
|---|---|---|---|
| Callers of the resolver (918-1107) | `dns::mutex`, `dns::thread` | `resolve()`, `cancel()`, `clean_up()` | called from any thread and from callbacks; `resolve()` has two critical sections; `cancel()` waits for a callback and `clean_up()` for a thread, with mutexes held |
| Lookup thread (101-895) | `quitFlag`, `isExiting`, `queue`, `mutex`, `completedMutex`, `prevThread`, wait set | `run()`: open, then rounds of read, send, time out, wait | leaves when it has no request, and is replaced while it does; the mutex is released around each callback; wake-ups may be lost; the socket may fail |
| Requests (76-99, 503-526, 955-1050) | `resolversMap`, `idMap`, `sendList`, two time maps | insert, remove, find a free id | five containers that have to agree; ids are used again |
| Packets (36-66, 143-263, 290-481, 706-791) | questions on their way, `recordType` | send a question, parse a reply, fall back from AAAA to A | UDP: replies late, repeated, lost, or for an earlier request |
| Timeouts (819-867, 1009-1026) | `resolversByTime1`, `resolversByTime2`, `lastTicksInFirstHalf` | file by end time, expire, swap the maps, compute the wait | a 32-bit millisecond clock wraps every 49.7 days |
| DNS server address (544-659, 778-782) | `dns` | `InitDNS()`, the choice in `run()` | cuts the text of an address at the first character it does not know |
| Library life time (`init_guard.cpp`) | the guard, the handler of SIGPIPE | construct, destroy | puts a handler back by opposite tests in constructor and destructor; the destructor calls `clean_up()` in between |
| Sockets (`socket`, `tcp_socket`, `udp_socket`, `tcp_server_socket`) | descriptor, readiness flags | open, close, move, send, receive, bind, listen, accept | several system calls of which each may fail; IPv6 with a fall-back to IPv4; readiness flags cleared before the call they guard |
| Addresses (`address.cpp`) | none | parse and format IPv4, IPv6, address with port | text with many forms |
| Wait set, queue, thread, clock (opros, nitki, utki) | readiness, messages | `wait()`, `push_back()`, `join()` | outside the repository |

How they interact. `resolve()` creates a `LookupThread` if there is none or the
present one is exiting; it inserts the request under the object's mutex and, if
the send list was empty, queues a message that makes the wait set watch for
writability. `run()` joins its predecessor, opens the socket under `dns::mutex`,
and then works in rounds. A request ends in `RemoveResolver()` and
`CallCallback()`, which takes `completedMutex`, releases `mutex`, calls
`on_completed()`, and takes `mutex` again. `cancel()` removes the request itself,
and if there is none waits for `completedMutex`. The destructor of the library
guard calls `clean_up()`, which asks the thread to quit and joins it.

What makes each correct:

- callers and lookup thread: a request that was accepted ends; every call
  returns; after `cancel()` no callback comes; no wake-up is lost; one thread
  works at a time; a destroyed object has no requests;
- requests and packets: ids are distinct and refused only when all are in use;
  a reply ends the request it is for; what is reported follows from the records
  of the host; each request is in the send list once;
- DNS server address: the server that was named, or the first one that is listed, is
  asked, and the same one for both questions of a lookup;
- library life time: a closed connection does not end the process while the library
  is used, and the handler the application has set survives;
- timeouts: none early, none very late, none left in the wrong map;
- sockets: no descriptor is leaked or closed twice, whichever call fails; a
  socket whose `open()` returned is as documented, one whose `open()` threw is
  closed; readiness is that of the descriptor the socket has;
- addresses: an address is the same after its way through a `sockaddr` or a text, and
  a port is the number its digits spell, or refused.

`PROJECT.json` lists the hazards at their lines, with the properties for them.

## Modules

| Module | Models | Lines of it |
|---|---|---|
| `DnsLookup` | callers, lookup threads, mutexes, messages, failures | 101-137, 484-542, 661-895, 918-1107 |
| `ServedRequests` | what the lookup threads together are to callers; abstract, implemented by `DnsLookup` | 101-137, 503-542, 888-895, 931-1084 |
| `LookupTime` | the two time maps on a clock modulo `W` | 503-526, 819-867, 1009-1058 |
| `DnsExchange` | ids, send list, questions and replies, A and AAAA records | 36-66, 143-276, 290-481, 503-526, 706-855, 955-1093 |
| `LookupService` | what a lookup promises; abstract, implemented by `DnsExchange` | `dns_resolver.hpp` 18-113 |
| `Sockets` | TCP, server and UDP sockets and their descriptors | `socket.cpp`, `tcp_socket.cpp`, `tcp_server_socket.cpp`, `udp_socket.cpp` |
| `DescriptorTable` | what the socket classes promise about descriptors; abstract, implemented by `Sockets` | `socket.hpp` 62-71, `socket.cpp` 20-64 |
| `Addresses` | `setka::address`: texts, ports, `sockaddr` | `address.hpp`, `address.cpp`, `tcp_socket.cpp` 45-82, 199-228 |
| `DnsServer` | `InitDNS()` and the choice of the server | 615-659, 778-782 |
| `DnsPackets` | the question as it is written, the walk through a reply | 36-66, 172-252, 290-480 |
| `InitGuard` | `init_guard` and the handler of SIGPIPE | `init_guard.cpp` |
| `Library` | one lookup after another in the life of the guard; composes the four above | 674-855, 918-996, 1069-1107 |
| `MCDnsLookup`, `MCLookupTime`, `MCDnsExchange`, `MCSockets`, `MCLibrary` | the instances TLC checks | |
| `LeastAndGreatest` | lemmas on least and greatest elements of finite sets of numbers, on induction and on recursive functions | |
| `DnsLookupProofs`, `LookupTimeProofs`, `DnsExchangeProofs`, `SocketsProofs`, `PacketProofs`, `AddressProofs`, `LibraryProofs` | theorems and proofs | |

The models of the resolver look at the same code from several sides, so that each stays
within TLC's reach. They share the requests, the mutex and the shape of a round:
what one of them does in detail, the others leave open. The time at which a
request is due is any time in `DnsLookup`, exact in `LookupTime`, and any time in
`DnsExchange`. Which reply answers which request is exact in `DnsExchange` only.
Which thread runs is exact in `DnsLookup` only. What is in a packet, and to which
address it goes, is exact in `Library` only, which has one request at a time.

### DnsLookup

A step is a critical section, or the part of one between two points where the
code takes or releases a mutex, blocks, or calls back. `pc[g]` is the place in
`run()` of thread object `g`, `call[p]` the API call of caller `p`. A caller is a
client or a lookup thread within a callback (`completing[g]` is the resolver
whose callback runs; `completedMutex` is held exactly then). Objects are created
by `Construct` and destroyed by `JoinPrevious` or `CleanUpJoin`, and identities are
used again. `Open` takes `dns::mutex` (681); `OpenFails` and `OpenFailing` follow the
handler at 681-689, which runs callbacks with `dns::mutex` held and releases the
object's mutex without having it.

Abstractions. The send list and the queue are sets: the order of requests and
the number of equal messages do not matter to the properties here, and `Drain`
takes all messages in one step, since they only add to what is watched.
`NoServer` is the set of resolvers for which no DNS server address is known.
`DeadlinePasses` makes a request due at any time but while `run()` goes through
the due ones, because the code samples the clock once before.

A late "not found" reply may make a request fall back to an A record while it is still
in the send list, against the assertion at 736 that a release build does not have. The
request then has two entries: `sendList` is the set of requests whose `sendIter` points
into the list, `stray` that of requests with an entry no `sendIter` points to. When a
request with a stray entry is removed, the entry is left with a pointer to what was
destroyed (`dangling`); a thread that takes it from the list goes to the point
"undefined", from where the model takes no step. `Belated` is the set of resolvers this
may happen to.

`ServesRequests` says that all this implements `ServedRequests`, in which there are no
threads: one set of requests that is `served`, one callback at a time (`calling`), and a
service that is `stopped` or not. `resolve()` accepts a request at its insertion (1040),
`cancel()` withdraws it at its removal (1077), `CallBack` is `RemoveResolver()` with the start
of the callback. `served` are the requests of `dns::thread`, so those that `cancel()` finds;
`leaving` those of a thread that failed and was replaced while it completes them. The
abstraction promises that the successor makes no callback before those of the failed
thread are done, and that no request ends in silence but when a new object takes the place of one that
has stopped: one at most, the one `DnsLookupExitRace` shows. It promises nothing
to a request that is accepted when the service has stopped, as `DnsLookupQuit` shows.

### LookupTime

`ticks` is the clock of the code, `base + ticks` real time. `Slack` bounds the time
from one wait to the next, callbacks included, and `Wait` sleeps at most
`Quarter`. `noticed` is the wrap the maps have been adapted to, `deadline` the real
time a request should end, `unnoticed` the requests filed between a wrap and the
sample that shows it; these are history variables, read by no guard. When the
first map is empty the code reads through `end()` (863): the wait is then any
value after clamping. A `cancel()` that leaves no request is left out, since the
thread then quits, which is in `DnsLookup`.

### DnsExchange and LookupService

`asked` is the set of questions the server may still answer. A question stays in
it after a reply was read, so replies may be repeated, come in any order, or
never. Only the last `MaxAsked` questions are kept, chosen freely: a question that
is dropped is one whose replies are lost. The records of a host do not change
while it is looked up, and only answers to questions that were asked arrive. One
lookup thread exists at a time; its mutex is free between rounds and during
callbacks. When it ends its socket closes, and late replies are lost with it.
One packet is read per round, as in the code. `sendList` is a sequence in which a
request may occur twice, because the code allows it (see below); `unsent` are the
requests whose `sendIter` refers to the list, which `RemoveResolver` erases. The
models follow the release build, in which assertions do nothing: a request that
is destroyed and left in the list leads to `pc = "undefined"`, where the model
stops. A request for which no server is known ends with an error when its turn comes
(`SendNoServer`; it may be any request). Where the socket reports an error or an
operation of it throws (700-703, 756-760, 800-810), `SocketFails` leads to "failing",
where all requests end with an error, one callback after the other. A failing
`open()`, and a `resolve()` during "failing", which goes to a new thread, are in
`DnsLookup`.

`LookupService` says what the user is promised: a request ends at most once, in
`cancel()` or in one callback, callbacks come one at a time, and `Answers(h)` is
what may be reported of a host: a timeout, an error of the socket, or what the server says
of the AAAA record or, if it says that there is none, of the A record; so "not found" only
of a host that has neither. It has `wanted` and `reported` as its variables.
`DnsExchange` implements it with the hosts of active requests as `wanted` and
`callback` as `reported`, with one exception that `MeetsService` names: `StaleReport`, what
is made of a reply to a question for the other record type.

### Sockets

A step of `open()` ends with one system call: `OpenTcp` or `OpenDual` with `socket()`,
`Fallback` with the `socket()` for IPv4, then `TurnOffV6Only`, `Bind`, `Listen`,
`SetNonblocking`, `Broadcast`, `Connect`. `pc[s]` names the call that comes next.
Server and UDP sockets share the steps they have in common. Each call succeeds or
fails, and between two of them other objects, of other threads, may take or give
up descriptors. One object is used by one thread at a time, as its methods take
no lock. `kernel` is the system's side: the options of each descriptor in use.
`result` remembers how an object got its descriptor; no guard reads it.

`accept()` is one step, `Accept`, into an object just made: what it does to the new
descriptor concerns nobody else. `Moves` is `socket::operator=`; the move of the
waitable it starts with is external, and the comment at `socket.cpp:50` says that
it throws for a socket in a wait set. Calling `close()` on such a socket is against
its assertion and is left out. The readiness flags that a wait set may set are the
constant `Readiness`. Data, addresses and error codes are left out, and so are
EINTR loops, after which the call is as it was.

`OwnsDescriptors` says that all this implements `DescriptorTable`: `open` is the set of
descriptors the system has given out, `holds` the descriptor of each object. An object
takes a descriptor that is free, gives up its own, or hands it on to another, whose
own one is closed by that. In `open()` the descriptor for IPv6 is given up (`TurnOffV6Only`)
before the one for IPv4 is taken (`Fallback`), so that another thread may get it in between.

### Library, and the modules it is made of

`Addresses`, `DnsServer` and `DnsPackets` have no variables: they are the functions of
the code on abstract data. A quad of an address is two 16-bit numbers. A text is what
its characters spell, so that parsing is exact up to the choice of `inet_pton()`, which
is external: it accepts four numbers below 256, and eight groups or fewer with a `::`.
What may throw is a set that is empty then. `Cut` is the effect of
`find_first_not_of(":.0123456789")` (642) on an IPv6 text: the digits before the first
letter stay. A host name is the sequence of the lengths of its labels. A reply is the
fields that the walk tests; where each part of it ends is computed, and `octets` says
how many bytes were received. The walk through the answers is a recursive function.

`InitGuard` has the constructor and the destructor of the guard in two steps each, with the
application's own calls of `signal()` before, after and during the life of the guard;
`chosen` and `since` are history variables. `Library` adds the lookup: `Resolve`, `Start`
(`InitDNS()`), `SendQuestion`, `NoServerKnown`, `SocketFails`, `Receive`, `Timeout`, `Cancel`,
`RunEnds`. The request is in the send list at "ready", twice at "twice", and at "again" its
question was sent but the second entry is left; replies are read at each of these points and
at "asked", so that a reply may come before the question. A request that ends at "twice"
or "again" leaves an entry behind: `Leave` goes to "done" or to "undefined", as the thread
takes that entry or not. The guard
and the lookup meet in `JoinedReset`: `clean_up()` joins the thread before the handler
is reset, and asserts that no request is active (1101-1104), which is the application's duty.

A reply has the id of the request, since `DnsExchange` is about ids. When its name was
cut off, `ParseHostNameFromDNSPacket()` reads on in the buffer of 512 bytes, in what an
earlier packet left there (711, 724): `NameMayMatch` then leaves open whether it matches.
An owner of labels that end in a pointer makes the walk read the length of the record from
the wrong place; it runs past the buffer if the low byte of the true length is 2 or more, to
which `IsReply` confines such records.

## Runs

| Run | Shows | States |
|---|---|---|
| `DnsLookupAny` | with one client, two resolvers, three thread objects, every operation from client and callbacks, an unknown DNS server, late replies, failing open and failing socket: containers agree (`MapsAgree`), queued closures find their own thread (`DrainsOwnQueue`), `OneWorker`, `TwoObjects`, no lost wake-up (`UnsentIsNoticed`, `QuitIsNoticed`), `CancelStopsCallbacks`, and that `ServedRequests` is implemented (`ServesRequests`) | 1,132,600 |
| `DnsLookupLive` | with `resolve()` and `cancel()` from a client: `CallsReturn`, `QuitStops` | 13,511 |
| `DnsLookupCallbacks` | with callbacks of three resolvers that start the next requests, and `clean_up()`: `RequestsFinish`, `CallsReturn`, and no deadlock | 31,528 |
| `LookupTime` | a clock of eight values, two resolvers, four timeouts, more than two wraps: `NeverVeryLate`, `RoundExpiresDue`, `EarlyOnlyIfUnnoticed` | 552,273 |
| `DnsExchange` | three resolvers, three ids, a host with an AAAA record and one without, unknown servers and failing sockets: `IdsDistinct`, `RefusedOnlyIfFull`, `MeetsService` | 1,079,634 |
| `Sockets` | two TCP, two server and one UDP socket, two descriptors: `DescriptorOwned`, `ReadyAsPromised`, `FailureCloses`, `BindsItsFamily`, `NaggleAsOpened`, `QuietWhenOpened`, and that `DescriptorTable` is implemented (`OwnsDescriptors`) | 411,438 |
| `Library` | one lookup after another, with 14 address texts, 10 `resolv.conf` files, four names and several hundred replies: `SignalSafe`, `DispositionKept`, `ServerChosen`, `PeerIsServer`, `PortAsSpelled`, `EchoIsRecognised`, `FirstRecordReported` | 334,710 |
| `DnsLookupQuit` | violation: `ActiveRequestsHaveThread` | |
| `DnsLookupExitRace` | violation: `DestroyedEmpty` | |
| `DnsLookupCancelLate` | violation: `NoCallbackAfterCancel` | |
| `DnsLookupDeadlock` | violation: `CallsReturn` | |
| `DnsExchangeListed` | violation: `ListedOnce` | |

Every run but those with temporal counterexamples or liveness uses symmetry where
no value is told apart. `CHECK_DEADLOCK FALSE` stands where the system may stop:
`DnsLookupAny` and `DnsLookupDeadlock` because the deadlocks described below are in
the code, `Library` because an application may stop calling, and `DnsExchange` and
`DnsExchangeListed` because of the undefined point.

### Bounds

- Three thread objects: one more than `TwoObjects` allows at once, so that a new
  one can be made while two exist. It is proved that there are never more.
- Two or three resolvers and `MaxRequests = 2`: the id space fills up, two requests
  are in a container while a third is refused.
- One client: with the lookup threads, which call the API from callbacks, two or
  three callers race. Calls hold `dns::mutex` from their start to their end, so that more
  clients only take turns.
- `W = 8`: halves of 3 and 5 values, a quarter of 1, as `(2^32 - 1) / 2` and `/ 4`
  round down too. `Timeouts = {0, 2, 5, 7}` has one that is due at once, one within
  a half, and two that reach beyond a wrap. `MaxTime = 15` allows two wraps and the
  cycle after the second.
- `MaxId = 2`, three resolvers: the least id, the greatest and a gap are all
  found, and all ids are in use at times. `MaxAsked = 2`: a late reply and a current
  one compete. The proofs have no bound on any of these but `MaxAsked`, which may
  be any positive number. `MaxListed` bounds the entries of the send list after a
  fall-back: 3 allows a request twice and another one in between; the proofs allow any.
- `Belated` has both resolvers in `DnsLookupAny` and one of them in the other runs of
  `DnsLookup`, to keep those with liveness small; the proofs allow any.
- Two TCP sockets and two server sockets, so that each kind of move happens, one UDP
  socket, and two descriptors, so that they run out and are used again at once.
  `Readiness = {"read"}`: which flag it is makes no difference to the property. The
  proofs have no such bounds.
- In `Library`, texts with ports of no, one, two, five and six digits, on both sides of
  65535, with and without brackets; IPv6 addresses with and without a letter, in the
  first, the last and a middle group; names with one label, an empty label at the end, and
  the 253 characters that are allowed; replies of no, one or two answers, of each
  type, of the right and of a wrong size, cut by 1, 4, 16 and 20 bytes, and with each
  field of the header or the question wrong. `Heads` of `DnsServer` covers all groups.

### What the violations show

- `DnsLookupQuit`. `cancel()` of the last request makes the thread quit (1080), but
  does not mark it as exiting. The next `resolve()` gives its request to a thread
  that has left its loop: nothing serves it, not even its timeout. The comment at
  946 says "If there are active requests then the thread must be running."
- `DnsLookupExitRace`. `resolve()` checks `isExiting` in one critical section (938-953)
  and inserts in another (998-1058). The thread may exit in between; the request
  is destroyed with the object, against the assertion at 494.
- `DnsLookupCancelLate`. When the socket reports an error the thread marks itself as
  exiting and completes all its requests, with its mutex released during each
  callback (700-703, 528-542). A `resolve()` of another resolver, or of one that has been
  completed, then makes a new thread object (947-951), and `cancel()` looks for its request,
  and for a running callback, in that one only (1077, 1089). It returns false, and the old
  thread calls the callback afterwards: the user may have destroyed the resolver.
  `dns_resolver.hpp:88` guarantees that there is no callback after `cancel()` returned.
  `CancelStopsCallbacks` is what holds, and is proved: it leaves out threads that fail and
  are not `dns::thread` any more.
- `DnsLookupDeadlock`. `cancel()` waits for `completedMutex` with `dns::mutex` and
  `mutex` held (1089), while the callback it waits for calls `resolve()`.
  `dns_resolver.hpp:89` foresees that callbacks do so.
- `DnsExchangeListed`. A "not found" reply to a cancelled request puts a new one with
  the same id and host into the send list again, against the assertion at 736. In a release
  build the request is then listed twice, and `sendIter` points to the second entry. If it
  ends before both are sent, the other entry points to what was destroyed, and `run()` sends
  from it (778): the point "undefined" of the models.

More facts that no run reports, met while modelling. Where a property is silent about one
of them, it says so in its comment.

- A late answer to the AAAA question, or a second one, may be read when the request has
  fallen back. If it says "not found", or has no answers (348), the lookup ends with `not_found`
  although the host may have an A record; `dns_resolver.hpp:30` says of `not_found`
  "DNS server reported that there is not such domain name found." If it has a record, of
  the wrong type by then, the lookup ends with `dns_error`. `StaleReport` is this exception of `MeetsService`.

- When all requests end after the next wrap of the clock, the first map is empty where
  857 asserts that it is not, and 863 reads through `end()`. `LookupTime` follows the
  release build, in which the wait then has any length.
- A request filed after a wrap and before `run()` sampled the clock goes into the map that
  the next round expires entirely, and times out at once: `EarlyOnlyIfUnnoticed` names
  this exception.
- `cancel()` returns true without waiting when the resolver's earlier callback is still
  running and a new request was accepted meanwhile (1084); the header promises only that
  no callback comes later.
- `clean_up()` called while a new thread has not yet opened its socket joins a thread
  that waits for the `dns::mutex` it holds (1101, 681). That deadlock is reachable in
  `DnsLookupAny`, where deadlock is not checked.
- A complete reply to the AAAA question that holds an alias (CNAME) of the host alone ends
  the lookup with `dns_error` (480), and no A record is asked for, although the host may
  have one: the fall-back at 730 needs a reply without any answer (348) or the
  verdict that there is no such name (324). In `Library`, `IsComplete` replies without a record
  of the type are why `FirstRecordReported` demands success only if there is one.
- A host name with an empty label, `"a."` included, is never recognised in the reply:
  the lookup times out. If the last label is empty, or the name is, the packet is longer than
  what was written to it, against the assertion at 249. `EchoIsRecognised` is about names
  without an empty label, and says of the empty name that it is recognised.
- An address of a name server in `resolv.conf` is cut at its first letter: `2001::1a` is
  taken for `2001::1`, most other IPv6 addresses with a letter are skipped.
  `ServerChosen` demands the listed server only if no address up to there has a letter.
- A server named by the application is replaced by that of the system also if it is an
  IPv6 address whose last 32 bits are zero (780); `dns_resolver.hpp:75` speaks of
  an invalid address. `ServerChosen` says nothing of such a server.
- `to_string()` writes the quads of an IPv6 address in the opposite order
  (`address.cpp:242`), so that its text is that of another host, where `address.hpp:198-199`
  promises a string for this address. Theorem `IpTextReadsBack` says which addresses are
  read back from their texts: of the IPv6 ones, those whose quads are the same in both directions.
- `"10.0.0.1"` and `"10.0.0.1:"` give port 0, where `address.hpp:261-262` says that a text
  without a proper port is refused; `PortAsSpelled` says nothing of texts without digits.
- `SIG_IGN` set by the application before the guard was made is not restored
  (`init_guard.cpp:57`; the comment at 54 speaks of restoring the handler). `DispositionKept`
  names this exception.
- A socket whose `set_nonblocking_mode()` fails is left open and blocking by an `open()`
  that throws (`udp_socket.cpp:117`, `tcp_server_socket.cpp:133`, `tcp_socket.cpp:40`):
  `FailureCloses` and `ReadyAsPromised` name that one. Assigning to a server socket that is
  in a wait set throws after `disable_naggle` was copied (`tcp_server_socket.hpp:36`):
  `NaggleAsOpened` leaves it out.

### Fairness

`FairSpec` has strong fairness for each caller, each lookup thread, the return of
callbacks and the passing of deadlines. A step of a thread may be disabled again
and again by another that takes the same mutex: strong fairness says that a mutex
that is released repeatedly is granted in the end, which `std::mutex` does not
guarantee by the letter, but the schedulers it runs on do in practice. Callbacks
return, because `run()` depends on it. Deadlines pass, because the clock does. No
fairness is assumed of the network, of the sockets' readiness (an answer or a
writable socket may never come), nor of users (who need not call anything). Nothing is
fair any more once a thread took a dangling entry: the liveness properties end in
`\/ Undefined`.

`DnsLookupCallbacks` sets `CallbackDriven`: a client starts the first request only
and callbacks the others. Without that, the exit race above loses requests, and
`RequestsFinish` fails for that reason.

## Proofs

`DnsLookupProofs`, for any sets of clients, thread objects and resolvers:

- `TypeCorrect`; `OneWorkerCorrect`, `TwoObjectsCorrect`, `DrainsOwnQueueCorrect` from
  `ObjectsInv`, which is inductive together with `DnsMutexInv`: a call that is past
  "lock" holds `dns::mutex`; a thread that serves is `dns::thread` and not exiting; an
  object that is "new" is being set up by a call at "insert"; only an object that
  has not joined has a predecessor. `OneWorker` alone is not inductive: it needs
  that a thread that works has joined its predecessor, and that no other exists.
- `UnsentIsNoticedCorrect`, inductive with `ObjectsInv`, without which a closure
  could change the wait set of another object; `QuitIsNoticedCorrect` from `QuitInv`,
  which extends the property to all points from the check of the flag to the wait.
- `MapsAgreeCorrect`, inductive with the types alone: every request in a container is in
  `resolversMap`, and one with a stray entry asks for an A record. The exception, the entry
  of a request that was removed, is `dangling`, and not in these sets.
- `CancelStopsCallbacksCorrect`, whatever fails, from `CallbackInv`: a thread leaves the
  points at which it makes callbacks only when it has none to make, and a `cancel()` that
  waits has removed its request. With `ObjectsInv`, a thread that is not `dns::thread` has
  ended or is failing; one that could not open its socket holds `dns::mutex`, so that no
  `cancel()` returns meanwhile.
- `ServesRequestsCorrect`, the refinement of `ServedRequests`, step by step: a step of `run()`
  either completes one request or leaves requests and callback alone (`RunCompletes`), and
  what it is to callers follows from what other objects may be doing (`Others`). The mapping needs
  three invariants more. `StoppedInv`: an object whose thread ended and which is marked as
  exiting has no request, or the one of a `resolve()` that had found it running; it is why
  no more than one is lost. `FailedOpenInv`: an object that could not open its socket is
  `dns::thread` until it has completed its requests, as it holds `dns::mutex`, so that
  they are `served`, not lost. `CleanUpInv`: `clean_up()` destroys an object without requests,
  which is the application's duty.

`LookupTimeProofs`, for any clock size, timeouts and slack with
`Quarter + 2 * Slack <= Half`, which is what the comment at 820 ("called at least
4 times per full time warp around cycle") comes to: `TimeTypeCorrect`,
`NeverVeryLateCorrect`, `RoundExpiresDueCorrect`, `EarlyOnlyIfUnnoticedCorrect`. The
inductive `TimeInv` is `TypeOK`, `FiledInv` (the map and the key of a request tell its
deadline, relative to the wrap that was noticed), `ClockInv` (no wrap is missed:
how far the clock is from the last sample) and `LateInv` (how late a request may
be at each point of a round).

`DnsExchangeProofs`, for any resolvers, hosts, records and number of ids:

- `FindFreeIdCorrect` and `RefusedCorrect` are about the function `FindFreeId` alone:
  it returns an id that is free, and throws only if there is none. They rest on
  least and greatest elements of finite sets of naturals (`LeastAndGreatest`).
- `TypeCorrect`, `IdsDistinctCorrect`, `RefusedOnlyIfFullCorrect` and
  `MeetsServiceCorrect`, from `ExchangeInv`: `TypeOK`, `IdsDistinct`, `ListInv` (the send
  list has active requests and entries of destroyed ones, and every request whose
  `sendIter` refers to it) and
  `FallbackInv` (an A record is asked for only if there is no AAAA record, for
  requests and for questions on their way). Without `FallbackInv` an A record could
  be reported for a host that has an AAAA record. The steps that need the exception
  `StaleReport` are those of `ReadReply` with a question of the other type only; a reply to
  the question that is open, a timeout and an error are proved to be in `Answers`.

`SocketsProofs`, for any sets of sockets and descriptors, proves every property of
the run, from `SocketsInv`: `TypeOK`, `DescriptorOwned`, and `Good(s)` of each object.
`Good` has the other properties and `Progress`, what the steps of `open()` have done
when it has come to a point: without it nothing would be known of the descriptor
when `open()` returns. `DescriptorOwned` is what makes it enough to look at the
object a step is about: no other object's descriptor changes
(`UntouchedStaysGood`). `QuietWhenOpened` needs `Quiet` besides: a socket that is
connecting has no flags set. `OwnsDescriptorsCorrect` is the refinement of
`DescriptorTable`: each step, mapped, takes, gives up or hands on one descriptor or changes
none, and `DescriptorOwned` is why the set of open descriptors changes by just that one.

`AddressProofs`, for any address:

- `SockaddrReadsBack`, `MappedReadsBack`: every address is the same after its way through a
  `sockaddr` and through the mapping of IPv4 into IPv6. They rest on the arithmetic of bytes:
  `htonl()` and `ntohl()` are inverse.
- `IpTextReadsBack`: an address is read back from its text if and only if it is an IPv4
  address, or its quads are the same in both directions.
- `PortIsDecimal`: the loop that adds digits times powers of ten, from the last digit on,
  computes the decimal number that the digits spell, for any number of digits.

`PacketProofs`, for any host name and any reply:

- `QuestionReadsBack`: what `ParseHostNameFromDNSPacket()` reads of the question that
  `SendRequestToDNS()` wrote, that the packet fits the buffer, and how long it is if the last
  label is not empty. The loop over the dots is
  a recursive function of the labels; the proof is by induction on how many are left.
- `FirstRecordFound`: the loop over the answers ends in an error, or returns the first record
  of the type asked for, every byte of which and of the answers before it was received;
  and if the reply was received in full, with owners that the walk understands, and has
  such a record of the right size, it does not end in an error.

`LibraryProofs`, for any lookups, texts, files, replies and signal handlers, proves every
property of the run:

- `SignalSafeCorrect` and `DispositionKeptCorrect`, from `GuardInv`: what the handler and the variable
  of the constructor or destructor are at each stage, in terms of what the application
  chose, and that a thread runs only while the guard lives or cleans up.
- `LibraryTypeCorrect` and `PeerIsServerCorrect`, from `LookupInv`. They need that whatever `Cut`,
  `InitDNS` and `ReadAddress` return is an address: `CutType` and `DecimalPartType` show that what is left
  of a group of digits is a 16-bit number and of a text no more than eight groups.
- `ServerChosenCorrect`, `EchoIsRecognisedCorrect`, `FirstRecordReportedCorrect` and
  `PortAsSpelledCorrect`, from `RequestInv`: a question in the air is
  the one written for the request, what was reported was read from one of the
  replies, and the server is the one `InitDNS()` chose from the file of that lookup
  (`ServerInv`): before the first question it is the one the application named, and after it
  choosing again changes nothing, wherever replies come in between. The first needs that `SelectInSeq` finds the first line of its kind; the others take the
  theorems on packets and addresses to the states of a lookup.

Recursion. The library's theorems on induction cannot be used, as they take an operator for
parameter. `LeastAndGreatest` proves what takes their place: a set of naturals that has 0 and
with each number the next has all (`Induction`, from the least number that is not in it), and
a recursive definition over an interval has a function that satisfies it
(`RecursiveFunction`). The recursive functions of the models
are therefore written with one argument, the number of steps left.

All assume the named ASSUME of their module only: constants are disjoint and of
the right type, the record type of every host is known, packets fit in the buffer,
texts are addresses as they can be written (`IsAddressText`), replies are records of the
fields that the walk tests, with any values (`IsReply`).

Every invariant and every action property of the runs is proved. Only model-checked is liveness
(`RequestsFinish`, `CallsReturn`, `QuitStops`), which is out of the prover's reach.

## Not modelled

- Exceptions of memory allocation and of starting a thread (743-747, 1022-1035,
  1059-1065). The last handler uses a moved-from pointer: undefined at once.
- Windows, macOS and Android branches: the registry and properties of `InitDNS()`, the
  events of sockets.
- That `InitDNS()` reads the first 4095 bytes of `resolv.conf` only.
- IPv6 texts that end in a dotted IPv4 address, and the lengths of the buffers a text is
  copied to before it is parsed.
- The owner of a record that is labels and then a pointer with a zero byte, which the walk
  takes for the end of the name, or that owns a record whose length is 0 or 1 in its low byte.
  The bytes of fields that are not tested.
- A reply for the empty host that was cut inside its name: the walk would go on from where
  the name was cut (367).
- `open()` failing, and replacement of a failed thread, where ids and packets are
  concerned: `DnsLookup` has them, `DnsExchange` does not.
- A callback that always starts a new request for which no server is known keeps
  `run()` in the sending loop for ever (793): no property excludes it.
- Of the sockets: `get_local_port()`, which changes nothing, data and error codes.
- The wait set, the queue and threads (opros, nitki, utki), which are other repositories:
  `DnsLookup` and `Sockets` have them as the code uses them. Tests and build files.

## Plan

Done, in this order: `DnsLookup`, `LookupTime`, `LookupService` with `DnsExchange`, `Sockets`, each with its
proofs; then `Addresses`, `DnsServer`, `DnsPackets`, `InitGuard` and `Library` with
theirs, `DescriptorTable`, the proofs of `MapsAgree` and of `CancelStopsCallbacks` when sockets fail;
then the proofs about recursive functions and what `Library` says of them, `ServerChosen` for
any file, and `ServedRequests` with the refinement proof.

Left, most useful first:

1. That `LookupTime` and `DnsExchange` implement `ServedRequests` too, with one thread: it would
   tie the three models of the resolver together.
2. The debug build: the assertions at 249, 775 and 857 as properties of their own.
3. The socket of the lookup thread as one of the objects of `Sockets`.
