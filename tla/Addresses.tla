------------------------------ MODULE Addresses ------------------------------
(***************************************************************************)
(* setka::address (address.hpp, address.cpp): IP addresses, the texts they *)
(* are read from and written to, and the sockaddr they become.             *)
(*                                                                         *)
(* A 32-bit quad is a pair of 16-bit numbers, the high one first.  A text  *)
(* is what its characters spell: numbers, the place of "::", and whether a *)
(* port or something else follows.  What may throw returns a set, which is *)
(* empty when it does.                                                     *)
(***************************************************************************)
EXTENDS Integers, Sequences

Byte == {n \in Nat : n < 256}
Half == {n \in Nat : n < 65536}
Quads == Half \X Half
Zero == <<0, 0>>

\* ip::quad.
Ips == [0 .. 3 -> Quads]
AllAddresses == [host : Ips, port : Half]

Ip(q0, q1, q2, q3) ==
    [i \in 0 .. 3 |-> IF i < 2 THEN IF i = 0 THEN q0 ELSE q1
                               ELSE IF i = 2 THEN q2 ELSE q3]

\* The IPv6-mapped address of an IPv4 host.
V4(h) == Ip(Zero, Zero, <<0, 65535>>, h)

Numbers(a) == Ip(<<a[1], a[2]>>, <<a[3], a[4]>>, <<a[5], a[6]>>, <<a[7], a[8]>>)

IsV4(ip) == ip[2] = <<0, 65535>> /\ ip[1] = Zero /\ ip[0] = Zero
GetV4(ip) == ip[3]

IsValid(ip) ==
    IF IsV4(ip) THEN GetV4(ip) # Zero ELSE \E i \in 0 .. 3 : ip[i] # Zero

\* Bytes of a quad in network order: htonl() and ntohl().
Bytes(q) == <<q[1] \div 256, q[1] % 256, q[2] \div 256, q[2] % 256>>
FromBytes(b) == <<b[1] * 256 + b[2], b[3] * 256 + b[4]>>

-----------------------------------------------------------------------------
(* Texts.  "v4": numbers with dots.  "v6": hexadecimal groups with colons,  *)
(* the first gap of them before "::" unless there are eight.  "bad": others. *)

V4Text(numbers) == [form |-> "v4", numbers |-> numbers]
V6Text(groups, gap) == [form |-> "v6", groups |-> groups, gap |-> gap]
BadText == [form |-> "bad"]

IsText(t) ==
    \/ t.form = "v4" /\ t.numbers \in Seq(Nat)
    \/ t.form = "v6" /\ t.groups \in Seq(Half) /\ Len(t.groups) <= 8 /\ t.gap \in 0 .. Len(t.groups)
    \/ t.form = "bad"

Zeros(n) == [i \in 1 .. n |-> 0]

\* inet_pton(AF_INET): four numbers of a byte each.
ParseV4(t) ==
    IF t.form = "v4" /\ Len(t.numbers) = 4 /\ \A i \in 1 .. 4 : t.numbers[i] \in Byte
    THEN {V4(FromBytes(t.numbers))}
    ELSE {}

\* inet_pton(AF_INET6): "::" stands for the groups that are missing.
ParseV6(t) ==
    IF t.form = "v6"
    THEN {Numbers(SubSeq(t.groups, 1, t.gap) \o Zeros(8 - Len(t.groups))
                      \o SubSeq(t.groups, t.gap + 1, Len(t.groups)))}
    ELSE {}

\* ip::parse(): it is an IPv4 address if a dot comes before any colon.
Parse(t) == IF t.form = "v4" THEN ParseV4(t) ELSE ParseV6(t)

\* The groups of an IPv6 address as to_string() writes them: from i = 7 down to 0, 16
\* bits of quad[i / 2], the high ones for an odd i.
Written(ip) == [n \in 1 .. 8 |-> ip[(8 - n) \div 2][2 - ((8 - n) % 2)]]

IpToString(ip) == IF IsV4(ip) THEN V4Text(Bytes(GetV4(ip))) ELSE V6Text(Written(ip), 0)

-----------------------------------------------------------------------------
(* The constructor of address from a string: host and port.                *)

\* colon: does a colon follow the host?  digits: those after the colon.  junk: does
\* something else follow?  An IPv6 host without brackets is the whole of the text.
AddressText(bracketed, host, colon, digits, junk) ==
    [bracketed |-> bracketed, host |-> host, colon |-> colon, digits |-> digits, junk |-> junk]

IsAddressText(t) ==
    IsText(t.host) /\ t.digits \in Seq(0 .. 9) /\ (~t.colon => t.digits = <<>>)

\* The digits from the last to the first, times powers of ten.
PortValue(digits) ==
    LET pow[i \in 0 .. Len(digits)] == IF i = 0 THEN 1 ELSE pow[i - 1] * 10
        sum[i \in 0 .. Len(digits)] ==
            IF i = 0 THEN 0 ELSE sum[i - 1] + digits[Len(digits) + 1 - i] * pow[i - 1]
    IN  sum[Len(digits)]

\* The number they spell, read from the first to the last: what PortValue should be.
Decimal(digits) ==
    LET number[i \in 0 .. Len(digits)] == IF i = 0 THEN 0 ELSE 10 * number[i - 1] + digits[i]
    IN  number[Len(digits)]

\* Mutant of ReadPort: the range is not checked, and the cast to 16 bits wraps.
ReadPortWraps(t) ==
    {p \in {IF t.colon THEN PortValue(t.digits) % 65536 ELSE 0} :
        IF t.colon THEN Len(t.digits) <= 5 ELSE ~t.junk}

\* Mutant of ReadPort: any number of five digits is taken for a port.
ReadPortAnyFive(t) ==
    {p \in {IF t.colon THEN PortValue(t.digits) ELSE 0} :
        IF t.colon THEN Len(t.digits) <= 5 ELSE ~t.junk}

\* At most five digits that make a 16-bit number; what follows them is ignored.
ReadPort(t) ==
    {p \in {IF t.colon THEN PortValue(t.digits) ELSE 0} :
        IF t.colon THEN Len(t.digits) <= 5 /\ p \in Half ELSE ~t.junk}

ReadAddress(t) ==
    LET hosts == IF t.bracketed THEN ParseV6(t.host) ELSE Parse(t.host)
    IN  {[host |-> h, port |-> p] : h \in hosts, p \in ReadPort(t)}

-----------------------------------------------------------------------------
(* sockaddr: the family, and numbers in network order.                      *)

PortBytes(p) == <<p \div 256, p % 256>>
FromPortBytes(b) == b[1] * 256 + b[2]

\* Mutant of ToSockaddr: htonl() is left out for an IPv4 address.
ToSockaddrHostOrder(a) ==
    [family |-> IF IsV4(a.host) THEN 4 ELSE 6, port |-> PortBytes(a.port),
     quads |-> IF IsV4(a.host)
               THEN [i \in {0} |-> [b \in 1 .. 4 |-> Bytes(GetV4(a.host))[5 - b]]]
               ELSE [i \in 0 .. 3 |-> Bytes(a.host[i])]]

\* tcp_socket::open(), udp_socket::send().
ToSockaddr(a) ==
    [family |-> IF IsV4(a.host) THEN 4 ELSE 6, port |-> PortBytes(a.port),
     quads |-> IF IsV4(a.host) THEN [i \in {0} |-> Bytes(GetV4(a.host))]
                               ELSE [i \in 0 .. 3 |-> Bytes(a.host[i])]]

\* make_ip_address(), udp_socket::recieve().
FromSockaddr(s) ==
    [host |-> IF s.family = 4 THEN V4(FromBytes(s.quads[0]))
                              ELSE [i \in 0 .. 3 |-> FromBytes(s.quads[i])],
     port |-> FromPortBytes(s.port)]

\* The system shows an IPv4 peer of an IPv6 socket by its mapped address.
Mapped(s) ==
    [family |-> 6, port |-> s.port,
     quads |-> Ip(<<0, 0, 0, 0>>, <<0, 0, 0, 0>>, <<0, 0, 255, 255>>, s.quads[0])]
=============================================================================
