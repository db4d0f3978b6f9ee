---------------------------- MODULE AddressProofs ----------------------------
(***************************************************************************)
(* For all addresses and all texts: an address is the same after its way   *)
(* through a sockaddr and through a text, what is read from a text is an   *)
(* address, and a port is the number that its digits spell.                *)
(***************************************************************************)
EXTENDS Addresses, LeastAndGreatest, SequenceTheorems, TLAPS

-----------------------------------------------------------------------------
(* Addresses                                                               *)

LEMMA IpType ==
    ASSUME NEW q0 \in Quads, NEW q1 \in Quads, NEW q2 \in Quads, NEW q3 \in Quads
    PROVE  /\ Ip(q0, q1, q2, q3) \in Ips
           /\ Ip(q0, q1, q2, q3)[0] = q0 /\ Ip(q0, q1, q2, q3)[1] = q1
           /\ Ip(q0, q1, q2, q3)[2] = q2 /\ Ip(q0, q1, q2, q3)[3] = q3
<1>1. \A i \in 0 .. 3 : <<q0, q1, q2, q3>>[i + 1] \in Quads
  OBVIOUS
<1> QED
  BY <1>1 DEF Ip, Ips

LEMMA V4Type ==
    ASSUME NEW h \in Quads
    PROVE  V4(h) \in Ips /\ IsV4(V4(h)) /\ GetV4(V4(h)) = h
<1>1. Zero \in Quads /\ <<0, 65535>> \in Quads
  BY DEF Zero, Quads, Half
<1> QED
  BY <1>1, IpType DEF V4, IsV4, GetV4

\* htonl() and ntohl() are inverse.
LEMMA BytesType ==
    ASSUME NEW q \in Quads
    PROVE  /\ Bytes(q) \in [1 .. 4 -> Byte]
           /\ FromBytes(Bytes(q)) = q
<1>1. PICK hi \in Half, lo \in Half : q = <<hi, lo>>
  BY DEF Quads
<1>2. ASSUME NEW n \in Half
      PROVE  n \div 256 \in Byte /\ n % 256 \in Byte /\ (n \div 256) * 256 + (n % 256) = n
  BY DEF Half, Byte
<1>3. Bytes(q) = <<hi \div 256, hi % 256, lo \div 256, lo % 256>>
  BY <1>1 DEF Bytes
<1> QED
  BY <1>1, <1>2, <1>3 DEF FromBytes

LEMMA FromBytesType ==
    ASSUME NEW b, \A i \in 1 .. 4 : b[i] \in Byte
    PROVE  FromBytes(b) \in Quads
<1>1. b[1] \in Byte /\ b[2] \in Byte /\ b[3] \in Byte /\ b[4] \in Byte
  OBVIOUS
<1>2. b[1] * 256 + b[2] \in Half /\ b[3] * 256 + b[4] \in Half
  BY <1>1 DEF Byte, Half
<1> QED
  BY <1>2 DEF FromBytes, Quads

LEMMA NumbersType ==
    ASSUME NEW a, \A i \in 1 .. 8 : a[i] \in Half
    PROVE  Numbers(a) \in Ips
<1>1. /\ <<a[1], a[2]>> \in Quads /\ <<a[3], a[4]>> \in Quads
      /\ <<a[5], a[6]>> \in Quads /\ <<a[7], a[8]>> \in Quads
  BY DEF Quads
<1> QED
  BY <1>1, IpType DEF Numbers

LEMMA IpEqual ==
    ASSUME NEW a \in Ips, NEW b \in Ips,
           a[0] = b[0], a[1] = b[1], a[2] = b[2], a[3] = b[3]
    PROVE  a = b
<1>1. \A i \in 0 .. 3 : a[i] = b[i]
  OBVIOUS
<1> QED
  BY <1>1 DEF Ips

\* The address of an IPv4 host holds nothing but its last quad.
LEMMA V4IsItself ==
    ASSUME NEW ip \in Ips, IsV4(ip)
    PROVE  V4(GetV4(ip)) = ip
<1>1. GetV4(ip) \in Quads /\ ip[0] = Zero /\ ip[1] = Zero /\ ip[2] = <<0, 65535>>
  BY DEF GetV4, Ips, IsV4
<1>2. Zero \in Quads /\ <<0, 65535>> \in Quads
  BY DEF Zero, Quads, Half
<1> DEFINE mapped == Ip(Zero, Zero, <<0, 65535>>, GetV4(ip))
<1>3. /\ mapped \in Ips /\ mapped[0] = Zero /\ mapped[1] = Zero
      /\ mapped[2] = <<0, 65535>> /\ mapped[3] = ip[3]
  BY <1>1, <1>2, IpType DEF GetV4
<1>4. mapped = ip
  <2> HIDE DEF mapped
  <2> QED
    BY <1>1, <1>3, IpEqual
<1> QED
  BY <1>4 DEF V4

-----------------------------------------------------------------------------
(* The way through a sockaddr                                              *)

LEMMA PortRoundTrip == ASSUME NEW p \in Half PROVE FromPortBytes(PortBytes(p)) = p
<1>1. p \in Int /\ (p \div 256) * 256 + (p % 256) = p
  BY DEF Half
<1> QED
  BY <1>1 DEF FromPortBytes, PortBytes

\* recieve() and get_remote_address() read back any address that open() or send() wrote.
THEOREM SockaddrReadsBack == \A a \in AllAddresses : FromSockaddr(ToSockaddr(a)) = a
<1> SUFFICES ASSUME NEW a \in AllAddresses PROVE FromSockaddr(ToSockaddr(a)) = a
  OBVIOUS
<1> DEFINE s == ToSockaddr(a)
<1>1. a.host \in Ips /\ a.port \in Half /\ a = [host |-> a.host, port |-> a.port]
  BY DEF AllAddresses
<1>2. FromPortBytes(s.port) = a.port
  BY <1>1, PortRoundTrip DEF ToSockaddr
<1>3. CASE IsV4(a.host)
  <2>1. s.family = 4 /\ s.quads[0] = Bytes(GetV4(a.host))
    BY <1>3 DEF ToSockaddr
  <2>2. GetV4(a.host) \in Quads
    BY <1>1 DEF GetV4, Ips
  <2>3. V4(FromBytes(s.quads[0])) = a.host
    BY <1>1, <1>3, <2>1, <2>2, BytesType, V4IsItself
  <2> QED
    BY <1>1, <1>2, <2>1, <2>3 DEF FromSockaddr
<1>4. CASE ~IsV4(a.host)
  <2>1. s.family = 6 /\ \A i \in 0 .. 3 : s.quads[i] = Bytes(a.host[i])
    BY <1>4 DEF ToSockaddr
  <2>2. \A i \in 0 .. 3 : a.host[i] \in Quads
    BY <1>1 DEF Ips
  <2>3. \A i \in 0 .. 3 : FromBytes(s.quads[i]) = a.host[i]
    BY <2>1, <2>2, BytesType
  <2>4. [i \in 0 .. 3 |-> FromBytes(s.quads[i])] = a.host
    BY <1>1, <2>3 DEF Ips
  <2> QED
    BY <1>1, <1>2, <2>1, <2>4 DEF FromSockaddr
<1> QED
  BY <1>3, <1>4

\* An IPv4 address is the same when the system shows it as an IPv6-mapped one.
THEOREM MappedReadsBack ==
    \A a \in AllAddresses : IsV4(a.host) => FromSockaddr(Mapped(ToSockaddr(a))) = a
<1> SUFFICES ASSUME NEW a \in AllAddresses, IsV4(a.host)
             PROVE  FromSockaddr(Mapped(ToSockaddr(a))) = a
  OBVIOUS
<1> DEFINE s == ToSockaddr(a)
           m == Mapped(s)
<1>1. a.host \in Ips /\ a.port \in Half /\ a = [host |-> a.host, port |-> a.port]
  BY DEF AllAddresses
<1>2. s.port = PortBytes(a.port) /\ s.quads[0] = Bytes(GetV4(a.host))
  BY DEF ToSockaddr
<1>3. /\ m.family = 6 /\ m.port = s.port
      /\ m.quads[0] = <<0, 0, 0, 0>> /\ m.quads[1] = <<0, 0, 0, 0>>
      /\ m.quads[2] = <<0, 0, 255, 255>> /\ m.quads[3] = s.quads[0]
  BY DEF Mapped, Ip
<1>4. GetV4(a.host) \in Quads
  BY <1>1 DEF GetV4, Ips
<1>5. /\ FromBytes(m.quads[0]) = Zero /\ FromBytes(m.quads[1]) = Zero
      /\ FromBytes(m.quads[2]) = <<0, 65535>>
      /\ FromBytes(m.quads[3]) = GetV4(a.host)
  BY <1>2, <1>3, <1>4, BytesType DEF FromBytes, Zero
<1>6. \A i \in 0 .. 3 : FromBytes(m.quads[i]) = a.host[i]
  BY <1>5 DEF IsV4, GetV4
<1>7. [i \in 0 .. 3 |-> FromBytes(m.quads[i])] = a.host
  BY <1>1, <1>6 DEF Ips
<1>8. FromPortBytes(m.port) = a.port
  BY <1>1, <1>2, <1>3, PortRoundTrip
<1> QED
  BY <1>1, <1>3, <1>7, <1>8 DEF FromSockaddr

-----------------------------------------------------------------------------
(* The way through a text                                                  *)

LEMMA WrittenType ==
    ASSUME NEW ip \in Ips
    PROVE  /\ Written(ip) \in [1 .. 8 -> Half]
           /\ Written(ip)[1] = ip[3][1] /\ Written(ip)[2] = ip[3][2]
           /\ Written(ip)[3] = ip[2][1] /\ Written(ip)[4] = ip[2][2]
           /\ Written(ip)[5] = ip[1][1] /\ Written(ip)[6] = ip[1][2]
           /\ Written(ip)[7] = ip[0][1] /\ Written(ip)[8] = ip[0][2]
<1>1. ASSUME NEW i \in 0 .. 3 PROVE ip[i][1] \in Half /\ ip[i][2] \in Half
  BY DEF Ips, Quads
<1>2. ASSUME NEW n \in 1 .. 8
      PROVE  /\ (8 - n) \div 2 \in 0 .. 3
             /\ 2 - ((8 - n) % 2) \in {1, 2}
  OBVIOUS
<1>3. ASSUME NEW n \in 1 .. 8 PROVE ip[(8 - n) \div 2][2 - ((8 - n) % 2)] \in Half
  BY <1>1, <1>2
<1>4. Written(ip) \in [1 .. 8 -> Half]
  BY <1>3 DEF Written
<1> QED
  BY <1>4 DEF Written

\* A text of eight groups is read as it stands.
LEMMA ParseFull ==
    ASSUME NEW groups \in [1 .. 8 -> Half]
    PROVE  Parse(V6Text(groups, 0)) = {Numbers(groups)}
<1>1. groups \in Seq(Half) /\ Len(groups) = 8
  <2>1. groups \in Seq(Half)
    <3>1. 8 \in Nat
      OBVIOUS
    <3> QED
      BY <3>1, SeqDef, Zenon
  <2>2. Len(groups) \in Nat /\ DOMAIN groups = 1 .. Len(groups) /\ DOMAIN groups = 1 .. 8
    BY <2>1, LenProperties
  <2> QED
    BY <2>1, <2>2
<1>2. /\ SubSeq(groups, 1, 0) = <<>> /\ Zeros(8 - Len(groups)) = <<>>
      /\ SubSeq(groups, 0 + 1, Len(groups)) = groups
  BY <1>1 DEF Zeros
<1>3. SubSeq(groups, 1, 0) \o Zeros(8 - Len(groups)) \o SubSeq(groups, 0 + 1, Len(groups)) = groups
  BY <1>1, <1>2
<1> QED
  BY <1>3 DEF Parse, ParseV6, V6Text

\* What is read from the text that to_string() writes.
LEMMA IpTextRead ==
    \A ip \in Ips :
        Parse(IpToString(ip)) = {IF IsV4(ip) THEN ip ELSE [i \in 0 .. 3 |-> ip[3 - i]]}
<1> SUFFICES ASSUME NEW ip \in Ips
             PROVE  Parse(IpToString(ip))
                        = {IF IsV4(ip) THEN ip ELSE [i \in 0 .. 3 |-> ip[3 - i]]}
  OBVIOUS
<1>1. CASE IsV4(ip)
  <2>1. GetV4(ip) \in Quads
    BY DEF GetV4, Ips
  <2> DEFINE b == Bytes(GetV4(ip))
  <2>2. b \in [1 .. 4 -> Byte] /\ FromBytes(b) = GetV4(ip)
    BY <2>1, BytesType
  <2>3. Len(b) = 4 /\ \A i \in 1 .. 4 : b[i] \in Byte
    BY <2>2
  <2>4. Parse(V4Text(b)) = {V4(GetV4(ip))}
    BY <2>2, <2>3 DEF Parse, ParseV4, V4Text
  <2> QED
    BY <1>1, <2>4, V4IsItself DEF IpToString
<1>2. CASE ~IsV4(ip)
  <2> DEFINE w == Written(ip)
             r == [i \in 0 .. 3 |-> ip[3 - i]]
  <2>1. Parse(IpToString(ip)) = {Numbers(w)}
    BY <1>2, WrittenType, ParseFull DEF IpToString
  <2>2. /\ ip[0] \in Quads /\ ip[1] \in Quads /\ ip[2] \in Quads /\ ip[3] \in Quads
    BY DEF Ips
  <2>3. /\ <<w[1], w[2]>> = ip[3] /\ <<w[3], w[4]>> = ip[2]
        /\ <<w[5], w[6]>> = ip[1] /\ <<w[7], w[8]>> = ip[0]
    BY <2>2, WrittenType DEF Quads
  <2>4. r \in Ips /\ r[0] = ip[3] /\ r[1] = ip[2] /\ r[2] = ip[1] /\ r[3] = ip[0]
    <3>1. \A i \in 0 .. 3 : 3 - i \in 0 .. 3 /\ ip[3 - i] \in Quads
      BY DEF Ips
    <3>2. r \in Ips
      BY <3>1 DEF Ips
    <3>3. r[0] = ip[3 - 0] /\ r[1] = ip[3 - 1] /\ r[2] = ip[3 - 2] /\ r[3] = ip[3 - 3]
      OBVIOUS
    <3>4. 3 - 0 = 3 /\ 3 - 1 = 2 /\ 3 - 2 = 1 /\ 3 - 3 = 0
      OBVIOUS
    <3> QED
      BY <3>2, <3>3, <3>4
  <2>5. Numbers(w) = Ip(ip[3], ip[2], ip[1], ip[0])
    BY <2>3 DEF Numbers
  <2>6. Numbers(w) = r
    <3>1. Numbers(w) \in Ips /\ Numbers(w)[0] = ip[3] /\ Numbers(w)[1] = ip[2]
          /\ Numbers(w)[2] = ip[1] /\ Numbers(w)[3] = ip[0]
      BY <2>2, <2>5, IpType
    <3> HIDE DEF w, r
    <3> QED
      BY <2>4, <3>1, IpEqual
  <2> QED
    BY <1>2, <2>1, <2>6
<1> QED
  BY <1>1, <1>2

\* An address is read back from the text that to_string() writes of it (address.cpp:242)
\* exactly if it is an IPv4 address or its four quads are the same in both directions.
\* address.hpp:198-199 means every address.
THEOREM IpTextReadsBack ==
    \A ip \in Ips :
        Parse(IpToString(ip)) = {ip} <=> IsV4(ip) \/ (ip[0] = ip[3] /\ ip[1] = ip[2])
<1> SUFFICES ASSUME NEW ip \in Ips
             PROVE  Parse(IpToString(ip)) = {ip} <=> IsV4(ip) \/ (ip[0] = ip[3] /\ ip[1] = ip[2])
  OBVIOUS
<1> DEFINE r == [i \in 0 .. 3 |-> ip[3 - i]]
<1>1. CASE IsV4(ip)
  BY <1>1, IpTextRead
<1>2. CASE ~IsV4(ip)
  <2>1. Parse(IpToString(ip)) = {r}
    BY <1>2, IpTextRead
  <2>2. r[0] = ip[3] /\ r[1] = ip[2] /\ r[2] = ip[1] /\ r[3] = ip[0]
    <3>1. r[0] = ip[3 - 0] /\ r[1] = ip[3 - 1] /\ r[2] = ip[3 - 2] /\ r[3] = ip[3 - 3]
      OBVIOUS
    <3>2. 3 - 0 = 3 /\ 3 - 1 = 2 /\ 3 - 2 = 1 /\ 3 - 3 = 0
      OBVIOUS
    <3> QED
      BY <3>1, <3>2
  <2>3. r \in Ips
    <3>1. \A i \in 0 .. 3 : 3 - i \in 0 .. 3 /\ ip[3 - i] \in Quads
      BY DEF Ips
    <3> QED
      BY <3>1 DEF Ips
  <2> HIDE DEF r
  <2>4. r = ip <=> ip[0] = ip[3] /\ ip[1] = ip[2]
    <3>1. ASSUME ip[0] = ip[3], ip[1] = ip[2] PROVE r = ip
      BY <2>2, <2>3, <3>1, IpEqual
    <3>2. r = ip => ip[0] = ip[3] /\ ip[1] = ip[2]
      BY <2>2
    <3> QED
      BY <3>1, <3>2
  <2> QED
    BY <1>2, <2>1, <2>4
<1> QED
  BY <1>1, <1>2

-----------------------------------------------------------------------------
(* What is read from a text                                                *)

LEMMA SameLength ==
    ASSUME NEW m \in Nat, NEW n \in Nat, 1 .. m = 1 .. n
    PROVE  m = n
<1>1. m = 0 \/ m \in 1 .. m
  OBVIOUS
<1>2. n = 0 \/ n \in 1 .. n
  OBVIOUS
<1>3. m \in 1 .. n => m <= n
  OBVIOUS
<1>4. n \in 1 .. m => n <= m
  OBVIOUS
<1> QED
  BY <1>1, <1>2, <1>3, <1>4

LEMMA ZerosType ==
    ASSUME NEW n \in Nat
    PROVE  Zeros(n) \in Seq(Half) /\ Len(Zeros(n)) = n
<1>1. Zeros(n) \in [1 .. n -> Half]
  BY DEF Zeros, Half
<1>2. Zeros(n) \in Seq(Half)
  BY <1>1, SeqDef, Zenon
<1>3. 1 .. Len(Zeros(n)) = 1 .. n /\ Len(Zeros(n)) \in Nat
  BY <1>1, <1>2, LenProperties
<1> QED
  BY <1>2, <1>3, SameLength

\* The groups that "::" stands for make a text a whole address.
LEMMA FilledType ==
    ASSUME NEW g \in Seq(Half), Len(g) <= 8, NEW gap \in 0 .. Len(g)
    PROVE  Numbers(SubSeq(g, 1, gap) \o Zeros(8 - Len(g)) \o SubSeq(g, gap + 1, Len(g))) \in Ips
<1> DEFINE front == SubSeq(g, 1, gap)
           back == SubSeq(g, gap + 1, Len(g))
           all == front \o Zeros(8 - Len(g)) \o back
<1>1. front \in Seq(Half) /\ Len(front) = gap
  <2>1. \A i \in 1 .. gap : g[i] \in Half
    OBVIOUS
  <2> QED
    BY <2>1, SubSeqProperties
<1>2. back \in Seq(Half) /\ Len(back) = Len(g) - gap
  <2>1. \A i \in gap + 1 .. Len(g) : g[i] \in Half
    OBVIOUS
  <2> QED
    BY <2>1, SubSeqProperties
<1>3. 8 - Len(g) \in Nat
  OBVIOUS
<1>4. Zeros(8 - Len(g)) \in Seq(Half) /\ Len(Zeros(8 - Len(g))) = 8 - Len(g)
  BY <1>3, ZerosType
<1> HIDE DEF front, back
<1>5. /\ front \o Zeros(8 - Len(g)) \in Seq(Half)
      /\ Len(front \o Zeros(8 - Len(g))) = Len(front) + Len(Zeros(8 - Len(g)))
  BY <1>1, <1>4, ConcatProperties
<1>6. all \in Seq(Half) /\ Len(all) = Len(front \o Zeros(8 - Len(g))) + Len(back)
  BY <1>2, <1>5, ConcatProperties
<1> HIDE DEF all
<1>7. Len(all) = 8
  BY <1>1, <1>2, <1>4, <1>5, <1>6
<1>8. \A i \in 1 .. 8 : all[i] \in Half
  BY <1>6, <1>7, LenProperties
<1> QED
  BY <1>8, NumbersType DEF all, front, back

LEMMA ParseType ==
    ASSUME NEW t, IsText(t)
    PROVE  Parse(t) \subseteq Ips
<1>1. CASE t.form = "v4"
  <2>1. ASSUME \A i \in 1 .. 4 : t.numbers[i] \in Byte
        PROVE  V4(FromBytes(t.numbers)) \in Ips
    BY <2>1, FromBytesType, V4Type
  <2> QED
    BY <1>1, <2>1 DEF Parse, ParseV4
<1>2. CASE t.form = "v6"
  <2>1. t.groups \in Seq(Half) /\ Len(t.groups) <= 8 /\ t.gap \in 0 .. Len(t.groups)
    BY <1>2 DEF IsText
  <2> QED
    BY <1>2, <2>1, FilledType DEF Parse, ParseV6
<1>3. CASE t.form = "bad"
  BY <1>3 DEF Parse, ParseV6
<1> QED
  BY <1>1, <1>2, <1>3 DEF IsText

LEMMA ReadAddressType ==
    ASSUME NEW t, IsText(t.host)
    PROVE  ReadAddress(t) \subseteq AllAddresses
<1>1. Parse(t.host) \subseteq Ips
  BY ParseType
<1>2. ParseV6(t.host) \subseteq Ips
  BY <1>1 DEF Parse, ParseV6
<1>3. ReadPort(t) \subseteq Half
  BY DEF ReadPort, Half
<1> QED
  BY <1>1, <1>2, <1>3 DEF ReadAddress, AllAddresses

-----------------------------------------------------------------------------
(* The port                                                                *)

LEMMA OnePlace ==
    ASSUME NEW a \in Int, NEW d \in Int, NEW p \in Int, NEW s \in Int
    PROVE  (10 * a + d) * p + s = a * (p * 10) + (s + d * p)
OBVIOUS

\* A function that is defined by such an equation exists: its CHOOSE meets the equation.
LEMMA PortFunctions ==
    ASSUME NEW digits \in Seq(Nat)
    PROVE  \E pow, sum :
               /\ PortValue(digits) = sum[Len(digits)]
               /\ pow[0] = 1 /\ sum[0] = 0
               /\ \A i \in 1 .. Len(digits) :
                      /\ pow[i] = pow[i - 1] * 10
                      /\ sum[i] = sum[i - 1] + digits[Len(digits) + 1 - i] * pow[i - 1]
               /\ \A i \in 0 .. Len(digits) : pow[i] \in Nat /\ sum[i] \in Nat
<1> DEFINE L == Len(digits)
           dig(i) == digits[L + 1 - i]
           IsPow(f) == f = [i \in 0 .. L |-> IF i = 0 THEN 1 ELSE f[i - 1] * 10]
           pow == CHOOSE f : IsPow(f)
           IsSum(f) == f = [i \in 0 .. L |-> IF i = 0 THEN 0 ELSE f[i - 1] + dig(i) * pow[i - 1]]
           sum == CHOOSE f : IsSum(f)
           times == [i \in 1 .. L |-> [v \in Nat |-> v * 10]]
           plus == [i \in 1 .. L |-> [v \in Nat |-> v + dig(i) * pow[i - 1]]]
<1>1. L \in Nat /\ \A i \in 1 .. L : dig(i) \in Nat
  <2>1. L \in Nat /\ \A i \in 1 .. L : digits[i] \in Nat
    OBVIOUS
  <2> HIDE DEF L
  <2>2. \A i \in 1 .. L : L + 1 - i \in 1 .. L
    BY <2>1
  <2> QED
    BY <2>1, <2>2
<1>2. PortValue(digits) = sum[L]
  BY Zenon DEF PortValue
<1> HIDE DEF L, dig
<1>3. PICK f : IsRecursion(f, L, Nat, 1, times)
  <2>1. times \in [1 .. L -> [Nat -> Nat]]
    OBVIOUS
  <2> HIDE DEF times
  <2> QED
    BY <1>1, <2>1, 1 \in Nat, RecursiveFunction
<1>4. f \in [0 .. L -> Nat] /\ f[0] = 1 /\ \A i \in 1 .. L : f[i] = f[i - 1] * 10
  <2>1. f \in [0 .. L -> Nat] /\ f[0] = 1 /\ \A i \in 1 .. L : f[i] = times[i][f[i - 1]]
    BY <1>3 DEF IsRecursion
  <2>2. \A i \in 1 .. L : f[i - 1] \in Nat
    BY <1>1, <2>1
  <2> QED
    BY <2>1, <2>2
<1>5. IsPow(f)
  <2>1. \A i \in 0 .. L : f[i] = IF i = 0 THEN 1 ELSE f[i - 1] * 10
    BY <1>1, <1>4
  <2> QED
    BY <1>4, <2>1
<1>6. IsPow(pow)
  BY <1>5
<1> HIDE DEF pow
<1>7. pow[0] = 1 /\ \A i \in 1 .. L : pow[i] = pow[i - 1] * 10
  BY <1>1, <1>6
<1> DEFINE S == {i \in 0 .. L : pow[i] \in Nat}
<1>8. 0 .. L \subseteq S
  <2>1. 0 \in S
    BY <1>1, <1>7
  <2>2. ASSUME NEW i \in 1 .. L, i - 1 \in S PROVE i \in S
    <3>1. pow[i - 1] \in Nat /\ pow[i] = pow[i - 1] * 10
      BY <1>7, <2>2
    <3>2. pow[i] \in Nat
      BY <3>1
    <3> QED
      BY <1>1, <3>2
  <2> HIDE DEF S
  <2> QED
    BY <1>1, <2>1, <2>2, Induction
<1>9. \A i \in 1 .. L : pow[i - 1] \in Nat /\ dig(i) * pow[i - 1] \in Nat
  <2> SUFFICES ASSUME NEW i \in 1 .. L PROVE pow[i - 1] \in Nat /\ dig(i) * pow[i - 1] \in Nat
    OBVIOUS
  <2>1. i - 1 \in 0 .. L
    BY <1>1
  <2>2. pow[i - 1] \in Nat
    BY <1>8, <2>1
  <2>3. dig(i) \in Nat
    BY <1>1
  <2> QED
    BY <2>2, <2>3
<1> DEFINE add(i) == dig(i) * pow[i - 1]
<1>10. \A i \in 1 .. L : add(i) \in Nat
  BY <1>9
<1>11. IsSum(sum) /\ sum[0] = 0 /\ \A i \in 1 .. L : sum[i] = sum[i - 1] + add(i)
  <2>1. plus = [i \in 1 .. L |-> [v \in Nat |-> v + add(i)]]
    OBVIOUS
  <2>2. \A g : IsSum(g) <=> g = [i \in 0 .. L |-> IF i = 0 THEN 0 ELSE g[i - 1] + add(i)]
    OBVIOUS
  <2> HIDE DEF add, plus
  <2>3. plus \in [1 .. L -> [Nat -> Nat]] /\ \A i \in 1 .. L, v \in Nat : plus[i][v] = v + add(i)
    BY <1>10, <2>1
  <2>4. PICK g : IsRecursion(g, L, Nat, 0, plus)
    BY <1>1, <2>3, 0 \in Nat, RecursiveFunction
  <2>5. g \in [0 .. L -> Nat] /\ g[0] = 0 /\ \A i \in 1 .. L : g[i] = g[i - 1] + add(i)
    <3>1. g \in [0 .. L -> Nat] /\ g[0] = 0 /\ \A i \in 1 .. L : g[i] = plus[i][g[i - 1]]
      BY <2>4 DEF IsRecursion
    <3>2. \A i \in 1 .. L : g[i - 1] \in Nat
      BY <1>1, <3>1
    <3> QED
      BY <2>3, <3>1, <3>2
  <2>6. \A i \in 0 .. L : g[i] = IF i = 0 THEN 0 ELSE g[i - 1] + add(i)
    BY <1>1, <2>5
  <2>7. IsSum(g)
    <3> HIDE DEF IsSum
    <3> QED
      BY <2>2, <2>5, <2>6
  <2>8. IsSum(sum)
    <3> HIDE DEF IsSum
    <3> QED
      BY <2>7
  <2> HIDE DEF sum, IsSum
  <2>9. sum = [i \in 0 .. L |-> IF i = 0 THEN 0 ELSE sum[i - 1] + add(i)]
    BY <2>2, <2>8
  <2>10. sum[0] = 0 /\ \A i \in 1 .. L : sum[i] = sum[i - 1] + add(i)
    BY <1>1, <2>9
  <2> QED
    BY <2>8, <2>10
<1> HIDE DEF sum
<1> DEFINE T == {i \in 0 .. L : sum[i] \in Nat}
<1>12. 0 .. L \subseteq T
  <2>1. 0 \in T
    BY <1>1, <1>11
  <2>2. ASSUME NEW i \in 1 .. L, i - 1 \in T PROVE i \in T
    <3>1. sum[i - 1] \in Nat /\ sum[i] = sum[i - 1] + add(i) /\ add(i) \in Nat
      BY <1>10, <1>11, <2>2
    <3>2. sum[i] \in Nat
      BY <3>1
    <3> QED
      BY <1>1, <3>2
  <2> HIDE DEF T
  <2> QED
    BY <1>1, <2>1, <2>2, Induction
<1> QED
  BY <1>2, <1>7, <1>8, <1>11, <1>12 DEF L, dig

LEMMA DecimalFunction ==
    ASSUME NEW digits \in Seq(Nat)
    PROVE  \E number :
               /\ Decimal(digits) = number[Len(digits)]
               /\ number[0] = 0
               /\ \A i \in 1 .. Len(digits) : number[i] = 10 * number[i - 1] + digits[i]
               /\ \A i \in 0 .. Len(digits) : number[i] \in Nat
<1> DEFINE L == Len(digits)
           IsNumber(f) ==
               f = [i \in 0 .. L |-> IF i = 0 THEN 0 ELSE 10 * f[i - 1] + digits[i]]
           number == CHOOSE f : IsNumber(f)
           step == [i \in 1 .. L |-> [v \in Nat |-> 10 * v + digits[i]]]
<1>1. L \in Nat /\ \A i \in 1 .. L : digits[i] \in Nat
  OBVIOUS
<1>2. Decimal(digits) = number[L]
  BY Zenon DEF Decimal
<1> HIDE DEF L
<1>3. PICK f : IsRecursion(f, L, Nat, 0, step)
  <2>1. step \in [1 .. L -> [Nat -> Nat]]
    BY <1>1
  <2> HIDE DEF step
  <2> QED
    BY <1>1, <2>1, 0 \in Nat, RecursiveFunction
<1>4. f \in [0 .. L -> Nat] /\ f[0] = 0 /\ \A i \in 1 .. L : f[i] = 10 * f[i - 1] + digits[i]
  <2>1. f \in [0 .. L -> Nat] /\ f[0] = 0 /\ \A i \in 1 .. L : f[i] = step[i][f[i - 1]]
    BY <1>3 DEF IsRecursion
  <2>2. \A i \in 1 .. L : f[i - 1] \in Nat
    BY <1>1, <2>1
  <2> QED
    BY <2>1, <2>2
<1>5. IsNumber(f)
  <2>1. \A i \in 0 .. L : f[i] = IF i = 0 THEN 0 ELSE 10 * f[i - 1] + digits[i]
    BY <1>1, <1>4
  <2> QED
    BY <1>4, <2>1
<1>6. IsNumber(number)
  BY <1>5
<1> HIDE DEF number
<1>7. number[0] = 0 /\ \A i \in 1 .. L : number[i] = 10 * number[i - 1] + digits[i]
  BY <1>1, <1>6
<1> DEFINE S == {i \in 0 .. L : number[i] \in Nat}
<1>8. 0 .. L \subseteq S
  <2>1. 0 \in S
    BY <1>1, <1>7
  <2>2. ASSUME NEW i \in 1 .. L, i - 1 \in S PROVE i \in S
    <3>1. number[i - 1] \in Nat /\ number[i] = 10 * number[i - 1] + digits[i] /\ digits[i] \in Nat
      BY <1>1, <1>7, <2>2
    <3>2. number[i] \in Nat
      BY <3>1
    <3> QED
      BY <1>1, <3>2
  <2> HIDE DEF S
  <2> QED
    BY <1>1, <2>1, <2>2, Induction
<1> QED
  BY <1>2, <1>7, <1>8 DEF L

\* The sum over the digits from the last to the first is the number they spell.
THEOREM PortIsDecimal ==
    ASSUME NEW digits \in Seq(Nat)
    PROVE  PortValue(digits) = Decimal(digits)
<1> DEFINE L == Len(digits)
<1>1. L \in Nat /\ \A i \in 1 .. L : digits[i] \in Nat
  OBVIOUS
<1>2. PICK pow, sum :
          /\ PortValue(digits) = sum[L]
          /\ pow[0] = 1 /\ sum[0] = 0
          /\ \A i \in 1 .. L : /\ pow[i] = pow[i - 1] * 10
                               /\ sum[i] = sum[i - 1] + digits[L + 1 - i] * pow[i - 1]
          /\ \A i \in 0 .. L : pow[i] \in Nat /\ sum[i] \in Nat
  BY PortFunctions
<1>3. PICK number :
          /\ Decimal(digits) = number[L]
          /\ number[0] = 0
          /\ \A i \in 1 .. L : number[i] = 10 * number[i - 1] + digits[i]
          /\ \A i \in 0 .. L : number[i] \in Nat
  BY DecimalFunction
<1> HIDE DEF L
<1> DEFINE S == {k \in 0 .. L : number[L] = number[L - k] * pow[k] + sum[k]}
<1>4. 0 \in S
  <2>1. L - 0 = L /\ L \in 0 .. L /\ 0 \in 0 .. L
    BY <1>1
  <2>2. number[L] \in Nat
    BY <1>3, <2>1
  <2>3. number[L] = number[L] * 1 + 0
    BY <2>2
  <2> QED
    BY <1>2, <2>1, <2>3
<1>5. ASSUME NEW k \in 1 .. L, k - 1 \in S PROVE k \in S
  <2> DEFINE i == L + 1 - k
             a == number[i - 1]
             d == digits[i]
             p == pow[k - 1]
             s == sum[k - 1]
  <2>1. i \in 1 .. L /\ i - 1 \in 0 .. L /\ i - 1 = L - k /\ i = L - (k - 1) /\ k - 1 \in 0 .. L
    BY <1>1
  <2>2. a \in Nat /\ d \in Nat /\ p \in Nat /\ s \in Nat
    BY <1>1, <1>2, <1>3, <2>1
  <2>3. number[i] = 10 * a + d
    BY <1>3, <2>1
  <2>4. pow[k] = p * 10 /\ sum[k] = s + d * p
    BY <1>2
  <2>5. number[L] = number[i] * p + s
    BY <1>5, <2>1
  <2>6. number[L] = (10 * a + d) * p + s
    BY <2>3, <2>5
  <2> HIDE DEF a, d, p, s
  <2>7. number[L] = a * (p * 10) + (s + d * p)
    BY <2>2, <2>6, OnePlace
  <2>8. number[L] = number[L - k] * pow[k] + sum[k]
    <3>1. a = number[L - k]
      BY <2>1 DEF a
    <3> QED
      BY <2>4, <2>7, <3>1
  <2> QED
    BY <1>1, <2>8
<1> HIDE DEF S
<1>6. L \in S
  BY <1>1, <1>4, <1>5, Induction, L \in 0 .. L
<1>7. number[L] = number[L - L] * pow[L] + sum[L]
  BY <1>6 DEF S
<1>8. L - L = 0 /\ pow[L] \in Nat /\ sum[L] \in Nat
  BY <1>1, <1>2
<1>9. number[L] = 0 * pow[L] + sum[L]
  BY <1>3, <1>7, <1>8
<1>10. number[L] = sum[L]
  BY <1>8, <1>9
<1> QED
  BY <1>2, <1>3, <1>10

\* A text is read as the address of its host and the port that its digits spell.
LEMMA ReadAddressPort ==
    ASSUME NEW t, IsAddressText(t), NEW a \in ReadAddress(t)
    PROVE  a.port = Decimal(t.digits)
<1>1. a.port \in ReadPort(t)
  BY DEF ReadAddress
<1>2. t.digits \in Seq(Nat)
  <2>1. t.digits \in Seq(0 .. 9) /\ 0 .. 9 \subseteq Nat
    BY DEF IsAddressText
  <2> QED
    BY <2>1, SeqMonotonic
<1>3. CASE t.colon
  BY <1>1, <1>2, <1>3, PortIsDecimal DEF ReadPort
<1>4. CASE ~t.colon
  <2>1. a.port = 0 /\ t.digits = <<>>
    BY <1>1, <1>4 DEF ReadPort, IsAddressText
  <2>2. PICK number : Decimal(t.digits) = number[Len(t.digits)] /\ number[0] = 0
    BY <1>2, DecimalFunction
  <2>3. Len(t.digits) = 0
    BY <2>1
  <2> QED
    BY <2>1, <2>2, <2>3
<1> QED
  BY <1>3, <1>4

\* A text is read as one address or none.
LEMMA ReadAddressOnce ==
    ASSUME NEW t, NEW a \in ReadAddress(t), NEW b \in ReadAddress(t)
    PROVE  a = b
<1> DEFINE hosts == IF t.bracketed THEN ParseV6(t.host) ELSE Parse(t.host)
<1>1. \A g, h \in hosts : g = h
  BY DEF Parse, ParseV4, ParseV6
<1>2. \A p, q \in ReadPort(t) : p = q
  BY DEF ReadPort
<1> HIDE DEF hosts
<1>3. ReadAddress(t) = {[host |-> h, port |-> p] : h \in hosts, p \in ReadPort(t)}
  BY DEF ReadAddress, hosts
<1>4. PICK h \in hosts, p \in ReadPort(t) : a = [host |-> h, port |-> p]
  BY <1>3
<1>5. PICK g \in hosts, q \in ReadPort(t) : b = [host |-> g, port |-> q]
  BY <1>3
<1> QED
  BY <1>1, <1>2, <1>4, <1>5
=============================================================================
