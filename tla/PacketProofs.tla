----------------------------- MODULE PacketProofs -----------------------------
(***************************************************************************)
(* For packets of any length: what the recursive operators of DnsPackets   *)
(* compute, that a name is read back from the question it was written to,  *)
(* and that the walk through the answers finds the first record.           *)
(***************************************************************************)
EXTENDS DnsPackets, LeastAndGreatest, SequenceTheorems, TLAPS

-----------------------------------------------------------------------------
(* The length of a name                                                    *)

\* Sums of the first elements of d, from first.
AreSums(f, N, first, d) == f[0] = first /\ \A i \in 1 .. N : f[i] = f[i - 1] + d[i]

LEMMA SumsExist ==
    ASSUME NEW N, N \in Nat, NEW first, first \in Nat, NEW d, \A i \in 1 .. N : d[i] \in Nat
    PROVE  \E f : f \in [0 .. N -> Nat] /\ AreSums(f, N, first, d)
<1> DEFINE step == [i \in 1 .. N |-> [v \in Nat |-> v + d[i]]]
<1>1. step \in [1 .. N -> [Nat -> Nat]] /\ \A i \in 1 .. N, v \in Nat : step[i][v] = v + d[i]
  OBVIOUS
<1> HIDE DEF step
<1>2. PICK f : IsRecursion(f, N, Nat, first, step)
  BY <1>1, RecursiveFunction
<1>3. f \in [0 .. N -> Nat] /\ f[0] = first
  BY <1>2 DEF IsRecursion
<1>4. ASSUME NEW i \in 1 .. N PROVE f[i] = f[i - 1] + d[i]
  <2>1. i - 1 \in 0 .. N
    OBVIOUS
  <2>2. f[i - 1] \in Nat
    BY <1>3, <2>1
  <2> QED
    BY <1>1, <1>2, <2>2 DEF IsRecursion
<1> QED
  BY <1>3, <1>4 DEF AreSums

LEMMA SumsAgree ==
    \A N, first, d, f, g :
        N \in Nat /\ AreSums(f, N, first, d) /\ AreSums(g, N, first, d)
            => \A i \in 0 .. N : f[i] = g[i]
<1> SUFFICES ASSUME NEW N, N \in Nat, NEW first, NEW d,
                    NEW f, AreSums(f, N, first, d), NEW g, AreSums(g, N, first, d)
             PROVE  \A i \in 0 .. N : f[i] = g[i]
  OBVIOUS
<1> DEFINE S == {i \in 0 .. N : f[i] = g[i]}
<1>1. 0 \in S
  BY DEF AreSums
<1>2. ASSUME NEW i \in 1 .. N, i - 1 \in S PROVE i \in S
  <2>1. f[i] = f[i - 1] + d[i] /\ g[i] = g[i - 1] + d[i]
    BY DEF AreSums
  <2>2. f[i] = g[i]
    BY <1>2, <2>1
  <2> QED
    BY <2>2
<1> HIDE DEF S
<1>3. 0 .. N \subseteq S
  BY <1>1, <1>2, Induction
<1> QED
  BY <1>3 DEF S

LEMMA TotalIsSum ==
    ASSUME NEW s \in Seq(Nat)
    PROVE  \E f : f \in [0 .. Len(s) -> Nat] /\ AreSums(f, Len(s), 0, s) /\ Total(s) = f[Len(s)]
<1> DEFINE L == Len(s)
           IsSum(f) == f = [i \in 0 .. L |-> IF i = 0 THEN 0 ELSE f[i - 1] + s[i]]
<1>1. L \in Nat /\ \A i \in 1 .. L : s[i] \in Nat
  OBVIOUS
<1> HIDE DEF L
<1>2. PICK g : g \in [0 .. L -> Nat] /\ AreSums(g, L, 0, s)
  BY <1>1, 0 \in Nat, SumsExist
<1>3. \A i \in 0 .. L : g[i] = IF i = 0 THEN 0 ELSE g[i - 1] + s[i]
  BY <1>1, <1>2 DEF AreSums
<1>4. IsSum(g)
  BY <1>2, <1>3
<1> DEFINE f == CHOOSE f : IsSum(f)
<1>5. IsSum(f)
  BY <1>4
<1>6. Total(s) = f[L]
  BY Zenon DEF Total, L
<1> HIDE DEF f
<1>7. AreSums(f, L, 0, s)
  BY <1>1, <1>5 DEF AreSums
<1>8. \A i \in 0 .. L : f[i] = g[i]
  <2> DEFINE d == s
  <2>1. L \in Nat /\ AreSums(f, L, 0, d) /\ AreSums(g, L, 0, d)
    BY <1>1, <1>2, <1>7
  <2> HIDE DEF d
  <2> QED
    BY <2>1, SumsAgree
<1>9. f \in [0 .. L -> Nat]
  BY <1>2, <1>5, <1>8
<1> QED
  BY <1>6, <1>7, <1>9 DEF L

LEMMA TotalType == ASSUME NEW s \in Seq(Nat) PROVE Total(s) \in Nat
BY TotalIsSum, LenProperties

LEMMA TotalAppend ==
    ASSUME NEW s \in Seq(Nat), NEW n \in Nat
    PROVE  Total(Append(s, n)) = Total(s) + n
<1> DEFINE t == Append(s, n)
           L == Len(s)
<1>1. /\ t \in Seq(Nat) /\ Len(t) = L + 1 /\ L \in Nat
      /\ \A i \in 1 .. L : t[i] = s[i]
      /\ t[L + 1] = n
  BY AppendProperties, LenProperties
<1> HIDE DEF t, L
<1>2. PICK f : AreSums(f, L, 0, s) /\ Total(s) = f[L]
  BY TotalIsSum DEF L
<1>3. PICK g : AreSums(g, L + 1, 0, t) /\ Total(t) = g[L + 1] /\ g \in [0 .. L + 1 -> Nat]
  BY <1>1, TotalIsSum
<1>4. AreSums(g, L, 0, s)
  BY <1>1, <1>3 DEF AreSums
<1>5. g[L] = f[L]
  <2> DEFINE d == s
  <2>1. L \in Nat /\ AreSums(f, L, 0, d) /\ AreSums(g, L, 0, d)
    BY <1>1, <1>2, <1>4
  <2> HIDE DEF d
  <2>2. \A i \in 0 .. L : f[i] = g[i]
    BY <2>1, SumsAgree
  <2> QED
    BY <1>1, <2>2
<1>6. \A k \in 1 .. L + 1 : g[k] = g[k - 1] + t[k]
  BY <1>3 DEF AreSums
<1>7. \A k \in 1 .. L + 1 : k = L + 1 => g[k] = g[L] + t[k]
  BY <1>1, <1>6
<1> QED
  BY <1>1, <1>2, <1>3, <1>5, <1>7 DEF t

-----------------------------------------------------------------------------
(* The name in the question                                                *)

LEMMA FrontAndLast ==
    ASSUME NEW S, NEW s \in Seq(S), Len(s) > 0
    PROVE  /\ Front(s) \in Seq(S) /\ Last(s) \in S
           /\ Len(Front(s)) = Len(s) - 1
           /\ s = Append(Front(s), Last(s))
<1> DEFINE L == Len(s)
<1>1. L \in Nat /\ L - 1 \in Nat /\ s[L] \in S /\ \A i \in 1 .. L - 1 : s[i] \in S
  OBVIOUS
<1>2. /\ SubSeq(s, 1, L - 1) \in Seq(S) /\ Len(SubSeq(s, 1, L - 1)) = L - 1
      /\ \A i \in 1 .. L - 1 : SubSeq(s, 1, L - 1)[i] = s[i]
  <2>1. 1 \in Int /\ L - 1 \in Int
    BY <1>1
  <2>2. /\ SubSeq(s, 1, L - 1) \in Seq(S)
        /\ Len(SubSeq(s, 1, L - 1)) = IF 1 <= L - 1 THEN (L - 1) - 1 + 1 ELSE 0
        /\ \A i \in 1 .. (L - 1) - 1 + 1 : SubSeq(s, 1, L - 1)[i] = s[1 + i - 1]
    BY <1>1, <2>1, SubSeqProperties
  <2>3. (L - 1) - 1 + 1 = L - 1 /\ \A i \in 1 .. L - 1 : 1 + i - 1 = i
    BY <1>1
  <2> QED
    BY <1>1, <2>2, <2>3
<1> DEFINE f == Front(s)
           l == Last(s)
<1>3. /\ f \in Seq(S) /\ Len(f) = L - 1 /\ l \in S /\ l = s[L]
      /\ \A i \in 1 .. L - 1 : f[i] = s[i]
  BY <1>1, <1>2 DEF Front, Last
<1> HIDE DEF f, l
<1>4. /\ Append(f, l) \in Seq(S) /\ Len(Append(f, l)) = Len(f) + 1
      /\ \A i \in 1 .. Len(f) : Append(f, l)[i] = f[i]
      /\ Append(f, l)[Len(f) + 1] = l
  BY <1>3, AppendProperties
<1>5. \A i \in 1 .. L : s[i] = Append(f, l)[i]
  <2>1. \A i \in 1 .. L : i \in 1 .. L - 1 \/ i = L
    BY <1>1
  <2> QED
    BY <1>1, <1>3, <1>4, <2>1
<1>6. s = Append(f, l)
  BY <1>1, <1>3, <1>4, <1>5, SeqEqual
<1> QED
  BY <1>3, <1>6 DEF f, l

\* What ReadName returns when the first empty label is label e.
LEMMA ReadNameUpto ==
    ASSUME NEW labels \in Seq(Nat), NEW e \in 1 .. Len(labels), labels[e] = 0,
           \A j \in 1 .. e - 1 : labels[j] # 0
    PROVE  ReadName(labels) = IF e = 1 THEN <<0>> ELSE SubSeq(labels, 1, e - 1)
<1> DEFINE I == {i \in 1 .. Len(labels) : labels[i] = 0}
<1>1. I \in SUBSET Nat /\ e \in I
  OBVIOUS
<1>2. Min(I) \in I /\ \A x \in I : Min(I) <= x
  BY <1>1, MinOfNaturals
<1>3. Min(I) = e
  <2>1. Min(I) \in 1 .. e
    BY <1>1, <1>2
  <2>2. labels[Min(I)] = 0
    BY <1>2
  <2> HIDE DEF I
  <2> QED
    BY <2>1, <2>2
<1> QED
  BY <1>1, <1>3 DEF ReadName, SelectInSeq

LEMMA LeastZero ==
    ASSUME NEW labels \in Seq(Nat), NEW z \in 1 .. Len(labels), labels[z] = 0
    PROVE  \E e \in 1 .. z : labels[e] = 0 /\ \A j \in 1 .. e - 1 : labels[j] # 0
<1> DEFINE I == {i \in 1 .. z : labels[i] = 0}
<1>1. I \in SUBSET Nat /\ z \in I
  OBVIOUS
<1>2. PICK e \in I : \A x \in I : e <= x
  BY <1>1, LeastElement
<1>3. ASSUME NEW j \in 1 .. e - 1 PROVE labels[j] # 0
  <2>1. j \in 1 .. z /\ ~(e <= j)
    BY <1>2
  <2> QED
    BY <1>2, <2>1
<1> QED
  BY <1>2, <1>3

\* A name is read back from the labels that end it if none of them is empty.
LEMMA NameIsRead ==
    ASSUME NEW name \in Seq(Nat), Len(name) > 0, NEW labels \in Seq(Nat),
           labels = name \/ labels = Append(name, 0),
           labels[Len(labels)] = 0,
           labels = name <=> name[Len(name)] = 0
    PROVE  ReadName(labels) = name <=> name = <<0>> \/ \A i \in DOMAIN name : name[i] # 0
<1> DEFINE L == Len(name)
           K == Len(labels)
<1>1. /\ L \in Nat /\ K \in Nat /\ DOMAIN name = 1 .. L
      /\ K = L \/ K = L + 1
      /\ \A i \in 1 .. L : labels[i] = name[i] /\ name[i] \in Nat
  <2>1. L \in Nat /\ K \in Nat /\ DOMAIN name = 1 .. L /\ \A i \in 1 .. L : name[i] \in Nat
    BY LenProperties
  <2>2. Len(Append(name, 0)) = L + 1 /\ \A i \in 1 .. L : Append(name, 0)[i] = name[i]
    BY 0 \in Nat, AppendProperties
  <2> QED
    BY <2>1, <2>2
<1>2. K \in 1 .. K
  BY <1>1
<1>3. PICK e \in 1 .. K : labels[e] = 0 /\ \A j \in 1 .. e - 1 : labels[j] # 0
  BY <1>2, LeastZero
<1>4. ReadName(labels) = IF e = 1 THEN <<0>> ELSE SubSeq(labels, 1, e - 1)
  BY <1>3, ReadNameUpto
<1>5. \A i \in 1 .. e - 1 : labels[i] \in Nat
  <2>1. \A i \in 1 .. e - 1 : i \in 1 .. L
    <3>1. e \in Int /\ L \in Int /\ e <= L + 1
      BY <1>1
    <3> QED
      BY <3>1
  <2> QED
    BY <1>1, <2>1
<1>6. /\ SubSeq(labels, 1, e - 1) \in Seq(Nat)
      /\ e # 1 => Len(SubSeq(labels, 1, e - 1)) = e - 1
      /\ \A i \in 1 .. e - 1 : SubSeq(labels, 1, e - 1)[i] = labels[i]
  <2>1. 1 \in Int /\ e - 1 \in Int /\ (e - 1) - 1 + 1 = e - 1
    BY <1>1
  <2>2. /\ SubSeq(labels, 1, e - 1) \in Seq(Nat)
        /\ Len(SubSeq(labels, 1, e - 1)) = IF 1 <= e - 1 THEN (e - 1) - 1 + 1 ELSE 0
        /\ \A i \in 1 .. (e - 1) - 1 + 1 : SubSeq(labels, 1, e - 1)[i] = labels[1 + i - 1]
    BY <1>5, <2>1, SubSeqProperties
  <2>3. \A i \in 1 .. e - 1 : 1 + i - 1 = i
    BY <1>1
  <2> QED
    BY <1>1, <2>1, <2>2, <2>3
<1>7. CASE \A i \in 1 .. L : name[i] # 0
  <2>1. K = L + 1 /\ e = L + 1 /\ L # 0
    BY <1>1, <1>3, <1>7, AppendProperties
  <2>2. SubSeq(labels, 1, e - 1) = name
    <3>1. Len(SubSeq(labels, 1, e - 1)) = L
      BY <1>1, <1>6, <2>1
    <3>2. \A i \in 1 .. L : SubSeq(labels, 1, e - 1)[i] = name[i]
      BY <1>1, <1>6, <2>1
    <3> QED
      BY <1>6, <3>1, <3>2, SeqEqual
  <2> QED
    BY <1>1, <1>4, <1>7, <2>1, <2>2
<1>8. CASE \E i \in 1 .. L : name[i] = 0
  <2>1. e \in 1 .. L /\ name[e] = 0
    <3>1. PICK z \in 1 .. L : name[z] = 0
      BY <1>8
    <3>2. labels[z] = 0 /\ ~(z \in 1 .. e - 1)
      BY <1>1, <1>3, <3>1
    <3>3. e \in 1 .. L
      BY <1>1, <3>1, <3>2
    <3> QED
      BY <1>1, <1>3, <3>3
  <2>2. CASE e = 1
    BY <1>1, <1>4, <1>8, <2>2
  <2>3. CASE e # 1
    <3>1. Len(ReadName(labels)) = e - 1 /\ e - 1 # L
      BY <1>1, <1>4, <1>6, <2>1, <2>3
    <3>2. name # <<0>>
      <4>1. name = <<0>> => L = 1
        OBVIOUS
      <4> QED
        BY <2>1, <2>3, <4>1
    <3> QED
      BY <1>1, <1>8, <3>1, <3>2
  <2> QED
    BY <2>2, <2>3
<1> QED
  BY <1>7, <1>8

LEMMA WriteNameType ==
    ASSUME NEW name \in Seq(Nat), Len(name) > 0
    PROVE  /\ WriteName(name) \in Seq(Nat)
           /\ WriteName(name) = IF name[Len(name)] = 0 THEN name ELSE Append(name, 0)
           /\ WriteName(name)[Len(WriteName(name))] = 0
<1>1. 0 \in Nat /\ Len(name) \in Nat /\ Len(name) \in 1 .. Len(name)
  BY LenProperties
<1>2. /\ Append(name, 0) \in Seq(Nat) /\ Len(Append(name, 0)) = Len(name) + 1
      /\ Append(name, 0)[Len(name) + 1] = 0
  BY <1>1, AppendProperties
<1>3. name = Append(Front(name), Last(name))
  BY FrontAndLast
<1> QED
  BY <1>1, <1>2, <1>3 DEF WriteName, Last

\* What a server echoes of the question is read as the name that was asked for exactly if
\* the name has no empty label, or is empty; the packet is as long as what was written if
\* the name does not end in an empty label; and it fits the buffer of a reply.
THEOREM QuestionReadsBack ==
    ASSUME NEW name \in Seq(Nat), Len(name) > 0, NEW recordType
    PROVE  LET question == Question(name, recordType)
           IN  /\ ReadName(question.labels) = name
                      <=> name = <<0>> \/ \A i \in DOMAIN name : name[i] # 0
               /\ Last(name) # 0 => question.size = HeaderSize + Octets(question.labels) + 4
               /\ Size(name) <= 253 => question.size <= ReceiveBuffer
<1> DEFINE w == WriteName(name)
           L == Len(name)
<1>1. /\ w \in Seq(Nat) /\ w[Len(w)] = 0
      /\ w = IF name[L] = 0 THEN name ELSE Append(name, 0)
  BY WriteNameType
<1>2. L \in Nat /\ 0 \in Nat /\ Total(name) \in Nat
  BY TotalType, LenProperties
<1>3. Append(name, 0) # name /\ Len(Append(name, 0)) = L + 1
  BY <1>2, AppendProperties
<1>4. ReadName(w) = name <=> name = <<0>> \/ \A i \in DOMAIN name : name[i] # 0
  <2>1. w = name <=> name[L] = 0
    BY <1>1, <1>3
  <2> HIDE DEF w
  <2> QED
    BY <1>1, <2>1, NameIsRead
<1>5. Total(Append(name, 0)) = Total(name)
  BY <1>2, TotalAppend
<1>6. Octets(w) = IF Last(name) = 0 THEN Octets(name) ELSE Octets(name) + 1
  BY <1>1, <1>2, <1>3, <1>5 DEF Octets, Last
<1>7. Octets(name) \in Nat
  BY <1>2 DEF Octets
<1> HIDE DEF w
<1> QED
  BY <1>4, <1>6, <1>7 DEF Question, w, Size, HeaderSize, ReceiveBuffer

-----------------------------------------------------------------------------
(* The walk through a reply                                                *)

LEMMA AnswerSizeType ==
    ASSUME NEW r, IsReply(r), NEW i \in 1 .. Len(r.answers)
    PROVE  AnswerSize(r.answers[i]) \in Nat
<1> DEFINE a == r.answers[i]
<1>1. a.owner.octets \in Nat /\ a.len \in Nat
  BY DEF IsReply
<1>2. OwnerSize(a.owner) \in Nat
  BY <1>1 DEF OwnerSize
<1> QED
  BY <1>1, <1>2 DEF AnswerSize

LEMMA QuestionEndType ==
    ASSUME NEW r, IsReply(r)
    PROVE  QuestionEnd(r) \in Nat
<1>1. r.labels \in Seq(Nat) /\ Len(r.labels) \in Nat
  BY LenProperties DEF IsReply
<1>2. Total(r.labels) \in Nat
  BY <1>1, TotalType
<1> QED
  BY <1>1, <1>2 DEF QuestionEnd, Octets, HeaderSize

Sizes(r) == [i \in 1 .. Len(r.answers) |-> AnswerSize(r.answers[i])]

LEMMA EndIsSum ==
    ASSUME NEW r, IsReply(r), NEW n, n \in 0 .. Len(r.answers)
    PROVE  \E f : /\ f \in [0 .. n -> Nat] /\ AreSums(f, n, QuestionEnd(r), Sizes(r))
                  /\ AnswersEnd(r, n) = f[n]
<1> DEFINE d == Sizes(r)
           q == QuestionEnd(r)
           size(i) == AnswerSize(r.answers[i])
           IsEnd(f) == f = [i \in 0 .. n |-> IF i = 0 THEN q ELSE f[i - 1] + size(i)]
<1>1. /\ n \in Nat /\ q \in Nat /\ Len(r.answers) \in Nat
      /\ \A i \in 1 .. n : d[i] = size(i) /\ d[i] \in Nat
  BY AnswerSizeType, QuestionEndType DEF IsReply, Sizes
<1>2. \A f : IsEnd(f) => f = [i \in 0 .. n |-> IF i = 0 THEN q ELSE f[i - 1] + size(i)]
  OBVIOUS
<1> HIDE DEF d, q, size
<1>3. PICK g : g \in [0 .. n -> Nat] /\ AreSums(g, n, q, d)
  <2>1. n \in Nat /\ q \in Nat /\ \A i \in 1 .. n : d[i] \in Nat
    BY <1>1
  <2> QED
    BY <2>1, SumsExist
<1>4. \A i \in 0 .. n : g[i] = IF i = 0 THEN q ELSE g[i - 1] + size(i)
  <2>1. \A i \in 0 .. n : i # 0 => i \in 1 .. n
    BY <1>1
  <2>2. g[0] = q /\ \A i \in 1 .. n : g[i] = g[i - 1] + d[i]
    BY <1>3 DEF AreSums
  <2>3. \A i \in 1 .. n : g[i] = g[i - 1] + size(i)
    BY <1>1, <2>2
  <2> QED
    BY <2>1, <2>2, <2>3
<1>5. IsEnd(g)
  BY <1>3, <1>4
<1> DEFINE f == CHOOSE f : IsEnd(f)
<1>6. IsEnd(f)
  BY <1>5
<1>7. AnswersEnd(r, n) = f[n]
  BY Zenon DEF AnswersEnd, size, q
<1> HIDE DEF f
<1>8. AreSums(f, n, q, d)
  BY <1>1, <1>6 DEF AreSums
<1>9. \A i \in 0 .. n : f[i] = g[i]
  <2>1. n \in Nat /\ AreSums(g, n, q, d)
    BY <1>1, <1>3
  <2> QED
    BY <1>8, <2>1, SumsAgree
<1>10. f \in [0 .. n -> Nat]
  BY <1>3, <1>6, <1>9
<1> QED
  BY <1>7, <1>8, <1>10 DEF q, d

LEMMA AnswersEndStep ==
    ASSUME NEW r, IsReply(r), NEW n \in 1 .. Len(r.answers)
    PROVE  /\ AnswersEnd(r, n) \in Nat /\ AnswersEnd(r, n - 1) \in Nat
           /\ AnswersEnd(r, n) = AnswersEnd(r, n - 1) + AnswerSize(r.answers[n])
<1> DEFINE d == Sizes(r)
           q == QuestionEnd(r)
           m == n - 1
<1>1. /\ m \in Nat /\ n \in Nat /\ n \in 0 .. Len(r.answers) /\ m \in 0 .. Len(r.answers)
      /\ d[n] = AnswerSize(r.answers[n])
  BY DEF IsReply, Sizes
<1> HIDE DEF d, q
<1>2. PICK f : f \in [0 .. n -> Nat] /\ AreSums(f, n, q, d) /\ AnswersEnd(r, n) = f[n]
  BY <1>1, EndIsSum DEF d, q
<1>3. PICK g : g \in [0 .. m -> Nat] /\ AreSums(g, m, q, d) /\ AnswersEnd(r, m) = g[m]
  <2> HIDE DEF m
  <2> QED
    BY <1>1, EndIsSum DEF d, q
<1>4. AreSums(f, m, q, d) /\ f[n] = f[m] + d[n]
  BY <1>1, <1>2 DEF AreSums
<1>5. f[m] = g[m]
  <2> HIDE DEF m
  <2>1. m \in Nat /\ AreSums(f, m, q, d) /\ AreSums(g, m, q, d)
    BY <1>1, <1>3, <1>4
  <2>2. \A i \in 0 .. m : f[i] = g[i]
    BY <2>1, SumsAgree
  <2> QED
    BY <1>1, <2>2
<1>6. f[n] \in Nat /\ g[m] \in Nat
  BY <1>1, <1>2, <1>3
<1> QED
  BY <1>1, <1>2, <1>3, <1>4, <1>5, <1>6

\* The answers begin where the question ends.
LEMMA AnswersBegin ==
    ASSUME NEW r, IsReply(r)
    PROVE  AnswersEnd(r, 0) = QuestionEnd(r)
<1> DEFINE n == 0
<1>1. n \in 0 .. Len(r.answers)
  BY DEF IsReply
<1>2. PICK f : AreSums(f, n, QuestionEnd(r), Sizes(r)) /\ AnswersEnd(r, n) = f[n]
  BY <1>1, EndIsSum
<1> QED
  BY <1>2 DEF AreSums

LEMMA AnswersEndBelow ==
    ASSUME NEW r, IsReply(r), NEW n \in 1 .. Len(r.answers)
    PROVE  AnswersEnd(r, n) <= FullSize(r)
<1> DEFINE L == Len(r.answers)
           e(i) == AnswersEnd(r, i)
           S == {k \in 0 .. L - 1 : e(L - k) <= e(L)}
<1>1. L \in Nat /\ L - 1 \in Nat /\ n \in 1 .. L
  BY DEF IsReply
<1>2. ASSUME NEW i \in 1 .. L PROVE e(i) \in Nat /\ e(i - 1) \in Nat /\ e(i - 1) <= e(i)
  <2>1. /\ e(i) \in Nat /\ e(i - 1) \in Nat /\ AnswerSize(r.answers[i]) \in Nat
        /\ e(i) = e(i - 1) + AnswerSize(r.answers[i])
    BY AnswersEndStep, AnswerSizeType
  <2> HIDE DEF e
  <2> QED
    BY <2>1
<1> HIDE DEF e, L
<1>3. 0 \in S
  <2>1. L \in 1 .. L /\ L - 0 = L
    BY <1>1
  <2>2. e(L) \in Nat
    BY <1>2, <2>1
  <2>3. e(L - 0) = e(L)
    BY <2>1
  <2> QED
    BY <1>1, <2>2, <2>3
<1>4. ASSUME NEW k \in 1 .. L - 1, k - 1 \in S PROVE k \in S
  <2> DEFINE i == L - (k - 1)
  <2>1. i \in 1 .. L /\ L \in 1 .. L /\ i - 1 = L - k
    BY <1>1
  <2>2. e(i) <= e(L)
    BY <1>4
  <2> HIDE DEF i
  <2>3. e(i - 1) <= e(i) /\ e(i) \in Nat /\ e(i - 1) \in Nat /\ e(L) \in Nat
    BY <1>2, <2>1
  <2>4. e(i - 1) <= e(L)
    BY <2>2, <2>3
  <2>5. e(L - k) <= e(L)
    BY <2>1, <2>4
  <2> QED
    BY <1>1, <2>5
<1> HIDE DEF S
<1>5. 0 .. L - 1 \subseteq S
  BY <1>1, <1>3, <1>4, Induction
<1>6. L - n \in 0 .. L - 1 /\ L - (L - n) = n
  BY <1>1
<1>7. L - n \in S
  BY <1>5, <1>6
<1>8. e(L - (L - n)) <= e(L)
  BY <1>7 DEF S
<1>9. e(n) <= e(L)
  BY <1>6, <1>8
<1> QED
  BY <1>9 DEF e, L, FullSize

\* What the walk returns at answer n, given what it returns at the next.
Walked(r, recordType, n, next) ==
    LET a == r.answers[n]
    IN  IF n > r.count \/ AnswersEnd(r, n) > r.octets \/ a.owner.kind = "mixed" THEN Error
        ELSE IF a.type = recordType
        THEN IF a.len < DataSize(recordType) THEN Error ELSE [result |-> "ok", ip |-> a.ip]
        ELSE next

LEMMA WalkFunction ==
    ASSUME NEW r, IsReply(r), NEW recordType
    PROVE  \E f : /\ ParseAnswers(r, recordType) = f[1]
                  /\ f[Len(r.answers) + 1] = Error
                  /\ \A n \in 1 .. Len(r.answers) : f[n] = Walked(r, recordType, n, f[n + 1])
<1> DEFINE L == Len(r.answers)
           W(n, next) == Walked(r, recordType, n, next)
           V == {Error} \cup {[result |-> "ok", ip |-> r.answers[n].ip] : n \in 1 .. L}
           step == [k \in 1 .. L |-> [v \in V |-> W(L + 1 - k, v)]]
           IsWalk(f) ==
               f = [n \in 1 .. L + 1 |->
                        IF n > r.count \/ n > L THEN Error
                        ELSE LET a == r.answers[n]
                             IN  IF AnswersEnd(r, n) > r.octets \/ a.owner.kind = "mixed"
                                 THEN Error
                                 ELSE IF a.type = recordType
                                 THEN IF a.len < DataSize(recordType)
                                      THEN Error ELSE [result |-> "ok", ip |-> a.ip]
                                 ELSE f[n + 1]]
<1>1. L \in Nat /\ Error \in V
  BY DEF IsReply
<1>2. \A n \in 1 .. L : \A v \in V : W(n, v) \in V
  BY DEF Walked
<1>3. \A k \in 1 .. L : L + 1 - k \in 1 .. L
  BY <1>1
<1>4. /\ step \in [1 .. L -> [V -> V]]
      /\ \A k \in 1 .. L : \A v \in V : step[k][v] = W(L + 1 - k, v)
  <2> HIDE DEF V, W, L
  <2> QED
    BY <1>2, <1>3
<1>5. \A f : IsWalk(f) <=>
          f = [n \in 1 .. L + 1 |-> IF n > L THEN Error ELSE W(n, f[n + 1])]
  <2> SUFFICES ASSUME NEW f
               PROVE  \A n \in 1 .. L + 1 :
                        (IF n > r.count \/ n > L THEN Error
                        ELSE LET a == r.answers[n]
                             IN  IF AnswersEnd(r, n) > r.octets \/ a.owner.kind = "mixed"
                                 THEN Error
                                 ELSE IF a.type = recordType
                                 THEN IF a.len < DataSize(recordType)
                                      THEN Error ELSE [result |-> "ok", ip |-> a.ip]
                                 ELSE f[n + 1])
                        = IF n > L THEN Error ELSE W(n, f[n + 1])
    OBVIOUS
  <2> QED
    BY DEF Walked
<1> DEFINE f == CHOOSE f : IsWalk(f)
<1>6. ParseAnswers(r, recordType) = f[1]
  BY Zenon DEF ParseAnswers
<1> HIDE DEF step, V, W, L, IsWalk
<1>7. PICK g : IsRecursion(g, L, V, Error, step)
  BY <1>1, <1>4, RecursiveFunction
<1>8. /\ \A k \in 0 .. L : g[k] \in V
      /\ g[0] = Error
      /\ \A k \in 1 .. L : g[k] = step[k][g[k - 1]]
  BY <1>7 DEF IsRecursion
<1>9. \A k \in 1 .. L : g[k] = W(L + 1 - k, g[k - 1])
  <2>1. \A k \in 1 .. L : k - 1 \in 0 .. L
    BY <1>1
  <2> QED
    BY <1>4, <1>8, <2>1
<1> DEFINE h == [n \in 1 .. L + 1 |-> g[L + 1 - n]]
<1>10. ASSUME NEW n \in 1 .. L + 1
       PROVE  h[n] = IF n > L THEN Error ELSE W(n, h[n + 1])
  <2>1. CASE n = L + 1
    <3>1. L + 1 - n = 0 /\ n > L
      BY <1>1, <2>1
    <3> QED
      BY <1>8, <3>1
  <2>2. CASE n # L + 1
    <3> DEFINE k == L + 1 - n
    <3>1. k \in 1 .. L /\ L + 1 - k = n /\ ~(n > L) /\ k - 1 = L + 1 - (n + 1) /\ n + 1 \in 1 .. L + 1
      BY <1>1, <2>2
    <3>2. h[n] = g[k] /\ h[n + 1] = g[k - 1]
      BY <3>1
    <3> HIDE DEF k, h
    <3>3. g[k] = W(L + 1 - k, g[k - 1])
      BY <1>9, <3>1
    <3>4. h[n] = W(n, h[n + 1])
      BY <3>1, <3>2, <3>3
    <3> QED
      BY <3>1, <3>4
  <2> QED
    BY <2>1, <2>2
<1>11. h = [n \in 1 .. L + 1 |-> IF n > L THEN Error ELSE W(n, h[n + 1])]
  BY <1>10
<1>12. IsWalk(h)
  <2> HIDE DEF h
  <2> QED
    BY <1>5, <1>11
<1>13. IsWalk(f)
  <2> HIDE DEF h
  <2> QED
    BY <1>12
<1> HIDE DEF f
<1>14. f = [n \in 1 .. L + 1 |-> IF n > L THEN Error ELSE W(n, f[n + 1])]
  BY <1>5, <1>13
<1>15. f[L + 1] = Error /\ \A n \in 1 .. L : f[n] = W(n, f[n + 1])
  <2>1. L + 1 \in 1 .. L + 1 /\ L + 1 > L /\ \A n \in 1 .. L : n \in 1 .. L + 1 /\ ~(n > L)
    BY <1>1
  <2> QED
    BY <1>14, <2>1
<1> QED
  BY <1>6, <1>15 DEF W, L

\* The first answer of that type, or 0.
FirstOf(r, recordType) == SelectInSeq(r.answers, LAMBDA a : a.type = recordType)

LEMMA FirstOfType ==
    ASSUME NEW r, IsReply(r), NEW recordType
    PROVE  LET i == FirstOf(r, recordType)
           IN  \/ i = 0 /\ \A j \in 1 .. Len(r.answers) : r.answers[j].type # recordType
               \/ /\ i \in 1 .. Len(r.answers) /\ r.answers[i].type = recordType
                  /\ \A j \in 1 .. i - 1 : r.answers[j].type # recordType
<1> DEFINE L == Len(r.answers)
           I == {j \in 1 .. L : r.answers[j].type = recordType}
<1>1. FirstOf(r, recordType) = IF I # {} THEN Min(I) ELSE 0
  BY DEF FirstOf, SelectInSeq
<1>2. CASE I = {}
  BY <1>1, <1>2
<1>3. CASE I # {}
  <2>1. I \in SUBSET Nat
    OBVIOUS
  <2>2. Min(I) \in I /\ \A x \in I : Min(I) <= x
    BY <1>3, <2>1, MinOfNaturals
  <2>3. ASSUME NEW j \in 1 .. Min(I) - 1 PROVE r.answers[j].type # recordType
    <3>1. j \in 1 .. L /\ ~(Min(I) <= j)
      BY <2>2
    <3> QED
      BY <2>2, <3>1
  <2> HIDE DEF I
  <2>4. Min(I) \in 1 .. L /\ r.answers[Min(I)].type = recordType
    BY <2>2 DEF I
  <2> QED
    BY <1>1, <1>3, <2>3, <2>4
<1> QED
  BY <1>2, <1>3

\* The walk reports the address of the first record of the type asked for, all of it
\* received, or an error; and it finds that record in a reply that is complete up to the
\* last answer, whose owners it understands (dns_resolver.cpp, ParseReplyFromDNS()).
THEOREM FirstRecordFound ==
    ASSUME NEW r, IsReply(r), r.octets \in Nat, NEW recordType
    PROVE  LET parsed == ParseAnswers(r, recordType)
               i == FirstOf(r, recordType)
           IN  /\ \/ parsed = Error
                  \/ /\ parsed = [result |-> "ok", ip |-> r.answers[i].ip]
                     /\ i \in 1 .. Len(r.answers) /\ i <= r.count
                     /\ AnswersEnd(r, i) <= r.octets
                     /\ r.answers[i].type = recordType
                     /\ r.answers[i].len >= DataSize(recordType)
               /\ /\ i # 0 /\ r.count = Len(r.answers) /\ FullSize(r) <= r.octets
                  /\ \A j \in 1 .. Len(r.answers) : r.answers[j].owner.kind # "mixed"
                  /\ r.answers[i].len >= DataSize(recordType)
                  => parsed.result = "ok"
<1> DEFINE L == Len(r.answers)
           i == FirstOf(r, recordType)
           Found == [result |-> "ok", ip |-> r.answers[i].ip]
           Received == /\ i \in 1 .. L /\ i <= r.count /\ AnswersEnd(r, i) <= r.octets
                       /\ r.answers[i].type = recordType
                       /\ r.answers[i].len >= DataSize(recordType)
           Complete == /\ i # 0 /\ r.count = L /\ FullSize(r) <= r.octets
                       /\ \A j \in 1 .. L : r.answers[j].owner.kind # "mixed"
                       /\ r.answers[i].len >= DataSize(recordType)
           NoneBefore(n) == \A j \in 1 .. n - 1 : r.answers[j].type # recordType
           Right(n, v) == /\ v = Error \/ (v = Found /\ Received)
                          /\ Complete => v = Found
<1>1. L \in Nat /\ r.count \in Nat /\ DataSize(recordType) \in Nat
  BY DEF IsReply, DataSize
<1>2. PICK f : /\ ParseAnswers(r, recordType) = f[1]
               /\ f[L + 1] = Error
               /\ \A n \in 1 .. L : f[n] = Walked(r, recordType, n, f[n + 1])
  BY WalkFunction
<1>3. \/ i = 0 /\ \A j \in 1 .. L : r.answers[j].type # recordType
      \/ /\ i \in 1 .. L /\ r.answers[i].type = recordType
         /\ \A j \in 1 .. i - 1 : r.answers[j].type # recordType
  BY FirstOfType
<1>4. NoneBefore(L + 1) => Right(L + 1, f[L + 1])
  <2>1. NoneBefore(L + 1) => i = 0
    BY <1>1, <1>3
  <2> QED
    BY <1>2, <2>1
<1>5. ASSUME NEW n \in 1 .. L, NoneBefore(n + 1) => Right(n + 1, f[n + 1]), NoneBefore(n)
      PROVE  Right(n, f[n])
  <2> DEFINE a == r.answers[n]
             e == AnswersEnd(r, n)
  <2>1. f[n] = Walked(r, recordType, n, f[n + 1])
    BY <1>2
  <2>2. e \in Nat /\ FullSize(r) \in Nat /\ e <= FullSize(r) /\ a.len \in Nat
    <3>1. L \in 1 .. L
      BY <1>1
    <3> QED
      BY <3>1, AnswersEndStep, AnswersEndBelow DEF FullSize, IsReply
  <2>3. CASE n > r.count \/ e > r.octets \/ a.owner.kind = "mixed"
    <3>1. f[n] = Error
      BY <2>1, <2>3 DEF Walked
    <3>2. ~Complete
      BY <1>1, <2>2, <2>3
    <3> QED
      BY <3>1, <3>2
  <2>4. CASE ~(n > r.count \/ e > r.octets \/ a.owner.kind = "mixed") /\ a.type = recordType
    <3>1. i = n
      BY <1>1, <1>3, <1>5, <2>4
    <3>2. f[n] = IF a.len < DataSize(recordType) THEN Error ELSE [result |-> "ok", ip |-> a.ip]
      BY <2>1, <2>4 DEF Walked
    <3>3. CASE a.len < DataSize(recordType)
      BY <1>1, <2>2, <3>1, <3>2, <3>3
    <3>4. CASE ~(a.len < DataSize(recordType))
      <4>1. f[n] = Found
        BY <3>1, <3>2, <3>4
      <4>2. Received
        BY <1>1, <2>2, <2>4, <3>1, <3>4
      <4> QED
        BY <4>1, <4>2
    <3> QED
      BY <3>3, <3>4
  <2>5. CASE ~(n > r.count \/ e > r.octets \/ a.owner.kind = "mixed") /\ a.type # recordType
    <3>1. f[n] = f[n + 1]
      BY <2>1, <2>5 DEF Walked
    <3>2. NoneBefore(n + 1)
      BY <1>1, <1>5, <2>5
    <3> QED
      BY <1>5, <3>1, <3>2
  <2> QED
    BY <2>3, <2>4, <2>5
<1> HIDE DEF NoneBefore, Right, L
<1> DEFINE S == {k \in 0 .. L : NoneBefore(L + 1 - k) => Right(L + 1 - k, f[L + 1 - k])}
<1>6. 0 \in S
  BY <1>1, <1>4, L + 1 - 0 = L + 1
<1>7. ASSUME NEW k \in 1 .. L, k - 1 \in S PROVE k \in S
  <2> DEFINE n == L + 1 - k
  <2>1. n \in 1 .. L /\ n + 1 = L + 1 - (k - 1)
    BY <1>1
  <2>2. NoneBefore(n + 1) => Right(n + 1, f[n + 1])
    BY <1>7, <2>1
  <2> HIDE DEF n
  <2>3. NoneBefore(n) => Right(n, f[n])
    BY <1>5, <2>1, <2>2
  <2> QED
    BY <1>1, <2>3 DEF n
<1> HIDE DEF S
<1>8. L \in S
  <2>1. 0 .. L \subseteq S
    BY <1>1, <1>6, <1>7, Induction
  <2> QED
    BY <1>1, <2>1
<1>9. NoneBefore(1) /\ L + 1 - L = 1
  BY <1>1 DEF NoneBefore
<1>10. Right(1, f[1])
  BY <1>8, <1>9 DEF S
<1> QED
  BY <1>2, <1>10 DEF Right, L, Error, Result
=============================================================================
