-------------------------- MODULE DnsExchangeProofs --------------------------
(***************************************************************************)
(* For any number of ids, hosts and resolvers and any answers of the       *)
(* server: FindFreeId() finds a free id if there is one, ids are distinct, *)
(* and lookups end as LookupService promises.                              *)
(***************************************************************************)
EXTENDS DnsExchange, LeastAndGreatest, SequenceTheorems, TLAPS

-----------------------------------------------------------------------------
(* FindFreeId()                                                            *)

\* What FindFreeId() returns is an id that is not in use.
THEOREM FindFreeIdCorrect ==
    ASSUME NEW used \in SUBSET Ids, ~TooMany(used)
    PROVE  FindFreeId(used) \in Ids \ used
<1>1. MaxId \in Nat /\ \A x \in used : x \in Nat /\ x <= MaxId
  BY ExchangeAssumption DEF ExchangeAssumption, Ids
<1>2. CASE used = {}
  BY <1>1, <1>2 DEF FindFreeId, Ids
<1>3. CASE used # {} /\ 0 \notin used
  <2> DEFINE m == Min(used)
  <2>1. m \in used /\ \A x \in used : m <= x
    BY <1>1, <1>3, MinOfNaturals
  <2>2. FindFreeId(used) = m - 1
    BY <1>3 DEF FindFreeId
  <2> HIDE DEF m
  <2>3. m \in Nat /\ m # 0 /\ m <= MaxId
    BY <1>1, <1>3, <2>1
  <2>4. m - 1 \in Ids /\ m - 1 \notin used
    BY <1>1, <2>1, <2>3 DEF Ids
  <2> QED
    BY <2>2, <2>4
<1>4. CASE 0 \in used /\ MaxId \notin used
  <2> DEFINE m == Max(used)
  <2>1. m \in used /\ \A x \in used : m >= x
    BY <1>1, <1>4, MaxOfNaturals DEF Ids
  <2>2. FindFreeId(used) = m + 1
    BY <1>4 DEF FindFreeId
  <2> HIDE DEF m
  <2>3. m \in Nat /\ m # MaxId /\ m <= MaxId
    BY <1>1, <1>4, <2>1
  <2>4. m + 1 \in Ids /\ m + 1 \notin used
    BY <1>1, <2>1, <2>3 DEF Ids
  <2> QED
    BY <2>2, <2>4
<1>5. CASE 0 \in used /\ MaxId \in used
  <2>1. Gaps(used) # {}
    BY <1>5 DEF TooMany
  <2>2. Gaps(used) \in SUBSET Nat
    BY <1>1 DEF Gaps
  <2> DEFINE m == Min(Gaps(used))
  <2>3. m \in Gaps(used)
    BY <2>1, <2>2, MinOfNaturals
  <2>4. FindFreeId(used) = m + 1
    BY <1>5 DEF FindFreeId
  <2> HIDE DEF m
  <2>5. m \in used /\ m < MaxId /\ m + 1 \notin used
    BY <2>3 DEF Gaps
  <2>6. m + 1 \in Ids
    BY <1>1, <2>5 DEF Ids
  <2> QED
    BY <2>4, <2>5, <2>6
<1> QED
  BY <1>2, <1>3, <1>4, <1>5

\* resolve() refuses a request for want of an id only when all ids are in use.
THEOREM RefusedCorrect ==
    ASSUME NEW used \in SUBSET Ids, TooMany(used)
    PROVE  used = Ids
<1> SUFFICES ASSUME Ids \ used # {}
             PROVE  FALSE
  OBVIOUS
<1>1. MaxId \in Nat /\ Ids \ used \in SUBSET Nat
  BY ExchangeAssumption DEF ExchangeAssumption, Ids
<1>2. PICK x \in Ids \ used : \A y \in Ids \ used : x <= y
  BY <1>1, LeastElement
<1>3. x \in Nat /\ x <= MaxId /\ x # 0 /\ x # MaxId
  BY <1>1, <1>2 DEF TooMany, Ids
<1>4. x - 1 \in Ids /\ x - 1 < MaxId /\ (x - 1) + 1 = x
  BY <1>1, <1>3 DEF Ids
<1>5. x - 1 \in used
  BY <1>2, <1>3, <1>4
<1>6. x - 1 \in Gaps(used)
  BY <1>2, <1>4, <1>5 DEF Gaps
<1> QED
  BY <1>6 DEF TooMany
-----------------------------------------------------------------------------
(* The invariant                                                           *)

\* The send list has active and destroyed requests only; and a request whose sendIter
\* refers to the list is in it.
ListInv ==
    /\ \A i \in DOMAIN sendList : sendList[i] \in Active \cup {Null}
    /\ \A r \in unsent : \E i \in DOMAIN sendList : sendList[i] = r

\* An A record is asked for only after the server said there is no AAAA record.
FallbackInv ==
    /\ \A r \in Active : resolversMap[r].recordType = "A"
                            => Zone[resolversMap[r].host]["AAAA"] = "not_found"
    /\ \A q \in asked : q.type = "A" => Zone[q.host]["AAAA"] = "not_found"

ExchangeInv == TypeOK /\ IdsDistinct /\ ListInv /\ FallbackInv

LEMMA NullIsNoRequest == Null \notin Requests /\ Null \notin Resolvers
BY ExchangeAssumption DEF ExchangeAssumption

\* sendIter of a request that has one refers to that request.
LEMMA SendIterType ==
    ASSUME TypeOK, ListInv, NEW r \in unsent
    PROVE  SendIter(r) \in DOMAIN sendList /\ sendList[SendIter(r)] = r
<1> DEFINE places == {i \in DOMAIN sendList : sendList[i] = r}
<1>1. Len(sendList) \in Nat /\ DOMAIN sendList = 1 .. Len(sendList)
  BY LenProperties DEF TypeOK
<1>2. places # {}
  BY DEF ListInv
<1>3. places \in SUBSET (0 .. Len(sendList))
  BY <1>1
<1>4. Max(places) \in places
  BY <1>1, <1>2, <1>3, MaxOfNaturals
<1> QED
  BY <1>4 DEF SendIter

\* A sequence without its k-th element has the other elements, and no more.
LEMMA RemoveAtProperties ==
    ASSUME NEW S, NEW s \in Seq(S), NEW k \in DOMAIN s
    PROVE  /\ RemoveAt(s, k) \in Seq(S)
           /\ \A i \in DOMAIN RemoveAt(s, k) : \E j \in DOMAIN s : RemoveAt(s, k)[i] = s[j]
           /\ \A j \in DOMAIN s \ {k} : \E i \in DOMAIN RemoveAt(s, k) : RemoveAt(s, k)[i] = s[j]
<1> DEFINE n == Len(s)
           left == SubSeq(s, 1, k - 1)
           right == SubSeq(s, k + 1, n)
<1>1. n \in Nat /\ DOMAIN s = 1 .. n /\ \A i \in 1 .. n : s[i] \in S
  BY LenProperties, ElementOfSeq
<1>2. k \in 1 .. n /\ k - 1 \in Int /\ k + 1 \in Int
  BY <1>1
<1>3. left \in Seq(S) /\ Len(left) = k - 1 /\ \A i \in 1 .. k - 1 : left[i] = s[i]
  <2>1. \A i \in 1 .. k - 1 : s[i] \in S
    BY <1>1, <1>2
  <2>2. /\ left \in Seq(S)
        /\ Len(left) = IF 1 <= k - 1 THEN (k - 1) - 1 + 1 ELSE 0
        /\ \A i \in 1 .. (k - 1) - 1 + 1 : left[i] = s[1 + i - 1]
    BY <1>2, <2>1, SubSeqProperties
  <2>3. \A i \in 1 .. k - 1 : i \in 1 .. (k - 1) - 1 + 1 /\ 1 + i - 1 = i
    BY <1>2
  <2> QED
    BY <1>1, <1>2, <2>2, <2>3
<1>4. right \in Seq(S) /\ Len(right) = n - k /\ \A i \in 1 .. n - k : right[i] = s[k + i]
  <2>1. \A i \in k + 1 .. n : s[i] \in S
    BY <1>1, <1>2
  <2>2. /\ right \in Seq(S)
        /\ Len(right) = IF k + 1 <= n THEN n - (k + 1) + 1 ELSE 0
        /\ \A i \in 1 .. n - (k + 1) + 1 : right[i] = s[(k + 1) + i - 1]
    BY <1>1, <1>2, <2>1, SubSeqProperties
  <2>3. \A i \in 1 .. n - k : i \in 1 .. n - (k + 1) + 1 /\ (k + 1) + i - 1 = k + i
    BY <1>1, <1>2
  <2> QED
    BY <1>1, <1>2, <2>2, <2>3
<1> HIDE DEF left, right
<1> DEFINE t == left \o right
<1>5. /\ t \in Seq(S)
      /\ Len(t) = n - 1
      /\ \A i \in 1 .. n - 1 : t[i] = IF i < k THEN s[i] ELSE s[i + 1]
  <2>1. /\ t \in Seq(S)
        /\ Len(t) = Len(left) + Len(right)
        /\ \A i \in 1 .. Len(left) + Len(right) :
              t[i] = IF i <= Len(left) THEN left[i] ELSE right[i - Len(left)]
    BY <1>3, <1>4, ConcatProperties
  <2>2. Len(left) = k - 1 /\ Len(right) = n - k /\ Len(left) + Len(right) = n - 1
    BY <1>1, <1>2, <1>3, <1>4
  <2> HIDE DEF t, n
  <2>3. ASSUME NEW i \in 1 .. n - 1, i < k
        PROVE  t[i] = s[i]
    <3>1. i \in 1 .. k - 1 /\ i <= Len(left)
      BY <1>1, <1>2, <2>2, <2>3
    <3>2. t[i] = left[i]
      BY <2>1, <2>2, <3>1
    <3> QED
      BY <1>3, <3>1, <3>2
  <2>4. ASSUME NEW i \in 1 .. n - 1, ~(i < k)
        PROVE  t[i] = s[i + 1]
    <3>1. i - (k - 1) \in 1 .. n - k /\ k + (i - (k - 1)) = i + 1 /\ ~(i <= k - 1)
      BY <1>1, <1>2, <2>4
    <3>2. t[i] = right[i - (k - 1)]
      BY <2>1, <2>2, <3>1
    <3>3. right[i - (k - 1)] = s[k + (i - (k - 1))]
      BY <1>4, <3>1
    <3> QED
      BY <3>1, <3>2, <3>3
  <2> QED
    BY <2>1, <2>2, <2>3, <2>4
<1>6. RemoveAt(s, k) = t
  BY DEF RemoveAt, left, right
<1>7. DOMAIN t = 1 .. n - 1
  BY <1>5, LenProperties
<1> HIDE DEF t
<1>8. ASSUME NEW i \in 1 .. n - 1
      PROVE  \E j \in 1 .. n : t[i] = s[j]
  BY <1>1, <1>5, i \in 1 .. n, i + 1 \in 1 .. n
<1>9. ASSUME NEW j \in (1 .. n) \ {k}
      PROVE  \E i \in 1 .. n - 1 : t[i] = s[j]
  <2>1. CASE j < k
    BY <1>1, <1>2, <1>5, <2>1, j \in 1 .. n - 1
  <2>2. CASE j > k
    <3>1. j - 1 \in 1 .. n - 1 /\ ~(j - 1 < k) /\ (j - 1) + 1 = j
      BY <1>1, <1>2, <2>2
    <3> QED
      BY <1>5, <3>1
  <2> QED
    BY <1>1, <1>2, <2>1, <2>2
<1> QED
  BY <1>1, <1>5, <1>6, <1>7, <1>8, <1>9
\* Appending an active request keeps what ListInv says of it.
LEMMA AppendKeepsList ==
    ASSUME TypeOK, ListInv, NEW r \in Resolvers,
           sendList' = Append(sendList, r), unsent' = unsent \cup {r}
    PROVE  /\ sendList' \in Seq(Resolvers \cup {Null})
           /\ \A i \in DOMAIN sendList' :
                 sendList'[i] = r \/ \E j \in DOMAIN sendList : sendList'[i] = sendList[j]
           /\ \A s \in unsent' : \E i \in DOMAIN sendList' : sendList'[i] = s
<1> DEFINE n == Len(sendList)
<1>1. n \in Nat /\ DOMAIN sendList = 1 .. n
  BY LenProperties DEF TypeOK
<1>2. /\ sendList' \in Seq(Resolvers \cup {Null}) /\ DOMAIN sendList' = 1 .. n + 1
      /\ \A i \in 1 .. n : sendList'[i] = sendList[i]
      /\ sendList'[n + 1] = r
  BY AppendProperties, LenProperties DEF TypeOK
<1> HIDE DEF n
<1>3. \A i \in 1 .. n + 1 : i \in 1 .. n \/ i = n + 1
  BY <1>1
<1>4. 1 .. n \subseteq 1 .. n + 1 /\ n + 1 \in 1 .. n + 1
  BY <1>1
<1> QED
  BY <1>1, <1>2, <1>3, <1>4 DEF ListInv

\* A sequence some elements of which become Null.
LEMMA ForgetProperties ==
    ASSUME NEW S, NEW s \in Seq(S \cup {Null}), NEW r, NEW t,
           t = [i \in DOMAIN s |-> IF s[i] = r THEN Null ELSE s[i]]
    PROVE  /\ t \in Seq(S \cup {Null}) /\ DOMAIN t = DOMAIN s
           /\ \A i \in DOMAIN s : t[i] = IF s[i] = r THEN Null ELSE s[i]
<1>1. Len(s) \in Nat /\ DOMAIN s = 1 .. Len(s) /\ \A i \in 1 .. Len(s) : s[i] \in S \cup {Null}
  BY LenProperties, ElementOfSeq
<1>2. t = [i \in 1 .. Len(s) |-> IF s[i] = r THEN Null ELSE s[i]]
  BY <1>1
<1>3. t \in Seq(S \cup {Null})
  BY <1>1, <1>2, IsASeq
<1> QED
  BY <1>1, <1>2, <1>3

\* What RemoveResolver() does, whoever calls it.
LEMMA RemoveResolverProperties ==
    ASSUME TypeOK, ListInv, NEW r \in Resolvers, RemoveResolver(r)
    PROVE  /\ resolversMap' \in [Resolvers -> Requests \cup {Null}]
           /\ Active' = Active \ {r}
           /\ \A s \in Active' : resolversMap'[s] = resolversMap[s]
           /\ sendList' \in Seq(Resolvers \cup {Null})
           /\ unsent' \subseteq Active'
           /\ ListInv'
<1>1. /\ resolversMap' \in [Resolvers -> Requests \cup {Null}]
      /\ Active' = Active \ {r}
      /\ \A s \in Active' : resolversMap'[s] = resolversMap[s]
  BY DEF RemoveResolver, TypeOK, Active
<1>2. unsent' \subseteq Active' /\ unsent' = unsent \ {r}
  BY <1>1 DEF RemoveResolver, TypeOK
<1> DEFINE left == IF r \in unsent THEN RemoveAt(sendList, SendIter(r)) ELSE sendList
<1>3. /\ left \in Seq(Resolvers \cup {Null})
      /\ \A i \in DOMAIN left : left[i] \in Active \cup {Null}
      /\ \A s \in unsent \ {r} : \E i \in DOMAIN left : left[i] = s
  <2>1. CASE r \in unsent
    <3> DEFINE k == SendIter(r)
    <3>1. k \in DOMAIN sendList /\ sendList[k] = r
      BY <2>1, SendIterType
    <3>2. left = RemoveAt(sendList, k)
      BY <2>1
    <3> HIDE DEF k, left
    <3>3. /\ left \in Seq(Resolvers \cup {Null})
          /\ \A i \in DOMAIN left : \E j \in DOMAIN sendList : left[i] = sendList[j]
          /\ \A j \in DOMAIN sendList \ {k} : \E i \in DOMAIN left : left[i] = sendList[j]
      BY <3>1, <3>2, RemoveAtProperties DEF TypeOK
    <3>4. ASSUME NEW s \in unsent \ {r}
          PROVE  \E i \in DOMAIN left : left[i] = s
      <4>1. PICK j \in DOMAIN sendList : sendList[j] = s
        BY DEF ListInv
      <4> QED
        BY <3>1, <3>3, <4>1
    <3> QED
      BY <3>3, <3>4 DEF ListInv
  <2>2. CASE r \notin unsent
    BY <2>2 DEF ListInv, TypeOK
  <2> QED
    BY <2>1, <2>2
<1>4. sendList' = [i \in DOMAIN left |-> IF left[i] = r THEN Null ELSE left[i]]
  BY DEF RemoveResolver
<1> HIDE DEF left
<1>5. /\ sendList' \in Seq(Resolvers \cup {Null}) /\ DOMAIN sendList' = DOMAIN left
      /\ \A i \in DOMAIN left : sendList'[i] = IF left[i] = r THEN Null ELSE left[i]
  BY <1>3, <1>4, ForgetProperties
<1>6. ListInv'
  BY <1>1, <1>2, <1>3, <1>5 DEF ListInv
<1> QED
  BY <1>1, <1>2, <1>5, <1>6

\* Hence cancel() and Complete() keep the invariant, wherever run() goes on.
LEMMA RemovalKeepsInv ==
    ASSUME ExchangeInv, NEW r \in Resolvers, RemoveResolver(r),
           pc' \in Points, UNCHANGED asked,
           callback' \in [to : Resolvers, answer : Answers] \cup {Null},
           quitFlag' \in BOOLEAN
    PROVE  ExchangeInv'
<1> USE DEF ExchangeInv
<1>1. /\ resolversMap' \in [Resolvers -> Requests \cup {Null}]
      /\ Active' = Active \ {r}
      /\ \A s \in Active' : resolversMap'[s] = resolversMap[s]
      /\ sendList' \in Seq(Resolvers \cup {Null})
      /\ unsent' \subseteq Active'
      /\ ListInv'
  BY RemoveResolverProperties
<1>2. TypeOK'
  BY <1>1 DEF TypeOK
<1>3. IdsDistinct'
  BY <1>1 DEF IdsDistinct
<1>4. FallbackInv'
  BY <1>1 DEF FallbackInv
<1> QED
  BY <1>1, <1>2, <1>3, <1>4

\* What ParseReplyFromDNS() makes of a reply is one of the results it knows.
LEMMA ParseType ==
    ASSUME TypeOK, NEW r \in Active, NEW q \in asked
    PROVE  Parse(r, q) \in Verdicts
<1>1. q.host \in Hosts /\ q.type \in RecordTypes
  BY DEF TypeOK, Questions
<1>2. Zone[q.host][q.type] \in Verdicts
  BY <1>1, ExchangeAssumption DEF ExchangeAssumption
<1> QED
  BY <1>2 DEF Parse, Verdicts

-----------------------------------------------------------------------------
(* Every step keeps the invariant                                          *)

LEMMA InitInv == Init => ExchangeInv
<1> SUFFICES ASSUME Init
             PROVE  ExchangeInv
  OBVIOUS
<1>1. Active = {}
  BY DEF Init, Active
<1>2. sendList \in Seq(Resolvers \cup {Null}) /\ DOMAIN sendList = {}
  BY DEF Init
<1> QED
  BY <1>1, <1>2
  DEF Init, ExchangeInv, TypeOK, IdsDistinct, ListInv, FallbackInv, Points

LEMMA ResolveInv ==
    ASSUME ExchangeInv, NEW r \in Resolvers, NEW h \in Hosts, Resolve(r, h)
    PROVE  ExchangeInv'
<1> USE DEF ExchangeInv
<1> DEFINE id == FindFreeId(UsedIds)
           new == [id |-> id, host |-> h, recordType |-> "AAAA"]
<1>1. UsedIds \in SUBSET Ids
  BY NullIsNoRequest DEF UsedIds, Active, TypeOK, Requests
<1>2. id \in Ids \ UsedIds
  BY <1>1, FindFreeIdCorrect DEF Resolve
<1> HIDE DEF id
<1>3. new \in Requests /\ new # Null
  BY <1>2, NullIsNoRequest DEF Requests, RecordTypes
<1>4. resolversMap' = [resolversMap EXCEPT ![r] = new] /\ r \notin Active
  BY DEF Resolve, id
<1>5. /\ resolversMap' \in [Resolvers -> Requests \cup {Null}]
      /\ Active' = Active \cup {r}
      /\ resolversMap'[r] = new
      /\ \A s \in Active : resolversMap'[s] = resolversMap[s]
  BY <1>3, <1>4 DEF TypeOK, Active
<1>6. /\ sendList' \in Seq(Resolvers \cup {Null})
      /\ \A i \in DOMAIN sendList' :
            sendList'[i] = r \/ \E j \in DOMAIN sendList : sendList'[i] = sendList[j]
      /\ \A s \in unsent' : \E i \in DOMAIN sendList' : sendList'[i] = s
  BY AppendKeepsList DEF Resolve
<1>7. TypeOK'
  <2>1. unsent' \subseteq Active'
    BY <1>5 DEF TypeOK, Resolve
  <2>2. pc' \in Points /\ quitFlag' \in BOOLEAN
    BY DEF TypeOK, Resolve, Points
  <2> QED
    BY <1>5, <1>6, <2>1, <2>2 DEF TypeOK, Resolve
<1>8. IdsDistinct'
  <2>1. \A s \in Active : resolversMap'[s].id # id
    BY <1>2, <1>5 DEF UsedIds
  <2>2. resolversMap'[r].id = id
    BY <1>5
  <2> QED
    BY <1>5, <2>1, <2>2 DEF IdsDistinct
<1>9. ListInv'
  BY <1>5, <1>6 DEF ListInv
<1>10. FallbackInv'
  BY <1>5 DEF FallbackInv, Resolve
<1> QED
  BY <1>7, <1>8, <1>9, <1>10

LEMMA CancelInv ==
    ASSUME ExchangeInv, NEW r \in Resolvers, Cancel(r)
    PROVE  ExchangeInv'
BY RemovalKeepsInv DEF Cancel, ExchangeInv, TypeOK

\* A timeout, and the errors of the socket and for want of a server.
LEMMA EndsInv ==
    ASSUME ExchangeInv, NEW r \in Active, Expire(r) \/ SendNoServer(r) \/ FailOne(r)
    PROVE  ExchangeInv'
<1>1. r \in Resolvers
  BY DEF Active
<1>2. callback' \in [to : Resolvers, answer : Answers] /\ RemoveResolver(r)
  BY <1>1 DEF Expire, SendNoServer, FailOne, Complete, Answers
<1>3. UNCHANGED <<asked, quitFlag, pc>>
  BY DEF Expire, SendNoServer, FailOne
<1> QED
  BY <1>1, <1>2, <1>3, RemovalKeepsInv DEF ExchangeInv, TypeOK

LEMMA ReadReplyInv ==
    ASSUME ExchangeInv, NEW r \in Active, NEW q \in asked, ReadReply(r, q)
    PROVE  ExchangeInv'
<1>1. r \in Resolvers /\ pc' \in Points
  BY DEF Active, ReadReply, Continue, Points
<1>2. Parse(r, q) \in Verdicts
  BY ParseType DEF ExchangeInv
<1>3. [host |-> q.host, type |-> q.type] \in Ips
  BY DEF ExchangeInv, TypeOK, Questions, Ips
<1>4. callback' \in [to : Resolvers, answer : Answers]
  BY <1>1, <1>2, <1>3 DEF ReadReply, Complete, Answers
<1> QED
  BY <1>1, <1>4, RemovalKeepsInv DEF ReadReply, Complete, ExchangeInv, TypeOK

LEMMA ReadFallbackInv ==
    ASSUME ExchangeInv, NEW r \in Active, NEW q \in asked, ReadFallback(r, q)
    PROVE  ExchangeInv'
<1> USE DEF ExchangeInv
<1>1. r \in Resolvers /\ resolversMap[r] \in Requests
  BY DEF Active, TypeOK
<1> DEFINE new == [resolversMap[r] EXCEPT !.recordType = "A"]
<1>2. /\ new \in Requests /\ new # Null
      /\ new.id = resolversMap[r].id /\ new.host = resolversMap[r].host
  BY <1>1, NullIsNoRequest DEF Requests, RecordTypes
<1>3. resolversMap' = [resolversMap EXCEPT ![r] = new]
  BY DEF ReadFallback
<1> HIDE DEF new
<1>4. /\ resolversMap' \in [Resolvers -> Requests \cup {Null}]
      /\ Active' = Active
      /\ resolversMap'[r] = new
      /\ \A s \in Active \ {r} : resolversMap'[s] = resolversMap[s]
  BY <1>1, <1>2, <1>3 DEF TypeOK, Active
<1>5. /\ sendList' \in Seq(Resolvers \cup {Null})
      /\ \A i \in DOMAIN sendList' :
            sendList'[i] = r \/ \E j \in DOMAIN sendList : sendList'[i] = sendList[j]
      /\ \A s \in unsent' : \E i \in DOMAIN sendList' : sendList'[i] = s
  BY <1>1, AppendKeepsList DEF ReadFallback
<1>6. TypeOK'
  <2>1. unsent' \subseteq Active' /\ pc' \in Points
    BY <1>4 DEF TypeOK, ReadFallback, Continue, Points
  <2> QED
    BY <1>4, <1>5, <2>1 DEF TypeOK, ReadFallback
<1>7. IdsDistinct'
  BY <1>2, <1>4 DEF IdsDistinct
<1>8. ListInv'
  BY <1>4, <1>5 DEF ListInv
<1>9. FallbackInv'
  <2>1. q.host \in Hosts /\ q.type \in RecordTypes
    BY DEF TypeOK, Questions
  <2>2. Zone[q.host][q.type] = "not_found"
    BY DEF ReadFallback, Parse
  <2>3. Zone[q.host]["AAAA"] = "not_found"
    BY <2>1, <2>2 DEF RecordTypes, FallbackInv
  <2>4. resolversMap[r].host = q.host
    BY DEF ReadFallback, Matches
  <2> QED
    BY <1>2, <1>4, <2>3, <2>4 DEF FallbackInv, ReadFallback
<1> QED
  BY <1>6, <1>7, <1>8, <1>9

LEMMA SendOneInv ==
    ASSUME ExchangeInv, SendOne
    PROVE  ExchangeInv'
<1> USE DEF ExchangeInv
<1> DEFINE r == Head(sendList)
           q == [id |-> resolversMap[r].id, host |-> resolversMap[r].host,
                 type |-> resolversMap[r].recordType]
           n == Len(sendList)
<1>1. n \in Nat /\ DOMAIN sendList = 1 .. n /\ sendList \in Seq(Resolvers \cup {Null})
  BY LenProperties DEF TypeOK
<1>2. /\ sendList # <<>> /\ 1 \in 1 .. n /\ r = sendList[1]
  BY <1>1, EmptySeq DEF SendOne, CanSend
<1>3. r \in Active
  BY <1>1, <1>2 DEF SendOne, CanSend, ListInv
<1>4. /\ sendList' \in Seq(Resolvers \cup {Null}) /\ DOMAIN sendList' = 1 .. n - 1
      /\ \A i \in 1 .. n - 1 : sendList'[i] = sendList[i + 1]
  <2>1. sendList' = Tail(sendList)
    BY DEF SendOne
  <2>2. /\ sendList' \in Seq(Resolvers \cup {Null}) /\ Len(sendList') = n - 1
        /\ \A i \in 1 .. Len(sendList') : sendList'[i] = sendList[i + 1]
    BY <1>1, <1>2, <2>1, HeadTailProperties
  <2> QED
    BY <2>2, LenProperties
<1>5. q \in Questions /\ resolversMap[r] \in Requests
  BY <1>3 DEF Active, TypeOK, Requests, Questions
<1>6. unsent' = unsent \ {r} /\ asked' \subseteq asked \cup {q}
  BY DEF SendOne
<1>7. UNCHANGED <<resolversMap, callback, quitFlag, pc>> /\ Active' = Active
  BY DEF SendOne, Active
<1> HIDE DEF r, q, n
<1>8. TypeOK'
  BY <1>4, <1>5, <1>6, <1>7 DEF TypeOK
<1>9. IdsDistinct'
  BY <1>7 DEF IdsDistinct
<1>10. ListInv'
  <2>1. ASSUME NEW i \in 1 .. n - 1
        PROVE  i + 1 \in 1 .. n
    BY <1>1
  <2>2. ASSUME NEW s \in unsent'
        PROVE  \E i \in 1 .. n - 1 : sendList'[i] = s
    <3>1. PICK j \in 1 .. n : sendList[j] = s
      BY <1>1, <1>6 DEF ListInv
    <3>2. j # 1
      BY <1>2, <1>6, <3>1
    <3>3. j - 1 \in 1 .. n - 1 /\ (j - 1) + 1 = j
      BY <1>1, <3>1, <3>2
    <3> QED
      BY <1>4, <3>1, <3>3
  <2> QED
    BY <1>1, <1>4, <1>7, <2>1, <2>2 DEF ListInv
<1>11. FallbackInv'
  <2>1. q.type = "A" => Zone[q.host]["AAAA"] = "not_found"
    BY <1>3 DEF FallbackInv, q
  <2> QED
    BY <1>6, <1>7, <2>1 DEF FallbackInv
<1> QED
  BY <1>8, <1>9, <1>10, <1>11

\* The steps that leave the requests alone and ask nothing.
LEMMA QuietInv ==
    ASSUME ExchangeInv, UNCHANGED requests, asked' \in SUBSET asked,
           callback' \in {callback, Null}, UNCHANGED quitFlag, pc' \in Points
    PROVE  ExchangeInv'
<1>1. UNCHANGED Active
  BY DEF Active, requests
<1> QED
  BY <1>1 DEF ExchangeInv, TypeOK, IdsDistinct, ListInv, FallbackInv, requests

\* The thread ends, and its list with it: no request is left.
LEMMA ThreadEndsInv ==
    ASSUME ExchangeInv, Active = {}, UNCHANGED <<resolversMap, unsent, callback, quitFlag>>,
           asked' = {}, sendList' = <<>>, pc' = "done"
    PROVE  ExchangeInv'
<1>1. Active' = {} /\ unsent' = {}
  BY DEF ExchangeInv, TypeOK, Active
<1>2. sendList' \in Seq(Resolvers \cup {Null}) /\ DOMAIN sendList' = {}
  OBVIOUS
<1> QED
  BY <1>1, <1>2 DEF ExchangeInv, TypeOK, IdsDistinct, ListInv, FallbackInv, Points

LEMMA NextInv == ExchangeInv /\ [Next]_vars => ExchangeInv'
<1> SUFFICES ASSUME ExchangeInv, [Next]_vars
             PROVE  ExchangeInv'
  OBVIOUS
<1>1. ASSUME NEW r \in Resolvers, NEW h \in Hosts, Resolve(r, h)
      PROVE  ExchangeInv'
  BY <1>1, ResolveInv
<1>2. ASSUME NEW r \in Resolvers, Cancel(r)
      PROVE  ExchangeInv'
  BY <1>2, CancelInv
<1>3. ASSUME NEW r \in Active, SendNoServer(r) \/ Expire(r) \/ FailOne(r)
      PROVE  ExchangeInv'
  BY <1>3, EndsInv
<1>4. ASSUME NEW r \in Active, NEW q \in asked, ReadReply(r, q) \/ ReadFallback(r, q)
      PROVE  ExchangeInv'
  BY <1>4, ReadReplyInv, ReadFallbackInv
<1>5. CASE Loop
  BY <1>5, QuietInv DEF Loop, Points
<1>6. CASE Round
  BY <1>6, QuietInv DEF Round, Points
<1>7. CASE ReadNothing
  BY <1>7, QuietInv DEF ReadNothing, Continue, Points
<1>8. CASE SendOne
  BY <1>8, SendOneInv
<1>9. CASE SendDangling \/ SendingStops \/ SocketFails
  BY <1>9, QuietInv DEF SendDangling, SendingStops, SocketFails, Points
<1>10. CASE FailingEnds \/ RoundEnds
  <2>1. CASE Active = {}
    BY <1>10, <2>1, ThreadEndsInv DEF FailingEnds, RoundEnds
  <2>2. CASE Active # {}
    BY <1>10, <2>2, QuietInv DEF FailingEnds, RoundEnds, requests, Points
  <2> QED
    BY <2>1, <2>2
<1>11. CASE CallbackReturns
  <2>1. pc \in Points
    BY DEF ExchangeInv, TypeOK
  <2> QED
    BY <1>11, <2>1, QuietInv DEF CallbackReturns
<1>12. CASE UNCHANGED vars
  <2>1. UNCHANGED Active
    BY <1>12 DEF vars, requests, Active
  <2> QED
    BY <1>12, <2>1
    DEF vars, requests, ExchangeInv, TypeOK, IdsDistinct, ListInv, FallbackInv
<1> QED
  BY <1>1, <1>2, <1>3, <1>4, <1>5, <1>6, <1>7, <1>8, <1>9, <1>10, <1>11, <1>12 DEF Next

\* The invariant holds of every reachable state.
THEOREM Invariance == Spec => []ExchangeInv
BY InitInv, NextInv, PTL DEF Spec

\* Every variable keeps to its type, whatever the number of resolvers and ids.
THEOREM TypeCorrect == Spec => []TypeOK
BY Invariance, PTL DEF ExchangeInv

\* A reply is for one request at most, however ids are freed and reused.
THEOREM IdsDistinctCorrect == Spec => []IdsDistinct
BY Invariance, PTL DEF ExchangeInv

\* resolve() throws too_many_requests only if every id is that of a request.
THEOREM RefusedOnlyIfFullCorrect == Spec => []RefusedOnlyIfFull
<1>1. ExchangeInv => RefusedOnlyIfFull
  <2> SUFFICES ASSUME ExchangeInv, TooMany(UsedIds)
               PROVE  UsedIds = Ids
    BY DEF RefusedOnlyIfFull
  <2>1. UsedIds \in SUBSET Ids
    BY NullIsNoRequest DEF ExchangeInv, UsedIds, Active, TypeOK, Requests
  <2> QED
    BY <2>1, RefusedCorrect
<1> QED
  BY <1>1, Invariance, PTL
-----------------------------------------------------------------------------
(* Lookups end as LookupService promises                                   *)

Wanted == [r \in Resolvers |-> IF resolversMap[r] = Null THEN Null ELSE resolversMap[r].host]

\* A request that ends is, to the service, a host that is no longer wanted.
LEMMA RemovedIsNotWanted ==
    ASSUME ExchangeInv, NEW r \in Resolvers, RemoveResolver(r)
    PROVE  Wanted' = [Wanted EXCEPT ![r] = Null]
BY DEF RemoveResolver, Wanted, ExchangeInv, TypeOK

\* What an active request wants is its host.
LEMMA ActiveIsWanted ==
    ASSUME ExchangeInv, NEW r \in Active
    PROVE  r \in Resolvers /\ Wanted[r] = resolversMap[r].host /\ Wanted[r] # Null
<1>1. r \in Resolvers /\ resolversMap[r] \in Requests /\ resolversMap[r] # Null
  BY DEF Active, ExchangeInv, TypeOK
<1>2. resolversMap[r].host \in Hosts /\ Null \notin Hosts
  BY <1>1, ExchangeAssumption DEF Requests, ExchangeAssumption
<1> QED
  BY <1>1, <1>2 DEF Wanted

\* What ReadReply() reports is what the records of the host say, if the question was for
\* the type that the request asks for now; if it was for the other, it finds nothing.
LEMMA ReplyIsAnswer ==
    ASSUME ExchangeInv, NEW r \in Active, NEW q \in asked, ReadReply(r, q)
    PROVE  \/ \E answer \in Service!Answers(resolversMap[r].host) :
                 callback' = [to |-> r, answer |-> answer]
           \/ \E result \in {"not_found", "dns_error"} :
                 /\ AskedOtherwise(r)
                 /\ callback' = [to |-> r, answer |-> [result |-> result, ip |-> Null]]
<1> DEFINE h == resolversMap[r].host
           verdict == Parse(r, q)
           ip == IF verdict = "ok" THEN [host |-> q.host, type |-> q.type] ELSE Null
<1>1. resolversMap[r].recordType \in RecordTypes
  BY DEF Active, ExchangeInv, TypeOK, Requests
<1>2. q.id = resolversMap[r].id /\ q.host = h /\ q.type \in RecordTypes /\ h \in Hosts
  BY DEF ReadReply, Matches, ExchangeInv, TypeOK, Questions
<1>3. Zone[h][q.type] \in Verdicts
  BY <1>2, ExchangeAssumption DEF ExchangeAssumption
<1>4. resolversMap[r].recordType = "A" => Zone[h]["AAAA"] = "not_found"
  BY DEF ExchangeInv, FallbackInv
<1>5. callback' = [to |-> r, answer |-> [result |-> verdict, ip |-> ip]]
  BY DEF ReadReply, Complete
<1>6. verdict = IF Zone[h][q.type] = "ok" /\ q.type # resolversMap[r].recordType
                THEN "dns_error" ELSE Zone[h][q.type]
  BY <1>2 DEF Parse
<1>7. ~(verdict = "not_found" /\ resolversMap[r].recordType = "AAAA")
  BY DEF ReadReply
<1> HIDE DEF h, verdict
<1>8. CASE q.type = resolversMap[r].recordType
  <2>1. verdict = Zone[h][q.type]
    BY <1>6, <1>8
  <2>2. q.type = IF Zone[h]["AAAA"] = "not_found" THEN "A" ELSE "AAAA"
    BY <1>1, <1>4, <1>7, <1>8, <2>1 DEF RecordTypes
  <2>3. [result |-> verdict, ip |-> ip] \in Service!Answers(h)
    BY <1>2, <2>1, <2>2 DEF Service!Answers, Service!Ip
  <2> QED
    BY <1>5, <2>3 DEF h
<1>9. CASE q.type # resolversMap[r].recordType
  <2>1. verdict \in {"not_found", "dns_error"} /\ ip = Null
    BY <1>3, <1>6, <1>9 DEF Verdicts
  <2>2. AskedOtherwise(r)
    BY <1>2, <1>9 DEF AskedOtherwise, h
  <2> QED
    BY <1>5, <2>1, <2>2
<1> QED
  BY <1>8, <1>9

LEMMA InitMeetsService == Init => Service!Init
BY DEF Init, Service!Init

LEMMA ResolveAsks ==
    ASSUME ExchangeInv, NEW r \in Resolvers, NEW h \in Hosts, Resolve(r, h)
    PROVE  Service!Ask(r, h)
<1> DEFINE new == [id |-> FindFreeId(UsedIds), host |-> h, recordType |-> "AAAA"]
<1>1. UsedIds \in SUBSET Ids
  BY NullIsNoRequest DEF ExchangeInv, UsedIds, Active, TypeOK, Requests
<1>2. new \in Requests
  BY <1>1, FindFreeIdCorrect DEF Resolve, Requests, RecordTypes
<1>3. new # Null /\ new.host = h
  BY <1>2, NullIsNoRequest
<1>4. resolversMap' = [resolversMap EXCEPT ![r] = new] /\ resolversMap[r] = Null
  BY DEF Resolve, Active
<1> HIDE DEF new
<1>5. Wanted[r] = Null /\ Wanted' = [Wanted EXCEPT ![r] = h]
  BY <1>3, <1>4 DEF Wanted, ExchangeInv, TypeOK
<1> QED
  BY <1>5 DEF Service!Ask, Wanted, Resolve

\* A request that ends with a callback is, to the service, reported with its answer.
LEMMA ReportMeetsService ==
    ASSUME ExchangeInv, NEW r \in Active, RemoveResolver(r), callback = Null,
           NEW answer, callback' = [to |-> r, answer |-> answer]
    PROVE  /\ r \in Resolvers /\ Wanted[r] = resolversMap[r].host /\ Wanted[r] # Null
           /\ Service!Report(r, answer)
<1>1. r \in Resolvers /\ Wanted[r] = resolversMap[r].host /\ Wanted[r] # Null
  BY ActiveIsWanted
<1>2. Wanted' = [Wanted EXCEPT ![r] = Null]
  BY <1>1, RemovedIsNotWanted
<1> QED
  BY <1>1, <1>2 DEF Service!Report, Wanted

\* It is a step of the service if the answer is one that it promises.
LEMMA AnswerMeetsService ==
    ASSUME ExchangeInv, NEW r \in Active, RemoveResolver(r), callback = Null,
           NEW answer \in Service!Answers(resolversMap[r].host),
           callback' = [to |-> r, answer |-> answer]
    PROVE  Service!Next
<1>1. /\ r \in Resolvers /\ Wanted[r] = resolversMap[r].host /\ Wanted[r] # Null
      /\ Service!Report(r, answer)
  BY ReportMeetsService
<1> QED
  BY <1>1 DEF Service!Next, Wanted

\* Every step is one of the service, no step at all to it, or the report that is excepted.
LEMMA StepMeetsService ==
    ExchangeInv /\ [Next]_vars => [Service!Next \/ StaleReport]_(Service!vars)
<1> SUFFICES ASSUME ExchangeInv, [Next]_vars
             PROVE  Service!Next \/ StaleReport \/ UNCHANGED <<Wanted, callback>>
  BY DEF Service!vars, Wanted
<1>1. ASSUME NEW r \in Resolvers, NEW h \in Hosts, Resolve(r, h)
      PROVE  Service!Next
  BY <1>1, ResolveAsks DEF Service!Next
<1>2. ASSUME NEW r \in Resolvers, Cancel(r)
      PROVE  Service!Next \/ UNCHANGED <<Wanted, callback>>
  <2>1. Wanted' = [Wanted EXCEPT ![r] = Null] /\ UNCHANGED callback
    BY <1>2, RemovedIsNotWanted DEF Cancel
  <2>2. CASE Wanted[r] = Null
    BY <2>1, <2>2 DEF Wanted
  <2>3. CASE Wanted[r] # Null
    <3>1. Service!Cancel(r)
      BY <2>1, <2>3 DEF Service!Cancel, Wanted
    <3> QED
      BY <3>1 DEF Service!Next
  <2> QED
    BY <2>2, <2>3
<1>3. ASSUME NEW r \in Active, SendNoServer(r) \/ Expire(r) \/ FailOne(r)
      PROVE  Service!Next
  <2>1. PICK result \in {"timeout", "error"} : Complete(r, result, Null)
    BY <1>3 DEF SendNoServer, Expire, FailOne
  <2>2. [result |-> result, ip |-> Null] \in Service!Answers(resolversMap[r].host)
    BY DEF Service!Answers
  <2>3. callback = Null
    BY <1>3 DEF SendNoServer, Expire, FailOne, At
  <2> QED
    BY <2>1, <2>2, <2>3, AnswerMeetsService DEF Complete
<1>4. ASSUME NEW r \in Active, NEW q \in asked, ReadReply(r, q)
      PROVE  Service!Next \/ StaleReport
  <2>1. RemoveResolver(r) /\ callback = Null
    BY <1>4 DEF ReadReply, Complete, At
  <2>2. CASE \E answer \in Service!Answers(resolversMap[r].host) :
                callback' = [to |-> r, answer |-> answer]
    BY <2>1, <2>2, AnswerMeetsService
  <2>3. CASE \E result \in {"not_found", "dns_error"} :
                /\ AskedOtherwise(r)
                /\ callback' = [to |-> r, answer |-> [result |-> result, ip |-> Null]]
    BY <2>1, <2>3, ReportMeetsService DEF StaleReport
  <2> QED
    BY <1>4, <2>2, <2>3, ReplyIsAnswer
<1>5. ASSUME NEW r \in Active, NEW q \in asked, ReadFallback(r, q)
      PROVE  UNCHANGED <<Wanted, callback>>
  <2>1. r \in Resolvers /\ resolversMap[r] \in Requests
    BY DEF Active, ExchangeInv, TypeOK
  <2> DEFINE new == [resolversMap[r] EXCEPT !.recordType = "A"]
  <2>2. new \in Requests /\ new.host = resolversMap[r].host
    BY <2>1 DEF Requests, RecordTypes
  <2>3. new # Null /\ resolversMap[r] # Null
    BY <2>1, <2>2, NullIsNoRequest
  <2>4. resolversMap' = [resolversMap EXCEPT ![r] = new] /\ UNCHANGED callback
    BY <1>5 DEF ReadFallback
  <2> HIDE DEF new
  <2> QED
    BY <2>1, <2>2, <2>3, <2>4 DEF Wanted, ExchangeInv, TypeOK
<1>6. CASE \/ Loop \/ Round \/ ReadNothing \/ SendOne \/ SendDangling \/ SendingStops
            \/ SocketFails \/ FailingEnds \/ RoundEnds
  BY <1>6
  DEF Loop, Round, ReadNothing, SendOne, SendDangling, SendingStops, SocketFails, FailingEnds,
      RoundEnds, requests, Wanted
<1>7. CASE CallbackReturns
  <2>1. Service!Reported
    BY <1>7 DEF CallbackReturns, Service!Reported, requests
  <2> QED
    BY <2>1 DEF Service!Next
<1>8. CASE UNCHANGED vars
  BY <1>8 DEF vars, requests, Wanted
<1> QED
  BY <1>1, <1>2, <1>3, <1>4, <1>5, <1>6, <1>7, <1>8 DEF Next

\* Whatever packets are lost, late, repeated or reordered, whatever ids are used again and
\* wherever the socket fails, lookups end as the service promises; but for the report of
\* a reply to a question for the other record type, which MeetsService excepts.
THEOREM MeetsServiceCorrect == Spec => MeetsService
<1>1. Spec => Service!Init
  BY InitMeetsService, PTL DEF Spec
<1>2. Spec => [][Service!Next \/ StaleReport]_(Service!vars)
  BY Invariance, StepMeetsService, PTL DEF Spec
<1> QED
  BY <1>1, <1>2, PTL DEF MeetsService
=============================================================================
