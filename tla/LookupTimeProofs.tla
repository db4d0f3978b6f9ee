-------------------------- MODULE LookupTimeProofs --------------------------
(***************************************************************************)
(* For a clock of any size, any number of requests and any timeouts: no    *)
(* wrap goes unnoticed, no request is very late, every round expires what  *)
(* is due, and a request filed while no wrap was unnoticed is never early. *)
(***************************************************************************)
EXTENDS LookupTime, TLAPS

\* The halves and quarters of the cycle.
LEMMA Cycle == /\ Half \in Nat /\ Quarter \in Nat
               /\ 2 * Half <= W - 1
BY TimeAssumption DEF Half, Quarter

\* A sum of two clock values wraps at most once.
LEMMA Wrap ==
    ASSUME NEW t \in 0 .. W - 1, NEW d \in 0 .. W - 1
    PROVE  (t + d) % W = IF t + d < W THEN t + d ELSE t + d - W
<1>1. CASE t + d < W
  BY <1>1, TimeAssumption
<1>2. CASE t + d >= W
  <2>1. t + d = 1 * W + (t + d - W) /\ t + d - W \in 0 .. W - 1
    BY <1>2, TimeAssumption
  <2> QED
    BY <1>2, <2>1, TimeAssumption
<1> QED
  BY <1>1, <1>2, TimeAssumption

-----------------------------------------------------------------------------
(* The inductive invariant                                                 *)

\* A request is not due before the end time it is filed under, in the cycle of
\* its map; and not after it either, when it was filed with no wrap unnoticed.
FiledInv ==
    /\ \A r \in timeMap1 :
          /\ noticed + endTime[r] <= deadline[r]
          /\ r \notin unnoticed => deadline[r] = noticed + endTime[r]
    /\ \A r \in timeMap2 :
          /\ noticed + W + endTime[r] <= deadline[r]
          /\ r \notin unnoticed => deadline[r] = noticed + W + endTime[r]

\* The pause since the clock was last sampled is so short that the clock has
\* wrapped once at most; once the wrap is found the sample is in the new cycle.
ClockInv ==
    /\ pc # "done" =>
          /\ base = noticed \/ base = noticed + W
          /\ lastTicksInFirstHalf = InFirstHalf(curTime)
    /\ pc = "wait" => /\ noticed + curTime <= Now
                      /\ Now + left <= noticed + curTime + Quarter + Slack
    /\ pc = "loop" => /\ noticed + curTime <= Now
                      /\ Now <= noticed + curTime + Quarter + Slack + spent
    /\ pc \in {"wrap", "wrapCallback"} =>
          /\ InFirstHalf(curTime)
          /\ noticed + W + curTime <= Now
          /\ Now <= noticed + W + curTime + spent
    /\ pc \in {"expire", "expireCallback"} =>
          /\ noticed + curTime <= Now
          /\ Now <= noticed + curTime + spent

\* How late a request can be, at most, at each point.
LateInv ==
    /\ pc = "done" => resolversMap = {}
    /\ \A r \in resolversMap :
          Now + (IF pc = "wait" THEN left ELSE 0)
              <= deadline[r] + Quarter + Slack + (IF pc = "wait" THEN 0 ELSE spent)

TimeInv == TypeOK /\ FiledInv /\ ClockInv /\ LateInv

\* A request filed now is due at its end time, in this cycle or the next.
LEMMA FileEnd ==
    ASSUME TypeOK, NEW r \in Resolvers, NEW t \in Timeouts, File(r, t)
    PROVE  /\ endTime' \in [Resolvers -> 0 .. W - 1]
           /\ \A q \in Resolvers \ {r} : endTime'[q] = endTime[q]
           /\ \/ /\ timeMap1' = timeMap1 \cup {r} /\ timeMap2' = timeMap2
                 /\ Now + t = base + endTime'[r]
              \/ /\ timeMap2' = timeMap2 \cup {r} /\ timeMap1' = timeMap1
                 /\ Now + t = base + W + endTime'[r]
<1> DEFINE end == (ticks + t) % W
<1>1. t \in 0 .. W - 1 /\ ticks \in 0 .. W - 1 /\ base \in Nat
  BY TimeAssumption DEF TypeOK
<1>2. end = IF ticks + t < W THEN ticks + t ELSE ticks + t - W
  BY <1>1, Wrap
<1>3. end \in 0 .. W - 1 /\ (end < ticks <=> ticks + t >= W)
  BY <1>1, <1>2, TimeAssumption
<1>4. endTime' = [endTime EXCEPT ![r] = end]
  BY DEF File
<1>5. endTime' \in [Resolvers -> 0 .. W - 1] /\ endTime'[r] = end
  BY <1>3, <1>4 DEF TypeOK
<1>6. \A q \in Resolvers \ {r} : endTime'[q] = endTime[q]
  BY <1>4 DEF TypeOK
<1>7. CASE end < ticks
  <2>1. timeMap2' = timeMap2 \cup {r} /\ timeMap1' = timeMap1
    BY <1>7 DEF File
  <2>2. Now + t = base + W + end
    BY <1>1, <1>2, <1>3, <1>7, TimeAssumption DEF Now
  <2> QED
    BY <1>5, <1>6, <2>1, <2>2
<1>8. CASE ~(end < ticks)
  <2>1. timeMap1' = timeMap1 \cup {r} /\ timeMap2' = timeMap2
    BY <1>8 DEF File
  <2>2. Now + t = base + end
    BY <1>1, <1>2, <1>3, <1>8, TimeAssumption DEF Now
  <2> QED
    BY <1>5, <1>6, <2>1, <2>2
<1> QED
  BY <1>7, <1>8

\* Every step keeps the invariant.
LEMMA TimeStep == TimeInv /\ [Next]_vars => TimeInv'
<1> SUFFICES ASSUME TimeInv, [Next]_vars PROVE TimeInv'
  OBVIOUS
<1> USE TimeAssumption DEF TimeInv
<1>1. ASSUME NEW r \in Resolvers, NEW t \in Timeouts, Resolve(r, t) PROVE TimeInv'
  <2>1. /\ deadline' = [deadline EXCEPT ![r] = Now + t]
        /\ base' = base /\ ticks' = ticks /\ left' = left
        /\ r \notin timeMap1 /\ r \notin timeMap2
    BY <1>1 DEF Resolve, clock, resolversMap
  <2>2. /\ endTime' \in [Resolvers -> 0 .. W - 1]
        /\ \A q \in Resolvers \ {r} : endTime'[q] = endTime[q]
        /\ \/ /\ timeMap1' = timeMap1 \cup {r} /\ timeMap2' = timeMap2
              /\ Now + t = base + endTime'[r]
           \/ /\ timeMap2' = timeMap2 \cup {r} /\ timeMap1' = timeMap1
              /\ Now + t = base + W + endTime'[r]
    BY <1>1, FileEnd DEF Resolve
  <2>3. Now \in Nat /\ Now + t \in Nat /\ t \in Nat
    BY DEF TypeOK, Now
  <2>4. /\ deadline' \in [Resolvers -> Nat] /\ deadline'[r] = Now + t
        /\ \A q \in Resolvers \ {r} : deadline'[q] = deadline[q]
    BY <2>1, <2>3 DEF TypeOK
  <2>5. \/ /\ pc = "done" /\ pc' = "loop" /\ noticed' = base /\ spent' = 0
           /\ curTime' = ticks /\ lastTicksInFirstHalf' = InFirstHalf(ticks)
           /\ timeMap1 = {} /\ timeMap2 = {}
        \/ /\ pc # "done" /\ UNCHANGED <<pc, noticed, spent, sample>>
           /\ base = noticed \/ base = noticed + W
    BY <1>1 DEF Resolve, Start, LateInv, ClockInv, resolversMap
  <2>6. /\ unnoticed' \subseteq Resolvers
        /\ r \notin unnoticed' => noticed' = base
        /\ \A q \in Resolvers \ {r} : q \in unnoticed' <=> q \in unnoticed
    BY <1>1 DEF Resolve, TypeOK
  <2>7. TypeOK'
    <3>1. timeMap1' \subseteq Resolvers /\ timeMap2' \subseteq Resolvers \ timeMap1'
      BY <2>1, <2>2 DEF TypeOK
    <3>2. /\ curTime' \in 0 .. W - 1 /\ lastTicksInFirstHalf' \in BOOLEAN
          /\ pc' \in Points /\ spent' \in 0 .. Slack /\ noticed' \in Nat
      <4>1. ticks \in 0 .. W - 1 /\ base \in Nat /\ 0 \in 0 .. Slack /\ "loop" \in Points
            /\ InFirstHalf(ticks) \in BOOLEAN
        BY DEF TypeOK, Points, InFirstHalf
      <4>2. CASE pc = "done"
        BY <2>5, <4>1, <4>2
      <4>3. CASE pc # "done"
        BY <2>5, <4>3 DEF TypeOK, sample
      <4> QED
        BY <4>2, <4>3
    <3> QED
      BY <2>1, <2>2, <2>4, <2>6, <3>1, <3>2 DEF TypeOK
  <2>8. FiledInv'
    <3>1. ASSUME NEW q \in timeMap1'
          PROVE  /\ noticed' + endTime'[q] <= deadline'[q]
                 /\ q \notin unnoticed' => deadline'[q] = noticed' + endTime'[q]
      <4>1. CASE q = r
        <5>1. deadline'[r] = base + endTime'[r]
          BY <2>1, <2>2, <2>4, <3>1, <4>1
        <5>2. noticed' <= base
          BY <2>5 DEF TypeOK
        <5> QED
          BY <2>2, <2>5, <2>6, <4>1, <5>1, <5>2 DEF TypeOK
      <4>2. CASE q # r
        <5>1. q \in timeMap1 /\ q \in Resolvers /\ noticed' = noticed
          BY <2>2, <2>5, <3>1, <4>2 DEF TypeOK
        <5> QED
          BY <2>2, <2>4, <2>6, <4>2, <5>1 DEF FiledInv
      <4> QED
        BY <4>1, <4>2
    <3>2. ASSUME NEW q \in timeMap2'
          PROVE  /\ noticed' + W + endTime'[q] <= deadline'[q]
                 /\ q \notin unnoticed' => deadline'[q] = noticed' + W + endTime'[q]
      <4>1. CASE q = r
        <5>1. deadline'[r] = base + W + endTime'[r]
          BY <2>1, <2>2, <2>4, <3>2, <4>1
        <5>2. noticed' <= base
          BY <2>5 DEF TypeOK
        <5> QED
          BY <2>2, <2>5, <2>6, <4>1, <5>1, <5>2 DEF TypeOK
      <4>2. CASE q # r
        <5>1. q \in timeMap2 /\ q \in Resolvers /\ noticed' = noticed
          BY <2>2, <2>5, <3>2, <4>2 DEF TypeOK
        <5> QED
          BY <2>2, <2>4, <2>6, <4>2, <5>1 DEF FiledInv
      <4> QED
        BY <4>1, <4>2
    <3> QED
      BY <3>1, <3>2 DEF FiledInv
  <2>9. ClockInv'
    BY <2>1, <2>5, Cycle DEF TypeOK, ClockInv, Now, sample
  <2>10. LateInv'
    <3>1. pc' # "done"
      BY <2>5
    <3>2. ASSUME NEW q \in resolversMap'
          PROVE  Now + (IF pc' = "wait" THEN left ELSE 0)
                    <= deadline'[q] + Quarter + Slack + (IF pc' = "wait" THEN 0 ELSE spent')
      <4>1. CASE q = r
        <5>1. /\ deadline'[q] \in Nat /\ Now <= deadline'[q] /\ left \in 0 .. Quarter
              /\ spent \in 0 .. Slack /\ spent' \in 0 .. Slack
          BY <2>3, <2>4, <2>7, <4>1 DEF TypeOK
        <5> QED
          BY <2>3, <5>1, Cycle
      <4>2. CASE q # r
        <5>1. q \in resolversMap /\ q \in Resolvers /\ pc' = pc /\ spent' = spent
          BY <2>2, <2>5, <3>2, <4>2 DEF TypeOK, resolversMap
        <5> QED
          BY <2>4, <4>2, <5>1 DEF LateInv
      <4> QED
        BY <4>1, <4>2
    <3> QED
      BY <2>1, <3>1, <3>2 DEF LateInv, Now
  <2> QED
    BY <2>7, <2>8, <2>9, <2>10
<1>2. ASSUME NEW r \in Resolvers, Leave(r) PROVE TimeInv'
  <2>1. TypeOK'
    BY <1>2, Cycle DEF Leave, Unlocked, RemoveResolver, TypeOK, clock, maps, filed,
       sample, pacing
  <2>2. FiledInv'
    BY <1>2, Cycle DEF Leave, Unlocked, RemoveResolver, TypeOK, FiledInv, clock, maps,
       filed, sample, pacing
  <2>3. ClockInv'
    BY <1>2, Cycle DEF Leave, Unlocked, RemoveResolver, TypeOK, ClockInv, InFirstHalf,
       Now, clock, maps, filed, sample, pacing
  <2>4. LateInv'
    BY <1>2, Cycle DEF Leave, Unlocked, RemoveResolver, TypeOK, FiledInv, ClockInv,
       LateInv, Now, resolversMap, clock, maps, filed, sample, pacing
  <2> QED
    BY <2>1, <2>2, <2>3, <2>4
<1>3. CASE Tick
  <2>1. TypeOK'
    BY <1>3, Cycle DEF Tick, Points, TypeOK, clock, maps, filed, sample, pacing
  <2>2. FiledInv'
    BY <1>3, Cycle DEF Tick, Points, TypeOK, FiledInv, clock, maps, filed, sample,
       pacing
  <2>3. ClockInv'
    BY <1>3, Cycle DEF Tick, Points, TypeOK, ClockInv, InFirstHalf, Now, clock, maps,
       filed, sample, pacing
  <2>4. LateInv'
    BY <1>3, Cycle DEF Tick, Points, TypeOK, FiledInv, ClockInv, LateInv, Now,
       resolversMap, clock, maps, filed, sample, pacing
  <2> QED
    BY <2>1, <2>2, <2>3, <2>4
<1>4. CASE Sample
  <2>1. TypeOK'
    <3>1. pc' \in Points /\ lastTicksInFirstHalf' \in BOOLEAN
      BY <1>4 DEF Sample, Points, InFirstHalf
    <3> QED
      BY <1>4, <3>1 DEF Sample, TypeOK, clock, maps, filed, pacing
  <2>2. FiledInv'
    BY <1>4, Cycle DEF Sample, Points, TypeOK, FiledInv, clock, maps, filed, sample,
       pacing
  <2>3. ClockInv'
    <3>1. /\ pc = "loop" /\ curTime' = ticks /\ lastTicksInFirstHalf' = InFirstHalf(ticks)
          /\ base' = base /\ ticks' = ticks /\ noticed' = noticed /\ spent' = spent
          /\ pc' = IF InFirstHalf(ticks) /\ ~lastTicksInFirstHalf THEN "wrap" ELSE "expire"
      BY <1>4 DEF Sample, clock, pacing
    <3>2. /\ base \in Nat /\ noticed \in Nat /\ spent \in 0 .. Slack
          /\ ticks \in 0 .. W - 1 /\ curTime \in 0 .. W - 1
      BY DEF TypeOK
    <3>3. /\ base = noticed \/ base = noticed + W
          /\ lastTicksInFirstHalf <=> InFirstHalf(curTime)
          /\ noticed + curTime <= base + ticks
          /\ base + ticks <= noticed + curTime + Quarter + Slack + spent
      BY <3>1 DEF ClockInv, Now
    <3>4. CASE base = noticed
      <4>1. pc' = "expire"
        BY <3>1, <3>2, <3>3, <3>4, Cycle DEF InFirstHalf
      <4> QED
        BY <3>1, <3>2, <3>4, <4>1, Cycle DEF ClockInv, Now
    <3>5. CASE base = noticed + W
      <4>1. InFirstHalf(ticks) /\ ~InFirstHalf(curTime)
        BY <3>2, <3>3, <3>5, Cycle DEF InFirstHalf
      <4>2. pc' = "wrap"
        BY <3>1, <3>3, <4>1
      <4> QED
        BY <3>1, <3>2, <3>5, <4>1, <4>2, Cycle DEF ClockInv, Now
    <3> QED
      BY <3>3, <3>4, <3>5
  <2>4. LateInv'
    BY <1>4, Cycle DEF Sample, Points, TypeOK, FiledInv, ClockInv, LateInv, Now,
       resolversMap, clock, maps, filed, sample, pacing
  <2> QED
    BY <2>1, <2>2, <2>3, <2>4
<1>5. CASE ExpireWrapped
  <2>1. TypeOK'
    BY <1>5, Cycle DEF ExpireWrapped, RemoveResolver, Points, TypeOK, clock, maps,
       filed, sample, pacing
  <2>2. FiledInv'
    BY <1>5, Cycle DEF ExpireWrapped, RemoveResolver, Points, TypeOK, FiledInv, clock,
       maps, filed, sample, pacing
  <2>3. ClockInv'
    BY <1>5, Cycle DEF ExpireWrapped, RemoveResolver, Points, TypeOK, ClockInv,
       InFirstHalf, Now, clock, maps, filed, sample, pacing
  <2>4. LateInv'
    BY <1>5, Cycle DEF ExpireWrapped, RemoveResolver, Points, TypeOK, FiledInv,
       ClockInv, LateInv, Now, resolversMap, clock, maps, filed, sample, pacing
  <2> QED
    BY <2>1, <2>2, <2>3, <2>4
<1>6. CASE SwapMaps
  <2>1. TypeOK'
    BY <1>6, Cycle DEF SwapMaps, Points, TypeOK, clock, maps, filed, sample, pacing
  <2>2. FiledInv'
    BY <1>6, Cycle DEF SwapMaps, Points, TypeOK, FiledInv, clock, maps, filed, sample,
       pacing
  <2>3. ClockInv'
    BY <1>6, Cycle DEF SwapMaps, Points, TypeOK, ClockInv, InFirstHalf, Now, clock,
       maps, filed, sample, pacing
  <2>4. LateInv'
    BY <1>6, Cycle DEF SwapMaps, Points, TypeOK, FiledInv, ClockInv, LateInv, Now,
       resolversMap, clock, maps, filed, sample, pacing
  <2> QED
    BY <2>1, <2>2, <2>3, <2>4
<1>7. CASE ExpireDue
  <2>1. TypeOK'
    BY <1>7, Cycle DEF ExpireDue, RemoveResolver, Points, TypeOK, clock, maps, filed,
       sample, pacing
  <2>2. FiledInv'
    BY <1>7, Cycle DEF ExpireDue, RemoveResolver, Points, TypeOK, FiledInv, clock, maps,
       filed, sample, pacing
  <2>3. ClockInv'
    BY <1>7, Cycle DEF ExpireDue, RemoveResolver, Points, TypeOK, ClockInv, InFirstHalf,
       Now, clock, maps, filed, sample, pacing
  <2>4. LateInv'
    BY <1>7, Cycle DEF ExpireDue, RemoveResolver, Points, TypeOK, FiledInv, ClockInv,
       LateInv, Now, resolversMap, clock, maps, filed, sample, pacing
  <2> QED
    BY <2>1, <2>2, <2>3, <2>4
<1>8. CASE CallbackReturns
  <2>1. TypeOK'
    BY <1>8, Cycle DEF CallbackReturns, Points, TypeOK, clock, maps, filed, sample,
       pacing
  <2>2. FiledInv'
    BY <1>8, Cycle DEF CallbackReturns, Points, TypeOK, FiledInv, clock, maps, filed,
       sample, pacing
  <2>3. ClockInv'
    BY <1>8, Cycle DEF CallbackReturns, Points, TypeOK, ClockInv, InFirstHalf, Now,
       clock, maps, filed, sample, pacing
  <2>4. LateInv'
    BY <1>8, Cycle DEF CallbackReturns, Points, TypeOK, FiledInv, ClockInv, LateInv,
       Now, resolversMap, clock, maps, filed, sample, pacing
  <2> QED
    BY <2>1, <2>2, <2>3, <2>4
<1>9. CASE Exit
  <2>1. TypeOK'
    BY <1>9, Cycle DEF Exit, NothingDue, Points, TypeOK, clock, maps, filed, sample,
       pacing
  <2>2. FiledInv'
    BY <1>9, Cycle DEF Exit, NothingDue, Points, TypeOK, FiledInv, clock, maps, filed,
       sample, pacing
  <2>3. ClockInv'
    BY <1>9, Cycle DEF Exit, NothingDue, Points, TypeOK, ClockInv, InFirstHalf, Now,
       clock, maps, filed, sample, pacing
  <2>4. LateInv'
    BY <1>9, Cycle DEF Exit, NothingDue, Points, TypeOK, FiledInv, ClockInv, LateInv,
       Now, resolversMap, clock, maps, filed, sample, pacing
  <2> QED
    BY <2>1, <2>2, <2>3, <2>4
<1>10. CASE Wait
  <2>1. TypeOK'
    BY <1>10, Cycle DEF Wait, WaitTimeouts, NothingDue, Points, TypeOK, clock, maps,
       filed, sample, pacing
  <2>2. FiledInv'
    BY <1>10, Cycle DEF Wait, WaitTimeouts, NothingDue, Points, TypeOK, FiledInv, clock,
       maps, filed, sample, pacing
  <2>3. ClockInv'
    <3>1. /\ pc = "expire" /\ pc' = "wait" /\ left' \in 0 .. Quarter
          /\ base' = base /\ ticks' = ticks /\ noticed' = noticed /\ curTime' = curTime
          /\ lastTicksInFirstHalf' = lastTicksInFirstHalf
      BY <1>10 DEF Wait, WaitTimeouts, NothingDue, clock, sample
    <3>2. base + ticks <= noticed + curTime + spent
      BY <3>1 DEF ClockInv, Now
    <3>3. base + ticks + left' <= noticed + curTime + Quarter + Slack
      <4>1. base \in Nat /\ ticks \in Nat /\ noticed \in Nat /\ curTime \in Nat /\ spent \in Nat
        BY DEF TypeOK
      <4>2. Slack \in Nat /\ Quarter \in Nat /\ spent <= Slack
        BY Cycle DEF TypeOK
      <4>3. \A l \in 0 .. Quarter : base + ticks + l <= noticed + curTime + Quarter + Slack
        BY <3>2, <4>1, <4>2
      <4> QED
        BY <3>1, <4>3
    <3>4. noticed + curTime <= base + ticks
      BY <3>1 DEF ClockInv, Now
    <3> QED
      BY <3>1, <3>3, <3>4 DEF ClockInv, Now
  <2>4. LateInv'
    BY <1>10, Cycle DEF Wait, WaitTimeouts, NothingDue, Points, TypeOK, FiledInv,
       ClockInv, LateInv, Now, resolversMap, clock, maps, filed, sample, pacing
  <2> QED
    BY <2>1, <2>2, <2>3, <2>4
<1>11. CASE WaitReturns
  <2>1. TypeOK'
    BY <1>11, Cycle DEF WaitReturns, Points, TypeOK, clock, maps, filed, sample, pacing
  <2>2. FiledInv'
    BY <1>11, Cycle DEF WaitReturns, Points, TypeOK, FiledInv, clock, maps, filed,
       sample, pacing
  <2>3. ClockInv'
    BY <1>11, Cycle DEF WaitReturns, Points, TypeOK, ClockInv, InFirstHalf, Now, clock,
       maps, filed, sample, pacing
  <2>4. LateInv'
    BY <1>11, Cycle DEF WaitReturns, Points, TypeOK, FiledInv, ClockInv, LateInv, Now,
       resolversMap, clock, maps, filed, sample, pacing
  <2> QED
    BY <2>1, <2>2, <2>3, <2>4
<1>12. CASE UNCHANGED vars
  BY <1>12 DEF vars, clock, maps, filed, sample, pacing, TypeOK, FiledInv, ClockInv, LateInv,
     Now, resolversMap
<1> QED
  BY <1>1, <1>2, <1>3, <1>4, <1>5, <1>6, <1>7, <1>8, <1>9, <1>10, <1>11, <1>12 DEF Next

\* The invariant holds of every reachable state.
THEOREM TimeInvariant == Spec => []TimeInv
<1>1. Init => TimeInv
  <2> SUFFICES ASSUME Init PROVE TimeInv
    OBVIOUS
  <2>1. TypeOK
    <3>1. 0 \in 0 .. W - 1 /\ 0 \in 0 .. Quarter /\ 0 \in 0 .. Slack
      BY TimeAssumption, Cycle
    <3> QED
      BY <3>1 DEF Init, TypeOK, Points
  <2>2. FiledInv /\ ClockInv /\ LateInv
    BY DEF Init, FiledInv, ClockInv, LateInv, resolversMap
  <2> QED
    BY <2>1, <2>2 DEF TimeInv
<1> QED
  BY <1>1, TimeStep, PTL DEF Spec

\* The clock, the maps and the program points keep their types.
THEOREM TimeTypeCorrect == Spec => []TypeOK
BY TimeInvariant, PTL DEF TimeInv

\* A request is overdue by the longest pause between two rounds at most.
THEOREM NeverVeryLateCorrect == Spec => []NeverVeryLate
<1>1. TimeInv => NeverVeryLate
  BY TimeAssumption, Cycle DEF TimeInv, TypeOK, LateInv, NeverVeryLate, Now, resolversMap
<1> QED
  BY <1>1, TimeInvariant, PTL

\* Before it waits, run() expires every request due when it sampled the clock.
THEOREM RoundExpiresDueCorrect == Spec => RoundExpiresDue
<1>1. TimeInv /\ [Next]_vars =>
        [Wait => \A r \in resolversMap : deadline[r] > noticed + curTime]_vars
  BY TimeAssumption DEF TimeInv, TypeOK, FiledInv, Wait, NothingDue, resolversMap
<1> QED
  BY <1>1, TimeInvariant, PTL DEF Spec, RoundExpiresDue

\* A request filed while no wrap was unnoticed never times out early.
THEOREM EarlyOnlyIfUnnoticedCorrect == Spec => EarlyOnlyIfUnnoticed
<1>1. TimeInv /\ [Next]_vars =>
        [\A r \in Resolvers : TimesOut(r) => Now >= deadline[r] \/ r \in unnoticed]_vars
  <2> SUFFICES ASSUME TimeInv, NEW r \in Resolvers, TimesOut(r), r \notin unnoticed
               PROVE  Now >= deadline[r]
    OBVIOUS
  <2> USE TimeAssumption DEF TimeInv, TypeOK, FiledInv, ClockInv, TimesOut, RemoveResolver,
          resolversMap
  <2>1. CASE ExpireWrapped
    BY <2>1 DEF ExpireWrapped, Now
  <2>2. CASE ExpireDue
    BY <2>2 DEF ExpireDue, Now
  <2> QED
    BY <2>1, <2>2
<1> QED
  BY <1>1, TimeInvariant, PTL DEF Spec, EarlyOnlyIfUnnoticed
=============================================================================
