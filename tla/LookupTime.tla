----------------------------- MODULE LookupTime -----------------------------
(***************************************************************************)
(* Timeouts of DNS lookups in src/src/setka/dns_resolver.cpp on a clock    *)
(* that wraps around: utki::get_ticks_ms() counts milliseconds modulo      *)
(* 2^32, here modulo W.  A request is filed under its end time in one of   *)
(* two time maps, the second for those that end after the next wrap; run() *)
(* samples the clock once per round, notices that it has wrapped, expires  *)
(* what is due and waits for the earliest end time of the first map.       *)
(*                                                                         *)
(* The code reads ticks only.  Real time is Now = base + ticks, where base *)
(* is the time of the last wrap; base, deadline, noticed and unnoticed are *)
(* history variables.  Threads, mutexes and the rest of run() are in       *)
(* DnsLookup: here one thread object exists at a time, made anew by the    *)
(* first request after it is done.                                         *)
(***************************************************************************)
EXTENDS Integers

CONSTANTS
    Resolvers,  \* dns_resolver objects of the application
    W,          \* number of values of the clock: 2^32
    Timeouts,   \* values of timeoutMillis the application uses
    Slack,      \* ticks run() may take from one wait to the next, callbacks included
    MaxTime     \* bound of the model: a cycle that begins later is not completed

Half == (W - 1) \div 2
Quarter == (W - 1) \div 4

\* "get_ticks_ms is called at least 4 times per full time warp around cycle":
\* rounds are close enough for a wrap to show as a step from the second half of
\* the cycle to the first.
ASSUME TimeAssumption ==
    /\ W \in Nat \ {0} /\ Slack \in Nat /\ MaxTime \in Nat
    /\ Timeouts \subseteq 0 .. W - 1
    /\ Quarter + 2 * Slack <= Half

VARIABLES
    base, ticks,          \* the clock
    timeMap1, timeMap2,   \* requests in the maps the two pointers refer to
    endTime,              \* key of each request in its map
    curTime,              \* clock sampled by run(), or by the resolve() that starts it
    lastTicksInFirstHalf, \* was that sample in the first half of the cycle?
    pc,                   \* what run() is about to do
    left,                 \* ticks until the wait times out
    spent,                \* ticks since the last wait
    deadline,             \* real time at which each request is due
    noticed,              \* the base run() has adapted its maps to
    unnoticed             \* requests filed after a wrap and before run() noticed it

clock   == <<base, ticks>>
maps    == <<timeMap1, timeMap2>>
filed   == <<endTime, deadline, unnoticed>>
sample  == <<lastTicksInFirstHalf, curTime>>
pacing  == <<left, spent>>
vars    == <<clock, maps, filed, sample, noticed, pacing, pc>>

Now == base + ticks
resolversMap == timeMap1 \cup timeMap2
InFirstHalf(t) == t < Half

Points == {"done", "loop", "wrap", "wrapCallback", "expire", "expireCallback", "wait"}

\* LookupThread::mutex is free: resolve() and cancel() may run.
Unlocked == pc \in {"done", "loop", "wrapCallback", "expireCallback", "wait"}

TypeOK ==
    /\ base \in Nat /\ ticks \in 0 .. W - 1
    /\ timeMap1 \subseteq Resolvers /\ timeMap2 \subseteq Resolvers \ timeMap1
    /\ endTime \in [Resolvers -> 0 .. W - 1]
    /\ curTime \in 0 .. W - 1
    /\ lastTicksInFirstHalf \in BOOLEAN
    /\ pc \in Points
    /\ left \in 0 .. Quarter
    /\ spent \in 0 .. Slack
    /\ deadline \in [Resolvers -> Nat]
    /\ noticed \in Nat
    /\ unnoticed \subseteq Resolvers

Init ==
    /\ base = 0 /\ ticks \in 0 .. W - 1
    /\ timeMap1 = {} /\ timeMap2 = {}
    /\ endTime = [r \in Resolvers |-> 0]
    /\ curTime = 0
    /\ lastTicksInFirstHalf = FALSE
    /\ pc = "done"
    /\ left = 0 /\ spent = 0
    /\ deadline = [r \in Resolvers |-> 0]
    /\ noticed = 0
    /\ unnoticed = {}

-----------------------------------------------------------------------------
(* Requests and the clock                                                  *)

\* Mutant of File: that the end time wraps is overlooked.
FileInFirstMap(r, timeout) ==
    /\ endTime' = [endTime EXCEPT ![r] = (ticks + timeout) % W]
    /\ timeMap1' = timeMap1 \cup {r}
    /\ UNCHANGED timeMap2

\* The request is filed by its end time, which is before now if it wrapped.
File(r, timeout) ==
    LET end == (ticks + timeout) % W
    IN  /\ endTime' = [endTime EXCEPT ![r] = end]
        /\ IF end < ticks
              THEN timeMap2' = timeMap2 \cup {r} /\ UNCHANGED timeMap1
              ELSE timeMap1' = timeMap1 \cup {r} /\ UNCHANGED timeMap2

\* A thread that is done is replaced by a new one, which starts.
Start ==
    /\ curTime' = ticks
    /\ lastTicksInFirstHalf' = InFirstHalf(ticks)
    /\ noticed' = base
    /\ pc' = "loop"
    /\ spent' = 0

Resolve(r, timeout) ==
    /\ Unlocked
    /\ r \notin resolversMap
    /\ File(r, timeout)
    /\ deadline' = [deadline EXCEPT ![r] = Now + timeout]
    /\ IF pc = "done" THEN Start ELSE UNCHANGED <<sample, noticed, pc, spent>>
    /\ unnoticed' = IF noticed' = base THEN unnoticed \ {r} ELSE unnoticed \cup {r}
    /\ UNCHANGED <<clock, left>>

RemoveResolver(r) ==
    /\ timeMap1' = timeMap1 \ {r}
    /\ timeMap2' = timeMap2 \ {r}

\* cancel(), or a reply that completes the request.  A cancel() that leaves no
\* request makes the thread quit: that is in DnsLookup, and left out here.
Leave(r) ==
    /\ Unlocked
    /\ r \in resolversMap
    /\ RemoveResolver(r)
    /\ UNCHANGED <<clock, filed, sample, noticed, pacing, pc>>

\* While run() waits its timeout counts down; otherwise it spends its slack.
Tick ==
    /\ \/ ticks < W - 1 /\ ticks' = ticks + 1 /\ UNCHANGED base
       \/ ticks = W - 1 /\ ticks' = 0 /\ base' = base + W /\ base <= MaxTime
    /\ \/ pc = "wait" /\ left > 0 /\ left' = left - 1 /\ UNCHANGED spent
       \/ pc = "done" /\ UNCHANGED pacing
       \/ pc \notin {"wait", "done"} /\ spent < Slack /\ spent' = spent + 1 /\ UNCHANGED left
    /\ UNCHANGED <<maps, filed, sample, noticed, pc>>

-----------------------------------------------------------------------------
(* A round of run()                                                        *)

\* Sample the clock; it has wrapped if it went from the second half to the first.
Sample ==
    /\ pc = "loop"
    /\ curTime' = ticks
    /\ lastTicksInFirstHalf' = InFirstHalf(ticks)
    /\ pc' = IF InFirstHalf(ticks) /\ ~lastTicksInFirstHalf THEN "wrap" ELSE "expire"
    /\ UNCHANGED <<clock, maps, filed, noticed, pacing>>

\* The clock has wrapped: every request of the first map times out.
ExpireWrapped ==
    /\ pc = "wrap"
    /\ \E r \in timeMap1 : RemoveResolver(r)
    /\ pc' = "wrapCallback"
    /\ UNCHANGED <<clock, filed, sample, noticed, pacing>>

\* Mutant of SwapMaps: the maps are not swapped.
KeepMaps ==
    /\ pc = "wrap"
    /\ timeMap1 = {}
    /\ noticed' = noticed + W
    /\ pc' = "expire"
    /\ UNCHANGED <<clock, maps, filed, sample, pacing>>

\* Mutant of SwapMaps: the second map is copied to the first.
CopyMap ==
    /\ pc = "wrap"
    /\ timeMap1 = {}
    /\ timeMap1' = timeMap2
    /\ noticed' = noticed + W
    /\ pc' = "expire"
    /\ UNCHANGED <<clock, timeMap2, filed, sample, pacing>>

SwapMaps ==
    /\ pc = "wrap"
    /\ timeMap1 = {}
    /\ timeMap1' = timeMap2
    /\ timeMap2' = timeMap1
    /\ noticed' = noticed + W
    /\ pc' = "expire"
    /\ UNCHANGED <<clock, filed, sample, pacing>>

\* A request of the first map times out when its end time is reached.
ExpireDue ==
    /\ pc = "expire"
    /\ \E r \in timeMap1 : endTime[r] <= curTime /\ RemoveResolver(r)
    /\ pc' = "expireCallback"
    /\ UNCHANGED <<clock, filed, sample, noticed, pacing>>

\* on_completed() returns.
CallbackReturns ==
    /\ \/ pc = "wrapCallback" /\ pc' = "wrap"
       \/ pc = "expireCallback" /\ pc' = "expire"
    /\ UNCHANGED <<clock, maps, filed, sample, noticed, pacing>>

NothingDue == pc = "expire" /\ \A r \in timeMap1 : endTime[r] > curTime

Exit ==
    /\ NothingDue
    /\ resolversMap = {}
    /\ pc' = "done"
    /\ UNCHANGED <<clock, maps, filed, sample, noticed, pacing>>

\* Mutant of WaitTimeouts: the wait is not clamped.
WaitTimeoutsUnclamped ==
    {t \in 0 .. W - 1 :
        \/ timeMap1 = {}
        \/ /\ \A r \in timeMap1 : t <= endTime[r] - curTime
           /\ \E r \in timeMap1 : t = endTime[r] - curTime}

\* What the wait may be given: the time up to the first end time, at most a
\* quarter of the cycle.  With an empty first map the code reads through end(),
\* which is undefined: any value, clamped.
WaitTimeouts ==
    {t \in 0 .. Quarter :
        \/ timeMap1 = {}
        \/ /\ \A r \in timeMap1 : t <= endTime[r] - curTime
           /\ t = Quarter \/ \E r \in timeMap1 : t = endTime[r] - curTime}

Wait ==
    /\ NothingDue
    /\ resolversMap # {}
    /\ left' \in WaitTimeouts
    /\ spent' = 0
    /\ pc' = "wait"
    /\ UNCHANGED <<clock, maps, filed, sample, noticed>>

\* The wait times out, or ends early because of a message or the socket.
WaitReturns ==
    /\ pc = "wait"
    /\ pc' = "loop"
    /\ UNCHANGED <<clock, maps, filed, sample, noticed, pacing>>

Next ==
    \/ \E r \in Resolvers, t \in Timeouts : Resolve(r, t)
    \/ \E r \in Resolvers : Leave(r)
    \/ Tick
    \/ Sample \/ ExpireWrapped \/ SwapMaps \/ ExpireDue \/ CallbackReturns
    \/ Exit \/ Wait \/ WaitReturns

Spec == Init /\ [][Next]_vars

-----------------------------------------------------------------------------
(* Properties                                                              *)

\* No request is overdue by more than the longest pause between two rounds,
\* however the clock wraps, requests come and go, and whatever the undefined
\* read yields: no wrap goes unnoticed, no request is left in the wrong map.
NeverVeryLate == \A r \in resolversMap : Now <= deadline[r] + Quarter + 2 * Slack

\* A round that goes on to wait leaves no request that was due when it sampled
\* the clock, in either map.
RoundExpiresDue ==
    [][Wait => \A r \in resolversMap : deadline[r] > noticed + curTime]_vars

\* The request of r times out in this step.
TimesOut(r) == r \in resolversMap /\ r \notin resolversMap' /\ (ExpireWrapped \/ ExpireDue)

\* A request filed while no wrap of the clock was unnoticed does not time out
\* early: not in the round that notices the next wrap, nor in any other.
\* Others do, although timeoutMillis is the time to wait (dns_resolver.hpp:72).
EarlyOnlyIfUnnoticed ==
    [][\A r \in Resolvers : TimesOut(r) => Now >= deadline[r] \/ r \in unnoticed]_vars
=============================================================================
