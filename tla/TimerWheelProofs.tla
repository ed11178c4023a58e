-------------------------- MODULE TimerWheelProofs --------------------------
(***************************************************************************)
(* Proofs about TimerWheel: where timers hang, when they fire, and what    *)
(* can kill TCo, for every set of timers and of timeouts, every length of  *)
(* a tick, and however often the clock is set back.                        *)
(***************************************************************************)
EXTENDS TimerWheel, SequenceTheorems, FiniteSetTheorems, TLAPS

\* Timer t is entry i of the list of a tick.
Hangs(t, tid, i) == tid \in Ticks /\ i \in 1..Len(TMap[tid]) /\ TMap[tid][i] = t

\* Is TCo through with this place of the list it walks?
Passed(tid, i) == tco # "waits" /\ tid = walk.tid /\ i < walk.idx

Contexts ==
    \A t \in Timers :
        /\ Created(t) => ctx[t].time \in Timeouts /\ ctx[t].time <= Horizon
        /\ ctx[t].async => ~ctx[t].again
        /\ rounds[t] > 0 \/ sleeper[t] # "none" => Created(t)

\* TCo's locals: ticks to come are not looked at, and the list it is in is at
\* least as long as it was when TCo entered it.
WalkIsSound ==
    /\ tco = "walks" => walk.now <= TickOf(clock)
    /\ tco = "walks" /\ walk.tid > walk.now => walk.idx = 0
    /\ tco # "waits" =>
          \/ walk.idx = 0 /\ walk.total = 0
          \/ /\ walk.idx \in 1..(walk.total + 1)
             /\ walk.tid \in Ticks /\ walk.total <= Len(TMap[walk.tid])

OnlyCreatedHang == \A t \in Timers : \A tid, i \in Nat : Hangs(t, tid, i) => Created(t)

\* No timer hangs in two places that TCo has not passed.
NeverTwice ==
    \A t \in Timers : \A p, q, i, j \in Nat :
        Hangs(t, p, i) /\ Hangs(t, q, j) /\ ~Passed(p, i) /\ ~Passed(q, j) => p = q /\ i = j

\* A one-shot timer that has fired hangs nowhere else.
FiredAreGone ==
    \A t \in Timers : \A tid, i \in Nat :
        rounds[t] > 0 /\ ~ctx[t].again /\ Hangs(t, tid, i) => Passed(tid, i)

\* A timer hangs in the tick in which its interval ends.
HangWhereDue ==
    \A t \in Timers : \A tid, i \in Nat :
        Hangs(t, tid, i) /\ ~Passed(tid, i) => TickOf(due[t]) = tid

\* The first tick TCo has not walked, while the clock was not set back.
Regular == clockSteps = 0 /\ tco # "dead"
Edge == IF tco = "walks" THEN walk.tid ELSE TNow

EdgeIsNear == Regular => Edge <= (IF tco = "walks" THEN walk.now ELSE TickOf(clock)) + 1

NoneBehind ==
    \A t \in Timers : \A tid, i \in Nat :
        Regular /\ Hangs(t, tid, i) /\ ctx[t].time >= Sub => tid >= Edge

ArmedHang ==
    \A t \in Timers :
        Regular /\ ctx[t].time >= Sub /\ Armed(t) =>
            \E tid, i \in Nat : Hangs(t, tid, i) /\ Ahead(tid, i)

IInv ==
    /\ TypeOK /\ Contexts /\ WalkIsSound /\ OnlyCreatedHang
    /\ NeverTwice /\ FiredAreGone /\ HangWhereDue
    /\ EdgeIsNear /\ NoneBehind /\ ArmedHang
    /\ DiesOfEarlyWakeup

-----------------------------------------------------------------------------
(* Ticks *)

LEMMA TickFacts ==
    ASSUME NEW x \in Nat
    PROVE  TickOf(x) \in Nat /\ TickOf(x) * Sub <= x /\ x < TickOf(x) * Sub + Sub
BY SubAssumption, Z3 DEF TickOf

LEMMA TickMonotone ==
    ASSUME NEW x \in Nat, NEW y \in Nat, x <= y
    PROVE  TickOf(x) <= TickOf(y)
<1>1. TickOf(x) * Sub < (TickOf(y) + 1) * Sub
  BY TickFacts, SubAssumption
<1> QED BY <1>1, TickFacts, SubAssumption

\* A whole tick later it is a later tick.
LEMMA TickLater ==
    ASSUME NEW x \in Nat, NEW y \in Nat, x + Sub <= y
    PROVE  TickOf(x) + 1 <= TickOf(y)
<1>1. (TickOf(x) + 1) * Sub < (TickOf(y) + 1) * Sub
  BY TickFacts, SubAssumption
<1> QED BY <1>1, TickFacts, SubAssumption

LEMMA TickInRange ==
    ASSUME NEW x \in Nat, x <= 2 * Horizon
    PROVE  TickOf(x) \in Ticks
BY TickFacts, TickMonotone, BoundsAssumption DEF Ticks, TickOf

LEMMA TicksBelow ==
    ASSUME NEW a \in Ticks, NEW b \in Nat, b <= a
    PROVE  b \in Ticks
<1>1. (2 * Horizon) \div Sub \in Nat
  BY TickFacts, BoundsAssumption DEF TickOf
<1> QED BY <1>1 DEF Ticks

-----------------------------------------------------------------------------
(* Lists *)

\* A timer is hung into a list.
LEMMA ListAppended ==
    ASSUME TMap \in [Ticks -> Seq(Timers)], NEW k \in Nat, NEW t \in Timers,
           TMap' = [TMap EXCEPT ![k] = Append(@, t)]
    PROVE  /\ TMap' \in [Ticks -> Seq(Timers)]
           /\ \A u \in Timers : \A tid, i \in Nat :
                Hangs(u, tid, i)' <=>
                    \/ Hangs(u, tid, i)
                    \/ u = t /\ tid = k /\ k \in Ticks /\ i = Len(TMap[k]) + 1
           /\ \A tid \in Ticks : Len(TMap[tid]) \in Nat /\ Len(TMap'[tid]) \in Nat
                                  /\ Len(TMap[tid]) <= Len(TMap'[tid])
<1>1. CASE k \in Ticks
  <2>1. TMap[k] \in Seq(Timers)
    BY <1>1
  <2>2. /\ Append(TMap[k], t) \in Seq(Timers)
        /\ Len(Append(TMap[k], t)) = Len(TMap[k]) + 1
        /\ \A i \in 1..Len(TMap[k]) : Append(TMap[k], t)[i] = TMap[k][i]
        /\ Append(TMap[k], t)[Len(TMap[k]) + 1] = t
    BY <2>1, AppendProperties
  <2>3. /\ TMap'[k] = Append(TMap[k], t)
        /\ \A tid \in Ticks : tid # k => TMap'[tid] = TMap[tid]
        /\ TMap' \in [Ticks -> Seq(Timers)]
    BY <1>1, <2>2
  <2>4. \A tid \in Ticks : Len(TMap[tid]) \in Nat /\ Len(TMap'[tid]) \in Nat
    BY <2>3, LenProperties
  <2> QED BY <1>1, <2>2, <2>3, <2>4 DEF Hangs
<1>2. CASE k \notin Ticks
  <2>1. TMap' = TMap
    BY <1>2
  <2>2. \A tid \in Ticks : Len(TMap[tid]) \in Nat
    BY LenProperties
  <2>3. \A u \in Timers : \A tid, i \in Nat : Hangs(u, tid, i)' <=> Hangs(u, tid, i)
    BY <2>1 DEF Hangs
  <2>4. \A tid \in Ticks : Len(TMap'[tid]) = Len(TMap[tid])
    BY <2>1
  <2>5. TMap' \in [Ticks -> Seq(Timers)]
    BY <2>1
  <2> QED BY <1>2, <2>2, <2>3, <2>4, <2>5
<1> QED BY <1>1, <1>2

\* A list is dropped.
LEMMA ListDropped ==
    ASSUME TMap \in [Ticks -> Seq(Timers)], NEW k \in Nat,
           TMap' = [TMap EXCEPT ![k] = <<>>]
    PROVE  /\ TMap' \in [Ticks -> Seq(Timers)]
           /\ \A u \in Timers : \A tid, i \in Nat :
                Hangs(u, tid, i)' <=> Hangs(u, tid, i) /\ tid # k
<1>1. <<>> \in Seq(Timers) /\ Len(<<>>) = 0
  BY EmptySeq
<1>2. TMap' \in [Ticks -> Seq(Timers)]
  BY <1>1
<1>3. \A tid \in Ticks : TMap'[tid] = IF tid = k THEN <<>> ELSE TMap[tid]
  OBVIOUS
<1>4. ASSUME NEW u \in Timers, NEW tid \in Nat, NEW i \in Nat
      PROVE  Hangs(u, tid, i)' <=> Hangs(u, tid, i) /\ tid # k
  <2>1. CASE tid \in Ticks /\ tid = k
    <3>1. TMap'[tid] = <<>>
      BY <1>3, <2>1
    <3>2. i \notin 1..Len(TMap'[tid])
      BY <1>1, <3>1
    <3> QED BY <2>1, <3>2 DEF Hangs
  <2>2. CASE tid \in Ticks /\ tid # k
    BY <1>3, <2>2 DEF Hangs
  <2>3. CASE tid \notin Ticks
    BY <2>3 DEF Hangs
  <2> QED BY <2>1, <2>2, <2>3
<1> QED BY <1>2, <1>4

LEMMA ListsKept ==
    ASSUME TMap' = TMap
    PROVE  \A u \in Timers : \A tid, i \in Nat : Hangs(u, tid, i)' <=> Hangs(u, tid, i)
BY DEF Hangs

\* What all steps need of the types.
LEMMA Numbers ==
    ASSUME TypeOK
    PROVE  /\ Sub \in Nat \ {0} /\ Horizon \in Nat /\ Timeouts \subseteq Nat \ {0}
           /\ clock \in Nat /\ clock <= Horizon /\ TickOf(clock) \in Nat /\ TickOf(clock) \in Ticks
           /\ walk.tid \in Nat /\ walk.now \in Nat /\ walk.idx \in Nat /\ walk.total \in Nat
           /\ TNow \in Nat
           /\ Ticks \subseteq Nat
           /\ \A tid \in Ticks : TMap[tid] \in Seq(Timers) /\ Len(TMap[tid]) \in Nat
<1>1. clock \in Nat /\ clock <= Horizon /\ Horizon \in Nat
  BY BoundsAssumption DEF TypeOK
<1>2. TickOf(clock) \in Nat /\ TickOf(clock) \in Ticks
  BY <1>1, TickFacts, TickInRange
<1>3. \A tid \in Ticks : TMap[tid] \in Seq(Timers) /\ Len(TMap[tid]) \in Nat
  BY LenProperties DEF TypeOK
<1> QED BY <1>1, <1>2, <1>3, SubAssumption, TimeoutsAssumption DEF TypeOK, Ticks

\* The timer TCo is at.
LEMMA HereHangs ==
    ASSUME IInv, AtTimer
    PROVE  /\ tco = "walks" /\ walk.tid \in Ticks /\ walk.tid <= walk.now
           /\ walk.idx \in 1..walk.total /\ walk.total <= Len(TMap[walk.tid])
           /\ Here \in Timers /\ Hangs(Here, walk.tid, walk.idx)
           /\ ~Passed(walk.tid, walk.idx)
           /\ Created(Here)
<1> USE DEF IInv
<1>1. /\ walk.tid \in Nat /\ walk.idx \in Nat /\ walk.total \in Nat /\ walk.now \in Nat
      /\ Ticks \subseteq Nat
      /\ \A tid \in Ticks : TMap[tid] \in Seq(Timers) /\ Len(TMap[tid]) \in Nat
  BY Numbers
<1>2. /\ tco = "walks" /\ walk.tid \in Ticks /\ walk.tid <= walk.now
      /\ walk.idx \in 1..walk.total /\ walk.total <= Len(TMap[walk.tid])
  BY <1>1 DEF AtTimer, WalkIsSound
<1>3. Here \in Timers /\ Hangs(Here, walk.tid, walk.idx)
  <2>1. walk.idx \in 1..Len(TMap[walk.tid])
    BY <1>1, <1>2
  <2> QED BY <1>1, <1>2, <2>1, ElementOfSeq DEF Here, Hangs
<1>4. ~Passed(walk.tid, walk.idx)
  BY <1>1 DEF Passed
<1>5. Created(Here)
  BY <1>1, <1>2, <1>3 DEF OnlyCreatedHang
<1> QED BY <1>2, <1>3, <1>4, <1>5

-----------------------------------------------------------------------------
(* The steps outside of a walk, and the clock *)

LEMMA AdvanceKeeps ==
    ASSUME IInv, Advance
    PROVE  IInv'
<1> USE DEF IInv, Advance
<1>1. TypeOK'
  BY BoundsAssumption DEF TypeOK
<1>2. /\ clock \in Nat /\ clock' = clock + 1 /\ TickOf(clock) \in Nat
      /\ TickOf(clock') \in Nat /\ TickOf(clock) <= TickOf(clock')
      /\ walk.now \in Nat /\ walk.tid \in Nat /\ TNow \in Nat
  BY Numbers, TickMonotone, TickFacts
<1>3. WalkIsSound' /\ EdgeIsNear'
  BY <1>2 DEF WalkIsSound, EdgeIsNear, Edge, Regular
<1>4. Contexts' /\ DiesOfEarlyWakeup'
  BY DEF Contexts, Created, DiesOfEarlyWakeup
<1>5. OnlyCreatedHang' /\ NeverTwice' /\ FiredAreGone' /\ HangWhereDue'
  BY ListsKept DEF OnlyCreatedHang, NeverTwice, FiredAreGone, HangWhereDue, Passed, Created
<1>6. NoneBehind' /\ ArmedHang'
  BY ListsKept DEF NoneBehind, ArmedHang, Regular, Edge, Armed, Created, Ahead
<1> QED BY <1>1, <1>3, <1>4, <1>5, <1>6

LEMMA ClockSetBackKeeps ==
    ASSUME IInv, ClockSetBack
    PROVE  IInv'
<1> USE DEF IInv, ClockSetBack, UserTurn
<1>1. TypeOK'
  BY BoundsAssumption, SubAssumption DEF TypeOK
<1>2. ~Regular'
  BY BoundsAssumption DEF Regular, TypeOK
<1>3. WalkIsSound'
  BY DEF WalkIsSound
<1>4. Contexts' /\ DiesOfEarlyWakeup'
  BY DEF Contexts, Created, DiesOfEarlyWakeup
<1>5. OnlyCreatedHang' /\ NeverTwice' /\ FiredAreGone' /\ HangWhereDue'
  BY ListsKept DEF OnlyCreatedHang, NeverTwice, FiredAreGone, HangWhereDue, Passed, Created
<1>6. EdgeIsNear' /\ NoneBehind' /\ ArmedHang'
  BY <1>2 DEF EdgeIsNear, NoneBehind, ArmedHang
<1> QED BY <1>1, <1>3, <1>4, <1>5, <1>6

\* A new timer hangs in one place, its own.
LEMMA NewTimerKeeps ==
    ASSUME IInv, NEW t \in Timers, NEW d \in Timeouts, NEW again \in BOOLEAN,
           NEW async \in BOOLEAN, async => ~again,
           Timer_Init(t, d, again, async),
           sleeper' = sleeper \/ sleeper' = [sleeper EXCEPT ![t] = "asleep"]
    PROVE  IInv'
<1> USE DEF IInv, Timer_Init, UserTurn
<1>0. PICK k : k = TickOf(clock + d)
  OBVIOUS
<1>1. /\ clock + d \in Nat /\ clock + d <= Horizon /\ k \in Nat /\ k \in Ticks
      /\ d \in Nat \ {0} /\ d <= Horizon
      /\ TickOf(clock) \in Nat /\ (Sub <= d => TickOf(clock) + 1 <= k)
  <2>1. /\ clock \in Nat /\ d \in Nat \ {0} /\ Horizon \in Nat /\ Sub \in Nat
        /\ clock + d <= Horizon /\ TickOf(clock) \in Nat
    BY Numbers
  <2>2. clock + d \in Nat /\ d <= Horizon /\ clock + d <= 2 * Horizon
    BY <2>1
  <2>3. k \in Nat /\ k \in Ticks
    BY <1>0, <2>2, TickFacts, TickInRange
  <2>4. Sub <= d => TickOf(clock) + 1 <= k
    BY <1>0, <2>1, <2>2, TickLater
  <2> QED BY <2>1, <2>2, <2>3, <2>4
<1>2. TMap' = [TMap EXCEPT ![k] = Append(@, t)]
  BY <1>0 DEF set_ctx, get_tid
<1>3. /\ TMap' \in [Ticks -> Seq(Timers)]
      /\ \A u \in Timers : \A tid, i \in Nat :
            Hangs(u, tid, i)' <=>
                \/ Hangs(u, tid, i)
                \/ u = t /\ tid = k /\ k \in Ticks /\ i = Len(TMap[k]) + 1
      /\ \A tid \in Ticks : Len(TMap[tid]) \in Nat /\ Len(TMap'[tid]) \in Nat
                             /\ Len(TMap[tid]) <= Len(TMap'[tid])
  BY <1>1, <1>2, ListAppended DEF TypeOK
<1>4. ~Created(t) /\ rounds[t] = 0 /\ sleeper[t] = "none"
  BY DEF Contexts, TypeOK
<1>5. \A tid, i \in Nat : ~Hangs(t, tid, i)
  BY <1>4 DEF OnlyCreatedHang
<1>6. /\ \A u \in Timers : u # t => ctx'[u] = ctx[u] /\ due'[u] = due[u] /\ sleeper'[u] = sleeper[u]
      /\ ctx'[t] = [run |-> TRUE, time |-> d, again |-> again, async |-> async]
      /\ due'[t] = clock + d
  BY DEF TypeOK
<1>7. \A u \in Timers : Created(u)' <=> u = t \/ Created(u)
  BY <1>6 DEF Created, NoCtx
<1>8. TypeOK'
  BY <1>1, <1>3, BoundsAssumption DEF TypeOK
<1>9. Contexts'
  BY <1>1, <1>6, <1>7 DEF Contexts
<1>10. WalkIsSound'
  BY <1>3, Numbers, SMTT(30) DEF WalkIsSound
<1>11. OnlyCreatedHang'
  BY <1>3, <1>7 DEF OnlyCreatedHang
<1>12. \A p, i \in Nat : Passed(p, i)' <=> Passed(p, i)
  BY DEF Passed
<1>13. NeverTwice'
  BY <1>3, <1>5, <1>12 DEF NeverTwice
<1>14. FiredAreGone'
  BY <1>3, <1>4, <1>5, <1>6, <1>12 DEF FiredAreGone
<1>15. HangWhereDue'
  BY <1>0, <1>3, <1>5, <1>6, <1>12 DEF HangWhereDue
<1>16. EdgeIsNear'
  BY DEF EdgeIsNear, Edge, Regular
<1>17. Regular => TNow <= k \/ d < Sub
  BY <1>1, Numbers DEF EdgeIsNear, Edge, Regular
<1>18. NoneBehind'
  BY <1>1, <1>3, <1>5, <1>6, <1>17, Numbers DEF NoneBehind, Regular, Edge
<1>19. ArmedHang'
  <2> SUFFICES ASSUME NEW u \in Timers, Regular', (ctx[u].time >= Sub)', Armed(u)'
               PROVE  \E tid, i \in Nat : (Hangs(u, tid, i) /\ Ahead(tid, i))'
    BY DEF ArmedHang
  <2>0. Regular /\ tco = "waits"
    BY DEF Regular, TypeOK
  <2>1. CASE u = t
    <3>1. PICK n \in Nat : n = Len(TMap[k]) + 1
      BY <1>1, <1>3
    <3>2. Hangs(t, k, n)'
      BY <1>1, <1>3, <3>1
    <3>3. Ahead(k, n)'
      BY <1>1, <1>6, <1>17, <2>0, <2>1, Numbers DEF Ahead
    <3> QED BY <1>1, <2>1, <3>2, <3>3
  <2>2. CASE u # t
    <3>1. Armed(u) /\ ctx[u].time >= Sub
      BY <1>6, <1>7, <2>2 DEF Armed
    <3>2. PICK tid \in Nat, i \in Nat : Hangs(u, tid, i) /\ Ahead(tid, i)
      BY <2>0, <3>1 DEF ArmedHang
    <3>3. Hangs(u, tid, i)' /\ Ahead(tid, i)'
      BY <1>3, <3>2 DEF Ahead
    <3> QED BY <3>3
  <2> QED BY <2>1, <2>2
<1>20. DiesOfEarlyWakeup'
  <2> SUFFICES ASSUME tco = "dead" PROVE \E u \in Timers : rounds'[u] = 0 /\ sleeper'[u] = "woken"
    BY DEF DiesOfEarlyWakeup
  <2>1. PICK u \in Timers : rounds[u] = 0 /\ sleeper[u] = "woken"
    BY DEF DiesOfEarlyWakeup
  <2> QED BY <1>4, <1>6, <2>1
<1> QED BY <1>8, <1>9, <1>10, <1>11, <1>13, <1>14, <1>15, <1>16, <1>18, <1>19, <1>20

LEMMA StopKeeps ==
    ASSUME IInv, NEW t \in Timers, Stop(t)
    PROVE  IInv'
<1> USE DEF IInv, Stop, UserTurn
<1>1. TypeOK'
  BY DEF TypeOK
<1>2. \A u \in Timers : /\ ctx'[u].time = ctx[u].time /\ ctx'[u].again = ctx[u].again
                        /\ ctx'[u].async = ctx[u].async /\ (ctx'[u].run => ctx[u].run)
  BY DEF TypeOK
<1>3. \A u \in Timers : u # t => ctx'[u] = ctx[u]
  BY DEF TypeOK
<1>4. ctx[t].time # 0
  BY TimeoutsAssumption DEF Contexts
<1>5. \A u \in Timers : Created(u)' <=> Created(u)
  BY <1>2, <1>3, <1>4 DEF Created, NoCtx
<1>6. Contexts'
  BY <1>2, <1>5 DEF Contexts
<1>7. WalkIsSound' /\ EdgeIsNear' /\ DiesOfEarlyWakeup'
  BY DEF WalkIsSound, EdgeIsNear, Edge, Regular, DiesOfEarlyWakeup
<1>8. OnlyCreatedHang' /\ NeverTwice' /\ FiredAreGone' /\ HangWhereDue'
  BY <1>2, <1>5, ListsKept DEF OnlyCreatedHang, NeverTwice, FiredAreGone, HangWhereDue, Passed
<1>9. NoneBehind' /\ ArmedHang'
  BY <1>2, <1>5, ListsKept DEF NoneBehind, ArmedHang, Regular, Edge, Armed, Ahead
<1> QED BY <1>1, <1>6, <1>7, <1>8, <1>9

LEMMA WakeSleeperKeeps ==
    ASSUME IInv, NEW t \in Timers, WakeSleeper(t)
    PROVE  IInv'
<1> USE DEF IInv, WakeSleeper, UserTurn
<1>1. TypeOK'
  BY DEF TypeOK
<1>2. \A u \in Timers : u # t => sleeper'[u] = sleeper[u]
  BY DEF TypeOK
<1>3. Contexts' /\ DiesOfEarlyWakeup'
  BY <1>2 DEF Contexts, Created, DiesOfEarlyWakeup
<1>4. WalkIsSound' /\ EdgeIsNear'
  BY DEF WalkIsSound, EdgeIsNear, Edge, Regular
<1>5. OnlyCreatedHang' /\ NeverTwice' /\ FiredAreGone' /\ HangWhereDue'
  BY ListsKept DEF OnlyCreatedHang, NeverTwice, FiredAreGone, HangWhereDue, Passed, Created
<1>6. NoneBehind' /\ ArmedHang'
  BY ListsKept DEF NoneBehind, ArmedHang, Regular, Edge, Armed, Created, Ahead
<1> QED BY <1>1, <1>3, <1>4, <1>5, <1>6

-----------------------------------------------------------------------------
(* The steps of a walk *)

LEMMA StartWalkKeeps ==
    ASSUME IInv, StartWalk
    PROVE  IInv'
<1> USE DEF IInv, StartWalk
<1>1. /\ walk'.tid = TNow /\ walk'.now = TickOf(clock) /\ walk'.idx = 0 /\ walk'.total = 0
      /\ clock \in Nat /\ TNow \in Nat /\ TickOf(clock) \in Nat
  BY Numbers DEF get_tid
<1>2. TypeOK'
  BY <1>1 DEF TypeOK, get_tid
<1>3. Contexts' /\ DiesOfEarlyWakeup'
  BY DEF Contexts, Created, DiesOfEarlyWakeup
<1>4. WalkIsSound' /\ EdgeIsNear'
  BY <1>1 DEF WalkIsSound, EdgeIsNear, Edge, Regular
<1>5. \A tid, i \in Nat : ~Passed(tid, i) /\ ~Passed(tid, i)'
  BY <1>1 DEF Passed
<1>6. OnlyCreatedHang' /\ NeverTwice' /\ FiredAreGone' /\ HangWhereDue'
  BY <1>5, ListsKept DEF OnlyCreatedHang, NeverTwice, FiredAreGone, HangWhereDue, Created
<1>7. \A tid, i \in Nat : Ahead(tid, i) => Ahead(tid, i)'
  BY <1>1 DEF Ahead
<1>8. NoneBehind' /\ ArmedHang'
  BY <1>1, <1>7, ListsKept DEF NoneBehind, ArmedHang, Regular, Edge, Armed, Created
<1> QED BY <1>2, <1>3, <1>4, <1>6, <1>8

LEMMA OpenTickKeeps ==
    ASSUME IInv, OpenTick
    PROVE  IInv'
<1> USE DEF IInv, OpenTick
<1>1. walk.tid \in Ticks
  <2>1. walk.tid \in Nat /\ walk.now \in Nat /\ TickOf(clock) \in Ticks /\ TickOf(clock) \in Nat
    BY Numbers
  <2>2. walk.tid <= TickOf(clock)
    BY <2>1 DEF WalkIsSound
  <2> QED BY <2>1, <2>2, TicksBelow
<1>2. /\ walk'.tid = walk.tid /\ walk'.now = walk.now /\ walk'.idx = 1
      /\ walk'.total = Len(TMap[walk.tid]) /\ walk'.total \in Nat
  BY <1>1, Numbers DEF TypeOK
<1>3. TypeOK'
  BY <1>2 DEF TypeOK
<1>4. Contexts' /\ DiesOfEarlyWakeup'
  BY DEF Contexts, Created, DiesOfEarlyWakeup
<1>5. WalkIsSound' /\ EdgeIsNear'
  BY <1>1, <1>2, Numbers DEF WalkIsSound, EdgeIsNear, Edge, Regular
<1>6. \A u \in Timers : \A tid, i \in Nat :
        Hangs(u, tid, i) => ~Passed(tid, i) /\ ~Passed(tid, i)'
  BY <1>2, Numbers DEF Passed, Hangs
<1>7. OnlyCreatedHang' /\ NeverTwice' /\ FiredAreGone' /\ HangWhereDue'
  BY <1>6, ListsKept DEF OnlyCreatedHang, NeverTwice, FiredAreGone, HangWhereDue, Created
<1>8. \A u \in Timers : \A tid, i \in Nat : Hangs(u, tid, i) /\ Ahead(tid, i) => Ahead(tid, i)'
  BY <1>2 DEF Ahead, Hangs
<1>9. NoneBehind' /\ ArmedHang'
  BY <1>2, <1>8, ListsKept DEF NoneBehind, ArmedHang, Regular, Edge, Armed, Created
<1> QED BY <1>3, <1>4, <1>5, <1>7, <1>9

\* TCo goes on to the next entry of the list.
LEMMA NextEntry ==
    ASSUME IInv, AtTimer, walk' = [walk EXCEPT !.idx = @ + 1], tco' = tco
    PROVE  /\ walk' \in [tid : Nat, now : Nat, idx : Nat, total : Nat]
           /\ walk'.tid = walk.tid /\ walk'.now = walk.now /\ walk'.total = walk.total
           /\ walk'.idx = walk.idx + 1 /\ walk'.idx \in 1..(walk'.total + 1)
           /\ \A tid, i \in Nat :
                Passed(tid, i)' <=> Passed(tid, i) \/ (tid = walk.tid /\ i = walk.idx)
           /\ \A tid, i \in Nat :
                Ahead(tid, i)' <=> Ahead(tid, i) /\ ~(tid = walk.tid /\ i = walk.idx)
<1>1. /\ walk.tid \in Nat /\ walk.idx \in Nat /\ walk.total \in Nat
      /\ walk \in [tid : Nat, now : Nat, idx : Nat, total : Nat]
      /\ walk.idx \in 1..walk.total /\ tco = "walks"
  BY Numbers DEF IInv, TypeOK, AtTimer
<1>2. /\ walk' \in [tid : Nat, now : Nat, idx : Nat, total : Nat]
      /\ walk'.tid = walk.tid /\ walk'.now = walk.now /\ walk'.total = walk.total
      /\ walk'.idx = walk.idx + 1
  BY <1>1
<1>3. \A tid, i \in Nat :
        Passed(tid, i)' <=> Passed(tid, i) \/ (tid = walk.tid /\ i = walk.idx)
  BY <1>1, <1>2 DEF Passed
<1>4. \A tid, i \in Nat :
        Ahead(tid, i)' <=> Ahead(tid, i) /\ ~(tid = walk.tid /\ i = walk.idx)
  BY <1>1, <1>2 DEF Ahead
<1> QED BY <1>1, <1>2, <1>3, <1>4

LEMMA SkipStoppedKeeps ==
    ASSUME IInv, SkipStopped
    PROVE  IInv'
<1> USE DEF IInv, SkipStopped
<1>1. TypeOK'
  BY NextEntry DEF TypeOK
<1>2. Contexts' /\ DiesOfEarlyWakeup'
  BY DEF Contexts, Created, DiesOfEarlyWakeup
<1>3. WalkIsSound' /\ EdgeIsNear'
  BY HereHangs, NextEntry, Numbers DEF WalkIsSound, EdgeIsNear, Edge, Regular
<1>4. OnlyCreatedHang' /\ NeverTwice' /\ FiredAreGone' /\ HangWhereDue'
  BY NextEntry, ListsKept DEF OnlyCreatedHang, NeverTwice, FiredAreGone, HangWhereDue, Created
<1>5. NoneBehind'
  BY NextEntry, ListsKept DEF NoneBehind, Regular, Edge
<1>6. ArmedHang'
  <2> SUFFICES ASSUME NEW u \in Timers, Regular', ctx[u].time >= Sub, Armed(u)
               PROVE  \E tid, i \in Nat : (Hangs(u, tid, i) /\ Ahead(tid, i))'
    BY DEF ArmedHang, Armed, Created
  <2>1. PICK tid \in Nat, i \in Nat : Hangs(u, tid, i) /\ Ahead(tid, i)
    BY DEF ArmedHang, Regular
  <2>2. u # Here
    BY DEF Armed
  <2>3. ~(tid = walk.tid /\ i = walk.idx)
    BY <2>1, <2>2 DEF Hangs, Here
  <2>4. Hangs(u, tid, i)' /\ Ahead(tid, i)'
    BY <2>1, <2>3, NextEntry, ListsKept
  <2> QED BY <2>4
<1> QED BY <1>1, <1>2, <1>3, <1>4, <1>5, <1>6

\* A timer with a callback fires; a repeating one is hung in again.
LEMMA FireSpawnKeeps ==
    ASSUME IInv, FireSpawn
    PROVE  IInv'
<1> USE DEF IInv, FireSpawn
<1>1. PICK h \in Timers : h = Here
  BY HereHangs
<1>2. /\ tco = "walks" /\ walk.tid \in Ticks /\ walk.tid <= walk.now /\ walk.idx \in 1..walk.total
      /\ walk.total <= Len(TMap[walk.tid])
      /\ Hangs(h, walk.tid, walk.idx) /\ ~Passed(walk.tid, walk.idx) /\ Created(h)
  BY <1>1, HereHangs
<1>3. /\ clock \in Nat /\ clock <= Horizon /\ Horizon \in Nat /\ Sub \in Nat
      /\ ctx[h].time \in Nat /\ ctx[h].time <= Horizon /\ clock + ctx[h].time \in Nat
      /\ walk.tid \in Nat /\ walk.idx \in Nat /\ walk.now \in Nat /\ walk.now <= TickOf(clock)
      /\ TickOf(clock) \in Nat
  BY <1>2, Numbers, SMTT(30) DEF Contexts, WalkIsSound
<1>4. PICK k : k = TickOf(clock + ctx[h].time)
  OBVIOUS
<1>5. /\ k \in Nat /\ k \in Ticks
      /\ Sub <= ctx[h].time => TickOf(clock) + 1 <= k
  BY <1>3, <1>4, TickFacts, TickInRange, TickLater
<1>6. /\ rounds'[h] = rounds[h] + 1 /\ rounds[h] \in Nat
      /\ \A u \in Timers : u # h => rounds'[u] = rounds[u]
  BY <1>1 DEF TypeOK
<1>7. PICK hung \in BOOLEAN : hung = ctx[h].again
  BY <1>1 DEF TypeOK
\* What hangs after the step.
<1>8. /\ TMap' \in [Ticks -> Seq(Timers)]
      /\ \A u \in Timers : \A tid, i \in Nat :
            Hangs(u, tid, i)' <=>
                \/ Hangs(u, tid, i)
                \/ hung /\ u = h /\ tid = k /\ i = Len(TMap[k]) + 1
      /\ \A tid \in Ticks : Len(TMap[tid]) \in Nat /\ Len(TMap'[tid]) \in Nat
                             /\ Len(TMap[tid]) <= Len(TMap'[tid])
  <2>1. CASE hung
    <3>1. TMap' = [TMap EXCEPT ![k] = Append(@, h)]
      BY <1>1, <1>4, <1>7, <2>1 DEF Rearm, set_ctx, get_tid
    <3> QED BY <1>5, <2>1, <3>1, ListAppended DEF TypeOK
  <2>2. CASE ~hung
    <3>1. TMap' = TMap
      BY <1>1, <1>7, <2>2
    <3> QED BY <2>2, <3>1, ListsKept, Numbers DEF TypeOK
  <2> QED BY <2>1, <2>2
<1>9. /\ due'[h] = (IF hung THEN clock + ctx[h].time ELSE due[h])
      /\ \A u \in Timers : u # h => due'[u] = due[u]
      /\ due' \in [Timers -> Nat]
  BY <1>1, <1>3, <1>7, ZenonT(40) DEF Rearm, TypeOK
<1>10. \A tid, i \in Nat :
         /\ Passed(tid, i)' <=> Passed(tid, i) \/ (tid = walk.tid /\ i = walk.idx)
         /\ Ahead(tid, i)' <=> Ahead(tid, i) /\ ~(tid = walk.tid /\ i = walk.idx)
  BY NextEntry
\* All that hung of the timer is passed now.
<1>11. \A tid, i \in Nat : Hangs(h, tid, i) => Passed(tid, i)'
  BY <1>2, <1>3, <1>10 DEF NeverTwice
<1>12. \A u \in Timers : Created(u)' <=> Created(u)
  BY DEF Created
<1>13. TypeOK'
  <2>1. rounds' \in [Timers -> Nat]
    BY <1>1, <1>6 DEF TypeOK
  <2>2. walk' \in [tid : Nat, now : Nat, idx : Nat, total : Nat]
    BY NextEntry
  <2> QED BY <1>8, <1>9, <2>1, <2>2 DEF TypeOK
<1>14. Contexts' /\ DiesOfEarlyWakeup'
  BY <1>2, <1>6, <1>12 DEF Contexts, DiesOfEarlyWakeup
<1>15. WalkIsSound' /\ EdgeIsNear'
  <2>1. /\ walk'.tid = walk.tid /\ walk'.now = walk.now /\ walk'.total = walk.total
        /\ walk'.idx \in 1..(walk'.total + 1)
    BY NextEntry
  <2>2. walk'.total <= Len(TMap'[walk'.tid])
    BY <1>2, <1>8, <2>1, Numbers, SMTT(30)
  <2> QED BY <1>2, <1>3, <2>1, <2>2 DEF WalkIsSound, EdgeIsNear, Edge, Regular
<1>16. OnlyCreatedHang'
  BY <1>2, <1>8, <1>12 DEF OnlyCreatedHang
<1>17. NeverTwice'
  BY <1>8, <1>10, <1>11 DEF NeverTwice
<1>18. FiredAreGone'
  BY <1>6, <1>7, <1>8, <1>10, <1>11 DEF FiredAreGone
<1>19. HangWhereDue'
  BY <1>4, <1>8, <1>9, <1>10, <1>11 DEF HangWhereDue
<1>20. NoneBehind'
  BY <1>2, <1>3, <1>5, <1>8, NextEntry, SMTT(30) DEF NoneBehind, Regular, Edge
<1>21. ArmedHang'
  <2> SUFFICES ASSUME NEW u \in Timers, Regular', ctx[u].time >= Sub, Armed(u)'
               PROVE  \E tid, i \in Nat : (Hangs(u, tid, i) /\ Ahead(tid, i))'
    BY DEF ArmedHang
  <2>1. CASE u = h
    <3>1. hung
      BY <1>6, <1>7, <2>1 DEF Armed
    <3>2. PICK n \in Nat : n = Len(TMap[k]) + 1
      BY <1>5, <1>8
    <3>3. Hangs(h, k, n)'
      BY <1>5, <1>8, <3>1, <3>2
    <3>4. Ahead(k, n)'
      <4>1. k > walk.tid
        BY <1>2, <1>3, <1>5, <2>1
      <4> QED BY <1>2, <4>1, NextEntry DEF Ahead
    <3> QED BY <1>5, <2>1, <3>3, <3>4
  <2>2. CASE u # h
    <3>1. Armed(u) /\ Regular
      BY <1>6, <1>12, <2>2 DEF Armed, Regular
    <3>2. PICK tid \in Nat, i \in Nat : Hangs(u, tid, i) /\ Ahead(tid, i)
      BY <3>1 DEF ArmedHang
    <3>3. ~(tid = walk.tid /\ i = walk.idx)
      BY <1>2, <2>2, <3>2 DEF Hangs
    <3>4. Hangs(u, tid, i)' /\ Ahead(tid, i)'
      BY <1>8, <1>10, <3>2, <3>3
    <3> QED BY <3>4
  <2> QED BY <2>1, <2>2
<1> QED BY <1>13, <1>14, <1>15, <1>16, <1>17, <1>18, <1>19, <1>20, <1>21

\* A sleep ends.
LEMMA FireWakeupKeeps ==
    ASSUME IInv, FireWakeup
    PROVE  IInv'
<1> USE DEF IInv, FireWakeup
<1>1. PICK h \in Timers : h = Here
  BY HereHangs
<1>2. /\ tco = "walks" /\ Hangs(h, walk.tid, walk.idx) /\ ~Passed(walk.tid, walk.idx)
      /\ Created(h) /\ walk.tid \in Nat /\ walk.idx \in Nat
  BY <1>1, HereHangs, Numbers
<1>3. /\ rounds'[h] = rounds[h] + 1 /\ rounds[h] \in Nat
      /\ \A u \in Timers : u # h => rounds'[u] = rounds[u] /\ sleeper'[u] = sleeper[u]
  BY <1>1 DEF TypeOK
<1>4. \A tid, i \in Nat :
         /\ Passed(tid, i)' <=> Passed(tid, i) \/ (tid = walk.tid /\ i = walk.idx)
         /\ Ahead(tid, i)' <=> Ahead(tid, i) /\ ~(tid = walk.tid /\ i = walk.idx)
  BY NextEntry
<1>5. \A tid, i \in Nat : Hangs(h, tid, i) => Passed(tid, i)'
  BY <1>2, <1>4 DEF NeverTwice
<1>6. TypeOK'
  <2>1. rounds' \in [Timers -> Nat] /\ sleeper' \in [Timers -> {"none", "asleep", "woken"}]
    BY <1>1, <1>3 DEF TypeOK
  <2>2. walk' \in [tid : Nat, now : Nat, idx : Nat, total : Nat]
    BY NextEntry
  <2> QED BY <2>1, <2>2 DEF TypeOK
<1>7. Contexts' /\ DiesOfEarlyWakeup'
  BY <1>2, <1>3 DEF Contexts, Created, DiesOfEarlyWakeup
<1>8. WalkIsSound' /\ EdgeIsNear'
  BY HereHangs, NextEntry, Numbers DEF WalkIsSound, EdgeIsNear, Edge, Regular
<1>9. OnlyCreatedHang' /\ NeverTwice' /\ HangWhereDue'
  BY <1>4, ListsKept DEF OnlyCreatedHang, NeverTwice, HangWhereDue, Created
<1>10. FiredAreGone'
  BY <1>3, <1>4, <1>5, ListsKept DEF FiredAreGone
<1>11. NoneBehind'
  BY NextEntry, ListsKept DEF NoneBehind, Regular, Edge
<1>12. ArmedHang'
  <2> SUFFICES ASSUME NEW u \in Timers, Regular', ctx[u].time >= Sub, Armed(u)'
               PROVE  \E tid, i \in Nat : (Hangs(u, tid, i) /\ Ahead(tid, i))'
    BY DEF ArmedHang
  <2>1. u # h
    BY <1>1, <1>3 DEF Armed, Contexts
  <2>2. Armed(u) /\ Regular
    BY <1>3, <2>1 DEF Armed, Regular, Created
  <2>3. PICK tid \in Nat, i \in Nat : Hangs(u, tid, i) /\ Ahead(tid, i)
    BY <2>2 DEF ArmedHang
  <2>4. ~(tid = walk.tid /\ i = walk.idx)
    BY <1>2, <2>1, <2>3 DEF Hangs
  <2>5. Hangs(u, tid, i)' /\ Ahead(tid, i)'
    BY <1>4, <2>3, <2>4, ListsKept
  <2> QED BY <2>5
<1> QED BY <1>6, <1>7, <1>8, <1>9, <1>10, <1>11, <1>12

\* TCo dies of a coroutine that somebody else has woken.
LEMMA FireErrorKeeps ==
    ASSUME IInv, FireError
    PROVE  IInv'
<1> USE DEF IInv, FireError
<1>1. PICK h \in Timers : h = Here
  BY HereHangs
<1>2. /\ Hangs(h, walk.tid, walk.idx) /\ ~Passed(walk.tid, walk.idx)
      /\ walk.tid \in Nat /\ walk.idx \in Nat /\ tco = "walks"
  BY <1>1, HereHangs, Numbers
<1>3. rounds[h] = 0
  BY <1>1, <1>2 DEF FiredAreGone, Contexts, TypeOK
<1>4. DiesOfEarlyWakeup'
  BY <1>1, <1>3 DEF DiesOfEarlyWakeup
<1>5. TypeOK'
  BY DEF TypeOK
<1>6. Contexts' /\ WalkIsSound'
  BY <1>2 DEF Contexts, Created, WalkIsSound
<1>7. \A tid, i \in Nat : Passed(tid, i)' <=> Passed(tid, i)
  BY <1>2 DEF Passed
<1>8. OnlyCreatedHang' /\ NeverTwice' /\ FiredAreGone' /\ HangWhereDue'
  BY <1>7, ListsKept DEF OnlyCreatedHang, NeverTwice, FiredAreGone, HangWhereDue, Created
<1>9. EdgeIsNear' /\ NoneBehind' /\ ArmedHang'
  BY DEF EdgeIsNear, NoneBehind, ArmedHang, Regular
<1> QED BY <1>4, <1>5, <1>6, <1>8, <1>9

\* The list is dropped, with nothing in it that was not passed.
LEMMA CloseTickKeeps ==
    ASSUME IInv, CloseTick
    PROVE  IInv'
<1> USE DEF IInv, CloseTick
<1>1. /\ walk.tid \in Nat /\ walk.now \in Nat /\ walk.idx \in Nat /\ walk.total \in Nat
      /\ walk.tid \in Ticks /\ walk.idx = walk.total + 1 /\ walk.tid <= walk.now
  BY Numbers DEF WalkIsSound
<1>2. /\ walk'.tid = walk.tid + 1 /\ walk'.now = walk.now /\ walk'.idx = 0 /\ walk'.total = 0
      /\ walk' \in [tid : Nat, now : Nat, idx : Nat, total : Nat]
  <2>1. walk \in [tid : Nat, now : Nat, idx : Nat, total : Nat]
    BY DEF TypeOK
  <2>2. walk' = [tid |-> walk.tid + 1, now |-> walk.now, idx |-> 0, total |-> 0]
    BY <2>1
  <2> QED BY <1>1, <2>2
<1>3. /\ TMap' \in [Ticks -> Seq(Timers)]
      /\ \A u \in Timers : \A tid, i \in Nat :
            Hangs(u, tid, i)' <=> Hangs(u, tid, i) /\ tid # walk.tid
  BY <1>1, ListDropped DEF TypeOK
<1>4. \A u \in Timers : \A tid, i \in Nat :
        Hangs(u, tid, i)' => Hangs(u, tid, i) /\ ~Passed(tid, i) /\ ~Passed(tid, i)'
  BY <1>2, <1>3 DEF Passed
<1>5. TypeOK'
  BY <1>2, <1>3 DEF TypeOK
<1>6. Contexts' /\ DiesOfEarlyWakeup'
  BY DEF Contexts, Created, DiesOfEarlyWakeup
<1>7. WalkIsSound' /\ EdgeIsNear'
  BY <1>1, <1>2 DEF WalkIsSound, EdgeIsNear, Edge, Regular
<1>8. OnlyCreatedHang' /\ NeverTwice' /\ FiredAreGone' /\ HangWhereDue'
  BY <1>4 DEF OnlyCreatedHang, NeverTwice, FiredAreGone, HangWhereDue, Created
<1>9. NoneBehind'
  BY <1>1, <1>2, <1>3 DEF NoneBehind, Regular, Edge
<1>10. ArmedHang'
  <2> SUFFICES ASSUME NEW u \in Timers, Regular', ctx[u].time >= Sub, Armed(u)
               PROVE  \E tid, i \in Nat : (Hangs(u, tid, i) /\ Ahead(tid, i))'
    BY DEF ArmedHang, Armed, Created
  <2>1. PICK tid \in Nat, i \in Nat : Hangs(u, tid, i) /\ Ahead(tid, i)
    BY DEF ArmedHang, Regular
  <2>2. tid > walk.tid
    BY <1>1, <2>1 DEF Ahead
  <2>3. Hangs(u, tid, i)' /\ Ahead(tid, i)'
    BY <1>1, <1>2, <1>3, <2>1, <2>2 DEF Ahead
  <2> QED BY <2>3
<1> QED BY <1>3, <1>5, <1>6, <1>7, <1>8, <1>9, <1>10

LEMMA EndWalkKeeps ==
    ASSUME IInv, EndWalk
    PROVE  IInv'
<1> USE DEF IInv, EndWalk
<1>1. /\ walk.tid \in Nat /\ walk.now \in Nat /\ walk.idx = 0 /\ walk.tid > walk.now
      /\ clock \in Nat /\ TickOf(clock) \in Nat /\ walk.now <= TickOf(clock)
  BY Numbers DEF WalkIsSound
<1>2. TypeOK'
  BY <1>1 DEF TypeOK
<1>3. Contexts' /\ DiesOfEarlyWakeup' /\ WalkIsSound'
  BY DEF Contexts, Created, DiesOfEarlyWakeup, WalkIsSound
<1>4. Regular => TNow' = walk.tid
  BY <1>1 DEF EdgeIsNear, Edge, Regular
<1>5. EdgeIsNear'
  BY <1>1 DEF EdgeIsNear, Edge, Regular
<1>6. \A tid, i \in Nat : ~Passed(tid, i) /\ ~Passed(tid, i)'
  BY <1>1 DEF Passed
<1>7. OnlyCreatedHang' /\ NeverTwice' /\ FiredAreGone' /\ HangWhereDue'
  BY <1>6, ListsKept DEF OnlyCreatedHang, NeverTwice, FiredAreGone, HangWhereDue, Created
<1>8. \A tid, i \in Nat : Regular /\ Ahead(tid, i) => Ahead(tid, i)'
  BY <1>1, <1>4 DEF Ahead
<1>9. NoneBehind' /\ ArmedHang'
  BY <1>4, <1>8, ListsKept DEF NoneBehind, ArmedHang, Regular, Edge, Armed, Created
<1> QED BY <1>2, <1>3, <1>5, <1>7, <1>9

-----------------------------------------------------------------------------
(* The invariant, and what follows from it *)

LEMMA InitIInv == Init => IInv
<1> SUFFICES ASSUME Init PROVE IInv
  OBVIOUS
<1> USE DEF Init
<1>0. TickOf(0) = 0
  BY SubAssumption, Z3 DEF TickOf
<1>1. TickOf(0) = 0 /\ get_tid(0) = 0
  BY <1>0 DEF get_tid
<1>2. <<>> \in Seq(Timers) /\ Len(<<>>) = 0
  BY EmptySeq
<1>3. TypeOK
  BY <1>1, <1>2, BoundsAssumption DEF TypeOK, NoCtx
<1>4. \A t \in Timers : ~Created(t)
  BY DEF Created
<1>5. \A t \in Timers : \A tid, i \in Nat : ~Hangs(t, tid, i)
  BY <1>2 DEF Hangs
<1>6. Contexts /\ WalkIsSound /\ DiesOfEarlyWakeup
  BY <1>4 DEF Contexts, WalkIsSound, DiesOfEarlyWakeup, NoCtx
<1>7. OnlyCreatedHang /\ NeverTwice /\ FiredAreGone /\ HangWhereDue /\ NoneBehind
  BY <1>5 DEF OnlyCreatedHang, NeverTwice, FiredAreGone, HangWhereDue, NoneBehind
<1>8. EdgeIsNear /\ ArmedHang
  BY <1>1, <1>4 DEF EdgeIsNear, Edge, ArmedHang, Armed
<1> QED BY <1>3, <1>6, <1>7, <1>8 DEF IInv

LEMMA StutterIInv ==
    ASSUME IInv, UNCHANGED vars
    PROVE  IInv'
<1> USE DEF IInv
<1>0. /\ clock' = clock /\ clockSteps' = clockSteps /\ TMap' = TMap /\ TNow' = TNow /\ ctx' = ctx
      /\ due' = due /\ rounds' = rounds /\ sleeper' = sleeper /\ tco' = tco /\ walk' = walk
  BY DEF vars
<1>1. TypeOK' /\ Contexts' /\ WalkIsSound' /\ DiesOfEarlyWakeup'
  BY <1>0 DEF TypeOK, Contexts, Created, WalkIsSound, DiesOfEarlyWakeup
<1>2. OnlyCreatedHang' /\ NeverTwice' /\ FiredAreGone' /\ HangWhereDue'
  <2>1. \A u \in Timers : \A tid, i \in Nat : Hangs(u, tid, i)' <=> Hangs(u, tid, i)
    BY <1>0, ListsKept
  <2>2. \A tid, i \in Nat : Passed(tid, i)' <=> Passed(tid, i)
    BY <1>0 DEF Passed
  <2>3. OnlyCreatedHang' /\ NeverTwice'
    BY <1>0, <2>1, <2>2 DEF OnlyCreatedHang, NeverTwice, Created
  <2>4. FiredAreGone' /\ HangWhereDue'
    BY <1>0, <2>1, <2>2 DEF FiredAreGone, HangWhereDue
  <2> QED BY <2>3, <2>4
<1>3. EdgeIsNear' /\ NoneBehind' /\ ArmedHang'
  BY <1>0, ListsKept DEF EdgeIsNear, NoneBehind, ArmedHang, Regular, Edge, Armed, Created, Ahead
<1> QED BY <1>1, <1>2, <1>3

LEMMA NextIInv == IInv /\ [Next]_vars => IInv'
<1> SUFFICES ASSUME IInv, [Next]_vars PROVE IInv'
  OBVIOUS
<1>1. CASE Advance
  BY <1>1, AdvanceKeeps
<1>2. CASE ClockSetBack
  BY <1>2, ClockSetBackKeeps
<1>3. ASSUME NEW t \in Timers, NEW d \in Timeouts, Timeout(t, d) \/ At(t, d) \/ Sleep(t, d)
      PROVE  IInv'
  <2>1. CASE Timeout(t, d)
    BY <2>1, NewTimerKeeps DEF Timeout
  <2>2. CASE At(t, d)
    BY <2>2, NewTimerKeeps DEF At
  <2>3. CASE Sleep(t, d)
    BY <2>3, NewTimerKeeps DEF Sleep
  <2> QED BY <1>3, <2>1, <2>2, <2>3
<1>4. ASSUME NEW t \in Timers, Stop(t) \/ WakeSleeper(t)
      PROVE  IInv'
  BY <1>4, StopKeeps, WakeSleeperKeeps
<1>5. CASE Walk
  BY <1>5, StartWalkKeeps, OpenTickKeeps, SkipStoppedKeeps, FireSpawnKeeps, FireWakeupKeeps,
     FireErrorKeeps, CloseTickKeeps, EndWalkKeeps DEF Walk
<1>6. CASE UNCHANGED vars
  BY <1>6, StutterIInv
<1> QED BY <1>1, <1>2, <1>3, <1>4, <1>5, <1>6 DEF Next

LEMMA Invariance == SafeSpec => []IInv
<1>1. Init => IInv
  BY InitIInv
<1>2. IInv /\ [Next]_vars => IInv'
  BY NextIInv
<1> QED BY <1>1, <1>2, PTL DEF SafeSpec

\* Every variable of the wheel keeps its type: TCo's locals point into the lists
\* there are (Timer.lua:64-82).
THEOREM WheelTypeCorrect == SafeSpec => []TypeOK
<1>1. IInv => TypeOK
  BY DEF IInv
<1> QED BY <1>1, Invariance, PTL

\* Only a coroutine woken out of its sleep kills TCo (Timer.lua:73), whatever the
\* clock does.
THEOREM OnlyWakeupsKill == SafeSpec => []DiesOfEarlyWakeup
<1>1. IInv => DiesOfEarlyWakeup
  BY DEF IInv
<1> QED BY <1>1, Invariance, PTL

LEMMA PlacesAre ==
    ASSUME TypeOK, NEW t \in Timers
    PROVE  \A p : p \in Places(t) <=>
                \E tid, i \in Nat : p = <<tid, i>> /\ Hangs(t, tid, i) /\ Ahead(tid, i)
<1>1. Ticks \subseteq Nat /\ \A tid \in Ticks : Len(TMap[tid]) \in Nat
  BY Numbers
<1>2. \A tid \in Ticks : 1..Len(TMap[tid]) \subseteq Nat
  BY <1>1
<1> QED BY <1>1, <1>2 DEF Places, Hangs

\* What is ahead of TCo is not passed.
LEMMA AheadIsNotPassed ==
    ASSUME TypeOK, WalkIsSound, tco # "dead", NEW tid \in Nat, NEW i \in Nat, i > 0, Ahead(tid, i)
    PROVE  ~Passed(tid, i)
BY Numbers DEF Ahead, Passed, TypeOK

\* Every timer that can be served hangs in exactly one place that TCo has yet to
\* visit, and a one-shot timer that has fired in none (Timer.lua:64-89).
THEOREM TimersHangOnce == SafeSpec => []HangsOnce
<1>1. ASSUME IInv, NEW t \in Timers, Served(t), Armed(t)
      PROVE  Cardinality(Places(t)) = 1
  <2>1. PICK tid \in Nat, i \in Nat : Hangs(t, tid, i) /\ Ahead(tid, i)
    BY <1>1 DEF IInv, ArmedHang, Regular, Served
  <2>2. ASSUME NEW p, p \in Places(t)
        PROVE  p = <<tid, i>>
    <3>1. PICK q \in Nat, j \in Nat : p = <<q, j>> /\ Hangs(t, q, j) /\ Ahead(q, j)
      BY <1>1, <2>2, PlacesAre DEF IInv
    <3>2. i > 0 /\ j > 0 /\ tco # "dead"
      BY <1>1, <2>1, <3>1 DEF Served, Hangs
    <3>3. ~Passed(tid, i) /\ ~Passed(q, j)
      BY <1>1, <2>1, <3>1, <3>2, AheadIsNotPassed DEF IInv
    <3> QED BY <1>1, <2>1, <3>1, <3>3 DEF IInv, NeverTwice
  <2>3. Places(t) = {<<tid, i>>}
    BY <1>1, <2>1, <2>2, PlacesAre DEF IInv
  <2> QED BY <2>3, FS_Singleton
<1>2. ASSUME IInv, NEW t \in Timers, Served(t), rounds[t] > 0, ~ctx[t].again
      PROVE  Places(t) = {}
  <2>1. ASSUME NEW p, p \in Places(t)
        PROVE  FALSE
    <3>1. PICK q \in Nat, j \in Nat : Hangs(t, q, j) /\ Ahead(q, j)
      BY <1>2, <2>1, PlacesAre DEF IInv
    <3>2. ~Passed(q, j)
      BY <1>2, <3>1, AheadIsNotPassed DEF IInv, Served, Hangs
    <3> QED BY <1>2, <3>1, <3>2 DEF IInv, FiredAreGone
  <2> QED BY <2>1
<1>3. IInv => HangsOnce
  BY <1>1, <1>2 DEF HangsOnce
<1> QED BY <1>3, Invariance, PTL

\* A tick that TCo has walked keeps no list but of timers of less than a tick
\* (Timer.lua:82).
THEOREM WalkedListsAreDropped == SafeSpec => []WalkedTicksAreEmpty
<1>1. ASSUME IInv, tco = "waits", clockSteps = 0, NEW tid \in Ticks, tid < TNow,
             NEW i \in 1..Len(TMap[tid])
      PROVE  ctx[TMap[tid][i]].time < Sub
  <2>1. TMap[tid] \in Seq(Timers) /\ Ticks \subseteq Nat /\ Len(TMap[tid]) \in Nat /\ TNow \in Nat
    BY <1>1, Numbers DEF IInv
  <2>2. PICK t \in Timers : t = TMap[tid][i]
    BY <2>1, ElementOfSeq
  <2>3. Hangs(t, tid, i) /\ tid \in Nat /\ i \in Nat
    BY <2>1, <2>2 DEF Hangs
  <2>4. ~(ctx[t].time >= Sub)
    BY <1>1, <2>1, <2>3 DEF IInv, NoneBehind, Regular, Edge
  <2>5. ctx[t].time \in Nat /\ Sub \in Nat
    <3>1. ctx[t].time \in Timeouts \union {0}
      BY <1>1 DEF IInv, TypeOK
    <3>2. \A x \in Timeouts \union {0} : x \in Nat
      BY TimeoutsAssumption
    <3>3. ctx[t].time \in Nat
      BY <3>1, <3>2
    <3> QED BY <3>3, SubAssumption
  <2> QED BY <2>2, <2>4, <2>5
<1>2. IInv => WalkedTicksAreEmpty
  BY <1>1 DEF WalkedTicksAreEmpty
<1> QED BY <1>2, Invariance, PTL

\* The lists of the wheel hold what is still to be served, once, and nothing else
\* (Timer.lua:64-89).
THEOREM WheelHoldsWhatIsDue == SafeSpec => []WheelIsSound
BY TimersHangOnce, WalkedListsAreDropped, PTL DEF WheelIsSound

\* A timer fires less than one tick before its interval is over (Timer.lua:30-35,
\* 64-78), however long TCo walks and whatever the clock did before.
THEOREM NeverEarly == SafeSpec => NotEarly
<1>1. ASSUME IInv, AtTimer, rounds' = [rounds EXCEPT ![Here] = @ + 1], NEW t \in Timers,
             rounds'[t] > rounds[t]
      PROVE  clock + Sub > due[t]
  <2>1. t = Here
    BY <1>1 DEF IInv, TypeOK
  <2>2. Hangs(t, walk.tid, walk.idx) /\ ~Passed(walk.tid, walk.idx) /\ walk.tid <= walk.now
    BY <1>1, <2>1, HereHangs
  <2>3. /\ walk.tid \in Nat /\ walk.idx \in Nat /\ walk.now \in Nat
        /\ clock \in Nat /\ TickOf(clock) \in Nat /\ Sub \in Nat \ {0} /\ due[t] \in Nat
    BY <1>1, Numbers DEF IInv, TypeOK
  <2>4. TickOf(due[t]) = walk.tid /\ walk.now <= TickOf(clock)
    BY <1>1, <2>2, <2>3 DEF IInv, HangWhereDue, WalkIsSound, AtTimer
  <2>5. TickOf(due[t]) <= TickOf(clock)
    BY <2>2, <2>3, <2>4
  <2>6. ASSUME clock + Sub <= due[t] PROVE FALSE
    <3>1. TickOf(clock) + 1 <= TickOf(due[t])
      BY <2>3, <2>6, TickLater
    <3> QED BY <2>2, <2>3, <2>4, <3>1
  <2> QED BY <2>3, <2>6
<1>2. ASSUME IInv, Next, NEW t \in Timers, rounds'[t] > rounds[t]
      PROVE  clock + Sub > due[t]
  <2>1. rounds[t] \in Nat
    BY <1>2 DEF IInv, TypeOK
  <2>2. rounds' # rounds
    BY <1>2, <2>1
  <2>3. AtTimer /\ rounds' = [rounds EXCEPT ![Here] = @ + 1]
    BY <1>2, <2>2 DEF Next, Walk, Advance, ClockSetBack, Timeout, At, Sleep, Timer_Init, Stop,
       WakeSleeper, StartWalk, OpenTick, SkipStopped, FireSpawn, FireWakeup, FireError,
       CloseTick, EndWalk
  <2> QED BY <1>1, <1>2, <2>3
<1>3. IInv /\ [Next]_vars => [\A t \in Timers : rounds'[t] > rounds[t] => clock + Sub > due[t]]_vars
  BY <1>2
<1> QED BY <1>3, Invariance, PTL DEF SafeSpec, NotEarly

\* A timer that was stopped does not fire (Timer.lua:71).
THEOREM StoppedStays == SafeSpec => StopSticks
<1>1. ASSUME Next, TypeOK, NEW t \in Timers, ~ctx[t].run
      PROVE  rounds'[t] = rounds[t]
  <2>1. CASE rounds' = rounds
    BY <2>1
  <2>2. CASE rounds' # rounds
    <3>1. ctx[Here].run /\ rounds' = [rounds EXCEPT ![Here] = @ + 1]
      BY <1>1, <2>2 DEF Next, Walk, Advance, ClockSetBack, Timeout, At, Sleep, Timer_Init, Stop,
         WakeSleeper, StartWalk, OpenTick, SkipStopped, FireSpawn, FireWakeup, FireError,
         CloseTick, EndWalk
    <3>2. t # Here
      BY <1>1, <3>1
    <3> QED BY <1>1, <3>1, <3>2 DEF TypeOK
  <2> QED BY <2>1, <2>2
<1>2. TypeOK /\ [Next]_vars => [\A t \in Timers : ~ctx[t].run => rounds'[t] = rounds[t]]_vars
  BY <1>1
<1> QED BY <1>2, WheelTypeCorrect, PTL DEF SafeSpec, StopSticks
=============================================================================
