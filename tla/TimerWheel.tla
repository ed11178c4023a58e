----------------------------- MODULE TimerWheel -----------------------------
(***************************************************************************)
(* internal.Timer (src/lualib/internal/Timer.lua): every timer of a        *)
(* process hangs in TMap, a table of lists indexed by tick (10 ms of wall  *)
(* clock).  One libev timer resumes TCo, which walks the ticks from TNow   *)
(* to the current one: it calls or spawns what it finds and drops the list.*)
(*                                                                         *)
(* Time is counted in units of which Sub make a tick, so that timeouts     *)
(* shorter than a tick and clock readings inside one can be told apart.    *)
(* The clock moves while TCo walks; nothing else does, since user code     *)
(* runs in the same thread.                                                *)
(***************************************************************************)
EXTENDS Integers, Sequences, FiniteSets

CONSTANTS
    Timers,         \* timer objects the program may create
    Timeouts,       \* timeouts it asks for, in units
    Sub,            \* units per tick
    Horizon,        \* bound: the clock stops here
    MaxClockSteps,  \* bound: how often the wall clock is set back
    EarlyWakeups    \* may cf.wakeup be called on a sleeping coroutine?

ASSUME SubAssumption == Sub \in Nat \ {0}
ASSUME TimeoutsAssumption == Timeouts \subseteq Nat \ {0}
ASSUME BoundsAssumption == Horizon \in Nat /\ MaxClockSteps \in Nat
ASSUME EarlyWakeupsAssumption == EarlyWakeups \in BOOLEAN

VARIABLES
    clock,          \* sys.time()
    clockSteps,     \* how often it has been set back
    TMap,           \* tick -> list of timers
    TNow,           \* the first tick TCo has not walked
    ctx,            \* timer -> its context
    due,            \* timer -> when its running interval ends
    rounds,         \* timer -> how often it has fired
    sleeper,        \* timer -> the coroutine that sleeps on it
    tco,            \* TCo: "waits", "walks" or "dead"
    walk            \* TCo's locals: tid, now, and idx, total of the inner loop

vars == <<clock, clockSteps, TMap, TNow, ctx, due, rounds, sleeper, tco, walk>>

Ticks == 0..((2 * Horizon) \div Sub + 1)

NoCtx == [run |-> FALSE, time |-> 0, again |-> FALSE, async |-> FALSE]

Created(t) == ctx[t] # NoCtx

-----------------------------------------------------------------------------
TickOf(at) == at \div Sub

\* ts * 0.1 // 1
get_tid(offset) == TickOf(clock + offset)

Init ==
    /\ clock = 0
    /\ clockSteps = 0
    /\ TMap = [tid \in Ticks |-> <<>>]
    /\ TNow = get_tid(0)
    /\ ctx = [t \in Timers |-> NoCtx]
    /\ due = [t \in Timers |-> 0]
    /\ rounds = [t \in Timers |-> 0]
    /\ sleeper = [t \in Timers |-> "none"]
    /\ tco = "waits"
    /\ walk = [tid |-> 0, now |-> 0, idx |-> 0, total |-> 0]

\* User code (and the wall clock's owner) runs when TCo does not.
UserTurn == tco # "walks"

Advance ==
    /\ clock < Horizon
    /\ clock' = clock + 1
    /\ UNCHANGED <<clockSteps, TMap, TNow, ctx, due, rounds, sleeper, tco, walk>>

\* now() reads CLOCK_REALTIME, which may be set back.
ClockSetBack ==
    /\ UserTurn
    /\ clockSteps < MaxClockSteps
    /\ clock >= Sub
    /\ clock' = clock - Sub
    /\ clockSteps' = clockSteps + 1
    /\ UNCHANGED <<TMap, TNow, ctx, due, rounds, sleeper, tco, walk>>

\* set_ctx with a context appends it to the list of its tick.
set_ctx(tid, t) == TMap' = [TMap EXCEPT ![tid] = Append(@, t)]

\* A new object, hung into the list of the tick it ends in.
Timer_Init(t, d, again, async) ==
    /\ UserTurn
    /\ ~Created(t)
    /\ clock + d <= Horizon
    /\ ctx' = [ctx EXCEPT ![t] =
                  [run |-> TRUE, time |-> d, again |-> again, async |-> async]]
    /\ due' = [due EXCEPT ![t] = clock + d]
    /\ set_ctx(get_tid(d), t)
    /\ UNCHANGED <<clock, clockSteps, TNow, rounds, tco, walk>>

\* Timer.timeout
Timeout(t, d) == Timer_Init(t, d, FALSE, FALSE) /\ UNCHANGED sleeper

\* Timer.at
At(t, d) == Timer_Init(t, d, TRUE, FALSE) /\ UNCHANGED sleeper

\* Timer.sleep: the coroutine waits for the timer to wake it.
Sleep(t, d) ==
    /\ Timer_Init(t, d, FALSE, TRUE)
    /\ sleeper' = [sleeper EXCEPT ![t] = "asleep"]

\* Slip: a time of -1 marks a stopped timer too.
Stop_Marks(t) ==
    /\ UserTurn
    /\ Created(t) /\ ~ctx[t].async
    /\ ctx[t].run
    /\ ctx' = [ctx EXCEPT ![t].run = FALSE, ![t].time = -1]
    /\ UNCHANGED <<clock, clockSteps, TMap, TNow, due, rounds, sleeper, tco, walk>>

\* TIMER:stop
Stop(t) ==
    /\ UserTurn
    /\ Created(t) /\ ~ctx[t].async
    /\ ctx[t].run
    /\ ctx' = [ctx EXCEPT ![t].run = FALSE]
    /\ UNCHANGED <<clock, clockSteps, TMap, TNow, due, rounds, sleeper, tco, walk>>

\* cf.wakeup on a coroutine that sleeps: nothing tells it from one that waits.
\* The woken coroutine may run on and end at any time.
WakeSleeper(t) ==
    /\ EarlyWakeups
    /\ UserTurn
    /\ sleeper[t] = "asleep"
    /\ sleeper' = [sleeper EXCEPT ![t] = "woken"]
    /\ UNCHANGED <<clock, clockSteps, TMap, TNow, ctx, due, rounds, tco, walk>>

-----------------------------------------------------------------------------
\* TIMEOUT_CB resumes TCo.
StartWalk ==
    /\ tco = "waits"
    /\ tco' = "walks"
    /\ walk' = [tid |-> TNow, now |-> get_tid(0), idx |-> 0, total |-> 0]
    /\ UNCHANGED <<clock, clockSteps, TMap, TNow, ctx, due, rounds, sleeper>>

\* Enter the list of the next tick; its length is read once.
OpenTick ==
    /\ tco = "walks"
    /\ walk.tid <= walk.now
    /\ walk.idx = 0
    /\ walk' = [walk EXCEPT !.idx = 1, !.total = Len(TMap[walk.tid])]
    /\ UNCHANGED <<clock, clockSteps, TMap, TNow, ctx, due, rounds, sleeper, tco>>

\* The timer TCo looks at.
Here == TMap[walk.tid][walk.idx]

AtTimer ==
    /\ tco = "walks"
    /\ walk.idx \in 1..walk.total

\* A stopped timer is passed over.
SkipStopped ==
    /\ AtTimer
    /\ ~ctx[Here].run
    /\ walk' = [walk EXCEPT !.idx = @ + 1]
    /\ UNCHANGED <<clock, clockSteps, TMap, TNow, ctx, due, rounds, sleeper, tco>>

\* Slip: the next round is counted from the tick the timer fired in.
Rearm_FromTick(t) ==
    /\ due' = [due EXCEPT ![t] = clock + ctx[t].time]
    /\ set_ctx(walk.tid + TickOf(ctx[t].time), t)

\* A repeating timer is hung in again, one interval from now.
Rearm(t) ==
    /\ due' = [due EXCEPT ![t] = clock + ctx[t].time]
    /\ set_ctx(get_tid(ctx[t].time), t)

\* Slip: a stopped timer is not told from a running one.
FireSpawn_Stopped ==
    /\ AtTimer
    /\ ~ctx[Here].async
    /\ rounds' = [rounds EXCEPT ![Here] = @ + 1]
    /\ IF ctx[Here].again THEN Rearm(Here) ELSE UNCHANGED <<TMap, due>>
    /\ walk' = [walk EXCEPT !.idx = @ + 1]
    /\ UNCHANGED <<clock, clockSteps, TNow, ctx, sleeper, tco>>

\* A timer with a callback fires: the callback is spawned.
FireSpawn ==
    /\ AtTimer
    /\ ctx[Here].run /\ ~ctx[Here].async
    /\ rounds' = [rounds EXCEPT ![Here] = @ + 1]
    /\ IF ctx[Here].again THEN Rearm(Here) ELSE UNCHANGED <<TMap, due>>
    /\ walk' = [walk EXCEPT !.idx = @ + 1]
    /\ UNCHANGED <<clock, clockSteps, TNow, ctx, sleeper, tco>>

\* A sleep ends: co_wakeup is called by TCo itself.
FireWakeup ==
    /\ AtTimer
    /\ ctx[Here].run /\ ctx[Here].async
    /\ sleeper[Here] = "asleep"
    /\ sleeper' = [sleeper EXCEPT ![Here] = "woken"]
    /\ rounds' = [rounds EXCEPT ![Here] = @ + 1]
    /\ walk' = [walk EXCEPT !.idx = @ + 1]
    /\ UNCHANGED <<clock, clockSteps, TMap, TNow, ctx, due, tco>>

\* A sleep ends whose coroutine is already woken or has ended: co_wakeup
\* raises an error, TCo dies of it and TIMEOUT_CB stops the libev timer.
FireError ==
    /\ AtTimer
    /\ ctx[Here].run /\ ctx[Here].async
    /\ sleeper[Here] = "woken"
    /\ tco' = "dead"
    /\ UNCHANGED <<clock, clockSteps, TMap, TNow, ctx, due, rounds, sleeper, walk>>

\* Slip: the list of the tick is kept.
CloseTick_Kept ==
    /\ tco = "walks"
    /\ walk.idx > walk.total
    /\ walk' = [walk EXCEPT !.tid = @ + 1, !.idx = 0, !.total = 0]
    /\ UNCHANGED <<clock, clockSteps, TMap, TNow, ctx, due, rounds, sleeper, tco>>

\* The list of the tick is dropped.
CloseTick ==
    /\ tco = "walks"
    /\ walk.idx > walk.total
    /\ TMap' = [TMap EXCEPT ![walk.tid] = <<>>]
    /\ walk' = [walk EXCEPT !.tid = @ + 1, !.idx = 0, !.total = 0]
    /\ UNCHANGED <<clock, clockSteps, TNow, ctx, due, rounds, sleeper, tco>>

\* Slip: the ticks that began during the walk are skipped.
EndWalk_Rereads ==
    /\ tco = "walks"
    /\ walk.tid > walk.now
    /\ TNow' = get_tid(0) + 1
    /\ tco' = "waits"
    /\ UNCHANGED <<clock, clockSteps, TMap, ctx, due, rounds, sleeper, walk>>

\* TCo yields until the next tick.
EndWalk ==
    /\ tco = "walks"
    /\ walk.tid > walk.now
    /\ TNow' = walk.now + 1
    /\ tco' = "waits"
    /\ UNCHANGED <<clock, clockSteps, TMap, ctx, due, rounds, sleeper, walk>>

Walk ==
    \/ StartWalk
    \/ OpenTick
    \/ SkipStopped
    \/ FireSpawn
    \/ FireWakeup
    \/ FireError
    \/ CloseTick
    \/ EndWalk

Next ==
    \/ Advance
    \/ ClockSetBack
    \/ \E t \in Timers, d \in Timeouts : Timeout(t, d)
    \/ \E t \in Timers, d \in Timeouts : At(t, d)
    \/ \E t \in Timers, d \in Timeouts : Sleep(t, d)
    \/ \E t \in Timers : Stop(t)
    \/ \E t \in Timers : WakeSleeper(t)
    \/ Walk

SafeSpec == Init /\ [][Next]_vars

\* The clock goes on, the libev timer fires again and again, a walk ends.
Spec == SafeSpec /\ WF_vars(Advance) /\ WF_vars(Walk)

-----------------------------------------------------------------------------
(* Properties *)

TypeOK ==
    /\ clock \in 0..Horizon
    /\ clockSteps \in 0..MaxClockSteps
    /\ TMap \in [Ticks -> Seq(Timers)]
    /\ TNow \in Nat
    /\ ctx \in [Timers -> [run : BOOLEAN, time : Timeouts \union {0},
                           again : BOOLEAN, async : BOOLEAN]]
    /\ due \in [Timers -> Nat]
    /\ rounds \in [Timers -> Nat]
    /\ sleeper \in [Timers -> {"none", "asleep", "woken"}]
    /\ tco \in {"waits", "walks", "dead"}
    /\ walk \in [tid : Nat, now : Nat, idx : Nat, total : Nat]

\* A timer that has yet to fire.
Armed(t) == Created(t) /\ ctx[t].run /\ (ctx[t].again \/ rounds[t] = 0)

\* The places of TMap TCo still has to visit.
Ahead(tid, i) ==
    IF tco = "walks"
    THEN \/ tid > walk.tid
         \/ tid = walk.tid /\ (walk.idx = 0 \/ i \in walk.idx..walk.total)
    ELSE tid >= TNow

Places(t) ==
    UNION {{<<tid, i>> : i \in {j \in 1..Len(TMap[tid]) : TMap[tid][j] = t /\ Ahead(tid, j)}} :
              tid \in Ticks}

\* The conditions under which the code can serve a timer: the interval is at
\* least a tick, the clock was not set back, TCo lives.
Served(t) == ctx[t].time >= Sub /\ clockSteps = 0 /\ tco # "dead"

\* An armed timer that can be served hangs in exactly one place that TCo will
\* visit, and a one-shot timer that has fired in none, although timers are hung
\* in while TCo walks and the clock moves on meanwhile.
HangsOnce ==
    \A t \in Timers : Served(t) =>
        /\ Armed(t) => Cardinality(Places(t)) = 1
        /\ rounds[t] > 0 /\ ~ctx[t].again => Places(t) = {}

\* A tick that has been walked keeps no list, unless timers of less than a tick
\* were hung into it afterwards: TMap does not grow with time.
WalkedTicksAreEmpty ==
    tco = "waits" /\ clockSteps = 0 =>
        \A tid \in Ticks : tid < TNow =>
            \A i \in 1..Len(TMap[tid]) : ctx[TMap[tid][i]].time < Sub

\* The lists hold exactly what is still to be served: every armed timer once ahead of the
\* walk, and nothing behind it.
WheelIsSound == HangsOnce /\ WalkedTicksAreEmpty

\* A timer fires less than one tick before its interval is over, at the
\* earliest.
NotEarly ==
    [][\A t \in Timers : rounds'[t] > rounds[t] => clock + Sub > due[t]]_vars

\* Once stopped, a timer does not fire again (a callback it has spawned before
\* still runs).
StopSticks ==
    [][\A t \in Timers : ~ctx[t].run => rounds'[t] = rounds[t]]_vars

\* Only a coroutine woken out of its sleep by somebody else can kill TCo, not
\* the timers themselves, however the wall clock behaves.
DiesOfEarlyWakeup ==
    tco = "dead" => \E t \in Timers : rounds[t] = 0 /\ sleeper[t] = "woken"

Overdue(t) == Armed(t) /\ clock >= due[t]

\* Every timer that can be served fires once its interval is over, unless it is
\* stopped first.  A repeating timer then starts its next interval.
TimersFire == \A t \in Timers : Overdue(t) /\ Served(t) ~> ~Overdue(t) \/ ~Served(t)

\* What cf.timeout and cf.at say of their timers, "when the time is up this
\* function is called", as long as TCo lives and the clock is not set back.
CallbacksFire ==
    \A t \in Timers :
        Overdue(t) /\ ~ctx[t].async ~> ~Overdue(t) \/ tco = "dead" \/ clockSteps > 0
=============================================================================
