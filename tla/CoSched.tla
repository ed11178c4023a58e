------------------------------- MODULE CoSched -------------------------------
(***************************************************************************)
(* internal.Co (src/lualib/internal/Co.lua) with the idle watcher that     *)
(* drives it (src/luaclib/src/ltask.c): the cooperative scheduler under    *)
(* every other part of the framework.                                      *)
(*                                                                         *)
(* Wake-ups are appended to co_wlist while main_co runs the batch co_rlist;*)
(* when the batch is over the lists are swapped.  With nothing to swap in, *)
(* main_co parks itself (main_waited) and its watcher is stopped; the next *)
(* spawn or wake-up starts the watcher again.                              *)
(*                                                                         *)
(* Everything runs in one thread.  `pc' says who has it:                   *)
(*   "boot"  the main script, before the event loop is entered             *)
(*   "loop"  the libev loop, and the callbacks of its watchers             *)
(*   "main"  main_co, between two coroutines                               *)
(*   "co"    the coroutine `running', resumed by main_co                   *)
(***************************************************************************)
EXTENDS Integers, Sequences, FiniteSets

CONSTANTS
    Coroutines,     \* every coroutine the program may create
    Main,           \* the main script's own coroutine
    Payloads,       \* values a wake-up may pass
    Nil             \* no payload, no running coroutine

ASSUME MainAssumption == Main \in Coroutines
ASSUME NilAssumption  == Nil \notin Coroutines /\ Nil \notin Payloads
ASSUME FiniteAssumption == IsFiniteSet(Coroutines)

VARIABLES
    status,         \* coroutine.status, "none" before creation
    co_map,         \* coroutines that have a context
    args,           \* ctx[2]: what the pending wake-up passes
    wakeup,         \* ctx[3]: a wake-up is pending or being served
    co_wlist,       \* wake-ups for the next batch
    co_rlist,       \* the part of the current batch not yet resumed
    main_waited,    \* main_co is parked
    task_started,   \* the idle watcher is active
    co_num,         \* what Co.count returns
    running,        \* the coroutine that has the thread, or Nil
    pc              \* who has the thread

vars == <<status, co_map, args, wakeup, co_wlist, co_rlist,
          main_waited, task_started, co_num, running, pc>>

ctxVars   == <<co_map, args, wakeup>>
listVars  == <<co_wlist, co_rlist>>
parkVars  == <<main_waited, task_started>>

Args == Payloads \union {Nil}

Listed(c, list) == \E i \in 1..Len(list) : list[i] = c

-----------------------------------------------------------------------------
\* The module is loaded by the main script, which runs inside lua_resume.
Init ==
    /\ status = [c \in Coroutines |-> IF c = Main THEN "running" ELSE "none"]
    /\ co_map = {Main}
    /\ args = [c \in Coroutines |-> Nil]
    /\ wakeup = [c \in Coroutines |-> FALSE]
    /\ co_wlist = <<>>
    /\ co_rlist = <<>>
    /\ main_waited = TRUE
    /\ task_started = FALSE
    /\ co_num = 0
    /\ running = Main
    /\ pc = "boot"

\* Somebody other than main_co executes Lua code: the main script, the
\* resumed coroutine, or a watcher's callback (which has no context).
UserCode == pc \in {"boot", "loop", "co"}

\* Slip: the mark that main_co is parked is cleared, the watcher not started.
co_check_init_Slip == main_waited' = FALSE /\ UNCHANGED task_started

\* Start the watcher when main_co is parked.
co_check_init ==
    /\ main_waited' = FALSE
    /\ task_started' = (task_started \/ main_waited)

\* Slip: the newest wake-up jumps the queue.
co_add_queue_Slip(c, a) ==
    /\ co_map' = co_map \union {c}
    /\ args' = [args EXCEPT ![c] = a]
    /\ wakeup' = [wakeup EXCEPT ![c] = TRUE]
    /\ co_wlist' = <<c>> \o co_wlist

\* Note the context and append it to the waiting list.
co_add_queue(c, a) ==
    /\ co_map' = co_map \union {c}
    /\ args' = [args EXCEPT ![c] = a]
    /\ wakeup' = [wakeup EXCEPT ![c] = TRUE]
    /\ co_wlist' = Append(co_wlist, c)

\* Co.new: a coroutine without a context, it can never be woken.
New(c) ==
    /\ UserCode
    /\ status[c] = "none"
    /\ status' = [status EXCEPT ![c] = "suspended"]
    /\ UNCHANGED <<ctxVars, listVars, parkVars, co_num, running, pc>>

\* Co.spawn
Spawn(c, a) ==
    /\ UserCode
    /\ status[c] = "none"
    /\ status' = [status EXCEPT ![c] = "suspended"]
    /\ co_num' = co_num + 1
    /\ co_check_init
    /\ co_add_queue(c, a)
    /\ UNCHANGED <<co_rlist, running, pc>>

\* A slip in the checks of Co.wakeup: a pending wake-up is not noticed.
MayWake_Twice(c) ==
    c # running /\ status[c] = "suspended" /\ c \in co_map

\* The conditions under which Co.wakeup raises no error.
MayWake(c) ==
    /\ c # running
    /\ status[c] = "suspended"
    /\ c \in co_map
    /\ ~wakeup[c]

\* Co.wakeup; a call that raises an error changes nothing.
Wakeup(c, a) ==
    /\ UserCode
    /\ MayWake(c)
    /\ co_check_init
    /\ co_add_queue(c, a)
    /\ UNCHANGED <<status, co_rlist, co_num, running, pc>>

-----------------------------------------------------------------------------
\* TASK_CB resumes main_co, which takes the waiting list as its batch.
TaskCb ==
    /\ pc = "loop"
    /\ task_started
    /\ co_rlist' = co_wlist
    /\ co_wlist' = <<>>
    /\ pc' = "main"
    /\ UNCHANGED <<status, ctxVars, parkVars, co_num, running>>

\* main_co resumes the next coroutine of its batch.
Resume ==
    /\ pc = "main"
    /\ co_rlist # <<>>
    /\ running' = Head(co_rlist)
    /\ co_rlist' = Tail(co_rlist)
    /\ status' = [status EXCEPT ![Head(co_rlist)] = "running"]
    /\ pc' = "co"
    /\ UNCHANGED <<ctxVars, co_wlist, parkVars, co_num>>

\* Slips in the reset after a resume: the mark becomes nil, or stays.
ClearContext_Nil ==
    /\ args' = [args EXCEPT ![running] = Nil]
    /\ wakeup' = [wakeup EXCEPT ![running] = Nil]

ClearContext_KeepsMark ==
    /\ args' = [args EXCEPT ![running] = Nil]
    /\ UNCHANGED wakeup

\* obj[ARGS_INDEX], obj[WAKEUP_INDEX] = nil, false
ClearContext ==
    /\ args' = [args EXCEPT ![running] = Nil]
    /\ wakeup' = [wakeup EXCEPT ![running] = FALSE]

\* Co.wait in a coroutine resumed by main_co.
Wait ==
    /\ pc = "co"
    /\ running \in co_map
    /\ status' = [status EXCEPT ![running] = "suspended"]
    /\ ClearContext
    /\ running' = Nil
    /\ pc' = "main"
    /\ UNCHANGED <<co_map, listVars, parkVars, co_num>>

\* The resumed coroutine returns or raises an error.
Finish ==
    /\ pc = "co"
    /\ status' = [status EXCEPT ![running] = "dead"]
    /\ co_map' = co_map \ {running}
    /\ co_num' = co_num - 1
    /\ ClearContext
    /\ running' = Nil
    /\ pc' = "main"
    /\ UNCHANGED <<listVars, parkVars>>

\* The batch is over and new wake-ups have come in: run them next.
SwapLists ==
    /\ pc = "main"
    /\ co_rlist = <<>>
    /\ co_wlist # <<>>
    /\ co_rlist' = co_wlist
    /\ co_wlist' = <<>>
    /\ UNCHANGED <<status, ctxVars, parkVars, co_num, running, pc>>

\* Slip: main_co yields without saying that it is parked.
Park_Unmarked ==
    /\ pc = "main"
    /\ co_rlist = <<>>
    /\ co_wlist = <<>>
    /\ task_started' = FALSE
    /\ pc' = "loop"
    /\ UNCHANGED <<status, ctxVars, listVars, main_waited, co_num, running>>

\* The batch is over and nothing waits: main_co yields to TASK_CB, which
\* stops the watcher.
Park ==
    /\ pc = "main"
    /\ co_rlist = <<>>
    /\ co_wlist = <<>>
    /\ main_waited' = TRUE
    /\ task_started' = FALSE
    /\ pc' = "loop"
    /\ UNCHANGED <<status, ctxVars, listVars, co_num, running>>

\* The main script waits, which enters the event loop ...
BootWait ==
    /\ pc = "boot"
    /\ status' = [status EXCEPT ![Main] = "suspended"]
    /\ running' = Nil
    /\ pc' = "loop"
    /\ UNCHANGED <<ctxVars, listVars, parkVars, co_num>>

\* ... or it returns; its context stays in co_map.
BootFinish ==
    /\ pc = "boot"
    /\ status' = [status EXCEPT ![Main] = "dead"]
    /\ running' = Nil
    /\ pc' = "loop"
    /\ UNCHANGED <<ctxVars, listVars, parkVars, co_num>>

Next ==
    \/ \E c \in Coroutines : New(c)
    \/ \E c \in Coroutines, a \in Args : Spawn(c, a)
    \/ \E c \in Coroutines, a \in Args : Wakeup(c, a)
    \/ TaskCb
    \/ Resume
    \/ Wait
    \/ Finish
    \/ SwapLists
    \/ Park
    \/ BootWait
    \/ BootFinish

\* The loop serves its active watchers, main_co goes on as long as it has
\* work, and no coroutine keeps the thread for ever.
Fairness ==
    /\ WF_vars(TaskCb)
    /\ WF_vars(Resume)
    /\ WF_vars(SwapLists)
    /\ WF_vars(Park)
    /\ WF_vars(Wait \/ Finish)
    /\ WF_vars(BootWait \/ BootFinish)

SafeSpec == Init /\ [][Next]_vars

Spec == SafeSpec /\ Fairness

-----------------------------------------------------------------------------
(* Properties *)

TypeOK ==
    /\ status \in [Coroutines -> {"none", "suspended", "running", "dead"}]
    /\ co_map \subseteq Coroutines
    /\ args \in [Coroutines -> Args]
    /\ wakeup \in [Coroutines -> BOOLEAN]
    /\ co_wlist \in Seq(Coroutines)
    /\ co_rlist \in Seq(Coroutines)
    /\ main_waited \in BOOLEAN
    /\ task_started \in BOOLEAN
    /\ co_num \in Int
    /\ running \in Coroutines \union {Nil}
    /\ pc \in {"boot", "loop", "main", "co"}

\* Everything still to be run, oldest wake-up first.
Pending == co_rlist \o co_wlist

\* No wake-up is lost: whenever a coroutine is queued, main_co has the thread
\* or will get it, because its watcher is active.  The watcher is started by
\* co_check_init and stopped by TASK_CB, and only main_waited ties the two.
NoLostWakeup ==
    (Pending # <<>> /\ pc \in {"boot", "loop"}) => task_started

\* main_waited, which Lua keeps, and the state of the watcher, which libev
\* keeps, never disagree.
WatcherFollowsFlag == task_started = ~main_waited

\* The wakeup mark of a context is set exactly while the coroutine is queued
\* or is being served, and no coroutine is queued twice: a second wake-up
\* would otherwise be merged with, or overwrite, the first.
MarkMeansQueued ==
    \A c \in Coroutines :
        wakeup[c] <=> (Listed(c, Pending) \/ (pc = "co" /\ c = running))

NoRepeats(list) == \A i, j \in 1..Len(list) : list[i] = list[j] => i = j

QueuedOnce == NoRepeats(Pending) /\ (pc = "co" => ~Listed(running, Pending))

\* Whatever main_co is about to resume can be resumed: it is suspended and
\* still has its context.
QueuedIsResumable ==
    \A c \in Coroutines :
        Listed(c, Pending) => status[c] = "suspended" /\ c \in co_map

\* What is queued and what the contexts say of it agree (Co.lua:43-77, 139-159):
\* a mark that outlives its queue entry makes a coroutine deaf to wake-ups, a
\* second entry would resume it from a wait that nobody ended, an entry without
\* a context makes main_co resume what it must not.
QueueIsSound == MarkMeansQueued /\ QueuedOnce /\ QueuedIsResumable

\* Co.count: the spawned coroutines that have not ended, less one when the
\* main script, which was never counted, has ended under main_co.
CountOfSpawned ==
    co_num = Cardinality(co_map \ {Main}) - (IF Main \in co_map THEN 0 ELSE 1)

\* Where the thread is, and what holds there; with the invariants above it is
\* inductive.
Control ==
    /\ pc \in {"boot", "loop"} => co_rlist = <<>>
    /\ pc \in {"main", "co"} => ~main_waited
    /\ main_waited => Pending = <<>>
    /\ pc \in {"loop", "main"} => running = Nil
    /\ pc \in {"boot", "co"} =>
          running \in co_map /\ status[running] = "running"
    /\ pc = "boot" => running = Main
    /\ \A c \in Coroutines : status[c] = "running" => c = running
    /\ \A c \in Coroutines : status[c] = "none" => c \notin co_map
    /\ status[Main] # "none"

IInv ==
    /\ TypeOK
    /\ WatcherFollowsFlag
    /\ MarkMeansQueued
    /\ QueuedOnce
    /\ QueuedIsResumable
    /\ Control
    /\ CountOfSpawned

\* What a wake-up passes is what the coroutine receives: the arguments of a
\* pending wake-up stay as they are until the coroutine has been resumed.
ArgsSurvive ==
    [][\A c \in Coroutines :
          wakeup[c] /\ (pc # "co" \/ c # running) => args'[c] = args[c]]_vars

\* The two lists, the swap and the parking are invisible from outside: the
\* scheduler is a single FIFO queue.
Fifo == INSTANCE FifoSched WITH
            queue   <- Pending,
            payload <- args,
            current <- IF pc = "co" THEN running ELSE Nil,
            gone    <- {c \in Coroutines : status[c] = "dead"}

FifoSafe == Fifo!SafeSpec

\* Every coroutine that is spawned or woken gets the thread.
WokenRuns == \A c \in Coroutines : wakeup[c] ~> (pc = "co" /\ running = c)
=============================================================================
