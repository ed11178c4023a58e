------------------------------ MODULE FifoSched ------------------------------
(***************************************************************************)
(* What the coroutine scheduler (internal.Co) promises to the rest of the  *)
(* framework: ONE first-in first-out queue of woken coroutines.  A         *)
(* coroutine is in the queue at most once, it receives exactly the values  *)
(* its wake-up passed, at most one coroutine runs at a time, and a         *)
(* coroutine that has ended is never queued again.                         *)
(* CoSched, with its two alternating lists and its idle watcher, is shown  *)
(* to implement this specification.                                        *)
(***************************************************************************)
EXTENDS Naturals, Sequences

CONSTANTS
    Coroutines,     \* every coroutine the program may create
    Payloads,       \* what a wake-up may pass to the coroutine
    Nil             \* "nothing": no payload, no running coroutine

VARIABLES
    queue,          \* woken coroutines, oldest first
    payload,        \* what the pending wake-up of a coroutine carries
    current,        \* the coroutine that runs, or Nil
    gone            \* coroutines that have ended

vars == <<queue, payload, current, gone>>

InQueue(c) == \E i \in 1..Len(queue) : queue[i] = c

Init ==
    /\ queue = <<>>
    /\ payload = [c \in Coroutines |-> Nil]
    /\ current = Nil
    /\ gone = {}

\* A coroutine is spawned or woken with payload p.
Submit(c, p) ==
    /\ ~InQueue(c)
    /\ c # current
    /\ c \notin gone
    /\ queue' = Append(queue, c)
    /\ payload' = [payload EXCEPT ![c] = p]
    /\ UNCHANGED <<current, gone>>

\* The oldest wake-up is served.
Dispatch ==
    /\ current = Nil
    /\ queue # <<>>
    /\ current' = Head(queue)
    /\ queue' = Tail(queue)
    /\ UNCHANGED <<payload, gone>>

\* The running coroutine waits; its payload has been consumed.
Suspend ==
    /\ current # Nil
    /\ payload' = [payload EXCEPT ![current] = Nil]
    /\ current' = Nil
    /\ UNCHANGED <<queue, gone>>

\* The running coroutine ends.
Retire ==
    /\ current # Nil
    /\ gone' = gone \union {current}
    /\ payload' = [payload EXCEPT ![current] = Nil]
    /\ current' = Nil
    /\ UNCHANGED queue

\* The program's main script ends before the event loop runs.
Withdraw(c) ==
    /\ ~InQueue(c)
    /\ c # current
    /\ gone' = gone \union {c}
    /\ UNCHANGED <<queue, payload, current>>

Next ==
    \/ \E c \in Coroutines, p \in Payloads \union {Nil} : Submit(c, p)
    \/ Dispatch
    \/ Suspend
    \/ Retire
    \/ \E c \in Coroutines : Withdraw(c)

SafeSpec == Init /\ [][Next]_vars
=============================================================================
