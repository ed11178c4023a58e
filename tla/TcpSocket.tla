----------------------------- MODULE TcpSocket -----------------------------
(***************************************************************************)
(* internal.TCP (src/lualib/internal/TCP.lua) with the watchers of         *)
(* src/luaclib/src/ltcp.c: coroutines that connect, read, write and close  *)
(* sockets, on top of the scheduler and the timers.                        *)
(*                                                                         *)
(* A coroutine that must wait takes a watcher (a core_io object) out of    *)
(* POOL, arms it with a callback, sets a timer and yields.  The event's    *)
(* callback runs at once, in the event loop.  The timer's callback is      *)
(* spawned: it stands in the scheduler's queue like a woken coroutine, and *)
(* timer:stop() does not reach it there.  close() takes all of it down.    *)
(*                                                                         *)
(* The scheduler is the one of FifoSched: main_co empties its queue before *)
(* the loop gets the thread again.  `turn' says who has the thread: the    *)
(* "loop", "main" (main_co), or a coroutine.                               *)
(*                                                                         *)
(* Callers keep to one coroutine at a time that connects, shakes hands or  *)
(* reads on a socket, and use sendfile when no send is under way; a second *)
(* `send' and a close may come from any coroutine at any time.             *)
(***************************************************************************)
EXTENDS Integers, Sequences, FiniteSets, Functions

CONSTANTS
    Coroutines,     \* coroutines that use sockets
    Sockets,        \* TCP objects, numbered; each gets a descriptor once
    Watchers,       \* core_io objects, numbered
    Nil,
    MaxWaits        \* bound: how often coroutines wait or are called, in all

ASSUME MaxWaitsAssumption == MaxWaits \in Nat
ASSUME SocketsAssumption == Sockets \subseteq Nat /\ IsFiniteSet(Sockets)
ASSUME CoroutinesAssumption ==
    IsFiniteSet(Coroutines) /\ Coroutines \intersect {"loop", "main"} = {}
ASSUME WatchersAssumption ==
    /\ Watchers \subseteq Nat
    /\ Cardinality(Watchers) >= Cardinality(Coroutines)

Slots == {"read", "send", "connect"}
Roles == {"read", "send", "connect", "sendfile"}
Senders == {"send", "sendfile"}
IoKinds == {"connect", "handshake", "recv", "readline"} \union Senders
Descriptors == 1..Cardinality(Sockets)

\* What a coroutine waits for, what a watcher is started for, what a timer was
\* set for, and what stands in the scheduler's queue.
Waits == [kind : {"resolve"} \union IoKinds,
          sock : Sockets, fd : Descriptors \union {Nil}, timed : BOOLEAN]
Arms == [kind : IoKinds, sock : Sockets, co : Coroutines, k : Nat, fd : Descriptors]
Timers == [co : Coroutines, k : Nat, sock : Sockets, kind : IoKinds \ Senders]
Items == [what : {"co"}, co : Coroutines, k : Nat, ok : BOOLEAN] \union [what : {"timer"}, timer : Timers]

ASSUME NilAssumption ==
    Nil \notin Coroutines /\ Nil \notin Nat /\ Nil \notin Waits /\ Nil \notin Arms /\ Nil \notin Timers

VARIABLES
    used,           \* sockets that were connected or given a descriptor
    fd,             \* socket -> self.fd
    timeout,        \* socket -> is self._timeout set?
    io,             \* socket -> READ_IO, SEND_IO, CONNECT_IO
    current_co,     \* socket -> read_, send_, connect_, sendfile_current_co
    send_co,        \* socket -> is self.send_co set?
    timer,          \* socket -> self.timer
    POOL,           \* idle watchers, a stack
    armed,          \* watcher -> what it is started for, or Nil
    timers,         \* timers that hang in the timer wheel
    at,             \* coroutine -> the operation it waits in, or Nil
    n,              \* coroutine -> how often it waited or was called
    queue,          \* the scheduler's queue
    turn,           \* who has the thread
    partial,        \* open sockets with a part of a message on the wire
    torn            \* open sockets on which another write followed that part

sockVars == <<used, fd, timeout, io, current_co, send_co, timer>>
waitVars == <<POOL, armed, timers, at, n>>
wireVars == <<partial, torn>>
vars == <<sockVars, waitVars, queue, turn, wireVars>>

\* The slot that holds the watcher of an operation, and the *_current_co
\* that names its coroutine; readline sets none.
SlotOf(kind) ==
    CASE kind \in {"recv", "readline"}     -> "read"
      [] kind \in Senders                  -> "send"
      [] kind \in {"connect", "handshake"} -> "connect"

RoleOf(kind) ==
    CASE kind = "recv"                     -> "read"
      [] kind \in Senders                  -> kind
      [] kind \in {"connect", "handshake"} -> "connect"

OpenFds == {fd[s] : s \in Sockets} \ {Nil}
Elements(seq) == {seq[i] : i \in 1..Len(seq)}
Least(S) == CHOOSE x \in S : \A y \in S : x <= y

\* Who waits in an operation on s?
In(s, kinds) == {c \in Coroutines : at[c] # Nil /\ at[c].sock = s /\ at[c].kind \in kinds}
Busy(s) == In(s, {"resolve", "connect", "handshake", "recv", "readline"}) # {}

Init ==
    /\ used = {}
    /\ fd = [s \in Sockets |-> Nil]
    /\ timeout \in [Sockets -> BOOLEAN]
    /\ io = [s \in Sockets |-> [k \in Slots |-> Nil]]
    /\ current_co = [s \in Sockets |-> [r \in Roles |-> Nil]]
    /\ send_co = [s \in Sockets |-> FALSE]
    /\ timer = [s \in Sockets |-> Nil]
    /\ POOL = <<>>
    /\ armed = [w \in Watchers |-> Nil]
    /\ timers = {}
    /\ at = [c \in Coroutines |-> Nil]
    /\ n = [c \in Coroutines |-> 0]
    /\ queue = <<>>
    /\ turn = "loop"
    /\ partial = {}
    /\ torn = {}

-----------------------------------------------------------------------------
(* The scheduler, as far as sockets see it. *)

\* Is there room under the bound for m more waits and calls?  A coroutine in
\* dns.resolve has its next wait, for the connection, reserved.
Resolving == {c \in Coroutines : at[c] # Nil /\ at[c].kind = "resolve"}
Room(m) == FoldFunction(+, m + Cardinality(Resolving), n) <= MaxWaits

\* A wake-up of coroutine c in its k-th wait, with a first result ok.
Item(c, k, ok) == [what |-> "co", co |-> c, k |-> k, ok |-> ok]

\* A spawned callback of a timer.
Callback(t) == [what |-> "timer", timer |-> t]

Queued(c) == \E i \in 1..Len(queue) : queue[i].what = "co" /\ queue[i].co = c

\* Co.wakeup raises unless the coroutine is suspended and not yet woken.
MayWake(c) == turn # c /\ ~Queued(c)

\* Something that has nothing to do with sockets wakes an idle coroutine.
Call(c) ==
    /\ at[c] = Nil /\ MayWake(c)
    /\ Room(1)
    /\ n' = [n EXCEPT ![c] = @ + 1]
    /\ queue' = Append(queue, Item(c, n[c] + 1, TRUE))
    /\ UNCHANGED <<sockVars, POOL, armed, timers, at, turn, wireVars>>

\* The idle watcher of main_co: main_co runs, and drains its queue.
ToMain ==
    /\ turn = "loop" /\ queue # <<>>
    /\ turn' = "main"
    /\ UNCHANGED <<sockVars, waitVars, queue, wireVars>>

ToLoop ==
    /\ turn = "main" /\ queue = <<>>
    /\ turn' = "loop"
    /\ UNCHANGED <<sockVars, waitVars, queue, wireVars>>

\* The running coroutine yields for something else, or ends.
Leave(c) ==
    /\ turn = c
    /\ turn' = "main"
    /\ UNCHANGED <<sockVars, waitVars, queue, wireVars>>

-----------------------------------------------------------------------------
(* What all waits have in common. *)

\* tcp_pop: a watcher out of POOL, or a new one.
Unused == {w \in Watchers : /\ w \notin Elements(POOL) /\ armed[w] = Nil
                            /\ \A s \in Sockets, k \in Slots : io[s][k] # w}
tcp_pop == IF POOL # <<>> THEN POOL[Len(POOL)] ELSE Least(Unused)

\* Slip: the watcher is taken and left in the pool.
RestOfPool_Keeps == POOL
RestOfPool == IF POOL # <<>> THEN SubSeq(POOL, 1, Len(POOL) - 1) ELSE POOL

\* tcp_stop and tcp_push of the watchers in some slots of s, which are empty
\* afterwards.  With an empty slot both do nothing.
Release(s, slots) ==
    LET held(k) == IF k \in slots /\ io[s][k] # Nil THEN <<io[s][k]>> ELSE <<>>
    IN  /\ POOL' = POOL \o held("read") \o held("send") \o held("connect")
        /\ armed' = [w \in Watchers |-> IF \E k \in slots : io[s][k] = w THEN Nil ELSE armed[w]]
        /\ io' = [io EXCEPT ![s] = [k \in Slots |-> IF k \in slots THEN Nil ELSE @[k]]]

\* timer:stop() takes a timer out of the wheel, if it still hangs there.
StopTimer(s) ==
    /\ timers' = timers \ {timer[s]}
    /\ timer' = [timer EXCEPT ![s] = Nil]

\* Coroutine c waits in an operation on s: its watcher is armed for
\* descriptor d, and a timer is set if there is a time-out.
Wait(c, s, kind, d, timed) ==
    LET w == tcp_pop
        k == n[c] + 1
        t == [co |-> c, k |-> k, sock |-> s, kind |-> kind]
    IN  /\ n' = [n EXCEPT ![c] = k]
        /\ at' = [at EXCEPT ![c] = [kind |-> kind, sock |-> s, fd |-> d, timed |-> timed]]
        /\ POOL' = RestOfPool
        /\ armed' = [armed EXCEPT ![w] = [kind |-> kind, sock |-> s, co |-> c, k |-> k, fd |-> d]]
        /\ io' = [io EXCEPT ![s][SlotOf(kind)] = w]
        /\ current_co' = IF kind = "readline" THEN current_co
                         ELSE [current_co EXCEPT ![s][RoleOf(kind)] = c]
        /\ IF kind \in Senders
           THEN UNCHANGED <<timer, timers>>
           ELSE /\ timer' = [timer EXCEPT ![s] = IF timed THEN t ELSE Nil]
                /\ timers' = IF timed THEN timers \union {t} ELSE timers
        /\ turn' = "main"

-----------------------------------------------------------------------------
(* What a running coroutine may begin. *)

\* TCP:new: objects are taken in their order.
New(s) == s \notin used /\ s = Least(Sockets \ used)

\* Slip: the error of socket() is taken for a descriptor.
NewFd_Error == -1

\* The descriptor of a new socket: the kernel gives the lowest free one.
NewFd == Least(Descriptors \ OpenFds)

\* A coroutine takes over an accepted descriptor.
set_fd(c, s) ==
    /\ turn = c /\ New(s)
    /\ used' = used \union {s}
    /\ fd' = [fd EXCEPT ![s] = NewFd]
    /\ UNCHANGED <<timeout, io, current_co, send_co, timer, waitVars, queue, turn, wireVars>>

\* connect with an address, or a domain that dns.resolve knows: no wait there.
Connect(c, s) ==
    /\ turn = c /\ New(s) /\ Room(1)
    /\ used' = used \union {s}
    /\ fd' = [fd EXCEPT ![s] = NewFd]
    /\ Wait(c, s, "connect", NewFd, timeout[s])
    /\ UNCHANGED <<timeout, send_co, queue, wireVars>>

\* connect with a domain to ask for: dns.resolve waits.
ConnectDomain(c, s) ==
    /\ turn = c /\ New(s)
    /\ Room(2)
    /\ n' = [n EXCEPT ![c] = @ + 1]
    /\ used' = used \union {s}
    /\ at' = [at EXCEPT ![c] = [kind |-> "resolve", sock |-> s, fd |-> Nil, timed |-> FALSE]]
    /\ turn' = "main"
    /\ UNCHANGED <<fd, timeout, io, current_co, send_co, timer, POOL, armed, timers, queue, wireVars>>

\* recv and readline find nothing to read; the TLS handshake wants an event.
Begin(c, s, kind) ==
    /\ turn = c /\ fd[s] # Nil /\ ~Busy(s) /\ Room(1)
    /\ Wait(c, s, kind, fd[s], timeout[s])
    /\ UNCHANGED <<used, fd, timeout, send_co, queue, wireVars>>

\* send writes first.  Only when the message does not go out whole does it ask
\* whether another send is under way, and then it raises.
send(c, s, out) ==
    /\ turn = c /\ fd[s] # Nil /\ In(s, {"sendfile"}) = {}
    /\ torn' = IF out \in {"all", "part"} THEN torn \union (partial \intersect {s}) ELSE torn
    /\ IF out \in {"all", "fail"} \/ send_co[s]
       THEN UNCHANGED <<io, current_co, send_co, timer, waitVars, turn, partial>>
       ELSE /\ Room(1)
            /\ Wait(c, s, "send", fd[s], FALSE)
            /\ send_co' = [send_co EXCEPT ![s] = TRUE]
            /\ partial' = IF out = "part" THEN partial \union {s} ELSE partial
    /\ UNCHANGED <<used, fd, timeout, queue>>

\* sendfile with a file that opens.
sendfile(c, s) ==
    /\ turn = c /\ fd[s] # Nil /\ In(s, Senders) = {} /\ Room(1)
    /\ Wait(c, s, "sendfile", fd[s], FALSE)
    /\ UNCHANGED <<used, fd, timeout, send_co, queue, wireVars>>

\* The wake-up, without a result, of the coroutine that *_current_co names.
Wakes(s, role) ==
    LET c == current_co[s][role] IN IF c = Nil THEN <<>> ELSE <<Item(c, n[c], FALSE)>>

\* Slips: who sends, or connects, is forgotten.
QueueSleepers_NoSend(s) == queue \o Wakes(s, "connect") \o Wakes(s, "read") \o Wakes(s, "sendfile")
QueueSleepers_NoConnect(s) == queue \o Wakes(s, "send") \o Wakes(s, "read") \o Wakes(s, "sendfile")

\* The queue with those whom close wakes, in that order.
QueueSleepers(s) ==
    queue \o Wakes(s, "connect") \o Wakes(s, "send") \o Wakes(s, "read") \o Wakes(s, "sendfile")

\* close: the timer and the watchers go, whoever a *_current_co names is
\* woken, and the descriptor is closed.
close(c, s) ==
    /\ turn = c /\ s \in used
    /\ StopTimer(s)
    /\ Release(s, Slots)
    /\ send_co' = IF io[s]["send"] # Nil THEN [send_co EXCEPT ![s] = FALSE] ELSE send_co
    /\ queue' = QueueSleepers(s)
    /\ current_co' = [current_co EXCEPT ![s] = [r \in Roles |-> Nil]]
    /\ timeout' = [timeout EXCEPT ![s] = FALSE]
    /\ fd' = [fd EXCEPT ![s] = Nil]
    /\ partial' = partial \ {s} /\ torn' = torn \ {s}
    /\ UNCHANGED <<used, at, n, turn>>

-----------------------------------------------------------------------------
(* What the event loop calls. *)

Ready(w, kinds) ==
    /\ turn = "loop"
    /\ armed[w] # Nil
    /\ armed[w].kind \in kinds /\ armed[w].fd \in OpenFds

\* Slip: the coroutine that is woken stays the current one.
Cleared_Not(s, kind) == current_co

\* The *_current_co after an event; readline has set none.
Cleared(s, kind) == IF kind = "readline" THEN current_co
                    ELSE [current_co EXCEPT ![s][RoleOf(kind)] = Nil]

\* connected, readable, writable for the handshake, or the file is sent.
EventWakes(w) ==
    /\ Ready(w, {"connect", "handshake", "recv", "readline", "sendfile"})
    /\ LET a == armed[w]
       IN  /\ Release(a.sock, {SlotOf(a.kind)})
           /\ current_co' = Cleared(a.sock, a.kind)
           /\ IF a.kind = "sendfile" THEN UNCHANGED <<timer, timers>> ELSE StopTimer(a.sock)
           /\ queue' = Append(queue, Item(a.co, a.k, TRUE))
    /\ UNCHANGED <<used, fd, timeout, send_co, at, n, turn, wireVars>>

\* send_co writes on: some more of the message, ...
WritesSome(w) ==
    /\ Ready(w, {"send"})
    /\ partial' = partial \union {armed[w].sock}
    /\ UNCHANGED <<sockVars, waitVars, queue, turn, torn>>

\* ... or its end, or it fails.
WritesLast(w) ==
    /\ Ready(w, {"send"})
    /\ LET a == armed[w]
       IN  /\ Release(a.sock, {"send"})
           /\ send_co' = [send_co EXCEPT ![a.sock] = FALSE]
           /\ current_co' = Cleared(a.sock, "send")
           /\ queue' = Append(queue, Item(a.co, a.k, TRUE))
           /\ partial' = partial \ {a.sock}
    /\ UNCHANGED <<used, fd, timeout, timer, timers, at, n, turn, torn>>

\* The timer wheel spawns a timer's callback.
TimerFires(t) ==
    /\ turn = "loop" /\ t \in timers
    /\ timers' = timers \ {t}
    /\ queue' = Append(queue, Callback(t))
    /\ UNCHANGED <<sockVars, POOL, armed, at, n, turn, wireVars>>

\* The answer to a query of dns.resolve, or its failure.
Answer(c) ==
    /\ turn = "loop"
    /\ at[c] # Nil /\ at[c].kind = "resolve" /\ ~Queued(c)
    /\ \E ok \in BOOLEAN : queue' = Append(queue, Item(c, n[c], ok))
    /\ UNCHANGED <<sockVars, waitVars, turn, wireVars>>

-----------------------------------------------------------------------------
(* What main_co resumes. *)

Pop == turn = "main" /\ queue # <<>> /\ queue' = Tail(queue)
PopOf(c, kinds) ==
    /\ Pop
    /\ Head(queue).what = "co" /\ Head(queue).co = c
    /\ at[c] # Nil /\ at[c].kind \in kinds

\* The callback of a time-out.  Waking its coroutine raises if an event or a
\* close was first; the rest is done by then.
TimedOut ==
    /\ turn = "main" /\ queue # <<>> /\ Head(queue).what = "timer"
    /\ LET t == Head(queue).timer
           role == IF t.kind = "readline" THEN "read" ELSE RoleOf(t.kind)
       IN  /\ Release(t.sock, {SlotOf(t.kind)})
           /\ timer' = [timer EXCEPT ![t.sock] = Nil]
           /\ current_co' = [current_co EXCEPT ![t.sock][role] = Nil]
           /\ queue' = IF MayWake(t.co)
                       THEN Append(Tail(queue), Item(t.co, t.k, FALSE))
                       ELSE Tail(queue)
    /\ UNCHANGED <<used, fd, timeout, send_co, timers, at, n, turn, wireVars>>

\* An idle coroutine runs.
Runs(c) ==
    /\ Pop /\ Head(queue).what = "co" /\ Head(queue).co = c
    /\ at[c] = Nil
    /\ turn' = c
    /\ UNCHANGED <<sockVars, waitVars, wireVars>>

\* An operation returns to its caller.
Returns(c) ==
    /\ PopOf(c, {"resolve", "connect", "handshake", "recv", "readline"} \union Senders)
    /\ at[c].kind = "resolve" => ~Head(queue).ok
    /\ at' = [at EXCEPT ![c] = Nil]
    /\ turn' = c
    /\ UNCHANGED <<sockVars, POOL, armed, timers, n, wireVars>>

\* connect goes on with the address, whatever became of the socket meanwhile.
Resolved(c) ==
    /\ PopOf(c, {"resolve"}) /\ Head(queue).ok
    /\ LET s == at[c].sock
       IN  /\ fd' = [fd EXCEPT ![s] = NewFd]
           /\ Wait(c, s, "connect", NewFd, timeout[s])
    /\ UNCHANGED <<used, timeout, send_co, wireVars>>

\* readline has no whole line yet.  It works on with the descriptor and the
\* time-out it began with.
ReadsOn(c) ==
    /\ PopOf(c, {"readline"}) /\ Head(queue).ok
    /\ at[c].fd \in OpenFds /\ Room(1)
    /\ Wait(c, at[c].sock, "readline", at[c].fd, at[c].timed)
    /\ UNCHANGED <<used, fd, timeout, send_co, wireVars>>

\* The handshake wants another event.  A close has taken self.ssl away.
ShakesOn(c) ==
    /\ PopOf(c, {"handshake"}) /\ Head(queue).ok
    /\ LET s == at[c].sock
       IN  fd[s] # Nil /\ Room(1) /\ Wait(c, s, "handshake", fd[s], timeout[s])
    /\ UNCHANGED <<used, fd, timeout, send_co, wireVars>>

-----------------------------------------------------------------------------
Scheduling == ToMain \/ ToLoop \/ (\E c \in Coroutines : Call(c) \/ Leave(c))

Beginning(c) ==
    \E s \in Sockets :
        \/ set_fd(c, s)
        \/ Connect(c, s)
        \/ ConnectDomain(c, s)
        \/ \E kind \in {"recv", "readline", "handshake"} : Begin(c, s, kind)
        \/ \E out \in {"all", "part", "none", "fail"} : send(c, s, out)
        \/ sendfile(c, s)
        \/ close(c, s)

Events ==
    \/ \E w \in Watchers : EventWakes(w) \/ WritesSome(w) \/ WritesLast(w)
    \/ \E t \in timers : TimerFires(t)
    \/ \E c \in Coroutines : Answer(c)

Resuming(c) == Runs(c) \/ Returns(c) \/ Resolved(c) \/ ReadsOn(c) \/ ShakesOn(c)

Next ==
    \/ Scheduling
    \/ \E c \in Coroutines : Beginning(c)
    \/ Events
    \/ TimedOut
    \/ \E c \in Coroutines : Resuming(c)

Fairness ==
    /\ WF_vars(ToMain) /\ WF_vars(ToLoop) /\ WF_vars(TimedOut)
    /\ WF_vars(\E t \in timers : TimerFires(t))
    /\ \A c \in Coroutines : WF_vars(Leave(c)) /\ WF_vars(Resuming(c))

Spec == Init /\ [][Next]_vars /\ Fairness

-----------------------------------------------------------------------------
(* Properties. *)

\* Every variable has its type: sockets hold descriptors, watchers and
\* coroutines, and nothing else is ever found there.
TypeOK ==
    /\ used \subseteq Sockets /\ torn \subseteq Sockets /\ partial \subseteq Sockets
    /\ fd \in [Sockets -> Descriptors \union {Nil}]
    /\ timeout \in [Sockets -> BOOLEAN] /\ send_co \in [Sockets -> BOOLEAN]
    /\ io \in [Sockets -> [Slots -> Watchers \union {Nil}]]
    /\ current_co \in [Sockets -> [Roles -> Coroutines \union {Nil}]]
    /\ timer \in [Sockets -> Timers \union {Nil}]
    /\ POOL \in Seq(Watchers)
    /\ armed \in [Watchers -> Arms \union {Nil}]
    /\ timers \subseteq Timers
    /\ at \in [Coroutines -> Waits \union {Nil}]
    /\ n \in [Coroutines -> Nat]
    /\ queue \in Seq(Items)
    /\ turn \in Coroutines \union {"loop", "main"}

\* A watcher in POOL is in it once, is stopped, and belongs to no socket; a
\* watcher that a socket holds is started.  Otherwise two waits would share a
\* watcher, and the event of one would end the other.
PoolIsFree ==
    /\ \A i, j \in 1..Len(POOL) : POOL[i] = POOL[j] => i = j
    /\ \A w \in Elements(POOL) :
          armed[w] = Nil /\ \A s \in Sockets, k \in Slots : io[s][k] # w
    /\ \A s \in Sockets, k \in Slots :
          io[s][k] # Nil => armed[io[s][k]] # Nil /\ armed[io[s][k]].sock = s

\* Coroutine c is in a readline on a socket that was closed: close() stops its
\* watcher and its timer, but readline has left it no coroutine to wake.
Abandoned(c) ==
    at[c] # Nil /\ at[c].kind = "readline" /\ fd[at[c].sock] # at[c].fd

\* A started watcher is the one its socket holds, so that close() will stop it,
\* and watches the socket's own descriptor, never one that was closed and may
\* belong to another socket by now.  The exception is a readline that was woken
\* just before the close and goes on with the old descriptor.
WatchesOwnFd ==
    \A w \in Watchers : armed[w] # Nil =>
        /\ io[armed[w].sock][SlotOf(armed[w].kind)] = w
        /\ fd[armed[w].sock] = armed[w].fd \/ Abandoned(armed[w].co)

\* No two waits share a watcher, and close reaches the watcher of every wait, on every path
\* on which watchers are taken, started, stopped and put back.
WatchersAreOwn == PoolIsFree /\ WatchesOwnFd

HasTimer(c) ==
    LET mine(t) == t.co = c /\ t.k = n[c]
    IN  \/ \E t \in timers : mine(t)
        \/ \E i \in 1..Len(queue) : queue[i].what = "timer" /\ mine(queue[i].timer)

\* A coroutine that waits on a socket is woken already, or has a started
\* watcher, and its timer if there is a time-out: no order of events, time-outs
\* and closes leaves it asleep for good.  The exception is Abandoned.
NobodyIsLost ==
    \A c \in Coroutines : at[c] # Nil /\ at[c].kind # "resolve" =>
        \/ Abandoned(c)
        \/ Queued(c)
        \/ /\ \E w \in Watchers : armed[w] # Nil /\ armed[w].co = c
           /\ at[c].timed => HasTimer(c)

InWait(c, k, kind, s) ==
    n[c] = k /\ at[c] # Nil /\ at[c].kind = kind /\ at[c].sock = s

\* What will wake a coroutine belongs to the wait the coroutine is in now, and
\* no one woke it yet: no answer of an earlier wait reaches a later one, no
\* event's callback raises, and a time-out that comes late, behind the event,
\* finds the slot empty and takes nobody else's watcher down.
CallbacksFitTheirWait ==
    /\ \A w \in Watchers : armed[w] # Nil =>
          /\ InWait(armed[w].co, armed[w].k, armed[w].kind, armed[w].sock)
          /\ ~Queued(armed[w].co)
    /\ \A t \in timers : InWait(t.co, t.k, t.kind, t.sock) /\ ~Queued(t.co)
    /\ \A i \in 1..Len(queue) :
          IF queue[i].what = "co" THEN queue[i].k = n[queue[i].co]
          ELSE LET t == queue[i].timer
               IN  /\ InWait(t.co, t.k, t.kind, t.sock)
                   /\ Queued(t.co) => io[t.sock][SlotOf(t.kind)] = Nil

\* Whoever a *_current_co names is asleep in that operation on that socket and
\* not woken yet, so close() never wakes itself, nobody twice, and nobody out
\* of another operation: it does not raise half-way and closes the descriptor.
CurrentIsAsleep ==
    \A s \in Sockets, r \in Roles : current_co[s][r] # Nil =>
        LET c == current_co[s][r]
        IN  /\ at[c] # Nil /\ at[c].sock = s
            /\ at[c].kind \notin {"resolve", "readline"} /\ RoleOf(at[c].kind) = r
            /\ MayWake(c)

\* Whoever wakes a coroutine on a socket, an event, a time-out or a close, means the wait
\* that it is in.
WakersFitTheirWait == CallbacksFitTheirWait /\ CurrentIsAsleep

\* A coroutine that waits with a time-out is woken in the end, whatever the
\* peer does.
TimedWaitsEnd ==
    \A c \in Coroutines :
        (at[c] # Nil /\ at[c].timed) ~> (Queued(c) \/ Abandoned(c))

\* The assertion of send, "Try to call the 'send' method multiple times.": a
\* send that comes while another is under way is refused and writes nothing
\* into the other's message.
SendsAreWhole == torn = {}

=============================================================================
