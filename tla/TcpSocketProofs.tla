-------------------------- MODULE TcpSocketProofs --------------------------
(***************************************************************************)
(* Proofs about TcpSocket: watchers belong to one wait each, nobody sleeps *)
(* for good, and whoever wakes a coroutine means the wait it is in, for    *)
(* any number of coroutines, sockets, watchers and waits.                  *)
(***************************************************************************)
EXTENDS TcpSocket, FiniteSetTheorems, SequenceTheorems, WellFoundedInduction, TLAPS

-----------------------------------------------------------------------------
(* The inductive invariant. *)

\* The coroutines that a queue will resume, and the timers whose callbacks it runs.
Woken(q) == {q[i].co : i \in {j \in DOMAIN q : q[j].what = "co"}}
Spawned(q) == {q[i].timer : i \in {j \in DOMAIN q : q[j].what = "timer"}}

\* Nobody is woken twice, and a callback stands before the coroutine it is about.
IsSound(q) ==
    \A i, j \in DOMAIN q : q[i].what = "co" =>
        /\ q[j].what = "co" /\ q[i].co = q[j].co => i = j
        /\ q[j].what = "timer" /\ q[j].timer.co = q[i].co => j < i

ItemsFit(q, waits) == \A i \in DOMAIN q : q[i].what = "co" => q[i].k = waits[q[i].co]

QueueKnown ==
    /\ IsSound(queue) /\ ItemsFit(queue, n)
    /\ turn \in Coroutines => at[turn] = Nil /\ turn \notin Woken(queue)

\* The pool's watchers are stopped, and none is in it twice.
Distinct(seq) == \A i, j \in DOMAIN seq : seq[i] = seq[j] => i = j

PoolKnown == Distinct(POOL) /\ \A w \in Elements(POOL) : armed[w] = Nil

\* A watcher in a slot of a socket is started for an operation of that slot.
SlotsKnown ==
    \A s \in Sockets, k \in Slots : io[s][k] # Nil =>
        LET a == armed[io[s][k]] IN a # Nil /\ a.sock = s /\ SlotOf(a.kind) = k

\* A started watcher is in its slot, and the wait it was started for goes on.
ArmedKnown ==
    \A w \in Watchers : armed[w] # Nil =>
        LET a == armed[w] IN
        /\ io[a.sock][SlotOf(a.kind)] = w
        /\ InWait(a.co, a.k, a.kind, a.sock) /\ a.co \notin Woken(queue)
        /\ fd[a.sock] = a.fd \/ Abandoned(a.co)
        /\ a.kind = "send" => send_co[a.sock]
        /\ a.kind # "readline" => current_co[a.sock][RoleOf(a.kind)] = a.co

\* So does that of a timer, in the wheel or as a callback in the queue.
TimersKnown ==
    /\ \A t \in timers :
          InWait(t.co, t.k, t.kind, t.sock) /\ t.co \notin Woken(queue) /\ timer[t.sock] = t
    /\ \A s \in Sockets : timer[s] # Nil => timer[s].sock = s

CallbacksKnown ==
    \A t \in Spawned(queue) :
        /\ InWait(t.co, t.k, t.kind, t.sock) /\ t \notin timers
        /\ t.co \in Woken(queue) => io[t.sock][SlotOf(t.kind)] = Nil

\* What a wait is for.  One coroutine at a time connects or reads on a socket, and while it
\* resolves a name nobody else is there.
Together(c, d) ==
    at[c] # Nil /\ at[d] # Nil /\ at[c].sock = at[d].sock /\ at[c].kind \notin Senders =>
        c = d \/ (at[d].kind \in Senders /\ at[c].kind # "resolve")

WaitsKnown ==
    /\ \A s \in Sockets : fd[s] # Nil => s \in used
    /\ \A c \in Coroutines : at[c] # Nil =>
          /\ at[c].sock \in used
          /\ at[c].kind # "resolve" => at[c].fd # Nil
          /\ at[c].kind \in Senders => ~at[c].timed
          /\ at[c].kind = "resolve" => fd[at[c].sock] = Nil
    /\ \A c, d \in Coroutines : Together(c, d)

\* A wait ends: NobodyIsLost, said of the sets above.
Waker(c) == \E w \in Watchers : armed[w] # Nil /\ armed[w].co = c
Mine(c, t) == t.co = c /\ t.k = n[c]
Reached ==
    \A c \in Coroutines : at[c] # Nil /\ at[c].kind # "resolve" =>
        \/ Abandoned(c) \/ c \in Woken(queue)
        \/ Waker(c) /\ (at[c].timed => \E t \in timers \union Spawned(queue) : Mine(c, t))

\* CurrentIsAsleep, said of the sets above.
CurrentKnown ==
    \A s \in Sockets, r \in Roles : current_co[s][r] # Nil =>
        LET c == current_co[s][r] IN
        /\ at[c] # Nil /\ at[c].sock = s
        /\ at[c].kind \notin {"resolve", "readline"} /\ RoleOf(at[c].kind) = r
        /\ turn # c /\ c \notin Woken(queue)

IInv == /\ TypeOK /\ QueueKnown /\ PoolKnown /\ SlotsKnown /\ ArmedKnown /\ TimersKnown
        /\ CallbacksKnown /\ WaitsKnown /\ Reached /\ CurrentKnown

-----------------------------------------------------------------------------
(* Kinds, slots and roles. *)

LEMMA Kinds ==
    /\ SlotOf("recv") = "read" /\ SlotOf("readline") = "read"
    /\ SlotOf("send") = "send" /\ SlotOf("sendfile") = "send"
    /\ SlotOf("connect") = "connect" /\ SlotOf("handshake") = "connect"
    /\ RoleOf("recv") = "read" /\ RoleOf("send") = "send" /\ RoleOf("sendfile") = "sendfile"
    /\ RoleOf("connect") = "connect" /\ RoleOf("handshake") = "connect"
BY DEF SlotOf, RoleOf, Senders

\* What SlotOf and RoleOf give for the kinds of waits.
LEMMA KindsOfSlots ==
    ASSUME NEW kind \in IoKinds
    PROVE  /\ SlotOf(kind) \in Slots
           /\ kind # "readline" => RoleOf(kind) \in Roles
           /\ kind \in Senders <=> SlotOf(kind) = "send"
           /\ kind \in Senders => RoleOf(kind) = kind
           /\ kind \notin Senders /\ kind # "readline" => RoleOf(kind) = SlotOf(kind)
           /\ kind \in Senders \/ kind \notin Senders
           /\ kind # "resolve"
<1>1. kind \in {"connect", "handshake", "recv", "readline", "send", "sendfile"}
  BY DEF IoKinds, Senders
<1> QED BY <1>1, Kinds DEF Slots, Roles, Senders

\* Two operations with one *_current_co use one slot.
LEMMA RolesTellSlots ==
    ASSUME NEW k \in IoKinds, NEW l \in IoKinds, k # "readline", l # "readline", RoleOf(k) = RoleOf(l)
    PROVE  SlotOf(k) = SlotOf(l)
<1>1. /\ k \in {"connect", "handshake", "recv", "send", "sendfile"}
      /\ l \in {"connect", "handshake", "recv", "send", "sendfile"}
  BY DEF IoKinds, Senders
<1> QED BY <1>1, Kinds

-----------------------------------------------------------------------------
(* The queue. *)

LEMMA ItemTyped ==
    ASSUME NEW c \in Coroutines, NEW k \in Nat, NEW ok \in BOOLEAN
    PROVE  Item(c, k, ok) \in Items /\ Item(c, k, ok).what = "co" /\ Item(c, k, ok).co = c /\ Item(c, k, ok).k = k
BY DEF Item, Items

LEMMA CallbackTyped ==
    ASSUME NEW t \in Timers
    PROVE  Callback(t) \in Items /\ Callback(t).what = "timer" /\ Callback(t).timer = t
BY DEF Callback, Items

LEMMA ItemTypes ==
    ASSUME NEW q \in Seq(Items), NEW i \in DOMAIN q
    PROVE  /\ q[i].what \in {"co", "timer"}
           /\ q[i].what = "co" => q[i].co \in Coroutines /\ q[i].k \in Nat
           /\ q[i].what = "timer" => q[i].timer \in Timers
<1>1. q[i] \in Items
  BY ElementOfSeq, LenProperties
<1> QED BY <1>1 DEF Items

\* Whom and what a queue holds.
LEMMA SetsTyped ==
    ASSUME NEW q \in Seq(Items)
    PROVE  Woken(q) \subseteq Coroutines /\ Spawned(q) \subseteq Timers
BY ItemTypes DEF Woken, Spawned

\* What Append does to a queue.
LEMMA Appended ==
    ASSUME NEW q \in Seq(Items), NEW x \in Items
    PROVE  /\ Append(q, x) \in Seq(Items)
           /\ Len(q) \in Nat /\ DOMAIN q = 1..Len(q) /\ DOMAIN Append(q, x) = 1..(Len(q) + 1)
           /\ Append(q, x)[Len(q) + 1] = x
           /\ \A i \in 1..Len(q) : Append(q, x)[i] = q[i]
<1>1. /\ Append(q, x) \in Seq(Items) /\ Len(Append(q, x)) = Len(q) + 1
      /\ \A i \in 1..Len(q) : Append(q, x)[i] = q[i]
      /\ Append(q, x)[Len(q) + 1] = x
  BY AppendProperties
<1> QED BY <1>1, LenProperties

\* One more coroutine is woken.
LEMMA AppendWakes ==
    ASSUME NEW q \in Seq(Items), NEW c \in Coroutines, NEW k \in Nat, NEW ok \in BOOLEAN, NEW waits,
           c \notin Woken(q), IsSound(q), ItemsFit(q, waits), k = waits[c]
    PROVE  LET r == Append(q, Item(c, k, ok)) IN
           /\ r \in Seq(Items) /\ Woken(r) = Woken(q) \union {c} /\ Spawned(r) = Spawned(q)
           /\ IsSound(r) /\ ItemsFit(r, waits)
<1> DEFINE x == Item(c, k, ok)
           r == Append(q, x)
<1>1. x \in Items /\ x.what = "co" /\ x.co = c /\ x.k = k
  BY ItemTyped
<1> HIDE DEF x
<1>2. PICK l \in Nat : l = Len(q)
  BY LenProperties
<1>3. /\ r \in Seq(Items) /\ DOMAIN q = 1..l /\ DOMAIN r = 1..(l + 1) /\ r[l + 1] = x
      /\ \A i \in 1..l : r[i] = q[i]
  BY <1>1, <1>2, Appended
<1>4. \A i \in DOMAIN q : q[i].what = "co" => q[i].co # c
  BY DEF Woken
<1> HIDE DEF r
<1>5. Woken(r) = Woken(q) \union {c}
  <2>1. ASSUME NEW d \in Woken(r) PROVE d \in Woken(q) \union {c}
    BY <1>1, <1>3 DEF Woken
  <2>2. ASSUME NEW d \in Woken(q) PROVE d \in Woken(r)
    BY <1>3 DEF Woken
  <2>3. c \in Woken(r)
    BY <1>1, <1>3 DEF Woken
  <2> QED BY <2>1, <2>2, <2>3
<1>6. Spawned(r) = Spawned(q)
  <2>1. ASSUME NEW d \in Spawned(r) PROVE d \in Spawned(q)
    <3>1. PICK i \in DOMAIN r : r[i].what = "timer" /\ d = r[i].timer
      BY DEF Spawned
    <3>2. i \in 1..l
      BY <1>1, <1>3, <3>1
    <3> QED BY <1>3, <3>1, <3>2 DEF Spawned
  <2>2. ASSUME NEW d \in Spawned(q) PROVE d \in Spawned(r)
    BY <1>3 DEF Spawned
  <2> QED BY <2>1, <2>2
<1>7. IsSound(r)
  <2> SUFFICES ASSUME NEW i \in 1..(l + 1), NEW j \in 1..(l + 1), r[i].what = "co"
               PROVE  /\ r[j].what = "co" /\ r[i].co = r[j].co => i = j
                      /\ r[j].what = "timer" /\ r[j].timer.co = r[i].co => j < i
    BY <1>3 DEF IsSound
  <2>1. CASE i \in 1..l /\ j \in 1..l
    BY <1>3, <2>1 DEF IsSound
  <2>2. CASE i = l + 1 /\ j \in 1..l
    BY <1>1, <1>3, <1>4, <2>2
  <2>3. CASE i \in 1..l /\ j = l + 1
    BY <1>1, <1>3, <1>4, <2>3
  <2>4. CASE i = l + 1 /\ j = l + 1
    BY <1>1, <1>3, <2>4
  <2> QED BY <2>1, <2>2, <2>3, <2>4
<1>8. ItemsFit(r, waits)
  BY <1>1, <1>3 DEF ItemsFit
<1> QED BY <1>3, <1>5, <1>6, <1>7, <1>8 DEF r, x

\* A callback is spawned.
LEMMA AppendSpawns ==
    ASSUME NEW q \in Seq(Items), NEW t \in Timers, NEW waits,
           t.co \notin Woken(q), IsSound(q), ItemsFit(q, waits)
    PROVE  LET r == Append(q, Callback(t)) IN
           /\ r \in Seq(Items) /\ Woken(r) = Woken(q) /\ Spawned(r) = Spawned(q) \union {t}
           /\ IsSound(r) /\ ItemsFit(r, waits)
<1> DEFINE x == Callback(t)
           r == Append(q, x)
<1>1. x \in Items /\ x.what = "timer" /\ x.timer = t
  BY CallbackTyped
<1> HIDE DEF x
<1>2. PICK l \in Nat : l = Len(q)
  BY LenProperties
<1>3. /\ r \in Seq(Items) /\ DOMAIN q = 1..l /\ DOMAIN r = 1..(l + 1) /\ r[l + 1] = x
      /\ \A i \in 1..l : r[i] = q[i]
  BY <1>1, <1>2, Appended
<1>4. \A i \in DOMAIN q : q[i].what = "co" => q[i].co # t.co
  BY DEF Woken
<1> HIDE DEF r
<1>5. Woken(r) = Woken(q)
  <2>1. ASSUME NEW d \in Woken(r) PROVE d \in Woken(q)
    <3>1. PICK i \in DOMAIN r : r[i].what = "co" /\ d = r[i].co
      BY DEF Woken
    <3>2. i \in 1..l
      BY <1>1, <1>3, <3>1
    <3> QED BY <1>3, <3>1, <3>2 DEF Woken
  <2>2. ASSUME NEW d \in Woken(q) PROVE d \in Woken(r)
    BY <1>3 DEF Woken
  <2> QED BY <2>1, <2>2
<1>6. Spawned(r) = Spawned(q) \union {t}
  <2>1. ASSUME NEW d \in Spawned(r) PROVE d \in Spawned(q) \union {t}
    BY <1>1, <1>3 DEF Spawned
  <2>2. ASSUME NEW d \in Spawned(q) PROVE d \in Spawned(r)
    BY <1>3 DEF Spawned
  <2>3. t \in Spawned(r)
    BY <1>1, <1>3 DEF Spawned
  <2> QED BY <2>1, <2>2, <2>3
<1>7. IsSound(r)
  <2> SUFFICES ASSUME NEW i \in 1..(l + 1), NEW j \in 1..(l + 1), r[i].what = "co"
               PROVE  /\ r[j].what = "co" /\ r[i].co = r[j].co => i = j
                      /\ r[j].what = "timer" /\ r[j].timer.co = r[i].co => j < i
    BY <1>3 DEF IsSound
  <2>1. CASE i \in 1..l /\ j \in 1..l
    BY <1>3, <2>1 DEF IsSound
  <2>2. CASE i \in 1..l /\ j = l + 1
    BY <1>1, <1>3, <1>4, <2>2
  <2>3. i # l + 1
    BY <1>1, <1>3
  <2> QED BY <2>1, <2>2, <2>3
<1>8. ItemsFit(r, waits)
  BY <1>1, <1>3 DEF ItemsFit
<1> QED BY <1>3, <1>5, <1>6, <1>7, <1>8 DEF r, x

\* What Tail does to a queue.
LEMMA TailShifts ==
    ASSUME NEW q \in Seq(Items), q # <<>>
    PROVE  /\ Tail(q) \in Seq(Items) /\ Len(q) \in Nat \ {0} /\ DOMAIN q = 1..Len(q)
           /\ DOMAIN Tail(q) = 1..(Len(q) - 1)
           /\ \A i \in 1..(Len(q) - 1) : Tail(q)[i] = q[i + 1]
           /\ Head(q) = q[1]
<1>1. Tail(q) \in Seq(Items) /\ Len(Tail(q)) = Len(q) - 1
      /\ \A i \in 1..Len(Tail(q)) : Tail(q)[i] = q[i + 1]
  BY HeadTailProperties
<1>2. Len(q) \in Nat \ {0}
  BY EmptySeq, LenProperties
<1>3. Head(q) = q[1]
  BY <1>2
<1> QED BY <1>1, <1>2, <1>3, LenProperties

\* The first of the queue is a coroutine: no other entry wakes it, and no callback that
\* follows is about it.
LEMMA CoLeaves ==
    ASSUME NEW q \in Seq(Items), q # <<>>, IsSound(q), NEW waits, ItemsFit(q, waits), Head(q).what = "co"
    PROVE  /\ Tail(q) \in Seq(Items) /\ Woken(Tail(q)) = Woken(q) \ {Head(q).co}
           /\ Head(q).co \in Woken(q)
           /\ Spawned(Tail(q)) = Spawned(q) /\ \A t \in Spawned(q) : t.co # Head(q).co
           /\ IsSound(Tail(q)) /\ ItemsFit(Tail(q), waits)
<1>1. PICK l \in Nat \ {0} : l = Len(q)
  BY TailShifts
<1> DEFINE r == Tail(q)
<1>2. /\ r \in Seq(Items) /\ DOMAIN q = 1..l /\ DOMAIN r = 1..(l - 1) /\ Head(q) = q[1]
      /\ \A i \in 1..(l - 1) : r[i] = q[i + 1]
  BY <1>1, TailShifts
<1> HIDE DEF r
<1>3. 1 \in 1..l /\ \A i \in 1..(l - 1) : i + 1 \in 1..l /\ i + 1 # 1
  BY <1>1
<1>4. \A i \in 1..l : i # 1 => i - 1 \in 1..(l - 1) /\ r[i - 1] = q[i]
  BY <1>1, <1>2
<1>5. \A i \in 1..l : q[i].what = "co" /\ q[i].co = Head(q).co => i = 1
  BY <1>2, <1>3 DEF IsSound
<1>6. \A i \in 1..l : q[i].what = "timer" => q[i].timer.co # Head(q).co
  BY <1>1, <1>2, <1>3 DEF IsSound
<1>7. Woken(r) = Woken(q) \ {Head(q).co}
  <2>1. ASSUME NEW d \in Woken(r) PROVE d \in Woken(q) \ {Head(q).co}
    <3>1. PICK i \in 1..(l - 1) : r[i].what = "co" /\ d = r[i].co
      BY <1>2 DEF Woken
    <3>2. i + 1 \in 1..l /\ i + 1 # 1 /\ r[i] = q[i + 1]
      BY <1>2, <1>3
    <3> QED BY <1>2, <1>5, <3>1, <3>2 DEF Woken
  <2>2. ASSUME NEW d \in Woken(q), d # Head(q).co PROVE d \in Woken(r)
    <3>1. PICK i \in 1..l : q[i].what = "co" /\ d = q[i].co
      BY <1>2 DEF Woken
    <3>2. i - 1 \in 1..(l - 1) /\ r[i - 1] = q[i]
      BY <1>2, <1>4, <2>2, <3>1
    <3> QED BY <1>2, <3>1, <3>2 DEF Woken
  <2> QED BY <2>1, <2>2
<1>8. Spawned(r) = Spawned(q)
  <2>1. ASSUME NEW d \in Spawned(r) PROVE d \in Spawned(q)
    <3>1. PICK i \in 1..(l - 1) : r[i].what = "timer" /\ d = r[i].timer
      BY <1>2 DEF Spawned
    <3>2. i + 1 \in 1..l /\ r[i] = q[i + 1]
      BY <1>2, <1>3
    <3> QED BY <1>2, <3>1, <3>2 DEF Spawned
  <2>2. ASSUME NEW d \in Spawned(q) PROVE d \in Spawned(r)
    <3>1. PICK i \in 1..l : q[i].what = "timer" /\ d = q[i].timer
      BY <1>2 DEF Spawned
    <3>2. i - 1 \in 1..(l - 1) /\ r[i - 1] = q[i]
      BY <1>2, <1>4, <3>1
    <3> QED BY <1>2, <3>1, <3>2 DEF Spawned
  <2> QED BY <2>1, <2>2
<1>9. IsSound(r)
  <2> SUFFICES ASSUME NEW i \in 1..(l - 1), NEW j \in 1..(l - 1), r[i].what = "co"
               PROVE  /\ r[j].what = "co" /\ r[i].co = r[j].co => i = j
                      /\ r[j].what = "timer" /\ r[j].timer.co = r[i].co => j < i
    BY <1>2 DEF IsSound
  <2>1. r[i] = q[i + 1] /\ r[j] = q[j + 1] /\ i + 1 \in DOMAIN q /\ j + 1 \in DOMAIN q
    BY <1>2, <1>3
  <2>2. /\ r[j].what = "co" /\ r[i].co = r[j].co => i + 1 = j + 1
        /\ r[j].what = "timer" /\ r[j].timer.co = r[i].co => j + 1 < i + 1
    BY <2>1 DEF IsSound
  <2> QED BY <1>1, <2>2
<1>10. ItemsFit(r, waits)
  <2> SUFFICES ASSUME NEW i \in 1..(l - 1), r[i].what = "co" PROVE r[i].k = waits[r[i].co]
    BY <1>2 DEF ItemsFit
  <2>1. r[i] = q[i + 1] /\ i + 1 \in DOMAIN q
    BY <1>2, <1>3
  <2> QED BY <2>1 DEF ItemsFit
<1>11. Head(q).co \in Woken(q)
  BY <1>2, <1>3 DEF Woken
<1> QED BY <1>2, <1>5, <1>6, <1>7, <1>8, <1>9, <1>10, <1>11 DEF r, Spawned

\* The first of the queue is a callback.
LEMMA CallbackLeaves ==
    ASSUME NEW q \in Seq(Items), q # <<>>, IsSound(q), NEW waits, ItemsFit(q, waits), Head(q).what = "timer"
    PROVE  /\ Tail(q) \in Seq(Items) /\ Woken(Tail(q)) = Woken(q)
           /\ Head(q).timer \in Spawned(q)
           /\ Spawned(Tail(q)) \subseteq Spawned(q) /\ Spawned(q) \subseteq Spawned(Tail(q)) \union {Head(q).timer}
           /\ IsSound(Tail(q)) /\ ItemsFit(Tail(q), waits)
<1>1. PICK l \in Nat \ {0} : l = Len(q)
  BY TailShifts
<1> DEFINE r == Tail(q)
<1>2. /\ r \in Seq(Items) /\ DOMAIN q = 1..l /\ DOMAIN r = 1..(l - 1) /\ Head(q) = q[1]
      /\ \A i \in 1..(l - 1) : r[i] = q[i + 1]
  BY <1>1, TailShifts
<1> HIDE DEF r
<1>3. 1 \in 1..l /\ \A i \in 1..(l - 1) : i + 1 \in 1..l /\ i + 1 # 1
  BY <1>1
<1>4. \A i \in 1..l : i # 1 => i - 1 \in 1..(l - 1) /\ r[i - 1] = q[i]
  BY <1>1, <1>2
<1>7. Woken(r) = Woken(q)
  <2>1. ASSUME NEW d \in Woken(r) PROVE d \in Woken(q)
    <3>1. PICK i \in 1..(l - 1) : r[i].what = "co" /\ d = r[i].co
      BY <1>2 DEF Woken
    <3>2. i + 1 \in 1..l /\ r[i] = q[i + 1]
      BY <1>2, <1>3
    <3> QED BY <1>2, <3>1, <3>2 DEF Woken
  <2>2. ASSUME NEW d \in Woken(q) PROVE d \in Woken(r)
    <3>1. PICK i \in 1..l : q[i].what = "co" /\ d = q[i].co
      BY <1>2 DEF Woken
    <3>2. i - 1 \in 1..(l - 1) /\ r[i - 1] = q[i]
      BY <1>2, <1>4, <3>1
    <3> QED BY <1>2, <3>1, <3>2 DEF Woken
  <2> QED BY <2>1, <2>2
<1>8. Spawned(r) \subseteq Spawned(q)
  <2>1. ASSUME NEW d \in Spawned(r) PROVE d \in Spawned(q)
    <3>1. PICK i \in 1..(l - 1) : r[i].what = "timer" /\ d = r[i].timer
      BY <1>2 DEF Spawned
    <3>2. i + 1 \in 1..l /\ r[i] = q[i + 1]
      BY <1>2, <1>3
    <3> QED BY <1>2, <3>1, <3>2 DEF Spawned
  <2> QED BY <2>1
<1>9. Spawned(q) \subseteq Spawned(r) \union {Head(q).timer}
  <2>1. ASSUME NEW d \in Spawned(q), d # Head(q).timer PROVE d \in Spawned(r)
    <3>1. PICK i \in 1..l : q[i].what = "timer" /\ d = q[i].timer
      BY <1>2 DEF Spawned
    <3>2. i - 1 \in 1..(l - 1) /\ r[i - 1] = q[i]
      BY <1>2, <1>4, <2>1, <3>1
    <3> QED BY <1>2, <3>1, <3>2 DEF Spawned
  <2> QED BY <2>1
<1>10. IsSound(r)
  <2> SUFFICES ASSUME NEW i \in 1..(l - 1), NEW j \in 1..(l - 1), r[i].what = "co"
               PROVE  /\ r[j].what = "co" /\ r[i].co = r[j].co => i = j
                      /\ r[j].what = "timer" /\ r[j].timer.co = r[i].co => j < i
    BY <1>2 DEF IsSound
  <2>1. r[i] = q[i + 1] /\ r[j] = q[j + 1] /\ i + 1 \in DOMAIN q /\ j + 1 \in DOMAIN q
    BY <1>2, <1>3
  <2>2. /\ r[j].what = "co" /\ r[i].co = r[j].co => i + 1 = j + 1
        /\ r[j].what = "timer" /\ r[j].timer.co = r[i].co => j + 1 < i + 1
    BY <2>1 DEF IsSound
  <2> QED BY <1>1, <2>2
<1>11. ItemsFit(r, waits)
  <2> SUFFICES ASSUME NEW i \in 1..(l - 1), r[i].what = "co" PROVE r[i].k = waits[r[i].co]
    BY <1>2 DEF ItemsFit
  <2>1. r[i] = q[i + 1] /\ i + 1 \in DOMAIN q
    BY <1>2, <1>3
  <2> QED BY <2>1 DEF ItemsFit
<1>12. Head(q).timer \in Spawned(q)
  BY <1>2, <1>3 DEF Spawned
<1> QED BY <1>2, <1>7, <1>8, <1>9, <1>10, <1>11, <1>12 DEF r

\* One part of what close puts into the queue.
LEMMA WakesOne ==
    ASSUME NEW q \in Seq(Items), NEW c \in Coroutines \union {Nil}, n \in [Coroutines -> Nat],
           c \notin Woken(q), IsSound(q), ItemsFit(q, n)
    PROVE  LET r == q \o (IF c = Nil THEN <<>> ELSE <<Item(c, n[c], FALSE)>>) IN
           /\ r \in Seq(Items) /\ Woken(r) = Woken(q) \union ({c} \ {Nil}) /\ Spawned(r) = Spawned(q)
           /\ IsSound(r) /\ ItemsFit(r, n)
<1>1. CASE c = Nil
  <2>1. q \o <<>> = q
    BY ConcatEmptySeq
  <2> QED BY <1>1, <2>1
<1>2. CASE c # Nil
  <2>1. c \in Coroutines /\ n[c] \in Nat
    BY <1>2
  <2>2. Item(c, n[c], FALSE) \in Items
    BY <2>1, ItemTyped
  <2>3. q \o <<Item(c, n[c], FALSE)>> = Append(q, Item(c, n[c], FALSE))
    BY <2>2, AppendIsConcat
  <2>4. {c} \ {Nil} = {c}
    BY <1>2
  <2>5. LET r == Append(q, Item(c, n[c], FALSE)) IN
        /\ r \in Seq(Items) /\ Woken(r) = Woken(q) \union {c} /\ Spawned(r) = Spawned(q)
        /\ IsSound(r) /\ ItemsFit(r, n)
    BY <2>1, AppendWakes
  <2> QED BY <1>2, <2>3, <2>4, <2>5
<1> QED BY <1>1, <1>2

\* Together: the coroutines that the roles of s name, each once.
LEMMA SleepersWoken ==
    ASSUME TypeOK, QueueKnown, CurrentKnown, NEW s \in Sockets
    PROVE  LET r == QueueSleepers(s) IN
           /\ r \in Seq(Items) /\ Spawned(r) = Spawned(queue) /\ IsSound(r) /\ ItemsFit(r, n)
           /\ Woken(r) = Woken(queue) \union {c \in Coroutines : \E role \in Roles : current_co[s][role] = c}
<1> DEFINE c(role) == current_co[s][role]
           W(role) == IF c(role) = Nil THEN <<>> ELSE <<Item(c(role), n[c(role)], FALSE)>>
           q1 == queue \o W("connect")
           q2 == q1 \o W("send")
           q3 == q2 \o W("read")
           q4 == q3 \o W("sendfile")
<1>1. \A role \in Roles : c(role) \in Coroutines \union {Nil}
  BY DEF TypeOK
<1>2. \A role \in Roles : c(role) \notin Woken(queue)
  <2>1. queue \in Seq(Items)
    BY DEF TypeOK
  <2>2. Nil \notin Woken(queue)
    BY <2>1, SetsTyped, NilAssumption
  <2> QED BY <2>2 DEF CurrentKnown
<1>3. \A r1, r2 \in Roles : c(r1) # Nil /\ c(r1) = c(r2) => r1 = r2
  BY DEF CurrentKnown
<1>4. "connect" \in Roles /\ "send" \in Roles /\ "read" \in Roles /\ "sendfile" \in Roles
  BY DEF Roles
<1>5. queue \in Seq(Items) /\ n \in [Coroutines -> Nat] /\ IsSound(queue) /\ ItemsFit(queue, n)
  BY DEF TypeOK, QueueKnown
<1>7. QueueSleepers(s) = q4
  BY DEF QueueSleepers, Wakes
<1>8. /\ q1 \in Seq(Items) /\ Woken(q1) = Woken(queue) \union ({c("connect")} \ {Nil})
      /\ Spawned(q1) = Spawned(queue) /\ IsSound(q1) /\ ItemsFit(q1, n)
  BY <1>1, <1>2, <1>4, <1>5, WakesOne
<1>9. Nil \notin Woken(queue)
  BY <1>5, SetsTyped, NilAssumption
<1> HIDE DEF q1
<1>10. c("send") \notin Woken(q1)
  BY <1>2, <1>3, <1>4, <1>8, <1>9
<1>11. /\ q2 \in Seq(Items) /\ Woken(q2) = Woken(q1) \union ({c("send")} \ {Nil})
       /\ Spawned(q2) = Spawned(q1) /\ IsSound(q2) /\ ItemsFit(q2, n)
  BY <1>1, <1>4, <1>5, <1>8, <1>10, WakesOne
<1> HIDE DEF q2
<1>12. c("read") \notin Woken(q2)
  BY <1>2, <1>3, <1>4, <1>8, <1>9, <1>11
<1>13. /\ q3 \in Seq(Items) /\ Woken(q3) = Woken(q2) \union ({c("read")} \ {Nil})
       /\ Spawned(q3) = Spawned(q2) /\ IsSound(q3) /\ ItemsFit(q3, n)
  BY <1>1, <1>4, <1>5, <1>11, <1>12, WakesOne
<1> HIDE DEF q3
<1>14. c("sendfile") \notin Woken(q3)
  BY <1>2, <1>3, <1>4, <1>8, <1>9, <1>11, <1>13
<1>15. /\ q4 \in Seq(Items) /\ Woken(q4) = Woken(q3) \union ({c("sendfile")} \ {Nil})
       /\ Spawned(q4) = Spawned(q3) /\ IsSound(q4) /\ ItemsFit(q4, n)
  BY <1>1, <1>4, <1>5, <1>13, <1>14, WakesOne
<1> HIDE DEF q4
<1>16. {e \in Coroutines : \E role \in Roles : c(role) = e}
         = ({c("connect")} \ {Nil}) \union ({c("send")} \ {Nil}) \union ({c("read")} \ {Nil}) \union ({c("sendfile")} \ {Nil})
  BY <1>1, <1>4, NilAssumption DEF Roles
<1> QED BY <1>7, <1>8, <1>11, <1>13, <1>15, <1>16

-----------------------------------------------------------------------------
(* The pool. *)

\* What tcp_push does to the stack, if there is a watcher.
LEMMA PoolGrows ==
    ASSUME NEW p \in Seq(Watchers), NEW w \in Watchers \union {Nil}, Distinct(p), w \notin Elements(p)
    PROVE  LET q == p \o (IF w = Nil THEN <<>> ELSE <<w>>) IN
           q \in Seq(Watchers) /\ Distinct(q) /\ Elements(q) = Elements(p) \union ({w} \ {Nil})
<1>1. CASE w = Nil
  <2>1. p \o <<>> = p
    BY ConcatEmptySeq
  <2> QED BY <1>1, <2>1
<1>2. CASE w # Nil
  <2>1. p \o <<w>> = Append(p, w)
    BY <1>2, AppendIsConcat
  <2>2. PICK l \in Nat : l = Len(p)
    BY LenProperties
  <2> DEFINE q == Append(p, w)
  <2>3. /\ q \in Seq(Watchers) /\ Len(q) = l + 1 /\ DOMAIN p = 1..l /\ DOMAIN q = 1..(l + 1)
        /\ q[l + 1] = w /\ \A i \in 1..l : q[i] = p[i]
    BY <1>2, <2>2, AppendProperties, LenProperties
  <2> HIDE DEF q
  <2>4. \A i \in 1..l : p[i] # w
    BY <2>2 DEF Elements
  <2>5. Distinct(q)
    BY <2>3, <2>4 DEF Distinct
  <2>6. Elements(q) = Elements(p) \union {w}
    <3>1. Elements(q) = {q[i] : i \in 1..(l + 1)} /\ Elements(p) = {p[i] : i \in 1..l}
      BY <2>2, <2>3 DEF Elements
    <3> QED BY <2>3, <3>1
  <2>7. {w} \ {Nil} = {w}
    BY <1>2
  <2> QED BY <1>2, <2>1, <2>3, <2>5, <2>6, <2>7 DEF q
<1> QED BY <1>1, <1>2

\* What a stack is after its last element is taken.
LEMMA PoolShrinks ==
    ASSUME NEW p \in Seq(Watchers), p # <<>>, Distinct(p)
    PROVE  /\ p[Len(p)] \in Elements(p) /\ p[Len(p)] \in Watchers
           /\ LET q == SubSeq(p, 1, Len(p) - 1) IN
              q \in Seq(Watchers) /\ Distinct(q) /\ Elements(q) = Elements(p) \ {p[Len(p)]}
<1>1. PICK l \in Nat \ {0} : l = Len(p)
  BY EmptySeq, LenProperties
<1> DEFINE q == SubSeq(p, 1, l - 1)
<1>2. q \in Seq(Watchers) /\ Len(q) = l - 1 /\ \A i \in 1..(l - 1) : q[i] = p[i]
  BY <1>1
<1>3. DOMAIN p = 1..l /\ DOMAIN q = 1..(l - 1)
  BY <1>1, <1>2, LenProperties
<1>4. Elements(q) = {q[i] : i \in 1..(l - 1)} /\ Elements(p) = {p[i] : i \in 1..l}
  BY <1>1, <1>2 DEF Elements
<1> HIDE DEF q
<1>5. l \in 1..l /\ \A i \in 1..l : i = l \/ i \in 1..(l - 1)
  BY <1>1
<1>6. \A i \in 1..(l - 1) : i \in 1..l /\ i # l
  BY <1>1
<1>7. Distinct(q)
  BY <1>2, <1>3, <1>6 DEF Distinct
<1>8. \A i \in 1..(l - 1) : p[i] # p[l]
  BY <1>3, <1>5, <1>6 DEF Distinct
<1>9. Elements(q) = Elements(p) \ {p[l]}
  BY <1>2, <1>4, <1>5, <1>6, <1>8
<1>10. p[l] \in Elements(p) /\ p[l] \in Watchers
  BY <1>1, <1>4, <1>5
<1> QED BY <1>1, <1>2, <1>7, <1>9, <1>10 DEF q

\* A set of numbers has its least one.
LEMMA LeastIsIn ==
    ASSUME NEW S, S \subseteq Nat, S # {}
    PROVE  Least(S) \in S
<1> DEFINE R == OpToRel(<, Nat)
<1>1. IsWellFoundedOn(R, Nat)
  BY NatLessThanWellFounded
<1>2. \A x, y \in Nat : y < x => <<y, x>> \in R
  BY DEF OpToRel
<1> HIDE DEF R
<1>4. PICK x \in S : \A y \in S : <<y, x>> \notin R
  BY <1>1, WFMin
<1>3. \A y \in S : x <= y
  <2> SUFFICES ASSUME NEW y \in S PROVE x <= y
    OBVIOUS
  <2>1. ~(y < x)
    BY <1>2, <1>4
  <2> QED BY <2>1
<1> QED BY <1>3, <1>4 DEF Least

\* There is always a watcher to take: each coroutine but c may have one that is started, and
\* there are at least as many watchers as coroutines.
LEMMA SomeUnused ==
    ASSUME TypeOK, SlotsKnown, ArmedKnown, POOL = <<>>, NEW c \in Coroutines,
           \A w \in Watchers : armed[w] # Nil => armed[w].co # c
    PROVE  Unused # {}
<1> SUFFICES ASSUME Unused = {} PROVE FALSE
  OBVIOUS
<1>1. Elements(POOL) = {}
  BY DEF Elements
<1>2. \A w \in Watchers : armed[w] # Nil
  <2> SUFFICES ASSUME NEW w \in Watchers, armed[w] = Nil PROVE FALSE
    OBVIOUS
  <2>1. \A s \in Sockets, k \in Slots : io[s][k] # w
    BY NilAssumption, WatchersAssumption DEF SlotsKnown
  <2> QED BY <1>1, <2>1 DEF Unused
<1> DEFINE Others == Coroutines \ {c}
           f == [w \in Watchers |-> armed[w].co]
<1>3. \A w \in Watchers : armed[w] \in Arms
  BY <1>2 DEF TypeOK
<1>4. f \in [Watchers -> Others]
  BY <1>2, <1>3 DEF Arms
<1>5. ASSUME NEW v \in Watchers, NEW w \in Watchers, armed[v].co = armed[w].co
      PROVE  v = w
  BY <1>2, <1>5 DEF ArmedKnown, InWait
<1>6. f \in Injection(Watchers, Others)
  BY <1>4, <1>5 DEF Injection, IsInjective
<1>7. IsFiniteSet(Others) /\ Cardinality(Others) = Cardinality(Coroutines) - 1
  BY FS_RemoveElement, CoroutinesAssumption
<1>8. Cardinality(Watchers) <= Cardinality(Others) /\ IsFiniteSet(Watchers)
  BY <1>6, <1>7, FS_Injection
<1>9. Cardinality(Watchers) \in Nat /\ Cardinality(Coroutines) \in Nat
  BY <1>8, FS_CardinalityType, CoroutinesAssumption
<1> QED BY <1>7, <1>8, <1>9, WatchersAssumption

\* tcp_pop gives a watcher that is stopped and in no slot, and takes it out of the pool.
LEMMA PopGives ==
    ASSUME TypeOK, PoolKnown, SlotsKnown, ArmedKnown, NEW c \in Coroutines,
           \A w \in Watchers : armed[w] # Nil => armed[w].co # c
    PROVE  /\ tcp_pop \in Watchers /\ armed[tcp_pop] = Nil
           /\ RestOfPool \in Seq(Watchers) /\ Distinct(RestOfPool)
           /\ Elements(RestOfPool) \subseteq Elements(POOL) /\ tcp_pop \notin Elements(RestOfPool)
<1>1. CASE POOL # <<>>
  BY <1>1, PoolShrinks DEF TypeOK, PoolKnown, tcp_pop, RestOfPool
<1>2. CASE POOL = <<>>
  <2>1. Unused \subseteq Nat /\ Unused # {} /\ \A w \in Unused : w \in Watchers /\ armed[w] = Nil
    BY <1>2, SomeUnused, WatchersAssumption DEF Unused
  <2>2. Least(Unused) \in Unused
    BY <2>1, LeastIsIn
  <2>3. Elements(POOL) = {}
    BY <1>2 DEF Elements
  <2> QED BY <1>2, <2>1, <2>2, <2>3 DEF PoolKnown, TypeOK, tcp_pop, RestOfPool
<1> QED BY <1>1, <1>2

-----------------------------------------------------------------------------
(* Descriptors. *)

\* While a socket has none, there is one left.
LEMMA NewFdTyped ==
    ASSUME TypeOK, NEW s \in Sockets, fd[s] = Nil
    PROVE  NewFd \in Descriptors
<1> DEFINE Others == Sockets \ {s}
           Image == {fd[x] : x \in Others}
<1>1. IsFiniteSet(Others) /\ Cardinality(Others) = Cardinality(Sockets) - 1 /\ Cardinality(Sockets) \in Nat
  BY FS_RemoveElement, FS_CardinalityType, SocketsAssumption
<1>2. IsFiniteSet(Image) /\ Cardinality(Image) <= Cardinality(Others)
  <2> DEFINE f == [x \in Others |-> fd[x]]
  <2>1. f \in Surjection(Others, Image)
    BY DEF Surjection
  <2> QED BY <1>1, <2>1, FS_Surjection
<1>3. OpenFds \subseteq Image
  BY DEF OpenFds
<1>4. IsFiniteSet(OpenFds) /\ Cardinality(OpenFds) <= Cardinality(Image)
  BY <1>2, <1>3, FS_Subset
<1>5. IsFiniteSet(Descriptors) /\ Cardinality(Descriptors) = Cardinality(Sockets)
  BY <1>1, FS_Interval DEF Descriptors
<1>6. Descriptors \ OpenFds # {}
  <2> SUFFICES ASSUME Descriptors \subseteq OpenFds PROVE FALSE
    OBVIOUS
  <2>1. Cardinality(Descriptors) <= Cardinality(OpenFds)
    BY <1>4, FS_Subset
  <2>2. Cardinality(OpenFds) \in Nat /\ Cardinality(Image) \in Nat
    BY <1>2, <1>4, FS_CardinalityType
  <2> QED BY <1>1, <1>2, <1>4, <1>5, <2>1, <2>2
<1>7. Descriptors \ OpenFds \subseteq Nat
  BY <1>1 DEF Descriptors
<1>8. Least(Descriptors \ OpenFds) \in Descriptors \ OpenFds
  BY <1>6, <1>7, LeastIsIn
<1> QED BY <1>8 DEF NewFd

-----------------------------------------------------------------------------
(* A wait begins. *)

\* Nothing is about c.
Unseen(c) ==
    /\ \A w \in Watchers : armed[w] # Nil => armed[w].co # c
    /\ \A t \in timers \union Spawned(queue) : t.co # c
    /\ \A s \in Sockets, r \in Roles : current_co[s][r] # c

\* c is no longer in the queue, where nothing else changes.
Dequeued(c) ==
    /\ queue' \in Seq(Items) /\ IsSound(queue') /\ ItemsFit(queue', n)
    /\ Woken(queue') = Woken(queue) \ {c} /\ Spawned(queue') = Spawned(queue)

\* Who else waits at s does not stand in the way of c.
Alone(c, s, kind) ==
    \A e \in Coroutines : e # c /\ at[e] # Nil /\ at[e].sock = s =>
        IF kind \in Senders THEN at[e].kind # "resolve" ELSE at[e].kind \in Senders

\* What the steps that begin a wait do to their socket.
Prepares(c, s, kind, d, timed) ==
    /\ kind \in Senders => ~timed /\ io[s]["send"] = Nil
    /\ fd' \in [Sockets -> Descriptors \union {Nil}] /\ \A x \in Sockets \ {s} : fd'[x] = fd[x]
    /\ fd'[s] = d \/ kind = "readline"
    /\ fd'[s] = fd[s] \/ \A e \in Coroutines : e # c /\ at[e] # Nil => at[e].sock # s
    /\ used \subseteq used' /\ used' \subseteq Sockets /\ s \in used'
    /\ send_co' \in [Sockets -> BOOLEAN] /\ \A x \in Sockets : send_co[x] => send_co'[x]
    /\ kind = "send" => send_co'[s]
    /\ timeout' = timeout /\ partial' \subseteq Sockets /\ torn' \subseteq Sockets

\* Whoever begins to wait, the invariant is kept.
LEMMA WaitKeeps ==
    ASSUME IInv, NEW c \in Coroutines, NEW s \in Sockets, NEW kind \in IoKinds, NEW d \in Descriptors,
           NEW timed \in BOOLEAN, Wait(c, s, kind, d, timed), Unseen(c), Dequeued(c), Alone(c, s, kind),
           Prepares(c, s, kind, d, timed)
    PROVE  IInv'
<1> DEFINE k == n[c] + 1
           w == tcp_pop
           slot == SlotOf(kind)
           role == RoleOf(kind)
           a == [kind |-> kind, sock |-> s, co |-> c, k |-> k, fd |-> d]
           t == [co |-> c, k |-> k, sock |-> s, kind |-> kind]
           b == [kind |-> kind, sock |-> s, fd |-> d, timed |-> timed]
<1>1. /\ w \in Watchers /\ armed[w] = Nil
      /\ RestOfPool \in Seq(Watchers) /\ Distinct(RestOfPool)
      /\ Elements(RestOfPool) \subseteq Elements(POOL) /\ w \notin Elements(RestOfPool)
  BY PopGives DEF IInv, Unseen
<1>2. /\ k \in Nat /\ k # n[c] /\ slot \in Slots /\ (kind # "readline" => role \in Roles) /\ kind # "resolve"
      /\ kind \in Senders <=> slot = "send"
  BY KindsOfSlots DEF IInv, TypeOK
<1>3. a \in Arms /\ a # Nil /\ a.kind = kind /\ a.sock = s /\ a.co = c /\ a.k = k /\ a.fd = d
  BY <1>2, NilAssumption DEF Arms
<1>4. b \in Waits /\ b # Nil /\ b.kind = kind /\ b.sock = s /\ b.fd = d /\ b.timed = timed
  BY NilAssumption DEF Waits
<1>5. /\ t.co = c /\ t.k = k /\ t.sock = s /\ t.kind = kind
      /\ kind \notin Senders => t \in Timers /\ t # Nil
  BY <1>2, NilAssumption DEF Timers
<1>6. /\ n' = [n EXCEPT ![c] = k] /\ at' = [at EXCEPT ![c] = b] /\ POOL' = RestOfPool
      /\ armed' = [armed EXCEPT ![w] = a] /\ io' = [io EXCEPT ![s][slot] = w]
      /\ current_co' = IF kind = "readline" THEN current_co ELSE [current_co EXCEPT ![s][role] = c]
      /\ IF kind \in Senders THEN UNCHANGED <<timer, timers>>
         ELSE /\ timer' = [timer EXCEPT ![s] = IF timed THEN t ELSE Nil]
              /\ timers' = IF timed THEN timers \union {t} ELSE timers
      /\ turn' = "main"
  BY DEF Wait
<1> HIDE DEF a, b, t, w, slot, role, k
<1>7. /\ n' \in [Coroutines -> Nat] /\ n'[c] = k /\ \A e \in Coroutines : e # c => n'[e] = n[e]
      /\ at' \in [Coroutines -> Waits \union {Nil}] /\ at'[c] = b /\ \A e \in Coroutines : e # c => at'[e] = at[e]
      /\ armed' \in [Watchers -> Arms \union {Nil}] /\ armed'[w] = a /\ \A v \in Watchers : v # w => armed'[v] = armed[v]
  BY <1>1, <1>2, <1>3, <1>4, <1>6 DEF IInv, TypeOK
<1>8. /\ io' \in [Sockets -> [Slots -> Watchers \union {Nil}]] /\ io'[s][slot] = w
      /\ \A x \in Sockets, y \in Slots : x # s \/ y # slot => io'[x][y] = io[x][y]
  BY <1>1, <1>2, <1>6 DEF IInv, TypeOK
<1>9. /\ current_co' \in [Sockets -> [Roles -> Coroutines \union {Nil}]]
      /\ kind # "readline" => current_co'[s][role] = c
      /\ \A x \in Sockets, y \in Roles : kind = "readline" \/ x # s \/ y # role => current_co'[x][y] = current_co[x][y]
  <2>1. CASE kind = "readline"
    BY <1>6, <2>1 DEF IInv, TypeOK
  <2>2. CASE kind # "readline"
    BY <1>2, <1>6, <2>2 DEF IInv, TypeOK
  <2> QED BY <2>1, <2>2
<1>10. /\ timer' \in [Sockets -> Timers \union {Nil}] /\ timers' \subseteq Timers
       /\ timers \subseteq timers' /\ timers' \subseteq timers \union {t}
       /\ \A x \in Sockets : kind \in Senders \/ x # s => timer'[x] = timer[x]
       /\ kind \notin Senders /\ ~timed => timer'[s] = Nil /\ timers' = timers
       /\ kind \notin Senders /\ timed => timer'[s] = t /\ t \in timers'
       /\ kind \in Senders => timers' = timers
  <2>1. timer \in [Sockets -> Timers \union {Nil}] /\ timers \subseteq Timers
    BY DEF IInv, TypeOK
  <2>2. CASE kind \in Senders
    BY <1>6, <2>1, <2>2
  <2>3. CASE kind \notin Senders /\ timed
    BY <1>5, <1>6, <2>1, <2>3
  <2>4. CASE kind \notin Senders /\ ~timed
    BY <1>5, <1>6, <2>1, <2>4
  <2> QED BY <2>2, <2>3, <2>4
<1>11. TypeOK'
  BY <1>1, <1>6, <1>7, <1>8, <1>9, <1>10 DEF IInv, TypeOK, Dequeued, Prepares
<1>12. c \notin Woken(queue') /\ Woken(queue') \subseteq Woken(queue) /\ Woken(queue) \subseteq Woken(queue') \union {c}
       /\ Spawned(queue') = Spawned(queue)
  BY DEF Dequeued
<1>13. QueueKnown'
  <2>1. ItemsFit(queue', n')
    <3>1. queue' \in Seq(Items) /\ ItemsFit(queue', n)
      BY DEF Dequeued
    <3>2. \A i \in DOMAIN queue' : queue'[i].what = "co" => queue'[i].co \in Coroutines /\ queue'[i].co # c
      BY <1>12, <3>1, ItemTypes DEF Woken
    <3> QED BY <1>7, <3>1, <3>2 DEF ItemsFit
  <2> QED BY <1>6, <2>1, CoroutinesAssumption DEF QueueKnown, Dequeued
<1>14. PoolKnown'
  <2>1. Distinct(POOL') /\ Elements(POOL') = Elements(RestOfPool)
    BY <1>1, <1>6
  <2>2. \A v \in Elements(POOL) : v \in Watchers /\ armed[v] = Nil
    <3>1. \A i \in 1..Len(POOL) : POOL[i] \in Watchers
      BY ElementOfSeq DEF IInv, TypeOK
    <3> QED BY <3>1 DEF IInv, PoolKnown, Elements
  <2>3. \A v \in Elements(POOL') : v \in Watchers /\ v # w /\ armed'[v] = Nil
    BY <1>1, <1>7, <2>1, <2>2
  <2>4. Distinct(POOL)' /\ \A v \in Elements(POOL)' : armed'[v] = Nil
    BY <2>1, <2>3 DEF Distinct, Elements
  <2> QED BY <2>4 DEF PoolKnown
<1>15. io[s][slot] = Nil
  <2>1. CASE kind \in Senders
    BY <1>2, <2>1 DEF Prepares
  <2>2. CASE kind \notin Senders
    <3> SUFFICES ASSUME io[s][slot] # Nil PROVE FALSE
      OBVIOUS
    <3>1. PICK v \in Watchers : v = io[s][slot]
      BY <1>2 DEF IInv, TypeOK
    <3>2. armed[v] # Nil /\ armed[v].sock = s /\ SlotOf(armed[v].kind) = slot
      BY <1>2, <3>1 DEF IInv, SlotsKnown
    <3>3. armed[v] \in Arms
      BY <3>2 DEF IInv, TypeOK
    <3>4. armed[v].kind \in IoKinds /\ armed[v].co \in Coroutines
      BY <3>3 DEF Arms
    <3>5. InWait(armed[v].co, armed[v].k, armed[v].kind, s) /\ armed[v].co # c
      BY <3>2 DEF IInv, ArmedKnown, Unseen
    <3>6. armed[v].kind \in Senders
      BY <2>2, <3>4, <3>5 DEF InWait, Alone
    <3> QED BY <1>2, <2>2, <3>2, <3>4, <3>6, KindsOfSlots
  <2> QED BY <2>1, <2>2
<1>16. SlotsKnown'
  <2> SUFFICES ASSUME NEW x \in Sockets, NEW y \in Slots, io'[x][y] # Nil
               PROVE  armed'[io'[x][y]] # Nil /\ armed'[io'[x][y]].sock = x /\ SlotOf(armed'[io'[x][y]].kind) = y
    BY DEF SlotsKnown
  <2>1. CASE x = s /\ y = slot
    BY <1>3, <1>7, <1>8, <2>1 DEF slot
  <2>2. CASE x # s \/ y # slot
    <3>1. PICK v \in Watchers : v = io[x][y]
      BY <1>8, <2>2 DEF IInv, TypeOK
    <3>2. io'[x][y] = v /\ armed[v] # Nil /\ armed[v].sock = x /\ SlotOf(armed[v].kind) = y
      BY <1>8, <2>2, <3>1 DEF IInv, SlotsKnown
    <3>3. v # w
      BY <1>1, <3>2
    <3> QED BY <1>7, <3>2, <3>3
  <2> QED BY <2>1, <2>2
<1>17. ASSUME NEW e \in Coroutines, at[e] # Nil
       PROVE  at[e] \in Waits /\ at[e].sock \in Sockets /\ (e # c => fd'[at[e].sock] = fd[at[e].sock])
  <2>1. at[e] \in Waits /\ at[e].sock \in Sockets
    BY <1>17 DEF IInv, TypeOK, Waits
  <2> QED BY <1>17, <2>1 DEF Prepares
<1>18. \A e \in Coroutines : e # c => (Abandoned(e)' <=> Abandoned(e))
  <2> SUFFICES ASSUME NEW e \in Coroutines, e # c PROVE Abandoned(e)' <=> Abandoned(e)
    OBVIOUS
  <2>1. at'[e] = at[e] /\ (at[e] # Nil => fd'[at[e].sock] = fd[at[e].sock])
    BY <1>7, <1>17
  <2>2. CASE at[e] = Nil
    BY <2>1, <2>2 DEF Abandoned
  <2>3. CASE at[e] # Nil
    <3>1. fd'[at'[e].sock] = fd[at[e].sock]
      BY <2>1, <2>3
    <3> QED BY <2>1, <3>1 DEF Abandoned
  <2> QED BY <2>2, <2>3
<1>19. ArmedKnown'
  <2> SUFFICES ASSUME NEW v \in Watchers, armed'[v] # Nil,
                      NEW e, e = armed'[v]
               PROVE  /\ io'[e.sock][SlotOf(e.kind)] = v
                      /\ InWait(e.co, e.k, e.kind, e.sock)' /\ e.co \notin Woken(queue')
                      /\ fd'[e.sock] = e.fd \/ Abandoned(e.co)'
                      /\ e.kind = "send" => send_co'[e.sock]
                      /\ e.kind # "readline" => current_co'[e.sock][RoleOf(e.kind)] = e.co
    BY DEF ArmedKnown
  <2>1. CASE v = w
    <3>1. e = a
      BY <1>7, <2>1
    <3>2. io'[e.sock][SlotOf(e.kind)] = v /\ InWait(e.co, e.k, e.kind, e.sock)' /\ e.co \notin Woken(queue')
      BY <1>3, <1>4, <1>7, <1>8, <1>12, <2>1, <3>1 DEF InWait, slot
    <3>3. fd'[e.sock] = e.fd \/ Abandoned(e.co)'
      BY <1>3, <1>4, <1>7, <3>1 DEF Abandoned, Prepares
    <3>4. e.kind = "send" => send_co'[e.sock]
      BY <1>3, <3>1 DEF Prepares
    <3>5. e.kind # "readline" => current_co'[e.sock][RoleOf(e.kind)] = e.co
      BY <1>3, <1>9, <3>1 DEF role
    <3> QED BY <3>2, <3>3, <3>4, <3>5
  <2>2. CASE v # w
    <3>1. e = armed[v] /\ e # Nil
      BY <1>7, <2>2
    <3>2. e \in Arms
      BY <3>1 DEF IInv, TypeOK
    <3>3. e.kind \in IoKinds /\ e.sock \in Sockets /\ e.co \in Coroutines /\ SlotOf(e.kind) \in Slots
      BY <3>2, KindsOfSlots DEF Arms
    <3>4. /\ io[e.sock][SlotOf(e.kind)] = v
          /\ InWait(e.co, e.k, e.kind, e.sock) /\ e.co \notin Woken(queue)
          /\ fd[e.sock] = e.fd \/ Abandoned(e.co)
          /\ e.kind = "send" => send_co[e.sock]
          /\ e.kind # "readline" => current_co[e.sock][RoleOf(e.kind)] = e.co
      BY <3>1 DEF IInv, ArmedKnown
    <3>5. e.co # c
      BY <3>1 DEF Unseen
    <3>6. v # Nil
      BY NilAssumption, WatchersAssumption
    <3>7. ~(e.sock = s /\ SlotOf(e.kind) = slot)
      BY <1>15, <3>4, <3>6
    <3>8. io'[e.sock][SlotOf(e.kind)] = v
      BY <1>8, <3>3, <3>4, <3>7
    <3>9. InWait(e.co, e.k, e.kind, e.sock)' /\ e.co \notin Woken(queue')
      BY <1>7, <1>12, <3>3, <3>4, <3>5 DEF InWait
    <3>10. fd'[e.sock] = e.fd \/ Abandoned(e.co)'
      <4>1. at[e.co] # Nil /\ at[e.co].sock = e.sock
        BY <3>4 DEF InWait
      <4>2. fd'[e.sock] = fd[e.sock]
        BY <1>17, <3>3, <3>5, <4>1
      <4> QED BY <1>18, <3>3, <3>4, <3>5, <4>2
    <3>11. e.kind = "send" => send_co'[e.sock]
      BY <3>3, <3>4 DEF Prepares
    <3>12. e.kind # "readline" => current_co'[e.sock][RoleOf(e.kind)] = e.co
      <4> SUFFICES ASSUME e.kind # "readline" PROVE current_co'[e.sock][RoleOf(e.kind)] = e.co
        OBVIOUS
      <4>1. RoleOf(e.kind) \in Roles
        BY <3>3, KindsOfSlots
      <4>2. kind = "readline" \/ e.sock # s \/ RoleOf(e.kind) # role
        BY <3>3, <3>7, RolesTellSlots DEF role, slot
      <4> QED BY <1>9, <3>3, <3>4, <4>1, <4>2
    <3> QED BY <3>8, <3>9, <3>10, <3>11, <3>12
  <2> QED BY <2>1, <2>2
<1>20. ASSUME NEW u \in Timers, u.co # c, u.sock = s, InWait(u.co, u.k, u.kind, u.sock)
       PROVE  kind \in Senders
  <2>1. u.co \in Coroutines /\ u.kind \notin Senders
    BY <1>20 DEF Timers
  <2> QED BY <1>20, <2>1 DEF InWait, Alone
<1>21. ASSUME NEW u \in Timers, u.co # c, InWait(u.co, u.k, u.kind, u.sock)
       PROVE  InWait(u.co, u.k, u.kind, u.sock)'
  BY <1>7, <1>21 DEF InWait, Timers
<1>22. TimersKnown'
  <2>1. ASSUME NEW u \in timers'
        PROVE  InWait(u.co, u.k, u.kind, u.sock)' /\ u.co \notin Woken(queue') /\ timer'[u.sock] = u
    <3>1. CASE u \in timers
      <4>1. u \in Timers /\ u.sock \in Sockets
        BY <3>1 DEF IInv, TypeOK, Timers
      <4>2. InWait(u.co, u.k, u.kind, u.sock) /\ u.co \notin Woken(queue) /\ timer[u.sock] = u /\ u.co # c
        BY <3>1 DEF IInv, TimersKnown, Unseen
      <4> QED BY <1>10, <1>12, <1>20, <1>21, <4>1, <4>2
    <3>2. CASE u \notin timers
      <4>1. u = t /\ kind \notin Senders /\ timed
        BY <1>10, <2>1, <3>2
      <4> QED BY <1>4, <1>5, <1>7, <1>10, <1>12, <4>1 DEF InWait
    <3> QED BY <3>1, <3>2
  <2>2. \A x \in Sockets : timer'[x] # Nil => timer'[x].sock = x
    BY <1>5, <1>10 DEF IInv, TimersKnown
  <2> QED BY <2>1, <2>2 DEF TimersKnown
<1>23. CallbacksKnown'
  <2> SUFFICES ASSUME NEW u \in Spawned(queue)
               PROVE  /\ InWait(u.co, u.k, u.kind, u.sock)' /\ u \notin timers'
                      /\ u.co \in Woken(queue') => io'[u.sock][SlotOf(u.kind)] = Nil
    BY <1>12 DEF CallbacksKnown
  <2>1. u \in Timers
    BY SetsTyped DEF IInv, TypeOK
  <2>2. u.sock \in Sockets /\ u.kind \in IoKinds /\ u.kind \notin Senders /\ SlotOf(u.kind) \in Slots
    BY <2>1, KindsOfSlots DEF Timers
  <2>3. /\ u.co # c /\ InWait(u.co, u.k, u.kind, u.sock) /\ u \notin timers
        /\ u.co \in Woken(queue) => io[u.sock][SlotOf(u.kind)] = Nil
    BY DEF IInv, CallbacksKnown, Unseen
  <2>4. InWait(u.co, u.k, u.kind, u.sock)' /\ u \notin timers'
    BY <1>5, <1>10, <1>21, <2>1, <2>3
  <2>5. u.sock # s \/ SlotOf(u.kind) # slot
    BY <1>2, <1>20, <2>1, <2>2, <2>3, KindsOfSlots
  <2> QED BY <1>8, <1>12, <2>2, <2>3, <2>4, <2>5
<1>24. WaitsKnown'
  <2>1. \A x \in Sockets : fd'[x] # Nil => x \in used'
    BY DEF IInv, WaitsKnown, Prepares
  <2>2. ASSUME NEW e \in Coroutines, at'[e] # Nil
        PROVE  /\ at'[e].sock \in used'
               /\ at'[e].kind # "resolve" => at'[e].fd # Nil
               /\ at'[e].kind \in Senders => ~at'[e].timed
               /\ at'[e].kind = "resolve" => fd'[at'[e].sock] = Nil
    <3>1. CASE e = c
      <4>1. d # Nil
        BY NilAssumption, SocketsAssumption, FS_CardinalityType DEF Descriptors
      <4> QED BY <1>2, <1>4, <1>7, <3>1, <4>1 DEF Prepares
    <3>2. CASE e # c
      BY <1>7, <1>17, <2>2, <3>2 DEF IInv, WaitsKnown, Prepares
    <3> QED BY <3>1, <3>2
  <2>3. ASSUME NEW e \in Coroutines, NEW f \in Coroutines PROVE Together(e, f)'
    <3>1. CASE e # c /\ f # c
      <4>1. Together(e, f)
        BY DEF IInv, WaitsKnown
      <4> QED BY <1>7, <3>1, <4>1 DEF Together
    <3>2. CASE e = c /\ f # c
      BY <1>2, <1>4, <1>7, <3>2 DEF Together, Alone
    <3>3. CASE e # c /\ f = c
      BY <1>2, <1>4, <1>7, <3>3 DEF Together, Alone
    <3>4. CASE e = c /\ f = c
      BY <3>4 DEF Together
    <3> QED BY <3>1, <3>2, <3>3, <3>4
  <2> QED BY <2>1, <2>2, <2>3 DEF WaitsKnown
<1>25. Reached'
  <2> SUFFICES ASSUME NEW e \in Coroutines, at'[e] # Nil, at'[e].kind # "resolve"
               PROVE  \/ Abandoned(e)' \/ e \in Woken(queue')
                      \/ Waker(e)' /\ (at'[e].timed => \E u \in timers' \union Spawned(queue') : Mine(e, u)')
    BY DEF Reached
  <2>1. CASE e = c
    <3>1. Waker(e)'
      BY <1>1, <1>3, <1>7, <2>1 DEF Waker
    <3>2. at'[e].timed => \E u \in timers' : Mine(e, u)'
      <4>1. at'[e].timed = timed
        BY <1>4, <1>7, <2>1
      <4>2. timed => kind \notin Senders
        BY DEF Prepares
      <4>3. t.co = e /\ t.k = n'[e]
        BY <1>5, <1>7, <2>1
      <4> QED BY <1>10, <4>1, <4>2, <4>3 DEF Mine
    <3> QED BY <3>1, <3>2
  <2>2. CASE e # c
    <3>1. at[e] # Nil /\ at[e].kind # "resolve" /\ at'[e] = at[e]
      BY <1>7, <2>2
    <3>2. \/ Abandoned(e) \/ e \in Woken(queue)
          \/ Waker(e) /\ (at[e].timed => \E u \in timers \union Spawned(queue) : Mine(e, u))
      BY <3>1 DEF IInv, Reached
    <3>3. Waker(e) => Waker(e)'
      BY <1>1, <1>7 DEF Waker
    <3>4. \A u : Mine(e, u) => Mine(e, u)'
      BY <1>7, <2>2 DEF Mine
    <3> QED BY <1>10, <1>12, <1>18, <2>2, <3>1, <3>2, <3>3, <3>4
  <2> QED BY <2>1, <2>2
<1>26. CurrentKnown'
  <2> SUFFICES ASSUME NEW x \in Sockets, NEW r \in Roles, NEW e, e = current_co'[x][r], e # Nil
               PROVE  /\ at'[e] # Nil /\ at'[e].sock = x
                      /\ at'[e].kind \notin {"resolve", "readline"} /\ RoleOf(at'[e].kind) = r
                      /\ turn' # e /\ e \notin Woken(queue')
    BY DEF CurrentKnown
  <2>1. e \in Coroutines
    BY <1>9
  <2>2. turn' # e
    BY <1>6, <2>1, CoroutinesAssumption
  <2>3. CASE kind # "readline" /\ x = s /\ r = role
    BY <1>2, <1>4, <1>7, <1>9, <1>12, <2>2, <2>3 DEF role
  <2>4. CASE kind = "readline" \/ x # s \/ r # role
    <3>1. e = current_co[x][r] /\ e # c
      BY <1>9, <2>4 DEF Unseen
    <3>2. /\ at[e] # Nil /\ at[e].sock = x
          /\ at[e].kind \notin {"resolve", "readline"} /\ RoleOf(at[e].kind) = r
          /\ e \notin Woken(queue)
      BY <3>1 DEF IInv, CurrentKnown
    <3> QED BY <1>7, <1>12, <2>1, <2>2, <3>1, <3>2
  <2> QED BY <2>3, <2>4
<1> QED BY <1>11, <1>13, <1>14, <1>16, <1>19, <1>22, <1>23, <1>24, <1>25, <1>26 DEF IInv

-----------------------------------------------------------------------------
(* Watchers are put back. *)

\* What becomes of the pool, the slots and the started watchers.
LEMMA Released ==
    ASSUME TypeOK, PoolKnown, SlotsKnown, ArmedKnown, NEW s \in Sockets, NEW slots \in SUBSET Slots, Release(s, slots)
    PROVE  /\ POOL' \in Seq(Watchers) /\ armed' \in [Watchers -> Arms \union {Nil}]
           /\ io' \in [Sockets -> [Slots -> Watchers \union {Nil}]]
           /\ PoolKnown' /\ SlotsKnown'
           /\ \A y \in slots : io'[s][y] = Nil
           /\ \A x \in Sockets, y \in Slots : x # s \/ y \notin slots => io'[x][y] = io[x][y]
           /\ \A v \in Watchers : armed'[v] # Nil =>
                  armed'[v] = armed[v] /\ ~(armed[v].sock = s /\ SlotOf(armed[v].kind) \in slots)
           /\ \A v \in Watchers : (\A y \in slots : io[s][y] # v) => armed'[v] = armed[v]
<1> DEFINE w(y) == IF y \in slots THEN io[s][y] ELSE Nil
           held(y) == IF w(y) = Nil THEN <<>> ELSE <<w(y)>>
           p1 == POOL \o held("read")
           p2 == p1 \o held("send")
           p3 == p2 \o held("connect")
<1>1. /\ POOL' = p3
      /\ armed' = [v \in Watchers |-> IF \E y \in slots : io[s][y] = v THEN Nil ELSE armed[v]]
      /\ io' = [io EXCEPT ![s] = [y \in Slots |-> IF y \in slots THEN Nil ELSE @[y]]]
  BY DEF Release
<1>2. POOL \in Seq(Watchers) /\ armed \in [Watchers -> Arms \union {Nil}] /\ io \in [Sockets -> [Slots -> Watchers \union {Nil}]]
  BY DEF TypeOK
<1>3. /\ io' \in [Sockets -> [Slots -> Watchers \union {Nil}]]
      /\ \A y \in slots : io'[s][y] = Nil
      /\ \A x \in Sockets, y \in Slots : x # s \/ y \notin slots => io'[x][y] = io[x][y]
  BY <1>1, <1>2
<1>4. /\ armed' \in [Watchers -> Arms \union {Nil}]
      /\ \A v \in Watchers : (\A y \in slots : io[s][y] # v) => armed'[v] = armed[v]
      /\ \A v \in Watchers : (\E y \in slots : io[s][y] = v) => armed'[v] = Nil
  BY <1>1, <1>2
<1>5. Nil \notin Watchers
  BY NilAssumption, WatchersAssumption
<1>6. \A y, z \in Slots : w(y) # Nil /\ w(y) = w(z) => y = z
  BY DEF SlotsKnown
<1>7. \A y \in Slots : w(y) \in Watchers \union {Nil}
  BY <1>2
<1>8. \A y \in Slots : w(y) \notin Elements(POOL)
  <2>1. \A v \in Elements(POOL) : v \in Watchers /\ armed[v] = Nil
    <3>1. \A i \in 1..Len(POOL) : POOL[i] \in Watchers
      BY <1>2, ElementOfSeq
    <3> QED BY <3>1 DEF PoolKnown, Elements
  <2> QED BY <1>5, <2>1 DEF SlotsKnown
<1>9. "read" \in Slots /\ "send" \in Slots /\ "connect" \in Slots
  BY DEF Slots
<1>10. Nil \notin Elements(POOL)
  <2>1. \A i \in 1..Len(POOL) : POOL[i] \in Watchers
    BY <1>2, ElementOfSeq
  <2> QED BY <1>5, <2>1 DEF Elements
<1> HIDE DEF w
<1>11. p1 \in Seq(Watchers) /\ Distinct(p1) /\ Elements(p1) = Elements(POOL) \union ({w("read")} \ {Nil})
  BY <1>2, <1>7, <1>8, <1>9, PoolGrows DEF PoolKnown
<1> HIDE DEF p1
<1>12. w("send") \notin Elements(p1)
  BY <1>6, <1>8, <1>9, <1>10, <1>11
<1>13. p2 \in Seq(Watchers) /\ Distinct(p2) /\ Elements(p2) = Elements(p1) \union ({w("send")} \ {Nil})
  BY <1>7, <1>9, <1>11, <1>12, PoolGrows
<1> HIDE DEF p2
<1>14. w("connect") \notin Elements(p2)
  BY <1>6, <1>8, <1>9, <1>10, <1>11, <1>13
<1>15. p3 \in Seq(Watchers) /\ Distinct(p3) /\ Elements(p3) = Elements(p2) \union ({w("connect")} \ {Nil})
  BY <1>7, <1>9, <1>13, <1>14, PoolGrows
<1> HIDE DEF p3
<1>16. PoolKnown'
  <2>1. ASSUME NEW v \in Elements(p3) PROVE armed'[v] = Nil
    <3>1. CASE v \in Elements(POOL)
      <4>1. v \in Watchers /\ armed[v] = Nil
        <5>1. \A i \in 1..Len(POOL) : POOL[i] \in Watchers
          BY <1>2, ElementOfSeq
        <5> QED BY <3>1, <5>1 DEF PoolKnown, Elements
      <4> QED BY <1>4, <4>1
    <3>2. CASE v \notin Elements(POOL)
      <4>1. \E y \in Slots : v = w(y) /\ w(y) # Nil
        BY <1>9, <1>11, <1>13, <1>15, <2>1, <3>2
      <4>2. v \in Watchers /\ \E y \in slots : io[s][y] = v
        BY <1>7, <4>1 DEF w
      <4> QED BY <1>4, <4>2
    <3> QED BY <3>1, <3>2
  <2>2. Distinct(POOL') /\ \A v \in Elements(POOL') : armed'[v] = Nil
    BY <1>1, <1>15, <2>1
  <2>3. Distinct(POOL)' /\ \A v \in Elements(POOL)' : armed'[v] = Nil
    BY <2>2 DEF Distinct, Elements
  <2> QED BY <2>3 DEF PoolKnown
<1>17. SlotsKnown'
  <2> SUFFICES ASSUME NEW x \in Sockets, NEW y \in Slots, io'[x][y] # Nil
               PROVE  armed'[io'[x][y]] # Nil /\ armed'[io'[x][y]].sock = x /\ SlotOf(armed'[io'[x][y]].kind) = y
    BY DEF SlotsKnown
  <2>1. (x # s \/ y \notin slots) /\ io'[x][y] = io[x][y]
    BY <1>3
  <2>2. PICK v \in Watchers : v = io[x][y]
    BY <1>2, <2>1
  <2>3. armed[v] # Nil /\ armed[v].sock = x /\ SlotOf(armed[v].kind) = y
    BY <2>1, <2>2 DEF SlotsKnown
  <2>4. \A z \in slots : io[s][z] # v
    BY <1>5, <2>1, <2>3 DEF SlotsKnown
  <2> QED BY <1>4, <2>1, <2>2, <2>3, <2>4
<1>18. ASSUME NEW v \in Watchers, armed'[v] # Nil
       PROVE  armed'[v] = armed[v] /\ ~(armed[v].sock = s /\ SlotOf(armed[v].kind) \in slots)
  BY <1>4, <1>18 DEF ArmedKnown
<1> QED BY <1>1, <1>3, <1>4, <1>15, <1>16, <1>17, <1>18

-----------------------------------------------------------------------------
(* A wait is over: an event or a time-out wakes c, and nothing else is about c any more. *)

\* What the steps that wake c have in common: no *_current_co names it, ...
Forgets(c) ==
    /\ current_co' \in [Sockets -> [Roles -> Coroutines \union {Nil}]]
    /\ \A x \in Sockets, r \in Roles :
          /\ current_co'[x][r] # c /\ current_co'[x][r] \in {current_co[x][r], Nil}
          /\ current_co[x][r] \notin {c, Nil} => current_co'[x][r] = current_co[x][r]

\* ... its timer is gone, and no other, ...
Rests(c) ==
    /\ timer' \in [Sockets -> Timers \union {Nil}] /\ \A x \in Sockets : timer'[x] \in {timer[x], Nil}
    /\ timers' \subseteq timers
    /\ \A t \in timers : t.co # c => t \in timers'
    /\ \A t \in timers' : t.co # c /\ timer'[t.sock] = t

\* ... and it is in the queue.
Silences(c) ==
    /\ Forgets(c) /\ Rests(c)
    /\ queue' \in Seq(Items) /\ IsSound(queue') /\ ItemsFit(queue', n)
    /\ Woken(queue') = Woken(queue) \union {c} /\ Spawned(queue') \subseteq Spawned(queue)
    /\ \A t \in Spawned(queue) : t.co # c => t \in Spawned(queue')
    /\ send_co' \in [Sockets -> BOOLEAN]
    /\ \A x \in Sockets : send_co[x] => send_co'[x] \/ (x = at[c].sock /\ at[c].kind = "send")
    /\ turn \notin Coroutines /\ partial' \subseteq Sockets
    /\ UNCHANGED <<used, fd, timeout, at, n, turn, torn>>

\* Whatever ends a wait, the invariant is kept.
LEMMA WakeKeeps ==
    ASSUME IInv, NEW c \in Coroutines, at[c] # Nil, at[c].kind # "resolve",
           Release(at[c].sock, {SlotOf(at[c].kind)}), Silences(c),
           \A w \in Watchers : armed[w] # Nil /\ io[at[c].sock][SlotOf(at[c].kind)] = w => armed[w].co = c
    PROVE  IInv'
<1> DEFINE s == at[c].sock
           kind == at[c].kind
           slot == SlotOf(kind)
<1>1. s \in Sockets /\ kind \in IoKinds /\ slot \in Slots
  <2>1. at[c] \in Waits
    BY DEF IInv, TypeOK
  <2> QED BY <2>1, KindsOfSlots DEF Waits
<1>2. PICK u, k, l : u = s /\ k = kind /\ l = slot
  OBVIOUS
<1>3. {l} \in SUBSET Slots /\ u \in Sockets /\ l \in Slots /\ l = SlotOf(k)
  BY <1>1, <1>2
<1>4. Release(u, {l})
  BY <1>2
<1>5. /\ POOL' \in Seq(Watchers) /\ armed' \in [Watchers -> Arms \union {Nil}]
      /\ io' \in [Sockets -> [Slots -> Watchers \union {Nil}]]
      /\ PoolKnown' /\ SlotsKnown'
      /\ \A y \in {l} : io'[u][y] = Nil
      /\ \A x \in Sockets, y \in Slots : x # u \/ y \notin {l} => io'[x][y] = io[x][y]
      /\ \A v \in Watchers : armed'[v] # Nil =>
             armed'[v] = armed[v] /\ ~(armed[v].sock = u /\ SlotOf(armed[v].kind) \in {l})
      /\ \A v \in Watchers : (\A y \in {l} : io[u][y] # v) => armed'[v] = armed[v]
  BY <1>3, <1>4, Released DEF IInv
<1>6. at' = at /\ n' = n /\ fd' = fd /\ used' = used /\ turn' = turn /\ \A e \in Coroutines : Abandoned(e)' <=> Abandoned(e)
  BY DEF Silences, Abandoned
<1>7. TypeOK'
  BY <1>5 DEF IInv, TypeOK, Silences, Forgets, Rests
<1>8. QueueKnown'
  BY DEF QueueKnown, Silences
<1>9. \A e, j, m, x : InWait(e, j, m, x)' <=> InWait(e, j, m, x)
  BY <1>6 DEF InWait
<1>10. \A e \in Coroutines : e # c => (e \in Woken(queue') <=> e \in Woken(queue))
  BY DEF Silences
<1>11. at[c].sock = u /\ at[c].kind = k
  BY <1>2
<1>12. ArmedKnown'
  <2> SUFFICES ASSUME NEW v \in Watchers, armed'[v] # Nil,
                      NEW e, e = armed'[v]
               PROVE  /\ io'[e.sock][SlotOf(e.kind)] = v
                      /\ InWait(e.co, e.k, e.kind, e.sock)' /\ e.co \notin Woken(queue')
                      /\ fd'[e.sock] = e.fd \/ Abandoned(e.co)'
                      /\ e.kind = "send" => send_co'[e.sock]
                      /\ e.kind # "readline" => current_co'[e.sock][RoleOf(e.kind)] = e.co
    BY DEF ArmedKnown
  <2>1. e = armed[v] /\ e # Nil /\ ~(e.sock = u /\ SlotOf(e.kind) = l)
    BY <1>5
  <2>2. e \in Arms
    BY <2>1 DEF IInv, TypeOK
  <2>3. e.kind \in IoKinds /\ e.sock \in Sockets /\ e.co \in Coroutines /\ SlotOf(e.kind) \in Slots
    BY <2>2, KindsOfSlots DEF Arms
  <2>4. /\ io[e.sock][SlotOf(e.kind)] = v
        /\ InWait(e.co, e.k, e.kind, e.sock) /\ e.co \notin Woken(queue)
        /\ fd[e.sock] = e.fd \/ Abandoned(e.co)
        /\ e.kind = "send" => send_co[e.sock]
        /\ e.kind # "readline" => current_co[e.sock][RoleOf(e.kind)] = e.co
    BY <2>1 DEF IInv, ArmedKnown
  <2>5. e.co # c
    BY <1>3, <1>11, <2>1, <2>4 DEF InWait
  <2>6. io'[e.sock][SlotOf(e.kind)] = v /\ InWait(e.co, e.k, e.kind, e.sock)' /\ e.co \notin Woken(queue')
        /\ (fd'[e.sock] = e.fd \/ Abandoned(e.co)')
    BY <1>5, <1>6, <1>9, <1>10, <2>1, <2>3, <2>4, <2>5
  <2>7. e.kind = "send" => send_co'[e.sock]
    BY <1>3, <1>11, <2>1, <2>3, <2>4 DEF Silences
  <2>8. e.kind # "readline" => current_co'[e.sock][RoleOf(e.kind)] = e.co
    <3>1. e.co # Nil
      BY <2>3, NilAssumption
    <3> QED BY <2>3, <2>4, <2>5, <3>1, KindsOfSlots DEF Silences, Forgets
  <2> QED BY <2>6, <2>7, <2>8
<1>13. TimersKnown'
  <2>1. ASSUME NEW t \in timers'
        PROVE  InWait(t.co, t.k, t.kind, t.sock)' /\ t.co \notin Woken(queue') /\ timer'[t.sock] = t
    <3>1. t \in timers /\ t.co # c /\ timer'[t.sock] = t
      BY DEF Silences, Rests
    <3>2. t.co \in Coroutines
      BY <3>1 DEF IInv, TypeOK, Timers
    <3> QED BY <1>9, <1>10, <3>1, <3>2 DEF IInv, TimersKnown
  <2>2. \A x \in Sockets : timer'[x] # Nil => timer'[x].sock = x
    BY DEF IInv, TimersKnown, Silences, Rests
  <2> QED BY <2>1, <2>2 DEF TimersKnown
<1>14. CallbacksKnown'
  <2> SUFFICES ASSUME NEW t \in Spawned(queue')
               PROVE  /\ InWait(t.co, t.k, t.kind, t.sock)' /\ t \notin timers'
                      /\ t.co \in Woken(queue') => io'[t.sock][SlotOf(t.kind)] = Nil
    BY DEF CallbacksKnown
  <2>1. t \in Spawned(queue) /\ t \in Timers
    BY SetsTyped DEF IInv, TypeOK, Silences
  <2>2. t.sock \in Sockets /\ t.co \in Coroutines /\ t.kind \in IoKinds /\ SlotOf(t.kind) \in Slots
    BY <2>1, KindsOfSlots DEF Timers
  <2>3. /\ InWait(t.co, t.k, t.kind, t.sock) /\ t \notin timers
        /\ t.co \in Woken(queue) => io[t.sock][SlotOf(t.kind)] = Nil
    BY <2>1 DEF IInv, CallbacksKnown
  <2>4. InWait(t.co, t.k, t.kind, t.sock)' /\ t \notin timers'
    BY <1>9, <2>3 DEF Silences, Rests
  <2>5. CASE t.co = c
    BY <1>3, <1>5, <1>11, <2>3, <2>4, <2>5 DEF InWait
  <2>6. CASE t.co # c
    BY <1>5, <1>10, <2>2, <2>3, <2>4, <2>6
  <2> QED BY <2>5, <2>6
<1>15. WaitsKnown'
  BY <1>6 DEF IInv, WaitsKnown, Together
<1>16. Reached'
  <2> SUFFICES ASSUME NEW e \in Coroutines, at[e] # Nil, at[e].kind # "resolve"
               PROVE  \/ Abandoned(e) \/ e \in Woken(queue')
                      \/ Waker(e)' /\ (at[e].timed => \E t \in timers' \union Spawned(queue') : Mine(e, t))
    BY <1>6 DEF Reached, Mine
  <2>1. CASE e = c
    BY <2>1 DEF Silences
  <2>2. CASE e # c
    <3>1. \/ Abandoned(e) \/ e \in Woken(queue)
          \/ Waker(e) /\ (at[e].timed => \E t \in timers \union Spawned(queue) : Mine(e, t))
      BY DEF IInv, Reached
    <3>2. Waker(e) => Waker(e)'
      <4> SUFFICES ASSUME NEW v \in Watchers, armed[v] # Nil, armed[v].co = e PROVE armed'[v] = armed[v]
        BY DEF Waker
      <4>1. io[u][l] # v
        BY <1>2, <2>2
      <4> QED BY <1>5, <4>1
    <3>3. \A t \in timers \union Spawned(queue) : Mine(e, t) => t \in timers' \union Spawned(queue')
      BY <2>2 DEF Mine, Silences, Rests
    <3> QED BY <1>10, <2>2, <3>1, <3>2, <3>3
  <2> QED BY <2>1, <2>2
<1>17. CurrentKnown'
  <2> SUFFICES ASSUME NEW x \in Sockets, NEW r \in Roles, NEW e, e = current_co'[x][r], e # Nil
               PROVE  /\ at[e] # Nil /\ at[e].sock = x
                      /\ at[e].kind \notin {"resolve", "readline"} /\ RoleOf(at[e].kind) = r
                      /\ turn # e /\ e \notin Woken(queue')
    BY <1>6 DEF CurrentKnown
  <2>1. e = current_co[x][r] /\ e # c /\ e \in Coroutines
    BY DEF Silences, Forgets
  <2> QED BY <1>10, <2>1 DEF IInv, CurrentKnown
<1> QED BY <1>5, <1>7, <1>8, <1>12, <1>13, <1>14, <1>15, <1>16, <1>17 DEF IInv

-----------------------------------------------------------------------------
(* Steps of the scheduler. *)

\* The model's word for it.
LEMMA QueuedIsWoken ==
    ASSUME queue \in Seq(Items), NEW c
    PROVE  Queued(c) <=> c \in Woken(queue)
<1>1. DOMAIN queue = 1..Len(queue)
  BY LenProperties
<1> QED BY <1>1 DEF Queued, Woken

\* Nothing is about a coroutine that waits for nothing, or for a name only.
LEMMA IdleIsUnseen ==
    ASSUME IInv, NEW c \in Coroutines, at[c] = Nil \/ at[c].kind = "resolve"
    PROVE  Unseen(c)
<1>1. ASSUME NEW w \in Watchers, armed[w] # Nil PROVE armed[w].co # c
  <2>1. armed[w] \in Arms /\ InWait(armed[w].co, armed[w].k, armed[w].kind, armed[w].sock)
    BY <1>1 DEF IInv, TypeOK, ArmedKnown
  <2>2. armed[w].kind # "resolve"
    BY <2>1, KindsOfSlots DEF Arms
  <2> QED BY <2>1, <2>2 DEF InWait
<1>2. ASSUME NEW t \in timers \union Spawned(queue) PROVE t.co # c
  <2>1. t \in Timers /\ InWait(t.co, t.k, t.kind, t.sock)
    BY SetsTyped DEF IInv, TypeOK, TimersKnown, CallbacksKnown
  <2>2. t.kind # "resolve"
    BY <2>1, KindsOfSlots DEF Timers
  <2> QED BY <2>1, <2>2 DEF InWait
<1>3. ASSUME NEW s \in Sockets, NEW r \in Roles PROVE current_co[s][r] # c
  BY NilAssumption DEF IInv, CurrentKnown
<1> QED BY <1>1, <1>2, <1>3 DEF Unseen

\* Nor about one that is resumed.
LEMMA ResumedIsUnseen ==
    ASSUME IInv, NEW c \in Coroutines, queue # <<>>, Head(queue).what = "co", Head(queue).co = c
    PROVE  /\ Unseen(c) /\ c \in Woken(queue)
           /\ Tail(queue) \in Seq(Items) /\ IsSound(Tail(queue)) /\ ItemsFit(Tail(queue), n)
           /\ Woken(Tail(queue)) = Woken(queue) \ {c} /\ Spawned(Tail(queue)) = Spawned(queue)
<1>1. queue \in Seq(Items) /\ IsSound(queue) /\ ItemsFit(queue, n)
  BY DEF IInv, TypeOK, QueueKnown
<1>2. /\ Tail(queue) \in Seq(Items) /\ IsSound(Tail(queue)) /\ ItemsFit(Tail(queue), n)
      /\ Woken(Tail(queue)) = Woken(queue) \ {c} /\ Spawned(Tail(queue)) = Spawned(queue)
      /\ c \in Woken(queue) /\ \A t \in Spawned(queue) : t.co # c
  BY <1>1, CoLeaves
<1>3. Unseen(c)
  BY <1>2, NilAssumption DEF IInv, ArmedKnown, TimersKnown, CurrentKnown, Unseen
<1> QED BY <1>2, <1>3

\* Only who has the thread changes.
LEMMA TurnKeeps ==
    ASSUME IInv, UNCHANGED <<sockVars, waitVars, queue>>, turn' \in {turn, "loop", "main"},
           partial' \subseteq Sockets, torn' \subseteq Sockets
    PROVE  IInv'
<1>1. /\ UNCHANGED <<used, fd, timeout, io, current_co, send_co, timer>>
      /\ UNCHANGED <<POOL, armed, timers, at, n, queue>>
  BY DEF sockVars, waitVars
<1>2. TypeOK'
  BY <1>1 DEF IInv, TypeOK
<1>3. QueueKnown'
  BY <1>1, CoroutinesAssumption DEF IInv, QueueKnown
<1>4. PoolKnown' /\ SlotsKnown' /\ TimersKnown' /\ CallbacksKnown' /\ WaitsKnown'
  BY <1>1 DEF IInv, PoolKnown, Distinct, Elements, SlotsKnown, TimersKnown, CallbacksKnown, WaitsKnown, InWait, Together
<1>5. ArmedKnown'
  BY <1>1 DEF IInv, ArmedKnown, InWait, Abandoned
<1>6. Reached'
  BY <1>1 DEF IInv, Reached, Waker, Mine, Abandoned
<1>7. CurrentKnown'
  <2>1. \A s \in Sockets, r \in Roles : current_co[s][r] # Nil => current_co[s][r] \in Coroutines
    BY DEF IInv, TypeOK
  <2> QED BY <1>1, <2>1, CoroutinesAssumption DEF IInv, CurrentKnown
<1> QED BY <1>2, <1>3, <1>4, <1>5, <1>6, <1>7 DEF IInv

\* What the steps of a coroutine c that nothing is about, and that waits for nothing afterwards
\* but perhaps a name, do to the others: nothing.
Minds(c) ==
    /\ at' \in [Coroutines -> Waits \union {Nil}] /\ n' \in [Coroutines -> Nat]
    /\ \A e \in Coroutines : e # c => at'[e] = at[e] /\ n'[e] = n[e]
    /\ at'[c] # Nil => at'[c].kind = "resolve"
    /\ queue' \in Seq(Items) /\ IsSound(queue') /\ ItemsFit(queue', n')
    /\ \A e \in Coroutines : e # c => (e \in Woken(queue') <=> e \in Woken(queue))
    /\ Spawned(queue') = Spawned(queue)
    /\ turn' \in {turn, "main", c}
    /\ turn' \in Coroutines => at'[turn'] = Nil /\ turn' \notin Woken(queue')
    /\ used \subseteq used' /\ used' \subseteq Sockets
    /\ fd' \in [Sockets -> Descriptors \union {Nil}] /\ \A s \in used : fd'[s] = fd[s]
    /\ UNCHANGED <<timeout, io, current_co, send_co, timer, timers, POOL, armed, partial, torn>>

\* A coroutine that minds its own business keeps the invariant.
LEMMA MindsKeeps ==
    ASSUME IInv, NEW c \in Coroutines, Unseen(c), Minds(c), WaitsKnown'
    PROVE  IInv'
<1>1. TypeOK'
  BY DEF IInv, TypeOK, Minds
<1>2. QueueKnown' /\ PoolKnown' /\ SlotsKnown'
  BY DEF IInv, QueueKnown, PoolKnown, Distinct, Elements, SlotsKnown, Minds
<1>3. \A e \in Coroutines : e # c =>
        /\ at'[e] = at[e] /\ n'[e] = n[e] /\ (e \in Woken(queue') <=> e \in Woken(queue))
        /\ Abandoned(e)' <=> Abandoned(e)
  <2> SUFFICES ASSUME NEW e \in Coroutines, e # c PROVE Abandoned(e)' <=> Abandoned(e)
    BY DEF Minds
  <2>1. at'[e] = at[e]
    BY DEF Minds
  <2>2. CASE at[e] = Nil
    BY <2>1, <2>2 DEF Abandoned
  <2>3. CASE at[e] # Nil
    <3>1. at[e].sock \in used
      BY <2>3 DEF IInv, WaitsKnown
    <3>2. fd'[at'[e].sock] = fd[at[e].sock]
      BY <2>1, <3>1 DEF Minds
    <3> QED BY <2>1, <3>2 DEF Abandoned
  <2> QED BY <2>2, <2>3
<1>4. \A e \in Coroutines : \A k, m, x : e # c => (InWait(e, k, m, x)' <=> InWait(e, k, m, x))
  BY <1>3 DEF InWait
<1>5. ArmedKnown'
  <2> SUFFICES ASSUME NEW v \in Watchers, armed[v] # Nil, NEW a, a = armed[v]
               PROVE  /\ io[a.sock][SlotOf(a.kind)] = v
                      /\ InWait(a.co, a.k, a.kind, a.sock)' /\ a.co \notin Woken(queue')
                      /\ fd'[a.sock] = a.fd \/ Abandoned(a.co)'
                      /\ a.kind = "send" => send_co[a.sock]
                      /\ a.kind # "readline" => current_co[a.sock][RoleOf(a.kind)] = a.co
    BY DEF ArmedKnown, Minds
  <2>1. a \in Arms /\ a.co # c
    BY DEF IInv, TypeOK, Unseen
  <2>2. a.co \in Coroutines
    BY <2>1 DEF Arms
  <2>3. /\ io[a.sock][SlotOf(a.kind)] = v
        /\ InWait(a.co, a.k, a.kind, a.sock) /\ a.co \notin Woken(queue)
        /\ fd[a.sock] = a.fd \/ Abandoned(a.co)
        /\ a.kind = "send" => send_co[a.sock]
        /\ a.kind # "readline" => current_co[a.sock][RoleOf(a.kind)] = a.co
    BY DEF IInv, ArmedKnown
  <2>4. fd'[a.sock] = fd[a.sock]
    <3>1. a.sock \in used
      BY <2>2, <2>3 DEF IInv, WaitsKnown, InWait
    <3> QED BY <3>1 DEF Minds
  <2> QED BY <1>3, <1>4, <2>1, <2>2, <2>3, <2>4
<1>6. TimersKnown'
  <2> SUFFICES ASSUME NEW t \in timers
               PROVE  InWait(t.co, t.k, t.kind, t.sock)' /\ t.co \notin Woken(queue') /\ timer[t.sock] = t
    BY DEF IInv, TimersKnown, Minds
  <2>1. t.co \in Coroutines /\ t.co # c
    BY DEF IInv, TypeOK, Timers, Unseen
  <2> QED BY <1>3, <1>4, <2>1 DEF IInv, TimersKnown
<1>7. CallbacksKnown'
  <2> SUFFICES ASSUME NEW t \in Spawned(queue)
               PROVE  /\ InWait(t.co, t.k, t.kind, t.sock)' /\ t \notin timers
                      /\ t.co \in Woken(queue') => io[t.sock][SlotOf(t.kind)] = Nil
    BY DEF CallbacksKnown, Minds
  <2>1. t \in Timers /\ t.co # c
    BY SetsTyped DEF IInv, TypeOK, Unseen
  <2>2. t.co \in Coroutines
    BY <2>1 DEF Timers
  <2> QED BY <1>3, <1>4, <2>1, <2>2 DEF IInv, CallbacksKnown
<1>8. Reached'
  <2> SUFFICES ASSUME NEW e \in Coroutines, at'[e] # Nil, at'[e].kind # "resolve"
               PROVE  \/ Abandoned(e)' \/ e \in Woken(queue')
                      \/ Waker(e)' /\ (at'[e].timed => \E t \in timers' \union Spawned(queue') : Mine(e, t)')
    BY DEF Reached
  <2>1. e # c
    BY DEF Minds
  <2>2. \/ Abandoned(e) \/ e \in Woken(queue)
        \/ Waker(e) /\ (at[e].timed => \E t \in timers \union Spawned(queue) : Mine(e, t))
    BY <1>3, <2>1 DEF IInv, Reached
  <2>3. Waker(e) => Waker(e)'
    BY DEF Waker, Minds
  <2>4. \A t : Mine(e, t) => Mine(e, t)'
    BY <1>3, <2>1 DEF Mine
  <2>5. timers' = timers /\ Spawned(queue') = Spawned(queue)
    BY DEF Minds
  <2> QED BY <1>3, <2>1, <2>2, <2>3, <2>4, <2>5
<1>9. CurrentKnown'
  <2> SUFFICES ASSUME NEW x \in Sockets, NEW r \in Roles, NEW e, e = current_co[x][r], e # Nil
               PROVE  /\ at'[e] # Nil /\ at'[e].sock = x
                      /\ at'[e].kind \notin {"resolve", "readline"} /\ RoleOf(at'[e].kind) = r
                      /\ turn' # e /\ e \notin Woken(queue')
    BY DEF CurrentKnown, Minds
  <2>1. e \in Coroutines /\ e # c
    BY DEF IInv, TypeOK, Unseen
  <2>2. turn' # e
    BY <2>1, CoroutinesAssumption DEF IInv, CurrentKnown, Minds
  <2> QED BY <1>3, <2>1, <2>2 DEF IInv, CurrentKnown
<1> QED BY <1>1, <1>2, <1>5, <1>6, <1>7, <1>8, <1>9 DEF IInv

\* The sockets of a process that starts.
LEMMA InitHolds == Init => IInv
<1> SUFFICES ASSUME Init PROVE IInv
  OBVIOUS
<1>1. queue \in Seq(Items) /\ POOL \in Seq(Watchers) /\ DOMAIN queue = {} /\ DOMAIN POOL = {} /\ Len(POOL) = 0
  BY EmptySeq DEF Init
<1>2. Woken(queue) = {} /\ Spawned(queue) = {} /\ IsSound(queue) /\ ItemsFit(queue, n) /\ Distinct(POOL) /\ Elements(POOL) = {}
  BY <1>1 DEF Woken, Spawned, IsSound, ItemsFit, Distinct, Elements
<1>3. TypeOK
  <2>1. used \subseteq Sockets /\ torn \subseteq Sockets /\ partial \subseteq Sockets /\ timers \subseteq Timers
    BY DEF Init
  <2> QED BY <1>1, <2>1 DEF Init, TypeOK
<1>4. QueueKnown /\ PoolKnown
  BY <1>2, CoroutinesAssumption DEF Init, QueueKnown, PoolKnown
<1>5. SlotsKnown /\ ArmedKnown /\ TimersKnown /\ CurrentKnown
  BY DEF Init, SlotsKnown, ArmedKnown, TimersKnown, CurrentKnown
<1>6. CallbacksKnown /\ WaitsKnown /\ Reached
  BY <1>2 DEF Init, CallbacksKnown, WaitsKnown, Reached, Together
<1> QED BY <1>3, <1>4, <1>5, <1>6 DEF IInv

\* Each step that leaves watchers and timers alone, or only spawns a timer's callback.
LEMMA CallKeeps == ASSUME IInv, NEW c \in Coroutines, Call(c) PROVE IInv'
<1>1. Unseen(c)
  BY IdleIsUnseen DEF Call
<1>2. /\ at[c] = Nil /\ turn # c /\ n' = [n EXCEPT ![c] = @ + 1]
      /\ queue' = Append(queue, Item(c, n[c] + 1, TRUE))
      /\ UNCHANGED <<used, fd, timeout, io, current_co, send_co, timer, POOL, armed, timers, at, turn, partial, torn>>
  BY DEF Call, MayWake, sockVars, wireVars
<1>3. queue \in Seq(Items) /\ c \notin Woken(queue) /\ IsSound(queue) /\ ItemsFit(queue, n) /\ n \in [Coroutines -> Nat]
  BY QueuedIsWoken DEF Call, MayWake, IInv, TypeOK, QueueKnown
<1>4. n' \in [Coroutines -> Nat] /\ n'[c] = n[c] + 1 /\ n[c] + 1 \in Nat /\ \A e \in Coroutines : e # c => n'[e] = n[e]
  BY <1>2, <1>3
<1>5. ItemsFit(queue, n')
  <2>1. \A i \in DOMAIN queue : queue[i].what = "co" => queue[i].co \in Coroutines /\ queue[i].co # c
    BY <1>3, ItemTypes DEF Woken
  <2> QED BY <1>3, <1>4, <2>1 DEF ItemsFit
<1>6. PICK k, waits : k \in Nat /\ k = n[c] + 1 /\ waits = n'
  BY <1>4
<1>7. LET r == Append(queue, Item(c, k, TRUE)) IN
      /\ r \in Seq(Items) /\ Woken(r) = Woken(queue) \union {c} /\ Spawned(r) = Spawned(queue)
      /\ IsSound(r) /\ ItemsFit(r, waits)
  BY <1>3, <1>4, <1>5, <1>6, AppendWakes
<1>8. /\ queue' \in Seq(Items) /\ Woken(queue') = Woken(queue) \union {c} /\ Spawned(queue') = Spawned(queue)
      /\ IsSound(queue') /\ ItemsFit(queue', n')
  BY <1>2, <1>6, <1>7
<1>9. Minds(c)
  BY <1>2, <1>4, <1>8 DEF Minds, IInv, TypeOK, QueueKnown
<1>10. WaitsKnown'
  BY <1>2 DEF IInv, WaitsKnown, Together
<1> QED BY <1>1, <1>9, <1>10, MindsKeeps

LEMMA AnswerKeeps == ASSUME IInv, NEW c \in Coroutines, Answer(c) PROVE IInv'
<1>1. Unseen(c)
  BY IdleIsUnseen DEF Answer
<1>2. /\ at[c] # Nil /\ at[c].kind = "resolve" /\ turn = "loop"
      /\ UNCHANGED <<used, fd, timeout, io, current_co, send_co, timer, POOL, armed, timers, at, n, turn, partial, torn>>
  BY DEF Answer, sockVars, waitVars, wireVars
<1>3. PICK ok \in BOOLEAN : queue' = Append(queue, Item(c, n[c], ok))
  BY DEF Answer
<1>4. queue \in Seq(Items) /\ c \notin Woken(queue) /\ IsSound(queue) /\ ItemsFit(queue, n) /\ n[c] \in Nat
  BY QueuedIsWoken DEF Answer, IInv, TypeOK, QueueKnown
<1>5. /\ queue' \in Seq(Items) /\ Woken(queue') = Woken(queue) \union {c} /\ Spawned(queue') = Spawned(queue)
      /\ IsSound(queue') /\ ItemsFit(queue', n)
  BY <1>3, <1>4, AppendWakes
<1>6. Minds(c)
  BY <1>2, <1>5, CoroutinesAssumption DEF Minds, IInv, TypeOK
<1>7. WaitsKnown'
  BY <1>2 DEF IInv, WaitsKnown, Together
<1> QED BY <1>1, <1>6, <1>7, MindsKeeps

LEMMA RunsKeeps == ASSUME IInv, NEW c \in Coroutines, Runs(c) PROVE IInv'
<1>1. /\ turn = "main" /\ queue # <<>> /\ Head(queue).what = "co" /\ Head(queue).co = c /\ queue' = Tail(queue)
      /\ at[c] = Nil /\ turn' = c
      /\ UNCHANGED <<used, fd, timeout, io, current_co, send_co, timer, POOL, armed, timers, at, n, partial, torn>>
  BY DEF Runs, Pop, sockVars, waitVars, wireVars
<1>2. /\ Unseen(c) /\ queue' \in Seq(Items) /\ IsSound(queue') /\ ItemsFit(queue', n)
      /\ Woken(queue') = Woken(queue) \ {c} /\ Spawned(queue') = Spawned(queue)
  BY <1>1, ResumedIsUnseen
<1>3. Minds(c)
  BY <1>1, <1>2 DEF Minds, IInv, TypeOK
<1>4. WaitsKnown'
  BY <1>1 DEF IInv, WaitsKnown, Together
<1> QED BY <1>2, <1>3, <1>4, MindsKeeps

LEMMA ReturnsKeeps == ASSUME IInv, NEW c \in Coroutines, Returns(c) PROVE IInv'
<1>1. /\ turn = "main" /\ queue # <<>> /\ Head(queue).what = "co" /\ Head(queue).co = c /\ queue' = Tail(queue)
      /\ at' = [at EXCEPT ![c] = Nil] /\ turn' = c
      /\ UNCHANGED <<used, fd, timeout, io, current_co, send_co, timer, POOL, armed, timers, n, partial, torn>>
  BY DEF Returns, PopOf, Pop, sockVars, wireVars
<1>2. /\ Unseen(c) /\ queue' \in Seq(Items) /\ IsSound(queue') /\ ItemsFit(queue', n)
      /\ Woken(queue') = Woken(queue) \ {c} /\ Spawned(queue') = Spawned(queue)
  BY <1>1, ResumedIsUnseen
<1>3. at' \in [Coroutines -> Waits \union {Nil}] /\ at'[c] = Nil /\ \A e \in Coroutines : e # c => at'[e] = at[e]
  BY <1>1 DEF IInv, TypeOK
<1>4. Minds(c)
  BY <1>1, <1>2, <1>3 DEF Minds, IInv, TypeOK
<1>5. WaitsKnown'
  <2>1. \A d, e \in Coroutines : Together(d, e)'
    <3> SUFFICES ASSUME NEW d \in Coroutines, NEW e \in Coroutines PROVE Together(d, e)'
      OBVIOUS
    <3>1. Together(d, e)
      BY DEF IInv, WaitsKnown
    <3> QED BY <1>3, <3>1 DEF Together
  <2> QED BY <1>1, <1>3, <2>1 DEF IInv, WaitsKnown
<1> QED BY <1>2, <1>4, <1>5, MindsKeeps

\* What is known of the coroutine that has the thread.
LEMMA RunningIsUnseen ==
    ASSUME IInv, NEW c \in Coroutines, turn = c
    PROVE  /\ Unseen(c) /\ at[c] = Nil /\ c \notin Woken(queue)
           /\ queue \in Seq(Items) /\ IsSound(queue) /\ ItemsFit(queue, n)
<1>1. at[c] = Nil /\ c \notin Woken(queue)
  BY DEF IInv, QueueKnown
<1> QED BY <1>1, IdleIsUnseen DEF IInv, TypeOK, QueueKnown

\* And of a socket that is new.
LEMMA NewIsAlone ==
    ASSUME IInv, NEW s \in Sockets, s \notin used
    PROVE  fd[s] = Nil /\ NewFd \in Descriptors /\ \A e \in Coroutines : at[e] # Nil => at[e].sock # s
<1>1. fd[s] = Nil /\ \A e \in Coroutines : at[e] # Nil => at[e].sock # s
  BY DEF IInv, WaitsKnown
<1> QED BY <1>1, NewFdTyped DEF IInv

LEMMA SetFdKeeps == ASSUME IInv, NEW c \in Coroutines, NEW s \in Sockets, set_fd(c, s) PROVE IInv'
<1>1. /\ turn = c /\ s \notin used /\ used' = used \union {s} /\ fd' = [fd EXCEPT ![s] = NewFd]
      /\ UNCHANGED <<timeout, io, current_co, send_co, timer, POOL, armed, timers, at, n, queue, turn, partial, torn>>
  BY DEF set_fd, New, waitVars, wireVars
<1>2. /\ Unseen(c) /\ at[c] = Nil /\ c \notin Woken(queue)
      /\ queue \in Seq(Items) /\ IsSound(queue) /\ ItemsFit(queue, n)
  BY <1>1, RunningIsUnseen
<1>3. NewFd \in Descriptors /\ \A e \in Coroutines : at[e] # Nil => at[e].sock # s
  BY <1>1, NewIsAlone
<1>4. fd' \in [Sockets -> Descriptors \union {Nil}] /\ \A x \in Sockets : x # s => fd'[x] = fd[x]
  BY <1>1, <1>3 DEF IInv, TypeOK
<1>5. used \subseteq Sockets
  BY DEF IInv, TypeOK
<1>6. Minds(c)
  BY <1>1, <1>2, <1>4, <1>5 DEF Minds, IInv, TypeOK
<1>7. WaitsKnown'
  <2>1. \A d, e \in Coroutines : Together(d, e)'
    BY <1>1 DEF IInv, WaitsKnown, Together
  <2>2. \A e \in Coroutines : at[e] # Nil => at[e].sock \in Sockets /\ fd'[at[e].sock] = fd[at[e].sock]
    BY <1>3, <1>4, <1>5 DEF IInv, WaitsKnown
  <2> QED BY <1>1, <1>4, <2>1, <2>2 DEF IInv, WaitsKnown
<1> QED BY <1>2, <1>6, <1>7, MindsKeeps

LEMMA ConnectDomainKeeps == ASSUME IInv, NEW c \in Coroutines, NEW s \in Sockets, ConnectDomain(c, s) PROVE IInv'
<1> DEFINE b == [kind |-> "resolve", sock |-> s, fd |-> Nil, timed |-> FALSE]
<1>1. /\ turn = c /\ s \notin used /\ used' = used \union {s} /\ n' = [n EXCEPT ![c] = @ + 1]
      /\ at' = [at EXCEPT ![c] = b] /\ turn' = "main"
      /\ UNCHANGED <<fd, timeout, io, current_co, send_co, timer, POOL, armed, timers, queue, partial, torn>>
  BY DEF ConnectDomain, New, wireVars
<1>2. /\ Unseen(c) /\ at[c] = Nil /\ c \notin Woken(queue)
      /\ queue \in Seq(Items) /\ IsSound(queue) /\ ItemsFit(queue, n)
  BY <1>1, RunningIsUnseen
<1>3. fd[s] = Nil /\ \A e \in Coroutines : at[e] # Nil => at[e].sock # s
  BY <1>1, NewIsAlone
<1>4. b \in Waits /\ b.kind = "resolve" /\ b.sock = s /\ b # Nil
  <2>1. "resolve" \in {"resolve"} \union IoKinds /\ Nil \in Descriptors \union {Nil} /\ FALSE \in BOOLEAN
    OBVIOUS
  <2>2. b \in Waits
    BY <2>1 DEF Waits
  <2> QED BY <2>2, NilAssumption
<1> HIDE DEF b
<1>5. /\ at' \in [Coroutines -> Waits \union {Nil}] /\ at'[c] = b /\ \A e \in Coroutines : e # c => at'[e] = at[e]
      /\ n' \in [Coroutines -> Nat] /\ \A e \in Coroutines : e # c => n'[e] = n[e]
  BY <1>1, <1>4 DEF IInv, TypeOK
<1>6. ItemsFit(queue, n')
  <2>1. \A i \in DOMAIN queue : queue[i].what = "co" => queue[i].co \in Coroutines /\ queue[i].co # c
    BY <1>2, ItemTypes DEF Woken
  <2> QED BY <1>2, <1>5, <2>1 DEF ItemsFit
<1>7. used \subseteq Sockets
  BY DEF IInv, TypeOK
<1>8. Minds(c)
  BY <1>1, <1>2, <1>4, <1>5, <1>6, <1>7, CoroutinesAssumption DEF Minds, IInv, TypeOK
<1>9. WaitsKnown'
  <2>1. ASSUME NEW d \in Coroutines, NEW e \in Coroutines PROVE Together(d, e)'
    <3>1. CASE d # c /\ e # c
      <4>1. Together(d, e)
        BY DEF IInv, WaitsKnown
      <4> QED BY <1>5, <3>1, <4>1 DEF Together
    <3>2. CASE d = e
      BY <3>2 DEF Together
    <3>3. CASE d # e /\ (d = c \/ e = c)
      BY <1>3, <1>4, <1>5, <3>3 DEF Together
    <3> QED BY <3>1, <3>2, <3>3
  <2>2. ASSUME NEW e \in Coroutines, at'[e] # Nil
        PROVE  /\ at'[e].sock \in used'
               /\ at'[e].kind # "resolve" => at'[e].fd # Nil
               /\ at'[e].kind \in Senders => ~at'[e].timed
               /\ at'[e].kind = "resolve" => fd'[at'[e].sock] = Nil
    <3>1. CASE e = c
      BY <1>1, <1>3, <1>4, <1>5, <3>1 DEF Senders
    <3>2. CASE e # c
      BY <1>1, <1>5, <2>2, <3>2 DEF IInv, WaitsKnown
    <3> QED BY <3>1, <3>2
  <2>3. \A x \in Sockets : fd'[x] # Nil => x \in used'
    BY <1>1 DEF IInv, WaitsKnown
  <2> QED BY <2>1, <2>2, <2>3 DEF WaitsKnown
<1> QED BY <1>2, <1>8, <1>9, MindsKeeps

LEMMA TimerFiresKeeps == ASSUME IInv, NEW t \in timers, TimerFires(t) PROVE IInv'
<1>1. /\ turn = "loop" /\ timers' = timers \ {t} /\ queue' = Append(queue, Callback(t))
      /\ UNCHANGED <<used, fd, timeout, io, current_co, send_co, timer, POOL, armed, at, n, turn, partial, torn>>
  BY DEF TimerFires, sockVars, wireVars
<1>2. t \in Timers /\ InWait(t.co, t.k, t.kind, t.sock) /\ t.co \notin Woken(queue)
  BY DEF IInv, TypeOK, TimersKnown
<1>3. queue \in Seq(Items) /\ IsSound(queue) /\ ItemsFit(queue, n)
  BY DEF IInv, TypeOK, QueueKnown
<1>4. /\ queue' \in Seq(Items) /\ Woken(queue') = Woken(queue) /\ Spawned(queue') = Spawned(queue) \union {t}
      /\ IsSound(queue') /\ ItemsFit(queue', n)
  BY <1>1, <1>2, <1>3, AppendSpawns
<1>5. TypeOK'
  BY <1>1, <1>4 DEF IInv, TypeOK
<1>6. QueueKnown' /\ PoolKnown' /\ SlotsKnown' /\ WaitsKnown'
  BY <1>1, <1>4 DEF IInv, QueueKnown, PoolKnown, Distinct, Elements, SlotsKnown, WaitsKnown, Together
<1>7. ArmedKnown'
  BY <1>1, <1>4 DEF IInv, ArmedKnown, InWait, Abandoned
<1>8. TimersKnown'
  BY <1>1, <1>4 DEF IInv, TimersKnown, InWait
<1>9. CallbacksKnown'
  <2> SUFFICES ASSUME NEW u \in Spawned(queue) \union {t}
               PROVE  /\ InWait(u.co, u.k, u.kind, u.sock)' /\ u \notin timers \ {t}
                      /\ u.co \in Woken(queue) => io[u.sock][SlotOf(u.kind)] = Nil
    BY <1>1, <1>4 DEF CallbacksKnown
  <2> QED BY <1>1, <1>2 DEF IInv, CallbacksKnown, InWait
<1>10. Reached'
  <2>1. timers' \union Spawned(queue') = timers \union Spawned(queue)
    BY <1>1, <1>4
  <2> QED BY <1>1, <1>4, <2>1 DEF IInv, Reached, Waker, Mine, Abandoned
<1>11. CurrentKnown'
  BY <1>1, <1>4 DEF IInv, CurrentKnown
<1> QED BY <1>5, <1>6, <1>7, <1>8, <1>9, <1>10, <1>11 DEF IInv

-----------------------------------------------------------------------------
(* Steps that begin a wait. *)

LEMMA RunningIsDequeued ==
    ASSUME IInv, NEW c \in Coroutines, turn = c, UNCHANGED queue
    PROVE  Unseen(c) /\ Dequeued(c)
BY RunningIsUnseen DEF Dequeued

LEMMA ResumedIsDequeued ==
    ASSUME IInv, NEW c \in Coroutines, queue # <<>>, Head(queue).what = "co", Head(queue).co = c, queue' = Tail(queue)
    PROVE  Unseen(c) /\ Dequeued(c)
BY ResumedIsUnseen DEF Dequeued

\* An open socket is in use, and nobody asks for its name.
LEMMA OpenIsKnown ==
    ASSUME IInv, NEW s \in Sockets, fd[s] # Nil
    PROVE  /\ fd[s] \in Descriptors /\ s \in used
           /\ \A e \in Coroutines : at[e] # Nil /\ at[e].sock = s => at[e].kind \in IoKinds
<1>1. fd[s] \in Descriptors /\ s \in used
  BY DEF IInv, TypeOK, WaitsKnown
<1>2. ASSUME NEW e \in Coroutines, at[e] # Nil, at[e].sock = s PROVE at[e].kind \in IoKinds
  <2>1. at[e] \in Waits /\ at[e].kind # "resolve"
    BY <1>2 DEF IInv, TypeOK, WaitsKnown
  <2> QED BY <2>1 DEF Waits
<1> QED BY <1>1, <1>2

\* Whose watcher is in the send slot.
LEMMA SendSlot ==
    ASSUME IInv, NEW s \in Sockets, io[s]["send"] # Nil
    PROVE  \E e \in In(s, Senders) : at[e].kind = "send" => send_co[s]
<1>1. "send" \in Slots
  BY DEF Slots
<1>2. PICK v \in Watchers : v = io[s]["send"]
  BY <1>1 DEF IInv, TypeOK
<1>3. PICK a : a = armed[v]
  OBVIOUS
<1>4. a # Nil /\ a.sock = s /\ SlotOf(a.kind) = "send"
  BY <1>1, <1>2, <1>3 DEF IInv, SlotsKnown
<1>5. a \in Arms
  BY <1>3, <1>4 DEF IInv, TypeOK
<1>6. a.kind \in Senders /\ a.co \in Coroutines
  BY <1>4, <1>5, KindsOfSlots DEF Arms
<1>7. InWait(a.co, a.k, a.kind, a.sock) /\ (a.kind = "send" => send_co[s])
  BY <1>3, <1>4 DEF IInv, ArmedKnown
<1> QED BY <1>4, <1>6, <1>7 DEF InWait, In

LEMMA ConnectKeeps == ASSUME IInv, NEW c \in Coroutines, NEW s \in Sockets, Connect(c, s) PROVE IInv'
<1>1. /\ turn = c /\ s \notin used /\ used' = used \union {s} /\ fd' = [fd EXCEPT ![s] = NewFd]
      /\ Wait(c, s, "connect", NewFd, timeout[s])
      /\ UNCHANGED <<timeout, send_co, queue, partial, torn>>
  BY DEF Connect, New, wireVars
<1>2. Unseen(c) /\ Dequeued(c)
  BY <1>1, RunningIsDequeued
<1>3. NewFd \in Descriptors /\ \A e \in Coroutines : at[e] # Nil => at[e].sock # s
  BY <1>1, NewIsAlone
<1>4. Alone(c, s, "connect")
  BY <1>3 DEF Alone
<1>5. "connect" \in IoKinds /\ "connect" \notin Senders /\ timeout[s] \in BOOLEAN
  BY DEF IoKinds, Senders, IInv, TypeOK
<1>6. fd' \in [Sockets -> Descriptors \union {Nil}] /\ fd'[s] = NewFd /\ \A x \in Sockets \ {s} : fd'[x] = fd[x]
  BY <1>1, <1>3 DEF IInv, TypeOK
<1>7. Prepares(c, s, "connect", NewFd, timeout[s])
  BY <1>1, <1>3, <1>5, <1>6 DEF Prepares, IInv, TypeOK
<1> QED BY <1>1, <1>2, <1>3, <1>4, <1>5, <1>7, WaitKeeps

LEMMA BeginKeeps ==
    ASSUME IInv, NEW c \in Coroutines, NEW s \in Sockets, NEW kind \in {"recv", "readline", "handshake"}, Begin(c, s, kind)
    PROVE  IInv'
<1>1. /\ turn = c /\ fd[s] # Nil /\ ~Busy(s) /\ Wait(c, s, kind, fd[s], timeout[s])
      /\ UNCHANGED <<used, fd, timeout, send_co, queue, partial, torn>>
  BY DEF Begin, wireVars
<1>2. Unseen(c) /\ Dequeued(c)
  BY <1>1, RunningIsDequeued
<1>3. kind \in IoKinds /\ kind \notin Senders /\ timeout[s] \in BOOLEAN
  BY DEF IoKinds, Senders, IInv, TypeOK
<1>4. fd[s] \in Descriptors /\ s \in used /\ \A e \in Coroutines : at[e] # Nil /\ at[e].sock = s => at[e].kind \in IoKinds
  BY <1>1, OpenIsKnown
<1>5. Alone(c, s, kind)
  <2>1. ASSUME NEW e \in Coroutines, at[e] # Nil, at[e].sock = s PROVE at[e].kind \in Senders
    <3>1. at[e].kind \in IoKinds /\ at[e].kind \notin {"resolve", "connect", "handshake", "recv", "readline"}
      BY <1>1, <1>4, <2>1 DEF Busy, In
    <3> QED BY <3>1 DEF IoKinds
  <2> QED BY <1>3, <2>1 DEF Alone
<1>6. Prepares(c, s, kind, fd[s], timeout[s])
  BY <1>1, <1>3, <1>4 DEF Prepares, IInv, TypeOK
<1> QED BY <1>1, <1>2, <1>3, <1>4, <1>5, <1>6, WaitKeeps

LEMMA SendKeeps ==
    ASSUME IInv, NEW c \in Coroutines, NEW s \in Sockets, NEW out \in {"all", "part", "none", "fail"}, send(c, s, out)
    PROVE  IInv'
<1>1. /\ turn = c /\ fd[s] # Nil /\ In(s, {"sendfile"}) = {}
      /\ torn' \in {torn, torn \union (partial \intersect {s})}
      /\ UNCHANGED <<used, fd, timeout, queue>>
  BY DEF send
<1>2. torn' \subseteq Sockets
  BY <1>1 DEF IInv, TypeOK
<1>3. CASE out \in {"all", "fail"} \/ send_co[s]
  <2>1. UNCHANGED <<io, current_co, send_co, timer, waitVars, turn, partial>>
    BY <1>3 DEF send
  <2>2. UNCHANGED <<sockVars, waitVars, queue>> /\ turn' = turn /\ partial' \subseteq Sockets
    BY <1>1, <2>1 DEF sockVars, IInv, TypeOK
  <2> QED BY <1>2, <2>2, TurnKeeps
<1>4. CASE ~(out \in {"all", "fail"} \/ send_co[s])
  <2>1. /\ Wait(c, s, "send", fd[s], FALSE) /\ send_co' = [send_co EXCEPT ![s] = TRUE]
        /\ partial' = IF out = "part" THEN partial \union {s} ELSE partial
    BY <1>4 DEF send
  <2>2. Unseen(c) /\ Dequeued(c)
    BY <1>1, RunningIsDequeued
  <2>3. "send" \in IoKinds /\ "send" \in Senders
    BY DEF IoKinds, Senders
  <2>4. fd[s] \in Descriptors /\ s \in used /\ \A e \in Coroutines : at[e] # Nil /\ at[e].sock = s => at[e].kind \in IoKinds
    BY <1>1, OpenIsKnown
  <2>5. Alone(c, s, "send")
    <3>1. \A e \in Coroutines : at[e] # Nil /\ at[e].sock = s => at[e].kind # "resolve"
      BY <2>4, KindsOfSlots
    <3> QED BY <2>3, <3>1 DEF Alone
  <2>6. io[s]["send"] = Nil
    <3> SUFFICES ASSUME io[s]["send"] # Nil PROVE FALSE
      OBVIOUS
    <3>1. PICK e \in In(s, Senders) : at[e].kind = "send" => send_co[s]
      BY SendSlot
    <3>2. at[e].kind = "sendfile" /\ e \in In(s, {"sendfile"})
      BY <1>4, <3>1 DEF In, Senders
    <3> QED BY <1>1, <3>2
  <2>7. send_co' \in [Sockets -> BOOLEAN] /\ send_co'[s] /\ \A x \in Sockets : send_co[x] => send_co'[x]
    BY <2>1 DEF IInv, TypeOK
  <2>8. partial' \subseteq Sockets
    BY <2>1 DEF IInv, TypeOK
  <2>9. Prepares(c, s, "send", fd[s], FALSE)
    BY <1>1, <1>2, <2>4, <2>6, <2>7, <2>8 DEF Prepares, IInv, TypeOK
  <2> QED BY <2>1, <2>2, <2>3, <2>4, <2>5, <2>9, WaitKeeps
<1> QED BY <1>3, <1>4

LEMMA SendfileKeeps == ASSUME IInv, NEW c \in Coroutines, NEW s \in Sockets, sendfile(c, s) PROVE IInv'
<1>1. /\ turn = c /\ fd[s] # Nil /\ In(s, Senders) = {} /\ Wait(c, s, "sendfile", fd[s], FALSE)
      /\ UNCHANGED <<used, fd, timeout, send_co, queue, partial, torn>>
  BY DEF sendfile, wireVars
<1>2. Unseen(c) /\ Dequeued(c)
  BY <1>1, RunningIsDequeued
<1>3. "sendfile" \in IoKinds /\ "sendfile" \in Senders
  BY DEF IoKinds, Senders
<1>4. fd[s] \in Descriptors /\ s \in used /\ \A e \in Coroutines : at[e] # Nil /\ at[e].sock = s => at[e].kind \in IoKinds
  BY <1>1, OpenIsKnown
<1>5. Alone(c, s, "sendfile")
  <2>1. \A e \in Coroutines : at[e] # Nil /\ at[e].sock = s => at[e].kind # "resolve"
    BY <1>4, KindsOfSlots
  <2> QED BY <1>3, <2>1 DEF Alone
<1>6. io[s]["send"] = Nil
  BY <1>1, SendSlot
<1>7. Prepares(c, s, "sendfile", fd[s], FALSE)
  BY <1>1, <1>4, <1>6 DEF Prepares, IInv, TypeOK
<1> QED BY <1>1, <1>2, <1>3, <1>4, <1>5, <1>7, WaitKeeps

LEMMA ResolvedKeeps == ASSUME IInv, NEW c \in Coroutines, Resolved(c) PROVE IInv'
<1>1. PICK s : s = at[c].sock
  OBVIOUS
<1>2. /\ queue # <<>> /\ Head(queue).what = "co" /\ Head(queue).co = c /\ queue' = Tail(queue)
      /\ at[c] # Nil /\ at[c].kind = "resolve"
      /\ fd' = [fd EXCEPT ![s] = NewFd] /\ Wait(c, s, "connect", NewFd, timeout[s])
      /\ UNCHANGED <<used, timeout, send_co, partial, torn>>
  BY <1>1 DEF Resolved, PopOf, Pop, wireVars
<1>3. s \in Sockets /\ s \in used /\ fd[s] = Nil
  BY <1>1, <1>2 DEF IInv, TypeOK, WaitsKnown
<1>4. Unseen(c) /\ Dequeued(c)
  BY <1>2, ResumedIsDequeued
<1>5. NewFd \in Descriptors
  BY <1>3, NewFdTyped DEF IInv
<1>6. \A e \in Coroutines : e # c /\ at[e] # Nil => at[e].sock # s
  <2> SUFFICES ASSUME NEW e \in Coroutines, e # c, at[e] # Nil, at[e].sock = s PROVE FALSE
    OBVIOUS
  <2>1. Together(c, e) /\ "resolve" \notin Senders
    BY DEF IInv, WaitsKnown, Senders
  <2> QED BY <1>1, <1>2, <2>1 DEF Together
<1>7. Alone(c, s, "connect")
  BY <1>6 DEF Alone
<1>8. "connect" \in IoKinds /\ "connect" \notin Senders /\ timeout[s] \in BOOLEAN
  BY <1>3 DEF IoKinds, Senders, IInv, TypeOK
<1>9. fd' \in [Sockets -> Descriptors \union {Nil}] /\ fd'[s] = NewFd /\ \A x \in Sockets \ {s} : fd'[x] = fd[x]
  BY <1>2, <1>3, <1>5 DEF IInv, TypeOK
<1>10. Prepares(c, s, "connect", NewFd, timeout[s])
  BY <1>2, <1>3, <1>6, <1>8, <1>9 DEF Prepares, IInv, TypeOK
<1> QED BY <1>2, <1>3, <1>4, <1>5, <1>7, <1>8, <1>10, WaitKeeps

\* A coroutine that is resumed and waits again finds itself where it was.
LEMMA StaysAlone ==
    ASSUME IInv, NEW c \in Coroutines, at[c] # Nil, at[c].kind \notin Senders, NEW kind \in IoKinds \ Senders
    PROVE  at[c].sock \in Sockets /\ at[c].sock \in used /\ Alone(c, at[c].sock, kind)
<1>1. at[c].sock \in Sockets /\ at[c].sock \in used
  BY DEF IInv, TypeOK, WaitsKnown
<1>2. ASSUME NEW e \in Coroutines, e # c, at[e] # Nil, at[e].sock = at[c].sock PROVE at[e].kind \in Senders
  BY <1>2 DEF IInv, WaitsKnown, Together
<1> QED BY <1>1, <1>2 DEF Alone

LEMMA ReadsOnKeeps == ASSUME IInv, NEW c \in Coroutines, ReadsOn(c) PROVE IInv'
<1>1. PICK s, d, timed : s = at[c].sock /\ d = at[c].fd /\ timed = at[c].timed
  OBVIOUS
<1>2. /\ queue # <<>> /\ Head(queue).what = "co" /\ Head(queue).co = c /\ queue' = Tail(queue)
      /\ at[c] # Nil /\ at[c].kind = "readline" /\ d \in OpenFds
      /\ Wait(c, s, "readline", d, timed)
      /\ UNCHANGED <<used, fd, timeout, send_co, partial, torn>>
  BY <1>1 DEF ReadsOn, PopOf, Pop, wireVars
<1>3. "readline" \in IoKinds \ Senders
  BY DEF IoKinds, Senders
<1>4. s \in Sockets /\ s \in used /\ Alone(c, s, "readline")
  BY <1>1, <1>2, <1>3, StaysAlone
<1>5. timed \in BOOLEAN /\ d \in Descriptors
  BY <1>1, <1>2 DEF IInv, TypeOK, Waits, OpenFds
<1>6. Unseen(c) /\ Dequeued(c)
  BY <1>2, ResumedIsDequeued
<1>7. Prepares(c, s, "readline", d, timed)
  BY <1>2, <1>3, <1>4 DEF Prepares, IInv, TypeOK
<1> QED BY <1>2, <1>3, <1>4, <1>5, <1>6, <1>7, WaitKeeps

LEMMA ShakesOnKeeps == ASSUME IInv, NEW c \in Coroutines, ShakesOn(c) PROVE IInv'
<1>1. PICK s : s = at[c].sock
  OBVIOUS
<1>2. /\ queue # <<>> /\ Head(queue).what = "co" /\ Head(queue).co = c /\ queue' = Tail(queue)
      /\ at[c] # Nil /\ at[c].kind = "handshake" /\ fd[s] # Nil
      /\ Wait(c, s, "handshake", fd[s], timeout[s])
      /\ UNCHANGED <<used, fd, timeout, send_co, partial, torn>>
  BY <1>1 DEF ShakesOn, PopOf, Pop, wireVars
<1>3. "handshake" \in IoKinds \ Senders
  BY DEF IoKinds, Senders
<1>4. s \in Sockets /\ s \in used /\ Alone(c, s, "handshake")
  BY <1>1, <1>2, <1>3, StaysAlone
<1>5. fd[s] \in Descriptors /\ timeout[s] \in BOOLEAN
  BY <1>2, <1>4 DEF IInv, TypeOK
<1>6. Unseen(c) /\ Dequeued(c)
  BY <1>2, ResumedIsDequeued
<1>7. Prepares(c, s, "handshake", fd[s], timeout[s])
  BY <1>2, <1>3, <1>4 DEF Prepares, IInv, TypeOK
<1> QED BY <1>2, <1>3, <1>4, <1>5, <1>6, <1>7, WaitKeeps

-----------------------------------------------------------------------------
(* Steps that end a wait. *)

\* Nobody but c waits at its socket, unless to send.
LEMMA SoleReader ==
    ASSUME IInv, NEW c \in Coroutines, NEW e \in Coroutines, at[c] # Nil, at[e] # Nil,
           at[c].sock = at[e].sock, at[c].kind \notin Senders, at[e].kind \notin Senders
    PROVE  e = c
BY DEF IInv, WaitsKnown, Together

\* A timer is about the one reader of its socket.
LEMMA TimerOfReader ==
    ASSUME IInv, NEW c \in Coroutines, at[c] # Nil, at[c].kind \notin Senders,
           NEW t \in Timers, InWait(t.co, t.k, t.kind, t.sock)
    PROVE  t.sock = at[c].sock <=> t.co = c
<1>1. t.co \in Coroutines /\ t.kind \notin Senders
  BY DEF Timers
<1>2. at[t.co] # Nil /\ at[t.co].sock = t.sock /\ at[t.co].kind \notin Senders
  BY <1>1 DEF InWait
<1> QED BY <1>1, <1>2, SoleReader

\* The one *_current_co that names c is emptied.
LEMMA Forgotten ==
    ASSUME IInv, NEW c \in Coroutines, NEW s \in Sockets, NEW role \in Roles,
           current_co[s][role] \in {c, Nil}, current_co' = [current_co EXCEPT ![s][role] = Nil],
           \A x \in Sockets, r \in Roles : current_co[x][r] = c => x = s /\ r = role
    PROVE  Forgets(c)
<1>1. current_co \in [Sockets -> [Roles -> Coroutines \union {Nil}]] /\ c # Nil
  BY NilAssumption DEF IInv, TypeOK
<1>2. /\ current_co' \in [Sockets -> [Roles -> Coroutines \union {Nil}]]
      /\ current_co'[s][role] = Nil
      /\ \A x \in Sockets, r \in Roles : x # s \/ r # role => current_co'[x][r] = current_co[x][r]
  BY <1>1
<1> QED BY <1>1, <1>2 DEF Forgets

\* What an event finds: the wait of its watcher.
LEMMA EventFinds ==
    ASSUME IInv, NEW w \in Watchers, NEW a, a = armed[w], a # Nil
    PROVE  /\ a.co \in Coroutines /\ a.sock \in Sockets /\ a.kind \in IoKinds
           /\ at[a.co] # Nil /\ at[a.co].sock = a.sock /\ at[a.co].kind = a.kind
           /\ a.k = n[a.co] /\ a.co \notin Woken(queue)
           /\ io[a.sock][SlotOf(a.kind)] = w
<1>1. a \in Arms
  BY DEF IInv, TypeOK
<1>2. a.co \in Coroutines /\ a.sock \in Sockets /\ a.kind \in IoKinds
  BY <1>1 DEF Arms
<1> QED BY <1>2 DEF IInv, ArmedKnown, InWait

\* After the event no *_current_co names its coroutine.
LEMMA EventForgets ==
    ASSUME IInv, NEW w \in Watchers, NEW a, a = armed[w], a # Nil, current_co' = Cleared(a.sock, a.kind)
    PROVE  Forgets(a.co)
<1>1. /\ a.co \in Coroutines /\ a.sock \in Sockets /\ a.kind \in IoKinds
      /\ at[a.co] # Nil /\ at[a.co].sock = a.sock /\ at[a.co].kind = a.kind
  BY EventFinds
<1>2. \A x \in Sockets, r \in Roles : current_co[x][r] = a.co => x = a.sock /\ a.kind # "readline" /\ r = RoleOf(a.kind)
  BY <1>1, NilAssumption DEF IInv, CurrentKnown
<1>3. CASE a.kind = "readline"
  <2>1. current_co' = current_co
    BY <1>3 DEF Cleared
  <2> QED BY <1>2, <1>3, <2>1 DEF Forgets, IInv, TypeOK
<1>4. CASE a.kind # "readline"
  <2>1. PICK c \in Coroutines, s \in Sockets, role \in Roles : c = a.co /\ s = a.sock /\ role = RoleOf(a.kind)
    BY <1>1, <1>4, KindsOfSlots
  <2>2. current_co' = [current_co EXCEPT ![s][role] = Nil]
    BY <1>4, <2>1 DEF Cleared
  <2>3. current_co[s][role] \in {c, Nil}
    BY <1>4, <2>1 DEF IInv, ArmedKnown
  <2>4. \A x \in Sockets, r \in Roles : current_co[x][r] = c => x = s /\ r = role
    BY <1>2, <2>1
  <2>5. Forgets(c)
    BY <2>2, <2>3, <2>4, Forgotten
  <2> QED BY <2>1, <2>5
<1> QED BY <1>3, <1>4

\* Its coroutine is woken.
LEMMA EventAppends ==
    ASSUME IInv, NEW w \in Watchers, NEW a, a = armed[w], a # Nil, queue' = Append(queue, Item(a.co, a.k, TRUE))
    PROVE  /\ queue' \in Seq(Items) /\ IsSound(queue') /\ ItemsFit(queue', n)
           /\ Woken(queue') = Woken(queue) \union {a.co} /\ Spawned(queue') = Spawned(queue)
<1>1. a.co \in Coroutines /\ a.k = n[a.co] /\ a.co \notin Woken(queue)
  BY EventFinds
<1>2. PICK c \in Coroutines, k \in Nat : c = a.co /\ k = a.k /\ k = n[c] /\ c \notin Woken(queue)
  BY <1>1 DEF IInv, TypeOK
<1>3. queue \in Seq(Items) /\ IsSound(queue) /\ ItemsFit(queue, n)
  BY DEF IInv, TypeOK, QueueKnown
<1>4. LET r == Append(queue, Item(c, k, TRUE)) IN
      /\ r \in Seq(Items) /\ Woken(r) = Woken(queue) \union {c} /\ Spawned(r) = Spawned(queue)
      /\ IsSound(r) /\ ItemsFit(r, n)
  BY <1>2, <1>3, AppendWakes
<1> QED BY <1>2, <1>4

LEMMA EventWakesKeeps == ASSUME IInv, NEW w \in Watchers, EventWakes(w) PROVE IInv'
<1>1. PICK a : a = armed[w]
  OBVIOUS
<1>2. /\ turn = "loop" /\ a # Nil /\ a.kind \in {"connect", "handshake", "recv", "readline", "sendfile"}
      /\ Release(a.sock, {SlotOf(a.kind)}) /\ current_co' = Cleared(a.sock, a.kind)
      /\ IF a.kind = "sendfile" THEN UNCHANGED <<timer, timers>> ELSE StopTimer(a.sock)
      /\ queue' = Append(queue, Item(a.co, a.k, TRUE))
      /\ UNCHANGED <<used, fd, timeout, send_co, at, n, turn, partial, torn>>
  BY <1>1 DEF EventWakes, Ready, wireVars
<1>3. PICK c \in Coroutines : c = a.co
  BY <1>1, <1>2, EventFinds
<1>4. /\ a.sock \in Sockets /\ at[c] # Nil /\ at[c].sock = a.sock /\ at[c].kind = a.kind /\ a.kind \in IoKinds
      /\ io[a.sock][SlotOf(a.kind)] = w
  BY <1>1, <1>2, <1>3, EventFinds
<1>5. Forgets(c)
  BY <1>1, <1>2, <1>3, EventForgets
<1>6. ASSUME NEW t \in timers
      PROVE  t \in Timers /\ t.sock \in Sockets /\ timer[t.sock] = t /\ InWait(t.co, t.k, t.kind, t.sock) /\ t.kind \notin Senders
  BY DEF IInv, TypeOK, TimersKnown, Timers
<1>7. Rests(c)
  <2>1. timer \in [Sockets -> Timers \union {Nil}]
    BY DEF IInv, TypeOK
  <2>2. CASE a.kind = "sendfile"
    <3>1. timers' = timers /\ timer' = timer
      BY <1>2, <2>2
    <3>2. \A t \in timers : t.co # c
      BY <1>4, <1>6, <2>2 DEF InWait, Senders
    <3> QED BY <1>6, <2>1, <3>1, <3>2 DEF Rests
  <2>3. CASE a.kind # "sendfile"
    <3>1. timers' = timers \ {timer[a.sock]} /\ timer' = [timer EXCEPT ![a.sock] = Nil]
      BY <1>2, <2>3 DEF StopTimer
    <3>2. at[c].kind \notin Senders
      BY <1>2, <1>4, <2>3 DEF Senders
    <3>3. \A t \in timers : t.sock = a.sock <=> t.co = c
      BY <1>4, <1>6, <3>2, TimerOfReader
    <3>4. \A t \in timers : t = timer[a.sock] <=> t.co = c
      <4>1. timer[a.sock] # Nil => timer[a.sock].sock = a.sock
        BY <1>4 DEF IInv, TimersKnown
      <4>2. \A t \in timers : t # Nil
        BY <1>6, NilAssumption
      <4> QED BY <1>6, <3>3, <4>1, <4>2
    <3>5. /\ timer' \in [Sockets -> Timers \union {Nil}] /\ timer'[a.sock] = Nil
          /\ \A x \in Sockets : x # a.sock => timer'[x] = timer[x]
      BY <1>4, <2>1, <3>1
    <3> QED BY <1>6, <3>1, <3>3, <3>4, <3>5 DEF Rests
  <2> QED BY <2>2, <2>3
<1>8. /\ queue' \in Seq(Items) /\ IsSound(queue') /\ ItemsFit(queue', n)
      /\ Woken(queue') = Woken(queue) \union {c} /\ Spawned(queue') = Spawned(queue)
  BY <1>1, <1>2, <1>3, EventAppends
<1>9. Silences(c)
  BY <1>2, <1>5, <1>7, <1>8, CoroutinesAssumption DEF Silences, IInv, TypeOK
<1>10. at[c].kind # "resolve"
  BY <1>4, KindsOfSlots
<1>11. \A v \in Watchers : armed[v] # Nil /\ io[at[c].sock][SlotOf(at[c].kind)] = v => armed[v].co = c
  BY <1>1, <1>3, <1>4
<1>12. Release(at[c].sock, {SlotOf(at[c].kind)})
  BY <1>2, <1>4
<1> QED BY <1>4, <1>9, <1>10, <1>11, <1>12, WakeKeeps

LEMMA WritesLastKeeps == ASSUME IInv, NEW w \in Watchers, WritesLast(w) PROVE IInv'
<1>1. PICK a : a = armed[w]
  OBVIOUS
<1>2. /\ turn = "loop" /\ a # Nil /\ a.kind = "send"
      /\ Release(a.sock, {"send"}) /\ send_co' = [send_co EXCEPT ![a.sock] = FALSE]
      /\ current_co' = Cleared(a.sock, a.kind)
      /\ queue' = Append(queue, Item(a.co, a.k, TRUE))
      /\ partial' = partial \ {a.sock}
      /\ UNCHANGED <<used, fd, timeout, timer, timers, at, n, turn, torn>>
  BY <1>1 DEF WritesLast, Ready
<1>3. PICK c \in Coroutines : c = a.co
  BY <1>1, <1>2, EventFinds
<1>4. /\ a.sock \in Sockets /\ at[c] # Nil /\ at[c].sock = a.sock /\ at[c].kind = a.kind /\ a.kind \in IoKinds
      /\ io[a.sock][SlotOf(a.kind)] = w
  BY <1>1, <1>2, <1>3, EventFinds
<1>5. Forgets(c)
  BY <1>1, <1>2, <1>3, EventForgets
<1>6. Rests(c)
  <2>1. \A t \in timers : t.co # c /\ timer[t.sock] = t
    <3> SUFFICES ASSUME NEW t \in timers PROVE t.co # c /\ timer[t.sock] = t
      OBVIOUS
    <3>1. t.kind \notin Senders /\ InWait(t.co, t.k, t.kind, t.sock) /\ timer[t.sock] = t
      BY DEF IInv, TypeOK, TimersKnown, Timers
    <3> QED BY <1>2, <1>4, <3>1 DEF InWait, Senders
  <2> QED BY <1>2, <2>1 DEF Rests, IInv, TypeOK
<1>7. /\ queue' \in Seq(Items) /\ IsSound(queue') /\ ItemsFit(queue', n)
      /\ Woken(queue') = Woken(queue) \union {c} /\ Spawned(queue') = Spawned(queue)
  BY <1>1, <1>2, <1>3, EventAppends
<1>8. send_co' \in [Sockets -> BOOLEAN] /\ \A x \in Sockets : send_co[x] => send_co'[x] \/ x = a.sock
  BY <1>2 DEF IInv, TypeOK
<1>9. partial' \subseteq Sockets
  BY <1>2 DEF IInv, TypeOK
<1>10. Silences(c)
  BY <1>2, <1>4, <1>5, <1>6, <1>7, <1>8, <1>9, CoroutinesAssumption DEF Silences
<1>11. at[c].kind # "resolve"
  BY <1>2, <1>4
<1>12. \A v \in Watchers : armed[v] # Nil /\ io[at[c].sock][SlotOf(at[c].kind)] = v => armed[v].co = c
  BY <1>1, <1>3, <1>4
<1>13. Release(at[c].sock, {SlotOf(at[c].kind)})
  BY <1>2, <1>4, Kinds
<1> QED BY <1>4, <1>10, <1>11, <1>12, <1>13, WakeKeeps

LEMMA TimedOutKeeps == ASSUME IInv, TimedOut PROVE IInv'
<1>1. PICK t, role : t = Head(queue).timer /\ role = IF t.kind = "readline" THEN "read" ELSE RoleOf(t.kind)
  OBVIOUS
<1>2. /\ turn = "main" /\ queue # <<>> /\ Head(queue).what = "timer"
      /\ Release(t.sock, {SlotOf(t.kind)}) /\ timer' = [timer EXCEPT ![t.sock] = Nil]
      /\ current_co' = [current_co EXCEPT ![t.sock][role] = Nil]
      /\ queue' = IF MayWake(t.co) THEN Append(Tail(queue), Item(t.co, t.k, FALSE)) ELSE Tail(queue)
      /\ UNCHANGED <<used, fd, timeout, send_co, timers, at, n, turn, partial, torn>>
  BY <1>1 DEF TimedOut, wireVars
<1>3. queue \in Seq(Items) /\ IsSound(queue) /\ ItemsFit(queue, n)
  BY DEF IInv, TypeOK, QueueKnown
<1>4. PICK q : q = Tail(queue)
  OBVIOUS
<1>5. /\ q \in Seq(Items) /\ Woken(q) = Woken(queue) /\ t \in Spawned(queue)
      /\ Spawned(q) \subseteq Spawned(queue) /\ Spawned(queue) \subseteq Spawned(q) \union {t}
      /\ IsSound(q) /\ ItemsFit(q, n)
  BY <1>1, <1>2, <1>3, <1>4, CallbackLeaves
<1>6. t \in Timers /\ InWait(t.co, t.k, t.kind, t.sock) /\ t \notin timers
  BY <1>3, <1>5, SetsTyped DEF IInv, CallbacksKnown
<1>7. PICK c \in Coroutines, s \in Sockets, k \in IoKinds \ Senders : c = t.co /\ s = t.sock /\ k = t.kind
  BY <1>6 DEF Timers
<1>8. at[c] # Nil /\ at[c].sock = s /\ at[c].kind = k /\ at[c].kind \notin Senders /\ n[c] = t.k
  BY <1>6, <1>7 DEF InWait
<1>9. /\ queue' \in Seq(Items) /\ Woken(queue') = Woken(queue) \union {c} /\ Spawned(queue') = Spawned(q)
      /\ IsSound(queue') /\ ItemsFit(queue', n)
  <2>1. MayWake(c) <=> c \notin Woken(queue)
    BY <1>2, <1>3, QueuedIsWoken, CoroutinesAssumption DEF MayWake
  <2>2. CASE c \in Woken(queue)
    BY <1>2, <1>4, <1>5, <1>7, <2>1, <2>2
  <2>3. CASE c \notin Woken(queue)
    <3>1. PICK m \in Nat : m = t.k
      BY <1>6 DEF Timers
    <3>2. queue' = Append(q, Item(c, m, FALSE)) /\ m = n[c]
      BY <1>2, <1>4, <1>7, <1>8, <2>1, <2>3, <3>1
    <3>3. LET r == Append(q, Item(c, m, FALSE)) IN
          /\ r \in Seq(Items) /\ Woken(r) = Woken(q) \union {c} /\ Spawned(r) = Spawned(q)
          /\ IsSound(r) /\ ItemsFit(r, n)
      BY <1>5, <2>3, <3>2, AppendWakes
    <3> QED BY <1>5, <3>2, <3>3
  <2> QED BY <2>2, <2>3
<1>10. role \in Roles /\ role \notin Senders /\ (k # "readline" => role = RoleOf(k)) /\ SlotOf(k) # "send"
  <2>1. k \in {"connect", "handshake", "recv", "readline"}
    BY <1>7 DEF IoKinds
  <2> QED BY <1>1, <1>7, <2>1, Kinds DEF Roles, Senders
<1>11. \A x \in Sockets, r \in Roles : current_co[x][r] = c => x = s /\ r = role
  BY <1>8, <1>10, NilAssumption DEF IInv, CurrentKnown
<1>12. current_co[s][role] \in {c, Nil}
  <2> SUFFICES ASSUME NEW e, e = current_co[s][role], e # Nil PROVE e = c
    OBVIOUS
  <2>1. e \in Coroutines
    BY <1>7, <1>10 DEF IInv, TypeOK
  <2>2. at[e] # Nil /\ at[e].sock = s /\ at[e].kind \notin {"resolve", "readline"} /\ RoleOf(at[e].kind) = role
    BY <1>7, <1>10 DEF IInv, CurrentKnown
  <2>3. at[e].kind \in IoKinds
    BY <2>1, <2>2 DEF IInv, TypeOK, Waits
  <2>4. at[e].kind \notin Senders
    BY <1>10, <2>2, <2>3, KindsOfSlots
  <2> QED BY <1>8, <2>1, <2>2, <2>4, SoleReader
<1>13. Forgets(c)
  <2>1. current_co' = [current_co EXCEPT ![s][role] = Nil]
    BY <1>2, <1>7
  <2> QED BY <1>10, <1>11, <1>12, <2>1, Forgotten
<1>14. Rests(c)
  <2>1. timer \in [Sockets -> Timers \union {Nil}]
    BY DEF IInv, TypeOK
  <2>2. ASSUME NEW u \in timers
        PROVE  u \in Timers /\ u.sock \in Sockets /\ timer[u.sock] = u /\ u.co # c /\ u.sock # s
    <3>1. u \in Timers /\ u.sock \in Sockets /\ timer[u.sock] = u /\ InWait(u.co, u.k, u.kind, u.sock)
      BY DEF IInv, TypeOK, TimersKnown, Timers
    <3>2. u.co # c
      <4> SUFFICES ASSUME u.co = c PROVE u = t
        BY <1>6
      <4>1. u.co = t.co /\ u.k = t.k /\ u.sock = t.sock /\ u.kind = t.kind
        BY <1>7, <1>8, <3>1 DEF InWait
      <4> QED BY <1>6, <3>1, <4>1 DEF Timers
    <3> QED BY <1>8, <3>1, <3>2, TimerOfReader
  <2>3. /\ timer' \in [Sockets -> Timers \union {Nil}] /\ timer'[s] = Nil
        /\ \A x \in Sockets : x # s => timer'[x] = timer[x]
    BY <1>2, <1>7, <2>1
  <2> QED BY <1>2, <2>2, <2>3 DEF Rests
<1>15. Silences(c)
  BY <1>2, <1>5, <1>7, <1>9, <1>13, <1>14, CoroutinesAssumption DEF Silences, IInv, TypeOK
<1>16. \A v \in Watchers : armed[v] # Nil /\ io[at[c].sock][SlotOf(at[c].kind)] = v => armed[v].co = c
  <2> SUFFICES ASSUME NEW v \in Watchers, NEW a, a = armed[v], a # Nil, io[s][SlotOf(k)] = v PROVE a.co = c
    BY <1>8
  <2>1. SlotOf(k) \in Slots /\ v # Nil
    BY <1>7, KindsOfSlots, NilAssumption, WatchersAssumption
  <2>2. a.sock = s /\ SlotOf(a.kind) = SlotOf(k)
    BY <2>1 DEF IInv, SlotsKnown
  <2>3. /\ a.co \in Coroutines /\ a.kind \in IoKinds
        /\ at[a.co] # Nil /\ at[a.co].sock = a.sock /\ at[a.co].kind = a.kind
    BY EventFinds
  <2>4. a.kind \notin Senders
    BY <1>10, <2>2, <2>3, KindsOfSlots
  <2> QED BY <1>8, <2>2, <2>3, <2>4, SoleReader
<1>17. at[c].kind # "resolve"
  BY <1>7, <1>8, KindsOfSlots
<1>18. Release(at[c].sock, {SlotOf(at[c].kind)})
  BY <1>2, <1>7, <1>8
<1> QED BY <1>8, <1>15, <1>16, <1>17, <1>18, WakeKeeps

\* close takes all down that belongs to its socket, and wakes all whom it names.
LEMMA CloseKeeps == ASSUME IInv, NEW c \in Coroutines, NEW s \in Sockets, close(c, s) PROVE IInv'
<1> DEFINE Named == {e \in Coroutines : \E role \in Roles : current_co[s][role] = e}
<1>1. /\ turn = c /\ s \in used /\ timers' = timers \ {timer[s]} /\ timer' = [timer EXCEPT ![s] = Nil]
      /\ Release(s, Slots)
      /\ send_co' = IF io[s]["send"] # Nil THEN [send_co EXCEPT ![s] = FALSE] ELSE send_co
      /\ queue' = QueueSleepers(s) /\ current_co' = [current_co EXCEPT ![s] = [r \in Roles |-> Nil]]
      /\ timeout' = [timeout EXCEPT ![s] = FALSE] /\ fd' = [fd EXCEPT ![s] = Nil]
      /\ partial' = partial \ {s} /\ torn' = torn \ {s}
      /\ UNCHANGED <<used, at, n, turn>>
  BY DEF close, StopTimer
<1>2. /\ queue' \in Seq(Items) /\ Spawned(queue') = Spawned(queue) /\ IsSound(queue') /\ ItemsFit(queue', n)
      /\ Woken(queue') = Woken(queue) \union Named
  BY <1>1, SleepersWoken DEF IInv
<1>3. /\ POOL' \in Seq(Watchers) /\ armed' \in [Watchers -> Arms \union {Nil}]
      /\ io' \in [Sockets -> [Slots -> Watchers \union {Nil}]]
      /\ PoolKnown' /\ SlotsKnown'
      /\ \A y \in Slots : io'[s][y] = Nil
      /\ \A x \in Sockets, y \in Slots : x # s \/ y \notin Slots => io'[x][y] = io[x][y]
      /\ \A v \in Watchers : armed'[v] # Nil =>
             armed'[v] = armed[v] /\ ~(armed[v].sock = s /\ SlotOf(armed[v].kind) \in Slots)
      /\ \A v \in Watchers : (\A y \in Slots : io[s][y] # v) => armed'[v] = armed[v]
  BY <1>1, Released DEF IInv
<1>4. /\ fd' \in [Sockets -> Descriptors \union {Nil}] /\ fd'[s] = Nil /\ \A x \in Sockets : x # s => fd'[x] = fd[x]
      /\ send_co' \in [Sockets -> BOOLEAN] /\ \A x \in Sockets : x # s => send_co'[x] = send_co[x]
      /\ timer' \in [Sockets -> Timers \union {Nil}] /\ timer'[s] = Nil /\ \A x \in Sockets : x # s => timer'[x] = timer[x]
  BY <1>1 DEF IInv, TypeOK
<1>5. /\ current_co' \in [Sockets -> [Roles -> Coroutines \union {Nil}]]
      /\ \A r \in Roles : current_co'[s][r] = Nil
      /\ \A x \in Sockets, r \in Roles : x # s => current_co'[x][r] = current_co[x][r]
  BY <1>1 DEF IInv, TypeOK
<1>6. TypeOK'
  <2>1. timeout' \in [Sockets -> BOOLEAN] /\ partial' \subseteq Sockets /\ torn' \subseteq Sockets /\ timers' \subseteq Timers
    BY <1>1 DEF IInv, TypeOK
  <2> QED BY <1>1, <1>2, <1>3, <1>4, <1>5, <2>1 DEF IInv, TypeOK
<1>7. \A e \in Named : at[e] # Nil /\ at[e].sock = s /\ e # turn
  BY NilAssumption DEF IInv, CurrentKnown
<1> HIDE DEF Named
<1>8. QueueKnown'
  BY <1>1, <1>2, <1>7 DEF IInv, QueueKnown
<1>9. \A e, k, m, x : InWait(e, k, m, x)' <=> InWait(e, k, m, x)
  BY <1>1 DEF InWait
<1>10. ASSUME NEW e \in Coroutines, at[e] # Nil
       PROVE  at[e].sock \in Sockets /\ (at[e].kind # "resolve" => at[e].fd # Nil)
  BY <1>10 DEF IInv, TypeOK, WaitsKnown
<1>11. \A e \in Coroutines : Abandoned(e) \/ (at[e] # Nil /\ at[e].kind = "readline" /\ at[e].sock = s) => Abandoned(e)'
  <2> SUFFICES ASSUME NEW e \in Coroutines, at[e] # Nil, at[e].kind = "readline", Abandoned(e) \/ at[e].sock = s
               PROVE  fd'[at[e].sock] # at[e].fd
    BY <1>1 DEF Abandoned
  <2>1. at[e].sock \in Sockets /\ at[e].fd # Nil
    BY <1>10
  <2> QED BY <1>4, <2>1 DEF Abandoned
<1>12. ArmedKnown'
  <2> SUFFICES ASSUME NEW v \in Watchers, armed'[v] # Nil,
                      NEW a, a = armed'[v]
               PROVE  /\ io'[a.sock][SlotOf(a.kind)] = v
                      /\ InWait(a.co, a.k, a.kind, a.sock)' /\ a.co \notin Woken(queue')
                      /\ fd'[a.sock] = a.fd \/ Abandoned(a.co)'
                      /\ a.kind = "send" => send_co'[a.sock]
                      /\ a.kind # "readline" => current_co'[a.sock][RoleOf(a.kind)] = a.co
    BY DEF ArmedKnown
  <2>1. a = armed[v] /\ a # Nil /\ ~(a.sock = s /\ SlotOf(a.kind) \in Slots)
    BY <1>3
  <2>2. a \in Arms
    BY <2>1 DEF IInv, TypeOK
  <2>3. a.kind \in IoKinds /\ a.sock \in Sockets /\ a.co \in Coroutines /\ SlotOf(a.kind) \in Slots /\ a.sock # s
    BY <2>1, <2>2, KindsOfSlots DEF Arms
  <2>4. /\ io[a.sock][SlotOf(a.kind)] = v
        /\ InWait(a.co, a.k, a.kind, a.sock) /\ a.co \notin Woken(queue)
        /\ fd[a.sock] = a.fd \/ Abandoned(a.co)
        /\ a.kind = "send" => send_co[a.sock]
        /\ a.kind # "readline" => current_co[a.sock][RoleOf(a.kind)] = a.co
    BY <2>1 DEF IInv, ArmedKnown
  <2>5. a.co \notin Named
    BY <1>7, <2>3, <2>4 DEF InWait
  <2>6. a.kind # "readline" => RoleOf(a.kind) \in Roles
    BY <2>3, KindsOfSlots
  <2> QED BY <1>2, <1>3, <1>4, <1>5, <1>9, <1>11, <2>3, <2>4, <2>5, <2>6
<1>13. TimersKnown'
  <2>1. ASSUME NEW t \in timers'
        PROVE  InWait(t.co, t.k, t.kind, t.sock)' /\ t.co \notin Woken(queue') /\ timer'[t.sock] = t
    <3>1. t \in timers /\ t # timer[s]
      BY <1>1
    <3>2. t.sock \in Sockets /\ InWait(t.co, t.k, t.kind, t.sock) /\ t.co \notin Woken(queue) /\ timer[t.sock] = t
      BY <3>1 DEF IInv, TypeOK, TimersKnown, Timers
    <3>3. t.sock # s
      BY <3>1, <3>2
    <3>4. t.co \notin Named
      BY <1>7, <3>2, <3>3 DEF InWait
    <3> QED BY <1>2, <1>4, <1>9, <3>2, <3>3, <3>4
  <2>2. \A x \in Sockets : timer'[x] # Nil => timer'[x].sock = x
    BY <1>4 DEF IInv, TimersKnown
  <2> QED BY <2>1, <2>2 DEF TimersKnown
<1>14. CallbacksKnown'
  <2> SUFFICES ASSUME NEW t \in Spawned(queue)
               PROVE  /\ InWait(t.co, t.k, t.kind, t.sock)' /\ t \notin timers'
                      /\ t.co \in Woken(queue') => io'[t.sock][SlotOf(t.kind)] = Nil
    BY <1>2 DEF CallbacksKnown
  <2>1. t \in Timers
    BY SetsTyped DEF IInv, TypeOK
  <2>2. t.sock \in Sockets /\ SlotOf(t.kind) \in Slots
    BY <2>1, KindsOfSlots DEF Timers
  <2>3. /\ InWait(t.co, t.k, t.kind, t.sock) /\ t \notin timers
        /\ t.co \in Woken(queue) => io[t.sock][SlotOf(t.kind)] = Nil
    BY DEF IInv, CallbacksKnown
  <2>4. CASE t.sock = s
    BY <1>1, <1>3, <1>9, <2>2, <2>3, <2>4
  <2>5. CASE t.sock # s
    <3>1. t.co \notin Named
      BY <1>7, <2>3, <2>5 DEF InWait
    <3> QED BY <1>1, <1>2, <1>3, <1>9, <2>2, <2>3, <2>5, <3>1
  <2> QED BY <2>4, <2>5
<1>15. WaitsKnown'
  <2>1. \A d, e \in Coroutines : Together(d, e)'
    BY <1>1 DEF IInv, WaitsKnown, Together
  <2>2. \A x \in Sockets : fd'[x] # Nil => x \in used'
    BY <1>1, <1>4 DEF IInv, WaitsKnown
  <2>3. \A e \in Coroutines : at[e] # Nil /\ at[e].kind = "resolve" => fd'[at[e].sock] = Nil
    BY <1>4, <1>10 DEF IInv, WaitsKnown
  <2> QED BY <1>1, <2>1, <2>2, <2>3 DEF IInv, WaitsKnown
<1>16. Reached'
  <2> SUFFICES ASSUME NEW e \in Coroutines, at[e] # Nil, at[e].kind # "resolve"
               PROVE  \/ Abandoned(e)' \/ e \in Woken(queue')
                      \/ Waker(e)' /\ (at[e].timed => \E t \in timers' \union Spawned(queue') : Mine(e, t))
    BY <1>1 DEF Reached, Mine
  <2>1. CASE Abandoned(e) \/ e \in Woken(queue)
    BY <1>2, <1>11, <2>1
  <2>2. CASE ~(Abandoned(e) \/ e \in Woken(queue))
    <3>1. Waker(e) /\ (at[e].timed => \E t \in timers \union Spawned(queue) : Mine(e, t))
      BY <2>2 DEF IInv, Reached
    <3>2. PICK v, a : v \in Watchers /\ a = armed[v] /\ a # Nil /\ a.co = e
      BY <3>1 DEF Waker
    <3>3. a.sock \in Sockets /\ a.kind \in IoKinds /\ at[e].sock = a.sock /\ at[e].kind = a.kind /\ io[a.sock][SlotOf(a.kind)] = v
      BY <3>2, EventFinds
    <3>4. CASE a.sock = s /\ a.kind = "readline"
      BY <1>11, <3>3, <3>4
    <3>5. CASE a.sock = s /\ a.kind # "readline"
      <4>1. RoleOf(a.kind) \in Roles
        BY <3>3, <3>5, KindsOfSlots
      <4>2. current_co[s][RoleOf(a.kind)] = e
        BY <3>2, <3>5 DEF IInv, ArmedKnown
      <4> QED BY <1>2, <4>1, <4>2 DEF Named
    <3>6. CASE a.sock # s
      <4>1. \A y \in Slots : io[s][y] # v
        BY <3>2, <3>6, NilAssumption, WatchersAssumption DEF IInv, SlotsKnown
      <4>2. Waker(e)'
        BY <1>3, <3>2, <4>1 DEF Waker
      <4>3. \A t \in timers : Mine(e, t) => t \in timers'
        <5> SUFFICES ASSUME NEW t \in timers, t.co = e, t = timer[s] PROVE FALSE
          BY <1>1 DEF Mine
        <5>1. t # Nil /\ InWait(t.co, t.k, t.kind, t.sock)
          BY NilAssumption DEF IInv, TypeOK, TimersKnown
        <5>2. t.sock = s
          BY <5>1 DEF IInv, TimersKnown
        <5> QED BY <3>3, <3>6, <5>1, <5>2 DEF InWait
      <4> QED BY <1>2, <3>1, <4>2, <4>3
    <3> QED BY <3>4, <3>5, <3>6
  <2> QED BY <2>1, <2>2
<1>17. CurrentKnown'
  <2> SUFFICES ASSUME NEW x \in Sockets, NEW r \in Roles, NEW e, e = current_co'[x][r], e # Nil
               PROVE  /\ at[e] # Nil /\ at[e].sock = x
                      /\ at[e].kind \notin {"resolve", "readline"} /\ RoleOf(at[e].kind) = r
                      /\ turn # e /\ e \notin Woken(queue')
    BY <1>1 DEF CurrentKnown
  <2>1. x # s /\ e = current_co[x][r]
    BY <1>5
  <2>2. /\ at[e] # Nil /\ at[e].sock = x
        /\ at[e].kind \notin {"resolve", "readline"} /\ RoleOf(at[e].kind) = r
        /\ turn # e /\ e \notin Woken(queue)
    BY <2>1 DEF IInv, CurrentKnown
  <2>3. e \notin Named
    BY <1>7, <2>1, <2>2
  <2> QED BY <1>2, <2>2, <2>3
<1> QED BY <1>3, <1>6, <1>8, <1>12, <1>13, <1>14, <1>15, <1>16, <1>17 DEF IInv

-----------------------------------------------------------------------------
(* The invariant. *)

LEMMA SchedulingKeeps == ASSUME IInv, Scheduling PROVE IInv'
<1>1. partial \subseteq Sockets /\ torn \subseteq Sockets
  BY DEF IInv, TypeOK
<1>2. CASE ToMain \/ ToLoop \/ \E c \in Coroutines : Leave(c)
  <2>1. UNCHANGED <<sockVars, waitVars, queue>> /\ turn' \in {turn, "loop", "main"} /\ UNCHANGED <<partial, torn>>
    BY <1>2 DEF ToMain, ToLoop, Leave, wireVars
  <2> QED BY <1>1, <2>1, TurnKeeps
<1>3. CASE \E c \in Coroutines : Call(c)
  BY <1>3, CallKeeps
<1> QED BY <1>2, <1>3 DEF Scheduling

LEMMA BeginningKeeps == ASSUME IInv, NEW c \in Coroutines, Beginning(c) PROVE IInv'
<1>1. PICK s \in Sockets :
        \/ set_fd(c, s)
        \/ Connect(c, s)
        \/ ConnectDomain(c, s)
        \/ \E kind \in {"recv", "readline", "handshake"} : Begin(c, s, kind)
        \/ \E out \in {"all", "part", "none", "fail"} : send(c, s, out)
        \/ sendfile(c, s)
        \/ close(c, s)
  BY DEF Beginning
<1>2. CASE set_fd(c, s)
  BY <1>2, SetFdKeeps
<1>3. CASE Connect(c, s)
  BY <1>3, ConnectKeeps
<1>4. CASE ConnectDomain(c, s)
  BY <1>4, ConnectDomainKeeps
<1>5. CASE \E kind \in {"recv", "readline", "handshake"} : Begin(c, s, kind)
  BY <1>5, BeginKeeps
<1>6. CASE \E out \in {"all", "part", "none", "fail"} : send(c, s, out)
  BY <1>6, SendKeeps
<1>7. CASE sendfile(c, s)
  BY <1>7, SendfileKeeps
<1>8. CASE close(c, s)
  BY <1>8, CloseKeeps
<1> QED BY <1>1, <1>2, <1>3, <1>4, <1>5, <1>6, <1>7, <1>8

LEMMA EventsKeep == ASSUME IInv, Events PROVE IInv'
<1>1. CASE \E w \in Watchers : EventWakes(w)
  BY <1>1, EventWakesKeeps
<1>2. ASSUME NEW w \in Watchers, WritesSome(w) PROVE IInv'
  <2>1. UNCHANGED <<sockVars, waitVars, queue>> /\ turn' = turn /\ torn' = torn /\ partial' = partial \union {armed[w].sock}
    BY <1>2 DEF WritesSome
  <2>2. armed[w].sock \in Sockets
    BY <1>2, EventFinds DEF WritesSome, Ready
  <2>3. partial' \subseteq Sockets /\ torn' \subseteq Sockets
    BY <2>1, <2>2 DEF IInv, TypeOK
  <2> QED BY <2>1, <2>3, TurnKeeps
<1>3. CASE \E w \in Watchers : WritesLast(w)
  BY <1>3, WritesLastKeeps
<1>4. CASE \E t \in timers : TimerFires(t)
  BY <1>4, TimerFiresKeeps
<1>5. CASE \E c \in Coroutines : Answer(c)
  BY <1>5, AnswerKeeps
<1> QED BY <1>1, <1>2, <1>3, <1>4, <1>5 DEF Events

LEMMA ResumingKeeps == ASSUME IInv, NEW c \in Coroutines, Resuming(c) PROVE IInv'
BY RunsKeeps, ReturnsKeeps, ResolvedKeeps, ReadsOnKeeps, ShakesOnKeeps DEF Resuming

LEMMA NextKeeps == IInv /\ [Next]_vars => IInv'
<1> SUFFICES ASSUME IInv, [Next]_vars PROVE IInv'
  OBVIOUS
<1>1. CASE Scheduling
  BY <1>1, SchedulingKeeps
<1>2. CASE \E c \in Coroutines : Beginning(c)
  BY <1>2, BeginningKeeps
<1>3. CASE Events
  BY <1>3, EventsKeep
<1>4. CASE TimedOut
  BY <1>4, TimedOutKeeps
<1>5. CASE \E c \in Coroutines : Resuming(c)
  BY <1>5, ResumingKeeps
<1>6. CASE UNCHANGED vars
  <2>1. UNCHANGED <<sockVars, waitVars, queue>> /\ turn' = turn /\ UNCHANGED <<partial, torn>>
    BY <1>6 DEF vars, wireVars
  <2> QED BY <2>1, TurnKeeps DEF IInv, TypeOK
<1> QED BY <1>1, <1>2, <1>3, <1>4, <1>5, <1>6 DEF Next

LEMMA Invariance == Spec => []IInv
<1>1. Spec => Init /\ [][Next]_vars
  BY DEF Spec
<1> QED BY <1>1, InitHolds, NextKeeps, PTL

\* What the runs check follows from the invariant.
LEMMA OwnFromInvariant == IInv => WatchersAreOwn
<1> SUFFICES ASSUME IInv PROVE WatchersAreOwn
  OBVIOUS
<1>1. DOMAIN POOL = 1..Len(POOL) /\ \A i \in 1..Len(POOL) : POOL[i] \in Watchers
  BY ElementOfSeq, LenProperties DEF IInv, TypeOK
<1>2. \A i, j \in 1..Len(POOL) : POOL[i] = POOL[j] => i = j
  BY <1>1 DEF IInv, PoolKnown, Distinct
<1>3. \A w \in Elements(POOL) : w \in Watchers /\ w # Nil /\ armed[w] = Nil
  BY <1>1, NilAssumption, WatchersAssumption DEF IInv, PoolKnown, Elements
<1>4. \A s \in Sockets, k \in Slots : io[s][k] # Nil => armed[io[s][k]] # Nil /\ armed[io[s][k]].sock = s
  BY DEF IInv, SlotsKnown
<1>5. PoolIsFree
  BY <1>2, <1>3, <1>4 DEF PoolIsFree
<1>6. WatchesOwnFd
  BY DEF IInv, ArmedKnown, WatchesOwnFd
<1> QED BY <1>5, <1>6 DEF WatchersAreOwn

LEMMA LostFromInvariant == IInv => NobodyIsLost
<1> SUFFICES ASSUME IInv, NEW c \in Coroutines, at[c] # Nil, at[c].kind # "resolve"
             PROVE  \/ Abandoned(c) \/ Queued(c)
                    \/ /\ \E w \in Watchers : armed[w] # Nil /\ armed[w].co = c
                       /\ at[c].timed => HasTimer(c)
  BY DEF NobodyIsLost
<1>1. queue \in Seq(Items) /\ DOMAIN queue = 1..Len(queue)
  BY LenProperties DEF IInv, TypeOK
<1>2. (\E t \in timers \union Spawned(queue) : Mine(c, t)) => HasTimer(c)
  BY <1>1 DEF HasTimer, Mine, Spawned
<1> QED BY <1>1, <1>2, QueuedIsWoken DEF IInv, Reached, Waker

LEMMA FitFromInvariant == IInv => WakersFitTheirWait
<1> SUFFICES ASSUME IInv PROVE WakersFitTheirWait
  OBVIOUS
<1>1. queue \in Seq(Items) /\ DOMAIN queue = 1..Len(queue) /\ ItemsFit(queue, n)
  BY LenProperties DEF IInv, TypeOK, QueueKnown
<1>2. \A c : Queued(c) <=> c \in Woken(queue)
  BY <1>1, QueuedIsWoken
<1>3. \A w \in Watchers : armed[w] # Nil =>
         /\ InWait(armed[w].co, armed[w].k, armed[w].kind, armed[w].sock)
         /\ ~Queued(armed[w].co)
  BY <1>2 DEF IInv, ArmedKnown
<1>4. \A t \in timers : InWait(t.co, t.k, t.kind, t.sock) /\ ~Queued(t.co)
  BY <1>2 DEF IInv, TimersKnown
<1>5. ASSUME NEW i \in 1..Len(queue), queue[i].what = "co" PROVE queue[i].k = n[queue[i].co]
  BY <1>1, <1>5 DEF ItemsFit
<1>6. ASSUME NEW i \in 1..Len(queue), queue[i].what # "co", NEW t, t = queue[i].timer
      PROVE  InWait(t.co, t.k, t.kind, t.sock) /\ (Queued(t.co) => io[t.sock][SlotOf(t.kind)] = Nil)
  <2>1. queue[i].what = "timer"
    BY <1>1, <1>6, ItemTypes
  <2>2. t \in Spawned(queue)
    BY <1>1, <1>6, <2>1 DEF Spawned
  <2> QED BY <1>2, <2>2 DEF IInv, CallbacksKnown
<1>7. CallbacksFitTheirWait
  BY <1>3, <1>4, <1>5, <1>6 DEF CallbacksFitTheirWait
<1>8. CurrentIsAsleep
  BY <1>2 DEF IInv, CurrentKnown, CurrentIsAsleep, MayWake
<1> QED BY <1>7, <1>8 DEF WakersFitTheirWait

-----------------------------------------------------------------------------
(* Theorems. *)

\* Sockets, watchers, timers and the queue of the scheduler hold what they are meant to
\* hold, on every path of TCP.lua, and there is always a watcher and a descriptor to take.
THEOREM SocketsTypeCorrect == Spec => []TypeOK
<1>1. IInv => TypeOK
  BY DEF IInv
<1> QED BY <1>1, Invariance, PTL

\* No two waits share a watcher of the POOL, and close() reaches the watcher of every wait,
\* so none is left that watches a closed descriptor, but for an abandoned readline.
THEOREM WatchersOwned == Spec => []WatchersAreOwn
BY Invariance, OwnFromInvariant, PTL

\* Whoever waits on a socket is woken already or has a started watcher, and its timer if
\* there is a time-out: no order of events, time-outs and closes loses a coroutine, but for
\* an abandoned readline.
THEOREM NobodyLost == Spec => []NobodyIsLost
BY Invariance, LostFromInvariant, PTL

\* An event, a time-out or a close wakes a coroutine out of the wait that it was meant for,
\* once; a late time-out takes nobody else's watcher, and close() never raises half-way.
THEOREM WakersFit == Spec => []WakersFitTheirWait
BY Invariance, FitFromInvariant, PTL

\* A wait starts a watcher that was stopped.
LEMMA WaitStarts ==
    ASSUME IInv, NEW c \in Coroutines, Unseen(c), NEW s, NEW kind, NEW d, NEW timed, Wait(c, s, kind, d, timed)
    PROVE  \A w \in Watchers : armed[w] # Nil => armed'[w] = armed[w]
<1>1. tcp_pop \in Watchers /\ armed[tcp_pop] = Nil
  BY PopGives DEF IInv, Unseen
<1>2. \E a : armed' = [armed EXCEPT ![tcp_pop] = a]
  BY DEF Wait
<1> QED BY <1>1, <1>2 DEF IInv, TypeOK

\* A watcher that is started is never started for another wait before it is stopped, so no
\* event is delivered to the wrong callback, whoever takes watchers out of the pool.
THEOREM StartedOnce ==
    Spec => [][\A w \in Watchers : armed[w] # Nil /\ armed'[w] # Nil => armed'[w] = armed[w]]_vars
<1> DEFINE Once == \A w \in Watchers : armed[w] # Nil /\ armed'[w] # Nil => armed'[w] = armed[w]
<1>1. ASSUME IInv, [Next]_vars PROVE [Once]_vars
  <2>1. ASSUME NEW s, NEW slots, Release(s, slots) PROVE Once
    BY <2>1 DEF Release
  <2>2. CASE Scheduling
    BY <2>2 DEF Scheduling, ToMain, ToLoop, Call, Leave, waitVars
  <2>3. ASSUME NEW c \in Coroutines, Beginning(c) PROVE Once
    <3>1. turn = c
      BY <2>3 DEF Beginning, set_fd, Connect, ConnectDomain, Begin, send, sendfile, close
    <3>2. Unseen(c)
      BY <1>1, <3>1, RunningIsUnseen
    <3>3. \/ UNCHANGED armed
          \/ \E s, slots : Release(s, slots)
          \/ \E s, kind, d, timed : Wait(c, s, kind, d, timed)
      BY <2>3 DEF Beginning, set_fd, Connect, ConnectDomain, Begin, send, sendfile, close, waitVars
    <3> QED BY <1>1, <2>1, <3>2, <3>3, WaitStarts
  <2>4. CASE Events
    <3>1. UNCHANGED armed \/ \E s, slots : Release(s, slots)
      BY <2>4 DEF Events, EventWakes, WritesSome, WritesLast, TimerFires, Answer, waitVars
    <3> QED BY <2>1, <3>1
  <2>5. CASE TimedOut
    BY <2>1, <2>5 DEF TimedOut
  <2>6. ASSUME NEW c \in Coroutines, Resuming(c) PROVE Once
    <3>1. CASE Runs(c) \/ Returns(c)
      BY <3>1 DEF Runs, Returns, waitVars
    <3>2. CASE Resolved(c) \/ ReadsOn(c) \/ ShakesOn(c)
      <4>1. /\ queue # <<>> /\ Head(queue).what = "co" /\ Head(queue).co = c
            /\ \E s, kind, d, timed : Wait(c, s, kind, d, timed)
        BY <3>2 DEF Resolved, ReadsOn, ShakesOn, PopOf, Pop
      <4>2. Unseen(c)
        BY <1>1, <4>1, ResumedIsUnseen
      <4> QED BY <1>1, <4>1, <4>2, WaitStarts
    <3> QED BY <2>6, <3>1, <3>2 DEF Resuming
  <2>7. CASE UNCHANGED vars
    BY <2>7
  <2> QED BY <1>1, <2>2, <2>3, <2>4, <2>5, <2>6, <2>7 DEF Next
<1>2. IInv /\ [Next]_vars => [Once]_vars
  BY <1>1
<1>3. Spec => [][Next]_vars
  BY DEF Spec
<1> QED BY <1>2, <1>3, Invariance, PTL

=============================================================================
