---------------------------- MODULE CoSchedProofs ----------------------------
(***************************************************************************)
(* Proofs about CoSched: its invariants hold, and it implements the single *)
(* queue of FifoSched, for every set of coroutines and of payloads.        *)
(***************************************************************************)
EXTENDS CoSched, SequenceTheorems, FiniteSetTheorems, TLAPS

-----------------------------------------------------------------------------
(* The sequence of pending wake-ups *)

\* What is listed after an append, and that a new element is no repetition.
LEMMA AppendListed ==
    ASSUME NEW S, NEW s \in Seq(S), NEW e \in S
    PROVE  /\ Append(s, e) \in Seq(S)
           /\ \A x : Listed(x, Append(s, e)) <=> (Listed(x, s) \/ x = e)
           /\ NoRepeats(s) /\ ~Listed(e, s) => NoRepeats(Append(s, e))
<1>1. /\ Append(s, e) \in Seq(S)
      /\ Len(Append(s, e)) = Len(s) + 1
      /\ \A i \in 1..Len(s) : Append(s, e)[i] = s[i]
      /\ Append(s, e)[Len(s) + 1] = e
      /\ Len(s) \in Nat
  BY AppendProperties, LenProperties
<1>2. ASSUME NEW x PROVE Listed(x, Append(s, e)) <=> (Listed(x, s) \/ x = e)
  BY <1>1 DEF Listed
<1>3. NoRepeats(s) /\ ~Listed(e, s) => NoRepeats(Append(s, e))
  BY <1>1 DEF Listed, NoRepeats
<1> QED BY <1>1, <1>2, <1>3

\* What is listed after the head of a list without repetitions is removed.
LEMMA TailListed ==
    ASSUME NEW S, NEW s \in Seq(S), s # <<>>, NoRepeats(s)
    PROVE  /\ Head(s) \in S
           /\ Listed(Head(s), s)
           /\ Tail(s) \in Seq(S)
           /\ NoRepeats(Tail(s))
           /\ \A x : Listed(x, Tail(s)) <=> (Listed(x, s) /\ x # Head(s))
<1>1. /\ Head(s) \in S
      /\ Head(s) = s[1]
      /\ Tail(s) \in Seq(S)
      /\ Len(Tail(s)) = Len(s) - 1
      /\ \A i \in 1..Len(Tail(s)) : Tail(s)[i] = s[i+1]
      /\ Len(s) \in Nat \ {0}
  BY HeadTailProperties, EmptySeq, LenProperties
<1>2. Listed(Head(s), s)
  BY <1>1 DEF Listed
<1>3. NoRepeats(Tail(s))
  <2> SUFFICES ASSUME NEW i \in 1..Len(Tail(s)), NEW j \in 1..Len(Tail(s)),
                      Tail(s)[i] = Tail(s)[j]
               PROVE  i = j
    BY DEF NoRepeats
  <2>1. s[i+1] = s[j+1] /\ i+1 \in 1..Len(s) /\ j+1 \in 1..Len(s)
    BY <1>1
  <2> QED BY <2>1, <1>1 DEF NoRepeats
<1>4. ASSUME NEW x, Listed(x, Tail(s)) PROVE Listed(x, s) /\ x # Head(s)
  <2>1. PICK i \in 1..Len(Tail(s)) : Tail(s)[i] = x
    BY <1>4 DEF Listed
  <2>2. s[i+1] = x /\ i+1 \in 1..Len(s) /\ i+1 # 1 /\ 1 \in 1..Len(s)
    BY <2>1, <1>1
  <2> QED BY <2>2, <1>1 DEF Listed, NoRepeats
<1>5. ASSUME NEW x, Listed(x, s), x # Head(s) PROVE Listed(x, Tail(s))
  <2>1. PICK i \in 1..Len(s) : s[i] = x
    BY <1>5 DEF Listed
  <2>2. i # 1 /\ i-1 \in 1..Len(Tail(s)) /\ Tail(s)[i-1] = s[i]
    BY <2>1, <1>1, <1>5
  <2> QED BY <2>1, <2>2 DEF Listed
<1> QED BY <1>1, <1>2, <1>3, <1>4, <1>5

\* How the steps of the scheduler change the pending wake-ups.
LEMMA PendingAppended ==
    ASSUME TypeOK, NEW c \in Coroutines,
           co_wlist' = Append(co_wlist, c), co_rlist' = co_rlist
    PROVE  Pending' = Append(Pending, c)
<1>1. co_rlist \in Seq(Coroutines) /\ co_wlist \in Seq(Coroutines)
  BY DEF TypeOK
<1>2. Append(co_wlist, c) = co_wlist \o <<c>> /\ <<c>> \in Seq(Coroutines)
  BY <1>1, AppendIsConcat
<1>3. Append(Pending, c) = Pending \o <<c>>
  BY <1>1, ConcatProperties, AppendIsConcat DEF Pending
<1> QED BY <1>1, <1>2, <1>3, ConcatAssociative DEF Pending

LEMMA PendingServed ==
    ASSUME TypeOK, co_rlist # <<>>,
           co_rlist' = Tail(co_rlist), co_wlist' = co_wlist
    PROVE  /\ Pending # <<>>
           /\ Head(co_rlist) = Head(Pending)
           /\ Pending' = Tail(Pending)
<1>1. co_rlist \in Seq(Coroutines) /\ co_wlist \in Seq(Coroutines)
  BY DEF TypeOK
<1>2. Pending # <<>>
  BY <1>1, ConcatEqualIffEmpty DEF Pending
<1> DEFINE r == co_rlist
           w == co_wlist
<1>3. /\ r \o w \in Seq(Coroutines)
      /\ Len(r \o w) = Len(r) + Len(w)
      /\ \A i \in 1..Len(r) + Len(w) :
            (r \o w)[i] = IF i <= Len(r) THEN r[i] ELSE w[i - Len(r)]
      /\ Len(r) \in Nat \ {0} /\ Len(w) \in Nat
  BY <1>1, ConcatProperties, EmptySeq, LenProperties
<1>4. /\ Tail(r) \in Seq(Coroutines)
      /\ Len(Tail(r)) = Len(r) - 1
      /\ \A i \in 1..Len(Tail(r)) : Tail(r)[i] = r[i+1]
  BY <1>1, HeadTailProperties
<1>5. /\ Tail(r) \o w \in Seq(Coroutines)
      /\ Len(Tail(r) \o w) = Len(Tail(r)) + Len(w)
      /\ \A i \in 1..Len(Tail(r)) + Len(w) :
            (Tail(r) \o w)[i] =
              IF i <= Len(Tail(r)) THEN Tail(r)[i] ELSE w[i - Len(Tail(r))]
  BY <1>1, <1>4, ConcatProperties
<1>6. /\ Tail(r \o w) \in Seq(Coroutines)
      /\ Len(Tail(r \o w)) = Len(r \o w) - 1
      /\ \A i \in 1..Len(Tail(r \o w)) : Tail(r \o w)[i] = (r \o w)[i+1]
  BY <1>2, <1>3, HeadTailProperties DEF Pending
<1>7. \A i \in 1..Len(Tail(r \o w)) : Tail(r \o w)[i] = (Tail(r) \o w)[i]
  BY <1>3, <1>4, <1>5, <1>6
<1>8. Tail(r \o w) = Tail(r) \o w
  BY <1>3, <1>4, <1>5, <1>6, <1>7, SeqEqual
<1>9. Head(r) = Head(r \o w)
  BY <1>1, <1>2, <1>3 DEF Pending
<1> QED BY <1>2, <1>8, <1>9 DEF Pending

LEMMA PendingSwapped ==
    ASSUME TypeOK, co_rlist = <<>>, co_rlist' = co_wlist, co_wlist' = <<>>
    PROVE  Pending' = Pending
<1>1. co_wlist \in Seq(Coroutines)
  BY DEF TypeOK
<1> QED BY <1>1, ConcatEmptySeq DEF Pending

LEMMA PendingIsSeq == TypeOK => Pending \in Seq(Coroutines)
BY ConcatProperties DEF TypeOK, Pending

-----------------------------------------------------------------------------
(* The inductive invariant *)

USE MainAssumption, NilAssumption, FiniteAssumption

\* The initial state satisfies the inductive invariant.
LEMMA InitIInv == Init => IInv
<1> SUFFICES ASSUME Init PROVE IInv
  OBVIOUS
<1> USE DEF Init
<1>1. TypeOK
  <2>1. /\ status \in [Coroutines -> {"none", "suspended", "running", "dead"}]
        /\ args \in [Coroutines -> Args]
        /\ wakeup \in [Coroutines -> BOOLEAN]
    BY DEF Args
  <2>2. co_wlist \in Seq(Coroutines) /\ co_rlist \in Seq(Coroutines)
    BY EmptySeq
  <2>3. main_waited \in BOOLEAN /\ task_started \in BOOLEAN
    OBVIOUS
  <2>4. co_map \subseteq Coroutines /\ running \in Coroutines \union {Nil}
    OBVIOUS
  <2>5. co_num \in Int /\ pc \in {"boot", "loop", "main", "co"}
    OBVIOUS
  <2> QED BY <2>1, <2>2, <2>3, <2>4, <2>5 DEF TypeOK
<1>2. Pending = <<>> /\ Len(Pending) = 0
  BY ConcatEmptySeq, EmptySeq DEF Pending
<1>3. MarkMeansQueued /\ QueuedOnce /\ QueuedIsResumable
  BY <1>2 DEF MarkMeansQueued, QueuedOnce, QueuedIsResumable, Listed, NoRepeats
<1>4. WatcherFollowsFlag
  BY DEF WatcherFollowsFlag
<1>5. Control
  BY <1>2 DEF Control
<1>6. CountOfSpawned
  <2>1. co_map \ {Main} = {} /\ Main \in co_map /\ co_num = 0
    OBVIOUS
  <2>2. Cardinality(co_map \ {Main}) = 0
    BY <2>1, FS_EmptySet
  <2> HIDE DEF Init
  <2> QED BY <2>1, <2>2 DEF CountOfSpawned
<1> QED BY <1>1, <1>3, <1>4, <1>5, <1>6 DEF IInv

\* co_map has finitely many entries.
LEMMA SpawnedIsFinite == TypeOK => IsFiniteSet(co_map \ {Main})
BY FS_Subset DEF TypeOK

\* Queueing a suspended coroutine whose mark is clear, as Co.spawn and
\* Co.wakeup do.
LEMMA QueueStep ==
    ASSUME IInv, NEW c \in Coroutines, NEW a \in Args,
           co_check_init, co_add_queue(c, a),
           ~wakeup[c], status[c] # "running",
           status' = [status EXCEPT ![c] = "suspended"],
           co_num' \in Int, co_rlist' = co_rlist, running' = running,
           UserCode, pc' = pc
    PROVE  /\ TypeOK'
           /\ WatcherFollowsFlag'
           /\ MarkMeansQueued'
           /\ QueuedOnce'
           /\ QueuedIsResumable'
           /\ Control'
<1> USE DEF co_check_init, co_add_queue
<1>1. TypeOK'
  BY AppendProperties DEF IInv, TypeOK
<1>2. Pending \in Seq(Coroutines) /\ Pending' = Append(Pending, c)
  BY PendingAppended, PendingIsSeq DEF IInv
<1>3. \A x : Listed(x, Pending') <=> (Listed(x, Pending) \/ x = c)
  BY <1>2, AppendListed
<1>4. c # running
  BY DEF IInv, Control, UserCode
<1>5. ~Listed(c, Pending)
  BY DEF IInv, MarkMeansQueued
<1>6. WatcherFollowsFlag'
  BY DEF IInv, WatcherFollowsFlag, TypeOK
<1>7. MarkMeansQueued'
  BY <1>3, <1>4 DEF IInv, MarkMeansQueued, TypeOK
<1>8. QueuedOnce'
  <2>1. NoRepeats(Pending)'
    BY <1>2, <1>5, AppendListed DEF IInv, QueuedOnce
  <2>2. pc' = "co" => ~Listed(running', Pending')
    BY <1>3, <1>4 DEF IInv, QueuedOnce
  <2> QED BY <2>1, <2>2 DEF QueuedOnce
<1>9. QueuedIsResumable'
  BY <1>3 DEF IInv, QueuedIsResumable, TypeOK
<1>10. Control'
  BY <1>4 DEF IInv, Control, TypeOK, UserCode
<1> QED BY <1>1, <1>6, <1>7, <1>8, <1>9, <1>10

\* Every step preserves the inductive invariant.
LEMMA NextIInv == IInv /\ [Next]_vars => IInv'
<1> SUFFICES ASSUME IInv, [Next]_vars PROVE IInv'
  OBVIOUS
<1> USE DEF IInv
<1>1. ASSUME NEW c \in Coroutines, New(c) PROVE IInv'
  <2> USE <1>1 DEF New, UserCode, ctxVars, listVars, parkVars
  <2>1. Pending' = Pending
    BY DEF Pending
  <2>2. TypeOK' /\ WatcherFollowsFlag'
    BY DEF TypeOK, WatcherFollowsFlag
  <2>3. MarkMeansQueued' /\ QueuedOnce'
    BY <2>1 DEF MarkMeansQueued, QueuedOnce
  <2>4. QueuedIsResumable'
    BY <2>1 DEF QueuedIsResumable, TypeOK
  <2>5. Control'
    BY <2>1 DEF Control, TypeOK
  <2>6. CountOfSpawned'
    BY DEF CountOfSpawned
  <2> QED BY <2>2, <2>3, <2>4, <2>5, <2>6
<1>2. ASSUME NEW c \in Coroutines, NEW a \in Args, Spawn(c, a) PROVE IInv'
  <2> USE <1>2 DEF Spawn
  <2>1. c \notin co_map /\ c # Main
    BY DEF Control
  <2>2. ~wakeup[c]
    BY <2>1 DEF MarkMeansQueued, QueuedIsResumable, Control, UserCode
  <2>3. /\ TypeOK' /\ WatcherFollowsFlag' /\ MarkMeansQueued'
        /\ QueuedOnce' /\ QueuedIsResumable' /\ Control'
    <3>1. co_num' \in Int
      BY DEF TypeOK
    <3> QED BY <2>2, <3>1, QueueStep
  <2>4. CountOfSpawned'
    <3>1. (co_map \ {Main})' = (co_map \ {Main}) \union {c}
      BY <2>1 DEF co_add_queue
    <3>2. Cardinality((co_map \ {Main})') = Cardinality(co_map \ {Main}) + 1
      BY <2>1, <3>1, SpawnedIsFinite, FS_AddElement
    <3>3. Cardinality(co_map \ {Main}) \in Nat
      BY SpawnedIsFinite, FS_CardinalityType
    <3>4. Main \in co_map' <=> Main \in co_map
      BY <2>1 DEF co_add_queue
    <3> QED BY <3>2, <3>3, <3>4 DEF CountOfSpawned
  <2> QED BY <2>3, <2>4
<1>3. ASSUME NEW c \in Coroutines, NEW a \in Args, Wakeup(c, a) PROVE IInv'
  <2> USE <1>3 DEF Wakeup, MayWake
  <2>1. status' = [status EXCEPT ![c] = "suspended"] /\ co_num' \in Int
    BY DEF TypeOK
  <2>2. /\ TypeOK' /\ WatcherFollowsFlag' /\ MarkMeansQueued'
        /\ QueuedOnce' /\ QueuedIsResumable' /\ Control'
    BY <2>1, QueueStep
  <2>3. co_map' = co_map /\ co_num' = co_num
    BY DEF co_add_queue
  <2>4. CountOfSpawned'
    BY <2>3 DEF CountOfSpawned
  <2> QED BY <2>2, <2>4
<1>4. CASE TaskCb
  <2> USE <1>4 DEF TaskCb, ctxVars, parkVars
  <2>1. Pending' = Pending
    BY PendingSwapped DEF Control
  <2>2. TypeOK' /\ WatcherFollowsFlag'
    BY EmptySeq DEF TypeOK, WatcherFollowsFlag
  <2>3. MarkMeansQueued' /\ QueuedOnce' /\ QueuedIsResumable'
    BY <2>1 DEF MarkMeansQueued, QueuedOnce, QueuedIsResumable
  <2>4. Control'
    BY <2>1 DEF Control, WatcherFollowsFlag, TypeOK
  <2>5. CountOfSpawned'
    BY DEF CountOfSpawned
  <2> QED BY <2>2, <2>3, <2>4, <2>5
<1>5. CASE Resume
  <2> USE <1>5 DEF Resume, ctxVars, parkVars
  <2> DEFINE h == Head(co_rlist)
  <2>1. /\ Pending \in Seq(Coroutines)
        /\ Pending # <<>>
        /\ h = Head(Pending)
        /\ Pending' = Tail(Pending)
    BY PendingIsSeq, PendingServed
  <2>2. /\ h \in Coroutines
        /\ Listed(h, Pending)
        /\ NoRepeats(Pending')
        /\ \A x : Listed(x, Pending') <=> (Listed(x, Pending) /\ x # h)
    BY <2>1, TailListed DEF QueuedOnce
  <2>3. TypeOK' /\ WatcherFollowsFlag'
    BY <2>2, HeadTailProperties DEF TypeOK, WatcherFollowsFlag
  <2>4. MarkMeansQueued' /\ QueuedOnce'
    BY <2>2 DEF MarkMeansQueued, QueuedOnce
  <2>5. QueuedIsResumable'
    BY <2>2 DEF QueuedIsResumable, TypeOK
  <2>6. Control'
    <3>1. status[h] = "suspended" /\ h \in co_map
      BY <2>2 DEF QueuedIsResumable
    <3>2. \A c \in Coroutines : status[c] # "running"
      BY DEF Control
    <3> QED BY <2>1, <2>2, <3>1, <3>2 DEF Control, TypeOK
  <2>7. CountOfSpawned'
    BY DEF CountOfSpawned
  <2> QED BY <2>3, <2>4, <2>5, <2>6, <2>7
<1>6. CASE Wait
  <2> USE <1>6 DEF Wait, ClearContext, listVars, parkVars
  <2>1. Pending' = Pending
    BY DEF Pending
  <2>2. running \in Coroutines /\ running # Nil
    BY DEF Control, TypeOK
  <2>3. TypeOK' /\ WatcherFollowsFlag'
    BY <2>2 DEF TypeOK, WatcherFollowsFlag, Args
  <2>4. MarkMeansQueued' /\ QueuedOnce'
    BY <2>1, <2>2 DEF MarkMeansQueued, QueuedOnce, TypeOK
  <2>5. QueuedIsResumable'
    BY <2>1, <2>2 DEF QueuedIsResumable, TypeOK
  <2>6. Control'
    BY <2>1, <2>2 DEF Control, TypeOK
  <2>7. CountOfSpawned'
    BY DEF CountOfSpawned
  <2> QED BY <2>3, <2>4, <2>5, <2>6, <2>7
<1>7. CASE Finish
  <2> USE <1>7 DEF Finish, ClearContext, listVars, parkVars
  <2>1. Pending' = Pending
    BY DEF Pending
  <2>2. running \in Coroutines /\ running \in co_map /\ running # Nil
    BY DEF Control, TypeOK
  <2>3. TypeOK' /\ WatcherFollowsFlag'
    BY <2>2 DEF TypeOK, WatcherFollowsFlag, Args
  <2>4. MarkMeansQueued' /\ QueuedOnce'
    BY <2>1, <2>2 DEF MarkMeansQueued, QueuedOnce, TypeOK
  <2>5. QueuedIsResumable'
    BY <2>1, <2>2 DEF QueuedIsResumable, QueuedOnce, TypeOK
  <2>6. Control'
    BY <2>1, <2>2 DEF Control, TypeOK
  <2>7. CountOfSpawned'
    <3>1. Cardinality(co_map \ {Main}) \in Nat
      BY SpawnedIsFinite, FS_CardinalityType
    <3>2. CASE running = Main
      <4>1. (co_map \ {Main})' = co_map \ {Main}
        BY <3>2
      <4>2. Main \in co_map /\ Main \notin co_map'
        BY <2>2, <3>2
      <4>3. Cardinality((co_map \ {Main})') = Cardinality(co_map \ {Main})
        BY <4>1
      <4>4. co_num = Cardinality(co_map \ {Main}) /\ co_num' = co_num - 1
        BY <3>1, <4>2 DEF CountOfSpawned
      <4> QED BY <3>1, <4>2, <4>3, <4>4 DEF CountOfSpawned
    <3>3. CASE running # Main
      <4>1. (co_map \ {Main})' = (co_map \ {Main}) \ {running}
        BY <3>3
      <4>2. Cardinality((co_map \ {Main})') = Cardinality(co_map \ {Main}) - 1
        BY <2>2, <3>3, <4>1, SpawnedIsFinite, FS_RemoveElement
      <4>3. Main \in co_map' <=> Main \in co_map
        BY <3>3
      <4> QED BY <3>1, <4>2, <4>3 DEF CountOfSpawned, TypeOK
    <3> QED BY <3>2, <3>3
  <2> QED BY <2>3, <2>4, <2>5, <2>6, <2>7
<1>8. CASE SwapLists
  <2> USE <1>8 DEF SwapLists, ctxVars, parkVars
  <2>1. Pending' = Pending
    BY PendingSwapped
  <2>2. TypeOK' /\ WatcherFollowsFlag'
    BY EmptySeq DEF TypeOK, WatcherFollowsFlag
  <2>3. MarkMeansQueued' /\ QueuedOnce' /\ QueuedIsResumable'
    BY <2>1 DEF MarkMeansQueued, QueuedOnce, QueuedIsResumable
  <2>4. Control' /\ CountOfSpawned'
    BY <2>1 DEF Control, CountOfSpawned
  <2> QED BY <2>2, <2>3, <2>4
<1>9. CASE Park
  <2> USE <1>9 DEF Park, ctxVars, listVars
  <2>1. Pending' = Pending /\ Pending = <<>>
    BY EmptySeq, ConcatEmptySeq DEF Pending
  <2>2. TypeOK' /\ WatcherFollowsFlag'
    BY DEF TypeOK, WatcherFollowsFlag
  <2>3. MarkMeansQueued' /\ QueuedOnce' /\ QueuedIsResumable'
    BY <2>1 DEF MarkMeansQueued, QueuedOnce, QueuedIsResumable
  <2>4. Control' /\ CountOfSpawned'
    BY <2>1 DEF Control, CountOfSpawned
  <2> QED BY <2>2, <2>3, <2>4
<1>10. CASE BootWait \/ BootFinish
  <2> USE <1>10 DEF BootWait, BootFinish, ctxVars, listVars, parkVars
  <2>1. Pending' = Pending
    BY DEF Pending
  <2>2. TypeOK' /\ WatcherFollowsFlag'
    <3>1. status' \in [Coroutines -> {"none", "suspended", "running", "dead"}]
      BY DEF TypeOK
    <3>2. running' \in Coroutines \union {Nil}
          /\ pc' \in {"boot", "loop", "main", "co"}
      OBVIOUS
    <3>3. WatcherFollowsFlag'
      BY DEF WatcherFollowsFlag
    <3> QED BY <3>1, <3>2, <3>3 DEF TypeOK
  <2>3. MarkMeansQueued' /\ QueuedOnce'
    BY <2>1 DEF MarkMeansQueued, QueuedOnce
  <2>4. QueuedIsResumable'
    BY <2>1 DEF QueuedIsResumable, TypeOK, Control
  <2>5. Control'
    BY <2>1 DEF Control, TypeOK
  <2>6. CountOfSpawned'
    BY DEF CountOfSpawned
  <2> QED BY <2>2, <2>3, <2>4, <2>5, <2>6
<1>11. CASE UNCHANGED vars
  <2>1. Pending' = Pending
    BY <1>11 DEF vars, Pending
  <2> QED
    BY <1>11, <2>1 DEF vars, TypeOK, WatcherFollowsFlag, MarkMeansQueued,
       QueuedOnce, QueuedIsResumable, Control, CountOfSpawned
<1> QED
  BY <1>1, <1>2, <1>3, <1>4, <1>5, <1>6, <1>7, <1>8, <1>9, <1>10, <1>11 DEF Next

\* Every reachable state of the scheduler satisfies the inductive invariant.
LEMMA Invariance == SafeSpec => []IInv
BY InitIInv, NextIInv, PTL DEF SafeSpec

-----------------------------------------------------------------------------
(* Safety *)

\* Every variable keeps its type.
THEOREM TypeCorrect == SafeSpec => []TypeOK
<1>1. IInv => TypeOK
  BY DEF IInv
<1> QED BY <1>1, Invariance, PTL

\* A queued coroutine is never left behind by a stopped watcher.
THEOREM WakeupsAreNotLost == SafeSpec => []NoLostWakeup
<1>1. IInv => NoLostWakeup
  BY DEF IInv, NoLostWakeup, WatcherFollowsFlag, Control, TypeOK
<1> QED BY <1>1, Invariance, PTL

\* The mark in a context says exactly whether the coroutine is queued or
\* served, no coroutine is queued twice, and all that is queued can run.
THEOREM QueueIsConsistent == SafeSpec => []QueueIsSound
<1>1. IInv => QueueIsSound
  BY DEF IInv, QueueIsSound
<1> QED BY <1>1, Invariance, PTL

\* What Co.count returns, with the main script's coroutine accounted for.
THEOREM CountCorrect == SafeSpec => []CountOfSpawned
<1>1. IInv => CountOfSpawned
  BY DEF IInv
<1> QED BY <1>1, Invariance, PTL

\* The arguments of a pending wake-up are not touched before they are used.
THEOREM ArgsAreDelivered == SafeSpec => ArgsSurvive
<1> DEFINE Keeps ==
      \A c \in Coroutines :
        wakeup[c] /\ (pc # "co" \/ c # running) => args'[c] = args[c]
<1>1. IInv /\ [Next]_vars => [Keeps]_vars
  <2> SUFFICES ASSUME IInv, Next, NEW c \in Coroutines, wakeup[c],
                      pc # "co" \/ c # running
               PROVE  args'[c] = args[c]
    OBVIOUS
  <2> USE DEF IInv, TypeOK
  <2>1. ASSUME NEW d \in Coroutines, New(d) PROVE args'[c] = args[c]
    BY <2>1 DEF New, ctxVars
  <2>2. ASSUME NEW d \in Coroutines, NEW a \in Args, Spawn(d, a)
        PROVE  args'[c] = args[c]
    <3>1. status[d] = "none" /\ args' = [args EXCEPT ![d] = a]
      BY <2>2 DEF Spawn, co_add_queue
    <3>2. c # d
      BY <3>1 DEF MarkMeansQueued, QueuedIsResumable, Control
    <3> QED BY <3>1, <3>2
  <2>3. ASSUME NEW d \in Coroutines, NEW a \in Args, Wakeup(d, a)
        PROVE  args'[c] = args[c]
    <3>1. ~wakeup[d] /\ args' = [args EXCEPT ![d] = a]
      BY <2>3 DEF Wakeup, MayWake, co_add_queue
    <3> QED BY <3>1
  <2>4. CASE Wait \/ Finish
    <3>1. pc = "co" /\ args' = [args EXCEPT ![running] = Nil]
      BY <2>4 DEF Wait, Finish, ClearContext
    <3> QED BY <3>1
  <2>5. CASE TaskCb \/ Resume \/ SwapLists \/ Park \/ BootWait \/ BootFinish
    BY <2>5 DEF TaskCb, Resume, SwapLists, Park, BootWait, BootFinish, ctxVars
  <2> QED BY <2>1, <2>2, <2>3, <2>4, <2>5 DEF Next
<1> QED BY <1>1, Invariance, PTL DEF SafeSpec, ArgsSurvive

-----------------------------------------------------------------------------
(* Refinement *)

\* The initial states of the scheduler are initial states of the queue.
LEMMA FifoInit == Init => Fifo!Init
<1> SUFFICES ASSUME Init PROVE Fifo!Init
  OBVIOUS
<1>1. Pending = <<>>
  BY ConcatEmptySeq, EmptySeq DEF Init, Pending
<1> QED BY <1>1 DEF Init, Fifo!Init

\* Every step of the scheduler is a step of the queue or leaves it unchanged.
LEMMA FifoStep == IInv /\ [Next]_vars => [Fifo!Next]_(Fifo!vars)
<1> SUFFICES ASSUME IInv, [Next]_vars PROVE [Fifo!Next]_(Fifo!vars)
  OBVIOUS
<1> DEFINE cur == IF pc = "co" THEN running ELSE Nil
           dead == {c \in Coroutines : status[c] = "dead"}
<1> USE DEF IInv
<1>0. /\ cur # Nil <=> pc = "co"
      /\ cur' # Nil => pc' = "co"
      /\ \A c \in Coroutines : Fifo!InQueue(c) <=> Listed(c, Pending)
  BY DEF Control, TypeOK, Fifo!InQueue, Listed
<1>1. ASSUME NEW c \in Coroutines, NEW a \in Args,
             co_add_queue(c, a), co_rlist' = co_rlist,
             ~wakeup[c], status[c] \in {"none", "suspended"},
             status' = [status EXCEPT ![c] = "suspended"],
             running' = running, pc' = pc
      PROVE  Fifo!Submit(c, a)
  <2>1. Pending' = Append(Pending, c)
    BY <1>1, PendingAppended DEF co_add_queue
  <2>2. ~Listed(c, Pending)
    BY <1>1 DEF MarkMeansQueued
  <2>3. c # cur
    BY <1>1, NilAssumption DEF Control
  <2>4. dead' = dead /\ c \notin dead
    BY <1>1 DEF TypeOK
  <2>5. args' = [args EXCEPT ![c] = a] /\ cur' = cur
    BY <1>1 DEF co_add_queue
  <2> QED BY <1>0, <2>1, <2>2, <2>3, <2>4, <2>5 DEF Fifo!Submit
<1>2. ASSUME NEW c \in Coroutines, New(c) PROVE UNCHANGED Fifo!vars
  <2>1. Pending' = Pending /\ args' = args /\ cur' = cur
    BY <1>2 DEF New, ctxVars, listVars, Pending
  <2>2. dead' = dead
    BY <1>2 DEF New, TypeOK
  <2> QED BY <2>1, <2>2 DEF Fifo!vars
<1>3. ASSUME NEW c \in Coroutines, NEW a \in Args, Spawn(c, a)
      PROVE  Fifo!Submit(c, a)
  <2>1. ~wakeup[c]
    BY <1>3 DEF Spawn, MarkMeansQueued, QueuedIsResumable, Control, UserCode
  <2> QED BY <1>1, <1>3, <2>1 DEF Spawn
<1>4. ASSUME NEW c \in Coroutines, NEW a \in Args, Wakeup(c, a)
      PROVE  Fifo!Submit(c, a)
  <2>1. status' = [status EXCEPT ![c] = "suspended"]
    BY <1>4 DEF Wakeup, MayWake, TypeOK
  <2> QED BY <1>1, <1>4, <2>1 DEF Wakeup, MayWake
<1>5. CASE TaskCb \/ SwapLists \/ Park
  <2>1. Pending' = Pending
    <3>1. CASE TaskCb
      BY <3>1, PendingSwapped DEF TaskCb, Control
    <3>2. CASE SwapLists
      BY <3>2, PendingSwapped DEF SwapLists
    <3>3. CASE Park
      BY <3>3 DEF Park, listVars, Pending
    <3> QED BY <1>5, <3>1, <3>2, <3>3
  <2>2. args' = args /\ status' = status /\ cur' = cur
    BY <1>5 DEF TaskCb, SwapLists, Park, ctxVars
  <2> QED BY <2>1, <2>2 DEF Fifo!vars
<1>6. CASE Resume
  <2>1. /\ Pending # <<>>
        /\ Head(co_rlist) = Head(Pending)
        /\ Pending' = Tail(Pending)
    BY <1>6, PendingServed DEF Resume
  <2>2. cur = Nil /\ cur' = Head(Pending) /\ args' = args
    BY <1>6, <2>1 DEF Resume, ctxVars
  <2>3. dead' = dead
    <3>1. Listed(Head(Pending), Pending) /\ Head(Pending) \in Coroutines
      BY <2>1, PendingIsSeq, TailListed DEF QueuedOnce
    <3>2. status[Head(Pending)] = "suspended"
      BY <3>1 DEF QueuedIsResumable
    <3> QED BY <1>6, <2>1, <3>1, <3>2 DEF Resume, TypeOK
  <2> QED BY <2>1, <2>2, <2>3 DEF Fifo!Dispatch, Fifo!Next
<1>7. CASE Wait
  <2>1. Pending' = Pending /\ args' = [args EXCEPT ![cur] = Nil]
    BY <1>7 DEF Wait, ClearContext, listVars, Pending
  <2>2. cur # Nil /\ cur' = Nil
    BY <1>0, <1>7 DEF Wait
  <2>3. dead' = dead
    BY <1>7 DEF Wait, Control, TypeOK
  <2> QED BY <2>1, <2>2, <2>3 DEF Fifo!Suspend, Fifo!Next
<1>8. CASE Finish
  <2>1. Pending' = Pending /\ args' = [args EXCEPT ![cur] = Nil]
    BY <1>8 DEF Finish, ClearContext, listVars, Pending
  <2>2. cur # Nil /\ cur' = Nil
    BY <1>0, <1>8 DEF Finish
  <2>3. dead' = dead \union {cur}
    BY <1>8 DEF Finish, Control, TypeOK
  <2> QED BY <2>1, <2>2, <2>3 DEF Fifo!Retire, Fifo!Next
<1>9. CASE BootWait
  <2>1. Pending' = Pending /\ args' = args /\ cur' = cur
    BY <1>9 DEF BootWait, ctxVars, listVars, Pending
  <2>2. dead' = dead
    BY <1>9 DEF BootWait, Control, TypeOK
  <2> QED BY <2>1, <2>2 DEF Fifo!vars
<1>10. CASE BootFinish
  <2>1. Pending' = Pending /\ args' = args /\ cur' = cur
    BY <1>10 DEF BootFinish, ctxVars, listVars, Pending
  <2>2. dead' = dead \union {Main}
    BY <1>10, MainAssumption DEF BootFinish, TypeOK
  <2>3. ~Listed(Main, Pending) /\ Main # cur
    BY <1>10, MainAssumption, NilAssumption DEF BootFinish, Control, QueuedIsResumable
  <2>4. Fifo!Withdraw(Main)
    BY <1>0, <2>1, <2>2, <2>3, MainAssumption DEF Fifo!Withdraw
  <2> QED BY <2>4, MainAssumption DEF Fifo!Next
<1>11. CASE UNCHANGED vars
  BY <1>11 DEF vars, Pending, Fifo!vars
<1> QED
  BY <1>2, <1>3, <1>4, <1>5, <1>6, <1>7, <1>8, <1>9, <1>10, <1>11
     DEF Next, Args, Fifo!Next

\* The scheduler implements the single first-in first-out queue.
THEOREM ImplementsFifo == SafeSpec => FifoSafe
BY FifoInit, FifoStep, Invariance, PTL DEF SafeSpec, FifoSafe, Fifo!SafeSpec
=============================================================================
