--------------------------- MODULE ConnPoolProofs ---------------------------
(***************************************************************************)
(* Proofs about ConnPool: `current' counts the connections there are,      *)
(* each has one user, and whoever waits is known to one, for every set of  *)
(* clients, every limit of the pool and all five copies of it.             *)
(***************************************************************************)
EXTENDS ConnPool, SequenceTheorems, FiniteSetTheorems, TLAPS

Hold == {"connected", "query", "begin", "body", "rollback", "handover"}

\* p will hand the connection it gets to target[p].
Serves(p) == pc[p] = "spawned" \/ (op[p] = "handover" /\ pc[p] \in {"creating", "waiting", "handover"})

Counts == current <= Max /\ Accounting

\* Where a coroutine is tells whether it holds a connection, and what for.
Places ==
    \A p \in Procs :
        /\ conn[p] # None <=> pc[p] \in Hold
        /\ target[p] # None <=> Serves(p)
        /\ pc[p] = "connected" => op[p] = "connect"
        /\ pc[p] = "query" => op[p] = "query"
        /\ pc[p] \in {"begin", "body", "rollback"} => op[p] = "transaction"
        /\ pc[p] = "handover" => op[p] = "handover"
        /\ pc[p] \in {"creating", "waiting"} => op[p] # "none"

\* Helpers hand over, clients do not while their helper does; caches have no transactions.
Roles ==
    /\ \A p \in Helpers : pc[p] \in Free \union {"spawned", "creating", "waiting", "handover"}
                            /\ op[p] \in {"none", "handover"}
    /\ \A c \in Clients : pc[c] # "spawned" /\ (pc[Helper[c]] \notin Free => pc[c] \in Free)
    /\ IsCache => \A p \in Procs : /\ op[p] \notin {"transaction", "handover"} /\ pc[p] # "spawned"
                                   /\ conn[p] # None => conn[p] \in alive
    /\ IsCache => Elements(pool) \subseteq alive
    /\ raises > 0 => driver \in {"mysql", "redis", "ssdb"}

InjectiveSeq(s) == \A i, j \in 1..Len(s) : s[i] = s[j] => i = j

Waiters ==
    /\ InjectiveSeq(co_pool)
    /\ \A p \in Elements(co_pool) : pc[p] = "waiting"
    /\ \A p \in Procs : target[p] # None => pc[target[p]] = "waiting" /\ target[p] \notin Elements(co_pool)
    /\ \A p, q \in Procs : target[p] # None /\ target[p] = target[q] => p = q
    /\ \A p \in Procs : pc[p] = "waiting" =>
          p \in Elements(co_pool) \/ (\E q \in Procs : target[q] = p) \/ (driver = "mysql" /\ raises > 0)

\* What is known of the pool and its users in all states.
IInv == TypeOK /\ Counts /\ Exclusive /\ Places /\ Roles /\ Waiters

Kinds == {"connect", "query", "transaction", "handover"}

-----------------------------------------------------------------------------
(* Sets, stacks and constants *)

LEMMA SetGrows ==
    ASSUME NEW S, IsFiniteSet(S), NEW x, x \notin S
    PROVE  /\ IsFiniteSet(S \union {x}) /\ Cardinality(S) \in Nat
           /\ Cardinality(S \union {x}) = Cardinality(S) + 1
BY FS_AddElement, FS_CardinalityType

LEMMA SetShrinks ==
    ASSUME NEW S, IsFiniteSet(S), NEW x, x \in S
    PROVE  /\ IsFiniteSet(S \ {x}) /\ Cardinality(S) \in Nat /\ Cardinality(S \ {x}) \in Nat
           /\ Cardinality(S) = Cardinality(S \ {x}) + 1
<1>1. IsFiniteSet(S \ {x}) /\ x \notin S \ {x}
  BY FS_RemoveElement
<1>2. (S \ {x}) \union {x} = S
  OBVIOUS
<1>3. Cardinality((S \ {x}) \union {x}) = Cardinality(S \ {x}) + 1
  BY <1>1, SetGrows
<1>4. Cardinality(S \ {x}) \in Nat /\ Cardinality(S) \in Nat
  BY <1>1, FS_CardinalityType
<1> QED BY <1>1, <1>2, <1>3, <1>4

\* Helpers are no clients, and there are finitely many coroutines.
LEMMA Coroutines ==
    /\ IsFiniteSet(Procs) /\ None \notin Procs
    /\ Clients \subseteq Procs /\ Helpers \subseteq Procs
    /\ \A c \in Clients : Helper[c] \in Helpers /\ Helper[c] \notin Clients
    /\ \A h \in Helpers : h \notin Clients
    /\ \A c, d \in Clients : Helper[c] = Helper[d] => c = d
    /\ \A p \in Procs : p \in Clients \/ p \in Helpers
    /\ \A S \in SUBSET Procs : IsFiniteSet(S) /\ Cardinality(S) \in Nat
<1>1. IsFiniteSet(Helpers)
  <2> DEFINE f == [c \in Clients |-> Helper[c]]
  <2>1. f \in Surjection(Clients, Helpers)
    BY DEF Surjection, Helpers
  <2> QED BY <2>1, ClientsAssumption, FS_Surjection
<1>2. IsFiniteSet(Procs)
  BY <1>1, ClientsAssumption, FS_Union DEF Procs
<1>3. \A S \in SUBSET Procs : IsFiniteSet(S) /\ Cardinality(S) \in Nat
  BY <1>2, FS_Subset, FS_CardinalityType
<1> QED BY <1>2, <1>3, ClientsAssumption DEF Procs, Helpers

LEMMA PopProperties ==
    ASSUME NEW S, NEW s \in Seq(S), s # <<>>
    PROVE  /\ Len(s) \in Nat \ {0} /\ Top(s) \in S
           /\ Pop(s) \in Seq(S) /\ Len(Pop(s)) = Len(s) - 1
           /\ \A i \in 1..(Len(s) - 1) : Pop(s)[i] = s[i]
<1>1. Len(s) \in Nat \ {0}
  BY EmptySeq
<1>2. Top(s) \in S
  BY <1>1, ElementOfSeq DEF Top
<1>3. /\ Pop(s) \in Seq(S) /\ Len(Pop(s)) = Len(s) - 1
      /\ \A i \in 1..(Len(s) - 1) : Pop(s)[i] = s[i]
  <2> DEFINE n == Len(s) - 1
  <2>1. n \in Nat /\ \A i \in 1..n : s[i] \in S
    BY <1>1, ElementOfSeq
  <2>2. /\ SubSeq(s, 1, n) \in Seq(S)
        /\ Len(SubSeq(s, 1, n)) = IF 1 <= n THEN n - 1 + 1 ELSE 0
        /\ \A i \in 1..(n - 1 + 1) : SubSeq(s, 1, n)[i] = s[1 + i - 1]
    <3> HIDE DEF n
    <3> QED BY <2>1, SubSeqProperties
  <2>3. n - 1 + 1 = n /\ \A i \in 1..n : 1 + i - 1 = i
    BY <2>1
  <2> QED BY <2>1, <2>2, <2>3 DEF Pop
<1> QED BY <1>1, <1>2, <1>3

\* What is on a stack without repetitions after a push or a pop.
LEMMA StackPopped ==
    ASSUME NEW S, NEW s \in Seq(S), s # <<>>, InjectiveSeq(s)
    PROVE  /\ InjectiveSeq(Pop(s)) /\ Top(s) \in Elements(s)
           /\ Elements(Pop(s)) = Elements(s) \ {Top(s)}
<1> DEFINE n == Len(s)
<1>1. /\ n \in Nat \ {0} /\ Len(Pop(s)) = n - 1
      /\ \A i \in 1..(n - 1) : Pop(s)[i] = s[i]
  BY PopProperties
<1>2. InjectiveSeq(Pop(s))
  BY <1>1 DEF InjectiveSeq
<1>3. Top(s) \in Elements(s)
  BY <1>1 DEF Top, Elements
<1>4. ASSUME NEW x PROVE x \in Elements(Pop(s)) <=> x \in Elements(s) /\ x # Top(s)
  <2>1. x \in Elements(Pop(s)) <=> \E i \in 1..(n - 1) : s[i] = x
    BY <1>1 DEF Elements
  <2>2. x \in Elements(s) <=> \E i \in 1..n : s[i] = x
    BY DEF Elements
  <2>3. \A i \in 1..(n - 1) : i \in 1..n /\ s[i] # Top(s)
    BY <1>1 DEF Top, InjectiveSeq
  <2>4. \A i \in 1..n : i \in 1..(n - 1) \/ s[i] = Top(s)
    BY <1>1 DEF Top
  <2> QED BY <2>1, <2>2, <2>3, <2>4
<1> QED BY <1>2, <1>3, <1>4

LEMMA StackPushed ==
    ASSUME NEW S, NEW s \in Seq(S), NEW x \in S
    PROVE  /\ Append(s, x) \in Seq(S) /\ Append(s, x) # <<>> /\ Len(Append(s, x)) = Len(s) + 1
           /\ Len(s) \in Nat
           /\ Elements(Append(s, x)) = Elements(s) \union {x}
           /\ InjectiveSeq(s) /\ x \notin Elements(s) => InjectiveSeq(Append(s, x))
<1> DEFINE n == Len(s)
           t == Append(s, x)
<1>1. /\ n \in Nat /\ t \in Seq(S) /\ t # <<>> /\ Len(t) = n + 1
      /\ \A i \in 1..n : t[i] = s[i]
      /\ t[n + 1] = x
  BY AppendProperties, LenProperties
<1> HIDE DEF t
<1>2. ASSUME NEW y PROVE y \in Elements(t) <=> y \in Elements(s) \/ y = x
  BY <1>1 DEF Elements
<1>3. InjectiveSeq(s) /\ x \notin Elements(s) => InjectiveSeq(t)
  BY <1>1 DEF InjectiveSeq, Elements
<1> QED BY <1>1, <1>2, <1>3 DEF t

LEMMA EmptyStack ==
    ASSUME NEW S, NEW s \in Seq(S)
    PROVE  /\ Len(s) \in Nat /\ Elements(s) \subseteq S
           /\ s = <<>> <=> Elements(s) = {}
           /\ s = <<>> <=> Len(s) = 0
           /\ Elements(<<>>) = {} /\ InjectiveSeq(<<>>) /\ <<>> \in Seq(S) /\ Len(<<>>) = 0
<1>1. Len(s) \in Nat /\ \A i \in 1..Len(s) : s[i] \in S
  BY LenProperties, ElementOfSeq
<1>2. (s = <<>> <=> Len(s) = 0) /\ <<>> \in Seq(S) /\ Len(<<>>) = 0
  BY EmptySeq
<1>3. Len(s) # 0 => s[1] \in Elements(s)
  BY <1>1 DEF Elements
<1>4. Len(s) = 0 => Elements(s) = {}
  BY <1>1 DEF Elements
<1>5. Elements(<<>>) = {} /\ InjectiveSeq(<<>>)
  BY <1>2 DEF Elements, InjectiveSeq
<1> QED BY <1>1, <1>2, <1>3, <1>4, <1>5 DEF Elements

-----------------------------------------------------------------------------
(* pop_db *)

\* pop_db called by a coroutine whose old connection, if any, is gone: `cur' is
\* what is left, `waiters' those of co_pool for whom p does not fetch one.
LEMMA PopKeeps ==
    ASSUME IInv, NEW p \in Procs, NEW kind \in Kinds,
           NEW cur \in 0..Max, NEW waiters \in Seq(Procs),
           pop_db(p, kind, cur, waiters),
           pc[p] \notin {"creating", "waiting"},
           UNCHANGED opts, INITIALIZATION' \in BOOLEAN, alive' \subseteq Conns,
           ops' \in [Clients -> 0..MaxOps], losses' \in 0..MaxLosses,
           IsCache => /\ Elements(pool) \subseteq alive'
                      /\ \A q \in Procs \ {p} : conn[q] # None => conn[q] \in alive',
           cur = Len(pool) + Cardinality(Holders \ {p}) + Cardinality(In("creating"))
                 + raises + (IF IsCache THEN losses' ELSE 0),
           target' \in [Procs -> Procs \union {None}],
           \A q \in Procs \ {p} : target'[q] = target[q],
           target'[p] # None <=> kind = "handover",
           target[p] # None => target'[p] = target[p],
           InjectiveSeq(waiters), Elements(waiters) \subseteq Elements(co_pool),
           \A x \in Elements(co_pool) : x \in Elements(waiters) \/ x = target'[p],
           target'[p] # None => /\ pc[target'[p]] = "waiting" /\ target'[p] \notin Elements(waiters)
                                /\ \A q \in Procs \ {p} : target[q] # target'[p],
           p \in Helpers => kind = "handover",
           IsCache => kind \notin {"transaction", "handover"},
           p \in Clients => pc[Helper[p]] \in Free,
           \A c \in Clients : Helper[c] = p => pc[c] \in Free
    PROVE  IInv'
<1> DEFINE Fixed(q) == conn'[q] = conn[q] /\ op'[q] = op[q] /\ pc'[q] = pc[q]
           Taken == /\ pool # <<>> /\ conn'[p] = Top(pool) /\ pool' = Pop(pool)
                    /\ pc'[p] = Continue(kind)
                    /\ current' = cur /\ co_pool' = waiters /\ raises' = raises
           Dialled == /\ cur < Max /\ conn'[p] = None /\ pool' = pool
                      /\ pc'[p] = "creating" /\ current' = cur + 1
                      /\ co_pool' = waiters /\ raises' = raises
           Failed == /\ cur < Max /\ conn'[p] = None /\ pool' = pool /\ IsCache
                     /\ pc'[p] = "failed" /\ current' = cur + 1
                     /\ co_pool' = waiters /\ raises' = raises + 1
           Waits == /\ conn'[p] = None /\ pool' = pool
                    /\ pc'[p] = "waiting" /\ current' = cur
                    /\ co_pool' = Append(waiters, p) /\ raises' = raises
<1> USE DEF IInv
<1>1. \A q \in Procs \ {p} : Fixed(q)
  BY DEF TypeOK, pop_db, Dial
<1>2. op'[p] = kind
  BY DEF TypeOK, pop_db
<1>3. Taken \/ Dialled \/ Failed \/ Waits
  BY DEF TypeOK, pop_db, Dial, MayOpen, CanDial
<1>4. /\ conn' = [conn EXCEPT ![p] = conn'[p]]
      /\ pc' = [pc EXCEPT ![p] = pc'[p]]
      /\ op' = [op EXCEPT ![p] = kind]
  BY DEF TypeOK, pop_db, Dial
<1>5. /\ driver' = driver /\ unixdomain' = unixdomain
      /\ IsCache' <=> IsCache
  BY DEF opts, IsCache
<1>6. Max \in Nat /\ cur \in Nat /\ cur <= Max
  BY MaxAssumption
<1>7. /\ pool \in Seq(Conns) /\ Len(pool) \in Nat /\ raises \in Nat
      /\ losses' \in Nat
  BY EmptyStack, BoundsAssumption DEF TypeOK
<1>8. /\ IsFiniteSet(Holders) /\ IsFiniteSet(Holders \ {p}) /\ IsFiniteSet(In("creating"))
      /\ Cardinality(Holders \ {p}) \in Nat /\ Cardinality(In("creating")) \in Nat
      /\ p \notin In("creating")
  BY Coroutines DEF Holders, In
<1>9. pc'[p] \in {"creating", "failed", "waiting"} \/ pc'[p] = Continue(kind)
  BY <1>3
<1>10. Continue(kind) \in {"connected", "query", "begin", "handover"}
  BY DEF Continue, Kinds
<1>11. Taken => Top(pool) \in Conns /\ Top(pool) # None /\ Pop(pool) \in Seq(Conns)
                /\ Len(Pop(pool)) = Len(pool) - 1
  BY <1>7, PopProperties, ConnsAssumption, SMTT(30)
<1>12. \A q \in Procs \ {p} : conn[q] # None <=> q \in Holders \ {p}
  BY DEF Holders
<1>20. TypeOK'
  <2>1. current' \in 0..Max /\ raises' \in 0..Max
    <3>1. cur >= raises
      BY <1>6, <1>7, <1>8
    <3> QED BY <1>3, <1>6, <1>7, <3>1
  <2>2. pool' \in Seq(Conns)
    BY <1>3, <1>7, <1>11
  <2>3. co_pool' \in Seq(Procs)
    BY <1>3, StackPushed, SMTT(30)
  <2>4. conn' \in [Procs -> Conns \union {None}]
    <3>1. conn'[p] \in Conns \union {None}
      BY <1>3, <1>11
    <3> QED BY <1>4, <3>1 DEF TypeOK
  <2>5. op' \in [Procs -> {"none", "connect", "query", "transaction", "handover"}]
    BY <1>4 DEF TypeOK, Kinds
  <2>6. pc' \in [Procs -> Free \union {"waiting", "creating", "connected", "query",
                        "begin", "body", "rollback", "spawned", "handover"}]
    BY <1>4, <1>9, <1>10 DEF TypeOK, Free
  <2> QED BY <2>1, <2>2, <2>3, <2>4, <2>5, <2>6, <1>5 DEF TypeOK
<1>21. Counts'
  <2>1. CASE Taken
    <3>1. Holders' = (Holders \ {p}) \union {p} /\ In("creating")' = In("creating")
      BY <2>1, <1>1, <1>8, <1>10, <1>11, SMTT(30) DEF Holders, In
    <3>2. Cardinality(Holders') = Cardinality(Holders \ {p}) + 1
      BY <3>1, <1>8, SetGrows
    <3>3. Len(pool') = Len(pool) - 1
      BY <2>1, <1>11
    <3> QED BY <2>1, <3>1, <3>2, <3>3, <1>5, <1>6, <1>7, <1>8, SMTT(30) DEF Counts, Accounting, Leaked
  <2>2. CASE Dialled
    <3>1. Holders' = Holders \ {p} /\ In("creating")' = In("creating") \union {p}
      BY <2>2, <1>1 DEF Holders, In
    <3>2. Cardinality(In("creating")') = Cardinality(In("creating")) + 1
      BY <3>1, <1>8, SetGrows
    <3>3. /\ Cardinality(Holders)' = Cardinality(Holders \ {p})
          /\ Cardinality(In("creating"))' = Cardinality(In("creating")) + 1
      BY <3>1, <3>2
    <3> HIDE DEF IInv
    <3>4. current' = Len(pool') + Cardinality(Holders)' + Cardinality(In("creating"))'
                     + raises' + (IF IsCache THEN losses' ELSE 0)
      BY <2>2, <3>3, <1>6, <1>7, <1>8, SMTT(30)
    <3>5. current' <= Max
      BY <2>2, <1>6
    <3>6. Leaked' = raises' + (IF IsCache THEN losses' ELSE 0)
      BY <1>5 DEF Leaked
    <3> QED BY <2>2, <3>4, <3>5, <3>6, <1>7, <1>8, <3>3, SMTT(30) DEF Counts, Accounting
  <2>3. CASE Failed \/ Waits
    <3>1. Holders' = Holders \ {p} /\ In("creating")' = In("creating")
      BY <2>3, <1>1, <1>8 DEF Holders, In
    <3> QED BY <2>3, <3>1, <1>5, <1>6, <1>7, <1>8, SMTT(30) DEF Counts, Accounting, Leaked
  <2> QED BY <1>3, <2>1, <2>2, <2>3
<1>22. Exclusive'
  <2>1. CASE Taken
    <3>1. /\ InjectiveSeq(pool') /\ Top(pool) \in Elements(pool)
          /\ Elements(pool') = Elements(pool) \ {Top(pool)}
      BY <2>1, <1>7, StackPopped DEF Exclusive, InjectiveSeq
    <3>2. \A q \in Procs \ {p} : conn'[q] = conn[q]
      BY <1>1
    <3> QED BY <2>1, <3>1, <3>2 DEF Exclusive, InjectiveSeq, Holders
  <2>2. CASE ~Taken
    <3>1. pool' = pool /\ conn'[p] = None /\ \A q \in Procs \ {p} : conn'[q] = conn[q]
      BY <2>2, <1>1, <1>3
    <3> QED BY <3>1 DEF Exclusive, Holders, Elements
  <2> QED BY <2>1, <2>2
<1>23. Places'
  <2>1. ASSUME NEW q \in Procs \ {p}
        PROVE /\ conn'[q] = conn[q] /\ op'[q] = op[q] /\ pc'[q] = pc[q]
              /\ target'[q] = target[q]
    BY <1>1
  <2>2. /\ conn'[p] # None <=> pc'[p] \in Hold
        /\ pc'[p] = "connected" => kind = "connect"
        /\ pc'[p] = "query" => kind = "query"
        /\ pc'[p] \notin {"body", "rollback", "spawned"}
        /\ pc'[p] = "begin" => kind = "transaction"
        /\ pc'[p] = "handover" <=> pc'[p] \notin {"creating", "failed", "waiting"} /\ kind = "handover"
        /\ kind # "none"
    BY <1>3, <1>11 DEF Continue, Kinds, Hold
  <2>3. pc'[p] = "failed" => IsCache
    BY <1>3, <1>10
  <2>4. target'[p] # None <=> Serves(p)'
    BY <2>2, <2>3, <1>2, <1>9, <1>10 DEF Serves, Continue, Kinds
  <2> QED BY <2>1, <2>2, <2>4, <1>2 DEF Places, Serves
<1>24. Roles'
  <2>1. ASSUME NEW q \in Procs \ {p}
        PROVE conn'[q] = conn[q] /\ op'[q] = op[q] /\ pc'[q] = pc[q]
    BY <1>1
  <2>2. pc'[p] \in {"creating", "failed", "waiting", "connected", "query", "begin", "handover"}
    BY <1>9, <1>10
  <2>3. \A q \in Helpers : /\ pc'[q] \in Free \union {"spawned", "creating", "waiting", "handover"}
                           /\ op'[q] \in {"none", "handover"}
    BY <2>1, <1>2, <1>9, Coroutines DEF Roles, Free, Continue
  <2>4. \A c \in Clients : pc'[c] # "spawned" /\ (pc'[Helper[c]] \notin Free => pc'[c] \in Free)
    <3> TAKE c \in Clients
    <3>1. c \in Procs /\ Helper[c] \in Procs /\ Helper[c] # c
      BY Coroutines
    <3>2. CASE c = p
      BY <2>1, <2>2, <3>1, <3>2
    <3>3. CASE Helper[c] = p
      BY <2>1, <3>1, <3>3 DEF Roles
    <3>4. CASE c # p /\ Helper[c] # p
      BY <2>1, <3>1, <3>4 DEF Roles
    <3> QED BY <3>2, <3>3, <3>4
  <2>5. IsCache => /\ \A q \in Procs : /\ op'[q] \notin {"transaction", "handover"} /\ pc'[q] # "spawned"
                                       /\ conn'[q] # None => conn'[q] \in alive'
                   /\ Elements(pool') \subseteq alive'
    <3> SUFFICES ASSUME IsCache
                 PROVE  /\ \A q \in Procs : /\ op'[q] \notin {"transaction", "handover"} /\ pc'[q] # "spawned"
                                            /\ conn'[q] # None => conn'[q] \in alive'
                        /\ Elements(pool') \subseteq alive'
      OBVIOUS
    <3>1. Taken => Top(pool) \in Elements(pool) /\ Elements(Pop(pool)) \subseteq Elements(pool)
      BY <1>7, StackPopped DEF Exclusive, InjectiveSeq
    <3>2. (conn'[p] # None => conn'[p] \in alive') /\ Elements(pool') \subseteq alive'
      BY <1>3, <3>1
    <3> QED BY <2>1, <2>2, <3>2, <1>2, <1>12 DEF Roles
  <2>6. raises' > 0 => driver' \in {"mysql", "redis", "ssdb"}
    BY <1>3, <1>5, <1>7 DEF Roles, IsCache
  <2> QED BY <2>3, <2>4, <2>5, <2>6, <1>5 DEF Roles, Elements
<1>25. Waiters'
  <2>1. ASSUME NEW q \in Procs \ {p}
        PROVE pc'[q] = pc[q] /\ target'[q] = target[q]
    BY <1>1
  <2>2. /\ p \notin Elements(co_pool) /\ p \notin Elements(waiters)
        /\ \A q \in Procs : target'[q] # p
    BY <2>1, Coroutines DEF Waiters
  <2>3. /\ InjectiveSeq(co_pool')
        /\ Elements(co_pool') = Elements(waiters) \union (IF Waits THEN {p} ELSE {})
    <3>1. /\ Elements(Append(waiters, p)) = Elements(waiters) \union {p}
          /\ InjectiveSeq(Append(waiters, p))
      BY <2>2, StackPushed
    <3>2. CASE Waits
      <4>1. co_pool' = Append(waiters, p)
        BY <3>2
      <4> QED BY <3>1, <3>2, <4>1 DEF Elements, InjectiveSeq
    <3>3. CASE ~Waits
      <4>1. co_pool' = waiters
        BY <1>3, <3>3
      <4> QED BY <3>3, <4>1 DEF Elements, InjectiveSeq
    <3> QED BY <3>2, <3>3
  <2>4. \A q \in Elements(co_pool') : pc'[q] = "waiting"
    <3>1. Elements(co_pool) \subseteq Procs
      BY EmptyStack DEF TypeOK
    <3> QED BY <2>1, <2>2, <2>3, <3>1 DEF Waiters
  <2>5. \A q \in Procs : target'[q] # None => pc'[target'[q]] = "waiting" /\ target'[q] \notin Elements(co_pool')
    <3> SUFFICES ASSUME NEW q \in Procs, target'[q] # None
                 PROVE  pc'[target'[q]] = "waiting" /\ target'[q] \notin Elements(co_pool')
      OBVIOUS
    <3>1. target'[q] \in Procs \ {p}
      BY <2>2
    <3>2. pc[target'[q]] = "waiting" /\ target'[q] \notin Elements(waiters)
      BY <2>1 DEF Waiters
    <3> QED BY <2>1, <2>3, <3>1, <3>2
  <2>6. \A q, r \in Procs : target'[q] # None /\ target'[q] = target'[r] => q = r
    BY <2>1 DEF Waiters
  <2>7. \A q \in Procs : pc'[q] = "waiting" =>
          q \in Elements(co_pool') \/ (\E r \in Procs : target'[r] = q) \/ (driver' = "mysql" /\ raises' > 0)
    <3> SUFFICES ASSUME NEW q \in Procs, pc'[q] = "waiting"
                 PROVE  q \in Elements(co_pool') \/ (\E r \in Procs : target'[r] = q) \/ (driver' = "mysql" /\ raises' > 0)
      OBVIOUS
    <3>1. CASE q = p
      BY <1>3, <1>10, <2>3, <3>1
    <3>2. CASE q # p
      <4>1. pc[q] = "waiting"
        BY <2>1, <3>2
      <4>2. CASE q \in Elements(co_pool)
        BY <4>2, <2>3
      <4>3. CASE \E r \in Procs : target[r] = q
        <5>1. PICK r \in Procs : target[r] = q
          BY <4>3
        <5>2. q # None
          BY Coroutines
        <5>3. target'[r] = q
          BY <2>1, <5>1, <5>2
        <5> QED BY <5>3
      <4>4. CASE driver = "mysql" /\ raises > 0
        BY <4>4, <1>3, <1>5, <1>7
      <4> QED BY <4>1, <4>2, <4>3, <4>4 DEF Waiters
    <3> QED BY <3>1, <3>2
  <2> QED BY <2>3, <2>4, <2>5, <2>6, <2>7 DEF Waiters
<1> QED BY <1>20, <1>21, <1>22, <1>23, <1>24, <1>25

-----------------------------------------------------------------------------
(* A connection handed over, or put back *)

\* p gives its connection to w, which waits in co_pool or for p.
LEMMA HandsKeep ==
    ASSUME IInv, NEW p \in Procs, NEW w \in Procs,
           pc[p] \in Hold, pc[w] = "waiting",
           conn' = [conn EXCEPT ![p] = None, ![w] = conn[p]],
           pc' = [pc EXCEPT ![p] = "idle", ![w] = Continue(op[w])],
           target' = [target EXCEPT ![p] = None],
           target[p] \in {None, w}, \A q \in Procs \ {p} : target[q] # w,
           co_pool' \in Seq(Procs), InjectiveSeq(co_pool'),
           Elements(co_pool') = Elements(co_pool) \ {w},
           UNCHANGED <<opts, INITIALIZATION, current, pool, op, raises, ops>>,
           alive' \subseteq Conns, losses' \in 0..MaxLosses,
           IsCache => UNCHANGED <<alive, losses>>
    PROVE  IInv'
<1> USE DEF IInv
<1>1. p # w /\ conn[w] = None /\ conn[p] # None /\ op[w] \in Kinds
  BY DEF Places, Hold, Kinds, TypeOK
<1>2. /\ conn'[p] = None /\ conn'[w] = conn[p]
      /\ pc'[p] = "idle" /\ pc'[w] = Continue(op[w])
      /\ \A q \in Procs \ {p, w} : conn'[q] = conn[q] /\ pc'[q] = pc[q]
      /\ target'[p] = None /\ \A q \in Procs \ {p} : target'[q] = target[q]
  BY <1>1 DEF TypeOK
<1>3. /\ driver' = driver /\ unixdomain' = unixdomain /\ INITIALIZATION' = INITIALIZATION
      /\ current' = current /\ pool' = pool /\ op' = op /\ raises' = raises /\ ops' = ops
      /\ IsCache' <=> IsCache
  BY DEF opts, IsCache
<1>4. Continue(op[w]) \in {"connected", "query", "begin", "handover"}
  BY <1>1 DEF Continue, Kinds
<1>5. TypeOK'
  <2>1. conn' \in [Procs -> Conns \union {None}]
    BY DEF TypeOK
  <2>2. pc' \in [Procs -> Free \union {"waiting", "creating", "connected", "query",
                        "begin", "body", "rollback", "spawned", "handover"}]
    BY <1>4 DEF TypeOK, Free
  <2>3. target' \in [Procs -> Procs \union {None}]
    BY DEF TypeOK
  <2> QED BY <1>3, <2>1, <2>2, <2>3 DEF TypeOK
<1>6. Counts'
  <2>1. Holders' = (Holders \ {p}) \union {w} /\ p \in Holders /\ w \notin Holders
    BY <1>1, <1>2 DEF Holders
  <2>2. In("creating")' = In("creating")
    BY <1>2, <1>4, <1>1 DEF In, Hold
  <2>3. IsFiniteSet(Holders) /\ IsFiniteSet(Holders \ {p})
    BY Coroutines DEF Holders
  <2>4. Cardinality(Holders') = Cardinality(Holders)
    BY <2>1, <2>3, SetGrows, SetShrinks
  <2>5. Leaked' = Leaked
    BY <1>3 DEF Leaked
  <2> QED BY <1>3, <2>2, <2>4, <2>5 DEF Counts, Accounting
<1>7. Exclusive'
  <2>1. \A q \in Procs \ {w} : conn'[q] # None => conn'[q] = conn[q] /\ q # p
    BY <1>2
  <2>2. \A q \in Procs \ {p} : conn[q] # None => conn[q] # conn[p]
    BY <1>1 DEF Exclusive, Holders
  <2>3. \A q \in Procs : conn[q] # None => conn[q] \notin Elements(pool)
    BY DEF Exclusive, Holders
  <2>4. \A q \in Procs : conn'[q] # None => conn'[q] \notin Elements(pool)
    BY <2>1, <2>3, <1>1, <1>2
  <2>5. \A q, r \in Procs : conn[q] # None /\ conn[r] # None /\ conn[q] = conn[r] => q = r
    BY DEF Exclusive, Holders
  <2>6. \A q, r \in Procs : conn'[q] # None /\ conn'[r] # None /\ conn'[q] = conn'[r] => q = r
    BY <2>1, <2>2, <2>5, <1>1, <1>2
  <2>7. \A i, j \in 1..Len(pool') : pool'[i] = pool'[j] => i = j
    BY <1>3 DEF Exclusive
  <2>8. Elements(pool') = Elements(pool)
    BY <1>3 DEF Elements
  <2> QED BY <2>4, <2>6, <2>7, <2>8 DEF Exclusive, Holders
<1>8. Places'
  <2>1. \A q \in Procs \ {p, w} : conn'[q] = conn[q] /\ op'[q] = op[q] /\ pc'[q] = pc[q] /\ target'[q] = target[q]
    BY <1>2, <1>3
  <2>2. /\ Continue(op[w]) \in Hold
        /\ Continue(op[w]) = "connected" => op[w] = "connect"
        /\ Continue(op[w]) = "query" => op[w] = "query"
        /\ Continue(op[w]) \notin {"body", "rollback", "spawned"}
        /\ Continue(op[w]) = "begin" => op[w] = "transaction"
        /\ Continue(op[w]) = "handover" <=> op[w] = "handover"
    BY <1>1 DEF Continue, Kinds, Hold
  <2>3. target'[w] # None <=> Serves(w)'
    BY <1>1, <1>2, <1>3, <1>4, <2>2 DEF Places, Serves
  <2>4. ~Serves(p)'
    BY <1>2 DEF Serves
  <2> SUFFICES ASSUME NEW q \in Procs
               PROVE  /\ conn'[q] # None <=> pc'[q] \in Hold
                      /\ target'[q] # None <=> Serves(q)'
                      /\ pc'[q] = "connected" => op'[q] = "connect"
                      /\ pc'[q] = "query" => op'[q] = "query"
                      /\ pc'[q] \in {"begin", "body", "rollback"} => op'[q] = "transaction"
                      /\ pc'[q] = "handover" => op'[q] = "handover"
                      /\ pc'[q] \in {"creating", "waiting"} => op'[q] # "none"
    BY DEF Places
  <2>5. CASE q \notin {p, w}
    BY <2>1, <2>5, ZenonT(40) DEF Places, Serves
  <2>6. CASE q = p
    BY <1>2, <2>4, <2>6 DEF Hold
  <2>7. CASE q = w
    BY <1>1, <1>2, <1>3, <1>4, <2>2, <2>3, <2>7
  <2> QED BY <2>5, <2>6, <2>7
<1>9. Roles'
  <2>1. \A q \in Helpers : pc'[q] \in Free \union {"spawned", "creating", "waiting", "handover"}
    <3> SUFFICES ASSUME NEW q \in Helpers, q = w
                 PROVE  pc'[q] = "handover"
      BY <1>2, Coroutines DEF Roles, Free
    <3> QED BY <1>1, <1>2 DEF Roles, Continue, Kinds
  <2>2. \A c \in Clients : pc'[c] # "spawned" /\ (pc'[Helper[c]] \notin Free => pc'[c] \in Free)
    <3> TAKE c \in Clients
    <3>1. c \in Procs /\ Helper[c] \in Procs
      BY Coroutines
    <3>2. \A q \in Procs \ {p} : pc'[q] \in Free <=> pc[q] \in Free
      BY <1>2, <1>4 DEF Free
    <3>3. pc'[p] \in Free
      BY <1>2 DEF Free
    <3>4. pc'[c] # "spawned"
      BY <1>2, <1>4, <3>1 DEF Roles
    <3> QED BY <3>1, <3>2, <3>3, <3>4 DEF Roles
  <2>3. IsCache => \A q \in Procs : /\ op'[q] \notin {"transaction", "handover"} /\ pc'[q] # "spawned"
                                    /\ conn'[q] # None => conn'[q] \in alive'
    BY <1>1, <1>2, <1>3, <1>4, ZenonT(40) DEF Roles
  <2>4. IsCache => Elements(pool') \subseteq alive'
    BY <1>3 DEF Roles, Elements
  <2>5. \A q \in Helpers : op'[q] \in {"none", "handover"}
    BY <1>3 DEF Roles
  <2>6. raises' > 0 => driver' \in {"mysql", "redis", "ssdb"}
    BY <1>3 DEF Roles
  <2> QED BY <2>1, <2>2, <2>3, <2>4, <2>5, <2>6, <1>3 DEF Roles
<1>10. Waiters'
  <2>1. \A q \in Elements(co_pool') : pc'[q] = "waiting"
    <3>1. Elements(co_pool) \subseteq Procs
      BY EmptyStack DEF TypeOK
    <3> QED BY <1>2, <3>1 DEF Waiters, Hold
  <2>2. \A q \in Procs : target'[q] # None => pc'[target'[q]] = "waiting" /\ target'[q] \notin Elements(co_pool')
    <3> SUFFICES ASSUME NEW q \in Procs, target'[q] # None
                 PROVE  pc'[target'[q]] = "waiting" /\ target'[q] \notin Elements(co_pool')
      OBVIOUS
    <3>1. q # p /\ target'[q] = target[q] /\ target[q] \in Procs
      BY <1>2 DEF TypeOK
    <3>2. target[q] # w /\ pc[target[q]] = "waiting" /\ target[q] \notin Elements(co_pool)
      BY <3>1 DEF Waiters
    <3>3. target[q] # p
      BY <3>2 DEF Hold
    <3> QED BY <1>2, <3>1, <3>2, <3>3
  <2>3. \A q, r \in Procs : target'[q] # None /\ target'[q] = target'[r] => q = r
    BY <1>2 DEF Waiters
  <2>4. \A q \in Procs : pc'[q] = "waiting" =>
          q \in Elements(co_pool') \/ (\E r \in Procs : target'[r] = q) \/ (driver' = "mysql" /\ raises' > 0)
    <3> SUFFICES ASSUME NEW q \in Procs, pc'[q] = "waiting"
                 PROVE  q \in Elements(co_pool') \/ (\E r \in Procs : target'[r] = q) \/ (driver' = "mysql" /\ raises' > 0)
      OBVIOUS
    <3>1. q \notin {p, w} /\ pc[q] = "waiting" /\ q # None
      BY <1>2, <1>4, Coroutines
    <3>2. CASE q \in Elements(co_pool)
      BY <3>1, <3>2
    <3>3. CASE \E r \in Procs : target[r] = q
      <4>1. PICK r \in Procs : target[r] = q
        BY <3>3
      <4>2. r # p
        BY <3>1, <4>1
      <4> QED BY <1>2, <4>1, <4>2
    <3>4. CASE driver = "mysql" /\ raises > 0
      BY <3>4, <1>3
    <3> QED BY <3>1, <3>2, <3>3, <3>4 DEF Waiters
  <2> QED BY <2>1, <2>2, <2>3, <2>4 DEF Waiters
<1> QED BY <1>5, <1>6, <1>7, <1>8, <1>9, <1>10

\* p puts its connection back into the pool.
LEMMA PutsBack ==
    ASSUME IInv, NEW p \in Procs, pc[p] \in Hold, target[p] = None,
           conn' = [conn EXCEPT ![p] = None],
           pc' = [pc EXCEPT ![p] = "idle"],
           pool' = Append(pool, conn[p]),
           UNCHANGED <<opts, current, co_pool, op, target, raises, ops>>,
           INITIALIZATION' \in BOOLEAN,
           alive' \subseteq Conns, losses' \in 0..MaxLosses,
           IsCache => UNCHANGED <<alive, losses>>
    PROVE  IInv'
<1> USE DEF IInv
<1>1. conn[p] \in Conns /\ conn[p] # None
  BY DEF Places, TypeOK
<1>2. /\ conn'[p] = None /\ pc'[p] = "idle"
      /\ \A q \in Procs \ {p} : conn'[q] = conn[q] /\ pc'[q] = pc[q]
  BY DEF TypeOK
<1>3. /\ driver' = driver /\ unixdomain' = unixdomain
      /\ current' = current /\ co_pool' = co_pool /\ op' = op /\ target' = target
      /\ raises' = raises /\ ops' = ops
      /\ IsCache' <=> IsCache
  BY DEF opts, IsCache
<1>4. /\ pool' \in Seq(Conns) /\ Len(pool') = Len(pool) + 1 /\ Len(pool) \in Nat
      /\ Elements(pool') = Elements(pool) \union {conn[p]}
      /\ InjectiveSeq(pool')
  <2>1. pool \in Seq(Conns)
    BY DEF TypeOK
  <2>2. InjectiveSeq(pool) /\ conn[p] \notin Elements(pool)
    BY <1>1 DEF Exclusive, InjectiveSeq, Holders
  <2> QED BY <1>1, <2>1, <2>2, StackPushed
<1>5. TypeOK'
  <2>1. conn' \in [Procs -> Conns \union {None}]
    BY DEF TypeOK
  <2>2. pc' \in [Procs -> Free \union {"waiting", "creating", "connected", "query",
                        "begin", "body", "rollback", "spawned", "handover"}]
    BY DEF TypeOK, Free
  <2> QED BY <1>3, <1>4, <2>1, <2>2 DEF TypeOK
<1>6. Counts'
  <2>1. Holders' = Holders \ {p} /\ p \in Holders
    BY <1>1, <1>2 DEF Holders
  <2>2. In("creating")' = In("creating")
    BY <1>2 DEF In, Hold
  <2>3. IsFiniteSet(Holders) /\ Cardinality(In("creating")) \in Nat
    BY Coroutines DEF Holders, In
  <2>4. Cardinality(Holders) = Cardinality(Holders') + 1 /\ Cardinality(Holders') \in Nat
    BY <2>1, <2>3, SetShrinks
  <2>5. Leaked' = Leaked
    BY <1>3 DEF Leaked
  <2>6. Leaked \in Nat
    BY BoundsAssumption, MaxAssumption DEF Leaked, TypeOK
  <2> QED BY <1>3, <1>4, <2>2, <2>3, <2>4, <2>5, <2>6 DEF Counts, Accounting
<1>7. Exclusive'
  BY <1>1, <1>2, <1>4 DEF Exclusive, Holders, InjectiveSeq
<1>8. Places'
  BY <1>2, <1>3 DEF Places, Serves, Hold
<1>9. Roles'
  <2>1. IsCache => \A q \in Procs : conn'[q] # None => conn'[q] \in alive'
    BY <1>2 DEF Roles
  <2>2. IsCache => Elements(pool') \subseteq alive'
    BY <1>1, <1>4 DEF Roles
  <2>3. \A q \in Procs : pc'[q] = pc[q] \/ pc'[q] = "idle"
    BY <1>2
  <2>4. \A c \in Clients : pc'[c] # "spawned" /\ (pc'[Helper[c]] \notin Free => pc'[c] \in Free)
    BY <2>3, Coroutines DEF Roles, Free
  <2>5. \A q \in Helpers : pc'[q] \in Free \union {"spawned", "creating", "waiting", "handover"}
    BY <2>3, Coroutines DEF Roles, Free
  <2> QED BY <2>1, <2>2, <2>3, <2>4, <2>5, <1>3 DEF Roles
<1>10. Waiters'
  <2>1. pc[p] # "waiting"
    BY DEF Hold
  <2>2. \A q \in Procs : pc'[q] = "waiting" <=> pc[q] = "waiting"
    BY <1>2, <2>1
  <2>3. Elements(co_pool) \subseteq Procs /\ \A q \in Procs : target[q] \in Procs \union {None}
    BY EmptyStack DEF TypeOK
  <2> QED BY <1>3, <2>2, <2>3 DEF Waiters, Elements, InjectiveSeq
<1> QED BY <1>5, <1>6, <1>7, <1>8, <1>9, <1>10

-----------------------------------------------------------------------------
(* The other steps *)

LEMMA InitHolds == Init => IInv
<1> SUFFICES ASSUME Init PROVE IInv
  OBVIOUS
<1> USE DEF Init
<1>1. Elements(<<>>) = {} /\ Len(<<>>) = 0 /\ <<>> \in Seq(Conns) /\ <<>> \in Seq(Procs)
  <2>1. <<>> \in Seq(Conns) /\ <<>> \in Seq(Procs)
    OBVIOUS
  <2> QED BY <2>1, EmptyStack
<1>2. Holders = {} /\ In("creating") = {}
  BY DEF Holders, In
<1>3. TypeOK
  <2>1. unixdomain \in BOOLEAN
    BY DEF IsCache
  <2>2. 0 \in 0..Max /\ 0 \in 0..MaxOps /\ 0 \in 0..MaxLosses
    BY MaxAssumption, BoundsAssumption
  <2> QED BY <1>1, <2>1, <2>2 DEF TypeOK, Free
<1>4. Counts
  <2>1. Len(pool) = 0 /\ Cardinality({}) = 0 /\ Leaked = 0
    BY <1>1, FS_EmptySet DEF Leaked
  <2>2. Cardinality(Holders) = 0 /\ Cardinality(In("creating")) = 0
    BY <1>2, <2>1
  <2> QED BY <2>1, <2>2, MaxAssumption DEF Counts, Accounting
<1>5. Exclusive
  BY <1>1, <1>2 DEF Exclusive
<1>6. Places
  BY DEF Places, Serves, Hold
<1>7. Roles
  BY <1>1, Coroutines DEF Roles, Free
<1>8. Waiters
  BY <1>1 DEF Waiters, InjectiveSeq
<1> QED BY <1>3, <1>4, <1>5, <1>6, <1>7, <1>8 DEF IInv

\* There is always a connection object left for one that is opened.
LEMMA FreshIsUnused ==
    ASSUME IInv, In("creating") # {}
    PROVE  Fresh \in Conns /\ Fresh \notin Elements(pool) \union {conn[p] : p \in Holders}
<1> DEFINE n == Len(pool)
           held == {conn[p] : p \in Holders}
<1>1. pool \in Seq(Conns) /\ n \in Nat /\ IsFiniteSet(Holders) /\ IsFiniteSet(In("creating"))
  BY Coroutines, EmptyStack DEF IInv, TypeOK, Holders, In
<1>2. IsFiniteSet(Elements(pool)) /\ Cardinality(Elements(pool)) <= n
  <2> DEFINE f == [i \in 1..n |-> pool[i]]
  <2>1. f \in Surjection(1..n, Elements(pool))
    BY DEF Surjection, Elements
  <2>2. IsFiniteSet(1..n) /\ Cardinality(1..n) = n
    BY <1>1, FS_Interval, SMTT(30)
  <2> QED BY <2>1, <2>2, FS_Surjection
<1>3. IsFiniteSet(held) /\ Cardinality(held) <= Cardinality(Holders)
  <2> DEFINE g == [p \in Holders |-> conn[p]]
  <2>1. g \in Surjection(Holders, held)
    BY DEF Surjection
  <2> QED BY <1>1, <2>1, FS_Surjection
<1>4. /\ IsFiniteSet(Elements(pool) \union held)
      /\ Cardinality(Elements(pool) \union held) <= n + Cardinality(Holders)
  <2> HIDE DEF held, n
  <2>1. /\ Cardinality(Elements(pool) \intersect held) \in Nat
        /\ Cardinality(Elements(pool)) \in Nat /\ Cardinality(held) \in Nat
        /\ Cardinality(Holders) \in Nat
    BY <1>1, <1>2, <1>3, FS_Intersection, FS_CardinalityType
  <2>2. /\ IsFiniteSet(Elements(pool) \union held)
        /\ Cardinality(Elements(pool) \union held)
             = Cardinality(Elements(pool)) + Cardinality(held) - Cardinality(Elements(pool) \intersect held)
    BY <1>2, <1>3, FS_Union
  <2> QED BY <1>1, <1>2, <1>3, <2>1, <2>2
<1>5. Cardinality(In("creating")) \in Nat \ {0}
  BY <1>1, FS_EmptySet, FS_CardinalityType
<1>6. n + Cardinality(Holders) < Max
  <2>1. Leaked \in Nat /\ Cardinality(Holders) \in Nat
    BY <1>1, FS_CardinalityType, BoundsAssumption, MaxAssumption DEF IInv, TypeOK, Leaked
  <2>2. current = n + Cardinality(Holders) + Cardinality(In("creating")) + Leaked /\ current \in Nat
        /\ current <= Max /\ Max \in Nat
    BY MaxAssumption DEF IInv, TypeOK, Counts, Accounting
  <2> QED BY <1>1, <1>5, <2>1, <2>2
<1>7. \E k \in Conns : k \notin Elements(pool) \union held
  <2> SUFFICES ASSUME Conns \subseteq Elements(pool) \union held
               PROVE  FALSE
    OBVIOUS
  <2> HIDE DEF held, n
  <2>1. Cardinality(Conns) <= Cardinality(Elements(pool) \union held)
    BY <1>4, FS_Subset
  <2>2. Cardinality(Conns) \in Nat /\ Cardinality(Elements(pool) \union held) \in Nat
        /\ Cardinality(Holders) \in Nat
    BY <1>1, <1>4, ConnsAssumption, FS_CardinalityType
  <2> QED BY <1>1, <1>4, <1>6, <2>1, <2>2, ConnsAssumption, MaxAssumption
<1> QED BY <1>7 DEF Fresh

\* BEGIN is answered, a statement loses the connection, or the code rolls back.
LEMMA BodyMoves ==
    ASSUME IInv, NEW p \in Procs, pc[p] \in {"begin", "body"},
           NEW there \in {"body", "rollback"}, pc' = [pc EXCEPT ![p] = there],
           UNCHANGED <<opts, INITIALIZATION, current, pool, co_pool, conn, op, target, raises, ops>>,
           alive' \subseteq Conns, losses' \in 0..MaxLosses
    PROVE  IInv'
<1> USE DEF IInv
<1>1. op[p] = "transaction" /\ p \notin Helpers
  BY Coroutines DEF Places, Roles, Free
<1>2. ~IsCache
  BY <1>1 DEF Roles
<1>3. /\ driver' = driver /\ unixdomain' = unixdomain /\ INITIALIZATION' = INITIALIZATION
      /\ current' = current /\ pool' = pool /\ co_pool' = co_pool /\ conn' = conn
      /\ op' = op /\ target' = target /\ raises' = raises /\ ops' = ops
      /\ ~IsCache'
  BY <1>2 DEF opts, IsCache
<1>4. /\ pc'[p] = there /\ \A q \in Procs \ {p} : pc'[q] = pc[q]
  BY DEF TypeOK
<1>5. TypeOK'
  <2>1. pc' \in [Procs -> Free \union {"waiting", "creating", "connected", "query",
                        "begin", "body", "rollback", "spawned", "handover"}]
    BY DEF TypeOK, Free
  <2> QED BY <1>3, <2>1 DEF TypeOK
<1>6. Counts'
  <2>1. Holders' = Holders
    BY <1>3 DEF Holders
  <2>2. In("creating")' = In("creating")
    BY <1>4 DEF In
  <2>3. Leaked' = Leaked
    BY <1>2, <1>3 DEF Leaked
  <2> QED BY <1>3, <2>1, <2>2, <2>3 DEF Counts, Accounting
<1>7. Exclusive'
  BY <1>3 DEF Exclusive, Holders, Elements
<1>8. Places'
  <2>1. ~Serves(p) /\ ~Serves(p)'
    BY <1>3, <1>4 DEF Serves
  <2>2. \A q \in Procs \ {p} : Serves(q)' <=> Serves(q)
    BY <1>3, <1>4 DEF Serves
  <2> QED BY <1>1, <1>3, <1>4, <2>1, <2>2 DEF Places, Hold
<1>9. Roles'
  <2>1. \A q \in Procs : pc'[q] \in Free <=> pc[q] \in Free
    BY <1>4 DEF Free
  <2>2. \A q \in Procs : pc'[q] = "spawned" <=> pc[q] = "spawned"
    BY <1>4
  <2>3. \A q \in Helpers : pc'[q] \in Free \union {"spawned", "creating", "waiting", "handover"}
    BY <1>1, <1>4, Coroutines DEF Roles
  <2> QED BY <1>3, <2>1, <2>2, <2>3, Coroutines DEF Roles
<1>10. Waiters'
  <2>1. \A q \in Procs : pc'[q] = "waiting" <=> pc[q] = "waiting"
    BY <1>4
  <2>2. Elements(co_pool) \subseteq Procs /\ \A q \in Procs : target[q] \in Procs \union {None}
    BY EmptyStack DEF TypeOK
  <2> QED BY <1>3, <2>1, <2>2 DEF Waiters, Elements, InjectiveSeq
<1> QED BY <1>5, <1>6, <1>7, <1>8, <1>9, <1>10

LEMMA CreatedKeeps == ASSUME IInv, NEW p \in Procs, Created(p) PROVE IInv'
<1> USE DEF IInv
<1>1. p \in In("creating") /\ conn[p] = None
  BY DEF Created, In, Places, Hold
<1>2. PICK k \in Conns : /\ k = Fresh /\ k # None
                         /\ k \notin Elements(pool) /\ \A q \in Holders : conn[q] # k
  BY <1>1, FreshIsUnused, ConnsAssumption
<1>3. /\ conn' = [conn EXCEPT ![p] = k]
      /\ alive' = alive \union {k}
      /\ pc' = [pc EXCEPT ![p] = Continue(op[p])]
      /\ driver' = driver /\ unixdomain' = unixdomain /\ INITIALIZATION' = INITIALIZATION
      /\ current' = current /\ pool' = pool /\ co_pool' = co_pool
      /\ op' = op /\ target' = target /\ raises' = raises /\ ops' = ops /\ losses' = losses
      /\ IsCache' <=> IsCache
  BY <1>2 DEF Created, opts, bounds, IsCache
<1>4. /\ conn'[p] = k /\ pc'[p] = Continue(op[p])
      /\ \A q \in Procs \ {p} : conn'[q] = conn[q] /\ pc'[q] = pc[q]
  BY <1>3 DEF TypeOK
<1>5. /\ op[p] \in Kinds
      /\ Continue(op[p]) \in {"connected", "query", "begin", "handover"}
  <2>1. op[p] \in Kinds
    BY DEF Created, Places, TypeOK, Kinds
  <2> QED BY <2>1 DEF Continue, Kinds
<1>6. TypeOK'
  <2>1. conn' \in [Procs -> Conns \union {None}]
    BY <1>3 DEF TypeOK
  <2>2. pc' \in [Procs -> Free \union {"waiting", "creating", "connected", "query",
                        "begin", "body", "rollback", "spawned", "handover"}]
    BY <1>3, <1>5 DEF TypeOK, Free
  <2> QED BY <1>3, <2>1, <2>2 DEF TypeOK
<1>7. Counts'
  <2>1. Holders' = Holders \union {p} /\ p \notin Holders
    BY <1>1, <1>2, <1>4 DEF Holders
  <2>2. In("creating")' = In("creating") \ {p}
    BY <1>4, <1>5 DEF In
  <2>3. IsFiniteSet(Holders) /\ IsFiniteSet(In("creating"))
    BY Coroutines DEF Holders, In
  <2>4. /\ Cardinality(Holders)' = Cardinality(Holders) + 1 /\ Cardinality(Holders) \in Nat
        /\ Cardinality(In("creating")) = Cardinality(In("creating"))' + 1
        /\ Cardinality(In("creating"))' \in Nat
    BY <1>1, <2>1, <2>2, <2>3, SetGrows, SetShrinks
  <2>5. Leaked' = Leaked
    BY <1>3 DEF Leaked
  <2>6. Len(pool') = Len(pool) /\ Len(pool) \in Nat /\ Leaked \in Nat
    BY <1>3, EmptyStack, BoundsAssumption, MaxAssumption DEF TypeOK, Leaked
  <2> QED BY <1>3, <2>4, <2>5, <2>6 DEF Counts, Accounting
<1>8. Exclusive'
  <2>1. \A q \in Procs \ {p} : conn'[q] = conn[q] /\ conn[q] # k
    BY <1>2, <1>4 DEF Holders
  <2>2. Elements(pool') = Elements(pool) /\ pool' = pool
    BY <1>3 DEF Elements
  <2> QED BY <1>2, <1>4, <2>1, <2>2 DEF Exclusive, Holders
<1>9. Places'
  <2>1. \A q \in Procs \ {p} : conn'[q] = conn[q] /\ op'[q] = op[q] /\ pc'[q] = pc[q] /\ target'[q] = target[q]
    BY <1>3, <1>4
  <2>2. /\ Continue(op[p]) \in Hold
        /\ Continue(op[p]) = "connected" => op[p] = "connect"
        /\ Continue(op[p]) = "query" => op[p] = "query"
        /\ Continue(op[p]) \notin {"body", "rollback", "spawned"}
        /\ Continue(op[p]) = "begin" => op[p] = "transaction"
        /\ Continue(op[p]) = "handover" <=> op[p] = "handover"
    BY <1>5 DEF Continue, Kinds, Hold
  <2>3. target'[p] # None <=> Serves(p)'
    BY <1>3, <1>4, <1>5, <2>2 DEF Places, Serves, Created
  <2> SUFFICES ASSUME NEW q \in Procs
               PROVE  /\ conn'[q] # None <=> pc'[q] \in Hold
                      /\ target'[q] # None <=> Serves(q)'
                      /\ pc'[q] = "connected" => op'[q] = "connect"
                      /\ pc'[q] = "query" => op'[q] = "query"
                      /\ pc'[q] \in {"begin", "body", "rollback"} => op'[q] = "transaction"
                      /\ pc'[q] = "handover" => op'[q] = "handover"
                      /\ pc'[q] \in {"creating", "waiting"} => op'[q] # "none"
    BY DEF Places
  <2>4. CASE q # p
    BY <2>1, <2>4 DEF Places, Serves
  <2>5. CASE q = p
    BY <1>2, <1>3, <1>4, <1>5, <2>2, <2>3, <2>5
  <2> QED BY <2>4, <2>5
<1>10. Roles'
  <2>1. \A q \in Procs : pc'[q] \in Free <=> pc[q] \in Free
    BY <1>4, <1>5 DEF Free, Created
  <2>2. \A q \in Procs : pc'[q] = "spawned" <=> pc[q] = "spawned"
    BY <1>4, <1>5 DEF Created
  <2>3. \A q \in Helpers : pc'[q] \in Free \union {"spawned", "creating", "waiting", "handover"}
    <3> SUFFICES ASSUME NEW q \in Helpers, q = p
                 PROVE  pc'[q] = "handover"
      BY <1>4, Coroutines DEF Roles, Free
    <3> QED BY <1>4, <1>5 DEF Roles, Continue, Kinds
  <2>4. \A c \in Clients : pc'[c] # "spawned" /\ (pc'[Helper[c]] \notin Free => pc'[c] \in Free)
    BY <2>1, <2>2, Coroutines DEF Roles
  <2>5. IsCache => \A q \in Procs : /\ op'[q] \notin {"transaction", "handover"} /\ pc'[q] # "spawned"
                                    /\ conn'[q] # None => conn'[q] \in alive'
    BY <1>3, <1>4, <2>2 DEF Roles
  <2>6. IsCache => Elements(pool') \subseteq alive'
    BY <1>3 DEF Roles, Elements
  <2> QED BY <1>3, <2>3, <2>4, <2>5, <2>6 DEF Roles
<1>11. Waiters'
  <2>1. \A q \in Procs : pc'[q] = "waiting" <=> pc[q] = "waiting"
    BY <1>4, <1>5 DEF Created
  <2>2. Elements(co_pool) \subseteq Procs /\ \A q \in Procs : target[q] \in Procs \union {None}
    BY EmptyStack DEF TypeOK
  <2> QED BY <1>3, <2>1, <2>2 DEF Waiters, Elements, InjectiveSeq
<1> QED BY <1>6, <1>7, <1>8, <1>9, <1>10, <1>11

\* A connection that could not be opened stays counted; whoever p fetched it
\* for is forgotten.
LEMMA CreateRaisesKeeps == ASSUME IInv, NEW p \in Procs, CreateRaises(p) PROVE IInv'
<1> USE DEF IInv
<1>1. /\ p \in In("creating") /\ conn[p] = None
      /\ pc' = [pc EXCEPT ![p] = "failed"]
      /\ target' = [target EXCEPT ![p] = None]
      /\ raises' = raises + 1
      /\ driver' = driver /\ unixdomain' = unixdomain /\ INITIALIZATION' = INITIALIZATION
      /\ current' = current /\ pool' = pool /\ co_pool' = co_pool /\ conn' = conn
      /\ op' = op /\ alive' = alive /\ ops' = ops /\ losses' = losses
      /\ IsCache' <=> IsCache
  BY DEF CreateRaises, opts, bounds, IsCache, In, Places, Hold
<1>2. driver \in {"mysql", "redis", "ssdb"}
  BY DEF CreateRaises, MayRaise, CanDial, IsCache
<1>3. target[p] # None => driver = "mysql"
  BY <1>1, <1>2 DEF Places, Serves, Roles, IsCache, In
<1>4. /\ pc'[p] = "failed" /\ target'[p] = None
      /\ \A q \in Procs \ {p} : pc'[q] = pc[q] /\ target'[q] = target[q]
  BY <1>1 DEF TypeOK
<1>5. /\ Cardinality(Holders) \in Nat /\ Cardinality(In("creating"))' \in Nat
      /\ Cardinality(In("creating")) = Cardinality(In("creating"))' + 1
  <2>1. In("creating")' = In("creating") \ {p}
    BY <1>4 DEF In
  <2>2. IsFiniteSet(In("creating")) /\ Cardinality(Holders) \in Nat
    BY Coroutines DEF In, Holders
  <2> QED BY <1>1, <2>1, <2>2, SetShrinks
<1>6. /\ Len(pool) \in Nat /\ raises \in Nat /\ losses \in Nat
      /\ current \in Nat /\ Max \in Nat
  BY EmptyStack, BoundsAssumption, MaxAssumption DEF TypeOK
<1>7. Counts'
  <2>1. Leaked' = Leaked + 1 /\ Leaked \in Nat
    BY <1>1, <1>6 DEF Leaked
  <2>2. Holders' = Holders
    BY <1>1 DEF Holders
  <2> QED BY <1>1, <1>5, <1>6, <2>1, <2>2 DEF Counts, Accounting
<1>8. TypeOK'
  <2>1. raises' \in 0..Max
    BY <1>1, <1>5, <1>6 DEF Counts, Accounting, Leaked
  <2>2. pc' \in [Procs -> Free \union {"waiting", "creating", "connected", "query",
                        "begin", "body", "rollback", "spawned", "handover"}]
    BY <1>1 DEF TypeOK, Free
  <2>3. target' \in [Procs -> Procs \union {None}]
    BY <1>1 DEF TypeOK
  <2> QED BY <1>1, <2>1, <2>2, <2>3 DEF TypeOK
<1>9. Exclusive'
  BY <1>1 DEF Exclusive, Holders, Elements
<1>10. Places'
  <2>1. \A q \in Procs \ {p} : Serves(q)' <=> Serves(q)
    BY <1>1, <1>4 DEF Serves
  <2>2. ~Serves(p)'
    BY <1>4 DEF Serves
  <2> QED BY <1>1, <1>4, <2>1, <2>2 DEF Places, Hold
<1>11. Roles'
  <2>1. \A q \in Procs : pc'[q] \in Free \/ pc'[q] = pc[q]
    BY <1>4 DEF Free
  <2>2. \A q \in Procs : pc'[q] # "spawned" \/ pc[q] = "spawned"
    BY <1>4
  <2>3. \A c \in Clients : pc'[c] # "spawned" /\ (pc'[Helper[c]] \notin Free => pc'[c] \in Free)
    BY <2>1, <2>2, Coroutines DEF Roles
  <2>4. \A q \in Helpers : pc'[q] \in Free \union {"spawned", "creating", "waiting", "handover"}
    BY <2>1, Coroutines DEF Roles
  <2> QED BY <1>1, <1>2, <2>2, <2>3, <2>4 DEF Roles, Elements
<1>12. Waiters'
  <2>1. \A q \in Procs : pc'[q] = "waiting" <=> pc[q] = "waiting"
    BY <1>1, <1>4 DEF In
  <2>2. Elements(co_pool') = Elements(co_pool) /\ Elements(co_pool) \subseteq Procs
    BY <1>1, EmptyStack DEF TypeOK, Elements
  <2>3. \A q \in Procs : target'[q] # None => target'[q] = target[q] /\ target[q] \in Procs
    BY <1>4 DEF TypeOK
  <2>4. \A q, r \in Procs : target'[q] # None /\ target'[q] = target'[r] => q = r
    BY <2>3 DEF Waiters
  <2>5. \A q \in Procs : pc'[q] = "waiting" =>
          q \in Elements(co_pool') \/ (\E r \in Procs : target'[r] = q) \/ (driver' = "mysql" /\ raises' > 0)
    <3> SUFFICES ASSUME NEW q \in Procs, pc'[q] = "waiting", q \notin Elements(co_pool), ~(driver = "mysql")
                 PROVE  \E r \in Procs : target'[r] = q
      BY <1>1, <1>6, <2>2
    <3>1. PICK r \in Procs : target[r] = q
      BY <2>1 DEF Waiters
    <3>2. r # p
      BY <1>3, <3>1, Coroutines
    <3> QED BY <1>4, <3>1, <3>2
  <2>6. InjectiveSeq(co_pool')
    BY <1>1 DEF Waiters, InjectiveSeq
  <2> QED BY <2>1, <2>2, <2>3, <2>4, <2>5, <2>6 DEF Waiters
<1> QED BY <1>7, <1>8, <1>9, <1>10, <1>11, <1>12

LEMMA RaisedAloneKeeps == ASSUME IInv, NEW p \in Clients, RaisedAlone(p) PROVE IInv'
<1> USE DEF IInv
<1>1. /\ p \in Procs /\ p \in Holders /\ pc[p] = "body" /\ op[p] = "transaction" /\ ~IsCache
      /\ target[p] = None
  BY Coroutines DEF RaisedAlone, Raised, Places, Roles, Holders, Hold, Serves
<1>2. /\ pc' = [pc EXCEPT ![p] = "idle"]
      /\ conn' = [conn EXCEPT ![p] = None]
      /\ current' = current - 1
      /\ driver' = driver /\ unixdomain' = unixdomain /\ INITIALIZATION' = INITIALIZATION
      /\ pool' = pool /\ co_pool' = co_pool /\ target' = target /\ raises' = raises
      /\ op' = op /\ alive' = alive /\ ops' = ops /\ losses' = losses
      /\ ~IsCache'
  BY <1>1 DEF RaisedAlone, Raised, opts, bounds, IsCache
<1>3. /\ pc'[p] = "idle" /\ conn'[p] = None
      /\ \A q \in Procs \ {p} : pc'[q] = pc[q] /\ conn'[q] = conn[q]
  BY <1>1, <1>2 DEF TypeOK
<1>4. Counts' /\ current' \in 0..Max
  <2>1. Holders' = Holders \ {p} /\ In("creating")' = In("creating")
    BY <1>1, <1>3 DEF Holders, In
  <2>2. IsFiniteSet(Holders) /\ Cardinality(In("creating")) \in Nat
    BY Coroutines DEF In, Holders
  <2>3. Cardinality(Holders) = Cardinality(Holders)' + 1 /\ Cardinality(Holders)' \in Nat
    BY <1>1, <2>1, <2>2, SetShrinks
  <2>4. Leaked' = Leaked /\ Leaked \in Nat
    BY <1>1, <1>2, MaxAssumption DEF Leaked, TypeOK
  <2>5. Len(pool') = Len(pool) /\ Len(pool) \in Nat /\ current \in Nat /\ Max \in Nat
    BY <1>2, EmptyStack, MaxAssumption DEF TypeOK
  <2> QED BY <1>2, <2>1, <2>2, <2>3, <2>4, <2>5 DEF Counts, Accounting
<1>5. TypeOK'
  <2>1. conn' \in [Procs -> Conns \union {None}]
    BY <1>2 DEF TypeOK
  <2>2. pc' \in [Procs -> Free \union {"waiting", "creating", "connected", "query",
                        "begin", "body", "rollback", "spawned", "handover"}]
    BY <1>2 DEF TypeOK, Free
  <2> QED BY <1>2, <1>4, <2>1, <2>2 DEF TypeOK
<1>6. Exclusive'
  BY <1>2, <1>3 DEF Exclusive, Holders, Elements
<1>7. Places'
  <2>1. \A q \in Procs \ {p} : Serves(q)' <=> Serves(q)
    BY <1>2, <1>3 DEF Serves
  <2>2. ~Serves(p)'
    BY <1>3 DEF Serves
  <2> QED BY <1>1, <1>2, <1>3, <2>1, <2>2 DEF Places, Hold
<1>8. Roles'
  <2>1. \A q \in Procs : pc'[q] = "idle" \/ pc'[q] = pc[q]
    BY <1>3
  <2>2. \A c \in Clients : pc'[c] # "spawned" /\ (pc'[Helper[c]] \notin Free => pc'[c] \in Free)
    BY <2>1, Coroutines DEF Roles, Free
  <2>3. \A q \in Helpers : pc'[q] \in Free \union {"spawned", "creating", "waiting", "handover"}
    BY <2>1, Coroutines DEF Roles, Free
  <2> QED BY <1>2, <2>2, <2>3 DEF Roles
<1>9. Waiters'
  <2>1. \A q \in Procs : pc'[q] = "waiting" <=> pc[q] = "waiting"
    BY <1>1, <1>3
  <2>2. Elements(co_pool) \subseteq Procs /\ \A q \in Procs : target[q] \in Procs \union {None}
    BY EmptyStack DEF TypeOK
  <2> QED BY <1>2, <2>1, <2>2 DEF Waiters, Elements, InjectiveSeq
<1> QED BY <1>4, <1>5, <1>6, <1>7, <1>8, <1>9

LEMMA RaisedSpawnKeeps == ASSUME IInv, NEW p \in Clients, RaisedSpawn(p) PROVE IInv'
<1> USE DEF IInv
<1>1. /\ p \in Procs /\ p \in Holders /\ pc[p] = "body" /\ op[p] = "transaction" /\ ~IsCache
      /\ target[p] = None /\ co_pool # <<>>
  BY Coroutines DEF RaisedSpawn, Raised, Places, Roles, Holders, Hold, Serves
<1>2. PICK h \in Helpers : h = Helper[p]
  BY Coroutines
<1>3. PICK w \in Procs : w = Top(co_pool)
  BY <1>1, PopProperties DEF TypeOK
<1>4. /\ h \in Procs /\ h # p /\ h \notin Clients /\ pc[h] \in Free
      /\ conn[h] = None /\ target[h] = None
  BY <1>1, <1>2, Coroutines DEF Roles, Places, Free, Hold, Serves
<1>5. /\ co_pool' \in Seq(Procs) /\ InjectiveSeq(co_pool')
      /\ Elements(co_pool') = Elements(co_pool) \ {w} /\ w \in Elements(co_pool)
      /\ pc[w] = "waiting" /\ w # None
  <2>1. co_pool' = Pop(co_pool)
    BY DEF RaisedSpawn
  <2>2. /\ Pop(co_pool) \in Seq(Procs) /\ InjectiveSeq(Pop(co_pool)) /\ w \in Elements(co_pool)
        /\ Elements(Pop(co_pool)) = Elements(co_pool) \ {w}
    BY <1>1, <1>3, PopProperties, StackPopped DEF TypeOK, Waiters
  <2>3. pc[w] = "waiting" /\ w # None
    BY <2>2, Coroutines DEF Waiters
  <2> QED BY <2>1, <2>2, <2>3
<1>6. /\ pc' = [pc EXCEPT ![p] = "idle", ![h] = "spawned"]
      /\ conn' = [conn EXCEPT ![p] = None]
      /\ target' = [target EXCEPT ![h] = w]
      /\ current' = current - 1
      /\ driver' = driver /\ unixdomain' = unixdomain /\ INITIALIZATION' = INITIALIZATION
      /\ pool' = pool /\ raises' = raises
      /\ op' = op /\ alive' = alive /\ ops' = ops /\ losses' = losses
      /\ driver \in {"pgsql", "mssql"} /\ ~IsCache'
  BY <1>1, <1>2, <1>3 DEF RaisedSpawn, Raised, opts, bounds, IsCache
<1>7. /\ pc'[p] = "idle" /\ conn'[p] = None /\ pc'[h] = "spawned" /\ target'[h] = w
      /\ conn'[h] = None
      /\ \A q \in Procs \ {p, h} : pc'[q] = pc[q]
      /\ \A q \in Procs \ {p} : conn'[q] = conn[q]
      /\ \A q \in Procs \ {h} : target'[q] = target[q]
  BY <1>1, <1>4, <1>6 DEF TypeOK
<1>8. Counts' /\ current' \in 0..Max
  <2>1. Holders' = Holders \ {p} /\ In("creating")' = In("creating")
    BY <1>1, <1>4, <1>7 DEF Holders, In, Free
  <2>2. IsFiniteSet(Holders) /\ Cardinality(In("creating")) \in Nat
    BY Coroutines DEF In, Holders
  <2>3. Cardinality(Holders) = Cardinality(Holders)' + 1 /\ Cardinality(Holders)' \in Nat
    BY <1>1, <2>1, <2>2, SetShrinks
  <2>4. Leaked' = Leaked /\ Leaked \in Nat
    BY <1>1, <1>6, MaxAssumption DEF Leaked, TypeOK
  <2>5. Len(pool') = Len(pool) /\ Len(pool) \in Nat /\ current \in Nat /\ Max \in Nat
    BY <1>6, EmptyStack, MaxAssumption DEF TypeOK
  <2> QED BY <1>6, <2>1, <2>2, <2>3, <2>4, <2>5 DEF Counts, Accounting
<1>9. TypeOK'
  <2>1. conn' \in [Procs -> Conns \union {None}]
    BY <1>6 DEF TypeOK
  <2>2. pc' \in [Procs -> Free \union {"waiting", "creating", "connected", "query",
                        "begin", "body", "rollback", "spawned", "handover"}]
    BY <1>6 DEF TypeOK, Free
  <2>3. target' \in [Procs -> Procs \union {None}]
    BY <1>6 DEF TypeOK
  <2> QED BY <1>5, <1>6, <1>8, <2>1, <2>2, <2>3 DEF TypeOK
<1>10. Exclusive'
  BY <1>6, <1>7 DEF Exclusive, Holders, Elements
<1>11. Places'
  <2>1. \A q \in Procs \ {p, h} : Serves(q)' <=> Serves(q)
    BY <1>6, <1>7 DEF Serves
  <2>2. ~Serves(p)' /\ Serves(h)'
    BY <1>7 DEF Serves
  <2> SUFFICES ASSUME NEW q \in Procs
               PROVE  /\ conn'[q] # None <=> pc'[q] \in Hold
                      /\ target'[q] # None <=> Serves(q)'
                      /\ pc'[q] = "connected" => op'[q] = "connect"
                      /\ pc'[q] = "query" => op'[q] = "query"
                      /\ pc'[q] \in {"begin", "body", "rollback"} => op'[q] = "transaction"
                      /\ pc'[q] = "handover" => op'[q] = "handover"
                      /\ pc'[q] \in {"creating", "waiting"} => op'[q] # "none"
    BY DEF Places
  <2>3. CASE q \notin {p, h}
    BY <1>6, <1>7, <2>1, <2>3, ZenonT(40) DEF Places
  <2>4. CASE q = p
    BY <1>1, <1>4, <1>7, <2>2, <2>4 DEF Hold
  <2>5. CASE q = h
    BY <1>4, <1>5, <1>7, <2>2, <2>5 DEF Hold
  <2> QED BY <2>3, <2>4, <2>5
<1>12. Roles'
  <2>1. \A c \in Clients : pc'[c] # "spawned" /\ (pc'[Helper[c]] \notin Free => pc'[c] \in Free)
    <3> TAKE c \in Clients
    <3>1. c \in Procs /\ c # h /\ Helper[c] \in Procs
      BY <1>4, Coroutines
    <3>2. CASE c = p
      BY <1>7, <3>2 DEF Free
    <3>3. CASE c # p
      <4>1. Helper[c] \notin {p, h}
        BY <1>2, <3>3, Coroutines
      <4> QED BY <1>7, <3>1, <3>3, <4>1 DEF Roles
    <3> QED BY <3>2, <3>3
  <2>2. \A q \in Helpers : pc'[q] \in Free \union {"spawned", "creating", "waiting", "handover"}
    BY <1>7, Coroutines DEF Roles, Free
  <2> QED BY <1>6, <2>1, <2>2 DEF Roles
<1>13. Waiters'
  <2>1. \A q \in Procs : pc'[q] = "waiting" <=> pc[q] = "waiting"
    BY <1>1, <1>4, <1>7 DEF Free
  <2>2. Elements(co_pool) \subseteq Procs /\ \A q \in Procs : target[q] \in Procs \union {None}
    BY EmptyStack DEF TypeOK
  <2>3. \A q \in Procs \ {h} : target'[q] = target[q] /\ target[q] # w
    BY <1>5, <1>7 DEF Waiters
  <2>4. \A q \in Elements(co_pool') : pc'[q] = "waiting"
    BY <1>5, <2>1, <2>2 DEF Waiters
  <2>5. \A q \in Procs : target'[q] # None => pc'[target'[q]] = "waiting" /\ target'[q] \notin Elements(co_pool')
    <3> SUFFICES ASSUME NEW q \in Procs, target'[q] # None
                 PROVE  pc'[target'[q]] = "waiting" /\ target'[q] \notin Elements(co_pool')
      OBVIOUS
    <3>1. CASE q = h
      BY <1>5, <1>7, <2>1, <3>1
    <3>2. CASE q # h
      BY <1>5, <2>1, <2>2, <2>3, <3>2 DEF Waiters
    <3> QED BY <3>1, <3>2
  <2>6. \A q, r \in Procs : target'[q] # None /\ target'[q] = target'[r] => q = r
    BY <1>7, <2>3 DEF Waiters
  <2>7. \A q \in Procs : pc'[q] = "waiting" => q \in Elements(co_pool') \/ (\E r \in Procs : target'[r] = q)
    <3> SUFFICES ASSUME NEW q \in Procs, pc[q] = "waiting", q \notin Elements(co_pool'), q # w
                 PROVE  \E r \in Procs : target'[r] = q
      BY <1>4, <1>7, <2>1
    <3>1. PICK r \in Procs : target[r] = q
      BY <1>5, <1>6 DEF Waiters
    <3>2. r # h
      BY <1>4, <3>1, Coroutines
    <3> QED BY <1>7, <3>1, <3>2
  <2> QED BY <1>5, <2>4, <2>5, <2>6, <2>7 DEF Waiters
<1> QED BY <1>8, <1>9, <1>10, <1>11, <1>12, <1>13

-----------------------------------------------------------------------------
(* Steps that call pop_db or release *)

\* Losing a connection leaves the others as they are.
LEMMA LoseKeeps ==
    ASSUME IInv, NEW p \in Procs, p \in Holders, Lose(p)
    PROVE  /\ alive' \subseteq Conns /\ losses' \in 0..MaxLosses
           /\ IsCache => /\ losses' = losses + 1 /\ Elements(pool) \subseteq alive'
                         /\ \A q \in Procs \ {p} : conn[q] # None => conn[q] \in alive'
<1>1. /\ losses \in 0..MaxLosses /\ alive \subseteq Conns
      /\ \/ conn[p] \notin alive /\ losses' = losses
         \/ losses < MaxLosses /\ losses' = losses + 1
      /\ alive' = alive \ {conn[p]}
  BY DEF IInv, TypeOK, Lose
<1>2. alive' \subseteq Conns /\ losses' \in 0..MaxLosses
  BY <1>1, BoundsAssumption
<1>3. ASSUME IsCache
      PROVE  /\ losses' = losses + 1 /\ Elements(pool) \subseteq alive'
             /\ \A q \in Procs \ {p} : conn[q] # None => conn[q] \in alive'
  <2>1. conn[p] \in alive /\ Elements(pool) \subseteq alive
        /\ \A q \in Procs : conn[q] # None => conn[q] \in alive
    BY <1>3 DEF IInv, Roles, Holders
  <2>2. conn[p] \notin Elements(pool) /\ \A q \in Procs \ {p} : conn[q] # None => conn[q] # conn[p]
    BY DEF IInv, Exclusive, Holders
  <2> QED BY <1>1, <2>1, <2>2
<1> QED BY <1>2, <1>3

\* What a coroutine without a connection leaves uncounted: nothing.
LEMMA HoldersWithout ==
    ASSUME IInv, NEW p \in Procs
    PROVE  /\ p \notin Holders => Holders \ {p} = Holders
           /\ p \in Holders => Cardinality(Holders) = Cardinality(Holders \ {p}) + 1
           /\ Cardinality(Holders) \in Nat /\ Cardinality(Holders \ {p}) \in Nat
           /\ Cardinality(In("creating")) \in Nat /\ Len(pool) \in Nat
           /\ raises \in Nat /\ losses \in Nat /\ current \in 0..Max
           /\ p \in Holders => current - 1 \in 0..Max
           /\ current = Len(pool) + Cardinality(Holders) + Cardinality(In("creating"))
                        + raises + (IF IsCache THEN losses ELSE 0)
<1>1. IsFiniteSet(Holders) /\ Cardinality(In("creating")) \in Nat /\ Cardinality(Holders \ {p}) \in Nat
      /\ Cardinality(Holders) \in Nat
  BY Coroutines DEF Holders, In
<1>2. p \in Holders => Cardinality(Holders) = Cardinality(Holders \ {p}) + 1
  BY <1>1, SetShrinks
<1>3. Len(pool) \in Nat /\ raises \in Nat /\ losses \in Nat /\ current \in Nat /\ Max \in Nat
  BY EmptyStack, MaxAssumption, BoundsAssumption DEF IInv, TypeOK
<1>4. current = Len(pool) + Cardinality(Holders) + Cardinality(In("creating"))
                + raises + (IF IsCache THEN losses ELSE 0)
  BY <1>1, <1>3 DEF IInv, Counts, Accounting, Leaked
<1>5. current <= Max
  BY DEF IInv, Counts
<1>6. current \in 0..Max /\ (p \in Holders => current - 1 \in 0..Max)
  BY <1>1, <1>2, <1>3, <1>4, <1>5, SMTT(30)
<1> QED BY <1>1, <1>2, <1>3, <1>4, <1>6

LEMMA StartKeeps ==
    ASSUME IInv, NEW p \in Clients, NEW kind \in {"connect", "query", "transaction"},
           Start(p, kind), kind = "transaction" => ~IsCache
    PROVE  IInv'
<1>1. /\ p \in Procs /\ Helper[p] \in Procs /\ p \notin Helpers
      /\ pc[p] \in Free /\ pc[Helper[p]] \in Free /\ p \notin Holders /\ target[p] = None
      /\ \A c \in Clients : Helper[c] # p
  BY Coroutines DEF Start, IInv, Places, Holders, Hold, Free, Serves
<1>2. /\ pop_db(p, kind, current, co_pool)
      /\ UNCHANGED opts /\ INITIALIZATION' = INITIALIZATION /\ alive' = alive
      /\ target' = target /\ losses' = losses
      /\ ops[p] < MaxOps /\ ops' = [ops EXCEPT ![p] = @ + 1]
  BY DEF Start
<1>3. ops' \in [Clients -> 0..MaxOps]
  BY <1>2, BoundsAssumption DEF IInv, TypeOK
<1>4. /\ INITIALIZATION' \in BOOLEAN /\ alive' \subseteq Conns /\ losses' \in 0..MaxLosses
      /\ target' \in [Procs -> Procs \union {None}]
      /\ current \in 0..Max /\ co_pool \in Seq(Procs) /\ InjectiveSeq(co_pool)
      /\ kind \in Kinds /\ kind # "handover"
  BY <1>2 DEF IInv, TypeOK, Waiters, Kinds
<1>5. current = Len(pool) + Cardinality(Holders \ {p}) + Cardinality(In("creating"))
                + raises + (IF IsCache THEN losses' ELSE 0)
  BY <1>1, <1>2, HoldersWithout
<1>6. IsCache => /\ Elements(pool) \subseteq alive'
                 /\ \A q \in Procs \ {p} : conn[q] # None => conn[q] \in alive'
  BY <1>2 DEF IInv, Roles
<1>7. pc[p] \notin {"creating", "waiting"}
  BY <1>1 DEF Free
<1> QED BY <1>1, <1>2, <1>3, <1>4, <1>5, <1>6, <1>7, PopKeeps

LEMMA RetryKeeps == ASSUME IInv, NEW p \in Clients, Retry(p) \/ RetryCommand(p) PROVE IInv'
<1>1. /\ p \in Procs /\ p \notin Helpers /\ pc[p] \in {"query", "begin"}
      /\ pc[Helper[p]] \in Free /\ p \in Holders /\ target[p] = None
      /\ op[p] \in {"query", "transaction"} /\ \A c \in Clients : Helper[c] # p
  BY Coroutines DEF Retry, RetryCommand, IInv, Places, Holders, Hold, Free, Serves, Roles
<1>2. PICK cur \in 0..Max : cur = IF IsCache THEN current ELSE current - 1
  BY <1>1, HoldersWithout
<1>3. PICK kind \in Kinds : kind = op[p]
  BY <1>1 DEF Kinds
<1>4. /\ pop_db(p, kind, cur, co_pool) /\ Lose(p)
      /\ UNCHANGED opts /\ INITIALIZATION' = INITIALIZATION
      /\ target' = target /\ ops' = ops
  <2>1. RetryCommand(p) => op[p] = "query"
    BY <1>1 DEF RetryCommand, IInv, Places
  <2> QED BY <1>2, <1>3, <2>1 DEF Retry, RetryCommand
<1>5. /\ INITIALIZATION' \in BOOLEAN /\ ops' \in [Clients -> 0..MaxOps]
      /\ target' \in [Procs -> Procs \union {None}]
      /\ co_pool \in Seq(Procs) /\ InjectiveSeq(co_pool)
      /\ kind # "handover" /\ (IsCache => kind # "transaction")
  BY <1>1, <1>3, <1>4 DEF IInv, TypeOK, Waiters, Roles
<1>6. /\ alive' \subseteq Conns /\ losses' \in 0..MaxLosses
      /\ IsCache => /\ losses' = losses + 1 /\ Elements(pool) \subseteq alive'
                    /\ \A q \in Procs \ {p} : conn[q] # None => conn[q] \in alive'
  BY <1>1, <1>4, LoseKeeps
<1>7. cur = Len(pool) + Cardinality(Holders \ {p}) + Cardinality(In("creating"))
            + raises + (IF IsCache THEN losses' ELSE 0)
  <2>1. CASE IsCache
    BY <1>1, <1>2, <1>6, <2>1, HoldersWithout, SMTT(30)
  <2>2. CASE ~IsCache
    <3>1. /\ current = Len(pool) + Cardinality(Holders) + Cardinality(In("creating")) + raises
          /\ Cardinality(Holders) = Cardinality(Holders \ {p}) + 1
          /\ Cardinality(Holders \ {p}) \in Nat /\ Cardinality(In("creating")) \in Nat
          /\ Len(pool) \in Nat /\ raises \in Nat
      <4>1. /\ Cardinality(Holders) = Cardinality(Holders \ {p}) + 1
            /\ Cardinality(Holders \ {p}) \in Nat /\ Cardinality(In("creating")) \in Nat
            /\ Cardinality(Holders) \in Nat
            /\ Len(pool) \in Nat /\ raises \in Nat
        BY <1>1, HoldersWithout
      <4>2. current = Len(pool) + Cardinality(Holders) + Cardinality(In("creating"))
                      + raises + (IF IsCache THEN losses ELSE 0)
        BY <1>1, HoldersWithout
      <4> QED BY <2>2, <4>1, <4>2
    <3> QED BY <1>2, <2>2, <3>1
  <2> QED BY <2>1, <2>2
<1> QED BY <1>1, <1>4, <1>5, <1>6, <1>7, PopKeeps

LEMMA RaisedInlineKeeps == ASSUME IInv, NEW p \in Clients, RaisedInline(p) PROVE IInv'
<1>1. /\ p \in Procs /\ p \notin Helpers /\ pc[p] = "body" /\ op[p] = "transaction" /\ ~IsCache
      /\ pc[Helper[p]] \in Free /\ p \in Holders /\ target[p] = None
      /\ \A c \in Clients : Helper[c] # p
  BY Coroutines DEF RaisedInline, Raised, IInv, Places, Holders, Hold, Free, Serves, Roles
<1>2. PICK cur \in 0..Max : cur = current - 1
  BY <1>1, HoldersWithout
<1>3. co_pool # <<>> /\ co_pool \in Seq(Procs) /\ InjectiveSeq(co_pool)
  BY DEF RaisedInline, IInv, TypeOK, Waiters
<1>4. PICK w \in Procs, rest \in Seq(Procs) : w = Top(co_pool) /\ rest = Pop(co_pool)
  BY <1>3, PopProperties
<1>5. /\ InjectiveSeq(rest) /\ w \in Elements(co_pool) /\ Elements(rest) = Elements(co_pool) \ {w}
  BY <1>3, <1>4, StackPopped
<1>6. /\ pc[w] = "waiting" /\ w # None /\ \A q \in Procs : target[q] # w
  BY <1>5, Coroutines DEF IInv, Waiters
<1>7. /\ pop_db(p, "handover", cur, rest)
      /\ target' = [target EXCEPT ![p] = w]
      /\ UNCHANGED opts /\ INITIALIZATION' = INITIALIZATION
      /\ alive' = alive /\ ops' = ops /\ losses' = losses
  BY <1>2, <1>4 DEF RaisedInline, Raised, bounds
<1>8. /\ INITIALIZATION' \in BOOLEAN /\ ops' \in [Clients -> 0..MaxOps]
      /\ alive' \subseteq Conns /\ losses' \in 0..MaxLosses
      /\ target' \in [Procs -> Procs \union {None}]
      /\ target'[p] = w /\ \A q \in Procs \ {p} : target'[q] = target[q]
  BY <1>1, <1>7 DEF IInv, TypeOK
<1>9. cur = Len(pool) + Cardinality(Holders \ {p}) + Cardinality(In("creating"))
            + raises + (IF IsCache THEN losses' ELSE 0)
  BY <1>1, <1>2, HoldersWithout, SMTT(30)
<1>10. \A x \in Elements(co_pool) : x \in Elements(rest) \/ x = target'[p]
  BY <1>5, <1>8
<1>11. "handover" \in Kinds
  BY DEF Kinds
<1> QED BY <1>1, <1>5, <1>6, <1>7, <1>8, <1>9, <1>10, <1>11, PopKeeps, SMTT(30)

LEMMA HelperRunsKeeps == ASSUME IInv, NEW p \in Helpers, HelperRuns(p) PROVE IInv'
<1>1. /\ p \in Procs /\ p \notin Clients /\ pc[p] = "spawned" /\ ~IsCache
      /\ p \notin Holders /\ target[p] # None
      /\ \A c \in Clients : Helper[c] = p => pc[c] \in Free
  BY Coroutines DEF HelperRuns, IInv, Places, Holders, Hold, Free, Serves, Roles
<1>2. /\ co_pool \in Seq(Procs) /\ InjectiveSeq(co_pool) /\ current \in 0..Max
      /\ pc[target[p]] = "waiting" /\ target[p] \notin Elements(co_pool)
      /\ \A q \in Procs \ {p} : target[q] # target[p]
  BY <1>1 DEF IInv, TypeOK, Waiters
<1>3. /\ pop_db(p, "handover", current, co_pool)
      /\ UNCHANGED opts /\ INITIALIZATION' = INITIALIZATION
      /\ alive' = alive /\ ops' = ops /\ losses' = losses /\ target' = target
  BY DEF HelperRuns, bounds
<1>4. /\ INITIALIZATION' \in BOOLEAN /\ ops' \in [Clients -> 0..MaxOps]
      /\ alive' \subseteq Conns /\ losses' \in 0..MaxLosses
      /\ target' \in [Procs -> Procs \union {None}]
  BY <1>3 DEF IInv, TypeOK
<1>5. current = Len(pool) + Cardinality(Holders \ {p}) + Cardinality(In("creating"))
                + raises + (IF IsCache THEN losses' ELSE 0)
  BY <1>1, <1>3, HoldersWithout
<1>6. "handover" \in Kinds
  BY DEF Kinds
<1> QED BY <1>1, <1>2, <1>3, <1>4, <1>5, <1>6, PopKeeps

\* Whoever is done hands over or puts back.
LEMMA ReleaseKeeps ==
    ASSUME IInv, NEW p \in Clients, pc[p] \in {"query", "body", "rollback"}, release(p),
           UNCHANGED <<opts, INITIALIZATION, current, op, target, raises, ops>>,
           alive' \subseteq Conns, losses' \in 0..MaxLosses,
           IsCache => UNCHANGED <<alive, losses>>
    PROVE  IInv'
<1>1. p \in Procs /\ pc[p] \in Hold /\ target[p] = None /\ co_pool \in Seq(Procs)
  BY Coroutines DEF IInv, Places, Hold, Serves, TypeOK
<1>2. CASE co_pool = <<>>
  <2>1. /\ conn' = [conn EXCEPT ![p] = None] /\ pc' = [pc EXCEPT ![p] = "idle"]
        /\ pool' = Append(pool, conn[p]) /\ co_pool' = co_pool /\ INITIALIZATION' \in BOOLEAN
    BY <1>2 DEF release, IInv, TypeOK
  <2> QED BY <1>1, <2>1, PutsBack
<1>3. CASE co_pool # <<>>
  <2>1. PICK w \in Procs, rest \in Seq(Procs) : w = Top(co_pool) /\ rest = Pop(co_pool)
    BY <1>1, <1>3, PopProperties
  <2>2. /\ InjectiveSeq(rest) /\ w \in Elements(co_pool) /\ Elements(rest) = Elements(co_pool) \ {w}
    BY <1>1, <1>3, <2>1, StackPopped DEF IInv, Waiters
  <2>3. /\ pc[w] = "waiting" /\ w # None /\ \A q \in Procs : target[q] # w
    BY <2>2, Coroutines DEF IInv, Waiters
  <2>4. /\ conn' = [conn EXCEPT ![p] = None, ![w] = conn[p]]
        /\ pc' = [pc EXCEPT ![p] = "idle", ![w] = Continue(op[w])]
        /\ pool' = pool /\ co_pool' = rest
    BY <1>3, <2>1 DEF release
  <2>5. target' = [target EXCEPT ![p] = None]
    BY <1>1 DEF IInv, TypeOK
  <2> QED BY <1>1, <2>2, <2>3, <2>4, <2>5, HandsKeep
<1> QED BY <1>2, <1>3

LEMMA HandOverKeeps == ASSUME IInv, NEW p \in Procs, HandOver(p) PROVE IInv'
<1>1. pc[p] \in Hold /\ target[p] # None
  BY DEF HandOver, IInv, Places, Hold, Serves
<1>2. PICK w \in Procs : w = target[p]
  BY <1>1 DEF IInv, TypeOK
<1>3. /\ pc[w] = "waiting" /\ w \notin Elements(co_pool) /\ \A q \in Procs \ {p} : target[q] # w
  BY <1>1, <1>2 DEF IInv, Waiters
<1>4. /\ conn' = [conn EXCEPT ![p] = None, ![w] = conn[p]]
      /\ pc' = [pc EXCEPT ![p] = "idle", ![w] = Continue(op[w])]
      /\ target' = [target EXCEPT ![p] = None]
      /\ UNCHANGED <<opts, INITIALIZATION, current, pool, op, raises, ops>>
      /\ co_pool' = co_pool /\ alive' = alive /\ losses' = losses
  BY <1>2 DEF HandOver, bounds
<1>5. /\ co_pool \in Seq(Procs) /\ InjectiveSeq(co_pool) /\ Elements(co_pool) = Elements(co_pool) \ {w}
      /\ alive \subseteq Conns /\ losses \in 0..MaxLosses
  BY <1>3 DEF IInv, TypeOK, Waiters
<1> QED BY <1>1, <1>2, <1>3, <1>4, <1>5, HandsKeep

-----------------------------------------------------------------------------
(* Theorems *)

LEMMA StepHolds == IInv /\ [Next]_vars => IInv'
<1> SUFFICES ASSUME IInv, [Next]_vars PROVE IInv'
  OBVIOUS
<1>1. ASSUME NEW c \in Connectors, Connect(c) PROVE IInv'
  BY <1>1, StartKeeps, ConnectorsAssumption DEF Connect
<1>2. ASSUME NEW c \in Clients, Query(c) \/ Transaction(c) \/ Command(c) PROVE IInv'
  BY <1>2, StartKeeps DEF Query, Transaction, Command
<1>3. ASSUME NEW p \in Procs, Created(p) \/ CreateRaises(p) \/ HandOver(p) PROVE IInv'
  BY <1>3, CreatedKeeps, CreateRaisesKeeps, HandOverKeeps
<1>4. ASSUME NEW c \in Clients, Connected(c) PROVE IInv'
  <2>1. c \in Procs /\ pc[c] \in Hold /\ target[c] = None
    BY <1>4, Coroutines DEF Connected, IInv, Places, Hold, Serves
  <2>2. /\ alive' = alive /\ losses' = losses /\ alive \subseteq Conns /\ losses \in 0..MaxLosses
        /\ INITIALIZATION' \in BOOLEAN
    BY <1>4 DEF Connected, bounds, IInv, TypeOK
  <2> QED BY <1>4, <2>1, <2>2, PutsBack DEF Connected, bounds
<1>5. ASSUME NEW c \in Clients, QueryDone(c) \/ Finished(c) PROVE IInv'
  <2>1. alive' = alive /\ losses' = losses /\ alive \subseteq Conns /\ losses \in 0..MaxLosses
    BY <1>5 DEF QueryDone, Finished, bounds, IInv, TypeOK
  <2> QED BY <1>5, <2>1, ReleaseKeeps DEF QueryDone, Finished, bounds
<1>6. ASSUME NEW c \in Clients, RolledBack(c) PROVE IInv'
  <2>1. c \in Procs /\ c \in Holders /\ ~IsCache
    BY <1>6, Coroutines DEF RolledBack, IInv, Places, Hold, Holders, Roles
  <2>2. alive' \subseteq Conns /\ losses' \in 0..MaxLosses
    BY <1>6, <2>1, LoseKeeps DEF RolledBack, IInv, TypeOK
  <2> QED BY <1>6, <2>1, <2>2, ReleaseKeeps DEF RolledBack
<1>7. ASSUME NEW c \in Clients, Began(c) \/ RollBack(c) PROVE IInv'
  <2>1. c \in Procs /\ alive' = alive /\ losses' = losses /\ alive \subseteq Conns /\ losses \in 0..MaxLosses
    BY <1>7, Coroutines DEF Began, RollBack, bounds, IInv, TypeOK
  <2> QED BY <1>7, <2>1, BodyMoves DEF Began, RollBack, bounds
<1>8. ASSUME NEW c \in Clients, LoseInBody(c) PROVE IInv'
  <2>1. c \in Procs /\ c \in Holders
    BY <1>8, Coroutines DEF LoseInBody, IInv, Places, Hold, Holders
  <2>2. alive' \subseteq Conns /\ losses' \in 0..MaxLosses
    BY <1>8, <2>1, LoseKeeps DEF LoseInBody
  <2>3. pc' = [pc EXCEPT ![c] = "body"]
    BY <1>8 DEF LoseInBody, IInv, TypeOK
  <2> QED BY <1>8, <2>1, <2>2, <2>3, BodyMoves DEF LoseInBody
<1>9. ASSUME NEW c \in Clients, Retry(c) \/ RetryCommand(c) PROVE IInv'
  BY <1>9, RetryKeeps
<1>10. ASSUME NEW c \in Clients, RaisedAlone(c) \/ RaisedInline(c) \/ RaisedSpawn(c) PROVE IInv'
  BY <1>10, RaisedAloneKeeps, RaisedInlineKeeps, RaisedSpawnKeeps
<1>11. ASSUME NEW h \in Helpers, HelperRuns(h) PROVE IInv'
  BY <1>11, HelperRunsKeeps
<1>12. CASE UNCHANGED vars
  <2>1. /\ driver' = driver /\ unixdomain' = unixdomain /\ INITIALIZATION' = INITIALIZATION
        /\ current' = current /\ pool' = pool /\ co_pool' = co_pool /\ alive' = alive
        /\ conn' = conn /\ op' = op /\ target' = target /\ pc' = pc /\ raises' = raises
        /\ ops' = ops /\ losses' = losses
    BY <1>12 DEF vars, opts, bounds
  <2> QED BY <2>1 DEF IInv, TypeOK, Counts, Accounting, Leaked, Holders, In, IsCache,
                      Exclusive, Places, Serves, Roles, Waiters
<1> QED BY <1>1, <1>2, <1>3, <1>4, <1>5, <1>6, <1>7, <1>8, <1>9, <1>10, <1>11, <1>12 DEF Next

LEMMA InvariantHolds == SafeSpec => []IInv
BY InitHolds, StepHolds, PTL DEF SafeSpec

\* The variables keep their types, and `current' never passes opt.max.
THEOREM PoolTypeCorrect == Spec => []TypeOK
<1>1. IInv => TypeOK
  BY DEF IInv
<1> QED BY <1>1, InvariantHolds, PTL DEF Spec

\* On every path out of a query or a transaction `current' stays the number of
\* connections that are idle, in use or being opened, and of leaked places.
THEOREM PoolAccounting == Spec => []Accounting
<1>1. IInv => Accounting
  BY DEF IInv, Counts
<1> QED BY <1>1, InvariantHolds, PTL DEF Spec

\* No connection has two users, or a user while it is idle.
THEOREM ConnectionsAreExclusive == Spec => []Exclusive
<1>1. IInv => Exclusive
  BY DEF IInv
<1> QED BY <1>1, InvariantHolds, PTL DEF Spec

\* Who waits is known once, to the pool or to one transaction; nobody else is.
LEMMA KnownOnce == IInv => WaitersAreKnown
<1> SUFFICES ASSUME IInv, NEW p \in Procs
             PROVE  IF pc[p] = "waiting" THEN Known(p) = 1 \/ (driver = "mysql" /\ raises > 0)
                                         ELSE Known(p) = 0
  BY DEF WaitersAreKnown
<1> DEFINE queued == {i \in 1..Len(co_pool) : co_pool[i] = p}
           served == {q \in Procs : target[q] = p}
<1> USE DEF IInv
<1>1. Cardinality({}) = 0 /\ \A x : Cardinality({x}) = 1
  BY FS_EmptySet, FS_Singleton
<1>2. /\ queued # {} => p \in Elements(co_pool) /\ \E i : queued = {i}
      /\ p \in Elements(co_pool) => queued # {}
  <2>1. p \in Elements(co_pool) <=> queued # {}
    BY DEF Elements
  <2>2. \A i, j \in queued : i = j
    BY DEF Waiters, InjectiveSeq
  <2>3. ASSUME queued # {} PROVE \E i : queued = {i}
    <3>1. PICK i : i \in queued
      BY <2>3
    <3>2. queued = {i}
      <4> HIDE DEF queued
      <4> QED BY <2>2, <3>1
    <3> QED BY <3>2
  <2> QED BY <2>1, <2>3
<1>3. p # None
  BY Coroutines
<1>4. served # {} => pc[p] = "waiting" /\ p \notin Elements(co_pool) /\ \E q : served = {q}
  BY <1>3, ZenonT(40) DEF Waiters
<1>5. CASE pc[p] = "waiting"
  <2>1. CASE queued # {}
    <3>1. served = {} /\ \E i : queued = {i}
      BY <1>2, <1>4, <2>1
    <3>2. Cardinality(queued) = 1 /\ Cardinality(served) = 0
      BY <1>1, <3>1
    <3> QED BY <1>5, <3>2 DEF Known
  <2>2. CASE served # {}
    <3>1. queued = {} /\ \E q : served = {q}
      BY <1>2, <1>4, <2>2
    <3>2. Cardinality(queued) = 0 /\ Cardinality(served) = 1
      BY <1>1, <3>1
    <3> QED BY <1>5, <3>2 DEF Known
  <2>3. CASE queued = {} /\ served = {}
    BY <1>2, <1>5, <2>3 DEF Waiters
  <2> QED BY <2>1, <2>2, <2>3
<1>6. CASE pc[p] # "waiting"
  <2>1. queued = {} /\ served = {}
    BY <1>2, <1>4, <1>6 DEF Waiters
  <2>2. Cardinality(queued) = 0 /\ Cardinality(served) = 0
    BY <1>1, <2>1
  <2> QED BY <1>6, <2>2 DEF Known
<1> QED BY <1>5, <1>6

THEOREM WaitersKnown == Spec => []WaitersAreKnown
BY KnownOnce, InvariantHolds, PTL DEF Spec

-----------------------------------------------------------------------------
(* Idle capacity, where one coroutine calls connect *)

\* Until connect has returned nobody but its caller has anything to do, and
\* after that nobody is in connect.
Opening ==
    /\ INITIALIZATION => \A p \in Procs : pc[p] \in {"creating", "waiting", "connected"} => op[p] # "connect"
    /\ ~INITIALIZATION => \A p \in Procs : pc[p] \notin Free => p \in Connectors

OneConnects == \A c, d \in Connectors : c = d

\* p moves, the others stay where they are.
LEMMA PopOpens ==
    ASSUME IInv, Opening, NEW p \in Procs, NEW kind, NEW cur, NEW waiters,
           pop_db(p, kind, cur, waiters), INITIALIZATION' = INITIALIZATION,
           INITIALIZATION => kind # "connect", ~INITIALIZATION => p \in Connectors
    PROVE  Opening'
<1>1. /\ op' = [op EXCEPT ![p] = kind] /\ op \in [Procs -> {"none", "connect", "query", "transaction", "handover"}]
      /\ pc' = [pc EXCEPT ![p] = pc'[p]]
  BY DEF pop_db, Dial, IInv, TypeOK
<1>2. /\ op'[p] = kind
      /\ \A q \in Procs \ {p} : op'[q] = op[q] /\ pc'[q] = pc[q]
  BY <1>1 DEF IInv, TypeOK
<1> QED BY <1>2 DEF Opening

\* A call of pop_db leaves nobody waiting beside a connection or a free place.
LEMMA PopLeavesNone ==
    ASSUME IInv, NoIdleCapacity, NEW p \in Procs, NEW kind \in Kinds,
           NEW cur \in 0..Max, NEW waiters,
           pop_db(p, kind, cur, waiters),
           waiters # <<>> => co_pool # <<>>,
           co_pool # <<>> => cur + 1 + Cardinality(In("spawned") \ {p}) >= Max
    PROVE  NoIdleCapacity'
<1>1. /\ Max \in Nat /\ Cardinality(In("spawned") \ {p}) \in Nat
  BY MaxAssumption, Coroutines DEF In
<1>2. In("spawned")' = In("spawned") \ {p}
  <2>1. pc' = [pc EXCEPT ![p] = pc'[p]] /\ pc'[p] # "spawned"
    BY DEF pop_db, Dial, Continue, Kinds, IInv, TypeOK
  <2>2. \A q \in Procs \ {p} : pc'[q] = pc[q]
    BY <2>1 DEF IInv, TypeOK
  <2> QED BY <2>1, <2>2 DEF In
<1>3. CASE pool # <<>>
  <2>1. co_pool' = <<>>
    BY <1>3 DEF pop_db, NoIdleCapacity
  <2> QED BY <2>1 DEF NoIdleCapacity
<1>4. CASE pool = <<>> /\ MayOpen(cur)
  <2>1. pool' = <<>> /\ current' = cur + 1 /\ (co_pool' # <<>> => co_pool # <<>>)
    BY <1>4 DEF pop_db, Dial
  <2>2. Cardinality(In("spawned"))' = Cardinality(In("spawned") \ {p})
    BY <1>2
  <2> QED BY <1>1, <2>1, <2>2 DEF NoIdleCapacity
<1>5. CASE pool = <<>> /\ ~MayOpen(cur)
  <2>1. pool' = <<>> /\ current' = cur /\ cur >= Max
    BY <1>1, <1>5 DEF pop_db, MayOpen
  <2>2. Cardinality(In("spawned"))' = Cardinality(In("spawned") \ {p})
    BY <1>2
  <2> QED BY <1>1, <2>1, <2>2 DEF NoIdleCapacity
<1> QED BY <1>3, <1>4, <1>5

\* Steps that change neither `current' nor who is spawned.
LEMMA StaysBusy ==
    ASSUME IInv, NoIdleCapacity, current' = current, In("spawned")' = In("spawned"),
           co_pool' # <<>> => co_pool # <<>> /\ pool' = pool
    PROVE  NoIdleCapacity'
BY DEF NoIdleCapacity

\* Who hands its connection on does not add to what is idle while one waits.
LEMMA ReleaseBusy ==
    ASSUME IInv, Opening, NoIdleCapacity, NEW p \in Clients, pc[p] \in {"query", "body", "rollback"},
           release(p), UNCHANGED <<INITIALIZATION, current, op>>
    PROVE  Opening' /\ NoIdleCapacity'
<1>1. p \in Procs /\ co_pool \in Seq(Procs)
  BY Coroutines DEF IInv, TypeOK
<1>2. CASE co_pool = <<>>
  <2>1. pc' = [pc EXCEPT ![p] = "idle"] /\ co_pool' = <<>>
    BY <1>2 DEF release
  <2>2. pc'[p] = "idle" /\ \A q \in Procs \ {p} : pc'[q] = pc[q]
    BY <1>1, <2>1 DEF IInv, TypeOK
  <2> QED BY <2>1, <2>2 DEF Opening, NoIdleCapacity, Free
<1>3. CASE co_pool # <<>>
  <2>1. PICK w \in Procs : w = Top(co_pool)
    BY <1>1, <1>3, PopProperties
  <2>2. pc[w] = "waiting" /\ op[w] \in Kinds
    <3>1. w \in Elements(co_pool)
      BY <1>1, <1>3, <2>1, StackPopped DEF IInv, Waiters
    <3>2. pc[w] = "waiting"
      BY <3>1 DEF IInv, Waiters
    <3> QED BY <3>2 DEF IInv, Places, TypeOK, Kinds
  <2>3. /\ pc' = [pc EXCEPT ![p] = "idle", ![w] = Continue(op[w])] /\ pool' = pool
    BY <1>3, <2>1 DEF release
  <2>4. /\ pc'[p] = "idle" /\ pc'[w] = Continue(op[w]) /\ pc'[w] # "spawned"
        /\ \A q \in Procs \ {p, w} : pc'[q] = pc[q]
    <3>1. p # w
      BY <2>2
    <3>2. Continue(op[w]) # "spawned"
      BY <2>2 DEF Continue, Kinds
    <3> QED BY <1>1, <2>3, <3>1, <3>2 DEF IInv, TypeOK
  <2>5. In("spawned")' = In("spawned")
    BY <2>2, <2>4 DEF In
  <2>6. NoIdleCapacity'
    BY <1>3, <2>3, <2>5, StaysBusy
  <2>7. Opening'
    BY <2>2, <2>4 DEF Opening, Free
  <2> QED BY <2>6, <2>7
<1> QED BY <1>2, <1>3

LEMMA StepOpens ==
    ASSUME OneConnects, IInv, Opening, NoIdleCapacity, Next
    PROVE  Opening' /\ NoIdleCapacity'
<1>1. /\ IsFiniteSet(In("spawned")) /\ Cardinality(In("spawned")) \in Nat
      /\ current \in 0..Max /\ Max \in Nat /\ co_pool \in Seq(Procs)
      /\ \A p \in Procs : pc[p] # "spawned" => In("spawned") \ {p} = In("spawned")
  BY Coroutines, MaxAssumption DEF In, IInv, TypeOK
<1>2. ASSUME NEW c \in Clients, NEW kind \in {"connect", "query", "transaction"},
             Start(c, kind), INITIALIZATION => kind # "connect", ~INITIALIZATION => c \in Connectors
      PROVE  Opening' /\ NoIdleCapacity'
  <2>1. /\ c \in Procs /\ kind \in Kinds /\ pc[c] # "spawned" /\ INITIALIZATION' = INITIALIZATION
        /\ pop_db(c, kind, current, co_pool)
    BY <1>2, Coroutines DEF Start, Free, Kinds
  <2>2. Opening'
    BY <1>2, <2>1, PopOpens
  <2>3. co_pool # <<>> => current + 1 + Cardinality(In("spawned") \ {c}) >= Max
    <3>1. Cardinality(In("spawned") \ {c}) = Cardinality(In("spawned"))
      BY <1>1, <2>1
    <3> QED BY <1>1, <3>1 DEF NoIdleCapacity
  <2> QED BY <1>1, <2>1, <2>2, <2>3, PopLeavesNone
<1>3. ASSUME NEW c \in Connectors, Connect(c) PROVE Opening' /\ NoIdleCapacity'
  BY <1>2, <1>3, ConnectorsAssumption DEF Connect
<1>4. ASSUME NEW c \in Clients, Query(c) \/ Transaction(c) \/ Command(c) PROVE Opening' /\ NoIdleCapacity'
  BY <1>2, <1>4 DEF Query, Transaction, Command
<1>5. ASSUME NEW p \in Procs, Created(p) PROVE Opening' /\ NoIdleCapacity'
  <2>1. /\ pc[p] = "creating" /\ op[p] \in Kinds /\ pc' = [pc EXCEPT ![p] = Continue(op[p])]
        /\ op' = op /\ INITIALIZATION' = INITIALIZATION
        /\ current' = current /\ co_pool' = co_pool /\ pool' = pool
    BY <1>5 DEF Created, IInv, Places, TypeOK, Kinds
  <2>2. /\ pc'[p] \notin Free \union {"spawned"} /\ \A q \in Procs \ {p} : pc'[q] = pc[q]
    BY <2>1 DEF IInv, TypeOK, Continue, Kinds, Free
  <2>3. In("spawned")' = In("spawned")
    BY <2>1, <2>2 DEF In
  <2>4. Opening'
    BY <2>1, <2>2 DEF Opening, Free
  <2> QED BY <2>1, <2>3, <2>4, StaysBusy
<1>6. ASSUME NEW p \in Procs, CreateRaises(p) PROVE Opening' /\ NoIdleCapacity'
  <2>1. /\ pc[p] = "creating" /\ pc' = [pc EXCEPT ![p] = "failed"]
        /\ op' = op /\ INITIALIZATION' = INITIALIZATION
        /\ current' = current /\ co_pool' = co_pool /\ pool' = pool
    BY <1>6 DEF CreateRaises
  <2>2. pc'[p] = "failed" /\ \A q \in Procs \ {p} : pc'[q] = pc[q]
    BY <2>1 DEF IInv, TypeOK
  <2>3. In("spawned")' = In("spawned")
    BY <2>1, <2>2 DEF In
  <2>4. Opening'
    BY <2>1, <2>2 DEF Opening, Free
  <2> QED BY <2>1, <2>3, <2>4, StaysBusy
<1>7. ASSUME NEW c \in Clients, Connected(c) PROVE Opening' /\ NoIdleCapacity'
  <2>1. /\ c \in Procs /\ pc[c] = "connected" /\ pc' = [pc EXCEPT ![c] = "idle"]
        /\ op' = op /\ INITIALIZATION' = TRUE /\ co_pool' = co_pool
    BY <1>7, Coroutines DEF Connected
  <2>2. pc'[c] = "idle" /\ \A q \in Procs \ {c} : pc'[q] = pc[q]
    BY <2>1 DEF IInv, TypeOK
  <2>3. op[c] = "connect" /\ ~INITIALIZATION
    BY <2>1 DEF IInv, Places, Opening
  <2>4. \A q \in Procs \ {c} : pc[q] \in Free
    BY <2>1, <2>3 DEF Opening, OneConnects, Free
  <2>5. Opening'
    BY <2>1, <2>2, <2>4 DEF Opening, Free
  <2>6. co_pool = <<>>
    <3>1. Elements(co_pool) \subseteq Procs /\ \A q \in Elements(co_pool) : pc[q] = "waiting"
      BY <1>1, EmptyStack DEF IInv, Waiters
    <3>2. Elements(co_pool) = {}
      BY <2>1, <2>4, <3>1 DEF Free
    <3> QED BY <1>1, <3>2, EmptyStack
  <2> QED BY <2>1, <2>5, <2>6 DEF NoIdleCapacity
<1>8. ASSUME NEW c \in Clients, QueryDone(c) \/ Finished(c) \/ RolledBack(c) PROVE Opening' /\ NoIdleCapacity'
  BY <1>8, ReleaseBusy DEF QueryDone, Finished, RolledBack
<1>9. ASSUME NEW c \in Clients, Began(c) \/ RollBack(c) \/ LoseInBody(c) PROVE Opening' /\ NoIdleCapacity'
  <2>1. /\ c \in Procs /\ pc[c] \in {"begin", "body"}
        /\ pc' = [pc EXCEPT ![c] = "body"] \/ pc' = [pc EXCEPT ![c] = "rollback"]
        /\ op' = op /\ INITIALIZATION' = INITIALIZATION
        /\ current' = current /\ co_pool' = co_pool /\ pool' = pool
    BY <1>9, Coroutines DEF Began, RollBack, LoseInBody, IInv, TypeOK
  <2>2. pc'[c] \in {"body", "rollback"} /\ \A q \in Procs \ {c} : pc'[q] = pc[q]
    BY <2>1 DEF IInv, TypeOK
  <2>3. In("spawned")' = In("spawned")
    BY <2>1, <2>2 DEF In
  <2>4. Opening'
    BY <2>1, <2>2 DEF Opening, Free
  <2> QED BY <2>1, <2>3, <2>4, StaysBusy
<1>10. ASSUME NEW c \in Clients, Retry(c) \/ RetryCommand(c) PROVE Opening' /\ NoIdleCapacity'
  <2>1. /\ c \in Procs /\ pc[c] \in {"query", "begin"} /\ INITIALIZATION' = INITIALIZATION
        /\ op[c] \in {"query", "transaction"} /\ c \in Holders
    BY <1>10, Coroutines DEF Retry, RetryCommand, IInv, Places, Holders, Hold
  <2>2. INITIALIZATION \/ c \in Connectors
    BY <2>1 DEF Opening, Free
  <2>3. PICK cur \in 0..Max, kind \in {"query", "transaction"} :
          pop_db(c, kind, cur, co_pool) /\ cur >= current - 1
    <3>1. current - 1 \in 0..Max /\ current >= current - 1 /\ current - 1 >= current - 1
      <4>1. current - 1 \in 0..Max
        BY <2>1, HoldersWithout
      <4> QED BY <1>1, <4>1
    <3> QED BY <1>1, <1>10, <2>1, <3>1 DEF Retry, RetryCommand
  <2>4. Opening'
    BY <2>1, <2>2, <2>3, PopOpens
  <2>5. co_pool # <<>> => cur + 1 + Cardinality(In("spawned") \ {c}) >= Max
    <3>1. Cardinality(In("spawned") \ {c}) = Cardinality(In("spawned"))
      BY <1>1, <2>1
    <3> QED BY <1>1, <2>3, <3>1 DEF NoIdleCapacity
  <2> QED BY <2>1, <2>3, <2>4, <2>5, PopLeavesNone DEF Kinds
<1>11. ASSUME NEW c \in Clients, RaisedAlone(c) PROVE Opening' /\ NoIdleCapacity'
  <2>1. /\ c \in Procs /\ pc' = [pc EXCEPT ![c] = "idle"] /\ op' = op /\ INITIALIZATION' = INITIALIZATION
        /\ co_pool' = <<>>
    BY <1>11, Coroutines DEF RaisedAlone, Raised
  <2>2. pc'[c] = "idle" /\ \A q \in Procs \ {c} : pc'[q] = pc[q]
    BY <2>1 DEF IInv, TypeOK
  <2> QED BY <2>1, <2>2 DEF Opening, Free, NoIdleCapacity
<1>12. ASSUME NEW c \in Clients, RaisedInline(c) PROVE Opening' /\ NoIdleCapacity'
  <2>1. /\ c \in Procs /\ pc[c] = "body" /\ INITIALIZATION' = INITIALIZATION /\ c \in Holders
        /\ "handover" \in Kinds /\ co_pool # <<>>
    BY <1>12, Coroutines DEF RaisedInline, Raised, IInv, Places, Holders, Hold, Kinds
  <2>2. INITIALIZATION \/ c \in Connectors
    BY <2>1 DEF Opening, Free
  <2>3. PICK cur \in 0..Max : cur = current - 1
    BY <2>1, HoldersWithout
  <2>4. PICK rest : rest = Pop(co_pool)
    OBVIOUS
  <2>5. pop_db(c, "handover", cur, rest)
    BY <1>12, <2>3, <2>4 DEF RaisedInline
  <2>6. Opening'
    BY <2>1, <2>2, <2>5, PopOpens
  <2>7. co_pool # <<>> => cur + 1 + Cardinality(In("spawned") \ {c}) >= Max
    <3>1. Cardinality(In("spawned") \ {c}) = Cardinality(In("spawned"))
      BY <1>1, <2>1
    <3> QED BY <1>1, <2>3, <3>1 DEF NoIdleCapacity
  <2> QED BY <2>1, <2>5, <2>6, <2>7, PopLeavesNone
<1>13. ASSUME NEW c \in Clients, RaisedSpawn(c) PROVE Opening' /\ NoIdleCapacity'
  <2>1. /\ c \in Procs /\ pc[c] = "body" /\ op' = op /\ INITIALIZATION' = INITIALIZATION
        /\ co_pool # <<>> /\ pool' = pool /\ current' = current - 1
        /\ pc' = [pc EXCEPT ![c] = "idle", ![Helper[c]] = "spawned"]
    BY <1>13, Coroutines DEF RaisedSpawn, Raised
  <2>2. PICK h \in Procs : h = Helper[c] /\ h # c /\ pc[h] \in Free
    BY <2>1, Coroutines DEF IInv, Roles, Free
  <2>3. /\ pc'[c] = "idle" /\ pc'[h] = "spawned"
        /\ \A q \in Procs \ {c, h} : pc'[q] = pc[q]
    BY <2>1, <2>2 DEF IInv, TypeOK
  <2>4. Opening'
    <3>1. INITIALIZATION
      <4>1. SUFFICES ASSUME ~INITIALIZATION PROVE FALSE
        OBVIOUS
      <4>2. Elements(co_pool) \subseteq Procs /\ \A q \in Elements(co_pool) : pc[q] = "waiting"
        BY <1>1, EmptyStack DEF IInv, Waiters
      <4>3. PICK q \in Elements(co_pool) : TRUE
        BY <1>1, <2>1, EmptyStack
      <4>4. q \in Connectors /\ c \in Connectors /\ q # c
        BY <2>1, <4>1, <4>2, <4>3 DEF Opening, Free
      <4> QED BY <4>4 DEF OneConnects
    <3> QED BY <2>1, <2>3, <3>1 DEF Opening
  <2>5. In("spawned")' = In("spawned") \union {h} /\ h \notin In("spawned")
    BY <2>1, <2>2, <2>3 DEF In, Free
  <2>6. Cardinality(In("spawned"))' = Cardinality(In("spawned")) + 1
    BY <1>1, <2>5, SetGrows
  <2> QED BY <1>1, <2>1, <2>4, <2>6 DEF NoIdleCapacity
<1>14. ASSUME NEW h \in Helpers, HelperRuns(h) PROVE Opening' /\ NoIdleCapacity'
  <2>1. /\ h \in Procs /\ pc[h] = "spawned" /\ INITIALIZATION' = INITIALIZATION
        /\ "handover" \in Kinds /\ pop_db(h, "handover", current, co_pool)
    BY <1>14, Coroutines DEF HelperRuns, Kinds
  <2>2. INITIALIZATION \/ h \in Connectors
    BY <2>1 DEF Opening, Free
  <2>3. Opening'
    BY <2>1, <2>2, PopOpens
  <2>4. co_pool # <<>> => current + 1 + Cardinality(In("spawned") \ {h}) >= Max
    <3>1. /\ Cardinality(In("spawned")) = Cardinality(In("spawned") \ {h}) + 1
          /\ Cardinality(In("spawned") \ {h}) \in Nat
      BY <1>1, <2>1, SetShrinks DEF In
    <3> QED BY <1>1, <3>1 DEF NoIdleCapacity
  <2> QED BY <1>1, <2>1, <2>3, <2>4, PopLeavesNone
<1>15. ASSUME NEW p \in Procs, HandOver(p) PROVE Opening' /\ NoIdleCapacity'
  <2>1. /\ pc[p] = "handover" /\ target[p] \in Procs /\ pc[target[p]] = "waiting"
    BY <1>15 DEF HandOver, IInv, Places, Serves, Waiters, TypeOK
  <2>2. PICK w \in Procs : w = target[p]
    BY <2>1
  <2>3. /\ pc' = [pc EXCEPT ![p] = "idle", ![w] = Continue(op[w])] /\ op' = op
        /\ INITIALIZATION' = INITIALIZATION /\ current' = current /\ co_pool' = co_pool /\ pool' = pool
    BY <1>15, <2>2 DEF HandOver
  <2>4. op[w] \in Kinds /\ p # w
    BY <2>1, <2>2 DEF IInv, Places, TypeOK, Kinds
  <2>5. /\ pc'[p] = "idle" /\ pc'[w] = Continue(op[w]) /\ pc'[w] # "spawned"
        /\ \A q \in Procs \ {p, w} : pc'[q] = pc[q]
    <3>1. Continue(op[w]) # "spawned"
      BY <2>4 DEF Continue, Kinds
    <3> QED BY <2>3, <2>4, <3>1 DEF IInv, TypeOK
  <2>6. In("spawned")' = In("spawned")
    BY <2>1, <2>2, <2>5 DEF In
  <2>7. Opening'
    BY <2>1, <2>2, <2>3, <2>5 DEF Opening, Free
  <2> QED BY <2>3, <2>6, <2>7, StaysBusy
<1> QED BY <1>3, <1>4, <1>5, <1>6, <1>7, <1>8, <1>9, <1>10, <1>11, <1>12, <1>13, <1>14, <1>15 DEF Next

\* Nobody waits while a connection is idle or may be opened - if only one
\* coroutine calls connect, whose end wakes nobody.
THEOREM NothingIdles ==
    ASSUME OneConnects
    PROVE  Spec => []NoIdleCapacity
<1>1. Init => Opening /\ NoIdleCapacity
  BY DEF Init, Opening, NoIdleCapacity, Free
<1>2. IInv /\ Opening /\ NoIdleCapacity /\ [Next]_vars => (Opening /\ NoIdleCapacity)'
  <2>1. CASE Next
    BY <2>1, StepOpens
  <2>2. CASE UNCHANGED vars
    BY <2>2 DEF vars, Opening, NoIdleCapacity, In
  <2> QED BY <2>1, <2>2
<1>3. SafeSpec => [](Opening /\ NoIdleCapacity)
  BY <1>1, <1>2, InvariantHolds, PTL DEF SafeSpec
<1> QED BY <1>3, PTL DEF Spec
=============================================================================
