--------------------------- MODULE CodecProofs ---------------------------
(***************************************************************************)
(* Proofs about the codecs: the hash table of protobuf is a map and its    *)
(* table of names keeps the names, for any keys, values, hashes and sizes; *)
(* the keys of lpeg's trees stay right however their tables are joined;    *)
(* des_decode takes back what des_encode did, for every block and all      *)
(* subkeys; the instances of lcjson keep their own buffers and settings in *)
(* their ranges; and the levels of pb.slice stay within one another.       *)
(***************************************************************************)
EXTENDS PbTable, KTable, PbNames, Des, JsonConfig, PbSlice, SequenceTheorems, FiniteSetTheorems, WellFoundedInduction, TLAPS

-----------------------------------------------------------------------------
(* The inductive invariant. *)

Entries(n) == [key : Nat, next : 0..(n - 1), value : PbValues \union {NULL}]

Formed(t) ==
    /\ t = [size |-> t.size, lastfree |-> t.lastfree, zero |-> t.zero, hash |-> t.hash]
    /\ t.size \in Nat /\ t.lastfree \in Nat /\ t.zero \in BOOLEAN
    /\ t.hash \in [Slots(t) -> Entries(t.size)]
    /\ IF t.size = 0 THEN ~t.zero ELSE t.size >= MinSize /\ t.lastfree \in 1..t.size

\* Chains have no cycles: there is a number for each slot that grows along them.
Ranked(t) ==
    \E rank \in [Slots(t) -> Nat] :
        \A i \in Slots(t) : t.hash[i].next # 0 => rank[i] < rank[t.hash[i].next]

\* A slot follows one other at most, and none that is below lastfree.
Chained(t) ==
    /\ Ranked(t)
    /\ \A i, j \in Slots(t) : t.hash[i].next = t.hash[j].next /\ t.hash[i].next # 0 => i = j
    /\ \A i \in Slots(t) : t.hash[i].next # 0 => t.hash[i].next >= t.lastfree
    /\ 0 \in Slots(t) => t.hash[0].next = 0

\* A key is in one slot, on the chain of its main position; and what is not in its own main
\* position is in that of none.
IsAway(t, i) == t.hash[i].key # 0 /\ pbT_hash(t, t.hash[i].key) # i
Placed(t) ==
    /\ \A i, j \in Slots(t) : t.hash[i].key = t.hash[j].key /\ t.hash[i].key # 0 => i = j
    /\ \A i \in Slots(t) : t.hash[i].key # 0 => i \in Chain(t, pbT_hash(t, t.hash[i].key))
    /\ \A i, j \in Slots(t) : IsAway(t, i) /\ t.hash[j].key # 0 => pbT_hash(t, t.hash[j].key) # i
    /\ \A i \in Slots(t) : t.hash[i].key = 0 /\ (i # 0 \/ ~t.zero) => t.hash[i].value = NULL
    /\ 0 \in Slots(t) => t.hash[0].key = 0

Good(t) == Formed(t) /\ Chained(t) /\ Placed(t)

\* No slot that is not free any more is without a key.
NoHoles(t) == \A i \in Slots(t) \ {0} : i >= t.lastfree \/ t.hash[i].next # 0 => t.hash[i].key # 0

\* What a table holds.
Has(t, k, v) == \E i \in Slots(t) : k # 0 /\ t.hash[i].key = k /\ t.hash[i].value = v
ZeroOf(t) == IF t.zero THEN t.hash[0].value ELSE NULL

Holds ==
    /\ held \in [PbKeys -> PbValues \union {NULL}]
    /\ \A k \in PbKeys \ {0} : held[k] # NULL => Has(table, k, held[k])
    /\ \A k, v : Has(table, k, v) => k \in PbKeys /\ v = held[k] /\ v # NULL
    /\ ZeroOf(table) = IF 0 \in PbKeys THEN held[0] ELSE NULL

TIInv == Good(table) /\ Holds

-----------------------------------------------------------------------------
(* Numbers. *)

\* A set of numbers has its least one.
LEMMA LeastExists ==
    ASSUME NEW S, S \subseteq Nat, S # {}
    PROVE  \E x \in S : \A y \in S : x <= y
<1> DEFINE R == OpToRel(<, Nat)
<1>1. IsWellFoundedOn(R, Nat)
  BY NatLessThanWellFounded
<1>2. \A x, y \in Nat : y < x => <<y, x>> \in R
  BY DEF OpToRel
<1> HIDE DEF R
<1>3. PICK x \in S : \A y \in S : <<y, x>> \notin R
  BY <1>1, WFMin
<1>4. \A y \in S : x <= y
  <2> SUFFICES ASSUME NEW y \in S PROVE x <= y
    OBVIOUS
  <2>1. ~(y < x)
    BY <1>2, <1>3
  <2> QED BY <2>1
<1> QED BY <1>4

\* So one with an upper bound has its greatest.
LEMMA GreatestExists ==
    ASSUME NEW S, NEW n \in Nat, S \subseteq 0..n, S # {}
    PROVE  Max(S) \in S /\ \A y \in S : Max(S) >= y
<1> DEFINE T == {n - x : x \in S}
<1>1. T \subseteq Nat /\ T # {}
  <2>1. \A x \in S : x \in 0..n /\ n - x \in Nat
    OBVIOUS
  <2>2. PICK x \in S : TRUE
    OBVIOUS
  <2>3. n - x \in T
    OBVIOUS
  <2> QED BY <2>1, <2>3
<1>2. PICK y \in T : \A z \in T : y <= z
  BY <1>1, LeastExists
<1>3. PICK x \in S : y = n - x
  OBVIOUS
<1>4. \A z \in S : x >= z
  <2> SUFFICES ASSUME NEW z \in S PROVE x >= z
    OBVIOUS
  <2>1. n - z \in T
    OBVIOUS
  <2>2. n - x <= n - z /\ x \in 0..n /\ z \in 0..n
    BY <1>2, <1>3, <2>1
  <2> QED BY <2>2
<1> QED BY <1>4 DEF Max

\* More than k numbers are not all different if they are 1..k.
Within(f, n, k) == \A i \in 1..n : f[i] \in 1..k
Meets(f, n) == \E i, j \in 1..n : i # j /\ f[i] = f[j]

LEMMA Pigeons ==
    ASSUME NEW n \in Nat, NEW k \in Nat, k < n, NEW f, Within(f, n, k)
    PROVE  Meets(f, n)
<1> DEFINE g == [i \in 1..n |-> f[i]]
<1>1. /\ IsFiniteSet(1..n) /\ Cardinality(1..n) = n
      /\ IsFiniteSet(1..k) /\ Cardinality(1..k) = k
  <2>1. \A m \in Nat : (IF 1 > m THEN 0 ELSE m - 1 + 1) = m
    OBVIOUS
  <2>2. \A m \in Nat : IsFiniteSet(1..m) /\ Cardinality(1..m) = IF 1 > m THEN 0 ELSE m - 1 + 1
    <3> SUFFICES ASSUME NEW m \in Nat
                 PROVE  IsFiniteSet(1..m) /\ Cardinality(1..m) = IF 1 > m THEN 0 ELSE m - 1 + 1
      OBVIOUS
    <3>1. 1 \in Int /\ m \in Int
      OBVIOUS
    <3> QED BY <3>1, FS_Interval, Zenon
  <2> QED BY <2>1, <2>2
<1>2. g \in [1..n -> 1..k]
  BY DEF Within
<1> HIDE DEF g
<1>3. PICK i, j \in 1..n : i # j /\ g[i] = g[j]
  BY <1>1, <1>2, FS_PigeonHole
<1> QED BY <1>3 DEF g, Meets

-----------------------------------------------------------------------------
(* Chains.  The function of a walk exists: there would be a least number of steps up to     *)
(* which it does not.                                                                       *)

IsWalk(at, t, i, k) == at = [n \in 0..k |-> IF n = 0 THEN i ELSE Next_(t, at[n - 1])]

LEMMA WalkExists ==
    ASSUME NEW t, NEW i, NEW k \in Nat
    PROVE  \E at : IsWalk(at, t, i, k)
<1> DEFINE Bad == {j \in Nat : ~ \E at : IsWalk(at, t, i, j)}
<1>1. SUFFICES ASSUME Bad # {} PROVE FALSE
  OBVIOUS
<1>2. PICK j \in Bad : \A b \in Bad : j <= b
  BY <1>1, LeastExists
<1>3. j # 0
  <2> DEFINE e == [n \in 0..0 |-> i]
  <2>1. e = [n \in 0..0 |-> IF n = 0 THEN i ELSE Next_(t, e[n - 1])]
    OBVIOUS
  <2> QED BY <2>1 DEF IsWalk
<1>4. PICK f : IsWalk(f, t, i, j - 1)
  <2>1. j - 1 \in Nat /\ j - 1 \notin Bad
    BY <1>2, <1>3
  <2> QED BY <2>1
<1> DEFINE g == [n \in 0..j |-> IF n = 0 THEN i ELSE Next_(t, f[n - 1])]
<1>5. \A n \in 0..(j - 1) : g[n] = f[n]
  <2> SUFFICES ASSUME NEW n \in 0..(j - 1) PROVE g[n] = f[n]
    OBVIOUS
  <2>1. f[n] = IF n = 0 THEN i ELSE Next_(t, f[n - 1])
    BY <1>4 DEF IsWalk
  <2>2. n \in 0..j
    BY <1>2
  <2> QED BY <2>1, <2>2
<1>6. \A n \in 0..j : n # 0 => n - 1 \in 0..(j - 1)
  BY <1>2
<1>7. \A n \in 0..j : g[n] = IF n = 0 THEN i ELSE Next_(t, g[n - 1])
  <2> SUFFICES ASSUME NEW n \in 0..j PROVE g[n] = IF n = 0 THEN i ELSE Next_(t, g[n - 1])
    OBVIOUS
  <2>1. n # 0 => g[n - 1] = f[n - 1]
    BY <1>5, <1>6
  <2> QED BY <2>1
<1>8. IsWalk(g, t, i, j)
  <2> DEFINE h == [n \in 0..j |-> IF n = 0 THEN i ELSE Next_(t, g[n - 1])]
  <2>1. \A n \in 0..j : g[n] = h[n]
    BY <1>7
  <2>2. g = [n \in 0..j |-> g[n]] /\ h = [n \in 0..j |-> h[n]]
    OBVIOUS
  <2> HIDE DEF g, h
  <2>3. g = h
    BY <2>1, <2>2
  <2> QED BY <2>3 DEF IsWalk, h
<1> QED BY <1>2, <1>8

LEMMA WalkSteps ==
    ASSUME NEW t, t.size \in Nat, NEW i
    PROVE  /\ Walk(t, i)[0] = i
           /\ \A n \in 1..t.size : Walk(t, i)[n] = Next_(t, Walk(t, i)[n - 1])
<1> DEFINE w == CHOOSE at : IsWalk(at, t, i, t.size)
<1>1. IsWalk(w, t, i, t.size)
  BY WalkExists
<1>2. Walk(t, i) = w
  BY DEF Walk, IsWalk
<1> HIDE DEF w
<1>3. w[0] = i
  BY <1>1 DEF IsWalk
<1>4. \A n \in 1..t.size : w[n] = Next_(t, w[n - 1])
  BY <1>1 DEF IsWalk
<1> QED BY <1>2, <1>3, <1>4

LEMMA NextTyped ==
    ASSUME NEW t, Formed(t), NEW i \in Slots(t)
    PROVE  Next_(t, i) \in Slots(t) /\ t.hash[i].next \in Slots(t)
BY DEF Formed, Slots, Entries, Next_

\* A chain stays within what contains its first slot and the next one of each.
LEMMA ChainWithin ==
    ASSUME NEW t, Formed(t), NEW i \in Slots(t), NEW S, i \in S,
           \A x \in S \intersect Slots(t) : t.hash[x].next # 0 => t.hash[x].next \in S
    PROVE  Chain(t, i) \subseteq S \intersect Slots(t)
<1> DEFINE Bad == {n \in 0..t.size : Walk(t, i)[n] \notin S \intersect Slots(t)}
<1>0. t.size \in Nat
  BY DEF Formed
<1>1. SUFFICES ASSUME Bad # {} PROVE FALSE
  BY DEF Chain
<1>2. PICK n \in Bad : \A m \in Bad : n <= m
  <2>1. Bad \subseteq Nat
    OBVIOUS
  <2> QED BY <1>1, <2>1, LeastExists
<1>3. n # 0
  BY <1>0, WalkSteps
<1>4. n \in 1..t.size /\ n - 1 \in 0..t.size /\ n - 1 \notin Bad
  BY <1>0, <1>2, <1>3
<1>5. Walk(t, i)[n - 1] \in S \intersect Slots(t)
  BY <1>4
<1>6. Walk(t, i)[n] = Next_(t, Walk(t, i)[n - 1])
  BY <1>0, <1>4, WalkSteps
<1>7. Next_(t, Walk(t, i)[n - 1]) \in S \intersect Slots(t)
  <2>1. PICK x \in S \intersect Slots(t) : x = Walk(t, i)[n - 1]
    BY <1>5
  <2>2. Next_(t, x) \in S \intersect Slots(t)
    BY NextTyped DEF Next_
  <2> QED BY <2>1, <2>2
<1> QED BY <1>2, <1>6, <1>7

LEMMA ChainSlots ==
    ASSUME NEW t, Formed(t), NEW i \in Slots(t)
    PROVE  Chain(t, i) \subseteq Slots(t) /\ i \in Chain(t, i)
<1>1. Chain(t, i) \subseteq Slots(t) \intersect Slots(t)
  <2>1. \A x \in Slots(t) \intersect Slots(t) : t.hash[x].next # 0 => t.hash[x].next \in Slots(t)
    BY NextTyped
  <2> QED BY <2>1, ChainWithin
<1>2. i \in Chain(t, i)
  <2>1. t.size \in Nat
    BY DEF Formed
  <2>2. 0 \in 0..t.size /\ Walk(t, i)[0] = i
    BY <2>1, WalkSteps
  <2> QED BY <2>2 DEF Chain
<1> QED BY <1>1, <1>2

\* It has an end: with no cycle there are fewer slots than a walk has steps.
LEMMA ChainGoesOn ==
    ASSUME NEW t, Formed(t), Ranked(t), NEW i \in Slots(t), NEW x \in Chain(t, i), t.hash[x].next # 0
    PROVE  t.hash[x].next \in Chain(t, i)
<1> DEFINE w == Walk(t, i)
           N == t.size
<1>0. N \in Nat /\ N > 0
  BY DEF Formed, Slots
<1>1. \A n \in 0..N : w[n] \in Slots(t)
  BY ChainSlots DEF Chain
<1>2. \A n \in 1..N : w[n] = Next_(t, w[n - 1])
  BY <1>0, WalkSteps
<1>3. PICK rank \in [Slots(t) -> Nat] : \A y \in Slots(t) : t.hash[y].next # 0 => rank[y] < rank[t.hash[y].next]
  BY DEF Ranked
<1>4. PICK n \in 0..N : x = w[n]
  BY DEF Chain
<1> HIDE DEF w
<1>5. CASE n < N
  <2>1. n + 1 \in 1..N /\ (n + 1) - 1 = n
    BY <1>0, <1>5
  <2>2. w[n + 1] = Next_(t, w[n])
    BY <1>2, <2>1
  <2>3. w[n + 1] = t.hash[x].next /\ n + 1 \in 0..N
    BY <1>0, <1>4, <2>1, <2>2 DEF Next_
  <2> QED BY <2>3 DEF Chain, w
<1>6. CASE n = N
  \* No step before was one of the end: they are all different.
  <2>1. \A m \in 0..N : t.hash[w[m]].next # 0
    <3> DEFINE Over == {k \in 0..N : t.hash[w[N - k]].next = 0}
    <3>1. SUFFICES ASSUME Over # {} PROVE FALSE
      <4>1. \A m \in 0..N : N - m \in 0..N /\ N - (N - m) = m
        BY <1>0
      <4> QED BY <4>1
    <3>2. PICK k \in Over : \A b \in Over : k <= b
      <4>1. Over \subseteq Nat
        OBVIOUS
      <4> QED BY <3>1, <4>1, LeastExists
    <3>3. k # 0
      BY <1>0, <1>4, <1>6
    <3>4. k - 1 \in 0..N /\ k - 1 \notin Over /\ N - k + 1 \in 1..N /\ N - (k - 1) = N - k + 1 /\ (N - k + 1) - 1 = N - k
      BY <1>0, <3>2, <3>3
    <3>5. w[N - k + 1] = Next_(t, w[N - k])
      BY <1>2, <3>4
    <3>6. w[N - k + 1] = w[N - k]
      BY <3>5 DEF Next_
    <3> QED BY <3>4, <3>6
  <2>2. \A m \in 1..N : rank[w[m - 1]] < rank[w[m]]
    <3> SUFFICES ASSUME NEW m \in 1..N PROVE rank[w[m - 1]] < rank[w[m]]
      OBVIOUS
    <3>1. m - 1 \in 0..N /\ m \in 0..N
      BY <1>0
    <3>2. w[m] = t.hash[w[m - 1]].next
      BY <1>2, <2>1, <3>1 DEF Next_
    <3> QED BY <1>1, <1>3, <2>1, <3>1, <3>2
  <2>3. \A m \in 0..N : \A l \in 0..N : l < m => rank[w[l]] < rank[w[m]]
    <3> SUFFICES ASSUME NEW l \in 0..N, \E m \in 0..N : l < m /\ ~(rank[w[l]] < rank[w[m]]) PROVE FALSE
      OBVIOUS
    <3> DEFINE B == {m \in 0..N : l < m /\ ~(rank[w[l]] < rank[w[m]])}
    <3>1. PICK m \in B : \A b \in B : m <= b
      <4>1. B \subseteq Nat /\ B # {}
        OBVIOUS
      <4> QED BY <4>1, LeastExists
    <3>2. m \in 1..N /\ m - 1 \in 0..N
      BY <1>0, <3>1
    <3>3. rank[w[m - 1]] < rank[w[m]] /\ rank[w[m - 1]] \in Nat /\ rank[w[m]] \in Nat /\ rank[w[l]] \in Nat
      BY <1>1, <1>3, <2>2, <3>2
    <3>4. m - 1 # l => m - 1 \notin B /\ l < m - 1
      BY <1>0, <3>1, <3>2
    <3> QED BY <3>1, <3>2, <3>3, <3>4
  <2>4. \A m, l \in 0..N : m # l => w[m] # w[l]
    <3> SUFFICES ASSUME NEW m \in 0..N, NEW l \in 0..N, m # l PROVE w[m] # w[l]
      OBVIOUS
    <3>1. rank[w[m]] < rank[w[l]] \/ rank[w[l]] < rank[w[m]]
      BY <1>0, <2>3
    <3> QED BY <1>1, <1>3, <3>1
  <2> DEFINE f == [m \in 1..(N + 1) |-> w[m - 1] + 1]
  <2>5. \A m \in 1..(N + 1) : f[m] \in 1..N
    <3> SUFFICES ASSUME NEW m \in 1..(N + 1) PROVE f[m] \in 1..N
      OBVIOUS
    <3>1. m - 1 \in 0..N
      BY <1>0
    <3>2. w[m - 1] \in 0..(N - 1)
      BY <1>1, <3>1 DEF Slots
    <3> QED BY <1>0, <3>2
  <2>6. PICK a, b \in 1..(N + 1) : a # b /\ f[a] = f[b]
    <3>1. N + 1 \in Nat /\ N < N + 1
      BY <1>0
    <3>2. Within(f, N + 1, N)
      BY <2>5 DEF Within
    <3>3. Meets(f, N + 1)
      <4> HIDE DEF f, N
      <4> QED BY <1>0, <3>1, <3>2, Pigeons
    <3> QED BY <3>3 DEF Meets
  <2>7. a - 1 \in 0..N /\ b - 1 \in 0..N /\ a - 1 # b - 1
    BY <1>0, <2>6
  <2>8. w[a - 1] \in 0..(N - 1) /\ w[b - 1] \in 0..(N - 1)
    BY <1>1, <2>7 DEF Slots
  <2>9. w[a - 1] + 1 = w[b - 1] + 1
    BY <2>6
  <2> QED BY <1>0, <2>4, <2>7, <2>8, <2>9
<1> QED BY <1>0, <1>5, <1>6

-----------------------------------------------------------------------------
(* Main positions. *)

LEMMA HashRange ==
    ASSUME NEW t, t.size \in Nat, t.size >= 2, NEW key \in Nat
    PROVE  /\ pbT_hash(t, key) \in Slots(t)
           /\ key # 0 => pbT_hash(t, key) \in Slots(t) \ {0}
<1> DEFINE h == (key * Multiplier) % t.size
<1>1. key * Multiplier \in Nat
  <2>1. \A a, b \in Nat : a * b \in Nat
    OBVIOUS
  <2> QED BY <2>1, PbTableAssumption
<1>2. \A a \in Nat : \A b \in Nat : b >= 2 => a % b \in 0..(b - 1)
  OBVIOUS
<1>3. h \in 0..(t.size - 1)
  BY <1>1, <1>2
<1> HIDE DEF h
<1>4. pbT_hash(t, key) = IF key # 0 /\ h = 0 THEN 1 ELSE h
  BY DEF pbT_hash, h
<1> QED BY <1>3, <1>4 DEF Slots

LEMMA SizeIsTwo ==
    ASSUME NEW t, Formed(t), t.size # 0
    PROVE  /\ t.size \in Nat /\ t.size >= 2 /\ t.lastfree \in 1..t.size /\ 0 \in Slots(t)
           /\ \A i \in Slots(t) : t.hash[i].key \in Nat /\ t.hash[i].next \in Slots(t)
BY PbTableAssumption DEF Formed, Slots, Entries

LEMMA HashSame ==
    ASSUME NEW t, NEW u, t.size = u.size, NEW key
    PROVE  pbT_hash(t, key) = pbT_hash(u, key)
BY DEF pbT_hash

\* A slot that has none after it, and is after none, is a chain.
LEMMA ChainAlone ==
    ASSUME NEW t, Formed(t), NEW i \in Slots(t), t.hash[i].next = 0
    PROVE  Chain(t, i) \subseteq {i}
<1>1. \A x \in {i} \intersect Slots(t) : t.hash[x].next # 0 => t.hash[x].next \in {i}
  OBVIOUS
<1> QED BY <1>1, ChainWithin

\* Whatever else changes, chains are the same if the slots follow one another as before.
LEMMA SameNext ==
    ASSUME NEW t, Formed(t), Chained(t), NEW u, Formed(u), u.size = t.size, u.lastfree <= t.lastfree,
           \A i \in Slots(t) : u.hash[i].next = t.hash[i].next
    PROVE  Chained(u) /\ \A i \in Slots(t) : Chain(u, i) = Chain(t, i)
<1>1. Slots(u) = Slots(t)
  BY DEF Slots
<1>2. Chained(u)
  <2>1. Ranked(u)
    BY <1>1 DEF Chained, Ranked
  <2>2. \A i \in Slots(t) : u.hash[i].next # 0 => u.hash[i].next >= u.lastfree
    <3> SUFFICES ASSUME NEW i \in Slots(t), u.hash[i].next # 0 PROVE u.hash[i].next >= u.lastfree
      OBVIOUS
    <3>1. t.hash[i].next >= t.lastfree /\ t.hash[i].next \in Slots(t)
      BY NextTyped DEF Chained
    <3>2. t.size \in Nat /\ t.lastfree \in Nat /\ u.lastfree \in Nat
      BY DEF Formed
    <3> QED BY <3>1, <3>2 DEF Slots
  <2> QED BY <1>1, <2>1, <2>2 DEF Chained
<1>3. \A i \in Slots(t) : Chain(u, i) \subseteq Chain(t, i)
  <2> SUFFICES ASSUME NEW i \in Slots(t) PROVE Chain(u, i) \subseteq Chain(t, i)
    OBVIOUS
  <2>1. \A x \in Chain(t, i) \intersect Slots(u) : u.hash[x].next # 0 => u.hash[x].next \in Chain(t, i)
    BY <1>1, ChainGoesOn DEF Chained
  <2>2. i \in Chain(t, i)
    BY ChainSlots
  <2> QED BY <1>1, <2>1, <2>2, ChainWithin
<1>4. \A i \in Slots(t) : Chain(t, i) \subseteq Chain(u, i)
  <2> SUFFICES ASSUME NEW i \in Slots(t) PROVE Chain(t, i) \subseteq Chain(u, i)
    OBVIOUS
  <2>1. \A x \in Chain(u, i) \intersect Slots(t) : t.hash[x].next # 0 => t.hash[x].next \in Chain(u, i)
    <3> SUFFICES ASSUME NEW x \in Chain(u, i) \intersect Slots(t), t.hash[x].next # 0 PROVE t.hash[x].next \in Chain(u, i)
      OBVIOUS
    <3>1. u.hash[x].next # 0 /\ u.hash[x].next = t.hash[x].next
      OBVIOUS
    <3> QED BY <1>1, <1>2, <3>1, ChainGoesOn DEF Chained
  <2>2. i \in Chain(u, i)
    BY <1>1, ChainSlots
  <2> QED BY <1>1, <2>1, <2>2, ChainWithin
<1> QED BY <1>2, <1>3, <1>4

-----------------------------------------------------------------------------
(* One slot gets another key or value. *)

LEMMA EntryIs ==
    \A k, n, v : /\ EntryOf(k, n, v).key = k /\ EntryOf(k, n, v).next = n /\ EntryOf(k, n, v).value = v
                 /\ \A m : k \in Nat /\ n \in 0..(m - 1) /\ v \in PbValues \union {NULL} => EntryOf(k, n, v) \in Entries(m)
BY DEF EntryOf, Entries

LEMMA WriteIs ==
    ASSUME NEW t, Formed(t), NEW p \in Slots(t), NEW e \in Entries(t.size), NEW u, u = Write(t, p, e)
    PROVE  /\ Formed(u) /\ u.size = t.size /\ u.lastfree = t.lastfree /\ u.zero = t.zero
           /\ \A i \in Slots(t) : u.hash[i] = IF i = p THEN e ELSE t.hash[i]
<1>1. t.hash \in [Slots(t) -> Entries(t.size)]
  BY DEF Formed
<1> DEFINE h == [t.hash EXCEPT ![p] = e]
<1>2. u = [t EXCEPT !.hash = h]
  BY DEF Write
<1>3. h \in [Slots(t) -> Entries(t.size)] /\ \A i \in Slots(t) : h[i] = IF i = p THEN e ELSE t.hash[i]
  BY <1>1
<1> HIDE DEF h
<1>4. u = [size |-> t.size, lastfree |-> t.lastfree, zero |-> t.zero, hash |-> h]
  BY <1>2 DEF Formed
<1>5. u.size = t.size /\ u.lastfree = t.lastfree /\ u.zero = t.zero /\ u.hash = h
  BY <1>4
<1>6. Formed(u)
  BY <1>3, <1>4, <1>5 DEF Formed, Slots
<1> QED BY <1>3, <1>5, <1>6

LEMMA FieldIs ==
    ASSUME NEW t, Formed(t), t.size # 0, NEW f \in 1..t.size
    PROVE  /\ LET u == [t EXCEPT !.zero = TRUE] IN
              Formed(u) /\ u.size = t.size /\ u.lastfree = t.lastfree /\ u.zero = TRUE /\ u.hash = t.hash
           /\ LET u == [t EXCEPT !.lastfree = f] IN
              Formed(u) /\ u.size = t.size /\ u.lastfree = f /\ u.zero = t.zero /\ u.hash = t.hash
<1> DEFINE u == [t EXCEPT !.zero = TRUE]
           w == [t EXCEPT !.lastfree = f]
<1>1. /\ u = [size |-> t.size, lastfree |-> t.lastfree, zero |-> TRUE, hash |-> t.hash]
      /\ w = [size |-> t.size, lastfree |-> f, zero |-> t.zero, hash |-> t.hash]
  <2>1. t = [size |-> t.size, lastfree |-> t.lastfree, zero |-> t.zero, hash |-> t.hash]
    BY DEF Formed
  <2>2. \A x : [t EXCEPT !.zero = x] = [size |-> t.size, lastfree |-> t.lastfree, zero |-> x, hash |-> t.hash]
    BY <2>1
  <2>3. \A x : [t EXCEPT !.lastfree = x] = [size |-> t.size, lastfree |-> x, zero |-> t.zero, hash |-> t.hash]
    BY <2>1
  <2> QED BY <2>2, <2>3
<1> HIDE DEF u, w
<1>2. /\ u.size = t.size /\ u.lastfree = t.lastfree /\ u.zero = TRUE /\ u.hash = t.hash
      /\ w.size = t.size /\ w.lastfree = f /\ w.zero = t.zero /\ w.hash = t.hash
  BY <1>1
<1>3. Formed(u) /\ Formed(w)
  <2>1. f \in Nat
    OBVIOUS
  <2> QED BY <1>1, <1>2, <2>1 DEF Formed, Slots
<1> QED BY <1>2, <1>3 DEF u, w

\* u is t with k and v in slot p, in the same chain.
Rewritten(t, u, p, k, v) ==
    /\ Formed(u) /\ u.size = t.size /\ u.lastfree = t.lastfree
    /\ \A i \in Slots(t) : /\ u.hash[i].key = IF i = p THEN k ELSE t.hash[i].key
                           /\ u.hash[i].next = t.hash[i].next
                           /\ u.hash[i].value = IF i = p THEN v ELSE t.hash[i].value

LEMMA RewrittenGood ==
    ASSUME NEW t, Good(t), t.size # 0, NEW p \in Slots(t), NEW k \in Nat, NEW v,
           NEW u, Rewritten(t, u, p, k, v),
           t.zero => u.zero,
           k = 0 => v = NULL \/ (p = 0 /\ u.zero),
           k # 0 => /\ p # 0 /\ p \in Chain(t, pbT_hash(t, k))
                    /\ \A j \in Slots(t) \ {p} : t.hash[j].key # k
                    /\ t.hash[p].key = k \/ pbT_hash(t, k) = p
    PROVE  Good(u)
<1>1. /\ Formed(u) /\ u.size = t.size /\ u.lastfree = t.lastfree
      /\ \A i \in Slots(t) : /\ u.hash[i].key = IF i = p THEN k ELSE t.hash[i].key
                             /\ u.hash[i].next = t.hash[i].next
                             /\ u.hash[i].value = IF i = p THEN v ELSE t.hash[i].value
  BY DEF Rewritten
<1>2. Slots(u) = Slots(t) /\ \A key : pbT_hash(u, key) = pbT_hash(t, key)
  BY <1>1, HashSame DEF Slots
<1>3. Chained(u) /\ \A i \in Slots(t) : Chain(u, i) = Chain(t, i)
  <2>1. u.lastfree <= t.lastfree
    BY <1>1 DEF Good, Formed
  <2> QED BY <1>1, <2>1, SameNext DEF Good
<1>4. \A i \in Slots(t) : pbT_hash(t, t.hash[i].key) \in Slots(t)
  BY HashRange, SizeIsTwo DEF Good
<1>5. pbT_hash(t, k) \in Slots(t)
  BY HashRange, SizeIsTwo DEF Good
<1>6. \A i, j \in Slots(u) : u.hash[i].key = u.hash[j].key /\ u.hash[i].key # 0 => i = j
  BY <1>1, <1>2 DEF Good, Placed
<1>7. \A i \in Slots(u) : u.hash[i].key # 0 => i \in Chain(u, pbT_hash(u, u.hash[i].key))
  <2> SUFFICES ASSUME NEW i \in Slots(t), u.hash[i].key # 0 PROVE i \in Chain(t, pbT_hash(t, u.hash[i].key))
    BY <1>1, <1>2, <1>3, <1>4, <1>5
  <2> QED BY <1>1 DEF Good, Placed
<1>8. \A i, j \in Slots(u) : IsAway(u, i) /\ u.hash[j].key # 0 => pbT_hash(u, u.hash[j].key) # i
  BY <1>1, <1>2 DEF Good, Placed, IsAway
<1>9. \A i \in Slots(u) : u.hash[i].key = 0 /\ (i # 0 \/ ~u.zero) => u.hash[i].value = NULL
  BY <1>1, <1>2 DEF Good, Placed
<1>10. 0 \in Slots(u) => u.hash[0].key = 0
  BY <1>1, <1>2 DEF Good, Placed
<1> QED BY <1>1, <1>3, <1>6, <1>7, <1>8, <1>9, <1>10 DEF Good, Placed

-----------------------------------------------------------------------------
(* A new key. *)

Added(t, u, k, v) ==
    /\ Good(u) /\ u.size = t.size
    /\ NoHoles(t) => NoHoles(u)
    /\ \A j, w : Has(u, j, w) <=> Has(t, j, w) \/ (k # 0 /\ j = k /\ w = v)
    /\ ZeroOf(u) = IF k = 0 THEN v ELSE ZeroOf(t)

LEMMA ZeroAdded ==
    ASSUME NEW t, Good(t), t.size # 0, NEW v, NEW u, Rewritten(t, u, 0, 0, v), u.zero
    PROVE  Added(t, u, 0, v)
<1>1. 0 \in Slots(t)
  BY SizeIsTwo DEF Good
<1>2. /\ Formed(u) /\ u.size = t.size /\ u.lastfree = t.lastfree
      /\ \A i \in Slots(t) : /\ u.hash[i].key = IF i = 0 THEN 0 ELSE t.hash[i].key
                             /\ u.hash[i].next = t.hash[i].next
                             /\ u.hash[i].value = IF i = 0 THEN v ELSE t.hash[i].value
  BY DEF Rewritten
<1>3. Slots(u) = Slots(t)
  BY <1>2 DEF Slots
<1>4. Good(u)
  BY <1>1, RewrittenGood
<1>5. NoHoles(t) => NoHoles(u)
  BY <1>2, <1>3 DEF NoHoles
<1>6. \A j, w : Has(u, j, w) <=> Has(t, j, w)
  BY <1>1, <1>2, <1>3 DEF Has, Good, Placed
<1> QED BY <1>1, <1>2, <1>4, <1>5, <1>6 DEF Added, ZeroOf

LEMMA MainAdded ==
    ASSUME NEW t, Good(t), t.size # 0, NEW k \in Nat \ {0}, NEW v,
           \A j \in Slots(t) : t.hash[j].key # k, t.hash[pbT_hash(t, k)].key = 0,
           NEW u, Rewritten(t, u, pbT_hash(t, k), k, v), u.zero = t.zero
    PROVE  Added(t, u, k, v)
<1>1. pbT_hash(t, k) \in Slots(t) \ {0}
  BY HashRange, SizeIsTwo DEF Good
<1>2. PICK p \in Slots(t) \ {0} : p = pbT_hash(t, k)
  BY <1>1
<1>3. /\ Formed(u) /\ u.size = t.size /\ u.lastfree = t.lastfree
      /\ \A i \in Slots(t) : /\ u.hash[i].key = IF i = p THEN k ELSE t.hash[i].key
                             /\ u.hash[i].next = t.hash[i].next
                             /\ u.hash[i].value = IF i = p THEN v ELSE t.hash[i].value
  BY <1>2 DEF Rewritten
<1>4. Slots(u) = Slots(t) /\ 0 \in Slots(t)
  BY <1>3, SizeIsTwo DEF Slots, Good
<1>5. Good(u)
  <2>1. p \in Chain(t, p)
    BY ChainSlots DEF Good
  <2> QED BY <1>2, <2>1, RewrittenGood
<1>6. NoHoles(t) => NoHoles(u)
  BY <1>3, <1>4 DEF NoHoles
<1>7. \A j, w : Has(u, j, w) <=> Has(t, j, w) \/ (j = k /\ w = v)
  BY <1>2, <1>3, <1>4 DEF Has
<1> QED BY <1>2, <1>3, <1>4, <1>5, <1>6, <1>7 DEF Added, ZeroOf

\* A free slot is no main position, and comes after no other.
IsLastFree(t, f) == f \in FreeSlots(t) /\ \A x \in FreeSlots(t) : f >= x

LEMMA FreeIsApart ==
    ASSUME NEW t, Good(t), t.size # 0, NEW f \in FreeSlots(t)
    PROVE  /\ f \in Slots(t) \ {0} /\ f < t.lastfree /\ f \in 1..t.size
           /\ t.hash[f].key = 0 /\ t.hash[f].next = 0
           /\ \A i \in Slots(t) : t.hash[i].next # f
           /\ \A i \in Slots(t) : t.hash[i].key # 0 => pbT_hash(t, t.hash[i].key) # f
<1>1. t.size \in Nat /\ t.size >= 2 /\ t.lastfree \in 1..t.size
  BY SizeIsTwo DEF Good
<1>2. f \in Slots(t) \ {0} /\ f < t.lastfree /\ t.hash[f].key = 0 /\ t.hash[f].next = 0 /\ f \in 1..t.size
  BY <1>1 DEF FreeSlots, Slots
<1>3. \A i \in Slots(t) : t.hash[i].next # f
  <2> SUFFICES ASSUME NEW i \in Slots(t), t.hash[i].next = f PROVE FALSE
    OBVIOUS
  <2>1. t.hash[i].next >= t.lastfree
    BY <1>2 DEF Good, Chained
  <2> QED BY <1>1, <1>2, <2>1 DEF Slots
<1>4. \A i \in Slots(t) : t.hash[i].key # 0 => pbT_hash(t, t.hash[i].key) # f
  <2> SUFFICES ASSUME NEW i \in Slots(t), t.hash[i].key # 0, pbT_hash(t, t.hash[i].key) = f PROVE FALSE
    OBVIOUS
  <2>1. i \in Chain(t, f)
    BY DEF Good, Placed
  <2>2. i = f
    BY <1>2, <2>1, ChainAlone DEF Good
  <2> QED BY <1>2, <2>2
<1> QED BY <1>2, <1>3, <1>4

LEMMA MovedAdded ==
    ASSUME NEW t, Good(t), t.size # 0, NEW k \in Nat \ {0}, NEW v, \A j \in Slots(t) : t.hash[j].key # k,
           NEW mp, mp = pbT_hash(t, k), t.hash[mp].key # 0, pbT_hash(t, t.hash[mp].key) # mp,
           NEW f, IsLastFree(t, f), NEW above \in Slots(t), t.hash[above].next = mp,
           NEW u, Formed(u), u.size = t.size, u.lastfree = f, u.zero = t.zero,
           \A i \in Slots(t) :
              /\ u.hash[i].key = IF i = mp THEN k ELSE IF i = f THEN t.hash[mp].key ELSE t.hash[i].key
              /\ u.hash[i].next = IF i = mp THEN 0 ELSE IF i = f THEN t.hash[mp].next
                                  ELSE IF i = above THEN f ELSE t.hash[i].next
              /\ u.hash[i].value = IF i = mp THEN v ELSE IF i = f THEN t.hash[mp].value ELSE t.hash[i].value
    PROVE  Added(t, u, k, v)
<1>1. mp \in Slots(t) \ {0} /\ t.size \in Nat /\ t.size >= 2 /\ 0 \in Slots(t) /\ t.lastfree \in 1..t.size
  BY HashRange, SizeIsTwo DEF Good
<1>2. /\ f \in Slots(t) \ {0} /\ f < t.lastfree /\ f \in 1..t.size
      /\ t.hash[f].key = 0 /\ t.hash[f].next = 0
      /\ \A i \in Slots(t) : t.hash[i].next # f
      /\ \A i \in Slots(t) : t.hash[i].key # 0 => pbT_hash(t, t.hash[i].key) # f
  BY FreeIsApart DEF IsLastFree
<1>3. /\ Slots(u) = Slots(t) /\ \A key : pbT_hash(u, key) = pbT_hash(t, key)
      /\ \A i \in Slots(t) : t.hash[i].next \in Slots(t) /\ t.hash[i].key \in Nat
  BY HashSame, SizeIsTwo DEF Slots, Good
<1>4. PICK rank \in [Slots(t) -> Nat] : \A i \in Slots(t) : t.hash[i].next # 0 => rank[i] < rank[t.hash[i].next]
  BY DEF Good, Chained, Ranked
<1>5. f # mp /\ above # mp /\ above # f /\ above # 0
  <2>1. rank[above] < rank[mp]
    BY <1>1, <1>4
  <2>2. above # mp
    BY <1>1, <1>4, <2>1
  <2> QED BY <1>1, <1>2, <2>2 DEF Good, Chained
<1>6. \A i, j \in Slots(t) : t.hash[i].next = t.hash[j].next /\ t.hash[i].next # 0 => i = j
  BY DEF Good, Chained
<1>7. \A i \in Slots(t) : t.hash[i].next = mp => i = above
  BY <1>1, <1>6
<1>8. Chained(u)
  <2> DEFINE r == [i \in Slots(t) |-> IF i = f THEN rank[mp] ELSE rank[i]]
  <2>1. r \in [Slots(t) -> Nat]
    BY <1>1
  <2>2. \A i \in Slots(t) : u.hash[i].next # 0 => r[i] < r[u.hash[i].next]
    <3> SUFFICES ASSUME NEW i \in Slots(t), u.hash[i].next # 0 PROVE r[i] < r[u.hash[i].next]
      OBVIOUS
    <3>1. i # mp
      OBVIOUS
    <3>2. CASE i = f
      <4>1. u.hash[i].next = t.hash[mp].next /\ t.hash[mp].next # 0 /\ t.hash[mp].next # f
        BY <1>1, <1>2, <1>5, <3>2
      <4>2. rank[mp] < rank[t.hash[mp].next]
        BY <1>1, <1>4, <4>1
      <4> QED BY <1>1, <1>3, <3>2, <4>1, <4>2
    <3>3. CASE i = above
      <4>1. u.hash[i].next = f /\ rank[above] < rank[mp]
        BY <1>1, <1>4, <1>5, <3>3
      <4> QED BY <1>2, <1>5, <3>3, <4>1
    <3>4. CASE i # f /\ i # above
      <4>1. u.hash[i].next = t.hash[i].next /\ t.hash[i].next # f
        BY <1>2, <3>1, <3>4
      <4> QED BY <1>3, <1>4, <3>4, <4>1
    <3> QED BY <3>2, <3>3, <3>4
  <2>3. Ranked(u)
    BY <1>3, <2>1, <2>2 DEF Ranked
  <2>4. \A i, j \in Slots(t) : u.hash[i].next = u.hash[j].next /\ u.hash[i].next # 0 => i = j
    <3> SUFFICES ASSUME NEW i \in Slots(t), NEW j \in Slots(t), u.hash[i].next = u.hash[j].next, u.hash[i].next # 0
                 PROVE  i = j
      OBVIOUS
    <3>1. i # mp /\ j # mp
      OBVIOUS
    <3>0. t.hash[mp].next # f /\ t.hash[i].next # f /\ t.hash[j].next # f
      BY <1>1, <1>2
    <3>2. u.hash[i].next = f => i = above
      BY <3>0, <3>1
    <3>3. u.hash[j].next = f => j = above
      BY <3>0, <3>1
    <3>4. CASE u.hash[i].next = f
      BY <3>2, <3>3, <3>4
    <3>5. CASE u.hash[i].next # f
      <4>1. u.hash[i].next = t.hash[IF i = f THEN mp ELSE i].next
        BY <3>1, <3>5
      <4>2. u.hash[j].next = t.hash[IF j = f THEN mp ELSE j].next
        BY <3>1, <3>5
      <4>3. (IF i = f THEN mp ELSE i) = (IF j = f THEN mp ELSE j)
        <5>1. PICK a \in Slots(t) : a = IF i = f THEN mp ELSE i
          BY <1>1
        <5>2. PICK b \in Slots(t) : b = IF j = f THEN mp ELSE j
          BY <1>1
        <5>3. t.hash[a].next = t.hash[b].next /\ t.hash[a].next # 0
          BY <4>1, <4>2, <5>1, <5>2
        <5> QED BY <1>6, <5>1, <5>2, <5>3
      <4> QED BY <1>5, <3>1, <4>3
    <3> QED BY <3>4, <3>5
  <2>5. \A i \in Slots(t) : u.hash[i].next # 0 => u.hash[i].next >= f
    <3> SUFFICES ASSUME NEW i \in Slots(t), u.hash[i].next # 0, u.hash[i].next # f PROVE u.hash[i].next >= f
      BY <1>2
    <3>1. PICK j \in Slots(t) : u.hash[i].next = t.hash[j].next
      BY <1>1
    <3>2. t.hash[j].next >= t.lastfree /\ t.hash[j].next \in Slots(t)
      BY <1>3, <3>1 DEF Good, Chained
    <3>3. t.hash[j].next \in Int /\ t.lastfree \in Int /\ f \in Int /\ f < t.lastfree
      BY <1>1, <1>2, <3>2 DEF Slots
    <3>4. \A n, last, free \in Int : n >= last /\ free < last => n >= free
      OBVIOUS
    <3> QED BY <3>1, <3>2, <3>3, <3>4
  <2>6. 0 \in Slots(t) => u.hash[0].next = 0
    BY <1>1, <1>2, <1>5 DEF Good, Chained
  <2> QED BY <1>3, <2>3, <2>4, <2>5, <2>6 DEF Chained
<1>9. \A i \in Slots(t) : t.hash[i].key # 0 => pbT_hash(t, t.hash[i].key) \in Slots(t) \ {mp, f}
  <2> SUFFICES ASSUME NEW i \in Slots(t), t.hash[i].key # 0 PROVE pbT_hash(t, t.hash[i].key) \in Slots(t) \ {mp, f}
    OBVIOUS
  <2>1. pbT_hash(t, t.hash[i].key) \in Slots(t)
    BY <1>1, <1>3, HashRange
  <2>2. IsAway(t, mp)
    BY DEF IsAway
  <2> QED BY <1>1, <1>2, <2>1, <2>2 DEF Good, Placed
<1>10. \A m \in Slots(t) \ {mp, f} : \A x \in Chain(t, m) :
          /\ x # mp => x \in Chain(u, m)
          /\ x = mp => f \in Chain(u, m)
  <2> SUFFICES ASSUME NEW m \in Slots(t) \ {mp, f}
               PROVE  Chain(t, m) \subseteq {x \in Slots(t) : /\ x # mp => x \in Chain(u, m)
                                                              /\ x = mp => f \in Chain(u, m)}
    OBVIOUS
  <2> DEFINE S == {x \in Slots(t) : (x # mp => x \in Chain(u, m)) /\ (x = mp => f \in Chain(u, m))}
  <2>1. m \in S
    BY <1>3, ChainSlots
  <2>2. ASSUME NEW x \in Chain(u, m), u.hash[x].next # 0
        PROVE  u.hash[x].next \in Chain(u, m)
    BY <1>3, <1>8, <2>2, ChainGoesOn DEF Chained
  <2>3. \A x \in S \intersect Slots(t) : t.hash[x].next # 0 => t.hash[x].next \in S
    <3> SUFFICES ASSUME NEW x \in S, t.hash[x].next # 0 PROVE t.hash[x].next \in S
      OBVIOUS
    <3>0. t.hash[x].next \in Slots(t)
      BY <1>3
    <3>1. CASE x = mp
      <4>1. u.hash[f].next = t.hash[mp].next /\ f \in Chain(u, m)
        BY <1>2, <1>5, <3>1
      <4>2. t.hash[mp].next # mp
        BY <1>1, <1>5, <1>7
      <4> QED BY <2>2, <3>0, <3>1, <4>1, <4>2
    <3>2. CASE x = above
      <4>1. u.hash[x].next = f /\ x \in Chain(u, m)
        BY <1>5, <3>2
      <4> QED BY <1>2, <2>2, <3>0, <3>2, <4>1
    <3>3. CASE x # mp /\ x # above
      <4>1. u.hash[x].next = t.hash[x].next /\ x \in Chain(u, m) /\ t.hash[x].next # mp
        BY <1>2, <1>7, <3>3
      <4> QED BY <2>2, <3>0, <4>1
    <3> QED BY <3>1, <3>2, <3>3
  <2>4. Chain(t, m) \subseteq S \intersect Slots(t)
    <3> HIDE DEF S
    <3> QED BY <2>1, <2>3, ChainWithin DEF Good
  <2> QED BY <2>4
<1>11. mp \in Chain(u, mp)
  BY <1>1, <1>3, ChainSlots
<1>12. Placed(u)
  <2>1. \A i, j \in Slots(t) : u.hash[i].key = u.hash[j].key /\ u.hash[i].key # 0 => i = j
    BY <1>1, <1>2, <1>5 DEF Good, Placed
  <2>2. \A i \in Slots(t) : u.hash[i].key # 0 => i \in Chain(u, pbT_hash(t, u.hash[i].key))
    <3> SUFFICES ASSUME NEW i \in Slots(t), u.hash[i].key # 0 PROVE i \in Chain(u, pbT_hash(t, u.hash[i].key))
      OBVIOUS
    <3>1. CASE i = mp
      BY <1>11, <3>1
    <3>2. CASE i = f
      <4>1. u.hash[i].key = t.hash[mp].key /\ mp \in Chain(t, pbT_hash(t, t.hash[mp].key))
        BY <1>1, <1>5, <3>2 DEF Good, Placed
      <4> QED BY <1>1, <1>9, <1>10, <3>2, <4>1
    <3>3. CASE i # mp /\ i # f
      <4>1. u.hash[i].key = t.hash[i].key /\ i \in Chain(t, pbT_hash(t, t.hash[i].key))
        BY <3>3 DEF Good, Placed
      <4> QED BY <1>9, <1>10, <3>3, <4>1
    <3> QED BY <3>1, <3>2, <3>3
  <2>3. \A i, j \in Slots(t) : IsAway(u, i) /\ u.hash[j].key # 0 => pbT_hash(t, u.hash[j].key) # i
    <3> SUFFICES ASSUME NEW i \in Slots(t), NEW j \in Slots(t), IsAway(u, i), u.hash[j].key # 0,
                        pbT_hash(t, u.hash[j].key) = i
                 PROVE  FALSE
      OBVIOUS
    <3>1. i # mp
      BY <1>3 DEF IsAway
    <3>2. j # mp
      BY <3>1
    <3>3. PICK l \in Slots(t) : t.hash[l].key = u.hash[j].key
      BY <1>1, <3>2
    <3>4. i # f
      BY <1>2, <3>3
    <3>5. IsAway(t, i)
      BY <1>3, <3>1, <3>4 DEF IsAway
    <3> QED BY <3>3, <3>5 DEF Good, Placed
  <2>4. \A i \in Slots(t) : u.hash[i].key = 0 /\ (i # 0 \/ ~u.zero) => u.hash[i].value = NULL
    BY DEF Good, Placed
  <2>5. u.hash[0].key = 0
    BY <1>1, <1>2 DEF Good, Placed
  <2> QED BY <1>3, <2>1, <2>2, <2>3, <2>4, <2>5 DEF Placed
<1>13. NoHoles(t) => NoHoles(u)
  <2> SUFFICES ASSUME NoHoles(t), NEW i \in Slots(t) \ {0}, i >= f \/ u.hash[i].next # 0, u.hash[i].key = 0
               PROVE  FALSE
    BY <1>3 DEF NoHoles
  <2>1. i # mp /\ i # f /\ t.hash[i].key = 0
    OBVIOUS
  <2>2. t.hash[i].next = 0 /\ i < t.lastfree
    <3>1. t.hash[i].next = 0 /\ ~(i >= t.lastfree)
      BY <2>1 DEF NoHoles
    <3> QED BY <1>1, <3>1 DEF Slots
  <2>3. i # above
    BY <1>1, <2>2
  <2>4. i >= f
    BY <2>1, <2>2, <2>3
  <2>5. i \in FreeSlots(t)
    BY <1>1, <2>1, <2>2 DEF FreeSlots, Slots
  <2> QED BY <1>1, <1>2, <2>1, <2>4, <2>5 DEF IsLastFree, Slots
<1>14. \A j, w : Has(u, j, w) <=> Has(t, j, w) \/ (j = k /\ w = v)
  <2> SUFFICES ASSUME NEW j, NEW w PROVE Has(u, j, w) <=> Has(t, j, w) \/ (j = k /\ w = v)
    OBVIOUS
  <2>1. ASSUME Has(u, j, w) PROVE Has(t, j, w) \/ (j = k /\ w = v)
    BY <1>1, <1>3, <2>1 DEF Has
  <2>2. ASSUME Has(t, j, w) PROVE Has(u, j, w)
    <3>1. PICK i \in Slots(t) : j # 0 /\ t.hash[i].key = j /\ t.hash[i].value = w
      BY <2>2 DEF Has
    <3>2. i # f
      BY <1>2, <3>1
    <3>3. CASE i = mp
      <4>1. u.hash[f].key = j /\ u.hash[f].value = w
        BY <1>2, <1>5, <3>1, <3>3
      <4> QED BY <1>2, <1>3, <3>1, <4>1 DEF Has
    <3>4. CASE i # mp
      BY <1>3, <3>1, <3>2, <3>4 DEF Has
    <3> QED BY <3>3, <3>4
  <2>3. ASSUME j = k, w = v PROVE Has(u, j, w)
    BY <1>1, <1>3, <2>3 DEF Has
  <2> QED BY <2>1, <2>2, <2>3
<1>15. ZeroOf(u) = ZeroOf(t)
  BY <1>1, <1>2 DEF ZeroOf
<1> QED BY <1>8, <1>12, <1>13, <1>14, <1>15 DEF Added, Good

LEMMA LinkedAdded ==
    ASSUME NEW t, Good(t), t.size # 0, NEW k \in Nat \ {0}, NEW v, \A j \in Slots(t) : t.hash[j].key # k,
           NEW mp, mp = pbT_hash(t, k), t.hash[mp].key # 0, pbT_hash(t, t.hash[mp].key) = mp,
           NEW f, IsLastFree(t, f),
           NEW u, Formed(u), u.size = t.size, u.lastfree = f, u.zero = t.zero,
           \A i \in Slots(t) :
              /\ u.hash[i].key = IF i = f THEN k ELSE t.hash[i].key
              /\ u.hash[i].next = IF i = mp THEN f ELSE IF i = f THEN t.hash[mp].next ELSE t.hash[i].next
              /\ u.hash[i].value = IF i = f THEN v ELSE t.hash[i].value
    PROVE  Added(t, u, k, v)
<1>1. mp \in Slots(t) \ {0} /\ t.size \in Nat /\ t.size >= 2 /\ 0 \in Slots(t) /\ t.lastfree \in 1..t.size
  BY HashRange, SizeIsTwo DEF Good
<1>2. /\ f \in Slots(t) \ {0} /\ f < t.lastfree /\ f \in 1..t.size
      /\ t.hash[f].key = 0 /\ t.hash[f].next = 0
      /\ \A i \in Slots(t) : t.hash[i].next # f
      /\ \A i \in Slots(t) : t.hash[i].key # 0 => pbT_hash(t, t.hash[i].key) # f
  BY FreeIsApart DEF IsLastFree
<1>3. /\ Slots(u) = Slots(t) /\ \A key : pbT_hash(u, key) = pbT_hash(t, key)
      /\ \A i \in Slots(t) : t.hash[i].next \in Slots(t) /\ t.hash[i].key \in Nat
  BY HashSame, SizeIsTwo DEF Slots, Good
<1>4. PICK rank \in [Slots(t) -> Nat] : \A i \in Slots(t) : t.hash[i].next # 0 => rank[i] < rank[t.hash[i].next]
  BY DEF Good, Chained, Ranked
<1>5. f # mp
  BY <1>2
<1>6. \A i, j \in Slots(t) : t.hash[i].next = t.hash[j].next /\ t.hash[i].next # 0 => i = j
  BY DEF Good, Chained
<1>7. Chained(u)
  <2> DEFINE r == [i \in Slots(t) |-> IF i = f THEN 2 * rank[mp] + 1 ELSE 2 * rank[i]]
  <2>1. r \in [Slots(t) -> Nat]
    BY <1>1
  <2>2. \A i \in Slots(t) : u.hash[i].next # 0 => r[i] < r[u.hash[i].next]
    <3> SUFFICES ASSUME NEW i \in Slots(t), u.hash[i].next # 0 PROVE r[i] < r[u.hash[i].next]
      OBVIOUS
    <3>1. CASE i = f
      <4>1. u.hash[i].next = t.hash[mp].next /\ t.hash[mp].next # 0 /\ t.hash[mp].next # f
        BY <1>1, <1>2, <1>5, <3>1
      <4>2. rank[mp] < rank[t.hash[mp].next] /\ rank[mp] \in Nat /\ rank[t.hash[mp].next] \in Nat
        BY <1>1, <1>3, <1>4, <4>1
      <4>3. r[i] = 2 * rank[mp] + 1 /\ r[u.hash[i].next] = 2 * rank[t.hash[mp].next]
        BY <1>1, <1>3, <3>1, <4>1
      <4> QED BY <4>2, <4>3
    <3>2. CASE i = mp
      <4>1. r[i] = 2 * rank[mp] /\ r[u.hash[i].next] = 2 * rank[mp] + 1 /\ rank[mp] \in Nat
        BY <1>1, <1>2, <1>4, <1>5, <3>2
      <4> QED BY <4>1
    <3>3. CASE i # f /\ i # mp
      <4>1. u.hash[i].next = t.hash[i].next /\ t.hash[i].next # f
        BY <1>2, <3>3
      <4>2. rank[i] < rank[t.hash[i].next] /\ rank[i] \in Nat /\ rank[t.hash[i].next] \in Nat
        BY <1>3, <1>4, <4>1
      <4>3. r[i] = 2 * rank[i] /\ r[u.hash[i].next] = 2 * rank[t.hash[i].next]
        BY <1>3, <3>3, <4>1
      <4> QED BY <4>2, <4>3
    <3> QED BY <3>1, <3>2, <3>3
  <2>3. Ranked(u)
    BY <1>3, <2>1, <2>2 DEF Ranked
  <2>4. \A i, j \in Slots(t) : u.hash[i].next = u.hash[j].next /\ u.hash[i].next # 0 => i = j
    <3> SUFFICES ASSUME NEW i \in Slots(t), NEW j \in Slots(t), u.hash[i].next = u.hash[j].next, u.hash[i].next # 0
                 PROVE  i = j
      OBVIOUS
    <3>0. t.hash[mp].next # f /\ t.hash[i].next # f /\ t.hash[j].next # f
      BY <1>1, <1>2
    <3>1. u.hash[i].next = f => i = mp
      BY <3>0
    <3>2. u.hash[j].next = f => j = mp
      BY <3>0
    <3>3. CASE u.hash[i].next = f
      BY <3>1, <3>2, <3>3
    <3>4. CASE u.hash[i].next # f
      <4>1. u.hash[i].next = t.hash[IF i = f THEN mp ELSE i].next /\ i # mp
        BY <3>4
      <4>2. u.hash[j].next = t.hash[IF j = f THEN mp ELSE j].next /\ j # mp
        BY <3>4
      <4>3. (IF i = f THEN mp ELSE i) = (IF j = f THEN mp ELSE j)
        <5>1. PICK a \in Slots(t) : a = IF i = f THEN mp ELSE i
          BY <1>1
        <5>2. PICK b \in Slots(t) : b = IF j = f THEN mp ELSE j
          BY <1>1
        <5>3. t.hash[a].next = t.hash[b].next /\ t.hash[a].next # 0
          BY <4>1, <4>2, <5>1, <5>2
        <5> QED BY <1>6, <5>1, <5>2, <5>3
      <4> QED BY <1>5, <4>1, <4>2, <4>3
    <3> QED BY <3>3, <3>4
  <2>5. \A i \in Slots(t) : u.hash[i].next # 0 => u.hash[i].next >= f
    <3> SUFFICES ASSUME NEW i \in Slots(t), u.hash[i].next # 0, u.hash[i].next # f PROVE u.hash[i].next >= f
      BY <1>2
    <3>1. PICK j \in Slots(t) : u.hash[i].next = t.hash[j].next
      BY <1>1
    <3>2. t.hash[j].next >= t.lastfree /\ t.hash[j].next \in Slots(t)
      BY <1>3, <3>1 DEF Good, Chained
    <3>3. t.hash[j].next \in Int /\ t.lastfree \in Int /\ f \in Int /\ f < t.lastfree
      BY <1>1, <1>2, <3>2 DEF Slots
    <3>4. \A n, last, free \in Int : n >= last /\ free < last => n >= free
      OBVIOUS
    <3> QED BY <3>1, <3>2, <3>3, <3>4
  <2>6. 0 \in Slots(t) => u.hash[0].next = 0
    BY <1>1, <1>2 DEF Good, Chained
  <2> QED BY <1>3, <2>3, <2>4, <2>5, <2>6 DEF Chained
<1>8. \A i \in Slots(t) : t.hash[i].key # 0 => pbT_hash(t, t.hash[i].key) \in Slots(t) \ {f}
  <2> SUFFICES ASSUME NEW i \in Slots(t), t.hash[i].key # 0 PROVE pbT_hash(t, t.hash[i].key) \in Slots(t) \ {f}
    OBVIOUS
  <2>1. pbT_hash(t, t.hash[i].key) \in Slots(t)
    BY <1>1, <1>3, HashRange
  <2> QED BY <1>2, <2>1
<1>9. ASSUME NEW m \in Slots(t), NEW x \in Chain(u, m), u.hash[x].next # 0
      PROVE  u.hash[x].next \in Chain(u, m)
  BY <1>3, <1>7, <1>9, ChainGoesOn DEF Chained
<1>10. \A m \in Slots(t) \ {f} : Chain(t, m) \subseteq Chain(u, m)
  <2> SUFFICES ASSUME NEW m \in Slots(t) \ {f} PROVE Chain(t, m) \subseteq Chain(u, m)
    OBVIOUS
  <2>1. m \in Chain(u, m)
    BY <1>3, ChainSlots
  <2>2. \A x \in Chain(u, m) \intersect Slots(t) : t.hash[x].next # 0 => t.hash[x].next \in Chain(u, m)
    <3> SUFFICES ASSUME NEW x \in Chain(u, m) \intersect Slots(t), t.hash[x].next # 0
                 PROVE  t.hash[x].next \in Chain(u, m)
      OBVIOUS
    <3>1. CASE x = mp
      <4>1. f \in Chain(u, m)
        BY <1>2, <1>9, <3>1
      <4>2. u.hash[f].next = t.hash[mp].next
        BY <1>2, <1>5
      <4> QED BY <1>9, <3>1, <4>1, <4>2
    <3>2. CASE x # mp
      <4>1. u.hash[x].next = t.hash[x].next
        BY <1>2, <3>2
      <4> QED BY <1>9, <4>1
    <3> QED BY <3>1, <3>2
  <2> QED BY <2>1, <2>2, ChainWithin DEF Good
<1>11. f \in Chain(u, mp)
  <2>1. mp \in Chain(u, mp)
    BY <1>1, <1>3, ChainSlots
  <2> QED BY <1>1, <1>2, <1>9, <2>1
<1>12. Placed(u)
  <2>1. \A i, j \in Slots(t) : u.hash[i].key = u.hash[j].key /\ u.hash[i].key # 0 => i = j
    BY <1>1, <1>2, <1>5 DEF Good, Placed
  <2>2. \A i \in Slots(t) : u.hash[i].key # 0 => i \in Chain(u, pbT_hash(t, u.hash[i].key))
    <3> SUFFICES ASSUME NEW i \in Slots(t), u.hash[i].key # 0 PROVE i \in Chain(u, pbT_hash(t, u.hash[i].key))
      OBVIOUS
    <3>1. CASE i = f
      BY <1>11, <3>1
    <3>2. CASE i # f
      <4>1. u.hash[i].key = t.hash[i].key /\ i \in Chain(t, pbT_hash(t, t.hash[i].key))
        BY <3>2 DEF Good, Placed
      <4> QED BY <1>8, <1>10, <4>1
    <3> QED BY <3>1, <3>2
  <2>3. \A i, j \in Slots(t) : IsAway(u, i) /\ u.hash[j].key # 0 => pbT_hash(t, u.hash[j].key) # i
    <3> SUFFICES ASSUME NEW i \in Slots(t), NEW j \in Slots(t), IsAway(u, i), u.hash[j].key # 0,
                        pbT_hash(t, u.hash[j].key) = i
                 PROVE  FALSE
      OBVIOUS
    <3>1. i # mp
      BY <1>3, <1>5 DEF IsAway
    <3>2. j # f
      BY <3>1
    <3>3. t.hash[j].key = u.hash[j].key
      BY <3>2
    <3>4. i # f
      BY <1>2, <3>3
    <3>5. IsAway(t, i)
      BY <1>3, <3>4 DEF IsAway
    <3> QED BY <3>3, <3>5 DEF Good, Placed
  <2>4. \A i \in Slots(t) : u.hash[i].key = 0 /\ (i # 0 \/ ~u.zero) => u.hash[i].value = NULL
    BY DEF Good, Placed
  <2>5. u.hash[0].key = 0
    BY <1>1, <1>2 DEF Good, Placed
  <2> QED BY <1>3, <2>1, <2>2, <2>3, <2>4, <2>5 DEF Placed
<1>13. NoHoles(t) => NoHoles(u)
  <2> SUFFICES ASSUME NoHoles(t), NEW i \in Slots(t) \ {0}, i >= f \/ u.hash[i].next # 0, u.hash[i].key = 0
               PROVE  FALSE
    BY <1>3 DEF NoHoles
  <2>1. i # mp /\ i # f /\ t.hash[i].key = 0
    BY <1>5
  <2>2. t.hash[i].next = 0 /\ i < t.lastfree
    <3>1. t.hash[i].next = 0 /\ ~(i >= t.lastfree)
      BY <2>1 DEF NoHoles
    <3> QED BY <1>1, <3>1 DEF Slots
  <2>3. i >= f
    BY <2>1, <2>2
  <2>4. i \in FreeSlots(t)
    BY <1>1, <2>1, <2>2 DEF FreeSlots, Slots
  <2> QED BY <1>1, <1>2, <2>1, <2>3, <2>4 DEF IsLastFree, Slots
<1>14. \A j, w : Has(u, j, w) <=> Has(t, j, w) \/ (j = k /\ w = v)
  <2> SUFFICES ASSUME NEW j, NEW w PROVE Has(u, j, w) <=> Has(t, j, w) \/ (j = k /\ w = v)
    OBVIOUS
  <2>1. ASSUME Has(u, j, w) PROVE Has(t, j, w) \/ (j = k /\ w = v)
    BY <1>1, <1>3, <2>1 DEF Has
  <2>2. ASSUME Has(t, j, w) PROVE Has(u, j, w)
    BY <1>2, <1>3, <2>2 DEF Has
  <2>3. ASSUME j = k, w = v PROVE Has(u, j, w)
    BY <1>2, <1>3, <2>3 DEF Has
  <2> QED BY <2>1, <2>2, <2>3
<1>15. ZeroOf(u) = ZeroOf(t)
  BY <1>1, <1>2 DEF ZeroOf
<1> QED BY <1>7, <1>12, <1>13, <1>14, <1>15 DEF Added, Good

-----------------------------------------------------------------------------
(* Insert, by cases. *)

LEMMA EnterIs ==
    ASSUME NEW t, Formed(t), NEW p \in Slots(t), NEW k \in Nat, NEW v \in PbValues \union {NULL}
    PROVE  LET u == SetValue(Enter(t, p, k), v) IN Rewritten(t, u, p, k, v) /\ u.zero = t.zero
<1> DEFINE e1 == EntryOf(k, t.hash[p].next, NULL)
           x == Write(t, p, e1)
           e2 == EntryOf(x.hash[p].key, x.hash[p].next, v)
           u == Write(x, p, e2)
<1>1. SetValue(Enter(t, p, k), v) = u
  BY DEF SetValue, Enter
<1>2. t.hash[p].next \in 0..(t.size - 1) /\ NULL \in PbValues \union {NULL}
  BY NextTyped DEF Slots
<1>3. e1 \in Entries(t.size) /\ e1.key = k /\ e1.next = t.hash[p].next
  BY <1>2, EntryIs
<1> HIDE DEF e1
<1>4. /\ Formed(x) /\ x.size = t.size /\ x.lastfree = t.lastfree /\ x.zero = t.zero
      /\ \A i \in Slots(t) : x.hash[i] = IF i = p THEN e1 ELSE t.hash[i]
  BY <1>3, WriteIs
<1> HIDE DEF x
<1>5. /\ e2 \in Entries(x.size) /\ e2.key = k /\ e2.next = t.hash[p].next /\ e2.value = v
      /\ Slots(x) = Slots(t)
  BY <1>2, <1>3, <1>4, EntryIs DEF Slots
<1> HIDE DEF e2
<1>6. /\ Formed(u) /\ u.size = x.size /\ u.lastfree = x.lastfree /\ u.zero = x.zero
      /\ \A i \in Slots(x) : u.hash[i] = IF i = p THEN e2 ELSE x.hash[i]
  BY <1>4, <1>5, WriteIs
<1> HIDE DEF u
<1>7. Rewritten(t, u, p, k, v) /\ u.zero = t.zero
  BY <1>4, <1>5, <1>6 DEF Rewritten
<1> QED BY <1>1, <1>7

\* What is not in its main position comes after another slot.
LEMMA AboveExists ==
    ASSUME NEW t, Good(t), NEW mp \in Slots(t), IsAway(t, mp), t.size # 0
    PROVE  \E i \in Chain(t, pbT_hash(t, t.hash[mp].key)) : t.hash[i].next = mp
<1> DEFINE on == pbT_hash(t, t.hash[mp].key)
<1>1. on \in Slots(t) /\ on # mp /\ mp \in Chain(t, on)
  BY HashRange, SizeIsTwo DEF IsAway, Good, Placed
<1> HIDE DEF on
<1>2. SUFFICES ASSUME \A i \in Chain(t, on) : t.hash[i].next # mp PROVE FALSE
  BY DEF on
<1>3. on \in Chain(t, on) \ {mp}
  BY <1>1, ChainSlots DEF Good
<1>4. \A x \in (Chain(t, on) \ {mp}) \intersect Slots(t) : t.hash[x].next # 0 => t.hash[x].next \in Chain(t, on) \ {mp}
  BY <1>1, <1>2, ChainGoesOn DEF Good, Chained
<1>5. Chain(t, on) \subseteq (Chain(t, on) \ {mp}) \intersect Slots(t)
  <2> DEFINE S == Chain(t, on) \ {mp}
  <2>1. on \in S /\ \A x \in S \intersect Slots(t) : t.hash[x].next # 0 => t.hash[x].next \in S
    BY <1>3, <1>4
  <2> HIDE DEF S
  <2>2. Chain(t, on) \subseteq S \intersect Slots(t)
    BY <1>1, <2>1, ChainWithin DEF Good
  <2> QED BY <2>2 DEF S
<1> QED BY <1>1, <1>5

LEMMA InsertAdded ==
    ASSUME NEW t, Good(t), t.size # 0, NEW k \in Nat, NEW v \in PbValues \union {NULL},
           k # 0 => \A j \in Slots(t) : t.hash[j].key # k, ~IsFull(t, k)
    PROVE  Added(t, SetValue(Insert(t, k), v), k, v)
<1> DEFINE u == SetValue(Insert(t, k), v)
<1>0. Formed(t) /\ 1 \in 1..t.size /\ 0 \in Slots(t) /\ t.size \in Nat /\ t.size >= 2
  BY SizeIsTwo DEF Good
<1>1. CASE k = 0
  <2> DEFINE x == [t EXCEPT !.zero = TRUE]
  <2>1. Formed(x) /\ x.size = t.size /\ x.lastfree = t.lastfree /\ x.zero = TRUE /\ x.hash = t.hash
    BY <1>0, FieldIs
  <2>2. u = SetValue(Enter(x, 0, 0), v)
    BY <1>1 DEF Insert
  <2> HIDE DEF x
  <2>3. Slots(x) = Slots(t) /\ 0 \in Nat
    BY <2>1 DEF Slots
  <2>4. Rewritten(x, u, 0, 0, v) /\ u.zero = x.zero
    BY <1>0, <2>1, <2>2, <2>3, EnterIs
  <2>5. Rewritten(t, u, 0, 0, v) /\ u.zero
    BY <2>1, <2>3, <2>4 DEF Rewritten
  <2> HIDE DEF u
  <2>6. Added(t, u, 0, v)
    BY <2>5, ZeroAdded
  <2> QED BY <1>1, <2>6 DEF u
<1>2. CASE k # 0 /\ t.hash[pbT_hash(t, k)].key = 0
  <2>1. u = SetValue(Enter(t, pbT_hash(t, k), k), v)
    BY <1>2 DEF Insert
  <2>2. pbT_hash(t, k) \in Slots(t)
    BY <1>0, HashRange
  <2>3. Rewritten(t, u, pbT_hash(t, k), k, v) /\ u.zero = t.zero
    BY <1>0, <2>1, <2>2, EnterIs
  <2> HIDE DEF u
  <2> QED BY <1>2, <2>3, MainAdded DEF u
<1>3. CASE k # 0 /\ t.hash[pbT_hash(t, k)].key # 0
  <2> DEFINE mp == pbT_hash(t, k)
             f == Max(FreeSlots(t))
             x == [t EXCEPT !.lastfree = f]
  <2>1. u = SetValue(Collide(x, mp, f, k), v)
    BY <1>3 DEF Insert
  <2>2. mp \in Slots(t) \ {0}
    BY <1>0, <1>3, HashRange
  <2>3. IsLastFree(t, f)
    <3>1. FreeSlots(t) # {}
      BY <1>3 DEF IsFull
    <3>2. FreeSlots(t) \subseteq 0..t.size
      BY <1>0, SizeIsTwo DEF FreeSlots
    <3> QED BY <1>0, <3>1, <3>2, GreatestExists DEF IsLastFree
  <2>4. f \in Slots(t) \ {0} /\ f \in 1..t.size /\ t.hash[f].key = 0 /\ t.hash[f].next = 0
    BY <2>3, FreeIsApart DEF IsLastFree
  <2> HIDE DEF f
  <2>5. Formed(x) /\ x.size = t.size /\ x.lastfree = f /\ x.zero = t.zero /\ x.hash = t.hash
    BY <1>0, <2>4, FieldIs
  <2> HIDE DEF x
  <2>6. Slots(x) = Slots(t) /\ (\A key : pbT_hash(x, key) = pbT_hash(t, key)) /\ 0..(x.size - 1) = Slots(t)
    BY <2>5, HashSame DEF Slots
  <2>7. PICK m \in Slots(t) \ {0} : m = mp
    BY <2>2
  <2>8. t.hash[m] \in Entries(x.size) /\ t.hash[m].next \in 0..(x.size - 1) /\ t.hash[m].key \in Nat
         /\ t.hash[m].value \in PbValues \union {NULL}
    BY <1>0, <2>5, <2>6 DEF Formed, Entries
  <2>9. CASE pbT_hash(t, t.hash[m].key) # m
    <3> DEFINE on == pbT_hash(x, x.hash[m].key)
               above == CHOOSE i \in Chain(x, on) : x.hash[i].next = m
    <3>1. u = SetValue(Enter(Moved(x, above, m, f), m, k), v)
      BY <2>1, <2>5, <2>6, <2>7, <2>9 DEF Collide
    <3>2. above \in Slots(t) /\ t.hash[above].next = m
      <4>1. Chained(t) /\ x.lastfree <= t.lastfree
        BY <2>3, <2>5, SizeIsTwo DEF Good, IsLastFree, FreeSlots
      <4>2. on \in Slots(t)
        BY <1>0, <2>5, <2>6, <2>8, HashRange
      <4>3. Chain(x, on) = Chain(t, on)
        BY <1>0, <2>5, <4>1, <4>2, SameNext
      <4>4. IsAway(t, m)
        BY <1>3, <2>7, <2>9 DEF IsAway
      <4>5. \E i \in Chain(x, on) : x.hash[i].next = m
        BY <2>5, <2>6, <4>3, <4>4, AboveExists
      <4>6. Chain(t, on) \subseteq Slots(t)
        BY <1>0, <4>2, ChainSlots
      <4> HIDE DEF on
      <4> QED BY <2>5, <4>3, <4>5, <4>6
    <3> HIDE DEF above
    <3> DEFINE e == EntryOf(x.hash[above].key, f, x.hash[above].value)
               y == Write(x, above, e)
               z == Write(y, f, x.hash[m])
               w == Write(z, m, NoEntry)
    <3>3. Moved(x, above, m, f) = w
      BY DEF Moved
    <3>4. e \in Entries(x.size) /\ e.key = t.hash[above].key /\ e.next = f /\ e.value = t.hash[above].value
      <4>1. t.hash[above].key \in Nat /\ t.hash[above].value \in PbValues \union {NULL}
        BY <1>0, <3>2 DEF Formed, Entries
      <4>2. f \in 0..(x.size - 1)
        BY <2>4, <2>6
      <4> QED BY <2>5, <4>1, <4>2, EntryIs
    <3> HIDE DEF e
    <3>5. /\ Formed(y) /\ y.size = x.size /\ y.lastfree = x.lastfree /\ y.zero = x.zero
          /\ \A i \in Slots(t) : y.hash[i] = IF i = above THEN e ELSE t.hash[i]
      BY <2>5, <2>6, <3>2, <3>4, WriteIs
    <3> HIDE DEF y
    <3>6. /\ Formed(z) /\ z.size = x.size /\ z.lastfree = x.lastfree /\ z.zero = x.zero
          /\ \A i \in Slots(t) : z.hash[i] = IF i = f THEN t.hash[m] ELSE y.hash[i]
      <4>1. Slots(y) = Slots(t) /\ x.hash[m] \in Entries(y.size)
        BY <2>5, <2>6, <2>8, <3>5 DEF Slots
      <4> QED BY <2>4, <2>5, <3>5, <4>1, WriteIs
    <3> HIDE DEF z
    <3>7. /\ Formed(w) /\ w.size = x.size /\ w.lastfree = x.lastfree /\ w.zero = x.zero
          /\ \A i \in Slots(t) : w.hash[i] = IF i = m THEN NoEntry ELSE z.hash[i]
      <4>1. Slots(z) = Slots(t) /\ NoEntry \in Entries(z.size)
        <5>1. Slots(z) = Slots(t)
          BY <2>6, <3>6 DEF Slots
        <5>2. 0 \in 0..(z.size - 1) /\ 0 \in Nat /\ NULL \in PbValues \union {NULL}
          BY <1>0, <2>5, <3>6
        <5> QED BY <5>1, <5>2, EntryIs DEF NoEntry
      <4> QED BY <3>6, <4>1, WriteIs
    <3> HIDE DEF w
    <3>8. Rewritten(w, u, m, k, v) /\ u.zero = w.zero
      <4>1. Slots(w) = Slots(t)
        BY <2>6, <3>7 DEF Slots
      <4> QED BY <3>1, <3>3, <3>7, <4>1, EnterIs
    <3>9. NoEntry.next = 0
      BY EntryIs DEF NoEntry
    <3> HIDE DEF u, mp
    <3>10. /\ Formed(u) /\ u.size = t.size /\ u.lastfree = f /\ u.zero = t.zero
           /\ \A i \in Slots(t) :
                /\ u.hash[i].key = IF i = m THEN k ELSE IF i = f THEN t.hash[m].key ELSE t.hash[i].key
                /\ u.hash[i].next = IF i = m THEN 0 ELSE IF i = f THEN t.hash[m].next
                                    ELSE IF i = above THEN f ELSE t.hash[i].next
                /\ u.hash[i].value = IF i = m THEN v ELSE IF i = f THEN t.hash[m].value ELSE t.hash[i].value
      <4>1. Slots(w) = Slots(t)
        BY <2>6, <3>7 DEF Slots
      <4>2. /\ Formed(u) /\ u.size = w.size /\ u.lastfree = w.lastfree
            /\ \A i \in Slots(t) : /\ u.hash[i].key = IF i = m THEN k ELSE w.hash[i].key
                                   /\ u.hash[i].next = w.hash[i].next
                                   /\ u.hash[i].value = IF i = m THEN v ELSE w.hash[i].value
        BY <3>8, <4>1 DEF Rewritten
      <4>3. \A i \in Slots(t) : w.hash[i] = IF i = m THEN NoEntry ELSE IF i = f THEN t.hash[m]
                                            ELSE IF i = above THEN e ELSE t.hash[i]
        BY <3>5, <3>6, <3>7
      <4> QED BY <2>5, <3>4, <3>7, <3>8, <3>9, <4>2, <4>3
    <3>11. k \in Nat \ {0} /\ m = pbT_hash(t, k) /\ t.hash[m].key # 0
      BY <1>3, <2>7 DEF mp
    <3> QED BY <1>3, <2>3, <2>9, <3>2, <3>10, <3>11, MovedAdded DEF u
  <2>10. CASE pbT_hash(t, t.hash[m].key) = m
    <3> DEFINE e1 == EntryOf(0, t.hash[m].next, NULL)
               e2 == EntryOf(t.hash[m].key, f, t.hash[m].value)
               y == Write(x, f, e1)
               w == Write(y, m, e2)
    <3>1. u = SetValue(Enter(w, f, k), v)
      BY <2>1, <2>5, <2>6, <2>7, <2>10 DEF Collide, Linked
    <3>2. /\ e1 \in Entries(x.size) /\ e1.next = t.hash[m].next
          /\ e2 \in Entries(x.size) /\ e2.key = t.hash[m].key /\ e2.next = f /\ e2.value = t.hash[m].value
      <4>1. 0 \in Nat /\ NULL \in PbValues \union {NULL} /\ f \in 0..(x.size - 1)
        BY <2>4, <2>6
      <4> QED BY <2>8, <4>1, EntryIs
    <3> HIDE DEF e1, e2
    <3>3. /\ Formed(y) /\ y.size = x.size /\ y.lastfree = x.lastfree /\ y.zero = x.zero
          /\ \A i \in Slots(t) : y.hash[i] = IF i = f THEN e1 ELSE t.hash[i]
      <4>1. f \in Slots(x) /\ e1 \in Entries(x.size)
        BY <2>4, <2>6, <3>2
      <4>2. /\ Formed(y) /\ y.size = x.size /\ y.lastfree = x.lastfree /\ y.zero = x.zero
            /\ \A i \in Slots(x) : y.hash[i] = IF i = f THEN e1 ELSE x.hash[i]
        BY <2>5, <4>1, WriteIs
      <4> QED BY <2>5, <2>6, <4>2
    <3> HIDE DEF y
    <3>4. /\ Formed(w) /\ w.size = x.size /\ w.lastfree = x.lastfree /\ w.zero = x.zero
          /\ \A i \in Slots(t) : w.hash[i] = IF i = m THEN e2 ELSE y.hash[i]
      <4>1. Slots(y) = Slots(t) /\ e2 \in Entries(y.size)
        BY <2>6, <3>2, <3>3 DEF Slots
      <4> QED BY <3>3, <4>1, WriteIs
    <3> HIDE DEF w
    <3>5. Slots(w) = Slots(t)
      BY <2>6, <3>4 DEF Slots
    <3>6. Rewritten(w, u, f, k, v) /\ u.zero = w.zero
      BY <2>4, <3>1, <3>4, <3>5, EnterIs
    <3> HIDE DEF u, mp
    <3>7. f # m
      BY <1>3, <2>4, <2>7 DEF mp
    <3>8. /\ Formed(u) /\ u.size = t.size /\ u.lastfree = f /\ u.zero = t.zero
          /\ \A i \in Slots(t) :
               /\ u.hash[i].key = IF i = f THEN k ELSE t.hash[i].key
               /\ u.hash[i].next = IF i = m THEN f ELSE IF i = f THEN t.hash[m].next ELSE t.hash[i].next
               /\ u.hash[i].value = IF i = f THEN v ELSE t.hash[i].value
      <4>1. /\ Formed(u) /\ u.size = w.size /\ u.lastfree = w.lastfree
            /\ \A i \in Slots(t) : /\ u.hash[i].key = IF i = f THEN k ELSE w.hash[i].key
                                   /\ u.hash[i].next = w.hash[i].next
                                   /\ u.hash[i].value = IF i = f THEN v ELSE w.hash[i].value
        BY <3>5, <3>6 DEF Rewritten
      <4>2. \A i \in Slots(t) : w.hash[i] = IF i = m THEN e2 ELSE IF i = f THEN e1 ELSE t.hash[i]
        BY <3>3, <3>4
      <4> QED BY <2>5, <3>2, <3>4, <3>6, <3>7, <4>1, <4>2
    <3>9. k \in Nat \ {0} /\ m = pbT_hash(t, k) /\ t.hash[m].key # 0
      BY <1>3, <2>7 DEF mp
    <3> QED BY <1>3, <2>3, <2>10, <3>8, <3>9, LinkedAdded DEF u
  <2> QED BY <2>9, <2>10
<1> QED BY <1>1, <1>2, <1>3

-----------------------------------------------------------------------------
(* A larger table. *)

LEMMA BlankIs ==
    ASSUME NEW n \in Nat, n >= MinSize, NEW zero \in BOOLEAN, NEW b, b = Blank(n, zero)
    PROVE  /\ Good(b) /\ NoHoles(b) /\ b.size = n /\ b.lastfree = n
           /\ \A k, v : ~Has(b, k, v)
           /\ ZeroOf(b) = NULL
           /\ \A k \in Nat : ~IsFull(b, k)
<1>1. n >= 2
  BY PbTableAssumption
<1>2. /\ b = [size |-> n, lastfree |-> n, zero |-> zero, hash |-> [i \in 0..(n - 1) |-> NoEntry]]
      /\ b.size = n /\ b.lastfree = n /\ b.zero = zero /\ b.hash = [i \in 0..(n - 1) |-> NoEntry]
  BY DEF Blank
<1>3. Slots(b) = 0..(n - 1) /\ \A i \in Slots(b) : b.hash[i] = NoEntry
  BY <1>2 DEF Slots
<1>4. NoEntry.key = 0 /\ NoEntry.next = 0 /\ NoEntry.value = NULL
  BY EntryIs DEF NoEntry
<1>5. Formed(b)
  <2>1. 0 \in Nat /\ 0 \in 0..(n - 1) /\ NULL \in PbValues \union {NULL}
    BY <1>1
  <2>2. NoEntry \in Entries(n)
    BY <2>1, EntryIs DEF NoEntry
  <2>3. b.hash \in [Slots(b) -> Entries(n)]
    BY <1>2, <1>3, <2>2
  <2>4. b = [size |-> b.size, lastfree |-> b.lastfree, zero |-> b.zero, hash |-> b.hash]
    BY <1>2
  <2>5. n \in 1..n /\ n # 0
    BY <1>1
  <2> QED BY <1>2, <2>3, <2>4, <2>5 DEF Formed
<1>6. Chained(b)
  <2> DEFINE r == [i \in Slots(b) |-> 0]
  <2>1. r \in [Slots(b) -> Nat]
    OBVIOUS
  <2>2. Ranked(b)
    BY <1>3, <1>4, <2>1 DEF Ranked
  <2> QED BY <1>3, <1>4, <2>2 DEF Chained
<1>7. Placed(b)
  BY <1>3, <1>4 DEF Placed, IsAway
<1>8. NoHoles(b)
  <2> SUFFICES ASSUME NEW i \in Slots(b) \ {0} PROVE ~(i >= b.lastfree) /\ b.hash[i].next = 0
    BY DEF NoHoles
  <2> QED BY <1>2, <1>3, <1>4
<1>9. \A k, v : ~Has(b, k, v)
  BY <1>3, <1>4 DEF Has
<1>10. ZeroOf(b) = NULL
  <2>1. 0 \in Slots(b)
    BY <1>1, <1>3
  <2> QED BY <1>3, <1>4, <2>1 DEF ZeroOf
<1>11. \A k \in Nat : ~IsFull(b, k)
  <2> SUFFICES ASSUME NEW k \in Nat PROVE b.hash[pbT_hash(b, k)].key = 0 /\ b.size # 0
    BY DEF IsFull
  <2>1. pbT_hash(b, k) \in Slots(b)
    BY <1>1, <1>2, HashRange
  <2> QED BY <1>1, <1>2, <1>3, <1>4, <2>1
<1> QED BY <1>2, <1>5, <1>6, <1>7, <1>8, <1>9, <1>10, <1>11 DEF Good

\* A table of twice the size is not full with what was in another.
LEMMA TwiceIsEnough ==
    ASSUME NEW t, Good(t), t.size # 0, NEW m, Good(m), NoHoles(m), m.size = 2 * t.size,
           \A k, v : Has(m, k, v) => \E j \in Slots(t) \ {0} : t.hash[j].key = k,
           NEW k \in Nat
    PROVE  ~IsFull(m, k)
<1>1. t.size \in Nat /\ t.size >= 2 /\ m.size \in Nat /\ m.lastfree \in 1..m.size /\ m.size # 0
  <2>1. t.size \in Nat /\ t.size >= 2
    BY SizeIsTwo DEF Good
  <2>2. m.size # 0
    BY <2>1
  <2> QED BY <2>1, <2>2, SizeIsTwo DEF Good
<1>2. SUFFICES ASSUME FreeSlots(m) = {} PROVE FALSE
  BY <1>1 DEF IsFull
<1>3. \A i \in 1..(m.size - 1) : m.hash[i].key # 0
  <2> SUFFICES ASSUME NEW i \in 1..(m.size - 1), m.hash[i].key = 0 PROVE FALSE
    OBVIOUS
  <2>1. i \in Slots(m) \ {0}
    BY <1>1 DEF Slots
  <2>2. ~(i >= m.lastfree) /\ m.hash[i].next = 0
    BY <2>1 DEF NoHoles
  <2>3. i \in 1..(m.lastfree - 1)
    BY <1>1, <2>2
  <2> QED BY <1>2, <2>2, <2>3 DEF FreeSlots
<1> DEFINE f == [i \in 1..(m.size - 1) |-> CHOOSE j \in Slots(t) \ {0} : t.hash[j].key = m.hash[i].key]
<1>4. \A i \in 1..(m.size - 1) : f[i] \in Slots(t) \ {0} /\ t.hash[f[i]].key = m.hash[i].key
  <2> SUFFICES ASSUME NEW i \in 1..(m.size - 1) PROVE f[i] \in Slots(t) \ {0} /\ t.hash[f[i]].key = m.hash[i].key
    OBVIOUS
  <2>1. i \in Slots(m)
    BY <1>1 DEF Slots
  <2>2. Has(m, m.hash[i].key, m.hash[i].value)
    BY <1>3, <2>1 DEF Has
  <2>3. \E j \in Slots(t) \ {0} : t.hash[j].key = m.hash[i].key
    BY <2>2
  <2> QED BY <2>3
<1> HIDE DEF f
<1>5. Within(f, m.size - 1, t.size - 1)
  <2> SUFFICES ASSUME NEW i \in 1..(m.size - 1) PROVE f[i] \in 1..(t.size - 1)
    BY DEF Within
  <2>1. f[i] \in Slots(t) \ {0}
    BY <1>4
  <2> QED BY <1>1, <2>1 DEF Slots
<1>6. Meets(f, m.size - 1)
  <2>1. m.size - 1 \in Nat /\ t.size - 1 \in Nat /\ t.size - 1 < m.size - 1
    BY <1>1
  <2> QED BY <1>5, <2>1, Pigeons
<1>7. PICK i, j \in 1..(m.size - 1) : i # j /\ f[i] = f[j]
  BY <1>6 DEF Meets
<1>8. m.hash[i].key = m.hash[j].key /\ m.hash[i].key # 0
  BY <1>3, <1>4, <1>7
<1>9. i \in Slots(m) /\ j \in Slots(m)
  BY <1>1 DEF Slots
<1> QED BY <1>7, <1>8, <1>9 DEF Good, Placed

IsRefill(g, old, new, k) ==
    g = [i \in 0..k |-> IF i = 0 THEN new ELSE SetValue(Insert(g[i - 1], old.hash[i - 1].key), old.hash[i - 1].value)]

LEMMA RefillExists ==
    ASSUME NEW old, NEW new, NEW k \in Nat
    PROVE  \E g : IsRefill(g, old, new, k)
<1> DEFINE Bad == {j \in Nat : ~ \E g : IsRefill(g, old, new, j)}
           Step(x, n) == SetValue(Insert(x, old.hash[n].key), old.hash[n].value)
<1>1. SUFFICES ASSUME Bad # {} PROVE FALSE
  OBVIOUS
<1>2. PICK j \in Bad : \A b \in Bad : j <= b
  BY <1>1, LeastExists
<1>3. j # 0
  <2> DEFINE e == [n \in 0..0 |-> new]
  <2>1. e = [n \in 0..0 |-> IF n = 0 THEN new ELSE SetValue(Insert(e[n - 1], old.hash[n - 1].key), old.hash[n - 1].value)]
    OBVIOUS
  <2> QED BY <2>1 DEF IsRefill
<1>4. PICK f : IsRefill(f, old, new, j - 1)
  <2>1. j - 1 \in Nat /\ j - 1 \notin Bad
    BY <1>2, <1>3
  <2> QED BY <2>1
<1> DEFINE g == [n \in 0..j |-> IF n = 0 THEN new ELSE Step(f[n - 1], n - 1)]
<1>5. \A n \in 0..(j - 1) : g[n] = f[n]
  <2> SUFFICES ASSUME NEW n \in 0..(j - 1) PROVE g[n] = f[n]
    OBVIOUS
  <2>1. f[n] = IF n = 0 THEN new ELSE Step(f[n - 1], n - 1)
    BY <1>4 DEF IsRefill
  <2>2. n \in 0..j
    BY <1>2
  <2> QED BY <2>1, <2>2
<1>6. \A n \in 0..j : n # 0 => n - 1 \in 0..(j - 1)
  BY <1>2
<1>7. \A n \in 0..j : g[n] = IF n = 0 THEN new ELSE Step(g[n - 1], n - 1)
  <2> SUFFICES ASSUME NEW n \in 0..j PROVE g[n] = IF n = 0 THEN new ELSE Step(g[n - 1], n - 1)
    OBVIOUS
  <2>1. n # 0 => g[n - 1] = f[n - 1]
    BY <1>5, <1>6
  <2> QED BY <2>1
<1>8. IsRefill(g, old, new, j)
  <2> DEFINE h == [n \in 0..j |-> IF n = 0 THEN new ELSE Step(g[n - 1], n - 1)]
  <2>1. \A n \in 0..j : g[n] = h[n]
    BY <1>7
  <2>2. g = [n \in 0..j |-> g[n]] /\ h = [n \in 0..j |-> h[n]]
    OBVIOUS
  <2> HIDE DEF g, h
  <2>3. g = h
    BY <2>1, <2>2
  <2> QED BY <2>3 DEF IsRefill, h
<1> QED BY <1>2, <1>8

LEMMA RefillSteps ==
    ASSUME NEW old, old.size \in Nat, NEW new
    PROVE  /\ Refilled(old, new)[0] = new
           /\ \A i \in 1..old.size :
                 Refilled(old, new)[i]
                    = SetValue(Insert(Refilled(old, new)[i - 1], old.hash[i - 1].key), old.hash[i - 1].value)
<1> DEFINE r == CHOOSE g : IsRefill(g, old, new, old.size)
<1>1. IsRefill(r, old, new, old.size)
  BY RefillExists
<1>2. Refilled(old, new) = r
  BY DEF Refilled, IsRefill
<1> HIDE DEF r
<1>3. r[0] = new
  BY <1>1 DEF IsRefill
<1>4. \A i \in 1..old.size : r[i] = SetValue(Insert(r[i - 1], old.hash[i - 1].key), old.hash[i - 1].value)
  BY <1>1 DEF IsRefill
<1> QED BY <1>2, <1>3, <1>4

\* m has the first i slots of t.
HasFirst(t, m, i) ==
    /\ Good(m) /\ NoHoles(m) /\ m.size = 2 * t.size
    /\ \A k, v : Has(m, k, v) <=> \E j \in 0..(i - 1) : k # 0 /\ t.hash[j].key = k /\ t.hash[j].value = v
    /\ ZeroOf(m) = IF i = 0 \/ (\E j \in 1..(i - 1) : t.hash[j].key = 0) THEN NULL ELSE t.hash[0].value

LEMMA FirstKept ==
    ASSUME NEW t, Good(t), t.size # 0, NEW m, NEW i \in Slots(t), HasFirst(t, m, i),
           NEW u, u = SetValue(Insert(m, t.hash[i].key), t.hash[i].value)
    PROVE  HasFirst(t, u, i + 1)
<1>1. t.size \in Nat /\ t.size >= 2 /\ m.size # 0 /\ m.size = 2 * t.size /\ Good(m) /\ NoHoles(m) /\ i \in 0..(t.size - 1)
  BY SizeIsTwo DEF Good, HasFirst, Slots
<1>2. t.hash[i].key \in Nat /\ t.hash[i].value \in PbValues \union {NULL}
  BY DEF Good, Formed, Entries
<1>3. \A j \in 0..(i - 1) : j \in Slots(t) /\ j # i
  BY <1>1 DEF Slots
<1>4. t.hash[i].key # 0 => \A j \in Slots(m) : m.hash[j].key # t.hash[i].key
  <2> SUFFICES ASSUME t.hash[i].key # 0, NEW j \in Slots(m), m.hash[j].key = t.hash[i].key PROVE FALSE
    OBVIOUS
  <2>1. Has(m, t.hash[i].key, m.hash[j].value)
    BY DEF Has
  <2>2. PICK l \in 0..(i - 1) : t.hash[l].key = t.hash[i].key
    BY <2>1 DEF HasFirst
  <2> QED BY <1>3, <2>2 DEF Good, Placed
<1>5. ~IsFull(m, t.hash[i].key)
  <2>1. \A k, v : Has(m, k, v) => \E j \in Slots(t) \ {0} : t.hash[j].key = k
    <3> SUFFICES ASSUME NEW k, NEW v, Has(m, k, v) PROVE \E j \in Slots(t) \ {0} : t.hash[j].key = k
      OBVIOUS
    <3>1. PICK j \in 0..(i - 1) : k # 0 /\ t.hash[j].key = k
      BY DEF HasFirst
    <3>2. t.hash[0].key = 0
      BY SizeIsTwo DEF Good, Placed
    <3> QED BY <1>3, <3>1, <3>2
  <2> QED BY <1>1, <1>2, <2>1, TwiceIsEnough
<1>6. Added(m, u, t.hash[i].key, t.hash[i].value)
  BY <1>1, <1>2, <1>4, <1>5, InsertAdded
<1>7. \A j : j \in 0..i <=> j \in 0..(i - 1) \/ j = i
  BY <1>1
<1>8. (i + 1) - 1 = i /\ i + 1 # 0
  BY <1>1
<1>9. \A k, v : Has(u, k, v) <=> \E j \in 0..i : k # 0 /\ t.hash[j].key = k /\ t.hash[j].value = v
  <2> SUFFICES ASSUME NEW k, NEW v
               PROVE  Has(u, k, v) <=> \E j \in 0..i : k # 0 /\ t.hash[j].key = k /\ t.hash[j].value = v
    OBVIOUS
  <2>1. Has(u, k, v) <=> Has(m, k, v) \/ (t.hash[i].key # 0 /\ k = t.hash[i].key /\ v = t.hash[i].value)
    BY <1>6 DEF Added
  <2>2. Has(m, k, v) <=> \E j \in 0..(i - 1) : k # 0 /\ t.hash[j].key = k /\ t.hash[j].value = v
    BY DEF HasFirst
  <2> QED BY <1>7, <2>1, <2>2
<1>10. ZeroOf(u) = IF \E j \in 1..i : t.hash[j].key = 0 THEN NULL ELSE t.hash[0].value
  <2>1. t.hash[0].key = 0 /\ (t.hash[i].key = 0 /\ i # 0 => t.hash[i].value = NULL)
    BY SizeIsTwo DEF Good, Placed
  <2>2. ZeroOf(u) = IF t.hash[i].key = 0 THEN t.hash[i].value ELSE ZeroOf(m)
    BY <1>6 DEF Added
  <2>3. CASE i = 0
    BY <2>1, <2>2, <2>3
  <2>4. CASE i # 0
    <3>1. ZeroOf(m) = IF \E j \in 1..(i - 1) : t.hash[j].key = 0 THEN NULL ELSE t.hash[0].value
      BY <2>4 DEF HasFirst
    <3>2. \A j : j \in 1..i <=> j \in 1..(i - 1) \/ j = i
      BY <1>1, <2>4
    <3> QED BY <2>1, <2>2, <2>4, <3>1, <3>2
  <2> QED BY <2>3, <2>4
<1>11. Good(u) /\ NoHoles(u) /\ u.size = m.size
  BY <1>1, <1>6 DEF Added
<1> QED BY <1>1, <1>8, <1>9, <1>10, <1>11 DEF HasFirst

Resized(t, u) ==
    /\ Good(u) /\ u.size > t.size
    /\ \A k, v : Has(u, k, v) <=> Has(t, k, v)
    /\ ZeroOf(u) = IF \E j \in Slots(t) \ {0} : t.hash[j].key = 0 THEN NULL ELSE ZeroOf(t)
    /\ \A k \in Nat : ~IsFull(u, k)

LEMMA ResizeKeeps ==
    ASSUME NEW t, Good(t)
    PROVE  Resized(t, pb_resizetable(t))
<1>0. t.size \in Nat /\ t.zero \in BOOLEAN /\ MinSize \in Nat /\ MinSize >= 2
  BY PbTableAssumption DEF Good, Formed
<1>1. CASE t.size = 0
  <2> DEFINE b == Blank(MinSize, t.zero)
  <2>1. pb_resizetable(t) = Refilled(t, b)[0]
    BY <1>1 DEF pb_resizetable
  <2>2. pb_resizetable(t) = b
    <3> HIDE DEF b
    <3> QED BY <1>0, <2>1, RefillSteps
  <2>3. /\ Good(b) /\ b.size = MinSize /\ (\A k, v : ~Has(b, k, v)) /\ ZeroOf(b) = NULL
        /\ \A k \in Nat : ~IsFull(b, k)
    BY <1>0, BlankIs
  <2> HIDE DEF b
  <2>4. Slots(t) = {}
    BY <1>1 DEF Slots
  <2>5. ~t.zero
    BY <1>1 DEF Good, Formed
  <2> QED BY <1>0, <1>1, <2>2, <2>3, <2>4, <2>5 DEF Resized, Has, ZeroOf
<1>2. CASE t.size # 0
  <2> DEFINE b == Blank(2 * t.size, t.zero)
             r == Refilled(t, b)
  <2>1. pb_resizetable(t) = r[t.size]
    BY <1>2 DEF pb_resizetable
  <2>2. t.size >= 2 /\ t.size >= MinSize
    BY <1>2, SizeIsTwo DEF Good, Formed
  <2>3. HasFirst(t, b, 0)
    <3>1. 2 * t.size \in Nat /\ 2 * t.size >= MinSize
      BY <1>0, <2>2
    <3>2. /\ Good(b) /\ NoHoles(b) /\ b.size = 2 * t.size /\ (\A k, v : ~Has(b, k, v)) /\ ZeroOf(b) = NULL
      BY <1>0, <3>1, BlankIs
    <3> HIDE DEF b
    <3>3. 0..(0 - 1) = {}
      OBVIOUS
    <3> QED BY <3>2, <3>3 DEF HasFirst
  <2> HIDE DEF b
  <2>4. r[0] = b /\ \A i \in 1..t.size : r[i] = SetValue(Insert(r[i - 1], t.hash[i - 1].key), t.hash[i - 1].value)
    BY <1>0, RefillSteps
  <2> HIDE DEF r
  <2>5. \A i \in 0..t.size : HasFirst(t, r[i], i)
    <3> DEFINE Bad == {i \in 0..t.size : ~HasFirst(t, r[i], i)}
    <3>1. SUFFICES ASSUME Bad # {} PROVE FALSE
      OBVIOUS
    <3>2. PICK i \in Bad : \A j \in Bad : i <= j
      <4>1. Bad \subseteq Nat
        OBVIOUS
      <4> QED BY <3>1, <4>1, LeastExists
    <3>3. i # 0
      BY <2>3, <2>4
    <3>4. i \in 1..t.size /\ i - 1 \in 0..t.size /\ i - 1 \notin Bad /\ i - 1 \in Slots(t) /\ (i - 1) + 1 = i
      BY <1>0, <3>2, <3>3 DEF Slots
    <3>5. HasFirst(t, r[i - 1], i - 1)
      BY <3>4
    <3>6. r[i] = SetValue(Insert(r[i - 1], t.hash[i - 1].key), t.hash[i - 1].value)
      BY <2>4, <3>4
    <3>7. HasFirst(t, r[i], (i - 1) + 1)
      BY <1>2, <3>4, <3>5, <3>6, FirstKept
    <3> QED BY <3>2, <3>4, <3>7
  <2>6. PICK u : u = r[t.size]
    OBVIOUS
  <2>7. HasFirst(t, u, t.size)
    BY <1>0, <2>5, <2>6
  <2>8. Good(u) /\ NoHoles(u) /\ u.size = 2 * t.size /\ u.size > t.size
    BY <1>0, <2>2, <2>7 DEF HasFirst
  <2>9. \A k, v : Has(u, k, v) <=> Has(t, k, v)
    BY <2>7 DEF HasFirst, Has, Slots
  <2>10. ZeroOf(u) = IF \E j \in Slots(t) \ {0} : t.hash[j].key = 0 THEN NULL ELSE ZeroOf(t)
    <3>1. 1..(t.size - 1) = Slots(t) \ {0}
      BY <1>0 DEF Slots
    <3>2. t.hash[0].value = ZeroOf(t)
      BY <1>2, SizeIsTwo DEF Good, Placed, ZeroOf
    <3> QED BY <1>2, <2>7, <3>1, <3>2 DEF HasFirst
  <2>11. ASSUME NEW k \in Nat PROVE ~IsFull(u, k)
    <3>1. \A j, v : Has(u, j, v) => \E i \in Slots(t) \ {0} : t.hash[i].key = j
      <4>1. t.hash[0].key = 0
        BY <1>2, SizeIsTwo DEF Good, Placed
      <4> QED BY <2>9, <4>1 DEF Has
    <3> QED BY <1>2, <2>8, <3>1, TwiceIsEnough
  <2> QED BY <2>1, <2>6, <2>8, <2>9, <2>10, <2>11 DEF Resized
<1> QED BY <1>1, <1>2

-----------------------------------------------------------------------------
(* The operations. *)

\* A key is found where it is, and nowhere else.
LEMMA GetIs ==
    ASSUME NEW t, Good(t), NEW k \in Nat, NEW i, i = pb_gettable(t, k)
    PROVE  /\ i = -1 => IF k = 0 THEN ~t.zero ELSE \A j \in Slots(t) : t.hash[j].key # k
           /\ i # -1 => /\ i \in Slots(t) /\ t.size # 0 /\ t.hash[i].key = k
                        /\ k = 0 => i = 0 /\ t.zero
                        /\ k # 0 => i # 0 /\ i \in Chain(t, pbT_hash(t, k))
<1>1. CASE t.size = 0
  <2>1. i = -1 /\ ~t.zero /\ Slots(t) = {}
    BY <1>1 DEF pb_gettable, Good, Formed, Slots
  <2> QED BY <2>1
<1>2. CASE t.size # 0 /\ k = 0
  <2>1. i = IF t.zero THEN 0 ELSE -1
    BY <1>2 DEF pb_gettable
  <2>2. 0 \in Slots(t) /\ t.hash[0].key = 0
    BY <1>2, SizeIsTwo DEF Good, Placed
  <2> QED BY <1>2, <2>1, <2>2
<1>3. CASE t.size # 0 /\ k # 0
  <2> DEFINE found == {j \in Chain(t, pbT_hash(t, k)) : t.hash[j].key = k}
  <2>1. i = IF found = {} THEN -1 ELSE CHOOSE j \in found : TRUE
    BY <1>3 DEF pb_gettable
  <2>2. pbT_hash(t, k) \in Slots(t)
    BY <1>3, HashRange, SizeIsTwo DEF Good
  <2>3. Chain(t, pbT_hash(t, k)) \subseteq Slots(t)
    BY <2>2, ChainSlots DEF Good
  <2>4. \A j \in Slots(t) : j # -1 /\ (t.hash[j].key = k => j # 0)
    <3>1. t.hash[0].key = 0
      BY <1>3, SizeIsTwo DEF Good, Placed
    <3>2. t.size \in Nat
      BY DEF Good, Formed
    <3> QED BY <1>3, <3>1, <3>2 DEF Slots
  <2>5. CASE found = {}
    <3>1. \A j \in Slots(t) : t.hash[j].key # k
      BY <1>3, <2>5 DEF Good, Placed
    <3> QED BY <1>3, <2>1, <2>5, <3>1
  <2>6. CASE found # {}
    <3>1. i \in found
      BY <2>1, <2>6
    <3> QED BY <1>3, <2>3, <2>4, <3>1
  <2> QED BY <2>5, <2>6
<1> QED BY <1>1, <1>2, <1>3

\* What a slot is overwritten with.
LEMMA OverwriteIs ==
    ASSUME NEW t, Good(t), NEW i \in Slots(t), NEW k \in Nat, NEW v \in PbValues \union {NULL},
           NEW u, u = Write(t, i, EntryOf(k, t.hash[i].next, v))
    PROVE  Rewritten(t, u, i, k, v) /\ u.zero = t.zero
<1>1. t.hash[i].next \in 0..(t.size - 1)
  BY NextTyped DEF Good, Slots
<1> DEFINE e == EntryOf(k, t.hash[i].next, v)
<1>2. e \in Entries(t.size) /\ e.key = k /\ e.next = t.hash[i].next /\ e.value = v
  BY <1>1, EntryIs
<1> HIDE DEF e
<1>3. /\ Formed(u) /\ u.size = t.size /\ u.lastfree = t.lastfree /\ u.zero = t.zero
      /\ \A j \in Slots(t) : u.hash[j] = IF j = i THEN e ELSE t.hash[j]
  BY <1>2, WriteIs DEF Good, e
<1> QED BY <1>2, <1>3 DEF Rewritten

LEMMA SetKeeps ==
    ASSUME NEW t, Good(t), NEW k \in Nat, NEW v \in PbValues, NEW u, u = SetValue(pb_settable(t, k), v)
    PROVE  /\ Good(u)
           /\ \A j, w : Has(u, j, w) <=> (j # k /\ Has(t, j, w)) \/ (k # 0 /\ j = k /\ w = v)
           /\ ZeroOf(u) = IF k = 0 THEN v ELSE IF GrewOverHole(t, u) THEN NULL ELSE ZeroOf(t)
<1> DEFINE i == pb_gettable(t, k)
<1>0. t.size \in Nat
  BY DEF Good, Formed
<1>1. CASE i # -1
  <2>1. i \in Slots(t) /\ t.size # 0 /\ t.hash[i].key = k /\ (k = 0 => i = 0 /\ t.zero)
        /\ (k # 0 => i # 0 /\ i \in Chain(t, pbT_hash(t, k)))
    BY <1>1, GetIs
  <2>2. pb_settable(t, k) = [i |-> i, t |-> t]
    BY <1>1 DEF pb_settable
  <2> HIDE DEF i
  <2>3. u = Write(t, i, EntryOf(k, t.hash[i].next, v))
    BY <2>1, <2>2 DEF SetValue
  <2>4. Rewritten(t, u, i, k, v) /\ u.zero = t.zero
    BY <2>1, <2>3, OverwriteIs
  <2>5. k # 0 => \A j \in Slots(t) \ {i} : t.hash[j].key # k
    BY <2>1 DEF Good, Placed
  <2>6. Good(u)
    BY <2>1, <2>4, <2>5, RewrittenGood
  <2>7. /\ u.size = t.size /\ Slots(u) = Slots(t)
        /\ \A j \in Slots(t) : /\ u.hash[j].key = IF j = i THEN k ELSE t.hash[j].key
                               /\ u.hash[j].value = IF j = i THEN v ELSE t.hash[j].value
    BY <2>4 DEF Rewritten, Slots
  <2>8. ASSUME NEW j, NEW w PROVE Has(u, j, w) <=> (j # k /\ Has(t, j, w)) \/ (k # 0 /\ j = k /\ w = v)
    BY <2>1, <2>5, <2>7 DEF Has
  <2>9. ~GrewOverHole(t, u)
    BY <1>0, <2>7 DEF GrewOverHole
  <2>10. ZeroOf(u) = IF k = 0 THEN v ELSE ZeroOf(t)
    <3>1. 0 \in Slots(t)
      BY <2>1, SizeIsTwo DEF Good
    <3> QED BY <2>1, <2>4, <2>7, <3>1 DEF ZeroOf
  <2> QED BY <2>6, <2>8, <2>9, <2>10
<1>2. CASE i = -1
  <2>1. k # 0 => \A j \in Slots(t) : t.hash[j].key # k
    BY <1>2, GetIs
  <2>2. u = SetValue(pbT_newkey(t, k), v)
    BY <1>2 DEF pb_settable
  <2> HIDE DEF i
  <2>3. v \in PbValues \union {NULL}
    OBVIOUS
  <2>4. CASE ~IsFull(t, k)
    <3>1. u = SetValue(Insert(t, k), v) /\ t.size # 0
      BY <2>2, <2>4 DEF pbT_newkey, IsFull
    <3>2. Added(t, u, k, v)
      BY <2>1, <2>3, <2>4, <3>1, InsertAdded
    <3>3. ~GrewOverHole(t, u)
      BY <1>0, <3>2 DEF GrewOverHole, Added
    <3>4. \A w : k # 0 => ~Has(t, k, w)
      BY <2>1 DEF Has
    <3>5. \A w : ~Has(t, 0, w)
      BY DEF Has
    <3> QED BY <3>2, <3>3, <3>4, <3>5 DEF Added
  <2>5. CASE IsFull(t, k)
    <3> DEFINE b == pb_resizetable(t)
    <3>1. u = SetValue(Insert(b, k), v)
      BY <2>2, <2>5 DEF pbT_newkey
    <3>2. Resized(t, b)
      BY ResizeKeeps
    <3> HIDE DEF b
    <3>3. b.size # 0 /\ Good(b) /\ ~IsFull(b, k) /\ b.size > t.size
      BY <1>0, <3>2 DEF Resized
    <3>4. \A w : ~Has(t, 0, w) /\ ~Has(t, k, w)
      BY <2>1 DEF Has
    <3>5. k # 0 => \A j \in Slots(b) : b.hash[j].key # k
      <4> SUFFICES ASSUME k # 0, NEW j \in Slots(b), b.hash[j].key = k PROVE FALSE
        OBVIOUS
      <4>1. Has(b, k, b.hash[j].value)
        BY DEF Has
      <4> QED BY <3>2, <3>4, <4>1 DEF Resized
    <3>6. Added(b, u, k, v)
      BY <2>3, <3>1, <3>3, <3>5, InsertAdded
    <3>7. GrewOverHole(t, u) <=> \E j \in Slots(t) \ {0} : t.hash[j].key = 0
      BY <3>3, <3>6 DEF GrewOverHole, Added
    <3>8. \A j, w : Has(u, j, w) <=> Has(t, j, w) \/ (k # 0 /\ j = k /\ w = v)
      BY <3>2, <3>6 DEF Resized, Added
    <3>9. \A j, w : Has(u, j, w) <=> (j # k /\ Has(t, j, w)) \/ (k # 0 /\ j = k /\ w = v)
      BY <3>4, <3>8
    <3>10. ZeroOf(u) = IF k = 0 THEN v ELSE IF GrewOverHole(t, u) THEN NULL ELSE ZeroOf(t)
      BY <3>2, <3>6, <3>7 DEF Resized, Added
    <3> QED BY <3>6, <3>9, <3>10 DEF Added
  <2> QED BY <2>4, <2>5
<1> QED BY <1>1, <1>2

LEMMA ValueIs ==
    ASSUME NEW t, Good(t), NEW k \in Nat
    PROVE  Value(t, k) = IF k = 0 THEN ZeroOf(t)
                         ELSE IF pb_gettable(t, k) = -1 THEN NULL ELSE t.hash[pb_gettable(t, k)].value
BY GetIs DEF Value, ZeroOf

-----------------------------------------------------------------------------
(* Every step keeps the invariant. *)

LEMMA EmptyIs ==
    ASSUME NEW t, t = EmptyTable
    PROVE  Good(t) /\ Slots(t) = {} /\ ZeroOf(t) = NULL
<1>1. /\ t = [size |-> 0, lastfree |-> 0, zero |-> FALSE, hash |-> [i \in 0..(0 - 1) |-> NoEntry]]
      /\ t.size = 0 /\ t.lastfree = 0 /\ ~t.zero /\ t.zero \in BOOLEAN /\ t.hash = [i \in 0..(0 - 1) |-> NoEntry]
  BY DEF EmptyTable, Blank
<1>2. Slots(t) = {}
  BY <1>1 DEF Slots
<1>3. Formed(t)
  <2>1. t = [size |-> t.size, lastfree |-> t.lastfree, zero |-> t.zero, hash |-> t.hash]
    BY <1>1
  <2>2. t.hash \in [Slots(t) -> Entries(t.size)]
    BY <1>1, <1>2 DEF Slots
  <2>3. t.size \in Nat /\ t.lastfree \in Nat
    BY <1>1
  <2>4. t.size = 0 /\ ~t.zero /\ t.zero \in BOOLEAN
    BY <1>1
  <2> QED BY <2>1, <2>2, <2>3, <2>4 DEF Formed
<1>4. Ranked(t)
  <2> DEFINE r == [i \in Slots(t) |-> 0]
  <2>1. r \in [Slots(t) -> Nat]
    OBVIOUS
  <2> QED BY <1>2, <2>1 DEF Ranked
<1> QED BY <1>1, <1>2, <1>3, <1>4 DEF Good, Chained, Placed, ZeroOf

LEMMA TableInitKeeps ==
    ASSUME TableInit
    PROVE  TIInv
<1>1. Good(table) /\ Slots(table) = {} /\ ZeroOf(table) = NULL
  BY EmptyIs DEF TableInit
<1> QED BY <1>1 DEF TIInv, Holds, TableInit, Has

LEMMA PutKeyKeeps ==
    ASSUME TIInv, NEW k \in PbKeys, NEW v \in PbValues, PutKey(k, v)
    PROVE  TIInv'
<1>0. k \in Nat /\ v # NULL
  BY PbTableAssumption
<1>1. /\ Good(table')
      /\ \A j, w : Has(table', j, w) <=> (j # k /\ Has(table, j, w)) \/ (k # 0 /\ j = k /\ w = v)
      /\ ZeroOf(table') = IF k = 0 THEN v ELSE IF GrewOverHole(table, table') THEN NULL ELSE ZeroOf(table)
  BY <1>0, SetKeeps DEF TIInv, PutKey
<1>2. held' = [i \in PbKeys |-> IF i = k THEN v ELSE IF i = 0 /\ GrewOverHole(table, table') THEN NULL ELSE held[i]]
  BY DEF PutKey
<1>3. /\ held \in [PbKeys -> PbValues \union {NULL}]
      /\ \A j \in PbKeys \ {0} : held[j] # NULL => Has(table, j, held[j])
      /\ \A j, w : Has(table, j, w) => j \in PbKeys /\ w = held[j] /\ w # NULL
      /\ ZeroOf(table) = IF 0 \in PbKeys THEN held[0] ELSE NULL
  BY DEF TIInv, Holds
<1>4. held' \in [PbKeys -> PbValues \union {NULL}]
  BY <1>2, <1>3
<1>5. \A j \in PbKeys : held'[j] = IF j = k THEN v ELSE IF j = 0 /\ GrewOverHole(table, table') THEN NULL ELSE held[j]
  BY <1>2
<1>6. \A j, w : Has(table, j, w) => j # 0
  BY DEF Has
<1>7. \A j \in PbKeys \ {0} : held'[j] # NULL => Has(table', j, held'[j])
  BY <1>1, <1>3, <1>5
<1>8. \A j, w : Has(table', j, w) => j \in PbKeys /\ w = held'[j] /\ w # NULL
  BY <1>0, <1>1, <1>3, <1>5, <1>6
<1>9. ZeroOf(table') = IF 0 \in PbKeys THEN held'[0] ELSE NULL
  BY <1>1, <1>3, <1>5
<1> QED BY <1>1, <1>4, <1>7, <1>8, <1>9 DEF TIInv, Holds, Good, Has, ZeroOf

LEMMA RemoveKeyKeeps ==
    ASSUME TIInv, NEW k \in PbKeys, RemoveKey(k)
    PROVE  TIInv'
<1> DEFINE i == pb_gettable(table, k)
<1>0. k \in Nat
  BY PbTableAssumption
<1>1. i # -1
  BY DEF RemoveKey, Value
<1>2. i \in Slots(table) /\ table.size # 0 /\ table.hash[i].key = k /\ (k = 0 => i = 0 /\ table.zero) /\ (k # 0 => i # 0)
  BY <1>0, <1>1, GetIs DEF TIInv
<1>3. table' = Write(table, i, EntryOf(0, table.hash[i].next, NULL))
  BY DEF RemoveKey
<1> HIDE DEF i
<1>4. Rewritten(table, table', i, 0, NULL) /\ table'.zero = table.zero
  <2>1. 0 \in Nat /\ NULL \in PbValues \union {NULL}
    OBVIOUS
  <2> QED BY <1>2, <1>3, <2>1, OverwriteIs DEF TIInv
<1>5. Good(table')
  <2>1. 0 \in Nat
    OBVIOUS
  <2> QED BY <1>2, <1>4, <2>1, RewrittenGood DEF TIInv
<1>6. /\ Slots(table') = Slots(table)
      /\ \A j \in Slots(table) : /\ table'.hash[j].key = IF j = i THEN 0 ELSE table.hash[j].key
                                 /\ table'.hash[j].value = IF j = i THEN NULL ELSE table.hash[j].value
  BY <1>4 DEF Rewritten, Slots
<1>7. k # 0 => \A j \in Slots(table) \ {i} : table.hash[j].key # k
  BY <1>2 DEF TIInv, Good, Placed
<1>8. ASSUME NEW j, NEW w PROVE Has(table', j, w) <=> j # k /\ Has(table, j, w)
  BY <1>2, <1>6, <1>7 DEF Has
<1>9. ZeroOf(table') = IF k = 0 THEN NULL ELSE ZeroOf(table)
  <2>1. 0 \in Slots(table)
    BY <1>2, SizeIsTwo DEF TIInv, Good
  <2> QED BY <1>2, <1>4, <1>6, <2>1 DEF ZeroOf
<1>10. /\ held \in [PbKeys -> PbValues \union {NULL}]
       /\ \A j \in PbKeys \ {0} : held[j] # NULL => Has(table, j, held[j])
       /\ \A j, w : Has(table, j, w) => j \in PbKeys /\ w = held[j] /\ w # NULL
       /\ ZeroOf(table) = IF 0 \in PbKeys THEN held[0] ELSE NULL
  BY DEF TIInv, Holds
<1>11. /\ held' \in [PbKeys -> PbValues \union {NULL}]
       /\ \A j \in PbKeys : held'[j] = IF j = k THEN NULL ELSE held[j]
  BY <1>10 DEF RemoveKey
<1>12. \A j \in PbKeys \ {0} : held'[j] # NULL => Has(table', j, held'[j])
  BY <1>8, <1>10, <1>11
<1>13. \A j, w : Has(table', j, w) => j \in PbKeys /\ w = held'[j] /\ w # NULL
  BY <1>8, <1>10, <1>11
<1>14. ZeroOf(table') = IF 0 \in PbKeys THEN held'[0] ELSE NULL
  BY <1>9, <1>10, <1>11
<1> QED BY <1>5, <1>11, <1>12, <1>13, <1>14 DEF TIInv, Holds, Good, Has, ZeroOf

LEMMA FreeKeeps ==
    ASSUME pb_freetable
    PROVE  TIInv'
<1>1. Good(table') /\ Slots(table') = {} /\ ZeroOf(table') = NULL
  BY EmptyIs DEF pb_freetable
<1> QED BY <1>1 DEF TIInv, Holds, pb_freetable, Has, Good, ZeroOf

LEMMA TableStutters ==
    ASSUME TIInv, UNCHANGED tableVars
    PROVE  TIInv'
BY DEF TIInv, Holds, tableVars, Good, Has, ZeroOf

LEMMA TIInvIsMap ==
    ASSUME TIInv
    PROVE  TableIsMap
<1>1. /\ Good(table) /\ held \in [PbKeys -> PbValues \union {NULL}]
      /\ \A j \in PbKeys \ {0} : held[j] # NULL => Has(table, j, held[j])
      /\ \A j, w : Has(table, j, w) => j \in PbKeys /\ w = held[j] /\ w # NULL
      /\ ZeroOf(table) = IF 0 \in PbKeys THEN held[0] ELSE NULL
  BY DEF TIInv, Holds
<1>2. table.zero => 0 \in Slots(table) /\ table.hash[0].key = 0
  <2>1. table.zero => table.size # 0
    BY <1>1 DEF Good, Formed
  <2> QED BY <1>1, <2>1, SizeIsTwo DEF Good, Placed
<1>3. ASSUME NEW k \in PbKeys PROVE Value(table, k) = held[k]
  <2>1. k \in Nat
    BY PbTableAssumption
  <2>2. CASE k = 0
    BY <1>1, <2>1, <2>2, ValueIs
  <2>3. CASE k # 0
    <3>1. PICK i : i = pb_gettable(table, k)
      OBVIOUS
    <3>2. Value(table, k) = IF i = -1 THEN NULL ELSE table.hash[i].value
      BY <1>1, <2>1, <2>3, <3>1, ValueIs
    <3>3. CASE i = -1
      <4>1. \A j \in Slots(table) : table.hash[j].key # k
        BY <1>1, <2>1, <2>3, <3>1, <3>3, GetIs
      <4>2. held[k] = NULL
        BY <1>1, <2>3, <4>1 DEF Has
      <4> QED BY <3>2, <3>3, <4>2
    <3>4. CASE i # -1
      <4>1. i \in Slots(table) /\ table.hash[i].key = k
        BY <1>1, <2>1, <3>1, <3>4, GetIs
      <4>2. Has(table, k, table.hash[i].value)
        BY <2>3, <4>1 DEF Has
      <4> QED BY <1>1, <3>2, <3>4, <4>2
    <3> QED BY <3>3, <3>4
  <2> QED BY <2>2, <2>3
<1>4. \A i \in Visited(table) : IF i = 0 THEN table.zero ELSE table.hash[i].key # 0
  BY DEF Visited
<1>5. Visited(table) \subseteq Slots(table)
  BY DEF Visited
<1>6. \A i, j \in Visited(table) : table.hash[i].key = table.hash[j].key => i = j
  <2> SUFFICES ASSUME NEW i \in Visited(table), NEW j \in Visited(table), table.hash[i].key = table.hash[j].key
               PROVE  i = j
    OBVIOUS
  <2>1. CASE table.hash[i].key = 0
    BY <1>2, <1>4, <2>1
  <2>2. CASE table.hash[i].key # 0
    BY <1>1, <1>5, <2>2 DEF Good, Placed
  <2> QED BY <2>1, <2>2
<1>7. ASSUME NEW k \in PbKeys, held[k] # NULL
      PROVE  \E i \in Visited(table) : table.hash[i].key = k /\ table.hash[i].value = held[k]
  <2>1. CASE k = 0
    <3>1. table.zero /\ table.hash[0].value = held[0]
      BY <1>1, <1>7, <2>1 DEF ZeroOf
    <3>2. 0 \in Visited(table)
      BY <1>2, <3>1 DEF Visited
    <3> QED BY <1>2, <2>1, <3>1, <3>2
  <2>2. CASE k # 0
    <3>1. PICK i \in Slots(table) : table.hash[i].key = k /\ table.hash[i].value = held[k]
      BY <1>1, <1>7, <2>2 DEF Has
    <3>2. i # 0
      BY <1>1, <2>2, <3>1 DEF Good, Placed
    <3>3. i \in Visited(table)
      BY <2>2, <3>1, <3>2 DEF Visited
    <3> QED BY <3>1, <3>3
  <2> QED BY <2>1, <2>2
<1>8. ASSUME NEW i \in Visited(table), table.hash[i].value # NULL
      PROVE  held[table.hash[i].key] = table.hash[i].value
  <2>1. CASE i = 0
    BY <1>1, <1>2, <1>4, <1>8, <2>1 DEF ZeroOf
  <2>2. CASE i # 0
    <3>1. Has(table, table.hash[i].key, table.hash[i].value)
      BY <1>4, <1>5, <2>2 DEF Has
    <3> QED BY <1>1, <3>1
  <2> QED BY <2>1, <2>2
<1>9. HeadsAreFree
  BY <1>1 DEF Good, Chained, HeadsAreFree
<1> QED BY <1>3, <1>6, <1>7, <1>8, <1>9 DEF TableIsMap, IsMap

-----------------------------------------------------------------------------
(* Theorems. *)

\* A hash table of protobuf holds what was put under a key last, or nothing if that was
\* removed, for all keys and values and any multiplier and smallest size: it is found by the
\* chain of its key, and come by just once; and no slot that can be used for another key
\* comes after one of a chain.  Only key 0 may be lost: when the table grows and has a slot
\* whose key was removed.
THEOREM TableMaps == TableSpec => []TableIsMap
<1>1. TableInit => TIInv
  BY TableInitKeeps
<1>2. TIInv /\ [TableNext]_tableVars => TIInv'
  <2> SUFFICES ASSUME TIInv, [TableNext]_tableVars PROVE TIInv'
    OBVIOUS
  <2>1. ASSUME NEW k \in PbKeys, RemoveKey(k) PROVE TIInv'
    BY <2>1, RemoveKeyKeeps
  <2>2. ASSUME NEW k \in PbKeys, NEW v \in PbValues, PutKey(k, v) PROVE TIInv'
    BY <2>2, PutKeyKeeps
  <2>3. CASE pb_freetable
    BY <2>3, FreeKeeps
  <2>4. CASE UNCHANGED tableVars
    BY <2>4, TableStutters
  <2> QED BY <2>1, <2>2, <2>3, <2>4 DEF TableNext
<1>3. TIInv => TableIsMap
  BY TIInvIsMap
<1> QED BY <1>1, <1>2, <1>3, PTL DEF TableSpec

-----------------------------------------------------------------------------
(* KTable: the keys of the trees.                                          *)

Nodes == [kind : Kinds, key : Nat]
Meanings == LuaValues \union {NoValue} \union Nat

\* What a tree and a tab must be for the nodes to be about what they were made with.
NodeGood(node, tab, v) ==
    /\ HasKey(node) => node.key <= Len(tab)
    /\ Named(node, tab) = v

TreeGood(tree, tab, means) ==
    /\ tree \in Seq(Nodes) /\ tab \in Seq(LuaValues) /\ means \in Seq(Meanings)
    /\ Len(tree) = Len(means)
    /\ \A i \in 1..Len(tree) : NodeGood(tree[i], tab, means[i])

TablesOK ==
    /\ ktables \in Seq(Seq(LuaValues)) /\ Len(ktables) >= 1
    /\ ktables[META] = <<>>

KInv ==
    /\ TablesOK
    /\ patterns \in Seq([tree : Seq(Nodes), ktable : Nat, means : Seq(Meanings)])
    /\ \A p \in 1..Len(patterns) :
         /\ patterns[p].ktable \in 1..Len(ktables)
         /\ TreeGood(patterns[p].tree, TableAt(p), patterns[p].means)

LEMMA NodeMoves ==
    ASSUME NEW node \in Nodes, NEW T \in Seq(LuaValues), NEW U \in Seq(LuaValues), NEW v, NodeGood(node, U, v),
           NEW c, c = IF HasKey(node) THEN [kind |-> node.kind, key |-> node.key + Len(T)] ELSE node
    PROVE  c \in Nodes /\ NodeGood(c, T \o U, v)
<1>1. Len(T) \in Nat /\ Len(U) \in Nat /\ Len(T \o U) = Len(T) + Len(U) /\ node.key \in Nat
  BY ConcatProperties, LenProperties DEF Nodes
<1>2. CASE HasKey(node)
  <2>1. c.kind = node.kind /\ c.key = node.key + Len(T) /\ c \in Nodes /\ HasKey(c)
    BY <1>1, <1>2 DEF Nodes, HasKey
  <2>2. node.key \in 1..Len(U)
    BY <1>1, <1>2 DEF NodeGood, HasKey
  <2>3. (T \o U)[Len(T) + node.key] = U[node.key]
    BY <1>1, <2>2, ConcatProperties
  <2>4. c.key = Len(T) + node.key /\ c.key <= Len(T \o U)
    BY <1>1, <2>1, <2>2
  <2>5. Named(c, T \o U) = Named(node, U)
    BY <1>2, <2>1, <2>3, <2>4 DEF Named, HasKey
  <2> QED BY <2>1, <2>4, <2>5 DEF NodeGood
<1>3. CASE ~HasKey(node)
  <2>1. c = node
    BY <1>3
  <2>2. Named(node, T \o U) = Named(node, U)
    BY <1>3 DEF Named
  <2> QED BY <1>3, <2>1, <2>2 DEF NodeGood
<1> QED BY <1>2, <1>3

LEMMA NodeStays ==
    ASSUME NEW node \in Nodes, NEW T \in Seq(LuaValues), NEW U \in Seq(LuaValues), NEW v, NodeGood(node, T, v)
    PROVE  NodeGood(node, T \o U, v)
<1>1. Len(T) \in Nat /\ Len(U) \in Nat /\ Len(T \o U) = Len(T) + Len(U) /\ node.key \in Nat
  BY ConcatProperties, LenProperties DEF Nodes
<1>2. CASE HasKey(node)
  <2>1. node.key \in 1..Len(T)
    BY <1>1, <1>2 DEF NodeGood, HasKey
  <2>2. (T \o U)[node.key] = T[node.key]
    BY <2>1, ConcatProperties
  <2> QED BY <1>1, <1>2, <2>1, <2>2 DEF NodeGood, Named, HasKey
<1>3. CASE ~HasKey(node)
  BY <1>3 DEF NodeGood, Named
<1> QED BY <1>2, <1>3

LEMMA Stays ==
    ASSUME NEW t, NEW T, NEW m, TreeGood(t, T, m), NEW U \in Seq(LuaValues)
    PROVE  TreeGood(t, T \o U, m)
<1>1. T \o U \in Seq(LuaValues)
  BY ConcatProperties DEF TreeGood
<1>2. ASSUME NEW i \in 1..Len(t) PROVE NodeGood(t[i], T \o U, m[i])
  <2>1. t[i] \in Nodes
    BY ElementOfSeq DEF TreeGood
  <2> QED BY <2>1, NodeStays DEF TreeGood
<1> QED BY <1>1, <1>2 DEF TreeGood

\* What is corrected by the length of the table that comes before its own.
LEMMA Moves ==
    ASSUME NEW u, NEW U, NEW m, TreeGood(u, U, m), NEW T \in Seq(LuaValues)
    PROVE  TreeGood(correctkeys(u, Len(T)), T \o U, m)
<1>1. T \o U \in Seq(LuaValues)
  BY ConcatProperties DEF TreeGood
<1>2. PICK c : c = correctkeys(u, Len(T))
  OBVIOUS
<1>3. c = [i \in 1..Len(u) |-> IF HasKey(u[i]) THEN [kind |-> u[i].kind, key |-> u[i].key + Len(T)] ELSE u[i]]
  BY <1>2, LenProperties DEF correctkeys, TreeGood
<1>4. ASSUME NEW i \in 1..Len(u) PROVE c[i] \in Nodes /\ NodeGood(c[i], T \o U, m[i])
  <2>1. u[i] \in Nodes /\ NodeGood(u[i], U, m[i])
    BY ElementOfSeq DEF TreeGood
  <2>2. c[i] = IF HasKey(u[i]) THEN [kind |-> u[i].kind, key |-> u[i].key + Len(T)] ELSE u[i]
    BY <1>3
  <2> QED BY <2>1, <2>2, NodeMoves DEF TreeGood
<1>5. c \in Seq(Nodes) /\ Len(c) = Len(u)
  <2>1. Len(u) \in Nat /\ c \in [1..Len(u) -> Nodes]
    BY <1>3, <1>4, LenProperties DEF TreeGood
  <2> QED BY <2>1, LenProperties, SeqDef
<1> QED BY <1>1, <1>2, <1>4, <1>5 DEF TreeGood

LEMMA Both ==
    ASSUME NEW t, NEW u, NEW T, NEW m, NEW n, TreeGood(t, T, m), TreeGood(u, T, n)
    PROVE  TreeGood(t \o u, T, m \o n)
<1>1. /\ t \o u \in Seq(Nodes) /\ m \o n \in Seq(Meanings)
      /\ Len(t \o u) = Len(t) + Len(u) /\ Len(m \o n) = Len(m) + Len(n)
      /\ Len(t) \in Nat /\ Len(u) \in Nat
  BY ConcatProperties, LenProperties DEF TreeGood
<1>2. ASSUME NEW i \in 1..Len(t \o u) PROVE NodeGood((t \o u)[i], T, (m \o n)[i])
  <2>1. CASE i \in 1..Len(t)
    <3>1. (t \o u)[i] = t[i] /\ (m \o n)[i] = m[i]
      BY <2>1, ConcatProperties DEF TreeGood
    <3> QED BY <2>1, <3>1 DEF TreeGood
  <2>2. CASE i \notin 1..Len(t)
    <3>1. i - Len(t) \in 1..Len(u) /\ i = Len(t) + (i - Len(t))
      BY <1>1, <2>2
    <3>2. PICK j \in 1..Len(u) : j = i - Len(t)
      BY <3>1
    <3>3. (t \o u)[Len(t) + j] = u[j] /\ (m \o n)[Len(m) + j] = n[j]
      BY <3>2, ConcatProperties DEF TreeGood
    <3>4. (t \o u)[i] = u[j] /\ (m \o n)[i] = n[j]
      BY <3>1, <3>2, <3>3 DEF TreeGood
    <3> QED BY <3>4 DEF TreeGood
  <2> QED BY <2>1, <2>2
<1> QED BY <1>1, <1>2 DEF TreeGood

LEMMA One ==
    ASSUME NEW node \in Nodes, NEW T \in Seq(LuaValues), NEW v \in Meanings, NodeGood(node, T, v)
    PROVE  TreeGood(<<node>>, T, <<v>>)
BY DEF TreeGood

LEMMA None == ASSUME NEW T \in Seq(LuaValues) PROVE TreeGood(<<>>, T, <<>>)
BY DEF TreeGood

\* A value that is put behind a table.
LEMMA NewKeyAdded ==
    ASSUME NEW T \in Seq(LuaValues), NEW v \in Lua, NEW kind \in {"value", "open"}
    PROVE  LET new == addtoktable(T, v) IN
           /\ new.table \in Seq(LuaValues) /\ (\E U \in Seq(LuaValues) : new.table = T \o U)
           /\ KeyNode(kind, new.key) \in Nodes /\ NodeGood(KeyNode(kind, new.key), new.table, v)
           /\ v \in Meanings
<1>0. Len(T) \in Nat /\ v \in Meanings /\ kind \in Kinds
  BY LenProperties DEF Lua, Meanings, Kinds
<1>n. PICK new, node : new = addtoktable(T, v) /\ node = KeyNode(kind, new.key)
  OBVIOUS
<1>k. node.kind = kind /\ node.key = new.key /\ node = [kind |-> kind, key |-> new.key] /\ kind # "plain"
  BY <1>n DEF KeyNode
<1>1. CASE v = NoValue
  <2>1. <<>> \in Seq(LuaValues) /\ T = T \o <<>>
    BY ConcatEmptySeq, EmptySeq
  <2>2. new.key = 0 /\ new.table = T
    BY <1>1, <1>n DEF addtoktable
  <2>3. node \in Nodes
    BY <1>0, <1>k, <2>2 DEF Nodes
  <2>4. NodeGood(node, T, v)
    BY <1>1, <1>k, <2>2 DEF NodeGood, Named, HasKey
  <2> QED BY <1>0, <1>n, <2>1, <2>2, <2>3, <2>4
<1>2. CASE v # NoValue
  <2>1. new.key = Len(T) + 1 /\ new.table = Append(T, v) /\ v \in LuaValues
    BY <1>2, <1>n DEF addtoktable, Lua
  <2>2. /\ Append(T, v) \in Seq(LuaValues) /\ Len(Append(T, v)) = Len(T) + 1
        /\ Append(T, v)[Len(T) + 1] = v
    BY <2>1, AppendProperties
  <2>3. <<v>> \in Seq(LuaValues) /\ Append(T, v) = T \o <<v>>
    BY <2>1, AppendIsConcat
  <2>4. node \in Nodes
    BY <1>0, <1>k, <2>1 DEF Nodes
  <2>5. NodeGood(node, new.table, v)
    BY <1>0, <1>k, <2>1, <2>2 DEF NodeGood, Named, HasKey
  <2> QED BY <1>0, <1>n, <2>1, <2>2, <2>3, <2>4, <2>5
<1> QED BY <1>1, <1>2

\* A pattern comes with a table of its own, or with one that is there.
LEMMA MadeNew ==
    ASSUME KInv, NEW t, NEW T, NEW m, TreeGood(t, T, m), Made(t, NewTable, m), Adds(T)
    PROVE  KInv'
<1>1. /\ ktables \in Seq(Seq(LuaValues)) /\ Len(ktables) \in Nat /\ T \in Seq(LuaValues) /\ Len(patterns) \in Nat
      /\ ktables' \in Seq(Seq(LuaValues)) /\ Len(ktables') = Len(ktables) + 1 /\ ktables'[Len(ktables) + 1] = T
      /\ \A i \in 1..Len(ktables) : ktables'[i] = ktables[i]
  BY AppendProperties, LenProperties DEF KInv, TablesOK, Adds, TreeGood
<1>2. TablesOK'
  <2>1. META \in 1..Len(ktables)
    BY <1>1 DEF KInv, TablesOK, META
  <2> QED BY <1>1, <2>1 DEF KInv, TablesOK
<1>3. PICK P : P = Pattern(t, NewTable, m)
  OBVIOUS
<1>4. P.tree = t /\ P.ktable = Len(ktables) + 1 /\ P.means = m /\ P \in [tree : Seq(Nodes), ktable : Nat, means : Seq(Meanings)]
  BY <1>1, <1>3 DEF Pattern, NewTable, TreeGood
<1>5. /\ patterns' \in Seq([tree : Seq(Nodes), ktable : Nat, means : Seq(Meanings)])
      /\ Len(patterns') = Len(patterns) + 1 /\ patterns'[Len(patterns) + 1] = P
      /\ \A i \in 1..Len(patterns) : patterns'[i] = patterns[i]
  BY <1>3, <1>4, AppendProperties DEF KInv, Made
<1>6. ASSUME NEW p \in 1..Len(patterns')
      PROVE  patterns'[p].ktable \in 1..Len(ktables') /\ TreeGood(patterns'[p].tree, TableAt(p)', patterns'[p].means)
  <2>1. CASE p \in 1..Len(patterns)
    <3>1. patterns[p].ktable \in 1..Len(ktables) /\ patterns'[p] = patterns[p] /\ TreeGood(patterns[p].tree, TableAt(p), patterns[p].means)
      BY <1>5, <2>1 DEF KInv
    <3>2. TableAt(p)' = TableAt(p)
      BY <1>1, <3>1 DEF TableAt
    <3> QED BY <1>1, <3>1, <3>2
  <2>2. CASE p \notin 1..Len(patterns)
    <3>1. p = Len(patterns) + 1
      BY <1>1, <1>5, <2>2
    <3>2. patterns'[p] = P /\ TableAt(p)' = T
      BY <1>1, <1>4, <1>5, <3>1 DEF TableAt
    <3> QED BY <1>1, <1>4, <3>2
  <2> QED BY <2>1, <2>2
<1> QED BY <1>2, <1>5, <1>6 DEF KInv

LEMMA MadeShared ==
    ASSUME KInv, NEW t, NEW k \in 1..Len(ktables), NEW m, TreeGood(t, ktables[k], m), Made(t, k, m), Shares(k)
    PROVE  KInv'
<1>1. ktables' = ktables /\ Len(ktables) \in Nat /\ Len(patterns) \in Nat
  BY LenProperties DEF KInv, TablesOK, Shares
<1>2. TablesOK'
  BY <1>1 DEF KInv, TablesOK
<1>3. PICK P : P = Pattern(t, k, m)
  OBVIOUS
<1>4. P.tree = t /\ P.ktable = k /\ P.means = m /\ P \in [tree : Seq(Nodes), ktable : Nat, means : Seq(Meanings)]
  BY <1>1, <1>3 DEF Pattern, TreeGood
<1>5. /\ patterns' \in Seq([tree : Seq(Nodes), ktable : Nat, means : Seq(Meanings)])
      /\ Len(patterns') = Len(patterns) + 1 /\ patterns'[Len(patterns) + 1] = P
      /\ \A i \in 1..Len(patterns) : patterns'[i] = patterns[i]
  BY <1>3, <1>4, AppendProperties DEF KInv, Made
<1>6. ASSUME NEW p \in 1..Len(patterns')
      PROVE  patterns'[p].ktable \in 1..Len(ktables') /\ TreeGood(patterns'[p].tree, TableAt(p)', patterns'[p].means)
  <2>1. CASE p \in 1..Len(patterns)
    <3>1. patterns[p].ktable \in 1..Len(ktables) /\ patterns'[p] = patterns[p] /\ TreeGood(patterns[p].tree, TableAt(p), patterns[p].means)
      BY <1>5, <2>1 DEF KInv
    <3>2. TableAt(p)' = TableAt(p)
      BY <1>1, <3>1 DEF TableAt
    <3> QED BY <1>1, <3>1, <3>2
  <2>2. CASE p \notin 1..Len(patterns)
    <3>1. p = Len(patterns) + 1
      BY <1>1, <1>5, <2>2
    <3>2. patterns'[p] = P /\ TableAt(p)' = ktables[k]
      BY <1>1, <1>4, <1>5, <3>1 DEF TableAt
    <3> QED BY <1>1, <1>4, <3>2
  <2> QED BY <2>1, <2>2
<1> QED BY <1>2, <1>5, <1>6 DEF KInv

LEMMA KnownPattern ==
    ASSUME KInv, NEW p \in DOMAIN patterns
    PROVE  /\ patterns[p].ktable \in 1..Len(ktables)
           /\ TableAt(p) = ktables[patterns[p].ktable] /\ TableAt(p) \in Seq(LuaValues) /\ Len(TableAt(p)) \in Nat
           /\ TreeGood(patterns[p].tree, TableAt(p), patterns[p].means)
<1>1. p \in 1..Len(patterns)
  BY LenProperties DEF KInv
<1>2. patterns[p].ktable \in 1..Len(ktables) /\ TreeGood(patterns[p].tree, TableAt(p), patterns[p].means)
  BY <1>1 DEF KInv
<1> QED BY <1>2, LenProperties DEF TableAt, TreeGood

LEMMA EmptyMeta == ASSUME KInv PROVE META \in 1..Len(ktables) /\ ktables[META] = <<>> /\ ktables[META] \in Seq(LuaValues)
<1>1. Len(ktables) \in Nat
  BY LenProperties DEF KInv, TablesOK
<1> QED BY <1>1, EmptySeq DEF KInv, TablesOK, META

LEMMA LeafKeeps == ASSUME KInv, Leaf PROVE KInv'
BY EmptyMeta, MadeShared, None DEF Leaf

LEMMA PlainGood ==
    ASSUME NEW n \in Nat, NEW T \in Seq(LuaValues) PROVE TreeGood(<<KeyNode("plain", n)>>, T, <<n>>)
<1>1. KeyNode("plain", n) \in Nodes /\ n \in Meanings /\ NodeGood(KeyNode("plain", n), T, n)
  BY DEF KeyNode, Nodes, Kinds, Meanings, NodeGood, HasKey, Named
<1> QED BY <1>1, One

LEMMA ArgumentKeeps == ASSUME KInv, Argument PROVE KInv'
<1>1. PICK n \in 1..MaxPlain : Made(<<KeyNode("plain", n)>>, META, <<n>>) /\ Shares(META)
  BY DEF Argument
<1>2. n \in Nat
  BY KTableAssumption
<1> QED BY <1>1, <1>2, EmptyMeta, PlainGood, MadeShared

LEMMA OneValueKeeps == ASSUME KInv, OneValue PROVE KInv'
<1>1. PICK kind \in {"value", "open"}, v \in Lua :
          Made(<<KeyNode(kind, addtoktable(<<>>, v).key)>>, NewTable, <<v>>) /\ Adds(addtoktable(<<>>, v).table)
  BY DEF OneValue
<1>2. <<>> \in Seq(LuaValues)
  BY EmptySeq
<1>3. TreeGood(<<KeyNode(kind, addtoktable(<<>>, v).key)>>, addtoktable(<<>>, v).table, <<v>>)
  BY <1>2, NewKeyAdded, One
<1> QED BY <1>1, <1>3, MadeNew

LEMMA ConstantsKeep == ASSUME KInv, Constants PROVE KInv'
<1>1. PICK v \in Lua, w \in Lua :
        LET first == addtoktable(<<>>, v)
            second == addtoktable(first.table, w) IN
        /\ Made(<<KeyNode("value", first.key), KeyNode("value", second.key)>>, NewTable, <<v, w>>)
        /\ Adds(second.table)
  BY DEF Constants
<1>2. PICK first : first = addtoktable(<<>>, v)
  OBVIOUS
<1>3. PICK second : second = addtoktable(first.table, w)
  OBVIOUS
<1>4. <<>> \in Seq(LuaValues)
  BY EmptySeq
<1>5. /\ first.table \in Seq(LuaValues) /\ KeyNode("value", first.key) \in Nodes
      /\ NodeGood(KeyNode("value", first.key), first.table, v) /\ v \in Meanings
  BY <1>2, <1>4, NewKeyAdded
<1>6. /\ second.table \in Seq(LuaValues) /\ (\E U \in Seq(LuaValues) : second.table = first.table \o U)
      /\ KeyNode("value", second.key) \in Nodes
      /\ NodeGood(KeyNode("value", second.key), second.table, w) /\ w \in Meanings
  BY <1>3, <1>5, NewKeyAdded
<1>9. TreeGood(<<KeyNode("value", first.key), KeyNode("value", second.key)>>, second.table, <<v, w>>)
  <2>1. PICK t, m : t = <<KeyNode("value", first.key), KeyNode("value", second.key)>> /\ m = <<v, w>>
    OBVIOUS
  <2>2. /\ t \in Seq(Nodes) /\ m \in Seq(Meanings) /\ Len(t) = 2 /\ Len(m) = 2
        /\ t[1] = KeyNode("value", first.key) /\ t[2] = KeyNode("value", second.key) /\ m[1] = v /\ m[2] = w
    BY <1>5, <1>6, <2>1
  <2>3. ASSUME NEW i \in 1..Len(t) PROVE NodeGood(t[i], second.table, m[i])
    <3>1. i = 1 \/ i = 2
      BY <2>2
    <3>2. NodeGood(KeyNode("value", first.key), second.table, v)
      BY <1>5, <1>6, NodeStays
    <3> QED BY <1>6, <2>2, <3>1, <3>2
  <2> QED BY <1>6, <2>1, <2>2, <2>3 DEF TreeGood
<1> QED BY <1>1, <1>2, <1>3, <1>9, MadeNew

LEMMA CopiedKeeps == ASSUME KInv, Copied PROVE KInv'
<1>1. PICK p \in DOMAIN patterns, twice \in BOOLEAN :
        LET q == patterns[p] IN
        /\ Made(IF twice THEN q.tree \o q.tree ELSE q.tree, q.ktable, IF twice THEN q.means \o q.means ELSE q.means)
        /\ Shares(q.ktable)
  BY DEF Copied
<1>2. PICK t, m, k : t = patterns[p].tree /\ m = patterns[p].means /\ k = patterns[p].ktable
  OBVIOUS
<1>3. k \in 1..Len(ktables) /\ TreeGood(t, ktables[k], m)
  BY <1>2, KnownPattern
<1>4. CASE twice
  <2>1. Made(t \o t, k, m \o m) /\ Shares(k)
    BY <1>1, <1>2, <1>4
  <2> QED BY <1>3, <2>1, Both, MadeShared
<1>5. CASE ~twice
  <2>1. Made(t, k, m) /\ Shares(k)
    BY <1>1, <1>2, <1>5
  <2> QED BY <1>3, <2>1, MadeShared
<1> QED BY <1>4, <1>5

LEMMA NumberedKeeps == ASSUME KInv, Numbered PROVE KInv'
<1>1. PICK p \in DOMAIN patterns, n \in 0..MaxPlain :
        /\ Made(<<KeyNode("plain", n)>> \o patterns[p].tree, patterns[p].ktable, <<n>> \o patterns[p].means)
        /\ Shares(patterns[p].ktable)
  BY DEF Numbered
<1>2. PICK k : k = patterns[p].ktable
  OBVIOUS
<1>3. k \in 1..Len(ktables) /\ ktables[k] \in Seq(LuaValues) /\ TreeGood(patterns[p].tree, ktables[k], patterns[p].means)
  BY <1>2, KnownPattern
<1>4. n \in Nat
  BY KTableAssumption
<1>5. TreeGood(<<KeyNode("plain", n)>> \o patterns[p].tree, ktables[k], <<n>> \o patterns[p].means)
  BY <1>3, <1>4, PlainGood, Both
<1> QED BY <1>1, <1>2, <1>3, <1>5, MadeShared

LEMMA CapturedKeeps == ASSUME KInv, ValueCapture PROVE KInv'
<1>1. PICK p \in DOMAIN patterns, v \in Lua :
        /\ Made(<<KeyNode("value", addtoktable(TableAt(p), v).key)>> \o patterns[p].tree, NewTable, <<v>> \o patterns[p].means)
        /\ Adds(addtoktable(TableAt(p), v).table)
  BY DEF ValueCapture
<1>2. PICK new : new = addtoktable(TableAt(p), v)
  OBVIOUS
<1>3. TableAt(p) \in Seq(LuaValues) /\ TreeGood(patterns[p].tree, TableAt(p), patterns[p].means)
  BY KnownPattern
<1>4. /\ new.table \in Seq(LuaValues) /\ KeyNode("value", new.key) \in Nodes /\ v \in Meanings
      /\ NodeGood(KeyNode("value", new.key), new.table, v) /\ \E U \in Seq(LuaValues) : new.table = TableAt(p) \o U
  BY <1>2, <1>3, NewKeyAdded
<1>5. TreeGood(patterns[p].tree, new.table, patterns[p].means)
  BY <1>3, <1>4, Stays
<1>6. TreeGood(<<KeyNode("value", new.key)>> \o patterns[p].tree, new.table, <<v>> \o patterns[p].means)
  BY <1>4, <1>5, One, Both
<1> QED BY <1>1, <1>2, <1>6, MadeNew

LEMMA JoinKeeps == ASSUME KInv, joinktables PROVE KInv'
<1>1. PICK p \in DOMAIN patterns, q \in DOMAIN patterns, turned \in BOOLEAN :
        LET t == patterns[p].tree
            u == IF Joins(p, q) THEN correctkeys(patterns[q].tree, Len(TableAt(p))) ELSE patterns[q].tree
            means == IF turned THEN patterns[q].means \o patterns[p].means
                     ELSE patterns[p].means \o patterns[q].means IN
        /\ Made(IF turned THEN u \o t ELSE t \o u, IF Joins(p, q) THEN NewTable ELSE Shared(p, q), means)
        /\ IF Joins(p, q) THEN Adds(TableAt(p) \o TableAt(q)) ELSE Shares(Shared(p, q))
  BY DEF joinktables
<1>2. PICK T, U, t, u, m, n :
        /\ T = TableAt(p) /\ U = TableAt(q) /\ t = patterns[p].tree /\ m = patterns[p].means /\ n = patterns[q].means
        /\ u = IF Joins(p, q) THEN correctkeys(patterns[q].tree, Len(T)) ELSE patterns[q].tree
  OBVIOUS
<1>3. T \in Seq(LuaValues) /\ U \in Seq(LuaValues) /\ TreeGood(t, T, m) /\ TreeGood(patterns[q].tree, U, n)
  BY <1>2, KnownPattern
<1>4. CASE Joins(p, q)
  <2>1. TreeGood(t, T \o U, m) /\ TreeGood(u, T \o U, n)
    BY <1>2, <1>3, <1>4, Stays, Moves
  <2>2. TreeGood(u \o t, T \o U, n \o m) /\ TreeGood(t \o u, T \o U, m \o n)
    BY <2>1, Both
  <2>3. CASE turned
    <3>1. Made(u \o t, NewTable, n \o m) /\ Adds(T \o U)
      BY <1>1, <1>2, <1>4, <2>3
    <3> QED BY <2>2, <3>1, MadeNew
  <2>4. CASE ~turned
    <3>1. Made(t \o u, NewTable, m \o n) /\ Adds(T \o U)
      BY <1>1, <1>2, <1>4, <2>4
    <3> QED BY <2>2, <3>1, MadeNew
  <2> QED BY <2>3, <2>4
<1>5. CASE ~Joins(p, q)
  <2>1. PICK k : k = Shared(p, q)
    OBVIOUS
  <2>2. k \in 1..Len(ktables) /\ TreeGood(t, ktables[k], m) /\ TreeGood(u, ktables[k], n)
    <3>0. u = patterns[q].tree
      BY <1>2, <1>5
    <3>1. CASE T = <<>> /\ U = <<>>
      <4>1. k = META
        BY <1>2, <2>1, <3>1 DEF Shared
      <4> QED BY <1>3, <3>0, <3>1, <4>1, EmptyMeta
    <3>2. CASE T # <<>> /\ U = <<>>
      <4>1. k = patterns[p].ktable /\ ktables[k] = T /\ k \in 1..Len(ktables)
        BY <1>2, <2>1, <3>2, KnownPattern DEF Shared
      <4>2. TreeGood(u, U \o T, n) /\ U \o T = T
        BY <1>3, <3>0, <3>2, Stays, ConcatEmptySeq
      <4> QED BY <1>3, <4>1, <4>2
    <3>3. CASE T # <<>> /\ U # <<>>
      <4>1. k = patterns[p].ktable /\ patterns[p].ktable = patterns[q].ktable
        BY <1>2, <1>5, <2>1, <3>3 DEF Shared, Joins
      <4>2. ktables[k] = T /\ U = T /\ k \in 1..Len(ktables)
        BY <1>2, <4>1, KnownPattern
      <4> QED BY <1>3, <3>0, <4>2
    <3>4. CASE T = <<>> /\ U # <<>>
      <4>1. k = patterns[q].ktable /\ ktables[k] = U /\ k \in 1..Len(ktables)
        BY <1>2, <2>1, <3>4, KnownPattern DEF Shared
      <4>2. TreeGood(t, T \o U, m) /\ T \o U = U
        BY <1>3, <3>4, Stays, ConcatEmptySeq
      <4> QED BY <1>3, <3>0, <4>1, <4>2
    <3> QED BY <3>1, <3>2, <3>3, <3>4
  <2>3. TreeGood(u \o t, ktables[k], n \o m) /\ TreeGood(t \o u, ktables[k], m \o n)
    BY <2>2, Both
  <2>4. CASE turned
    <3>1. Made(u \o t, k, n \o m) /\ Shares(k)
      BY <1>1, <1>2, <1>5, <2>1, <2>4
    <3> QED BY <2>2, <2>3, <3>1, MadeShared
  <2>5. CASE ~turned
    <3>1. Made(t \o u, k, m \o n) /\ Shares(k)
      BY <1>1, <1>2, <1>5, <2>1, <2>5
    <3> QED BY <2>2, <2>3, <3>1, MadeShared
  <2> QED BY <2>4, <2>5
<1> QED BY <1>4, <1>5

\* A set of numbers up to a bound has a greatest one.
LEMMA Greatest ==
    ASSUME NEW n \in Nat, NEW S, S \subseteq 1..n, S # {}
    PROVE  \E i \in S : \A j \in S : j <= i
<1>1. S \subseteq 0..n
  OBVIOUS
<1>2. Max(S) \in S /\ \A j \in S : Max(S) >= j
  BY <1>1, GreatestExists
<1>3. PICK i : i = Max(S)
  OBVIOUS
<1>4. i \in 0..n
  BY <1>1, <1>2, <1>3
<1>5. ASSUME NEW j \in S PROVE i \in Nat /\ j \in Nat
  <2>1. j \in 0..n
    BY <1>1
  <2> QED BY <1>4, <2>1
<1> QED BY <1>2, <1>3, <1>5

LEMMA FixedGood ==
    ASSUME NEW t, NEW T, NEW m, TreeGood(t, T, m) PROVE TreeGood(Fixed(t), T, m)
<1>1. PICK f : f = Fixed(t)
  OBVIOUS
<1>2. f = [i \in 1..Len(t) |-> IF t[i].kind = "open" THEN KeyNode("call", t[i].key) ELSE t[i]]
  BY <1>1, LenProperties DEF Fixed, TreeGood
<1>3. ASSUME NEW i \in 1..Len(t) PROVE f[i] \in Nodes /\ NodeGood(f[i], T, m[i])
  <2>1. t[i] \in Nodes /\ NodeGood(t[i], T, m[i])
    BY ElementOfSeq DEF TreeGood
  <2>2. CASE t[i].kind = "open"
    <3>1. f[i].kind = "call" /\ f[i].key = t[i].key /\ f[i] = [kind |-> "call", key |-> t[i].key]
      BY <1>2, <2>2 DEF KeyNode
    <3>2. f[i] \in Nodes
      BY <2>1, <3>1 DEF Nodes, Kinds
    <3> QED BY <2>1, <2>2, <3>1, <3>2 DEF NodeGood, HasKey, Named
  <2>3. CASE t[i].kind # "open"
    BY <1>2, <2>1, <2>3
  <2> QED BY <2>2, <2>3
<1>4. f \in Seq(Nodes) /\ Len(f) = Len(t)
  <2>1. Len(t) \in Nat /\ f \in [1..Len(t) -> Nodes]
    BY <1>2, <1>3, LenProperties DEF TreeGood
  <2> QED BY <2>1, LenProperties, SeqDef
<1> QED BY <1>1, <1>3, <1>4 DEF TreeGood

\* The key of a rule that is called is that of a call of its name.
LEMMA KeyFound ==
    ASSUME NEW t, NEW T, NEW m, TreeGood(t, T, m), NEW x \in LuaValues
    PROVE  LET rule == KeyNode("rule", KeyOf(t, T, x)) IN
           /\ rule \in Nodes
           /\ NodeGood(rule, T, IF CallsByName(t, T, x) # {} THEN x ELSE NoValue)
           /\ KeyOf(t, T, x) = 0 <=> CallsByName(t, T, x) = {}
<1>1. PICK key, rule : key = KeyOf(t, T, x) /\ rule = KeyNode("rule", key)
  OBVIOUS
<1>2. rule.kind = "rule" /\ rule.key = key /\ rule = [kind |-> "rule", key |-> key]
  BY <1>1 DEF KeyNode
<1>3. CASE CallsByName(t, T, x) = {}
  <2>1. key = 0
    BY <1>1, <1>3 DEF KeyOf
  <2>2. rule \in Nodes /\ NodeGood(rule, T, NoValue)
    BY <1>2, <2>1 DEF Nodes, Kinds, NodeGood, HasKey, Named
  <2> QED BY <1>1, <1>3, <2>1, <2>2
<1>4. CASE CallsByName(t, T, x) # {}
  <2>1. CallsByName(t, T, x) \subseteq 1..Len(t) /\ Len(t) \in Nat
    BY LenProperties DEF CallsByName, TreeGood
  <2>2. \E i \in CallsByName(t, T, x) : \A j \in CallsByName(t, T, x) : j <= i
    BY <1>4, <2>1, Greatest
  <2>3. PICK i \in CallsByName(t, T, x) : key = t[i].key
    BY <1>1, <1>4, <2>2 DEF KeyOf
  <2>4. t[i] \in Nodes /\ NodeGood(t[i], T, m[i]) /\ t[i].kind = "open" /\ Named(t[i], T) = x
    BY <2>1, <2>3, ElementOfSeq DEF TreeGood, CallsByName
  <2>5. HasKey(t[i])
    BY <2>4, KTableAssumption DEF Named
  <2>6. key \in Nat /\ key > 0 /\ key <= Len(T) /\ T[key] = x
    BY <2>3, <2>4, <2>5 DEF NodeGood, HasKey, Nodes, Named
  <2>7. rule \in Nodes /\ NodeGood(rule, T, x)
    BY <1>2, <2>6 DEF Nodes, Kinds, NodeGood, HasKey, Named
  <2> QED BY <1>1, <1>4, <2>6, <2>7
<1> QED BY <1>3, <1>4

LEMMA SmallMod == ASSUME NEW a \in Nat, NEW b \in Nat, a < b PROVE a % b = a
OBVIOUS

LEMMA GrammarKeeps == ASSUME KInv, NewGrammar PROVE KInv'
<1>1. PICK p \in DOMAIN patterns, q \in DOMAIN patterns, x \in LuaValues, y \in LuaValues : Grammar(p, q, x, y)
  BY DEF NewGrammar
<1>2. PICK t, u, m, n, T :
        /\ t = patterns[p].tree /\ m = patterns[p].means /\ n = patterns[q].means
        /\ u = correctkeys(patterns[q].tree, Offset(TableAt(p), TableAt(q))) /\ T = TableAt(p) \o TableAt(q)
  OBVIOUS
<1>3. PICK first, key1, key2, v, w :
        /\ key1 = KeyOf(t \o u, T, x) /\ key2 = KeyOf(t \o u, T, y)
        /\ first = initialrulename(key1, T, x)
        /\ v = IF CallsByName(t \o u, T, x) # {} \/ Len(T) < USHRT_MAX THEN x ELSE NoValue
        /\ w = IF CallsByName(t \o u, T, y) # {} THEN y ELSE NoValue
  OBVIOUS
<1>4. /\ Len(T) <= USHRT_MAX
      /\ Made(<<KeyNode("rule", first.key)>> \o Fixed(t) \o <<KeyNode("rule", key2)>> \o Fixed(u), NewTable,
              <<v>> \o m \o <<w>> \o n)
      /\ Adds(first.table)
  BY <1>1, <1>2, <1>3 DEF Grammar
<1>5. T \in Seq(LuaValues) /\ Len(T) \in Nat /\ TreeGood(t, T, m) /\ TreeGood(u, T, n)
  <2>1. /\ TableAt(p) \in Seq(LuaValues) /\ TableAt(q) \in Seq(LuaValues)
        /\ TreeGood(patterns[p].tree, TableAt(p), m) /\ TreeGood(patterns[q].tree, TableAt(q), n)
    BY <1>2, KnownPattern
  <2>2. T \in Seq(LuaValues) /\ TreeGood(t, T, m)
    BY <1>2, <2>1, Stays, ConcatProperties
  <2>3. TreeGood(u, T, n)
    <3>1. CASE TableAt(q) # <<>>
      BY <1>2, <2>1, <3>1, Moves DEF Offset
    <3>2. CASE TableAt(q) = <<>>
      <4>1. T = <<>> \o T /\ <<>> \in Seq(LuaValues) /\ T = TableAt(p)
        BY <1>2, <2>1, <2>2, <3>2, ConcatEmptySeq, EmptySeq
      <4>2. TreeGood(patterns[q].tree, <<>> \o T, n)
        BY <2>1, <2>2, <3>2, Stays
      <4>3. \A i \in DOMAIN patterns[q].tree : ~HasKey(patterns[q].tree[i])
        <5>1. Len(<<>>) = 0 /\ DOMAIN patterns[q].tree = 1..Len(patterns[q].tree)
          BY <2>1, EmptySeq, LenProperties DEF TreeGood
        <5>2. ASSUME NEW i \in 1..Len(patterns[q].tree) PROVE ~HasKey(patterns[q].tree[i])
          <6>1. patterns[q].tree[i] \in Nodes /\ NodeGood(patterns[q].tree[i], <<>>, n[i])
            BY <2>1, <3>2, ElementOfSeq DEF TreeGood
          <6> QED BY <5>1, <6>1 DEF NodeGood, HasKey, Nodes
        <5> QED BY <5>1, <5>2
      <4>4. u = patterns[q].tree
        <5>1. u = [i \in DOMAIN patterns[q].tree |-> patterns[q].tree[i]]
          BY <1>2, <4>3 DEF correctkeys
        <5>2. patterns[q].tree = [i \in DOMAIN patterns[q].tree |-> patterns[q].tree[i]]
          BY <2>1, SeqDef DEF TreeGood
        <5> QED BY <5>1, <5>2
      <4> QED BY <4>1, <4>2, <4>4
    <3> QED BY <3>1, <3>2
  <2> QED BY <2>2, <2>3, LenProperties
<1>6. TreeGood(t \o u, T, m \o n)
  BY <1>5, Both
<1>7. /\ KeyNode("rule", key1) \in Nodes /\ NodeGood(KeyNode("rule", key1), T, IF CallsByName(t \o u, T, x) # {} THEN x ELSE NoValue)
      /\ key1 = 0 <=> CallsByName(t \o u, T, x) = {}
  BY <1>3, <1>6, KeyFound
<1>8. KeyNode("rule", key2) \in Nodes /\ NodeGood(KeyNode("rule", key2), T, w) /\ w \in Meanings
  BY <1>3, <1>6, KeyFound DEF Meanings
<1>9. /\ first.table \in Seq(LuaValues) /\ (\E U \in Seq(LuaValues) : first.table = T \o U)
      /\ KeyNode("rule", first.key) \in Nodes /\ NodeGood(KeyNode("rule", first.key), first.table, v) /\ v \in Meanings
  <2>0. v \in Meanings
    BY <1>3 DEF Meanings
  <2>1. CASE key1 # 0
    <3>1. first.key = key1 /\ first.table = T /\ v = x
      BY <1>3, <1>7, <2>1 DEF initialrulename
    <3>2. T = T \o <<>> /\ <<>> \in Seq(LuaValues)
      BY <1>5, ConcatEmptySeq, EmptySeq
    <3>3. NodeGood(KeyNode("rule", first.key), first.table, v)
      BY <1>3, <1>7, <2>1, <3>1
    <3> QED BY <1>5, <1>7, <2>0, <3>1, <3>2, <3>3
  <2>2. CASE key1 = 0
    <3>1. first.key = (Len(T) + 1) % (USHRT_MAX + 1) /\ first.table = Append(T, x)
      BY <1>3, <2>2 DEF initialrulename
    <3>2. /\ Append(T, x) \in Seq(LuaValues) /\ Len(Append(T, x)) = Len(T) + 1 /\ Append(T, x)[Len(T) + 1] = x
          /\ <<x>> \in Seq(LuaValues) /\ Append(T, x) = T \o <<x>>
      BY <1>5, AppendProperties, AppendIsConcat
    <3>3. PICK node : node = KeyNode("rule", first.key)
      OBVIOUS
    <3>4. node.kind = "rule" /\ node.key = first.key /\ node = [kind |-> "rule", key |-> first.key]
      BY <3>3 DEF KeyNode
    <3>5. CASE Len(T) < USHRT_MAX
      <4>1. first.key = Len(T) + 1
        <5>1. PICK a \in Nat, b \in Nat : a = Len(T) + 1 /\ b = USHRT_MAX + 1 /\ a < b
          BY <1>5, <3>5, KTableAssumption
        <5> QED BY <3>1, <5>1, SmallMod
      <4>2. v = x
        BY <1>3, <3>5
      <4>3. node \in Nodes /\ NodeGood(node, first.table, v)
        BY <1>5, <3>1, <3>2, <3>4, <4>1, <4>2 DEF Nodes, Kinds, NodeGood, HasKey, Named
      <4> QED BY <2>0, <3>1, <3>2, <3>3, <4>3
    <3>6. CASE Len(T) = USHRT_MAX
      <4>1. first.key = 0
        BY <1>5, <3>1, <3>6, KTableAssumption
      <4>2. v = NoValue
        BY <1>3, <1>7, <2>2, <3>6, KTableAssumption
      <4>3. node \in Nodes /\ NodeGood(node, first.table, v)
        BY <3>4, <4>1, <4>2 DEF Nodes, Kinds, NodeGood, HasKey, Named
      <4> QED BY <2>0, <3>1, <3>2, <3>3, <4>3
    <3>7. Len(T) < USHRT_MAX \/ Len(T) = USHRT_MAX
      <4>1. USHRT_MAX \in Nat
        BY KTableAssumption
      <4> QED BY <1>4, <1>5, <4>1
    <3> QED BY <3>5, <3>6, <3>7
  <2> QED BY <2>1, <2>2
<1>10. /\ TreeGood(Fixed(t), first.table, m) /\ TreeGood(Fixed(u), first.table, n)
       /\ NodeGood(KeyNode("rule", key2), first.table, w)
  BY <1>5, <1>8, <1>9, FixedGood, Stays, NodeStays
<1>11. TreeGood(<<KeyNode("rule", first.key)>>, first.table, <<v>>) /\ TreeGood(<<KeyNode("rule", key2)>>, first.table, <<w>>)
  BY <1>8, <1>9, <1>10, One
<1>12. TreeGood(<<KeyNode("rule", first.key)>> \o Fixed(t) \o <<KeyNode("rule", key2)>> \o Fixed(u), first.table,
            <<v>> \o m \o <<w>> \o n)
  <2>1. TreeGood(<<KeyNode("rule", first.key)>> \o Fixed(t), first.table, <<v>> \o m)
    BY <1>10, <1>11, Both
  <2>2. TreeGood(<<KeyNode("rule", first.key)>> \o Fixed(t) \o <<KeyNode("rule", key2)>>, first.table, <<v>> \o m \o <<w>>)
    BY <1>11, <2>1, Both
  <2> QED BY <1>10, <2>2, Both
<1> QED BY <1>4, <1>12, MadeNew

\* Whatever patterns are made of one another, a node of each is about what it was made with.
THEOREM KeysKeepMeaning == KTSpec => []KeysMean
<1>1. KTInit => KInv
  <2> SUFFICES ASSUME KTInit PROVE KInv
    OBVIOUS
  <2>1. <<>> \in Seq(LuaValues) /\ <<<<>>>> \in Seq(Seq(LuaValues)) /\ Len(<<<<>>>>) = 1 /\ <<<<>>>>[1] = <<>>
    BY EmptySeq
  <2>2. <<>> \in Seq([tree : Seq(Nodes), ktable : Nat, means : Seq(Meanings)]) /\ Len(<<>>) = 0
    BY EmptySeq
  <2> QED BY <2>1, <2>2 DEF KTInit, KInv, TablesOK, META
<1>2. KInv /\ [KTNext]_kvars => KInv'
  <2> SUFFICES ASSUME KInv, [KTNext]_kvars PROVE KInv'
    OBVIOUS
  <2>1. CASE UNCHANGED kvars
    BY <2>1 DEF kvars, KInv, TablesOK, TableAt
  <2>2. CASE KTNext
    BY <2>2, LeafKeeps, ArgumentKeeps, OneValueKeeps, ConstantsKeep, CopiedKeeps, NumberedKeeps, CapturedKeeps,
       JoinKeeps, GrammarKeeps DEF KTNext
  <2> QED BY <2>1, <2>2
<1>3. KInv => KeysMean
  <2> SUFFICES ASSUME KInv, NEW p \in DOMAIN patterns
               PROVE  /\ DOMAIN patterns[p].means = DOMAIN patterns[p].tree
                      /\ \A i \in DOMAIN patterns[p].tree : Named(patterns[p].tree[i], TableAt(p)) = patterns[p].means[i]
    BY DEF KeysMean
  <2>1. TreeGood(patterns[p].tree, TableAt(p), patterns[p].means)
    BY KnownPattern
  <2>2. DOMAIN patterns[p].tree = 1..Len(patterns[p].tree) /\ DOMAIN patterns[p].means = 1..Len(patterns[p].means)
    BY <2>1, LenProperties DEF TreeGood
  <2> QED BY <2>1, <2>2 DEF TreeGood, NodeGood
<1> QED BY <1>1, <1>2, <1>3, PTL DEF KTSpec

-----------------------------------------------------------------------------
(* The table of names. *)

\* The entries of a table are those of the texts of S, each in its chain, with the uses u.
Shaped(n) ==
    /\ n = [size |-> n.size, chain |-> n.chain, count |-> n.count]
    /\ n.size \in Nat /\ n.count \in Nat
    /\ DOMAIN n.chain = Buckets(n)
Kept(n, S, u, b, e) == \E t \in S : e = NameEntry(t, NameHash(t), u[t]) /\ b = Bucket(n, NameHash(t))
Filed(n, S, u) ==
    /\ Shaped(n)
    /\ S \subseteq Texts /\ n.count = Cardinality(S)
    /\ n.size = 0 => S = {}
    /\ \A b \in Buckets(n) : \A e : e \in n.chain[b] <=> Kept(n, S, u, b, e)

UsedNames == {t \in Texts : uses[t] > 0}

Rows == [name : Addresses \union {NoAddress}, hash : Nat]

NInv ==
    /\ uses \in [Texts -> Nat] /\ (\A t \in Texts : uses[t] <= MaxNameUses) /\ memory \in [Addresses -> Texts]
    /\ cache \in [CacheSlots -> [{0, 1} -> Rows]]
    /\ Filed(nametable, UsedNames, uses)

LEMMA NameFacts ==
    /\ IsFiniteSet(Texts) /\ PB_MIN_STRTABLE_SIZE \in Nat \ {0}
    /\ \A t \in Texts : NameHash(t) \in Nat
    /\ \A a \in Addresses : SlotOf[a] \in CacheSlots
BY NamesAssumption DEF NameHash

LEMMA BucketIs ==
    ASSUME NEW n, n.size \in Nat \ {0}, NEW h \in Nat
    PROVE  Bucket(n, h) \in Buckets(n)
<1>1. PICK s \in Nat \ {0} : s = n.size
  OBVIOUS
<1>2. h % s \in 0..(s - 1)
  OBVIOUS
<1> QED BY <1>1, <1>2 DEF Bucket, Buckets

LEMMA NameEntryIs ==
    ASSUME NEW t, NEW h, NEW r, NEW tt, NEW hh, NEW rr
    PROVE  /\ NameEntry(t, h, r).name = t /\ NameEntry(t, h, r).hash = h /\ NameEntry(t, h, r).refcount = r
           /\ NameEntry(t, h, r) = NameEntry(tt, hh, rr) <=> t = tt /\ h = hh /\ r = rr
BY DEF NameEntry

LEMMA GetName ==
    ASSUME NEW n, NEW S, NEW u, Filed(n, S, u), NEW t \in Texts, NEW h \in Nat
    PROVE  pbN_getname(n, t, h) = IF t \in S /\ h = NameHash(t) THEN {NameEntry(t, NameHash(t), u[t])} ELSE {}
<1>1. CASE n.size = 0
  BY <1>1 DEF Filed, pbN_getname
<1>2. CASE n.size # 0
  <2>1. Bucket(n, h) \in Buckets(n)
    BY <1>2, BucketIs DEF Filed, Shaped
  <2>2. \A e : e \in n.chain[Bucket(n, h)] <=> Kept(n, S, u, Bucket(n, h), e)
    BY <2>1 DEF Filed
  <2>3. ASSUME NEW e
        PROVE  e \in pbN_getname(n, t, h) <=> Kept(n, S, u, Bucket(n, h), e) /\ e.hash = h /\ e.name = t
    BY <1>2, <2>2 DEF pbN_getname
  <2>4. ASSUME NEW e
        PROVE  e \in pbN_getname(n, t, h) <=> t \in S /\ h = NameHash(t) /\ e = NameEntry(t, NameHash(t), u[t])
    BY <2>3, NameEntryIs DEF Kept
  <2> QED BY <2>4
<1> QED BY <1>1, <1>2

LEMMA ResizeFiles ==
    ASSUME NEW n, NEW S, NEW u, Filed(n, S, u)
    PROVE  Filed(pbN_resize(n), S, u) /\ pbN_resize(n).size > 0
<1>1. PICK size : size = IF n.size = 0 THEN PB_MIN_STRTABLE_SIZE ELSE 2 * n.size
  OBVIOUS
<1>2. size \in Nat \ {0}
  BY <1>1, NameFacts DEF Filed, Shaped
<1>3. PICK entries : entries = UNION {n.chain[b] : b \in Buckets(n)}
  OBVIOUS
<1>4. PICK m : m = pbN_resize(n)
  OBVIOUS
<1>5. m = [size |-> size, count |-> n.count, chain |-> [b \in 0..(size - 1) |-> {e \in entries : e.hash % size = b}]]
  BY <1>1, <1>3, <1>4 DEF pbN_resize
<1>6. /\ m.size = size /\ m.count = n.count /\ DOMAIN m.chain = 0..(size - 1)
      /\ \A b \in 0..(size - 1) : m.chain[b] = {e \in entries : e.hash % size = b}
      /\ m = [size |-> m.size, chain |-> m.chain, count |-> m.count]
  BY <1>5
<1>7. \A e : e \in entries <=> \E t \in S : e = NameEntry(t, NameHash(t), u[t])
  <2>1. ASSUME NEW e \in entries PROVE \E t \in S : e = NameEntry(t, NameHash(t), u[t])
    BY <1>3 DEF Filed, Kept
  <2>2. ASSUME NEW t \in S PROVE NameEntry(t, NameHash(t), u[t]) \in entries
    <3>1. Bucket(n, NameHash(t)) \in Buckets(n)
      BY NameFacts, BucketIs DEF Filed, Shaped
    <3>2. NameEntry(t, NameHash(t), u[t]) \in n.chain[Bucket(n, NameHash(t))]
      BY <3>1 DEF Filed, Kept
    <3> QED BY <1>3, <3>1, <3>2
  <2> QED BY <2>1, <2>2
<1>8. Shaped(m)
  BY <1>2, <1>6 DEF Shaped, Filed, Buckets
<1>9. ASSUME NEW b \in Buckets(m), NEW e
      PROVE  e \in m.chain[b] <=> Kept(m, S, u, b, e)
  <2>1. b \in 0..(size - 1)
    BY <1>6 DEF Buckets
  <2>2. e \in m.chain[b] <=> (\E t \in S : e = NameEntry(t, NameHash(t), u[t])) /\ e.hash % size = b
    BY <1>6, <1>7, <2>1
  <2>3. \A t : e = NameEntry(t, NameHash(t), u[t]) => e.hash = NameHash(t)
    BY NameEntryIs
  <2>4. \A t : Bucket(m, NameHash(t)) = NameHash(t) % size
    BY <1>6 DEF Bucket
  <2> QED BY <2>2, <2>3, <2>4 DEF Kept
<1> QED BY <1>2, <1>4, <1>6, <1>8, <1>9 DEF Filed

\* What PutEntry does to the chains.
LEMMA PutIs ==
    ASSUME NEW n, Shaped(n), n.size > 0, NEW old, NEW new, new.hash \in Nat
    PROVE  /\ DOMAIN PutEntry(n, old, new) = Buckets(n)
           /\ \A b \in Buckets(n) : PutEntry(n, old, new)[b] =
                IF b = Bucket(n, new.hash) THEN (n.chain[b] \ {old}) \union {new} ELSE n.chain[b]
<1>1. Bucket(n, new.hash) \in Buckets(n)
  BY BucketIs DEF Shaped
<1> QED BY <1>1 DEF PutEntry, Shaped

LEMMA NewNameKeeps ==
    ASSUME NEW n, NEW S, NEW u, Filed(n, S, u), NEW t \in Texts, t \notin S, u[t] = 0
    PROVE  Filed(pbN_newname(n, t, NameHash(t)), S \union {t}, u)
<1>1. PICK m : m = IF n.count >= n.size THEN pbN_resize(n) ELSE n
  OBVIOUS
<1>2. Filed(m, S, u) /\ m.size > 0
  BY <1>1, ResizeFiles DEF Filed, Shaped
<1>3. PICK new : new = NameEntry(t, NameHash(t), 0)
  OBVIOUS
<1>4. new.hash = NameHash(t) /\ NameHash(t) \in Nat
  BY <1>3, NameEntryIs, NameFacts
<1>5. PICK c : c = PutEntry(m, new, new)
  OBVIOUS
<1>6. /\ DOMAIN c = Buckets(m)
      /\ \A b \in Buckets(m) : c[b] = IF b = Bucket(m, NameHash(t)) THEN m.chain[b] \union {new} ELSE m.chain[b]
  <2>1. Shaped(m)
    BY <1>2 DEF Filed
  <2> QED BY <2>1, <1>2, <1>4, <1>5, PutIs
<1>7. PICK r : r = pbN_newname(n, t, NameHash(t))
  OBVIOUS
<1>8. r = [size |-> m.size, count |-> m.count + 1, chain |-> c]
  BY <1>1, <1>3, <1>5, <1>7 DEF pbN_newname
<1>9. r.size = m.size /\ r.count = m.count + 1 /\ r.chain = c /\ Shaped(r) /\ Buckets(r) = Buckets(m)
  BY <1>2, <1>6, <1>8 DEF Filed, Shaped, Buckets
<1>10. r.count = Cardinality(S \union {t})
  <2>1. IsFiniteSet(S)
    BY <1>2, NameFacts, FS_Subset DEF Filed
  <2>2. Cardinality(S \union {t}) = Cardinality(S) + 1
    BY <2>1, FS_AddElement
  <2> QED BY <1>2, <1>9, <2>2 DEF Filed
<1>11. ASSUME NEW b \in Buckets(r), NEW e
       PROVE  e \in r.chain[b] <=> Kept(r, S \union {t}, u, b, e)
  <2>1. e \in m.chain[b] <=> Kept(m, S, u, b, e)
    BY <1>2, <1>9 DEF Filed
  <2>2. e \in r.chain[b] <=> e \in m.chain[b] \/ (b = Bucket(m, NameHash(t)) /\ e = new)
    BY <1>6, <1>9
  <2>3. \A h : Bucket(r, h) = Bucket(m, h)
    BY <1>9 DEF Bucket
  <2> QED BY <1>3, <2>1, <2>2, <2>3 DEF Kept
<1>12. S \union {t} \subseteq Texts /\ r.size # 0
  <2>1. m.size \in Nat
    BY <1>2 DEF Filed, Shaped
  <2> QED BY <1>2, <1>9, <2>1 DEF Filed
<1> QED BY <1>7, <1>9, <1>10, <1>11, <1>12 DEF Filed

Recounted(n, t, j, k) ==
    [size |-> n.size, count |-> n.count, chain |-> PutEntry(n, NameEntry(t, NameHash(t), j), NameEntry(t, NameHash(t), k))]

\* An entry is replaced by one with another number of uses.
LEMMA CountKeeps ==
    ASSUME NEW n, NEW S, NEW u, Filed(n, S, u), NEW t \in S, NEW v, \A s \in S \ {t} : v[s] = u[s],
           NEW r, r = Recounted(n, t, u[t], v[t])
    PROVE  Filed(r, S, v)
<1>0. r = [size |-> n.size, count |-> n.count,
           chain |-> PutEntry(n, NameEntry(t, NameHash(t), u[t]), NameEntry(t, NameHash(t), v[t]))]
  BY DEF Recounted
<1>1. PICK old, new : old = NameEntry(t, NameHash(t), u[t]) /\ new = NameEntry(t, NameHash(t), v[t])
  OBVIOUS
<1>2. new.hash = NameHash(t) /\ NameHash(t) \in Nat /\ t \in Texts
  BY <1>1, NameEntryIs, NameFacts DEF Filed
<1>3. Shaped(n) /\ n.size > 0
  BY DEF Filed, Shaped
<1>4. PICK c : c = PutEntry(n, old, new)
  OBVIOUS
<1>5. /\ DOMAIN c = Buckets(n)
      /\ \A b \in Buckets(n) : c[b] = IF b = Bucket(n, NameHash(t)) THEN (n.chain[b] \ {old}) \union {new} ELSE n.chain[b]
  <2>1. /\ DOMAIN PutEntry(n, old, new) = Buckets(n)
        /\ \A b \in Buckets(n) : PutEntry(n, old, new)[b] =
             IF b = Bucket(n, new.hash) THEN (n.chain[b] \ {old}) \union {new} ELSE n.chain[b]
    BY <1>2, <1>3, PutIs, SMTT(20)
  <2> QED BY <1>2, <1>4, <2>1
<1>6. r.size = n.size /\ r.count = n.count /\ r.chain = c /\ Shaped(r) /\ Buckets(r) = Buckets(n)
  BY <1>0, <1>1, <1>3, <1>4, <1>5 DEF Shaped, Buckets
<1>7. ASSUME NEW b \in Buckets(r), NEW e
      PROVE  e \in r.chain[b] <=> Kept(r, S, v, b, e)
  <2>1. e \in n.chain[b] <=> Kept(n, S, u, b, e)
    BY <1>6 DEF Filed
  <2>2. e \in r.chain[b] <=> IF b = Bucket(n, NameHash(t)) THEN (e \in n.chain[b] /\ e # old) \/ e = new ELSE e \in n.chain[b]
    BY <1>5, <1>6
  <2>3. \A h : Bucket(r, h) = Bucket(n, h)
    BY <1>6 DEF Bucket
  <2>4. \A s \in S : s # t => NameEntry(s, NameHash(s), u[s]) = NameEntry(s, NameHash(s), v[s]) /\ NameEntry(s, NameHash(s), u[s]) # old
    BY <1>1, NameEntryIs
  <2>5. NameEntry(t, NameHash(t), u[t]) = old /\ NameEntry(t, NameHash(t), v[t]) = new
    BY <1>1
  <2>6. Kept(n, S, u, b, e) <=> (e = old /\ b = Bucket(n, NameHash(t)))
                                 \/ \E s \in S : s # t /\ e = NameEntry(s, NameHash(s), u[s]) /\ b = Bucket(n, NameHash(s))
    BY <2>5 DEF Kept
  <2>7. Kept(r, S, v, b, e) <=> (e = new /\ b = Bucket(n, NameHash(t)))
                                 \/ \E s \in S : s # t /\ e = NameEntry(s, NameHash(s), u[s]) /\ b = Bucket(n, NameHash(s))
    BY <2>3, <2>4, <2>5 DEF Kept
  <2> QED BY <2>1, <2>2, <2>4, <2>6, <2>7
<1> QED BY <1>6, <1>7 DEF Filed

LEMMA DelNameKeeps ==
    ASSUME NEW n, NEW S, NEW u, Filed(n, S, u), NEW t \in S, NEW v, \A s \in S \ {t} : v[s] = u[s]
    PROVE  Filed(pbN_delname(n, NameEntry(t, NameHash(t), u[t])), S \ {t}, v)
<1>1. PICK old : old = NameEntry(t, NameHash(t), u[t])
  OBVIOUS
<1>2. old.hash = NameHash(t) /\ Shaped(n)
  BY <1>1, NameEntryIs DEF Filed
<1>3. PICK r : r = pbN_delname(n, old)
  OBVIOUS
<1>4. r = [size |-> n.size, count |-> n.count - 1,
           chain |-> [b \in Buckets(n) |-> IF b = Bucket(n, NameHash(t)) THEN n.chain[b] \ {old} ELSE n.chain[b]]]
  BY <1>2, <1>3 DEF pbN_delname
<1>5. n.count - 1 \in Nat /\ n.count - 1 = Cardinality(S \ {t})
  <2>1. IsFiniteSet(S)
    BY NameFacts, FS_Subset DEF Filed
  <2>2. Cardinality(S \ {t}) = Cardinality(S) - 1 /\ IsFiniteSet(S \ {t})
    BY <2>1, FS_RemoveElement
  <2>3. Cardinality(S \ {t}) \in Nat
    BY <2>2, FS_CardinalityType
  <2> QED BY <2>2, <2>3 DEF Filed
<1>6. r.size = n.size /\ r.count = n.count - 1 /\ Shaped(r) /\ Buckets(r) = Buckets(n)
  BY <1>2, <1>4, <1>5 DEF Shaped, Buckets
<1>7. ASSUME NEW b \in Buckets(r), NEW e
      PROVE  e \in r.chain[b] <=> Kept(r, S \ {t}, v, b, e)
  <2>1. e \in n.chain[b] <=> Kept(n, S, u, b, e)
    BY <1>6 DEF Filed
  <2>2. e \in r.chain[b] <=> IF b = Bucket(n, NameHash(t)) THEN e \in n.chain[b] /\ e # old ELSE e \in n.chain[b]
    BY <1>4, <1>6
  <2>3. \A h : Bucket(r, h) = Bucket(n, h)
    BY <1>6 DEF Bucket
  <2>4. \A s \in S : s # t => NameEntry(s, NameHash(s), u[s]) = NameEntry(s, NameHash(s), v[s]) /\ NameEntry(s, NameHash(s), u[s]) # old
    BY <1>1, NameEntryIs
  <2>5. Kept(n, S, u, b, e) <=> (e = old /\ b = Bucket(n, NameHash(t)))
                                 \/ \E s \in S : s # t /\ e = NameEntry(s, NameHash(s), u[s]) /\ b = Bucket(n, NameHash(s))
    BY <1>1 DEF Kept
  <2>6. Kept(r, S \ {t}, v, b, e) <=> \E s \in S : s # t /\ e = NameEntry(s, NameHash(s), u[s]) /\ b = Bucket(n, NameHash(s))
    BY <2>3, <2>4 DEF Kept
  <2>7. (\E s \in S : s # t /\ e = NameEntry(s, NameHash(s), u[s]) /\ b = Bucket(n, NameHash(s))) => e # old
    BY <2>4
  <2> QED BY <2>1, <2>2, <2>5, <2>6, <2>7
<1> QED BY <1>1, <1>3, <1>5, <1>6, <1>7 DEF Filed

\* A use more, of a text that is a name.
LEMMA UseKeeps ==
    ASSUME NEW n, NEW S, Filed(n, S, uses), uses \in [Texts -> Nat], NEW t \in S, S = UsedNames \union {t},
           uses[t] < MaxNameUses, MaxNameUses < CountLimit,
           NEW e, e \in pbN_getname(n, t, NameHash(t)), uses' = [uses EXCEPT ![t] = uses[t] + 1]
    PROVE  uses' \in [Texts -> Nat] /\ Filed(pb_usename(n, e), UsedNames', uses')
<1>1. t \in Texts /\ NameHash(t) \in Nat
  BY NameFacts DEF Filed
<1>2. e = NameEntry(t, NameHash(t), uses[t])
  BY <1>1, GetName
<1>3. e.name = t /\ e.hash = NameHash(t) /\ e.refcount = uses[t]
  BY <1>2, NameEntryIs
<1>4. pb_usename(n, e) = [size |-> n.size, count |-> n.count,
                          chain |-> PutEntry(n, NameEntry(t, NameHash(t), uses[t]), NameEntry(t, NameHash(t), uses[t] + 1))]
  <2>1. uses[t] \in Nat /\ CountLimit \in Nat /\ MaxNameUses \in Nat
    BY <1>1, NamesAssumption
  <2>2. uses[t] + 1 < CountLimit
    BY <2>1
  <2>3. (uses[t] + 1) % CountLimit = uses[t] + 1
    BY <2>1, <2>2
  <2> QED BY <1>2, <1>3, <2>3 DEF pb_usename
<1>5. (\A s \in S \ {t} : uses'[s] = uses[s]) /\ uses'[t] = uses[t] + 1
  BY <1>1 DEF Filed
<1>6. Filed(pb_usename(n, e), S, uses')
  <2>1. pb_usename(n, e) = Recounted(n, t, uses[t], uses'[t])
    BY <1>4, <1>5 DEF Recounted
  <2>2. PICK r, u, v : r = pb_usename(n, e) /\ u = uses /\ v = uses'
    OBVIOUS
  <2>3. r = Recounted(n, t, u[t], v[t]) /\ (\A s \in S \ {t} : v[s] = u[s]) /\ Filed(n, S, u) /\ t \in S
    BY <1>5, <2>1, <2>2
  <2>4. Filed(r, S, v)
    BY <2>3, CountKeeps
  <2> QED BY <2>2, <2>4
<1>7. uses' \in [Texts -> Nat] /\ uses[t] + 1 > 0
  BY <1>1
<1>8. UsedNames' = S
  <2>1. \A s \in Texts : uses'[s] > 0 <=> s = t \/ uses[s] > 0
    BY <1>1, <1>7
  <2> QED BY <1>1, <2>1 DEF UsedNames
<1> QED BY <1>6, <1>7, <1>8

LEMMA NewKeeps == ASSUME MaxNameUses < CountLimit, NInv, NEW t \in Texts, NewName(t) PROVE NInv'
<1> USE DEF NInv
<1>1. PICK n : n = IF pbN_getname(nametable, t, NameHash(t)) = {} THEN pbN_newname(nametable, t, NameHash(t)) ELSE nametable
  OBVIOUS
<1>2. PICK e \in pbN_getname(n, t, NameHash(t)) : nametable' = pb_usename(n, e)
  BY <1>1 DEF NewName
<1>3. uses' = [uses EXCEPT ![t] = uses[t] + 1] /\ UNCHANGED <<cache, memory>> /\ uses[t] < MaxNameUses
  BY DEF NewName
<1>4. Filed(n, UsedNames \union {t}, uses)
  <2>1. CASE t \in UsedNames
    <3>1. pbN_getname(nametable, t, NameHash(t)) # {}
      <4>1. pbN_getname(nametable, t, NameHash(t)) = {NameEntry(t, NameHash(t), uses[t])}
        BY <2>1, GetName, NameFacts
      <4> QED BY <4>1
    <3>2. n = nametable /\ UsedNames \union {t} = UsedNames
      BY <1>1, <2>1, <3>1
    <3> QED BY <3>2
  <2>2. CASE t \notin UsedNames
    <3>1. pbN_getname(nametable, t, NameHash(t)) = {}
      BY <2>2, GetName, NameFacts
    <3>2. uses[t] = 0
      BY <2>2 DEF UsedNames
    <3> QED BY <1>1, <2>2, <3>1, <3>2, NewNameKeeps
  <2> QED BY <2>1, <2>2
<1>5. uses' \in [Texts -> Nat] /\ Filed(nametable', UsedNames', uses')
  <2>1. PICK S : S = UsedNames \union {t}
    OBVIOUS
  <2>2. Filed(n, S, uses) /\ t \in S
    BY <1>4, <2>1
  <2>3. uses' \in [Texts -> Nat] /\ Filed(pb_usename(n, e), UsedNames', uses')
    BY <1>2, <1>3, <2>1, <2>2, UseKeeps
  <2> QED BY <1>2, <2>3
<1>6. \A s \in Texts : uses'[s] <= MaxNameUses
  BY <1>3, NamesAssumption
<1> QED BY <1>3, <1>5, <1>6

LEMMA MoreUseKeeps == ASSUME MaxNameUses < CountLimit, NInv, NEW t \in Texts, UseName(t) PROVE NInv'
<1> USE DEF NInv
<1>1. PICK e \in pbN_getname(nametable, t, NameHash(t)) : nametable' = pb_usename(nametable, e)
  BY DEF UseName
<1>2. uses' = [uses EXCEPT ![t] = uses[t] + 1] /\ UNCHANGED <<cache, memory>> /\ t \in UsedNames /\ uses[t] < MaxNameUses
  BY DEF UseName, UsedNames
<1>3. PICK S : S = UsedNames /\ t \in S /\ S = UsedNames \union {t} /\ Filed(nametable, S, uses)
  BY <1>2
<1>4. uses' \in [Texts -> Nat] /\ Filed(pb_usename(nametable, e), UsedNames', uses')
  BY <1>1, <1>2, <1>3, UseKeeps
<1>5. \A s \in Texts : uses'[s] <= MaxNameUses
  BY <1>2, NamesAssumption
<1> QED BY <1>1, <1>2, <1>4, <1>5

LEMMA GiveUpKeeps == ASSUME NInv, NEW t \in Texts, DelName(t) PROVE NInv'
<1> USE DEF NInv
<1>1. PICK e \in pbN_getname(nametable, t, NameHash(t)) : nametable' = NameLess(nametable, e)
  BY DEF DelName
<1>2. uses' = [uses EXCEPT ![t] = uses[t] - 1] /\ UNCHANGED <<cache, memory>> /\ t \in UsedNames /\ uses[t] \in Nat \ {0}
  BY DEF DelName, UsedNames
<1>3. e = NameEntry(t, NameHash(t), uses[t])
  BY <1>1, <1>2, GetName, NameFacts
<1>4. e.name = t /\ e.hash = NameHash(t) /\ e.refcount = uses[t]
  BY <1>3, NameEntryIs
<1>5. uses' \in [Texts -> Nat] /\ \A s \in Texts : uses'[s] = IF s = t THEN uses[t] - 1 ELSE uses[s]
  BY <1>2
<1>8. \A s \in Texts : uses'[s] <= MaxNameUses
  BY <1>2, <1>5, NamesAssumption
<1>6. CASE uses[t] = 1
  <2>1. nametable' = pbN_delname(nametable, NameEntry(t, NameHash(t), uses[t]))
    BY <1>1, <1>3, <1>4, <1>6 DEF NameLess
  <2>2. \A s \in UsedNames \ {t} : uses'[s] = uses[s]
    BY <1>5 DEF UsedNames
  <2>3. Filed(nametable', UsedNames \ {t}, uses')
    BY <1>2, <2>1, <2>2, DelNameKeeps
  <2>4. UsedNames' = UsedNames \ {t}
    <3>1. \A s \in Texts : uses'[s] > 0 <=> s # t /\ uses[s] > 0
      BY <1>5, <1>6
    <3> QED BY <3>1 DEF UsedNames
  <2> QED BY <1>2, <1>5, <1>8, <2>3, <2>4
<1>7. CASE uses[t] # 1
  <2>1. ~(e.refcount <= 1)
    BY <1>2, <1>4, <1>7
  <2>2. nametable' = [size |-> nametable.size, count |-> nametable.count,
                  chain |-> PutEntry(nametable, NameEntry(t, NameHash(t), uses[t]), NameEntry(t, NameHash(t), uses[t] - 1))]
    BY <1>1, <1>3, <1>4, <2>1 DEF NameLess
  <2>3. (\A s \in UsedNames \ {t} : uses'[s] = uses[s]) /\ uses'[t] = uses[t] - 1
    BY <1>5 DEF UsedNames
  <2>4. Filed(nametable', UsedNames, uses')
    <3>1. nametable' = Recounted(nametable, t, uses[t], uses'[t])
      BY <2>2, <2>3 DEF Recounted
    <3> QED BY <1>2, <2>3, <3>1, CountKeeps
  <2>5. UsedNames' = UsedNames
    <3>1. \A s \in Texts : uses'[s] > 0 <=> uses[s] > 0
      BY <1>2, <1>5, <1>7
    <3> QED BY <3>1 DEF UsedNames
  <2> QED BY <1>2, <1>5, <1>8, <2>4, <2>5
<1> QED BY <1>6, <1>7

LEMMA FindKeeps == ASSUME NInv, NEW a \in Addresses, FindName(a) PROVE NInv'
<1> USE DEF NInv
<1>1. cache' = [cache EXCEPT ![SlotOf[a]] = CacheAfter(a)] /\ UNCHANGED <<nametable, memory, uses>>
  BY DEF FindName
<1>2. SlotOf[a] \in CacheSlots /\ memory[a] \in Texts /\ NameHash(memory[a]) \in Nat
  BY NameFacts
<1>3. PICK place \in [{0, 1} -> Rows] : place = cache[SlotOf[a]]
  BY <1>2
<1>4. PICK moved : moved = IF Hit(a) = {} THEN [k \in {0, 1} |-> IF k = 1 THEN place[0] ELSE [name |-> a, hash |-> place[0].hash]]
                           ELSE place
  OBVIOUS
<1>5. moved \in [{0, 1} -> Rows]
  <2>1. place[0] \in Rows /\ place[1] \in Rows /\ place[0].hash \in Nat
    BY DEF Rows
  <2>2. [name |-> a, hash |-> place[0].hash] \in Rows
    BY <2>1 DEF Rows
  <2> QED BY <1>4, <2>1, <2>2
<1>6. PICK k : k = IF Hit(a) = {} THEN 0 ELSE FirstHit(a)
  OBVIOUS
<1>7. CacheAfter(a) = IF Remembered(a) # {} THEN place ELSE [moved EXCEPT ![k] = [name |-> a, hash |-> NameHash(memory[a])]]
  BY <1>3, <1>4, <1>6 DEF CacheAfter
<1>8. [name |-> a, hash |-> NameHash(memory[a])] \in Rows
  BY <1>2 DEF Rows
<1>9. CacheAfter(a) \in [{0, 1} -> Rows]
  BY <1>5, <1>7, <1>8
<1>10. cache' \in [CacheSlots -> [{0, 1} -> Rows]]
  BY <1>1, <1>9
<1> QED BY <1>1, <1>10 DEF UsedNames

LEMMA RestKeeps ==
    ASSUME NInv, (\E a \in Addresses : \E t \in Texts : RewriteText(a, t)) \/ UNCHANGED nameVars PROVE NInv'
<1>1. UNCHANGED <<nametable, cache, uses>> /\ memory' \in [Addresses -> Texts]
  BY DEF RewriteText, nameVars, NInv
<1> QED BY <1>1 DEF NInv, UsedNames

LEMMA EmptyIsFiled ==
    ASSUME NEW u, NEW S, S = {}
    PROVE  Filed(NoNames, S, u)
<1>1. NoNames.size = 0 /\ NoNames.count = 0 /\ NoNames.chain = <<>> /\ NoNames = [size |-> 0, chain |-> <<>>, count |-> 0]
  BY DEF NoNames
<1>2. Buckets(NoNames) = {} /\ DOMAIN NoNames.chain = {}
  BY <1>1 DEF Buckets
<1>3. Cardinality({}) = 0
  BY FS_EmptySet
<1> QED BY <1>1, <1>2, <1>3 DEF Filed, Shaped

LEMMA FreeFiles == ASSUME NInv, pbN_free PROVE NInv'
<1>1. nametable' = NoNames /\ uses' = [t \in Texts |-> 0] /\ UNCHANGED <<cache, memory>>
  BY DEF pbN_free
<1>2. uses' \in [Texts -> Nat] /\ UsedNames' = {} /\ \A s \in Texts : uses'[s] <= MaxNameUses
  BY <1>1, NamesAssumption DEF UsedNames
<1>3. Filed(nametable', UsedNames', uses')
  BY <1>1, <1>2, EmptyIsFiled
<1> QED BY <1>1, <1>2, <1>3 DEF NInv

\* If no text is in use too often to be counted, a text is a name as long as it is used, and found
\* from wherever it is read, whatever the cache remembers of the address: pb_name, pb_newname,
\* pb_usename and pb_delname (lpb.h:955-1108).
THEOREM NamesStay == ASSUME MaxNameUses < CountLimit PROVE NamesSpec => []NamesAreKept
<1>1. NamesInit => NInv
  <2> SUFFICES ASSUME NamesInit PROVE NInv
    OBVIOUS
  <2> USE DEF NamesInit
  <2>1. uses \in [Texts -> Nat] /\ UsedNames = {} /\ \A s \in Texts : uses[s] <= MaxNameUses
    BY NamesAssumption DEF UsedNames
  <2>2. [name |-> NoAddress, hash |-> 0] \in Rows
    BY DEF Rows
  <2>3. cache \in [CacheSlots -> [{0, 1} -> Rows]]
    BY <2>2
  <2> QED BY <2>1, <2>3, EmptyIsFiled DEF NInv
<1>2. NInv /\ [NamesNext]_nameVars => NInv'
  BY NewKeeps, MoreUseKeeps, GiveUpKeeps, FindKeeps, RestKeeps, FreeFiles DEF NamesNext
<1>3. NInv => NamesAreKept
  <2> SUFFICES ASSUME NInv PROVE NamesAreKept
    OBVIOUS
  <2> USE DEF NInv
  <2>1. ASSUME NEW a \in Addresses
        PROVE  NameFound(a) = IF uses[memory[a]] > 0 THEN {NameEntry(memory[a], NameHash(memory[a]), uses[memory[a]])} ELSE {}
    <3>1. PICK t \in Texts : t = memory[a]
      OBVIOUS
    <3>2. pbN_getname(nametable, t, NameHash(t)) = IF t \in UsedNames THEN {NameEntry(t, NameHash(t), uses[t])} ELSE {}
      BY GetName, NameFacts
    <3>3. Remembered(a) # {} => Remembered(a) = pbN_getname(nametable, t, NameHash(t))
      <4>1. ASSUME Hit(a) # {} PROVE cache[SlotOf[a]][FirstHit(a)].hash \in Nat
        <5>1. FirstHit(a) \in {0, 1} /\ SlotOf[a] \in CacheSlots
          BY NameFacts DEF FirstHit
        <5> QED BY <5>1 DEF Rows
      <4>2. CASE Hit(a) = {}
        BY <4>2 DEF Remembered
      <4>3. CASE Hit(a) # {}
        <5>1. PICK h \in Nat : h = cache[SlotOf[a]][FirstHit(a)].hash
          BY <4>1, <4>3
        <5>2. Remembered(a) = pbN_getname(nametable, t, h)
          BY <3>1, <4>3, <5>1 DEF Remembered
        <5>3. pbN_getname(nametable, t, h) = IF t \in UsedNames /\ h = NameHash(t) THEN {NameEntry(t, NameHash(t), uses[t])} ELSE {}
          BY GetName
        <5> QED BY <3>2, <5>2, <5>3
      <4> QED BY <4>2, <4>3
    <3>4. t \in UsedNames <=> uses[t] > 0
      BY DEF UsedNames
    <3> QED BY <3>1, <3>2, <3>3, <3>4 DEF NameFound
  <2>2. nametable.count = Cardinality({t \in Texts : uses[t] > 0})
    BY DEF Filed, UsedNames
  <2>3. UNION {nametable.chain[b] : b \in Buckets(nametable)} = {NameEntry(t, NameHash(t), uses[t]) : t \in {t \in Texts : uses[t] > 0}}
    <3>1. ASSUME NEW b \in Buckets(nametable), NEW e \in nametable.chain[b]
          PROVE  \E t \in UsedNames : e = NameEntry(t, NameHash(t), uses[t])
      BY DEF Filed, Kept
    <3>2. ASSUME NEW t \in UsedNames
          PROVE  \E b \in Buckets(nametable) : NameEntry(t, NameHash(t), uses[t]) \in nametable.chain[b]
      <4>1. Bucket(nametable, NameHash(t)) \in Buckets(nametable)
        BY NameFacts, BucketIs DEF Filed, Shaped
      <4> QED BY <4>1 DEF Filed, Kept
    <3> QED BY <3>1, <3>2 DEF UsedNames
  <2> QED BY <2>1, <2>2, <2>3 DEF NamesAreKept
<1> QED BY <1>1, <1>2, <1>3, PTL DEF NamesSpec

-----------------------------------------------------------------------------
(* DES. *)

Halves32 == SUBSET Bits(32)
BlockPairs == Halves32 \X Halves32

\* Who crosses comes back.
LEMMA CrossBack ==
    ASSUME NEW p \in BlockPairs, NEW n \in Nat, NEW mask \in SUBSET Bits(32), \A i \in mask : i + n \in Bits(32)
    PROVE  Across(p, n, mask) \in BlockPairs /\ Across(Across(p, n, mask), n, mask) = p
<1>1. PICK x \in Halves32, y \in Halves32 : p = <<x, y>>
  BY DEF BlockPairs
<1>2. PICK t : t = Xor(Right(32, x, n), y) \intersect mask
  OBVIOUS
<1>3. PICK a, b : a = Xor(x, Left(32, t, n)) /\ b = Xor(y, t)
  OBVIOUS
<1>4. Across(p, n, mask) = <<a, b>>
  BY <1>1, <1>2, <1>3 DEF Across
<1>5. t \subseteq mask /\ t \in Halves32
  BY <1>2 DEF Halves32
<1>6. a \in Halves32 /\ b \in Halves32
  BY <1>1, <1>3, <1>5 DEF Halves32, Xor, Left
<1>7. ASSUME NEW i \in mask PROVE i \in Right(32, a, n) <=> ((i \in Right(32, x, n)) <=> i \notin t)
  <2>1. i \in Bits(32) /\ i + n \in Bits(32) /\ (i + n) - n = i
    BY DEF Bits
  <2>2. i \in Right(32, a, n) <=> i + n \in a
    BY <2>1 DEF Right
  <2>3. i \in Right(32, x, n) <=> i + n \in x
    BY <2>1 DEF Right
  <2>4. i + n \in Left(32, t, n) <=> i \in t
    BY <2>1 DEF Left
  <2>5. i + n \in a <=> ((i + n \in x) <=> i + n \notin Left(32, t, n))
    BY <1>3 DEF Xor
  <2> QED BY <2>2, <2>3, <2>4, <2>5
<1>8. Xor(Right(32, a, n), b) \intersect mask = t
  <2>1. ASSUME NEW i \in mask PROVE i \in Xor(Right(32, a, n), b) <=> i \in t
    <3>1. i \in b <=> (i \in y <=> i \notin t)
      BY <1>3 DEF Xor
    <3>2. i \in t <=> ((i \in Right(32, x, n)) <=> i \notin y)
      BY <1>2 DEF Xor
    <3>3. i \in Xor(Right(32, a, n), b) <=> ((i \in Right(32, a, n)) <=> i \notin b)
      BY DEF Xor
    <3> QED BY <1>7, <3>1, <3>2, <3>3
  <2> QED BY <1>5, <2>1
<1>9. Xor(a, Left(32, t, n)) = x /\ Xor(b, t) = y
  BY <1>3 DEF Xor
<1>10. Across(<<a, b>>, n, mask) = <<x, y>>
  BY <1>8, <1>9 DEF Across
<1> QED BY <1>1, <1>4, <1>6, <1>10 DEF BlockPairs

LEMMA TurnedTwice == ASSUME NEW p \in BlockPairs PROVE Turned(p) \in BlockPairs /\ Turned(Turned(p)) = p
BY DEF BlockPairs, Turned

LEMMA BackBack ==
    ASSUME NEW p \in BlockPairs, NEW n \in Nat, NEW mask \in SUBSET Bits(32), \A i \in mask : i + n \in Bits(32)
    PROVE  Back(p, n, mask) \in BlockPairs /\ Back(Back(p, n, mask), n, mask) = p
<1>1. PICK q \in BlockPairs : q = Turned(p) /\ Turned(q) = p
  BY TurnedTwice
<1>2. PICK r \in BlockPairs : r = Across(q, n, mask) /\ Across(r, n, mask) = q
  BY CrossBack
<1>3. Back(p, n, mask) = Turned(r) /\ Turned(r) \in BlockPairs /\ Turned(Turned(r)) = r
  BY <1>1, <1>2, TurnedTwice DEF Back
<1>4. Back(Turned(r), n, mask) = Turned(Across(r, n, mask))
  BY <1>3 DEF Back
<1> QED BY <1>1, <1>2, <1>3, <1>4

LEMMA Masks ==
    /\ Every(8, 4) \in SUBSET Bits(32) /\ \A i \in Every(8, 4) : i + 4 \in Bits(32)
    /\ Every(32, 16) \in SUBSET Bits(32) /\ \A i \in Every(32, 16) : i + 16 \in Bits(32)
    /\ Every(4, 2) \in SUBSET Bits(32) /\ \A i \in Every(4, 2) : i + 2 \in Bits(32)
    /\ Every(16, 8) \in SUBSET Bits(32) /\ \A i \in Every(16, 8) : i + 8 \in Bits(32)
    /\ Every(2, 2) \ Every(2, 1) \in SUBSET Bits(32) /\ \A i \in Every(2, 2) \ Every(2, 1) : i + 0 \in Bits(32)
BY DEF Every, Bits

LEMMA TurnRound ==
    ASSUME NEW x \in Halves32
    PROVE  /\ RotateLeft(32, x, 1) \in Halves32 /\ RotateLeft(32, x, 31) \in Halves32
           /\ RotateLeft(32, RotateLeft(32, x, 1), 31) = x
           /\ RotateLeft(32, RotateLeft(32, x, 31), 1) = x
<1>1. ASSUME NEW z, NEW k \in {1, 31}
      PROVE  \A i : i \in RotateLeft(32, z, k) <=> i \in 0..31 /\ (i - k \in z \/ i + (32 - k) \in z)
  BY DEF RotateLeft, Left, Right, Bits
<1>2. x \subseteq 0..31
  BY DEF Halves32, Bits
<1>3. \A i : i \in RotateLeft(32, x, 1) <=> i \in 0..31 /\ (i - 1 \in x \/ i + 31 \in x)
  BY <1>1
<1>4. \A i : i \in RotateLeft(32, x, 31) <=> i \in 0..31 /\ (i - 31 \in x \/ i + 1 \in x)
  BY <1>1
<1>5. \A i : i \in RotateLeft(32, RotateLeft(32, x, 1), 31) <=>
               i \in 0..31 /\ (i - 31 \in RotateLeft(32, x, 1) \/ i + 1 \in RotateLeft(32, x, 1))
  BY <1>1
<1>6. \A i : i \in RotateLeft(32, RotateLeft(32, x, 31), 1) <=>
               i \in 0..31 /\ (i - 1 \in RotateLeft(32, x, 31) \/ i + 31 \in RotateLeft(32, x, 31))
  BY <1>1
<1>7. RotateLeft(32, RotateLeft(32, x, 1), 31) = x
  <2>1. ASSUME NEW i \in 0..31 PROVE i \in RotateLeft(32, RotateLeft(32, x, 1), 31) <=> i \in x
    <3>1. i - 31 \in RotateLeft(32, x, 1) <=> i = 31 /\ (31 \in x)
      BY <1>2, <1>3
    <3>2. i + 1 \in RotateLeft(32, x, 1) <=> i # 31 /\ i \in x
      BY <1>2, <1>3
    <3> QED BY <1>5, <3>1, <3>2
  <2> QED BY <1>2, <1>5, <2>1
<1>8. RotateLeft(32, RotateLeft(32, x, 31), 1) = x
  <2>1. ASSUME NEW i \in 0..31 PROVE i \in RotateLeft(32, RotateLeft(32, x, 31), 1) <=> i \in x
    <3>1. i - 1 \in RotateLeft(32, x, 31) <=> i # 0 /\ i \in x
      BY <1>2, <1>4
    <3>2. i + 31 \in RotateLeft(32, x, 31) <=> i = 0 /\ 0 \in x
      BY <1>2, <1>4
    <3> QED BY <1>6, <3>1, <3>2
  <2> QED BY <1>2, <1>6, <2>1
<1> QED BY <1>3, <1>4, <1>7, <1>8 DEF Halves32, Bits

\* The last permutation undoes the first one, and the first one the last.
LEMMA PermutationsUndo ==
    ASSUME NEW p \in BlockPairs
    PROVE  /\ DES_IP(p) \in BlockPairs /\ DES_FP(DES_IP(p)) = p
           /\ DES_FP(p) \in BlockPairs /\ DES_IP(DES_FP(p)) = p
<1>1. /\ DES_IP(p) \in BlockPairs /\ DES_FP(DES_IP(p)) = p
  <2>1. PICK a \in BlockPairs : a = Across(p, 4, Every(8, 4)) /\ Across(a, 4, Every(8, 4)) = p
    BY CrossBack, Masks
  <2>2. PICK b \in BlockPairs : b = Across(a, 16, Every(32, 16)) /\ Across(b, 16, Every(32, 16)) = a
    BY CrossBack, Masks
  <2>3. PICK c \in BlockPairs : c = Back(b, 2, Every(4, 2)) /\ Back(c, 2, Every(4, 2)) = b
    BY BackBack, Masks
  <2>4. PICK q \in BlockPairs : q = Back(c, 8, Every(16, 8)) /\ Back(q, 8, Every(16, 8)) = c
    BY BackBack, Masks
  <2>5. q[1] \in Halves32 /\ q[2] \in Halves32 /\ q = <<q[1], q[2]>>
    BY DEF BlockPairs
  <2>6. PICK y \in Halves32 : y = RotateLeft(32, q[2], 1) /\ RotateLeft(32, y, 31) = q[2]
    BY <2>5, TurnRound
  <2>7. <<q[1], y>> \in BlockPairs
    BY <2>5, <2>6 DEF BlockPairs
  <2>8. PICK r \in BlockPairs : r = Across(<<q[1], y>>, 0, Every(2, 2) \ Every(2, 1))
                           /\ Across(r, 0, Every(2, 2) \ Every(2, 1)) = <<q[1], y>>
    BY <2>7, CrossBack, Masks
  <2>9. r[1] \in Halves32 /\ r[2] \in Halves32 /\ r = <<r[1], r[2]>>
    BY DEF BlockPairs
  <2>10. PICK x \in Halves32 : x = RotateLeft(32, r[1], 1) /\ RotateLeft(32, x, 31) = r[1]
    BY <2>9, TurnRound
  <2>11. DES_IP(p) = <<x, r[2]>> /\ <<x, r[2]>> \in BlockPairs
    BY <2>1, <2>2, <2>3, <2>4, <2>6, <2>8, <2>9, <2>10 DEF DES_IP, BlockPairs
  <2>12. DES_FP(<<x, r[2]>>) = p
    <3>1. <<RotateLeft(32, <<x, r[2]>>[1], 31), <<x, r[2]>>[2]>> = r
      BY <2>9, <2>10
    <3>2. <<(<<q[1], y>>)[1], RotateLeft(32, (<<q[1], y>>)[2], 31)>> = q
      BY <2>5, <2>6
    <3> QED BY <3>1, <3>2, <2>1, <2>2, <2>3, <2>4, <2>8 DEF DES_FP
  <2> QED BY <2>11, <2>12
<1>2. /\ DES_FP(p) \in BlockPairs /\ DES_IP(DES_FP(p)) = p
  <2>1. p[1] \in Halves32 /\ p[2] \in Halves32 /\ p = <<p[1], p[2]>>
    BY DEF BlockPairs
  <2>2. PICK x \in Halves32 : x = RotateLeft(32, p[1], 31) /\ RotateLeft(32, x, 1) = p[1]
    BY <2>1, TurnRound
  <2>3. <<x, p[2]>> \in BlockPairs
    BY <2>1, <2>2 DEF BlockPairs
  <2>4. PICK r \in BlockPairs : r = Across(<<x, p[2]>>, 0, Every(2, 2) \ Every(2, 1))
                           /\ Across(r, 0, Every(2, 2) \ Every(2, 1)) = <<x, p[2]>>
    BY <2>3, CrossBack, Masks
  <2>5. r[1] \in Halves32 /\ r[2] \in Halves32 /\ r = <<r[1], r[2]>>
    BY DEF BlockPairs
  <2>6. PICK y \in Halves32 : y = RotateLeft(32, r[2], 31) /\ RotateLeft(32, y, 1) = r[2]
    BY <2>5, TurnRound
  <2>7. PICK q \in BlockPairs : q = <<r[1], y>>
    BY <2>5, <2>6 DEF BlockPairs
  <2>8. PICK c \in BlockPairs : c = Back(q, 8, Every(16, 8)) /\ Back(c, 8, Every(16, 8)) = q
    BY BackBack, Masks
  <2>9. PICK b \in BlockPairs : b = Back(c, 2, Every(4, 2)) /\ Back(b, 2, Every(4, 2)) = c
    BY BackBack, Masks
  <2>10. PICK a \in BlockPairs : a = Across(b, 16, Every(32, 16)) /\ Across(a, 16, Every(32, 16)) = b
    BY CrossBack, Masks
  <2>11. PICK z \in BlockPairs : z = Across(a, 4, Every(8, 4)) /\ Across(z, 4, Every(8, 4)) = a
    BY CrossBack, Masks
  <2>12. DES_FP(p) = z
    BY <2>2, <2>4, <2>6, <2>7, <2>8, <2>9, <2>10, <2>11 DEF DES_FP
  <2>13. DES_IP(z) = p
    <3>1. <<q[1], RotateLeft(32, q[2], 1)>> = r
      BY <2>5, <2>6, <2>7
    <3>2. <<RotateLeft(32, (<<x, p[2]>>)[1], 1), (<<x, p[2]>>)[2]>> = p
      BY <2>1, <2>2
    <3> QED BY <3>1, <3>2, <2>4, <2>8, <2>9, <2>10, <2>11 DEF DES_IP
  <2> QED BY <2>12, <2>13
<1> QED BY <1>1, <1>2

-----------------------------------------------------------------------------
(* The rounds *)

LEMMA BoxesFit == ASSUME NEW b \in 1..8, NEW x, NEW from PROVE Sub(b, x, from) \in Halves32
<1>1. \A j \in 1..4 : Places[b][j] \in 0..31
  BY DEF Places
<1> QED BY <1>1 DEF Sub, Spread, Halves32, Bits

LEMMA XorFits == ASSUME NEW a \in Halves32, NEW b \in Halves32 PROVE Xor(a, b) \in Halves32
BY DEF Xor, Halves32

LEMMA MixFits == ASSUME NEW sk, NEW x PROVE Mix(sk, x) \in Halves32
<1>1. ASSUME NEW a \in Halves32, NEW b \in Halves32, NEW c \in Halves32, NEW d \in Halves32
      PROVE  Xor4(a, b, c, d) \in Halves32
  BY <1>1, XorFits DEF Xor4
<1>2. PICK t, u : t = Xor(sk[1], x) /\ u = Xor(sk[2], RotateLeft(32, x, 28))
  OBVIOUS
<1>3. /\ Sub(8, t, 0) \in Halves32 /\ Sub(6, t, 8) \in Halves32 /\ Sub(4, t, 16) \in Halves32 /\ Sub(2, t, 24) \in Halves32
      /\ Sub(7, u, 0) \in Halves32 /\ Sub(5, u, 8) \in Halves32 /\ Sub(3, u, 16) \in Halves32 /\ Sub(1, u, 24) \in Halves32
  BY BoxesFit
<1>4. PICK v \in Halves32, w \in Halves32 : v = Xor4(Sub(8, t, 0), Sub(6, t, 8), Sub(4, t, 16), Sub(2, t, 24))
                               /\ w = Xor4(Sub(7, u, 0), Sub(5, u, 8), Sub(3, u, 16), Sub(1, u, 24))
  BY <1>1, <1>3
<1>5. Mix(sk, x) = Xor(v, w)
  BY <1>2, <1>4 DEF Mix
<1> QED BY <1>4, <1>5, XorFits

\* A round with the halves turned, and turned again, undoes itself.
LEMMA RoundBack ==
    ASSUME NEW p \in BlockPairs, NEW sk
    PROVE  DES_ROUND(sk, p) \in BlockPairs /\ DES_ROUND(sk, Turned(DES_ROUND(sk, p))) = Turned(p)
<1>1. PICK x \in Halves32, y \in Halves32 : p = <<x, y>>
  BY DEF BlockPairs
<1>2. PICK m \in Halves32 : m = Mix(sk, y)
  BY MixFits
<1>3. DES_ROUND(sk, p) = <<y, Xor(x, m)>> /\ Xor(x, m) \in Halves32
  BY <1>1, <1>2, XorFits DEF DES_ROUND
<1>4. DES_ROUND(sk, <<Xor(x, m), y>>) = <<y, Xor(Xor(x, m), m)>>
  BY <1>2 DEF DES_ROUND
<1>5. Xor(Xor(x, m), m) = x
  BY DEF Xor
<1> QED BY <1>1, <1>3, <1>4, <1>5 DEF Turned, BlockPairs

\* The halves there are after each of the first n rounds.
IsRun(f, SK, p, n) == f = [i \in 0..n |-> IF i = 0 THEN p ELSE DES_ROUND(SK[i], f[i - 1])]

LEMMA RunExists ==
    ASSUME NEW SK, NEW p, NEW n \in Nat
    PROVE  \E f : IsRun(f, SK, p, n)
<1> DEFINE Missed == {j \in Nat : ~\E f : IsRun(f, SK, p, j)}
<1>1. SUFFICES ASSUME Missed # {} PROVE FALSE
  OBVIOUS
<1>2. PICK j \in Missed : \A y \in Missed : j <= y
  BY <1>1, LeastExists
<1>3. j # 0
  <2> DEFINE e == [i \in 0..0 |-> p]
  <2>1. e = [i \in 0..0 |-> IF i = 0 THEN p ELSE DES_ROUND(SK[i], e[i - 1])]
    OBVIOUS
  <2> QED BY <2>1 DEF IsRun
<1>4. PICK f : IsRun(f, SK, p, j - 1)
  <2>1. j - 1 \in Nat /\ j - 1 \notin Missed
    BY <1>2, <1>3
  <2> QED BY <2>1
<1> DEFINE g == [i \in 0..j |-> IF i = 0 THEN p ELSE DES_ROUND(SK[i], f[i - 1])]
<1>5. \A i \in 0..(j - 1) : g[i] = f[i]
  BY <1>4 DEF IsRun
<1>6. g = [i \in 0..j |-> IF i = 0 THEN p ELSE DES_ROUND(SK[i], g[i - 1])]
  <2>1. \A i \in 0..j : i # 0 => i - 1 \in 0..(j - 1)
    OBVIOUS
  <2> QED BY <1>5, <2>1
<1> HIDE DEF g
<1> QED BY <1>2, <1>6 DEF IsRun

LEMMA RunIs ==
    ASSUME NEW SK, NEW p
    PROVE  \E f : IsRun(f, SK, p, 16) /\ Rounds(SK, p) = f[16]
<1> DEFINE after == CHOOSE f : f = [i \in 0..16 |-> IF i = 0 THEN p ELSE DES_ROUND(SK[i], f[i - 1])]
<1>1. \E f : f = [i \in 0..16 |-> IF i = 0 THEN p ELSE DES_ROUND(SK[i], f[i - 1])]
  <2>1. 16 \in Nat
    OBVIOUS
  <2>2. \E f : IsRun(f, SK, p, 16)
    BY <2>1, RunExists
  <2> QED BY <2>2 DEF IsRun
<1>2. after = [i \in 0..16 |-> IF i = 0 THEN p ELSE DES_ROUND(SK[i], after[i - 1])]
  BY <1>1
<1>3. Rounds(SK, p) = after[16]
  BY DEF Rounds
<1> QED BY <1>2, <1>3 DEF IsRun

\* What holds at first and is handed on holds up to the end.
LEMMA UpTo16 ==
    ASSUME NEW Reached, Reached \subseteq Nat, 0 \in Reached, \A i \in 1..16 : i - 1 \in Reached => i \in Reached
    PROVE  0..16 \subseteq Reached
<1> DEFINE Missed == (0..16) \ Reached
<1>1. SUFFICES ASSUME Missed # {} PROVE FALSE
  OBVIOUS
<1>2. PICK j \in Missed : \A y \in Missed : j <= y
  BY <1>1, LeastExists
<1>3. j \in 1..16 /\ j - 1 \notin Missed /\ j - 1 \in 0..16
  BY <1>2
<1> QED BY <1>2, <1>3

\* The rounds with the subkeys in the other order take the turned halves back.
LEMMA RoundsBack ==
    ASSUME NEW SK, NEW KS, NEW p \in BlockPairs, \A i \in 1..16 : KS[i] = SK[17 - i]
    PROVE  Rounds(SK, p) \in BlockPairs /\ Rounds(KS, Turned(Rounds(SK, p))) = Turned(p)
<1>1. PICK f : IsRun(f, SK, p, 16) /\ Rounds(SK, p) = f[16]
  BY RunIs
<1>2. f[0] = p /\ \A i \in 1..16 : f[i] = DES_ROUND(SK[i], f[i - 1])
  BY <1>1 DEF IsRun
<1>3. \A i \in 0..16 : f[i] \in BlockPairs
  <2> DEFINE Reached == {i \in 0..16 : f[i] \in BlockPairs}
  <2>1. 0 \in Reached
    BY <1>2
  <2>2. \A i \in 1..16 : i - 1 \in Reached => i \in Reached
    BY <1>2, RoundBack
  <2>3. 0..16 \subseteq Reached
    BY <2>1, <2>2, UpTo16
  <2> QED BY <2>3
<1>4. PICK g : IsRun(g, KS, Turned(f[16]), 16) /\ Rounds(KS, Turned(f[16])) = g[16]
  BY RunIs
<1>5. g[0] = Turned(f[16]) /\ \A i \in 1..16 : g[i] = DES_ROUND(KS[i], g[i - 1])
  BY <1>4 DEF IsRun
<1>6. \A i \in 0..16 : g[i] = Turned(f[16 - i])
  <2> DEFINE Reached == {i \in 0..16 : g[i] = Turned(f[16 - i])}
  <2>1. 0 \in Reached
    BY <1>5
  <2>2. ASSUME NEW i \in 1..16, i - 1 \in Reached PROVE i \in Reached
    <3>1. PICK k \in 1..16 : k = 17 - i
      OBVIOUS
    <3>2. g[i - 1] = Turned(f[k]) /\ KS[i] = SK[k] /\ k - 1 \in 0..16 /\ 16 - i = k - 1
      BY <2>2, <3>1
    <3>3. f[k] = DES_ROUND(SK[k], f[k - 1]) /\ f[k - 1] \in BlockPairs
      BY <1>2, <1>3, <3>2
    <3>4. DES_ROUND(SK[k], Turned(f[k])) = Turned(f[k - 1])
      BY <3>3, RoundBack
    <3>5. g[i] = DES_ROUND(KS[i], g[i - 1])
      BY <1>5
    <3> QED BY <3>2, <3>4, <3>5
  <2>3. 0..16 \subseteq Reached
    BY <2>1, <2>2, UpTo16
  <2> QED BY <2>3
<1>7. g[16] = Turned(f[0])
  BY <1>6
<1> QED BY <1>1, <1>2, <1>3, <1>4, <1>7

\* A block that was encrypted with some subkeys is decrypted by them in the other order (des.c: the
\* rounds, DES_IP, DES_FP and the loops over the subkeys), whatever the subkeys are.
THEOREM DesDecrypts ==
    ASSUME NEW S, NEW SK \in Seq(S), Len(SK) = 16, NEW p \in BlockPairs
    PROVE  Crypted(Reversed(SK), Crypted(SK, p)) = p
<1>1. PICK KS : KS = Reversed(SK)
  OBVIOUS
<1>2. \A i \in 1..16 : KS[i] = SK[17 - i]
  <2>1. DOMAIN SK = 1..16
    OBVIOUS
  <2> QED BY <1>1, <2>1 DEF Reversed
<1>3. PICK q \in BlockPairs : q = DES_IP(p) /\ DES_FP(q) = p
  BY PermutationsUndo
<1>4. PICK r \in BlockPairs : r = Rounds(SK, q) /\ Rounds(KS, Turned(r)) = Turned(q)
  <2>1. Rounds(SK, q) \in BlockPairs /\ Rounds(KS, Turned(Rounds(SK, q))) = Turned(q)
    BY <1>2, RoundsBack
  <2> QED BY <2>1
<1>5. Turned(r) \in BlockPairs /\ Turned(Turned(q)) = q
  BY TurnedTwice
<1>6. PICK c \in BlockPairs : c = DES_FP(Turned(r)) /\ DES_IP(c) = Turned(r)
  BY <1>5, PermutationsUndo
<1>7. Crypted(SK, p) = c
  BY <1>3, <1>4, <1>6 DEF Crypted
<1>8. Crypted(KS, c) = p
  BY <1>3, <1>4, <1>5, <1>6 DEF Crypted
<1> QED BY <1>1, <1>7, <1>8

-----------------------------------------------------------------------------
(* The instances of lcjson *)

LEMMA SmallModulo ==
    ASSUME NEW a \in Nat, NEW b \in Nat, a < b
    PROVE  a % b = a
  OBVIOUS

\* An int stays what it is, and any number becomes one.
LEMMA IntStays ==
    ASSUME NEW n \in Int, -INT_MAX - 1 <= n, n <= INT_MAX
    PROVE  ToInt(n) = n
<1>1. n + INT_MAX + 1 \in Nat /\ 2 * (INT_MAX + 1) \in Nat /\ n + INT_MAX + 1 < 2 * (INT_MAX + 1)
  BY JsonConfigAssumption
<1>2. (n + INT_MAX + 1) % (2 * (INT_MAX + 1)) = n + INT_MAX + 1
  BY <1>1, SmallModulo
<1> QED
  BY <1>2, JsonConfigAssumption DEF ToInt

LEMMA AllowedInts ==
    ASSUME NEW option \in Options, NEW setting \in Allowed(option)
    PROVE  setting \in Int /\ 0 <= setting /\ setting <= INT_MAX
  BY JsonConfigAssumption DEF Allowed, Options

\* What an option takes gives it a setting in its range.
LEMMA SetIsAllowed ==
    ASSUME NEW option \in Options, NEW setting \in Allowed(option), NEW arg, Takes(option, arg)
    PROVE  SetTo(option, setting, arg) \in Allowed(option)
<1>1. CASE option \in IntegerOptions
  BY <1>1 DEF Takes, SetTo, json_integer_option_takes, json_integer_option
<1>2. CASE option \notin IntegerOptions
  <2>1. option \in EnumOptions /\ {0, 1} \subseteq Allowed(option)
    BY <1>2 DEF Options, IntegerOptions, EnumOptions, Allowed
  <2>2. CASE arg = NilArg \/ arg[1] = "boolean"
    BY <1>2, <2>1, <2>2 DEF SetTo, json_enum_option
  <2>3. CASE ~(arg = NilArg \/ arg[1] = "boolean")
    <3> DEFINE Place(i) == i \in 1..Len(WordsOf(option)) /\ arg = LuaWord(WordsOf(option)[i])
               p == CHOOSE i \in 1..Len(WordsOf(option)) : arg = LuaWord(WordsOf(option)[i])
    <3>1. p \in 1..Len(WordsOf(option))
      BY <1>2, <2>3 DEF Takes, json_enum_option_takes
    <3>2. SetTo(option, setting, arg) = p - 1
      BY <1>2, <2>3 DEF SetTo, json_enum_option
    <3>3. 0..(Len(WordsOf(option)) - 1) \subseteq Allowed(option)
      BY <2>1 DEF WordsOf, Allowed, EnumOptions
    <3>4. Len(WordsOf(option)) \in Nat
      BY DEF WordsOf
    <3> QED
      BY <3>1, <3>2, <3>3, <3>4
  <2> QED
    BY <2>2, <2>3
<1> QED
  BY <1>1, <1>2

\* What a call returns for a setting is taken, and gives the same setting.
LEMMA ShownIsTaken ==
    ASSUME NEW option \in Options, NEW setting \in Allowed(option)
    PROVE  /\ Takes(option, Shown(option, setting))
           /\ SetTo(option, setting, Shown(option, setting)) = setting
<1>1. CASE option \in IntegerOptions
  <2>1. Shown(option, setting) = <<"number", setting>>
    BY <1>1 DEF Shown, LuaNumber, IntegerOptions, EnumOptions
  <2>2. ToInt(setting) = setting
    BY AllowedInts, IntStays, JsonConfigAssumption
  <2>3. <<"number", setting>> # NilArg
    BY DEF NilArg
  <2> QED
    BY <1>1, <2>1, <2>2, <2>3 DEF Takes, SetTo, json_integer_option_takes, json_integer_option
<1>2. CASE option \notin IntegerOptions /\ setting \in 0..1
  <2>1. option \in EnumOptions
    BY <1>2 DEF Options
  <2>2. Shown(option, setting) = <<"boolean", setting = 1>>
    BY <1>2, <2>1 DEF Shown, LuaBoolean
  <2>3. <<"boolean", setting = 1>> # NilArg
    BY DEF NilArg
  <2>4. json_enum_option(option, setting, <<"boolean", setting = 1>>) = IF setting = 1 THEN 1 ELSE 0
    <3> DEFINE arg == <<"boolean", setting = 1>>
    <3>1. arg # NilArg /\ arg[1] = "boolean" /\ arg[2] = (setting = 1)
      BY <2>3
    <3> HIDE DEF arg
    <3>2. json_enum_option(option, setting, arg) = IF arg[2] THEN 1 ELSE 0
      BY <3>1 DEF json_enum_option
    <3> QED
      BY <3>1, <3>2 DEF arg
  <2>5. json_enum_option(option, setting, <<"boolean", setting = 1>>) = setting
    BY <1>2, <2>4
  <2> QED
    BY <1>2, <2>2, <2>5 DEF Takes, SetTo, json_enum_option_takes
<1>3. CASE option \notin IntegerOptions /\ setting \notin 0..1
  <2>1. option = "encode_invalid_numbers" /\ setting = 2
    BY <1>3 DEF Allowed, Options, IntegerOptions
  <2>2. /\ Len(WordsOf(option)) = 3 /\ WordsOf(option)[1] = "off" /\ WordsOf(option)[2] = "on"
        /\ WordsOf(option)[3] = "null"
    BY <2>1 DEF WordsOf
  <2>3. Shown(option, setting) = <<"word", "null">>
    BY <1>3, <2>1, <2>2 DEF Shown, LuaWord
  <2>4. <<"word", "null">> # NilArg
    BY DEF NilArg
  <2>5. \A i \in 1..3 : <<"word", "null">> = LuaWord(WordsOf(option)[i]) <=> i = 3
    BY <2>2 DEF LuaWord
  <2>6. Len(WordsOf(option)) = 3
    BY <2>2
  <2>7. (CHOOSE i \in 1..Len(WordsOf(option)) : <<"word", "null">> = LuaWord(WordsOf(option)[i])) = 3
    BY <2>5, <2>6
  <2> QED
    BY <1>3, <2>1, <2>3, <2>4, <2>5, <2>6, <2>7 DEF Takes, SetTo, json_enum_option_takes, json_enum_option
<1> QED
  BY <1>1, <1>2, <1>3

\* A function sets each of its options once.
LEMMA FunctionsSetOnce ==
    ASSUME NEW function \in OptionCalls, NEW i \in DOMAIN function, NEW j \in DOMAIN function,
           function[i] = function[j]
    PROVE  i = j
  BY DEF OptionCalls, Sparse

LEMMA AfterCallIsAllowed ==
    ASSUME NEW before, \A option \in Options : before[option] \in Allowed(option),
           NEW function \in OptionCalls, NEW args
    PROVE  /\ AfterCall(before, function, args) = [option \in Options |-> AfterCall(before, function, args)[option]]
           /\ \A option \in Options : AfterCall(before, function, args)[option] \in Allowed(option)
<1>1. AfterCall(before, function, args) = [option \in Options |-> AfterCall(before, function, args)[option]]
  BY DEF AfterCall
<1>2. SUFFICES ASSUME NEW option \in Options
               PROVE  AfterCall(before, function, args)[option] \in Allowed(option)
  BY <1>1
<1>3. CASE \E k \in DOMAIN function : function[k] = option /\ TakenUpTo(function, args, k)
  <2> DEFINE p == CHOOSE i \in DOMAIN function : function[i] = option
  <2>1. PICK k \in DOMAIN function : function[k] = option /\ TakenUpTo(function, args, k)
    BY <1>3
  <2>2. p \in DOMAIN function /\ function[p] = option
    BY <2>1
  <2>3. p = k
    BY <2>1, <2>2, FunctionsSetOnce
  <2>4. k \in 1..k
    BY DEF OptionCalls, Sparse
  <2>5. Takes(option, ArgAt(args, p))
    BY <2>1, <2>3, <2>4 DEF TakenUpTo
  <2>6. AfterCall(before, function, args)[option] = SetTo(option, before[option], ArgAt(args, p))
    BY <1>3 DEF AfterCall
  <2> QED
    BY <2>5, <2>6, SetIsAllowed
<1>4. CASE ~\E k \in DOMAIN function : function[k] = option /\ TakenUpTo(function, args, k)
  BY <1>4 DEF AfterCall
<1> QED
  BY <1>3, <1>4

-----------------------------------------------------------------------------

ConfigTypes ==
    /\ Live \subseteq Configs
    /\ settings = [c \in Live |-> settings[c]]
    /\ \A c \in Live : settings[c] = [option \in Options |-> settings[c][option]]
    /\ keptbuffers = [c \in Configs |-> keptbuffers[c]]

InRange == \A c \in Live, option \in Options : settings[c][option] \in Allowed(option)

ConfigInv == ConfigTypes /\ InRange /\ BuffersAreKept

LEMMA ConfigStarts == ConfigInit => ConfigInv
<1> SUFFICES ASSUME ConfigInit PROVE ConfigInv
  OBVIOUS
<1>1. Live = {}
  BY DEF ConfigInit, Live
<1>2. \A c \in Configs : keptbuffers[c].at = NoBuffer
  BY DEF ConfigInit, NoneKept, Buffer
<1>3. ConfigTypes
  BY <1>1 DEF ConfigInit, ConfigTypes, Live
<1>4. BuffersAreKept
  BY <1>1, <1>2 DEF BuffersAreKept, ConfigInit
<1> QED
  BY <1>1, <1>3, <1>4 DEF ConfigInv, InRange

\* A buffer is made for an instance without one, or that of an instance is freed.
LEMMA Allocated ==
    ASSUME ConfigTypes, BuffersAreKept, NEW c \in Configs, keptbuffers[c].at = NoBuffer,
           NEW at \in BufferPlaces \ heap, heap' = heap \union {at},
           keptbuffers' = [keptbuffers EXCEPT ![c] = KeptAt(at)],
           c \in Live', settings'[c]["encode_keep_buffer"] = 1,
           \A d \in Configs \ {c} : /\ d \in Live' <=> d \in Live
                                    /\ d \in Live => settings'[d] = settings[d]
    PROVE  BuffersAreKept'
<1>1. at # NoBuffer
  BY JsonConfigAssumption
<1>2. keptbuffers'[c].at = at /\ \A d \in Configs \ {c} : keptbuffers'[d].at = keptbuffers[d].at
  BY DEF ConfigTypes, KeptAt, Buffer
<1>3. \A d \in Configs : keptbuffers[d].at # NoBuffer => keptbuffers[d].at \in heap
  BY DEF BuffersAreKept
<1> QED
  BY <1>1, <1>2, <1>3 DEF BuffersAreKept

LEMMA Freed ==
    ASSUME ConfigTypes, BuffersAreKept, NEW c \in Configs,
           heap' = heap \ {keptbuffers[c].at},
           keptbuffers' = [keptbuffers EXCEPT ![c] = NoneKept],
           c \in Live' => settings'[c]["encode_keep_buffer"] # 1,
           \A d \in Configs \ {c} : /\ d \in Live' <=> d \in Live
                                    /\ d \in Live => settings'[d] = settings[d]
    PROVE  BuffersAreKept'
<1>1. keptbuffers'[c].at = NoBuffer /\ \A d \in Configs \ {c} : keptbuffers'[d].at = keptbuffers[d].at
  BY DEF ConfigTypes, NoneKept, Buffer
<1>2. heap' = {keptbuffers'[d].at : d \in Configs} \ {NoBuffer}
  BY <1>1 DEF BuffersAreKept
<1> QED
  BY <1>1, <1>2 DEF BuffersAreKept

\* Nothing that BuffersAreKept is about changes.
LEMMA BuffersStay ==
    ASSUME BuffersAreKept, heap' = heap,
           \A c \in Configs : /\ keptbuffers'[c].at = keptbuffers[c].at
                              /\ c \in Live' <=> c \in Live
                              /\ c \in Live => settings'[c]["encode_keep_buffer"] = settings[c]["encode_keep_buffer"]
    PROVE  BuffersAreKept'
  BY DEF BuffersAreKept

LEMMA CreateKeeps ==
    ASSUME ConfigInv, NEW c \in Configs, json_create_config(c)
    PROVE  ConfigInv'
<1> USE DEF ConfigInv
<1>1. Live' = Live \union {c} /\ settings'[c] = [option \in Options |-> DefaultOf(option)]
        /\ \A d \in Live : settings'[d] = settings[d]
  BY DEF json_create_config, Live
<1>2. ConfigTypes'
  <2>1. settings' = [d \in Live' |-> settings'[d]]
    BY <1>1 DEF json_create_config, Live
  <2>2. keptbuffers' = [d \in Configs |-> keptbuffers'[d]]
    BY DEF json_create_config, ConfigTypes
  <2> QED
    BY <1>1, <2>1, <2>2 DEF ConfigTypes
<1>3. \A option \in Options : DefaultOf(option) \in Allowed(option)
  BY JsonConfigAssumption DEF DefaultOf, Allowed, Options, IntegerOptions, EnumOptions
<1>4. InRange'
  BY <1>1, <1>3 DEF InRange
<1>5. "encode_keep_buffer" \in Options /\ DefaultOf("encode_keep_buffer") = 1
  BY DEF Options, EnumOptions, DefaultOf
<1>6. PICK at \in BufferPlaces \ heap : heap' = heap \union {at} /\ keptbuffers' = [keptbuffers EXCEPT ![c] = KeptAt(at)]
  BY DEF json_create_config
<1>7. keptbuffers[c].at = NoBuffer
  BY DEF json_create_config, BuffersAreKept
<1>8. BuffersAreKept'
  BY <1>1, <1>5, <1>6, <1>7, Allocated
<1> QED
  BY <1>2, <1>4, <1>8

LEMMA DestroyKeeps ==
    ASSUME ConfigInv, NEW c \in Configs, json_destroy_config(c)
    PROVE  ConfigInv'
<1> USE DEF ConfigInv
<1>1. Live' = Live \ {c} /\ \A d \in Live \ {c} : settings'[d] = settings[d]
  BY DEF json_destroy_config, Live
<1>2. ConfigTypes'
  BY <1>1 DEF json_destroy_config, ConfigTypes, Live
<1>3. InRange'
  BY <1>1 DEF InRange
<1>4. BuffersAreKept'
  BY <1>1, Freed DEF json_destroy_config
<1> QED
  BY <1>2, <1>3, <1>4

LEMMA EncodeKeeps ==
    ASSUME ConfigInv, NEW c \in Configs, NEW length, json_encode(c, length)
    PROVE  ConfigInv'
<1> USE DEF ConfigInv
<1>1. settings' = settings /\ heap' = heap
  BY DEF json_encode
<1>2. keptbuffers' = [d \in Configs |-> keptbuffers'[d]] /\ \A d \in Configs : keptbuffers'[d].at = keptbuffers[d].at
  BY DEF json_encode, ConfigTypes, Buffer
<1>3. ConfigTypes' /\ InRange'
  BY <1>1, <1>2 DEF ConfigTypes, InRange, Live
<1>4. BuffersAreKept'
  BY <1>1, <1>2, BuffersStay DEF Live
<1> QED
  BY <1>3, <1>4

LEMMA ConfigureKeeps ==
    ASSUME ConfigInv, NEW c \in Configs, NEW function \in OptionCalls, NEW args, Configure(c, function, args)
    PROVE  ConfigInv'
<1> USE DEF ConfigInv
<1>1. CASE Len(args) > Len(function)
  <2>1. UNCHANGED <<settings, keptbuffers, heap>>
    BY <1>1 DEF Configure
  <2> QED
    BY <2>1, BuffersStay DEF ConfigTypes, InRange, Live
<1>2. CASE ~(Len(args) > Len(function))
  <2> DEFINE after == AfterCall(settings[c], function, args)
             old == settings[c]["encode_keep_buffer"]
             new == after["encode_keep_buffer"]
  <2>1. c \in Live /\ settings' = [settings EXCEPT ![c] = after] /\ json_cfg_encode_keep_buffer(c, old, new)
    BY <1>2 DEF Configure
  <2>2. /\ after = [option \in Options |-> after[option]]
        /\ \A option \in Options : after[option] \in Allowed(option)
    BY <2>1, AfterCallIsAllowed DEF InRange
  <2> HIDE DEF after
  <2>3. Live' = Live /\ settings'[c] = after /\ \A d \in Live \ {c} : settings'[d] = settings[d]
    BY <2>1 DEF ConfigTypes, Live
  <2>4. InRange'
    BY <2>2, <2>3 DEF InRange
  <2>5. keptbuffers' = [d \in Configs |-> keptbuffers'[d]]
    BY <2>1 DEF json_cfg_encode_keep_buffer, ConfigTypes
  <2>6. settings' = [d \in Live' |-> settings'[d]]
    BY <2>1, <2>3 DEF Live
  <2>7. ConfigTypes'
    BY <2>2, <2>3, <2>5, <2>6 DEF ConfigTypes
  <2>8. "encode_keep_buffer" \in Options /\ Allowed("encode_keep_buffer") = 0..1
    BY DEF Options, EnumOptions, Allowed
  <2>9. old \in 0..1 /\ new \in 0..1
    BY <2>1, <2>2, <2>8 DEF InRange
  <2>10. BuffersAreKept'
    <3>1. CASE old = new
      BY <2>1, <2>3, <3>1, BuffersStay DEF json_cfg_encode_keep_buffer
    <3>2. CASE old # new /\ new = 1
      <4>1. keptbuffers[c].at = NoBuffer
        BY <2>1, <3>2 DEF BuffersAreKept
      <4>2. PICK at \in BufferPlaces \ heap : heap' = heap \union {at} /\ keptbuffers' = [keptbuffers EXCEPT ![c] = KeptAt(at)]
        BY <2>1, <3>2 DEF json_cfg_encode_keep_buffer
      <4> QED
        BY <2>1, <2>3, <3>2, <4>1, <4>2, Allocated
    <3>3. CASE old # new /\ new # 1
      <4>1. heap' = heap \ {keptbuffers[c].at} /\ keptbuffers' = [keptbuffers EXCEPT ![c] = NoneKept]
        BY <2>1, <3>3 DEF json_cfg_encode_keep_buffer
      <4> QED
        BY <2>3, <3>3, <4>1, Freed
    <3> QED
      BY <3>1, <3>2, <3>3
  <2> QED
    BY <2>4, <2>7, <2>10
<1> QED
  BY <1>1, <1>2

LEMMA ConfigKept == ConfigInv /\ [ConfigNext]_configVars => ConfigInv'
<1> SUFFICES ASSUME ConfigInv, [ConfigNext]_configVars PROVE ConfigInv'
  OBVIOUS
<1>1. CASE UNCHANGED configVars
  BY <1>1 DEF configVars, ConfigInv, ConfigTypes, InRange, BuffersAreKept, Live
<1>2. CASE ConfigNext
  <2>1. PICK c \in Configs :
            \/ json_create_config(c) \/ json_destroy_config(c)
            \/ \E function \in OptionCalls : \E args \in GivenTo(function) : Configure(c, function, args)
            \/ \E length \in TextLengths : json_encode(c, length)
    BY <1>2 DEF ConfigNext
  <2> QED
    BY <2>1, CreateKeeps, DestroyKeeps, ConfigureKeeps, EncodeKeeps
<1> QED
  BY <1>1, <1>2

\* Whatever options are set and whatever is encoded, an instance that is to keep a buffer has one
\* of its own, and there is no other; and every setting is in its range, as it is shown and can
\* be given again: json_cfg_encode_keep_buffer, json_integer_option and json_enum_option
\* (lua_cjson.c).
THEOREM InstancesKeep == ConfigSpec => [](BuffersAreKept /\ SettingsAreAllowed)
<1>1. ConfigInv => BuffersAreKept /\ SettingsAreAllowed
  BY ShownIsTaken DEF ConfigInv, InRange, SettingsAreAllowed
<1> QED
  BY <1>1, ConfigStarts, ConfigKept, PTL DEF ConfigSpec

-----------------------------------------------------------------------------
(* The levels of pb.slice *)

Views == [p : Int, start : Int, end : Int]
Lies(s) == 1 <= s.start /\ s.start <= s.p /\ s.p <= s.end /\ s.end <= Len(varints) + 1

SliceTypes ==
    /\ Len(varints) \in Nat /\ \A p \in 1..Len(varints) : varints[p].n \in Nat /\ varints[p].v \in Nat
    /\ curr \in Views /\ buff \in Seq(Views) /\ entered \in Seq({"bytes", "range"})
    /\ Len(entered) = used

SliceInv == SliceTypes /\ LevelsNest

LEMMA ContentsAreVarints ==
    ASSUME NEW c \in Contents
    PROVE  Len(c) \in Nat /\ \A p \in 1..Len(c) : c[p].n \in Nat /\ c[p].v \in Nat
<1> DEFINE R == [n : Nat, v : Nat]
<1>1. c \in Seq(R)
  BY PbSliceAssumption
<1>2. \A r \in R : r.n \in Nat /\ r.v \in Nat
  OBVIOUS
<1> HIDE DEF R
<1>3. Len(c) \in Nat /\ \A p \in 1..Len(c) : c[p] \in R
  BY <1>1
<1> QED
  BY <1>2, <1>3

LEMMA PosrelatIsNat ==
    ASSUME NEW pos \in Int, NEW len \in Nat
    PROVE  posrelat(pos, len) \in Nat
  BY DEF posrelat

\* A range lies in what it is of, unless it begins behind it.
LEMMA RangesLie ==
    ASSUME NEW i \in Int, NEW j \in Int, NEW len \in Nat
    PROVE  /\ rangerelat(i, j, len).from \in Nat \ {0} /\ rangerelat(i, j, len).range \in Nat
           /\ rangerelat(i, j, len).from <= len + 1
                => rangerelat(i, j, len).from + rangerelat(i, j, len).range <= len + 1
<1>1. From(i, len) \in Nat \ {0}
  BY PosrelatIsNat DEF From
<1>2. To(j, len) \in Nat /\ To(j, len) <= len
  BY PosrelatIsNat DEF To
<1> QED
  BY <1>1, <1>2 DEF rangerelat

LEMMA ViewsAreViews ==
    ASSUME NEW p \in Int, NEW start \in Int, NEW end \in Int
    PROVE  /\ View(p, start, end) \in Views /\ View(p, start, end).p = p
           /\ View(p, start, end).start = start /\ View(p, start, end).end = end
  BY DEF View, Views

LEMMA LevelsAreViews ==
    ASSUME SliceTypes, NEW k \in 0..used
    PROVE  LevelView(k) \in Views
  BY DEF SliceTypes, LevelView, used

LEMMA CurrLies ==
    ASSUME SliceInv
    PROVE  Lies(curr) /\ curr \in Views
<1>1. used \in Nat /\ curr \in Views
  BY DEF SliceInv, SliceTypes, used
<1>2. used \in 0..used /\ LevelView(used) = curr
  BY <1>1 DEF LevelView
<1>3. \A k \in 0..used : Lies(LevelView(k))
  BY DEF SliceInv, LevelsNest, Lies
<1> QED
  BY <1>1, <1>2, <1>3

\* A varint that is read ends in the view.
LEMMA VarintLies ==
    ASSUME SliceInv
    PROVE  pb_readvarint64_(curr) \in 0..LeftOf(curr)
<1>1. curr.p \in Int /\ curr.start \in Int /\ curr.end \in Int /\ Lies(curr)
  BY CurrLies DEF Views
<1>2. CASE LeftOf(curr) <= 0
  BY <1>1, <1>2 DEF pb_readvarint64_, LeftOf, Lies
<1>3. CASE LeftOf(curr) > 0
  <2>1. Len(varints) \in Nat /\ \A p \in 1..Len(varints) : varints[p].n \in Nat
    BY DEF SliceInv, SliceTypes
  <2>2. curr.p \in 1..Len(varints)
    BY <1>1, <1>3, <2>1 DEF Lies, LeftOf
  <2>3. varints[curr.p].n \in Nat
    BY <2>1, <2>2
  <2> QED
    BY <1>1, <1>3, <2>3 DEF pb_readvarint64_, LeftOf
<1> QED
  BY <1>1, <1>2, <1>3 DEF LeftOf

\* So do the bytes after it.
LEMMA BytesLie ==
    ASSUME SliceInv
    PROVE  /\ pb_readbytes_(curr) \in 0..LeftOf(curr)
           /\ pb_readbytes_(curr) # 0 => pb_readvarint64_(curr) <= pb_readbytes_(curr)
<1>1. curr.p \in Int /\ curr.start \in Int /\ curr.end \in Int /\ Lies(curr)
  BY CurrLies DEF Views
<1> DEFINE n == pb_readvarint64_(curr)
<1>2. n \in 0..LeftOf(curr) /\ LeftOf(curr) \in Nat
  BY <1>1, VarintLies DEF LeftOf, Lies
<1>3. CASE n = 0
  BY <1>2, <1>3 DEF pb_readbytes_
<1>4. CASE n # 0
  <2>1. LeftOf(curr) > 0
    BY <1>2, <1>4
  <2>2. Len(varints) \in Nat /\ \A p \in 1..Len(varints) : varints[p].v \in Nat
    BY DEF SliceInv, SliceTypes
  <2>3. curr.p \in 1..Len(varints)
    BY <1>1, <2>1, <2>2 DEF Lies, LeftOf
  <2>4. varints[curr.p].v \in Nat
    BY <2>2, <2>3
  <2> HIDE DEF n
  <2>5. pb_readbytes_(curr) = IF n = 0 \/ LeftOf(curr) - n < varints[curr.p].v THEN 0 ELSE n + varints[curr.p].v
    BY DEF pb_readbytes_, n
  <2> QED
    BY <1>2, <1>4, <2>4, <2>5 DEF n
<1> QED
  BY <1>3, <1>4

LEMMA ScalarLies ==
    ASSUME SliceInv, NEW letter \in Letters, NEW arg \in Int
    PROVE  lpb_unpackscalar(curr, letter, arg) \in 0..LeftOf(curr)
<1>1. LeftOf(curr) \in Nat
  BY CurrLies DEF Views, Lies, LeftOf
<1>2. \A n \in Nat : pb_readfixed_(curr, n) \in 0..LeftOf(curr)
  BY <1>1 DEF pb_readfixed_
<1>3. pb_readslice(curr, arg) \in 0..LeftOf(curr)
  BY <1>1 DEF pb_readslice
<1>4. lpb_readbytes(curr) \in 0..LeftOf(curr)
  BY VarintLies, BytesLie DEF lpb_readbytes
<1>5. Fixed32 \in Nat /\ 2 * Fixed32 \in Nat
  BY PbSliceAssumption
<1>6. 0 \in 0..LeftOf(curr)
  BY <1>1
<1>7. CASE letter = "v"
  BY <1>7, VarintLies DEF lpb_unpackscalar
<1>8. CASE letter = "d"
  BY <1>2, <1>5, <1>8 DEF lpb_unpackscalar
<1>9. CASE letter = "q"
  BY <1>2, <1>5, <1>9 DEF lpb_unpackscalar
<1>10. CASE letter = "s"
  BY <1>10, BytesLie DEF lpb_unpackscalar
<1>11. CASE letter = "c"
  BY <1>3, <1>11 DEF lpb_unpackscalar
<1>12. CASE letter = "S"
  BY <1>4, <1>12 DEF lpb_unpackscalar
<1>13. CASE letter = "g"
  BY <1>6, <1>13 DEF lpb_unpackscalar
<1> QED
  BY <1>7, <1>8, <1>9, <1>10, <1>11, <1>12, <1>13 DEF Letters

-----------------------------------------------------------------------------

\* A message is begun: its view is on the whole of it.
LEMMA Begun ==
    ASSUME NEW c \in Contents, NEW i \in Positions, NEW j \in Positions,
           rangerelat(i, j, Len(c)).from <= Len(c) + 1, varints = c, buff = <<View(1, 1, Len(c) + 1)>>,
           curr = View(rangerelat(i, j, Len(c)).from, 1, rangerelat(i, j, Len(c)).from + rangerelat(i, j, Len(c)).range),
           entered = <<"range">>
    PROVE  SliceInv
<1> DEFINE r == rangerelat(i, j, Len(c))
<1>1. /\ Len(c) \in Nat /\ i \in Int /\ j \in Int
      /\ \A p \in 1..Len(c) : c[p].n \in Nat /\ c[p].v \in Nat
  BY ContentsAreVarints, PbSliceAssumption
<1>2. r.from \in Nat \ {0} /\ r.range \in Nat /\ r.from + r.range <= Len(c) + 1
  BY <1>1, RangesLie
<1> HIDE DEF r
<1>3. /\ curr \in Views /\ curr.p = r.from /\ curr.start = 1 /\ curr.end = r.from + r.range
  <2>1. r.from \in Int /\ r.from + r.range \in Int
    BY <1>2
  <2>2. curr = View(r.from, 1, r.from + r.range)
    BY DEF r
  <2> QED
    BY <2>1, <2>2, ViewsAreViews
<1>4. /\ buff[1] \in Views /\ buff[1].p = 1 /\ buff[1].start = 1 /\ buff[1].end = Len(c) + 1
  <2>1. Len(c) + 1 \in Int
    BY <1>1
  <2>2. buff[1] = View(1, 1, Len(c) + 1)
    OBVIOUS
  <2> QED
    BY <2>1, <2>2, ViewsAreViews
<1>5. used = 1 /\ Len(entered) = 1 /\ entered[1] = "range" /\ buff \in Seq(Views) /\ entered \in Seq({"bytes", "range"})
  BY <1>4 DEF used
<1>6. SliceTypes
  BY <1>1, <1>3, <1>5 DEF SliceTypes
<1>7. LevelView(1) = curr /\ LevelView(0) = buff[1]
  BY <1>5 DEF LevelView
<1>8. LevelsNest
  BY <1>1, <1>2, <1>3, <1>4, <1>5, <1>7 DEF LevelsNest
<1> QED
  BY <1>6, <1>8 DEF SliceInv

LEMMA ResetKeeps == Lslice_reset \/ lpb_resetslice => SliceInv'
<1>1. ASSUME Lslice_reset PROVE SliceInv'
  <2>1. PICK c \in Contents, i \in Positions, j \in Positions : lpb_initslice(c, i, j)
    BY <1>1 DEF Lslice_reset
  <2> DEFINE r == rangerelat(i, j, Len(c))
  <2>2. /\ Len(c) \in Nat /\ i \in Int /\ j \in Int
        /\ \A p \in 1..Len(c) : c[p].n \in Nat /\ c[p].v \in Nat
    BY ContentsAreVarints, PbSliceAssumption
  <2>3. r.from \in Nat \ {0} /\ r.range \in Nat /\ r.from + r.range <= Len(c) + 1
    BY <2>1, <2>2, RangesLie DEF lpb_initslice
  <2>4. /\ varints' = c /\ buff' = <<View(1, 1, Len(c) + 1)>> /\ entered' = <<"range">>
        /\ curr' = View(r.from, 1, r.from + r.range)
    BY <2>1 DEF lpb_initslice
  <2> HIDE DEF r
  <2>5. curr' \in Views /\ curr'.p = r.from /\ curr'.start = 1 /\ curr'.end = r.from + r.range
    BY <2>3, <2>4, ViewsAreViews
  <2>6. buff'[1] \in Views /\ buff'[1].p = 1 /\ buff'[1].start = 1 /\ buff'[1].end = Len(c) + 1
    BY <2>2, <2>4, ViewsAreViews
  <2>7. /\ used' = 1 /\ Len(entered') = 1 /\ entered'[1] = "range"
        /\ buff' \in Seq(Views) /\ entered' \in Seq({"bytes", "range"})
    BY <2>4, <2>6 DEF used
  <2>8. SliceTypes'
    BY <2>2, <2>4, <2>5, <2>7 DEF SliceTypes
  <2>9. LevelView(1)' = curr' /\ LevelView(0)' = buff'[1]
    BY <2>7 DEF LevelView
  <2>10. LevelsNest'
    BY <2>2, <2>3, <2>4, <2>5, <2>6, <2>7, <2>9 DEF LevelsNest
  <2> QED
    BY <2>8, <2>10 DEF SliceInv
<1>2. ASSUME lpb_resetslice PROVE SliceInv'
  <2>1. varints' = <<>> /\ curr' = View(1, 1, 1) /\ buff' = <<>> /\ entered' = <<>>
    BY <1>2 DEF lpb_resetslice
  <2>2. curr' \in Views /\ curr'.p = 1 /\ curr'.start = 1 /\ curr'.end = 1
    BY <2>1, ViewsAreViews
  <2>3. used' = 0 /\ Len(entered') = 0 /\ Len(varints') = 0
    BY <2>1 DEF used
  <2>4. SliceTypes'
    BY <2>1, <2>2, <2>3 DEF SliceTypes
  <2>5. LevelView(0)' = curr'
    BY <2>3 DEF LevelView
  <2>6. LevelsNest'
    BY <2>2, <2>3, <2>5 DEF LevelsNest
  <2> QED
    BY <2>4, <2>6 DEF SliceInv
<1> QED
  BY <1>1, <1>2

\* Only where the current view goes on changes.
LEMMA MoveKeeps ==
    ASSUME SliceInv, curr' \in Views, curr'.start = curr.start, curr'.end = curr.end,
           curr.start <= curr'.p, curr'.p <= curr.end, UNCHANGED <<varints, buff, entered>>
    PROVE  SliceInv'
<1>0. PICK u \in Nat : u = used
  BY DEF SliceInv, SliceTypes, used
<1>1. used = u /\ used' = u
  BY <1>0 DEF used
<1>2. SliceTypes'
  BY <1>1 DEF SliceInv, SliceTypes
<1>3. \A k \in 0..u : k # u => LevelView(k)' = LevelView(k)
  BY <1>1 DEF LevelView
<1>4. LevelView(u)' = curr' /\ LevelView(u) = curr
  BY <1>1 DEF LevelView
<1>5. Lies(curr)
  BY CurrLies
<1>6. \A k \in 0..u : LevelView(k)'.start = LevelView(k).start /\ LevelView(k)'.end = LevelView(k).end
  <2> TAKE k \in 0..u
  <2>1. CASE k = u
    BY <1>4, <2>1
  <2>2. CASE k # u
    BY <1>3, <2>2
  <2> QED
    BY <2>1, <2>2
<1>7. \A k \in 1..u : LevelView(k - 1)' = LevelView(k - 1)
  BY <1>1, <1>3
<1>8. \A k \in 0..u : Lies(LevelView(k))'
  <2> TAKE k \in 0..u
  <2>1. CASE k = u
    BY <1>4, <1>5, <2>1 DEF Lies
  <2>2. CASE k # u
    BY <1>1, <1>3, <2>2 DEF Lies, SliceInv, LevelsNest
  <2> QED
    BY <2>1, <2>2
<1>9. \A k \in 1..u :
          /\ LevelView(k - 1)'.start <= LevelView(k)'.start /\ LevelView(k)'.end <= LevelView(k - 1)'.end
          /\ entered'[k] = "bytes" => LevelView(k)'.end = LevelView(k - 1)'.p
  <2> TAKE k \in 1..u
  <2>1. k \in 0..u
    BY <1>1
  <2> QED
    BY <1>1, <1>6, <1>7, <2>1 DEF SliceInv, LevelsNest
<1>10. LevelsNest'
  BY <1>1, <1>8, <1>9 DEF LevelsNest, Lies
<1> QED
  BY <1>2, <1>10 DEF SliceInv

LEMMA UnpackKeeps ==
    ASSUME SliceInv, lpb_unpackfmt \/ UnpackGoes
    PROVE  SliceInv'
<1>1. curr.p \in Int /\ curr.start \in Int /\ curr.end \in Int /\ Lies(curr)
  BY CurrLies DEF Views
<1>2. CASE lpb_unpackfmt
  <2>1. PICK letter \in Letters, arg \in Positions : curr' = On(curr, lpb_unpackscalar(curr, letter, arg))
    BY <1>2 DEF lpb_unpackfmt
  <2>2. arg \in Int
    BY PbSliceAssumption
  <2>3. PICK n \in 0..LeftOf(curr) : curr' = On(curr, n)
    BY <2>1, <2>2, ScalarLies
  <2>4. curr' \in Views /\ curr'.p = curr.p + n /\ curr'.start = curr.start /\ curr'.end = curr.end
    BY <1>1, <2>3, ViewsAreViews DEF On
  <2>5. curr.start <= curr'.p /\ curr'.p <= curr.end
    BY <1>1, <2>3, <2>4 DEF Lies, LeftOf
  <2> QED
    BY <1>2, <2>4, <2>5, MoveKeeps DEF lpb_unpackfmt
<1>3. CASE UnpackGoes
  <2>1. PICK letter \in {"*", "+"}, arg \in Positions :
            /\ letter = "+" => pb_pos(curr) + arg + 1 >= 0
            /\ curr' = lpb_unpackloc(curr, letter, arg)
    BY <1>3 DEF UnpackGoes
  <2> DEFINE len == curr.end - curr.start
             to == IF letter = "*" THEN posrelat(arg, len) ELSE pb_pos(curr) + arg + 1
             li == Limited(to, len)
  <2>2. len \in Nat /\ arg \in Int
    BY <1>1, PbSliceAssumption DEF Lies
  <2>3. to \in Nat
    <3>1. CASE letter = "*"
      BY <2>2, <3>1, PosrelatIsNat
    <3>2. CASE letter = "+"
      BY <1>1, <2>1, <2>2, <3>2 DEF pb_pos
    <3> QED
      BY <3>1, <3>2
  <2>4. curr' = View(curr.start + li - 1, curr.start, curr.end)
    BY <2>1 DEF lpb_unpackloc
  <2> HIDE DEF to
  <2>5. li \in 1..(len + 1)
    BY <2>2, <2>3 DEF Limited
  <2> HIDE DEF li
  <2>6. /\ curr' \in Views /\ curr'.p = curr.start + li - 1
        /\ curr'.start = curr.start /\ curr'.end = curr.end
    <3>1. curr.start + li - 1 \in Int
      BY <1>1, <2>2, <2>5
    <3> QED
      BY <1>1, <2>4, <3>1, ViewsAreViews
  <2>7. curr.start <= curr'.p /\ curr'.p <= curr.end
    BY <1>1, <2>5, <2>6
  <2> QED
    BY <1>3, <2>6, <2>7, MoveKeeps DEF UnpackGoes
<1> QED
  BY <1>2, <1>3

\* A view is put on another one, which may have gone on.
LEMMA Entered ==
    ASSUME SliceInv, NEW below \in Views, NEW above \in Views, NEW how \in {"bytes", "range"},
           below.start = curr.start, below.end = curr.end, curr.p <= below.p, below.p <= below.end,
           below.start <= above.start, above.start <= above.p, above.p <= above.end, above.end <= below.end,
           how = "bytes" => above.end = below.p,
           buff' = Append(buff, below), curr' = above, entered' = Append(entered, how), UNCHANGED varints
    PROVE  SliceInv'
<1>0. PICK u \in Nat : u = used
  BY DEF SliceInv, SliceTypes, used
<1>1. used = u /\ used' = u + 1 /\ Len(entered) = u /\ Len(buff) = u /\ buff \in Seq(Views)
      /\ entered \in Seq({"bytes", "range"})
  BY <1>0 DEF SliceInv, SliceTypes, used
<1>2. SliceTypes'
  BY <1>1 DEF SliceInv, SliceTypes, used
<1>3. Lies(curr) /\ curr.start \in Int /\ curr.p \in Int /\ curr.end \in Int
  BY CurrLies DEF Views
<1>4. LevelView(u + 1)' = above
  BY <1>1 DEF LevelView
<1>5. LevelView(u)' = below /\ LevelView(u) = curr
  BY <1>1 DEF LevelView
<1>6. \A k \in 0..u : k # u => LevelView(k)' = LevelView(k)
  BY <1>1 DEF LevelView
<1>7. Lies(below)' /\ Lies(above)'
  BY <1>3 DEF Lies, Views
<1>8. \A k \in 0..(u + 1) : Lies(LevelView(k))'
  <2> TAKE k \in 0..(u + 1)
  <2>1. CASE k = u + 1
    BY <1>4, <1>7, <2>1 DEF Lies
  <2>2. CASE k = u
    BY <1>5, <1>7, <2>2 DEF Lies
  <2>3. CASE k # u /\ k # u + 1
    <3>1. k \in 0..u /\ LevelView(k)' = LevelView(k)
      BY <1>1, <1>6, <2>3
    <3> QED
      BY <1>1, <3>1 DEF Lies, SliceInv, LevelsNest
  <2> QED
    BY <2>1, <2>2, <2>3
<1>9. \A k \in 1..(u + 1) :
          /\ LevelView(k - 1)'.start <= LevelView(k)'.start /\ LevelView(k)'.end <= LevelView(k - 1)'.end
          /\ entered'[k] = "bytes" => LevelView(k)'.end = LevelView(k - 1)'.p
  <2> TAKE k \in 1..(u + 1)
  <2>1. CASE k = u + 1
    <3>1. entered'[k] = how
      BY <1>1, <2>1
    <3>2. LevelView(k)' = above /\ LevelView(k - 1)' = below
      BY <1>1, <1>4, <1>5, <2>1
    <3> QED
      BY <3>1, <3>2
  <2>2. CASE k # u + 1
    <3>1. k \in 1..u /\ k - 1 \in 0..u /\ k - 1 # u /\ k \in 0..u
      BY <1>1, <2>2
    <3>2. LevelView(k - 1)' = LevelView(k - 1) /\ entered'[k] = entered[k]
      BY <1>1, <1>6, <3>1
    <3>3. LevelView(k)'.start = LevelView(k).start /\ LevelView(k)'.end = LevelView(k).end
      BY <1>5, <1>6, <3>1
    <3> QED
      BY <1>1, <3>1, <3>2, <3>3 DEF SliceInv, LevelsNest
  <2> QED
    BY <2>1, <2>2
<1>10. LevelsNest'
  BY <1>1, <1>8, <1>9 DEF LevelsNest, Lies
<1> QED
  BY <1>2, <1>10 DEF SliceInv

LEMMA EnterKeeps ==
    ASSUME SliceInv, Lslice_enter
    PROVE  SliceInv'
<1>1. curr.p \in Int /\ curr.start \in Int /\ curr.end \in Int /\ Lies(curr) /\ curr \in Views
  BY CurrLies DEF Views
<1>2. LeftOf(curr) \in Nat
  BY <1>1 DEF Lies, LeftOf
<1>3. CASE \E i, j \in Positions :
             LET r == rangerelat(i, j, LeftOf(curr)) IN
             /\ curr.p = curr.start /\ r.from <= LeftOf(curr) + 1
             /\ lpb_enterview(View(curr.start + r.from - 1, curr.p, curr.start + r.from - 1 + r.range), "range")
  <2>1. PICK i \in Positions, j \in Positions :
             LET r == rangerelat(i, j, LeftOf(curr)) IN
             /\ curr.p = curr.start /\ r.from <= LeftOf(curr) + 1
             /\ lpb_enterview(View(curr.start + r.from - 1, curr.p, curr.start + r.from - 1 + r.range), "range")
    BY <1>3
  <2> DEFINE r == rangerelat(i, j, LeftOf(curr))
             above == View(curr.start + r.from - 1, curr.p, curr.start + r.from - 1 + r.range)
  <2>2. i \in Int /\ j \in Int
    BY PbSliceAssumption
  <2>3. r.from \in Nat \ {0} /\ r.range \in Nat /\ r.from + r.range <= LeftOf(curr) + 1
    BY <1>2, <2>1, <2>2, RangesLie
  <2>4. /\ curr.p = curr.start /\ buff' = Append(buff, curr) /\ curr' = above
        /\ entered' = Append(entered, "range")
    BY <2>1 DEF lpb_enterview
  <2> HIDE DEF r
  <2>5. /\ above \in Views /\ above.p = curr.start + r.from - 1 /\ above.start = curr.p
        /\ above.end = curr.start + r.from - 1 + r.range
    <3>1. curr.start + r.from - 1 \in Int /\ curr.start + r.from - 1 + r.range \in Int
      BY <1>1, <2>3
    <3> QED
      BY <1>1, <3>1, ViewsAreViews
  <2> HIDE DEF above
  <2>6. /\ curr.start <= above.start /\ above.start <= above.p /\ above.p <= above.end /\ above.end <= curr.end
        /\ curr.p <= curr.end /\ curr.p <= curr.p
    <3>1. r.from + r.range <= curr.end - curr.p + 1 /\ curr.p <= curr.end
      BY <1>1, <2>3 DEF LeftOf, Lies
    <3>2. /\ r.from \in Nat \ {0} /\ r.range \in Nat
          /\ curr.p = curr.start /\ above.start = curr.p /\ above.p = curr.start + r.from - 1
          /\ above.end = curr.start + r.from - 1 + r.range
      BY <2>3, <2>4, <2>5
    <3> QED
      BY <1>1, <3>1, <3>2
  <2>7. UNCHANGED varints
    BY DEF Lslice_enter
  <2> QED
    BY <1>1, <2>4, <2>5, <2>6, <2>7, Entered
<1>4. CASE LET n == pb_readbytes_(curr)
               from == curr.p + pb_readvarint64_(curr) IN
           /\ n # 0
           /\ buff' = Append(buff, On(curr, n))
           /\ curr' = View(from, from, curr.p + n)
           /\ entered' = Append(entered, "bytes")
  <2> DEFINE n == pb_readbytes_(curr)
             m == pb_readvarint64_(curr)
             below == On(curr, n)
             above == View(curr.p + m, curr.p + m, curr.p + n)
  <2>1. /\ n # 0 /\ buff' = Append(buff, below) /\ curr' = above /\ entered' = Append(entered, "bytes")
    BY <1>4
  <2>2. n \in 0..LeftOf(curr) /\ m \in 0..LeftOf(curr) /\ m <= n
    BY <2>1, VarintLies, BytesLie
  <2> HIDE DEF n, m
  <2>3. below \in Views /\ below.p = curr.p + n /\ below.start = curr.start /\ below.end = curr.end
    <3>1. curr.p + n \in Int
      BY <1>1, <1>2, <2>2
    <3> QED
      BY <1>1, <3>1, ViewsAreViews DEF On
  <2>4. above \in Views /\ above.p = curr.p + m /\ above.start = curr.p + m /\ above.end = curr.p + n
    <3>1. curr.p + m \in Int /\ curr.p + n \in Int
      BY <1>1, <1>2, <2>2
    <3> QED
      BY <3>1, ViewsAreViews
  <2> HIDE DEF above, below
  <2>5. /\ curr.p <= below.p /\ below.p <= below.end /\ below.start <= above.start
        /\ above.start <= above.p /\ above.p <= above.end /\ above.end <= below.end /\ above.end = below.p
    BY <1>1, <1>2, <2>2, <2>3, <2>4 DEF LeftOf, Lies
  <2>6. UNCHANGED varints
    BY DEF Lslice_enter
  <2> QED
    BY <2>1, <2>3, <2>4, <2>5, <2>6, Entered
<1> QED
  BY <1>3, <1>4 DEF Lslice_enter

LEMMA LeaveKeeps ==
    ASSUME SliceInv, Lslice_leave
    PROVE  SliceInv'
<1>1. used \in Nat /\ Len(entered) = used /\ buff \in Seq(Views) /\ entered \in Seq({"bytes", "range"})
      /\ UNCHANGED varints
  BY DEF SliceInv, SliceTypes, used, Lslice_leave
<1>2. PICK arg \in Positions :
          LET count == posrelat(arg, used) IN
          /\ count # 0 /\ count <= used
          /\ \/ /\ count = used
                /\ curr' = buff[1] /\ buff' = <<buff[1]>> /\ entered' = <<"range">>
             \/ /\ count < used
                /\ curr' = buff[used - count + 1]
                /\ buff' = SubSeq(buff, 1, used - count)
                /\ entered' = SubSeq(entered, 1, used - count)
  BY DEF Lslice_leave
<1> DEFINE count == posrelat(arg, used)
<1>3. count \in Nat /\ count # 0 /\ count <= used
  BY <1>1, <1>2, PosrelatIsNat, PbSliceAssumption
<1> HIDE DEF count
<1>4. CASE count = used
  <2>1. curr' = buff[1] /\ buff' = <<buff[1]>> /\ entered' = <<"range">>
    BY <1>2, <1>3, <1>4 DEF count
  <2>2. buff[1] \in Views /\ LevelView(0) = buff[1] /\ 0 \in 0..used
    BY <1>1, <1>3, <1>4 DEF used, LevelView
  <2>3. used' = 1 /\ Len(entered') = 1 /\ entered'[1] = "range"
    BY <2>1 DEF used
  <2>4. SliceTypes'
    BY <1>1, <2>1, <2>2, <2>3 DEF SliceInv, SliceTypes
  <2>5. LevelView(0)' = buff[1] /\ LevelView(1)' = buff[1]
    BY <2>1, <2>3 DEF LevelView
  <2>6. Lies(buff[1])
    BY <2>2 DEF SliceInv, LevelsNest, Lies
  <2>7. LevelsNest'
    <3>1. 0..used' = {0, 1} /\ 1..used' = {1}
      BY <2>3
    <3>2. buff[1].start <= buff[1].start /\ buff[1].end <= buff[1].end
      BY <2>2 DEF Views
    <3>3. entered'[1] # "bytes"
      BY <2>3
    <3> QED
      BY <1>1, <2>5, <2>6, <3>1, <3>2, <3>3 DEF LevelsNest, Lies
  <2> QED
    BY <2>4, <2>7 DEF SliceInv
<1>5. CASE count # used
  <2> DEFINE m == used - count
  <2>1. m \in 1..used /\ m < used
    BY <1>1, <1>3, <1>5
  <2>2. curr' = buff[m + 1] /\ buff' = SubSeq(buff, 1, m) /\ entered' = SubSeq(entered, 1, m)
    BY <1>2, <1>3, <1>5 DEF count
  <2> HIDE DEF m
  <2>3. /\ used' = m /\ Len(entered') = m /\ buff' \in Seq(Views) /\ entered' \in Seq({"bytes", "range"})
        /\ \A k \in 1..m : buff'[k] = buff[k] /\ entered'[k] = entered[k]
    BY <1>1, <2>1, <2>2 DEF used
  <2>4. buff[m + 1] \in Views
    BY <1>1, <2>1 DEF used
  <2>5. SliceTypes'
    BY <1>1, <2>2, <2>3, <2>4 DEF SliceInv, SliceTypes
  <2>6. \A k \in 0..m : LevelView(k)' = LevelView(k) /\ k \in 0..used
    <3> TAKE k \in 0..m
    <3>1. CASE k = m
      BY <1>1, <2>1, <2>2, <2>3, <3>1 DEF LevelView
    <3>2. CASE k # m
      BY <1>1, <2>1, <2>3, <3>2 DEF LevelView
    <3> QED
      BY <3>1, <3>2
  <2>7. \A k \in 1..m : k \in 1..used /\ k \in 0..m /\ k - 1 \in 0..m
    BY <1>1, <2>1
  <2>8. LevelsNest'
    BY <1>1, <2>3, <2>6, <2>7 DEF SliceInv, LevelsNest
  <2> QED
    BY <2>5, <2>8 DEF SliceInv
<1> QED
  BY <1>4, <1>5

LEMMA SliceKept == SliceInv /\ [SliceNext]_sliceVars => SliceInv'
<1> SUFFICES ASSUME SliceInv, [SliceNext]_sliceVars PROVE SliceInv'
  OBVIOUS
<1>1. CASE UNCHANGED sliceVars
  BY <1>1 DEF sliceVars, SliceInv, SliceTypes, LevelsNest, LevelView, used
<1> QED
  BY <1>1, ResetKeeps, UnpackKeeps, EnterKeeps, LeaveKeeps DEF SliceNext

\* Whatever is read of a message, entered and left, no view reaches beyond the one it was entered
\* from, and one entered by its length ends where that goes on: lpb_enterview, Lslice_enter and
\* Lslice_leave (lpb.c).
THEOREM LevelsStayNested == SliceSpec => []LevelsNest
<1>1. SliceInit => SliceInv
  BY Begun DEF SliceInit
<1> QED
  BY <1>1, SliceKept, PTL DEF SliceSpec, SliceInv
=============================================================================
