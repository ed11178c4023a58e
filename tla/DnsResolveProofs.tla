-------------------------- MODULE DnsResolveProofs --------------------------
(***************************************************************************)
(* Proofs about DnsResolve: the lists of coroutines that wait for another  *)
(* one's query are consistent, and only a query that starts over drops     *)
(* them, for every set of coroutines, of domains and of replies.           *)
(***************************************************************************)
EXTENDS DnsResolve, SequenceTheorems, TLAPS

\* A list has members only while its coroutine asks (or died asking).
ListsOfAskers == \A q \in Procs : wlist[q] # <<>> => pc[q] \in {"recv", "raised"}

IInv == TypeOK /\ OneQuery /\ ListsAreOfWaiters /\ ListsOfAskers

\* Half of ListsAreOfWaiters: nobody is in two lists, or twice in one.
ListedOnce ==
    \A q, r \in Procs : \A i \in 1..Len(wlist[q]), j \in 1..Len(wlist[r]) :
        wlist[q][i] = wlist[r][j] => q = r /\ i = j

\* The other half.
ListedWait == \A q \in Procs : \A c \in Elements(wlist[q]) :
    pc[c] = "waiting" /\ domain[c] = domain[q]

-----------------------------------------------------------------------------
(* Lists *)

\* The members of a list are coroutines; an empty list has none.
LEMMA ElementsOfLists ==
    ASSUME TypeOK, NEW q \in Procs
    PROVE  /\ Elements(wlist[q]) \subseteq Procs
           /\ wlist[q] = <<>> <=> Elements(wlist[q]) = {}
<1>1. wlist[q] \in Seq(Procs)
  BY DEF TypeOK
<1>2. Len(wlist[q]) \in Nat /\ \A i \in 1..Len(wlist[q]) : wlist[q][i] \in Procs
  BY <1>1, LenProperties, ElementOfSeq
<1>3. wlist[q] = <<>> <=> Len(wlist[q]) = 0
  BY <1>1, EmptySeq
<1>4. Len(wlist[q]) # 0 => wlist[q][1] \in Elements(wlist[q])
  BY <1>2 DEF Elements
<1>5. Len(wlist[q]) = 0 => Elements(wlist[q]) = {}
  BY <1>2 DEF Elements
<1> QED BY <1>2, <1>3, <1>4, <1>5 DEF Elements

\* A list is emptied: the others stay, and nobody is listed twice.
LEMMA ListEmptied ==
    ASSUME TypeOK, ListedOnce, NEW c \in Procs, wlist' = [wlist EXCEPT ![c] = <<>>]
    PROVE  /\ wlist' \in [Procs -> Seq(Procs)]
           /\ \A q \in Procs : wlist'[q] = IF q = c THEN <<>> ELSE wlist[q]
           /\ \A q \in Procs : Elements(wlist'[q]) = IF q = c THEN {} ELSE Elements(wlist[q])
           /\ ListedOnce'
<1>1. wlist \in [Procs -> Seq(Procs)] /\ <<>> \in Seq(Procs) /\ Len(<<>>) = 0
  BY EmptySeq DEF TypeOK
<1>2. /\ wlist' \in [Procs -> Seq(Procs)]
      /\ \A q \in Procs : wlist'[q] = IF q = c THEN <<>> ELSE wlist[q]
  BY <1>1
<1>3. Elements(<<>>) = {}
  BY <1>1 DEF Elements
<1>4. \A q \in Procs : Elements(wlist'[q]) = IF q = c THEN {} ELSE Elements(wlist[q])
  BY <1>2, <1>3
<1>5. ListedOnce'
  <2> SUFFICES ASSUME NEW q \in Procs, NEW r \in Procs,
                      NEW i \in 1..Len(wlist'[q]), NEW j \in 1..Len(wlist'[r]),
                      wlist'[q][i] = wlist'[r][j]
               PROVE  q = r /\ i = j
    BY DEF ListedOnce
  <2>1. q # c /\ r # c
    BY <1>1, <1>2
  <2>2. wlist'[q] = wlist[q] /\ wlist'[r] = wlist[r]
    BY <1>2, <2>1
  <2> QED BY <2>2 DEF ListedOnce
<1> QED BY <1>2, <1>4, <1>5

\* A coroutine that is in no list joins one.
LEMMA ListJoined ==
    ASSUME TypeOK, ListedOnce, NEW c \in Procs, NEW q \in Procs,
           \A r \in Procs : c \notin Elements(wlist[r]),
           wlist' = [wlist EXCEPT ![q] = Append(@, c)]
    PROVE  /\ wlist' \in [Procs -> Seq(Procs)]
           /\ \A r \in Procs : r # q => wlist'[r] = wlist[r]
           /\ \A r \in Procs : Elements(wlist'[r]) =
                  IF r = q THEN Elements(wlist[q]) \union {c} ELSE Elements(wlist[r])
           /\ ListedOnce'
<1>1. wlist \in [Procs -> Seq(Procs)] /\ wlist[q] \in Seq(Procs)
  BY DEF TypeOK
<1>2. /\ Append(wlist[q], c) \in Seq(Procs)
      /\ Len(Append(wlist[q], c)) = Len(wlist[q]) + 1
      /\ \A i \in 1..Len(wlist[q]) : Append(wlist[q], c)[i] = wlist[q][i]
      /\ Append(wlist[q], c)[Len(wlist[q]) + 1] = c
      /\ Len(wlist[q]) \in Nat
  BY <1>1, AppendProperties, LenProperties
<1>3. /\ wlist' \in [Procs -> Seq(Procs)]
      /\ wlist'[q] = Append(wlist[q], c)
      /\ \A r \in Procs : r # q => wlist'[r] = wlist[r]
  BY <1>1, <1>2
<1>4. Elements(wlist'[q]) = Elements(wlist[q]) \union {c}
  <2>1. ASSUME NEW x PROVE x \in Elements(wlist'[q]) <=> x \in Elements(wlist[q]) \/ x = c
    BY <1>2, <1>3 DEF Elements
  <2> QED BY <2>1
<1>5. ListedOnce'
  <2> SUFFICES ASSUME NEW p \in Procs, NEW r \in Procs,
                      NEW i \in 1..Len(wlist'[p]), NEW j \in 1..Len(wlist'[r]),
                      wlist'[p][i] = wlist'[r][j]
               PROVE  p = r /\ i = j
    BY DEF ListedOnce
  <2> DEFINE New(s, k) == s = q /\ k = Len(wlist[q]) + 1
  <2>1. /\ New(p, i) => wlist'[p][i] = c
        /\ ~New(p, i) => i \in 1..Len(wlist[p]) /\ wlist'[p][i] = wlist[p][i]
    BY <1>2, <1>3
  <2>2. /\ New(r, j) => wlist'[r][j] = c
        /\ ~New(r, j) => j \in 1..Len(wlist[r]) /\ wlist'[r][j] = wlist[r][j]
    BY <1>2, <1>3
  <2>3. \A s \in Procs : \A k \in 1..Len(wlist[s]) : wlist[s][k] # c
    BY DEF Elements
  <2>4. New(p, i) <=> New(r, j)
    BY <2>1, <2>2, <2>3
  <2>5. CASE New(p, i)
    BY <2>4, <2>5
  <2>6. CASE ~New(p, i)
    <3>1. wlist[p][i] = wlist[r][j] /\ i \in 1..Len(wlist[p]) /\ j \in 1..Len(wlist[r])
      BY <2>1, <2>2, <2>4, <2>6
    <3> QED BY <3>1 DEF ListedOnce
  <2> QED BY <2>5, <2>6
<1> QED BY <1>3, <1>4, <1>5

-----------------------------------------------------------------------------
(* What the steps have in common *)

LEMMA ListsSplit == ListsAreOfWaiters <=> ListedWait /\ ListedOnce
BY DEF ListsAreOfWaiters, ListedWait, ListedOnce

\* A coroutine that does not wait is in no list; one that is idle has none.
LEMMA NotWaiting ==
    ASSUME IInv, NEW c \in Procs, pc[c] # "waiting"
    PROVE  /\ \A q \in Procs : c \notin Elements(wlist[q])
           /\ pc[c] = "idle" => wlist[c] = <<>>
BY ListsSplit DEF IInv, ListedWait, ListsOfAskers

\* The coroutine that asks for a domain is the one whose list is entered.
LEMMA AskerIsEntered ==
    ASSUME IInv, NEW c \in Procs, pc[c] \in {"recv", "raised"}
    PROVE  domain[c] \in Domains /\ cos[domain[c]] = c
<1>1. domain[c] \in Domains
  BY DEF IInv, TypeOK
<1>2. c \in Asking(domain[c])
  BY DEF Asking
<1> QED BY <1>1, <1>2 DEF IInv, OneQuery

\* A call that only changes what its idle caller resolves: a hit, an address,
\* a query for which there is no socket.
LEMMA CallKeeps ==
    ASSUME IInv, NEW c \in Procs, NEW d \in Domains, Call(c, d),
           UNCHANGED <<cos, wlist, pc>>
    PROVE  OneQuery' /\ ListsAreOfWaiters' /\ ListsOfAskers'
<1>1. /\ pc[c] = "idle"
      /\ domain' \in [Procs -> Domains]
      /\ \A p \in Procs : p # c => domain'[p] = domain[p]
  BY DEF Call, IInv, TypeOK
<1>2. \A e \in Domains : Asking(e)' = Asking(e)
  BY <1>1 DEF Asking
<1>3. OneQuery'
  BY <1>2 DEF IInv, OneQuery
<1>4. ListedWait'
  <2> SUFFICES ASSUME NEW q \in Procs, NEW p \in Elements(wlist[q])
               PROVE  pc[p] = "waiting" /\ domain'[p] = domain'[q]
    BY DEF ListedWait
  <2>1. p \in Procs /\ pc[p] = "waiting" /\ domain[p] = domain[q]
    BY ElementsOfLists, ListsSplit DEF IInv, ListedWait
  <2>2. q # c
    BY NotWaiting, <1>1, ElementsOfLists DEF IInv
  <2>3. p # c
    BY <2>1, <1>1
  <2> QED BY <1>1, <2>1, <2>2, <2>3
<1>5. ListedOnce' /\ ListsOfAskers'
  BY ListsSplit DEF IInv, ListedOnce, ListsOfAskers
<1> QED BY <1>3, <1>4, <1>5, ListsSplit, PTL

\* check_wait: the query of c is over, all of its list are woken, and nobody
\* else is.
LEMMA WakeKeeps ==
    ASSUME IInv, NEW c \in Procs, pc[c] = "recv", check_wait(c), UNCHANGED domain
    PROVE  /\ wlist' \in [Procs -> Seq(Procs)]
           /\ cos' \in [Domains -> Procs \union {Nobody}]
           /\ pc' \in [Procs -> {"idle", "recv", "waiting", "raised"}]
           /\ OneQuery' /\ ListsAreOfWaiters' /\ ListsOfAskers'
           /\ \A p \in Procs : Dropped(p)' => Dropped(p)
<1>1. /\ TypeOK /\ ListedOnce /\ ListedWait /\ ListsOfAskers
      /\ domain[c] \in Domains /\ cos[domain[c]] = c
  BY ListsSplit, AskerIsEntered DEF IInv
<1>2. /\ wlist' \in [Procs -> Seq(Procs)]
      /\ \A q \in Procs : wlist'[q] = IF q = c THEN <<>> ELSE wlist[q]
      /\ \A q \in Procs : Elements(wlist'[q]) = IF q = c THEN {} ELSE Elements(wlist[q])
      /\ ListedOnce'
  <2>1. wlist' = [wlist EXCEPT ![c] = <<>>]
    BY DEF check_wait
  <2> QED BY <1>1, <2>1, ListEmptied
<1>3. /\ cos' \in [Domains -> Procs \union {Nobody}]
      /\ \A d \in Domains : cos'[d] = IF d = domain[c] THEN Nobody ELSE cos[d]
      /\ pc' \in [Procs -> {"idle", "recv", "waiting", "raised"}]
      /\ \A p \in Procs : pc'[p] = IF p = c \/ p \in Elements(wlist[c]) THEN "idle" ELSE pc[p]
  BY <1>1 DEF check_wait, TypeOK
<1>4. \A p \in Elements(wlist[c]) : pc[p] = "waiting"
  BY <1>1 DEF ListedWait
<1>5. OneQuery'
  <2> SUFFICES ASSUME NEW d \in Domains
               PROVE  Asking(d)' = IF cos'[d] = Nobody THEN {} ELSE {cos'[d]}
    BY DEF OneQuery
  <2>1. Asking(d)' = Asking(d) \ {c}
    BY <1>3, <1>4 DEF Asking
  <2>2. Asking(d) = IF cos[d] = Nobody THEN {} ELSE {cos[d]}
    BY DEF IInv, OneQuery
  <2>3. CASE d = domain[c]
    BY <2>1, <2>2, <2>3, <1>1, <1>3, NobodyAssumption
  <2>4. CASE d # domain[c]
    <3>1. c \notin Asking(d)
      BY <2>4 DEF Asking
    <3> QED BY <2>1, <2>2, <2>4, <3>1, <1>3
  <2> QED BY <2>3, <2>4
<1>6. ListedWait'
  <2> SUFFICES ASSUME NEW q \in Procs, NEW p \in Elements(wlist'[q])
               PROVE  pc'[p] = "waiting" /\ domain'[p] = domain'[q]
    BY DEF ListedWait
  <2>1. q # c /\ p \in Elements(wlist[q])
    BY <1>2
  <2>2. p \in Procs /\ pc[p] = "waiting" /\ domain[p] = domain[q]
    BY <2>1, <1>1, ElementsOfLists DEF ListedWait
  <2>3. p \notin Elements(wlist[c])
    BY <2>1, <1>1 DEF ListedOnce, Elements
  <2> QED BY <2>2, <2>3, <1>3
<1>7. ListsOfAskers'
  <2> SUFFICES ASSUME NEW q \in Procs, wlist'[q] # <<>>
               PROVE  pc'[q] \in {"recv", "raised"}
    BY DEF ListsOfAskers
  <2>1. q # c /\ pc[q] \in {"recv", "raised"}
    BY <1>1, <1>2 DEF ListsOfAskers
  <2> QED BY <2>1, <1>3, <1>4
<1>8. ASSUME NEW p \in Procs, Dropped(p)' PROVE Dropped(p)
  <2>1. p \notin Elements(wlist[c]) /\ p # c /\ pc[p] = "waiting"
    BY <1>3, <1>8 DEF Dropped
  <2> QED BY <2>1, <1>2, <1>8 DEF Dropped
<1>9. ListsAreOfWaiters'
  BY <1>2, <1>6, ListsSplit, PTL
<1> QED BY <1>2, <1>3, <1>5, <1>7, <1>8, <1>9

-----------------------------------------------------------------------------
(* The steps, one lemma for each that is more than a frame *)

\* Only a query that starts over may drop a coroutine that waits.
NobodyIsDropped == \A p \in Procs : Dropped(p)' => Dropped(p)

LEMMA FrameKeeps ==
    ASSUME IInv, UNCHANGED <<cos, wlist, domain, pc>>
    PROVE  OneQuery' /\ ListsAreOfWaiters' /\ ListsOfAskers' /\ NobodyIsDropped
BY DEF IInv, OneQuery, Asking, ListsAreOfWaiters, ListsOfAskers, NobodyIsDropped, Dropped

LEMMA CallTypes ==
    ASSUME TypeOK, NEW c \in Procs, NEW d \in Domains, Call(c, d)
    PROVE  domain' \in [Procs -> Domains] /\ calls' \in [Procs -> 0..MaxCalls]
BY BoundAssumption DEF TypeOK, Call

\* The caller joins the list of the one coroutine that asks for its domain.
LEMMA JoinsStep ==
    ASSUME IInv, NEW c \in Procs, NEW d \in Domains, ResolveJoins(c, d)
    PROVE  IInv' /\ NobodyIsDropped
<1> DEFINE q == cos[d]
<1>1. /\ TypeOK /\ ListedOnce /\ ListedWait /\ ListsOfAskers
      /\ Call(c, d) /\ pc[c] = "idle"
  BY ListsSplit DEF IInv, ResolveJoins, Call
<1>2. q \in Procs /\ domain[q] = d /\ pc[q] \in {"recv", "raised"} /\ q # c
  <2>1. q \in Procs
    BY DEF ResolveJoins, MustAsk, IInv, TypeOK
  <2>2. q \in Asking(d)
    BY <2>1, NobodyAssumption DEF IInv, OneQuery
  <2> QED BY <2>1, <2>2, <1>1 DEF Asking
<1>3. /\ wlist' \in [Procs -> Seq(Procs)]
      /\ \A r \in Procs : r # q => wlist'[r] = wlist[r]
      /\ \A r \in Procs : Elements(wlist'[r]) =
             IF r = q THEN Elements(wlist[q]) \union {c} ELSE Elements(wlist[r])
      /\ ListedOnce'
  <2>1. wlist' = [wlist EXCEPT ![q] = Append(@, c)]
    BY DEF ResolveJoins
  <2>2. \A r \in Procs : c \notin Elements(wlist[r])
    BY <1>1, NotWaiting
  <2> HIDE DEF q
  <2> QED BY <1>1, <1>2, <2>1, <2>2, ListJoined
<1>4. /\ domain' \in [Procs -> Domains] /\ domain'[c] = d
      /\ \A p \in Procs : p # c => domain'[p] = domain[p]
      /\ pc' \in [Procs -> {"idle", "recv", "waiting", "raised"}] /\ pc'[c] = "waiting"
      /\ \A p \in Procs : p # c => pc'[p] = pc[p]
  BY DEF ResolveJoins, Call, IInv, TypeOK
<1>5. TypeOK'
  BY <1>1, <1>3, <1>4, CallTypes DEF ResolveJoins, TypeOK
<1>6. OneQuery'
  <2>1. \A e \in Domains : Asking(e)' = Asking(e)
    BY <1>1, <1>4 DEF Asking
  <2> QED BY <2>1 DEF IInv, OneQuery, ResolveJoins
<1>7. ListedWait'
  <2> SUFFICES ASSUME NEW r \in Procs, NEW p \in Elements(wlist'[r])
               PROVE  pc'[p] = "waiting" /\ domain'[p] = domain'[r]
    BY DEF ListedWait
  <2>1. CASE p = c
    <3>1. r = q
      BY <1>1, <1>3, <2>1, NotWaiting
    <3> QED BY <3>1, <2>1, <1>2, <1>4
  <2>2. CASE p # c
    <3>1. p \in Elements(wlist[r]) /\ p \in Procs
      BY <1>1, <1>3, <2>2, ElementsOfLists
    <3>2. pc[p] = "waiting" /\ domain[p] = domain[r] /\ wlist[r] # <<>>
      BY <3>1, <1>1, ElementsOfLists DEF ListedWait
    <3>3. r # c
      BY <3>2, <1>1, NotWaiting
    <3> QED BY <3>1, <3>2, <3>3, <2>2, <1>4
  <2> QED BY <2>1, <2>2
<1>8. ListsOfAskers'
  BY <1>1, <1>2, <1>3, <1>4, NotWaiting DEF ListsOfAskers
<1>9. NobodyIsDropped
  <2> SUFFICES ASSUME NEW p \in Procs, Dropped(p)' PROVE Dropped(p)
    BY DEF NobodyIsDropped
  <2>1. p # c
    BY <1>2, <1>3 DEF Dropped
  <2> QED BY <2>1, <1>2, <1>3, <1>4 DEF Dropped
<1>10. ListsAreOfWaiters'
  BY <1>3, <1>7, ListsSplit, PTL
<1> QED BY <1>5, <1>6, <1>8, <1>9, <1>10 DEF IInv

\* The caller enters a list of its own, or finds no socket.
LEMMA AsksStep ==
    ASSUME IInv, NEW c \in Procs, NEW d \in Domains, NEW v \in BOOLEAN,
           ResolveAsks(c, d, v)
    PROVE  IInv' /\ NobodyIsDropped
<1>1. /\ TypeOK /\ ListedOnce /\ ListedWait /\ ListsOfAskers
      /\ Call(c, d) /\ pc[c] = "idle"
  BY ListsSplit DEF IInv, ResolveAsks, Call
<1>2. /\ domain' \in [Procs -> Domains] /\ domain'[c] = d
      /\ \A p \in Procs : p # c => domain'[p] = domain[p]
  BY <1>1 DEF Call, TypeOK
<1>3. CASE UNCHANGED <<cos, wlist, ip_version, pc>>
  <2>1. OneQuery' /\ ListsAreOfWaiters' /\ ListsOfAskers'
    BY <1>1, <1>3, CallKeeps
  <2>2. TypeOK'
    BY <1>1, <1>3, CallTypes DEF ResolveAsks, TypeOK
  <2>3. NobodyIsDropped
    BY <1>3 DEF NobodyIsDropped, Dropped
  <2> QED BY <2>1, <2>2, <2>3 DEF IInv
<1>4. CASE /\ cos' = [cos EXCEPT ![d] = c]
           /\ wlist' = [wlist EXCEPT ![c] = <<>>]
           /\ ip_version' = [ip_version EXCEPT ![c] = v]
           /\ pc' = [pc EXCEPT ![c] = "recv"]
  <2>1. wlist' = wlist
    <3>1. wlist[c] = <<>>
      BY <1>1, NotWaiting
    <3> QED BY <3>1, <1>1, <1>4 DEF TypeOK
  <2>2. /\ cos[d] = Nobody /\ cos'[d] = c
        /\ \A e \in Domains : e # d => cos'[e] = cos[e]
        /\ pc'[c] = "recv" /\ \A p \in Procs : p # c => pc'[p] = pc[p]
    BY <1>1, <1>4 DEF TypeOK, ResolveAsks, MustAsk
  <2>3. TypeOK'
    BY <1>1, <1>4, <2>1, CallTypes DEF ResolveAsks, TypeOK
  <2>4. OneQuery'
    <3> SUFFICES ASSUME NEW e \in Domains
                 PROVE  Asking(e)' = IF cos'[e] = Nobody THEN {} ELSE {cos'[e]}
      BY DEF OneQuery
    <3>1. Asking(e) = IF cos[e] = Nobody THEN {} ELSE {cos[e]}
      BY DEF IInv, OneQuery
    <3>2. Asking(e)' = IF e = d THEN Asking(e) \union {c} ELSE Asking(e)
      BY <1>1, <1>2, <2>2 DEF Asking
    <3> QED BY <3>1, <3>2, <2>2, NobodyAssumption
  <2>5. ListedWait'
    <3> SUFFICES ASSUME NEW r \in Procs, NEW p \in Elements(wlist[r])
                 PROVE  pc'[p] = "waiting" /\ domain'[p] = domain'[r]
      BY <2>1 DEF ListedWait
    <3>1. p \in Procs /\ pc[p] = "waiting" /\ domain[p] = domain[r] /\ wlist[r] # <<>>
      BY <1>1, ElementsOfLists DEF ListedWait
    <3>2. p # c /\ r # c
      BY <3>1, <1>1, NotWaiting
    <3> QED BY <3>1, <3>2, <1>2, <2>2
  <2>6. ListedOnce' /\ ListsOfAskers'
    BY <1>1, <2>1, <2>2 DEF ListedOnce, ListsOfAskers
  <2>7. NobodyIsDropped
    BY <2>1, <2>2 DEF NobodyIsDropped, Dropped
  <2>8. ListsAreOfWaiters'
    BY <2>5, <2>6, ListsSplit, PTL
  <2> QED BY <2>3, <2>4, <2>6, <2>7, <2>8 DEF IInv
<1> QED BY <1>3, <1>4 DEF ResolveAsks

\* An answer without an address: the list is dropped, with whoever is in it.
LEMMA NoAddressStep ==
    ASSUME IInv, NEW c \in Procs, NoAddress(c)
    PROVE  IInv'
<1>1. /\ TypeOK /\ ListedOnce /\ ListedWait /\ ListsOfAskers
      /\ domain[c] \in Domains /\ cos[domain[c]] = c /\ pc[c] = "recv"
  BY ListsSplit, AskerIsEntered DEF IInv, NoAddress
<1>2. /\ wlist' \in [Procs -> Seq(Procs)]
      /\ \A q \in Procs : wlist'[q] = IF q = c THEN <<>> ELSE wlist[q]
      /\ \A q \in Procs : Elements(wlist'[q]) = IF q = c THEN {} ELSE Elements(wlist[q])
      /\ ListedOnce'
  <2>1. wlist' = [wlist EXCEPT ![c] = <<>>]
    BY DEF NoAddress
  <2> QED BY <1>1, <2>1, ListEmptied
<1>3. domain' = domain
  BY DEF NoAddress
<1>4. CASE ip_version' = [ip_version EXCEPT ![c] = TRUE] /\ UNCHANGED <<cos, pc>>
  <2>1. TypeOK'
    BY <1>1, <1>2, <1>4 DEF NoAddress, TypeOK
  <2>2. OneQuery'
    BY <1>3, <1>4 DEF IInv, OneQuery, Asking
  <2>3. ListedWait' /\ ListsOfAskers'
    BY <1>1, <1>2, <1>3, <1>4 DEF ListedWait, ListsOfAskers
  <2>4. ListsAreOfWaiters'
    BY <1>2, <2>3, ListsSplit, PTL
  <2> QED BY <2>1, <2>2, <2>3, <2>4 DEF IInv
<1>5. CASE /\ pc' = [pc EXCEPT ![c] = "idle"]
           /\ cos' = [cos EXCEPT ![domain[c]] = Nobody]
           /\ UNCHANGED ip_version
  <2>1. TypeOK'
    BY <1>1, <1>2, <1>5 DEF NoAddress, TypeOK
  <2>2. /\ pc'[c] = "idle" /\ \A p \in Procs : p # c => pc'[p] = pc[p]
        /\ \A d \in Domains : cos'[d] = IF d = domain[c] THEN Nobody ELSE cos[d]
    BY <1>1, <1>5 DEF TypeOK
  <2>3. OneQuery'
    <3> SUFFICES ASSUME NEW d \in Domains
                 PROVE  Asking(d)' = IF cos'[d] = Nobody THEN {} ELSE {cos'[d]}
      BY DEF OneQuery
    <3>1. Asking(d)' = Asking(d) \ {c} /\ (c \in Asking(d) => d = domain[c])
      BY <1>3, <2>2 DEF Asking
    <3>2. Asking(d) = IF cos[d] = Nobody THEN {} ELSE {cos[d]}
      BY DEF IInv, OneQuery
    <3> QED BY <3>1, <3>2, <2>2, <1>1, NobodyAssumption
  <2>4. ListedWait'
    <3> SUFFICES ASSUME NEW r \in Procs, NEW p \in Elements(wlist'[r])
                 PROVE  pc'[p] = "waiting" /\ domain[p] = domain[r]
      BY <1>3 DEF ListedWait
    <3>1. r # c /\ p \in Elements(wlist[r])
      BY <1>2
    <3>2. p \in Procs /\ pc[p] = "waiting" /\ domain[p] = domain[r]
      BY <3>1, <1>1, ElementsOfLists DEF ListedWait
    <3> QED BY <3>2, <2>2, <1>1
  <2>5. ListsOfAskers'
    BY <1>1, <1>2, <2>2 DEF ListsOfAskers
  <2>6. ListsAreOfWaiters'
    BY <1>2, <2>4, ListsSplit, PTL
  <2> QED BY <2>1, <2>3, <2>5, <2>6 DEF IInv
<1> QED BY <1>4, <1>5 DEF NoAddress

\* The coroutine ends in its decoder: its list stays entered.
LEMMA GarbledStep ==
    ASSUME IInv, NEW c \in Procs, Garbled(c)
    PROVE  IInv' /\ NobodyIsDropped
<1>1. TypeOK /\ ListedOnce /\ ListedWait /\ ListsOfAskers /\ pc[c] = "recv"
  BY ListsSplit DEF IInv, Garbled
<1>2. /\ pc'[c] = "raised" /\ \A p \in Procs : p # c => pc'[p] = pc[p]
      /\ UNCHANGED <<cos, wlist, domain>>
  BY <1>1 DEF Garbled, TypeOK
<1>3. TypeOK'
  BY <1>1 DEF Garbled, TypeOK
<1>4. OneQuery'
  <2>1. \A d \in Domains : Asking(d)' = Asking(d)
    BY <1>1, <1>2 DEF Asking
  <2> QED BY <2>1, <1>2 DEF IInv, OneQuery
<1>5. ListedWait'
  <2> SUFFICES ASSUME NEW r \in Procs, NEW p \in Elements(wlist[r])
               PROVE  pc'[p] = "waiting" /\ domain[p] = domain[r]
    BY <1>2 DEF ListedWait
  <2>1. p \in Procs /\ pc[p] = "waiting" /\ domain[p] = domain[r]
    BY <1>1, ElementsOfLists DEF ListedWait
  <2> QED BY <2>1, <1>1, <1>2
<1>6. ListedOnce' /\ ListsOfAskers'
  BY <1>1, <1>2 DEF ListedOnce, ListsOfAskers
<1>7. NobodyIsDropped
  BY <1>1, <1>2 DEF NobodyIsDropped, Dropped
<1>8. ListsAreOfWaiters'
  BY <1>5, <1>6, ListsSplit, PTL
<1> QED BY <1>3, <1>4, <1>6, <1>7, <1>8 DEF IInv

-----------------------------------------------------------------------------
(* The invariant *)

LEMMA InitInv == Init => IInv
<1> SUFFICES ASSUME Init PROVE IInv
  OBVIOUS
<1>1. <<>> \in Seq(Procs) /\ Len(<<>>) = 0 /\ (CHOOSE d \in Domains : TRUE) \in Domains
  BY DomainsAssumption, EmptySeq
<1>2. TypeOK
  BY <1>1, BoundAssumption DEF Init, gen_cache, TypeOK
<1>3. OneQuery
  BY DEF Init, OneQuery, Asking
<1>4. ListsAreOfWaiters /\ ListsOfAskers
  BY <1>1 DEF Init, ListsAreOfWaiters, ListsOfAskers, Elements
<1> QED BY <1>2, <1>3, <1>4 DEF IInv

\* Every step keeps the invariant, and none but a restart drops a coroutine.
LEMMA NextInv ==
    ASSUME IInv, [Next]_vars
    PROVE  IInv' /\ (NobodyIsDropped \/ \E q \in Procs : NoAddress(q))
<1>0. TypeOK
  BY DEF IInv
<1>1. CASE \E c \in Procs, d \in Domains : ResolveCached(c, d)
  <2>1. PICK c \in Procs, d \in Domains : ResolveCached(c, d)
    BY <1>1
  <2>2. Call(c, d) /\ UNCHANGED <<dns_cache, cos, wlist, ip_version, pc>>
    BY <2>1 DEF ResolveCached
  <2>3. OneQuery' /\ ListsAreOfWaiters' /\ ListsOfAskers'
    BY <2>2, CallKeeps
  <2>4. TypeOK'
    BY <1>0, <2>2, CallTypes DEF TypeOK
  <2> QED BY <2>2, <2>3, <2>4 DEF IInv, NobodyIsDropped, Dropped
<1>2. CASE \E c \in Procs, d \in Domains : ResolveLiteral(c, d)
  <2>1. PICK c \in Procs, d \in Domains : ResolveLiteral(c, d)
    BY <1>2
  <2>2. Call(c, d) /\ UNCHANGED <<cos, wlist, ip_version, pc>>
    BY <2>1 DEF ResolveLiteral
  <2>3. OneQuery' /\ ListsAreOfWaiters' /\ ListsOfAskers'
    BY <2>2, CallKeeps
  <2>4. TypeOK'
    BY <1>0, <2>1, <2>2, CallTypes DEF ResolveLiteral, TypeOK
  <2> QED BY <2>2, <2>3, <2>4 DEF IInv, NobodyIsDropped, Dropped
<1>3. CASE \E c \in Procs, d \in Domains : ResolveJoins(c, d)
  BY <1>3, JoinsStep
<1>4. CASE \E c \in Procs, d \in Domains, v \in BOOLEAN : ResolveAsks(c, d, v)
  BY <1>4, AsksStep
<1>5. CASE \E c \in Procs : Address(c)
  <2>1. PICK c \in Procs : Address(c)
    BY <1>5
  <2>2. pc[c] = "recv" /\ check_wait(c) /\ UNCHANGED <<domain, ip_version, calls>>
    BY <2>1 DEF Address
  <2>3. domain[c] \in Domains /\ dns_cache' \in [Domains -> {"absent", "timed", "forever"}]
    BY <1>0, <2>1 DEF Address, TypeOK
  <2> QED BY <1>0, <2>2, <2>3, WakeKeeps DEF IInv, TypeOK, NobodyIsDropped
<1>6. CASE \E c \in Procs : Error(c)
  <2>1. PICK c \in Procs : Error(c)
    BY <1>6
  <2>2. /\ pc[c] = "recv" /\ check_wait(c)
        /\ UNCHANGED <<dns_cache, domain, ip_version, calls>>
    BY <2>1 DEF Error
  <2> QED BY <1>0, <2>2, WakeKeeps DEF IInv, TypeOK, NobodyIsDropped
<1>7. CASE \E c \in Procs : NoAddress(c)
  BY <1>7, NoAddressStep
<1>8. CASE \E c \in Procs : Garbled(c)
  BY <1>8, GarbledStep
<1>9. CASE (\E d \in Domains : Expire(d)) \/ Flush \/ UNCHANGED vars
  <2>1. UNCHANGED <<cos, wlist, domain, pc>>
    BY <1>9 DEF Expire, Flush, vars
  <2>2. TypeOK'
    BY <1>0, <1>9 DEF Expire, Flush, gen_cache, vars, TypeOK
  <2> QED BY <2>1, <2>2, FrameKeeps DEF IInv
<1> QED BY <1>1, <1>2, <1>3, <1>4, <1>5, <1>6, <1>7, <1>8, <1>9 DEF Next

LEMMA Invariance == SafeSpec => []IInv
<1>1. IInv /\ [Next]_vars => IInv'
  BY NextInv
<1> QED BY <1>1, InitInv, PTL DEF SafeSpec

-----------------------------------------------------------------------------
(* The theorems *)

\* Every variable of the resolver keeps its type.
THEOREM ResolverTypeCorrect == SafeSpec => []TypeOK
BY Invariance, PTL DEF IInv

\* However calls, answers, restarts and dead coroutines interleave, the list
\* cos names for a domain is that of the one coroutine that asks for it.
THEOREM OneQueryAtATime == SafeSpec => []OneQuery
BY Invariance, PTL DEF IInv

\* Whoever check_wait finds in a list waits for that query, and is there once.
THEOREM OnlyWaitersAreWoken == SafeSpec => []ListsAreOfWaiters
BY Invariance, PTL DEF IInv

\* There is one query per domain, and its list holds coroutines that wait for it, once
\* each (dns.lua:340-358).
THEOREM ListsServeTheirQuery == SafeSpec => []ListsAreSound
BY OneQueryAtATime, OnlyWaitersAreWoken, PTL DEF ListsAreSound

\* A coroutine that waits stays in a list until it is woken, unless the query
\* it waits for starts over: the one way dns.lua forgets it.
THEOREM RestartIsTheOnlyLoss == SafeSpec => OnlyRestartDrops
<1> DEFINE Loss == \A c \in Procs : ~Dropped(c) /\ Dropped(c)' => \E q \in Procs : NoAddress(q)
<1>1. ASSUME IInv, [Next]_vars PROVE [Loss]_vars
  BY <1>1, NextInv DEF NobodyIsDropped
<1> QED BY <1>1, Invariance, PTL DEF SafeSpec, OnlyRestartDrops
=============================================================================
