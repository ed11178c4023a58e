--------------------------- MODULE MessageProofs ---------------------------
(***************************************************************************)
(* Proofs about the three components that put what others write in order.  *)
(* Of ProcessCall: messages between master and workers arrive once, whole  *)
(* and in order, deaths are reported, and calls get their own answers, for *)
(* any number of workers, messages and deaths, any size of a socket's      *)
(* buffer from three cells on, and any range of session ids.               *)
(* Of SendQueue: messages go out in order and once, whoever waits is in a  *)
(* queue, and answers are about the caller's own message, for any number   *)
(* of senders, messages, logins and faults.  Of AioFile: what a write has  *)
(* returned for stays in the file, locks are released, and answers are     *)
(* polled, for any number of coroutines, calls and failures.               *)
(***************************************************************************)
EXTENDS MCMessages, SequenceTheorems, TLAPS

(***************************************************************************)
(* ProcessCall.                                                            *)
(***************************************************************************)

-----------------------------------------------------------------------------
(* The inductive invariant.  The cells of an end are numbered from 0 on in *)
(* the order in which they are written; the reader has had 3 * got of them *)
(* and one more if it waits for a body.                                    *)

CellNo(j) == <<(j \div 3) + 1, (j % 3) + 1>>
Half(e) == IF reader[e] = "body" THEN 1 ELSE 0
Held(e) == batch[e] \o queue[e]
Alive(e) == MasterLives /\ Lives(e[1])

\* What is on the way are numbers of messages that were sent.
NumbersKnown(e) ==
    /\ \A i \in DOMAIN queue[e] : queue[e][i] \in 1..Len(mail[e])
    /\ \A i \in DOMAIN batch[e] : batch[e][i] \in 1..Len(mail[e])
    /\ \A i \in DOMAIN net[e] : net[e][i][1] \in 1..Len(mail[e])

\* A message that is partly written is the first of the batch.
PartKnown(e) == out[e] > 0 => batch[e] # <<>>

\* What is in the socket comes next.
NetFollows(e) ==
    ReaderLives(e) /\ reader[e] # "broken" =>
        \A i \in DOMAIN net[e] : net[e][i] = CellNo(((3 * got[e]) + Half(e)) + (i - 1))

\* While both sides live, what the writer holds are the last messages, and nothing is between
\* them and what is in the socket.
HeldFollows(e) ==
    Alive(e) =>
        /\ \A i \in DOMAIN Held(e) : Held(e)[i] = Len(mail[e]) - Len(Held(e)) + i
        /\ reader[e] # "broken" =>
              (Len(net[e]) + (3 * Len(Held(e)))) + ((3 * got[e]) + Half(e)) = (3 * Len(mail[e])) + out[e]

\* As long as there was always room, messages are whole.
WholeUnlessSplit(e) ==
    ~split[e] => Len(net[e]) % 3 = 0 /\ out[e] = 0 /\ reader[e] \notin {"body", "broken"}

EndKnown(e) ==
    NumbersKnown(e) /\ PartKnown(e) /\ NetFollows(e) /\ HeldFollows(e) /\ WholeUnlessSplit(e)

\* Before the master listens nobody has connected, and nothing was sent.
StartKnown ==
    /\ master = "forking" =>
          /\ sockfile = "none" /\ \A w \in Workers : accepted[w] = "no"
          /\ \A e \in Ends : /\ mail[e] = <<>> /\ queue[e] = <<>> /\ batch[e] = <<>> /\ net[e] = <<>>
                             /\ out[e] = 0 /\ got[e] = 0 /\ reader[e] = "none" /\ writer[e] = "none"
    /\ \A w \in Workers :
          /\ accepted[w] = "refused" => ~Lives(w)
          /\ worker[w] \in {"unborn", "connecting"} => accepted[w] = "no"
          /\ worker[w] = "up" => accepted[w] # "no"
          /\ worker[w] = "unborn" => master \in {"forking", "dead"}
          /\ accepted[w] \in {"no", "pending"} => reader[<<w, "up">>] = "none"
          /\ master = "ready" => accepted[w] = "known"

\* A message that calls or answers has the session of its call.
OfCall(m, made) ==
    /\ m.call \in Workers \X Nat /\ m.call[2] \in 1..made[m.call[1]]
    /\ m.sid = Sid(m.call[1], m.call[2])

CallsKnown ==
    /\ \A e \in Ends : \A i \in DOMAIN mail[e] :
          LET m == mail[e][i] IN m.sid # 0 \/ m.kind \in {"call", "ret"} => OfCall(m, calls)
    /\ \A m \in handling : OfCall(m, calls)
    /\ \A w \in Workers : \A s \in session_map[w] : s[2] \in 1..calls[w] /\ s[1] = Sid(w, s[2])
    /\ \A w \in Workers : \A r \in returned[w] : r[1] \in 1..calls[w]

IInv ==
    /\ TypeOK
    /\ \A e \in Ends : EndKnown(e)
    /\ StartKnown
    /\ DeathsAreReported
    /\ CallsKnown
    /\ CallsGetOwnAnswer

-----------------------------------------------------------------------------
(* Sequences of cells *)

Cell == Nat \X (1..Size)

LEMMA FunctionIsSeq == ASSUME NEW S, NEW k \in Nat, NEW f \in [1..k -> S] PROVE f \in Seq(S) /\ Len(f) = k
<1>1. f \in Seq(S)
  BY IsASeq
<1> QED BY <1>1, LenProperties

LEMMA DivMod == ASSUME NEW j \in Nat PROVE j \div 3 \in Nat /\ j % 3 \in 0..2 /\ j = 3 * (j \div 3) + (j % 3)
BY Z3

LEMMA DivShift ==
    ASSUME NEW j \in Nat, NEW k \in Nat
    PROVE  (3 * k + j) \div 3 = k + (j \div 3) /\ (3 * k + j) % 3 = j % 3
BY Z3

LEMMA OneMore ==
    ASSUME NEW a \in Int, NEW k \in Int, NEW g \in Int, NEW b \in Int, NEW n \in Int, NEW o \in Int,
           (a + (3 * k)) + ((3 * g) + b) = (3 * n) + o
    PROVE  (a + (3 * (k + 1))) + ((3 * g) + b) = (3 * (n + 1)) + o
OBVIOUS

LEMMA CellsTyped ==
    ASSUME NEW msgs \in Seq(Nat)
    PROVE  CellsOf(msgs) \in Seq(Cell) /\ Len(CellsOf(msgs)) = 3 * Len(msgs)
<1>1. PICK k \in Nat : k = Len(msgs)
  BY LenProperties
<1>2. \A i \in 1..k : msgs[i] \in Nat
  BY <1>1, ElementOfSeq
<1>3. PICK l \in Nat : l = 3 * k
  OBVIOUS
<1>4. CellsOf(msgs) = [i \in 1..l |-> <<msgs[(i - 1) \div 3 + 1], ((i - 1) % 3) + 1>>]
  BY <1>1, <1>3 DEF CellsOf, Size
<1>5. ASSUME NEW i \in 1..l PROVE <<msgs[(i - 1) \div 3 + 1], ((i - 1) % 3) + 1>> \in Cell
  <2>1. i - 1 \in Nat /\ i - 1 < 3 * k
    BY <1>3
  <2>2. (i - 1) \div 3 + 1 \in 1..k /\ ((i - 1) % 3) + 1 \in 1..3
    BY <2>1, DivMod
  <2> QED BY <1>2, <2>2 DEF Cell, Size
<1>6. CellsOf(msgs) \in [1..l -> Cell]
  BY <1>4, <1>5
<1> QED BY <1>1, <1>3, <1>6, FunctionIsSeq, SMTT(30)

LEMMA CellAt ==
    ASSUME NEW msgs \in Seq(Nat), NEW i \in 1..(3 * Len(msgs))
    PROVE  /\ (i - 1) \div 3 + 1 \in 1..Len(msgs)
           /\ CellsOf(msgs)[i] = <<msgs[(i - 1) \div 3 + 1], ((i - 1) % 3) + 1>>
<1>1. Len(msgs) \in Nat
  BY LenProperties
<1>2. CellsOf(msgs)[i] = <<msgs[(i - 1) \div 3 + 1], ((i - 1) % 3) + 1>>
  BY DEF CellsOf, Size
<1>3. (i - 1) \div 3 + 1 \in 1..Len(msgs)
  <2>1. i - 1 \in Nat /\ i - 1 < 3 * Len(msgs)
    BY <1>1
  <2> QED BY <1>1, <2>1, DivMod
<1> QED BY <1>2, <1>3

\* A stretch of a sequence.
LEMMA Stretch ==
    ASSUME NEW S, NEW s \in Seq(S), NEW a \in Nat, NEW b \in Nat, a <= b, b <= Len(s)
    PROVE  /\ SubSeq(s, a + 1, b) \in Seq(S)
           /\ Len(SubSeq(s, a + 1, b)) = b - a
           /\ \A i \in 1..(b - a) : SubSeq(s, a + 1, b)[i] = s[a + i]
<1>1. Len(s) \in Nat
  BY LenProperties
<1>2. a + 1 \in Int /\ b \in Int /\ \A i \in (a + 1)..b : s[i] \in S
  BY <1>1, ElementOfSeq
<1>3. /\ SubSeq(s, a + 1, b) \in Seq(S)
      /\ Len(SubSeq(s, a + 1, b)) = IF a + 1 <= b THEN b - (a + 1) + 1 ELSE 0
      /\ \A i \in 1..(b - (a + 1) + 1) : SubSeq(s, a + 1, b)[i] = s[a + 1 + i - 1]
  BY <1>2, SubSeqProperties
<1>4. Len(SubSeq(s, a + 1, b)) = b - a
  BY <1>3
<1>5. \A i \in 1..(b - a) : SubSeq(s, a + 1, b)[i] = s[a + i]
  BY <1>3
<1> QED BY <1>3, <1>4, <1>5

-----------------------------------------------------------------------------
(* One end *)

EndTyped(e) ==
    /\ queue[e] \in Seq(Nat) /\ batch[e] \in Seq(Nat) /\ out[e] \in 0..2
    /\ net[e] \in Seq(Cell) /\ Len(net[e]) <= Cap /\ mail[e] \in Seq(Message)
    /\ got[e] \in Nat /\ split[e] \in BOOLEAN
    /\ reader[e] \in {"none", "header", "body", "broken", "closed"}
    /\ Len(queue[e]) \in Nat /\ Len(batch[e]) \in Nat /\ Len(net[e]) \in Nat /\ Len(mail[e]) \in Nat

LEMMA EndTypes == ASSUME TypeOK, NEW e \in Ends PROVE EndTyped(e) /\ e[1] \in Workers /\ e[2] \in {"up", "down"}
<1>1. /\ queue[e] \in Seq(Nat) /\ batch[e] \in Seq(Nat) /\ out[e] \in 0..2
      /\ net[e] \in Seq(Cell) /\ Len(net[e]) <= Cap /\ mail[e] \in Seq(Message)
      /\ got[e] \in Nat /\ split[e] \in BOOLEAN
      /\ reader[e] \in {"none", "header", "body", "broken", "closed"}
  BY DEF TypeOK, Size, Cell
<1>2. Len(queue[e]) \in Nat /\ Len(batch[e]) \in Nat /\ Len(net[e]) \in Nat /\ Len(mail[e]) \in Nat
  BY <1>1, LenProperties
<1>3. e[1] \in Workers /\ e[2] \in {"up", "down"}
  BY DEF Ends
<1> QED BY <1>1, <1>2, <1>3 DEF EndTyped

\* Two sequences of numbers, one after the other.
IsJoined(h, b, q) ==
    /\ h \in Seq(Nat) /\ Len(h) = Len(b) + Len(q) /\ DOMAIN h = 1..(Len(b) + Len(q))
    /\ \A i \in 1..Len(b) : h[i] = b[i]
    /\ \A i \in 1..Len(q) : h[Len(b) + i] = q[i]
    /\ \A i \in 1..(Len(b) + Len(q)) :
          i \in 1..Len(b) \/ (i - Len(b) \in 1..Len(q) /\ h[i] = q[i - Len(b)])

LEMMA Joined == ASSUME NEW b \in Seq(Nat), NEW q \in Seq(Nat) PROVE IsJoined(b \o q, b, q)
<1>1. Len(b) \in Nat /\ Len(q) \in Nat
  BY LenProperties
<1>2. /\ b \o q \in Seq(Nat) /\ Len(b \o q) = Len(b) + Len(q)
      /\ \A i \in 1..(Len(b) + Len(q)) : (b \o q)[i] = IF i <= Len(b) THEN b[i] ELSE q[i - Len(b)]
  BY ConcatProperties
<1>3. DOMAIN (b \o q) = 1..(Len(b) + Len(q))
  BY <1>2, LenProperties
<1>4. \A i \in 1..Len(b) : (b \o q)[i] = b[i]
  BY <1>1, <1>2
<1>5. \A i \in 1..Len(q) : (b \o q)[Len(b) + i] = q[i]
  <2> SUFFICES ASSUME NEW i \in 1..Len(q) PROVE (b \o q)[Len(b) + i] = q[i]
    OBVIOUS
  <2>1. Len(b) + i \in 1..(Len(b) + Len(q)) /\ ~(Len(b) + i <= Len(b)) /\ (Len(b) + i) - Len(b) = i
    BY <1>1
  <2> QED BY <1>2, <2>1
<1>6. \A i \in 1..(Len(b) + Len(q)) :
          i \in 1..Len(b) \/ (i - Len(b) \in 1..Len(q) /\ (b \o q)[i] = q[i - Len(b)])
  BY <1>1, <1>2
<1> QED BY <1>2, <1>3, <1>4, <1>5, <1>6 DEF IsJoined

LEMMA JoinedAppend ==
    ASSUME NEW b \in Seq(Nat), NEW q \in Seq(Nat), NEW x \in Nat
    PROVE  b \o Append(q, x) = Append(b \o q, x)
<1>1. <<x>> \in Seq(Nat) /\ Append(q, x) = q \o <<x>>
  BY AppendIsConcat
<1>2. b \o q \in Seq(Nat) /\ Append(b \o q, x) = (b \o q) \o <<x>>
  BY ConcatProperties, AppendIsConcat
<1> QED BY <1>1, <1>2, ConcatAssociative

ChanSame(e) ==
    /\ queue'[e] = queue[e] /\ batch'[e] = batch[e] /\ out'[e] = out[e] /\ net'[e] = net[e]
    /\ mail'[e] = mail[e] /\ got'[e] = got[e] /\ split'[e] = split[e]

\* Nobody comes to life again, at the end e.
NoneRises(e) == (Alive(e)' => Alive(e)) /\ (ReaderLives(e)' => ReaderLives(e))

LEMMA EndStays ==
    ASSUME NEW e \in Ends, EndKnown(e), ChanSame(e), NoneRises(e),
           reader'[e] = reader[e] \/ {reader[e], reader'[e]} \subseteq {"none", "header"}
    PROVE  EndKnown(e)'
<1>1. Half(e)' = Half(e) /\ Held(e)' = Held(e) /\ (reader'[e] = "broken" <=> reader[e] = "broken")
  BY DEF Half, Held, ChanSame
<1>2. NumbersKnown(e)' /\ PartKnown(e)'
  BY DEF EndKnown, NumbersKnown, PartKnown, ChanSame
<1>3. NetFollows(e)'
  BY <1>1 DEF EndKnown, NetFollows, ChanSame, NoneRises
<1>4. HeldFollows(e)'
  BY <1>1 DEF EndKnown, HeldFollows, ChanSame, NoneRises
<1>5. WholeUnlessSplit(e)'
  BY <1>1 DEF EndKnown, WholeUnlessSplit, ChanSame
<1> QED BY <1>2, <1>3, <1>4, <1>5 DEF EndKnown

\* A message is sent.
LEMMA EndPosted ==
    ASSUME NEW e \in Ends, EndKnown(e), EndTyped(e), NEW m \in Message,
           mail'[e] = Append(mail[e], m), queue'[e] = Append(queue[e], Len(mail'[e])),
           batch'[e] = batch[e], out'[e] = out[e], net'[e] = net[e], got'[e] = got[e], split'[e] = split[e],
           reader'[e] = reader[e], NoneRises(e)
    PROVE  EndKnown(e)'
<1> DEFINE n == Len(mail[e])
<1>t. /\ queue[e] \in Seq(Nat) /\ batch[e] \in Seq(Nat) /\ n \in Nat /\ Len(queue[e]) \in Nat
      /\ Len(batch[e]) \in Nat /\ Len(net[e]) \in Nat /\ out[e] \in 0..2 /\ got[e] \in Nat
      /\ mail[e] \in Seq(Message)
  BY DEF EndTyped
<1>1. Len(mail'[e]) = n + 1 /\ n + 1 \in Nat
  BY <1>t, AppendProperties
<1>2. /\ queue'[e] \in Seq(Nat) /\ Len(queue'[e]) = Len(queue[e]) + 1 /\ queue'[e][Len(queue[e]) + 1] = n + 1
      /\ \A i \in 1..Len(queue[e]) : queue'[e][i] = queue[e][i]
  BY <1>t, <1>1, AppendProperties
<1>d. /\ DOMAIN queue[e] = 1..Len(queue[e]) /\ DOMAIN batch[e] = 1..Len(batch[e])
      /\ DOMAIN queue'[e] = 1..(Len(queue[e]) + 1)
  BY <1>t, <1>2, LenProperties
<1>3. IsJoined(Held(e), batch[e], queue[e])
  BY <1>t, Joined DEF Held
<1>4. Half(e)' = Half(e) /\ Half(e) \in 0..1
  BY DEF Half
<1> HIDE DEF n
<1>5. NumbersKnown(e)'
  <2>1. /\ \A i \in DOMAIN queue[e] : queue[e][i] \in 1..n
        /\ \A i \in DOMAIN batch[e] : batch[e][i] \in 1..n
        /\ \A i \in DOMAIN net[e] : net[e][i][1] \in 1..n
    BY DEF EndKnown, NumbersKnown, n
  <2>2. 1..n \subseteq 1..(n + 1) /\ n + 1 \in 1..(n + 1)
    BY <1>t
  <2>3. \A i \in DOMAIN queue'[e] : queue'[e][i] \in 1..(n + 1)
    <3>1. PICK l \in Nat : l = Len(queue[e])
      BY <1>t, LenProperties
    <3> SUFFICES ASSUME NEW i \in 1..(l + 1) PROVE queue'[e][i] \in 1..(n + 1)
      BY <1>d, <3>1
    <3>2. CASE i = l + 1
      BY <1>2, <2>2, <3>1, <3>2
    <3>3. CASE i \in 1..l
      <4>1. queue'[e][i] = queue[e][i] /\ i \in DOMAIN queue[e]
        BY <1>2, <1>d, <3>1, <3>3
      <4> QED BY <2>1, <2>2, <4>1
    <3> QED BY <3>1, <3>2, <3>3
  <2> QED BY <1>1, <2>1, <2>2, <2>3 DEF NumbersKnown
<1>6. PartKnown(e)' /\ WholeUnlessSplit(e)'
  BY DEF EndKnown, PartKnown, WholeUnlessSplit
<1>7. NetFollows(e)'
  BY <1>4 DEF EndKnown, NetFollows, NoneRises
<1>8. HeldFollows(e)'
  <2>1. PICK H \in Seq(Nat) : H = Held(e)
    BY <1>t, <1>3 DEF IsJoined
  <2>2. Held(e)' = Append(H, n + 1)
    <3>1. queue'[e] = Append(queue[e], n + 1)
      BY <1>1
    <3>2. batch[e] \o Append(queue[e], n + 1) = Append(batch[e] \o queue[e], n + 1)
      BY <1>t, <1>1, JoinedAppend
    <3> QED BY <2>1, <3>1, <3>2 DEF Held
  <2>3. PICK k \in Nat : k = Len(H)
    BY LenProperties
  <2>4. PICK J : J = Held(e)'
    OBVIOUS
  <2>5. DOMAIN H = 1..k /\ Len(J) = k + 1 /\ J[k + 1] = n + 1 /\ (\A i \in 1..k : J[i] = H[i]) /\ J \in Seq(Nat)
    BY <1>1, <2>2, <2>3, <2>4, AppendProperties, LenProperties
  <2>6. DOMAIN J = 1..(k + 1)
    BY <2>5, LenProperties
  <2>7. Alive(e) => /\ \A i \in 1..k : H[i] = n - k + i
                    /\ reader[e] # "broken" =>
                          (Len(net[e]) + (3 * k)) + ((3 * got[e]) + Half(e)) = (3 * n) + out[e]
    BY <2>1, <2>3, <2>5 DEF EndKnown, HeldFollows, n
  <2>8. ASSUME Alive(e), NEW i \in 1..(k + 1) PROVE J[i] = (n + 1) - (k + 1) + i
    <3>1. \A j \in 1..k : H[j] = n - k + j
      BY <2>7, <2>8
    <3>2. CASE i \in 1..k
      <4>1. J[i] = n - k + i
        BY <2>5, <3>1, <3>2
      <4>2. n \in Int /\ k \in Int /\ i \in Int
        BY <1>t, <2>3
      <4> QED BY <4>1, <4>2
    <3>3. CASE i = k + 1
      <4>1. J[i] = n + 1
        BY <2>5, <3>3
      <4>2. n \in Int /\ k \in Int
        BY <1>t, <2>3
      <4> QED BY <3>3, <4>1, <4>2
    <3> QED BY <2>3, <3>2, <3>3
  <2>9. ASSUME Alive(e), reader[e] # "broken"
        PROVE  (Len(net[e]) + (3 * (k + 1))) + ((3 * got[e]) + Half(e)) = (3 * (n + 1)) + out[e]
    <3>1. (Len(net[e]) + (3 * k)) + ((3 * got[e]) + Half(e)) = (3 * n) + out[e]
      BY <2>7, <2>9
    <3>2. Half(e) \in Int /\ out[e] \in Int /\ got[e] \in Int /\ n \in Int /\ Len(net[e]) \in Int
      BY <1>t, <1>4
    <3>7. PICK g \in Int, b \in Int : g = got[e] /\ b = Half(e)
      BY <3>2
    <3>3. PICK a \in Int : a = Len(net[e])
      BY <3>2
    <3>4. PICK p \in Int, o \in Int : p = n /\ o = out[e]
      BY <3>2
    <3>5. (a + (3 * k)) + ((3 * g) + b) = (3 * p) + o
      BY <3>1, <3>3, <3>4, <3>7
    <3>6. (a + (3 * (k + 1))) + ((3 * g) + b) = (3 * (p + 1)) + o
      BY <3>5, OneMore, SMTT(30)
    <3> QED BY <3>3, <3>4, <3>6, <3>7
  <2> QED BY <1>1, <1>4, <2>4, <2>5, <2>6, <2>8, <2>9 DEF HeldFollows, NoneRises
<1> QED BY <1>5, <1>6, <1>7, <1>8 DEF EndKnown

-----------------------------------------------------------------------------
(* The writer *)

\* n cells of the messages H, from cell o on, were put behind what N has.
WrittenCells(W, N, H, o, n) ==
    /\ W \in Seq(Cell) /\ Len(W) = Len(N) + n /\ DOMAIN W = 1..(Len(N) + n)
    /\ \A i \in 1..Len(N) : W[i] = N[i]
    /\ \A i \in 1..n : W[Len(N) + i] = CellsOf(H)[o + i]
    /\ \A i \in 1..(Len(N) + n) : i \in 1..Len(N) \/ (i - Len(N) \in 1..n /\ W[i] = CellsOf(H)[o + (i - Len(N))])

LEMMA CellsWritten ==
    ASSUME NEW H \in Seq(Nat), NEW N \in Seq(Cell), NEW o \in Nat, NEW n \in Nat, o + n <= 3 * Len(H)
    PROVE  WrittenCells(N \o SubSeq(CellsOf(H), o + 1, o + n), N, H, o, n)
<1>1. PICK C : C = CellsOf(H)
  OBVIOUS
<1>2. C \in Seq(Cell) /\ Len(C) = 3 * Len(H) /\ Len(N) \in Nat /\ Len(H) \in Nat
  BY <1>1, CellsTyped, LenProperties
<1>3. PICK b \in Nat : b = o + n
  OBVIOUS
<1>4. PICK P : P = SubSeq(C, o + 1, b)
  OBVIOUS
<1>5. P \in Seq(Cell) /\ Len(P) = b - o /\ \A i \in 1..(b - o) : P[i] = C[o + i]
  <2>1. o <= b /\ b <= Len(C)
    BY <1>2, <1>3
  <2> QED BY <1>2, <1>4, <2>1, Stretch
<1>6. Len(P) = n /\ \A i \in 1..n : P[i] = C[o + i]
  BY <1>3, <1>5
<1>7. PICK W : W = N \o P
  OBVIOUS
<1>8. /\ W \in Seq(Cell) /\ Len(W) = Len(N) + n
      /\ \A i \in 1..(Len(N) + n) : W[i] = IF i <= Len(N) THEN N[i] ELSE P[i - Len(N)]
  BY <1>5, <1>6, <1>7, ConcatProperties
<1>9. DOMAIN W = 1..(Len(N) + n)
  BY <1>8, LenProperties
<1>10. \A i \in 1..Len(N) : W[i] = N[i]
  BY <1>2, <1>8
<1>11. ASSUME NEW i \in 1..n PROVE W[Len(N) + i] = C[o + i]
  <2>1. Len(N) + i \in 1..(Len(N) + n) /\ ~(Len(N) + i <= Len(N)) /\ (Len(N) + i) - Len(N) = i
    BY <1>2
  <2> QED BY <1>6, <1>8, <2>1
<1>12. ASSUME NEW i \in 1..(Len(N) + n), i \notin 1..Len(N) PROVE i - Len(N) \in 1..n /\ W[i] = C[o + (i - Len(N))]
  <2>1. i - Len(N) \in 1..n /\ ~(i <= Len(N))
    BY <1>2, <1>12
  <2> QED BY <1>6, <1>8, <2>1
<1> QED BY <1>1, <1>3, <1>4, <1>7, <1>8, <1>9, <1>10, <1>11, <1>12 DEF WrittenCells

Successive(H, h) == \A i \in 1..Len(H) : H[i] = h + i
Numbered(N, k, g) == \A i \in 1..k : N[i] = CellNo(g + (i - 1))
Meet(g, a, h, o) == g + a = (3 * h) + o

\* What was written comes next, if it is of the messages h + 1, h + 2, ...
LEMMA WrittenFollows ==
    ASSUME NEW H \in Seq(Nat), NEW N \in Seq(Cell), NEW o \in Nat, NEW n \in Nat, o + n <= 3 * Len(H),
           NEW W, WrittenCells(W, N, H, o, n), NEW h \in Nat, NEW g \in Nat,
           Successive(H, h), Numbered(N, Len(N), g), Meet(g, Len(N), h, o)
    PROVE  Numbered(W, Len(N) + n, g)
<1>1. PICK l \in Nat, a \in Nat : l = Len(H) /\ a = Len(N)
  BY LenProperties
<1> SUFFICES ASSUME NEW i \in 1..(a + n), i \notin 1..a PROVE W[i] = CellNo(g + (i - 1))
  BY <1>1 DEF WrittenCells, Numbered
<1>2. PICK j \in Nat : j = (o + (i - a)) - 1
  <2>1. i > a
    BY <1>1
  <2>2. (o + (i - a)) - 1 \in Nat
    BY <1>1, <2>1
  <2> QED BY <2>2
<1>3. i - a \in 1..n /\ W[i] = CellsOf(H)[j + 1]
  BY <1>1, <1>2 DEF WrittenCells
<1>4. j + 1 \in 1..(3 * Len(H)) /\ (j + 1) - 1 = j
  <2>1. PICK d \in 1..n : d = i - a
    BY <1>3
  <2>2. PICK b \in Int : b = 3 * Len(H)
    BY <1>1
  <2>3. j = (o + d) - 1 /\ o + n <= b
    BY <1>2, <2>1, <2>2
  <2> QED BY <2>2, <2>3
<1>5. (j \div 3) + 1 \in 1..l /\ W[i] = <<H[(j \div 3) + 1], (j % 3) + 1>>
  BY <1>1, <1>3, <1>4, CellAt
<1>6. j \div 3 \in Nat /\ H[(j \div 3) + 1] = h + ((j \div 3) + 1)
  BY <1>1, <1>5, DivMod DEF Successive
<1>7. g + (i - 1) = (3 * h) + j
  <2>1. PICK b \in Nat : b = 3 * h
    OBVIOUS
  <2>2. g + a = b + o
    BY <1>1, <2>1 DEF Meet
  <2>3. g + (i - 1) = b + j
    <3>1. i \in Int /\ a \in Int
      BY <1>1
    <3>2. g = (b + o) - a
      BY <2>1, <2>2, <3>1
    <3> QED BY <1>2, <2>1, <3>1, <3>2
  <2> QED BY <2>1, <2>3
<1>8. ((3 * h) + j) \div 3 = h + (j \div 3) /\ ((3 * h) + j) % 3 = j % 3
  BY DivShift
<1>9. CellNo(g + (i - 1)) = <<(h + (j \div 3)) + 1, (j % 3) + 1>>
  BY <1>7, <1>8 DEF CellNo
<1>10. (h + (j \div 3)) + 1 = h + ((j \div 3) + 1)
  BY <1>6
<1> QED BY <1>5, <1>6, <1>9, <1>10

\* J is what is left of H when the first d are gone.
IsRest(J, H, d) == J \in Seq(Nat) /\ Len(J) = Len(H) - d /\ DOMAIN J = 1..(Len(H) - d)
                   /\ \A i \in 1..(Len(H) - d) : J[i] = H[d + i]

LEMMA RestOfAll ==
    ASSUME NEW H \in Seq(Nat), NEW d \in Nat, d <= Len(H)
    PROVE  IsRest(SubSeq(H, d + 1, Len(H)), H, d) /\ IsRest(SubSeq(H, d + 1, Len(H)) \o <<>>, H, d)
<1>1. PICK l \in Nat : l = Len(H)
  BY LenProperties
<1>2. PICK J : J = SubSeq(H, d + 1, l)
  OBVIOUS
<1>3. J \in Seq(Nat) /\ Len(J) = l - d /\ \A i \in 1..(l - d) : J[i] = H[d + i]
  BY <1>1, <1>2, Stretch
<1>4. DOMAIN J = 1..(l - d) /\ J \o <<>> = J
  BY <1>3, LenProperties, ConcatEmptySeq
<1> QED BY <1>1, <1>2, <1>3, <1>4 DEF IsRest

LEMMA RestOfFirst ==
    ASSUME NEW B \in Seq(Nat), NEW Q \in Seq(Nat), NEW d \in Nat, d <= Len(B)
    PROVE  IsRest(SubSeq(B, d + 1, Len(B)) \o Q, B \o Q, d)
<1>1. PICK b \in Nat, q \in Nat : b = Len(B) /\ q = Len(Q)
  BY LenProperties
<1>2. PICK R : R = SubSeq(B, d + 1, b)
  OBVIOUS
<1>3. IsRest(R, B, d)
  BY <1>1, <1>2, RestOfAll
<1>4. PICK J, H : J = R \o Q /\ H = B \o Q
  OBVIOUS
<1>5. IsJoined(J, R, Q) /\ IsJoined(H, B, Q)
  BY <1>3, <1>4, Joined DEF IsRest
<1>6. J \in Seq(Nat) /\ Len(J) = Len(H) - d /\ DOMAIN J = 1..(Len(H) - d) /\ Len(H) = b + q /\ Len(R) = b - d
  BY <1>1, <1>3, <1>5 DEF IsJoined, IsRest
<1>7. ASSUME NEW i \in 1..((b + q) - d) PROVE J[i] = H[d + i]
  <2>1. CASE i \in 1..(b - d)
    <3>1. J[i] = R[i] /\ R[i] = B[d + i]
      BY <1>1, <1>3, <1>5, <1>6, <2>1 DEF IsJoined, IsRest
    <3>2. d + i \in 1..b
      BY <1>1, <2>1
    <3> QED BY <1>1, <1>5, <3>1, <3>2 DEF IsJoined
  <2>2. CASE i \notin 1..(b - d)
    <3>1. i - (b - d) \in 1..q /\ J[i] = Q[i - (b - d)]
      BY <1>1, <1>5, <1>6, <1>7, <2>2 DEF IsJoined
    <3>2. d + i \in 1..(b + q) /\ d + i \notin 1..b /\ (d + i) - b = i - (b - d)
      BY <1>1, <2>2, <3>1
    <3>3. H[d + i] = Q[(d + i) - b]
      BY <1>1, <1>5, <3>2 DEF IsJoined
    <3> QED BY <3>1, <3>2, <3>3
  <2> QED BY <2>1, <2>2
<1> QED BY <1>1, <1>2, <1>4, <1>6, <1>7 DEF IsRest

LEMMA HeldKnown ==
    ASSUME NEW e \in Ends, EndTyped(e), EndKnown(e)
    PROVE  /\ IsJoined(Held(e), batch[e], queue[e])
           /\ \A i \in DOMAIN Held(e) : Held(e)[i] \in 1..Len(mail[e])
           /\ out[e] <= 3 * Len(Held(e)) /\ Len(Held(e)) \in Nat
<1>1. /\ batch[e] \in Seq(Nat) /\ queue[e] \in Seq(Nat) /\ out[e] \in 0..2
      /\ DOMAIN batch[e] = 1..Len(batch[e]) /\ DOMAIN queue[e] = 1..Len(queue[e])
      /\ Len(batch[e]) \in Nat /\ Len(queue[e]) \in Nat
  BY LenProperties DEF EndTyped
<1>2. IsJoined(Held(e), batch[e], queue[e])
  BY <1>1, Joined DEF Held
<1>3. PICK b \in Nat, q \in Nat, o \in 0..2 : b = Len(batch[e]) /\ q = Len(queue[e]) /\ o = out[e]
  BY <1>1
<1>k. Len(Held(e)) = b + q
  BY <1>2, <1>3 DEF IsJoined
<1>4. ASSUME NEW i \in DOMAIN Held(e) PROVE Held(e)[i] \in 1..Len(mail[e])
  <2>1. i \in 1..(b + q) /\ (i \in 1..b \/ (i - b \in 1..q /\ Held(e)[i] = queue[e][i - b]))
    BY <1>2, <1>3 DEF IsJoined
  <2>2. CASE i \in 1..b
    <3>1. Held(e)[i] = batch[e][i] /\ i \in DOMAIN batch[e]
      BY <1>1, <1>2, <1>3, <2>2 DEF IsJoined
    <3> QED BY <3>1 DEF EndKnown, NumbersKnown
  <2>3. CASE i \notin 1..b
    <3>1. Held(e)[i] = queue[e][i - b] /\ i - b \in DOMAIN queue[e]
      BY <1>1, <1>3, <2>1, <2>3
    <3> QED BY <3>1 DEF EndKnown, NumbersKnown
  <2> QED BY <2>2, <2>3
<1>5. o > 0 => b > 0
  BY <1>1, <1>3, EmptySeq DEF EndKnown, PartKnown
<1>6. o <= 3 * (b + q)
  BY <1>5
<1>7. out[e] <= 3 * Len(Held(e)) /\ Len(Held(e)) \in Nat
  <2>1. PICK k \in Nat : k = b + q
    OBVIOUS
  <2> QED BY <1>3, <1>6, <1>k, <2>1
<1> QED BY <1>2, <1>4, <1>7

\* What can be written fits.
Written_n(e) == IF Open(e) THEN Lesser(Room(e), Size * Len(Held(e)) - out[e]) ELSE 0

LEMMA Fits ==
    ASSUME NEW e \in Ends, EndTyped(e), EndKnown(e)
    PROVE  /\ Written_n(e) \in Nat /\ out[e] + Written_n(e) <= 3 * Len(Held(e))
           /\ Len(net[e]) + Written_n(e) <= Cap
<1>1. out[e] \in 0..2 /\ Len(net[e]) \in Nat /\ Len(net[e]) <= Cap /\ Cap \in Nat
  BY CapAssumption DEF EndTyped
<1>2. PICK k \in Nat : k = Len(Held(e)) /\ out[e] <= 3 * k
  BY HeldKnown
<1> QED BY <1>1, <1>2, SMTT(30) DEF Written_n, Lesser, Room, Size

\* The socket after the writer.
LEMMA NetDrained ==
    ASSUME NEW e \in Ends, EndTyped(e), EndKnown(e), accepted[e[1]] = "refused" => ~Lives(e[1]),
           net'[e] = net[e] \o SubSeq(CellsOf(Held(e)), out[e] + 1, out[e] + Written_n(e)),
           ReaderLives(e)' => ReaderLives(e), WriterLives(e), UNCHANGED <<mail, got, reader>>
    PROVE  /\ net'[e] \in Seq(Cell) /\ Len(net'[e]) = Len(net[e]) + Written_n(e)
           /\ \A i \in DOMAIN net'[e] : net'[e][i][1] \in 1..Len(mail[e])
           /\ NetFollows(e)'
<1>1. PICK H \in Seq(Nat) : H = Held(e)
  BY HeldKnown DEF IsJoined
<1>2. PICK N \in Seq(Cell), o \in Nat, n \in Nat : N = net[e] /\ o = out[e] /\ n = Written_n(e)
  BY Fits, SMTT(30) DEF EndTyped
<1>3. PICK l \in Nat, a \in Nat : l = Len(H) /\ a = Len(N)
  BY LenProperties
<1>4. o + n <= 3 * l
  BY <1>1, <1>2, <1>3, Fits
<1>5. PICK W : W = net'[e]
  OBVIOUS
<1>6. W = N \o SubSeq(CellsOf(H), o + 1, o + n)
  BY <1>1, <1>2, <1>5
<1>7. WrittenCells(W, N, H, o, n)
  BY <1>3, <1>4, <1>6, CellsWritten
<1>d. DOMAIN N = 1..a /\ DOMAIN H = 1..l /\ DOMAIN W = 1..(a + n)
  BY <1>3, <1>7, LenProperties DEF WrittenCells
<1>8. PICK mm \in Nat, g \in Nat, c \in 0..1 : mm = Len(mail[e]) /\ g = got[e] /\ c = Half(e)
  BY DEF EndTyped, Half
<1>9. \A i \in 1..l : H[i] \in 1..mm
  BY <1>1, <1>8, <1>d, HeldKnown
<1>10. ASSUME NEW i \in 1..(a + n) PROVE W[i][1] \in 1..mm
  <2>1. CASE i \in 1..a
    <3>1. W[i] = N[i] /\ N[i][1] \in 1..mm
      BY <1>2, <1>3, <1>7, <1>8, <1>d, <2>1 DEF WrittenCells, EndKnown, NumbersKnown
    <3> QED BY <3>1
  <2>2. CASE i \notin 1..a
    <3>1. i - a \in 1..n /\ W[i] = CellsOf(H)[o + (i - a)]
      BY <1>3, <1>7, <1>10, <2>2 DEF WrittenCells
    <3>2. PICK x : x = o + (i - a)
      OBVIOUS
    <3>3. x \in 1..(3 * Len(H))
      <4>1. x \in 1..(o + n)
        BY <3>1, <3>2, SMTT(30)
      <4>2. x \in 1..(3 * l)
        BY <1>4, <4>1
      <4> QED BY <1>3, <4>2
    <3>4. (x - 1) \div 3 + 1 \in 1..l /\ CellsOf(H)[x] = <<H[(x - 1) \div 3 + 1], ((x - 1) % 3) + 1>>
      BY <1>3, <3>3, CellAt
    <3>5. PICK y, z : y = (x - 1) \div 3 + 1 /\ z = <<H[y], ((x - 1) % 3) + 1>> /\ CellsOf(H)[x] = z
      BY <3>4
    <3>6. H[y] \in 1..mm
      BY <1>9, <3>4, <3>5
    <3>7. W[i] = z /\ z[1] = H[y]
      BY <3>1, <3>2, <3>5
    <3> QED BY <3>6, <3>7
  <2> QED BY <2>1, <2>2
<1>11. PICK G \in Nat : G = (3 * g) + c
  <2>1. (3 * g) + c \in Nat
    BY <1>8
  <2> QED BY <2>1
<1>12. ASSUME ReaderLives(e), reader[e] # "broken" PROVE \A i \in 1..(a + n) : W[i] = CellNo(G + (i - 1))
  <2>1. \A i \in 1..a : N[i] = CellNo(G + (i - 1))
    BY <1>2, <1>8, <1>11, <1>12, <1>d DEF EndKnown, NetFollows
  <2>2. CASE n = 0
    <3>1. \A i \in 1..a : W[i] = N[i]
      BY <1>3, <1>7 DEF WrittenCells
    <3>2. a + n = a
      BY <2>2
    <3> QED BY <2>1, <3>1, <3>2
  <2>3. CASE n # 0
    <3>1. Alive(e)
      BY <1>2, <1>12, <2>3 DEF Written_n, Open, Alive, WriterLives, ReaderLives
    <3>2. l > 0
      BY <1>4, <2>3
    <3>3. \A i \in 1..l : H[i] = mm - l + i
      BY <1>1, <1>3, <1>8, <1>d, <3>1 DEF EndKnown, HeldFollows
    <3>4. (a + (3 * l)) + ((3 * g) + c) = (3 * mm) + o
      BY <1>1, <1>2, <1>3, <1>8, <1>12, <3>1 DEF EndKnown, HeldFollows
    <3>5. PICK h \in Nat : h = mm - l
      <4>1. H[1] = mm - l + 1 /\ H[1] \in 1..mm
        BY <1>9, <3>2, <3>3
      <4>2. mm - l \in Nat
        BY <4>1
      <4> QED BY <4>2
    <3>6. \A i \in 1..Len(H) : H[i] = h + i
      BY <1>3, <3>3, <3>5
    <3>7. G + a = (3 * h) + o
      <4>1. (a + (3 * l)) + G = (3 * mm) + o
        BY <1>11, <3>4
      <4> QED BY <3>5, <4>1
    <3>8. Successive(H, h) /\ Numbered(N, Len(N), G) /\ Meet(G, Len(N), h, o)
      BY <1>3, <2>1, <3>6, <3>7 DEF Successive, Numbered, Meet
    <3>9. o + n <= 3 * Len(H)
      BY <1>3, <1>4
    <3>10. Numbered(W, Len(N) + n, G)
      BY <1>7, <3>8, <3>9, WrittenFollows
    <3> QED BY <1>3, <3>10 DEF Numbered
  <2> QED BY <2>2, <2>3
<1>13. NetFollows(e)'
  <2>1. Half(e)' = c /\ got'[e] = g /\ reader'[e] = reader[e]
    BY <1>8 DEF Half
  <2> QED BY <1>5, <1>11, <1>12, <1>d, <2>1 DEF NetFollows
<1> QED BY <1>2, <1>3, <1>5, <1>7, <1>8, <1>10, <1>13, <1>d DEF WrittenCells

\* What is left to the writer: nothing, or all but the first d messages.
LEMMA Leftover ==
    ASSUME NEW e \in Ends, EndTyped(e), EndKnown(e), NEW d \in Nat, d < Len(Held(e)),
           NEW k \in Nat, Drain_Blocks(e, Held(e), k, d), batch \in [Ends -> Seq(Nat)], queue \in [Ends -> Seq(Nat)]
    PROVE  /\ queue'[e] \in Seq(Nat) /\ batch'[e] \in Seq(Nat) /\ batch'[e] # <<>>
           /\ \A i \in DOMAIN queue'[e] : queue'[e][i] \in 1..Len(mail[e])
           /\ \A i \in DOMAIN batch'[e] : batch'[e][i] \in 1..Len(mail[e])
           /\ IsRest(Held(e)', Held(e), d)
<1>1. PICK H \in Seq(Nat), l \in Nat : H = Held(e) /\ l = Len(H)
  BY HeldKnown DEF IsJoined
<1>2. PICK B \in Seq(Nat), Q \in Seq(Nat), b \in Nat : B = batch[e] /\ Q = queue[e] /\ b = Len(B) /\ H = B \o Q
  BY <1>1 DEF EndTyped, Held
<1>3. PICK mm \in Nat : mm = Len(mail[e])
  BY DEF EndTyped
<1>4. \A i \in 1..l : H[i] \in 1..mm
  BY <1>1, <1>3, HeldKnown, LenProperties
<1>5. /\ \A i \in DOMAIN Q : Q[i] \in 1..mm
      /\ \A i \in 1..b : B[i] \in 1..mm
  BY <1>2, <1>3, LenProperties DEF EndKnown, NumbersKnown
<1>6. CASE d < b
  <2>1. batch'[e] = SubSeq(B, d + 1, b) /\ queue'[e] = Q
    BY <1>1, <1>2, <1>6 DEF Drain_Blocks
  <2>2. PICK R : R = SubSeq(B, d + 1, b)
    OBVIOUS
  <2>3. IsRest(R, B, d)
    BY <1>2, <1>6, <2>2, RestOfAll
  <2>4. R \in Seq(Nat) /\ Len(R) = b - d /\ DOMAIN R = 1..(b - d) /\ \A i \in 1..(b - d) : R[i] = B[d + i]
    BY <1>2, <2>3 DEF IsRest
  <2>5. R # <<>>
    BY <1>2, <1>6, <2>4, EmptySeq
  <2>6. \A i \in DOMAIN R : R[i] \in 1..mm
    <3>1. \A i \in 1..(b - d) : d + i \in 1..b
      BY <1>2
    <3> QED BY <1>5, <2>4, <3>1
  <2>7. IsRest(SubSeq(B, d + 1, b) \o Q, B \o Q, d)
    BY <1>2, <1>6, RestOfFirst
  <2>8. Held(e)' = SubSeq(B, d + 1, b) \o Q
    BY <2>1 DEF Held
  <2> QED BY <1>1, <1>2, <1>3, <1>5, <2>1, <2>2, <2>4, <2>5, <2>6, <2>7, <2>8
<1>7. CASE ~(d < b)
  <2>1. batch'[e] = SubSeq(H, d + 1, l) /\ queue'[e] = <<>>
    BY <1>1, <1>2, <1>7 DEF Drain_Blocks
  <2>2. PICK R : R = SubSeq(H, d + 1, l)
    OBVIOUS
  <2>3. IsRest(R, H, d) /\ IsRest(R \o <<>>, H, d)
    BY <1>1, <2>2, RestOfAll
  <2>4. R \in Seq(Nat) /\ Len(R) = l - d /\ DOMAIN R = 1..(l - d) /\ \A i \in 1..(l - d) : R[i] = H[d + i]
    BY <1>1, <2>3 DEF IsRest
  <2>5. R # <<>>
    BY <1>1, <2>4, EmptySeq
  <2>6. \A i \in DOMAIN R : R[i] \in 1..mm
    <3>1. \A i \in 1..(l - d) : d + i \in 1..l
      BY <1>1
    <3> QED BY <1>4, <2>4, <3>1
  <2>7. Held(e)' = R \o <<>>
    BY <2>1, <2>2 DEF Held
  <2>8. <<>> \in Seq(Nat) /\ DOMAIN <<>> = {}
    BY EmptySeq
  <2> QED BY <1>1, <1>3, <2>1, <2>2, <2>3, <2>4, <2>5, <2>6, <2>7, <2>8
<1> QED BY <1>6, <1>7

LEMMA RestFollows ==
    ASSUME NEW H \in Seq(Nat), NEW J, NEW d \in Nat, d <= Len(H), IsRest(J, H, d), NEW mm \in Nat,
           \A i \in DOMAIN H : H[i] = mm - Len(H) + i
    PROVE  \A i \in DOMAIN J : J[i] = mm - Len(J) + i
<1>1. PICK l \in Nat : l = Len(H) /\ DOMAIN H = 1..l
  BY LenProperties
<1>2. DOMAIN J = 1..(l - d) /\ Len(J) = l - d /\ \A i \in 1..(l - d) : J[i] = H[d + i]
  BY <1>1 DEF IsRest
<1>3. ASSUME NEW i \in 1..(l - d) PROVE H[d + i] = mm - (l - d) + i
  <2>1. d + i \in 1..l
    BY <1>1
  <2>2. H[d + i] = mm - l + (d + i)
    BY <1>1, <2>1
  <2> QED BY <1>1, <2>2
<1> QED BY <1>2, <1>3

LEMMA BalanceKept ==
    ASSUME NEW a \in Int, NEW l \in Int, NEW g \in Int, NEW c \in Int, NEW m \in Int, NEW o \in Int,
           NEW n \in Int, NEW d \in Int, NEW r \in Int,
           (a + (3 * l)) + ((3 * g) + c) = (3 * m) + o, o + n = (3 * d) + r
    PROVE  ((a + n) + (3 * (l - d))) + ((3 * g) + c) = (3 * m) + r
OBVIOUS

LEMMA BalanceDone ==
    ASSUME NEW a \in Int, NEW l \in Int, NEW g \in Int, NEW c \in Int, NEW m \in Int, NEW o \in Int,
           NEW n \in Int, (a + (3 * l)) + ((3 * g) + c) = (3 * m) + o, n = (3 * l) - o
    PROVE  ((a + n) + (3 * 0)) + ((3 * g) + c) = (3 * m) + 0
OBVIOUS

\* What the writer's run leaves has its types.
DrainedTyped(e) ==
    /\ queue'[e] \in Seq(Nat) /\ batch'[e] \in Seq(Nat) /\ out'[e] \in 0..2
    /\ net'[e] \in Seq(Cell) /\ Len(net'[e]) <= Cap /\ split'[e] \in BOOLEAN
    /\ writer'[e] \in {"blocked", "waiting"}

LEMMA EndDrained ==
    ASSUME TypeOK, NEW e \in Ends, EndKnown(e), accepted[e[1]] = "refused" => ~Lives(e[1]), WriterRuns(e)
    PROVE  EndKnown(e)' /\ DrainedTyped(e)
<1>t. EndTyped(e) /\ batch \in [Ends -> Seq(Nat)] /\ queue \in [Ends -> Seq(Nat)]
  BY EndTypes DEF TypeOK
<1>r. /\ UNCHANGED <<master, worker, accepted, reader, mail, got>> /\ WriterLives(e)
      /\ Drain(e)
  BY DEF WriterRuns
<1>s. Half(e)' = Half(e) /\ (Alive(e)' <=> Alive(e)) /\ (ReaderLives(e)' <=> ReaderLives(e))
  BY <1>r DEF Half, Alive, ReaderLives, Lives, MasterLives
<1>1. PICK H \in Seq(Nat), l \in Nat : H = Held(e) /\ l = Len(H)
  BY <1>t, HeldKnown DEF IsJoined
<1>2. PICK o \in 0..2, n \in Nat, a \in Nat : o = out[e] /\ n = Written_n(e) /\ a = Len(net[e])
  BY <1>t, Fits DEF EndTyped
<1>3. o + n <= 3 * l /\ a + n <= Cap
  BY <1>1, <1>2, <1>t, Fits
<1>4. PICK d \in Nat, r \in 0..2 : d = (o + n) \div 3 /\ r = (o + n) % 3 /\ o + n = (3 * d) + r
  BY DivMod
<1>5. PICK mm \in Nat, g \in Nat, c \in 0..1 : mm = Len(mail[e]) /\ g = got[e] /\ c = Half(e)
  BY <1>t DEF EndTyped, Half
<1>6. net'[e] = net[e] \o SubSeq(CellsOf(Held(e)), out[e] + 1, out[e] + Written_n(e))
  BY <1>r, <1>t DEF Drain, Drain_Blocks, Written_n, Held, TypeOK
<1>7. /\ net'[e] \in Seq(Cell) /\ Len(net'[e]) = a + n
      /\ \A i \in DOMAIN net'[e] : net'[e][i][1] \in 1..mm
      /\ NetFollows(e)'
  BY <1>2, <1>5, <1>6, <1>r, <1>s, <1>t, NetDrained
<1>8. Alive(e) => \A i \in DOMAIN H : H[i] = mm - Len(H) + i
  BY <1>1, <1>5 DEF EndKnown, HeldFollows
<1>9. Alive(e) /\ reader[e] # "broken" => (a + (3 * l)) + ((3 * g) + c) = (3 * mm) + o
  BY <1>1, <1>2, <1>5 DEF EndKnown, HeldFollows
<1>10. CASE Open(e) /\ n < 3 * l - o
  <2>1. Drain_Blocks(e, Held(e), n, d)
    <3>1. \/ Drain_Blocks(e, H, n, (o + n) \div 3)
          \/ Open(e) => n = 3 * Len(H) - o
      BY <1>1, <1>2, <1>r, Zenon DEF Drain, Written_n, Held, Size
    <3>2. ~(Open(e) => n = 3 * Len(H) - o)
      BY <1>1, <1>10
    <3>3. Drain_Blocks(e, H, n, (o + n) \div 3)
      BY <3>1, <3>2
    <3>4. (o + n) \div 3 = d
      BY <1>4
    <3> QED BY <1>1, <3>3, <3>4
  <2>2. d < Len(Held(e))
    <3>1. 3 * d < 3 * l
      BY <1>4, <1>10, SMTT(30)
    <3>2. d < l
      BY <3>1
    <3> QED BY <1>1, <3>2
  <2>3. /\ queue'[e] \in Seq(Nat) /\ batch'[e] \in Seq(Nat) /\ batch'[e] # <<>>
        /\ \A i \in DOMAIN queue'[e] : queue'[e][i] \in 1..Len(mail[e])
        /\ \A i \in DOMAIN batch'[e] : batch'[e][i] \in 1..Len(mail[e])
        /\ IsRest(Held(e)', Held(e), d)
    BY <1>t, <2>1, <2>2, Leftover
  <2>4. out'[e] = r /\ split'[e] = TRUE /\ writer'[e] = "blocked"
    BY <1>2, <1>4, <2>1 DEF Drain_Blocks, TypeOK, Size
  <2>5. PICK J : J = Held(e)'
    OBVIOUS
  <2>6. IsRest(J, H, d)
    BY <1>1, <2>3, <2>5
  <2>7. Len(J) = l - d
    BY <1>1, <2>6 DEF IsRest
  <2>8. HeldFollows(e)'
    <3>1. Alive(e) => \A i \in DOMAIN J : J[i] = mm - Len(J) + i
      <4>1. d <= Len(H)
        BY <1>1, <2>2
      <4> QED BY <1>8, <2>6, <4>1, RestFollows
    <3>2. Alive(e) /\ reader[e] # "broken" => ((a + n) + (3 * (l - d))) + ((3 * g) + c) = (3 * mm) + r
      BY <1>4, <1>9, BalanceKept
    <3> QED BY <1>5, <1>7, <1>r, <1>s, <2>4, <2>5, <2>7, <3>1, <3>2 DEF HeldFollows
  <2>9. EndKnown(e)'
    BY <1>5, <1>7, <1>r, <2>3, <2>4, <2>8 DEF EndKnown, NumbersKnown, PartKnown, WholeUnlessSplit
  <2> QED BY <1>3, <1>7, <2>3, <2>4, <2>9 DEF DrainedTyped
<1>11. CASE ~(Open(e) /\ n < 3 * l - o)
  <2>1. /\ Open(e) => n = 3 * l - o
        /\ queue'[e] = <<>> /\ batch'[e] = <<>> /\ out'[e] = 0
        /\ writer'[e] = "waiting" /\ split'[e] = split[e]
    BY <1>1, <1>2, <1>r, <1>t, <1>11 DEF Drain, Written_n, Held, Size, TypeOK
  <2>2. <<>> \in Seq(Nat) /\ DOMAIN <<>> = {} /\ Len(<<>>) = 0
    BY EmptySeq
  <2>3. Held(e)' = <<>>
    <3>1. <<>> \o <<>> = <<>>
      BY <2>2, ConcatEmptySeq
    <3> QED BY <2>1, <3>1 DEF Held
  <2>4. Alive(e) => Open(e)
    BY <1>r DEF Alive, Open, ReaderLives
  <2>5. HeldFollows(e)'
    <3>1. ASSUME Alive(e), reader[e] # "broken" PROVE ((a + n) + (3 * 0)) + ((3 * g) + c) = (3 * mm) + 0
      <4>1. n = (3 * l) - o
        BY <2>1, <2>4, <3>1
      <4>2. (a + (3 * l)) + ((3 * g) + c) = (3 * mm) + o
        BY <1>9, <3>1
      <4>3. l \in Int /\ a \in Int /\ g \in Int /\ c \in Int /\ mm \in Int /\ o \in Int /\ n \in Int
        OBVIOUS
      <4> QED BY <4>1, <4>2, <4>3, BalanceDone
    <3>2. PICK J : J = Held(e)'
      OBVIOUS
    <3>3. DOMAIN J = {} /\ Len(J) = 0
      BY <2>2, <2>3, <3>2
    <3> QED BY <1>5, <1>7, <1>r, <1>s, <2>1, <3>1, <3>2, <3>3 DEF HeldFollows
  <2>6. WholeUnlessSplit(e)'
    <3>1. ASSUME ~split[e] PROVE (a + n) % 3 = 0
      <4>1. a % 3 = 0 /\ o = 0
        BY <1>2, <3>1 DEF EndKnown, WholeUnlessSplit
      <4>2. n = 0 \/ n = 3 * l
        BY <1>2, <2>1, <4>1 DEF Written_n
      <4>3. (3 * l + a) % 3 = a % 3
        BY DivShift
      <4> QED BY <4>1, <4>2, <4>3
    <3> QED BY <1>7, <1>r, <2>1, <3>1 DEF EndKnown, WholeUnlessSplit
  <2>7. EndKnown(e)'
    BY <1>5, <1>7, <1>r, <2>1, <2>2, <2>5, <2>6 DEF EndKnown, NumbersKnown, PartKnown
  <2>8. split[e] \in BOOLEAN
    BY <1>t DEF EndTyped
  <2> QED BY <1>3, <1>7, <2>1, <2>2, <2>7, <2>8 DEF DrainedTyped
<1> QED BY <1>10, <1>11

-----------------------------------------------------------------------------
(* The reader *)

\* What a read does to the channel and to the processes.
Dispatched(e) ==
    /\ Len(net[e]) + Half(e) >= 3
    /\ net' = [net EXCEPT ![e] = SubSeq(@, (3 - Half(e)) + 1, Len(@))]
    /\ got' = [got EXCEPT ![e] = Head(net[e])[1]]
    /\ \E x \in {"none", "header"} : reader' = [reader EXCEPT ![e] = x]

HeaderRead(e) ==
    /\ Len(net[e]) + Half(e) = 1 /\ net' = [net EXCEPT ![e] = <<>>] /\ got' = got
    /\ reader' = [reader EXCEPT ![e] = "body"]

PartRead(e) ==
    /\ Len(net[e]) + Half(e) = 2 /\ net' = [net EXCEPT ![e] = <<>>] /\ got' = got
    /\ reader' = [reader EXCEPT ![e] = "broken"]

LEMMA RecvKinds ==
    ASSUME TypeOK, NEW e \in Ends, Recv(e)
    PROVE  /\ Dispatched(e) \/ HeaderRead(e) \/ PartRead(e)
           /\ ReaderLives(e) /\ reader[e] \in {"header", "body"} /\ net[e] # <<>>
           /\ UNCHANGED <<worker, queue, batch, writer, out, mail, split, children, events>>
           /\ (MasterLives' <=> MasterLives)
<1>1. e = <<e[1], e[2]>> /\ e[2] \in {"up", "down"} /\ EndTyped(e)
  BY EndTypes DEF Ends
<1>h. Half(e) \in 0..1 /\ Len(net[e]) \in Nat
  BY <1>1 DEF EndTyped, Half
<1>2. PICK a \in Nat, c \in 0..1 : a = Len(net[e]) /\ c = Half(e)
  BY <1>h
<1>3. PICK have : have = Len(net[e]) + (IF reader[e] = "body" THEN 1 ELSE 0)
  OBVIOUS
<1>4. have = a + c /\ (have - a) = c
  BY <1>2, <1>3 DEF Half
<1>5. /\ ReaderLives(e) /\ reader[e] \in {"header", "body"} /\ net[e] # <<>>
      /\ UNCHANGED <<worker, queue, batch, writer, out, mail, split, children, events>>
  BY DEF Recv
<1>6. CASE /\ have >= 3
           /\ net' = [net EXCEPT ![e] = SubSeq(@, (Size - (have - Len(@))) + 1, Len(@))]
           /\ got' = [got EXCEPT ![e] = Head(net[e])[1]]
           /\ \/ e[2] = "up" /\ accepted[e[1]] = "reading" /\ Greeted(e[1])
              \/ e[2] = "up" /\ accepted[e[1]] # "reading" /\ AtMaster(e[1], mail[e][Head(net[e])[1]])
              \/ e[2] = "down" /\ AtWorker(e[1], mail[e][Head(net[e])[1]])
  <2>1. net' = [net EXCEPT ![e] = SubSeq(@, (3 - Half(e)) + 1, Len(@))]
    <3>1. (Size - (have - Len(net[e]))) = 3 - Half(e)
      BY <1>2, <1>4 DEF Size
    <3> QED BY <1>6, <3>1
  <2>2. \E x \in {"none", "header"} : reader' = [reader EXCEPT ![e] = x]
    BY <1>1, <1>6 DEF Greeted, AtMaster, AtWorker
  <2>3. MasterLives' <=> MasterLives
    BY <1>1, <1>5, <1>6 DEF Greeted, AtMaster, AtWorker, MasterLives, ReaderLives
  <2> QED BY <1>2, <1>4, <1>5, <1>6, <2>1, <2>2, <2>3 DEF Dispatched
<1>7. CASE /\ have = 1 /\ net' = [net EXCEPT ![e] = <<>>] /\ reader' = [reader EXCEPT ![e] = "body"]
           /\ UNCHANGED <<master, got>>
  BY <1>2, <1>4, <1>5, <1>7 DEF HeaderRead, MasterLives
<1>8. CASE have = 2 /\ RecvPart(e)
  BY <1>2, <1>4, <1>5, <1>8 DEF PartRead, RecvPart, MasterLives
<1> QED BY <1>3, <1>6, <1>7, <1>8 DEF Recv, Size

LEMMA BalanceRead ==
    ASSUME NEW a \in Int, NEW l \in Int, NEW g \in Int, NEW c \in Int, NEW m \in Int, NEW o \in Int,
           (a + (3 * l)) + ((3 * g) + c) = (3 * m) + o
    PROVE  /\ ((a - (3 - c)) + (3 * l)) + ((3 * (g + 1)) + 0) = (3 * m) + o
           /\ a = 1 /\ c = 0 => (0 + (3 * l)) + ((3 * g) + 1) = (3 * m) + o
<1>1. PICK x \in Int, y \in Int : x = 3 * l /\ y = 3 * g
  OBVIOUS
<1>2. (a + x) + (y + c) = (3 * m) + o
  BY <1>1
<1>3. ((a - (3 - c)) + x) + ((y + 3) + 0) = (a + x) + (y + c)
  OBVIOUS
<1>4. 3 * (g + 1) = y + 3
  BY <1>1
<1>5. a = 1 /\ c = 0 => (0 + x) + (y + 1) = (a + x) + (y + c)
  OBVIOUS
<1> QED BY <1>1, <1>2, <1>3, <1>4, <1>5

\* The next message is dispatched, and nothing else.
LEMMA NextInLine ==
    ASSUME NEW e \in Ends, EndTyped(e), EndKnown(e), ReaderLives(e), reader[e] \in {"header", "body"},
           net[e] # <<>>
    PROVE  Head(net[e])[1] = got[e] + 1 /\ got[e] + 1 \in 1..Len(mail[e])
<1>1. net[e] \in Seq(Cell) /\ Len(net[e]) \in Nat /\ got[e] \in Nat /\ Half(e) \in 0..1
  BY DEF EndTyped, Half
<1>2. 1 \in DOMAIN net[e] /\ Head(net[e]) = net[e][1]
  BY <1>1, EmptySeq, LenProperties
<1>3. net[e][1] = CellNo(((3 * got[e]) + Half(e)) + (1 - 1))
  BY <1>2 DEF EndKnown, NetFollows
<1>4. PICK g \in Nat, c \in 0..1 : g = got[e] /\ c = Half(e)
  BY <1>1
<1>5. ((3 * g) + c) + (1 - 1) = (3 * g) + c
  BY <1>4
<1>6. ((3 * g) + c) \div 3 = g
  BY <1>4, Z3T(30)
<1>7. net[e][1][1] = g + 1
  BY <1>3, <1>4, <1>5, <1>6 DEF CellNo
<1> QED BY <1>2, <1>4, <1>7 DEF EndKnown, NumbersKnown

ReadTyped(e) ==
    /\ net'[e] \in Seq(Cell) /\ Len(net'[e]) <= Cap /\ got'[e] \in Nat
    /\ reader'[e] \in {"none", "header", "body", "broken", "closed"}

LEMMA EndReceived ==
    ASSUME TypeOK, NEW e \in Ends, EndKnown(e), Recv(e)
    PROVE  EndKnown(e)' /\ ReadTyped(e) /\ (got'[e] = got[e] \/ got'[e] = got[e] + 1)
<1>t. EndTyped(e) /\ net \in [Ends -> Seq(Cell)] /\ got \in [Ends -> Nat] /\ reader \in [Ends -> {"none", "header", "body", "broken", "closed"}]
  BY EndTypes DEF TypeOK, Cell, Size
<1>r. /\ Dispatched(e) \/ HeaderRead(e) \/ PartRead(e)
      /\ ReaderLives(e) /\ reader[e] \in {"header", "body"} /\ net[e] # <<>>
      /\ UNCHANGED <<worker, queue, batch, writer, out, mail, split, children, events>>
      /\ (MasterLives' <=> MasterLives)
  BY RecvKinds
<1>s. (Alive(e)' <=> Alive(e)) /\ (ReaderLives(e)' <=> ReaderLives(e)) /\ Held(e)' = Held(e)
  BY <1>r DEF Alive, ReaderLives, Lives, Held
<1>1. PICK l \in Nat, o \in 0..2, a \in Nat, mm \in Nat, g \in Nat :
        l = Len(Held(e)) /\ o = out[e] /\ a = Len(net[e]) /\ mm = Len(mail[e]) /\ g = got[e]
  BY <1>t, HeldKnown DEF EndTyped
<1>h. Half(e) \in 0..1
  BY DEF Half
<1>c. PICK c \in 0..1 : c = Half(e)
  BY <1>h
<1>2. PICK N \in Seq(Cell) : N = net[e] /\ DOMAIN N = 1..a
  BY <1>1, <1>t, LenProperties DEF EndTyped
<1>3. \A i \in 1..a : N[i] = CellNo(((3 * g) + c) + (i - 1)) /\ N[i][1] \in 1..mm
  BY <1>1, <1>2, <1>c, <1>r DEF EndKnown, NetFollows, NumbersKnown
<1>4. Head(net[e])[1] = g + 1 /\ g + 1 \in 1..mm
  BY <1>1, <1>r, <1>t, NextInLine
<1>5. /\ Alive(e) => \A i \in DOMAIN Held(e) : Held(e)[i] = mm - Len(Held(e)) + i
      /\ Alive(e) => (a + (3 * l)) + ((3 * g) + c) = (3 * mm) + o
  BY <1>1, <1>c, <1>r DEF EndKnown, HeldFollows
<1>6. /\ ~split[e] => a % 3 = 0 /\ o = 0 /\ c = 0
      /\ \A i \in DOMAIN queue[e] : queue[e][i] \in 1..mm
      /\ \A i \in DOMAIN batch[e] : batch[e][i] \in 1..mm
      /\ PartKnown(e)'
  BY <1>1, <1>c, <1>r DEF EndKnown, WholeUnlessSplit, Half, NumbersKnown, PartKnown
<1>e. <<>> \in Seq(Cell) /\ DOMAIN <<>> = {} /\ Len(<<>>) = 0 /\ Cap \in Nat
  BY EmptySeq, CapAssumption
<1>7. CASE Dispatched(e)
  <2>1. a + c >= 3
    BY <1>1, <1>c, <1>7 DEF Dispatched
  <2>2. PICK k \in 2..3 : k = 3 - c
    <3>1. 3 - c \in 2..3
      OBVIOUS
    <3> QED BY <3>1
  <2>3. PICK M2 : M2 = net'[e]
    OBVIOUS
  <2>4. M2 = SubSeq(N, k + 1, a)
    BY <1>1, <1>2, <1>c, <1>t, <1>7, <2>2, <2>3 DEF Dispatched
  <2>5. M2 \in Seq(Cell) /\ Len(M2) = a - k /\ \A i \in 1..(a - k) : M2[i] = N[k + i]
    <3>1. k <= a /\ a <= Len(N)
      BY <1>1, <1>2, <2>1, <2>2
    <3> QED BY <1>2, <2>4, <3>1, Stretch
  <2>6. DOMAIN M2 = 1..(a - k) /\ a - k \in Nat
    BY <2>1, <2>2, <2>5, LenProperties
  <2>7. ASSUME NEW i \in 1..(a - k) PROVE M2[i] = CellNo(((3 * (g + 1)) + 0) + (i - 1)) /\ M2[i][1] \in 1..mm
    <3>1. k + i \in 1..a
      BY <2>2
    <3>2. ((3 * g) + c) + ((k + i) - 1) = ((3 * (g + 1)) + 0) + (i - 1)
      BY <2>2
    <3> QED BY <1>3, <2>5, <3>1, <3>2
  <2>8. got'[e] = g + 1 /\ reader'[e] \in {"none", "header"}
    BY <1>4, <1>t, <1>7 DEF Dispatched
  <2>9. Half(e)' = 0
    BY <2>8 DEF Half
  <2>10. NumbersKnown(e)'
    BY <1>1, <1>6, <1>r, <2>3, <2>6, <2>7 DEF NumbersKnown
  <2>11. NetFollows(e)'
    BY <2>3, <2>6, <2>7, <2>8, <2>9 DEF NetFollows
  <2>12. HeldFollows(e)'
    <3>1. Alive(e) => ((a - k) + (3 * l)) + ((3 * (g + 1)) + 0) = (3 * mm) + o
      BY <1>5, <2>2, BalanceRead
    <3>2. PICK H : H = Held(e) /\ H = Held(e)'
      BY <1>s
    <3> QED BY <1>1, <1>5, <1>r, <1>s, <2>3, <2>5, <2>8, <2>9, <3>1, <3>2 DEF HeldFollows
  <2>13. WholeUnlessSplit(e)'
    <3>1. ASSUME ~split[e] PROVE (a - k) % 3 = 0
      <4>1. k = 3 /\ a % 3 = 0 /\ a - k \in Nat
        BY <1>6, <2>2, <2>6, <3>1
      <4>2. PICK j \in Nat : a = 3 + j /\ j = a - k
        BY <4>1
      <4>3. (3 * 1 + j) % 3 = j % 3
        BY DivShift
      <4> QED BY <4>1, <4>2, <4>3
    <3> QED BY <1>1, <1>6, <1>r, <2>3, <2>5, <2>8, <3>1 DEF WholeUnlessSplit
  <2>14. Len(M2) <= Cap
    <3>1. a <= Cap /\ Cap \in Nat
      BY <1>1, <1>e, <1>t DEF EndTyped
    <3> QED BY <2>2, <2>5, <3>1
  <2> QED BY <1>1, <1>6, <2>3, <2>5, <2>8, <2>10, <2>11, <2>12, <2>13, <2>14 DEF EndKnown, ReadTyped
<1>8. CASE HeaderRead(e)
  <2>1. a = 1 /\ c = 0
    <3>1. a # 0
      BY <1>1, <1>2, <1>r, EmptySeq
    <3>2. a + c = 1
      BY <1>1, <1>c, <1>8 DEF HeaderRead
    <3> QED BY <3>1, <3>2
  <2>2. net'[e] = <<>> /\ got'[e] = g /\ reader'[e] = "body"
    BY <1>1, <1>t, <1>8 DEF HeaderRead
  <2>3. Half(e)' = 1
    BY <2>2 DEF Half
  <2>4. NumbersKnown(e)' /\ NetFollows(e)'
    BY <1>1, <1>6, <1>e, <1>r, <2>2 DEF NumbersKnown, NetFollows
  <2>5. HeldFollows(e)'
    <3>1. Alive(e) => (0 + (3 * l)) + ((3 * g) + 1) = (3 * mm) + o
      BY <1>5, <2>1, BalanceRead
    <3>2. PICK H : H = Held(e) /\ H = Held(e)'
      BY <1>s
    <3> QED BY <1>1, <1>5, <1>e, <1>r, <1>s, <2>2, <2>3, <3>1, <3>2 DEF HeldFollows
  <2>6. WholeUnlessSplit(e)'
    <3>1. split[e]
      BY <1>6, <2>1
    <3> QED BY <1>r, <3>1 DEF WholeUnlessSplit
  <2> QED BY <1>1, <1>6, <1>e, <2>2, <2>4, <2>5, <2>6 DEF EndKnown, ReadTyped
<1>9. CASE PartRead(e)
  <2>1. a + c = 2
    BY <1>1, <1>c, <1>9 DEF PartRead
  <2>2. net'[e] = <<>> /\ got'[e] = g /\ reader'[e] = "broken"
    BY <1>1, <1>t, <1>9 DEF PartRead
  <2>3. NumbersKnown(e)' /\ NetFollows(e)'
    BY <1>1, <1>6, <1>e, <1>r, <2>2 DEF NumbersKnown, NetFollows
  <2>4. HeldFollows(e)'
    <3>1. PICK H : H = Held(e) /\ H = Held(e)'
      BY <1>s
    <3> QED BY <1>1, <1>5, <1>r, <1>s, <2>2, <3>1 DEF HeldFollows
  <2>5. WholeUnlessSplit(e)'
    <3>1. split[e]
      <4>1. c = 0 => a = 2
        BY <2>1
      <4>2. 2 % 3 = 2
        OBVIOUS
      <4> QED BY <1>6, <4>1, <4>2
    <3> QED BY <1>r, <3>1 DEF WholeUnlessSplit
  <2> QED BY <1>1, <1>6, <1>e, <2>2, <2>3, <2>4, <2>5 DEF EndKnown, ReadTyped
<1> QED BY <1>7, <1>8, <1>9, <1>r

-----------------------------------------------------------------------------
(* What most steps leave alone *)

\* Nothing is sent, nobody calls or returns; sessions and calls at hand may be forgotten.
CallingStill ==
    /\ UNCHANGED <<mail, calls, returned>> /\ handling' \subseteq handling
    /\ \A w \in Workers : session_map'[w] \subseteq session_map[w]

LEMMA CallingStays ==
    ASSUME CallsKnown, CallsGetOwnAnswer, CallingStill
    PROVE  CallsKnown' /\ CallsGetOwnAnswer'
<1>2. CallsKnown'
  BY DEF CallsKnown, CallingStill
<1>3. CallsGetOwnAnswer'
  BY DEF CallsGetOwnAnswer, CallingStill
<1> QED BY <1>2, <1>3

\* Nobody dies, and nobody who is dead connects.
DeathsStill ==
    /\ UNCHANGED <<worker, reported, sigchld>> /\ (MasterLives' => MasterLives)
    /\ \A w \in Workers : accepted'[w] # "no" => accepted[w] # "no" \/ worker[w] # "dead"

LEMMA DeathsStay == ASSUME DeathsAreReported, DeathsStill PROVE DeathsAreReported'
BY DEF DeathsAreReported, DeathsStill

LEMMA EndsStay ==
    ASSUME \A e \in Ends : EndKnown(e), UNCHANGED <<chan>>, \A e \in Ends : NoneRises(e)
    PROVE  \A e \in Ends : EndKnown(e)'
<1> SUFFICES ASSUME NEW e \in Ends PROVE EndKnown(e)'
  OBVIOUS
<1>1. ChanSame(e) /\ reader'[e] = reader[e]
  BY DEF ChanSame, chan
<1> QED BY <1>1, EndStays

-----------------------------------------------------------------------------
(* Start *)

LEMMA InitHolds == ASSUME Init PROVE IInv
<1>e. <<>> \in Seq(Nat) /\ <<>> \in Seq(Cell) /\ <<>> \in Seq(Message) /\ DOMAIN <<>> = {} /\ Len(<<>>) = 0
  BY EmptySeq
<1>1. TypeOK
  <2>1. /\ mail \in [Ends -> Seq(Message)] /\ queue \in [Ends -> Seq(Nat)] /\ batch \in [Ends -> Seq(Nat)]
        /\ net \in [Ends -> Seq(Cell)]
    BY <1>e DEF Init
  <2>2. \A e \in Ends : Len(net[e]) <= Cap
    BY <1>e, CapAssumption DEF Init
  <2>3. out \in [Ends -> 0..(Size - 1)] /\ net \in [Ends -> Seq(Nat \X (1..Size))]
    BY <2>1 DEF Init, Cell, Size
  <2> QED BY <2>1, <2>2, <2>3 DEF Init, TypeOK
<1>2. ASSUME NEW e \in Ends PROVE EndKnown(e)
  <2>1. /\ queue[e] = <<>> /\ batch[e] = <<>> /\ out[e] = 0 /\ net[e] = <<>> /\ reader[e] = "none"
        /\ mail[e] = <<>> /\ got[e] = 0
    BY DEF Init
  <2>2. ~Alive(e)
    BY <1>e DEF Init, Alive, Lives, Ends
  <2>3. 0 % 3 = 0
    OBVIOUS
  <2>4. NumbersKnown(e) /\ PartKnown(e) /\ NetFollows(e) /\ HeldFollows(e)
    BY <1>e, <2>1, <2>2 DEF NumbersKnown, PartKnown, NetFollows, HeldFollows
  <2>5. WholeUnlessSplit(e)
    BY <1>e, <2>1, <2>3 DEF WholeUnlessSplit
  <2> QED BY <2>4, <2>5 DEF EndKnown
<1>3. StartKnown
  BY DEF Init, StartKnown, Ends
<1>4. DeathsAreReported
  BY DEF Init, DeathsAreReported
<1>5. CallsKnown /\ CallsGetOwnAnswer
  BY <1>e DEF Init, CallsKnown, CallsGetOwnAnswer
<1> QED BY <1>1, <1>2, <1>3, <1>4, <1>5 DEF IInv

LEMMA ForkKeeps == ASSUME IInv, NEW v \in Workers, Fork(v) PROVE IInv'
<1>1. TypeOK'
  BY DEF IInv, TypeOK, Fork, chan, calling, children
<1>2. ASSUME NEW e \in Ends PROVE EndKnown(e)'
  <2>1. CASE e[1] # v
    <3>1. ChanSame(e) /\ reader'[e] = reader[e] /\ NoneRises(e)
      BY <2>1 DEF Fork, ChanSame, chan, NoneRises, Alive, ReaderLives, Lives, MasterLives, IInv, TypeOK
    <3> QED BY <3>1, EndStays DEF IInv
  <2>2. CASE e[1] = v
    <3>1. /\ queue'[e] = <<>> /\ batch'[e] = <<>> /\ out'[e] = 0 /\ net'[e] = <<>> /\ reader'[e] = "none"
          /\ mail'[e] = <<>> /\ got'[e] = 0
      BY DEF Fork, chan, IInv, StartKnown
    <3>2. DOMAIN <<>> = {} /\ Len(<<>>) = 0 /\ <<>> \o <<>> = <<>> /\ 0 % 3 = 0
      BY EmptySeq, ConcatEmptySeq
    <3>3. Half(e)' = 0 /\ Held(e)' = <<>>
      BY <3>1, <3>2 DEF Half, Held
    <3>4. NumbersKnown(e)' /\ PartKnown(e)' /\ NetFollows(e)' /\ WholeUnlessSplit(e)'
      BY <3>1, <3>2 DEF NumbersKnown, PartKnown, NetFollows, WholeUnlessSplit
    <3>5. HeldFollows(e)'
      <4>1. PICK J : J = Held(e)'
        OBVIOUS
      <4>2. DOMAIN J = {} /\ Len(J) = 0
        BY <3>2, <3>3, <4>1
      <4>3. (0 + (3 * 0)) + ((3 * 0) + 0) = (3 * 0) + 0
        OBVIOUS
      <4> QED BY <3>1, <3>2, <3>3, <4>1, <4>2, <4>3 DEF HeldFollows
    <3> QED BY <3>4, <3>5 DEF EndKnown
  <2> QED BY <2>1, <2>2
<1>3. StartKnown'
  BY DEF IInv, TypeOK, StartKnown, Fork, chan, Lives
<1>4. DeathsAreReported'
  BY DEF IInv, TypeOK, DeathsAreReported, StartKnown, Fork, children
<1>5. CallsKnown' /\ CallsGetOwnAnswer'
  BY CallingStays DEF IInv, Fork, chan, calling, CallingStill
<1> QED BY <1>1, <1>2, <1>3, <1>4, <1>5 DEF IInv

LEMMA ListenKeeps == ASSUME IInv, Listen PROVE IInv'
<1>1. TypeOK'
  BY DEF IInv, TypeOK, Listen, chan, calling, children
<1>2. \A e \in Ends : EndKnown(e)'
  BY EndsStay DEF IInv, Listen, NoneRises, Alive, ReaderLives, Lives, MasterLives
<1>3. StartKnown'
  BY DEF IInv, StartKnown, Listen, Lives, chan
<1>4. DeathsAreReported'
  BY DeathsStay DEF IInv, DeathsStill, Listen, children, MasterLives
<1>5. CallsKnown' /\ CallsGetOwnAnswer'
  BY CallingStays DEF IInv, Listen, chan, calling, CallingStill
<1> QED BY <1>1, <1>2, <1>3, <1>4, <1>5 DEF IInv

-----------------------------------------------------------------------------
(* Sending *)

\* What a send does at an end.
Sent(e, S, m) ==
    IF e \in S
    THEN mail'[e] = Append(mail[e], m) /\ queue'[e] = Append(queue[e], Len(mail'[e]))
    ELSE mail'[e] = mail[e] /\ queue'[e] = queue[e]

LEMMA Posted ==
    ASSUME TypeOK, NEW S \in SUBSET Ends, NEW m \in Message, Post(S, m)
    PROVE  /\ mail' \in [Ends -> Seq(Message)] /\ queue' \in [Ends -> Seq(Nat)]
           /\ writer' \in [Ends -> {"none", "forked", "blocked", "waiting", "woken"}]
           /\ \A e \in Ends : Sent(e, S, m)
<1>1. \A e \in Ends : Sent(e, S, m)
  BY DEF Post, Sent
<1>2. ASSUME NEW e \in Ends PROVE mail'[e] \in Seq(Message)
  <2>1. mail[e] \in Seq(Message)
    BY DEF TypeOK
  <2>2. CASE e \in S
    <3>1. mail'[e] = Append(mail[e], m)
      BY <1>1, <2>2 DEF Sent
    <3> QED BY <2>1, <3>1, AppendProperties
  <2>3. CASE e \notin S
    BY <1>1, <2>1, <2>3 DEF Sent
  <2> QED BY <2>2, <2>3
<1>3. ASSUME NEW e \in Ends PROVE queue'[e] \in Seq(Nat)
  <2>1. queue[e] \in Seq(Nat) /\ Len(mail'[e]) \in Nat
    BY <1>2, LenProperties DEF TypeOK
  <2>2. CASE e \in S
    <3>1. queue'[e] = Append(queue[e], Len(mail'[e]))
      BY <1>1, <2>2 DEF Sent
    <3> QED BY <2>1, <3>1, AppendProperties
  <2>3. CASE e \notin S
    BY <1>1, <2>1, <2>3 DEF Sent
  <2> QED BY <2>2, <2>3
<1>4. mail' \in [Ends -> Seq(Message)]
  <2>1. mail' = [e \in Ends |-> mail'[e]]
    BY DEF Post
  <2> QED BY <1>2, <2>1
<1>5. queue' \in [Ends -> Seq(Nat)]
  <2>1. queue' = [e \in Ends |-> queue'[e]]
    BY DEF Post
  <2> QED BY <1>3, <2>1
<1>6. writer' \in [Ends -> {"none", "forked", "blocked", "waiting", "woken"}]
  BY DEF Post, TypeOK
<1> QED BY <1>1, <1>4, <1>5, <1>6

LEMMA EndsSent ==
    ASSUME TypeOK, \A e \in Ends : EndKnown(e), NEW S \in SUBSET Ends, NEW m \in Message, Post(S, m),
           UNCHANGED <<batch, out, net, got, split, reader>>, \A e \in Ends : NoneRises(e)
    PROVE  \A e \in Ends : EndKnown(e)'
<1> SUFFICES ASSUME NEW e \in Ends PROVE EndKnown(e)'
  OBVIOUS
<1>1. Sent(e, S, m) /\ EndTyped(e) /\ NoneRises(e)
  BY Posted, EndTypes
<1>2. CASE e \in S
  BY <1>1, <1>2, EndPosted DEF Sent
<1>3. CASE e \notin S
  BY <1>1, <1>3, EndStays DEF Sent, ChanSame
<1> QED BY <1>2, <1>3

\* The calls known by the messages, when one is sent.
LEMMA MailKnown ==
    ASSUME TypeOK, CallsKnown, NEW S \in SUBSET Ends, NEW m \in Message, Post(S, m),
           m.sid # 0 \/ m.kind \in {"call", "ret"} => OfCall(m, calls'),
           calls' \in [Workers -> Nat], \A w \in Workers : calls[w] <= calls'[w]
    PROVE  /\ \A x : OfCall(x, calls) => OfCall(x, calls')
           /\ \A e \in Ends : \A i \in DOMAIN mail'[e] :
                LET x == mail'[e][i] IN x.sid # 0 \/ x.kind \in {"call", "ret"} => OfCall(x, calls')
<1>1. ASSUME NEW x, OfCall(x, calls) PROVE OfCall(x, calls')
  <2>1. x.call[1] \in Workers /\ x.call[2] \in 1..calls[x.call[1]]
    BY <1>1 DEF OfCall
  <2>2. calls[x.call[1]] \in Nat /\ calls'[x.call[1]] \in Nat /\ calls[x.call[1]] <= calls'[x.call[1]]
    BY <2>1 DEF TypeOK
  <2>3. x.call[2] \in 1..calls'[x.call[1]]
    BY <2>1, <2>2
  <2> QED BY <1>1, <2>3 DEF OfCall
<1>2. ASSUME NEW e \in Ends, NEW i \in DOMAIN mail'[e],
             mail'[e][i].sid # 0 \/ mail'[e][i].kind \in {"call", "ret"}
      PROVE  OfCall(mail'[e][i], calls')
  <2>1. mail[e] \in Seq(Message) /\ Sent(e, S, m)
    BY Posted DEF TypeOK
  <2>2. PICK k \in Nat : k = Len(mail[e]) /\ DOMAIN mail[e] = 1..k
    BY <2>1, LenProperties
  <2>3. \A j \in 1..k : mail[e][j] \in Message
    BY <2>1, <2>2, ElementOfSeq
  <2>4. \A j \in 1..k : mail[e][j].sid # 0 \/ mail[e][j].kind \in {"call", "ret"} => OfCall(mail[e][j], calls)
    BY <2>2 DEF CallsKnown
  <2>5. CASE i \in 1..k /\ mail'[e][i] = mail[e][i]
    BY <1>1, <1>2, <2>3, <2>4, <2>5
  <2>6. CASE mail'[e][i] = m
    BY <1>2, <2>6
  <2>7. (i \in 1..k /\ mail'[e][i] = mail[e][i]) \/ mail'[e][i] = m
    <3>1. CASE e \notin S
      BY <2>1, <2>2, <3>1 DEF Sent
    <3>2. CASE e \in S
      <4>1. mail'[e] = Append(mail[e], m)
        BY <2>1, <3>2 DEF Sent
      <4>2. /\ DOMAIN mail'[e] = 1..(k + 1) /\ mail'[e][k + 1] = m
            /\ \A j \in 1..k : mail'[e][j] = mail[e][j]
        <5>1. mail'[e] \in Seq(Message) /\ Len(mail'[e]) = k + 1
          BY <2>1, <2>2, <4>1, AppendProperties
        <5> QED BY <2>1, <2>2, <4>1, <5>1, AppendProperties, LenProperties
      <4> QED BY <4>2
    <3> QED BY <3>1, <3>2
  <2> QED BY <2>5, <2>6, <2>7
<1> QED BY <1>1, <1>2

LEMMA NoteCalls ==
    ASSUME TypeOK, CallsKnown, CallsGetOwnAnswer, NEW S \in SUBSET Ends, NEW m \in Message, Post(S, m),
           m.sid = 0, m.kind \notin {"call", "ret"}, UNCHANGED <<calls, session_map, returned, handling>>
    PROVE  CallsKnown' /\ CallsGetOwnAnswer'
<1>1. \A e \in Ends : \A i \in DOMAIN mail'[e] :
        LET x == mail'[e][i] IN x.sid # 0 \/ x.kind \in {"call", "ret"} => OfCall(x, calls')
  <2>1. calls' \in [Workers -> Nat] /\ \A w \in Workers : calls[w] <= calls'[w]
    BY DEF TypeOK
  <2> QED BY <2>1, MailKnown
<1>2. CallsKnown'
  BY <1>1 DEF CallsKnown
<1>3. CallsGetOwnAnswer'
  BY DEF CallsGetOwnAnswer
<1> QED BY <1>2, <1>3

LEMMA NotesTyped == Note \in Message /\ Hello \in Message
BY DEF Note, Hello, Message

-----------------------------------------------------------------------------
(* The handshake and what the scripts do *)

LEMMA ConnectKeeps == ASSUME IInv, NEW v \in Workers, Connect(v) PROVE IInv'
<1>1. PICK S \in SUBSET Ends : S = {<<v, "up">>}
  <2>1. {<<v, "up">>} \in SUBSET Ends
    BY DEF Ends
  <2> QED BY <2>1
<1>2. /\ Post(S, Hello) /\ Hello \in Message /\ TypeOK
      /\ UNCHANGED <<master, sockfile, batch, out, net, reader, got, split, calling, children, events>>
      /\ worker' = [worker EXCEPT ![v] = "up"] /\ accepted' = [accepted EXCEPT ![v] = "pending"]
      /\ worker[v] = "connecting" /\ sockfile = "listening" /\ MasterLives
  BY <1>1, NotesTyped DEF Connect, IInv
<1>3. /\ mail' \in [Ends -> Seq(Message)] /\ queue' \in [Ends -> Seq(Nat)]
      /\ writer' \in [Ends -> {"none", "forked", "blocked", "waiting", "woken"}]
  BY <1>2, Posted
<1>4. TypeOK'
  BY <1>2, <1>3 DEF TypeOK, calling, children
<1>5. \A e \in Ends : NoneRises(e)
  BY <1>2, EndTypes DEF NoneRises, Alive, ReaderLives, Lives, MasterLives, TypeOK
<1>6. \A e \in Ends : EndKnown(e)'
  BY <1>2, <1>5, EndsSent DEF IInv
<1>7. StartKnown'
  BY <1>2 DEF IInv, StartKnown, Lives, TypeOK, MasterLives
<1>8. DeathsAreReported'
  BY <1>2 DEF IInv, DeathsAreReported, TypeOK, children, MasterLives
<1>9. CallsKnown' /\ CallsGetOwnAnswer'
  BY <1>2, NoteCalls DEF IInv, Hello, calling
<1> QED BY <1>4, <1>6, <1>7, <1>8, <1>9 DEF IInv

LEMMA AcceptKeeps == ASSUME IInv, NEW v \in Workers, Accept(v) PROVE IInv'
<1>0. TypeOK /\ <<v, "up">> \in Ends
  BY DEF IInv, Ends
<1>1. TypeOK'
  BY <1>0 DEF TypeOK, Accept, calling, children
<1>2. ASSUME NEW e \in Ends PROVE EndKnown(e)'
  <2>1. ChanSame(e) /\ NoneRises(e)
    BY DEF Accept, ChanSame, NoneRises, Alive, ReaderLives, Lives, MasterLives
  <2>2. reader'[e] = reader[e] \/ {reader[e], reader'[e]} \subseteq {"none", "header"}
    BY <1>0 DEF Accept, TypeOK, IInv, StartKnown
  <2> QED BY <2>1, <2>2, EndStays DEF IInv
<1>3. StartKnown'
  BY <1>0 DEF IInv, StartKnown, Accept, Lives, TypeOK
<1>4. DeathsAreReported'
  BY <1>0, DeathsStay DEF IInv, DeathsStill, Accept, children, MasterLives, TypeOK
<1>5. CallsKnown' /\ CallsGetOwnAnswer'
  BY CallingStays DEF IInv, Accept, calling, CallingStill
<1> QED BY <1>1, <1>2, <1>3, <1>4, <1>5 DEF IInv

LEMMA OnWorkerKeeps == ASSUME IInv, NEW v \in Workers, OnWorker(v) PROVE IInv'
<1>0. TypeOK /\ <<v, "down">> \in Ends
  BY DEF IInv, Ends
<1>1. TypeOK'
  BY <1>0 DEF TypeOK, OnWorker, calling, children
<1>2. ASSUME NEW e \in Ends PROVE EndKnown(e)'
  <2>1. ChanSame(e) /\ NoneRises(e)
    BY DEF OnWorker, ChanSame, NoneRises, Alive, ReaderLives, Lives, MasterLives
  <2>2. reader'[e] = reader[e] \/ {reader[e], reader'[e]} \subseteq {"none", "header"}
    BY <1>0 DEF OnWorker, TypeOK
  <2> QED BY <2>1, <2>2, EndStays DEF IInv
<1>3. StartKnown'
  <2>1. \A w \in Workers : reader'[<<w, "up">>] = reader[<<w, "up">>]
    BY <1>0 DEF OnWorker, TypeOK, Ends
  <2>2. master # "forking"
    BY DEF OnWorker, IInv, StartKnown
  <2>3. UNCHANGED <<master, worker, sockfile, accepted>>
    BY DEF OnWorker
  <2> QED BY <2>1, <2>2, <2>3 DEF IInv, StartKnown, Lives
<1>4. DeathsAreReported'
  BY DeathsStay DEF IInv, DeathsStill, OnWorker, children, MasterLives
<1>5. CallsKnown' /\ CallsGetOwnAnswer'
  BY CallingStays DEF IInv, OnWorker, calling, CallingStill
<1> QED BY <1>1, <1>2, <1>3, <1>4, <1>5 DEF IInv

LEMMA OnMasterKeeps == ASSUME IInv, OnMaster PROVE IInv'
<1>1. TypeOK'
  BY DEF IInv, TypeOK, OnMaster, calling, children
<1>2. ASSUME NEW e \in Ends PROVE EndKnown(e)'
  <2>1. ChanSame(e) /\ NoneRises(e)
    BY DEF OnMaster, ChanSame, NoneRises, Alive, ReaderLives, Lives, MasterLives
  <2>2. reader'[e] = reader[e] \/ {reader[e], reader'[e]} \subseteq {"none", "header"}
    BY DEF OnMaster
  <2> QED BY <2>1, <2>2, EndStays DEF IInv
<1>3. StartKnown'
  BY DEF IInv, StartKnown, OnMaster, Lives
<1>4. DeathsAreReported'
  BY DeathsStay DEF IInv, DeathsStill, OnMaster, children, MasterLives
<1>5. CallsKnown' /\ CallsGetOwnAnswer'
  BY CallingStays DEF IInv, OnMaster, calling, CallingStill
<1> QED BY <1>1, <1>2, <1>3, <1>4, <1>5 DEF IInv

LEMMA NotifyKeeps ==
    ASSUME IInv, NEW S \in SUBSET Ends, Notify(S), master # "forking" \/ \E w \in Workers : worker[w] = "up"
    PROVE  IInv'
<1>2. /\ Post(S, Note) /\ Note \in Message /\ TypeOK /\ events' = events + 1
      /\ UNCHANGED <<master, worker, sockfile, accepted, batch, out, net, reader, got, split, calling, children>>
  BY NotesTyped DEF Notify, IInv
<1>3. /\ mail' \in [Ends -> Seq(Message)] /\ queue' \in [Ends -> Seq(Nat)]
      /\ writer' \in [Ends -> {"none", "forked", "blocked", "waiting", "woken"}]
  BY <1>2, Posted
<1>4. TypeOK'
  BY <1>2, <1>3, SMTT(30) DEF TypeOK, calling, children
<1>5. \A e \in Ends : NoneRises(e)
  BY <1>2 DEF NoneRises, Alive, ReaderLives, Lives, MasterLives
<1>6. \A e \in Ends : EndKnown(e)'
  BY <1>2, <1>5, EndsSent DEF IInv
<1>7. StartKnown'
  BY <1>2 DEF IInv, StartKnown, Lives
<1>8. DeathsAreReported'
  BY <1>2, DeathsStay DEF IInv, DeathsStill, children, MasterLives
<1>9. CallsKnown' /\ CallsGetOwnAnswer'
  BY <1>2, NoteCalls DEF IInv, Note, calling
<1> QED BY <1>4, <1>6, <1>7, <1>8, <1>9 DEF IInv

-----------------------------------------------------------------------------
(* Writers, readers that end, and the ends of processes *)

LEMMA WriterRunsKeeps == ASSUME IInv, NEW x \in Ends, WriterRuns(x) PROVE IInv'
<1>0. TypeOK /\ EndKnown(x) /\ (accepted[x[1]] = "refused" => ~Lives(x[1]))
  BY EndTypes DEF IInv, StartKnown
<1>1. EndKnown(x)' /\ DrainedTyped(x)
  BY <1>0, EndDrained
<1>2. UNCHANGED <<master, worker, sockfile, accepted, reader, mail, got, calling, children, events>>
  BY DEF WriterRuns
<1>3. /\ \E y : queue' = [queue EXCEPT ![x] = y]
      /\ \E y : batch' = [batch EXCEPT ![x] = y]
      /\ \E y : out' = [out EXCEPT ![x] = y]
      /\ \E y : net' = [net EXCEPT ![x] = y]
      /\ \E y : writer' = [writer EXCEPT ![x] = y]
      /\ \E y : split' = [split EXCEPT ![x] = y]
  <2>1. Drain(x)
    BY DEF WriterRuns
  <2>2. queue = [queue EXCEPT ![x] = queue[x]] /\ split = [split EXCEPT ![x] = split[x]]
    BY <1>0 DEF TypeOK
  <2> QED BY <2>1, <2>2 DEF Drain, Drain_Blocks
<1>4. TypeOK'
  <2>1. /\ queue' \in [Ends -> Seq(Nat)] /\ batch' \in [Ends -> Seq(Nat)]
        /\ writer' \in [Ends -> {"none", "forked", "blocked", "waiting", "woken"}]
        /\ split' \in [Ends -> BOOLEAN]
    BY <1>0, <1>1, <1>3 DEF TypeOK, DrainedTyped
  <2>2. out' \in [Ends -> 0..(Size - 1)]
    <3>1. 2 = Size - 1
      BY DEF Size
    <3> QED BY <1>0, <1>1, <1>3, <3>1 DEF TypeOK, DrainedTyped
  <2>3. net' \in [Ends -> Seq(Nat \X (1..Size))] /\ \A e \in Ends : Len(net'[e]) <= Cap
    BY <1>0, <1>1, <1>3 DEF TypeOK, DrainedTyped, Cell
  <2> QED BY <1>0, <1>2, <2>1, <2>2, <2>3 DEF TypeOK, calling, children
<1>5. ASSUME NEW e \in Ends PROVE EndKnown(e)'
  <2>1. CASE e # x
    <3>1. ChanSame(e) /\ reader'[e] = reader[e]
      BY <1>0, <1>2, <1>3, <2>1 DEF ChanSame, TypeOK
    <3>2. NoneRises(e)
      BY <1>2 DEF NoneRises, Alive, ReaderLives, Lives, MasterLives
    <3> QED BY <3>1, <3>2, EndStays DEF IInv
  <2> QED BY <1>1, <2>1
<1>6. StartKnown'
  <2>1. master # "forking"
    BY DEF WriterRuns, IInv, StartKnown
  <2> QED BY <1>2, <2>1 DEF IInv, StartKnown, Lives
<1>7. DeathsAreReported'
  BY <1>2, DeathsStay DEF IInv, DeathsStill, children, MasterLives
<1>8. CallsKnown' /\ CallsGetOwnAnswer'
  BY <1>2, CallingStays DEF IInv, calling, CallingStill
<1> QED BY <1>4, <1>5, <1>6, <1>7, <1>8 DEF IInv

LEMMA RecvEndKeeps == ASSUME IInv, NEW x \in Ends, RecvEnd(x) PROVE IInv'
<1>0. TypeOK /\ x[1] \in Workers /\ x[2] \in {"up", "down"} /\ x = <<x[1], x[2]>>
  BY EndTypes DEF IInv, Ends
<1>1. TypeOK'
  BY <1>0 DEF TypeOK, RecvEnd, calling, children
<1>2. /\ UNCHANGED <<master, worker, queue, batch, writer, out, net, mail, got, split, calling, children>>
      /\ reader' = [reader EXCEPT ![x] = "closed"] /\ ~WriterLives(x) /\ net[x] = <<>>
      /\ reader[x] \in {"header", "body"} /\ ReaderLives(x)
  BY DEF RecvEnd
<1>3. ASSUME NEW e \in Ends PROVE EndKnown(e)'
  <2>1. ChanSame(e) /\ NoneRises(e)
    BY <1>2 DEF ChanSame, NoneRises, Alive, ReaderLives, Lives, MasterLives
  <2>2. CASE e # x
    <3>1. reader'[e] = reader[e]
      BY <1>0, <1>2, <2>2 DEF TypeOK
    <3> QED BY <2>1, <3>1, EndStays DEF IInv
  <2>3. CASE e = x
    <3>1. EndKnown(e) /\ ~Alive(e)' /\ reader'[e] = "closed" /\ DOMAIN net'[e] = {}
      <4>1. EndKnown(e)
        BY DEF IInv
      <4>2. ~Alive(e)'
        BY <1>0, <1>2, <2>3 DEF Alive, WriterLives, Lives, MasterLives
      <4>3. reader'[e] = "closed" /\ net'[e] = <<>>
        BY <1>0, <1>2, <2>3 DEF TypeOK
      <4> QED BY <4>1, <4>2, <4>3, EmptySeq
    <3>2. NumbersKnown(e)' /\ PartKnown(e)'
      BY <2>1, <3>1 DEF EndKnown, NumbersKnown, PartKnown, ChanSame
    <3>3. NetFollows(e)' /\ HeldFollows(e)'
      BY <3>1 DEF NetFollows, HeldFollows
    <3>4. WholeUnlessSplit(e)'
      BY <2>1, <3>1 DEF EndKnown, WholeUnlessSplit, ChanSame
    <3> QED BY <3>2, <3>3, <3>4 DEF EndKnown
  <2> QED BY <2>2, <2>3
<1>4. StartKnown'
  <2>1. master # "forking"
    BY <1>2 DEF IInv, StartKnown
  <2>2. /\ \/ UNCHANGED accepted
           \/ accepted[x[1]] = "reading" /\ x[2] = "up" /\ accepted' = [accepted EXCEPT ![x[1]] = "refused"]
    BY DEF RecvEnd
  <2>3. \A w \in Workers : accepted[w] \in {"no", "pending"} => <<w, "up">> # x
    BY <1>2 DEF IInv, StartKnown
  <2>4. \A w \in Workers : <<w, "up">> \in Ends
    BY DEF Ends
  <2>5. \A w \in Workers : accepted'[w] \in {"no", "pending"} => accepted'[w] = accepted[w] /\ reader'[<<w, "up">>] = "none"
    BY <1>0, <1>2, <2>2, <2>3, <2>4 DEF IInv, StartKnown, TypeOK
  <2>6. \A w \in Workers : accepted'[w] = accepted[w]
           \/ (accepted[w] = "reading" /\ accepted'[w] = "refused" /\ ~Lives(w))
    BY <1>0, <1>2, <2>2 DEF TypeOK, WriterLives
  <2> QED BY <1>2, <2>1, <2>5, <2>6 DEF IInv, StartKnown, Lives
<1>5. DeathsAreReported'
  <2>1. \A w \in Workers : accepted'[w] # "no" => accepted[w] # "no"
    BY <1>0 DEF RecvEnd, TypeOK
  <2> QED BY <1>2, <2>1, DeathsStay DEF IInv, DeathsStill, children, MasterLives
<1>6. CallsKnown' /\ CallsGetOwnAnswer'
  BY <1>2, CallingStays DEF IInv, calling, CallingStill
<1> QED BY <1>1, <1>3, <1>4, <1>5, <1>6 DEF IInv

\* What a process had in its memory is forgotten, at the end e of a channel.
Forgotten(e) ==
    /\ mail'[e] = mail[e] /\ got'[e] = got[e] /\ split'[e] = split[e] /\ reader'[e] = reader[e]
    /\ \/ queue'[e] = queue[e] /\ batch'[e] = batch[e] /\ out'[e] = out[e]
       \/ queue'[e] = <<>> /\ batch'[e] = <<>> /\ out'[e] = 0
    /\ \/ net'[e] = net[e] /\ (ReaderLives(e)' => ReaderLives(e))
       \/ net'[e] = <<>>

LEMMA EndForgot == ASSUME NEW e \in Ends, EndKnown(e), Forgotten(e), ~Alive(e)' PROVE EndKnown(e)'
<1>1. DOMAIN <<>> = {} /\ Len(<<>>) = 0 /\ 0 % 3 = 0
  BY EmptySeq
<1>2. Half(e)' = Half(e)
  BY DEF Forgotten, Half
<1>3. NumbersKnown(e)' /\ PartKnown(e)'
  BY <1>1 DEF EndKnown, NumbersKnown, PartKnown, Forgotten
<1>4. NetFollows(e)'
  BY <1>1, <1>2 DEF EndKnown, NetFollows, Forgotten
<1>5. HeldFollows(e)'
  BY DEF HeldFollows
<1>6. WholeUnlessSplit(e)'
  BY <1>1 DEF EndKnown, WholeUnlessSplit, Forgotten
<1> QED BY <1>3, <1>4, <1>5, <1>6 DEF EndKnown

\* The types of what is left.
LEMMA ForgetTyped ==
    ASSUME TypeOK, NEW S, Forget(S)
    PROVE  /\ queue' \in [Ends -> Seq(Nat)] /\ batch' \in [Ends -> Seq(Nat)]
           /\ writer' \in [Ends -> {"none", "forked", "blocked", "waiting", "woken"}]
           /\ out' \in [Ends -> 0..(Size - 1)]
<1>1. <<>> \in Seq(Nat) /\ 0 \in 0..(Size - 1)
  BY EmptySeq DEF Size
<1> QED BY <1>1 DEF TypeOK, Forget

LEMMA WorkerDiesKeeps == ASSUME IInv, NEW v \in Workers, WorkerDies(v) PROVE IInv'
<1>0. TypeOK /\ <<>> \in Seq(Nat \X (1..Size)) /\ Len(<<>>) <= Cap
  BY EmptySeq, CapAssumption DEF IInv
<1>1. TypeOK'
  <2>1. /\ queue' \in [Ends -> Seq(Nat)] /\ batch' \in [Ends -> Seq(Nat)]
        /\ writer' \in [Ends -> {"none", "forked", "blocked", "waiting", "woken"}]
        /\ out' \in [Ends -> 0..(Size - 1)]
    BY <1>0, ForgetTyped DEF WorkerDies
  <2>2. net' \in [Ends -> Seq(Nat \X (1..Size))] /\ \A e \in Ends : Len(net'[e]) <= Cap
    BY <1>0 DEF WorkerDies, TypeOK
  <2>3. sigchld' \in BOOLEAN
    BY DEF WorkerDies
  <2>4. /\ worker' \in [Workers -> {"unborn", "connecting", "up", "dead"}]
        /\ session_map' \in [Workers -> SUBSET (Nat \X Nat)] /\ events' \in Nat
    BY <1>0 DEF WorkerDies, TypeOK
  <2>5. UNCHANGED <<master, sockfile, accepted, mail, reader, got, split, calls, returned, handling, reported>>
    BY DEF WorkerDies, Forget
  <2> QED BY <1>0, <2>1, <2>2, <2>3, <2>4, <2>5 DEF TypeOK
<1>2. ASSUME NEW e \in Ends PROVE EndKnown(e)'
  <2>1. EndKnown(e) /\ e[1] \in Workers
    BY <1>0, EndTypes DEF IInv
  <2>2. CASE e[1] = v
    <3>1. Forgotten(e)
      BY <1>0, <2>2 DEF WorkerDies, Forget, Forgotten, ReaderLives, MasterLives, Lives, TypeOK
    <3>2. ~Alive(e)'
      BY <1>0, <2>2 DEF WorkerDies, Alive, Lives, TypeOK
    <3> QED BY <2>1, <3>1, <3>2, EndForgot
  <2>3. CASE e[1] # v
    <3>1. ChanSame(e) /\ reader'[e] = reader[e]
      BY <1>0, <2>3 DEF WorkerDies, Forget, ChanSame, TypeOK
    <3>2. NoneRises(e)
      BY <1>0, <2>1, <2>3 DEF WorkerDies, NoneRises, Alive, ReaderLives, Lives, MasterLives, TypeOK
    <3> QED BY <2>1, <3>1, <3>2, EndStays
  <2> QED BY <2>2, <2>3
<1>3. StartKnown'
  BY <1>0 DEF WorkerDies, Forget, IInv, StartKnown, Lives, TypeOK
<1>4. DeathsAreReported'
  BY <1>0 DEF WorkerDies, IInv, StartKnown, DeathsAreReported, TypeOK, MasterLives, Lives
<1>5. CallsKnown' /\ CallsGetOwnAnswer'
  <2>1. \A w \in Workers : session_map'[w] \subseteq session_map[w]
    BY <1>0 DEF WorkerDies, TypeOK
  <2> QED BY <2>1, CallingStays DEF WorkerDies, Forget, IInv, CallingStill
<1> QED BY <1>1, <1>2, <1>3, <1>4, <1>5 DEF IInv

LEMMA QuitKeeps == ASSUME IInv, Quit PROVE IInv'
<1>0. TypeOK /\ <<>> \in Seq(Nat \X (1..Size)) /\ Len(<<>>) <= Cap
  BY EmptySeq, CapAssumption DEF IInv
<1>1. TypeOK'
  <2>1. /\ queue' \in [Ends -> Seq(Nat)] /\ batch' \in [Ends -> Seq(Nat)]
        /\ writer' \in [Ends -> {"none", "forked", "blocked", "waiting", "woken"}]
        /\ out' \in [Ends -> 0..(Size - 1)]
    BY <1>0, ForgetTyped DEF Quit
  <2>2. net' \in [Ends -> Seq(Nat \X (1..Size))] /\ \A e \in Ends : Len(net'[e]) <= Cap
    BY <1>0 DEF Quit
  <2> QED BY <1>0, <2>1, <2>2 DEF Quit, TypeOK, Forget, children
<1>2. ASSUME NEW e \in Ends PROVE EndKnown(e)'
  <2>1. Forgotten(e) /\ ~Alive(e)'
    BY DEF Quit, Forget, Forgotten, Alive, MasterLives
  <2> QED BY <2>1, EndForgot DEF IInv
<1>3. StartKnown'
  BY <1>0 DEF Quit, Forget, IInv, StartKnown, Lives, TypeOK
<1>4. DeathsAreReported'
  BY DEF Quit, DeathsAreReported, MasterLives
<1>5. CallsKnown' /\ CallsGetOwnAnswer'
  BY CallingStays DEF Quit, Forget, IInv, CallingStill
<1> QED BY <1>1, <1>2, <1>3, <1>4, <1>5 DEF IInv

LEMMA MasterDiesKeeps == ASSUME IInv, MasterDies PROVE IInv'
<1>0. TypeOK /\ <<>> \in Seq(Nat \X (1..Size)) /\ Len(<<>>) <= Cap
  BY EmptySeq, CapAssumption DEF IInv
<1>1. TypeOK'
  <2>1. /\ queue' \in [Ends -> Seq(Nat)] /\ batch' \in [Ends -> Seq(Nat)]
        /\ writer' \in [Ends -> {"none", "forked", "blocked", "waiting", "woken"}]
        /\ out' \in [Ends -> 0..(Size - 1)]
    BY <1>0, ForgetTyped DEF MasterDies
  <2>2. net' \in [Ends -> Seq(Nat \X (1..Size))] /\ \A e \in Ends : Len(net'[e]) <= Cap
    BY <1>0 DEF MasterDies, TypeOK
  <2> QED BY <1>0, <2>1, <2>2 DEF MasterDies, TypeOK, Forget, children
<1>2. ASSUME NEW e \in Ends PROVE EndKnown(e)'
  <2>1. Forgotten(e)
    BY EndTypes, <1>0 DEF MasterDies, Forget, Forgotten, ReaderLives, Lives
  <2>2. ~Alive(e)'
    BY DEF MasterDies, Alive, MasterLives
  <2> QED BY <2>1, <2>2, EndForgot DEF IInv
<1>3. StartKnown'
  BY <1>0 DEF MasterDies, Forget, IInv, StartKnown, Lives
<1>4. DeathsAreReported'
  BY DEF MasterDies, DeathsAreReported, MasterLives
<1>5. CallsKnown' /\ CallsGetOwnAnswer'
  BY CallingStays DEF MasterDies, Forget, IInv, CallingStill
<1> QED BY <1>1, <1>2, <1>3, <1>4, <1>5 DEF IInv

LEMMA ReapKeeps == ASSUME IInv, Reap PROVE IInv'
<1>1. TypeOK'
  BY DEF IInv, TypeOK, Reap, chan, calling
<1>2. \A e \in Ends : EndKnown(e)'
  BY EndsStay DEF IInv, Reap, NoneRises, Alive, ReaderLives, Lives, MasterLives
<1>3. StartKnown'
  BY DEF IInv, StartKnown, Reap, Lives, chan
<1>4. DeathsAreReported'
  BY DEF DeathsAreReported, Reap
<1>5. CallsKnown' /\ CallsGetOwnAnswer'
  BY CallingStays DEF IInv, Reap, chan, calling, CallingStill
<1> QED BY <1>1, <1>2, <1>3, <1>4, <1>5 DEF IInv

-----------------------------------------------------------------------------
(* Calls and their answers *)

LEMMA SidOf == ASSUME NEW w \in Workers, NEW n \in Nat PROVE Sid(w, n) \in Nat /\ (n > 0 => Sid(w, n) # 0)
<1>1. w \in Nat /\ SidRange \in Nat
  BY WorkersAssumption, SidRangeAssumption
<1>2. w * SidRange \in Nat
  BY <1>1
<1> QED BY <1>2 DEF Sid

\* While no process has used up its ids, a session belongs to one call.
LEMMA SidOfOne ==
    ASSUME NEW w \in Workers, NEW v \in Workers, NEW s \in Nat, NEW k \in Nat, s < SidRange, k < SidRange,
           Sid(w, s) = Sid(v, k)
    PROVE  w = v /\ s = k
<1>1. w \in Nat /\ v \in Nat /\ SidRange \in Nat
  BY WorkersAssumption, SidRangeAssumption
<1>2. (w * SidRange) + s = (v * SidRange) + k
  BY DEF Sid
<1>3. ASSUME NEW x \in Nat, NEW y \in Nat, x < y PROVE (x * SidRange) + SidRange <= y * SidRange
  <2>1. PICK d \in Nat : y = (x + 1) + d
    <3>1. y - (x + 1) \in Nat /\ y = (x + 1) + (y - (x + 1))
      BY <1>3
    <3> QED BY <3>1
  <2>2. y * SidRange = ((x * SidRange) + SidRange) + (d * SidRange)
    BY <1>1, <2>1
  <2>3. d * SidRange \in Nat /\ x * SidRange \in Nat
    BY <1>1
  <2> QED BY <1>1, <2>2, <2>3
<1>4. w * SidRange \in Nat /\ v * SidRange \in Nat
  BY <1>1
<1>5. ~(w < v)
  BY <1>1, <1>2, <1>3, <1>4
<1>6. ~(v < w)
  BY <1>1, <1>2, <1>3, <1>4
<1>7. w = v
  BY <1>1, <1>5, <1>6
<1> QED BY <1>2, <1>4, <1>7

LEMMA CallKeeps == ASSUME IInv, NEW v \in Workers, Call(v) PROVE IInv'
<1>0. TypeOK /\ CallsKnown /\ StartKnown /\ worker[v] = "up" /\ events' = events + 1
  BY DEF IInv, Call
<1>1. PICK c \in Nat : c = calls[v]
  BY <1>0 DEF TypeOK
<1>2. calls' = [calls EXCEPT ![v] = c + 1] /\ calls' \in [Workers -> Nat] /\ calls'[v] = c + 1
  BY <1>0, <1>1 DEF Call, TypeOK
<1>3. PICK m : m = [kind |-> "call", sid |-> Sid(v, c + 1), call |-> <<v, c + 1>>]
  OBVIOUS
<1>4. m \in Message /\ OfCall(m, calls')
  BY <1>1, <1>2, <1>3, SidOf DEF Message, OfCall
<1>5. PICK S \in SUBSET Ends : S = {<<v, "up">>}
  <2>1. {<<v, "up">>} \in SUBSET Ends
    BY DEF Ends
  <2> QED BY <2>1
<1>6. /\ Post(S, m)
      /\ session_map' = [session_map EXCEPT ![v] = @ \union {<<Sid(v, c + 1), c + 1>>}]
      /\ UNCHANGED <<master, worker, sockfile, accepted, batch, out, net, reader, got, split,
                     returned, handling, children>>
  BY <1>2, <1>3, <1>5 DEF Call
<1>7. \A w \in Workers : calls[w] <= calls'[w] /\ calls[w] \in Nat /\ calls'[w] \in Nat
  BY <1>0, <1>1, <1>2 DEF TypeOK
<1>8. TypeOK'
  <2>1. /\ mail' \in [Ends -> Seq(Message)] /\ queue' \in [Ends -> Seq(Nat)]
        /\ writer' \in [Ends -> {"none", "forked", "blocked", "waiting", "woken"}]
    BY <1>0, <1>4, <1>6, Posted
  <2>2. session_map' \in [Workers -> SUBSET (Nat \X Nat)]
    <3>1. <<Sid(v, c + 1), c + 1>> \in Nat \X Nat
      BY SidOf
    <3> QED BY <1>0, <1>6, <3>1 DEF TypeOK
  <2> QED BY <1>0, <1>2, <1>6, <2>1, <2>2 DEF TypeOK, children
<1>9. \A e \in Ends : EndKnown(e)'
  <2>1. \A e \in Ends : NoneRises(e)
    BY <1>6 DEF NoneRises, Alive, ReaderLives, Lives, MasterLives
  <2> QED BY <1>0, <1>4, <1>6, <2>1, EndsSent DEF IInv
<1>10. StartKnown'
  BY <1>0, <1>6 DEF StartKnown, Lives
<1>11. DeathsAreReported'
  BY <1>6, DeathsStay DEF IInv, DeathsStill, children, MasterLives
<1>12. /\ \A x : OfCall(x, calls) => OfCall(x, calls')
       /\ \A e \in Ends : \A i \in DOMAIN mail'[e] :
            LET x == mail'[e][i] IN x.sid # 0 \/ x.kind \in {"call", "ret"} => OfCall(x, calls')
  BY <1>0, <1>2, <1>4, <1>6, <1>7, MailKnown
<1>13. CallsKnown'
  <2>1. \A x \in handling' : OfCall(x, calls')
    BY <1>0, <1>6, <1>12 DEF CallsKnown
  <2>2. ASSUME NEW w \in Workers, NEW s \in session_map'[w] PROVE s[2] \in 1..calls'[w] /\ s[1] = Sid(w, s[2])
    <3>1. CASE s \in session_map[w]
      BY <1>0, <1>7, <3>1 DEF CallsKnown
    <3>2. CASE s \notin session_map[w]
      <4>1. w = v /\ s = <<Sid(v, c + 1), c + 1>>
        BY <1>0, <1>6, <3>2 DEF TypeOK
      <4> QED BY <1>2, <4>1
    <3> QED BY <3>1, <3>2
  <2>3. ASSUME NEW w \in Workers, NEW r \in returned'[w] PROVE r[1] \in 1..calls'[w]
    BY <1>0, <1>6, <1>7 DEF CallsKnown
  <2> QED BY <1>12, <2>1, <2>2, <2>3 DEF CallsKnown
<1>14. CallsGetOwnAnswer'
  <2> SUFFICES ASSUME \A w \in Workers : calls'[w] < SidRange, NEW w \in Workers
               PROVE  /\ \A r \in returned'[w] : r[2] = <<w, r[1]>>
                      /\ \A s \in session_map'[w] : \A r \in returned'[w] : s[2] # r[1]
    BY DEF CallsGetOwnAnswer
  <2>1. \A u \in Workers : calls[u] < SidRange
    BY <1>7, SidRangeAssumption
  <2>2. /\ \A r \in returned[w] : r[2] = <<w, r[1]>>
        /\ \A s \in session_map[w] : \A r \in returned[w] : s[2] # r[1]
    BY <2>1 DEF IInv, CallsGetOwnAnswer
  <2>3. ASSUME NEW s \in session_map'[w], NEW r \in returned[w] PROVE s[2] # r[1]
    <3>1. CASE s \in session_map[w]
      BY <2>2, <3>1
    <3>2. CASE s \notin session_map[w]
      <4>1. w = v /\ s = <<Sid(v, c + 1), c + 1>>
        BY <1>0, <1>6, <3>2 DEF TypeOK
      <4>2. r[1] \in 1..c
        BY <1>0, <1>1, <4>1 DEF CallsKnown
      <4> QED BY <4>1, <4>2
    <3> QED BY <3>1, <3>2
  <2> QED BY <1>6, <2>2, <2>3
<1> QED BY <1>8, <1>9, <1>10, <1>11, <1>13, <1>14 DEF IInv

LEMMA RetKeeps == ASSUME IInv, NEW m \in handling, Ret(m) PROVE IInv'
<1>0. TypeOK /\ CallsKnown /\ StartKnown /\ m \in Message /\ OfCall(m, calls)
  BY DEF IInv, TypeOK, CallsKnown
<1>1. /\ UNCHANGED <<master, worker, sockfile, accepted, batch, out, net, reader, got, split,
                     calls, session_map, returned, children, events>>
      /\ handling' = handling \ {m}
  BY DEF Ret
<1>2. \A e \in Ends : NoneRises(e)
  BY <1>1 DEF NoneRises, Alive, ReaderLives, Lives, MasterLives
<1>3. DeathsAreReported'
  BY <1>1, DeathsStay DEF IInv, DeathsStill, children, MasterLives
<1>4. CASE /\ get_pid(m.sid) \in Known
           /\ Post({<<get_pid(m.sid), "down">>}, [m EXCEPT !.kind = "ret"])
  <2>1. PICK S \in SUBSET Ends : S = {<<get_pid(m.sid), "down">>}
    <3>1. {<<get_pid(m.sid), "down">>} \in SUBSET Ends
      BY <1>4 DEF Ends, Known
    <3> QED BY <3>1
  <2>2. PICK x : x = [m EXCEPT !.kind = "ret"]
    OBVIOUS
  <2>3. x \in Message /\ OfCall(x, calls') /\ Post(S, x)
    BY <1>0, <1>1, <1>4, <2>1, <2>2 DEF Message, OfCall
  <2>4. /\ mail' \in [Ends -> Seq(Message)] /\ queue' \in [Ends -> Seq(Nat)]
        /\ writer' \in [Ends -> {"none", "forked", "blocked", "waiting", "woken"}]
    BY <1>0, <2>3, Posted
  <2>5. TypeOK'
    BY <1>0, <1>1, <2>4 DEF TypeOK, children
  <2>6. \A e \in Ends : EndKnown(e)'
    BY <1>0, <1>1, <1>2, <2>3, EndsSent DEF IInv
  <2>7. StartKnown'
    BY <1>0, <1>1, <1>4 DEF StartKnown, Lives, Known
  <2>8. \A e \in Ends : \A i \in DOMAIN mail'[e] :
          LET y == mail'[e][i] IN y.sid # 0 \/ y.kind \in {"call", "ret"} => OfCall(y, calls')
    <3>1. calls' \in [Workers -> Nat] /\ \A w \in Workers : calls[w] <= calls'[w]
      BY <1>0, <1>1 DEF TypeOK
    <3> QED BY <1>0, <2>3, <3>1, MailKnown
  <2>9. CallsKnown' /\ CallsGetOwnAnswer'
    BY <1>0, <1>1, <2>8 DEF IInv, CallsKnown, CallsGetOwnAnswer
  <2> QED BY <1>3, <2>5, <2>6, <2>7, <2>9 DEF IInv
<1>5. CASE UNCHANGED <<mail, queue, writer>>
  <2>1. TypeOK'
    BY <1>0, <1>1, <1>5 DEF TypeOK, children
  <2>2. \A e \in Ends : EndKnown(e)'
    BY <1>1, <1>2, <1>5, EndsStay DEF IInv, chan
  <2>3. StartKnown'
    BY <1>0, <1>1, <1>5 DEF StartKnown, Lives
  <2>4. CallsKnown' /\ CallsGetOwnAnswer'
    BY <1>1, <1>5, CallingStays DEF IInv, CallingStill
  <2> QED BY <1>3, <2>1, <2>2, <2>3, <2>4 DEF IInv
<1> QED BY <1>4, <1>5 DEF Ret

\* What is dispatched at the end x was sent there.
LEMMA MessageRead ==
    ASSUME IInv, NEW x \in Ends, Recv(x), Dispatched(x)
    PROVE  LET m == mail[x][Head(net[x])[1]] IN
               m \in Message /\ (m.sid # 0 \/ m.kind \in {"call", "ret"} => OfCall(m, calls))
<1>1. EndTyped(x) /\ EndKnown(x) /\ TypeOK /\ CallsKnown
  BY EndTypes DEF IInv
<1>2. Head(net[x])[1] = got[x] + 1 /\ got[x] + 1 \in 1..Len(mail[x])
  BY <1>1, RecvKinds, NextInLine
<1>3. mail[x] \in Seq(Message)
  BY <1>1 DEF EndTyped
<1>4. Head(net[x])[1] \in 1..Len(mail[x]) /\ DOMAIN mail[x] = 1..Len(mail[x])
  BY <1>2, <1>3, LenProperties
<1>5. mail[x][Head(net[x])[1]] \in Message
  BY <1>3, <1>4, ElementOfSeq
<1> QED BY <1>1, <1>4, <1>5 DEF CallsKnown

\* What a read does to the handshake and to the calls.
GreetedAt(x) == x[2] = "up" /\ accepted[x[1]] = "reading" /\ Greeted(x[1])
CalledAt(x) == x[2] = "up" /\ accepted[x[1]] # "reading" /\ AtMaster(x[1], mail[x][Head(net[x])[1]])
AnsweredAt(x) == x[2] = "down" /\ AtWorker(x[1], mail[x][Head(net[x])[1]])
QuietAt(x) == /\ UNCHANGED <<master, sockfile, accepted, calling>>
              /\ \E y \in {"body", "broken"} : reader' = [reader EXCEPT ![x] = y]

LEMMA RecvControl ==
    ASSUME TypeOK, NEW x \in Ends, Recv(x)
    PROVE  (Dispatched(x) /\ (GreetedAt(x) \/ CalledAt(x) \/ AnsweredAt(x))) \/ QuietAt(x)
<1>1. EndTyped(x)
  BY EndTypes
<1>2. PICK a \in Nat, c \in 0..1 : a = Len(net[x]) /\ c = Half(x)
  <2>1. Half(x) \in 0..1 /\ Len(net[x]) \in Nat
    BY <1>1 DEF Half, EndTyped
  <2> QED BY <2>1
<1>3. PICK have : have = Len(net[x]) + (IF reader[x] = "body" THEN 1 ELSE 0)
  OBVIOUS
<1>4. have = a + c
  BY <1>2, <1>3 DEF Half
<1>5. \/ have >= 3 /\ (GreetedAt(x) \/ CalledAt(x) \/ AnsweredAt(x))
      \/ QuietAt(x)
  BY <1>3 DEF Recv, RecvPart, Size, GreetedAt, CalledAt, AnsweredAt, QuietAt
<1>6. Dispatched(x) \/ a + c = 1 \/ a + c = 2
  BY <1>2, RecvKinds DEF HeaderRead, PartRead
<1> QED BY <1>4, <1>5, <1>6

LEMMA RecvKeeps == ASSUME IInv, NEW x \in Ends, Recv(x) PROVE IInv'
<1>0. TypeOK /\ EndKnown(x) /\ x[1] \in Workers /\ x[2] \in {"up", "down"} /\ x = <<x[1], x[2]>>
      /\ CallsKnown /\ StartKnown
  BY EndTypes DEF IInv, Ends
<1>1. EndKnown(x)' /\ ReadTyped(x)
  BY <1>0, EndReceived
<1>2. /\ UNCHANGED <<worker, queue, batch, writer, out, mail, split, children, events>>
      /\ (MasterLives' <=> MasterLives) /\ ReaderLives(x) /\ reader[x] \in {"header", "body"}
  BY <1>0, RecvKinds
<1>3. /\ \E y : net' = [net EXCEPT ![x] = y]
      /\ got' = got \/ \E y : got' = [got EXCEPT ![x] = y]
      /\ \E y : reader' = [reader EXCEPT ![x] = y]
  <2>1. Dispatched(x) \/ HeaderRead(x) \/ PartRead(x)
    BY <1>0, RecvKinds
  <2>2. CASE Dispatched(x)
    BY <2>2, Zenon DEF Dispatched
  <2>3. CASE HeaderRead(x)
    BY <2>3, Zenon DEF HeaderRead
  <2>4. CASE PartRead(x)
    BY <2>4, Zenon DEF PartRead
  <2> QED BY <2>1, <2>2, <2>3, <2>4
<1>k. (Dispatched(x) /\ (GreetedAt(x) \/ CalledAt(x) \/ AnsweredAt(x))) \/ QuietAt(x)
  BY <1>0, RecvControl
<1>m. PICK m : m = mail[x][Head(net[x])[1]]
  OBVIOUS
<1>4. Dispatched(x) => m \in Message /\ (m.sid # 0 \/ m.kind \in {"call", "ret"} => OfCall(m, calls))
  BY <1>m, MessageRead
<1>5. ASSUME NEW e \in Ends PROVE EndKnown(e)'
  <2>1. CASE e # x
    <3>1. ChanSame(e) /\ reader'[e] = reader[e]
      BY <1>0, <1>2, <1>3, <2>1 DEF ChanSame, TypeOK
    <3>2. NoneRises(e)
      BY <1>2 DEF NoneRises, Alive, ReaderLives, Lives
    <3> QED BY <3>1, <3>2, EndStays DEF IInv
  <2> QED BY <1>1, <2>1
<1>6. /\ net' \in [Ends -> Seq(Nat \X (1..Size))] /\ \A e \in Ends : Len(net'[e]) <= Cap
      /\ got' \in [Ends -> Nat] /\ reader' \in [Ends -> {"none", "header", "body", "broken", "closed"}]
  <2>1. /\ net \in [Ends -> Seq(Cell)] /\ (\A e \in Ends : Len(net[e]) <= Cap) /\ got \in [Ends -> Nat]
        /\ reader \in [Ends -> {"none", "header", "body", "broken", "closed"}]
    BY <1>0 DEF TypeOK, Cell
  <2>2. PICK y : net' = [net EXCEPT ![x] = y]
    BY <1>3
  <2>3. net'[x] = y /\ y \in Seq(Cell) /\ Len(y) <= Cap
    BY <1>1, <2>1, <2>2 DEF ReadTyped
  <2>4. net' \in [Ends -> Seq(Cell)] /\ \A e \in Ends : Len(net'[e]) <= Cap
    BY <2>1, <2>2, <2>3
  <2>5. got' \in [Ends -> Nat]
    BY <1>1, <1>3, <2>1 DEF ReadTyped
  <2>6. reader' \in [Ends -> {"none", "header", "body", "broken", "closed"}]
    BY <1>1, <1>3, <2>1 DEF ReadTyped
  <2> QED BY <2>4, <2>5, <2>6 DEF Cell
<1>7. master # "forking"
  BY <1>0, <1>2 DEF StartKnown
<1>w. \A w \in Workers : accepted[w] \in {"no", "pending"} => x # <<w, "up">>
  BY <1>0, <1>2 DEF StartKnown
<1>u. \A w \in Workers : <<w, "up">> \in Ends
  BY DEF Ends
<1>8. CASE GreetedAt(x) /\ Dispatched(x)
  <2>1. /\ accepted' = [accepted EXCEPT ![x[1]] = "known"] /\ UNCHANGED calling
        /\ accepted[x[1]] = "reading" /\ x = <<x[1], "up">>
        /\ reader' = [reader EXCEPT ![x] = "none"]
        /\ \/ Known \union {x[1]} = Workers /\ master' = "ready" /\ sockfile' = "removed"
           \/ Known \union {x[1]} # Workers /\ UNCHANGED <<master, sockfile>>
    BY <1>0, <1>8 DEF GreetedAt, Greeted
  <2>2. TypeOK'
    BY <1>0, <1>2, <1>6, <2>1 DEF TypeOK, calling, children
  <2>3. StartKnown'
    <3>1. MasterLives /\ master' # "forking"
      BY <1>0, <1>2, <1>7, <2>1 DEF ReaderLives
    <3>2. \A w \in Workers : accepted'[w] = accepted[w] \/ (w = x[1] /\ accepted'[w] = "known")
      BY <1>0, <2>1 DEF TypeOK
    <3>3. \A w \in Workers : accepted'[w] \in {"no", "pending"} => accepted[w] = accepted'[w] /\ reader'[<<w, "up">>] = "none"
      BY <1>0, <1>u, <1>w, <2>1, <3>2 DEF StartKnown, TypeOK
    <3>4. \A w \in Workers : worker[w] \in {"unborn", "connecting"} => accepted'[w] = "no"
      BY <1>0, <2>1, <3>2 DEF StartKnown
    <3>5. \A w \in Workers : worker[w] = "unborn" => master' \in {"forking", "dead"}
      BY <1>0, <1>7, <3>1 DEF StartKnown, MasterLives
    <3>6. master' = "ready" => \A w \in Workers : accepted'[w] = "known"
      BY <1>0, <2>1, <3>2 DEF StartKnown, Known, TypeOK
    <3> QED BY <1>0, <1>2, <3>1, <3>2, <3>3, <3>4, <3>5, <3>6 DEF StartKnown, Lives
  <2>4. DeathsAreReported'
    <3>1. \A w \in Workers : accepted'[w] # "no" => accepted[w] # "no"
      BY <1>0, <2>1 DEF TypeOK
    <3> QED BY <1>2, <3>1, DeathsStay DEF IInv, DeathsStill, children
  <2>5. CallsKnown' /\ CallsGetOwnAnswer'
    BY <1>2, <2>1, CallingStays DEF IInv, calling, CallingStill
  <2> QED BY <1>5, <2>2, <2>3, <2>4, <2>5 DEF IInv
<1>9. ASSUME UNCHANGED <<master, sockfile, accepted>>
      PROVE  StartKnown' /\ DeathsAreReported'
  <2>1. \A w \in Workers : accepted[w] \in {"no", "pending"} => reader'[<<w, "up">>] = "none"
    BY <1>0, <1>3, <1>u, <1>w DEF StartKnown, TypeOK
  <2>2. StartKnown'
    BY <1>0, <1>2, <1>7, <1>9, <2>1 DEF StartKnown, Lives
  <2>3. DeathsAreReported'
    BY <1>2, <1>9, DeathsStay DEF IInv, DeathsStill, children
  <2> QED BY <2>2, <2>3
<1>10. CASE CalledAt(x) /\ Dispatched(x)
  <2>1. /\ handling' = (IF m.kind = "call" THEN handling \union {m} ELSE handling)
        /\ UNCHANGED <<master, sockfile, accepted, calls, session_map, returned>>
    BY <1>m, <1>10 DEF CalledAt, AtMaster
  <2>2. handling' \subseteq Message /\ \A y \in handling' : OfCall(y, calls)
    BY <1>0, <1>4, <1>10, <2>1 DEF TypeOK, CallsKnown
  <2>3. TypeOK'
    BY <1>0, <1>2, <1>6, <2>1, <2>2 DEF TypeOK, children
  <2>4. CallsKnown' /\ CallsGetOwnAnswer'
    BY <1>0, <1>2, <2>1, <2>2 DEF IInv, CallsKnown, CallsGetOwnAnswer
  <2> QED BY <1>5, <1>9, <2>1, <2>3, <2>4 DEF IInv
<1>11. CASE AnsweredAt(x) /\ Dispatched(x)
  <2>1. PICK w \in Workers : w = x[1]
    BY <1>0
  <2>2. PICK woken : woken = {s \in session_map[w] : s[1] = m.sid}
    OBVIOUS
  <2>3. /\ session_map' = [session_map EXCEPT ![w] = @ \ woken]
        /\ returned' = [returned EXCEPT ![w] = @ \union {<<s[2], m.call>> : s \in woken}]
        /\ UNCHANGED <<master, sockfile, accepted, calls, handling>>
    BY <1>m, <1>11, <2>1, <2>2 DEF AnsweredAt, AtWorker
  <2>4. \A s \in session_map[w] : s \in Nat \X Nat /\ s[2] \in 1..calls[w] /\ s[1] = Sid(w, s[2])
    BY <1>0 DEF TypeOK, CallsKnown
  <2>5. ASSUME NEW s \in woken PROVE OfCall(m, calls) /\ s \in session_map[w] /\ Sid(w, s[2]) = m.sid
    <3>1. s \in session_map[w] /\ s[1] = m.sid
      BY <2>2
    <3>2. s[2] \in Nat /\ s[2] > 0 /\ s[1] = Sid(w, s[2])
      BY <2>4, <3>1
    <3>3. m.sid # 0
      BY <3>1, <3>2, SidOf
    <3> QED BY <1>4, <1>11, <3>1, <3>2, <3>3
  <2>6. \A v \in Workers : /\ session_map'[v] = IF v = w THEN session_map[v] \ woken ELSE session_map[v]
                           /\ returned'[v] = IF v = w THEN returned[v] \union {<<s[2], m.call>> : s \in woken} ELSE returned[v]
    BY <1>0, <2>3 DEF TypeOK
  <2>7. TypeOK'
    <3>1. session_map' \in [Workers -> SUBSET (Nat \X Nat)]
      BY <1>0, <2>3 DEF TypeOK
    <3>2. {<<s[2], m.call>> : s \in woken} \subseteq Nat \X (Workers \X Nat)
      <4>1. \A s \in woken : s[2] \in Nat /\ m.call \in Workers \X Nat
        BY <2>4, <2>5 DEF OfCall
      <4> QED BY <4>1
    <3>3. returned' \in [Workers -> SUBSET (Nat \X (Workers \X Nat))]
      BY <1>0, <2>3, <3>2 DEF TypeOK
    <3> QED BY <1>0, <1>2, <1>6, <2>3, <3>1, <3>3 DEF TypeOK, children
  <2>8. CallsKnown'
    <3>1. \A v \in Workers : \A s \in session_map'[v] : s[2] \in 1..calls[v] /\ s[1] = Sid(v, s[2])
      BY <1>0, <2>6 DEF CallsKnown
    <3>2. \A v \in Workers : \A r \in returned'[v] : r[1] \in 1..calls[v]
      <4> SUFFICES ASSUME NEW v \in Workers, NEW r \in returned'[v] PROVE r[1] \in 1..calls[v]
        OBVIOUS
      <4>1. CASE r \in returned[v]
        BY <1>0, <4>1 DEF CallsKnown
      <4>2. CASE r \notin returned[v]
        <5>1. PICK s \in woken : v = w /\ r = <<s[2], m.call>>
          <6>1. v = w
            BY <2>6, <4>2
          <6>2. returned'[w] = returned[w] \union {<<s[2], m.call>> : s \in woken}
            BY <2>6
          <6> QED BY <4>2, <6>1, <6>2, Zenon
        <5> QED BY <2>4, <2>5, <5>1
      <4> QED BY <4>1, <4>2
    <3> QED BY <1>0, <1>2, <2>3, <3>1, <3>2 DEF CallsKnown
  <2>9. CallsGetOwnAnswer'
    <3> SUFFICES ASSUME \A u \in Workers : calls[u] < SidRange, NEW v \in Workers
                 PROVE  /\ \A r \in returned'[v] : r[2] = <<v, r[1]>>
                        /\ \A s \in session_map'[v] : \A r \in returned'[v] : s[2] # r[1]
      BY <2>3 DEF CallsGetOwnAnswer
    <3>1. /\ \A r \in returned[v] : r[2] = <<v, r[1]>>
          /\ \A s \in session_map[v] : \A r \in returned[v] : s[2] # r[1]
      BY DEF IInv, CallsGetOwnAnswer
    <3>2. CASE v # w
      BY <2>6, <3>1, <3>2
    <3>3. CASE v = w
      <4>1. ASSUME NEW s \in woken PROVE m.call = <<w, s[2]>>
        <5>1. OfCall(m, calls) /\ Sid(w, s[2]) = m.sid /\ s \in session_map[w]
          BY <2>5
        <5>2. PICK u \in Workers, k \in Nat : m.call = <<u, k>>
          BY <5>1 DEF OfCall
        <5>3. k \in 1..calls[u] /\ Sid(u, k) = Sid(w, s[2])
          BY <5>1, <5>2 DEF OfCall
        <5>4. s[2] \in 1..calls[w] /\ calls[w] \in Nat /\ calls[u] \in Nat
          BY <1>0, <2>4, <5>1 DEF TypeOK
        <5>5. PICK j \in Nat : j = s[2]
          BY <5>4
        <5>6. k < SidRange /\ j < SidRange
          BY <5>3, <5>4, <5>5, SidRangeAssumption
        <5>7. u = w /\ k = j
          BY <5>3, <5>5, <5>6, SidOfOne
        <5> QED BY <5>2, <5>5, <5>7
      <4>2. ASSUME NEW r \in returned'[w] PROVE r \in returned[w] \/ \E s \in woken : r = <<s[2], <<w, s[2]>>>>
        <5>1. returned'[w] = returned[w] \union {<<s[2], m.call>> : s \in woken}
          BY <2>6
        <5>2. CASE r \notin returned[w]
          <6>1. PICK s \in woken : r = <<s[2], m.call>>
            BY <5>1, <5>2, Zenon
          <6> QED BY <4>1, <6>1
        <5> QED BY <5>2
      <4>3. ASSUME NEW t \in session_map'[w], NEW s \in woken PROVE t[2] # s[2]
        <5>1. t \in session_map[w] /\ t \notin woken
          BY <2>6
        <5>2. t[1] = Sid(w, t[2]) /\ t[1] # m.sid
          BY <2>2, <2>4, <5>1
        <5> QED BY <2>5, <5>2
      <4>4. \A r \in returned'[w] : r[2] = <<w, r[1]>>
        BY <3>1, <3>3, <4>2
      <4>5. \A t \in session_map'[w] : \A r \in returned'[w] : t[2] # r[1]
        <5> SUFFICES ASSUME NEW t \in session_map'[w], NEW r \in returned'[w] PROVE t[2] # r[1]
          OBVIOUS
        <5>1. t \in session_map[w]
          BY <2>6
        <5>2. CASE r \in returned[w]
          BY <3>1, <3>3, <5>1, <5>2
        <5>3. CASE r \notin returned[w]
          <6>1. PICK s \in woken : r = <<s[2], <<w, s[2]>>>>
            BY <4>2, <5>3
          <6> QED BY <4>3, <6>1
        <5> QED BY <5>2, <5>3
      <4> QED BY <3>3, <4>4, <4>5
    <3> QED BY <3>2, <3>3
  <2> QED BY <1>5, <1>9, <2>3, <2>7, <2>8, <2>9 DEF IInv
<1>12. CASE QuietAt(x)
  <2>1. UNCHANGED <<master, sockfile, accepted, calling>>
    BY <1>12 DEF QuietAt
  <2>2. TypeOK'
    BY <1>0, <1>2, <1>6, <2>1 DEF TypeOK, calling, children
  <2>3. CallsKnown' /\ CallsGetOwnAnswer'
    BY <1>2, <2>1, CallingStays DEF IInv, calling, CallingStill
  <2> QED BY <1>5, <1>9, <2>1, <2>2, <2>3 DEF IInv
<1> QED BY <1>8, <1>10, <1>11, <1>12, <1>k

-----------------------------------------------------------------------------
(* The invariant and what it shows *)

LEMMA StutterKeeps == ASSUME IInv, UNCHANGED vars PROVE IInv'
<1>1. UNCHANGED <<master, worker, sockfile, accepted, chan, calling, children, events>>
  BY DEF vars
<1>2. TypeOK'
  BY <1>1 DEF IInv, TypeOK, chan, calling, children
<1>3. \A e \in Ends : EndKnown(e)'
  BY <1>1, EndsStay DEF IInv, NoneRises, Alive, ReaderLives, Lives, MasterLives
<1>4. StartKnown'
  BY <1>1 DEF IInv, StartKnown, Lives, chan
<1>5. DeathsAreReported'
  BY <1>1, DeathsStay DEF IInv, DeathsStill, children, MasterLives
<1>6. CallsKnown' /\ CallsGetOwnAnswer'
  BY <1>1, CallingStays DEF IInv, chan, calling, CallingStill
<1> QED BY <1>2, <1>3, <1>4, <1>5, <1>6 DEF IInv

\* A note is sent only by who has started.
LEMMA NotesKeep ==
    ASSUME IInv, Broadcast \/ \E w \in Workers : WorkerNotes(w) \/ MasterNotes(w)
    PROVE  IInv'
<1>1. ASSUME NEW w \in Workers, WorkerNotes(w) PROVE IInv'
  <2>1. {<<w, "up">>} \in SUBSET Ends
    BY DEF Ends
  <2> QED BY <1>1, <2>1, NotifyKeeps DEF WorkerNotes
<1>2. ASSUME NEW w \in Workers, MasterNotes(w) PROVE IInv'
  <2>1. {<<w, "down">>} \in SUBSET Ends
    BY DEF Ends
  <2> QED BY <1>2, <2>1, NotifyKeeps DEF MasterNotes
<1>3. ASSUME Broadcast PROVE IInv'
  <2>1. {<<w, "down">> : w \in Workers} \in SUBSET Ends
    BY DEF Ends
  <2> QED BY <1>3, <2>1, NotifyKeeps DEF Broadcast
<1> QED BY <1>1, <1>2, <1>3

LEMMA NextKeeps == ASSUME IInv, [Next]_vars PROVE IInv'
<1>1. ASSUME NEW w \in Workers, Fork(w) \/ Connect(w) \/ Accept(w) PROVE IInv'
  BY <1>1, ForkKeeps, ConnectKeeps, AcceptKeeps
<1>2. ASSUME NEW e \in Ends, WriterRuns(e) \/ Recv(e) \/ RecvEnd(e) PROVE IInv'
  BY <1>2, WriterRunsKeeps, RecvKeeps, RecvEndKeeps
<1>3. ASSUME NEW m \in handling, Ret(m) PROVE IInv'
  BY <1>3, RetKeeps
<1>4. ASSUME Listen \/ Reap \/ OnMaster \/ Broadcast \/ MasterDies \/ Quit PROVE IInv'
  BY <1>4, ListenKeeps, ReapKeeps, OnMasterKeeps, NotesKeep, MasterDiesKeeps, QuitKeeps
<1>5. ASSUME NEW w \in Workers, OnWorker(w) \/ Call(w) \/ WorkerNotes(w) \/ MasterNotes(w) \/ WorkerDies(w)
      PROVE  IInv'
  BY <1>5, OnWorkerKeeps, CallKeeps, NotesKeep, WorkerDiesKeeps
<1>6. ASSUME UNCHANGED vars PROVE IInv'
  BY <1>6, StutterKeeps
<1> QED BY <1>1, <1>2, <1>3, <1>4, <1>5, <1>6 DEF Next, Running

LEMMA Invariance == Spec => []IInv
BY InitHolds, NextKeeps, PTL DEF Spec

\* The cells that are left of the messages g + 1 .. g + k, when c of them have been read.
Left(g, k, c) == IF c = 1 THEN Tail(CellsOf([i \in 1..k |-> g + i])) ELSE CellsOf([i \in 1..k |-> g + i])

\* X is n cells from the one numbered x on.
IsRun(X, n, x) == X \in Seq(Cell) /\ Len(X) = n /\ \A i \in 1..n : X[i] = CellNo(x + (i - 1))

LEMMA CellsLeft ==
    ASSUME NEW g \in Nat, NEW k \in Nat, NEW c \in 0..1, c <= 3 * k
    PROVE  IsRun(Left(g, k, c), (3 * k) - c, (3 * g) + c)
<1>x. PICK X : X = Left(g, k, c)
  OBVIOUS
<1>1. PICK R : R = [i \in 1..k |-> g + i]
  OBVIOUS
<1>2. R \in Seq(Nat) /\ Len(R) = k /\ \A i \in 1..k : R[i] = g + i
  <2>1. R \in [1..k -> Nat]
    BY <1>1
  <2> QED BY <1>1, <2>1, FunctionIsSeq
<1>3. PICK C : C = CellsOf(R)
  OBVIOUS
<1>4. C \in Seq(Cell) /\ Len(C) = 3 * k
  BY <1>2, <1>3, CellsTyped
<1>5. ASSUME NEW i \in 1..(3 * k) PROVE C[i] = CellNo((3 * g) + (i - 1))
  <2>1. PICK j \in Nat : j = i - 1
    BY <1>5
  <2>2. i \in 1..(3 * Len(R))
    BY <1>2
  <2>3. (j \div 3) + 1 \in 1..k /\ C[i] = <<R[(j \div 3) + 1], (j % 3) + 1>>
    BY <1>2, <1>3, <2>1, <2>2, CellAt
  <2>4. ((3 * g) + j) \div 3 = g + (j \div 3) /\ ((3 * g) + j) % 3 = j % 3 /\ j \div 3 \in Nat
    BY DivShift, DivMod
  <2>5. R[(j \div 3) + 1] = (g + (j \div 3)) + 1
    <3>1. PICK d \in Nat : d = j \div 3
      BY <2>4
    <3>2. d + 1 \in 1..k
      BY <2>3, <3>1
    <3>3. R[d + 1] = g + (d + 1)
      BY <1>2, <3>2
    <3>4. g + (d + 1) = (g + d) + 1
      BY <3>1
    <3> QED BY <3>1, <3>3, <3>4
  <2> QED BY <2>1, <2>3, <2>4, <2>5 DEF CellNo
<1>6. CASE c = 0
  <2>1. X = C /\ (3 * k) - c = 3 * k /\ (3 * g) + c = 3 * g
    BY <1>1, <1>3, <1>6, <1>x DEF Left
  <2> QED BY <1>4, <1>5, <1>x, <2>1 DEF IsRun
<1>7. CASE c = 1
  <2>1. X = Tail(C) /\ C # <<>>
    BY <1>1, <1>3, <1>4, <1>7, <1>x, EmptySeq DEF Left
  <2>2. X \in Seq(Cell) /\ Len(X) = (3 * k) - 1 /\ \A i \in 1..((3 * k) - 1) : X[i] = C[i + 1]
    BY <1>4, <2>1, HeadTailProperties
  <2>3. ASSUME NEW i \in 1..((3 * k) - 1) PROVE X[i] = CellNo(((3 * g) + 1) + (i - 1))
    <3>1. i + 1 \in 1..(3 * k) /\ (i + 1) - 1 = i /\ (3 * g) + i = ((3 * g) + 1) + (i - 1)
      OBVIOUS
    <3> QED BY <1>5, <2>2, <3>1
  <2> QED BY <1>7, <1>x, <2>2, <2>3 DEF IsRun
<1>8. c = 0 \/ c = 1
  OBVIOUS
<1> QED BY <1>6, <1>7, <1>8

LEMMA Arrive == IInv => MessagesArrive
<1> SUFFICES ASSUME IInv, NEW e \in Ends, WriterLives(e), ReaderLives(e), reader[e] # "broken"
             PROVE  LET left == CellsOf([i \in 1..(Len(mail[e]) - got[e]) |-> got[e] + i])
                    IN  OnTheWay(e) = IF reader[e] = "body" THEN Tail(left) ELSE left
  BY DEF MessagesArrive
<1>0. EndTyped(e) /\ EndKnown(e) /\ Alive(e)
  BY EndTypes DEF IInv, Alive, WriterLives, ReaderLives
<1>1. PICK H \in Seq(Nat), N \in Seq(Cell) : H = Held(e) /\ N = net[e]
  BY <1>0, HeldKnown DEF IsJoined, EndTyped
<1>2. PICK l \in Nat, a \in Nat, o \in 0..2, mm \in Nat, g \in Nat :
        l = Len(H) /\ a = Len(N) /\ o = out[e] /\ mm = Len(mail[e]) /\ g = got[e]
  BY <1>0, <1>1, LenProperties DEF EndTyped
<1>3. PICK c \in 0..1 : c = Half(e)
  <2>1. Half(e) \in 0..1
    BY DEF Half
  <2> QED BY <2>1
<1>4. DOMAIN H = 1..l /\ DOMAIN N = 1..a /\ o <= 3 * l
  BY <1>0, <1>1, <1>2, HeldKnown, LenProperties
<1>5. /\ \A i \in 1..l : H[i] = mm - l + i /\ H[i] \in 1..mm
      /\ (a + (3 * l)) + ((3 * g) + c) = (3 * mm) + o
      /\ \A i \in 1..a : N[i] = CellNo(((3 * g) + c) + (i - 1))
  BY <1>0, <1>1, <1>2, <1>3, <1>4, HeldKnown DEF EndKnown, HeldFollows, NetFollows
<1>6. PICK n \in Nat : n = (3 * l) - o
  <2>1. (3 * l) - o \in Nat
    BY <1>4
  <2> QED BY <2>1
<1>7. PICK W : W = N \o SubSeq(CellsOf(H), o + 1, o + n)
  OBVIOUS
<1>8. WrittenCells(W, N, H, o, n)
  <2>1. o + n <= 3 * Len(H)
    BY <1>2, <1>6
  <2> QED BY <1>7, <2>1, CellsWritten
<1>9. W = OnTheWay(e)
  <2>1. Len(CellsOf(H)) = o + n
    <3>1. Len(CellsOf(H)) = 3 * l
      BY <1>2, CellsTyped
    <3> QED BY <1>6, <3>1
  <2> QED BY <1>1, <1>2, <1>7, <2>1 DEF OnTheWay, Held
<1>10. PICK G \in Nat : G = (3 * g) + c
  <2>1. (3 * g) + c \in Nat
    OBVIOUS
  <2> QED BY <2>1
<1>11. \A i \in 1..(a + n) : W[i] = CellNo(G + (i - 1))
  <2>1. PICK h \in Nat : h = mm - l
    <3>1. mm - l \in Nat
      <4>1. CASE l = 0
        BY <4>1
      <4>2. CASE l # 0
        <5>1. H[1] = mm - l + 1 /\ H[1] \in 1..mm
          BY <1>5, <4>2
        <5> QED BY <5>1
      <4> QED BY <4>1, <4>2
    <3> QED BY <3>1
  <2>2. G + a = (3 * h) + o
    <3>1. (a + (3 * l)) + G = (3 * mm) + o
      BY <1>5, <1>10
    <3> QED BY <2>1, <3>1
  <2>3. Successive(H, h) /\ Numbered(N, Len(N), G) /\ Meet(G, Len(N), h, o)
    BY <1>2, <1>5, <1>10, <2>1, <2>2 DEF Successive, Numbered, Meet
  <2>4. o + n <= 3 * Len(H)
    BY <1>2, <1>6
  <2>5. Numbered(W, Len(N) + n, G)
    BY <1>8, <2>3, <2>4, WrittenFollows
  <2> QED BY <1>2, <2>5 DEF Numbered
<1>12. PICK k \in Nat : k = mm - g /\ a + n = (3 * k) - c /\ c <= 3 * k
  <2>1. (a + (3 * l)) + G = (3 * mm) + o
    BY <1>5, <1>10
  <2>2. a + n = (3 * mm) - G
    BY <1>6, <2>1
  <2>3. G <= 3 * mm
    BY <2>2
  <2>4. g <= mm
    BY <1>10, <2>3
  <2>5. PICK k \in Nat : k = mm - g
    <3>1. mm - g \in Nat
      BY <2>4
    <3> QED BY <3>1
  <2>6. 3 * k = (3 * mm) - (3 * g)
    BY <2>5
  <2>7. a + n = (3 * k) - c /\ c <= 3 * k
    BY <1>10, <2>2, <2>3, <2>6
  <2> QED BY <2>5, <2>7
<1>13. PICK X : X = Left(g, k, c)
  OBVIOUS
<1>14. X \in Seq(Cell) /\ Len(X) = (3 * k) - c /\ \A i \in 1..((3 * k) - c) : X[i] = CellNo(((3 * g) + c) + (i - 1))
  <2>1. IsRun(Left(g, k, c), (3 * k) - c, (3 * g) + c)
    BY <1>12, CellsLeft
  <2> QED BY <1>13, <2>1 DEF IsRun
<1>15. W \in Seq(Cell) /\ Len(W) = a + n
  BY <1>2, <1>8 DEF WrittenCells
<1>16. W = X
  <2>1. Len(W) = Len(X) /\ \A i \in 1..Len(W) : W[i] = X[i]
    BY <1>10, <1>11, <1>12, <1>14, <1>15
  <2> QED BY <1>14, <1>15, <2>1, SeqEqual
<1>17. X = IF reader[e] = "body" THEN Tail(CellsOf([i \in 1..k |-> g + i])) ELSE CellsOf([i \in 1..k |-> g + i])
  BY <1>3, <1>13 DEF Half, Left
<1> QED BY <1>2, <1>9, <1>12, <1>16, <1>17

\* Every variable keeps its type (TypeOK), whatever is sent, however little room a socket has,
\* and whoever dies when.
THEOREM ChannelTypeCorrect == Spec => []TypeOK
<1>1. IInv => TypeOK
  BY DEF IInv
<1> QED BY <1>1, Invariance, PTL

\* While both processes of a channel live, what is on the way and what was dispatched are all
\* messages that were sent, in order and whole (channel.lua: writer and reader); a reader
\* breaks only where a write had found too little room; and the master is told of every
\* worker that ends.
THEOREM NothingLost == Spec => []NothingIsLost
<1>1. IInv => BreaksOnlyWhenFull
  BY DEF IInv, EndKnown, WholeUnlessSplit, BreaksOnlyWhenFull
<1>2. IInv => DeathsAreReported
  BY DEF IInv
<1>3. IInv => NothingIsLost
  BY <1>1, <1>2, Arrive DEF NothingIsLost
<1> QED BY <1>3, Invariance, PTL

\* A call that returned has the answer to it and to no other, and returns once, while no process
\* has used up its session ids (process/session.lua, process/init.lua: call and ret).
THEOREM CallsAnswered == Spec => []CallsGetOwnAnswer
<1>1. IInv => CallsGetOwnAnswer
  BY DEF IInv
<1> QED BY <1>1, Invariance, PTL

\* At each end messages are dispatched one by one in the order in which they were sent: none is
\* passed over and none is dispatched twice, also when a reader follows another (setcb).
THEOREM DispatchedInOrder ==
    Spec => [][\A e \in Ends : got'[e] = got[e] \/ (got'[e] = got[e] + 1 /\ got'[e] \in 1..Len(mail[e]))]_vars
<1> DEFINE InOrder == \A e \in Ends : got'[e] = got[e] \/ (got'[e] = got[e] + 1 /\ got'[e] \in 1..Len(mail[e]))
<1>1. ASSUME IInv, [Next]_vars PROVE [InOrder]_vars
  <2>1. ASSUME NEW x \in Ends, Recv(x) PROVE InOrder
    <3>1. TypeOK /\ EndKnown(x) /\ EndTyped(x)
      BY <1>1, EndTypes DEF IInv
    <3>2. got'[x] = got[x] \/ got'[x] = got[x] + 1
      BY <2>1, <3>1, EndReceived
    <3>3. got'[x] = got[x] + 1 => got'[x] \in 1..Len(mail[x])
      <4>1. Dispatched(x) => got[x] + 1 \in 1..Len(mail[x])
        BY <2>1, <3>1, RecvKinds, NextInLine
      <4>2. Dispatched(x) \/ got' = got
        BY <2>1, <3>1, RecvKinds DEF HeaderRead, PartRead
      <4>3. got[x] \in Nat
        BY <3>1 DEF EndTyped
      <4> QED BY <4>1, <4>2, <4>3
    <3>4. \A e \in Ends : e # x => got'[e] = got[e]
      <4>1. Dispatched(x) \/ got' = got
        BY <2>1, <3>1, RecvKinds DEF HeaderRead, PartRead
      <4> QED BY <3>1, <4>1 DEF Dispatched, TypeOK
    <3> QED BY <3>2, <3>3, <3>4
  <2>2. ASSUME ~(\E x \in Ends : Recv(x)) PROVE UNCHANGED got
    BY <1>1, <2>2 DEF Next, Running, Fork, Connect, Accept, WriterRuns, RecvEnd, Ret, Listen, Reap, OnWorker, Call,
         WorkerNotes, MasterNotes, Broadcast, Notify, WorkerDies, OnMaster, MasterDies, Quit, Forget, chan, vars
  <2> QED BY <2>1, <2>2
<1> QED BY <1>1, Invariance, PTL DEF Spec

(***************************************************************************)
(* SendQueue.                                                              *)
(***************************************************************************)

-----------------------------------------------------------------------------
(* The inductive invariant.  A place is a table t and an index i in it; it *)
(* is passed when the writer of t is beyond it.                            *)

\* A caller that is under way has a message; only publish waits.
CallersKnown ==
    \A s \in Senders :
        /\ emits[s] <= MaxEmits
        /\ caller[s] # "idle" => emits[s] >= 1
        /\ caller[s] = "waiting" => scheme = "publish"
        /\ caller[s] = "login" => scheme # "stream"

\* What is in the tables was emitted, and no message is there twice.
EntriesKnown ==
    \A t \in DOMAIN tables : \A i \in DOMAIN tables[t] :
        LET m == tables[t][i] IN
        /\ m[2] <= emits[m[1]]
        /\ caller[m[1]] = "login" => m[2] < emits[m[1]]

EntriesUnique ==
    \A t, u \in DOMAIN tables : \A i \in DOMAIN tables[t] : \A j \in DOMAIN tables[u] :
        tables[t][i] = tables[u][j] => t = u /\ i = j

\* A writer is at an entry or just behind its queue; it ends redis' and mqtt's queues only
\* there.
WritersKnown ==
    \A t \in DOMAIN tables :
        /\ pos[t] <= Len(tables[t]) + 1
        /\ walk[t] = "sending" => pos[t] <= Len(tables[t]) /\ via[t] # 0

\* The queue in use is the last one, and has its writer.  Another one can have a writer
\* only after a stream was closed.
CurrentKnown ==
    /\ current # 0 => current = Len(tables) /\ walk[current] # "ended"
    /\ \A t \in DOMAIN tables :
          t # current /\ walk[t] # "ended" => scheme = "stream" /\ closed

\* Without a connection the client is closed, or nothing has been emitted.  A stream has one
\* connection for its life.
ConnectionKnown ==
    /\ emiter = 0 => closed \/ (scheme # "stream" /\ tables = <<>>)
    /\ scheme = "stream" => logins = 1 /\ (closed => emiter = 0 /\ opened = {})
    /\ ~closed => opened = 1..logins
    /\ faults = 0 => lost = {}

\* What was sent is at a passed place, and the places are in order.
SentPassed ==
    \A k \in DOMAIN sent :
        \E t \in DOMAIN tables : \E i \in DOMAIN tables[t] :
            i < pos[t] /\ tables[t][i] = sent[k]

SentOrdered ==
    \A k, l \in DOMAIN sent : k < l =>
        \A t, u \in DOMAIN tables : \A i \in DOMAIN tables[t] : \A j \in DOMAIN tables[u] :
            tables[t][i] = sent[k] /\ tables[u][j] = sent[l] => t < u \/ (t = u /\ i < j)

\* As long as nothing failed and nobody closed, what is passed was sent, and a queue that
\* was taken away is passed.
PassedSent ==
    faults = 0 /\ ~closed =>
        \A t \in DOMAIN tables :
            /\ walk[t] = "ended" => pos[t] > Len(tables[t])
            /\ \A i \in DOMAIN tables[t] : i < pos[t] => tables[t][i] \in ToSet(sent)

\* What redis and mqtt have not passed is the last message of a sender that waits.
UnpassedWait ==
    scheme = "publish" =>
        \A t \in DOMAIN tables : \A i \in DOMAIN tables[t] : i >= pos[t] =>
            LET m == tables[t][i] IN caller[m[1]] = "waiting" /\ m[2] = emits[m[1]]

\* Only publish answers.
AnswersKnown == AnswersAreOwn /\ \A s \in Senders : answer[s] # NoAnswer => scheme = "publish"

QIInv ==
    /\ QTypeOK
    /\ CallersKnown
    /\ EntriesKnown
    /\ EntriesUnique
    /\ WritersKnown
    /\ CurrentKnown
    /\ ConnectionKnown
    /\ SentPassed
    /\ SentOrdered
    /\ PassedSent
    /\ UnpassedWait
    /\ WaitersAreQueued
    /\ AnswersKnown

-----------------------------------------------------------------------------
(* Appending a message *)

\* The message m is at a new place, the last one of the last table, which nobody has passed;
\* all other places and their writers stay.
AppendedAt(m, t, i) ==
    /\ t \in DOMAIN tables' /\ t = Len(tables') /\ current' = t
    /\ i \in DOMAIN (tables'[t]) /\ tables'[t][i] = m
    /\ t \in DOMAIN tables => i \notin DOMAIN tables[t]
    /\ pos'[t] <= i /\ walk'[t] # "ended"
    /\ \A u \in DOMAIN tables :
          /\ u \in DOMAIN tables'
          /\ DOMAIN tables[u] \subseteq DOMAIN (tables'[u])
          /\ Len(tables[u]) <= Len(tables'[u])
          /\ \A j \in DOMAIN tables[u] : tables'[u][j] = tables[u][j]
          /\ pos'[u] = pos[u] /\ walk'[u] = walk[u] /\ via'[u] = via[u]
    /\ \A u \in DOMAIN tables' : u # t => u \in DOMAIN tables /\ tables'[u] = tables[u]
    /\ \A j \in DOMAIN (tables'[t]) : j # i => t \in DOMAIN tables /\ j \in DOMAIN tables[t]
    /\ t \notin DOMAIN tables => pos'[t] = 1 /\ walk'[t] = "ready" /\ via'[t] = 0
    /\ current # 0 => t = current

LEMMA AppendOne ==
    ASSUME NEW S, NEW n \in Nat, NEW f \in [1..n -> S], NEW e \in S
    PROVE  /\ Append(f, e) \in [1..(n + 1) -> S]
           /\ Append(f, e)[n + 1] = e
           /\ \A u \in 1..n : Append(f, e)[u] = f[u]
<1>1. f \in Seq(S)
  BY IsASeq
<1>2. Len(f) = n
  BY <1>1, LenProperties
<1>3. /\ Append(f, e) \in Seq(S) /\ Len(Append(f, e)) = n + 1
      /\ Append(f, e)[n + 1] = e /\ \A u \in 1..n : Append(f, e)[u] = f[u]
  BY <1>1, <1>2, AppendProperties
<1> QED BY <1>3, LenProperties

LEMMA Appended ==
    ASSUME QTypeOK, CurrentKnown, WritersKnown, NEW m \in Messages, Enqueue(m)
    PROVE  /\ tables' \in Seq(Seq(Messages))
           /\ walk' \in [DOMAIN tables' -> {"ready", "sending", "ended", "raised"}]
           /\ pos' \in [DOMAIN tables' -> Nat \ {0}]
           /\ via' \in [DOMAIN tables' -> 0..logins]
           /\ \E t \in DOMAIN tables' : \E i \in DOMAIN (tables'[t]) : AppendedAt(m, t, i)
<1>1. CASE current = 0
  <2> DEFINE last == Len(tables) + 1
  <2>1. /\ tables' = Append(tables, <<m>>) /\ walk' = Append(walk, "ready")
        /\ pos' = Append(pos, 1) /\ via' = Append(via, 0) /\ current' = last
    BY <1>1 DEF Enqueue
  <2>2. tables \in Seq(Seq(Messages)) /\ <<m>> \in Seq(Messages) /\ Len(<<m>>) = 1 /\ <<m>>[1] = m
    BY DEF QTypeOK
  <2>3. /\ tables' \in Seq(Seq(Messages)) /\ Len(tables') = last /\ DOMAIN tables' = 1..last
        /\ \A u \in 1..Len(tables) : tables'[u] = tables[u]
        /\ tables'[last] = <<m>>
        /\ DOMAIN tables = 1..Len(tables) /\ Len(tables) \in Nat
    BY <2>1, <2>2, AppendProperties
  <2>4. PICK k \in Nat : k = Len(tables)
    BY <2>3
  <2>7. /\ walk' \in [1..last -> {"ready", "sending", "ended", "raised"}] /\ walk'[last] = "ready"
        /\ \A u \in 1..Len(tables) : walk'[u] = walk[u]
    <3>1. walk \in [1..k -> {"ready", "sending", "ended", "raised"}] /\ "ready" \in {"ready", "sending", "ended", "raised"}
      BY <2>3, <2>4 DEF QTypeOK
    <3>2. Append(walk, "ready") \in [1..(k + 1) -> {"ready", "sending", "ended", "raised"}]
      BY <2>4, <3>1, AppendOne
    <3>3. Append(walk, "ready")[k + 1] = "ready"
      BY <2>4, <3>1, AppendOne
    <3>4. \A u \in 1..k : Append(walk, "ready")[u] = walk[u]
      BY <2>4, <3>1, AppendOne
    <3> QED BY <2>1, <2>4, <3>2, <3>3, <3>4
  <2>8. /\ pos' \in [1..last -> Nat \ {0}] /\ pos'[last] = 1
        /\ \A u \in 1..Len(tables) : pos'[u] = pos[u]
    <3>1. pos \in [1..k -> Nat \ {0}] /\ 1 \in Nat \ {0}
      BY <2>3, <2>4 DEF QTypeOK
    <3>2. Append(pos, 1) \in [1..(k + 1) -> Nat \ {0}]
      BY <2>4, <3>1, AppendOne
    <3>3. Append(pos, 1)[k + 1] = 1
      BY <2>4, <3>1, AppendOne
    <3>4. \A u \in 1..k : Append(pos, 1)[u] = pos[u]
      BY <2>4, <3>1, AppendOne
    <3> QED BY <2>1, <2>4, <3>2, <3>3, <3>4
  <2>9. /\ via' \in [1..last -> 0..logins] /\ via'[last] = 0
        /\ \A u \in 1..Len(tables) : via'[u] = via[u]
    <3>1. via \in [1..k -> 0..logins] /\ 0 \in 0..logins
      BY <2>3, <2>4 DEF QTypeOK
    <3>2. Append(via, 0) \in [1..(k + 1) -> 0..logins]
      BY <2>4, <3>1, AppendOne
    <3>3. Append(via, 0)[k + 1] = 0
      BY <2>4, <3>1, AppendOne
    <3>4. \A u \in 1..k : Append(via, 0)[u] = via[u]
      BY <2>4, <3>1, AppendOne
    <3> QED BY <2>1, <2>4, <3>2, <3>3, <3>4
  <2>10. AppendedAt(m, last, 1)
    BY <1>1, <2>1, <2>2, <2>3, <2>7, <2>8, <2>9 DEF AppendedAt
  <2>11. 1 \in DOMAIN (tables'[last]) /\ last \in DOMAIN tables'
    BY <2>2, <2>3
  <2> QED BY <2>3, <2>7, <2>8, <2>9, <2>10, <2>11
<1>2. CASE current # 0
  <2> DEFINE t == current
             i == Len(tables[t]) + 1
  <2>1. /\ tables' = [tables EXCEPT ![t] = Append(@, m)]
        /\ UNCHANGED <<walk, pos, via, current>>
    BY <1>2 DEF Enqueue
  <2>2. /\ t = Len(tables) /\ t \in DOMAIN tables /\ walk[t] # "ended" /\ tables[t] \in Seq(Messages)
        /\ pos[t] \in Nat
    BY <1>2 DEF CurrentKnown, QTypeOK
  <2>3. /\ Append(tables[t], m) \in Seq(Messages) /\ Len(Append(tables[t], m)) = i
        /\ Append(tables[t], m)[i] = m
        /\ DOMAIN tables[t] = 1..Len(tables[t]) /\ Len(tables[t]) \in Nat
        /\ DOMAIN Append(tables[t], m) = 1..i
        /\ \A j \in 1..Len(tables[t]) : Append(tables[t], m)[j] = tables[t][j]
    BY <2>2, AppendProperties
  <2>4. /\ tables' \in Seq(Seq(Messages)) /\ Len(tables') = Len(tables) /\ DOMAIN tables' = DOMAIN tables
        /\ tables'[t] = Append(tables[t], m)
        /\ \A u \in DOMAIN tables : u # t => tables'[u] = tables[u]
    BY <2>1, <2>2, <2>3 DEF QTypeOK
  <2>5. pos[t] <= i
    BY <2>2, <2>3 DEF WritersKnown, QTypeOK
  <2>6. AppendedAt(m, t, i)
    BY <1>2, <2>1, <2>2, <2>3, <2>4, <2>5 DEF AppendedAt
  <2>7. t \in DOMAIN tables' /\ i \in DOMAIN (tables'[t])
    BY <2>2, <2>3, <2>4
  <2>8. /\ walk' \in [DOMAIN tables' -> {"ready", "sending", "ended", "raised"}]
        /\ pos' \in [DOMAIN tables' -> Nat \ {0}]
        /\ via' \in [DOMAIN tables' -> 0..logins]
    BY <2>1, <2>4 DEF QTypeOK
  <2> QED BY <2>4, <2>6, <2>7, <2>8
<1> QED BY <1>1, <1>2

\* A message that is put into a queue, its sender idle or logged in.
LEMMA PublishKeeps ==
    ASSUME QIInv, NEW s \in Senders, NEW n \in 1..MaxEmits,
           emits' = [emits EXCEPT ![s] = n], emits[s] <= n, caller[s] # "waiting",
           \A t \in DOMAIN tables : \A i \in DOMAIN tables[t] :
               tables[t][i][1] = s => tables[t][i][2] < n,
           Enqueue(<<s, n>>),
           caller' = [caller EXCEPT ![s] = IF scheme = "publish" THEN "waiting" ELSE "idle"],
           UNCHANGED <<scheme, closed, answer, sent, faults, lost>>,
           logins' \in Nat, logins <= logins', emiter' \in 0..logins', opened' \subseteq 1..logins',
           ConnectionKnown'
    PROVE  QIInv'
<1> DEFINE m == <<s, n>>
<1>m. m \in Messages /\ m[1] = s /\ m[2] = n /\ n \in Nat
  BY EmitsAssumption DEF Messages
<1>a. /\ tables' \in Seq(Seq(Messages))
      /\ walk' \in [DOMAIN tables' -> {"ready", "sending", "ended", "raised"}]
      /\ pos' \in [DOMAIN tables' -> Nat \ {0}]
      /\ via' \in [DOMAIN tables' -> 0..logins]
      /\ \E t \in DOMAIN tables' : \E i \in DOMAIN (tables'[t]) : AppendedAt(m, t, i)
  BY <1>m, Appended DEF QIInv
<1>b. PICK t \in DOMAIN tables' : \E i \in DOMAIN (tables'[t]) : AppendedAt(m, t, i)
  BY <1>a
<1>c. PICK i \in DOMAIN (tables'[t]) : AppendedAt(m, t, i)
  BY <1>b
<1> HIDE DEF m
\* Places, old and new.
<1>old. \A u \in DOMAIN tables : \A j \in DOMAIN tables[u] :
           /\ u \in DOMAIN tables' /\ j \in DOMAIN (tables'[u]) /\ tables'[u][j] = tables[u][j]
           /\ pos'[u] = pos[u] /\ walk'[u] = walk[u]
  BY <1>c DEF AppendedAt
<1>new. \A u \in DOMAIN tables' : \A j \in DOMAIN (tables'[u]) :
           \/ u = t /\ j = i /\ tables'[u][j] = m /\ j >= pos'[u]
           \/ /\ u \in DOMAIN tables /\ j \in DOMAIN tables[u] /\ tables'[u][j] = tables[u][j]
              /\ pos'[u] = pos[u] /\ walk'[u] = walk[u] /\ ~(u = t /\ j = i)
  <2> SUFFICES ASSUME NEW u \in DOMAIN tables', NEW j \in DOMAIN (tables'[u]), ~(u = t /\ j = i)
               PROVE  /\ u \in DOMAIN tables /\ j \in DOMAIN tables[u] /\ tables'[u][j] = tables[u][j]
                      /\ pos'[u] = pos[u] /\ walk'[u] = walk[u]
    <3>1. i >= pos'[t]
      BY <1>a, <1>c DEF AppendedAt
    <3> QED BY <1>c, <3>1 DEF AppendedAt
  <2>1. u \in DOMAIN tables /\ j \in DOMAIN tables[u]
    BY <1>c DEF AppendedAt
  <2> QED BY <2>1, <1>old
<1>typ. \A u \in DOMAIN tables : \A j \in DOMAIN tables[u] :
           tables[u][j] \in Messages /\ tables[u][j][1] \in Senders /\ tables[u][j][2] \in Nat
  <2>1. ASSUME NEW u \in DOMAIN tables, NEW j \in DOMAIN tables[u] PROVE tables[u][j] \in Messages
    <3>1. tables \in Seq(Seq(Messages))
      BY DEF QIInv, QTypeOK
    <3>2. tables[u] \in Seq(Messages)
      BY <3>1
    <3> QED BY <3>2
  <2>2. \A e \in Messages : e[1] \in Senders /\ e[2] \in Nat
    BY EmitsAssumption DEF Messages
  <2> QED BY <2>1, <2>2
<1>em. emits \in [Senders -> Nat] /\ emits'[s] = n /\ \A r \in Senders : r # s => emits'[r] = emits[r]
  BY DEF QIInv, QTypeOK
<1>ca. /\ caller \in [Senders -> {"idle", "login", "waiting"}]
       /\ caller'[s] = (IF scheme = "publish" THEN "waiting" ELSE "idle")
       /\ \A r \in Senders : r # s => caller'[r] = caller[r]
  BY DEF QIInv, QTypeOK
<1>1. QTypeOK'
  <2>1. via' \in [DOMAIN tables' -> 0..logins']
    BY <1>a, SMTT(30) DEF QIInv, QTypeOK
  <2>2. /\ current' \in 0..Len(tables') /\ lost' \subseteq 1..logins'
    <3>1. current' = t /\ t \in DOMAIN tables' /\ DOMAIN tables' = 1..Len(tables') /\ Len(tables') \in Nat
      BY <1>a, <1>c DEF AppendedAt
    <3> QED BY <3>1 DEF QIInv, QTypeOK
  <2>3. /\ emits' \in [Senders -> Nat] /\ caller' \in [Senders -> {"idle", "login", "waiting"}]
    BY <1>m DEF QIInv, QTypeOK
  <2> QED BY <1>a, <2>1, <2>2, <2>3 DEF QIInv, QTypeOK
<1>2. CallersKnown'
  BY <1>m, <1>em, <1>ca DEF QIInv, CallersKnown
<1>3. EntriesKnown'
  <2> SUFFICES ASSUME NEW u \in DOMAIN tables', NEW j \in DOMAIN (tables'[u])
               PROVE  /\ tables'[u][j][2] <= emits'[tables'[u][j][1]]
                      /\ caller'[tables'[u][j][1]] = "login" => tables'[u][j][2] < emits'[tables'[u][j][1]]
    BY DEF EntriesKnown
  <2>1. CASE u = t /\ j = i /\ tables'[u][j] = m
    BY <2>1, <1>m, <1>em, <1>ca
  <2>2. CASE u \in DOMAIN tables /\ j \in DOMAIN tables[u] /\ tables'[u][j] = tables[u][j]
    <3> DEFINE e == tables[u][j]
    <3>1. e[1] \in Senders /\ e[2] \in Nat
      BY <2>2, <1>typ
    <3>2. e[2] <= emits[e[1]] /\ (caller[e[1]] = "login" => e[2] < emits[e[1]]) /\ (e[1] = s => e[2] < n)
      BY <2>2 DEF QIInv, EntriesKnown
    <3> HIDE DEF e
    <3>3. e[2] <= emits'[e[1]] /\ (caller'[e[1]] = "login" => e[2] < emits'[e[1]])
      BY <3>1, <3>2, <1>m, <1>em, <1>ca
    <3> QED BY <2>2, <3>3 DEF e
  <2> QED BY <2>1, <2>2, <1>new
<1>4. EntriesUnique'
  <2> SUFFICES ASSUME NEW u \in DOMAIN tables', NEW v \in DOMAIN tables', NEW j \in DOMAIN (tables'[u]),
                      NEW k \in DOMAIN (tables'[v]), tables'[u][j] = tables'[v][k]
               PROVE  u = v /\ j = k
    BY DEF EntriesUnique
  <2>1. \A w \in DOMAIN tables : \A l \in DOMAIN tables[w] : tables[w][l] # m
    BY <1>m, <1>typ
  <2> QED BY <2>1, <1>new DEF QIInv, EntriesUnique
<1>5. WritersKnown'
  <2> SUFFICES ASSUME NEW u \in DOMAIN tables'
               PROVE  /\ pos'[u] <= Len(tables'[u]) + 1
                      /\ walk'[u] = "sending" => pos'[u] <= Len(tables'[u]) /\ via'[u] # 0
    BY DEF WritersKnown
  <2>0. Len(tables'[u]) \in Nat
    BY <1>a
  <2>1. CASE u \in DOMAIN tables
    <3>1. /\ Len(tables[u]) \in Nat /\ pos[u] \in Nat /\ pos[u] <= Len(tables[u]) + 1
          /\ walk[u] = "sending" => pos[u] <= Len(tables[u]) /\ via[u] # 0
      BY <2>1 DEF QIInv, QTypeOK, WritersKnown
    <3>2. /\ Len(tables[u]) <= Len(tables'[u]) /\ pos'[u] = pos[u] /\ walk'[u] = walk[u] /\ via'[u] = via[u]
      BY <1>c, <2>1 DEF AppendedAt
    <3> QED BY <2>0, <3>1, <3>2
  <2>2. CASE u \notin DOMAIN tables
    BY <1>c, <2>0, <2>2 DEF AppendedAt
  <2> QED BY <2>1, <2>2
<1>6. CurrentKnown'
  <2>1. current' = t /\ t = Len(tables') /\ walk'[t] # "ended"
    BY <1>c DEF AppendedAt
  <2>2. ASSUME NEW u \in DOMAIN tables', u # t, walk'[u] # "ended" PROVE scheme = "stream" /\ closed
    <3>1. u \in DOMAIN tables /\ walk'[u] = walk[u] /\ (current # 0 => t = current)
      BY <1>c, <2>2 DEF AppendedAt
    <3>2. u # 0
      BY <3>1 DEF QIInv, QTypeOK
    <3> QED BY <2>2, <3>1, <3>2 DEF QIInv, CurrentKnown
  <2> QED BY <2>1, <2>2 DEF CurrentKnown
<1>7. SentPassed'
  <2> SUFFICES ASSUME NEW k \in DOMAIN sent
               PROVE  \E u \in DOMAIN tables' : \E j \in DOMAIN (tables'[u]) : j < pos'[u] /\ tables'[u][j] = sent[k]
    BY DEF SentPassed
  <2>1. PICK u \in DOMAIN tables : \E j \in DOMAIN tables[u] : j < pos[u] /\ tables[u][j] = sent[k]
    BY DEF QIInv, SentPassed
  <2> QED BY <2>1, <1>old
<1>8. SentOrdered'
  <2> SUFFICES ASSUME NEW k \in DOMAIN sent, NEW l \in DOMAIN sent, k < l,
                      NEW u \in DOMAIN tables', NEW v \in DOMAIN tables', NEW j \in DOMAIN (tables'[u]),
                      NEW h \in DOMAIN (tables'[v]), tables'[u][j] = sent[k], tables'[v][h] = sent[l]
               PROVE  u < v \/ (u = v /\ j < h)
    BY DEF SentOrdered
  <2>1. \A x \in DOMAIN sent : sent[x] # m
    <3> SUFFICES ASSUME NEW x \in DOMAIN sent PROVE sent[x] # m
      OBVIOUS
    <3>1. PICK w \in DOMAIN tables : \E y \in DOMAIN tables[w] : y < pos[w] /\ tables[w][y] = sent[x]
      BY DEF QIInv, SentPassed
    <3> QED BY <3>1, <1>m, <1>typ
  <2>2. /\ u \in DOMAIN tables /\ j \in DOMAIN tables[u] /\ tables[u][j] = sent[k]
        /\ v \in DOMAIN tables /\ h \in DOMAIN tables[v] /\ tables[v][h] = sent[l]
    BY <2>1, <1>new
  <2> QED BY <2>2 DEF QIInv, SentOrdered
<1>9. PassedSent'
  <2> SUFFICES ASSUME faults = 0, ~closed, NEW u \in DOMAIN tables'
               PROVE  /\ walk'[u] = "ended" => pos'[u] > Len(tables'[u])
                      /\ \A j \in DOMAIN (tables'[u]) : j < pos'[u] => tables'[u][j] \in ToSet(sent)
    BY DEF PassedSent
  <2>1. ASSUME walk'[u] = "ended" PROVE pos'[u] > Len(tables'[u])
    <3>1. u # t
      BY <2>1, <1>c DEF AppendedAt
    <3>2. u \in DOMAIN tables /\ tables'[u] = tables[u] /\ pos'[u] = pos[u] /\ walk'[u] = walk[u]
      BY <3>1, <1>c DEF AppendedAt
    <3> QED BY <2>1, <3>2 DEF QIInv, PassedSent
  <2>2. ASSUME NEW j \in DOMAIN (tables'[u]), j < pos'[u] PROVE tables'[u][j] \in ToSet(sent)
    <3>0. tables'[u] \in Seq(Messages) /\ pos'[u] \in Nat
      BY <1>a
    <3>1. j \in Nat /\ pos'[u] \in Nat
      BY <3>0
    <3>2. /\ u \in DOMAIN tables /\ j \in DOMAIN tables[u] /\ tables'[u][j] = tables[u][j]
          /\ pos'[u] = pos[u]
      BY <2>2, <3>1, <1>new
    <3> QED BY <2>2, <3>2 DEF QIInv, PassedSent
  <2> QED BY <2>1, <2>2
<1>10. UnpassedWait'
  <2> SUFFICES ASSUME scheme = "publish", NEW u \in DOMAIN tables', NEW j \in DOMAIN (tables'[u]), j >= pos'[u]
               PROVE  caller'[tables'[u][j][1]] = "waiting" /\ tables'[u][j][2] = emits'[tables'[u][j][1]]
    BY DEF UnpassedWait
  <2>1. CASE tables'[u][j] = m
    BY <2>1, <1>m, <1>em, <1>ca
  <2>2. CASE u \in DOMAIN tables /\ j \in DOMAIN tables[u] /\ tables'[u][j] = tables[u][j] /\ pos'[u] = pos[u]
    <3>1. caller[tables[u][j][1]] = "waiting" /\ tables[u][j][2] = emits[tables[u][j][1]]
      BY <2>2 DEF QIInv, UnpassedWait
    <3>2. tables[u][j][1] \in Senders /\ tables[u][j][1] # s
      BY <2>2, <3>1, <1>typ
    <3> QED BY <2>2, <3>1, <3>2, <1>em, <1>ca
  <2> QED BY <2>1, <2>2, <1>new
<1>11. WaitersAreQueued'
  <2> SUFFICES ASSUME NEW r \in Senders, caller'[r] = "waiting", ~closed
               PROVE  \E u \in DOMAIN tables' :
                        /\ walk'[u] # "ended"
                        /\ \E j \in pos'[u]..Len(tables'[u]) : tables'[u][j] = <<r, emits'[r]>>
    BY DEF WaitersAreQueued
  <2>1. CASE r = s
    <3>1. /\ walk'[t] # "ended" /\ i \in pos'[t]..Len(tables'[t]) /\ tables'[t][i] = m
      BY <1>a, <1>c DEF AppendedAt
    <3> QED BY <2>1, <3>1, <1>em DEF m
  <2>2. CASE r # s
    <3>1. PICK u \in DOMAIN tables :
                /\ walk[u] # "ended"
                /\ \E j \in pos[u]..Len(tables[u]) : tables[u][j] = <<r, emits[r]>>
      BY <2>2, <1>ca DEF QIInv, WaitersAreQueued
    <3>2. PICK j \in pos[u]..Len(tables[u]) : tables[u][j] = <<r, emits[r]>>
      BY <3>1
    <3>3. j \in DOMAIN tables[u] /\ Len(tables[u]) \in Nat /\ pos[u] \in Nat
      BY <3>2, SMTT(30) DEF QIInv, QTypeOK
    <3>4. /\ u \in DOMAIN tables' /\ Len(tables[u]) <= Len(tables'[u]) /\ tables'[u][j] = tables[u][j]
          /\ pos'[u] = pos[u] /\ walk'[u] = walk[u]
      BY <3>3, <1>c DEF AppendedAt
    <3>5. j \in pos'[u]..Len(tables'[u])
      BY <1>a, <3>2, <3>3, <3>4
    <3> QED BY <2>2, <3>1, <3>2, <3>4, <3>5, <1>em
  <2> QED BY <2>1, <2>2
<1>12. AnswersKnown'
  <2> SUFFICES ASSUME NEW r \in Senders, answer[r] # NoAnswer
               PROVE  /\ answer[r].msg[1] = r
                      /\ caller'[r] = "idle" => answer[r].msg[2] = emits'[r]
                      /\ answer[r].ok <=> answer[r].msg \in ToSet(sent)
                      /\ scheme = "publish"
    BY DEF AnswersKnown, AnswersAreOwn
  <2> QED BY <1>em, <1>ca DEF QIInv, AnswersKnown, AnswersAreOwn
<1> QED BY <1>1, <1>2, <1>3, <1>4, <1>5, <1>6, <1>7, <1>8, <1>9, <1>10, <1>11, <1>12 DEF QIInv

-----------------------------------------------------------------------------
(* The writers *)

LEMMA EntryTyped ==
    ASSUME QTypeOK, NEW t \in DOMAIN tables, NEW i \in DOMAIN tables[t]
    PROVE  /\ tables[t][i] \in Messages
           /\ tables[t][i][1] \in Senders /\ tables[t][i][2] \in Nat
           /\ tables[t][i] = <<tables[t][i][1], tables[t][i][2]>>
<1>1. tables[t][i] \in Messages
  BY DEF QTypeOK
<1>2. \A e \in Messages : e[1] \in Senders /\ e[2] \in Nat /\ e = <<e[1], e[2]>>
  BY EmitsAssumption DEF Messages
<1> QED BY <1>1, <1>2

LEMMA SequenceOfEntries ==
    ASSUME QTypeOK, NEW t \in DOMAIN tables
    PROVE  /\ Len(tables[t]) \in Nat /\ DOMAIN tables[t] = 1..Len(tables[t])
           /\ pos[t] \in Nat \ {0} /\ t \in Nat \ {0} /\ t <= Len(tables) /\ Len(tables) \in Nat
<1>1. tables[t] \in Seq(Messages)
  BY DEF QTypeOK
<1>2. tables \in Seq(Seq(Messages)) /\ pos[t] \in Nat \ {0}
  BY DEF QTypeOK
<1> QED BY <1>1, <1>2

\* Steps that append nothing keep what is known of the entries.
LEMMA SameEntries ==
    ASSUME QIInv, UNCHANGED <<tables, emits>>,
           \A s \in Senders : caller'[s] = "login" => caller[s] = "login"
    PROVE  EntriesKnown' /\ EntriesUnique'
<1>1. EntriesUnique'
  BY DEF QIInv, EntriesUnique
<1>2. EntriesKnown'
  <2> SUFFICES ASSUME NEW t \in DOMAIN tables, NEW i \in DOMAIN tables[t]
               PROVE  /\ tables[t][i][2] <= emits[tables[t][i][1]]
                      /\ caller'[tables[t][i][1]] = "login" => tables[t][i][2] < emits[tables[t][i][1]]
    BY DEF EntriesKnown
  <2>1. tables[t][i][1] \in Senders
    BY EntryTyped DEF QIInv
  <2> QED BY <2>1 DEF QIInv, EntriesKnown
<1> QED BY <1>1, <1>2

LEMMA BeginKeeps == ASSUME QIInv, NEW t \in DOMAIN tables, Begin(t) PROVE QIInv'
<1>1. /\ walk[t] = "ready" /\ pos[t] <= Len(tables[t]) /\ emiter # 0
      /\ walk' = [walk EXCEPT ![t] = "sending"] /\ via' = [via EXCEPT ![t] = emiter]
      /\ UNCHANGED <<scheme, tables, current, pos, emiter, logins, opened, lost, closed, caller, emits,
                     answer, sent, faults>>
  BY DEF Begin, AtEntry, Sends, netvars
<1>2. EntriesKnown' /\ EntriesUnique'
  BY <1>1, SameEntries
<1>3. QTypeOK'
  BY <1>1 DEF QIInv, QTypeOK
<1>4. walk'[t] = "sending" /\ via'[t] = emiter /\ \A u \in DOMAIN tables : u # t => walk'[u] = walk[u] /\ via'[u] = via[u]
  BY <1>1 DEF QIInv, QTypeOK
<1>5. CallersKnown' /\ ConnectionKnown' /\ SentPassed' /\ SentOrdered' /\ UnpassedWait' /\ AnswersKnown'
  BY <1>1 DEF QIInv, CallersKnown, ConnectionKnown, SentPassed, SentOrdered, UnpassedWait, AnswersKnown, AnswersAreOwn
<1>6. WritersKnown'
  BY <1>1, <1>4 DEF QIInv, WritersKnown
<1>7. CurrentKnown'
  <2>1. current # 0 => current \in DOMAIN tables
    BY DEF QIInv, QTypeOK
  <2> QED BY <1>1, <1>4, <2>1 DEF QIInv, CurrentKnown
<1>8. PassedSent'
  BY <1>1, <1>4 DEF QIInv, PassedSent
<1>9. WaitersAreQueued'
  <2> SUFFICES ASSUME NEW r \in Senders, caller[r] = "waiting", ~closed
               PROVE  \E u \in DOMAIN tables :
                          /\ walk'[u] # "ended"
                          /\ \E i \in pos[u]..Len(tables[u]) : tables[u][i] = <<r, emits[r]>>
    BY <1>1 DEF WaitersAreQueued
  <2>1. PICK u \in DOMAIN tables :
                /\ walk[u] # "ended"
                /\ \E i \in pos[u]..Len(tables[u]) : tables[u][i] = <<r, emits[r]>>
    BY DEF QIInv, WaitersAreQueued
  <2> QED BY <1>4, <2>1
<1> QED BY <1>2, <1>3, <1>5, <1>6, <1>7, <1>8, <1>9 DEF QIInv

LEMMA RaisedKeeps == ASSUME QIInv, NEW t \in DOMAIN tables, Raised(t) PROVE QIInv'
<1>1. /\ walk[t] = "sending" /\ scheme = "publish" /\ walk' = [walk EXCEPT ![t] = "raised"]
      /\ faults' = faults + 1
      /\ UNCHANGED <<scheme, tables, current, pos, via, emiter, logins, opened, lost, closed, caller, emits,
                     answer, sent>>
  BY DEF Raised, netvars
<1>2. EntriesKnown' /\ EntriesUnique'
  BY <1>1, SameEntries
<1>3. QTypeOK' /\ faults' # 0
  BY <1>1 DEF QIInv, QTypeOK
<1>4. walk'[t] = "raised" /\ \A u \in DOMAIN tables : u # t => walk'[u] = walk[u]
  BY <1>1 DEF QIInv, QTypeOK
<1>5. CallersKnown' /\ ConnectionKnown' /\ SentPassed' /\ SentOrdered' /\ UnpassedWait' /\ AnswersKnown'
  BY <1>1, <1>3 DEF QIInv, CallersKnown, ConnectionKnown, SentPassed, SentOrdered, UnpassedWait, AnswersKnown, AnswersAreOwn
<1>6. WritersKnown'
  BY <1>1, <1>4 DEF QIInv, WritersKnown
<1>7. CurrentKnown'
  <2>1. current # 0 => current \in DOMAIN tables
    BY DEF QIInv, QTypeOK
  <2> QED BY <1>1, <1>4, <2>1 DEF QIInv, CurrentKnown
<1>8. PassedSent'
  BY <1>3 DEF PassedSent
<1>9. WaitersAreQueued'
  BY <1>1, <1>4 DEF QIInv, WaitersAreQueued
<1> QED BY <1>2, <1>3, <1>5, <1>6, <1>7, <1>8, <1>9 DEF QIInv

\* A writer that ends is through, or belongs to a scheme that drops the rest, after a fault or
\* a close.
LEMMA EndKeeps ==
    ASSUME QIInv, NEW t \in DOMAIN tables, End(t), walk[t] # "ended",
           pos[t] > Len(tables[t]) \/ (scheme # "publish" /\ (closed \/ faults # 0)),
           UNCHANGED <<scheme, tables, pos, via, emiter, logins, opened, lost, closed, caller, emits,
                       answer, sent, faults>>
    PROVE  QIInv'
<1>1. walk' = [walk EXCEPT ![t] = "ended"] /\ current' = 0
  BY DEF End
<1>2. EntriesKnown' /\ EntriesUnique'
  BY SameEntries
<1>3. QTypeOK'
  <2>1. 0 \in 0..Len(tables)
    BY SequenceOfEntries DEF QIInv
  <2> QED BY <1>1, <2>1 DEF QIInv, QTypeOK
<1>4. walk'[t] = "ended" /\ \A u \in DOMAIN tables : u # t => walk'[u] = walk[u]
  BY <1>1 DEF QIInv, QTypeOK
<1>5. CallersKnown' /\ ConnectionKnown' /\ SentPassed' /\ SentOrdered' /\ UnpassedWait' /\ AnswersKnown'
  BY <1>1 DEF QIInv, CallersKnown, ConnectionKnown, SentPassed, SentOrdered, UnpassedWait, AnswersKnown, AnswersAreOwn
<1>6. WritersKnown'
  BY <1>1, <1>4 DEF QIInv, WritersKnown
<1>7. CurrentKnown'
  BY <1>1, <1>4 DEF QIInv, CurrentKnown
<1>8. PassedSent'
  BY <1>1, <1>4 DEF QIInv, PassedSent
<1>9. WaitersAreQueued'
  <2> SUFFICES ASSUME NEW s \in Senders, caller[s] = "waiting", ~closed
               PROVE  \E u \in DOMAIN tables :
                        /\ walk'[u] # "ended"
                        /\ \E i \in pos[u]..Len(tables[u]) : tables[u][i] = <<s, emits[s]>>
    BY DEF WaitersAreQueued
  <2>1. pos[t] > Len(tables[t])
    BY DEF QIInv, CallersKnown
  <2>2. PICK u \in DOMAIN tables :
                /\ walk[u] # "ended"
                /\ \E i \in pos[u]..Len(tables[u]) : tables[u][i] = <<s, emits[s]>>
    BY DEF QIInv, WaitersAreQueued
  <2>3. u # t
    BY <2>1, <2>2, SequenceOfEntries DEF QIInv
  <2> QED BY <1>4, <2>2, <2>3
<1> QED BY <1>2, <1>3, <1>5, <1>6, <1>7, <1>8, <1>9 DEF QIInv

LEMMA FinishKeeps == ASSUME QIInv, NEW t \in DOMAIN tables, Finish(t) PROVE QIInv'
<1>1. /\ End(t) /\ walk[t] = "ready" /\ pos[t] > Len(tables[t])
      /\ UNCHANGED <<scheme, tables, pos, via, emiter, logins, opened, lost, closed, caller, emits,
                     answer, sent, faults>>
  BY DEF Finish, netvars
<1> QED BY <1>1, EndKeeps

LEMMA SkipKeeps == ASSUME QIInv, NEW t \in DOMAIN tables, Skip(t) PROVE QIInv'
<1>1. /\ walk[t] = "ready" /\ pos[t] <= Len(tables[t]) /\ ~Sends
      /\ UNCHANGED <<scheme, tables, via, emiter, logins, opened, lost, closed, caller, emits,
                     answer, sent, faults>>
  BY DEF Skip, AtEntry, netvars
<1>2. closed
  <2>1. tables # <<>>
    OBVIOUS
  <2> QED BY <1>1, <2>1 DEF Sends, QIInv, ConnectionKnown
<1>3. CASE scheme # "publish"
  BY <1>1, <1>2, <1>3, EndKeeps DEF Skip
<1>4. CASE scheme = "publish"
  <2>1. pos' = [pos EXCEPT ![t] = @ + 1] /\ UNCHANGED <<walk, current>>
    BY <1>4 DEF Skip
  <2>2. EntriesKnown' /\ EntriesUnique'
    BY <1>1, SameEntries
  <2>3. QTypeOK'
    BY <1>1, <2>1 DEF QIInv, QTypeOK
  <2>4. pos'[t] = pos[t] + 1 /\ \A u \in DOMAIN tables : pos[u] \in Nat /\ pos'[u] >= pos[u] /\ (u # t => pos'[u] = pos[u])
    BY <2>1 DEF QIInv, QTypeOK
  <2>5. CallersKnown' /\ ConnectionKnown' /\ CurrentKnown' /\ SentOrdered' /\ AnswersKnown' /\ PassedSent' /\ WaitersAreQueued'
    BY <1>1, <1>2, <2>1 DEF QIInv, CallersKnown, ConnectionKnown, CurrentKnown, SentOrdered, AnswersKnown,
         AnswersAreOwn, PassedSent, WaitersAreQueued
  <2>6. WritersKnown'
    <3>1. Len(tables[t]) \in Nat
      BY SequenceOfEntries DEF QIInv
    <3> QED BY <1>1, <2>1, <2>4, <3>1 DEF QIInv, WritersKnown
  <2>7. SentPassed'
    <3> SUFFICES ASSUME NEW k \in DOMAIN sent
                 PROVE  \E u \in DOMAIN tables : \E j \in DOMAIN tables[u] : j < pos'[u] /\ tables[u][j] = sent[k]
      BY <1>1 DEF SentPassed
    <3>1. PICK u \in DOMAIN tables : \E j \in DOMAIN tables[u] : j < pos[u] /\ tables[u][j] = sent[k]
      BY DEF QIInv, SentPassed
    <3>2. PICK j \in DOMAIN tables[u] : j < pos[u] /\ tables[u][j] = sent[k]
      BY <3>1
    <3>3. j \in Nat /\ pos[u] \in Nat
      BY SequenceOfEntries DEF QIInv
    <3>4. pos'[u] \in Nat
      BY <1>1, <2>3 DEF QTypeOK
    <3> QED BY <2>4, <3>2, <3>3, <3>4
  <2>8. UnpassedWait'
    <3> SUFFICES ASSUME NEW u \in DOMAIN tables, NEW j \in DOMAIN tables[u], j >= pos'[u]
                 PROVE  caller[tables[u][j][1]] = "waiting" /\ tables[u][j][2] = emits[tables[u][j][1]]
      BY <1>1 DEF UnpassedWait
    <3>1. Len(tables[u]) \in Nat /\ DOMAIN tables[u] = 1..Len(tables[u])
      BY SequenceOfEntries DEF QIInv
    <3>2. j \in Nat /\ pos[u] \in Nat /\ pos'[u] \in Nat /\ pos'[u] >= pos[u]
      BY <2>4, <3>1
    <3>3. j >= pos[u]
      BY <3>2
    <3> QED BY <1>1, <3>3, <1>4 DEF QIInv, UnpassedWait
  <2> QED BY <2>2, <2>3, <2>5, <2>6, <2>7, <2>8 DEF QIInv
<1> QED BY <1>3, <1>4

\* The elements of a sequence after an append.
LEMMA ToSetAppend ==
    ASSUME NEW S, NEW q \in Seq(S), NEW e \in S
    PROVE  /\ ToSet(Append(q, e)) = ToSet(q) \union {e}
           /\ Append(q, e) \in Seq(S)
           /\ DOMAIN Append(q, e) = 1..(Len(q) + 1) /\ DOMAIN q = 1..Len(q) /\ Len(q) \in Nat
           /\ Append(q, e)[Len(q) + 1] = e
           /\ \A k \in 1..Len(q) : Append(q, e)[k] = q[k]
<1>1. /\ Append(q, e) \in Seq(S) /\ Len(Append(q, e)) = Len(q) + 1 /\ Len(q) \in Nat
      /\ Append(q, e)[Len(q) + 1] = e /\ \A k \in 1..Len(q) : Append(q, e)[k] = q[k]
  BY AppendProperties
<1>2. DOMAIN Append(q, e) = 1..(Len(q) + 1) /\ DOMAIN q = 1..Len(q)
  BY <1>1, LenProperties
<1>3. ToSet(Append(q, e)) = ToSet(q) \union {e}
  <2>1. ASSUME NEW x \in ToSet(Append(q, e)) PROVE x \in ToSet(q) \union {e}
    <3>1. PICK k \in 1..(Len(q) + 1) : Append(q, e)[k] = x
      BY <1>2 DEF ToSet
    <3> QED BY <1>1, <1>2, <3>1 DEF ToSet
  <2>2. ASSUME NEW x \in ToSet(q) PROVE x \in ToSet(Append(q, e))
    <3>1. PICK k \in 1..Len(q) : q[k] = x
      BY <1>2 DEF ToSet
    <3> QED BY <1>1, <1>2, <3>1 DEF ToSet
  <2>3. e \in ToSet(Append(q, e))
    BY <1>1, <1>2 DEF ToSet
  <2> QED BY <2>1, <2>2, <2>3
<1> QED BY <1>1, <1>2, <1>3

\* Only the writer of the last table can have its entry sent, as only it can have a
\* connection that is open.
LEMMA OneSends ==
    ASSUME QIInv, NEW t \in DOMAIN tables, walk[t] = "sending", Usable(via[t])
    PROVE  t = Len(tables)
<1>1. ASSUME t # current PROVE FALSE
  <2>1. scheme = "stream" /\ closed
    BY <1>1 DEF QIInv, CurrentKnown
  <2>2. opened = {}
    BY <2>1 DEF QIInv, ConnectionKnown
  <2> QED BY <2>2 DEF Usable
<1>2. t # 0
  BY SequenceOfEntries DEF QIInv
<1> QED BY <1>1, <1>2 DEF QIInv, CurrentKnown

\* A writer passes an entry that it has handed over: it was sent, or redis and mqtt report that
\* it was not.
LEMMA PassKeeps ==
    ASSUME QIInv, NEW t \in DOMAIN tables, NEW ok \in BOOLEAN, walk[t] = "sending", Answer(t, ok),
           pos' = [pos EXCEPT ![t] = @ + 1], walk' = [walk EXCEPT ![t] = "ready"],
           \/ ok /\ sent' = Append(sent, tables[t][pos[t]]) /\ t = Len(tables)
           \/ ~ok /\ sent' = sent /\ scheme = "publish" /\ (closed \/ faults # 0),
           UNCHANGED <<scheme, tables, current, via, emiter, logins, opened, lost, closed, emits, faults>>
    PROVE  QIInv'
<1> DEFINE m == tables[t][pos[t]]
           p == pos[t]
<1>1. p \in DOMAIN tables[t] /\ p \in Nat \ {0} /\ p <= Len(tables[t]) /\ Len(tables[t]) \in Nat
  BY SequenceOfEntries DEF QIInv, WritersKnown
<1>2. m \in Messages /\ m[1] \in Senders /\ m[2] \in Nat /\ m = <<m[1], m[2]>>
  BY <1>1, EntryTyped DEF QIInv
<1>3. scheme = "publish" => caller[m[1]] = "waiting" /\ m[2] = emits[m[1]]
  BY <1>1 DEF QIInv, UnpassedWait
<1>4. \A u \in DOMAIN tables : \A j \in DOMAIN tables[u] : tables[u][j] = m => u = t /\ j = p
  BY <1>1 DEF QIInv, EntriesUnique
<1>5. ok => /\ ToSet(sent') = ToSet(sent) \union {m} /\ sent' \in Seq(Messages)
            /\ DOMAIN sent' = 1..(Len(sent) + 1) /\ DOMAIN sent = 1..Len(sent) /\ Len(sent) \in Nat
            /\ sent'[Len(sent) + 1] = m /\ \A k \in 1..Len(sent) : sent'[k] = sent[k]
  <2> SUFFICES ASSUME ok PROVE /\ ToSet(sent') = ToSet(sent) \union {m} /\ sent' \in Seq(Messages)
            /\ DOMAIN sent' = 1..(Len(sent) + 1) /\ DOMAIN sent = 1..Len(sent) /\ Len(sent) \in Nat
            /\ sent'[Len(sent) + 1] = m /\ \A k \in 1..Len(sent) : sent'[k] = sent[k]
    OBVIOUS
  <2>1. sent \in Seq(Messages) /\ m \in Messages
    BY <1>2 DEF QIInv, QTypeOK
  <2>2. sent' = Append(sent, m)
    OBVIOUS
  <2> HIDE DEF m, p
  <2>3. ToSet(sent') = ToSet(sent) \union {m} /\ sent' \in Seq(Messages)
    BY <2>1, <2>2, ToSetAppend
  <2>4. DOMAIN sent' = 1..(Len(sent) + 1) /\ DOMAIN sent = 1..Len(sent) /\ Len(sent) \in Nat
    BY <2>1, <2>2, ToSetAppend
  <2>5. sent'[Len(sent) + 1] = m
    BY <2>1, <2>2, ToSetAppend
  <2>6. \A k \in 1..Len(sent) : sent'[k] = sent[k]
    BY <2>1, <2>2, ToSetAppend
  <2> QED BY <2>3, <2>4, <2>5, <2>6
<1>6. m \notin ToSet(sent)
  <2> SUFFICES ASSUME NEW k \in DOMAIN sent, sent[k] = m PROVE FALSE
    BY DEF ToSet
  <2>1. PICK u \in DOMAIN tables : \E j \in DOMAIN tables[u] : j < pos[u] /\ tables[u][j] = sent[k]
    BY DEF QIInv, SentPassed
  <2> QED BY <1>1, <1>4, <2>1
<1>7. /\ \A u \in DOMAIN tables : u # t => pos'[u] = pos[u] /\ walk'[u] = walk[u]
      /\ pos'[t] = p + 1 /\ walk'[t] = "ready"
      /\ \A u \in DOMAIN tables : pos[u] \in Nat /\ pos'[u] \in Nat
  BY <1>1 DEF QIInv, QTypeOK
<1>8. /\ \A s \in Senders : s # m[1] => caller'[s] = caller[s] /\ answer'[s] = answer[s]
      /\ scheme # "publish" => caller' = caller /\ answer' = answer
      /\ scheme = "publish" => caller'[m[1]] = "idle" /\ answer'[m[1]] = [msg |-> m, ok |-> ok]
  BY <1>2 DEF Answer, QIInv, QTypeOK
<1>9. /\ caller' \in [Senders -> {"idle", "login", "waiting"}]
      /\ answer' \in [Senders -> {NoAnswer} \union [msg : Messages, ok : BOOLEAN]]
  <2>1. [msg |-> m, ok |-> ok] \in {NoAnswer} \union [msg : Messages, ok : BOOLEAN]
    BY <1>2
  <2>2. /\ caller \in [Senders -> {"idle", "login", "waiting"}]
        /\ answer \in [Senders -> {NoAnswer} \union [msg : Messages, ok : BOOLEAN]]
    BY DEF QIInv, QTypeOK
  <2>3. \/ caller' = caller /\ answer' = answer
        \/ /\ caller' = [caller EXCEPT ![m[1]] = "idle"]
           /\ answer' = [answer EXCEPT ![m[1]] = [msg |-> m, ok |-> ok]]
    BY DEF Answer
  <2> HIDE DEF m, p, NoAnswer
  <2> QED BY <1>2, <2>1, <2>2, <2>3
<1> HIDE DEF m, p
<1>10. \A s \in Senders : caller'[s] # caller[s] => caller'[s] = "idle"
  BY <1>8
<1>11. QTypeOK'
  <2>1. sent' \in Seq(Messages)
    BY <1>5 DEF QIInv, QTypeOK, m
  <2>2. pos' \in [DOMAIN tables' -> Nat \ {0}] /\ walk' \in [DOMAIN tables' -> {"ready", "sending", "ended", "raised"}]
    BY DEF QIInv, QTypeOK
  <2> QED BY <1>9, <2>1, <2>2 DEF QIInv, QTypeOK
<1>12. EntriesKnown' /\ EntriesUnique'
  BY <1>10, SameEntries
<1>13. CallersKnown'
  BY <1>10 DEF QIInv, CallersKnown
<1>14. WritersKnown'
  BY <1>1, <1>7 DEF QIInv, WritersKnown, p
<1>15. CurrentKnown' /\ ConnectionKnown'
  <2>1. current # 0 => current \in DOMAIN tables
    <3>1. current \in 0..Len(tables) /\ tables \in Seq(Seq(Messages))
      BY DEF QIInv, QTypeOK
    <3> QED BY <3>1
  <2> QED BY <1>7, <2>1 DEF QIInv, CurrentKnown, ConnectionKnown
<1>16. SentPassed'
  <2> SUFFICES ASSUME NEW k \in DOMAIN sent'
               PROVE  \E u \in DOMAIN tables : \E j \in DOMAIN tables[u] : j < pos'[u] /\ tables[u][j] = sent'[k]
    BY DEF SentPassed
  <2>1. CASE ok /\ k = Len(sent) + 1
    <3>1. sent'[k] = tables[t][p] /\ p < pos'[t]
      BY <1>1, <1>5, <1>7, <2>1 DEF m, p
    <3> QED BY <1>1, <3>1
  <2>2. CASE k \in DOMAIN sent /\ sent'[k] = sent[k]
    <3>1. PICK u \in DOMAIN tables : \E j \in DOMAIN tables[u] : j < pos[u] /\ tables[u][j] = sent[k]
      BY <2>2 DEF QIInv, SentPassed
    <3>2. PICK j \in DOMAIN tables[u] : j < pos[u] /\ tables[u][j] = sent[k]
      BY <3>1
    <3>3. j \in Nat
      BY SequenceOfEntries DEF QIInv
    <3>4. j < pos'[u]
      BY <1>7, <3>2, <3>3 DEF p
    <3> QED BY <2>2, <3>2, <3>4
  <2> QED BY <1>5, <2>1, <2>2
<1>17. SentOrdered'
  <2> SUFFICES ASSUME NEW k \in DOMAIN sent', NEW l \in DOMAIN sent', k < l,
                      NEW u \in DOMAIN tables, NEW v \in DOMAIN tables, NEW j \in DOMAIN tables[u],
                      NEW h \in DOMAIN tables[v], tables[u][j] = sent'[k], tables[v][h] = sent'[l]
               PROVE  u < v \/ (u = v /\ j < h)
    BY DEF SentOrdered
  <2>1. CASE k \in DOMAIN sent /\ l \in DOMAIN sent /\ sent'[k] = sent[k] /\ sent'[l] = sent[l]
    BY <2>1 DEF QIInv, SentOrdered
  <2>2. CASE ok /\ l = Len(sent) + 1
    <3>1. k \in DOMAIN sent /\ sent'[k] = sent[k] /\ sent'[l] = m
      BY <1>5, <2>2
    <3>2. v = t /\ h = p
      BY <1>4, <3>1
    <3>3. PICK w \in DOMAIN tables : \E y \in DOMAIN tables[w] : y < pos[w] /\ tables[w][y] = sent[k]
      BY <3>1 DEF QIInv, SentPassed
    <3>4. u = w /\ j < pos[u]
      BY <3>1, <3>3 DEF QIInv, EntriesUnique
    <3>5. u <= t /\ u \in Nat /\ t \in Nat
      BY <1>5, <2>2, SequenceOfEntries DEF QIInv
    <3> QED BY <3>2, <3>4, <3>5 DEF p
  <2> QED BY <1>5, <2>1, <2>2, SMTT(30)
<1>18. PassedSent'
  <2> SUFFICES ASSUME faults = 0, ~closed, NEW u \in DOMAIN tables
               PROVE  /\ walk'[u] = "ended" => pos'[u] > Len(tables[u])
                      /\ \A j \in DOMAIN tables[u] : j < pos'[u] => tables[u][j] \in ToSet(sent')
    BY DEF PassedSent
  <2>1. ToSet(sent') = ToSet(sent) \union {m}
    BY <1>5
  <2>2. walk'[u] = "ended" => pos'[u] > Len(tables[u])
    BY <1>7 DEF QIInv, PassedSent
  <2>3. ASSUME NEW j \in DOMAIN tables[u], j < pos'[u] PROVE tables[u][j] \in ToSet(sent')
    <3>1. j \in Nat
      BY SequenceOfEntries DEF QIInv
    <3>2. j < pos[u] \/ (u = t /\ j = p)
      BY <1>1, <1>7, <2>3, <3>1 DEF p
    <3> QED BY <2>1, <3>2 DEF QIInv, PassedSent, m, p
  <2> QED BY <2>2, <2>3
<1>19. UnpassedWait'
  <2> SUFFICES ASSUME scheme = "publish", NEW u \in DOMAIN tables, NEW j \in DOMAIN tables[u], j >= pos'[u]
               PROVE  caller'[tables[u][j][1]] = "waiting" /\ tables[u][j][2] = emits[tables[u][j][1]]
    BY DEF UnpassedWait
  <2>1. j \in Nat /\ j >= pos[u] /\ ~(u = t /\ j = p)
    <3>1. j \in Nat
      BY SequenceOfEntries DEF QIInv
    <3> QED BY <1>1, <1>7, <3>1 DEF p
  <2>2. caller[tables[u][j][1]] = "waiting" /\ tables[u][j][2] = emits[tables[u][j][1]]
    BY <2>1 DEF QIInv, UnpassedWait
  <2>3. tables[u][j] # m
    BY <1>4, <2>1
  <2>4. /\ tables[u][j][1] \in Senders /\ tables[u][j] = <<tables[u][j][1], tables[u][j][2]>>
    BY EntryTyped DEF QIInv
  <2>5. tables[u][j][1] # m[1]
    BY <1>2, <1>3, <2>2, <2>3, <2>4
  <2> QED BY <1>8, <2>2, <2>4, <2>5
<1>20. WaitersAreQueued'
  <2> SUFFICES ASSUME NEW s \in Senders, caller'[s] = "waiting", ~closed
               PROVE  \E u \in DOMAIN tables :
                        /\ walk'[u] # "ended"
                        /\ \E i \in pos'[u]..Len(tables[u]) : tables[u][i] = <<s, emits[s]>>
    BY DEF WaitersAreQueued
  <2>1. caller[s] = "waiting" /\ s # m[1]
    <3>1. caller[s] = "waiting"
      BY <1>10
    <3> QED BY <3>1, <1>8 DEF QIInv, CallersKnown
  <2>2. PICK u \in DOMAIN tables :
                /\ walk[u] # "ended"
                /\ \E i \in pos[u]..Len(tables[u]) : tables[u][i] = <<s, emits[s]>>
    BY <2>1 DEF QIInv, WaitersAreQueued
  <2>3. PICK i \in pos[u]..Len(tables[u]) : tables[u][i] = <<s, emits[s]>>
    BY <2>2
  <2>4. ~(u = t /\ i = p)
    BY <2>1, <2>3 DEF m, p
  <2>5. Len(tables[u]) \in Nat
    BY SequenceOfEntries DEF QIInv
  <2>6. i \in pos'[u]..Len(tables[u]) /\ walk'[u] # "ended"
    BY <1>1, <1>7, <2>2, <2>3, <2>4, <2>5 DEF p
  <2> QED BY <2>3, <2>6
<1>21. AnswersKnown'
  <2> SUFFICES ASSUME NEW s \in Senders, answer'[s] # NoAnswer
               PROVE  /\ answer'[s].msg[1] = s
                      /\ caller'[s] = "idle" => answer'[s].msg[2] = emits[s]
                      /\ answer'[s].ok <=> answer'[s].msg \in ToSet(sent')
                      /\ scheme = "publish"
    BY DEF AnswersKnown, AnswersAreOwn
  <2>0. ToSet(sent') = IF ok THEN ToSet(sent) \union {m} ELSE ToSet(sent)
    BY <1>5
  <2>1. CASE scheme = "publish" /\ s = m[1]
    <3>1. answer'[s].msg = m /\ answer'[s].ok = ok
      BY <1>8, <2>1
    <3>2. ok <=> m \in ToSet(sent')
      BY <1>6, <2>0
    <3> QED BY <1>3, <2>1, <3>1, <3>2
  <2>2. CASE scheme # "publish" \/ s # m[1]
    <3>1. answer'[s] = answer[s] /\ caller'[s] = caller[s]
      BY <1>8, <2>2
    <3>2. /\ answer[s].msg[1] = s /\ scheme = "publish"
          /\ caller[s] = "idle" => answer[s].msg[2] = emits[s]
          /\ answer[s].ok <=> answer[s].msg \in ToSet(sent)
      BY <3>1 DEF QIInv, AnswersKnown, AnswersAreOwn
    <3>3. answer[s].msg # m
      BY <2>2, <3>2
    <3>4. answer[s].msg \in ToSet(sent') <=> answer[s].msg \in ToSet(sent)
      BY <2>0, <3>3
    <3> QED BY <3>1, <3>2, <3>4
  <2> QED BY <2>1, <2>2
<1> QED BY <1>11, <1>12, <1>13, <1>14, <1>15, <1>16, <1>17, <1>18, <1>19, <1>20, <1>21 DEF QIInv

LEMMA DoneKeeps == ASSUME QIInv, NEW t \in DOMAIN tables, Done(t) PROVE QIInv'
<1>1. /\ walk[t] = "sending" /\ Usable(via[t]) /\ Answer(t, TRUE)
      /\ pos' = [pos EXCEPT ![t] = @ + 1] /\ walk' = [walk EXCEPT ![t] = "ready"]
      /\ sent' = Append(sent, tables[t][pos[t]])
      /\ UNCHANGED <<scheme, tables, current, via, emiter, logins, opened, lost, closed, emits, faults>>
  BY DEF Done, netvars
<1>2. t = Len(tables)
  BY <1>1, OneSends
<1> QED BY <1>1, <1>2, PassKeeps

LEMMA FailedKeeps == ASSUME QIInv, NEW t \in DOMAIN tables, Failed(t) PROVE QIInv'
<1>1. /\ walk[t] = "sending" /\ ~Usable(via[t]) /\ Answer(t, FALSE)
      /\ UNCHANGED <<scheme, tables, via, emiter, logins, opened, lost, closed, emits, sent, faults>>
  BY DEF Failed, netvars
<1>2. closed \/ faults # 0
  <2>1. via[t] \in 1..logins
    BY <1>1 DEF QIInv, QTypeOK, WritersKnown
  <2> QED BY <1>1, <2>1 DEF Usable, QIInv, ConnectionKnown
<1>3. CASE scheme = "publish"
  <2>1. /\ pos' = [pos EXCEPT ![t] = @ + 1] /\ walk' = [walk EXCEPT ![t] = "ready"]
        /\ UNCHANGED current
    BY <1>3 DEF Failed
  <2> QED BY <1>1, <1>2, <1>3, <2>1, PassKeeps
<1>4. CASE scheme # "publish"
  <2>1. End(t) /\ UNCHANGED <<pos, caller, answer>>
    BY <1>1, <1>4 DEF Failed, Answer
  <2> QED BY <1>1, <1>2, <1>4, <2>1, EndKeeps
<1> QED BY <1>3, <1>4

-----------------------------------------------------------------------------
(* The network, close, and the senders *)

LEMMA LoseKeeps == ASSUME QIInv, NEW c \in opened, Lose(c) PROVE QIInv'
<1>1. /\ lost' = lost \union {c} /\ faults' = faults + 1
      /\ UNCHANGED <<scheme, tables, current, walk, pos, via, emiter, logins, opened, closed, caller, emits,
                     answer, sent>>
  BY DEF Lose
<1>2. EntriesKnown' /\ EntriesUnique'
  BY <1>1, SameEntries
<1>3. QTypeOK' /\ faults' # 0
  BY <1>1 DEF QIInv, QTypeOK
<1>4. CallersKnown' /\ WritersKnown' /\ CurrentKnown' /\ SentPassed' /\ SentOrdered' /\ UnpassedWait' /\ AnswersKnown'
  BY <1>1 DEF QIInv, CallersKnown, WritersKnown, CurrentKnown, SentPassed, SentOrdered, UnpassedWait,
       AnswersKnown, AnswersAreOwn
<1>5. ConnectionKnown' /\ PassedSent' /\ WaitersAreQueued'
  BY <1>1, <1>3 DEF QIInv, ConnectionKnown, PassedSent, WaitersAreQueued
<1> QED BY <1>2, <1>3, <1>4, <1>5 DEF QIInv

LEMMA QCloseKeeps == ASSUME QIInv, Close PROVE QIInv'
<1>1. /\ closed' = TRUE /\ opened' = opened \ {emiter} /\ emiter' = 0
      /\ current' = (IF scheme = "stream" THEN 0 ELSE current)
      /\ UNCHANGED <<scheme, tables, walk, pos, via, logins, lost, caller, emits, answer, sent, faults>>
  BY DEF Close
<1>2. EntriesKnown' /\ EntriesUnique'
  BY <1>1, SameEntries
<1>3. QTypeOK'
  <2>1. 0 \in 0..Len(tables) /\ 0 \in 0..logins
    BY DEF QIInv, QTypeOK
  <2> QED BY <1>1, <2>1 DEF QIInv, QTypeOK
<1>4. CallersKnown' /\ WritersKnown' /\ SentPassed' /\ SentOrdered' /\ UnpassedWait' /\ AnswersKnown'
  BY <1>1 DEF QIInv, CallersKnown, WritersKnown, SentPassed, SentOrdered, UnpassedWait, AnswersKnown,
       AnswersAreOwn
<1>5. CurrentKnown' /\ PassedSent' /\ WaitersAreQueued'
  BY <1>1 DEF QIInv, CurrentKnown, PassedSent, WaitersAreQueued
<1>6. ConnectionKnown'
  <2>1. ASSUME scheme = "stream" PROVE logins = 1 /\ opened \ {emiter} = {}
    <3>1. CASE closed
      BY <2>1, <3>1 DEF QIInv, ConnectionKnown
    <3>2. CASE ~closed
      BY <2>1, <3>2 DEF QIInv, ConnectionKnown, QTypeOK
    <3> QED BY <3>1, <3>2 DEF QIInv, QTypeOK
  <2> QED BY <1>1, <2>1 DEF QIInv, ConnectionKnown
<1> QED BY <1>2, <1>3, <1>4, <1>5, <1>6 DEF QIInv

\* Whoever is idle has no message under way with the number of its next one.
LEMMA EmitKeeps == ASSUME QIInv, NEW s \in Senders, Emit(s) PROVE QIInv'
<1>1. /\ caller[s] = "idle" /\ emits[s] < MaxEmits
      /\ emits' = [emits EXCEPT ![s] = @ + 1]
      /\ UNCHANGED <<scheme, emiter, logins, opened, lost, closed, answer, sent, faults>>
  BY DEF Emit, netvars
<1>2. /\ emits[s] \in Nat /\ emits'[s] = emits[s] + 1 /\ emits[s] + 1 \in 1..MaxEmits
      /\ \A r \in Senders : r # s => emits'[r] = emits[r]
  BY <1>1, EmitsAssumption DEF QIInv, QTypeOK
<1>3. \A t \in DOMAIN tables : \A i \in DOMAIN tables[t] :
          tables[t][i][1] = s => tables[t][i][2] <= emits[s]
  BY DEF QIInv, EntriesKnown
<1>4. CASE (scheme = "stream" \/ emiter # 0) /\ Publish(s)
  <2> DEFINE n == emits[s] + 1
  <2>1. Enqueue(<<s, n>>) /\ caller' = [caller EXCEPT ![s] = IF scheme = "publish" THEN "waiting" ELSE "idle"]
    BY <1>2, <1>4 DEF Publish
  <2>2. ConnectionKnown'
    <3>1. emiter = 0 => closed
      BY <1>4 DEF QIInv, ConnectionKnown
    <3> QED BY <1>1, <3>1 DEF QIInv, ConnectionKnown
  <2>3. \A t \in DOMAIN tables : \A i \in DOMAIN tables[t] :
            tables[t][i][1] = s => tables[t][i][2] < n
    <3> SUFFICES ASSUME NEW t \in DOMAIN tables, NEW i \in DOMAIN tables[t], tables[t][i][1] = s
                 PROVE  tables[t][i][2] < n
      OBVIOUS
    <3>1. tables[t][i][2] \in Nat
      BY EntryTyped DEF QIInv
    <3> QED BY <1>2, <1>3, <3>1
  <2>4. logins' \in Nat /\ logins <= logins' /\ emiter' \in 0..logins' /\ opened' \subseteq 1..logins'
    BY <1>1 DEF QIInv, QTypeOK
  <2>5. n \in 1..MaxEmits /\ emits' = [emits EXCEPT ![s] = n] /\ emits[s] <= n
    BY <1>1, <1>2
  <2> HIDE DEF n
  <2>6. caller[s] # "waiting"
    BY <1>1
  <2> QED BY <1>1, <2>1, <2>2, <2>3, <2>4, <2>5, <2>6, PublishKeeps
<1>5. CASE /\ scheme # "stream" /\ emiter = 0 /\ caller' = [caller EXCEPT ![s] = "login"]
           /\ UNCHANGED <<tables, current, walk, pos, via>>
  <2>1. QTypeOK'
    BY <1>1, <1>5, EmitsAssumption DEF QIInv, QTypeOK
  <2>2. caller'[s] = "login" /\ \A r \in Senders : r # s => caller'[r] = caller[r]
    BY <1>5 DEF QIInv, QTypeOK
  <2>3. CallersKnown'
    BY <1>1, <1>2, <1>5, <2>2, EmitsAssumption DEF QIInv, CallersKnown
  <2>4. EntriesKnown' /\ EntriesUnique'
    <3>1. EntriesUnique'
      BY <1>5 DEF QIInv, EntriesUnique
    <3>2. EntriesKnown'
      <4> SUFFICES ASSUME NEW t \in DOMAIN tables, NEW i \in DOMAIN tables[t]
                   PROVE  /\ tables[t][i][2] <= emits'[tables[t][i][1]]
                          /\ caller'[tables[t][i][1]] = "login" => tables[t][i][2] < emits'[tables[t][i][1]]
        BY <1>5 DEF EntriesKnown
      <4>1. tables[t][i][1] \in Senders /\ tables[t][i][2] \in Nat
        BY EntryTyped DEF QIInv
      <4>2. CASE tables[t][i][1] = s
        BY <1>2, <1>3, <4>1, <4>2
      <4>3. CASE tables[t][i][1] # s
        BY <1>2, <2>2, <4>1, <4>3 DEF QIInv, EntriesKnown
      <4> QED BY <4>2, <4>3
    <3> QED BY <3>1, <3>2
  <2>5. WritersKnown' /\ CurrentKnown' /\ ConnectionKnown' /\ SentPassed' /\ SentOrdered' /\ PassedSent'
    BY <1>1, <1>5 DEF QIInv, WritersKnown, CurrentKnown, ConnectionKnown, SentPassed, SentOrdered, PassedSent
  <2>6. UnpassedWait'
    <3> SUFFICES ASSUME scheme = "publish", NEW t \in DOMAIN tables, NEW i \in DOMAIN tables[t], i >= pos[t]
                 PROVE  caller'[tables[t][i][1]] = "waiting" /\ tables[t][i][2] = emits'[tables[t][i][1]]
      BY <1>1, <1>5 DEF UnpassedWait
    <3>1. caller[tables[t][i][1]] = "waiting" /\ tables[t][i][2] = emits[tables[t][i][1]]
      BY DEF QIInv, UnpassedWait
    <3>2. tables[t][i][1] \in Senders
      BY EntryTyped DEF QIInv
    <3> QED BY <1>1, <1>2, <2>2, <3>1, <3>2
  <2>7. WaitersAreQueued'
    <3> SUFFICES ASSUME NEW r \in Senders, caller'[r] = "waiting", ~closed
                 PROVE  \E t \in DOMAIN tables :
                          /\ walk[t] # "ended"
                          /\ \E i \in pos[t]..Len(tables[t]) : tables[t][i] = <<r, emits'[r]>>
      BY <1>1, <1>5 DEF WaitersAreQueued
    <3>1. r # s /\ caller[r] = "waiting"
      BY <2>2
    <3> QED BY <1>2, <3>1 DEF QIInv, WaitersAreQueued
  <2>8. AnswersKnown'
    <3> SUFFICES ASSUME NEW r \in Senders, answer[r] # NoAnswer
                 PROVE  /\ answer[r].msg[1] = r
                        /\ caller'[r] = "idle" => answer[r].msg[2] = emits'[r]
                        /\ answer[r].ok <=> answer[r].msg \in ToSet(sent)
                        /\ scheme = "publish"
      BY <1>1, <1>5 DEF AnswersKnown, AnswersAreOwn
    <3> QED BY <1>2, <2>2 DEF QIInv, AnswersKnown, AnswersAreOwn
  <2> QED BY <2>1, <2>3, <2>4, <2>5, <2>6, <2>7, <2>8 DEF QIInv
<1> QED BY <1>4, <1>5 DEF Emit

LEMMA LoggedInKeeps == ASSUME QIInv, NEW s \in Senders, LoggedIn(s) PROVE QIInv'
<1> DEFINE n == emits[s]
<1>1. /\ caller[s] = "login" /\ logins' = logins + 1 /\ emiter' = logins' /\ opened' = opened \union {logins'}
      /\ Publish(s)
      /\ UNCHANGED <<emits, scheme, lost, closed, answer, sent, faults>>
  BY DEF LoggedIn
<1>2. n \in 1..MaxEmits /\ emits' = [emits EXCEPT ![s] = n] /\ n <= n
  BY <1>1, EmitsAssumption DEF QIInv, QTypeOK, CallersKnown
<1>3. Enqueue(<<s, n>>) /\ caller' = [caller EXCEPT ![s] = IF scheme = "publish" THEN "waiting" ELSE "idle"]
  BY <1>1 DEF Publish
<1>4. \A t \in DOMAIN tables : \A i \in DOMAIN tables[t] : tables[t][i][1] = s => tables[t][i][2] < n
  BY <1>1 DEF QIInv, EntriesKnown
<1>5. logins' \in Nat /\ logins <= logins' /\ emiter' \in 0..logins' /\ opened' \subseteq 1..logins' /\ emiter' # 0
  BY <1>1 DEF QIInv, QTypeOK
<1>6. scheme # "stream"
  BY <1>1 DEF QIInv, CallersKnown
<1>7. ConnectionKnown'
  <2>1. logins \in Nat
    BY DEF QIInv, QTypeOK
  <2>2. (1..logins) \union {logins + 1} = 1..(logins + 1)
    BY <2>1
  <2>3. ~closed => opened' = 1..logins'
    BY <1>1, <2>2 DEF QIInv, ConnectionKnown
  <2> QED BY <1>1, <1>5, <1>6, <2>3 DEF QIInv, ConnectionKnown
<1> HIDE DEF n
<1>8. caller[s] # "waiting" /\ emits[s] <= n
  BY <1>1, <1>2 DEF n
<1> QED BY <1>1, <1>2, <1>3, <1>4, <1>5, <1>7, <1>8, PublishKeeps

-----------------------------------------------------------------------------
(* The theorems *)

LEMMA QInitHolds == QInit => QIInv
<1> SUFFICES ASSUME QInit PROVE QIInv
  OBVIOUS
<1> USE DEF QInit
<1>1. DOMAIN tables = {} /\ DOMAIN sent = {} /\ tables = <<>> /\ sent = <<>>
  OBVIOUS
<1>2. scheme \in Schemes /\ scheme \in {"stream", "stomp", "publish"} /\ emiter \in 0..1 /\ logins = emiter
  BY SchemesAssumption
<1>3. QTypeOK
  <2>1. /\ walk \in [DOMAIN tables -> {"ready", "sending", "ended", "raised"}]
        /\ pos \in [DOMAIN tables -> Nat \ {0}] /\ via \in [DOMAIN tables -> 0..logins]
    OBVIOUS
  <2>2. tables \in Seq(Seq(Messages)) /\ sent \in Seq(Messages) /\ Len(tables) = 0
    OBVIOUS
  <2>3. current \in 0..Len(tables) /\ logins \in Nat /\ emiter \in 0..logins /\ opened \subseteq 1..logins
    BY <1>2, <2>2
  <2>4. /\ caller \in [Senders -> {"idle", "login", "waiting"}] /\ emits \in [Senders -> Nat]
        /\ answer \in [Senders -> {NoAnswer} \union [msg : Messages, ok : BOOLEAN]]
    OBVIOUS
  <2>5. scheme \in Schemes /\ lost \subseteq 1..logins /\ closed \in BOOLEAN /\ faults \in Nat
    OBVIOUS
  <2> QED BY <2>1, <2>2, <2>3, <2>4, <2>5 DEF QTypeOK
<1>4. EntriesKnown /\ EntriesUnique /\ WritersKnown /\ SentPassed /\ SentOrdered /\ PassedSent /\ UnpassedWait
  BY <1>1 DEF EntriesKnown, EntriesUnique, WritersKnown, SentPassed, SentOrdered, PassedSent, UnpassedWait
<1>5. CallersKnown /\ CurrentKnown /\ ConnectionKnown /\ WaitersAreQueued /\ AnswersKnown
  BY <1>1, <1>2, EmitsAssumption DEF CallersKnown, CurrentKnown, ConnectionKnown, WaitersAreQueued, AnswersKnown,
       AnswersAreOwn
<1> QED BY <1>3, <1>4, <1>5 DEF QIInv

LEMMA QStutterKeeps == QIInv /\ UNCHANGED qvars => QIInv'
<1> SUFFICES ASSUME QIInv, UNCHANGED qvars PROVE QIInv'
  OBVIOUS
<1>1. UNCHANGED <<scheme, tables, current, walk, pos, via, emiter, logins, opened, lost, closed, caller, emits,
                  answer, sent, faults>>
  BY DEF qvars
<1>2. QTypeOK'
  BY <1>1 DEF QIInv, QTypeOK
<1>3. CallersKnown' /\ WritersKnown' /\ CurrentKnown' /\ ConnectionKnown'
  BY <1>1 DEF QIInv, CallersKnown, WritersKnown, CurrentKnown, ConnectionKnown
<1>4. EntriesKnown'
  BY <1>1 DEF QIInv, EntriesKnown
<1>5. EntriesUnique'
  BY <1>1 DEF QIInv, EntriesUnique
<1>6. SentPassed' /\ PassedSent' /\ UnpassedWait'
  BY <1>1 DEF QIInv, SentPassed, PassedSent, UnpassedWait
<1>7. SentOrdered'
  BY <1>1 DEF QIInv, SentOrdered
<1>8. WaitersAreQueued' /\ AnswersKnown'
  BY <1>1 DEF QIInv, WaitersAreQueued, AnswersKnown, AnswersAreOwn
<1> QED BY <1>2, <1>3, <1>4, <1>5, <1>6, <1>7, <1>8 DEF QIInv

LEMMA QNextKeeps == QIInv /\ [QNext]_qvars => QIInv'
<1> SUFFICES ASSUME QIInv, [QNext]_qvars PROVE QIInv'
  OBVIOUS
<1>1. ASSUME NEW s \in Senders, LoggedIn(s) \/ Emit(s) PROVE QIInv'
  BY <1>1, LoggedInKeeps, EmitKeeps
<1>2. ASSUME NEW t \in DOMAIN tables, WriterStep(t) \/ Raised(t) PROVE QIInv'
  BY <1>2, BeginKeeps, SkipKeeps, DoneKeeps, FailedKeeps, FinishKeeps, RaisedKeeps DEF WriterStep
<1>3. ASSUME NEW c \in opened, Lose(c) PROVE QIInv'
  BY <1>3, LoseKeeps
<1>4. CASE Close
  BY <1>4, QCloseKeeps
<1>5. CASE UNCHANGED qvars
  BY <1>5, QStutterKeeps
<1> QED BY <1>1, <1>2, <1>3, <1>4, <1>5 DEF QNext, QRunning

LEMMA QInvariance == QSpec => []QIInv
BY QInitHolds, QNextKeeps, PTL DEF QSpec

\* The places of what was sent are those the invariant knows.
LEMMA PlaceOfEntry ==
    ASSUME QIInv, NEW t \in DOMAIN tables, NEW i \in DOMAIN tables[t]
    PROVE  PlaceOf(tables[t][i]) = <<t, i>>
<1>1. \A p : p \in Places <=> \E u \in DOMAIN tables : \E j \in DOMAIN tables[u] : p = <<u, j>>
  BY DEF Places
<1>2. <<t, i>> \in Places /\ At(<<t, i>>) = tables[t][i]
  BY <1>1 DEF At
<1>3. ASSUME NEW p \in Places, At(p) = tables[t][i] PROVE p = <<t, i>>
  <2>1. PICK u \in DOMAIN tables : \E j \in DOMAIN tables[u] : p = <<u, j>>
    BY <1>1
  <2>2. PICK j \in DOMAIN tables[u] : p = <<u, j>>
    BY <2>1
  <2>3. tables[u][j] = tables[t][i]
    BY <1>3, <2>2 DEF At
  <2>4. u = t /\ j = i
    BY <2>3 DEF QIInv, EntriesUnique
  <2> QED BY <2>2, <2>4
<1> QED BY <1>2, <1>3 DEF PlaceOf

LEMMA OrderHolds == QIInv => SentInOrder
<1> SUFFICES ASSUME QIInv PROVE SentInOrder
  OBVIOUS
<1>1. ASSUME NEW k \in DOMAIN sent
      PROVE  \E t \in DOMAIN tables : \E i \in DOMAIN tables[t] :
                i < pos[t] /\ tables[t][i] = sent[k] /\ PlaceOf(sent[k]) = <<t, i>>
  <2>1. PICK t \in DOMAIN tables : \E i \in DOMAIN tables[t] : i < pos[t] /\ tables[t][i] = sent[k]
    BY DEF QIInv, SentPassed
  <2>2. PICK i \in DOMAIN tables[t] : i < pos[t] /\ tables[t][i] = sent[k]
    BY <2>1
  <2>3. PlaceOf(tables[t][i]) = <<t, i>>
    BY PlaceOfEntry
  <2> QED BY <2>2, <2>3
<1>2. ASSUME NEW k \in DOMAIN sent, NEW l \in DOMAIN sent, k < l
      PROVE  Before(PlaceOf(sent[k]), PlaceOf(sent[l]))
  <2>1. PICK t \in DOMAIN tables : \E i \in DOMAIN tables[t] :
                tables[t][i] = sent[k] /\ PlaceOf(sent[k]) = <<t, i>>
    BY <1>1
  <2>2. PICK i \in DOMAIN tables[t] : tables[t][i] = sent[k] /\ PlaceOf(sent[k]) = <<t, i>>
    BY <2>1
  <2>3. PICK u \in DOMAIN tables : \E j \in DOMAIN tables[u] :
                tables[u][j] = sent[l] /\ PlaceOf(sent[l]) = <<u, j>>
    BY <1>1
  <2>4. PICK j \in DOMAIN tables[u] : tables[u][j] = sent[l] /\ PlaceOf(sent[l]) = <<u, j>>
    BY <2>3
  <2>5. t < u \/ (t = u /\ i < j)
    BY <1>2, <2>2, <2>4 DEF QIInv, SentOrdered
  <2> QED BY <2>2, <2>4, <2>5 DEF Before
<1>3. ASSUME faults = 0, ~closed, NEW k \in DOMAIN sent, NEW p \in Places, Before(p, PlaceOf(sent[k]))
      PROVE  At(p) \in ToSet(sent)
  <2>1. PICK u \in DOMAIN tables : \E j \in DOMAIN tables[u] : p = <<u, j>>
    BY DEF Places
  <2>2. PICK j \in DOMAIN tables[u] : p = <<u, j>>
    BY <2>1
  <2>3. PICK t \in DOMAIN tables : \E i \in DOMAIN tables[t] : i < pos[t] /\ PlaceOf(sent[k]) = <<t, i>>
    BY <1>1
  <2>4. PICK i \in DOMAIN tables[t] : i < pos[t] /\ PlaceOf(sent[k]) = <<t, i>>
    BY <2>3
  <2>5. u < t \/ (u = t /\ j < i)
    BY <1>3, <2>2, <2>4 DEF Before
  <2>6. /\ i \in Nat /\ j \in Nat /\ t \in Nat /\ u \in Nat /\ t <= Len(tables) /\ Len(tables) \in Nat
        /\ j <= Len(tables[u]) /\ Len(tables[u]) \in Nat /\ pos[u] \in Nat /\ u # 0
    BY SequenceOfEntries DEF QIInv
  <2>7. j < pos[u]
    <3>1. CASE u = t
      BY <2>4, <2>5, <2>6, <3>1
    <3>2. CASE u < t
      <4>1. u # current
        BY <2>6, <3>2 DEF QIInv, CurrentKnown
      <4>2. walk[u] = "ended"
        BY <1>3, <4>1 DEF QIInv, CurrentKnown
      <4>3. pos[u] > Len(tables[u])
        BY <1>3, <4>2 DEF QIInv, PassedSent
      <4> QED BY <2>6, <4>3
    <3> QED BY <2>5, <3>1, <3>2
  <2>8. tables[u][j] \in ToSet(sent)
    BY <1>3, <2>7 DEF QIInv, PassedSent
  <2> QED BY <2>2, <2>8 DEF At
<1> QED BY <1>2, <1>3 DEF SentInOrder

\* Every variable keeps its type (QTypeOK), whatever clients, network and close do.
THEOREM QueueTypeCorrect == QSpec => []QTypeOK
<1>1. QIInv => QTypeOK
  BY DEF QIInv
<1> QED BY <1>1, QInvariance, PTL

\* The write queues of streams and of clients of message queues serve their senders: messages
\* go out in the order in which they were emitted, once, and with no gap as long as nothing
\* fails; whoever waits has its message in a queue with a writer; answers are about the
\* caller's own message and true.
THEOREM QueueServesSenders == QSpec => []SendersAreServed
<1>1. QIInv => SendersAreServed
  BY OrderHolds DEF QIInv, AnswersKnown, SendersAreServed
<1> QED BY <1>1, QInvariance, PTL

\* What was sent stays sent, and is only added to: no writer takes back or repeats a message,
\* in whatever order writers, closes and losses come.
THEOREM SentIsKept == QSpec => [][sent' = sent \/ \E m \in Messages : m \notin ToSet(sent) /\ sent' = Append(sent, m)]_qvars
<1> DEFINE Grows == sent' = sent \/ \E m \in Messages : m \notin ToSet(sent) /\ sent' = Append(sent, m)
<1>1. ASSUME QIInv, [QNext]_qvars PROVE [Grows]_qvars
  <2>1. ASSUME NEW t \in DOMAIN tables, Done(t) PROVE Grows
    <3>1. walk[t] = "sending" /\ sent' = Append(sent, tables[t][pos[t]])
      BY <2>1 DEF Done
    <3>2. pos[t] \in DOMAIN tables[t] /\ pos[t] \in Nat
      BY <1>1, <3>1, SequenceOfEntries DEF QIInv, WritersKnown
    <3>3. tables[t][pos[t]] \in Messages
      BY <1>1, <3>2, EntryTyped DEF QIInv
    <3>4. tables[t][pos[t]] \notin ToSet(sent)
      <4> SUFFICES ASSUME NEW k \in DOMAIN sent, sent[k] = tables[t][pos[t]] PROVE FALSE
        BY DEF ToSet
      <4>1. PICK u \in DOMAIN tables : \E j \in DOMAIN tables[u] : j < pos[u] /\ tables[u][j] = sent[k]
        BY <1>1 DEF QIInv, SentPassed
      <4> QED BY <1>1, <3>2, <4>1 DEF QIInv, EntriesUnique
    <3> QED BY <3>1, <3>3, <3>4
  <2>2. ASSUME NEW s \in Senders, LoggedIn(s) \/ Emit(s) PROVE Grows
    BY <2>2 DEF LoggedIn, Emit
  <2>3. ASSUME NEW t \in DOMAIN tables, Begin(t) \/ Skip(t) \/ Failed(t) \/ Finish(t) \/ Raised(t) PROVE Grows
    BY <2>3 DEF Begin, Skip, Failed, Finish, Raised
  <2>4. ASSUME NEW c \in opened, Lose(c) PROVE Grows
    BY <2>4 DEF Lose
  <2>5. CASE Close
    BY <2>5 DEF Close
  <2>6. CASE UNCHANGED qvars
    BY <2>6
  <2> HIDE DEF Grows
  <2> QED BY <1>1, <2>1, <2>2, <2>3, <2>4, <2>5, <2>6 DEF QNext, QRunning, WriterStep
<1> QED BY <1>1, QInvariance, PTL DEF QSpec

(***************************************************************************)
(* AioFile.                                                                *)
(***************************************************************************)

-----------------------------------------------------------------------------
(* The inductive invariant. *)

Dirty == disturbed \/ failures > 0 \/ status = "closed"

\* One coroutine at a time has a lock, and a coroutine in a method has its lock.
LocksExclude ==
    /\ \A u \in Users : op[u].lock # "none" => op[u].lock \in locks
    /\ \A u, v \in Users : op[u].lock # "none" /\ op[u].lock = op[v].lock => u = v

\* Clean runs beside no read or write, or that is on record.
CleanIsAlone == ~disturbed => ~("CLEAN" \in locks /\ locks \intersect {"READ", "WRITE"} # {})

\* What a coroutine has asked for is what its method asks for.
KindsOf(lock) ==
    CASE lock = "none"  -> {"none"}
      [] lock = "WRITE" -> {"stat", "pwrite", "done"}
      [] lock = "READ"  -> {"stat", "pread", "done"}
      [] lock = "FLUSH" -> {"fsync", "done"}
      [] lock = "CLEAN" -> {"truncate", "stat", "done"}

RequestsKnown ==
    /\ writes <= MaxWrites
    /\ \A u \in Users :
        /\ req[u].kind \in KindsOf(op[u].lock)
        /\ req[u].kind = "stat" => req[u].id = 0
        /\ req[u].kind = "pwrite" => req[u].id # 0
        /\ op[u].lock = "WRITE" => op[u].id \in 1..writes /\ req[u].id \in {0, op[u].id}

\* A write asks for the size of the file only if it knows no offset, and then writes at
\* its offset.
OffsetsKnown ==
    \A u \in Users : op[u].lock = "WRITE" =>
        /\ req[u].id # 0 => write_offset # None
        /\ ~disturbed => IF req[u].id = 0 THEN write_offset = None ELSE req[u].off = write_offset

\* Without a stat there is no offset, and a request fails only if requests fail.
StatKnown == stat = None => write_offset = None \/ Dirty
FailuresKnown == \A u \in Users : req[u].kind = "done" /\ ~res[u].ok => failures > 0 \/ status = "closed"

\* n bytes from off on are those of the write id.
Holds(id, off, n) == \A i \in (off + 1)..(off + n) : i <= Len(file) /\ file[i] = id

\* The bytes of a write that is through at the threads are in the file, and the next write
\* goes behind all that have returned.
WritesFollow ==
    ~disturbed =>
        /\ \A a \in acked : write_offset # None /\ a.off + a.n <= write_offset
        /\ \A u \in Users :
              op[u].lock = "WRITE" /\ req[u].kind = "done" /\ req[u].id # 0 /\ res[u].ok =>
                  Holds(req[u].id, req[u].off, res[u].n)

\* What had returned is forgotten by the time the file is empty.
CleanEmpties ==
    ~disturbed =>
        \A u \in Users :
            op[u].lock = "CLEAN" /\ (req[u].id = 0 \/ (req[u].kind = "done" /\ res[u].ok)) => acked = {}

\* There is a byte in the pipe as long as there are answers in the queue, and no other.
AnswersArePolled == pipe = (IF finished = {} THEN 0 ELSE 1)

FIInv ==
    /\ FTypeOK
    /\ LocksExclude
    /\ CleanIsAlone
    /\ RequestsKnown
    /\ OffsetsKnown
    /\ StatKnown
    /\ FailuresKnown
    /\ WritesFollow
    /\ CleanEmpties
    /\ WritesStay
    /\ LocksAreReleased
    /\ AnswersArePolled

-----------------------------------------------------------------------------
(* Taking a lock, giving it back, leaving it behind *)

LocksKnown == LocksExclude /\ CleanIsAlone /\ LocksAreReleased

OpsTyped == op \in [Users -> [lock : Locks \union {"none"}, id : Nat]] /\ locks \subseteq Locks

LEMMA EnterKeeps ==
    ASSUME FIInv, NEW u \in Users, NEW lock \in Locks, NEW id \in Nat, Enter(u, lock, id),
           UNCHANGED <<status, failures>>
    PROVE  /\ LocksKnown' /\ OpsTyped' /\ disturbed' \in BOOLEAN
           /\ op'[u] = [lock |-> lock, id |-> id] /\ \A v \in Users : v # u => op'[v] = op[v]
           /\ op[u].lock = "none" /\ lock \notin locks
<1>1. /\ status = "open" /\ op[u] = Idle /\ lock \notin locks /\ locks' = locks \union {lock}
      /\ op' = [op EXCEPT ![u] = [lock |-> lock, id |-> id]]
      /\ disturbed' = (disturbed \/ Disturbs(lock))
  BY DEF Enter
<1>2. op \in [Users -> [lock : Locks \union {"none"}, id : Nat]] /\ locks \subseteq Locks /\ disturbed \in BOOLEAN
  BY DEF FIInv, FTypeOK
<1>3. op'[u] = [lock |-> lock, id |-> id] /\ \A v \in Users : v # u => op'[v] = op[v]
  BY <1>1, <1>2
<1>4. LocksExclude'
  BY <1>1, <1>3 DEF FIInv, LocksExclude
<1>5. CleanIsAlone'
  BY <1>1 DEF FIInv, CleanIsAlone, Disturbs
<1>6. LocksAreReleased'
  <2>1. \A l \in locks : l # "none"
    BY <1>2 DEF Locks
  <2>2. \A v \in Users : op[v].lock \in locks => v # u
    BY <1>1, <2>1 DEF Idle
  <2>3. ASSUME NEW l \in locks, NEW v \in Users, op[v].lock = l PROVE op'[v].lock = l
    BY <1>3, <2>2, <2>3
  <2>4. op'[u].lock = lock
    BY <1>3
  <2> QED BY <1>1, <2>3, <2>4 DEF FIInv, LocksAreReleased
<1>7. OpsTyped' /\ disturbed' \in BOOLEAN
  BY <1>1, <1>2 DEF OpsTyped
<1> QED BY <1>1, <1>3, <1>4, <1>5, <1>6, <1>7 DEF LocksKnown, Idle

LEMMA ReturnsKeeps ==
    ASSUME FIInv, NEW u \in Users, NEW lock \in Locks, Returns(u, lock), op[u].lock = lock,
           UNCHANGED <<status, failures, disturbed>>
    PROVE  /\ LocksKnown' /\ OpsTyped'
           /\ op'[u] = Idle /\ req'[u] = NoReq
           /\ \A v \in Users : v # u => op'[v] = op[v] /\ req'[v] = req[v]
<1>1. locks' = locks \ {lock} /\ op' = [op EXCEPT ![u] = Idle] /\ req' = [req EXCEPT ![u] = NoReq]
  BY DEF Returns
<1>2. op \in [Users -> [lock : Locks \union {"none"}, id : Nat]] /\ locks \subseteq Locks
  BY DEF FIInv, FTypeOK
<1>3. op'[u] = Idle /\ req'[u] = NoReq /\ \A v \in Users : v # u => op'[v] = op[v] /\ req'[v] = req[v]
  BY <1>1 DEF FIInv, FTypeOK
<1>4. LocksExclude'
  BY <1>1, <1>3 DEF FIInv, LocksExclude, Idle, Locks
<1>5. CleanIsAlone'
  BY <1>1 DEF FIInv, CleanIsAlone
<1>6. LocksAreReleased'
  BY <1>1, <1>3 DEF FIInv, LocksAreReleased
<1>7. OpsTyped'
  BY <1>1, <1>2 DEF OpsTyped, Idle
<1> QED BY <1>3, <1>4, <1>5, <1>6, <1>7 DEF LocksKnown

LEMMA RaisesKeeps ==
    ASSUME FIInv, NEW u \in Users, Raises(u), op[u].lock \in {"READ", "WRITE"},
           status = "closed" \/ failures > 0 \/ (op[u].lock = "WRITE" /\ disturbed),
           UNCHANGED <<status, failures, disturbed>>
    PROVE  /\ LocksKnown' /\ OpsTyped'
           /\ op'[u] = Idle /\ req'[u] = NoReq
           /\ \A v \in Users : v # u => op'[v] = op[v] /\ req'[v] = req[v]
<1>1. locks' = locks /\ op' = [op EXCEPT ![u] = Idle] /\ req' = [req EXCEPT ![u] = NoReq]
  BY DEF Raises
<1>2. op \in [Users -> [lock : Locks \union {"none"}, id : Nat]] /\ locks \subseteq Locks
  BY DEF FIInv, FTypeOK
<1>3. op'[u] = Idle /\ req'[u] = NoReq /\ \A v \in Users : v # u => op'[v] = op[v] /\ req'[v] = req[v]
  BY <1>1 DEF FIInv, FTypeOK
<1>4. LocksExclude'
  BY <1>1, <1>3 DEF FIInv, LocksExclude, Idle, Locks
<1>5. CleanIsAlone'
  BY <1>1 DEF FIInv, CleanIsAlone
<1>6. LocksAreReleased'
  BY <1>1, <1>3 DEF FIInv, LocksAreReleased
<1>7. OpsTyped'
  BY <1>1, <1>2 DEF OpsTyped, Idle
<1> QED BY <1>3, <1>4, <1>5, <1>6, <1>7 DEF LocksKnown

\* A method goes on: nobody takes or leaves a lock.
LEMMA LocksStay ==
    ASSUME FIInv, UNCHANGED <<op, locks, disturbed>>, status' \in {status, "closed"}, failures' >= failures,
           failures' \in Nat
    PROVE  LocksKnown' /\ OpsTyped'
<1>1. LocksExclude'
  BY DEF FIInv, LocksExclude
<1>2. CleanIsAlone'
  BY DEF FIInv, CleanIsAlone
<1>3. LocksAreReleased'
  BY DEF FIInv, LocksAreReleased, FTypeOK
<1>4. OpsTyped'
  BY DEF FIInv, OpsTyped, FTypeOK
<1> QED BY <1>1, <1>2, <1>3, <1>4 DEF LocksKnown

-----------------------------------------------------------------------------
(* The types but for op and locks, and the conjuncts about offsets and bytes. *)

RestTyped ==
    /\ file \in Seq(0..MaxWrites)
    /\ status \in {"open", "closed"}
    /\ stat \in Nat \union {None}
    /\ read_offset \in Nat /\ write_offset \in Nat \union {None}
    /\ req \in [Users -> [kind : {"none", "done", "stat", "pread", "pwrite", "fsync", "truncate"},
                          off : Nat, id : Nat]]
    /\ res \in [Users -> [ok : BOOLEAN, n : Nat]]
    /\ finished \subseteq Users /\ pipe \in 0..1
    /\ acked \subseteq [id : Nat, off : Nat, n : Nat]
    /\ writes \in Nat /\ others \in Nat /\ failures \in Nat /\ disturbed \in BOOLEAN

LEMMA Types == FTypeOK <=> OpsTyped /\ RestTyped
BY DEF FTypeOK, OpsTyped, RestTyped

LEMMA Together ==
    ASSUME LocksKnown', OpsTyped', RestTyped', RequestsKnown', OffsetsKnown', StatKnown', FailuresKnown',
           WritesFollow', CleanEmpties', WritesStay', AnswersArePolled'
    PROVE  FIInv'
<1>1. FTypeOK'
  BY DEF FTypeOK, OpsTyped, RestTyped
<1> QED BY <1>1 DEF LocksKnown, FIInv

LEMMA WriteKeeps == ASSUME FIInv, NEW u \in Users, Write(u) PROVE FIInv'
<1> DEFINE w == writes + 1
           off == IF write_offset = None THEN stat ELSE write_offset
<1>1. /\ writes < MaxWrites /\ writes' = w /\ Enter(u, "WRITE", w)
      /\ req' = [req EXCEPT ![u] = IF off = None THEN [kind |-> "stat", off |-> 0, id |-> 0]
                                   ELSE [kind |-> "pwrite", off |-> off, id |-> w]]
      /\ write_offset' = off
      /\ UNCHANGED <<file, res, finished, pipe, status, stat, read_offset, acked, others, failures>>
  BY DEF Write, Ask, Io
<1>2. RestTyped /\ OpsTyped
  BY Types DEF FIInv
<1>3. w \in Nat /\ w \in 1..MaxWrites /\ off \in Nat \union {None} /\ w # 0
  BY <1>1, <1>2, MaxWritesAssumption DEF RestTyped
<1>4. /\ LocksKnown' /\ OpsTyped' /\ disturbed' \in BOOLEAN
      /\ op'[u] = [lock |-> "WRITE", id |-> w] /\ \A v \in Users : v # u => op'[v] = op[v]
      /\ op[u].lock = "none" /\ "WRITE" \notin locks
  BY <1>1, <1>3, EnterKeeps DEF Locks
<1>5. disturbed => disturbed'
  BY <1>1 DEF Enter
<1>6. \A v \in Users : v # u => op'[v].lock # "WRITE"
  BY <1>4 DEF FIInv, LocksExclude
<1>7. /\ req'[u] = IF off = None THEN [kind |-> "stat", off |-> 0, id |-> 0]
                   ELSE [kind |-> "pwrite", off |-> off, id |-> w]
      /\ \A v \in Users : v # u => req'[v] = req[v]
  BY <1>1, <1>2 DEF RestTyped
<1> HIDE DEF w, off
<1>8. RestTyped'
  BY <1>1, <1>2, <1>3, <1>4 DEF RestTyped, None
<1>9. RequestsKnown'
  <2>1. ASSUME NEW v \in Users, v # u
        PROVE  /\ req'[v].kind \in KindsOf(op'[v].lock)
               /\ req'[v].kind = "stat" => req'[v].id = 0
               /\ req'[v].kind = "pwrite" => req'[v].id # 0
               /\ op'[v].lock # "WRITE"
    BY <2>1, <1>4, <1>6, <1>7 DEF FIInv, RequestsKnown
  <2>2. /\ req'[u].kind \in KindsOf(op'[u].lock)
        /\ req'[u].kind = "stat" => req'[u].id = 0
        /\ req'[u].kind = "pwrite" => req'[u].id # 0
        /\ op'[u].id \in 1..writes' /\ req'[u].id \in {0, op'[u].id}
    <3>1. op'[u].lock = "WRITE" /\ op'[u].id = w /\ w \in 1..writes'
      BY <1>1, <1>3, <1>4
    <3>2. req'[u].id \in {0, w} /\ req'[u].kind \in {"stat", "pwrite"}
          /\ (req'[u].kind = "stat" => req'[u].id = 0) /\ (req'[u].kind = "pwrite" => req'[u].id # 0)
      BY <1>3, <1>7
    <3> QED BY <3>1, <3>2 DEF KindsOf
  <2>3. writes' <= MaxWrites
    BY <1>1, <1>3
  <2> QED BY <2>1, <2>2, <2>3 DEF RequestsKnown
<1>10. OffsetsKnown'
  BY <1>1, <1>3, <1>6, <1>7 DEF OffsetsKnown
<1>11. StatKnown'
  BY <1>1, <1>5 DEF FIInv, StatKnown, Dirty, off
<1>12. FailuresKnown'
  BY <1>1, <1>7 DEF FIInv, FailuresKnown
<1>13. WritesFollow'
  <2>1. req'[u].kind # "done"
    BY <1>7
  <2>2. \A a \in acked : ~disturbed => write_offset # None /\ a.off + a.n <= write_offset
    BY DEF FIInv, WritesFollow
  <2> QED BY <1>1, <1>5, <1>6, <2>1, <2>2 DEF WritesFollow, off
<1>14. CleanEmpties'
  BY <1>1, <1>4, <1>5, <1>7 DEF FIInv, CleanEmpties
<1>15. WritesStay' /\ AnswersArePolled'
  BY <1>1, <1>5 DEF FIInv, WritesStay, AnswersArePolled
<1> QED BY <1>4, <1>8, <1>9, <1>10, <1>11, <1>12, <1>13, <1>14, <1>15, Together

LEMMA PollKeeps == ASSUME FIInv, Poll PROVE FIInv'
<1>1. /\ pipe' = pipe - 1 /\ pipe > 0 /\ finished' = {}
      /\ UNCHANGED <<file, status, locks, stat, read_offset, write_offset, op, req, res, acked, writes, others,
                     failures, disturbed>>
  BY DEF Poll
<1>2. RestTyped /\ OpsTyped
  BY Types DEF FIInv
<1>3. RestTyped' /\ LocksKnown' /\ OpsTyped'
  BY <1>1, <1>2, LocksStay DEF RestTyped
<1>4. RequestsKnown' /\ OffsetsKnown'
  BY <1>1 DEF FIInv, RequestsKnown, OffsetsKnown
<1>5. StatKnown' /\ FailuresKnown'
  BY <1>1 DEF FIInv, StatKnown, FailuresKnown, Dirty
<1>6. WritesFollow' /\ CleanEmpties' /\ WritesStay'
  BY <1>1 DEF FIInv, WritesFollow, CleanEmpties, Holds, WritesStay
<1>7. AnswersArePolled'
  BY <1>1, <1>2 DEF RestTyped, AnswersArePolled
<1> QED BY <1>3, <1>4, <1>5, <1>6, <1>7, Together

\* Read, flush and clean begin: all that matters is that they are no write.
LEMMA BeginsKeeps ==
    ASSUME FIInv, NEW u \in Users, NEW lock \in {"READ", "FLUSH", "CLEAN"}, Enter(u, lock, 0),
           NEW kind \in KindsOf(lock), kind # "done", NEW id \in {0, 1}, kind = "stat" => id = 0,
           lock = "CLEAN" => id = 1, Ask(u, kind, 0, id), others' = others + 1,
           UNCHANGED <<Io, status, stat, read_offset, write_offset, acked, writes, failures>>
    PROVE  FIInv'
<1>1. UNCHANGED <<file, res, finished, pipe, status, stat, read_offset, acked, writes, failures, write_offset>>
  BY DEF Io
<1>2. RestTyped /\ OpsTyped
  BY Types DEF FIInv
<1>4. /\ LocksKnown' /\ OpsTyped' /\ disturbed' \in BOOLEAN
      /\ op'[u] = [lock |-> lock, id |-> 0] /\ \A v \in Users : v # u => op'[v] = op[v]
      /\ op[u].lock = "none" /\ lock \notin locks
  BY <1>1, EnterKeeps DEF Locks
<1>5. disturbed => disturbed'
  BY DEF Enter
<1>6. kind \in {"stat", "pread", "fsync", "truncate"}
  BY DEF KindsOf
<1>7. req'[u] = [kind |-> kind, off |-> 0, id |-> id] /\ \A v \in Users : v # u => req'[v] = req[v]
  BY <1>2 DEF RestTyped, Ask
<1>8. RestTyped'
  <2>1. req' \in [Users -> [kind : {"none", "done", "stat", "pread", "pwrite", "fsync", "truncate"},
                            off : Nat, id : Nat]]
    BY <1>2, <1>6 DEF RestTyped, Ask
  <2> QED BY <1>1, <1>2, <1>4, <2>1 DEF RestTyped
<1>9. RequestsKnown'
  <2>1. ASSUME NEW v \in Users, v # u
        PROVE  /\ req'[v].kind \in KindsOf(op'[v].lock)
               /\ req'[v].kind = "stat" => req'[v].id = 0
               /\ req'[v].kind = "pwrite" => req'[v].id # 0
               /\ op'[v].lock = "WRITE" => op'[v].id \in 1..writes /\ req'[v].id \in {0, op'[v].id}
    BY <2>1, <1>4, <1>7 DEF FIInv, RequestsKnown
  <2>2. /\ req'[u].kind \in KindsOf(op'[u].lock) /\ req'[u].kind = kind /\ req'[u].id = id /\ op'[u].lock # "WRITE"
    BY <1>4, <1>7
  <2> QED BY <1>1, <1>6, <2>1, <2>2 DEF FIInv, RequestsKnown
<1>10. \A v \in Users : op'[v].lock = "WRITE" => v # u /\ op[v].lock = "WRITE" /\ req'[v] = req[v]
  BY <1>4, <1>7
<1>11. OffsetsKnown'
  BY <1>1, <1>5, <1>10 DEF FIInv, OffsetsKnown
<1>12. StatKnown' /\ FailuresKnown'
  BY <1>1, <1>5, <1>6, <1>7 DEF FIInv, StatKnown, FailuresKnown, Dirty
<1>13. WritesFollow'
  BY <1>1, <1>5, <1>10 DEF FIInv, WritesFollow, Holds
<1>14. CleanEmpties'
  BY <1>1, <1>4, <1>5, <1>6, <1>7 DEF FIInv, CleanEmpties
<1>15. WritesStay' /\ AnswersArePolled'
  BY <1>1, <1>5 DEF FIInv, WritesStay, AnswersArePolled
<1> QED BY <1>4, <1>8, <1>9, <1>11, <1>12, <1>13, <1>14, <1>15, Together

LEMMA ReadKeeps == ASSUME FIInv, NEW u \in Users, Read(u) PROVE FIInv'
<1>1. "stat" \in KindsOf("READ")
  BY DEF KindsOf
<1> QED BY <1>1, BeginsKeeps DEF Read, Other

LEMMA FlushKeeps == ASSUME FIInv, NEW u \in Users, Flush(u) PROVE FIInv'
<1>1. "fsync" \in KindsOf("FLUSH")
  BY DEF KindsOf
<1> QED BY <1>1, BeginsKeeps DEF Flush, Other

LEMMA CleanKeeps == ASSUME FIInv, NEW u \in Users, Clean(u) PROVE FIInv'
<1>1. "truncate" \in KindsOf("CLEAN")
  BY DEF KindsOf
<1> QED BY <1>1, BeginsKeeps DEF Clean, Other

LEMMA LseekKeeps == ASSUME FIInv, Lseek PROVE FIInv'
<1>1. /\ disturbed' = TRUE /\ others' = others + 1 /\ read_offset' \in {0, read_offset}
      /\ write_offset' \in {0, write_offset}
      /\ UNCHANGED <<file, res, finished, pipe, status, locks, stat, op, req, acked, writes, failures>>
  BY DEF Lseek, Other, Io
<1>2. RestTyped /\ OpsTyped
  BY Types DEF FIInv
<1>3. RestTyped' /\ OpsTyped'
  BY <1>1, <1>2 DEF RestTyped, OpsTyped
<1>4. LocksKnown'
  BY <1>1 DEF FIInv, LocksKnown, LocksExclude, CleanIsAlone, LocksAreReleased
<1>5. RequestsKnown' /\ OffsetsKnown'
  BY <1>1 DEF FIInv, RequestsKnown, OffsetsKnown, None
<1>6. StatKnown' /\ FailuresKnown'
  BY <1>1 DEF FIInv, StatKnown, FailuresKnown, Dirty
<1>7. WritesFollow' /\ CleanEmpties' /\ WritesStay' /\ AnswersArePolled'
  BY <1>1 DEF FIInv, WritesFollow, CleanEmpties, WritesStay, AnswersArePolled
<1> QED BY <1>3, <1>4, <1>5, <1>6, <1>7, Together

LEMMA FCloseKeeps == ASSUME FIInv, CloseFile PROVE FIInv'
<1>1. /\ status' = "closed" /\ others' = others + 1
      /\ UNCHANGED <<file, res, finished, pipe, locks, stat, read_offset, write_offset, op, req, acked, writes,
                     failures, disturbed>>
  BY DEF CloseFile, Other, Io
<1>2. RestTyped /\ OpsTyped
  BY Types DEF FIInv
<1>3. RestTyped' /\ OpsTyped' /\ LocksKnown'
  BY <1>1, <1>2, LocksStay DEF RestTyped
<1>4. RequestsKnown' /\ OffsetsKnown'
  BY <1>1 DEF FIInv, RequestsKnown, OffsetsKnown
<1>5. StatKnown' /\ FailuresKnown'
  BY <1>1 DEF FIInv, StatKnown, FailuresKnown, Dirty
<1>6. WritesFollow' /\ CleanEmpties' /\ WritesStay' /\ AnswersArePolled'
  BY <1>1 DEF FIInv, WritesFollow, CleanEmpties, Holds, WritesStay, AnswersArePolled
<1> QED BY <1>3, <1>4, <1>5, <1>6, Together

\* A method ends, and leaves bytes and the offset of writes alone.
LEMMA EndsKeep ==
    ASSUME FIInv, NEW u \in Users, LocksKnown', OpsTyped', op'[u] = Idle, req' = [req EXCEPT ![u] = NoReq],
           \A v \in Users : v # u => op'[v] = op[v],
           UNCHANGED <<Io, status, write_offset, acked, writes, others, failures, disturbed>>,
           stat' \in {stat} \union Nat, read_offset' \in Nat
    PROVE  FIInv'
<1>1. UNCHANGED <<file, res, finished, pipe, status, write_offset, acked, writes, others, failures, disturbed>>
  BY DEF Io
<1>2. RestTyped
  BY Types DEF FIInv
<1>3. req'[u] = NoReq /\ \A v \in Users : v # u => req'[v] = req[v]
  BY <1>2 DEF RestTyped
<1>4. RestTyped'
  BY <1>1, <1>2 DEF RestTyped, NoReq
<1>5. RequestsKnown'
  <2>1. req'[u].kind = "none" /\ op'[u].lock = "none" /\ req'[u].kind \in KindsOf(op'[u].lock)
    BY <1>3 DEF KindsOf, Idle, NoReq
  <2> QED BY <1>1, <1>3, <2>1 DEF FIInv, RequestsKnown
<1>6. \A v \in Users : op'[v].lock # "none" => v # u /\ op'[v] = op[v] /\ req'[v] = req[v]
  BY <1>3 DEF Idle
<1>7. OffsetsKnown' /\ StatKnown'
  BY <1>1, <1>6 DEF FIInv, OffsetsKnown, StatKnown, Dirty, None
<1>8. FailuresKnown'
  BY <1>1, <1>3 DEF FIInv, FailuresKnown, NoReq
<1>9. WritesFollow' /\ CleanEmpties'
  BY <1>1, <1>6 DEF FIInv, WritesFollow, CleanEmpties, Holds
<1>10. WritesStay' /\ AnswersArePolled'
  BY <1>1 DEF FIInv, WritesStay, AnswersArePolled
<1> QED BY <1>4, <1>5, <1>7, <1>8, <1>9, <1>10, Together

\* A method other than write goes on with a request.
LEMMA AsksKeep ==
    ASSUME FIInv, NEW u \in Users, op[u].lock \in {"READ", "CLEAN"}, NEW kind \in KindsOf(op[u].lock),
           kind # "done", NEW off \in Nat, NEW id \in {0, 1}, kind = "stat" => id = 0,
           op[u].lock = "CLEAN" => req[u].kind = "done" /\ res[u].ok, Ask(u, kind, off, id),
           UNCHANGED <<Io, status, locks, op, read_offset, write_offset, acked, writes, others, failures, disturbed>>,
           stat' \in {stat} \union Nat
    PROVE  FIInv'
<1>1. UNCHANGED <<file, res, finished, pipe, status, write_offset, acked, writes, others, failures, disturbed>>
  BY DEF Io
<1>2. RestTyped
  BY Types DEF FIInv
<1>a. kind \in {"stat", "pread", "truncate"}
  BY DEF KindsOf
<1>3. req'[u] = [kind |-> kind, off |-> off, id |-> id] /\ \A v \in Users : v # u => req'[v] = req[v]
  BY <1>2 DEF RestTyped, Ask
<1>4. RestTyped'
  BY <1>1, <1>2, <1>a DEF RestTyped, Ask
<1>5. LocksKnown' /\ OpsTyped'
  BY <1>1, <1>2, LocksStay DEF RestTyped
<1>6. RequestsKnown'
  <2>1. req'[u].kind = kind /\ req'[u].id = id
    BY <1>3
  <2> QED BY <1>1, <1>a, <1>3, <2>1 DEF FIInv, RequestsKnown
<1>7. \A v \in Users : op[v].lock = "WRITE" => v # u /\ req'[v] = req[v]
  BY <1>3
<1>8. OffsetsKnown' /\ StatKnown'
  BY <1>1, <1>7 DEF FIInv, OffsetsKnown, StatKnown, Dirty, None
<1>9. FailuresKnown'
  BY <1>1, <1>3, <1>a DEF FIInv, FailuresKnown
<1>10. WritesFollow'
  BY <1>1, <1>7 DEF FIInv, WritesFollow, Holds
<1>11. CleanEmpties'
  BY <1>1, <1>3 DEF FIInv, CleanEmpties
<1>12. WritesStay' /\ AnswersArePolled'
  BY <1>1 DEF FIInv, WritesStay, AnswersArePolled
<1> QED BY <1>4, <1>5, <1>6, <1>8, <1>9, <1>10, <1>11, <1>12, Together

LEMMA FlushEndsKeeps == ASSUME FIInv, NEW u \in Users, FlushEnds(u) PROVE FIInv'
<1>1. /\ op[u].lock = "FLUSH" /\ Returns(u, "FLUSH")
      /\ UNCHANGED <<Io, status, stat, read_offset, write_offset, acked, writes, others, failures, disturbed>>
  BY DEF FlushEnds
<1>2. LocksKnown' /\ OpsTyped' /\ op'[u] = Idle /\ \A v \in Users : v # u => op'[v] = op[v]
  BY <1>1, ReturnsKeeps DEF Locks
<1>3. req' = [req EXCEPT ![u] = NoReq] /\ read_offset' \in Nat
  BY <1>1 DEF Returns, FIInv, FTypeOK
<1> QED BY <1>1, <1>2, <1>3, EndsKeep

LEMMA ReadStatKeeps == ASSUME FIInv, NEW u \in Users, ReadStat(u) PROVE FIInv'
<1>1. /\ op[u].lock = "READ"
      /\ UNCHANGED <<Io, status, read_offset, write_offset, acked, writes, others, failures, disturbed>>
      /\ res[u].n \in Nat /\ read_offset' \in Nat /\ read_offset \in Nat
  BY DEF ReadStat, FIInv, FTypeOK
<1>2. CASE Returns(u, "READ") /\ UNCHANGED stat
  <2>1. LocksKnown' /\ OpsTyped' /\ op'[u] = Idle /\ \A v \in Users : v # u => op'[v] = op[v]
    BY <1>1, <1>2, ReturnsKeeps DEF Locks
  <2>2. req' = [req EXCEPT ![u] = NoReq]
    BY <1>2 DEF Returns
  <2> QED BY <1>1, <1>2, <2>1, <2>2, EndsKeep
<1>3. CASE stat' = res[u].n /\ Ask(u, "pread", read_offset, 1) /\ UNCHANGED <<op, locks>>
  <2>1. "pread" \in KindsOf(op[u].lock)
    BY <1>1 DEF KindsOf
  <2> QED BY <1>1, <1>3, <2>1, AsksKeep
<1>4. CASE status = "closed" /\ stat' = res[u].n /\ Raises(u)
  <2>1. LocksKnown' /\ OpsTyped' /\ op'[u] = Idle /\ \A v \in Users : v # u => op'[v] = op[v]
    BY <1>1, <1>4, RaisesKeeps
  <2>2. req' = [req EXCEPT ![u] = NoReq]
    BY <1>4 DEF Raises
  <2> QED BY <1>1, <1>4, <2>1, <2>2, EndsKeep
<1> QED BY <1>2, <1>3, <1>4 DEF ReadStat

LEMMA ReadEndsKeeps == ASSUME FIInv, NEW u \in Users, ReadEnds(u) PROVE FIInv'
<1>1. /\ op[u].lock = "READ" /\ req[u].kind = "done"
      /\ UNCHANGED <<Io, status, stat, write_offset, acked, writes, others, failures, disturbed>>
      /\ res[u].n \in Nat /\ read_offset \in Nat
  BY DEF ReadEnds, Answered, FIInv, FTypeOK
<1>2. CASE read_offset' = read_offset + res[u].n /\ Returns(u, "READ")
  <2>1. LocksKnown' /\ OpsTyped' /\ op'[u] = Idle /\ \A v \in Users : v # u => op'[v] = op[v]
    BY <1>1, <1>2, ReturnsKeeps DEF Locks
  <2>2. req' = [req EXCEPT ![u] = NoReq] /\ read_offset' \in Nat
    BY <1>1, <1>2 DEF Returns
  <2> QED BY <1>1, <2>1, <2>2, EndsKeep
<1>3. CASE ~res[u].ok /\ Raises(u) /\ UNCHANGED read_offset
  <2>1. failures > 0 \/ status = "closed"
    BY <1>1, <1>3 DEF FIInv, FailuresKnown
  <2>2. LocksKnown' /\ OpsTyped' /\ op'[u] = Idle /\ \A v \in Users : v # u => op'[v] = op[v]
    BY <1>1, <1>3, <2>1, RaisesKeeps
  <2>3. req' = [req EXCEPT ![u] = NoReq] /\ read_offset' \in Nat
    BY <1>1, <1>3 DEF Raises
  <2> QED BY <1>1, <2>2, <2>3, EndsKeep
<1> QED BY <1>2, <1>3 DEF ReadEnds

LEMMA CleanStatKeeps == ASSUME FIInv, NEW u \in Users, CleanStat(u) PROVE FIInv'
<1>1. /\ op[u].lock = "CLEAN" /\ req[u].kind = "done"
      /\ UNCHANGED <<Io, status, stat, read_offset, write_offset, acked, writes, others, failures, disturbed>>
      /\ read_offset' \in Nat
  BY DEF CleanStat, Answered, FIInv, FTypeOK
<1>2. CASE res[u].ok /\ Ask(u, "stat", 0, 0) /\ UNCHANGED <<op, locks>>
  <2>1. "stat" \in KindsOf(op[u].lock)
    BY <1>1 DEF KindsOf
  <2> QED BY <1>1, <1>2, <2>1, AsksKeep
<1>3. CASE Returns(u, "CLEAN")
  <2>1. LocksKnown' /\ OpsTyped' /\ op'[u] = Idle /\ \A v \in Users : v # u => op'[v] = op[v]
    BY <1>1, <1>3, ReturnsKeeps DEF Locks
  <2>2. req' = [req EXCEPT ![u] = NoReq]
    BY <1>3 DEF Returns
  <2> QED BY <1>1, <2>1, <2>2, EndsKeep
<1> QED BY <1>2, <1>3 DEF CleanStat

LEMMA CleanEndsKeeps == ASSUME FIInv, NEW u \in Users, CleanEnds(u) PROVE FIInv'
<1>1. /\ op[u].lock = "CLEAN" /\ req[u].id = 0 /\ req[u].kind = "done" /\ Returns(u, "CLEAN")
      /\ UNCHANGED <<Io, status, acked, writes, others, failures, disturbed>>
  BY DEF CleanEnds, Answered
<1>2. LocksKnown' /\ OpsTyped' /\ op'[u] = Idle /\ \A v \in Users : v # u => op'[v] = op[v]
  BY <1>1, ReturnsKeeps DEF Locks
<1>3. req' = [req EXCEPT ![u] = NoReq]
  BY <1>1 DEF Returns
<1>4. CASE UNCHANGED <<stat, read_offset, write_offset>>
  <2>1. read_offset' \in Nat
    BY <1>4 DEF FIInv, FTypeOK
  <2> QED BY <1>1, <1>2, <1>3, <1>4, <2>1, EndsKeep
<1>5. CASE /\ stat' = res[u].n /\ read_offset' = 0
           /\ write_offset' = (IF write_offset = None THEN None ELSE 0)
  <2>1. UNCHANGED <<file, res, finished, pipe, status, acked, writes, others, failures, disturbed>>
    BY <1>1 DEF Io
  <2>2. RestTyped
    BY Types DEF FIInv
  <2>3. req'[u] = NoReq /\ \A v \in Users : v # u => req'[v] = req[v]
    BY <1>3, <2>2 DEF RestTyped
  <2>4. stat' \in Nat /\ write_offset' \in Nat \union {None}
    BY <1>5, <2>2 DEF RestTyped
  <2>5. RestTyped'
    BY <1>3, <1>5, <2>1, <2>2, <2>4 DEF RestTyped, NoReq
  <2>6. RequestsKnown'
    <3>1. req'[u].kind = "none" /\ op'[u].lock = "none" /\ req'[u].kind \in KindsOf(op'[u].lock)
      BY <1>2, <2>3 DEF KindsOf, Idle, NoReq
    <3> QED BY <1>2, <2>1, <2>3, <3>1 DEF FIInv, RequestsKnown
  <2>7. \A v \in Users : op'[v].lock # "none" => v # u /\ op'[v] = op[v] /\ req'[v] = req[v]
    BY <1>2, <2>3 DEF Idle
  <2>8. ~disturbed => \A v \in Users : op[v].lock # "WRITE"
    BY <1>1 DEF FIInv, LocksExclude, CleanIsAlone
  <2>9. ~disturbed => acked = {}
    BY <1>1 DEF FIInv, FailuresKnown, CleanEmpties
  <2>10. OffsetsKnown'
    BY <1>5, <2>1, <2>7, <2>8 DEF FIInv, OffsetsKnown, None
  <2>11. StatKnown' /\ FailuresKnown'
    BY <2>1, <2>3, <2>4 DEF FIInv, StatKnown, FailuresKnown, None, NoReq
  <2>12. WritesFollow' /\ CleanEmpties'
    BY <2>1, <2>7, <2>8, <2>9 DEF FIInv, WritesFollow, CleanEmpties, Holds
  <2>13. WritesStay' /\ AnswersArePolled'
    BY <2>1 DEF FIInv, WritesStay, AnswersArePolled
  <2> QED BY <1>2, <2>5, <2>6, <2>10, <2>11, <2>12, <2>13, Together
<1> QED BY <1>4, <1>5 DEF CleanEnds

LEMMA WriteStatKeeps == ASSUME FIInv, NEW u \in Users, WriteStat(u) PROVE FIInv'
<1>1. /\ op[u].lock = "WRITE" /\ req[u].id = 0 /\ req[u].kind = "done"
      /\ UNCHANGED <<file, res, finished, pipe, status, read_offset, acked, writes, others, failures, disturbed>>
      /\ stat' = (IF res[u].ok THEN res[u].n ELSE None)
      /\ \/ /\ res[u].ok /\ status = "open" /\ write_offset' = res[u].n
            /\ Ask(u, "pwrite", res[u].n, op[u].id) /\ UNCHANGED <<op, locks>>
         \/ /\ res[u].ok /\ status = "closed" /\ write_offset' = res[u].n /\ Raises(u)
         \/ ~res[u].ok /\ Raises(u) /\ UNCHANGED write_offset
  BY DEF WriteStat, Answered, Io
<1>2. RestTyped
  BY Types DEF FIInv
<1>3. res[u].n \in Nat /\ stat' \in Nat \union {None} /\ write_offset' \in Nat \union {None}
  BY <1>1, <1>2 DEF RestTyped
<1>4. \A v \in Users : v # u => op[v].lock # "WRITE"
  BY <1>1 DEF FIInv, LocksExclude
<1>5. ~disturbed => acked = {}
  BY <1>1 DEF FIInv, OffsetsKnown, WritesFollow
<1>6. \A v \in Users : v # u => req'[v] = req[v] /\ op'[v] = op[v]
  BY <1>1, <1>2 DEF RestTyped, Ask, Raises, FIInv, FTypeOK
<1>7. ~res[u].ok => failures > 0 \/ status = "closed"
  BY <1>1 DEF FIInv, FailuresKnown
<1>8. StatKnown'
  BY <1>1, <1>3, <1>7 DEF StatKnown, Dirty, None
<1>9. WritesStay' /\ AnswersArePolled'
  BY <1>1 DEF FIInv, WritesStay, AnswersArePolled
<1>10. CASE Ask(u, "pwrite", res[u].n, op[u].id) /\ UNCHANGED <<op, locks>> /\ write_offset' = res[u].n
  <2>1. req'[u] = [kind |-> "pwrite", off |-> res[u].n, id |-> op[u].id]
    BY <1>2, <1>10 DEF RestTyped, Ask
  <2>2. op[u].id \in 1..writes /\ op[u].id \in Nat /\ op[u].id # 0
    BY <1>1, <1>2 DEF FIInv, RequestsKnown, RestTyped
  <2>3. RestTyped'
    BY <1>1, <1>2, <1>3, <1>10, <2>2 DEF RestTyped, Ask
  <2>4. LocksKnown' /\ OpsTyped'
    BY <1>1, <1>2, <1>10, LocksStay DEF RestTyped
  <2>5. RequestsKnown'
    <3>1. req'[u].kind = "pwrite" /\ req'[u].id = op'[u].id /\ op'[u].lock = "WRITE"
          /\ req'[u].kind \in KindsOf(op'[u].lock)
      BY <1>1, <1>10, <2>1 DEF KindsOf
    <3> QED BY <1>1, <1>6, <1>10, <2>2, <3>1 DEF FIInv, RequestsKnown
  <2>6. OffsetsKnown'
    BY <1>3, <1>4, <1>6, <1>10, <2>1, <2>2 DEF OffsetsKnown, None
  <2>7. FailuresKnown'
    BY <1>1, <1>6, <2>1 DEF FIInv, FailuresKnown
  <2>8. WritesFollow'
    BY <1>1, <1>4, <1>5, <1>6, <2>1 DEF WritesFollow
  <2>9. CleanEmpties'
    BY <1>1, <1>5 DEF CleanEmpties
  <2> QED BY <1>8, <1>9, <2>3, <2>4, <2>5, <2>6, <2>7, <2>8, <2>9, Together
<1>11. CASE Raises(u)
  <2>1. status = "closed" \/ failures > 0
    BY <1>1, <1>2, <1>7, <1>11 DEF Raises, Ask, FIInv, FTypeOK, Idle
  <2>2. LocksKnown' /\ OpsTyped' /\ op'[u] = Idle /\ req'[u] = NoReq
    BY <1>1, <1>11, <2>1, RaisesKeeps
  <2>3. RestTyped'
    BY <1>1, <1>2, <1>3, <1>11 DEF RestTyped, Raises, NoReq
  <2>4. RequestsKnown'
    <3>1. req'[u].kind = "none" /\ op'[u].lock = "none" /\ req'[u].kind \in KindsOf(op'[u].lock)
      BY <2>2 DEF KindsOf, Idle, NoReq
    <3> QED BY <1>1, <1>6, <3>1 DEF FIInv, RequestsKnown
  <2>5. OffsetsKnown'
    BY <1>4, <1>6, <2>2 DEF OffsetsKnown, Idle
  <2>6. FailuresKnown'
    BY <1>1, <1>6, <2>2 DEF FIInv, FailuresKnown, NoReq
  <2>7. WritesFollow'
    BY <1>1, <1>4, <1>5, <1>6, <2>2 DEF WritesFollow, Idle
  <2>8. CleanEmpties'
    BY <1>1, <1>5 DEF CleanEmpties
  <2> QED BY <1>8, <1>9, <2>2, <2>3, <2>4, <2>5, <2>6, <2>7, <2>8, Together
<1> QED BY <1>1, <1>10, <1>11

LEMMA WriteEndsKeeps == ASSUME FIInv, NEW u \in Users, WriteEnds(u) PROVE FIInv'
<1>1. /\ op[u].lock = "WRITE" /\ req[u].id # 0 /\ req[u].kind = "done"
      /\ UNCHANGED <<Io, file, res, finished, pipe, status, read_offset, writes, others, failures, disturbed>>
  BY DEF WriteEnds, Answered, Io
<1>2. RestTyped
  BY Types DEF FIInv
<1>3. /\ res[u].n \in Nat /\ read_offset \in Nat /\ write_offset \in Nat /\ req[u].id \in Nat /\ req[u].off \in Nat
  BY <1>1, <1>2 DEF RestTyped, FIInv, OffsetsKnown
<1>4. CASE ~res[u].ok /\ Returns(u, "WRITE") /\ UNCHANGED <<stat, write_offset, acked>>
  <2>1. LocksKnown' /\ OpsTyped' /\ op'[u] = Idle /\ \A v \in Users : v # u => op'[v] = op[v]
    BY <1>1, <1>4, ReturnsKeeps DEF Locks
  <2>2. req' = [req EXCEPT ![u] = NoReq]
    BY <1>4 DEF Returns
  <2> QED BY <1>1, <1>3, <1>4, <2>1, <2>2, EndsKeep
<1>5. CASE stat = None /\ Raises(u) /\ UNCHANGED <<stat, write_offset, acked>>
  <2>1. status = "closed" \/ failures > 0 \/ disturbed
    BY <1>1, <1>3, <1>5 DEF FIInv, StatKnown, Dirty, None
  <2>2. LocksKnown' /\ OpsTyped' /\ op'[u] = Idle /\ \A v \in Users : v # u => op'[v] = op[v]
    BY <1>1, <1>5, <2>1, RaisesKeeps
  <2>3. req' = [req EXCEPT ![u] = NoReq]
    BY <1>5 DEF Raises
  <2> QED BY <1>1, <1>3, <1>5, <2>2, <2>3, EndsKeep
<1>6. CASE /\ res[u].ok /\ stat # None /\ stat' = stat + res[u].n /\ write_offset' = write_offset + res[u].n
           /\ acked' = acked \union {[id |-> req[u].id, off |-> req[u].off, n |-> res[u].n]}
           /\ Returns(u, "WRITE")
  <2>1. LocksKnown' /\ OpsTyped' /\ op'[u] = Idle /\ req'[u] = NoReq
        /\ \A v \in Users : v # u => op'[v] = op[v] /\ req'[v] = req[v]
    BY <1>1, <1>6, ReturnsKeeps DEF Locks
  <2>2. req' = [req EXCEPT ![u] = NoReq]
    BY <1>6 DEF Returns
  <2>3. stat' \in Nat /\ write_offset' \in Nat /\ stat \in Nat
    BY <1>2, <1>3, <1>6 DEF RestTyped
  <2>4. [id |-> req[u].id, off |-> req[u].off, n |-> res[u].n] \in [id : Nat, off : Nat, n : Nat]
    BY <1>3
  <2>5. RestTyped'
    BY <1>1, <1>2, <1>6, <2>2, <2>3, <2>4 DEF RestTyped, NoReq
  <2>6. RequestsKnown'
    <3>1. req'[u].kind = "none" /\ op'[u].lock = "none" /\ req'[u].kind \in KindsOf(op'[u].lock)
      BY <2>1 DEF KindsOf, Idle, NoReq
    <3> QED BY <1>1, <2>1, <3>1 DEF FIInv, RequestsKnown
  <2>7. \A v \in Users : op'[v].lock # "WRITE"
    BY <1>1, <2>1 DEF FIInv, LocksExclude, Idle
  <2>8. OffsetsKnown' /\ StatKnown'
    BY <2>3, <2>7 DEF OffsetsKnown, StatKnown, None
  <2>9. FailuresKnown'
    BY <1>1, <2>1 DEF FIInv, FailuresKnown, NoReq
  <2>10. ~disturbed => req[u].off = write_offset /\ Holds(req[u].id, req[u].off, res[u].n)
                       /\ \A a \in acked : a.off + a.n <= write_offset
    BY <1>1, <1>6 DEF FIInv, OffsetsKnown, WritesFollow
  <2>11. WritesFollow'
    <3>1. \A a \in acked : a.off \in Nat /\ a.n \in Nat
      BY <1>2 DEF RestTyped
    <3> QED BY <1>1, <1>3, <1>6, <2>3, <2>7, <2>10, <3>1 DEF WritesFollow, None
  <2>12. ~disturbed => \A v \in Users : op[v].lock # "CLEAN"
    BY <1>1 DEF FIInv, LocksExclude, CleanIsAlone
  <2>13. CleanEmpties'
    BY <1>1, <2>1, <2>12 DEF CleanEmpties, Idle
  <2>14. WritesStay'
    <3>1. ASSUME ~disturbed, NEW a \in acked', NEW i \in (a.off + 1)..(a.off + a.n)
          PROVE  i <= Len(file) /\ file[i] = a.id
      <4>1. CASE a \in acked
        BY <3>1, <4>1 DEF FIInv, WritesStay
      <4>2. CASE a = [id |-> req[u].id, off |-> req[u].off, n |-> res[u].n]
        BY <3>1, <4>2, <2>10 DEF Holds
      <4> QED BY <1>6, <4>1, <4>2
    <3> QED BY <1>1, <3>1 DEF WritesStay
  <2>15. AnswersArePolled'
    BY <1>1 DEF FIInv, AnswersArePolled
  <2> QED BY <2>1, <2>5, <2>6, <2>8, <2>9, <2>11, <2>13, <2>14, <2>15, Together
<1> QED BY <1>4, <1>5, <1>6 DEF WriteEnds

\* pwrite leaves what is before its offset, and its bytes are there afterwards.
Written(new, off, m, id) ==
    /\ new \in Seq(0..MaxWrites)
    /\ Len(new) >= Len(file) /\ Len(new) >= off + m
    /\ \A i \in 1..Len(file) : i <= off => new[i] = file[i]
    /\ \A i \in (off + 1)..(off + m) : new[i] = id

LEMMA Pwritten ==
    ASSUME file \in Seq(0..MaxWrites), NEW off \in Nat, NEW m \in Nat, NEW id \in 0..MaxWrites,
           NEW new, new = Pwrite(off, m, id)
    PROVE  Written(new, off, m, id)
<1>1. Len(file) \in Nat /\ \A i \in 1..Len(file) : file[i] \in 0..MaxWrites
  BY LenProperties, ElementOfSeq
<1>2. PICK len \in Nat : len = IF off + m > Len(file) THEN off + m ELSE Len(file)
  BY <1>1
<1>3. new = [i \in 1..len |-> IF i > off /\ i <= off + m THEN id ELSE IF i <= Len(file) THEN file[i] ELSE 0]
  BY <1>2 DEF Pwrite
<1>4. new \in [1..len -> 0..MaxWrites]
  BY <1>1, <1>3, MaxWritesAssumption
<1>5. new \in Seq(0..MaxWrites) /\ Len(new) = len
  BY <1>4, FunctionIsSeq
<1>7. len >= Len(file) /\ len >= off + m
  BY <1>1, <1>2
<1>8. \A i \in 1..Len(file) : i <= off => new[i] = file[i]
  BY <1>1, <1>3, <1>7
<1>9. \A i \in (off + 1)..(off + m) : new[i] = id
  BY <1>1, <1>3, <1>7
<1> QED BY <1>5, <1>7, <1>8, <1>9 DEF Written

\* What a thread makes of a request: some bytes of a write, an empty file, or nothing.
LEMMA ExecuteKeeps == ASSUME FIInv, NEW u \in Users, Execute(u) PROVE FIInv'
<1> DEFINE r == req[u]
           a == res'[u]
<1>1. /\ r.kind \notin {"none", "done"} /\ req' = [req EXCEPT ![u] = [@ EXCEPT !.kind = "done"]]
      /\ finished' = finished \union {u} /\ pipe' = (IF finished = {} THEN pipe + 1 ELSE pipe)
      /\ UNCHANGED <<status, locks, stat, read_offset, write_offset, op, writes, others, disturbed>>
  BY DEF Execute, Finished
<1>2. RestTyped
  BY Types DEF FIInv
<1>3. r \in [kind : {"none", "done", "stat", "pread", "pwrite", "fsync", "truncate"}, off : Nat, id : Nat]
  BY <1>2 DEF RestTyped
<1>4. /\ req'[u] = [kind |-> "done", off |-> r.off, id |-> r.id]
      /\ \A v \in Users : v # u => req'[v] = req[v]
  BY <1>1, <1>2, <1>3 DEF RestTyped
<1>5. Len(file) \in Nat
  BY <1>2, LenProperties DEF RestTyped
<1>6. Readable(r.off) \in Nat
  BY <1>3, <1>5 DEF Readable, AtMost, WriteSize
<1>7. /\ res' \in [Users -> [ok : BOOLEAN, n : Nat]]
      /\ \A v \in Users : v # u => res'[v] = res[v]
  <2>1. ASSUME NEW x \in [ok : BOOLEAN, n : Nat], res' = [res EXCEPT ![u] = x]
        PROVE  /\ res' \in [Users -> [ok : BOOLEAN, n : Nat]]
               /\ \A v \in Users : v # u => res'[v] = res[v]
    BY <1>2, <2>1 DEF RestTyped
  <2>2. \E x \in [ok : BOOLEAN, n : Nat] : res' = [res EXCEPT ![u] = x]
    <3> DEFINE m == CASE r.kind = "pwrite" -> WriteSize
                      [] r.kind = "pread" -> Readable(r.off)
                      [] r.kind = "stat" -> Len(file)
                      [] OTHER -> 0
    <3>1. m \in Nat
      BY <1>5, <1>6 DEF WriteSize
    <3>2. [ok |-> TRUE, n |-> m] \in [ok : BOOLEAN, n : Nat]
      BY <3>1
    <3>3. [ok |-> TRUE, n |-> 1] \in [ok : BOOLEAN, n : Nat] /\ Failure \in [ok : BOOLEAN, n : Nat]
      BY DEF Failure
    <3> QED BY <3>2, <3>3 DEF Execute
  <2> QED BY <2>1, <2>2
<1>8. failures' \in Nat /\ failures' >= failures
  BY <1>2 DEF Execute, RestTyped
<1>9. ~a.ok => failures' > 0 \/ status = "closed"
  <2>1. ASSUME NEW x \in [ok : BOOLEAN, n : Nat], res' = [res EXCEPT ![u] = x] PROVE a = x
    BY <1>2, <2>1 DEF RestTyped
  <2> QED BY <1>2, <1>7, <2>1 DEF Execute, RestTyped
<1>10. \/ /\ r.kind = "pwrite" /\ acked' = acked
          /\ \E m \in 1..WriteSize : file' = Pwrite(r.off, m, r.id) /\ a = [ok |-> TRUE, n |-> m]
       \/ r.kind = "truncate" /\ file' = <<>> /\ acked' = {}
       \/ /\ file' = file /\ acked' = acked
          /\ r.kind \in {"pwrite", "truncate"} => ~a.ok
  <2>1. ASSUME NEW x \in [ok : BOOLEAN, n : Nat], res' = [res EXCEPT ![u] = x] PROVE a = x
    BY <1>2, <2>1 DEF RestTyped
  <2>2. CASE res' = [res EXCEPT ![u] = Failure] /\ UNCHANGED <<file, acked>>
    <3>1. a = Failure
      BY <2>1, <2>2 DEF Failure
    <3> QED BY <2>2, <3>1 DEF Failure
  <2>3. CASE /\ r.kind = "pwrite" /\ file' = Pwrite(r.off, 1, r.id)
             /\ res' = [res EXCEPT ![u] = [ok |-> TRUE, n |-> 1]] /\ UNCHANGED acked
    <3>1. a = [ok |-> TRUE, n |-> 1]
      BY <2>1, <2>3
    <3> QED BY <2>3, <3>1 DEF WriteSize
  <2>4. ASSUME NEW m \in Nat, res' = [res EXCEPT ![u] = [ok |-> TRUE, n |-> m]], r.kind = "pwrite" => m = 2,
               file' = (CASE r.kind = "pwrite" -> Pwrite(r.off, 2, r.id)
                          [] r.kind = "truncate" -> <<>>
                          [] OTHER -> file),
               acked' = (IF r.kind = "truncate" THEN {} ELSE acked)
        PROVE  \/ /\ r.kind = "pwrite" /\ acked' = acked
                  /\ \E k \in 1..WriteSize : file' = Pwrite(r.off, k, r.id) /\ a = [ok |-> TRUE, n |-> k]
               \/ r.kind = "truncate" /\ file' = <<>> /\ acked' = {}
               \/ /\ file' = file /\ acked' = acked
                  /\ r.kind \in {"pwrite", "truncate"} => ~a.ok
    <3>1. a = [ok |-> TRUE, n |-> m]
      BY <2>1, <2>4
    <3> HIDE DEF r, a
    <3>2. CASE r.kind = "pwrite"
      <4>1. file' = Pwrite(r.off, 2, r.id) /\ a = [ok |-> TRUE, n |-> 2] /\ acked' = acked
        BY <2>4, <3>1, <3>2
      <4> QED BY <3>2, <4>1 DEF WriteSize
    <3>3. CASE r.kind = "truncate"
      BY <2>4, <3>3
    <3>4. CASE r.kind \notin {"pwrite", "truncate"}
      BY <2>4, <3>4
    <3> QED BY <3>2, <3>3, <3>4
  <2>5. \/ /\ file' = (CASE r.kind = "pwrite" -> Pwrite(r.off, 2, r.id)
                         [] r.kind = "truncate" -> <<>>
                         [] OTHER -> file)
           /\ acked' = (IF r.kind = "truncate" THEN {} ELSE acked)
           /\ \E m \in Nat : res' = [res EXCEPT ![u] = [ok |-> TRUE, n |-> m]] /\ (r.kind = "pwrite" => m = 2)
        \/ /\ r.kind = "pwrite" /\ file' = Pwrite(r.off, 1, r.id)
           /\ res' = [res EXCEPT ![u] = [ok |-> TRUE, n |-> 1]] /\ UNCHANGED acked
        \/ res' = [res EXCEPT ![u] = Failure] /\ UNCHANGED <<file, acked>>
    <3> DEFINE m == CASE r.kind = "pwrite" -> WriteSize
                      [] r.kind = "pread" -> Readable(r.off)
                      [] r.kind = "stat" -> Len(file)
                      [] OTHER -> 0
    <3>1. m \in Nat /\ (r.kind = "pwrite" => m = 2)
      BY <1>5, <1>6 DEF WriteSize
    <3> QED BY <3>1 DEF Execute, WriteSize
  <2> HIDE DEF r, a
  <2> QED BY <2>2, <2>3, <2>4, <2>5
<1> HIDE DEF r, a
<1>11. LocksKnown' /\ OpsTyped'
  BY <1>1, <1>8, LocksStay
<1>12. RequestsKnown'
  <2>1. /\ op[u].lock # "none" /\ req'[u].kind = "done" /\ req'[u].id = r.id /\ req[u] = r
    <3>1. op[u].lock = "none" => r.kind = "none"
      BY DEF FIInv, RequestsKnown, KindsOf, r
    <3> QED BY <1>1, <1>4, <3>1 DEF r
  <2>2. "done" \in KindsOf(op[u].lock)
    <3>1. op[u].lock \in Locks
      BY <2>1 DEF FIInv, FTypeOK
    <3> QED BY <3>1 DEF KindsOf, Locks
  <2> QED BY <1>1, <1>4, <2>1, <2>2 DEF FIInv, RequestsKnown
<1>13. OffsetsKnown'
  BY <1>1, <1>4 DEF FIInv, OffsetsKnown, r
<1>14. StatKnown'
  BY <1>1, <1>2, <1>8 DEF FIInv, StatKnown, Dirty, RestTyped
<1>15. FailuresKnown'
  BY <1>1, <1>2, <1>4, <1>7, <1>8, <1>9 DEF FIInv, FailuresKnown, RestTyped, a
<1>16. AnswersArePolled'
  BY <1>1 DEF FIInv, AnswersArePolled
<1>17. ASSUME file' \in Seq(0..MaxWrites), acked' \subseteq [id : Nat, off : Nat, n : Nat]
       PROVE  RestTyped'
  <2>1. req' \in [Users -> [kind : {"none", "done", "stat", "pread", "pwrite", "fsync", "truncate"},
                            off : Nat, id : Nat]]
    BY <1>1, <1>2 DEF RestTyped
  <2>2. pipe' \in 0..1 /\ finished' \subseteq Users
    BY <1>1, <1>2 DEF RestTyped, FIInv, AnswersArePolled
  <2> QED BY <1>1, <1>2, <1>7, <1>8, <1>17, <2>1, <2>2 DEF RestTyped
<1>18. CASE /\ r.kind = "pwrite" /\ acked' = acked
            /\ \E m \in 1..WriteSize : file' = Pwrite(r.off, m, r.id) /\ a = [ok |-> TRUE, n |-> m]
  <2>1. PICK m \in 1..WriteSize : file' = Pwrite(r.off, m, r.id) /\ a = [ok |-> TRUE, n |-> m]
    BY <1>18
  <2>2. op[u].lock = "WRITE" /\ r.id # 0 /\ r.id \in 0..MaxWrites /\ r.off \in Nat /\ m \in Nat
    <3>1. r.kind \in KindsOf(op[u].lock) /\ r.id # 0
      BY <1>18 DEF FIInv, RequestsKnown, r
    <3>2. op[u].lock \in Locks \union {"none"}
      BY DEF FIInv, FTypeOK
    <3>3. op[u].lock = "WRITE"
      BY <1>18, <3>1, <3>2 DEF KindsOf, Locks
    <3>4. r.id \in 1..writes /\ writes <= MaxWrites /\ writes \in Nat
      BY <1>2, <3>1, <3>3 DEF FIInv, RequestsKnown, RestTyped, r
    <3> QED BY <1>3, <3>1, <3>3, <3>4, MaxWritesAssumption DEF WriteSize
  <2>3. /\ file' \in Seq(0..MaxWrites)
        /\ Len(file') >= Len(file) /\ Len(file') >= r.off + m
        /\ \A i \in 1..Len(file) : i <= r.off => file'[i] = file[i]
        /\ \A i \in (r.off + 1)..(r.off + m) : file'[i] = r.id
    <3>1. 0 \in 0..MaxWrites /\ file \in Seq(0..MaxWrites)
      BY <1>2, MaxWritesAssumption DEF RestTyped
    <3>2. file' = Pwrite(r.off, m, r.id)
      BY <2>1
    <3>3. Written(file', r.off, m, r.id)
      BY <2>2, <3>1, <3>2, Pwritten
    <3> QED BY <3>3 DEF Written
  <2>4. RestTyped'
    BY <1>2, <1>17, <1>18, <2>3 DEF RestTyped
  <2>5. Len(file') \in Nat
    BY <2>3, LenProperties
  <2>6. \A v \in Users : v # u => op[v].lock # "WRITE"
    BY <2>2 DEF FIInv, LocksExclude
  <2>7. ~disturbed => write_offset = r.off /\ \A b \in acked : b.off + b.n <= r.off
    BY <2>2 DEF FIInv, OffsetsKnown, WritesFollow, r
  <2>8. \A b \in acked : b.off \in Nat /\ b.n \in Nat
    BY <1>2 DEF RestTyped
  <2>9. Holds(r.id, r.off, m)'
    <3>1. ASSUME NEW i \in (r.off + 1)..(r.off + m) PROVE i <= Len(file') /\ file'[i] = r.id
      BY <2>2, <2>3, <2>5
    <3> QED BY <1>4, <3>1 DEF Holds, r
  <2>10. WritesFollow'
    <3>1. req'[u].id = r.id /\ req'[u].off = r.off /\ res'[u].n = m
      BY <1>4, <2>1 DEF a
    <3>2. \A i \in (r.off + 1)..(r.off + m) : i <= Len(file') /\ file'[i] = r.id
      BY <2>2, <2>3, <2>5
    <3>3. Holds(req[u].id, req[u].off, res[u].n)'
      BY <3>1, <3>2 DEF Holds
    <3> QED BY <1>1, <1>18, <2>6, <3>3 DEF FIInv, WritesFollow
  <2>11. CleanEmpties'
    BY <1>1, <1>4, <1>7, <1>18, <2>2 DEF FIInv, CleanEmpties
  <2>12. WritesStay'
    <3>1. ASSUME ~disturbed, NEW b \in acked, NEW i \in (b.off + 1)..(b.off + b.n)
          PROVE  i <= Len(file') /\ file'[i] = b.id
      <4>1. i <= Len(file) /\ file[i] = b.id
        BY <3>1 DEF FIInv, WritesStay
      <4>2. i \in 1..Len(file) /\ i <= r.off
        BY <1>5, <2>2, <2>7, <2>8, <3>1, <4>1
      <4> QED BY <1>5, <2>3, <2>5, <4>1, <4>2
    <3> QED BY <1>1, <1>18, <3>1 DEF WritesStay
  <2> QED BY <1>11, <1>12, <1>13, <1>14, <1>15, <1>16, <2>4, <2>10, <2>11, <2>12, Together
<1>19. CASE r.kind = "truncate" /\ file' = <<>> /\ acked' = {}
  <2>1. RestTyped'
    BY <1>17, <1>19
  <2>2. op[u].lock = "CLEAN"
    <3>1. r.kind \in KindsOf(op[u].lock) /\ op[u].lock \in Locks \union {"none"}
      BY DEF FIInv, RequestsKnown, r, FTypeOK
    <3> QED BY <1>19, <3>1 DEF KindsOf, Locks
  <2>3. ~disturbed => \A v \in Users : op[v].lock # "WRITE"
    BY <2>2 DEF FIInv, LocksExclude, CleanIsAlone
  <2>4. WritesFollow' /\ CleanEmpties' /\ WritesStay'
    BY <1>1, <1>19, <2>3 DEF WritesFollow, CleanEmpties, WritesStay
  <2> QED BY <1>11, <1>12, <1>13, <1>14, <1>15, <1>16, <2>1, <2>4, Together
<1>20. CASE file' = file /\ acked' = acked /\ (r.kind \in {"pwrite", "truncate"} => ~a.ok)
  <2>1. RestTyped'
    BY <1>2, <1>17, <1>20 DEF RestTyped
  <2>2. op[u].lock = "WRITE" /\ r.id # 0 => r.kind = "pwrite"
    BY <1>1 DEF FIInv, RequestsKnown, KindsOf, r
  <2>3. op[u].lock = "CLEAN" => r.kind \in {"stat", "truncate"}
    BY <1>1 DEF FIInv, RequestsKnown, KindsOf, r
  <2>4. r.kind = "stat" => r.id = 0
    BY DEF FIInv, RequestsKnown, r
  <2>5. WritesFollow'
    <3>1. ASSUME ~disturbed, NEW v \in Users, op[v].lock = "WRITE", req'[v].kind = "done", req'[v].id # 0, res'[v].ok
          PROVE  Holds(req[v].id, req[v].off, res[v].n)'
      <4>1. v # u
        BY <1>4, <1>20, <2>2, <3>1 DEF a
      <4> QED BY <1>4, <1>7, <1>20, <3>1, <4>1 DEF FIInv, WritesFollow, Holds
    <3> QED BY <1>1, <1>20, <3>1 DEF FIInv, WritesFollow
  <2>6. CleanEmpties'
    BY <1>1, <1>4, <1>7, <1>20, <2>3, <2>4 DEF FIInv, CleanEmpties, a, r
  <2>7. WritesStay'
    BY <1>1, <1>20 DEF FIInv, WritesStay
  <2> QED BY <1>11, <1>12, <1>13, <1>14, <1>15, <1>16, <2>1, <2>5, <2>6, <2>7, Together
<1> QED BY <1>10, <1>18, <1>19, <1>20

-----------------------------------------------------------------------------
(* The theorems *)

LEMMA FInitHolds == FInit => FIInv
<1> SUFFICES ASSUME FInit PROVE FIInv
  OBVIOUS
<1>1. /\ file \in {<<>>, <<0>>} /\ stat \in {None, 0} /\ status = "open" /\ locks = {}
      /\ read_offset = 0 /\ write_offset = None /\ acked = {} /\ finished = {} /\ pipe = 0
      /\ writes = 0 /\ others = 0 /\ failures = 0 /\ disturbed = FALSE
      /\ op = [u \in Users |-> Idle] /\ req = [u \in Users |-> NoReq] /\ res = [u \in Users |-> Failure]
  BY DEF FInit
<1>2. <<>> \in Seq(0..MaxWrites) /\ <<0>> \in Seq(0..MaxWrites)
  BY MaxWritesAssumption
<1>3. RestTyped
  <2>1. /\ req \in [Users -> [kind : {"none", "done", "stat", "pread", "pwrite", "fsync", "truncate"},
                              off : Nat, id : Nat]]
        /\ res \in [Users -> [ok : BOOLEAN, n : Nat]]
    BY <1>1 DEF NoReq, Failure
  <2>2. file \in Seq(0..MaxWrites)
    BY <1>1, <1>2
  <2>3. stat \in Nat \union {None} /\ write_offset \in Nat \union {None} /\ pipe \in 0..1
    BY <1>1
  <2> QED BY <1>1, <2>1, <2>2, <2>3 DEF RestTyped
<1>4. OpsTyped
  BY <1>1 DEF OpsTyped, Idle
<1>5. FTypeOK
  BY <1>3, <1>4, Types
<1>6. LocksExclude /\ CleanIsAlone /\ LocksAreReleased
  BY <1>1 DEF LocksExclude, CleanIsAlone, LocksAreReleased, Idle
<1>7. RequestsKnown
  BY <1>1, MaxWritesAssumption DEF RequestsKnown, KindsOf, Idle, NoReq
<1>8. OffsetsKnown /\ StatKnown /\ FailuresKnown /\ WritesFollow /\ CleanEmpties
  BY <1>1 DEF OffsetsKnown, StatKnown, FailuresKnown, WritesFollow, CleanEmpties, Idle, NoReq
<1>9. WritesStay /\ AnswersArePolled
  BY <1>1 DEF WritesStay, AnswersArePolled
<1> QED BY <1>5, <1>6, <1>7, <1>8, <1>9 DEF FIInv

LEMMA FStutterKeeps == FIInv /\ UNCHANGED fvars => FIInv'
<1> SUFFICES ASSUME FIInv, UNCHANGED fvars PROVE FIInv'
  OBVIOUS
<1>1. UNCHANGED <<file, status, locks, stat, read_offset, write_offset, op, req, res, finished, pipe, acked, writes,
                  others, failures, disturbed>>
  BY DEF fvars
<1>2. RestTyped /\ OpsTyped
  BY Types DEF FIInv
<1>3. RestTyped' /\ LocksKnown' /\ OpsTyped'
  BY <1>1, <1>2, LocksStay DEF RestTyped
<1>4. RequestsKnown' /\ OffsetsKnown'
  BY <1>1 DEF FIInv, RequestsKnown, OffsetsKnown
<1>5. StatKnown' /\ FailuresKnown' /\ AnswersArePolled'
  BY <1>1 DEF FIInv, StatKnown, FailuresKnown, AnswersArePolled, Dirty
<1>6. WritesFollow' /\ CleanEmpties' /\ WritesStay'
  BY <1>1 DEF FIInv, WritesFollow, CleanEmpties, Holds, WritesStay
<1> QED BY <1>3, <1>4, <1>5, <1>6, Together

LEMMA FNextKeeps == FIInv /\ [FNext]_fvars => FIInv'
<1> SUFFICES ASSUME FIInv, [FNext]_fvars PROVE FIInv'
  OBVIOUS
<1>1. ASSUME NEW u \in Users, Execute(u) PROVE FIInv'
  BY <1>1, ExecuteKeeps
<1>2. ASSUME NEW u \in Users, Continue(u) PROVE FIInv'
  BY <1>2, WriteStatKeeps, WriteEndsKeeps, ReadStatKeeps, ReadEndsKeeps, FlushEndsKeeps, CleanStatKeeps,
     CleanEndsKeeps DEF Continue
<1>3. ASSUME NEW u \in Users, Write(u) \/ Read(u) \/ Flush(u) \/ Clean(u) PROVE FIInv'
  BY <1>3, WriteKeeps, ReadKeeps, FlushKeeps, CleanKeeps
<1>4. CASE Poll \/ Lseek \/ CloseFile
  BY <1>4, PollKeeps, LseekKeeps, FCloseKeeps
<1>5. CASE UNCHANGED fvars
  BY <1>5, FStutterKeeps
<1> QED BY <1>1, <1>2, <1>3, <1>4, <1>5 DEF FNext, FRunning

LEMMA FInvariance == FSpec => []FIInv
BY FInitHolds, FNextKeeps, PTL DEF FSpec

\* Every variable keeps its type (FTypeOK), whatever order threads, loop and coroutines come in.
THEOREM FilesTypeCorrect == FSpec => []FTypeOK
<1>1. FIInv => FTypeOK
  BY DEF FIInv
<1> QED BY <1>1, FInvariance, PTL

\* What a write has returned for is in the file until the file is cleaned, and methods release
\* their locks, with the exceptions WritesStay and LocksAreReleased name.
THEOREM FilesKept == FSpec => []FilesAreKept
<1>1. FIInv => FilesAreKept
  BY DEF FIInv, FilesAreKept
<1> QED BY <1>1, FInvariance, PTL

\* No two coroutines are in the same method (the locks of aio/init.lua are looked at and set
\* with no wait between), and while nothing disturbs, none cleans while others read or write.
THEOREM MethodsExclude ==
    FSpec => [](\A u, v \in Users : u # v /\ op[u].lock # "none" =>
                    /\ op[u].lock # op[v].lock
                    /\ ~disturbed /\ op[u].lock = "CLEAN" => op[v].lock \notin {"READ", "WRITE"})
<1> DEFINE Exclusive == \A u, v \in Users : u # v /\ op[u].lock # "none" =>
                            /\ op[u].lock # op[v].lock
                            /\ ~disturbed /\ op[u].lock = "CLEAN" => op[v].lock \notin {"READ", "WRITE"}
<1>1. FIInv => Exclusive
  BY DEF FIInv, LocksExclude, CleanIsAlone
<1> QED BY <1>1, FInvariance, PTL

\* As long as answers stand in libeio's queue there is exactly one byte in the pipe, and none
\* otherwise: the loop hears of every answer and never of none (laio.c, AIO_WANT_POLL and
\* AIO_DONE_POLL).
THEOREM AnswersPolled == FSpec => []AnswersArePolled
<1>1. FIInv => AnswersArePolled
  BY DEF FIInv
<1> QED BY <1>1, FInvariance, PTL

\* A step that leaves the record of returned writes alone leaves their bytes alone: no request,
\* in whatever order the threads execute them, goes over what another write has returned for.
THEOREM BytesStay ==
    FSpec => [][~disturbed' /\ acked' # {} =>
                  \A a \in acked : \A i \in (a.off + 1)..(a.off + a.n) : file'[i] = file[i]]_fvars
<1> DEFINE Stay == ~disturbed' /\ acked' # {} =>
                      \A a \in acked : \A i \in (a.off + 1)..(a.off + a.n) : file'[i] = file[i]
<1>1. ASSUME FIInv, [FNext]_fvars PROVE [Stay]_fvars
  <2>1. FIInv'
    BY <1>1, FNextKeeps
  <2>2. disturbed => disturbed'
    BY <1>1 DEF FNext, FRunning, Execute, Poll, Continue, WriteStat, WriteEnds, ReadStat, ReadEnds, FlushEnds,
         CleanStat, CleanEnds, Write, Read, Flush, Clean, Enter, Lseek, CloseFile, fvars
  <2>3. acked' = {} \/ acked \subseteq acked'
    BY <1>1 DEF FNext, FRunning, Execute, Poll, Continue, WriteStat, WriteEnds, ReadStat, ReadEnds, FlushEnds,
         CleanStat, CleanEnds, Write, Read, Flush, Clean, Lseek, CloseFile, fvars
  <2> QED BY <1>1, <2>1, <2>2, <2>3 DEF FIInv, WritesStay
<1> QED BY <1>1, FInvariance, PTL DEF FSpec

(***************************************************************************)
(* MCMessages.                                                             *)
(***************************************************************************)

-----------------------------------------------------------------------------
(* The three side by side, as they are checked: a step of one is none of the others. *)

LEMMA SideBySide == ASSUME [MNext]_mvars PROVE [Next]_vars /\ [QNext]_qvars /\ [FNext]_fvars
BY DEF MNext, Channel, Queue, File, mvars

\* All variables of the channel, the queues and the file have their types.
THEOREM MessagesTypeCorrect == MSpec => []TypesOK
<1>1. MInit => IInv /\ QIInv /\ FIInv
  BY InitHolds, QInitHolds, FInitHolds DEF MInit
<1>2. IInv /\ QIInv /\ FIInv /\ [MNext]_mvars => IInv' /\ QIInv' /\ FIInv'
  BY SideBySide, NextKeeps, QNextKeeps, FNextKeeps
<1>3. IInv /\ QIInv /\ FIInv => TypesOK
  BY DEF IInv, QIInv, FIInv, TypesOK
<1> QED BY <1>1, <1>2, <1>3, PTL DEF MSpec

=============================================================================
