-------------------------- MODULE TcpStreamProofs --------------------------
(***************************************************************************)
(* Proofs about TcpStream: bytes go through a connection as they were      *)
(* written, for any peer, messages, buffer sizes and operations.           *)
(***************************************************************************)
EXTENDS TcpStream, SequenceTheorems, WellFoundedInduction, TLAPS

-----------------------------------------------------------------------------
(* The inductive invariant. *)

Reading == [op : {"recv"}, n : Nat] \union [op : {"readline"}, at : {"runs", "waits"}, buffer : Seq(Byte)]
Writing == [op : {"send", "sendfile"}, m : Messages, off : Nat]

TTypeOK ==
    /\ ssl \in BOOLEAN /\ peer \in Streams
    /\ arrived \in 0..Total /\ taken \in 0..arrived /\ given \in 0..arrived
    /\ ended \in {"open", "eof", "notify", "reset"} /\ noted \in BOOLEAN
    /\ reader \in {Idle} \union Reading
    /\ read \in Seq([op : {"recv", "readline"}, ok : BOOLEAN, data : Seq(Byte)])
    /\ stream \in Seq(Byte) /\ drained \in Nat
    /\ writer \in {Idle} \union Writing
    /\ sent \in Seq([m : Messages, ok : BOOLEAN])

\* What was read, and what was sent as a whole, operation by operation.
Datas(rs) == [i \in DOMAIN rs |-> rs[i].data]
Wholes(ss) == [i \in DOMAIN ss |-> IF ss[i].ok THEN ss[i].m ELSE <<>>]

\* Nothing that readline holds is a line.
ReadKnown ==
    /\ FlattenSeq(Datas(read)) \o Pending = SubSeq(peer.bytes, 1, given)
    /\ reader.op = "readline" => Found(reader.buffer) = {}
    /\ \A i \in DOMAIN read : read[i].ok /\ read[i].op = "readline" =>
          EndOfLine(read[i].data) = Len(read[i].data)

\* A send fails only when the connection was reset, and then nothing goes out any more: what
\* is behind the whole messages is of the send that goes on, or of one that has failed.
Part == IF writer = Idle THEN <<>> ELSE SubSeq(writer.m, 1, writer.off)
Failed == {i \in DOMAIN sent : ~sent[i].ok}

SentKnown ==
    /\ Len(stream) - drained \in 0..SendBuffer
    /\ writer # Idle => writer.off <= Len(writer.m)
    /\ \E part \in Seq(Byte) :
          /\ stream = FlattenSeq(Wholes(sent)) \o part
          /\ Failed = {} => part = Part
          /\ Failed # {} => /\ ended = "reset"
                            /\ writer # Idle => writer.off = 0
                            /\ \E i \in Failed : part \in Parts(sent[i].m)

IInv == TTypeOK /\ ReadKnown /\ SentKnown

-----------------------------------------------------------------------------
(* Flattening.  The function that FlattenSeq defines by recursion exists: else there would  *)
(* be a least number up to which it does not; and two of them agree where the sequences do. *)

IsFlat(f, s, k) == f = [i \in 1..k |-> IF i = 1 THEN s[i] ELSE f[i-1] \o s[i]]

Agree(s, t, k) == \A i \in 1..k : s[i] = t[i]

\* A set of numbers has its least one.
LEMMA LeastExists ==
    ASSUME NEW S, S \subseteq Nat, S # {}
    PROVE  \E x \in S : \A y \in S : x <= y
<1> DEFINE R == OpToRel(<, Nat)
<1>1. IsWellFoundedOn(R, Nat)
  BY NatLessThanWellFounded
<1>2. \A x, y \in Nat : y < x => <<y, x>> \in R
  BY DEF OpToRel
<1> HIDE DEF R
<1>3. PICK x \in S : \A y \in S : <<y, x>> \notin R
  BY <1>1, WFMin
<1>4. \A y \in S : x <= y
  <2> SUFFICES ASSUME NEW y \in S PROVE x <= y
    OBVIOUS
  <2>1. ~(y < x)
    BY <1>2, <1>3
  <2> QED BY <2>1
<1> QED BY <1>4

LEMMA FlatExists ==
    ASSUME NEW s, NEW k \in Nat
    PROVE  \E f : IsFlat(f, s, k)
<1> DEFINE Bad == {j \in Nat : ~ \E f : IsFlat(f, s, j)}
<1>1. SUFFICES ASSUME Bad # {} PROVE FALSE
  OBVIOUS
<1>2. PICK j \in Bad : \A i \in Bad : j <= i
  BY <1>1, LeastExists
<1>3. j # 0
  <2> DEFINE e == [i \in 1..0 |-> IF i = 1 THEN s[i] ELSE <<>>]
  <2>1. e = [i \in 1..0 |-> IF i = 1 THEN s[i] ELSE e[i-1] \o s[i]]
    OBVIOUS
  <2>2. IsFlat(e, s, 0)
    BY <2>1 DEF IsFlat
  <2> QED BY <2>2
<1>4. PICK f : IsFlat(f, s, j - 1)
  <2>1. j - 1 \in Nat /\ j - 1 \notin Bad
    BY <1>2, <1>3
  <2> QED BY <2>1
<1> DEFINE g == [i \in 1..j |-> IF i = 1 THEN s[i] ELSE f[i-1] \o s[i]]
<1>5. \A i \in 1..(j-1) : g[i] = f[i]
  <2> SUFFICES ASSUME NEW i \in 1..(j-1) PROVE g[i] = f[i]
    OBVIOUS
  <2>1. f[i] = IF i = 1 THEN s[i] ELSE f[i-1] \o s[i]
    BY <1>4 DEF IsFlat
  <2>2. i \in 1..j
    BY <1>2
  <2> QED BY <2>1, <2>2
<1>6. \A i \in 1..j : i # 1 => i - 1 \in 1..(j-1)
  BY <1>2
<1>7. \A i \in 1..j : g[i] = IF i = 1 THEN s[i] ELSE g[i-1] \o s[i]
  BY <1>5, <1>6
<1>8. g = [i \in 1..j |-> g[i]]
  OBVIOUS
<1>9. IsFlat(g, s, j)
  <2> DEFINE h == [i \in 1..j |-> IF i = 1 THEN s[i] ELSE g[i-1] \o s[i]]
  <2>1. \A i \in 1..j : g[i] = h[i]
    BY <1>7
  <2>2. h = [i \in 1..j |-> h[i]]
    OBVIOUS
  <2> HIDE DEF g
  <2>3. g = h
    BY <2>1, <2>2, <1>8
  <2> QED BY <2>3 DEF IsFlat
<1> QED BY <1>2, <1>9

LEMMA FlatAgree ==
    ASSUME NEW s, NEW t, NEW l \in Nat, NEW j \in Nat, l <= j, Agree(s, t, l),
           NEW f, NEW g, IsFlat(f, s, l), IsFlat(g, t, j)
    PROVE  Agree(f, g, l)
<1> USE DEF Agree
<1> DEFINE Bad == {i \in 1..l : f[i] # g[i]}
<1>1. SUFFICES ASSUME Bad # {} PROVE FALSE
  OBVIOUS
<1>2. PICK b \in Bad : \A i \in Bad : b <= i
  <2>1. Bad \subseteq Nat
    OBVIOUS
  <2> QED BY <1>1, <2>1, LeastExists
<1>3. b \in 1..j /\ b \in 1..l
  OBVIOUS
<1>4. f[b] = IF b = 1 THEN s[b] ELSE f[b-1] \o s[b]
  BY <1>3 DEF IsFlat
<1>5. g[b] = IF b = 1 THEN t[b] ELSE g[b-1] \o t[b]
  BY <1>3 DEF IsFlat
<1>6. b # 1 => f[b-1] = g[b-1]
  <2>1. b # 1 => b - 1 \in 1..l /\ b - 1 \notin Bad
    BY <1>2, <1>3
  <2> QED BY <2>1
<1> QED BY <1>2, <1>3, <1>4, <1>5, <1>6

LEMMA FlattenIsFlat ==
    ASSUME NEW s, Len(s) \in Nat \ {0}
    PROVE  \E f : IsFlat(f, s, Len(s)) /\ FlattenSeq(s) = f[Len(s)]
<1> DEFINE f == CHOOSE f : IsFlat(f, s, Len(s))
<1>1. IsFlat(f, s, Len(s))
  BY FlatExists
<1>2. FlattenSeq(s) = f[Len(s)]
  BY DEF FlattenSeq, IsFlat
<1> QED BY <1>1, <1>2

LEMMA FlatTyped ==
    ASSUME NEW S, NEW s \in Seq(Seq(S)), NEW f, IsFlat(f, s, Len(s))
    PROVE  \A i \in 1..Len(s) : f[i] \in Seq(S)
<1> DEFINE Bad == {i \in 1..Len(s) : f[i] \notin Seq(S)}
<1>1. SUFFICES ASSUME Bad # {} PROVE FALSE
  OBVIOUS
<1>2. PICK b \in Bad : \A i \in Bad : b <= i
  <2>1. Bad \subseteq Nat
    OBVIOUS
  <2> QED BY <1>1, <2>1, LeastExists
<1>3. b \in 1..Len(s) /\ s[b] \in Seq(S)
  OBVIOUS
<1>4. f[b] = IF b = 1 THEN s[b] ELSE f[b-1] \o s[b]
  BY <1>3 DEF IsFlat
<1>5. b # 1 => f[b-1] \in Seq(S)
  <2>1. b # 1 => b - 1 \in 1..Len(s) /\ b - 1 \notin Bad
    BY <1>2, <1>3
  <2> QED BY <2>1
<1>6. b # 1 => f[b-1] \o s[b] \in Seq(S)
  BY <1>3, <1>5, ConcatProperties
<1> QED BY <1>2, <1>3, <1>4, <1>6

LEMMA FlattenTyped ==
    ASSUME NEW S, NEW s \in Seq(Seq(S))
    PROVE  FlattenSeq(s) \in Seq(S)
<1>1. CASE Len(s) = 0
  <2>1. s = <<>> /\ <<>> \in Seq(S)
    BY <1>1
  <2> QED BY <1>1, <2>1 DEF FlattenSeq
<1>2. CASE Len(s) # 0
  <2>1. Len(s) \in Nat \ {0}
    BY <1>2
  <2>2. PICK f : IsFlat(f, s, Len(s)) /\ FlattenSeq(s) = f[Len(s)]
    BY <2>1, FlattenIsFlat
  <2>3. f[Len(s)] \in Seq(S)
    BY <2>1, <2>2, FlatTyped
  <2> QED BY <2>2, <2>3
<1> QED BY <1>1, <1>2

LEMMA FlattenAppend ==
    ASSUME NEW S, NEW s \in Seq(Seq(S)), NEW x \in Seq(S)
    PROVE  FlattenSeq(Append(s, x)) = FlattenSeq(s) \o x
<1> DEFINE t == Append(s, x)
           k == Len(s)
<1>1. k \in Nat /\ Len(t) = k + 1 /\ t[k + 1] = x /\ \A i \in 1..k : t[i] = s[i]
  OBVIOUS
<1>2. PICK g : IsFlat(g, t, k + 1) /\ FlattenSeq(t) = g[k + 1]
  <2> HIDE DEF t, k
  <2>1. Len(t) \in Nat \ {0}
    BY <1>1
  <2> QED BY <1>1, <2>1, FlattenIsFlat
<1>3. g[k + 1] = IF k + 1 = 1 THEN x ELSE g[k] \o x
  <2>1. k + 1 \in 1..(k + 1) /\ (k + 1) - 1 = k
    BY <1>1
  <2>2. g[k + 1] = IF k + 1 = 1 THEN t[k + 1] ELSE g[(k + 1) - 1] \o t[k + 1]
    BY <1>2, <2>1 DEF IsFlat
  <2> QED BY <2>1, <2>2, <1>1
<1>4. CASE k = 0
  <2>1. s = <<>> /\ FlattenSeq(s) = <<>>
    BY <1>4 DEF FlattenSeq
  <2>2. <<>> \o x = x
    BY ConcatEmptySeq
  <2> QED BY <1>2, <1>3, <1>4, <2>1, <2>2
<1>5. CASE k # 0
  <2>1. k \in Nat \ {0}
    BY <1>1, <1>5
  <2>2. PICK f : IsFlat(f, s, k) /\ FlattenSeq(s) = f[k]
    BY <2>1, FlattenIsFlat
  <2>3. f[k] = g[k]
    <3>1. Agree(s, t, k)
      BY <1>1 DEF Agree
    <3> HIDE DEF t, k
    <3>2. PICK j \in Nat : j = k + 1
      BY <1>1
    <3>3. k <= k /\ k <= j /\ IsFlat(f, s, k) /\ IsFlat(g, t, j)
      BY <1>1, <1>2, <2>2, <3>2
    <3>4. Agree(f, g, k)
      BY <1>1, <3>1, <3>3, FlatAgree
    <3> QED BY <2>1, <3>4 DEF Agree
  <2> QED BY <1>2, <1>3, <1>5, <2>2, <2>3, <1>1
<1> QED BY <1>4, <1>5

-----------------------------------------------------------------------------
(* Sequences of bytes. *)

LEMMA DatasGrow ==
    ASSUME NEW op \in {"recv", "readline"}, NEW ok \in BOOLEAN, NEW data \in Seq(Byte),
           NEW rs \in Seq([op : {"recv", "readline"}, ok : BOOLEAN, data : Seq(Byte)])
    PROVE  /\ FlattenSeq(Datas(rs)) \in Seq(Byte)
           /\ FlattenSeq(Datas(Append(rs, [op |-> op, ok |-> ok, data |-> data]))) = FlattenSeq(Datas(rs)) \o data
<1> DEFINE r == [op |-> op, ok |-> ok, data |-> data]
<1>1. Datas(rs) \in Seq(Seq(Byte)) /\ Len(Datas(rs)) = Len(rs)
  <2>1. Len(rs) \in Nat /\ DOMAIN rs = 1..Len(rs)
    OBVIOUS
  <2>2. \A i \in DOMAIN rs : rs[i].data \in Seq(Byte)
    <3> SUFFICES ASSUME NEW i \in DOMAIN rs PROVE rs[i].data \in Seq(Byte)
      OBVIOUS
    <3>1. rs[i] \in [op : {"recv", "readline"}, ok : BOOLEAN, data : Seq(Byte)]
      BY <2>1, ElementOfSeq
    <3> QED BY <3>1
  <2>3. Datas(rs) \in [1..Len(rs) -> Seq(Byte)]
    BY <2>1, <2>2 DEF Datas
  <2>4. Datas(rs) \in Seq(Seq(Byte))
    <3>1. Datas(rs) \in UNION {[1..k -> Seq(Byte)] : k \in Nat}
      BY <2>1, <2>3
    <3> QED BY <3>1, SeqDef
  <2> QED BY <2>1, <2>3, <2>4
<1>2. Datas(Append(rs, r)) = Append(Datas(rs), data)
  BY DEF Datas
<1> QED BY <1>1, <1>2, FlattenTyped, FlattenAppend

LEMMA WholesGrow ==
    ASSUME NEW m \in Messages, NEW ok \in BOOLEAN, NEW ss \in Seq([m : Messages, ok : BOOLEAN])
    PROVE  /\ FlattenSeq(Wholes(ss)) \in Seq(Byte)
           /\ FlattenSeq(Wholes(Append(ss, [m |-> m, ok |-> ok])))
                = FlattenSeq(Wholes(ss)) \o (IF ok THEN m ELSE <<>>)
<1> DEFINE r == [m |-> m, ok |-> ok]
           d == IF ok THEN m ELSE <<>>
<1>1. \A w \in Messages : w \in Seq(Byte)
  BY StreamsAssumption
<1>4. d \in Seq(Byte)
  BY <1>1, EmptySeq
<1>2. Wholes(ss) \in Seq(Seq(Byte)) /\ Len(Wholes(ss)) = Len(ss)
  <2>1. Len(ss) \in Nat /\ DOMAIN ss = 1..Len(ss)
    OBVIOUS
  <2>2. \A i \in DOMAIN ss : ss[i].m \in Seq(Byte)
    <3> SUFFICES ASSUME NEW i \in DOMAIN ss PROVE ss[i].m \in Seq(Byte)
      OBVIOUS
    <3>1. ss[i] \in [m : Messages, ok : BOOLEAN]
      BY <2>1, ElementOfSeq
    <3> QED BY <1>1, <3>1
  <2>3. \A i \in DOMAIN ss : (IF ss[i].ok THEN ss[i].m ELSE <<>>) \in Seq(Byte)
    BY <2>2, EmptySeq
  <2>4. Wholes(ss) \in [1..Len(ss) -> Seq(Byte)]
    BY <2>1, <2>3 DEF Wholes
  <2> QED BY <2>1, <2>4
<1>3. Wholes(Append(ss, r)) = Append(Wholes(ss), d)
  BY DEF Wholes
<1> QED BY <1>2, <1>3, <1>4, FlattenTyped, FlattenAppend

\* What goes behind the first g bytes.
LEMMA FirstBytes ==
    ASSUME NEW s \in Seq(Byte), NEW g \in Nat, NEW k \in Nat, g + k <= Len(s)
    PROVE  /\ SubSeq(s, g + 1, g + k) \in Seq(Byte) /\ Len(SubSeq(s, g + 1, g + k)) = k
           /\ SubSeq(s, 1, g) \o SubSeq(s, g + 1, g + k) = SubSeq(s, 1, g + k)
<1>1. 1 \in 1..(Len(s) + 1) /\ g \in (1 - 1)..Len(s) /\ g + k \in g..Len(s)
  OBVIOUS
<1>2. SubSeq(s, 1, g) \o SubSeq(s, g + 1, g + k) = SubSeq(s, 1, g + k)
  BY <1>1, ConcatAdjacentSubSeq
<1> QED BY <1>2

LEMMA SomeOfTheRest ==
    ASSUME NEW b \in Seq(Byte), NEW s \in Seq(Byte), NEW g \in Nat, NEW k \in Nat, NEW j \in Nat,
           g + k <= Len(s), j <= k
    PROVE  SubSeq(b \o SubSeq(s, g + 1, g + k), 1, Len(b) + j) = b \o SubSeq(s, g + 1, g + j)
<1> DEFINE x == SubSeq(s, g + 1, g + k)
           y == SubSeq(s, g + 1, g + j)
<1>1. x \in Seq(Byte) /\ Len(x) = k /\ \A i \in 1..k : x[i] = s[g + i]
  <2>1. \A i \in (g + 1)..(g + k) : s[i] \in Byte
    OBVIOUS
  <2>2. \A i \in 1..((g + k) - (g + 1) + 1) : x[i] = s[(g + 1) + i - 1]
    BY <2>1, SubSeqProperties
  <2>3. \A i \in 1..k : i \in 1..((g + k) - (g + 1) + 1) /\ (g + 1) + i - 1 = g + i
    OBVIOUS
  <2>4. x \in Seq(Byte) /\ Len(x) = k
    BY FirstBytes
  <2> QED BY <2>2, <2>3, <2>4
<1>7. y \in Seq(Byte) /\ Len(y) = j /\ \A i \in 1..j : y[i] = s[g + i]
  <2>1. \A i \in (g + 1)..(g + j) : s[i] \in Byte
    OBVIOUS
  <2>2. \A i \in 1..((g + j) - (g + 1) + 1) : y[i] = s[(g + 1) + i - 1]
    BY <2>1, SubSeqProperties
  <2>3. \A i \in 1..j : i \in 1..((g + j) - (g + 1) + 1) /\ (g + 1) + i - 1 = g + i
    OBVIOUS
  <2>4. y \in Seq(Byte) /\ Len(y) = j
    BY FirstBytes
  <2> QED BY <2>2, <2>3, <2>4
<1> HIDE DEF x, y
<1>2. /\ b \o x \in Seq(Byte) /\ Len(b \o x) = Len(b) + k
      /\ \A i \in 1..(Len(b) + k) : (b \o x)[i] = IF i <= Len(b) THEN b[i] ELSE x[i - Len(b)]
  <2>1. /\ Len(b \o x) = Len(b) + Len(x) /\ b \o x \in Seq(Byte)
        /\ \A i \in 1..(Len(b) + Len(x)) : (b \o x)[i] = IF i <= Len(b) THEN b[i] ELSE x[i - Len(b)]
    BY <1>1, ConcatProperties
  <2> QED BY <1>1, <2>1
<1>3. /\ b \o y \in Seq(Byte) /\ Len(b \o y) = Len(b) + j
      /\ \A i \in 1..(Len(b) + j) : (b \o y)[i] = IF i <= Len(b) THEN b[i] ELSE y[i - Len(b)]
  <2>1. /\ Len(b \o y) = Len(b) + Len(y) /\ b \o y \in Seq(Byte)
        /\ \A i \in 1..(Len(b) + Len(y)) : (b \o y)[i] = IF i <= Len(b) THEN b[i] ELSE y[i - Len(b)]
    BY <1>7, ConcatProperties
  <2> QED BY <1>7, <2>1
<1> DEFINE z == SubSeq(b \o x, 1, Len(b) + j)
<1>4. z \in Seq(Byte) /\ Len(z) = Len(b) + j /\ \A i \in 1..(Len(b) + j) : z[i] = (b \o x)[i]
  BY <1>2
<1> HIDE DEF z
<1>5. \A i \in 1..Len(z) : z[i] = (b \o y)[i]
  <2> SUFFICES ASSUME NEW i \in 1..Len(z) PROVE z[i] = (b \o y)[i]
    OBVIOUS
  <2>4. i \in Nat /\ Len(b) \in Nat
    OBVIOUS
  <2>1. CASE i <= Len(b)
    BY <1>2, <1>3, <1>4, <2>1
  <2>2. CASE ~(i <= Len(b))
    <3>1. z[i] = x[i - Len(b)] /\ (b \o y)[i] = y[i - Len(b)] /\ i - Len(b) \in 1..j
      BY <1>2, <1>3, <1>4, <2>2
    <3>2. PICK l \in 1..j : l = i - Len(b)
      BY <3>1
    <3>3. l \in 1..k
      OBVIOUS
    <3>4. x[l] = s[g + l] /\ y[l] = s[g + l]
      BY <1>1, <1>7, <3>3
    <3> QED BY <3>1, <3>2, <3>4
  <2> QED BY <2>1, <2>2
<1>6. z = b \o y
  BY <1>3, <1>4, <1>5, SeqEqual
<1> QED BY <1>6 DEF x, y, z

-----------------------------------------------------------------------------
(* Lines. *)

\* The separator ends in a buffer where it ends in what comes before.
LEMMA FoundInConcat ==
    ASSUME NEW a \in Seq(Byte), NEW c \in Seq(Byte)
    PROVE  \A e \in 1..Len(a) : e \in Found(a \o c) <=> e \in Found(a)
<1> SUFFICES ASSUME NEW e \in 1..Len(a) PROVE e \in Found(a \o c) <=> e \in Found(a)
  OBVIOUS
<1>1. Len(a \o c) = Len(a) + Len(c)
  OBVIOUS
<1>2. Len(Separator) \in Nat \ {0}
  BY StreamsAssumption
<1>3. CASE e >= Len(Separator)
  <2>1. e - Len(Separator) + 1 \in 1..Len(a)
    BY <1>2, <1>3
  <2>2. SubSeq(a \o c, e - Len(Separator) + 1, e) = SubSeq(a, e - Len(Separator) + 1, e)
    BY <2>1, SubSeqOfConcat1
  <2>3. e \in Len(Separator)..Len(a) /\ e \in Len(Separator)..Len(a \o c)
    BY <1>1, <1>2, <1>3
  <2> QED BY <2>2, <2>3 DEF Found
<1>4. CASE ~(e >= Len(Separator))
  BY <1>2, <1>4 DEF Found
<1> QED BY <1>3, <1>4

LEMMA FoundInPrefix ==
    ASSUME NEW b \in Seq(Byte), NEW e \in 1..Len(b)
    PROVE  Found(SubSeq(b, 1, e)) = Found(b) \intersect (1..e)
<1> DEFINE a == SubSeq(b, 1, e)
           c == SubSeq(b, e + 1, Len(b))
<1>1. a \in Seq(Byte) /\ c \in Seq(Byte) /\ Len(a) = e
  OBVIOUS
<1>2. a \o c = b
  <2>1. 1 \in 1..(Len(b) + 1) /\ e \in (1 - 1)..Len(b) /\ Len(b) \in e..Len(b)
    OBVIOUS
  <2>2. a \o c = SubSeq(b, 1, Len(b))
    BY <2>1, ConcatAdjacentSubSeq
  <2> QED BY <2>2, SubSeqFull
<1> HIDE DEF a, c
<1>3. \A f \in 1..e : f \in Found(b) <=> f \in Found(a)
  BY <1>1, <1>2, FoundInConcat
<1>4. Found(a) \subseteq 1..e
  BY <1>1, StreamsAssumption DEF Found
<1>5. Found(a) = Found(b) \intersect (1..e)
  BY <1>3, <1>4
<1> QED BY <1>5 DEF a

LEMMA FirstLine ==
    ASSUME NEW b \in Seq(Byte)
    PROVE  /\ ~(EndOfLine(b) > 0) => Found(b) = {}
           /\ Found(b) # {} => /\ EndOfLine(b) \in Found(b) \intersect (1..Len(b))
                               /\ \A f \in Found(b) : EndOfLine(b) <= f
<1>1. Found(b) \subseteq 1..Len(b)
  BY StreamsAssumption DEF Found
<1>2. CASE Found(b) # {}
  <2>1. \E e \in Found(b) : \A f \in Found(b) : e <= f
    <3>1. Found(b) \subseteq Nat
      BY <1>1
    <3> QED BY <1>2, <3>1, LeastExists
  <2>2. EndOfLine(b) \in Found(b) /\ \A f \in Found(b) : EndOfLine(b) <= f
    BY <1>2, <2>1 DEF EndOfLine
  <2> QED BY <1>1, <2>2
<1> QED BY <1>2

\* Up to the end of the first line there is one line.
LEMMA OneLine ==
    ASSUME NEW b \in Seq(Byte), EndOfLine(b) > 0
    PROVE  /\ EndOfLine(b) \in 1..Len(b) /\ EndOfLine(b) \in Found(b)
           /\ EndOfLine(SubSeq(b, 1, EndOfLine(b))) = EndOfLine(b)
<1> DEFINE e == EndOfLine(b)
           a == SubSeq(b, 1, e)
<1>1. Found(b) # {}
  BY DEF EndOfLine
<1>2. e \in Found(b) /\ e \in 1..Len(b) /\ \A f \in Found(b) : e <= f
  BY <1>1, FirstLine
<1>3. a \in Seq(Byte) /\ Len(a) = e
  BY <1>2
<1> HIDE DEF e
<1>4. Found(a) = Found(b) \intersect (1..e)
  BY <1>2, FoundInPrefix
<1> HIDE DEF a
<1>5. e \in Found(a) /\ Found(a) = {e}
  BY <1>2, <1>4
<1>6. EndOfLine(a) = e
  BY <1>3, <1>5, FirstLine
<1> QED BY <1>2, <1>6 DEF a, e

-----------------------------------------------------------------------------
(* How much can be read. *)

LEMMA TakenNowTyped ==
    ASSUME TTypeOK
    PROVE  TakenNow \in 0..arrived
<1>1. /\ Total \in Nat /\ arrived \in 0..Total /\ taken \in 0..arrived /\ given \in 0..arrived
      /\ peer.ends \subseteq 1..Total /\ (Total # 0 => Total \in peer.ends)
  BY StreamsAssumption DEF TTypeOK, Total
<1>2. CASE given = Total
  BY <1>1, <1>2 DEF TakenNow
<1>3. CASE given # Total
  <2> DEFINE Behind == {e \in peer.ends : e > given}
  <2>1. Behind \subseteq Nat /\ Total \in Behind
    BY <1>1, <1>3
  <2>2. \E e \in Behind : \A f \in Behind : e <= f
    BY <2>1, LeastExists
  <2>3. \E e \in peer.ends : e > given /\ \A f \in peer.ends : f > given => e <= f
    BY <2>2
  <2>4. RecordEnd(given) \in peer.ends
    BY <2>3 DEF RecordEnd
  <2>5. RecordEnd(given) \in Nat
    BY <1>1, <2>4
  <2>6. Smaller(arrived, RecordEnd(given)) \in 0..arrived
    BY <1>1, <2>5 DEF Smaller
  <2> QED BY <1>1, <2>6 DEF TakenNow
<1> QED BY <1>2, <1>3

LEMMA ReadTyped ==
    ASSUME TTypeOK, NEW n \in Nat
    PROVE  Read(n) \in Int /\ Read(n) >= -1 /\ (Read(n) > 0 => given + Read(n) <= arrived)
<1>1. Total \in Nat /\ arrived \in 0..Total /\ given \in 0..arrived
  BY StreamsAssumption DEF TTypeOK, Total
<1>2. TakenNow \in 0..arrived
  BY TakenNowTyped
<1>3. tcp_read(n) \in Int /\ tcp_read(n) >= -1 /\ (tcp_read(n) > 0 => given + tcp_read(n) <= arrived)
  BY <1>1 DEF tcp_read, Smaller
<1>4. tcp_sslread(n) \in Int /\ tcp_sslread(n) >= -1 /\ (tcp_sslread(n) > 0 => given + tcp_sslread(n) <= arrived)
  BY <1>1, <1>2 DEF tcp_sslread, Smaller
<1> QED BY <1>3, <1>4 DEF Read

\* What a call of the kernel leaves behind.
LEMMA TakesTyped ==
    ASSUME TTypeOK, NEW k \in Nat, given + k <= arrived, Takes(k)
    PROVE  /\ peer' = peer /\ arrived' = arrived /\ ended' = ended /\ given' = given + k
           /\ given' \in 0..arrived /\ taken' \in 0..arrived /\ noted' \in BOOLEAN
<1>1. given \in 0..arrived /\ arrived \in Nat
  BY StreamsAssumption DEF TTypeOK, Total
<1>2. TakenNow \in 0..arrived
  BY TakenNowTyped
<1>3. noted' \in BOOLEAN
  BY DEF Takes
<1> QED BY <1>1, <1>2, <1>3 DEF Takes

-----------------------------------------------------------------------------
(* What a step of the reading coroutine leaves behind. *)

Readers == {Idle} \union Reading
Reads == Seq([op : {"recv", "readline"}, ok : BOOLEAN, data : Seq(Byte)])

LEMMA ReaderKinds ==
    ASSUME TTypeOK
    PROVE  /\ Pending \in Seq(Byte)
           /\ reader.op # "readline" => Pending = <<>>
           /\ reader.op = "readline" => /\ Pending = reader.buffer
                                        /\ reader = [op |-> "readline", at |-> reader.at, buffer |-> reader.buffer]
                                        /\ reader.at \in {"runs", "waits"}
           /\ reader.op = "recv" => reader.n \in Nat
           /\ reader # Idle => reader.op \in {"recv", "readline"}
           /\ reader = Idle => reader.op = "idle"
<1>1. CASE reader = Idle
  BY <1>1, EmptySeq DEF Idle, Pending
<1>2. CASE reader \in [op : {"recv"}, n : Nat]
  BY <1>2, EmptySeq DEF Idle, Pending
<1>3. CASE reader \in [op : {"readline"}, at : {"runs", "waits"}, buffer : Seq(Byte)]
  BY <1>3 DEF Idle, Pending
<1> QED BY <1>1, <1>2, <1>3 DEF TTypeOK, Reading

LEMMA PeerTyped ==
    ASSUME TTypeOK
    PROVE  peer.bytes \in Seq(Byte) /\ Total = Len(peer.bytes) /\ given \in Nat /\ arrived \in Nat /\ arrived <= Total
<1> QED BY StreamsAssumption DEF TTypeOK, Total

LEMMA GivenTyped ==
    ASSUME TTypeOK, NEW k \in Nat, given + k <= arrived
    PROVE  Given(k) \in Seq(Byte) /\ SubSeq(peer.bytes, 1, given) \o Given(k) = SubSeq(peer.bytes, 1, given + k)
<1>1. peer.bytes \in Seq(Byte) /\ given \in Nat /\ given + k <= Len(peer.bytes)
  BY PeerTyped
<1> DEFINE s == peer.bytes
<1> HIDE DEF s
<1>2. s \in Seq(Byte) /\ given + k <= Len(s)
  BY <1>1 DEF s
<1>3. PICK g \in Nat : g = given
  BY <1>1
<1>4. SubSeq(s, g + 1, g + k) \in Seq(Byte) /\ SubSeq(s, 1, g) \o SubSeq(s, g + 1, g + k) = SubSeq(s, 1, g + k)
  BY <1>2, <1>3, FirstBytes
<1> QED BY <1>3, <1>4 DEF Given, s

LEMMA Associative ==
    ASSUME NEW a \in Seq(Byte), NEW b \in Seq(Byte), NEW c \in Seq(Byte)
    PROVE  (a \o b) \o c = a \o (b \o c)
<1> QED BY ConcatAssociative

LEMMA Regroup ==
    ASSUME Pending \in Seq(Byte), NEW k, Given(k) \in Seq(Byte), NEW f \in Seq(Byte)
    PROVE  f \o (Pending \o Given(k)) = (f \o Pending) \o Given(k)
<1> QED BY Associative

\* An operation returns what it held and the k bytes it has just read.
LEMMA ReturnKeeps ==
    ASSUME TTypeOK, ReadKnown, NEW k \in Nat, given + k <= arrived, given' = given + k, peer' = peer,
           NEW op \in {"recv", "readline"}, NEW ok \in BOOLEAN, NEW data, data = Pending \o Given(k),
           Returned(op, ok, data), ok /\ op = "readline" => EndOfLine(data) = Len(data)
    PROVE  ReadKnown' /\ reader' \in Readers /\ read' \in Reads
<1> DEFINE flat == FlattenSeq(Datas(read))
<1>1. Given(k) \in Seq(Byte) /\ SubSeq(peer.bytes, 1, given) \o Given(k) = SubSeq(peer.bytes, 1, given + k)
  BY GivenTyped
<1>2. data \in Seq(Byte)
  BY <1>1, ReaderKinds
<1>3. reader' = Idle /\ read' = Append(read, [op |-> op, ok |-> ok, data |-> data])
  BY DEF Returned
<1>4. read \in Reads /\ read' \in Reads
  BY <1>2, <1>3, AppendProperties DEF TTypeOK, Reads
<1>5. flat \in Seq(Byte) /\ FlattenSeq(Datas(read')) = flat \o data
  <2>1. read \in Seq([op : {"recv", "readline"}, ok : BOOLEAN, data : Seq(Byte)])
    BY <1>4 DEF Reads
  <2>2. FlattenSeq(Datas(Append(read, [op |-> op, ok |-> ok, data |-> data]))) = flat \o data
    BY <1>2, <2>1, DatasGrow
  <2>3. flat \in Seq(Byte)
    BY <1>2, <2>1, DatasGrow
  <2> QED BY <1>3, <2>2, <2>3
<1> HIDE DEF flat
<1>6. flat \o data = SubSeq(peer.bytes, 1, given + k)
  <2>1. Pending \in Seq(Byte)
    BY ReaderKinds
  <2>3. flat \o (Pending \o Given(k)) = (flat \o Pending) \o Given(k)
    BY <1>1, <1>5, <2>1, Regroup
  <2>2. flat \o data = (flat \o Pending) \o Given(k)
    BY <2>3
  <2> QED BY <1>1, <2>2 DEF ReadKnown, flat
<1>7. Pending' = <<>> /\ reader'.op # "readline"
  BY <1>3 DEF Pending, Idle
<1>8. FlattenSeq(Datas(read')) \o Pending' = SubSeq(peer'.bytes, 1, given')
  BY <1>2, <1>5, <1>6, <1>7, ConcatProperties, ConcatEmptySeq DEF flat
<1>9. \A i \in DOMAIN read' : read'[i].ok /\ read'[i].op = "readline" => EndOfLine(read'[i].data) = Len(read'[i].data)
  <2>1. /\ Len(read) \in Nat /\ DOMAIN read' = 1..(Len(read) + 1) /\ DOMAIN read = 1..Len(read)
        /\ \A i \in 1..Len(read) : read'[i] = read[i]
        /\ read'[Len(read) + 1] = [op |-> op, ok |-> ok, data |-> data]
    BY <1>2, <1>3, <1>4, AppendProperties DEF Reads
  <2>2. SUFFICES ASSUME NEW i \in DOMAIN read', read'[i].ok /\ read'[i].op = "readline"
                 PROVE  EndOfLine(read'[i].data) = Len(read'[i].data)
    OBVIOUS
  <2>3. CASE i \in DOMAIN read
    BY <2>1, <2>2, <2>3 DEF ReadKnown
  <2>4. CASE i = Len(read) + 1
    <3>1. read'[i].op = op /\ read'[i].ok = ok /\ read'[i].data = data
      BY <2>1, <2>4
    <3>2. ok /\ op = "readline"
      BY <2>2, <3>1
    <3>3. EndOfLine(data) = Len(data)
      BY <3>2
    <3> QED BY <3>1, <3>3
  <2> QED BY <2>1, <2>3, <2>4
<1> QED BY <1>3, <1>4, <1>7, <1>8, <1>9 DEF ReadKnown, Readers

\* readline goes on with what it held and the k bytes it has just read.
LEMMA LineGoesOn ==
    ASSUME TTypeOK, ReadKnown, NEW k \in Nat, given + k <= arrived, given' = given + k, peer' = peer,
           NEW at \in {"runs", "waits"}, NEW buffer, buffer = Pending \o Given(k), Found(buffer) = {},
           reader' = [op |-> "readline", at |-> at, buffer |-> buffer], read' = read
    PROVE  ReadKnown' /\ reader' \in Readers /\ read' \in Reads
<1> DEFINE flat == FlattenSeq(Datas(read))
<1>1. Given(k) \in Seq(Byte) /\ SubSeq(peer.bytes, 1, given) \o Given(k) = SubSeq(peer.bytes, 1, given + k)
  BY GivenTyped
<1>2. buffer \in Seq(Byte)
  BY <1>1, ReaderKinds
<1>3. read \in Reads
  BY DEF TTypeOK, Reads
<1>4. flat \in Seq(Byte)
  BY <1>2, <1>3, DatasGrow DEF Reads
<1> HIDE DEF flat
<1>5. flat \o buffer = (flat \o Pending) \o Given(k)
  <2>1. Pending \in Seq(Byte)
    BY ReaderKinds
  <2>2. flat \o (Pending \o Given(k)) = (flat \o Pending) \o Given(k)
    BY <1>1, <1>4, <2>1, Regroup
  <2> QED BY <2>2
<1>6. flat \o buffer = SubSeq(peer.bytes, 1, given + k)
  BY <1>1, <1>5 DEF ReadKnown, flat
<1>7. Pending' = buffer /\ reader'.op = "readline" /\ reader'.buffer = buffer
  BY DEF Pending
<1> QED BY <1>2, <1>3, <1>6, <1>7 DEF ReadKnown, Readers, Reading, flat

\* recv waits.
LEMMA RecvWaits ==
    ASSUME TTypeOK, ReadKnown, given' = given, peer' = peer, read' = read, reader.op # "readline",
           NEW n \in Nat, reader' = [op |-> "recv", n |-> n]
    PROVE  ReadKnown' /\ reader' \in Readers /\ read' \in Reads
<1>1. Pending = <<>> /\ Pending' = <<>> /\ reader'.op # "readline"
  BY ReaderKinds DEF Pending
<1>2. read \in Reads
  BY DEF TTypeOK, Reads
<1> QED BY <1>1, <1>2 DEF ReadKnown, Readers, Reading

\* The bytes that go out are none of its business.
LEMMA ReaderStep ==
    ASSUME TTypeOK, SentKnown, UNCHANGED <<ssl, peer, arrived, ended, outVars, writeVars>>,
           given' \in 0..arrived, taken' \in 0..arrived, noted' \in BOOLEAN,
           ReadKnown', reader' \in Readers, read' \in Reads
    PROVE  IInv'
<1>1. TTypeOK'
  BY DEF TTypeOK, Readers, Reads, Total, Reading, Writing, Idle, outVars, writeVars
<1>2. SentKnown'
  BY DEF SentKnown, Wholes, Part, Failed, Parts, Idle, outVars, writeVars
<1> QED BY <1>1, <1>2 DEF IInv

-----------------------------------------------------------------------------
(* The steps of the reading coroutine. *)

LEMMA GivenNothing ==
    ASSUME TTypeOK
    PROVE  Given(0) = <<>> /\ Pending = Pending \o Given(0) /\ given + 0 = given /\ given + 0 <= arrived
<1>1. given \in 0..arrived /\ arrived \in Nat
  BY StreamsAssumption DEF TTypeOK, Total
<1>2. Given(0) = <<>>
  BY <1>1, SubSeqEmpty DEF Given
<1>3. Pending \in Seq(Byte)
  BY ReaderKinds
<1>4. Pending \o <<>> = Pending
  BY <1>3, ConcatEmptySeq
<1>5. Pending = Pending \o Given(0)
  BY <1>2, <1>4
<1>6. given + 0 = given /\ given + 0 <= arrived
  BY <1>1
<1> QED BY <1>2, <1>5, <1>6

\* Nothing is read.
LEMMA Untouched ==
    ASSUME TTypeOK, UNCHANGED inVars
    PROVE  /\ peer' = peer /\ arrived' = arrived /\ ended' = ended /\ given' = given
           /\ given' \in 0..arrived /\ taken' \in 0..arrived /\ noted' \in BOOLEAN
<1> QED BY DEF TTypeOK, inVars

LEMMA RecvKeeps ==
    ASSUME IInv, NEW n \in Amounts, recv(n)
    PROVE  IInv'
<1> DEFINE k == Read(n)
           j == IF k > 0 THEN k ELSE 0
<1>1. TTypeOK /\ ReadKnown /\ SentKnown /\ n \in Nat
  BY StreamsAssumption DEF IInv
<1>2. k \in Int /\ (k > 0 => given + k <= arrived)
  BY <1>1, ReadTyped
<1>3. j \in Nat /\ given + j <= arrived
  BY <1>1, <1>2, GivenNothing
<1>4. Takes(j) /\ UNCHANGED <<ssl, outVars, writeVars>> /\ reader = Idle
  BY DEF recv
<1> HIDE DEF j
<1>5. /\ peer' = peer /\ arrived' = arrived /\ ended' = ended /\ given' = given + j
      /\ given' \in 0..arrived /\ taken' \in 0..arrived /\ noted' \in BOOLEAN
  BY <1>1, <1>3, <1>4, TakesTyped
<1>6. Pending = <<>> /\ reader.op # "readline"
  BY <1>1, <1>4, ReaderKinds DEF Idle
<1>7. Given(j) = Pending \o Given(j)
  BY <1>1, <1>3, <1>6, GivenTyped, ConcatEmptySeq
<1>8. ReadKnown' /\ reader' \in Readers /\ read' \in Reads
  <2>1. CASE k > 0
    <3>1. j = k
      BY <2>1 DEF j
    <3>2. Returned("recv", TRUE, Given(j))
      BY <2>1, <3>1 DEF recv
    <3> QED BY <1>1, <1>3, <1>5, <1>7, <3>2, ReturnKeeps
  <2>2. CASE ~(k > 0)
    <3>1. j = 0 /\ Given(j) = <<>> /\ given' = given
      BY <1>1, <1>5, <2>2, GivenNothing DEF j
    <3>2. CASE Returned("recv", FALSE, <<>>)
      <4>1. Returned("recv", FALSE, Given(j))
        BY <3>1, <3>2
      <4> QED BY <1>1, <1>3, <1>5, <1>7, <4>1, ReturnKeeps
    <3>3. CASE reader' = [op |-> "recv", n |-> n] /\ UNCHANGED read
      BY <1>1, <1>5, <1>6, <3>1, <3>3, RecvWaits
    <3> QED BY <2>2, <3>2, <3>3 DEF recv
  <2> QED BY <2>1, <2>2
<1> QED BY <1>1, <1>4, <1>5, <1>8, ReaderStep

LEMMA RecvEventKeeps ==
    ASSUME IInv, RecvEvent
    PROVE  IInv'
<1> DEFINE k == Read(reader.n)
           j == IF k > 0 THEN k ELSE 0
<1>1. TTypeOK /\ ReadKnown /\ SentKnown /\ reader.op = "recv"
  BY DEF IInv, RecvEvent
<1>2. reader.n \in Nat /\ Pending = <<>>
  BY <1>1, ReaderKinds
<1>3. k \in Int /\ (k > 0 => given + k <= arrived)
  BY <1>1, <1>2, ReadTyped
<1>4. j \in Nat /\ given + j <= arrived
  BY <1>1, <1>3, GivenNothing
<1>5. Takes(j) /\ UNCHANGED <<ssl, outVars, writeVars>>
  BY DEF RecvEvent
<1> HIDE DEF j
<1>6. /\ peer' = peer /\ arrived' = arrived /\ ended' = ended /\ given' = given + j
      /\ given' \in 0..arrived /\ taken' \in 0..arrived /\ noted' \in BOOLEAN
  BY <1>1, <1>4, <1>5, TakesTyped
<1>7. Given(j) = Pending \o Given(j)
  BY <1>1, <1>2, <1>4, GivenTyped, ConcatEmptySeq
<1>8. ReadKnown' /\ reader' \in Readers /\ read' \in Reads
  <2>1. CASE UNCHANGED readVars /\ k = 0
    <3>1. given' = given
      BY <1>1, <1>6, <2>1, GivenNothing DEF j
    <3>2. Pending' = Pending
      BY <2>1 DEF readVars, Pending
    <3> QED BY <1>1, <1>6, <2>1, <3>1, <3>2 DEF ReadKnown, readVars, TTypeOK, Readers, Reads
  <2>2. CASE Returned("recv", k > 0, IF k > 0 THEN Given(k) ELSE <<>>)
    <3>1. Given(j) = IF k > 0 THEN Given(k) ELSE <<>>
      BY <1>1, <1>3, GivenNothing DEF j
    <3>2. k > 0 => Returned("recv", TRUE, Given(j))
      BY <2>2, <3>1
    <3>3. ~(k > 0) => Returned("recv", FALSE, Given(j))
      <4>1. SUFFICES ASSUME ~(k > 0) PROVE Returned("recv", FALSE, Given(j))
        OBVIOUS
      <4>2. (k > 0) = FALSE /\ Given(j) = <<>>
        BY <3>1, <4>1
      <4> QED BY <2>2, <4>2
    <3> QED BY <1>1, <1>4, <1>6, <1>7, <3>2, <3>3, ReturnKeeps
  <2> QED BY <2>1, <2>2 DEF RecvEvent
<1> QED BY <1>1, <1>5, <1>6, <1>8, ReaderStep

LEMMA ReadlineKeeps ==
    ASSUME IInv, readline
    PROVE  IInv'
<1>1. TTypeOK /\ ReadKnown /\ SentKnown /\ reader = Idle
  BY DEF IInv, readline
<1>2. /\ peer' = peer /\ arrived' = arrived /\ ended' = ended /\ given' = given
      /\ given' \in 0..arrived /\ taken' \in 0..arrived /\ noted' \in BOOLEAN
  BY <1>1, Untouched DEF readline
<1>3. Pending = <<>> /\ <<>> = Pending \o Given(0) /\ given' = given + 0 /\ given + 0 <= arrived
  BY <1>1, <1>2, ReaderKinds, GivenNothing DEF Idle
<1>4. Found(<<>>) = {}
  BY StreamsAssumption DEF Found
<1>5. ReadKnown' /\ reader' \in Readers /\ read' \in Reads
  BY <1>1, <1>2, <1>3, <1>4, LineGoesOn DEF readline
<1> QED BY <1>1, <1>2, <1>5, ReaderStep DEF readline

LEMMA LineEventKeeps ==
    ASSUME IInv, LineEvent
    PROVE  IInv'
<1>1. TTypeOK /\ ReadKnown /\ SentKnown /\ reader.op = "readline"
  BY DEF IInv, LineEvent
<1>2. /\ peer' = peer /\ arrived' = arrived /\ ended' = ended /\ given' = given
      /\ given' \in 0..arrived /\ taken' \in 0..arrived /\ noted' \in BOOLEAN
  BY <1>1, Untouched DEF LineEvent
<1>3. Pending = Pending \o Given(0) /\ given' = given + 0 /\ given + 0 <= arrived
  BY <1>1, <1>2, GivenNothing
<1>4. Found(Pending) = {} /\ reader' = [op |-> "readline", at |-> "runs", buffer |-> Pending]
  BY <1>1, ReaderKinds DEF ReadKnown, LineEvent
<1>5. ReadKnown' /\ reader' \in Readers /\ read' \in Reads
  BY <1>1, <1>2, <1>3, <1>4, LineGoesOn DEF LineEvent
<1> QED BY <1>1, <1>2, <1>5, ReaderStep DEF LineEvent

LEMMA TimesOutKeeps ==
    ASSUME IInv, TimesOut
    PROVE  IInv'
<1>1. TTypeOK /\ ReadKnown /\ SentKnown /\ reader # Idle
  BY DEF IInv, TimesOut
<1>2. /\ peer' = peer /\ arrived' = arrived /\ ended' = ended /\ given' = given
      /\ given' \in 0..arrived /\ taken' \in 0..arrived /\ noted' \in BOOLEAN
  BY <1>1, Untouched DEF TimesOut
<1>3. Pending = Pending \o Given(0) /\ given' = given + 0 /\ given + 0 <= arrived
  BY <1>1, <1>2, GivenNothing
<1>4. Returned(reader.op, FALSE, Pending) /\ reader.op \in {"recv", "readline"}
  BY <1>1, ReaderKinds DEF TimesOut, Pending
<1>5. ReadKnown' /\ reader' \in Readers /\ read' \in Reads
  BY <1>1, <1>2, <1>3, <1>4, ReturnKeeps
<1> QED BY <1>1, <1>2, <1>5, ReaderStep DEF TimesOut

\* One round of readline.  A line ends behind what was held before, so of the bytes that were
\* looked at last some are taken, and no more than there are.
LEMMA LooksAtKeeps ==
    ASSUME IInv, UNCHANGED <<ssl, outVars, writeVars>>, reader.op = "readline",
           NEW k \in Nat, k > 0, given + k <= arrived, LooksAt(Pending \o Given(k), k),
           reader.at = "runs"
    PROVE  IInv'
<1> DEFINE b == Pending \o Given(k)
           e == EndOfLine(b)
<1>1. TTypeOK /\ ReadKnown /\ SentKnown
  BY DEF IInv
<1>2. /\ Pending \in Seq(Byte) /\ Pending = reader.buffer /\ Found(Pending) = {}
      /\ reader = [op |-> "readline", at |-> reader.at, buffer |-> Pending]
  BY <1>1, ReaderKinds DEF ReadKnown
<1>3. Given(k) \in Seq(Byte) /\ Len(Given(k)) = k /\ peer.bytes \in Seq(Byte) /\ given + k <= Len(peer.bytes) /\ given \in Nat
  <2>1. peer.bytes \in Seq(Byte) /\ given + k <= Len(peer.bytes) /\ given \in Nat
    BY <1>1, PeerTyped
  <2>2. Given(k) \in Seq(Byte) /\ Len(Given(k)) = k
    BY <2>1 DEF Given
  <2> QED BY <2>1, <2>2
<1>4. b \in Seq(Byte) /\ Len(b) = Len(Pending) + k /\ Len(Pending) \in Nat
  <2>1. PICK p \in Seq(Byte), g \in Seq(Byte) : p = Pending /\ g = Given(k)
    BY <1>2, <1>3
  <2>2. p \o g \in Seq(Byte) /\ Len(p \o g) = Len(p) + Len(g) /\ Len(p) \in Nat
    OBVIOUS
  <2> QED BY <1>3, <2>1, <2>2
<1>5. CASE e > 0
  <2> DEFINE j == OfThisLine(k, Len(b), e)
             line == SubSeq(b, 1, e)
  <2>1. e \in 1..Len(b) /\ e \in Found(b) /\ EndOfLine(line) = e
    BY <1>4, <1>5, OneLine
  <2>2. e > Len(Pending)
    <3>1. \A f \in 1..Len(Pending) : f \in Found(b) <=> f \in Found(Pending)
      BY <1>2, <1>3, FoundInConcat
    <3>2. e \notin 1..Len(Pending)
      BY <1>2, <2>1, <3>1
    <3> QED BY <1>2, <2>1, <3>2
  <2>3. j \in Nat /\ j <= k /\ Len(Pending) + j = e /\ given + j <= arrived
    <3>1. j = k - (Len(b) - e)
      BY DEF OfThisLine
    <3>2. arrived \in Nat
      BY <1>1, PeerTyped
    <3> HIDE DEF j, e, b
    <3> QED BY <1>3, <1>4, <2>1, <2>2, <3>1, <3>2
  <2>4. Takes(j) /\ Returned("readline", TRUE, line)
    BY <1>5 DEF LooksAt
  <2>5. Len(line) = e
    BY <1>4, <2>1
  <2> HIDE DEF j
  <2>6. line = Pending \o Given(j)
    <3>1. PICK p \in Seq(Byte), s \in Seq(Byte), g \in Nat : p = Pending /\ s = peer.bytes /\ g = given
      BY <1>2, <1>3
    <3>2. g + k <= Len(s)
      BY <1>3, <3>1
    <3>3. SubSeq(p \o SubSeq(s, g + 1, g + k), 1, Len(p) + j) = p \o SubSeq(s, g + 1, g + j)
      <4>1. PICK i \in Nat : i = j /\ i <= k
        BY <2>3
      <4>2. SubSeq(p \o SubSeq(s, g + 1, g + k), 1, Len(p) + i) = p \o SubSeq(s, g + 1, g + i)
        BY <3>2, <4>1, SomeOfTheRest
      <4> QED BY <4>1, <4>2
    <3>4. SubSeq(b, 1, Len(Pending) + j) = Pending \o Given(j)
      BY <3>1, <3>3 DEF Given
    <3> QED BY <2>3, <3>4
  <2> HIDE DEF line, e
  <2>7. /\ peer' = peer /\ arrived' = arrived /\ ended' = ended /\ given' = given + j
        /\ given' \in 0..arrived /\ taken' \in 0..arrived /\ noted' \in BOOLEAN
    BY <1>1, <2>3, <2>4, TakesTyped
  <2>8. ReadKnown' /\ reader' \in Readers /\ read' \in Reads
    BY <1>1, <2>1, <2>3, <2>4, <2>5, <2>6, <2>7, ReturnKeeps
  <2> QED BY <1>1, <2>7, <2>8, ReaderStep
<1>6. CASE ~(e > 0)
  <2>1. Takes(k) /\ reader' = [reader EXCEPT !.buffer = b] /\ read' = read
    BY <1>6 DEF LooksAt
  <2>2. reader' = [op |-> "readline", at |-> "runs", buffer |-> b]
    BY <1>2, <2>1
  <2>3. Found(b) = {}
    BY <1>4, <1>6, FirstLine
  <2>4. /\ peer' = peer /\ arrived' = arrived /\ ended' = ended /\ given' = given + k
        /\ given' \in 0..arrived /\ taken' \in 0..arrived /\ noted' \in BOOLEAN
    BY <1>1, <2>1, TakesTyped
  <2> HIDE DEF b
  <2>5. b = Pending \o Given(k)
    BY DEF b
  <2>6. ReadKnown' /\ reader' \in Readers /\ read' \in Reads
    BY <1>1, <2>1, <2>2, <2>3, <2>4, <2>5, LineGoesOn
  <2> QED BY <1>1, <2>4, <2>6, ReaderStep
<1> QED BY <1>5, <1>6

LEMMA LineRoundKeeps ==
    ASSUME IInv, LineRound
    PROVE  IInv'
<1> DEFINE k == Read(MSize)
<1>1. TTypeOK /\ ReadKnown /\ SentKnown /\ reader.op = "readline" /\ reader.at = "runs"
  BY DEF IInv, LineRound, LineRuns
<1>2. k \in Int /\ (k > 0 => given + k <= arrived)
  BY <1>1, ReadTyped, StreamsAssumption
<1>3. UNCHANGED <<ssl, outVars, writeVars>>
  BY DEF LineRound
<1>4. Pending = reader.buffer /\ reader = [op |-> "readline", at |-> "runs", buffer |-> Pending]
  BY <1>1, ReaderKinds
<1>5. CASE k > 0
  <2>1. LooksAt(Pending \o Given(k), k)
    BY <1>4, <1>5 DEF LineRound
  <2>2. k \in Nat
    BY <1>2, <1>5
  <2> QED BY <1>1, <1>2, <1>3, <1>5, <2>1, <2>2, LooksAtKeeps
<1>6. CASE ~(k > 0)
  <2>1. Takes(0)
    BY <1>6 DEF LineRound
  <2>2. Pending = Pending \o Given(0) /\ given + 0 <= arrived
    BY <1>1, GivenNothing
  <2>3. /\ peer' = peer /\ arrived' = arrived /\ ended' = ended /\ given' = given + 0
        /\ given' \in 0..arrived /\ taken' \in 0..arrived /\ noted' \in BOOLEAN
    BY <1>1, <2>1, <2>2, TakesTyped
  <2>4. ReadKnown' /\ reader' \in Readers /\ read' \in Reads
    <3>1. CASE reader' = [reader EXCEPT !.at = "waits"] /\ UNCHANGED read
      <4>1. reader' = [op |-> "readline", at |-> "waits", buffer |-> Pending]
        BY <1>4, <3>1
      <4>2. Found(Pending) = {}
        BY <1>1, <1>4 DEF ReadKnown
      <4> QED BY <1>1, <2>2, <2>3, <3>1, <4>1, <4>2, LineGoesOn
    <3>2. CASE Returned("readline", FALSE, reader.buffer)
      <4>1. Returned("readline", FALSE, Pending)
        BY <1>4, <3>2
      <4> QED BY <1>1, <2>2, <2>3, <4>1, ReturnKeeps
    <3> QED BY <1>6, <3>1, <3>2 DEF LineRound
  <2> QED BY <1>1, <1>3, <2>3, <2>4, ReaderStep
<1> QED BY <1>5, <1>6

-----------------------------------------------------------------------------
(* What a step of the writing coroutine leaves behind. *)

Sents == Seq([m : Messages, ok : BOOLEAN])

LEMMA WriterKinds ==
    ASSUME IInv
    PROVE  /\ writer.op \in {"send", "sendfile"} =>
                 /\ writer # Idle /\ writer.m \in Messages /\ writer.off \in Nat /\ writer.off <= Len(writer.m)
                 /\ writer = [op |-> writer.op, m |-> writer.m, off |-> writer.off]
                 /\ Part = SubSeq(writer.m, 1, writer.off)
           /\ writer = Idle => Part = <<>>
<1>1. CASE writer = Idle
  BY <1>1 DEF Idle, Part
<1>2. CASE writer \in Writing
  BY <1>2 DEF Idle, Part, Writing, IInv, SentKnown
<1> QED BY <1>1, <1>2 DEF IInv, TTypeOK

LEMMA MessageTyped ==
    ASSUME NEW m \in Messages
    PROVE  m \in Seq(Byte) /\ Len(m) \in Nat
<1> QED BY StreamsAssumption

\* A send ends, or goes on.
LEMMA SentsGrow ==
    ASSUME sent \in Sents, NEW m \in Messages, NEW ok \in BOOLEAN, Finished(m, ok)
    PROVE  /\ writer' = Idle /\ sent' \in Sents /\ FlattenSeq(Wholes(sent)) \in Seq(Byte)
           /\ FlattenSeq(Wholes(sent')) = FlattenSeq(Wholes(sent)) \o (IF ok THEN m ELSE <<>>)
           /\ \A i \in DOMAIN sent : i \in DOMAIN sent' /\ sent'[i] = sent[i]
           /\ Len(sent) + 1 \in DOMAIN sent' /\ sent'[Len(sent) + 1] = [m |-> m, ok |-> ok]
           /\ Failed' = Failed \union (IF ok THEN {} ELSE {Len(sent) + 1})
<1> DEFINE r == [m |-> m, ok |-> ok]
<1>1. writer' = Idle /\ sent' = Append(sent, r)
  BY DEF Finished
<1>2. r \in [m : Messages, ok : BOOLEAN] /\ r.ok = ok
  OBVIOUS
<1> HIDE DEF r
<1>3. /\ sent' \in Sents /\ Len(sent) \in Nat
      /\ DOMAIN sent = 1..Len(sent) /\ DOMAIN sent' = 1..(Len(sent) + 1)
      /\ \A i \in 1..Len(sent) : sent'[i] = sent[i]
      /\ sent'[Len(sent) + 1] = r
  <2>1. /\ Append(sent, r) \in Sents /\ Len(Append(sent, r)) = Len(sent) + 1
        /\ \A i \in 1..Len(sent) : Append(sent, r)[i] = sent[i]
        /\ Append(sent, r)[Len(sent) + 1] = r
    BY <1>2, AppendProperties DEF Sents
  <2>2. DOMAIN sent = 1..Len(sent) /\ Len(sent) \in Nat /\ DOMAIN Append(sent, r) = 1..Len(Append(sent, r))
    BY <2>1, LenProperties DEF Sents
  <2> QED BY <1>1, <2>1, <2>2
<1>4. /\ FlattenSeq(Wholes(sent)) \in Seq(Byte)
      /\ FlattenSeq(Wholes(sent')) = FlattenSeq(Wholes(sent)) \o (IF ok THEN m ELSE <<>>)
  BY <1>1, WholesGrow DEF Sents, r
<1>5. Failed' = Failed \union (IF ok THEN {} ELSE {Len(sent) + 1})
  <2>1. Failed' = {i \in DOMAIN sent' : ~sent'[i].ok}
    BY DEF Failed
  <2>2. \A i \in 1..Len(sent) : sent'[i].ok = sent[i].ok
    BY <1>3
  <2>3. sent'[Len(sent) + 1].ok = ok
    BY <1>2, <1>3
  <2>4. DOMAIN sent' = DOMAIN sent \union {Len(sent) + 1}
    BY <1>3
  <2> QED BY <1>3, <2>1, <2>2, <2>3, <2>4 DEF Failed
<1>6. \A i \in DOMAIN sent : i \in DOMAIN sent' /\ sent'[i] = sent[i]
  BY <1>3
<1>7. Len(sent) + 1 \in DOMAIN sent'
  BY <1>3
<1> QED BY <1>1, <1>3, <1>4, <1>5, <1>6, <1>7 DEF r

\* What comes in is none of its business.
LEMMA WriterStep ==
    ASSUME IInv, UNCHANGED <<ssl, inVars, readVars, drained>>, stream' \in Seq(Byte),
           writer' \in {Idle} \union Writing, sent' \in Sents, SentKnown'
    PROVE  IInv'
<1>1. TTypeOK'
  BY DEF IInv, TTypeOK, Sents, Total, Reading, Writing, Idle, inVars, readVars
<1>2. ReadKnown'
  BY DEF IInv, ReadKnown, Pending, inVars, readVars
<1> QED BY <1>1, <1>2 DEF IInv

\* How many bytes go out.
Fits(k, rest) == \/ k = -1 /\ ended = "reset"
                 \/ k \in 0..rest /\ k <= Free /\ (k > 0 => ended # "reset")

LEMMA GoesFits ==
    ASSUME IInv, NEW rest \in Nat
    PROVE  \A k \in Flushed(rest) \union Accepted(rest) \union Goes(rest) \union {0} : Fits(k, rest)
<1>1. Free \in Nat
  <2>1. Len(stream) \in Nat /\ drained \in Nat /\ Len(stream) - drained \in 0..SendBuffer /\ SendBuffer \in Nat
    BY StreamsAssumption DEF IInv, TTypeOK, SentKnown
  <2> QED BY <2>1 DEF Free
<1>2. \A k \in Flushed(rest) : Fits(k, rest)
  BY <1>1 DEF Flushed, Fits, Smaller
<1>3. \A k \in Accepted(rest) : Fits(k, rest)
  BY <1>1 DEF Accepted, Fits, Smaller
<1>4. Fits(0, rest)
  BY <1>1 DEF Fits
<1> QED BY <1>2, <1>3, <1>4 DEF Goes

\* What is put behind a part of a message.
LEMMA PutsBehind ==
    ASSUME NEW w \in Seq(Byte), NEW m \in Seq(Byte), NEW off \in Nat, NEW k \in Nat, off + k <= Len(m)
    PROVE  (w \o SubSeq(m, 1, off)) \o SubSeq(m, off + 1, off + k) = w \o SubSeq(m, 1, off + k)
<1>1. /\ SubSeq(m, off + 1, off + k) \in Seq(Byte)
      /\ SubSeq(m, 1, off) \o SubSeq(m, off + 1, off + k) = SubSeq(m, 1, off + k)
  BY FirstBytes
<1>2. SubSeq(m, 1, off) \in Seq(Byte)
  OBVIOUS
<1> DEFINE x == SubSeq(m, 1, off)
           y == SubSeq(m, off + 1, off + k)
<1> HIDE DEF x, y
<1>3. x \in Seq(Byte) /\ y \in Seq(Byte) /\ x \o y = SubSeq(m, 1, off + k)
  BY <1>1, <1>2 DEF x, y
<1>4. (w \o x) \o y = w \o (x \o y)
  BY <1>3, Associative
<1> QED BY <1>3, <1>4 DEF x, y

\* k bytes of m go out behind the first off ones.
LEMMA PutTyped ==
    ASSUME IInv, NEW m \in Messages, NEW off \in Nat, off <= Len(m), NEW k,
           Fits(k, Len(m) - off), Put(m, off, k), drained' = drained
    PROVE  /\ stream' \in Seq(Byte) /\ Len(stream') - drained' \in 0..SendBuffer
           /\ k \in {-1, 0} => stream' = stream
           /\ k \in Nat => stream' = stream \o SubSeq(m, off + 1, off + k)
           /\ Failed # {} => k \in {-1, 0}
<1>1. /\ stream \in Seq(Byte) /\ Len(stream) \in Nat /\ drained \in Nat
      /\ Len(stream) - drained \in 0..SendBuffer /\ SendBuffer \in Nat /\ m \in Seq(Byte) /\ Len(m) \in Nat
  <2>1. stream \in Seq(Byte) /\ drained \in Nat
    BY DEF IInv, TTypeOK
  <2>2. Len(stream) \in Nat
    BY <2>1, LenProperties
  <2>3. Len(stream) - drained \in 0..SendBuffer
    BY DEF IInv, SentKnown
  <2>4. SendBuffer \in Nat
    BY StreamsAssumption
  <2> QED BY <2>1, <2>2, <2>3, <2>4, MessageTyped
<1>2. k \in {-1, 0} => stream' = stream
  BY DEF Put
<1>3. Failed # {} => k \in {-1, 0}
  BY <1>1 DEF IInv, SentKnown, Fits
<1>4. CASE k = -1
  BY <1>1, <1>2, <1>3, <1>4
<1>5. CASE k # -1
  <2>1. k \in Nat /\ off + k <= Len(m) /\ k <= SendBuffer - (Len(stream) - drained)
    BY <1>1, <1>5 DEF Fits, Free
  <2> DEFINE x == SubSeq(m, off + 1, off + k)
  <2>2. x \in Seq(Byte) /\ Len(x) = k
    BY <1>1, <2>1, FirstBytes
  <2>3. k = 0 => x = <<>>
    BY <2>2, EmptySeq
  <2>4. stream' = IF k > 0 THEN stream \o x ELSE stream
    BY DEF Put
  <2> HIDE DEF x
  <2>5. stream \o <<>> = stream
    BY <1>1, ConcatEmptySeq
  <2>6. stream' = stream \o x
    <3>1. CASE k = 0
      <4>1. stream' = stream /\ x = <<>>
        BY <1>2, <2>3, <3>1
      <4> QED BY <2>5, <4>1
    <3>2. CASE k # 0
      BY <2>1, <2>4, <3>2
    <3> QED BY <3>1, <3>2
  <2>7. stream \o x \in Seq(Byte) /\ Len(stream \o x) = Len(stream) + k
    BY <1>1, <2>2, ConcatProperties
  <2>8. Len(stream') - drained' \in 0..SendBuffer
    BY <1>1, <2>1, <2>6, <2>7
  <2> QED BY <1>2, <1>3, <2>6, <2>7, <2>8 DEF x
<1> QED BY <1>4, <1>5

\* The message that was begun, or is begun, and its part that is out.
Begins(m, off) ==
    /\ m \in Messages /\ off \in Nat /\ off <= Len(m)
    /\ Failed = {} => Part = SubSeq(m, 1, off)
    /\ Failed # {} => off = 0

LEMMA PutGoesOn ==
    ASSUME IInv, NEW m, NEW off, Begins(m, off), NEW k \in Nat, Fits(k, Len(m) - off), Put(m, off, k),
           UNCHANGED <<ssl, inVars, readVars, drained, sent>>,
           NEW op \in {"send", "sendfile"}, writer' = [op |-> op, m |-> m, off |-> off + k]
    PROVE  IInv'
<1> DEFINE w == FlattenSeq(Wholes(sent))
<1>1. m \in Messages /\ off \in Nat /\ off <= Len(m) /\ m \in Seq(Byte) /\ Len(m) \in Nat
  BY MessageTyped DEF Begins
<1>2. /\ stream' \in Seq(Byte) /\ Len(stream') - drained' \in 0..SendBuffer
      /\ (k = 0 => stream' = stream) /\ stream' = stream \o SubSeq(m, off + 1, off + k)
      /\ Failed # {} => k = 0
  <2>1. drained' = drained
    OBVIOUS
  <2>2. /\ stream' \in Seq(Byte) /\ Len(stream') - drained' \in 0..SendBuffer
        /\ (k \in {-1, 0} => stream' = stream)
        /\ (k \in Nat => stream' = stream \o SubSeq(m, off + 1, off + k))
        /\ (Failed # {} => k \in {-1, 0})
    BY <1>1, <2>1, PutTyped
  <2>3. k # -1
    OBVIOUS
  <2> QED BY <2>2, <2>3
<1>3. off + k <= Len(m)
  BY <1>1 DEF Fits
<1>4. writer' \in Writing /\ writer' # Idle /\ writer'.off = off + k /\ Part' = SubSeq(m, 1, off + k)
  BY <1>1 DEF Writing, Idle, Part
<1>5. sent \in Sents /\ w \in Seq(Byte)
  BY <1>1, WholesGrow DEF IInv, TTypeOK, Sents
<1>6. PICK part \in Seq(Byte) :
          /\ stream = w \o part
          /\ Failed = {} => part = Part
          /\ Failed # {} => ended = "reset" /\ \E i \in Failed : part \in Parts(sent[i].m)
  BY DEF IInv, SentKnown
<1>7. Wholes(sent)' = Wholes(sent) /\ Failed' = Failed /\ ended' = ended /\ sent' = sent
  BY DEF Failed, inVars, Wholes
<1> HIDE DEF w
<1>8. CASE Failed = {}
  <2>1. stream' = w \o SubSeq(m, 1, off + k)
    <3>1. stream = w \o SubSeq(m, 1, off)
      BY <1>6, <1>8 DEF Begins
    <3>2. (w \o SubSeq(m, 1, off)) \o SubSeq(m, off + 1, off + k) = w \o SubSeq(m, 1, off + k)
      BY <1>1, <1>3, <1>5, PutsBehind, ZenonT(60)
    <3> QED BY <1>2, <3>1, <3>2
  <2>2. SubSeq(m, 1, off + k) \in Seq(Byte)
    BY <1>1, <1>3
  <2>3. SentKnown'
    BY <1>2, <1>3, <1>4, <1>7, <1>8, <2>1, <2>2 DEF SentKnown, w
  <2> QED BY <1>2, <1>4, <1>5, <2>3, WriterStep
<1>9. CASE Failed # {}
  <2>1. off + k = 0 /\ stream' = stream
    BY <1>1, <1>2, <1>9 DEF Begins
  <2>2. SentKnown'
    BY <1>2, <1>3, <1>4, <1>6, <1>7, <1>9, <2>1 DEF SentKnown, w
  <2> QED BY <1>2, <1>4, <1>5, <2>2, WriterStep
<1> QED BY <1>8, <1>9

LEMMA PutIsWhole ==
    ASSUME IInv, NEW m, NEW off, Begins(m, off), NEW k \in Nat, Fits(k, Len(m) - off), Put(m, off, k),
           UNCHANGED <<ssl, inVars, readVars, drained>>, Finished(m, TRUE), off + k = Len(m)
    PROVE  IInv'
<1> DEFINE w == FlattenSeq(Wholes(sent))
<1>1. m \in Messages /\ off \in Nat /\ off <= Len(m) /\ m \in Seq(Byte) /\ Len(m) \in Nat
  BY MessageTyped DEF Begins
<1>2. /\ stream' \in Seq(Byte) /\ Len(stream') - drained' \in 0..SendBuffer
      /\ (k = 0 => stream' = stream) /\ stream' = stream \o SubSeq(m, off + 1, off + k)
      /\ Failed # {} => k = 0
  <2>1. drained' = drained
    OBVIOUS
  <2>2. /\ stream' \in Seq(Byte) /\ Len(stream') - drained' \in 0..SendBuffer
        /\ (k \in {-1, 0} => stream' = stream)
        /\ (k \in Nat => stream' = stream \o SubSeq(m, off + 1, off + k))
        /\ (Failed # {} => k \in {-1, 0})
    BY <1>1, <2>1, PutTyped
  <2>3. k # -1
    OBVIOUS
  <2> QED BY <2>2, <2>3
<1>3. /\ writer' = Idle /\ sent' \in Sents /\ w \in Seq(Byte) /\ FlattenSeq(Wholes(sent')) = w \o m
      /\ \A i \in DOMAIN sent : sent'[i] = sent[i]
      /\ Failed' = Failed
  BY <1>1, SentsGrow DEF IInv, TTypeOK, Sents
<1>4. PICK part \in Seq(Byte) :
          /\ stream = w \o part
          /\ Failed = {} => part = Part
          /\ Failed # {} => ended = "reset" /\ \E i \in Failed : part \in Parts(sent[i].m)
  BY DEF IInv, SentKnown
<1>5. ended' = ended /\ Part' = <<>> /\ <<>> \in Seq(Byte)
  BY <1>3, EmptySeq DEF inVars, Part
<1> HIDE DEF w
<1>6. w \o m \in Seq(Byte)
  BY <1>1, <1>3, ConcatProperties
<1>7. CASE Failed = {}
  <2>1. stream' = w \o m
    <3>1. stream = w \o SubSeq(m, 1, off)
      BY <1>4, <1>7 DEF Begins
    <3>4. off + k <= Len(m)
      BY <1>1
    <3>2. (w \o SubSeq(m, 1, off)) \o SubSeq(m, off + 1, off + k) = w \o SubSeq(m, 1, off + k)
      BY <1>1, <1>3, <3>4, PutsBehind, ZenonT(60)
    <3>3. SubSeq(m, 1, off + k) = m
      BY <1>1, SubSeqFull
    <3> QED BY <1>2, <3>1, <3>2, <3>3
  <2>2. stream' = FlattenSeq(Wholes(sent')) \o <<>>
    BY <1>3, <1>6, <2>1, ConcatEmptySeq
  <2>3. SentKnown'
    BY <1>2, <1>3, <1>5, <1>7, <2>2 DEF SentKnown
  <2> QED BY <1>2, <1>3, <2>3, WriterStep
<1>8. CASE Failed # {}
  <2>1. Len(m) = 0 /\ stream' = stream
    BY <1>1, <1>2, <1>8 DEF Begins
  <2>2. m = <<>>
    BY <1>1, <2>1, EmptySeq
  <2>3. FlattenSeq(Wholes(sent')) = w
    BY <1>3, <2>2, ConcatEmptySeq
  <2>4. \A i \in Failed : sent'[i] = sent[i]
    BY <1>3 DEF Failed
  <2>5. SentKnown'
    BY <1>2, <1>3, <1>4, <1>5, <1>8, <2>1, <2>3, <2>4 DEF SentKnown
  <2> QED BY <1>2, <1>3, <2>5, WriterStep
<1> QED BY <1>7, <1>8

LEMMA PutFails ==
    ASSUME IInv, NEW m, NEW off, Begins(m, off), Fits(-1, Len(m) - off), Put(m, off, -1),
           UNCHANGED <<ssl, inVars, readVars, drained>>, Finished(m, FALSE)
    PROVE  IInv'
<1> DEFINE w == FlattenSeq(Wholes(sent))
           new == Len(sent) + 1
<1>1. m \in Messages /\ off \in Nat /\ off <= Len(m) /\ m \in Seq(Byte) /\ Len(m) \in Nat
  BY MessageTyped DEF Begins
<1>2. stream' \in Seq(Byte) /\ Len(stream') - drained' \in 0..SendBuffer /\ stream' = stream
  BY <1>1, PutTyped
<1>3. /\ writer' = Idle /\ sent' \in Sents /\ w \in Seq(Byte) /\ FlattenSeq(Wholes(sent')) = w \o <<>>
      /\ \A i \in DOMAIN sent : sent'[i] = sent[i]
      /\ sent'[new] = [m |-> m, ok |-> FALSE] /\ Failed' = Failed \union {new}
  BY <1>1, SentsGrow DEF IInv, TTypeOK, Sents
<1>4. PICK part \in Seq(Byte) :
          /\ stream = w \o part
          /\ Failed = {} => part = Part
          /\ Failed # {} => ended = "reset" /\ \E i \in Failed : part \in Parts(sent[i].m)
  BY DEF IInv, SentKnown
<1>5. ended' = "reset"
  BY <1>1 DEF Fits, inVars
<1> HIDE DEF w, new
<1>6. FlattenSeq(Wholes(sent')) = w
  BY <1>3, ConcatEmptySeq
<1>7. \E i \in Failed' : part \in Parts(sent'[i].m)
  <2>1. CASE Failed = {}
    <3>1. part = SubSeq(m, 1, off) /\ sent'[new].m = m /\ off \in 0..Len(m)
      BY <1>1, <1>3, <1>4, <2>1 DEF Begins
    <3> QED BY <1>3, <3>1 DEF Parts
  <2>2. CASE Failed # {}
    BY <1>3, <1>4, <2>2 DEF Failed
  <2> QED BY <2>1, <2>2
<1>8. Failed' # {}
  BY <1>3
<1>9. SentKnown'
  BY <1>2, <1>3, <1>4, <1>5, <1>6, <1>7, <1>8 DEF SentKnown
<1> QED BY <1>2, <1>3, <1>9, WriterStep

-----------------------------------------------------------------------------
(* The steps of the writing coroutine. *)

LEMMA SendBegins ==
    ASSUME IInv, writer = Idle, NEW m \in Messages
    PROVE  Begins(m, 0)
<1>1. m \in Seq(Byte) /\ Len(m) \in Nat
  BY MessageTyped
<1>2. SubSeq(m, 1, 0) = <<>>
  BY SubSeqEmpty
<1>3. Part = <<>>
  BY WriterKinds
<1> QED BY <1>1, <1>2, <1>3 DEF Begins

LEMMA SendWentOn ==
    ASSUME IInv, writer.op \in {"send", "sendfile"}
    PROVE  Begins(writer.m, writer.off)
<1>1. writer # Idle /\ writer.m \in Messages /\ writer.off \in Nat /\ writer.off <= Len(writer.m)
      /\ Part = SubSeq(writer.m, 1, writer.off)
  BY WriterKinds
<1>2. Failed # {} => writer.off = 0
  BY <1>1 DEF IInv, SentKnown
<1> QED BY <1>1, <1>2 DEF Begins

\* A step of a send puts k bytes out, and ends or goes on.
LEMMA SendStep ==
    ASSUME IInv, NEW m, NEW off, Begins(m, off), NEW k, Fits(k, Len(m) - off), Put(m, off, k),
           UNCHANGED <<ssl, inVars, readVars, drained>>, NEW op \in {"send", "sendfile"},
           \/ k = -1 /\ Finished(m, FALSE)
           \/ k # -1 /\ off + k = Len(m) /\ Finished(m, TRUE)
           \/ k # -1 /\ writer' = [op |-> op, m |-> m, off |-> off + k] /\ UNCHANGED sent
    PROVE  IInv'
<1>1. CASE k = -1
  <2>1. Finished(m, FALSE) /\ Fits(-1, Len(m) - off) /\ Put(m, off, -1)
    BY <1>1
  <2> QED BY <2>1, PutFails
<1>2. CASE k # -1
  <2>1. k \in Nat
    <3>1. off \in Nat /\ Len(m) \in Nat
      BY MessageTyped DEF Begins
    <3> QED BY <1>2, <3>1 DEF Fits
  <2>2. CASE off + k = Len(m) /\ Finished(m, TRUE)
    BY <2>1, <2>2, PutIsWhole
  <2>3. CASE writer' = [op |-> op, m |-> m, off |-> off + k] /\ UNCHANGED sent
    BY <2>1, <2>3, PutGoesOn
  <2> QED BY <1>2, <2>2, <2>3
<1> QED BY <1>1, <1>2

LEMMA SendKeeps ==
    ASSUME IInv, NEW m \in Messages, Send(m)
    PROVE  IInv'
<1>1. Begins(m, 0) /\ Len(m) \in Nat
  BY SendBegins, MessageTyped DEF Send
<1>2. PICK k \in Goes(Len(m)) :
          /\ Put(m, 0, k)
          /\ IF k \in {-1, Len(m)} THEN Finished(m, k = Len(m))
             ELSE writer' = [op |-> "send", m |-> m, off |-> k] /\ UNCHANGED sent
  BY DEF Send
<1>3. Fits(k, Len(m) - 0) /\ k \in Int
  <2>1. Fits(k, Len(m)) /\ Len(m) - 0 = Len(m)
    BY <1>1, GoesFits
  <2> QED BY <1>1, <2>1 DEF Fits
<1>4. UNCHANGED <<ssl, inVars, readVars, drained>>
  BY DEF Send
<1>5. CASE k = -1
  <2>1. (k = Len(m)) = FALSE
    BY <1>1, <1>5
  <2>2. Finished(m, FALSE)
    BY <1>2, <1>5, <2>1
  <2> QED BY <1>1, <1>2, <1>3, <1>4, <1>5, <2>2, SendStep
<1>6. CASE k = Len(m)
  <2>1. Finished(m, TRUE)
    BY <1>2, <1>6
  <2>2. 0 + k = Len(m) /\ k \in Nat
    BY <1>1, <1>6
  <2> QED BY <1>1, <1>2, <1>3, <1>4, <2>1, <2>2, PutIsWhole
<1>7. CASE k \notin {-1, Len(m)}
  <2>1. writer' = [op |-> "send", m |-> m, off |-> 0 + k] /\ UNCHANGED sent
    BY <1>2, <1>3, <1>7
  <2> QED BY <1>1, <1>2, <1>3, <1>4, <1>7, <2>1, SendStep
<1> QED BY <1>5, <1>6, <1>7

LEMMA SendfileKeeps ==
    ASSUME IInv, NEW m \in Messages, Sendfile(m)
    PROVE  IInv'
<1>1. Begins(m, 0) /\ Len(m) - 0 \in Nat
  BY SendBegins, MessageTyped DEF Sendfile
<1>2. Fits(0, Len(m) - 0)
  BY <1>1, GoesFits
<1>3. Put(m, 0, 0) /\ UNCHANGED <<ssl, inVars, readVars, drained, sent>>
  BY DEF Sendfile, Put, outVars
<1>4. writer' = [op |-> "sendfile", m |-> m, off |-> 0 + 0]
  BY DEF Sendfile
<1> QED BY <1>1, <1>2, <1>3, <1>4, PutGoesOn

\* What SendEvent and FileEvent have in common.
LEMMA WriterGoesOn ==
    ASSUME IInv, writer.op \in {"send", "sendfile"}, UNCHANGED <<ssl, inVars, readVars, drained>>,
           NEW k, Fits(k, Len(writer.m) - writer.off), Put(writer.m, writer.off, k),
           IF k = -1 \/ writer.off + k = Len(writer.m) THEN Finished(writer.m, k # -1)
           ELSE writer' = [writer EXCEPT !.off = ResumeAt(writer, k)] /\ UNCHANGED sent
    PROVE  IInv'
<1>1. Begins(writer.m, writer.off) /\ writer = [op |-> writer.op, m |-> writer.m, off |-> writer.off]
  BY SendWentOn, WriterKinds
<1>2. CASE k = -1
  <2>1. (k # -1) = FALSE
    BY <1>2
  <2>2. Finished(writer.m, FALSE)
    BY <1>2, <2>1
  <2> QED BY <1>1, <1>2, <2>2, SendStep
<1>3. CASE k # -1 /\ writer.off + k = Len(writer.m)
  <2>1. (k # -1) = TRUE
    BY <1>3
  <2>2. Finished(writer.m, TRUE)
    BY <1>3, <2>1
  <2> QED BY <1>1, <1>3, <2>2, SendStep
<1>4. CASE ~(k = -1 \/ writer.off + k = Len(writer.m))
  <2>1. writer' = [writer EXCEPT !.off = writer.off + k] /\ UNCHANGED sent
    BY <1>4 DEF ResumeAt
  <2>2. writer' = [op |-> writer.op, m |-> writer.m, off |-> writer.off + k]
    BY <1>1, <2>1
  <2>3. k \in Nat
    <3>1. writer.off \in Nat /\ Len(writer.m) \in Nat
      BY WriterKinds, MessageTyped
    <3> QED BY <1>4, <3>1 DEF Fits
  <2>4. UNCHANGED <<ssl, inVars, readVars, drained, sent>>
    BY <2>1
  <2> QED BY <1>1, <2>2, <2>3, <2>4, PutGoesOn
<1> QED BY <1>2, <1>3, <1>4

LEMMA SendEventKeeps ==
    ASSUME IInv, SendEvent
    PROVE  IInv'
<1>1. writer.op \in {"send", "sendfile"}
  BY DEF SendEvent
<1>2. PICK k \in Goes(Len(writer.m) - writer.off) :
          /\ Put(writer.m, writer.off, k)
          /\ IF k = -1 \/ writer.off + k = Len(writer.m) THEN Finished(writer.m, k # -1)
             ELSE writer' = [writer EXCEPT !.off = ResumeAt(writer, k)] /\ UNCHANGED sent
  BY DEF SendEvent
<1>3. Len(writer.m) - writer.off \in Nat
  BY <1>1, WriterKinds, MessageTyped
<1>4. Fits(k, Len(writer.m) - writer.off)
  BY <1>3, GoesFits
<1> QED BY <1>1, <1>2, <1>4, WriterGoesOn DEF SendEvent

LEMMA PieceTyped ==
    ASSUME IInv, writer.op \in {"send", "sendfile"}
    PROVE  Piece(writer) \in 0..(Len(writer.m) - writer.off)
<1>1. writer.off \in Nat /\ Len(writer.m) \in Nat /\ writer.off <= Len(writer.m) /\ FileChunk \in Nat \ {0}
  BY WriterKinds, MessageTyped, StreamsAssumption
<1>2. \A a \in Nat, c \in Nat \ {0} : a % c \in 0..(c - 1)
  OBVIOUS
<1>3. writer.off % FileChunk \in 0..(FileChunk - 1)
  BY <1>1, <1>2
<1>4. FileChunk - (writer.off % FileChunk) \in Nat
  BY <1>1, <1>3
<1> QED BY <1>1, <1>4 DEF Piece, Smaller

LEMMA FileEventKeeps ==
    ASSUME IInv, FileEvent
    PROVE  IInv'
<1>1. writer.op \in {"send", "sendfile"}
  BY DEF FileEvent
<1>2. PICK k \in IF Len(writer.m) = writer.off THEN {0} ELSE Flushed(Piece(writer)) :
          /\ Put(writer.m, writer.off, k)
          /\ IF k = -1 \/ writer.off + k = Len(writer.m) THEN Finished(writer.m, k # -1)
             ELSE writer' = [writer EXCEPT !.off = ResumeAt(writer, k)] /\ UNCHANGED sent
  BY DEF FileEvent
<1>3. Len(writer.m) - writer.off \in Nat /\ Piece(writer) \in 0..(Len(writer.m) - writer.off)
  BY <1>1, WriterKinds, MessageTyped, PieceTyped
<1>4. Fits(k, Len(writer.m) - writer.off)
  <2>1. Fits(0, Len(writer.m) - writer.off)
    BY <1>3, GoesFits
  <2>2. \A j \in Flushed(Piece(writer)) : Fits(j, Piece(writer))
    <3>1. Piece(writer) \in Nat
      BY <1>3
    <3> QED BY <3>1, GoesFits
  <2>3. \A j \in Flushed(Piece(writer)) : Fits(j, Len(writer.m) - writer.off)
    BY <1>3, <2>2 DEF Fits
  <2> QED BY <1>2, <2>1, <2>3
<1> QED BY <1>1, <1>2, <1>4, WriterGoesOn DEF FileEvent

-----------------------------------------------------------------------------
(* The peer and the kernel. *)

LEMMA KernelKeeps ==
    ASSUME IInv, Kernel
    PROVE  IInv'
<1>1. /\ TTypeOK /\ ReadKnown /\ SentKnown
      /\ Total \in Nat /\ arrived \in 0..Total /\ taken \in 0..arrived /\ given \in 0..arrived
      /\ Len(stream) \in Nat /\ drained \in Nat
  BY StreamsAssumption DEF IInv, TTypeOK, Total
<1>2. CASE PeerReads
  <2>1. drained' = drained + 1 /\ drained < Len(stream) /\ UNCHANGED <<ssl, inVars, readVars, stream, writeVars>>
    BY <1>2 DEF PeerReads
  <2>2. TTypeOK'
    BY <1>1, <2>1 DEF TTypeOK, Total, Reading, Writing, Idle, inVars, readVars, writeVars
  <2>3. ReadKnown'
    BY <1>1, <2>1 DEF ReadKnown, Pending, inVars, readVars
  <2>4. Len(stream') - drained' \in 0..SendBuffer
    BY <1>1, <2>1, StreamsAssumption DEF SentKnown
  <2>5. SentKnown'
    BY <1>1, <2>1, <2>4 DEF SentKnown, Part, Failed, inVars, writeVars
  <2> QED BY <2>2, <2>3, <2>5 DEF IInv
<1>3. CASE ~PeerReads
  <2>1. /\ UNCHANGED <<ssl, peer, taken, given, noted, readVars, outVars, writeVars>>
        /\ ended' \in {"open", "eof", "notify", "reset"} /\ (ended = "reset" => ended' = "reset")
        /\ arrived' \in {arrived, arrived + 1} /\ arrived' <= Total
    <3>1. CASE Arrive
      BY <1>1, <3>1 DEF Arrive
    <3>2. CASE PeerEnds
      BY <1>1, <3>2 DEF PeerEnds
    <3>3. CASE PeerCloses
      BY <1>1, <3>3 DEF PeerCloses
    <3>4. CASE PeerResets
      BY <1>1, <3>4 DEF PeerResets
    <3> QED BY <1>3, <3>1, <3>2, <3>3, <3>4 DEF Kernel
  <2>2. Total' = Total /\ arrived' \in 0..Total /\ taken' \in 0..arrived' /\ given' \in 0..arrived'
    BY <1>1, <2>1 DEF Total
  <2>3. TTypeOK'
    BY <1>1, <2>1, <2>2 DEF TTypeOK, Reading, Writing, Idle, readVars, outVars, writeVars
  <2>4. ReadKnown'
    BY <1>1, <2>1 DEF ReadKnown, Pending, readVars
  <2>5. SentKnown'
    BY <1>1, <2>1 DEF SentKnown, Part, Failed, outVars, writeVars
  <2> QED BY <2>3, <2>4, <2>5 DEF IInv
<1> QED BY <1>2, <1>3

-----------------------------------------------------------------------------
(* The theorem. *)

LEMMA StartsRight ==
    ASSUME TInit
    PROVE  IInv
<1>1. Total \in Nat /\ peer.bytes \in Seq(Byte)
  BY StreamsAssumption DEF TInit, Total
<1>2. TTypeOK
  <2>1. <<>> \in Sents /\ <<>> \in Reads /\ <<>> \in Seq(Byte)
    BY EmptySeq DEF Sents, Reads
  <2>2. read \in Reads /\ sent \in Sents /\ stream \in Seq(Byte) /\ drained \in Nat
    BY <2>1 DEF TInit
  <2>3. arrived \in 0..Total /\ taken \in 0..arrived /\ given \in 0..arrived
    BY <1>1 DEF TInit
  <2> QED BY <2>2, <2>3 DEF TInit, TTypeOK, Reads, Sents
<1>3. FlattenSeq(<<>>) = <<>> /\ <<>> \in Seq(Byte) /\ <<>> \o <<>> = <<>>
  BY EmptySeq, ConcatEmptySeq DEF FlattenSeq
<1>4. Datas(<<>>) = <<>> /\ Wholes(<<>>) = <<>>
  BY DEF Datas, Wholes
<1>5. SubSeq(peer.bytes, 1, 0) = <<>>
  BY SubSeqEmpty
<1>6. ReadKnown
  <2>1. read = <<>> /\ given = 0 /\ Pending = <<>> /\ reader.op # "readline"
    BY DEF TInit, Pending, Idle
  <2>2. FlattenSeq(Datas(read)) \o Pending = SubSeq(peer.bytes, 1, given)
    BY <1>3, <1>4, <1>5, <2>1
  <2>3. DOMAIN read = {}
    BY <2>1
  <2> QED BY <2>1, <2>2, <2>3 DEF ReadKnown
<1>7. Part = <<>> /\ Failed = {}
  BY DEF TInit, Part, Failed
<1>8. SentKnown
  <2>1. stream = <<>> /\ sent = <<>> /\ drained = 0 /\ writer = Idle
    BY DEF TInit
  <2>2. stream = FlattenSeq(Wholes(sent)) \o <<>>
    BY <1>3, <1>4, <2>1
  <2>3. Len(stream) - drained \in 0..SendBuffer
    BY <2>1, StreamsAssumption
  <2> QED BY <1>3, <1>7, <2>1, <2>2, <2>3 DEF SentKnown
<1> QED BY <1>2, <1>6, <1>8 DEF IInv

LEMMA StutterKeeps ==
    ASSUME IInv, UNCHANGED tvars
    PROVE  IInv'
<1> USE DEF tvars, inVars, readVars, outVars, writeVars
<1>1. TTypeOK'
  BY DEF IInv, TTypeOK, Total, Reading, Writing, Idle
<1>2. ReadKnown'
  BY DEF IInv, ReadKnown, Pending
<1>3. SentKnown'
  BY DEF IInv, SentKnown, Part, Failed
<1> QED BY <1>1, <1>2, <1>3 DEF IInv

LEMMA StepKeeps ==
    ASSUME IInv, [TNext]_tvars
    PROVE  IInv'
<1>1. CASE Kernel
  BY <1>1, KernelKeeps
<1>2. CASE Calls
  BY <1>2, RecvKeeps, ReadlineKeeps, SendKeeps, SendfileKeeps DEF Calls
<1>3. CASE TRunning
  BY <1>3, RecvEventKeeps, LineRoundKeeps, LineEventKeeps, SendEventKeeps, FileEventKeeps DEF TRunning
<1>4. CASE TimesOut
  BY <1>4, TimesOutKeeps
<1>5. CASE UNCHANGED tvars
  BY <1>5, StutterKeeps
<1> QED BY <1>1, <1>2, <1>3, <1>4, <1>5 DEF TNext

\* The part behind the whole messages is of the send that goes on, or of one that failed.
LEMMA SentInOrder ==
    ASSUME IInv
    PROVE  SendsAreTheStream
<1> DEFINE w == FlattenSeq(Wholes(sent))
<1>1. w \in Seq(Byte) /\ Whole = w
  <2>1. Whole = w
    BY DEF Whole, Wholes
  <2>2. \A ss \in Sents : Wholes(ss) \in Seq(Seq(Byte))
    <3> SUFFICES ASSUME NEW ss \in Sents PROVE Wholes(ss) \in Seq(Seq(Byte))
      OBVIOUS
    <3>1. Len(ss) \in Nat /\ DOMAIN ss = 1..Len(ss)
      BY DEF Sents
    <3>2. \A i \in DOMAIN ss : (IF ss[i].ok THEN ss[i].m ELSE <<>>) \in Seq(Byte)
      <4> SUFFICES ASSUME NEW i \in DOMAIN ss PROVE (IF ss[i].ok THEN ss[i].m ELSE <<>>) \in Seq(Byte)
        OBVIOUS
      <4>1. ss[i] \in [m : Messages, ok : BOOLEAN]
        BY <3>1, ElementOfSeq DEF Sents
      <4> QED BY <4>1, MessageTyped, EmptySeq
    <3>3. Wholes(ss) \in [1..Len(ss) -> Seq(Byte)]
      BY <3>1, <3>2 DEF Wholes
    <3> QED BY <3>1, <3>3
  <2>3. w \in Seq(Byte)
    BY <2>2, FlattenTyped DEF IInv, TTypeOK, Sents
  <2> QED BY <2>1, <2>3
<1>2. PICK part \in Seq(Byte) :
          /\ stream = w \o part
          /\ Failed = {} => part = Part
          /\ Failed # {} => \E i \in Failed : part \in Parts(sent[i].m)
  BY DEF IInv, SentKnown
<1> HIDE DEF w
<1>3. Len(w) \in Nat /\ Len(part) \in Nat /\ Len(w \o part) = Len(w) + Len(part) /\ w \o part \in Seq(Byte)
  BY <1>1, ConcatProperties
<1>4. SubSeq(w \o part, 1, Len(w)) = w
  <2>1. SubSeq(w \o part, 1, Len(w)) \in Seq(Byte) /\ Len(SubSeq(w \o part, 1, Len(w))) = Len(w)
        /\ \A i \in 1..Len(w) : SubSeq(w \o part, 1, Len(w))[i] = w[i]
    BY <1>1, <1>3
  <2> QED BY <1>1, <2>1, SeqEqual
<1>5. IsPrefix(Whole, stream)
  <2>1. SubSeq(w, 1, Len(w)) = w
    BY <1>1, SubSeqFull
  <2> QED BY <1>1, <1>2, <1>3, <1>4, <2>1 DEF IsPrefix
<1>6. Tail_ = part
  <2> DEFINE t == SubSeq(w \o part, Len(w) + 1, Len(w) + Len(part))
  <2>1. \A i \in (Len(w) + 1)..(Len(w) + Len(part)) : (w \o part)[i] \in Byte
    BY <1>3, ElementOfSeq
  <2>2. t \in Seq(Byte) /\ Len(t) = Len(part)
    BY <1>3, FirstBytes
  <2>3. \A i \in 1..((Len(w) + Len(part)) - (Len(w) + 1) + 1) : t[i] = (w \o part)[(Len(w) + 1) + i - 1]
    BY <1>3, <2>1, SubSeqProperties
  <2> HIDE DEF t
  <2>4. \A i \in 1..Len(part) : t[i] = part[i]
    <3> SUFFICES ASSUME NEW i \in 1..Len(part) PROVE t[i] = part[i]
      OBVIOUS
    <3>1. t[i] = (w \o part)[(Len(w) + 1) + i - 1] /\ (Len(w) + 1) + i - 1 = Len(w) + i
      BY <1>3, <2>3
    <3>2. Len(w) + i \in 1..(Len(w) + Len(part)) /\ ~(Len(w) + i <= Len(w)) /\ (Len(w) + i) - Len(w) = i
      BY <1>3
    <3>3. (w \o part)[Len(w) + i] = part[(Len(w) + i) - Len(w)]
      BY <1>1, <3>2, ConcatProperties
    <3> QED BY <3>1, <3>2, <3>3
  <2>5. t = part
    BY <2>2, <2>4, SeqEqual
  <2> QED BY <1>1, <1>2, <1>3, <2>5 DEF Tail_, t
<1>7. part \in Unfinished
  <2>1. CASE Failed = {}
    BY <1>2, <2>1 DEF Unfinished, Part
  <2>2. CASE Failed # {}
    BY <1>2, <2>2 DEF Unfinished, Failed
  <2> QED BY <2>1, <2>2
<1> QED BY <1>5, <1>6, <1>7 DEF SendsAreTheStream

\* Bytes go through a connection in both directions as they were written: what recv and
\* readline return is what the peer wrote, no byte left out or read twice, lines end with
\* their first separator, and the stream is the messages that send and sendfile report as
\* sent, with a part of the last one at most behind them.  For plain TCP and TLS, any peer
\* and messages, resets, time-outs, sizes of buffers and of records.
THEOREM BytesAreKept ==
    TSpec => []BytesArrive
<1>1. TInit => IInv
  BY StartsRight
<1>2. IInv /\ [TNext]_tvars => IInv'
  BY StepKeeps
<1>3. IInv => BytesArrive
  <2> SUFFICES ASSUME IInv PROVE BytesArrive
    OBVIOUS
  <2>1. SendsAreTheStream
    BY SentInOrder
  <2>2. ReadsAreTheStream
    BY DEF IInv, ReadKnown, ReadsAreTheStream, Datas
  <2> QED BY <2>1, <2>2 DEF BytesArrive
<1> QED BY <1>1, <1>2, <1>3, PTL DEF TSpec

=============================================================================
