-------------------------------- MODULE Des --------------------------------
(***************************************************************************)
(* lcrypt/des.c: the DES of the code itself (desencode, desdecode).  A     *)
(* half of a block is a word of 32 bits, a subkey two words.               *)
(***************************************************************************)
EXTENDS Integers, FiniteSets, Sequences, TLC

-----------------------------------------------------------------------------
(* Machine words are the sets of their bits; n is the width.  What C's     *)
(* operators do with them.                                                 *)

Bits(n) == 0..(n - 1)

Xor(a, b) == (a \ b) \union (b \ a)
Not(n, a) == Bits(n) \ a
Left(n, a, k) == {i \in Bits(n) : i - k \in a}
Right(n, a, k) == {i \in Bits(n) : i + k \in a}
RotateLeft(n, a, k) == Left(n, a, k) \union Right(n, a, n - k)

Count(a, b, c, i) == (IF i \in a THEN 1 ELSE 0) + (IF i \in b THEN 1 ELSE 0) + (IF c THEN 1 ELSE 0)

\* The sum, without what does not fit.
Plus(n, a, b) ==
    LET carry[i \in 0..n] == IF i = 0 THEN FALSE ELSE Count(a, b, carry[i - 1], i - 1) >= 2 IN
    {i \in Bits(n) : Count(a, b, carry[i], i) % 2 = 1}

\* Of a number below 2^31; of the halves of a word of 32 bits; and of bytes, the lowest first.
Word(x) == {i \in 0..30 : (x \div 2 ^ i) % 2 = 1}
Halves(high, low) == {i + 16 : i \in Word(high)} \union Word(low)
FromBytes(bytes) == {i \in Bits(8 * Cardinality(DOMAIN bytes)) : i % 8 \in Word(bytes[i \div 8 + 1])}

Byte(a) ==
    LET sum[i \in 0..8] == IF i = 0 THEN 0 ELSE sum[i - 1] + (IF i - 1 \in a THEN 2 ^ (i - 1) ELSE 0) IN sum[8]
ToBytes(n, a) == [j \in 1..(n \div 8) |-> Byte({i \in Bits(8) : i + 8 * (j - 1) \in a})]

-----------------------------------------------------------------------------

\* No text of bytes.
Error == <<-1>>

\* Where the four bits of a box go, and what it gives to six.
Places ==
    <<<<2, 10, 16, 24>>, <<5, 15, 20, 31>>, <<3, 9, 17, 27>>, <<0, 7, 13, 23>>,
      <<8, 19, 25, 30>>, <<4, 14, 22, 29>>, <<1, 11, 21, 26>>, <<6, 12, 18, 28>>>>
SB ==
    <<<<14, 0, 4, 15, 13, 7, 1, 4, 2, 14, 15, 2, 11, 13, 8, 1, 3, 10, 10, 6, 6, 12, 12, 11, 5, 9, 9, 5,
        0, 3, 7, 8, 4, 15, 1, 12, 14, 8, 8, 2, 13, 4, 6, 9, 2, 1, 11, 7, 15, 5, 12, 11, 9, 3, 7, 14, 3,
        10, 10, 0, 5, 6, 0, 13>>,
      <<15, 10, 2, 7, 4, 1, 13, 11, 9, 15, 14, 8, 10, 4, 1, 13, 6, 5, 11, 0, 8, 2, 7, 12, 5, 9, 0, 6,
        3, 14, 12, 3, 0, 7, 13, 4, 11, 12, 14, 2, 12, 10, 1, 15, 7, 1, 2, 8, 3, 14, 4, 9, 5, 11, 9, 5,
        6, 0, 10, 3, 8, 13, 15, 6>>,
      <<3, 14, 0, 13, 10, 0, 7, 10, 5, 9, 9, 4, 15, 5, 12, 3, 8, 1, 14, 2, 6, 12, 13, 7, 11, 6, 4, 11,
        1, 15, 2, 8, 14, 8, 5, 3, 4, 14, 10, 0, 2, 5, 15, 10, 9, 2, 0, 13, 11, 4, 8, 15, 1, 7, 6, 9,
        12, 11, 3, 12, 7, 1, 13, 6>>,
      <<13, 7, 7, 2, 14, 11, 9, 5, 0, 12, 12, 15, 3, 0, 10, 9, 1, 4, 8, 13, 2, 8, 5, 6, 11, 1, 6, 10,
        4, 14, 15, 3, 10, 9, 12, 15, 3, 0, 0, 12, 6, 10, 11, 1, 13, 7, 7, 2, 15, 3, 1, 4, 9, 5, 14, 11,
        5, 6, 8, 13, 2, 8, 4, 14>>,
      <<1, 7, 6, 13, 2, 1, 8, 6, 11, 2, 5, 11, 13, 14, 3, 8, 4, 10, 10, 0, 9, 15, 15, 5, 14, 9, 0, 12,
        7, 4, 12, 3, 2, 13, 1, 4, 8, 6, 13, 11, 5, 8, 14, 7, 11, 1, 4, 14, 15, 3, 12, 15, 6, 0, 10, 12,
        3, 5, 9, 2, 0, 10, 7, 9>>,
      <<9, 12, 2, 15, 12, 1, 15, 4, 10, 7, 4, 9, 5, 10, 8, 3, 0, 5, 11, 2, 6, 11, 1, 13, 13, 0, 7, 14,
        3, 6, 14, 8, 10, 1, 13, 6, 15, 4, 3, 9, 4, 10, 8, 3, 9, 15, 6, 12, 7, 14, 0, 13, 1, 2, 12, 7,
        2, 5, 11, 0, 14, 8, 5, 11>>,
      <<4, 13, 11, 0, 2, 11, 7, 14, 15, 4, 0, 9, 1, 8, 13, 3, 10, 7, 5, 10, 9, 12, 14, 5, 12, 2, 3, 15,
        6, 1, 8, 6, 8, 6, 4, 11, 11, 13, 13, 1, 5, 8, 10, 4, 14, 3, 7, 14, 3, 9, 15, 12, 6, 0, 1, 15,
        0, 7, 12, 2, 9, 10, 2, 5>>,
      <<11, 2, 4, 15, 8, 11, 1, 8, 5, 12, 15, 6, 14, 7, 2, 1, 12, 9, 10, 3, 6, 5, 13, 14, 3, 0, 0, 13,
        9, 10, 7, 4, 7, 4, 14, 2, 1, 13, 2, 7, 10, 1, 9, 12, 13, 8, 4, 11, 0, 15, 5, 9, 12, 10, 11, 0,
        15, 6, 6, 3, 3, 5, 8, 14>>>>

\* The six bits of a word from a place on, as a number.
Six(x, from) == Byte({i \in Bits(6) : i + from \in x})
Spread(b, n) == {Places[b][j] : j \in {j \in 1..4 : (n \div 2 ^ (j - 1)) % 2 = 1}}
Sub(b, x, from) == Spread(b, SB[b][Six(x, from) + 1])

Xor4(a, b, c, d) == Xor(Xor(Xor(a, b), c), d)

\* What a round mixes into the other half: the even boxes see the half, the odd ones see it
\* turned right by four.
Mix(sk, x) ==
    LET t == Xor(sk[1], x)
        u == Xor(sk[2], RotateLeft(32, x, 28)) IN
    Xor(Xor4(Sub(8, t, 0), Sub(6, t, 8), Sub(4, t, 16), Sub(2, t, 24)),
        Xor4(Sub(7, u, 0), Sub(5, u, 8), Sub(3, u, 16), Sub(1, u, 24)))

-----------------------------------------------------------------------------
(* The permutations: masked bits change places between the halves. *)

Every(period, first) == {i \in Bits(32) : i % period < first}

Across(p, n, mask) ==
    LET t == Xor(Right(32, p[1], n), p[2]) \intersect mask IN <<Xor(p[1], Left(32, t, n)), Xor(p[2], t)>>
Turned(p) == <<p[2], p[1]>>
Back(p, n, mask) == Turned(Across(Turned(p), n, mask))

DES_IP(p) ==
    LET q == Back(Back(Across(Across(p, 4, Every(8, 4)), 16, Every(32, 16)), 2, Every(4, 2)), 8, Every(16, 8))
        r == Across(<<q[1], RotateLeft(32, q[2], 1)>>, 0, Every(2, 2) \ Every(2, 1)) IN
    <<RotateLeft(32, r[1], 1), r[2]>>

DES_FP(p) ==
    LET r == Across(<<RotateLeft(32, p[1], 31), p[2]>>, 0, Every(2, 2) \ Every(2, 1))
        q == <<r[1], RotateLeft(32, r[2], 31)>> IN
    Across(Across(Back(Back(q, 8, Every(16, 8)), 2, Every(4, 2)), 16, Every(32, 16)), 4, Every(8, 4))

DES_ROUND(sk, p) == <<p[2], Xor(p[1], Mix(sk, p[2]))>>

\* The halves after the rounds with the subkeys.
Rounds(SK, p) ==
    LET after[i \in 0..16] == IF i = 0 THEN p ELSE DES_ROUND(SK[i], after[i - 1]) IN after[16]

\* The halves leave in the other order.
Crypted(SK, p) == DES_FP(Turned(Rounds(SK, DES_IP(p))))

-----------------------------------------------------------------------------
(* The subkeys *)

\* Four bits, each in a byte of its own: upwards for one half, downwards for the other.
LHs(x, from, to) == {8 * i + to : i \in {i \in 0..3 : i + from \in x /\ i + from < 32}}
RHs(x, from, to) == {24 - 8 * i + to : i \in {i \in 0..3 : i + from \in x /\ i + from < 32}}

PC1(p) ==
    LET q == Back(Back(p, 4, Every(8, 4)), 0, {4, 12, 20, 28})
        x == UNION {LHs(q[1], 8 * i, 3 - i) \union LHs(q[1], 8 * i + 5, 7 - i) : i \in 0..3}
        y == UNION {RHs(q[2], 8 * i + 1, 3 - i) \union RHs(q[2], 8 * i + 4, 7 - i) : i \in 0..3} IN
    <<x \intersect Bits(28), y \intersect Bits(28)>>

\* Where the bits of the two words of a subkey come from: of the left half those from 16 on, of
\* the right half the others.
PC2 ==
    <<[left  |-> (16 :> 26 @@ 17 :> 15 @@ 18 :> 8 @@ 19 :> 1 @@ 20 :> 21 @@ 21 :> 12 @@ 24 :> 18 @@ 25 :> 7
                    @@ 26 :> 22 @@ 27 :> 13 @@ 28 :> 0 @@ 29 :> 25),
       right |-> (0 :> 24 @@ 1 :> 27 @@ 2 :> 20 @@ 3 :> 6 @@ 4 :> 14 @@ 5 :> 10 @@ 8 :> 8 @@ 9 :> 23
                    @@ 10 :> 11 @@ 11 :> 5 @@ 12 :> 16 @@ 13 :> 26)],
      [left  |-> (16 :> 20 @@ 17 :> 2 @@ 18 :> 24 @@ 19 :> 16 @@ 20 :> 9 @@ 21 :> 5 @@ 24 :> 23 @@ 25 :> 27
                    @@ 26 :> 4 @@ 27 :> 17 @@ 28 :> 11 @@ 29 :> 14),
       right |-> (0 :> 3 @@ 1 :> 22 @@ 2 :> 0 @@ 3 :> 17 @@ 4 :> 7 @@ 5 :> 12 @@ 8 :> 1 @@ 9 :> 9
                    @@ 10 :> 19 @@ 11 :> 25 @@ 12 :> 4 @@ 13 :> 15)]>>

Picked(source, x) == {i \in DOMAIN source : source[i] \in x}
Subkey(p) == [w \in 1..2 |-> Picked(PC2[w].left, p[1]) \union Picked(PC2[w].right, p[2])]

\* The first, second, ninth and last time the halves turn by one bit, else by two.
Turns(i) == IF i \in {1, 2, 9, 16} THEN 1 ELSE 2

des_main_ks(p) ==
    LET halves[i \in 0..16] ==
            IF i = 0 THEN PC1(p)
            ELSE [h \in 1..2 |-> RotateLeft(28, halves[i - 1][h], Turns(i))] IN
    [i \in 1..16 |-> Subkey(halves[i])]

-----------------------------------------------------------------------------
(* Texts: sequences of bytes, of which eight are a block, the highest first. *)

Reversed(s) == [i \in DOMAIN s |-> s[Len(s) + 1 - i]]
GET_UINT32(bytes) == FromBytes(Reversed(bytes))
PUT_UINT32(x) == Reversed(ToBytes(32, x))

Halves8(bytes) == <<GET_UINT32(SubSeq(bytes, 1, 4)), GET_UINT32(SubSeq(bytes, 5, 8))>>

des_crypt(SK, input) == LET q == Crypted(SK, Halves8(input)) IN PUT_UINT32(q[1]) \o PUT_UINT32(q[2])

\* A text block by block.
Blocks(SK, text) ==
    LET block == [b \in 0..(Len(text) \div 8 - 1) |-> des_crypt(SK, SubSeq(text, 8 * b + 1, 8 * b + 8))] IN
    [i \in DOMAIN text |-> block[(i - 1) \div 8][((i - 1) % 8) + 1]]

des_key(key) == des_main_ks(Halves8(key))

\* Always at least one byte of padding: 128, and zeros up to the end of the block.
ldesencode(key, text) ==
    LET pad == 8 - (Len(text) % 8) IN
    IF Len(key) # 8 THEN Error
    ELSE Blocks(des_key(key), text \o [i \in 1..pad |-> IF i = 1 THEN 128 ELSE 0])

\* The last byte that is not zero must be the padding's, and in the last block: a block of zeros
\* is no padding, whatever stands before it.
WithoutPadding(plain) ==
    LET n == Len(plain)
        ends == {i \in (n - 7)..n : plain[i] = 128 /\ \A j \in (i + 1)..n : plain[j] = 0} IN
    IF ends = {} THEN Error ELSE SubSeq(plain, 1, (CHOOSE i \in ends : TRUE) - 1)

\* With the subkeys in the other order.
ldesdecode(key, text) ==
    IF Len(key) # 8 \/ Len(text) % 8 # 0 \/ text = <<>> THEN Error
    ELSE WithoutPadding(Blocks(Reversed(des_key(key)), text))
=============================================================================
