------------------------------- MODULE Crypt -------------------------------
(***************************************************************************)
(* lcrypt, beside DES (module Des): bytes written as text (hex.c, url.c,   *)
(* b64.c), the stream cipher RC4 (rc.c), the exchange of keys after Diffie *)
(* and Hellman (dh.c), and the checksums and hashes that the code computes *)
(* itself (crc.c, hmac_ex.c, lcrypt.c).                                    *)
(*                                                                         *)
(* Bytes and characters are numbers from 0 to 255, a text is a sequence of *)
(* them, a checksum a word.                                                *)
(***************************************************************************)
EXTENDS Des, SequencesExt

CONSTANTS
    P,          \* the prime of dh.c, which is 2^64 - 59
    KeyLimit    \* the keys are the numbers below it: 2^64

-----------------------------------------------------------------------------
(* hex.c *)

Space == 32
isspace(c) == c = Space \/ c \in 9..13

Digit(n, upper) == IF n < 10 THEN 48 + n ELSE IF upper THEN 55 + n ELSE 87 + n

\* A text is empty only by mistake.
ltohex(text, upper, spaced) ==
    LET Pair(i) == <<Digit(text[i] \div 16, upper), Digit(text[i] % 16, upper)>>
                      \o (IF spaced /\ i < Len(text) THEN <<Space>> ELSE <<>>) IN
    IF text = <<>> THEN Error ELSE FlattenSeq([i \in DOMAIN text |-> Pair(i)])

\* The value of a digit, -1 of another character.
deindex(c) ==
    CASE c \in 48..57 -> c - 48
      [] c \in 65..70 -> c - 55
      [] c \in 97..102 -> c - 87
      [] OTHER -> -1

\* Spaces may stand before a pair of digits, not inside one.
RECURSIVE HexRead(_, _)
HexRead(text, out) ==
    CASE text = <<>> -> out
      [] text # <<>> /\ isspace(text[1]) -> HexRead(Tail(text), out)
      [] Len(text) = 1 /\ ~isspace(text[1]) -> Error
      [] OTHER ->
            LET hi == deindex(text[1])
                lo == deindex(text[2]) IN
            IF hi = -1 \/ lo = -1 THEN Error ELSE HexRead(SubSeq(text, 3, Len(text)), Append(out, 16 * hi + lo))

lfromhex(text) == IF Len(text) < 2 THEN Error ELSE HexRead(text, <<>>)

-----------------------------------------------------------------------------
(* url.c *)

Percent == 37
Plus_ == 43

is_normal_char(ch) == ch \in (97..122) \union (65..90) \union (48..57)

\* -_.!~*'() and the zero behind them, which strchr finds as well.
Unescaped == {45, 95, 46, 33, 126, 42, 39, 40, 41, 0}

hex_char(n) == IF n > 9 THEN n + 55 ELSE n + 48

Escape(ch) ==
    CASE ch = Space -> <<Percent, 50, 48>>
      [] is_normal_char(ch) \/ ch \in Unescaped -> <<ch>>
      [] OTHER -> <<Percent, hex_char(ch \div 16), hex_char(ch % 16)>>

lurlencode(url) == FlattenSeq([i \in DOMAIN url |-> Escape(url[i])])

\* What a character of an escape counts, whether it is a digit or not: a char has a sign.
Nibble(ch) ==
    LET c == IF ch > 127 THEN ch - 256 ELSE ch IN
    c - 48 - (IF c >= 65 THEN 7 ELSE 0) - (IF c >= 97 THEN 32 ELSE 0)

\* An escape that is cut off stays as it is.
RECURSIVE UrlRead(_, _)
UrlRead(url, out) ==
    CASE url = <<>> -> out
      [] url # <<>> /\ url[1] # Percent ->
            UrlRead(Tail(url), Append(out, IF url[1] = Plus_ THEN Space ELSE url[1]))
      [] url # <<>> /\ url[1] = Percent /\ Len(url) < 3 -> out \o url
      [] OTHER ->
            UrlRead(SubSeq(url, 4, Len(url)), Append(out, (16 * Nibble(url[2]) + Nibble(url[3])) % 256))

lurldecode(url) == UrlRead(url, <<>>)

-----------------------------------------------------------------------------
(* b64.c, with the encoder and the decoder of OpenSSL *)

BASE64_CHUNK == 16
Pad == 61

\* The 64 characters: A-Z, a-z, 0-9, + and /.
Character(n) ==
    CASE n < 26 -> 65 + n
      [] n \in 26..51 -> 71 + n
      [] n \in 52..61 -> n - 4
      [] n = 62 -> 43
      [] n = 63 -> 47
Sextet(c) == CHOOSE n \in 0..63 : Character(n) = c
Alphabet == {Character(n) : n \in 0..63}

\* Three bytes are four characters; what is missing is padded.
Quad(text, i) ==
    LET At(j) == IF j > Len(text) THEN 0 ELSE text[j]
        n == At(i) * 65536 + At(i + 1) * 256 + At(i + 2)
        chars == [j \in 1..4 |-> Character((n \div 64 ^ (4 - j)) % 64)] IN
    [j \in 1..4 |-> IF i + j - 2 > Len(text) THEN Pad ELSE chars[j]]
EVP_EncodeBlock(text) == FlattenSeq([i \in 1..((Len(text) + 2) \div 3) |-> Quad(text, 3 * i - 2)])

b64_trans_char(text, a, b) ==
    [i \in DOMAIN text |-> CASE text[i] = a[1] -> a[2] [] text[i] = b[1] -> b[2] [] OTHER -> text[i]]

\* The padding among the last two characters.
b64_calc_padding(text) == Cardinality({i \in (Len(text) - 1)..Len(text) : text[i] = Pad})

lb64encode(text, urlsafe, nopadding) ==
    LET plain == EVP_EncodeBlock(text)
        safe == IF urlsafe THEN b64_trans_char(plain, <<47, 95>>, <<43, 45>>) ELSE plain IN
    CASE text = <<>> -> Error
      [] text # <<>> /\ nopadding -> SubSeq(safe, 1, Len(safe) - b64_calc_padding(safe))
      [] OTHER -> safe

\* A chunk may come with the other characters of either kind.
b64dec_trans_urlsafe(chunk) == b64_trans_char(chunk, <<95, 47>>, <<45, 43>>)

\* The bytes of four characters: the decoder drops as many as there is padding.
Bytes(four) ==
    LET SixBits(j) == IF four[j] = Pad THEN 0 ELSE Sextet(four[j])
        n == ((SixBits(1) * 64 + SixBits(2)) * 64 + SixBits(3)) * 64 + SixBits(4)
        pads == Cardinality({j \in 1..4 : four[j] = Pad}) IN
    SubSeq(<<n \div 65536, (n \div 256) % 256, n % 256>>, 1, 3 - pads)
AllBytes(d) == FlattenSeq([i \in 1..(Len(d) \div 4) |-> Bytes(SubSeq(d, 4 * i - 3, 4 * i))])

\* One character in the decoder: d are those it holds, eof counts the padding.  A minus ends
\* the text, white space does not count.
Minus == 45
Take(s, c) ==
    LET eof == IF c = Pad THEN s.eof + 1 ELSE s.eof IN
    CASE s.rv # "more" -> s
      [] s.rv = "more" /\ c = Minus -> [s EXCEPT !.rv = "end"]
      [] s.rv = "more" /\ c \in {9, 10, 13, Space} -> s
      [] s.rv = "more" /\ c \in Alphabet \union {Pad} ->
            IF eof > 2 \/ (c # Pad /\ s.eof > 0) THEN [s EXCEPT !.rv = "bad"]
            ELSE [s EXCEPT !.eof = eof, !.d = Append(@, c)]
      [] OTHER -> [s EXCEPT !.rv = "bad"]

\* What is held after the chunk, and what comes out: all, if it is a multiple of four.
EVP_DecodeUpdate(d, chunk) ==
    LET s == FoldLeft(Take, [d |-> d, eof |-> Len(SelectSeq(d, LAMBDA c : c = Pad)), rv |-> "more"], chunk) IN
    CASE s.rv = "bad" \/ (s.rv = "end" /\ Len(s.d) % 4 # 0) -> [ok |-> FALSE, d |-> s.d, out |-> <<>>]
      [] s.rv # "bad" /\ Len(s.d) % 4 = 0 -> [ok |-> TRUE, d |-> <<>>, out |-> AllBytes(s.d)]
      [] OTHER -> [ok |-> TRUE, d |-> s.d, out |-> <<>>]

\* The padding that was left away; whether the decoder takes it is not looked at.
Padded(d, length) ==
    LET more == EVP_DecodeUpdate(d, [i \in 1..(4 - (length % 4)) |-> Pad]) IN
    IF length % 4 = 0 THEN [d |-> d, out |-> <<>>] ELSE [d |-> more.d, out |-> more.out]

\* Chunk by chunk; at the end nothing may be held.
Ended(out, last) == IF last.d = <<>> THEN out \o last.out ELSE Error

RECURSIVE Decoded(_, _, _, _, _)
Read(text, urlsafe, read, out, length) ==
    CASE ~read.ok -> Error
      [] read.ok /\ Len(text) > BASE64_CHUNK ->
            Decoded(SubSeq(text, BASE64_CHUNK + 1, Len(text)), urlsafe, read.d, out \o read.out, length)
      [] OTHER -> Ended(out \o read.out, Padded(read.d, length))
Decoded(text, urlsafe, d, out, length) ==
    LET chunk == SubSeq(text, 1, IF Len(text) < BASE64_CHUNK THEN Len(text) ELSE BASE64_CHUNK) IN
    Read(text, urlsafe, EVP_DecodeUpdate(d, IF urlsafe THEN b64dec_trans_urlsafe(chunk) ELSE chunk), out, length)

lb64decode(text, urlsafe) == IF text = <<>> THEN Error ELSE Decoded(text, urlsafe, <<>>, <<>>, Len(text))

-----------------------------------------------------------------------------
(* rc.c *)

RC4_SIZE == 256

Swapped(data, i, j) == [data EXCEPT ![i] = data[j], ![j] = data[i]]

\* Every place of the table is swapped with one that the key chooses.
tc_rc4_set_key(key) ==
    LET Shuffle(s, n) ==
            LET id2 == (key[(n % Len(key)) + 1] + s.data[n] + s.id2) % RC4_SIZE IN
            [data |-> Swapped(s.data, n, id2), id2 |-> id2]
        start == [data |-> [n \in 0..(RC4_SIZE - 1) |-> n], id2 |-> 0] IN
    FoldLeft(Shuffle, start, [n \in 1..RC4_SIZE |-> n - 1]).data

\* Every byte takes a byte of the table, which goes on changing.
tc_rc4(data, text) ==
    LET Next(s, byte) ==
            LET x == (s.x + 1) % RC4_SIZE
                y == (s.data[x] + s.y) % RC4_SIZE
                key == s.data[(s.data[x] + s.data[y]) % RC4_SIZE] IN
            [x |-> x, y |-> y, data |-> Swapped(s.data, x, y),
             md |-> Append(s.md, Byte(Xor(Word(key), Word(byte))))] IN
    FoldLeft(Next, [x |-> 0, y |-> 0, data |-> data, md |-> <<>>], text).md

\* What the cipher made is in memory of its own, that nobody looks at: the buffer which is
\* returned was only set to zeros.
lrc4(key, text) ==
    IF key = <<>> \/ text = <<>> THEN Error ELSE [i \in DOMAIN text |-> 0]

-----------------------------------------------------------------------------
(* dh.c.  a is below P or, from a key, P itself; the products are those of numbers without
   bounds, since nothing that is kept exceeds a word. *)

G == 5

\* a * b, one bit of b after the other.
RECURSIVE Multiplied(_, _, _)
Multiplied(a, b, m) ==
    LET t == P - a
        sum == IF m >= t THEN m - t ELSE m + a IN
    IF b = 0 THEN m
    ELSE Multiplied(IF a >= P - a THEN a * 2 - P ELSE a * 2, b \div 2, IF b % 2 = 1 THEN sum ELSE m)
mul_mod_p(a, b) == Multiplied(a, b, 0)

RECURSIVE pow_mod_p(_, _)
pow_mod_p(a, b) ==
    LET root == pow_mod_p(a, b \div 2)
        square == mul_mod_p(root, root) IN
    CASE b = 1 -> a
      [] b > 1 /\ b % 2 = 1 -> mul_mod_p(square, a)
      [] b > 1 /\ b % 2 = 0 -> square

powmodp(a, b) == pow_mod_p(IF a > P THEN a % P ELSE a, b)

DhError == -1
ldhsecret(x, y) == IF x = 0 \/ y = 0 THEN DhError ELSE powmodp(x, y)
ldhexchange(x) == IF x = 0 THEN DhError ELSE powmodp(G, x)

-----------------------------------------------------------------------------
(* crc.c.  A table holds, for every byte, what eight divisions by the polynomial leave. *)

DividedBy(poly, c) == IF 0 \in c THEN Xor(Right(64, c, 1), poly) ELSE Right(64, c, 1)
TableOf(poly) ==
    [b \in SUBSET Bits(8) |->
        LET after[i \in 0..8] == IF i = 0 THEN b ELSE DividedBy(poly, after[i - 1]) IN after[8]]

Poly32 == Halves(\hEDB8, \h8320)
Poly64 == {i + 32 : i \in Halves(\h95AC, \h9329)} \union Halves(\hAC4B, \hC9B5)
CRC32 == TableOf(Poly32)
CRC64 == TableOf(Poly64)

CrcStep(table, n, crc, byte) ==
    Xor(table[{i \in Xor(crc, Word(byte)) : i < 8}], Right(n, crc, 8))

lcrc32(str) ==
    IF str = <<>> THEN Error
    ELSE Xor(FoldLeft(LAMBDA crc, byte : CrcStep(CRC32, 32, crc, byte), Bits(32), str), Bits(32))

\* As a number: what is returned are its digits, and zeros behind them to make 20 bytes.
lcrc64(str) == IF str = <<>> THEN Error ELSE FoldLeft(LAMBDA crc, byte : CrcStep(CRC64, 64, crc, byte), {}, str)

\* The sum of the bytes, and the sum of those sums, which are the two halves of the result.
ladler32(buf) ==
    LET Next(s, byte) == LET adler == (s.adler + byte) % 65521 IN
            [adler |-> adler, sum |-> (s.sum + adler) % 65521]
        end == FoldLeft(Next, [adler |-> 1, sum |-> 0], buf) IN
    IF buf = <<>> THEN Error ELSE Halves(end.sum, end.adler)

-----------------------------------------------------------------------------
(* hmac_ex.c *)

Add(a, b) == Plus(32, a, b)

Hash(str) ==
    LET djb(h, byte) == Add(h, Add(Left(32, h, 5), Word(byte)))
        js(h, byte) == Xor(h, Add(Add(Left(32, h, 5), Word(byte)), Right(32, h, 2))) IN
    <<FoldLeft(djb, Word(5381), str), FoldLeft(js, Word(1315423911), str)>>

lhashkey(key) == ToBytes(32, Hash(key)[1]) \o ToBytes(32, Hash(key)[2])

k == <<Halves(\hd76a, \ha478), Halves(\he8c7, \hb756), Halves(\h2420, \h70db), Halves(\hc1bd, \hceee),
       Halves(\hf57c, \h0faf), Halves(\h4787, \hc62a), Halves(\ha830, \h4613), Halves(\hfd46, \h9501),
       Halves(\h6980, \h98d8), Halves(\h8b44, \hf7af), Halves(\hffff, \h5bb1), Halves(\h895c, \hd7be),
       Halves(\h6b90, \h1122), Halves(\hfd98, \h7193), Halves(\ha679, \h438e), Halves(\h49b4, \h0821),
       Halves(\hf61e, \h2562), Halves(\hc040, \hb340), Halves(\h265e, \h5a51), Halves(\he9b6, \hc7aa),
       Halves(\hd62f, \h105d), Halves(\h0244, \h1453), Halves(\hd8a1, \he681), Halves(\he7d3, \hfbc8),
       Halves(\h21e1, \hcde6), Halves(\hc337, \h07d6), Halves(\hf4d5, \h0d87), Halves(\h455a, \h14ed),
       Halves(\ha9e3, \he905), Halves(\hfcef, \ha3f8), Halves(\h676f, \h02d9), Halves(\h8d2a, \h4c8a),
       Halves(\hfffa, \h3942), Halves(\h8771, \hf681), Halves(\h6d9d, \h6122), Halves(\hfde5, \h380c),
       Halves(\ha4be, \hea44), Halves(\h4bde, \hcfa9), Halves(\hf6bb, \h4b60), Halves(\hbebf, \hbc70),
       Halves(\h289b, \h7ec6), Halves(\heaa1, \h27fa), Halves(\hd4ef, \h3085), Halves(\h0488, \h1d05),
       Halves(\hd9d4, \hd039), Halves(\he6db, \h99e5), Halves(\h1fa2, \h7cf8), Halves(\hc4ac, \h5665),
       Halves(\hf429, \h2244), Halves(\h432a, \hff97), Halves(\hab94, \h23a7), Halves(\hfc93, \ha039),
       Halves(\h655b, \h59c3), Halves(\h8f0c, \hcc92), Halves(\hffef, \hf47d), Halves(\h8584, \h5dd1),
       Halves(\h6fa8, \h7e4f), Halves(\hfe2c, \he6e0), Halves(\ha301, \h4314), Halves(\h4e08, \h11a1),
       Halves(\hf753, \h7e82), Halves(\hbd3a, \hf235), Halves(\h2ad7, \hd2bb), Halves(\heb86, \hd391)>>

r == <<<<7, 12, 17, 22>>, <<5, 9, 14, 20>>, <<4, 11, 16, 23>>, <<6, 10, 15, 21>>>>

Start == <<Halves(\h6745, \h2301), Halves(\hefcd, \hab89), Halves(\h98ba, \hdcfe), Halves(\h1032, \h5476)>>

\* What each of the four rounds mixes, and the word it takes.
Mixed(round, b, c, d) ==
    CASE round = 0 -> (b \intersect c) \union (Not(32, b) \intersect d)
      [] round = 1 -> (d \intersect b) \union (Not(32, d) \intersect c)
      [] round = 2 -> Xor(Xor(b, c), d)
      [] round = 3 -> Xor(c, b \union Not(32, d))
Place(round, i) == LET at == <<i, 5 * i + 1, 3 * i + 5, 7 * i>> IN at[round + 1] % 16

digest_md5(w) ==
    LET Step(s, i) ==
            LET round == i \div 16
                x == Add(Add(Add(s[1], Mixed(round, s[2], s[3], s[4])), k[i + 1]), w[Place(round, i) + 1]) IN
            <<s[4], Add(s[2], RotateLeft(32, x, r[round + 1][(i % 4) + 1])), s[2], s[3]>> IN
    FoldLeft(Step, Start, [i \in 1..64 |-> i - 1])

hmac(x, y) ==
    LET m == digest_md5([i \in 1..16 |-> <<x[2], x[1], y[2], y[1]>>[((i - 1) % 4) + 1]]) IN
    <<Xor(m[3], m[4]), Xor(m[1], m[2])>>

\* The words of x and y three times, and the padding of 48 bytes.
hmac_md5(x, y) ==
    LET m == digest_md5([i \in 1..12 |-> <<x[1], x[2], y[1], y[2]>>[((i - 1) % 4) + 1]]
                          \o <<Word(128), {}, Word(384), {}>>)
        sum == [i \in 1..4 |-> Add(m[i], Start[i])] IN
    <<Xor(sum[1], sum[3]), Xor(sum[2], sum[4])>>

\* Eight bytes are two words, the lower first.
read64(bytes) == <<FromBytes(SubSeq(bytes, 1, 4)), FromBytes(SubSeq(bytes, 5, 8))>>
pushqword(words) == ToBytes(32, words[1]) \o ToBytes(32, words[2])

lhmac64(x, y) == IF Len(x) # 8 \/ Len(y) # 8 THEN Error ELSE pushqword(hmac(read64(x), read64(y)))
lhmac64_md5(x, y) == IF Len(x) # 8 \/ Len(y) # 8 THEN Error ELSE pushqword(hmac_md5(read64(x), read64(y)))
lhmac_hash(key, text) ==
    IF Len(key) # 8 THEN Error ELSE pushqword(hmac(read64(lhashkey(text)), read64(key)))

\* lcrypt.c: the second text is repeated along the first.
lxor_str(s1, s2) ==
    IF s1 = <<>> \/ s2 = <<>> THEN Error
    ELSE [i \in DOMAIN s1 |-> Byte(Xor(Word(s1[i]), Word(s2[((i - 1) % Len(s2)) + 1])))]
=============================================================================
