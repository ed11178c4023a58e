------------------------------ MODULE MCCrypt ------------------------------
(***************************************************************************)
(* What a library of ciphers, checksums and texts is good for: what is     *)
(* written is read back, and a sum is the one that others compute.         *)
(***************************************************************************)
EXTENDS Crypt

\* The bytes at the edges of what the encodings tell apart, and a text of each length.
EdgeBytes == {0, 9, 10, 32, 37, 43, 45, 47, 48, 57, 58, 61, 64, 65, 70, 71, 90, 91, 96, 97, 102, 103, 122, 127, 128, 255}
Long(n) == [i \in 1..n |-> (i * 77 + 128) % 256]

Samples == {<<b>> : b \in EdgeBytes} \union {<<a, b>> : a, b \in {0, 37, 49, 250}} \union {Long(n) : n \in 1..35}

\* As a reader gets them, right or not: digits, spaces and other characters.
Written == UNION {[1..n -> {48, 70, 103, 32}] : n \in 1..4}
Escaped == UNION {[1..n -> {37, 50, 43}] : n \in 1..5}
Coded == UNION {[1..n -> {65, 47, 61, 45}] : n \in 1..4}

DesKey == <<19, 52, 87, 121, 155, 188, 223, 241>>
Eight == <<1, 35, 69, 103, 137, 171, 205, 239>>

Inputs ==
    {<<"text", t>> : t \in Samples} \union {<<"hex", t>> : t \in Written}
      \union {<<"url", t>> : t \in Escaped} \union {<<"b64", t>> : t \in Coded}
      \union {<<"sums", t>> : t \in {Long(n) : n \in {1, 2, 9}} \union {<<0, 0>>, <<255, 255, 255>>}}
      \union {<<"dh", x>> : x \in {1, 2, 3, 127, 128, 250, 251, 252, 255}}
      \union {<<"des", t>> : t \in {Long(n) : n \in {0, 1, 7, 8, 15}} \union {<<128>>, <<0, 0, 0, 0, 0, 0, 0>>}}
      \union {<<"rc4", t>> : t \in {Long(1), Long(20)}}
      \union {<<"known", <<>>>>}

CryptInit(form, input) == form = "crypt" /\ input \in Inputs

-----------------------------------------------------------------------------
TextSurvives(t) ==
    /\ \A upper, spaced \in BOOLEAN : lfromhex(ltohex(t, upper, spaced)) = t
    /\ lurldecode(lurlencode(t)) = t
    /\ \A urlsafe, nopadding \in BOOLEAN : lb64decode(lb64encode(t, urlsafe, nopadding), urlsafe) = t

\* What a reader takes it takes for one text only, up to what does not count.
Bare(t) == SelectSeq(t, LAMBDA c : ~isspace(c))
HexIsRead(t) ==
    lfromhex(t) # Error /\ lfromhex(t) # <<>> =>
        ltohex(lfromhex(t), FALSE, FALSE) = [i \in DOMAIN Bare(t) |-> IF Bare(t)[i] = 70 THEN 102 ELSE Bare(t)[i]]
UrlIsRead(t) == Len(lurldecode(t)) <= Len(t) /\ lurldecode(lurlencode(lurldecode(t))) = lurldecode(t)
WholeQuads(n) == 4 * (n \div 3)
B64IsRead(t) ==
    \A read \in {lb64decode(t, FALSE)} \ {Error, <<>>} :
        45 \notin Range(t) =>
            \A again \in {lb64encode(read, FALSE, FALSE)} :
                lb64decode(again, FALSE) = read /\ SubSeq(again, 1, WholeQuads(Len(read))) = SubSeq(t, 1, WholeQuads(Len(read)))

\* The remainder of the division bit by bit, the lowest bit of a byte first.
Divided(poly, rest, bit) ==
    LET next == {i - 1 : i \in rest \ {0}} IN
    IF (0 \in rest) # bit THEN (next \ poly) \union (poly \ next) ELSE next
Remainder(poly, start, bits) ==
    LET rest[i \in 0..Len(bits)] == IF i = 0 THEN start ELSE Divided(poly, rest[i - 1], bits[i]) IN
    rest[Len(bits)]
BitsOf(t) == FlattenSeq([i \in DOMAIN t |-> [j \in 1..8 |-> (t[i] \div 2 ^ (j - 1)) % 2 = 1]])

\* A number is its bits, and the xor of a text with another one undoes itself.
SumOf(f, n) == LET sum[i \in 0..n] == IF i = 0 THEN 0 ELSE sum[i - 1] + f[i] IN sum[n]
SumsAgree(t) ==
    LET n == Len(t) IN
    /\ lcrc32(t) = (0..31) \ Remainder(Poly32, 0..31, BitsOf(t))
    /\ lcrc64(t) = Remainder(Poly64, {}, BitsOf(t))
    /\ ladler32(t) = Halves((n + SumOf([i \in 1..n |-> (n + 1 - i) * t[i]], n)) % 65521,
                                      (1 + SumOf(t, n)) % 65521)
    /\ \A key \in {<<7>>, <<1, 2, 255>>} : lxor_str(lxor_str(t, key), key) = t

\* The two sides agree on a secret, which is the power: one factor more for a key that is higher
\* by one.
SecretIsShared(x) ==
    /\ x # 251 => ldhsecret(x, 1) = x % 251
    /\ \A y \in {1, 2, 5, 127, 250, 254} :
        /\ ldhsecret(ldhexchange(x), y) = ldhsecret(ldhexchange(y), x)
        /\ x # 251 => ldhsecret(x, y + 1) = (x * ldhsecret(x, y)) % 251

DesSurvives(t) ==
    \A cipher \in {ldesencode(DesKey, t)} :
        Len(cipher) % 8 = 0 /\ Len(cipher) > Len(t) /\ cipher # t /\ ldesdecode(DesKey, cipher) = t

Rc4Survives(t) == LET data == tc_rc4_set_key(Eight) IN tc_rc4(data, tc_rc4(data, t)) = t

\* From the descriptions of DES, RC4, CRC and MD5.
KnownAnswers ==
    LET digits == [i \in 1..9 |-> 48 + i] IN
    /\ des_crypt(des_key(DesKey), Eight) = <<133, 232, 19, 84, 15, 10, 180, 5>>
    /\ tc_rc4(tc_rc4_set_key(<<75, 101, 121>>), <<80, 108, 97, 105, 110, 116, 101, 120, 116>>)
         = <<187, 243, 22, 232, 217, 64, 175, 10, 211>>
    /\ lcrc32(digits) = Halves(\hcbf4, \h3926)
    /\ lhmac64_md5([i \in 1..8 |-> i], <<255, 254, 128, 127, 0, 1, 77, 200>>) = <<55, 227, 145, 175, 150, 226, 101, 48>>

CryptHolds(input) ==
    /\ input[1] = "text" => TextSurvives(input[2])
    /\ input[1] = "hex" => HexIsRead(input[2])
    /\ input[1] = "url" => UrlIsRead(input[2])
    /\ input[1] = "b64" => B64IsRead(input[2])
    /\ input[1] = "sums" => SumsAgree(input[2])
    /\ input[1] = "dh" => SecretIsShared(input[2])
    /\ input[1] = "des" => DesSurvives(input[2])
    /\ input[1] = "rc4" => Rc4Survives(input[2])
    /\ input[1] = "known" => KnownAnswers
=============================================================================
