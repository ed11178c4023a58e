------------------------------- MODULE MCJson -------------------------------
(***************************************************************************)
(* Instances for TLC of Json: values to encode, and texts that grow token  *)
(* by token; and what they mean, without the code.                         *)
(***************************************************************************)
EXTENDS Json

VARIABLES
    form,       \* "json": a value; "tokens", "string", "numeral": a text
    input       \* <<the value>>, or the pieces of the text

CONSTANTS MaxTokens, MaxPieces, MaxNumeral      \* the longest texts

JStr(bytes) == <<"string", bytes>>
Int1(n) == Normal(n, 0)
Boolean(b) == <<"boolean", b>>
Objects(keys, v) == JTable({<<k, v>> : k \in keys}, "none")
Sequence1(n) == JTable({<<Int1(i), Int1(10 * i)>> : i \in 1..n}, "none")

RECURSIVE Nest(_, _)
Nest(n, k) == IF n = 0 THEN Int1(1) ELSE Objects({k}, Nest(n - 1, k))

Plain ==
    {<<"nil">>, JNull, Boolean(TRUE), Boolean(FALSE), <<"nan">>, <<"infinity", 1>>, <<"infinity", -1>>,
     <<"lightuserdata", "json_array">>, <<"function">>}
      \union {Int1(n) : n \in -11..11} \union {Int1(n) : n \in {99, 100, 104, 105, 115, 120, 994, 995, 1000, -9950}}
      \union {JNumber(m, e) : m \in {5, -15, 125, 999}, e \in {-7, -5, -4, -3, -1, 12}}
      \union {JStr(s) : s \in {<<>>, <<97, 98>>, <<Quote>>, <<Backslash, 110>>, <<Slash>>, <<195, 169>>,
                               [i \in 1..34 |-> i - 1], <<0, 127>>}}

KeySets ==
    {{Int1(1)}, {Int1(0)}, {Int1(2)}, {Int1(1), Int1(3)}, {Int1(SparseSafe + 1)},
     {Int1(1), Int1(2), Int1(2 * SparseSafe)}, {Int1(1), JStr(<<49>>)}, {JNumber(15, -1)}, {Boolean(TRUE)},
     {Int1(120), Int1(123)}, {JStr(<<Quote>>), JStr(<<>>)}, {Int1(-1), JStr(<<45, 49>>)}}

Some == {JNull, Boolean(TRUE), <<"nan">>, <<"infinity", -1>>, <<"lightuserdata", "json_array">>, <<"function">>,
         Int1(0), Int1(104), Int1(-9950), JNumber(125, -3), JStr(<<>>), JStr([i \in 1..34 |-> i - 1])}

Tables1 ==
    {Objects(K, v) : K \in KeySets, v \in Some}
      \union {JTable(Sequence1(n)[2], mt) : n \in 0..3, mt \in {"none", "array_mt", "empty_array_mt"}}
      \union {JTable({<<JStr(<<97>>), Int1(1)>>}, mt) : mt \in {"array_mt", "empty_array_mt"}}
      \union {Nest(n, k) : n \in 1..(JsonDepth + 1), k \in {Int1(1), JStr(<<97>>)}}

JsonValues == Plain \union Tables1 \union {Objects({Int1(1), Int1(2)}, v) : v \in Tables1}

JsonConfigs ==
    {LoadedConfig.safe, LoadedConfig.cjson} \union
    {[DefaultConfig EXCEPT !.invalid_out = "on", !.escape_slash = FALSE],
     [DefaultConfig EXCEPT !.invalid_out = "null", !.sparse_ratio = 0],
     [DefaultConfig EXCEPT !.empty_as_object = FALSE, !.invalid_in = FALSE]}

-----------------------------------------------------------------------------
(* What is left of a value that goes out and comes back *)

KeptNumber(v, cfg) ==
    CASE v[1] = "number" -> Rounded(v[2], v[3])
      [] v[1] # "number" -> IF cfg.invalid_out = "null" THEN JNull ELSE v

\* A string that reads as the number; what is not finite is a key only as text.
KeyText(k) == IF k[1] = "number" THEN fpconv_g_fmt(k[2], k[3]) ELSE <<>>

IsArray(v) == v[2] # {} /\ \A k \in Keys(v[2]) : IndexOf(k) > 0
Sparse(v, cfg) == IsArray(v) /\ TooSparse(MaxIndex(v[2]), Cardinality(v[2]), cfg)
GoesAsArray(v, cfg) ==
    \/ v[3] = "array_mt"
    \/ IsArray(v) /\ ~Sparse(v, cfg)
    \/ v[2] = {} /\ (v[3] = "empty_array_mt" \/ ~cfg.empty_as_object)
    \/ ~IsArray(v) /\ v[3] = "empty_array_mt"

Elements_(v) == IF v[3] = "empty_array_mt" /\ ~IsArray(v) THEN 0
                ELSE IF v[3] = "array_mt" THEN Border(v[2]) ELSE MaxIndex(v[2])

\* Whether a value has no text: functions, numbers that are not finite, keys of another
\* type, sparse arrays, tables nested too deep.
RECURSIVE HasNoText(_, _, _)
HasNoText(v, cfg, depth) ==
    CASE v[1] = "function" -> TRUE
      [] v[1] \in {"infinity", "nan"} -> cfg.invalid_out = "off"
      [] v[1] = "table" ->
            \/ depth >= JsonDepth
            \/ v[3] # "array_mt" /\ Sparse(v, cfg) /\ ~cfg.sparse_convert
            \/ \E p \in v[2] :
                  /\ GoesAsArray(v, cfg) => IndexOf(p[1]) \in 1..Elements_(v)
                  /\ \/ HasNoText(p[2], cfg, depth + 1)
                     \/ ~GoesAsArray(v, cfg) /\ p[1][1] \notin {"number", "string"}
      [] OTHER -> FALSE

RECURSIVE KeptAs(_, _)
KeptAs(v, cfg) ==
    CASE v[1] \in {"number", "infinity", "nan"} -> KeptNumber(v, cfg)
      [] v[1] = "nil" -> JNull
      [] v = <<"lightuserdata", "json_array">> -> NewArray(<<>>, cfg)
      [] v[1] = "table" ->
            IF GoesAsArray(v, cfg)
            THEN NewArray([i \in 1..Elements_(v) |-> KeptAs(Lookup(v[2], Normal(i, 0)), cfg)], cfg)
            ELSE JTable({<<IF p[1][1] = "string" THEN p[1] ELSE JStr(KeyText(p[1])), KeptAs(p[2], cfg)>>
                            : p \in v[2]}, "none")
      [] OTHER -> v

\* What comes back is what is kept, but for fields whose keys have the same text: the
\* last one that was written is kept.
RECURSIVE IsKept(_, _)
IsKept(got, all) ==
    IF got[1] # "table" \/ all[1] # "table" THEN got = all
    ELSE /\ Keys(got[2]) = Keys(all[2]) /\ got[3] = all[3]
         /\ \A p \in got[2] : \E q \in all[2] : p[1] = q[1] /\ IsKept(p[2], q[2])
         /\ \A p, q \in got[2] : p[1] = q[1] => p = q

\* cjson.empty_array is a level for decode, and none for encode.
RECURSIVE Levels(_)
Levels(v) ==
    CASE v[1] = "table" -> 1 + Max({0} \union {Levels(p[2]) : p \in v[2]})
      [] v = <<"lightuserdata", "json_array">> -> 1
      [] OTHER -> 0

CameBack(v, cfg, b) ==
    /\ ~b.overrun /\ Len(b.text) < b.size
    /\ b.raised <=> HasNoText(v, cfg, 0)
    /\ ~b.raised =>
          \A t \in {json_decode(b.text, [cfg EXCEPT !.invalid_in = @ \/ cfg.invalid_out = "on"])} :
          \A kept \in {KeptAs(v, cfg)} :
             IF Levels(kept) > JsonDepth THEN t.type = "T_ERROR"
             ELSE t.type = "value" /\ IsKept(t.value, kept)

\* The buffer is kept from call to call, so it may be large already.
ValueSurvives(v) ==
    \A cfg \in JsonConfigs :
    \A start \in {<<BufferSize, "strings first">>, <<3 * BufferSize, "numbers first">>} :
    \A b \in {json_encode(v, cfg, start[1], start[2])} : CameBack(v, cfg, b)

-----------------------------------------------------------------------------
(* Texts *)

Byte(c) == <<c>>
TokenPieces == {Byte(c) : c \in {123, 125, 91, 93, 44, 58}} \union {Text_true, <<Quote, 97, Quote>>}
StringPieces ==
    {Byte(122), Byte(195), Byte(10), Byte(0), <<Backslash, 110>>, <<Backslash, 113>>, <<Backslash, Quote>>,
     <<Backslash, Letter_u, 48, 48, 52, 49>>, <<Backslash, Letter_u, 48, 48, 101, 57>>,
     <<Backslash, Letter_u, 50, 48, 97, 67>>, <<Backslash, Letter_u, 100, 56, 51, 100>>,
     <<Backslash, Letter_u, 100, 101, 48, 48>>, <<Backslash, Letter_u, 49, 50>>}
NumeralPieces == {Byte(c) : c \in {48, 49, Point, Letter_e, Minus, Plus, 120}}

Text == FlattenSeq(input)
Spaced == FlattenSeq([i \in DOMAIN input |-> <<32>> \o input[i] \o <<9, 10>>])

\* The values that take n tokens, lists of things that take n tokens, and fields, as the
\* grammar of JSON has them.
RECURSIVE ValuesOf(_), Lists(_, _)
FieldsOf(n) == {<<<<Quote, 97, Quote>>, Byte(58)>> \o v : v \in ValuesOf(n - 2)}
Lists(of, n) ==
    LET items == IF of = "values" THEN ValuesOf(n) ELSE FieldsOf(n)
    IN items \union UNION {{a \o <<Byte(44)>> \o b : a \in IF of = "values" THEN ValuesOf(k) ELSE FieldsOf(k),
                                                    b \in Lists(of, n - k - 1)} : k \in 1..(n - 2)}
ValuesOf(n) ==
    CASE n < 1 -> {}
      [] n = 1 -> {<<Text_true>>, <<<<Quote, 97, Quote>>>>}
      [] n = 2 -> {<<Byte(91), Byte(93)>>, <<Byte(123), Byte(125)>>}
      [] n > 2 -> {<<Byte(91)>> \o l \o <<Byte(93)>> : l \in Lists("values", n - 2)}
                    \union {<<Byte(123)>> \o l \o <<Byte(125)>> : l \in Lists("fields", n - 2)}

Sentences == UNION {ValuesOf(n) : n \in 1..MaxTokens}

\* How many tables are open after each token.
Opened(tokens) ==
    Cardinality({i \in DOMAIN tokens : tokens[i] \in {Byte(91), Byte(123)}})
      - Cardinality({i \in DOMAIN tokens : tokens[i] \in {Byte(93), Byte(125)}})
Deepest(tokens) == Max({Opened(SubSeq(tokens, 1, k)) : k \in 0..Len(tokens)})

Decodes(text, cfg) == json_decode(text, cfg).type = "value"

\* A text is taken if and only if it is a value; white space makes no difference, nor what
\* stands behind a zero byte; and with arrays marked as such it is written again as it
\* was read.
TokensAreRead ==
    LET got == json_decode(Text, LoadedConfig.cjson)
    IN /\ got.type = "value" <=> input \in Sentences /\ Deepest(input) <= JsonDepth
       /\ got.type = json_decode(Spaced, LoadedConfig.cjson).type
       /\ input # <<>> => got.type = json_decode(Text \o <<32, 0, Letter_e>>, LoadedConfig.cjson).type
       /\ got.type = "value" =>
             LET again == json_encode(got.value, LoadedConfig.cjson, BufferSize, "numbers first") IN
             ~again.raised /\ json_decode(again.text, LoadedConfig.cjson).value = got.value

High == <<Backslash, Letter_u, 100, 56, 51, 100>>
Low_ == <<Backslash, Letter_u, 100, 101, 48, 48>>

\* What each piece stands for; <<-1>> is an error.
PieceMeans(p) ==
    CASE p \in {Byte(122), Byte(195), Byte(10)} -> p
      [] p = <<Backslash, 110>> -> <<10>>
      [] p = <<Backslash, Quote>> -> <<Quote>>
      [] p = <<Backslash, Letter_u, 48, 48, 52, 49>> -> <<65>>
      [] p = <<Backslash, Letter_u, 48, 48, 101, 57>> -> <<195, 169>>
      [] p = <<Backslash, Letter_u, 50, 48, 97, 67>> -> <<226, 130, 172>>
      [] OTHER -> <<-1>>

RECURSIVE StringMeans(_)
StringMeans(ps) ==
    CASE ps = <<>> -> <<>>
      [] Len(ps) >= 2 /\ ps[1] = High /\ ps[2] = Low_ -> <<240, 159, 152, 128>> \o StringMeans(SubSeq(ps, 3, Len(ps)))
      [] OTHER -> PieceMeans(ps[1]) \o StringMeans(Tail(ps))

StringsAreRead ==
    LET got == json_decode(<<Quote>> \o Text \o <<Quote>>, DefaultConfig) IN
    IF \E i \in DOMAIN StringMeans(input) : StringMeans(input)[i] = -1 THEN got.type = "T_ERROR"
    ELSE got.type = "value" /\ got.value = JStr(StringMeans(input))

AllIn(s, S) == \A i \in DOMAIN s : s[i] \in S

\* Sign, digits, fraction and exponent of the text.
Numeral(int(_), signs) ==
    \E a, b, c \in 0..Len(Text) :
        /\ a <= 1 /\ a <= b /\ b <= c
        /\ LET sign == SubSeq(Text, 1, a)
               digits == SubSeq(Text, a + 1, b)
               frac == SubSeq(Text, b + 1, c)
               exp == SubSeq(Text, c + 1, Len(Text))
           IN /\ sign \in signs /\ AllIn(digits, Digit) /\ int(digits)
              /\ frac = <<>> \/ (frac[1] = Point /\ AllIn(Tail(frac), Digit))
              /\ Len(digits) + Len(frac) > (IF frac = <<>> THEN 0 ELSE 1)
              /\ sign \o digits # <<>>
              /\ \/ exp = <<>>
                 \/ \E k \in {1, 2} :
                        /\ Len(exp) > k /\ exp[1] = Letter_e
                        /\ k = 2 => exp[2] \in {Plus, Minus}
                        /\ AllIn(SubSeq(exp, k + 1, Len(exp)), Digit)

\* 0x with at least one digit, perhaps with a point.
HexNumeral ==
    \E a, b \in 0..Len(Text) : a <= 1 /\ b >= a + 2 /\
        LET digits == SubSeq(Text, a + 3, b)
            frac == SubSeq(Text, b + 1, Len(Text))
        IN /\ SubSeq(Text, 1, a) \in {<<>>, <<Minus>>, <<Plus>>}
           /\ SubSeq(Text, a + 1, a + 2) = <<48, 120>>
           /\ AllIn(digits, HexDigit)
           /\ frac = <<>> \/ (frac[1] = Point /\ AllIn(Tail(frac), HexDigit))
           /\ Len(digits) + Len(frac) > (IF frac = <<>> THEN 0 ELSE 1)

NoLeadingZero(digits) == Len(digits) > 1 => digits[1] # 48
AnyDigits(digits) == TRUE

\* Numbers as JSON has them and, as strtod decides, with digits missing on one side of the
\* point; with decode_invalid_numbers also with leading zeros, a plus, or in hexadecimal.
NumeralsAreRead ==
    /\ Decodes(Text, [DefaultConfig EXCEPT !.invalid_in = FALSE]) <=> Numeral(NoLeadingZero, {<<>>, <<Minus>>})
    /\ Decodes(Text, DefaultConfig) <=> Numeral(AnyDigits, {<<>>, <<Minus>>, <<Plus>>}) \/ HexNumeral

-----------------------------------------------------------------------------
(* The behaviours *)

Pieces_ == CASE form = "tokens" -> TokenPieces
             [] form = "string" -> StringPieces
             [] form = "numeral" -> NumeralPieces
             [] OTHER -> {}
Longest == CASE form = "tokens" -> MaxTokens
             [] form = "string" -> MaxPieces
             [] form = "numeral" -> MaxNumeral
             [] OTHER -> 0

Forms == {"tokens", "string", "numeral"}

JsonInit ==
    \/ form = "json" /\ input \in {<<v>> : v \in JsonValues}
    \/ form \in Forms /\ input = <<>>

\* The text gets longer.
Longer ==
    /\ Len(input) < Longest
    /\ \E p \in Pieces_ : input' = Append(input, p)
    /\ UNCHANGED form

\* What comes out of encode and back through decode is the value, but for what JSON has no
\* room for; and decode takes what is JSON.
JsonIsKept ==
    /\ form = "json" => ValueSurvives(input[1])
    /\ form = "tokens" => TokensAreRead
    /\ form = "string" => StringsAreRead
    /\ form = "numeral" => NumeralsAreRead
=============================================================================
