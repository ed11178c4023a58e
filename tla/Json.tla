-------------------------------- MODULE Json --------------------------------
(***************************************************************************)
(* lcjson: Lua values to JSON and back, with the options of an instance.   *)
(*                                                                         *)
(* A text is a sequence of bytes.  A Lua value is a tuple of its type and  *)
(* its data: a table is a set of pairs and its metatable, a number is      *)
(* <<"number", m, e>> for m * 10^e, where 10 does not divide m.            *)
(*                                                                         *)
(* The numbers of the code that decide where a case begins (precision,     *)
(* depth, the first size of a buffer, what makes an array sparse) are      *)
(* constants here, so that small values meet every case.                   *)
(***************************************************************************)
EXTENDS Integers, Sequences, FiniteSets, SequencesExt, FiniteSetsExt, TLC

CONSTANTS
    Precision,      \* significant digits of a number, 14
    JsonDepth,      \* nested tables, 1000
    SparseSafe,     \* length up to which an array may be sparse, 10
    BufferSize      \* STRBUF_DEFAULT_SIZE, 1023

\* json_create_config; escape_slash is the process's char2escape['/'].
DefaultConfig ==
    [sparse_convert |-> FALSE, sparse_ratio |-> 2, sparse_safe |-> SparseSafe,
     invalid_out |-> "off", empty_as_object |-> TRUE, escape_slash |-> TRUE,
     invalid_in |-> TRUE, array_mt |-> FALSE]

\* json/init.lua sets its options at `cjson', and encodes and decodes with `cjson.safe',
\* which has a configuration of its own.
LoadedConfig == [cjson |-> [DefaultConfig EXCEPT !.array_mt = TRUE, !.sparse_convert = TRUE],
                 safe |-> DefaultConfig]

JNull == <<"lightuserdata", "NULL">>
JNumber(m, e) == <<"number", m, e>>
JTable(pairs, mt) == <<"table", pairs, mt>>

-----------------------------------------------------------------------------
(* Bytes *)

Quote == 34
Backslash == 92
Slash == 47
Minus == 45
Plus == 43
Point == 46
Letter_e == 101
Letter_u == 117

Digit == 48..57
Hex(n) == IF n < 10 THEN 48 + n ELSE 87 + n
Unhex(c) == CASE c \in Digit -> c - 48
              [] c \in 97..102 -> c - 87
              [] c \in 65..70 -> c - 55
              [] OTHER -> -1

Text_true == <<116, 114, 117, 101>>
Text_false == <<102, 97, 108, 115, 101>>
Text_null == <<110, 117, 108, 108>>
Text_inf == <<105, 110, 102>>
Text_inity == <<105, 110, 105, 116, 121>>
Text_nan == <<110, 97, 110>>

\* Reading a C string: behind its end stands 0.
ByteAt(text, i) == IF i <= Len(text) THEN text[i] ELSE 0
Starts_(text, i, word) == \A j \in DOMAIN word : ByteAt(text, i + j - 1) = word[j]
Lower(c) == IF c \in 65..90 THEN c + 32 ELSE c
StartsNoCase(text, i, word) == \A j \in DOMAIN word : Lower(ByteAt(text, i + j - 1)) = word[j]

-----------------------------------------------------------------------------
(* strbuf.c.  A buffer holds `text' in `size' bytes.  What is appended     *)
(* without a look at the size sets `overrun' when it does not fit.         *)

strbuf_new(len) == [text |-> <<>>, size |-> IF len <= 0 THEN BufferSize ELSE len + 1,
                    overrun |-> FALSE, raised |-> FALSE]

RECURSIVE Doubled(_, _)
Doubled(size, least) == IF size < least THEN Doubled(2 * size, least) ELSE size

calculate_new_size(size, len) == IF size > len + 1 THEN len + 1 ELSE Doubled(size, len + 1)

strbuf_ensure_empty_length(b, n) ==
    IF n > b.size - Len(b.text) - 1
    THEN [b EXCEPT !.size = calculate_new_size(@, Len(b.text) + n)]
    ELSE b

append_unsafe(b, s) ==
    [b EXCEPT !.text = @ \o s, !.overrun = @ \/ Len(b.text) + Len(s) > b.size]

strbuf_append_mem(b, s) == append_unsafe(strbuf_ensure_empty_length(b, Len(s)), s)

-----------------------------------------------------------------------------
(* fpconv.c, printf's "%.14g" and strtod *)

RECURSIVE DigitsOf(_)
DigitsOf(n) == IF n < 10 THEN <<48 + n>> ELSE Append(DigitsOf(n \div 10), 48 + (n % 10))

RECURSIVE Normal(_, _)
Normal(m, e) == IF m = 0 THEN JNumber(0, 0)
                ELSE IF m % 10 = 0 THEN Normal(m \div 10, e + 1)
                ELSE JNumber(m, e)

\* To the precision, halves to the even neighbour.
HalfEven(q, r, unit) == IF 2 * r > unit \/ (2 * r = unit /\ q % 2 = 1) THEN q + 1 ELSE q

RoundedBy(m, e, drop) ==
    IF drop <= 0 THEN <<m, e>>
    ELSE <<HalfEven(m \div 10 ^ drop, m % 10 ^ drop, 10 ^ drop), e + drop>>

AbsRounded(m, e) ==
    LET r == RoundedBy(m, e, Len(DigitsOf(m)) - Precision) IN Normal(r[1], r[2])

Rounded(m, e) ==
    IF m >= 0 THEN AbsRounded(m, e)
    ELSE LET r == AbsRounded(-m, e) IN JNumber(-r[2], r[3])

Zeros(n) == [i \in 1..n |-> 48]
Fraction(d) == IF d = <<>> THEN <<>> ELSE <<Point>> \o d
Magnitude(x) == IF x < 0 THEN -x ELSE x

Mantissa(d) == <<d[1]>> \o Fraction(Tail(d))
Exponent(x) ==
    <<Letter_e, IF x < 0 THEN Minus ELSE Plus>>
      \o (IF Magnitude(x) < 10 THEN <<48>> ELSE <<>>) \o DigitsOf(Magnitude(x))

\* d are the digits without zeros at the end, x the exponent of the first one.
Printed(d, x) ==
    IF x < -4 \/ x >= Precision THEN Mantissa(d) \o Exponent(x)
    ELSE IF x < 0 THEN <<48, Point>> \o Zeros(-x - 1) \o d
    ELSE SubSeq(d \o Zeros(x), 1, x + 1) \o Fraction(SubSeq(d, x + 2, Len(d)))

PrintedRounded(r) == Printed(DigitsOf(r[2]), r[3] + Len(DigitsOf(r[2])) - 1)

fpconv_g_fmt(m, e) ==
    (IF m < 0 THEN <<Minus>> ELSE <<>>) \o PrintedRounded(AbsRounded(Magnitude(m), e))

RECURSIVE EndOf(_, _, _)
EndOf(text, i, S) == IF ByteAt(text, i) \in S THEN EndOf(text, i + 1, S) ELSE i

RECURSIVE ValueOf(_, _, _)
ValueOf(digits, base, n) ==
    IF digits = <<>> THEN n ELSE ValueOf(Tail(digits), base, n * base + Unhex(digits[1]))

HexDigit == {c \in 48..102 : Unhex(c) >= 0}

\* The end of an exponent that begins at i; i if there is none.
ExponentFrom(text, i, d) ==
    IF Lower(ByteAt(text, i)) = Letter_e /\ ByteAt(text, d) \in Digit THEN EndOf(text, d, Digit) ELSE i
ExponentEnd(text, i) == ExponentFrom(text, i, IF ByteAt(text, i + 1) \in {Plus, Minus} THEN i + 2 ELSE i + 1)

ExponentValue(text, i, end) ==
    IF end = i THEN 0
    ELSE IF text[i + 1] = Minus THEN -ValueOf(SubSeq(text, i + 2, end - 1), 10, 0)
    ELSE ValueOf(SubSeq(text, IF text[i + 1] = Plus THEN i + 2 ELSE i + 1, end - 1), 10, 0)

Decimal(text, from, intEnd, digEnd, end, sign) ==
    <<end, Normal(sign * ValueOf(SubSeq(text, from, intEnd - 1) \o SubSeq(text, intEnd + 1, digEnd - 1), 10, 0),
                  ExponentValue(text, digEnd, end)
                    - (IF digEnd > intEnd THEN digEnd - intEnd - 1 ELSE 0))>>

Unsigned(text, from, i, intEnd, sign) ==
    LET digEnd == IF ByteAt(text, intEnd) = Point THEN EndOf(text, intEnd + 1, Digit) ELSE intEnd
        digits == digEnd - from - (IF digEnd > intEnd THEN 1 ELSE 0)
    IN IF digits = 0 THEN <<i, JNull>>
       ELSE Decimal(text, from, intEnd, digEnd, ExponentEnd(text, digEnd), sign)

\* Behind "0x"; the exponents of base two that may follow are left out.
HexDigits(text, from, intEnd, digEnd, i, sign) ==
    IF digEnd - from - (IF digEnd > intEnd THEN 1 ELSE 0) = 0 THEN <<i, Normal(0, 0)>>
    ELSE LET places == IF digEnd > intEnd THEN digEnd - intEnd - 1 ELSE 0 IN
         <<digEnd, Normal(sign * 625 ^ places
                            * ValueOf(SubSeq(text, from, intEnd - 1) \o SubSeq(text, intEnd + 1, digEnd - 1), 16, 0),
                          -4 * places)>>
Hexadecimal(text, from, intEnd, i, sign) ==
    HexDigits(text, from, intEnd,
              IF ByteAt(text, intEnd) = Point THEN EndOf(text, intEnd + 1, HexDigit) ELSE intEnd, i, sign)

\* strtod: where the number that begins at i ends, and its value; it ends at i if there is
\* none.
StrtodFrom(text, i, from, sign) ==
    IF StartsNoCase(text, from, Text_inf)
    THEN <<from + (IF StartsNoCase(text, from + 3, Text_inity) THEN 8 ELSE 3), <<"infinity", sign>>>>
    ELSE IF StartsNoCase(text, from, Text_nan) THEN <<from + 3, <<"nan">>>>
    ELSE IF StartsNoCase(text, from, <<48, 120>>)
    THEN Hexadecimal(text, from + 2, EndOf(text, from + 2, HexDigit), from + 1, sign)
    ELSE Unsigned(text, from, i, EndOf(text, from, Digit), sign)

fpconv_strtod(text, i) ==
    StrtodFrom(text, i, IF ByteAt(text, i) \in {Plus, Minus} THEN i + 1 ELSE i,
               IF ByteAt(text, i) = Minus THEN -1 ELSE 1)

-----------------------------------------------------------------------------
(* Encoding *)

\* char2escape
EscapeOf(c, slash) ==
    CASE c = 8 -> <<Backslash, 98>>
      [] c = 9 -> <<Backslash, 116>>
      [] c = 10 -> <<Backslash, 110>>
      [] c = 12 -> <<Backslash, 102>>
      [] c = 13 -> <<Backslash, 114>>
      [] c \in (0..31 \union {127}) \ {8, 9, 10, 12, 13} ->
            <<Backslash, Letter_u, 48, 48, Hex(c \div 16), Hex(c % 16)>>
      [] c \in {Quote, Backslash} -> <<Backslash, c>>
      [] c = Slash -> IF slash THEN <<Backslash, c>> ELSE <<c>>
      [] OTHER -> <<c>>

json_append_string(b, s, cfg) ==
    append_unsafe(strbuf_ensure_empty_length(b, Len(s) * 6 + 2),
                  <<Quote>> \o FlattenSeq([i \in DOMAIN s |-> EscapeOf(s[i], cfg.escape_slash)])
                    \o <<Quote>>)

\* An error of json_encode_exception or json_check_encode_depth ends the encoding.
Raised(b) == [b EXCEPT !.raised = TRUE]

json_append_number(b, v, cfg) ==
    IF v[1] = "number"
    THEN append_unsafe(strbuf_ensure_empty_length(b, 32), fpconv_g_fmt(v[2], v[3]))
    ELSE CASE cfg.invalid_out = "off" -> Raised(b)
           [] cfg.invalid_out = "null" -> strbuf_append_mem(b, Text_null)
           [] cfg.invalid_out = "on" ->
                strbuf_append_mem(b, IF v[1] = "nan" THEN <<78, 97, 78>>
                                     ELSE (IF v[2] < 0 THEN <<Minus>> ELSE <<>>)
                                            \o <<73, 110, 102, 105, 110, 105, 116, 121>>)

\* The number of an index of an array; 0 for any other key.
IndexOf(k) == IF k[1] = "number" /\ k[2] >= 1 /\ k[3] >= 0 THEN k[2] * 10 ^ k[3] ELSE 0

Keys(pairs) == {p[1] : p \in pairs}
MaxIndex(pairs) == IF pairs = {} THEN 0 ELSE Max({IndexOf(k) : k \in Keys(pairs)})

TooSparse(max, items, cfg) ==
    cfg.sparse_ratio > 0 /\ max > items * cfg.sparse_ratio /\ max > cfg.sparse_safe

\* -1: an object, -2: an error.
LengthWithMax(max, items, cfg) ==
    IF ~TooSparse(max, items, cfg) THEN max
    ELSE IF cfg.sparse_convert THEN -1
    ELSE -2

lua_array_length(pairs, cfg) ==
    IF \E k \in Keys(pairs) : IndexOf(k) = 0 THEN -1
    ELSE LengthWithMax(MaxIndex(pairs), Cardinality(pairs), cfg)

Lookup(pairs, k) == IF k \in Keys(pairs) THEN (CHOOSE p \in pairs : p[1] = k)[2] ELSE <<"nil">>

\* lua_next gives the pairs in some order: here one of two.
PairLess(p, q) ==
    IF p[1][1] = q[1][1] THEN IndexOf(p[1]) > IndexOf(q[1]) ELSE p[1][1] = "string"
InOrder(pairs, order) ==
    IF order = "strings first" THEN SetToSortSeq(pairs, PairLess)
    ELSE Reverse(SetToSortSeq(pairs, PairLess))

RECURSIVE json_append_data(_, _, _, _, _), json_append_array(_, _, _, _, _, _, _),
          json_append_object(_, _, _, _, _, _)

Comma(b, i) == IF i > 1 THEN strbuf_append_mem(b, <<44>>) ELSE b

json_append_array(b, pairs, i, len, cfg, depth, order) ==
    IF b.raised THEN b
    ELSE IF i > len THEN strbuf_append_mem(b, <<93>>)
    ELSE json_append_array(json_append_data(Comma(b, i), Lookup(pairs, Normal(i, 0)), cfg, depth, order),
                           pairs, i + 1, len, cfg, depth, order)

ObjectKey(b, k, cfg) ==
    CASE k[1] \in {"number", "infinity", "nan"} ->
            strbuf_append_mem(json_append_number(strbuf_append_mem(b, <<Quote>>), k, cfg), <<Quote, 58>>)
      [] k[1] = "string" -> strbuf_append_mem(json_append_string(b, k[2], cfg), <<58>>)
      [] OTHER -> Raised(b)

json_append_object(b, list, i, cfg, depth, order) ==
    IF b.raised THEN b
    ELSE IF i > Len(list) THEN strbuf_append_mem(b, <<125>>)
    ELSE json_append_object(json_append_data(ObjectKey(Comma(b, i), list[i][1], cfg), list[i][2], cfg, depth, order),
                            list, i + 1, cfg, depth, order)

AsArray(b, pairs, len, cfg, depth, order) ==
    json_append_array(strbuf_append_mem(b, <<91>>), pairs, 1, len, cfg, depth, order)

\* What becomes of a table that is not marked as an array.
ByLength(b, v, len, cfg, depth, order) ==
    CASE len = -2 -> Raised(b)
      [] len > 0 \/ (len = 0 /\ ~cfg.empty_as_object) -> AsArray(b, v[2], len, cfg, depth, order)
      [] len <= 0 /\ len # -2 /\ ~(len = 0 /\ ~cfg.empty_as_object) ->
            IF v[3] = "empty_array_mt" THEN AsArray(b, v[2], 0, cfg, depth, order)
            ELSE json_append_object(strbuf_append_mem(b, <<123>>), InOrder(v[2], order), 1, cfg, depth, order)

\* lua_rawlen of a table whose indices have no gaps.
Border(pairs) == Cardinality({k \in Keys(pairs) : IndexOf(k) > 0})

json_append_table(b, v, cfg, depth, order) ==
    IF depth > JsonDepth THEN Raised(b)
    ELSE IF v[3] = "array_mt" THEN AsArray(b, v[2], Border(v[2]), cfg, depth, order)
    ELSE ByLength(b, v, lua_array_length(v[2], cfg), cfg, depth, order)

json_append_data(b, v, cfg, depth, order) ==
    IF b.raised THEN b
    ELSE CASE v[1] = "string" -> json_append_string(b, v[2], cfg)
           [] v[1] \in {"number", "infinity", "nan"} -> json_append_number(b, v, cfg)
           [] v[1] = "boolean" -> strbuf_append_mem(b, IF v[2] THEN Text_true ELSE Text_false)
           [] v[1] = "table" -> json_append_table(b, v, cfg, depth + 1, order)
           [] v[1] = "nil" \/ v = JNull -> strbuf_append_mem(b, Text_null)
           [] v = <<"lightuserdata", "json_array">> -> AsArray(b, {}, 0, cfg, depth, order)
           [] v = <<"lightuserdata", "other">> -> b
           [] v[1] = "function" -> Raised(b)

\* `size' is what earlier calls left of the buffer that is kept.
json_encode(v, cfg, size, order) ==
    json_append_data([strbuf_new(0) EXCEPT !.size = size], v, cfg, 0, order)

-----------------------------------------------------------------------------
(* Decoding.  A token is its type, where the next one begins, and a value. *)

JToken(type, next, value) == [type |-> type, next |-> next, value |-> value]
JError(next) == JToken("T_ERROR", next, JNull)

Hex4(d) == IF \E k \in 1..4 : d[k] < 0 THEN -1 ELSE d[1] * 4096 + d[2] * 256 + d[3] * 16 + d[4]
decode_hex4(text, i) == Hex4([k \in 1..4 |-> Unhex(ByteAt(text, i + k - 1))])

codepoint_to_utf8(c) ==
    IF c <= 127 THEN <<c>>
    ELSE IF c <= 2047 THEN <<192 + c \div 64, 128 + (c % 64)>>
    ELSE IF c <= 65535 THEN <<224 + c \div 4096, 128 + ((c \div 64) % 64), 128 + (c % 64)>>
    ELSE <<240 + c \div 262144, 128 + ((c \div 4096) % 64), 128 + ((c \div 64) % 64), 128 + (c % 64)>>

IsHigh(unit) == unit \in 55296..56319
IsLow(unit) == unit \in 56320..57343

\* Slip: anything passes for the second half of a pair.
WithLow_Slip(high, low) == (high - 55296) * 1024 + (low - 56320) + 65536

\* The second half of a pair: the code point, or -1.
WithLow(high, low) == IF IsLow(low) THEN (high - 55296) * 1024 + (low - 56320) + 65536 ELSE -1

EscapedPoint(text, i, unit) ==
    IF ~IsHigh(unit) THEN <<6, IF IsLow(unit) THEN -1 ELSE unit>>
    ELSE IF ByteAt(text, i + 6) = Backslash /\ ByteAt(text, i + 7) = Letter_u
    THEN <<12, WithLow(unit, decode_hex4(text, i + 8))>>
    ELSE <<12, -1>>

\* How many bytes of the text the escape at i takes, and its code point or -1.
json_append_unicode_escape(text, i) == EscapedPoint(text, i, decode_hex4(text, i + 2))

\* escape2char; 0 is an error.
EscapedChar(c) ==
    CASE c \in {Quote, Backslash, Slash, Letter_u} -> c
      [] c = 98 -> 8
      [] c = 116 -> 9
      [] c = 110 -> 10
      [] c = 102 -> 12
      [] c = 114 -> 13
      [] OTHER -> 0

\* json->tmp has room for as many bytes as the whole text, and a zero behind them.
RECURSIVE StringFrom(_, _, _)

AfterEscape(text, i, escape, out) ==
    IF escape[2] < 0 THEN JError(i)
    ELSE StringFrom(text, i + escape[1], out \o codepoint_to_utf8(escape[2]))

Unescaped(text, i, c, out) ==
    CASE c = Letter_u -> AfterEscape(text, i, json_append_unicode_escape(text, i), out)
      [] c = 0 -> JError(i)
      [] OTHER -> StringFrom(text, i + 2, Append(out, c))

StringFrom(text, i, out) ==
    CASE Len(out) > Len(text) -> JToken("overrun", i, JNull)
      [] Len(out) <= Len(text) /\ ByteAt(text, i) = Quote -> JToken("T_STRING", i + 1, <<"string", out>>)
      [] Len(out) <= Len(text) /\ ByteAt(text, i) = 0 -> JError(i)
      [] Len(out) <= Len(text) /\ ByteAt(text, i) = Backslash ->
            Unescaped(text, i, EscapedChar(ByteAt(text, i + 1)), out)
      [] OTHER -> StringFrom(text, i + 1, Append(out, text[i]))

json_next_string_token(text, i) == StringFrom(text, i + 1, <<>>)

InvalidFrom(text, p) ==
    IF ByteAt(text, p) = 48
    THEN Lower(ByteAt(text, p + 1)) = 120 \/ ByteAt(text, p + 1) \in Digit
    ELSE ByteAt(text, p) > 57 /\ (StartsNoCase(text, p, Text_inf) \/ StartsNoCase(text, p, Text_nan))

json_is_invalid_number(text, i) ==
    \/ ByteAt(text, i) = Plus
    \/ InvalidFrom(text, IF ByteAt(text, i) = Minus THEN i + 1 ELSE i)

NumberToken(i, parsed) ==
    IF parsed[1] = i THEN JError(i) ELSE JToken("T_NUMBER", parsed[1], parsed[2])
json_next_number_token(text, i) == NumberToken(i, fpconv_strtod(text, i))

White == {32, 9, 10, 13}
Single == (123 :> "T_OBJ_BEGIN") @@ (125 :> "T_OBJ_END") @@ (91 :> "T_ARR_BEGIN") @@ (93 :> "T_ARR_END")
            @@ (44 :> "T_COMMA") @@ (58 :> "T_COLON")
Further == Digit \union {102, 105, 73, 110, 78, 116, Quote, Plus, Minus}

TokenAt(text, i, c, cfg) ==
    CASE c = 0 -> JToken("T_END", i, JNull)
      [] c \in DOMAIN Single -> JToken(Single[c], i + 1, JNull)
      [] c = Quote -> json_next_string_token(text, i)
      [] c = Minus \/ c \in Digit ->
            IF ~cfg.invalid_in /\ json_is_invalid_number(text, i) THEN JError(i)
            ELSE json_next_number_token(text, i)
      [] c \in Further \ (Digit \union {Quote, Minus}) ->
            IF Starts_(text, i, Text_true) THEN JToken("T_BOOLEAN", i + 4, <<"boolean", TRUE>>)
            ELSE IF Starts_(text, i, Text_false) THEN JToken("T_BOOLEAN", i + 5, <<"boolean", FALSE>>)
            ELSE IF Starts_(text, i, Text_null) THEN JToken("T_NULL", i + 4, JNull)
            ELSE IF cfg.invalid_in /\ json_is_invalid_number(text, i) THEN json_next_number_token(text, i)
            ELSE JError(i)
      [] OTHER -> JError(i)

TokenFrom(text, i, cfg) == TokenAt(text, i, ByteAt(text, i), cfg)
json_next_token(text, i, cfg) == TokenFrom(text, EndOf(text, i, White), cfg)

\* What is wrong with a token is said by its type alone.
Unexpected(token) == JToken(IF token.type = "overrun" THEN "overrun" ELSE "T_ERROR", token.next, JNull)
JValue(next, value) == JToken("value", next, value)

RECURSIVE json_process_value(_, _, _, _), json_parse_array_context(_, _, _, _, _),
          json_parse_object_context(_, _, _, _, _)

Indexed(items) == {<<Normal(i, 0), items[i]>> : i \in DOMAIN items}
NewArray(items, cfg) == JTable(Indexed(items), IF cfg.array_mt THEN "array_mt" ELSE "none")

ArrayGoesOn(text, items, token, cfg, depth) ==
    CASE token.type = "T_ARR_END" -> JValue(token.next, NewArray(items, cfg))
      [] token.type = "T_COMMA" ->
            json_parse_array_context(text, items, json_next_token(text, token.next, cfg), cfg, depth)
      [] OTHER -> Unexpected(token)

ItemRead(text, items, value, cfg, depth) ==
    IF value.type # "value" THEN value
    ELSE ArrayGoesOn(text, Append(items, value.value), json_next_token(text, value.next, cfg), cfg, depth)

\* From an item on, of which `token' is the first token.
json_parse_array_context(text, items, token, cfg, depth) ==
    ItemRead(text, items, json_process_value(text, token, cfg, depth), cfg, depth)

ArrayBegins(text, token, cfg, depth) ==
    CASE depth > JsonDepth -> JError(token.next)
      [] depth <= JsonDepth /\ token.type = "T_ARR_END" -> JValue(token.next, NewArray(<<>>, cfg))
      [] OTHER -> json_parse_array_context(text, <<>>, token, cfg, depth)

\* lua_rawset: the last value of a key counts.
SetField(pairs, k, v) == {p \in pairs : p[1] # k} \union {<<k, v>>}

ObjectGoesOn(text, pairs, token, cfg, depth) ==
    CASE token.type = "T_OBJ_END" -> JValue(token.next, JTable(pairs, "none"))
      [] token.type = "T_COMMA" ->
            json_parse_object_context(text, pairs, json_next_token(text, token.next, cfg), cfg, depth)
      [] OTHER -> Unexpected(token)

FieldRead(text, pairs, k, value, cfg, depth) ==
    IF value.type # "value" THEN value
    ELSE ObjectGoesOn(text, SetField(pairs, k, value.value), json_next_token(text, value.next, cfg), cfg, depth)

ColonRead(text, pairs, k, token, cfg, depth) ==
    IF token.type # "T_COLON" THEN Unexpected(token)
    ELSE FieldRead(text, pairs, k,
                   json_process_value(text, json_next_token(text, token.next, cfg), cfg, depth), cfg, depth)

\* From a field on, of which `token' is the key.
json_parse_object_context(text, pairs, token, cfg, depth) ==
    IF token.type # "T_STRING" THEN Unexpected(token)
    ELSE ColonRead(text, pairs, token.value, json_next_token(text, token.next, cfg), cfg, depth)

ObjectBegins(text, token, cfg, depth) ==
    CASE depth > JsonDepth -> JError(token.next)
      [] depth <= JsonDepth /\ token.type = "T_OBJ_END" -> JValue(token.next, JTable({}, "none"))
      [] OTHER -> json_parse_object_context(text, {}, token, cfg, depth)

json_process_value(text, token, cfg, depth) ==
    CASE token.type \in {"T_STRING", "T_NUMBER", "T_BOOLEAN", "T_NULL"} -> JValue(token.next, token.value)
      [] token.type = "T_ARR_BEGIN" ->
            ArrayBegins(text, json_next_token(text, token.next, cfg), cfg, depth + 1)
      [] token.type = "T_OBJ_BEGIN" ->
            ObjectBegins(text, json_next_token(text, token.next, cfg), cfg, depth + 1)
      [] OTHER -> Unexpected(token)

AtTheEnd(value, token) == IF token.type = "T_END" THEN value ELSE Unexpected(token)
OnlyOne(text, value, cfg) ==
    IF value.type # "value" THEN value ELSE AtTheEnd(value, json_next_token(text, value.next, cfg))

\* A token of type "value" with what the text means, or one that is an error.
json_decode(text, cfg) ==
    IF Len(text) >= 2 /\ 0 \in {text[1], text[2]} THEN JError(1)
    ELSE OnlyOne(text, json_process_value(text, json_next_token(text, 1, cfg), cfg, 0), cfg)
=============================================================================
