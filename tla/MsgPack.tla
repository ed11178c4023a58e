------------------------------ MODULE MsgPack ------------------------------
(***************************************************************************)
(* lmsgpack.c: pack, unpack, unpack_one and unpack_limit of MessagePack,   *)
(* on the values and in the number format of LuaPack.  First bytes are     *)
(* those of the code; the widths are constants again.                      *)
(***************************************************************************)
EXTENDS LuaPack

CONSTANTS
    FixInt,         \* the largest number in the first byte: 127
    FixNeg,         \* the smallest, negated: 32
    FixStr,         \* the longest string of which the first byte holds the length: 31
    FixLen,         \* the same for arrays and maps: 15
    MAX_NESTING,    \* 16
    Whole,          \* floats that are whole numbers: the one they are known by
    Short           \* others for which four bytes are enough

\* The most significant byte comes first.
BigEnd(v, n) == Reverse(Bytes(v, n))
Natural(s) == Unsigned(Reverse(s))
Integer(s) == Signed(Reverse(s))

-----------------------------------------------------------------------------
mp_encode_bytes(s) ==
    LET n == Len(s) IN
    CASE n <= FixStr -> <<160 + n>> \o s
      [] n \in (FixStr + 1)..(Base - 1) -> <<217>> \o BigEnd(n, 1) \o s
      [] n \in Base..(Base ^ 2 - 1) -> <<218>> \o BigEnd(n, 2) \o s
      [] OTHER -> <<219>> \o BigEnd(n, 4) \o s

mp_encode_int(n) ==
    LET From(w) == -(Base ^ w \div 2) IN
    CASE n \in 0..FixInt -> <<n>>
      [] n \in (FixInt + 1)..(Base - 1) -> <<204>> \o BigEnd(n, 1)
      [] n \in Base..(Base ^ 2 - 1) -> <<205>> \o BigEnd(n, 2)
      [] n \in (Base ^ 2)..(Base ^ 4 - 1) -> <<206>> \o BigEnd(n, 4)
      [] n >= Base ^ 4 -> <<207>> \o BigEnd(n, 8)
      [] n \in (-FixNeg)..(-1) -> <<256 + n>>
      [] n \in From(1)..(-FixNeg - 1) -> <<208>> \o BigEnd(n, 1)
      [] n \in From(2)..(From(1) - 1) -> <<209>> \o BigEnd(n, 2)
      [] n \in From(4)..(From(2) - 1) -> <<210>> \o BigEnd(n, 4)
      [] n < From(4) -> <<211>> \o BigEnd(n, 8)

\* mp_encode_array and mp_encode_map: the head of n elements or pairs.
HeadOf(n, fix, wide) ==
    CASE n <= FixLen -> <<fix + n>>
      [] n \in (FixLen + 1)..(Base ^ 2 - 1) -> <<wide>> \o BigEnd(n, 2)
      [] OTHER -> <<wide + 1>> \o BigEnd(n, 4)

\* A float without a fraction goes as an integer.
mp_encode_lua_number(x) ==
    CASE x \in Whole -> mp_encode_int(x)
      [] x \in Short -> <<202>> \o BigEnd(x, 4)
      [] OTHER -> <<203>> \o BigEnd(x, 8)

\* All keys are positive integers, and the largest is the number of keys.
table_is_an_array(pairs) ==
    /\ \A k \in Keys(pairs) : k[1] = "integer" /\ k[2] > 0
    /\ \A k \in Keys(pairs) : k[2] <= Cardinality(pairs)

RECURSIVE mp_encode(_, _)
mp_encode_table(pairs, level) ==
    LET n == Cardinality(pairs)
        order == SetToSeq(pairs) IN
    IF table_is_an_array(pairs)
    THEN HeadOf(n, 144, 220)
           \o FlattenSeq([i \in 1..n |-> mp_encode(At(pairs, <<"integer", i>>), level + 1)])
    ELSE HeadOf(n, 128, 222)
           \o FlattenSeq([i \in 1..n |-> mp_encode(order[i][1], level + 1)
                                           \o mp_encode(order[i][2], level + 1)])

\* mp_encode_lua_type: a table too deep is nil, and so is what is no data.
mp_encode(v, level) ==
    CASE v[1] = "string" -> mp_encode_bytes(v[2])
      [] v[1] = "boolean" -> <<IF v[2] THEN 195 ELSE 194>>
      [] v[1] = "integer" -> mp_encode_int(v[2])
      [] v[1] = "float" -> mp_encode_lua_number(v[2])
      [] v[1] = "table" /\ level # MAX_NESTING -> mp_encode_table(v[2], level)
      [] OTHER -> <<192>>

mp_pack(values) == FlattenSeq([i \in DOMAIN values |-> mp_encode(values[i], 0)])

-----------------------------------------------------------------------------
\* A string of the length that n bytes give; a number of n bytes.
Raw(buf, at, n) ==
    LET len == rb_read(buf, at, n) IN
    IF len.next = 0 THEN Invalid ELSE Tagged("string", rb_read(buf, len.next, Natural(len.v)))
Number(buf, at, n, tag, signed) ==
    LET r == rb_read(buf, at, n) IN
    IF r.next = 0 THEN Invalid
    ELSE [r EXCEPT !.v = <<tag, IF signed THEN Integer(@) ELSE Natural(@)>>]

RECURSIVE mp_decode(_, _), Sequence(_, _, _)
Sequence(buf, at, n) ==
    IF n = 0 THEN [next |-> at, v |-> <<>>]
    ELSE LET e == mp_decode(buf, at)
             r == Sequence(buf, e.next, n - 1) IN
         IF e.next = 0 \/ r.next = 0 THEN Invalid ELSE [r EXCEPT !.v = <<e.v>> \o @]

\* Elements and pairs whose value is nil are not in the table; lua_settable raises
\* on a key that is nil.
mp_decode_to_lua_array(buf, at, n) ==
    LET r == Sequence(buf, at, n) IN
    IF r.next = 0 THEN Invalid
    ELSE [r EXCEPT !.v = <<"table", {<<<<"integer", i>>, r.v[i]>> : i \in {j \in 1..n : r.v[j] # Nil}}>>]
mp_decode_to_lua_hash(buf, at, n) ==
    LET r == Sequence(buf, at, 2 * n) IN
    IF r.next = 0 \/ \E i \in 1..n : r.v[2 * i - 1] = Nil THEN Invalid
    ELSE [r EXCEPT !.v = <<"table", {<<r.v[2 * i - 1], r.v[2 * i]>> :
                                       i \in {j \in 1..n : r.v[2 * j] # Nil}}>>]

\* An array or a map of which n bytes give the length.
Sized(buf, at, n, array) ==
    LET len == rb_read(buf, at, n) IN
    IF len.next = 0 THEN Invalid
    ELSE IF array THEN mp_decode_to_lua_array(buf, len.next, Natural(len.v))
    ELSE mp_decode_to_lua_hash(buf, len.next, Natural(len.v))

\* mp_decode_to_lua_type
mp_decode(buf, at) ==
    LET b == buf[at]
        is(v) == [next |-> at + 1, v |-> v] IN
    CASE at > Len(buf) -> Invalid
      [] at <= Len(buf) /\ b < 128 -> is(<<"integer", b>>)
      [] at <= Len(buf) /\ b \in 128..143 -> mp_decode_to_lua_hash(buf, at + 1, b % 16)
      [] at <= Len(buf) /\ b \in 144..159 -> mp_decode_to_lua_array(buf, at + 1, b % 16)
      [] at <= Len(buf) /\ b \in 160..191 -> Tagged("string", rb_read(buf, at + 1, b % 32))
      [] at <= Len(buf) /\ b = 192 -> is(Nil)
      [] at <= Len(buf) /\ b \in {194, 195} -> is(<<"boolean", b = 195>>)
      [] at <= Len(buf) /\ b = 202 -> Number(buf, at + 1, 4, "float", TRUE)
      [] at <= Len(buf) /\ b = 203 -> Number(buf, at + 1, 8, "float", TRUE)
      [] at <= Len(buf) /\ b \in 204..207 -> Number(buf, at + 1, 2 ^ (b - 204), "integer", FALSE)
      [] at <= Len(buf) /\ b \in 208..211 -> Number(buf, at + 1, 2 ^ (b - 208), "integer", TRUE)
      [] at <= Len(buf) /\ b \in 217..219 -> Raw(buf, at + 1, 2 ^ (b - 217))
      [] at <= Len(buf) /\ b \in 220..221 -> Sized(buf, at + 1, 2 ^ (b - 219), TRUE)
      [] at <= Len(buf) /\ b \in 222..223 -> Sized(buf, at + 1, 2 ^ (b - 221), FALSE)
      [] at <= Len(buf) /\ b \in 224..255 -> is(<<"integer", b - 256>>)
      [] OTHER -> Invalid

\* mp_unpack_full: up to `limit' values from `offset' on, and where to go on, which is
\* -1 at the end; both 0 asks for all.
RECURSIVE Decoded(_, _, _)
Decoded(buf, at, limit) ==
    IF at > Len(buf) \/ limit = 0 THEN [next |-> at, v |-> <<>>]
    ELSE LET e == mp_decode(buf, at)
             r == Decoded(buf, e.next, limit - 1) IN
         IF e.next = 0 \/ r.next = 0 THEN Invalid ELSE [r EXCEPT !.v = <<e.v>> \o @]

mp_unpack_full(buf, limit, offset) ==
    LET all == limit = 0 /\ offset = 0
        r == Decoded(buf, offset + 1, IF all THEN Len(buf) ELSE limit) IN
    IF offset < 0 \/ offset > Len(buf) \/ r.next = 0 THEN [ok |-> FALSE, offset |-> 0, values |-> <<>>]
    ELSE [ok |-> TRUE, offset |-> IF r.next > Len(buf) THEN -1 ELSE r.next - 1, values |-> r.v]

mp_unpack(buf) == mp_unpack_full(buf, 0, 0)
mp_unpack_one(buf, offset) == mp_unpack_full(buf, 1, offset)

-----------------------------------------------------------------------------
\* What is left of a value: no functions, no table below MAX_NESTING others, no
\* float that is a whole number.
RECURSIVE Kept(_, _)
Kept(v, level) ==
    CASE v[1] = "function" \/ (v[1] = "table" /\ level = MAX_NESTING) -> Nil
      [] v[1] = "float" /\ v[2] \in Whole -> <<"integer", v[2]>>
      [] v[1] = "table" /\ level # MAX_NESTING ->
            <<"table", {<<Kept(p[1], level + 1), Kept(p[2], level + 1)>> :
                          p \in {q \in v[2] : Kept(q[2], level + 1) # Nil}}>>
      [] OTHER -> v

\* Is there a map with a key of which nothing is left?
RECURSIVE LosesKey(_, _)
LosesKey(v, level) ==
    /\ v[1] = "table" /\ level # MAX_NESTING
    /\ \E p \in v[2] : Kept(p[1], level + 1) = Nil
                         \/ LosesKey(p[1], level + 1) \/ LosesKey(p[2], level + 1)

\* unpack_one over and over, from each offset it returns.
RECURSIVE OneByOne(_, _)
OneByOne(buf, offset) ==
    LET r == mp_unpack_one(buf, offset) IN
    IF r.offset = -1 THEN r.values ELSE r.values \o OneByOne(buf, r.offset)

\* What is packed is unpacked, but for what MessagePack has no room for; unpacking
\* value by value gives the same (lmsgpack.c:797-851).  A map with a key that was
\* packed as nil cannot be unpacked: the exception.
MessagesAreUnpacked(values) ==
    \A packed \in {mp_pack(values)} : \A r \in {mp_unpack(packed)} :
        IF \E i \in DOMAIN values : LosesKey(values[i], 0)
        THEN ~r.ok
        ELSE /\ r.ok /\ r.values = [i \in DOMAIN values |-> Kept(values[i], 0)]
             /\ OneByOne(packed, 0) = r.values
=============================================================================
