------------------------------ MODULE LuaPack ------------------------------
(***************************************************************************)
(* lpack.c: the arguments of process.send and process.call as the bytes of *)
(* one message, and back.  A value is a tuple of its type and its data; a  *)
(* table is the set of its pairs of key and value, written in some order.  *)
(* A float is known by a number, of which it has the bytes.  Light user    *)
(* data, which are copied like floats, are left out.                       *)
(*                                                                         *)
(* The widths of the format are constants, since their edges are what may  *)
(* go wrong: a byte has Base values, four of which make the 32 bits of the *)
(* code and eight its 64.                                                  *)
(***************************************************************************)
EXTENDS Integers, Sequences, FiniteSets, SequencesExt

CONSTANTS
    Base,           \* values of a byte: 256
    MAX_COOKIE,     \* 32
    MAX_DEPTH,      \* 32
    BLOCK_SIZE      \* 128

Nil == <<"nil">>

\* Numbers as n bytes, least first, in two's complement; and back.
Bytes(v, n) == [i \in 1..n |-> (v \div Base ^ (i - 1)) % Base]
RECURSIVE Unsigned(_)
Unsigned(s) == IF s = <<>> THEN 0 ELSE Head(s) + Base * Unsigned(Tail(s))
Signed(s) == LET u == Unsigned(s) IN
             IF u >= Base ^ Len(s) \div 2 THEN u - Base ^ Len(s) ELSE u

TYPE_NIL == 0
TYPE_BOOLEAN == 1
TYPE_NUMBER == 2
TYPE_SHORT_STRING == 4
TYPE_LONG_STRING == 5
TYPE_TABLE == 6
COMBINE_TYPE(t, v) == t + 8 * v
BYTE == 1       \* cookies of a number
WORD == 2
DWORD == 4
QWORD == 6
REAL == 8

-----------------------------------------------------------------------------
(* Writing: a value is a sequence of writes to the blocks.                 *)

wb_integer(v) ==
    LET As(cookie, n) == <<<<COMBINE_TYPE(TYPE_NUMBER, cookie)>>, Bytes(v, n)>> IN
    CASE v = 0 -> <<<<COMBINE_TYPE(TYPE_NUMBER, 0)>>>>
      [] v \notin (-(Base ^ 4 \div 2))..(Base ^ 4 \div 2 - 1) -> As(QWORD, 8)
      [] v \in (-(Base ^ 4 \div 2))..(-1) -> As(DWORD, 4)
      [] v \in 1..(Base - 1) -> As(BYTE, 1)
      [] v \in Base..(Base ^ 2 - 1) -> As(WORD, 2)
      [] OTHER -> As(DWORD, 4)

\* Slip: the longest string of a byte's cookie.
wb_string_Slip(s) ==
    CASE Len(s) <= MAX_COOKIE -> <<<<COMBINE_TYPE(TYPE_SHORT_STRING, Len(s) % MAX_COOKIE)>>, s>>
      [] Len(s) \in (MAX_COOKIE + 1)..(Base ^ 2 - 1) ->
            <<<<COMBINE_TYPE(TYPE_LONG_STRING, 2)>>, Bytes(Len(s), 2), s>>
      [] OTHER -> <<<<COMBINE_TYPE(TYPE_LONG_STRING, 4)>>, Bytes(Len(s), 4), s>>

wb_string(s) ==
    CASE Len(s) = 0 -> <<<<COMBINE_TYPE(TYPE_SHORT_STRING, 0)>>>>
      [] Len(s) \in 1..(MAX_COOKIE - 1) -> <<<<COMBINE_TYPE(TYPE_SHORT_STRING, Len(s))>>, s>>
      [] Len(s) \in MAX_COOKIE..(Base ^ 2 - 1) ->
            <<<<COMBINE_TYPE(TYPE_LONG_STRING, 2)>>, Bytes(Len(s), 2), s>>
      [] OTHER -> <<<<COMBINE_TYPE(TYPE_LONG_STRING, 4)>>, Bytes(Len(s), 4), s>>

\* What lua_rawlen says of a table: an n that is a key or 0, with n + 1 no key.
Keys(pairs) == {p[1] : p \in pairs}
RawLen(pairs) ==
    CHOOSE n \in 0..Cardinality(pairs) :
        /\ \A i \in 1..n : <<"integer", i>> \in Keys(pairs)
        /\ <<"integer", n + 1>> \notin Keys(pairs)
At(pairs, k) == (CHOOSE p \in pairs : p[1] = k)[2]

RECURSIVE pack_one(_)

\* The elements of the array, then the pairs of the rest, then nil.
wb_table(pairs) ==
    LET n == RawLen(pairs)
        rest == SetToSeq({p \in pairs : \A i \in 1..n : p[1] # <<"integer", i>>})
        head == IF n >= MAX_COOKIE - 1
                THEN <<<<COMBINE_TYPE(TYPE_TABLE, MAX_COOKIE - 1)>>>> \o wb_integer(n)
                ELSE <<<<COMBINE_TYPE(TYPE_TABLE, n)>>>> IN
    head
      \o FlattenSeq([i \in 1..n |-> pack_one(At(pairs, <<"integer", i>>))])
      \o FlattenSeq([i \in DOMAIN rest |-> pack_one(rest[i][1]) \o pack_one(rest[i][2])])
      \o pack_one(Nil)

pack_one(v) ==
    CASE v[1] = "nil" -> <<<<TYPE_NIL>>>>
      [] v[1] = "boolean" -> <<<<COMBINE_TYPE(TYPE_BOOLEAN, IF v[2] THEN 1 ELSE 0)>>>>
      [] v[1] = "integer" -> wb_integer(v[2])
      [] v[1] = "float" -> <<<<COMBINE_TYPE(TYPE_NUMBER, REAL)>>, Bytes(v[2], 8)>>
      [] v[1] = "string" -> wb_string(v[2])
      [] v[1] = "table" -> wb_table(v[2])

\* pack_one raises on a table too deep, and on a value that is no data.
RECURSIVE Packable(_, _)
Packable(v, depth) ==
    /\ depth <= MAX_DEPTH
    /\ v[1] # "function"
    /\ v[1] = "table" => \A p \in v[2] : Packable(p[1], depth + 1) /\ Packable(p[2], depth + 1)

\* wb_push: a write goes over as many blocks as it takes; a full block stays the
\* current one until there is something to write.
RECURSIVE wb_push(_, _)
wb_push(blocks, s) ==
    LET cur == Last(blocks)
        room == BLOCK_SIZE - Len(cur) IN
    CASE room = 0 -> wb_push(Append(blocks, <<>>), s)
      [] room # 0 /\ Len(s) <= room -> Front(blocks) \o <<cur \o s>>
      [] OTHER -> wb_push(Front(blocks) \o <<cur \o SubSeq(s, 1, room), <<>>>>,
                          SubSeq(s, room + 1, Len(s)))

\* seristring: the length of all is written over the first four bytes, and the
\* blocks are copied behind one another.
HeaderSize == 4
seristring(values) ==
    LET writes == <<Bytes(0, HeaderSize)>> \o FlattenSeq([i \in DOMAIN values |-> pack_one(values[i])])
        all == FlattenSeq(FoldLeft(wb_push, <<<<>>>>, writes)) IN
    Bytes(Len(all), HeaderSize) \o SubSeq(all, HeaderSize + 1, Len(all))

-----------------------------------------------------------------------------
(* Reading: a result is a value and the place after it, which is 0 if the  *)
(* stream was invalid.                                                     *)

Invalid == [next |-> 0, v |-> Nil]

rb_read(buf, at, n) ==
    IF Len(buf) - at + 1 < n THEN Invalid ELSE [next |-> at + n, v |-> SubSeq(buf, at, at + n - 1)]

get_integer(buf, at, cookie) ==
    LET n == CASE cookie \in {BYTE, WORD} -> cookie [] cookie = DWORD -> 4 [] OTHER -> 8
        r == rb_read(buf, at, n) IN
    CASE cookie = 0 -> [next |-> at, v |-> 0]
      [] cookie \in {BYTE, WORD} /\ r.next # 0 -> [r EXCEPT !.v = Unsigned(@)]
      [] cookie \in {DWORD, QWORD} /\ r.next # 0 -> [r EXCEPT !.v = Signed(@)]
      [] OTHER -> Invalid

Tagged(tag, r) == IF r.next = 0 THEN r ELSE [r EXCEPT !.v = <<tag, @>>]

get_string(buf, at, cookie) ==
    LET len == rb_read(buf, at, cookie) IN
    IF cookie \notin {2, 4} \/ len.next = 0 THEN Invalid
    ELSE rb_read(buf, len.next, Unsigned(len.v))

RECURSIVE unpack_one(_, _), Elements(_, _, _), Pairs(_, _)

\* n values in a row
Elements(buf, at, n) ==
    IF n = 0 THEN [next |-> at, v |-> <<>>]
    ELSE LET e == unpack_one(buf, at)
             r == Elements(buf, e.next, n - 1) IN
         IF e.next = 0 \/ r.next = 0 THEN Invalid ELSE [r EXCEPT !.v = <<e.v>> \o @]

\* keys and values up to a key of nil
Pairs(buf, at) ==
    LET k == unpack_one(buf, at) IN
    IF k.next = 0 \/ k.v = Nil THEN [k EXCEPT !.v = {}]
    ELSE LET v == unpack_one(buf, k.next)
             r == Pairs(buf, v.next) IN
         IF v.next = 0 \/ r.next = 0 THEN Invalid ELSE [r EXCEPT !.v = @ \union {<<k.v, v.v>>}]

unpack_table(buf, at, cookie) ==
    LET t == rb_read(buf, at, 1)
        long == IF t.next = 0 \/ t.v[1] % 8 # TYPE_NUMBER THEN Invalid
                ELSE get_integer(buf, t.next, t.v[1] \div 8)
        size == IF cookie = MAX_COOKIE - 1 THEN long ELSE [next |-> at, v |-> cookie]
        array == Elements(buf, size.next, size.v)
        hash == Pairs(buf, array.next) IN
    IF size.next = 0 \/ array.next = 0 \/ hash.next = 0 THEN Invalid
    ELSE [hash EXCEPT !.v = @ \union {<<<<"integer", i>>, array.v[i]>> :
                                        i \in {j \in 1..size.v : array.v[j] # Nil}}]

unpack_one(buf, at) ==
    LET type == rb_read(buf, at, 1)
        t == type.v[1] % 8
        cookie == type.v[1] \div 8 IN
    IF at = 0 \/ type.next = 0 THEN Invalid
    ELSE CASE t = TYPE_NIL -> [type EXCEPT !.v = Nil]
           [] t = TYPE_BOOLEAN -> [type EXCEPT !.v = <<"boolean", cookie # 0>>]
           [] t = TYPE_NUMBER /\ cookie = REAL -> Tagged("float", get_integer(buf, type.next, QWORD))
           [] t = TYPE_NUMBER /\ cookie # REAL -> Tagged("integer", get_integer(buf, type.next, cookie))
           [] t = TYPE_SHORT_STRING -> Tagged("string", rb_read(buf, type.next, cookie))
           [] t = TYPE_LONG_STRING -> Tagged("string", get_string(buf, type.next, cookie))
           [] t = TYPE_TABLE -> Tagged("table", unpack_table(buf, type.next, cookie))
           [] OTHER -> Invalid

\* deseristring: all values of the length that the message begins with; <<>> stands
\* for the error as well as for none.
RECURSIVE Values(_, _)
Values(buf, at) ==
    IF at > Len(buf) THEN <<>>
    ELSE LET r == unpack_one(buf, at) IN
         IF r.next = 0 THEN <<"invalid">> ELSE <<r.v>> \o Values(buf, r.next)
deseristring(s) == Values(SubSeq(s, 1, Unsigned(SubSeq(s, 1, HeaderSize))), HeaderSize + 1)

-----------------------------------------------------------------------------
\* What one process packs the other unpacks (process/channel.lua:77), at the edges
\* of the widths, of the cookies, and wherever the blocks of 128 bytes divide it.
PackedIsUnpacked(values) ==
    (\A i \in DOMAIN values : Packable(values[i], 0)) => deseristring(seristring(values)) = values
=============================================================================
