------------------------------ MODULE PbMessage ------------------------------
(***************************************************************************)
(* lpb.c: pb.encode and pb.decode, between values of Lua and messages of a *)
(* type that was loaded; and what goes without a type: pb.buffer, whose    *)
(* bytes are packed by the letters of a format, read by pb.slice and       *)
(* written as digits, and pb.conv, the conversions of numbers.             *)
(*                                                                         *)
(* Values of Lua are <<"nil">>, <<"boolean", b>>, <<"int", n>>, a float by *)
(* its bits <<"float", u>>, <<"string", bytes>>, and tables                *)
(* <<"table", fields, t>>, where t is the type whose defaults its          *)
(* metatable has, or None.  A table may be gone through in any order:      *)
(* `order' is one of them.  Left out are type float, defaults of doubles,  *)
(* hooks, and that the tables of defaults are kept once they are made.     *)
(***************************************************************************)
EXTENDS PbSchema, PbSlice

CONSTANT FormatLevels       \* 100

LuaNil == <<"nil">>
Bool(b) == <<"boolean", b>>
LuaString(b) == <<"string", b>>
LuaTable(fields) == <<"table", fields, None>>
EmptyLua == LuaTable(<<>>)

Zero64 == {0, W64 \div 2}       \* the bits of 0.0 and of -0.0

\* pb_wtypebytype
WireType(type) ==
    CASE type \in {Tdouble, Tfixed64, Tsfixed64} -> BIT64
      [] type \in {Tfloat, Tfixed32, Tsfixed32} -> BIT32
      [] type \in {Tstring, Tmessage, Tbytes} -> BYTES
      [] type = Tgroup -> GSTART
      [] OTHER -> VARINT

-----------------------------------------------------------------------------
(* Integers *)

Hash == 35
Minus == 45
Plus == 43
Char_0 == 48
Char_x == 120

Absolute(n) == IF n < 0 THEN -n ELSE n

RECURSIVE DigitsOf(_, _), ValueOf(_, _, _)
DigitsOf(n, base) ==
    IF n = 0 THEN <<>>
    ELSE Append(DigitsOf(n \div base, base), IF n % base < 10 THEN 48 + (n % base) ELSE 55 + (n % base))

\* lpb_pushinteger: as a number, or as a text if it does not fit in 32 bits.
lpb_pushinteger(n, mode) ==
    IF mode = "number" \/ n \in (-(W32 \div 2))..(W32 - 1) THEN <<"int", n>>
    ELSE LuaString(<<Hash>> \o (IF n < 0 THEN <<Minus>> ELSE <<>>)
               \o (IF mode = "hexstring" THEN <<Char_0, Char_x>> \o DigitsOf(Absolute(n), 16)
                   ELSE DigitsOf(Absolute(n), 10)))

lpb_hexchar(c) ==
    CASE c \in 48..57 -> c - 48
      [] c \in 65..70 -> c - 55
      [] c \in 97..102 -> c - 87
      [] OTHER -> -1

ValueOf(s, base, v) ==
    IF s = <<>> THEN v ELSE ValueOf(Tail(s), base, ((v * base) + lpb_hexchar(Head(s))) % W64)

NoInteger == [ok |-> FALSE, u |-> 0]

\* lpb_tointegerx: a number, or a text as lpb_pushinteger makes it.  A digit of a decimal
\* number may be ten.
Largest(base) == IF base = 16 THEN 15 ELSE 10
Digits(s, base, neg) ==
    IF \A i \in DOMAIN s : lpb_hexchar(s[i]) \in 0..Largest(base)
    THEN [ok |-> TRUE, u |-> IF neg THEN (W64 - ValueOf(s, base, 0)) % W64 ELSE ValueOf(s, base, 0)]
    ELSE NoInteger

RECURSIVE NumeralOf(_, _)
NumeralOf(s, neg) ==
    CASE s # <<>> /\ s[1] \in {Hash, Plus, Minus} -> NumeralOf(Tail(s), neg # (s[1] = Minus))
      [] Len(s) >= 2 /\ s[1] = Char_0 /\ s[2] = Char_x -> Digits(SubSeq(s, 3, Len(s)), 16, neg)
      [] OTHER -> Digits(s, 10, neg)

lpb_tointegerx(v) ==
    CASE v[1] = "int" -> [ok |-> TRUE, u |-> v[2] % W64]
      [] v[1] = "string" -> NumeralOf(v[2], FALSE)
      [] OTHER -> NoInteger

-----------------------------------------------------------------------------
(* pb.encode *)

\* What is written: bytes, and whether a proto3 message may do without; or an error.
Written(b, zero) == [ok |-> TRUE, b |-> b, zero |-> zero]
Refused == [ok |-> FALSE, b |-> <<>>, zero |-> FALSE]

IntegerBytes(type, u) ==
    CASE type \in {Tfixed32, Tsfixed32} -> pb_addfixed(u % W32, PbWord)
      [] type \in {Tfixed64, Tsfixed64} -> pb_addfixed(u, 2 * PbWord)
      [] type = Tint32 -> pb_addvarint(pb_expandsig(u % W32))
      [] type = Tuint32 -> pb_addvarint(u % W32)
      [] type = Tsint32 -> pb_addvarint(pb_encode_sint(u % W32, W32))
      [] type = Tsint64 -> pb_addvarint(pb_encode_sint(u, W64))
      [] OTHER -> pb_addvarint(u)

IntegerWritten(type, int) == IF int.ok THEN Written(IntegerBytes(type, int.u), int.u = 0) ELSE Refused

\* lpb_addtype; whatever is not nil or false is true.
lpb_addtype(type, v) ==
    CASE type = Tbool -> IF v \in {LuaNil, Bool(FALSE)} THEN Written(<<0>>, TRUE) ELSE Written(<<1>>, FALSE)
      [] type = Tdouble -> IF v[1] = "float" THEN Written(pb_addfixed(v[2], 2 * PbWord), v[2] \in Zero64)
                           ELSE Refused
      [] type \in {Tstring, Tbytes} -> IF v[1] = "string" THEN Written(pb_addbytes(v[2]), v[2] = <<>>)
                                       ELSE Refused
      [] type \in {Tgroup, Tfloat} -> Refused
      [] OTHER -> IntegerWritten(type, lpb_tointegerx(v))

\* lpbE_enum: a number, or a name of the enum, whose number is written with 32 bits.
lpbE_enum(db, f, v) ==
    LET e == IF v[1] = "string" THEN pb_fname(db, f.type, v[2]) ELSE 0 IN
    CASE v[1] = "int" -> Written(pb_addvarint(v[2] % W64), FALSE)
      [] v[1] = "string" /\ e # 0 -> Written(pb_addvarint(db.fields[e].number % W32), FALSE)
      [] OTHER -> Refused

InOrder(S, order) == IF order = "forward" THEN Listed(S) ELSE Reverse(Listed(S))

\* ElementsOf up to the first one missing.
ElementsOf(v) == 1..(CHOOSE n \in 0..Cardinality(DOMAIN v[2]) :
                     /\ <<"int", n + 1>> \notin DOMAIN v[2]
                     /\ \A i \in 1..n : <<"int", i>> \in DOMAIN v[2])
Element(v, i) == v[2][<<"int", i>>]

\* The parts one after the other, or the error of one of them.
Together(parts) ==
    IF \E i \in DOMAIN parts : ~parts[i].ok THEN Refused
    ELSE Written(FlattenSeq([i \in DOMAIN parts |-> parts[i].b]), FALSE)

Lengthened(w) == IF w.ok THEN Written(pb_addbytes(w.b), FALSE) ELSE Refused
WithTag(number, type, w) == IF w.ok THEN [w EXCEPT !.b = pb_addvarint(pb_pair(number, type)) \o @] ELSE Refused

RECURSIVE lpbE_field(_, _, _, _), lpb_encode(_, _, _, _)

UnlessZero(w, ignorezero) == IF w.ok /\ w.zero /\ ignorezero THEN Written(<<>>, TRUE) ELSE w

\* Slip: whatever may be left out is left out.
lpbE_tagfield_Slip(db, f, v, ignorezero, order) ==
    UnlessZero(WithTag(f.number, WireType(f.type_id), lpbE_field(db, f, v, order)), TRUE)

lpbE_tagfield(db, f, v, ignorezero, order) ==
    UnlessZero(WithTag(f.number, WireType(f.type_id), lpbE_field(db, f, v, order)), ignorezero)

\* lpbE_map: one entry with field 1 and field 2 for each key.
EntryWritten(db, f, kf, vf, k, v, order) ==
    WithTag(f.number, BYTES, Lengthened(Together(<<lpbE_tagfield(db, kf, k, TRUE, order),
                                                  lpbE_tagfield(db, vf, v, TRUE, order)>>)))
EntriesWritten(db, f, v, keys, order) ==
    Together([i \in DOMAIN keys |-> EntryWritten(db, f, db.fields[pb_field(db, f.type, 1)],
                                                 db.fields[pb_field(db, f.type, 2)], keys[i], v[2][keys[i]], order)])
lpbE_map(db, f, v, order) ==
    CASE \E i \in {1, 2} : pb_field(db, f.type, i) = 0 -> Written(<<>>, FALSE)
      [] ~(\E i \in {1, 2} : pb_field(db, f.type, i) = 0) /\ v[1] # "table" -> Refused
      [] OTHER -> EntriesWritten(db, f, v, InOrder(DOMAIN v[2], order), order)

\* lpbE_repeated: all in one, or each with a tag.
lpbE_repeated(db, f, v, order) ==
    CASE v[1] # "table" -> Refused
      [] v[1] = "table" /\ f.packed ->
            WithTag(f.number, BYTES,
                   Lengthened(Together([i \in ElementsOf(v) |-> lpbE_field(db, f, Element(v, i), order)])))
      [] OTHER -> Together([i \in ElementsOf(v) |-> lpbE_tagfield(db, f, Element(v, i), FALSE, order)])

lpbE_field(db, f, v, order) ==
    CASE f.type_id = Tenum -> lpbE_enum(db, f, v)
      [] f.type_id = Tmessage -> IF v[1] = "table" THEN Lengthened(lpb_encode(db, f.type, v, order)) ELSE Refused
      [] OTHER -> lpb_addtype(f.type_id, v)

\* What there is of the fields of the type.
FieldWritten(db, f, v, proto3, order) ==
    CASE f.type # None /\ db.types[f.type].map -> lpbE_map(db, f, v, order)
      [] ~(f.type # None /\ db.types[f.type].map) /\ f.repeated -> lpbE_repeated(db, f, v, order)
      [] OTHER -> IF f.type # None /\ db.types[f.type].dead THEN Written(<<>>, FALSE)
                  ELSE lpbE_tagfield(db, f, v, proto3 /\ f.oneof_idx = 0, order)
FieldsWritten(db, t, v, keys, order) ==
    Together([i \in DOMAIN keys |-> FieldWritten(db, db.fields[pb_fname(db, t, keys[i][2])], v[2][keys[i]],
                                                 db.types[t].proto3, order)])
lpb_encode(db, t, v, order) ==
    FieldsWritten(db, t, v, InOrder({k \in DOMAIN v[2] : k[1] = "string" /\ pb_fname(db, t, k[2]) # 0}, order), order)

-----------------------------------------------------------------------------
(* Defaults *)

Text_true == <<116, 114, 117, 101>>
Text_false == <<102, 97, 108, 115, 101>>

\* lpb_pushdefault: nil for none.  A default that is not a number in the base ten is none.
DefaultEnum(db, f, given, zero, proto3, LS) ==
    LET e == db.fields[IF given # 0 THEN given ELSE zero] IN
    CASE given = 0 /\ ~proto3 -> LuaNil
      [] given = 0 /\ proto3 /\ zero = 0 -> <<"int", 0>>
      [] OTHER -> IF LS.enum_as_value THEN lpb_pushinteger(e.number, LS.int64_mode) ELSE LuaString(e.name)
DefaultInteger(f, int, LS) ==
    IF int.ok /\ f.default # <<>> THEN lpb_pushinteger(AsSigned(int.u, W64), LS.int64_mode) ELSE LuaNil

ZeroOf(type) ==
    CASE type \in {Tstring, Tbytes} -> LuaString(<<>>)
      [] type = Tbool -> Bool(FALSE)
      [] type = Tdouble -> <<"float", 0>>
      [] OTHER -> <<"int", 0>>

DeclaredDefault(f, LS) ==
    CASE f.type_id \in {Tstring, Tbytes} -> LuaString(f.default)
      [] f.type_id = Tbool -> IF f.default = Text_true THEN Bool(TRUE)
                              ELSE IF f.default = Text_false THEN Bool(FALSE) ELSE LuaNil
      [] OTHER -> DefaultInteger(f, lpb_tointegerx(LuaString(f.default)), LS)

lpb_pushdefault(db, f, proto3, LS) ==
    CASE proto3 /\ f.repeated -> EmptyLua
      [] ~(proto3 /\ f.repeated) /\ f.type_id = Tmessage -> LuaNil
      [] ~(proto3 /\ f.repeated) /\ f.type_id = Tenum ->
            DefaultEnum(db, f, pb_fname(db, f.type, f.default), pb_field(db, f.type, 0), proto3, LS)
      [] OTHER -> IF f.default # None THEN DeclaredDefault(f, LS)
                  ELSE IF proto3 THEN ZeroOf(f.type_id) ELSE LuaNil

Set(fields, k, v) == IF v = LuaNil THEN Lacking(fields, k) ELSE With(fields, k, v)

RECURSIVE DefaultsOf(_, _, _, _)
WithDefault(db, f, others, proto3, LS) ==
    Set(DefaultsOf(db, others, proto3, LS), LuaString(db.fields[f].name), lpb_pushdefault(db, db.fields[f], proto3, LS))
DefaultsOf(db, fs, proto3, LS) ==
    IF fs = {} THEN <<>>
    ELSE LET f == CHOOSE f \in fs : TRUE IN WithDefault(db, f, fs \ {f}, proto3, LS)

\* lpb_pushdefaults: the table the metatable of messages refers to.
lpb_pushdefaults(db, t, LS) ==
    DefaultsOf(db, {f \in Range(db.types[t].byNumber) : ~db.fields[f].repeated}, db.types[t].proto3, LS)

\* lpb_pushtypetable: what a message is before anything is read of it.
Mode(proto3, LS) == IF proto3 /\ LS.default_mode = "auto" THEN "copy" ELSE LS.default_mode
Beginning(db, t, mode, LS) ==
    LET given == {f \in Range(db.types[t].byNumber) :
                    IF mode = "copy" THEN db.fields[f].oneof_idx = 0 ELSE db.fields[f].repeated} IN
    IF mode \notin {"copy", "meta"} THEN EmptyLua
    ELSE <<"table", DefaultsOf(db, given, db.types[t].proto3, LS), IF mode = "meta" THEN t ELSE None>>
lpb_pushtypetable(db, t, LS) == Beginning(db, t, Mode(db.types[t].proto3, LS), LS)

\* What Lua finds in a message under a name: defaults are what its metatable gives.
FoundWith(v, defaults, name) ==
    CASE LuaString(name) \in DOMAIN v[2] -> v[2][LuaString(name)]
      [] LuaString(name) \notin DOMAIN v[2] /\ LuaString(name) \in DOMAIN defaults -> defaults[LuaString(name)]
      [] OTHER -> LuaNil
FoundIn(db, v, name, LS) ==
    FoundWith(v, IF v[3] = None THEN <<>> ELSE lpb_pushdefaults(db, v[3], LS), name)

-----------------------------------------------------------------------------
(* pb.decode.  A reader of which n is 0 raised an error. *)

IntegerRead(r, n, LS) == [r EXCEPT !.v = lpb_pushinteger(n, LS.int64_mode)]
VarintRead(type, LS, r) ==
    CASE type = Tbool -> [r EXCEPT !.v = Bool(@ # 0)]
      [] type = Tint32 -> IntegerRead(r, AsSigned(r.v % W32, W32), LS)
      [] type = Tuint32 -> IntegerRead(r, r.v % W32, LS)
      [] type = Tsint32 -> IntegerRead(r, pb_decode_sint(r.v % W32), LS)
      [] type \in {Tint64, Tuint64} -> IntegerRead(r, AsSigned(r.v, W64), LS)
      [] type = Tsint64 -> IntegerRead(r, pb_decode_sint(r.v), LS)
FixedRead(type, LS, r) ==
    CASE type = Tfixed32 -> IntegerRead(r, r.v, LS)
      [] type = Tsfixed32 -> IntegerRead(r, AsSigned(r.v, W32), LS)
      [] type \in {Tfixed64, Tsfixed64} -> IntegerRead(r, AsSigned(r.v, W64), LS)
      [] type = Tdouble -> [r EXCEPT !.v = <<"float", @>>]
BytesRead(d, r) == IF r.n = 0 THEN NotRead ELSE [r EXCEPT !.v = LuaString(Text(d, @))]

lpb_readtype(type, LS, d, s) ==
    CASE WireType(type) = VARINT -> VarintRead(type, LS, pb_readvarint64(d, s))
      [] WireType(type) = BIT32 -> FixedRead(type, LS, pb_readfixed(d, s, PbWord))
      [] WireType(type) = BIT64 -> FixedRead(type, LS, pb_readfixed(d, s, 2 * PbWord))
      [] WireType(type) = BYTES -> BytesRead(d, pb_readbytes(d, s))
      [] OTHER -> NotRead

RECURSIVE lpbD_message(_, _, _, _, _, _), EntryIn(_, _, _, _, _, _), PackedIn(_, _, _, _, _, _)

\* A number of an enum: its name, if it is known and wanted.
EnumRead(db, e, LS, r) ==
    [r EXCEPT !.v = IF ~LS.enum_as_value /\ e # 0 THEN LuaString(db.fields[e].name)
                    ELSE lpb_pushinteger(AsSigned(@, W64), LS.int64_mode)]
EnumFrom(db, f, LS, r) == EnumRead(db, pb_field(db, f.type, AsSigned(r.v % W32, W32)), LS, r)

InnerRead(n, inner) == IF inner.n = 0 THEN NotRead ELSE [n |-> n, v |-> inner.v]
MessageIn(db, f, LS, d, b) ==
    CASE b.n = 0 -> NotRead
      [] b.n # 0 /\ db.types[f.type].dead -> [n |-> b.n, v |-> LuaNil]
      [] OTHER -> InnerRead(b.n, lpbD_message(db, f.type, LS, d, b.v, lpb_pushtypetable(db, f.type, LS)))

lpbD_rawfield(db, f, LS, d, s) ==
    CASE f.type_id = Tenum -> EnumFrom(db, f, LS, pb_readvarint64(d, s))
      [] f.type_id = Tmessage -> MessageIn(db, f, LS, d, pb_readbytes(d, s))
      [] OTHER -> lpb_readtype(f.type_id, LS, d, s)

lpbD_field(db, f, tag, LS, d, s) ==
    IF WireType(f.type_id) = pb_gettype(tag) THEN lpbD_rawfield(db, f, LS, d, s) ELSE NotRead

\* The table under the name of a repeated field.
lpb_fetchtable(v, f) == IF LuaString(f.name) \in DOMAIN v[2] THEN v[2][LuaString(f.name)] ELSE EmptyLua

\* A message with a field set, once n bytes have been taken for it.
Put(v, f, n, x) == [n |-> n, v |-> [v EXCEPT ![2] = Set(@, LuaString(f.name), x)]]

\* The key and the value of an entry, each as the last one said; what follows another tag
\* is not skipped.
PartRead(db, t, LS, d, s, kv, i, r) ==
    IF r.n = 0 THEN NotRead ELSE EntryIn(db, t, LS, d, Rest(s, r.n), With(kv, i, r.v))
PartFrom(db, t, LS, d, tag, kv) ==
    LET i == pb_gettag(tag.v) IN
    CASE ~tag.ok -> [n |-> 1, v |-> kv]
      [] tag.ok /\ i \notin {1, 2} -> EntryIn(db, t, LS, d, tag.s, kv)
      [] OTHER -> PartRead(db, t, LS, d, tag.s, kv, i,
                           lpbD_field(db, db.fields[pb_field(db, t, i)], tag.v, LS, d, tag.s))
EntryIn(db, t, LS, d, s, kv) == PartFrom(db, t, LS, d, TagAt(d, s), kv)

\* lpbD_map: what is missing is the default of proto3, whatever the message is; an entry
\* whose value has none is no entry.
PartOf(db, f, kv, i, LS) ==
    IF i \in DOMAIN kv THEN kv[i] ELSE lpb_pushdefault(db, db.fields[pb_field(db, f.type, i)], TRUE, LS)
EntryPut(v, f, n, map, key, value, there) ==
    Put(v, f, n, IF ~there /\ value = LuaNil THEN map ELSE [map EXCEPT ![2] = Set(@, key, value)])
EntryRead(db, f, LS, v, n, kv) ==
    IF kv.n = 0 THEN NotRead
    ELSE EntryPut(v, f, n, lpb_fetchtable(v, f), PartOf(db, f, kv.v, 1, LS), PartOf(db, f, kv.v, 2, LS),
                  2 \in DOMAIN kv.v)
MapFrom(db, f, LS, d, v, p) ==
    IF p.n = 0 THEN NotRead ELSE EntryRead(db, f, LS, v, p.n, EntryIn(db, f.type, LS, d, p.v, <<>>))
lpbD_map(db, f, LS, d, s, v) == MapFrom(db, f, LS, d, v, pb_readbytes(d, s))

Appended(a, x) == [a EXCEPT ![2] = Set(@, <<"int", Cardinality(DOMAIN a[2]) + 1>>, x)]

\* The elements in a slice, one after the other.
ElementRead(db, f, LS, d, s, a, r) ==
    IF r.n = 0 THEN NotRead ELSE PackedIn(db, f, LS, d, Rest(s, r.n), Appended(a, r.v))
PackedIn(db, f, LS, d, s, a) ==
    IF LeftIn(s) <= 0 THEN [n |-> 1, v |-> a]
    ELSE ElementRead(db, f, LS, d, s, a, lpbD_rawfield(db, f, LS, d, s))

\* lpbD_repeated: one element, or all of them at once, however the field is declared.
OnePut(v, f, r) == IF r.n = 0 THEN NotRead ELSE Put(v, f, r.n, Appended(lpb_fetchtable(v, f), r.v))
AllPut(v, f, n, r) == IF r.n = 0 THEN NotRead ELSE Put(v, f, n, r.v)
PackedFrom(db, f, LS, d, v, p) ==
    IF p.n = 0 THEN NotRead ELSE AllPut(v, f, p.n, PackedIn(db, f, LS, d, p.v, lpb_fetchtable(v, f)))
lpbD_repeated(db, f, tag, LS, d, s, v) ==
    IF pb_gettype(tag) # BYTES \/ (~f.packed /\ WireType(f.type_id) = BYTES)
    THEN OnePut(v, f, lpbD_field(db, f, tag, LS, d, s))
    ELSE PackedFrom(db, f, LS, d, v, pb_readbytes(d, s))

FieldPut(v, f, r) == IF r.n = 0 THEN NotRead ELSE Put(v, f, r.n, r.v)
FieldRead(db, f, LS, d, tag, v) ==
    CASE f.type # None /\ db.types[f.type].map -> lpbD_map(db, f, LS, d, tag.s, v)
      [] ~(f.type # None /\ db.types[f.type].map) /\ f.repeated ->
            lpbD_repeated(db, f, tag.v, LS, d, tag.s, v)
      [] OTHER -> FieldPut(v, f, lpbD_field(db, f, tag.v, LS, d, tag.s))

\* A field that is not known is skipped, and if that fails, its value is read as tags.
GoesOn(db, t, LS, d, s, r) == IF r.n = 0 THEN NotRead ELSE lpbD_message(db, t, LS, d, Rest(s, r.n), r.v)
FieldFrom(db, t, LS, d, tag, v) ==
    LET id == pb_field(db, t, pb_gettag(tag.v)) IN
    CASE ~tag.ok -> [n |-> 1, v |-> v]
      [] tag.ok /\ id = 0 -> lpbD_message(db, t, LS, d, Rest(tag.s, pb_skipvalue(d, tag.s, tag.v)), v)
      [] OTHER -> GoesOn(db, t, LS, d, tag.s, FieldRead(db, db.fields[id], LS, d, tag, v))
lpbD_message(db, t, LS, d, s, v) == FieldFrom(db, t, LS, d, TagAt(d, s), v)

lpb_decode(db, t, LS, d) ==
    lpbD_message(db, t, LS, d, Slice(1, Len(d) + 1), lpb_pushtypetable(db, t, LS))

-----------------------------------------------------------------------------
(* Without a type.  An item is a letter of a format and its argument.  The *)
(* letters of types are "type", with the type.  A raise is [ok |-> FALSE]; *)
(* what had been packed before it stays in the buffer.                     *)

Arg(letter, v) == [letter |-> letter, type |-> 0, v |-> v]
OfType(type, v) == [letter |-> "type", type |-> type, v |-> v]

-----------------------------------------------------------------------------
(* pb.buffer:pack *)

\* A new buffer, or one that is reset, has the bytes it is given.
Lbuf_new(slices) == FlattenSeq(slices)

\* What a format is packed into: the bytes, where the levels that are open began, and whether nothing raised.
Opened(b) == [b |-> b, began |-> <<>>, ok |-> TRUE]
Refusal(st) == [st EXCEPT !.ok = FALSE]

Holding(st, ok, b) == IF ok THEN [st EXCEPT !.b = @ \o b] ELSE Refusal(st)

\* lpb_addlength: the length of what there is behind n bytes is put before it.
lpb_addlength(st, n) ==
    IF n > Len(st.b) THEN Refusal(st)
    ELSE [st EXCEPT !.b = SubSeq(@, 1, n) \o pb_addbytes(SubSeq(@, n + 1, Len(@)))]

NumberBytes(letter, u) ==
    CASE letter = "v" -> pb_addvarint(u)
      [] letter = "d" -> pb_addfixed(u % W32, PbWord)
      [] OTHER -> pb_addfixed(u, 2 * PbWord)

Closed(st) ==
    IF st.began = <<>> THEN Refusal(st)
    ELSE lpb_addlength([st EXCEPT !.began = Front(@)], Last(st.began))

PackItem(st, item) ==
    LET int == lpb_tointegerx(item.v)
        written == lpb_addtype(item.type, item.v) IN
    CASE item.letter \in {"v", "d", "q"} -> Holding(st, int.ok, NumberBytes(item.letter, int.u))
      [] item.letter = "c" -> Holding(st, item.v[1] = "string", item.v[2])
      [] item.letter = "s" -> Holding(st, item.v[1] = "string", pb_addbytes(item.v[2]))
      [] item.letter = "#" -> IF int.ok THEN lpb_addlength(st, int.u) ELSE Refusal(st)
      [] item.letter = "(" -> IF Len(st.began) < FormatLevels
                              THEN [st EXCEPT !.began = Append(@, Len(st.b))] ELSE Refusal(st)
      [] item.letter = ")" -> Closed(st)
      [] OTHER -> Holding(st, written.ok, written.b)

lpb_packfmt(b, items) ==
    LET st == FoldLeft(LAMBDA now, item : IF now.ok THEN PackItem(now, item) ELSE now, Opened(b), items) IN
    IF st.ok /\ st.began # <<>> THEN Refusal(st) ELSE st

-----------------------------------------------------------------------------
(* pb.slice:unpack, with one letter *)

lpb_unpackscalar_(item, LS, d, s) ==
    LET varint == pb_readvarint64(d, s)
        d32 == pb_readfixed(d, s, PbWord)
        q64 == pb_readfixed(d, s, 2 * PbWord)
        n == Len(item.v[2]) IN
    CASE item.letter = "v" -> IntegerRead(varint, AsSigned(varint.v, W64), LS)
      [] item.letter = "d" -> IntegerRead(d32, d32.v, LS)
      [] item.letter = "q" -> IntegerRead(q64, AsSigned(q64.v, W64), LS)
      [] item.letter = "s" -> BytesRead(d, pb_readbytes(d, s))
      [] item.letter = "c" -> IF LeftIn(s) < n THEN NotRead
                              ELSE [n |-> n, v |-> LuaString(Text(d, Slice(s.p, s.p + n)))]
      [] OTHER -> lpb_readtype(item.type, LS, d, s)

-----------------------------------------------------------------------------
(* Digits.  An octet has two. *)

Nibble == CHOOSE n \in 1..Octet : n * n = Octet
Space == 32
Lpb_result(b, i, j) ==
    LET r == rangerelat(i, j, Len(b)) IN SubSeq(b, r.from, r.from + r.range - 1)

HexDigit(n) == IF n < 10 THEN 48 + n ELSE 55 + n
Lpb_tohex(b, i, j) ==
    LET part == Lpb_result(b, i, j) IN
    FlattenSeq([k \in DOMAIN part |-> <<HexDigit(part[k] \div Nibble), HexDigit(part[k] % Nibble)>>
                                        \o IF k = Len(part) THEN <<>> ELSE <<Space>>])

\* What is no digit is passed over, and so is a last digit without another.
Lpb_fromhex(text, i, j) ==
    LET digits == SelectSeq(Lpb_result(text, i, j), LAMBDA c : lpb_hexchar(c) >= 0) IN
    [k \in 1..(Len(digits) \div 2) |->
        (Nibble * lpb_hexchar(digits[2 * k - 1]) + lpb_hexchar(digits[2 * k])) % Octet]

-----------------------------------------------------------------------------
(* pb.conv *)

Lconv(name, v, mode) ==
    LET u == lpb_tointegerx(v).u IN
    CASE name = "int32" -> lpb_pushinteger(AsSigned(pb_expandsig(u % W32), W64), mode)
      [] name = "uint32" -> lpb_pushinteger(u % W32, mode)
      [] name = "encode_sint32" -> lpb_pushinteger(pb_encode_sint(u % W32, W32), mode)
      [] name = "decode_sint32" -> lpb_pushinteger(pb_decode_sint(u % W32), mode)
      [] name = "encode_sint64" -> lpb_pushinteger(AsSigned(pb_encode_sint(u, W64), W64), mode)
      [] name = "decode_sint64" -> lpb_pushinteger(pb_decode_sint(u), mode)
      [] name = "encode_double" -> lpb_pushinteger(AsSigned(v[2], W64), mode)
      [] name = "decode_double" -> <<"float", u>>
=============================================================================
