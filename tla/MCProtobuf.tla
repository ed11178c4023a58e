----------------------------- MODULE MCProtobuf -----------------------------
(***************************************************************************)
(* Instances for TLC of PbTable and PbMessage: tables that are             *)
(* filled and emptied, schemas that are loaded over one another, messages  *)
(* of types with fields of every kind, what is packed without a type; and  *)
(* what they mean, without the code.                                       *)
(***************************************************************************)
EXTENDS PbMessage, PbTable

CONSTANTS
    MaxLoads,       \* how often a schema changes
    MaxWire         \* the bytes of the longest input without a schema

VARIABLES
    form,       \* "table", "schema", "bytes" or "varint", "number", "message",
                \* "pack", "hex" or "conversion"
    input       \* the schema, the bytes, the number, the message, the items

-----------------------------------------------------------------------------
(* Bytes *)

WirePieces == IF form = "bytes" THEN {1, 2, 3, 4, PbGroup + 1} ELSE {1, PbGroup + 1}
WireLimit == IF form = "bytes" THEN MaxWire ELSE MaxVarint + 1

WireInit ==
    \/ form \in {"bytes", "varint"} /\ input = <<>>
    \/ form = "number" /\ \E n \in {0, 1, PbGroup - 1, PbGroup, W32 - 1, W32, W64 - 1} \union
                                   {W32 \div 2 + i : i \in -1..1} \union {W64 \div 2 + i : i \in -1..1} :
                            input = <<n>>

AddByte ==
    /\ form \in {"bytes", "varint"} /\ Len(input) < WireLimit
    /\ \E b \in WirePieces : input' = Append(input, b)
    /\ UNCHANGED form

-----------------------------------------------------------------------------
(* Descriptors *)

\* The bytes of a descriptor: what protoc.lua has pb.encode write.
RECURSIVE BytesOf(_, _), ByNumber(_)
ByNumber(ks) ==
    IF ks = {} THEN <<>>
    ELSE LET k == CHOOSE k \in ks : \A other \in ks : k[1] <= other[1] IN <<k>> \o ByNumber(ks \ {k})

EntryBytes(k, v) ==
    CASE k[3] = "int32" ->
            IF v = 0 THEN <<>>
            ELSE pb_addvarint(pb_pair(k[1], VARINT))
                   \o pb_addvarint(pb_expandsig((IF k[2] = "oneof_index" THEN v - 1 ELSE v) % W32))
      [] k[3] = "bytes" ->
            IF v = None THEN <<>> ELSE pb_addvarint(pb_pair(k[1], BYTES)) \o pb_addbytes(v)
      [] k[3] = "options" ->
            IF v = Fresh[IF k[2] = "packed" THEN "field" ELSE "type"][k[2]] THEN <<>>
            ELSE pb_addvarint(pb_pair(k[1], BYTES))
                   \o pb_addbytes(pb_addvarint(pb_pair(1, VARINT)) \o <<1>>
                                    \o pb_addvarint(pb_pair(OptionOf[k[2]], VARINT)) \o <<v>>)
      [] k[3] = "oneof" ->
            FlattenSeq([i \in DOMAIN v |-> pb_addvarint(pb_pair(k[1], BYTES))
                          \o pb_addbytes(pb_addvarint(pb_pair(1, BYTES)) \o pb_addbytes(v[i]))])
      [] OTHER ->
            FlattenSeq([i \in DOMAIN v |-> pb_addvarint(pb_pair(k[1], BYTES))
                          \o pb_addbytes(BytesOf(k[3], v[i]))])
BytesOf(sort, info) ==
    LET known == ByNumber(Known[sort]) IN
    FlattenSeq([i \in DOMAIN known |-> EntryBytes(known[i], info[known[i][2]])])

Name(c) == <<c>>
Full(c) == <<Dot, c>>
a_ == 1
b_ == 2
c_ == 3
d_ == 4
E_ == 11
M_ == 12
N_ == 13

F(name, number, type) == [Fresh.field EXCEPT !.name = Name(name), !.number = number, !.type = type, !.label = 1]
Of(f, t) == [f EXCEPT !.type_name = Full(t)]
Many(f) == [f EXCEPT !.label = LABEL_REPEATED]
Packs(f, b) == [f EXCEPT !.label = LABEL_REPEATED, !.packed = b]
Default(f, text) == [f EXCEPT !.default_value = text]
OneOf(f, i) == [f EXCEPT !.oneof_index = i]
Type(name, fs) == [Fresh.type EXCEPT !.name = Name(name), !.field = fs]
EnumOf(name, ns, k) == [Fresh.enum EXCEPT !.name = Name(name),
                          !.value = [i \in DOMAIN ns |-> [name |-> Name(ns[i]), number |-> k + i - 1]]]
FileOf(types, enums) == [Fresh.file EXCEPT !.message_type = types, !.enum_type = enums]

-----------------------------------------------------------------------------
(* A schema.  `want' is what was declared last: of each type, the number under each name,  *)
(* the name under each number, and what was said of these.                                 *)

SchemaFiles ==
    {FileOf(<<Type(M_, <<F(a_, 1, Tint32)>>)>>, <<>>),
     FileOf(<<Type(M_, <<Default(F(a_, 2, Tint32), <<51>>), F(b_, 1, Tint32)>>)>>, <<>>),
     FileOf(<<Type(M_, <<Of(Many(F(b_, 2, Tmessage)), N_)>>), Type(N_, <<>>)>>, <<>>),
     FileOf(<<[Type(N_, <<OneOf(Default(F(a_, 1, Tint32), <<51>>), 1)>>) EXCEPT !.oneof_decl = <<<<a_>>>>]>>, <<>>),
     FileOf(<<>>, <<EnumOf(E_, <<a_, b_>>, 0)>>),
     [FileOf(<<>>, <<EnumOf(E_, <<b_>>, 0)>>) EXCEPT
        !.extension = <<[Default(Of(F(c_, 1, Tenum), E_), <<a_>>) EXCEPT !.extendee = Full(M_)]>>],
     FileOf(<<Type(M_, <<Packs(F(c_, 1, Tstring), 1), [F(a_, 1, Tint32) EXCEPT !.name = None]>>)>>, <<>>)}

Types_ == {Full(M_), Full(N_), Full(E_)}
Names_ == {Name(a_), Name(b_), Name(c_)}
Numbers_ == 0..2

NotWanted == [number |-> <<>>, name |-> <<>>, info |-> <<>>]
NothingWanted == [t \in Types_ |-> NotWanted]

Declared(w, f) ==
    [number |-> With(w.number, f.name, f.number), name |-> With(w.name, f.number, f.name),
     info |-> With(w.info, <<f.name, f.number>>, f)]

\* Values of enums are fields without anything said of them but the name and number.
AsField(v) == [Fresh.field EXCEPT !.name = v.name, !.number = v.number]

RECURSIVE DeclareAll(_, _)
DeclareAll(w, fs) ==
    IF fs = <<>> \/ Head(fs).name = None THEN w ELSE DeclareAll(Declared(w, Head(fs)), Tail(fs))

DeclareTypes(want, file) ==
    [t \in Types_ |->
        LET types == SelectSeq(file.message_type, LAMBDA x : <<Dot>> \o x.name = t)
            enums == SelectSeq(file.enum_type, LAMBDA x : <<Dot>> \o x.name = t)
            exts == SelectSeq(file.extension, LAMBDA x : x.extendee = t) IN
        DeclareAll(want[t], FlattenSeq([i \in DOMAIN enums |->
                                          [j \in DOMAIN enums[i].value |-> AsField(enums[i].value[j])]])
                              \o FlattenSeq([i \in DOMAIN types |-> types[i].field]) \o exts)]

SchemaInit == form = "schema" /\ input = [db |-> EmptyDb, want |-> NothingWanted, n |-> 0]

Changed(db, want) == input' = [db |-> db, want |-> want, n |-> input.n + 1]

LoadFile ==
    \E file \in SchemaFiles :
        Changed(pb_load(input.db, BytesOf("set", [file |-> <<file>>])).db, DeclareTypes(input.want, file))

ClearType ==
    \E t \in Types_ :
        /\ lpb_type(input.db, Tail(t)) # None
        /\ Changed(pb_deltype(input.db, t), [input.want EXCEPT ![t] = NotWanted])

\* A field that is found by its name or by its number.
Removed(w, name, number) ==
    [w EXCEPT !.number = IF name \in DOMAIN @ /\ @[name] = number THEN Lacking(@, name) ELSE @,
              !.name = IF number \in DOMAIN @ /\ @[number] = name THEN Lacking(@, number) ELSE @]

ClearField ==
    \E t \in Types_ :
        /\ lpb_type(input.db, t) # None
        /\ \/ \E n \in Names_ \intersect DOMAIN input.want[t].number :
                 Changed(pb_delfield(input.db, t, pb_fname(input.db, t, n)),
                         [input.want EXCEPT ![t] = Removed(@, n, @.number[n])])
           \/ \E k \in Numbers_ \intersect DOMAIN input.want[t].name :
                 Changed(pb_delfield(input.db, t, pb_field(input.db, t, k)),
                         [input.want EXCEPT ![t] = Removed(@, @.name[k], k)])

ChangeSchema ==
    /\ form = "schema" /\ input.n < MaxLoads
    /\ LoadFile \/ ClearType \/ ClearField
    /\ UNCHANGED form

\* What is said of a field.
Says(r, f) ==
    /\ r.name = f.name /\ r.number = f.number /\ r.type_id = f.type /\ r.default = f.default_value
    /\ r.repeated <=> f.label = LABEL_REPEATED
    /\ r.packed => f.type \notin {Tstring, Tmessage}
    /\ f.type \in {Tmessage, Tenum} => r.type = f.type_name

\* What is found, by name and by number, is what was declared last under it.
FindsLast(db, want) ==
    \A t \in DOMAIN db.types :
        /\ \A n \in Names_ : pb_fname(db, t, n) # 0 <=> n \in DOMAIN want[t].number
        /\ \A k \in Numbers_ : pb_field(db, t, k) # 0 <=> k \in DOMAIN want[t].name
        /\ \A n \in Names_ \intersect DOMAIN want[t].number :
              Says(db.fields[pb_fname(db, t, n)], want[t].info[<<n, want[t].number[n]>>])
        /\ \A k \in Numbers_ \intersect DOMAIN want[t].name :
              Says(db.fields[pb_field(db, t, k)], want[t].info[<<want[t].name[k], k>>])

\* What protobuf knows after files were loaded and types and fields were cleared is what
\* was declared last; nothing of it was freed, nor a field of it forgotten.
SchemaIsSound ==
    form = "schema" =>
        /\ FieldsAreOwned(input.db) /\ NamesAreHeld(input.db) /\ FieldsAreListed(input.db)
        /\ FindsLast(input.db, input.want)

-----------------------------------------------------------------------------
(* Messages *)

x_ == 5
r_ == 6
p_ == 7
I_ == 21
S_ == 22
K_ == 23

Full2(syntax, c) == <<Dot, syntax, Dot, c>>
In(f, syntax, c) == [f EXCEPT !.type_name = Full2(syntax, c)]
Map(c, key, value) == [Type(c, <<key, value>>) EXCEPT !.is_map = 1]

ScalarTypes == (Tdouble..Tsint64) \ {Tfloat, Tgroup, Tmessage, Tenum}
Integers == ScalarTypes \ {Tdouble, Tbool, Tstring, Tbytes}

\* A type for each scalar type: a field, a repeated one and a packed one; the default is 3.
DefaultText(type) ==
    CASE type \in Integers \union {Tstring} -> <<51>>
      [] type = Tbool -> Text_true
      [] OTHER -> None
Scalar(type, syntax, swapped) ==
    Type(100 + type, <<IF syntax = 2 THEN Default(F(x_, 1, type), DefaultText(type)) ELSE F(x_, 1, type),
                       Packs(F(r_, 2, type), IF swapped THEN 1 ELSE 0),
                       IF swapped THEN Packs(F(p_, PbGroup * 2, type), 0)
                       ELSE IF syntax = 3 THEN Many(F(p_, PbGroup * 2, type))
                       ELSE Packs(F(p_, PbGroup * 2, type), 1)>>)

Inner(syntax) == Type(I_, <<F(x_, 1, Tsint32), In(F(c_, 2, Tmessage), syntax, I_)>>)

Composed(syntax, known) ==
    [Type(S_, SelectSeq(<<In(F(a_, 1, Tmessage), syntax, I_), In(Many(F(b_, 2, Tmessage)), syntax, I_),
                          In(F(c_, 3, Tenum), syntax, E_), In(Many(F(d_, 4, Tmessage)), syntax, K_),
                          In(Many(F(p_, 5, Tmessage)), syntax, N_), OneOf(F(r_, 6, Tint32), 1),
                          OneOf(F(x_, 7, Tstring), 1), In(Many(F(E_, 8, Tenum)), syntax, E_)>>,
                        LAMBDA f : f.number \in known))
        EXCEPT !.oneof_decl = <<<<a_>>>>]

MessageFile(syntax, swapped, known) ==
    [FileOf(<<Inner(syntax), Composed(syntax, known), Map(K_, F(a_, 1, Tstring), F(b_, 2, Tint32)),
              Map(N_, F(a_, 1, Tint32), In(F(b_, 2, Tmessage), syntax, I_))>>
              \o [i \in 1..18 |-> IF i \in ScalarTypes THEN Scalar(i, syntax, swapped) ELSE Type(100 + i, <<>>)],
            <<EnumOf(E_, <<a_, b_, c_>>, -1)>>)
        EXCEPT !.package = <<syntax>>, !.syntax = IF syntax = 3 THEN Proto3 ELSE None]

LoadedFrom(swapped, known) ==
    pb_load(EmptyDb, BytesOf("set", [file |-> <<MessageFile(2, swapped, known), MessageFile(3, swapped, known)>>])).db
Databases == [now |-> LoadedFrom(FALSE, 1..8), swapped |-> LoadedFrom(TRUE, 1..8),
              older |-> LoadedFrom(FALSE, {1, 3, 4, 8})]

\* Numbers about the limits of 32 and 64 bits.
Ints == {<<"int", n>> : n \in {0, 1, -1, 5, W32 \div 2 - 1, W32 \div 2, -(W32 \div 2), W32 - 1, W32, -W32,
                               W64 \div 2 - 1, -(W64 \div 2)}}
ScalarValues(type) ==
    CASE type = Tdouble -> {<<"float", u>> : u \in Zero64 \union {1, W64 - 1}} \union {Bool(TRUE)}
      [] type = Tbool -> {Bool(TRUE), Bool(FALSE), <<"int", 0>>}
      [] type \in {Tstring, Tbytes} -> {LuaString(<<>>), LuaString(<<1, 9>>), LuaString([i \in 1..(PbGroup + 1) |-> 9]), Bool(FALSE)}
      [] OTHER -> Ints \union {LuaString(<<Hash, 49, 50>>), LuaString(<<Hash, Minus, 48, 120, 97>>), LuaString(<<49, 122>>), EmptyLua}

Fields1(n, v) == LuaTable(LuaString(Name(n)) :> v)
Fields2(n, v, m, u) == LuaTable((LuaString(Name(n)) :> v) @@ (LuaString(Name(m)) :> u))
ListOf(s) == LuaTable([k \in {<<"int", i>> : i \in DOMAIN s} |-> s[k[2]]])

ScalarMessages(type) ==
    {Fields1(x_, v) : v \in ScalarValues(type)} \union {EmptyLua, Fields1(p_, Bool(TRUE)), Fields1(E_, Bool(TRUE))}
      \union {Fields2(r_, ListOf(<<v, u, v>>), p_, ListOf(<<u, v>>)) :
                 v \in ScalarValues(type), u \in ScalarValues(type) \intersect {<<"int", W32 - 1>>, <<"float", 1>>, Bool(TRUE), LuaString(<<1, 9>>)}}
      \union {Fields2(r_, ListOf(<<>>), p_, ListOf(<<>>))}

Inners == {EmptyLua, Fields1(x_, <<"int", -1>>), Fields2(x_, <<"int", 0>>, c_, Fields1(x_, <<"int", 3>>))}
Enums == {LuaString(Name(a_)), LuaString(Name(b_)), <<"int", 0>>, <<"int", 1>>, <<"int", 9>>, LuaString(<<9>>), EmptyLua}

ComposedMessages ==
    {Fields2(a_, i, c_, e) : i \in Inners \union {Bool(TRUE)}, e \in Enums}
      \union {Fields2(b_, ListOf(<<i, j>>), r_, <<"int", n>>) : i, j \in Inners, n \in {0, 1}}
      \union {Fields2(d_, LuaTable((LuaString(<<>>) :> <<"int", m>>) @@ (LuaString(<<9>>) :> <<"int", n>>)), E_, ListOf(<<e, LuaString(Name(b_))>>))
                : m, n \in {0, -1}, e \in Enums}
      \union {Fields2(p_, LuaTable((<<"int", 0>> :> i) @@ (<<"int", -3>> :> j)), x_, LuaString(s))
                : i, j \in Inners, s \in {<<>>, <<4>>}}
      \union {Fields2(r_, <<"int", 0>>, x_, LuaString(<<>>)), Fields1(p_, Bool(TRUE))}

MessageInit ==
    /\ form = "message"
    /\ \E syntax \in {2, 3} :
          \/ \E type \in ScalarTypes : \E v \in ScalarMessages(type) :
                input = [type |-> Full2(syntax, 100 + type), value |-> v]
          \/ \E v \in ComposedMessages : input = [type |-> Full2(syntax, S_), value |-> v]

-----------------------------------------------------------------------------
(* What comes back *)

Settings ==
    {[default_mode |-> m, enum_as_value |-> s[1], int64_mode |-> s[2]] :
        m \in {"auto", "copy", "meta", "none"},
        s \in {<<FALSE, "number">>, <<TRUE, "string">>, <<FALSE, "hexstring">>}}

Under(db, t, name) == db.fields[db.types[t].byName[name]]
IsMapField(db, f) == f.type # None /\ db.types[f.type].map
GivenIn(v, f) == IF LuaString(f.name) \in DOMAIN v[2] THEN v[2][LuaString(f.name)] ELSE LuaNil

\* What a field holds of a number.
KeptInteger(type, n) ==
    CASE type \in {Tint32, Tsint32, Tsfixed32} -> ((n + W32 \div 2) % W32) - W32 \div 2
      [] type \in {Tuint32, Tfixed32} -> n % W32
      [] OTHER -> n
SameInteger(type, v, x) ==
    AsSigned(lpb_tointegerx(x).u, W64) = KeptInteger(type, AsSigned(lpb_tointegerx(v).u, W64))

EnumNumber(db, f, v) == IF v[1] = "int" THEN v[2] ELSE db.fields[pb_fname(db, f.type, v[2])].number
SameEnum(db, f, v, x, LS) ==
    LET n == EnumNumber(db, f, v)
        names == {e \in Range(db.types[f.type].byNumber) : db.fields[e].number = n} IN
    IF names = {} THEN x = <<"int", n>>
    ELSE IF ~LS.enum_as_value THEN \E e \in names : x = LuaString(db.fields[e].name)
    ELSE lpb_tointegerx(x).u % W32 = n % W32

\* Whether a value can be written.
RECURSIVE Fits(_, _, _), FieldFits(_, _, _), CameBack(_, _, _, _, _)
Fits(db, f, v) ==
    CASE f.type_id = Tmessage ->
            v[1] = "table" /\ \A g \in Range(db.types[f.type].byNumber) : FieldFits(db, db.fields[g], GivenIn(v, db.fields[g]))
      [] f.type_id = Tenum -> v[1] = "int" \/ (v[1] = "string" /\ v[2] \in DOMAIN db.types[f.type].byName)
      [] f.type_id = Tbool -> TRUE
      [] f.type_id = Tdouble -> v[1] = "float"
      [] f.type_id \in {Tstring, Tbytes} -> v[1] = "string"
      [] OTHER -> v[1] = "int" \/ (v[1] = "string" /\ v # LuaString(<<49, 122>>))
FieldFits(db, f, v) ==
    CASE v = LuaNil -> TRUE
      [] v # LuaNil /\ f.repeated -> v[1] = "table" /\ (IsMapField(db, f) \/ \A k \in DOMAIN v[2] : Fits(db, f, v[2][k]))
      [] OTHER -> Fits(db, f, v)

KeptValue(db, f, v, x, LS) ==
    CASE f.type_id = Tmessage -> x[1] = "table" /\ CameBack(db, f.type, v, x, LS)
      [] f.type_id = Tenum -> SameEnum(db, f, v, x, LS)
      [] f.type_id = Tbool -> x = Bool(v # Bool(FALSE))
      [] f.type_id \in {Tdouble, Tstring, Tbytes} -> x = v
      [] OTHER -> SameInteger(f.type_id, v, x)

IsZero(f, v) ==
    CASE f.type_id \in {Tmessage, Tenum} -> FALSE
      [] f.type_id = Tbool -> v = Bool(FALSE)
      [] f.type_id = Tdouble -> v[2] \in Zero64
      [] f.type_id \in {Tstring, Tbytes} -> v = LuaString(<<>>)
      [] OTHER -> lpb_tointegerx(v).u = 0

\* Fields a message of proto3 does without.
Dropped(proto3, f, v) == proto3 /\ ~f.repeated /\ f.oneof_idx = 0 /\ v # LuaNil /\ IsZero(f, v)
NotSent(db, proto3, f, v) ==
    \/ v = LuaNil \/ Dropped(proto3, f, v)
    \/ f.repeated /\ ~f.packed /\ DOMAIN v[2] = {}

\* What stands for a field that was not sent.
Absent(db, proto3, f, LS) ==
    LET mode == IF LS.default_mode = "auto" THEN (IF proto3 THEN "copy" ELSE "none") ELSE LS.default_mode
        zero == CASE f.type_id = Tbool -> Bool(FALSE)
                  [] f.type_id = Tdouble -> <<"float", 0>>
                  [] f.type_id \in {Tstring, Tbytes} -> LuaString(<<>>)
                  [] f.type_id = Tenum -> IF LS.enum_as_value THEN <<"int", 0>> ELSE LuaString(Name(b_))
                  [] OTHER -> <<"int", 0>> IN
    CASE mode = "none" \/ (mode = "copy" /\ f.oneof_idx # 0) -> LuaNil
      [] mode # "none" /\ ~(mode = "copy" /\ f.oneof_idx # 0) /\ f.repeated ->
            IF proto3 THEN EmptyLua ELSE LuaNil
      [] OTHER -> CASE f.type_id = Tmessage -> LuaNil
                    [] f.default # None -> IF f.type_id = Tbool THEN Bool(TRUE)
                                           ELSE IF f.type_id = Tstring THEN LuaString(<<51>>) ELSE <<"int", 3>>
                    [] OTHER -> IF proto3 THEN zero ELSE LuaNil

SameMap(db, f, v, x, kf, vf, LS) ==
    /\ Cardinality(DOMAIN x[2]) = Cardinality(DOMAIN v[2])
    /\ \A k \in DOMAIN v[2] : \E j \in DOMAIN x[2] :
          KeptValue(db, kf, k, j, LS) /\ KeptValue(db, vf, v[2][k], x[2][j], LS)

SameList(db, f, v, x, LS) ==
    DOMAIN x[2] = DOMAIN v[2] /\ \A k \in DOMAIN v[2] : KeptValue(db, f, v[2][k], x[2][k], LS)

\* What was read of a message is what was written, under every field of its type.
FieldCameBack(db, f, given, x, proto3, LS) ==
    IF NotSent(db, proto3, f, given) THEN x = Absent(db, proto3, f, LS)
    ELSE /\ f.repeated => x[1] = "table"
         /\ CASE IsMapField(db, f) -> SameMap(db, f, given, x, db.fields[pb_field(db, f.type, 1)],
                                              db.fields[pb_field(db, f.type, 2)], LS)
              [] ~IsMapField(db, f) /\ f.repeated -> SameList(db, f, given, x, LS)
              [] OTHER -> KeptValue(db, f, given, x, LS)
CameBack(db, t, v, got, LS) ==
    \A id \in Range(db.types[t].byNumber) :
        FieldCameBack(db, db.fields[id], GivenIn(v, db.fields[id]), FoundIn(db, got, db.fields[id].name, LS),
                      db.types[t].proto3, LS)

\* It comes back, whatever the order it was written in; a value that does not fit is
\* refused.
IsRead(db, t, v, LS, r) == r.n # 0 /\ CameBack(db, t, v, r.v, LS)
ComesBack(db, t, v, w, other) ==
    /\ w.ok <=> \A id \in Range(db.types[t].byNumber) : FieldFits(db, db.fields[id], GivenIn(v, db.fields[id]))
    /\ w.ok => \A LS \in Settings : \A b \in {w.b, other.b} : IsRead(db, t, v, LS, lpb_decode(db, t, LS, b))

Setting(m) == [default_mode |-> m, enum_as_value |-> FALSE, int64_mode |-> "string"]
Plainly(db, t, b) == lpb_decode(db, t, Setting("none"), b)

\* A reader with the other kind of repeated fields gets the same.
ReadPacked(db, swapped, t, b) == Plainly(swapped, t, b).v = Plainly(db, t, b).v

\* One that knows fewer fields gets those it knows.
OnlyKnown(db, t, v) ==
    LuaTable(Restrict(v[2], {k \in DOMAIN v[2] : k[1] = "string" /\ k[2] \in DOMAIN db.types[t].byName}))
SameRead(r, expected) == r.n # 0 /\ r.v = expected.v
ReadByOlder(older, t, v, b) ==
    SameRead(Plainly(older, t, b), Plainly(older, t, lpb_encode(older, t, OnlyKnown(older, t, v), "forward").b))

\* Two messages one after the other are one: what both have is the later one's, or both.
Both(v, u, n) ==
    ListOf([i \in 1..(n + Cardinality(DOMAIN u[2])) |-> IF i <= n THEN Element(v, i) ELSE Element(u, i - n)])
Combined(db, proto3, f, v, u) ==
    CASE u = LuaNil -> v
      [] u # LuaNil /\ v = LuaNil -> u
      [] OTHER -> IF IsMapField(db, f) THEN LuaTable(u[2] @@ v[2])
                  ELSE IF f.repeated THEN Both(v, u, Cardinality(DOMAIN v[2]))
                  ELSE IF Dropped(proto3, f, u) THEN v ELSE u
MergedOf(db, proto3, fs, v, u) ==
    LuaTable([name \in {LuaString(f.name) : f \in fs} |->
              LET field == CHOOSE f \in fs : LuaString(f.name) = name IN
              Combined(db, proto3, field, GivenIn(v, field), GivenIn(u, field))])
Merged(db, t, v, u) ==
    MergedOf(db, db.types[t].proto3,
             {f \in {db.fields[id] : id \in Range(db.types[t].byNumber)} : GivenIn(v, f) # LuaNil \/ GivenIn(u, f) # LuaNil},
             v, u)
Others(t) ==
    IF t[4] = S_ THEN {Fields2(a_, EmptyLua, b_, ListOf(<<Fields1(x_, <<"int", 2>>)>>)), Fields1(x_, LuaString(<<8>>)),
                       Fields1(p_, LuaTable(<<"int", 0>> :> Fields1(x_, <<"int", 7>>))),
                       Fields1(d_, LuaTable(LuaString(<<9>>) :> <<"int", 6>>))}
    ELSE {}
ReadTogether(db, t, v, b) ==
    \A u \in Others(t) :
        IsRead(db, t, Merged(db, t, v, u), Setting("copy"),
               lpb_decode(db, t, Setting("copy"), b \o lpb_encode(db, t, u, "forward").b))

\* The places after each field of a message.
RECURSIVE Ends(_, _)
EndsAfter(b, p, tag) ==
    {p} \union (IF tag.ok THEN Ends(b, tag.s.p + pb_skipvalue(b, tag.s, tag.v)) ELSE {})
Ends(b, p) == EndsAfter(b, p, TagAt(b, Slice(p, Len(b) + 1)))

\* Of a message that was cut, what stands before the cut is read, or an error is raised;
\* only within a tag a cut is not noticed.
CutIsNoticed(db, t, b, k, end, r) ==
    IF \A i \in end..k : b[i] >= PbGroup
    THEN SameRead(r, lpb_decode(db, t, Setting("meta"), SubSeq(b, 1, end - 1)))
    ELSE r.n = 0
ReadWhenCut(db, t, b, ends) ==
    \A k \in 0..(Len(b) - 1) :
        CutIsNoticed(db, t, b, k, Max({e \in ends : e <= k + 1}), lpb_decode(db, t, Setting("meta"), SubSeq(b, 1, k)))

IsRightlyWritten(db, swapped, older, t, v, w) ==
    /\ ComesBack(db, t, v, w, lpb_encode(db, t, v, "backward"))
    /\ w.ok => /\ ReadPacked(db, swapped, t, w.b)
               /\ ReadByOlder(older, t, v, w.b)
               /\ ReadTogether(db, t, v, w.b)
               /\ ReadWhenCut(db, t, w.b, Ends(w.b, 1))
MessageSurvives(dbs, t, v) ==
    IsRightlyWritten(dbs.now, dbs.swapped, dbs.older, t, v, lpb_encode(dbs.now, t, v, "forward"))

-----------------------------------------------------------------------------
(* What is packed without a type *)

NumberItems == {Arg(letter, v) : letter \in {"v", "d", "q"}, v \in ScalarValues(Tint64) \union {Bool(TRUE)}}
TextItems == {Arg(letter, v) : letter \in {"s", "c"}, v \in ScalarValues(Tbytes)}
TypeItems == UNION {{OfType(type, v) : v \in ScalarValues(type)} : type \in ScalarTypes}
Open == Arg("(", LuaNil)
Close == Arg(")", LuaNil)
SomeItems == {Arg("v", <<"int", W32>>), Arg("s", LuaString(<<1, 9>>)), OfType(Tsint32, <<"int", -1>>)}

Formats ==
    UNION {{<<a>>, <<Open, a, Close>>} : a \in NumberItems \union TextItems \union TypeItems}
      \union UNION {{<<a, b>>, <<a, Open, b, Close>>, <<Open, a, Open, Open, b, Close, Close, a, Close, b>>,
                     <<Open, a, b>>, <<a, Close, b>>, <<Open, Open, Open, a, Open, b, Close, Close, Close, Close>>}
                      : a \in SomeItems, b \in SomeItems \union TextItems}

PackInit ==
    \/ form = "pack" /\ input \in Formats
    \/ form = "hex" /\ input \in SeqOf({0, 1, PbGroup - 1, Octet - 1}, 3)
    \/ form = "conversion" /\ input \in ScalarValues(Tint64) \union ScalarValues(Tdouble)

\* Levels are closed as often as they are opened, and there are not too many.
Levels(items, k) ==
    Cardinality({i \in 1..k : items[i] = Open}) - Cardinality({i \in 1..k : items[i] = Close})
Balanced(items) ==
    Levels(items, Len(items)) = 0 /\ \A k \in DOMAIN items : Levels(items, k) \in 0..FormatLevels

AsKept(item) ==
    [type_id |-> CASE item.letter \in {"v", "q"} -> Tint64
                   [] item.letter = "d" -> Tuint32
                   [] item.letter \in {"s", "c"} -> Tbytes
                   [] OTHER -> item.type]
ItemFits(item) == item \in {Open, Close} \/ Fits(EmptyDb, AsKept(item), item.v)

\* An item is read where the one before it ended; a level is entered by its length, and is at
\* its end when it is left.  No bytes are not read with "c".
Passed(st, item, LS, r) ==
    [st EXCEPT !.ok = r.n # 0 /\ KeptValue(EmptyDb, AsKept(item), item.v, r.v, LS), !.s = Rest(@, r.n)]
Within(st, r) == [ok |-> r.n # 0, s |-> r.v, outer |-> Append(st.outer, Rest(st.s, r.n))]
Outside(st) == [ok |-> LeftIn(st.s) = 0, s |-> Last(st.outer), outer |-> Front(st.outer)]
ReadItem(st, item, LS, d) ==
    CASE ~st.ok \/ item = Arg("c", LuaString(<<>>)) -> st
      [] st.ok /\ item = Open -> Within(st, pb_readbytes(d, st.s))
      [] st.ok /\ item = Close -> Outside(st)
      [] OTHER -> Passed(st, item, LS, lpb_unpackscalar_(item, LS, d, st.s))
ItemsAreRead(items, LS, d) ==
    LET st == FoldLeft(LAMBDA now, item : ReadItem(now, item, LS, d),
                       [ok |-> TRUE, s |-> Slice(1, Len(d) + 1), outer |-> <<>>], items) IN
    st.ok /\ LeftIn(st.s) = 0

\* What is packed is read again, item by item; it is put behind what the buffer had, which
\* stays also when something raises; and a length can be put before it later.
PackedIsRead(items, packed, behind) ==
    /\ packed.ok <=> Balanced(items) /\ \A i \in DOMAIN items : ItemFits(items[i])
    /\ behind.ok = packed.ok /\ behind.b = <<1, 9>> \o packed.b
    /\ packed.ok =>
          /\ \A LS \in {LS \in Settings : LS.default_mode = "none"} : ItemsAreRead(items, LS, packed.b)
          /\ \A b \in {<<>>, <<1, 9>>}, n \in {0, 2, Len(packed.b) + 1} :
               \A put \in {lpb_packfmt(b, Append(items, Arg("#", <<"int", n>>)))} :
                 /\ n = Len(b) => put.b = b \o pb_addbytes(packed.b)
                 /\ put.ok <=> n <= Len(b \o packed.b)

\* Digits stand for the bytes they were made of.
DigitsStand(b) ==
    \A i, j \in -4..4 : Lpb_fromhex(Lpb_tohex(b, i, j), 1, -1) = Lpb_result(b, i, j)

\* A number is the same after both conversions, however it is given to Lua in between.
ConversionsInvert(v) ==
    \A mode \in {"number", "string", "hexstring"} :
        IF v[1] \in {"float", "boolean"}
        THEN v[1] = "float" => Lconv("decode_double", Lconv("encode_double", v, mode), mode) = v
        ELSE lpb_tointegerx(v).ok =>
                /\ SameInteger(Tsint32, v, Lconv("decode_sint32", Lconv("encode_sint32", v, mode), mode))
                /\ SameInteger(Tsint64, v, Lconv("decode_sint64", Lconv("encode_sint64", v, mode), mode))
                /\ SameInteger(Tint32, v, Lconv("int32", v, mode)) /\ SameInteger(Tuint32, v, Lconv("uint32", v, mode))

-----------------------------------------------------------------------------
(* The behaviours *)

\* A table is changed by the actions of PbTable; it is empty while other things are looked at.
PbInit == (form = "table" /\ input = <<>>) \/ WireInit \/ SchemaInit \/ MessageInit \/ PackInit

ChangeTable == form = "table" /\ TableNext /\ UNCHANGED <<form, input>>

PbNext == ChangeTable \/ ((AddByte \/ ChangeSchema) /\ UNCHANGED tableVars)

\* A message comes back as it was, whatever its order, to readers that know fewer fields or
\* pack their numbers otherwise, with another one after it; and of one that was cut only
\* what was complete is read.  What is packed without a type is read as it was packed.
MessagesAreKept ==
    /\ form \in {"bytes", "varint"} => ReadsOwnBytes(input)
    /\ form = "number" => NumbersAreRead(input[1])
    /\ form = "message" => MessageSurvives(Databases, input.type, input.value)
    /\ form = "pack" => PackedIsRead(input, lpb_packfmt(<<>>, input), lpb_packfmt(Lbuf_new(<<<<1>>, <<9>>>>), input))
    /\ form = "hex" => DigitsStand(input)
    /\ form = "conversion" => ConversionsInvert(input)
=============================================================================
