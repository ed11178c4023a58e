------------------------------ MODULE PbSchema ------------------------------
(***************************************************************************)
(* lpb.h: what pb knows of message types, names, types and fields, and the *)
(* loader.                                                                 *)
(*                                                                         *)
(* A name is kept once, with a count of its references; it is freed when   *)
(* the count goes down from 1.  A type is never freed, but may be dead.    *)
(* A field is in two tables of its type, by name and by number, and is     *)
(* freed when it is in neither; a freed one is the next to be allocated.   *)
(* Names are sequences of bytes.                                           *)
(*                                                                         *)
(* pb.load takes the bytes of a FileDescriptorSet, which is a protobuf     *)
(* message itself, reads them into descriptors, and adds what they declare *)
(* to the schema, declaration by declaration, until one is wrong.          *)
(***************************************************************************)
EXTENDS PbWire, Functions, TLC

CONSTANTS
    Dot,            \* the byte between the parts of a name
    RefLimit        \* the references that can be counted, 65536

None == <<-1>>      \* NULL for a name

\* What is known: names and how often they are used, types by name, the fields that are
\* allocated, and those that were freed.
EmptyDb == [names |-> <<>>, types |-> <<>>, fields |-> <<>>, freed |-> <<>>]

NewType == [dead |-> FALSE, enum |-> FALSE, map |-> FALSE, proto3 |-> FALSE,
            byName |-> <<>>, byNumber |-> <<>>, oneof |-> <<>>, count |-> 0]

NewField(t, name, number) ==
    [name |-> name, number |-> number, type |-> t, default |-> None, oneof_idx |-> 0, type_id |-> 0,
     repeated |-> FALSE, packed |-> FALSE]

\* The elements of a set in some order.
RECURSIVE Listed(_)
Listed(S) ==
    IF S = {} THEN <<>> ELSE LET x == CHOOSE x \in S : TRUE IN <<x>> \o Listed(S \ {x})

Lacking(f, x) == Restrict(f, DOMAIN f \ {x})
With(f, x, v) == (x :> v) @@ f

-----------------------------------------------------------------------------
(* Names *)

\* A name gets one more reference, which wraps around.
pb_newname(db, n) ==
    IF n = None THEN db
    ELSE [db EXCEPT !.names = With(@, n, IF n \in DOMAIN @ THEN (@[n] + 1) % RefLimit ELSE 1)]

pb_delname(db, n) ==
    CASE n \notin DOMAIN db.names -> db
      [] n \in DOMAIN db.names /\ db.names[n] <= 1 -> [db EXCEPT !.names = Lacking(@, n)]
      [] OTHER -> [db EXCEPT !.names[n] = @ - 1]

-----------------------------------------------------------------------------
(* What is found *)

pb_type(db, n) == IF n \in DOMAIN db.types /\ ~db.types[n].dead THEN n ELSE None

\* The field of a type, 0 for none.
pb_fname(db, t, n) == IF n \in DOMAIN db.types[t].byName THEN db.types[t].byName[n] ELSE 0
pb_field(db, t, k) == IF k \in DOMAIN db.types[t].byNumber THEN db.types[t].byNumber[k] ELSE 0

\* lpb_type, for Lua: a name is complete with the dot before it.
lpb_type(db, n) ==
    pb_type(db, IF n # <<>> /\ Head(n) = Dot THEN n ELSE <<Dot>> \o n)

\* What pb.fields finds of a type after the field it was given last: it takes the field by
\* that one's name, and goes on after that field's number, or starts again.
Lpb_fieldsiter(db, t, n) ==
    LET f == pb_fname(db, t, n)
        from == IF n # None /\ pb_field(db, t, db.fields[f].number) # 0 THEN db.fields[f].number ELSE -RefLimit
        later == {k \in DOMAIN db.types[t].byNumber : k > from} IN
    IF (n # None /\ f = 0) \/ later = {} THEN 0 ELSE pb_field(db, t, Min(later))

-----------------------------------------------------------------------------
(* What is added and removed *)

pb_newtype(db, n) ==
    IF n \in DOMAIN db.types THEN [db EXCEPT !.types[n].dead = FALSE]
    ELSE [db EXCEPT !.types = With(@, n, NewType)]

pbT_freefield(db, f) ==
    IF f \notin DOMAIN db.fields THEN [db EXCEPT !.freed = <<f>> \o @]
    ELSE [pb_delname(pb_delname(db, db.fields[f].default), db.fields[f].name)
            EXCEPT !.fields = Lacking(@, f), !.freed = <<f>> \o @]

FreeIf(drop, db, f) == IF drop THEN pbT_freefield(db, f) ELSE db

RECURSIVE FreeFields(_, _)
FreeFields(db, fs) == IF fs = <<>> THEN db ELSE FreeFields(pbT_freefield(db, Head(fs)), Tail(fs))

RECURSIVE DelNames(_, _)
DelNames(db, ns) == IF ns = <<>> THEN db ELSE DelNames(pb_delname(db, Head(ns)), Tail(ns))

\* Slip: what the new field replaces is freed although it may still be found.
Replacing_Slip(db, t, f, name, number, nf, tf) ==
    LET freed == FreeIf(tf # 0, FreeIf(nf # 0, db, nf), tf) IN
    [freed EXCEPT !.fields = With(@, f, NewField(t, name, number)),
                  !.types[t].byName = With(@, name, f),
                  !.types[t].byNumber = With(@, number, f),
                  !.types[t].count = @ + 1]

\* A field that replaces two others, one by name, one by number, frees those that can no
\* longer be found.  nf and tf are those two.
Replacing(db, t, f, name, number, nf, tf) ==
    LET drop1 == nf # 0 /\ pb_field(db, t, db.fields[nf].number) # nf
        drop2 == tf # 0 /\ pb_fname(db, t, db.fields[tf].name) # tf
        n == (IF drop1 THEN 1 ELSE 0) + (IF drop2 THEN 1 ELSE 0)
        freed == FreeIf(drop2, FreeIf(drop1, db, nf), tf) IN
    [freed EXCEPT !.fields = With(@, f, NewField(t, name, number)),
                  !.types[t].byName = With(@, name, f),
                  !.types[t].byNumber = With(@, number, f),
                  !.types[t].count = @ + 1 - n]

\* pb_poolalloc: the field freed last, or one that was never used.
Allocated(db) == IF db.freed # <<>> THEN Head(db.freed) ELSE Cardinality(DOMAIN db.fields) + 1
Taken(db) == [db EXCEPT !.freed = IF @ = <<>> THEN @ ELSE Tail(@)]

\* A field that has this name and this number already is used again.
pb_newfield(db, t, name, number) ==
    LET nf == pb_fname(db, t, name)
        tf == pb_field(db, t, number) IN
    IF nf # 0 /\ nf = tf
    THEN [f |-> nf, db |-> [pb_delname(db, db.fields[nf].default) EXCEPT !.fields[nf].default = None]]
    ELSE [f |-> Allocated(db), db |-> Replacing(Taken(db), t, Allocated(db), name, number, nf, tf)]

pb_delfield(db, t, f) ==
    LET r == db.fields[f]
        named == pb_fname(db, t, r.name) = f
        numbered == pb_field(db, t, r.number) = f
        cut == [db EXCEPT !.types[t].byName = IF named THEN Lacking(@, r.name) ELSE @,
                          !.types[t].byNumber = IF numbered THEN Lacking(@, r.number) ELSE @] IN
    IF named \/ numbered THEN [pbT_freefield(cut, f) EXCEPT !.types[t].count = @ - 1] ELSE db

\* First what can be found by name, which leaves the other table; then what is left there.
pb_deltype(db, t) ==
    LET type == db.types[t]
        named == Range(type.byName)
        left == {k \in DOMAIN type.byNumber :
                    ~\E f \in named : db.fields[f].number = k /\ type.byNumber[k] = f} IN
    [DelNames(FreeFields(db, Listed(named) \o Listed({type.byNumber[k] : k \in left})),
              type.oneof)
        EXCEPT !.types[t] = [@ EXCEPT !.dead = TRUE, !.count = 0,
                                      !.byName = <<>>, !.byNumber = <<>>, !.oneof = <<>>]]

-----------------------------------------------------------------------------
(* Properties *)

FieldsOf(db, t) == Range(db.types[t].byName) \union Range(db.types[t].byNumber)

\* Fields are of one type, are in the tables under their own name and number, and are not
\* freed; those that are in no table are freed, once.
FieldsAreOwned(db) ==
    LET All == UNION {FieldsOf(db, t) : t \in DOMAIN db.types} IN
    /\ DOMAIN db.fields = All
    /\ IsInjective(db.freed) /\ Range(db.freed) \intersect All = {}
    /\ \A t, u \in DOMAIN db.types : t # u => FieldsOf(db, t) \intersect FieldsOf(db, u) = {}
    /\ \A t \in DOMAIN db.types :
          /\ \A n \in DOMAIN db.types[t].byName : db.fields[db.types[t].byName[n]].name = n
          /\ \A k \in DOMAIN db.types[t].byNumber : db.fields[db.types[t].byNumber[k]].number = k
          /\ db.types[t].count = Cardinality(FieldsOf(db, t))
          /\ db.types[t].dead => FieldsOf(db, t) = {}

\* What pb.fields comes to, in `steps' steps.
RECURSIVE Walked(_, _, _, _)
Walked(db, t, name, steps) ==
    LET f == Lpb_fieldsiter(db, t, name) IN
    IF f = 0 \/ steps = 0 THEN <<>>
    ELSE <<f>> \o Walked(db, t, db.fields[f].name, steps - 1)

\* pb.fields comes to every field that has a number, once, and ends; unless one was found
\* by its number alone: its name leads it elsewhere.
FieldsAreListed(db) ==
    \A t \in DOMAIN db.types :
        LET numbered == Range(db.types[t].byNumber)
            walk == Walked(db, t, None, Cardinality(numbered) + 1) IN
        numbered \subseteq Range(db.types[t].byName) => Range(walk) = numbered /\ IsInjective(walk)

Uses(db, n) ==
    (IF n \in DOMAIN db.types THEN 1 ELSE 0)
      + Cardinality({f \in DOMAIN db.fields : db.fields[f].name = n})
      + Cardinality({f \in DOMAIN db.fields : db.fields[f].default = n})
      + Cardinality({<<t, i>> \in (DOMAIN db.types) \X (1..3) :
                       i \in DOMAIN db.types[t].oneof /\ db.types[t].oneof[i] = n})

\* A name that is used is there, with at least as many references.
NamesAreHeld(db) ==
    LET Used == (DOMAIN db.types \union {db.fields[f].name : f \in DOMAIN db.fields}
                   \union {db.fields[f].default : f \in DOMAIN db.fields}) \ {None} IN
    \A n \in Used : n \in DOMAIN db.names /\ Uses(db, n) <= db.names[n]

-----------------------------------------------------------------------------
(* The loader *)

Proto3 == <<112, 114, 111, 116, 111, 51>>

\* The types of fields.
Tdouble == 1
Tfloat == 2
Tint64 == 3
Tuint64 == 4
Tint32 == 5
Tfixed64 == 6
Tfixed32 == 7
Tbool == 8
Tstring == 9
Tgroup == 10
Tmessage == 11
Tbytes == 12
Tuint32 == 13
Tenum == 14
Tsfixed32 == 15
Tsfixed64 == 16
Tsint32 == 17
Tsint64 == 18

LABEL_REPEATED == 3       \* the label

-----------------------------------------------------------------------------
(* The descriptors *)

\* A descriptor nothing has been read of.
Fresh == [
    file |-> [package |-> None, syntax |-> None, enum_type |-> <<>>, message_type |-> <<>>,
              extension |-> <<>>],
    type |-> [name |-> None, is_map |-> 0, field |-> <<>>, extension |-> <<>>, enum_type |-> <<>>,
              nested_type |-> <<>>, oneof_decl |-> <<>>],
    field |-> [name |-> None, type_name |-> None, extendee |-> None, default_value |-> None,
               number |-> 0, label |-> 0, type |-> 0, oneof_index |-> 0, packed |-> -1],
    enum |-> [name |-> None, value |-> <<>>],
    value |-> [name |-> None, number |-> 0],
    set |-> [file |-> <<>>]]

\* What is read of each: under which number, into what, and how: as bytes, as a number, as
\* descriptors that are collected, or as a message with more of the same descriptor.
Known == [
    set |-> {<<1, "file", "file">>},
    file |-> {<<2, "package", "bytes">>, <<4, "message_type", "type">>, <<5, "enum_type", "enum">>,
              <<7, "extension", "field">>, <<12, "syntax", "bytes">>},
    type |-> {<<1, "name", "bytes">>, <<2, "field", "field">>, <<6, "extension", "field">>,
              <<3, "nested_type", "type">>, <<4, "enum_type", "enum">>, <<8, "oneof_decl", "oneof">>,
              <<7, "is_map", "options">>},
    field |-> {<<1, "name", "bytes">>, <<3, "number", "int32">>, <<4, "label", "int32">>,
               <<5, "type", "int32">>, <<6, "type_name", "bytes">>, <<2, "extendee", "bytes">>,
               <<7, "default_value", "bytes">>, <<8, "packed", "options">>,
               <<9, "oneof_index", "int32">>},
    enum |-> {<<1, "name", "bytes">>, <<2, "value", "value">>},
    value |-> {<<1, "name", "bytes">>, <<2, "number", "int32">>}]

\* Of options, one number is looked at: FieldOptions.packed, MessageOptions.map_entry.
OptionOf == [packed |-> 2, is_map |-> 7]

Text(d, s) == SubSeq(d, s.p, s.end - 1)
Collected == {"file", "type", "field", "enum", "value"}

\* The number under `number' in the options, `sofar' if it is not there; the names of
\* oneofs are read likewise.  A result that failed has n = 0.  t is a tag.
RECURSIVE OptionIn(_, _, _, _), NamesIn(_, _, _)
OptionRead(d, s, r, number) ==
    IF r.n = 0 THEN NotRead ELSE OptionIn(d, Rest(s, r.n), number, AsSigned(r.v, W32))
OptionFrom(d, t, number, sofar) ==
    IF ~t.ok THEN [n |-> 1, v |-> sofar]
    ELSE IF t.v = pb_pair(number, VARINT) THEN OptionRead(d, t.s, pb_readvarint32(d, t.s), number)
    ELSE OptionIn(d, Rest(t.s, pb_skipvalue(d, t.s, t.v)), number, sofar)
OptionIn(d, s, number, sofar) == OptionFrom(d, TagAt(d, s), number, sofar)

NameRead(d, s, r, names) ==
    IF r.n = 0 THEN NotRead ELSE NamesIn(d, Rest(s, r.n), Append(names, Text(d, r.v)))
NamesFrom(d, t, names) ==
    IF ~t.ok THEN [n |-> 1, v |-> names]
    ELSE IF t.v = pb_pair(1, BYTES) THEN NameRead(d, t.s, pb_readbytes(d, t.s), names)
    ELSE NamesIn(d, Rest(t.s, pb_skipvalue(d, t.s, t.v)), names)
NamesIn(d, s, names) == NamesFrom(d, TagAt(d, s), names)

RECURSIVE pbL_read(_, _, _, _)

\* One entry of a descriptor: [n |-> bytes taken, v |-> the descriptor with it].
NumberEntered(info, k, r) ==
    [n |-> r.n, v |-> [info EXCEPT ![k[2]] = AsSigned(r.v, W32) + IF k[2] = "oneof_index" THEN 1 ELSE 0]]
Content(d, s, info, k) ==
    CASE k[3] \in Collected -> pbL_read(k[3], d, s, Fresh[k[3]])
      [] k[3] = "options" -> OptionIn(d, s, OptionOf[k[2]], info[k[2]])
      [] k[3] = "oneof" -> NamesIn(d, s, info.oneof_decl)
      [] OTHER -> [n |-> 1, v |-> Text(d, s)]
ContentEntered(info, k, n, content) ==
    IF content.n = 0 THEN NotRead
    ELSE [n |-> n, v |-> [info EXCEPT ![k[2]] = IF k[3] \in Collected THEN Append(@, content.v) ELSE content.v]]
BytesEntered(d, info, k, b) ==
    IF b.n = 0 THEN NotRead ELSE ContentEntered(info, k, b.n, Content(d, b.v, info, k))
Entered(d, s, info, k) ==
    IF k[3] = "int32" THEN NumberEntered(info, k, pb_readvarint32(d, s))
    ELSE BytesEntered(d, info, k, pb_readbytes(d, s))

\* pbL_FileDescriptorSet, pbL_FileDescriptorProto, pbL_DescriptorProto and so on, each with
\* its entries.  Whatever else there is is skipped.
GoOnAfter(sort, d, s, e) == IF e.n = 0 THEN NotRead ELSE pbL_read(sort, d, Rest(s, e.n), e.v)
EntryFrom(sort, d, t, info) ==
    LET known == {k \in Known[sort] : t.v = pb_pair(k[1], IF k[3] = "int32" THEN VARINT ELSE BYTES)} IN
    IF ~t.ok THEN [n |-> 1, v |-> info]
    ELSE IF known = {} THEN pbL_read(sort, d, Rest(t.s, pb_skipvalue(d, t.s, t.v)), info)
    ELSE GoOnAfter(sort, d, t.s, Entered(d, t.s, info, CHOOSE k \in known : TRUE))
pbL_read(sort, d, s, info) == EntryFrom(sort, d, TagAt(d, s), info)

-----------------------------------------------------------------------------
(* What they declare *)

Declare(op, t, info) == <<[op |-> op, type |-> t, info |-> info, proto3 |-> FALSE]>>
Each(op, t, infos) == FlattenSeq([i \in DOMAIN infos |-> Declare(op, t, infos[i])])

\* pbL_prefixname: no name, or an empty one, cannot be added to the prefix.
pbL_prefixname(prefix, n) ==
    IF prefix = None \/ n \in {None, <<>>} THEN None ELSE prefix \o <<Dot>> \o n

EnumSteps(prefix, info) ==
    LET t == pbL_prefixname(prefix, info.name) IN Declare("enum", t, info) \o Each("value", t, info.value)

\* A type, the names of its oneofs, its fields, the extensions and types declared within it.
RECURSIVE TypeSteps(_, _)
TypeSteps(prefix, info) ==
    LET t == pbL_prefixname(prefix, info.name) IN
    Declare("type", t, info)
      \o Each("oneof", t, [i \in DOMAIN info.oneof_decl |-> <<i, info.oneof_decl[i]>>])
      \o Each("field", t, info.field) \o Each("field", None, info.extension)
      \o FlattenSeq([i \in DOMAIN info.enum_type |-> EnumSteps(t, info.enum_type[i])])
      \o FlattenSeq([i \in DOMAIN info.nested_type |-> TypeSteps(t, info.nested_type[i])])

\* The declarations of a file, in the order they are loaded in.
FileSteps(info) ==
    LET prefix == IF info.package = None THEN <<>> ELSE pbL_prefixname(<<>>, info.package)
        proto3 == info.syntax = Proto3
        steps == Declare("package", prefix, info)
                   \o FlattenSeq([i \in DOMAIN info.enum_type |-> EnumSteps(prefix, info.enum_type[i])])
                   \o FlattenSeq([i \in DOMAIN info.message_type |->
                                    TypeSteps(prefix, info.message_type[i])])
                   \o Each("field", None, info.extension) IN
    [i \in DOMAIN steps |-> [steps[i] EXCEPT !.proto3 = proto3]]

\* A field, with what is said of it.
SetField(db, f, info, ft, proto3) ==
    [pb_newname(db, info.default_value) EXCEPT !.fields[f] =
        [@ EXCEPT !.default = info.default_value, !.type = ft,
                  !.oneof_idx = info.oneof_index, !.type_id = info.type,
                  !.repeated = info.label = LABEL_REPEATED,
                  !.packed = /\ info.type \notin Tstring..Tbytes
                             /\ IF info.packed >= 0 THEN info.packed # 0
                                ELSE proto3 /\ info.label = LABEL_REPEATED]]

NewNamed(db, n) == IF n = None THEN db ELSE pb_newtype(pb_newname(db, n), n)
Loaded(db) == [ok |-> TRUE, db |-> db]
Failed(db) == [ok |-> FALSE, db |-> db]

\* Its type and the type it is added to, which need not have been loaded; and the field.
FieldAdded(new, info, ft, proto3) == Loaded(SetField(new.db, new.f, info, ft, proto3))
FieldIn(db, of, info, ft, proto3) ==
    CASE of = None -> Failed(db)
      [] of # None /\ info.name = None -> Failed(db)
      [] OTHER -> FieldAdded(pb_newfield(pb_newname(db, info.name), of, info.name, info.number), info, ft, proto3)
FieldOf(db, t, info, ft, proto3) ==
    IF t # None THEN FieldIn(db, t, info, ft, proto3)
    ELSE FieldIn(NewNamed(db, info.extendee), info.extendee, info, ft, proto3)
pbL_loadField(db, t, info, proto3) ==
    CASE info.type \notin {Tmessage, Tenum} -> FieldOf(db, t, info, None, proto3)
      [] info.type \in {Tmessage, Tenum} /\ info.type_name = None -> Failed(db)
      [] OTHER -> FieldOf(NewNamed(db, info.type_name), t, info, info.type_name, proto3)

\* One declaration.
Load(db, step) ==
    LET t == step.type
        info == step.info IN
    CASE step.op \in {"package", "type", "enum"} /\ t = None -> Failed(db)
      [] step.op = "package" /\ t # None -> Loaded(db)
      [] step.op = "type" /\ t # None ->
            Loaded([NewNamed(db, t) EXCEPT !.types[t].map = info.is_map # 0, !.types[t].proto3 = step.proto3])
      [] step.op = "enum" /\ t # None -> Loaded([NewNamed(db, t) EXCEPT !.types[t].enum = TRUE])
      [] step.op = "oneof" ->
            Loaded([pb_newname(db, info[2]) EXCEPT !.types[t].oneof = With(@, info[1], info[2])])
      [] step.op = "value" /\ info.name = None -> Failed(db)
      [] step.op = "value" /\ info.name # None ->
            Loaded(pb_newfield(pb_newname(db, info.name), t, info.name, info.number).db)
      [] OTHER -> pbL_loadField(db, t, info, step.proto3)

RECURSIVE pbL_load(_, _)
LoadRest(r, steps) == IF r.ok THEN pbL_load(r.db, steps) ELSE r
pbL_load(db, steps) == IF steps = <<>> THEN Loaded(db) ELSE LoadRest(Load(db, Head(steps)), Tail(steps))

\* What is wrong in the bytes is found before anything is loaded; what is wrong with a name
\* leaves what was loaded before it.
LoadSet(db, set) ==
    IF set.n = 0 THEN Failed(db)
    ELSE pbL_load(pb_newname(db, Proto3), FlattenSeq([i \in DOMAIN set.v.file |-> FileSteps(set.v.file[i])]))
pb_load(db, d) == LoadSet(db, pbL_read("set", d, Slice(1, Len(d) + 1), Fresh.set))
=============================================================================
