----------------------------- MODULE JsonConfig -----------------------------
(***************************************************************************)
(* lcjson, the instances (lua_cjson.c): each has its settings, which are C *)
(* integers, and perhaps a buffer it keeps from one json.encode to the     *)
(* next; whether a slash is escaped is the process's.  Json has what is    *)
(* written and read with given settings.                                   *)
(*                                                                         *)
(* Of a text only its length is here.                                      *)
(***************************************************************************)
EXTENDS Integers, Sequences

CONSTANTS
    Configs,        \* the instances that may be made
    BufferPlaces, NoBuffer,     \* addresses of buffers
    INT_MAX,        \* an argument of an option becomes an int
    LuaIntegers,    \* the numbers given to options
    TextLengths,    \* of what is encoded or decoded
    BufferSize,     \* STRBUF_DEFAULT_SIZE, 1023
    DefaultDepth, DefaultPrecision, DefaultSafe,   \* 1000, 14 and 10
    MaxCalls        \* bound

ASSUME JsonConfigAssumption ==
    /\ INT_MAX \in Nat /\ INT_MAX >= 16
    /\ DefaultDepth \in 1..INT_MAX /\ DefaultPrecision \in 1..16 /\ DefaultSafe \in 0..INT_MAX
    /\ LuaIntegers \subseteq Int /\ NoBuffer \notin BufferPlaces

VARIABLES
    settings,       \* of each instance there is
    keptbuffers,    \* for each instance, where its buffer is and how large
    heap,           \* the buffers allocated
    escapedslash,   \* char2escape['/'] is not NULL
    calls           \* how many calls there were

configVars == <<settings, keptbuffers, heap, escapedslash, calls>>

Buffer(at, size, length) == [at |-> at, size |-> size, length |-> length]
NoneKept == Buffer(NoBuffer, 0, 0)
Live == DOMAIN settings

-----------------------------------------------------------------------------
(* Options *)

IntegerOptions ==
    {"encode_sparse_ratio", "encode_sparse_safe", "encode_max_depth", "decode_max_depth",
     "encode_number_precision"}
EnumOptions ==
    {"encode_sparse_convert", "encode_empty_table_as_object", "decode_array_with_array_mt",
     "encode_keep_buffer", "encode_invalid_numbers", "decode_invalid_numbers",
     "encode_escape_forward_slash"}
Options == IntegerOptions \union EnumOptions

\* What a setting may be.
Allowed(option) ==
    CASE option \in {"encode_sparse_ratio", "encode_sparse_safe"} -> 0..INT_MAX
      [] option \in {"encode_max_depth", "decode_max_depth"} -> 1..INT_MAX
      [] option = "encode_number_precision" -> 1..16
      [] option = "encode_invalid_numbers" -> 0..2
      [] OTHER -> 0..1

DefaultOf(option) ==
    CASE option \in {"encode_max_depth", "decode_max_depth"} -> DefaultDepth
      [] option = "encode_number_precision" -> DefaultPrecision
      [] option = "encode_sparse_safe" -> DefaultSafe
      [] option = "encode_sparse_ratio" -> 2
      [] option \in {"encode_sparse_convert", "encode_invalid_numbers", "decode_array_with_array_mt"} -> 0
      [] OTHER -> 1

\* The arguments: nil, a boolean, a number, a word.
NilArg == <<"nil">>
LuaBoolean(b) == <<"boolean", b>>
LuaNumber(n) == <<"number", n>>
LuaWord(s) == <<"word", s>>

\* The words an option takes; that at place 1 stands for TRUE.
WordsOf(option) == <<"off", "on">> \o (IF option = "encode_invalid_numbers" THEN <<"null">> ELSE <<>>)

\* A number of Lua is cut off to an int.
ToInt(n) == ((n + INT_MAX + 1) % (2 * (INT_MAX + 1))) - (INT_MAX + 1)

\* Whether an argument is taken; otherwise the call raises.
json_integer_option_takes(option, arg) ==
    arg = NilArg \/ (arg[1] = "number" /\ ToInt(arg[2]) \in Allowed(option))
json_enum_option_takes(option, arg) ==
    arg = NilArg \/ arg[1] = "boolean" \/ \E i \in 1..Len(WordsOf(option)) : arg = LuaWord(WordsOf(option)[i])

Takes(option, arg) ==
    IF option \in IntegerOptions THEN json_integer_option_takes(option, arg)
    ELSE json_enum_option_takes(option, arg)

\* The setting afterwards.
json_integer_option(setting, arg) == IF arg = NilArg THEN setting ELSE ToInt(arg[2])
json_enum_option(option, setting, arg) ==
    CASE arg = NilArg -> setting
      [] arg[1] = "boolean" -> IF arg[2] THEN 1 ELSE 0
      [] OTHER -> (CHOOSE i \in 1..Len(WordsOf(option)) : arg = LuaWord(WordsOf(option)[i])) - 1

SetTo(option, setting, arg) ==
    IF option \in IntegerOptions THEN json_integer_option(setting, arg)
    ELSE json_enum_option(option, setting, arg)

\* What the call returns for it.
Shown(option, setting) ==
    CASE option \in IntegerOptions -> LuaNumber(setting)
      [] option \in EnumOptions /\ setting \in 0..1 -> LuaBoolean(setting = 1)
      [] OTHER -> LuaWord(WordsOf(option)[setting + 1])

\* The options of a function, which are set one after the other up to one that raises.
Sparse == <<"encode_sparse_convert", "encode_sparse_ratio", "encode_sparse_safe">>
OptionCalls == {<<option>> : option \in Options \ {Sparse[1], Sparse[2], Sparse[3]}} \union {Sparse}

ArgAt(args, k) == IF k <= Len(args) THEN args[k] ELSE NilArg
TakenUpTo(function, args, k) == \A j \in 1..k : Takes(function[j], ArgAt(args, j))

\* The settings of an instance after a call; with too many arguments nothing is looked at.
AfterCall(before, function, args) ==
    [option \in Options |->
        IF \E k \in DOMAIN function : function[k] = option /\ TakenUpTo(function, args, k)
        THEN LET k == CHOOSE i \in DOMAIN function : function[i] = option IN
             SetTo(option, before[option], ArgAt(args, k))
        ELSE before[option]]

-----------------------------------------------------------------------------
(* strbuf.c *)

\* The size of a buffer of `size' with room for a text and its end.
SizeFor(size, length) ==
    IF length < size THEN size
    ELSE LET k == CHOOSE i \in 1..(length + 1) : size * 2^i > length /\ size * 2^(i - 1) <= length IN size * 2^k

\* strbuf_init, and strbuf_free, which forgets the place.
KeptAt(at) == Buffer(at, BufferSize, 0)

-----------------------------------------------------------------------------
(* Calls *)

Counted == calls < MaxCalls /\ calls' = calls + 1

ConfigInit ==
    /\ settings = <<>> /\ keptbuffers = [c \in Configs |-> NoneKept]
    /\ heap = {} /\ escapedslash = TRUE /\ calls = 0

\* cjson.new: the new instance keeps a buffer; how a slash is written stays as it is.
json_create_config(c) ==
    /\ c \notin Live /\ Counted
    /\ settings' = [d \in Live \union {c} |->
                       IF d = c THEN [option \in Options |-> DefaultOf(option)] ELSE settings[d]]
    /\ \E at \in BufferPlaces \ heap :
          /\ heap' = heap \union {at}
          /\ keptbuffers' = [keptbuffers EXCEPT ![c] = KeptAt(at)]
    /\ UNCHANGED escapedslash

\* The buffer is made or freed when the setting has changed.
json_cfg_encode_keep_buffer(c, old, new) ==
    CASE old = new -> UNCHANGED <<keptbuffers, heap>>
      [] old # new /\ new = 1 ->
             \E at \in BufferPlaces \ heap :
                /\ heap' = heap \union {at}
                /\ keptbuffers' = [keptbuffers EXCEPT ![c] = KeptAt(at)]
      [] OTHER -> /\ heap' = heap \ {keptbuffers[c].at}
                  /\ keptbuffers' = [keptbuffers EXCEPT ![c] = NoneKept]

\* Also a call that only asks for the setting makes it the process's.
json_cfg_encode_escape_forward_slash(function, args, new) ==
    escapedslash' = IF function = <<"encode_escape_forward_slash">> /\ TakenUpTo(function, args, 1)
                    THEN new = 1 ELSE escapedslash

\* A call of an option's function.
Configure(c, function, args) ==
    /\ c \in Live /\ Counted
    /\ IF Len(args) > Len(function) THEN UNCHANGED <<settings, keptbuffers, heap, escapedslash>>
       ELSE LET after == AfterCall(settings[c], function, args) IN
            /\ settings' = [settings EXCEPT ![c] = after]
            /\ json_cfg_encode_keep_buffer(c, settings[c]["encode_keep_buffer"], after["encode_keep_buffer"])
            /\ json_cfg_encode_escape_forward_slash(function, args, after["encode_escape_forward_slash"])

\* json.encode: the kept buffer is emptied and used again, by what is written up to the end or
\* an error; a buffer of its own is allocated, and freed in both cases.
json_encode(c, length) ==
    /\ c \in Live /\ Counted
    /\ IF settings[c]["encode_keep_buffer"] = 1
       THEN keptbuffers' = [keptbuffers EXCEPT
                ![c] = Buffer(keptbuffers[c].at, SizeFor(keptbuffers[c].size, length), length)]
       ELSE BufferPlaces \ heap # {} /\ UNCHANGED keptbuffers
    /\ UNCHANGED <<settings, heap, escapedslash>>

\* The instance is garbage.
json_destroy_config(c) ==
    /\ c \in Live /\ Counted
    /\ settings' = [d \in Live \ {c} |-> settings[d]]
    /\ heap' = heap \ {keptbuffers[c].at}
    /\ keptbuffers' = [keptbuffers EXCEPT ![c] = NoneKept]
    /\ UNCHANGED escapedslash

Arguments == {NilArg, LuaWord("off"), LuaWord("on"), LuaWord("null")}
               \union {LuaBoolean(b) : b \in BOOLEAN} \union {LuaNumber(n) : n \in LuaIntegers}
SparseArguments == {LuaBoolean(TRUE), LuaWord("null")} \X {NilArg} \X {LuaNumber(n) : n \in LuaIntegers}
GivenTo(function) ==
    {<<>>} \union {<<a>> : a \in Arguments} \union {<<LuaBoolean(TRUE), NilArg, NilArg, NilArg>>}
      \union (IF function = Sparse THEN {<<t[1], t[2], t[3]>> : t \in SparseArguments} ELSE {})

ConfigNext ==
    \E c \in Configs :
        \/ json_create_config(c) \/ json_destroy_config(c)
        \/ \E function \in OptionCalls : \E args \in GivenTo(function) : Configure(c, function, args)
        \/ \E length \in TextLengths : json_encode(c, length)

ConfigSpec == ConfigInit /\ [][ConfigNext]_configVars

-----------------------------------------------------------------------------
(* Correctness *)

\* The buffers allocated are those kept, each by one instance: those that are to keep one.
BuffersAreKept ==
    /\ \A c \in Configs : keptbuffers[c].at # NoBuffer <=> c \in Live /\ settings[c]["encode_keep_buffer"] = 1
    /\ heap = {keptbuffers[c].at : c \in Configs} \ {NoBuffer}
    /\ \A c, d \in Configs : keptbuffers[c].at = keptbuffers[d].at /\ keptbuffers[c].at # NoBuffer => c = d

\* Whatever number of Lua a call gives, each setting is in its range, and what a call returns,
\* given to the same option, is taken and leaves the setting as it is.
SettingsAreAllowed ==
    \A c \in Live, option \in Options :
        LET now == settings[c][option] IN
        /\ now \in Allowed(option)
        /\ Takes(option, Shown(option, now)) /\ SetTo(option, now, Shown(option, now)) = now

\* A text is within its buffer, with its end.
TextsFit == \A c \in Configs : keptbuffers[c].at # NoBuffer => keptbuffers[c].length < keptbuffers[c].size

InstancesAreSound == BuffersAreKept /\ SettingsAreAllowed /\ TextsFit
=============================================================================
