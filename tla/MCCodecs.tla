------------------------------ MODULE MCCodecs ------------------------------
(***************************************************************************)
(* One instance for TLC of what is computed without other actors: the two  *)
(* packers of values (LuaPack, MsgPack), JSON (Json), the patterns of      *)
(* lpeg, which grow operator by operator, and the tables of their values   *)
(* (KTable), the parser of HTTP, for which the characters arrive one after *)
(* the other, protobuf, whose tables, names and schemas change (PbTable,   *)
(* PbNames, PbMessage), and what lcrypt does with texts (MCCrypt).         *)
(***************************************************************************)
EXTENDS MsgPack, HttpParser, MCPatterns, MCProtobuf, KTable, PbNames, JsonConfig

CONSTANTS Precision, JsonDepth, SparseSafe, MaxTokens, MaxPieces, MaxNumeral

\* Of MCProtobuf's variables, `form' says what is looked at: "values", "http", "pattern", "keys",
\* "names", "crypt", "config", "slice", or a form of JSON or of protobuf; and `input' is the values to pack, the
\* text for lcrypt, or what there is of JSON or of protobuf.
VARIABLES
    pattern,        \* the pattern
    size            \* the operators it has grown by

J == INSTANCE MCJson
Crypt == INSTANCE MCCrypt WITH P <- 251, KeyLimit <- 256

cvars == <<form, input, tableVars, pattern, size, hvars, kvars, nameVars, configVars, sliceVars>>

Str(n) == <<"string", [i \in 1..n |-> i % Base]>>
Num(n) == <<"integer", n>>
Table(pairs) == <<"table", pairs>>
Array(n) == Table({<<Num(i), Num(i - 1)>> : i \in 1..n})
Function == <<"function">>

RECURSIVE Nested(_)
Nested(n) == IF n = 0 THEN Num(1) ELSE Table({<<Num(1), Nested(n - 1)>>})

\* The edges of each width, and one beyond.
Edges == {Base, Base ^ 2, Base ^ 4, Base ^ 8 \div 2, FixInt, FixNeg}
Numbers == {n \in UNION {{e - 1, e, e + 1, e \div 2, -e, 1 - e, -e - 1, -(e \div 2), -(e \div 2) - 1} : e \in Edges} :
               n \in (-(Base ^ 8 \div 2))..(Base ^ 8 \div 2 - 1)}

Scalars ==
    {Nil, <<"boolean", TRUE>>, <<"boolean", FALSE>>}
      \union {Num(n) : n \in Numbers} \union {<<"float", x>> : x \in {1, Base ^ 2, 2 * Base ^ 4}}
      \union {Str(n) : n \in 0..(Base ^ 2 + 1)}

Tables ==
    {Array(n) : n \in 1..(Base ^ 2 + 1)} \union {Nested(n) : n \in 1..(MAX_NESTING + 2)}
      \union {Table({})}
      \union {Table({<<Num(2), Num(1)>>}), Table({<<Num(0), Num(1)>>, <<Num(1), Str(1)>>}),
              Table({<<Num(1), Array(2)>>, <<Str(1), Nested(2)>>, <<Num(3), Num(-1)>>}),
              Table({<<Str(i), Num(i)>> : i \in 1..(FixLen + 1)}),
              Table({<<<<"boolean", FALSE>>, Str(0)>>})}

Odd == {Function, Table({<<Num(1), Function>>, <<Num(2), Num(1)>>}),
               Table({<<Function, Num(1)>>}), Table({<<Str(1), Table({<<Function, Nil>>})>>}),
               Table({<<Str(1), Function>>})}

Lists(S) == {<<a>> : a \in S} \union {<<a, b>> : a \in S, b \in S}

HttpStart == [
    request |-> {<<"a">>, <<"a", SP, "a", SP>>, <<"a", SP, "a", SP, HTTP1, "1", CR, LF>>,
                 <<"a", SP, "a", SP, HTTP1, "1", LF, "a", ":">>},
    response |-> {<<HTTP1, "1", SP>>, <<HTTP1, "1", SP, "1", "0", "1">>,
                  <<HTTP1, "0", SP, "1", "1", "1", SP, "a", CR, LF, "a", ":", "a">>},
    chunked |-> {<<"1">>, <<"1", "0", CR, LF>>, <<"0">>, <<"0", CR, LF>>}]

NoHttp == kind = "request" /\ buf = <<>> /\ before = Result(Incomplete, <<>>) /\ more = 0
NoPattern == pattern = A /\ size = 0

\* The varints of some bytes, and messages with parts, with parts that are too long, and with a
\* varint that does not end.
VarintsOf(d) == [p \in DOMAIN d |-> Varint(d, p, Len(d) + 1)]
Messages ==
    {VarintsOf(d) : d \in {<<>>, <<1>>, <<4, 2, 1, 0, 3, 1, 1>>, <<PbGroup + 3, 0, 2, PbGroup + 1, 1>>,
                          <<3, PbGroup + 1, PbGroup + 1, PbGroup + 1>>}}
Places == -2..3
NoSlice == varints = <<>> /\ curr = View(1, 1, 1) /\ buff = <<>> /\ entered = <<>>

OptionValues == {-1, 0, 1, 16, 17, INT_MAX + 1, 2 * INT_MAX + 3}

\* Two texts have the same hash, and all addresses one place in the cache.
NameHashes == [t \in Texts |-> IF t = "c" THEN 3 ELSE 1]
OnePlace == [a \in Addresses |-> 1]

CInit ==
    /\ TableInit /\ KTInit
    /\ \/ /\ form = "values"
          /\ input \in Lists(Scalars \union Tables \union Odd)
          /\ NoHttp /\ NoPattern
       \/ form = "http" /\ input = <<>> /\ HInit /\ NoPattern
       \/ /\ form = "pattern"
          /\ pattern \in Leaves \union Sources \union OneRule
          /\ input = <<>> /\ size = 0 /\ NoHttp
       \/ form \in {"keys", "names", "config", "slice"} /\ input = <<>> /\ NoHttp /\ NoPattern
       \/ (J!JsonInit \/ PbInit \/ Crypt!CryptInit(form, input)) /\ NoHttp /\ NoPattern
    /\ NamesInit /\ (form = "names" \/ memory = [a \in Addresses |-> "a"])
    /\ ConfigInit /\ IF form = "slice" THEN SliceInit ELSE NoSlice

\* An expression gets one more operator.
Grow ==
    /\ form = "pattern" /\ pattern[1] # "table"
    /\ pattern' \in CASE size = 0 -> Grown(pattern)
                      [] size = 1 -> Regrown(pattern)
                      [] size = 2 -> {}
    /\ size' = size + 1
    /\ UNCHANGED <<form, input, tableVars, hvars, kvars, nameVars, configVars, sliceVars>>

\* A grammar gets a second rule.
AddRule ==
    /\ form = "pattern" /\ pattern[1] = "table" /\ size = 0
    /\ pattern' \in TwoRules(pattern)
    /\ size' = size + 1
    /\ UNCHANGED <<form, input, tableVars, hvars, kvars, nameVars, configVars, sliceVars>>

MoreArrives ==
    form = "http" /\ HNext /\ UNCHANGED <<form, input, tableVars, pattern, size, kvars, nameVars, configVars, sliceVars>>

\* A text of JSON gets longer.
GoOn == form \in J!Forms /\ J!Longer /\ UNCHANGED <<tableVars, pattern, size, hvars, kvars, nameVars, configVars, sliceVars>>

\* A key is put into a table or removed, a byte arrives, a schema is loaded or cleared.
Protobuf == PbNext /\ UNCHANGED <<pattern, size, hvars, kvars, nameVars, configVars, sliceVars>>

\* A pattern is made of others, with their values; a name is used, given up, or looked for.
KeysMove == form = "keys" /\ KTNext /\ UNCHANGED <<form, input, tableVars, pattern, size, hvars, nameVars, configVars, sliceVars>>
NamesMove == form = "names" /\ NamesNext /\ UNCHANGED <<form, input, tableVars, pattern, size, hvars, kvars, configVars, sliceVars>>

\* An instance of lcjson is used; a message is read piece by piece.
ConfigMove ==
    form = "config" /\ ConfigNext /\ UNCHANGED <<form, input, tableVars, pattern, size, hvars, kvars, nameVars, sliceVars>>
SliceMove ==
    form = "slice" /\ SliceNext /\ UNCHANGED <<form, input, tableVars, pattern, size, hvars, kvars, nameVars, configVars>>

CNext ==
    \/ GoOn \/ Protobuf \/ Grow \/ AddRule \/ MoreArrives
    \/ KeysMove \/ NamesMove \/ ConfigMove \/ SliceMove

CSpec == CInit /\ [][CNext]_cvars

\* Values come out of a message as they went in, and texts out of what lcrypt writes, in digits,
\* in base64 or as a cipher; its sums are those of the definitions, and both sides of an exchange
\* have the same secret.
ValuesSurvive ==
    /\ form = "values" => PackedIsUnpacked(input) /\ MessagesAreUnpacked(input)
    /\ form = "crypt" => Crypt!CryptHolds(input)

\* What json.encode writes reads back as the value, but for what JSON has no room for, and
\* json.decode takes what is JSON; each instance has its own settings and buffer.
JsonIsKept == J!JsonIsKept /\ InstancesAreSound

\* What was said of an HTTP message stays true, and its head ends where its readers
\* think.
HeadsAreStable == form = "http" => AnswerStays /\ EndsAtEmptyLine

\* Whatever the compiler of lpeg makes of a pattern, with its tests, its partial commits
\* and its short cuts, matches what the pattern means, and with the same values; and however
\* the tables of these values were joined, each is the one the pattern was made with.
PatternsMatch ==
    /\ form = "pattern" => PatternMatches(pattern, Starts, <<Numeral(3)>>)
    /\ KeysMean

\* What protobuf knows after files were loaded and cleared is what was declared last, and its
\* names are those in use, however they are looked for; and the levels of a message that is read
\* in parts stay within one another.
SchemaIsKept == SchemaIsSound /\ NamesAreKept /\ LevelsNest
=============================================================================
