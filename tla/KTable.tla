------------------------------- MODULE KTable -------------------------------
(***************************************************************************)
(* lpeg, the tables of values (lptree.c): a tree has no Lua values in it,  *)
(* only their places in a table which patterns may share, and which are    *)
(* corrected when the tables of two patterns become one.  PegTree has the  *)
(* values in the trees.                                                    *)
(*                                                                         *)
(* Of a tree only the nodes with a key are here, in the order they have    *)
(* in the array of the code.                                               *)
(***************************************************************************)
EXTENDS Integers, Sequences

CONSTANTS
    LuaValues, NoValue,        \* the Lua values, and the one that is not put into a table
    USHRT_MAX,          \* the last place of a table: the keys are unsigned shorts
    MaxPatterns, MaxNodes, MaxPlain     \* bounds

ASSUME KTableAssumption ==
    /\ NoValue \notin LuaValues
    /\ USHRT_MAX \in Nat \ {0} /\ MaxPatterns \in Nat /\ MaxNodes \in Nat /\ MaxPlain \in Nat

VARIABLES
    ktables,        \* the tables there are; the first one is the metatable, which is empty
    patterns        \* the patterns there are, each with what its nodes were made with

kvars == <<ktables, patterns>>

META == 1

\* "value": a capture, or a function for the time of the match; "plain": the number of a
\* capture; "open": a call of a rule; "call": one that has found its rule; "rule".
Kinds == {"value", "plain", "open", "call", "rule"}
KeyNode(kind, key) == [kind |-> kind, key |-> key]
Lua == LuaValues \union {NoValue}

HasKey(node) == node.kind # "plain" /\ node.key > 0

\* What a node is about.
Named(node, table) ==
    CASE node.kind = "plain" -> node.key
      [] HasKey(node) -> table[node.key]
      [] OTHER -> NoValue

-----------------------------------------------------------------------------
(* The tables *)

\* The new place, and the table with it: a nil is not added.
addtoktable(table, v) ==
    IF v = NoValue THEN [key |-> 0, table |-> table]
    ELSE [key |-> Len(table) + 1, table |-> Append(table, v)]
HasRoom(table, v) == v # NoValue => Len(table) < USHRT_MAX

correctkeys(tree, n) ==
    [i \in DOMAIN tree |-> IF HasKey(tree[i]) THEN [kind |-> tree[i].kind, key |-> tree[i].key + n] ELSE tree[i]]

\* By how much the keys of what comes later move: nothing, if it has no values.
Offset(table, later) == IF later = <<>> THEN 0 ELSE Len(table)

TableAt(p) == ktables[patterns[p].ktable]

\* A table is new, or that of a pattern.
Pattern(tree, ktable, means) == [tree |-> tree, ktable |-> ktable, means |-> means]

Made(tree, ktable, means) ==
    /\ Len(tree) <= MaxNodes
    /\ patterns' = Append(patterns, Pattern(tree, ktable, means))

Shares(ktable) == UNCHANGED ktables /\ ktable \in DOMAIN ktables
Adds(table) == ktables' = Append(ktables, table)
NewTable == Len(ktables) + 1

-----------------------------------------------------------------------------
(* Patterns *)

\* A set, a string, a number, a boolean: nothing that has a key.
Leaf == Made(<<>>, META, <<>>) /\ Shares(META)

\* Carg: the number of an argument.
Argument ==
    \E n \in 1..MaxPlain : Made(<<KeyNode("plain", n)>>, META, <<n>>) /\ Shares(META)

\* A pattern of one node and its value: a rule's name (V), a function, a back reference, a
\* constant.
OneValue ==
    \E kind \in {"value", "open"}, v \in Lua :
        LET new == addtoktable(<<>>, v) IN
        /\ kind = "open" => v # NoValue
        /\ Made(<<KeyNode(kind, new.key)>>, NewTable, <<v>>) /\ Adds(new.table)

\* The values of a constant capture, two here, in a group of their own.
Constants ==
    \E v, w \in Lua :
        LET first == addtoktable(<<>>, v)
            second == addtoktable(first.table, w) IN
        /\ HasRoom(first.table, w)
        /\ Made(<<KeyNode("value", first.key), KeyNode("value", second.key)>>, NewTable, <<v, w>>)
        /\ Adds(second.table)

\* A repetition has the pattern n times, a predicate or a capture without a value once.
Copied ==
    \E p \in DOMAIN patterns, twice \in BOOLEAN :
        LET q == patterns[p] IN
        /\ Made(IF twice THEN q.tree \o q.tree ELSE q.tree, q.ktable, IF twice THEN q.means \o q.means ELSE q.means)
        /\ Shares(q.ktable)

\* The number of a capture is no value of a table.
Numbered ==
    \E p \in DOMAIN patterns, n \in 0..MaxPlain :
        LET q == patterns[p] IN
        /\ Made(<<KeyNode("plain", n)>> \o q.tree, q.ktable, <<n>> \o q.means)
        /\ Shares(q.ktable)

\* A capture with a value, or a function for the time of the match: the pattern's table may
\* be that of others, so there is a new one.
ValueCapture ==
    \E p \in DOMAIN patterns, v \in Lua :
        LET q == patterns[p]
            new == addtoktable(TableAt(p), v) IN
        /\ HasRoom(TableAt(p), v)
        /\ Made(<<KeyNode("value", new.key)>> \o q.tree, NewTable, <<v>> \o q.means)
        /\ Adds(new.table)

\* Two patterns: their tables are joined, if both have values and not the same table.  In a
\* difference the second one, whose keys are corrected, is the first in the tree.
Joins(p, q) == TableAt(p) # <<>> /\ TableAt(q) # <<>> /\ patterns[p].ktable # patterns[q].ktable
Shared(p, q) ==
    CASE TableAt(p) = <<>> /\ TableAt(q) = <<>> -> META
      [] TableAt(p) # <<>> -> patterns[p].ktable
      [] OTHER -> patterns[q].ktable

joinktables ==
    \E p, q \in DOMAIN patterns, turned \in BOOLEAN :
        LET t == patterns[p].tree
            u == IF Joins(p, q) THEN correctkeys(patterns[q].tree, Len(TableAt(p))) ELSE patterns[q].tree
            means == IF turned THEN patterns[q].means \o patterns[p].means
                     ELSE patterns[p].means \o patterns[q].means IN
        /\ Joins(p, q) => Len(TableAt(p)) + Len(TableAt(q)) <= USHRT_MAX
        /\ Made(IF turned THEN u \o t ELSE t \o u, IF Joins(p, q) THEN NewTable ELSE Shared(p, q), means)
        /\ IF Joins(p, q) THEN Adds(TableAt(p) \o TableAt(q)) ELSE Shares(Shared(p, q))

-----------------------------------------------------------------------------
(* Grammars: of two rules here, p and q are their patterns, x and y their names. *)

\* A call finds its rule by name, and the rule gets the key of a call of it, the last one.
CallsByName(tree, table, name) == {i \in DOMAIN tree : tree[i].kind = "open" /\ Named(tree[i], table) = name}
KeyOf(tree, table, name) ==
    IF CallsByName(tree, table, name) = {} THEN 0
    ELSE tree[CHOOSE i \in CallsByName(tree, table, name) : \A j \in CallsByName(tree, table, name) : j <= i].key
Fixed(tree) == [i \in DOMAIN tree |-> IF tree[i].kind = "open" THEN KeyNode("call", tree[i].key) ELSE tree[i]]

\* The first rule has a name even if no call has it.  Nothing looks whether the table is full:
\* the place behind the last one is written as 0, which is none.
initialrulename(key, table, x) ==
    IF key # 0 THEN [key |-> key, table |-> table]
    ELSE [key |-> (Len(table) + 1) % (USHRT_MAX + 1), table |-> Append(table, x)]

Grammar(p, q, x, y) ==
    LET t == patterns[p].tree
        u == correctkeys(patterns[q].tree, Offset(TableAt(p), TableAt(q)))
        table == TableAt(p) \o TableAt(q)
        first == initialrulename(KeyOf(t \o u, table, x), table, x)
        second == KeyOf(t \o u, table, y)
        named == CallsByName(t \o u, table, x) # {} \/ Len(table) < USHRT_MAX IN
    /\ Len(table) <= USHRT_MAX
    /\ \A i \in DOMAIN (t \o u) : (t \o u)[i].kind = "open" => Named((t \o u)[i], table) \in {x, y}
    /\ Made(<<KeyNode("rule", first.key)>> \o Fixed(t) \o <<KeyNode("rule", second)>> \o Fixed(u), NewTable,
            <<IF named THEN x ELSE NoValue>> \o patterns[p].means
              \o <<IF CallsByName(t \o u, table, y) # {} THEN y ELSE NoValue>> \o patterns[q].means)
    /\ Adds(first.table)

NewGrammar == \E p, q \in DOMAIN patterns, x, y \in LuaValues : x # y /\ Grammar(p, q, x, y)

-----------------------------------------------------------------------------
KTInit == ktables = <<<<>>>> /\ patterns = <<>>

KTNext ==
    /\ Len(patterns) < MaxPatterns
    /\ \/ Leaf \/ Argument \/ OneValue \/ Constants
       \/ Copied \/ Numbered \/ ValueCapture
       \/ joinktables \/ NewGrammar

KTSpec == KTInit /\ [][KTNext]_kvars

\* Whatever became of the tables, a node of a pattern is about what it was made with.
KeysMean ==
    \A p \in DOMAIN patterns :
        /\ DOMAIN patterns[p].means = DOMAIN patterns[p].tree
        /\ \A i \in DOMAIN patterns[p].tree : Named(patterns[p].tree[i], TableAt(p)) = patterns[p].means[i]
=============================================================================
