------------------------------ MODULE PegTree ------------------------------
(***************************************************************************)
(* lpeg, first part: what lptree.c makes of a pattern as it is written in  *)
(* Lua, and what lpcode.c finds out about the tree it gets.                *)
(*                                                                         *)
(* A tree is a tuple of its tag and its children, <<"TSeq", t, u>>, where  *)
(* the code has the children in one array.  A call names its rule by the   *)
(* rule's number in the grammar; g is the grammar a tree is in.  The code  *)
(* keeps the values of captures in a table beside the tree; here they are  *)
(* in it.                                                                  *)
(***************************************************************************)
EXTENDS Integers, Sequences, SequencesExt

CONSTANTS
    Chars,          \* the characters there are
    MAXRULES,       \* of a grammar, 250
    MAXBEHIND       \* the longest look behind, 255

ASSUME PegTreeAssumption == MAXRULES \in Nat \ {0} /\ MAXBEHIND \in Nat

NoTree == <<"error">>
TTrue == <<"TTrue">>
TFalse == <<"TFalse">>

sibs(t) ==
    CASE t[1] \in {"TRep", "TNot", "TAnd", "TBehind", "TCapture", "TRunTime"} -> <<t[2]>>
      [] t[1] \in {"TSeq", "TChoice"} -> <<t[2], t[3]>>
      [] OTHER -> <<>>

\* Whether a tree is of one character, and of which.
IsCharset(t) == t[1] \in {"TSet", "TChar", "TAny"}
tocharset(t) ==
    CASE t[1] = "TSet" -> t[2]
      [] t[1] = "TChar" -> {t[2]}
      [] OTHER -> Chars

-----------------------------------------------------------------------------
(* What a tree can do.  seen are the rules a search has been to.           *)

RECURSIVE hascaptures(_, _, _)
hascaptures(g, t, seen) ==
    CASE t[1] \in {"TCapture", "TRunTime"} -> TRUE
      [] t[1] = "TCall" -> t[2] \notin seen /\ hascaptures(g, g[t[2]], seen \union {t[2]})
      [] t[1] = "TGrammar" -> hascaptures(t[2], t[2][1], {})
      [] OTHER -> \E i \in DOMAIN sibs(t) : hascaptures(g, sibs(t)[i], seen)

\* Whether a pattern can match nothing ("nullable"), or cannot fail ("nofail").
RECURSIVE checkaux(_, _, _)
checkaux(g, t, pred) ==
    CASE t[1] \in {"TChar", "TSet", "TAny", "TFalse", "TOpenCall"} -> FALSE
      [] t[1] \in {"TRep", "TTrue"} -> TRUE
      [] t[1] \in {"TNot", "TBehind"} -> pred = "nullable"
      [] t[1] = "TAnd" -> pred = "nullable" \/ checkaux(g, t[2], pred)
      [] t[1] = "TRunTime" -> pred = "nullable" /\ checkaux(g, t[2], pred)
      [] t[1] = "TSeq" -> checkaux(g, t[2], pred) /\ checkaux(g, t[3], pred)
      [] t[1] = "TChoice" -> checkaux(g, t[3], pred) \/ checkaux(g, t[2], pred)
      [] t[1] = "TCapture" -> checkaux(g, t[2], pred)
      [] t[1] = "TGrammar" -> checkaux(t[2], t[2][1], pred)
      [] t[1] = "TCall" -> checkaux(g, g[t[2]], pred)

nullable(g, t) == checkaux(g, t, "nullable")
nofail(g, t) == checkaux(g, t, "nofail")

\* How many characters a pattern takes; -1 if that depends.
RECURSIVE fixedlen(_, _, _)
fixedlen(g, t, seen) ==
    CASE IsCharset(t) -> 1
      [] t[1] \in {"TFalse", "TTrue", "TNot", "TAnd", "TBehind"} -> 0
      [] t[1] \in {"TRep", "TRunTime", "TOpenCall"} -> -1
      [] t[1] = "TCapture" -> fixedlen(g, t[2], seen)
      [] t[1] = "TGrammar" -> fixedlen(t[2], t[2][1], {})
      [] t[1] = "TCall" ->
            IF t[2] \in seen THEN -1 ELSE fixedlen(g, g[t[2]], seen \union {t[2]})
      [] t[1] = "TSeq" ->
            LET n == fixedlen(g, t[2], seen)  m == fixedlen(g, t[3], seen) IN
            IF n < 0 \/ m < 0 THEN -1 ELSE n + m
      [] t[1] = "TChoice" ->
            LET n == fixedlen(g, t[2], seen) IN
            IF n = fixedlen(g, t[3], seen) THEN n ELSE -1

\* The characters a match can begin with, where those in follow come next; and why the
\* set is no test for a match: it takes nothing ("empty"), or calls a function.
RECURSIVE getfirst(_, _, _)
getfirst(g, t, follow) ==
    LET First(e, cs) == [e |-> e, cs |-> cs] IN
    CASE IsCharset(t) -> First({}, tocharset(t))
      [] t[1] = "TTrue" -> First({"empty"}, follow)
      [] t[1] = "TFalse" -> First({}, {})
      [] t[1] = "TChoice" ->
            LET f == getfirst(g, t[2], follow)  h == getfirst(g, t[3], follow) IN
            First(f.e \union h.e, f.cs \union h.cs)
      [] t[1] = "TSeq" /\ ~nullable(g, t[2]) -> getfirst(g, t[2], Chars)
      [] t[1] = "TSeq" /\ nullable(g, t[2]) ->
            LET h == getfirst(g, t[3], follow)  f == getfirst(g, t[2], h.cs) IN
            First(IF f.e = {} THEN {}
                  ELSE IF "matchtime" \in f.e \union h.e THEN {"matchtime"} ELSE h.e, f.cs)
      [] t[1] = "TRep" -> First({"empty"}, getfirst(g, t[2], follow).cs \union follow)
      [] t[1] = "TCapture" -> getfirst(g, t[2], follow)
      [] t[1] = "TGrammar" -> getfirst(t[2], t[2][1], follow)
      [] t[1] = "TCall" -> getfirst(g, g[t[2]], follow)
      [] t[1] = "TRunTime" ->
            LET f == getfirst(g, t[2], Chars) IN
            First(IF f.e = {} THEN {} ELSE {"matchtime"}, f.cs)
      [] t[1] = "TAnd" ->
            LET f == getfirst(g, t[2], follow) IN First(f.e, f.cs \intersect follow)
      [] t[1] = "TNot" /\ IsCharset(t[2]) -> First({"empty"}, Chars \ tocharset(t[2]))
      [] OTHER -> First(getfirst(g, t[2], follow).e \union {"empty"}, follow)

\* A failure of the pattern depends on the next character alone.
RECURSIVE headfail(_, _)
headfail(g, t) ==
    CASE IsCharset(t) \/ t[1] = "TFalse" -> TRUE
      [] t[1] \in {"TTrue", "TRep", "TRunTime", "TNot", "TBehind"} -> FALSE
      [] t[1] \in {"TCapture", "TAnd"} -> headfail(g, t[2])
      [] t[1] = "TGrammar" -> headfail(t[2], t[2][1])
      [] t[1] = "TCall" -> headfail(g, g[t[2]])
      [] t[1] = "TSeq" -> nofail(g, t[3]) /\ headfail(g, t[2])
      [] t[1] = "TChoice" -> headfail(g, t[2]) /\ headfail(g, t[3])

\* The code of a pattern depends on what follows it.
RECURSIVE needfollow(_)
needfollow(t) ==
    CASE t[1] \in {"TChoice", "TRep"} -> TRUE
      [] t[1] = "TCapture" -> needfollow(t[2])
      [] t[1] = "TSeq" -> needfollow(t[3])
      [] OTHER -> FALSE

-----------------------------------------------------------------------------
(* The operators of the library, on trees.                                 *)

lp_seq(t, u) ==
    IF t = TFalse \/ u = TTrue THEN t ELSE IF t = TTrue THEN u ELSE <<"TSeq", t, u>>

lp_choice(t, u) ==
    IF IsCharset(t) /\ IsCharset(u) THEN <<"TSet", tocharset(t) \union tocharset(u)>>
    ELSE IF nofail(<<>>, t) \/ u = TFalse THEN t
    ELSE IF t = TFalse THEN u ELSE <<"TChoice", t, u>>

lp_sub(t, u) ==
    IF IsCharset(t) /\ IsCharset(u) THEN <<"TSet", tocharset(t) \ tocharset(u)>>
    ELSE <<"TSeq", <<"TNot", u>>, t>>

\* n patterns t, and then u.
RECURSIVE seqaux(_, _, _)
seqaux(n, t, u) == IF n = 0 THEN u ELSE <<"TSeq", t, seqaux(n - 1, t, u)>>

RECURSIVE AtMost(_, _)
AtMost(n, t) == <<"TChoice", IF n = 1 THEN t ELSE <<"TSeq", t, AtMost(n - 1, t)>>, TTrue>>

lp_star(t, n) ==
    CASE n >= 0 /\ nullable(<<>>, t) -> NoTree
      [] n >= 0 /\ ~nullable(<<>>, t) -> seqaux(n, t, <<"TRep", t>>)
      [] n < 0 -> AtMost(-n, t)

lp_behind(t) ==
    LET n == fixedlen(<<>>, t, {}) IN
    IF n < 0 \/ hascaptures(<<>>, t, {}) \/ n > MAXBEHIND THEN NoTree ELSE <<"TBehind", t, n>>

\* A sequence of one or more leaves.
fillseq(s) == seqaux(Len(s) - 1, s[1], s[Len(s)])

numtree(n) ==
    CASE n = 0 -> TTrue
      [] n > 0 -> fillseq([i \in 1..n |-> <<"TAny">>])
      [] n < 0 -> <<"TNot", fillseq([i \in 1..(-n) |-> <<"TAny">>])>>

lp_and(t) == <<"TAnd", t>>
lp_not(t) == <<"TNot", t>>
lp_set(cs) == <<"TSet", cs>>
lp_V(rule) == <<"TOpenCall", rule>>
lp_matchtime(t, f) == <<"TRunTime", t, f>>
capture_aux(t, kind, key) == <<"TCapture", t, kind, key>>
newemptycap(kind, key) == <<"TCapture", TTrue, kind, key>>

RECURSIVE Consts(_)
Consts(vs) ==
    LET c == newemptycap("Cconst", vs[1]) IN
    IF Len(vs) = 1 THEN c ELSE <<"TSeq", c, Consts(Tail(vs))>>

lp_constcapture(vs) ==
    CASE Len(vs) = 0 -> TTrue
      [] Len(vs) = 1 -> Consts(vs)
      [] Len(vs) > 1 -> capture_aux(Consts(vs), "Cgroup", "")

-----------------------------------------------------------------------------
(* Grammars.  The first rule is the initial one.                           *)

RECURSIVE OpenCalls(_)
OpenCalls(t) ==
    IF t[1] = "TOpenCall" THEN {t[2]} ELSE UNION {OpenCalls(sibs(t)[i]) : i \in DOMAIN sibs(t)}

RECURSIVE Calls(_)
Calls(t) ==
    IF t[1] = "TCall" THEN {t[2]} ELSE UNION {Calls(sibs(t)[i]) : i \in DOMAIN sibs(t)}

RECURSIVE correctassociativity(_)
correctassociativity(t) ==
    IF t[2][1] # t[1] THEN t
    ELSE correctassociativity(<<t[1], t[2][2], <<t[1], t[2][3], t[3]>>>>)

\* Calls find their rules; sequences and choices lean to the right.
RECURSIVE finalfix(_)
finalfix(t) ==
    CASE t[1] = "TOpenCall" -> <<"TCall", t[2]>>
      [] t[1] \in {"TSeq", "TChoice"} ->
            LET r == correctassociativity(t) IN <<r[1], finalfix(r[2]), finalfix(r[3])>>
      [] t[1] \notin {"TSeq", "TChoice"} /\ sibs(t) # <<>> -> [t EXCEPT ![2] = finalfix(@)]
      [] OTHER -> t

\* Whether t, or what was before it (nb), can be passed without taking a character.
\* passed are the rules on the way here; too many of them, and the grammar is refused.
RECURSIVE verifyrule(_, _, _, _)
verifyrule(g, t, passed, nb) ==
    CASE IsCharset(t) \/ t[1] = "TFalse" -> nb
      [] t[1] \in {"TTrue", "TBehind"} -> "yes"
      [] t[1] \in {"TNot", "TAnd", "TRep"} -> verifyrule(g, t[2], passed, "yes")
      [] t[1] \in {"TCapture", "TRunTime"} -> verifyrule(g, t[2], passed, nb)
      [] t[1] = "TCall" ->
            IF Len(passed) >= MAXRULES THEN "error"
            ELSE verifyrule(g, g[t[2]], Append(passed, t[2]), nb)
      [] t[1] = "TSeq" ->
            LET v == verifyrule(g, t[2], passed, "no") IN
            IF v = "error" THEN v ELSE IF v = "no" THEN nb ELSE verifyrule(g, t[3], passed, nb)
      [] t[1] = "TChoice" ->
            LET v == verifyrule(g, t[2], passed, nb) IN
            IF v = "error" THEN v ELSE verifyrule(g, t[3], passed, v)
      [] t[1] = "TGrammar" -> IF nullable(g, t) THEN "yes" ELSE "no"

RECURSIVE checkloops(_, _)
checkloops(g, t) ==
    \/ t[1] = "TRep" /\ nullable(g, t[2])
    \/ \E i \in DOMAIN sibs(t) : checkloops(g, sibs(t)[i])

\* Rules nobody calls are not looked at.
verifygrammar(g) ==
    LET used == {1} \union UNION {Calls(g[i]) : i \in DOMAIN g} IN
    /\ \A i \in used : verifyrule(g, g[i], <<>>, "no") # "error"
    /\ \A i \in used : ~checkloops(g, g[i])

newgrammar(rules) ==
    LET g == [i \in DOMAIN rules |-> finalfix(rules[i])] IN
    IF /\ Len(rules) <= MAXRULES
       /\ \A i \in DOMAIN rules : OpenCalls(rules[i]) \subseteq DOMAIN rules
       /\ verifygrammar(g)
    THEN <<"TGrammar", g>> ELSE NoTree

-----------------------------------------------------------------------------
(* The tree of an expression, or NoTree if the library refuses it.         *)

Captures1 == {"Csimple", "Csubst", "Ctable"}
Captures2 == {"Cgroup", "Cfold", "Cfunction", "Cquery", "Cstring", "Cnum"}

\* A value of Lua that stands for a pattern; rules are the trees of a table.
getpatt(x, rules) ==
    CASE x[1] = "string" -> IF x[2] = <<>> THEN TTrue
                            ELSE fillseq([i \in DOMAIN x[2] |-> <<"TChar", x[2][i]>>])
      [] x[1] = "number" -> numtree(x[2])
      [] x[1] = "boolean" -> IF x[2] THEN TTrue ELSE TFalse
      [] x[1] = "function" -> lp_matchtime(TTrue, x[2])
      [] x[1] = "table" -> IF \E i \in DOMAIN rules : rules[i] = NoTree THEN NoTree ELSE newgrammar(rules)

RECURSIVE Tree(_)
Tree(x) ==
    LET t == Tree(x[2])
        u == Tree(x[3])
        Of(b) == IF t = NoTree THEN NoTree ELSE b
        Both(b) == IF t = NoTree \/ u = NoTree THEN NoTree ELSE b IN
    CASE x[1] \in {"string", "number", "boolean", "function"} -> getpatt(x, <<>>)
      [] x[1] = "table" -> getpatt(x, [i \in DOMAIN x[2] |-> Tree(x[2][i])])
      [] x[1] = "S" -> lp_set(x[2])
      [] x[1] = "V" -> lp_V(x[2])
      [] x[1] = "*" -> Both(lp_seq(t, u))
      [] x[1] = "+" -> Both(lp_choice(t, u))
      [] x[1] = "-" -> Both(lp_sub(t, u))
      [] x[1] = "^" -> Of(lp_star(t, x[3]))
      [] x[1] = "#" -> Of(lp_and(t))
      [] x[1] = "not" -> Of(lp_not(t))
      [] x[1] = "B" -> Of(lp_behind(t))
      [] x[1] \in Captures1 -> Of(capture_aux(t, x[1], ""))
      [] x[1] \in Captures2 -> Of(capture_aux(t, x[1], x[3]))
      [] x[1] = "Cmt" -> Of(lp_matchtime(t, x[3]))
      [] x[1] = "Cposition" -> newemptycap("Cposition", "")
      [] x[1] \in {"Carg", "Cbackref"} -> newemptycap(x[1], x[2])
      [] x[1] = "Cc" -> lp_constcapture(x[2])
=============================================================================
