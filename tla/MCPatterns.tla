----------------------------- MODULE MCPatterns -----------------------------
(***************************************************************************)
(* The patterns that MCCodecs looks at.  A pattern starts as a leaf and    *)
(* grows by one operator at a time; a grammar starts with one rule.        *)
(***************************************************************************)
EXTENDS PegMeaning

Lit(s) == <<"string", s>>
A == Lit(<<"a">>)

Leaves == {A, Lit(<<"a", "b">>), <<"number", 1>>, <<"number", -1>>, <<"S", {"a", "b"}>>, <<"boolean", TRUE>>,
           <<"boolean", FALSE>>, <<"Cposition">>}

\* The leaves of captures.
Sources == {<<"Cc", <<String(<<"x">>), Numeral(7)>>>>, <<"Carg", 1>>, <<"Carg", 2>>, <<"Cbackref", "n">>}

\* %1-%0%2
Fmt == <<[n |-> 1, char |-> ""], [n |-> -1, char |-> "-"], [n |-> 0, char |-> ""], [n |-> 2, char |-> ""]>>

Operators(p) ==
    {<<"^", p, n>> : n \in {0, 1, -1, -2}} \union {<<"#", p>>, <<"not", p>>, <<"B", p>>}
Captures(p) ==
    {<<"Csimple", p>>, <<"Csubst", p>>, <<"Ctable", p>>, <<"Cgroup", p, "">>, <<"Cgroup", p, "n">>,
     <<"Cfold", p, "f">>, <<"Cfunction", p, "f">>, <<"Cfunction", p, "none">>, <<"Cquery", p, "q">>,
     <<"Cquery", p, "none">>, <<"Cstring", p, Fmt>>, <<"Cnum", p, 0>>, <<"Cnum", p, 2>>}
       \union {<<"Cmt", p, f>> : f \in {"true", "false", "value", "next"}}
Pairings(p, q) == {<<op, p, q>> : op \in {"*", "+", "-"}}

Grown(e) ==
    IF e \in Leaves \union Sources
    THEN Operators(e) \union Captures(e) \union UNION {Pairings(e, q) : q \in Leaves}
           \union IF e \in Sources THEN {} ELSE UNION {Pairings(e, q) : q \in Sources}
    ELSE {}

\* A second operator, on what the first one made.
Regrown(e) ==
    CASE e[1] \in {"^", "#", "not", "*", "+", "Cmt"} ->
            {<<"^", e, 0>>, <<"^", e, -1>>, <<"#", e>>, <<"not", e>>, <<"Csimple", e>>, <<"Cmt", e, "value">>}
              \union Pairings(e, A) \union Pairings(A, e)
      [] e[1] \in {"Csimple", "Cgroup", "Cfunction"} ->
            Captures(e) \union {<<"^", e, 0>>, <<"+", <<"*", e, A>>, <<"number", 1>>>>,
                                <<"*", e, <<"Cbackref", "n">>>>}
      [] OTHER -> {}

-----------------------------------------------------------------------------
Symbols == {A, <<"number", 1>>, <<"V", 1>>, <<"V", 2>>, <<"boolean", TRUE>>}
Bodies == UNION {{<<"*", p, q>>, <<"+", p, q>>} : p \in Symbols, q \in Symbols}
            \union UNION {{<<"^", p, 0>>, <<"not", p>>, <<"Csimple", p>>} : p \in Symbols}

OneRule == {<<"table", <<p>>>> : p \in Bodies}
TwoRules(e) ==
    {<<"table", <<e[2][1], p>>>> : p \in {A, <<"V", 1>>, <<"*", A, <<"V", 1>>>>, <<"+", <<"V", 1>>, A>>}}

\* Subjects, and where the match begins: at a place, or so far from the end.
Starts ==
    {<<s, 1>> : s \in {<<>>, <<"a">>, <<"b">>, <<"a", "a">>, <<"a", "b">>, <<"b", "c">>, <<"a", "a", "a">>, <<"a", "b", "a">>}}
      \union {<<<<"a">>, 2>>, <<<<"a", "a", "b">>, 2>>, <<<<"b", "a", "a">>, -1>>, <<<<"c", "a">>, -4>>}
=============================================================================
