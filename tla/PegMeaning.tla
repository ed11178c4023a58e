----------------------------- MODULE PegMeaning -----------------------------
(***************************************************************************)
(* What an expression of lpeg means, after its manual: where it matches,   *)
(* what it captures, and which match-time functions it calls on the way.   *)
(* There are no trees, tests or stacks here: this is what PegMatch is      *)
(* compared with.                                                          *)
(*                                                                         *)
(* x is the subject, the extra arguments of the match, and the rules of    *)
(* the grammar around.  A state has the position s (Missed if the          *)
(* expression does not match, Wrong if it raises), the captures made so    *)
(* far at this level, those of the levels around it, and the calls.  A     *)
(* capture is a node with the captures inside it.                          *)
(***************************************************************************)
EXTENDS PegMatch

Missed == -1
Wrong == -2

Begun(s) == [s |-> s, caps |-> <<>>, around |-> <<>>, calls |-> <<>>]
Node(kind, key, from, to, kids) == [kind |-> kind, key |-> key, from |-> from, to |-> to, kids |-> kids]

-----------------------------------------------------------------------------
(* The values of a capture; before are those that back references see.     *)

RECURSIVE ValuesOf(_, _, _), ValuesIn(_, _, _, _), Filled(_, _, _, _), Fields(_, _, _, _, _),
          Fold(_, _, _, _, _)

\* What a node sees: the nodes before it.
Seen(kids, i, before) == before \o SubSeq(kids, 1, i - 1)

\* Those of all nodes from the i-th on.
ValuesIn(x, kids, i, before) ==
    IF i > Len(kids) THEN Pushed(<<>>, 0)
    ELSE Joined(ValuesOf(x, kids[i], Seen(kids, i, before)), ValuesIn(x, kids, i + 1, before))

WholeOf(x, n) == String(Part(x.subject, n.from, n.to))

\* Nested values, or the match if there are none.
OrWhole(x, n, r) == IF r.ok /\ r.values = <<>> THEN Pushed(<<WholeOf(x, n)>>, 0) ELSE r
NestedOf(x, n, before) == OrWhole(x, n, ValuesIn(x, n.kids, 1, before))

IsNamed(n) == n.kind = "Cgroup" /\ n.key # ""

\* The fields of a table t.
WithField(t, n, values) ==
    IF IsNamed(n) THEN [t EXCEPT ![3] = {p \in @ : p[1] # n.key} \union {<<n.key, values[1]>>}]
    ELSE [t EXCEPT ![2] = @ \o values]
FieldsOn(x, kids, i, before, t, r) ==
    IF ~r.ok THEN NotPushed ELSE Fields(x, kids, i + 1, before, WithField(t, kids[i], r.values))
Fields(x, kids, i, before, t) ==
    IF i > Len(kids) THEN Pushed(<<t>>, 0)
    ELSE LET seen == Seen(kids, i, before) IN
         FieldsOn(x, kids, i, before, t,
                  IF IsNamed(kids[i]) THEN NestedOf(x, kids[i], seen) ELSE ValuesOf(x, kids[i], seen))

FoldOn(x, n, i, before, acc, r) ==
    IF ~r.ok \/ (i = 1 /\ r.values = <<>>) THEN NotPushed
    ELSE Fold(x, n, i + 1, before, IF i = 1 THEN r.values[1] ELSE Folded(n.key, acc, r.values))
Fold(x, n, i, before, acc) ==
    IF i > Len(n.kids) THEN Pushed(<<acc>>, 0)
    ELSE FoldOn(x, n, i, before, acc, ValuesOf(x, n.kids[i], Seen(n.kids, i, before)))

\* %0, %1, ...: a simple capture is followed by those inside it.
RECURSIVE Pieces(_, _)
Pieces(n, before) ==
    <<[node |-> n, before |-> before, whole |-> TRUE]>> \o
    FlattenSeq([i \in DOMAIN n.kids |->
        IF n.kids[i].kind = "Csimple" THEN Pieces(n.kids[i], Seen(n.kids, i, before))
        ELSE <<[node |-> n.kids[i], before |-> Seen(n.kids, i, before), whole |-> FALSE]>>])
ItemOf(x, item, pieces) ==
    IF item.n < 0 THEN Pushed(<<String(<<item.char>>)>>, 0)
    ELSE IF item.n >= Len(pieces) THEN NotPushed
    ELSE LET p == pieces[item.n + 1] IN
         IF p.whole THEN Pushed(<<WholeOf(x, p.node)>>, 0) ELSE AsText(ValuesOf(x, p.node, p.before))
Formatted(x, fmt, pieces) == Concatenated([i \in DOMAIN fmt |-> ItemOf(x, fmt[i], pieces)], 0)

\* The match from a place on, with captures replaced by their values.
FilledOn(x, n, i, acc, r) ==
    LET k == n.kids[i]
        text == acc.text \o Part(x.subject, acc.at, k.from) IN
    IF ~r.ok THEN NotPushed
    ELSE Filled(x, n, i + 1,
            IF r.values = <<>> THEN [acc EXCEPT !.text = text, !.at = k.from]
            ELSE [acc EXCEPT !.text = text \o r.values[1][2], !.at = k.to])
Filled(x, n, i, acc) ==
    IF i > Len(n.kids) THEN Pushed(<<String(acc.text \o Part(x.subject, acc.at, n.to))>>, 0)
    ELSE FilledOn(x, n, i, acc, AsText(ValuesOf(x, n.kids[i], Seen(n.kids, i, acc.before))))

\* The last group of a name before a back reference.
Referred(x, n, before) ==
    LET I == {i \in DOMAIN before : IsNamed(before[i]) /\ before[i].key = n.key}
        b == CHOOSE i \in I : \A j \in I : j <= i IN
    IF I = {} THEN NotPushed ELSE NestedOf(x, before[b], SubSeq(before, 1, b - 1))

IfOk(r, values) == IF r.ok THEN Pushed(values, 0) ELSE NotPushed
ValuesWith(x, n, before, nested) ==
    CASE n.kind = "Cposition" -> Pushed(<<Numeral(n.from + 1)>>, 0)
      [] n.kind \in {"Cconst", "Cruntime"} -> Pushed(<<n.key>>, 0)
      [] n.kind = "Carg" -> IF n.key > Len(x.args) THEN NotPushed ELSE Pushed(<<x.args[n.key]>>, 0)
      [] n.kind = "Csimple" -> Joined(Pushed(<<WholeOf(x, n)>>, 0), ValuesIn(x, n.kids, 1, before))
      [] n.kind = "Cgroup" -> IF IsNamed(n) THEN Pushed(<<>>, 0) ELSE nested
      [] n.kind = "Cbackref" -> Referred(x, n, before)
      [] n.kind = "Ctable" -> Fields(x, n.kids, 1, before, <<"table", <<>>, {}>>)
      [] n.kind = "Cfunction" -> IfOk(nested, Applied(n.key, nested.values))
      [] n.kind = "Cquery" -> IfOk(nested, Found(n.key, nested.values[1]))
      [] n.kind = "Cnum" ->
            IF n.key = 0 THEN Pushed(<<>>, 0)
            ELSE IF Len(nested.values) >= n.key THEN IfOk(nested, <<nested.values[n.key]>>) ELSE NotPushed
      [] n.kind = "Cfold" -> IF n.kids = <<>> THEN NotPushed ELSE Fold(x, n, 1, before, <<>>)
      [] n.kind = "Cstring" -> Formatted(x, n.key, Pieces(n, before))
      [] n.kind = "Csubst" -> Filled(x, n, 1, [before |-> before, text |-> <<>>, at |-> n.from])
ValuesOf(x, n, before) == ValuesWith(x, n, before, NestedOf(x, n, before))

-----------------------------------------------------------------------------
(* Matching.                                                               *)

RECURSIVE Meaning(_, _, _), Repeated(_, _, _, _)

\* p, up to n times.
RepeatedOn(x, p, n, st, r) ==
    CASE r.s >= 0 -> Repeated(x, p, n - 1, r)
      [] r.s = Missed -> [st EXCEPT !.calls = r.calls]
      [] r.s = Wrong -> r
Repeated(x, p, n, st) == IF n = 0 THEN st ELSE RepeatedOn(x, p, n, st, Meaning(x, p, st))

\* p exactly n times
RECURSIVE Times(_, _, _, _)
Times(x, p, n, st) ==
    IF n = 0 \/ st.s < 0 THEN st ELSE Times(x, p, n - 1, Meaning(x, p, st))

CapturedAs(st, kind, key, r) ==
    [st EXCEPT !.s = r.s, !.calls = r.calls,
               !.caps = IF r.s < 0 THEN @ ELSE Append(@, Node(kind, key, st.s, r.s, r.caps))]
Captured(x, e, st, kind, key) ==
    CapturedAs(st, kind, key, Meaning(x, e, [st EXCEPT !.caps = <<>>, !.around = @ \o st.caps]))
Single(st, kind, key) == [st EXCEPT !.caps = Append(@, Node(kind, key, st.s, st.s, <<>>))]

\* The pattern, and then the function decides.
Accepted(st, r, c) ==
    LET added == [i \in DOMAIN c.values |-> Node("Cruntime", c.values[i], c.s, c.s, <<>>)] IN
    [r EXCEPT !.s = c.s,
              !.caps = IF added = <<>> THEN st.caps
                       ELSE Append(st.caps, Node("Cgroup", "", st.s, c.s, added))]
FunctionSays(x, f, st, r, v) ==
    IF ~v.ok THEN [r EXCEPT !.s = Wrong]
    ELSE Accepted(st, [r EXCEPT !.calls = Append(@, <<f, r.s, v.values>>)],
                  CallOf(f, r.s, x.subject, v.values))
AskFunction(x, f, st, r) ==
    IF r.s < 0 THEN r
    ELSE FunctionSays(x, f, st, r, NestedOf(x, Last(r.caps), st.around \o st.caps))
MatchTime(x, e, f, st) == AskFunction(x, f, st, Captured(x, e, st, "Cgroup", ""))

\* How far back: only patterns of a fixed length are accepted.
Behind(x, e, st) ==
    LET From == {s \in 0..st.s : Meaning(x, e, [st EXCEPT !.s = s]).s = st.s} IN
    IF From = {} THEN [st EXCEPT !.s = Missed] ELSE st

Meaning(x, e, st) ==
    LET Miss(b) == IF b THEN [st EXCEPT !.s = Missed] ELSE st
        In(S) == IF st.s < Len(x.subject) /\ x.subject[st.s + 1] \in S THEN [st EXCEPT !.s = @ + 1]
                 ELSE [st EXCEPT !.s = Missed]
        first == Meaning(x, e[2], st) IN
    CASE e[1] = "string" ->
            IF IsPrefix(e[2], Part(x.subject, st.s, Len(x.subject))) THEN [st EXCEPT !.s = @ + Len(e[2])]
            ELSE [st EXCEPT !.s = Missed]
      [] e[1] = "number" ->
            LET left == Len(x.subject) - st.s IN
            IF e[2] >= 0 THEN IF left >= e[2] THEN [st EXCEPT !.s = @ + e[2]] ELSE Miss(TRUE)
            ELSE Miss(left >= -e[2])
      [] e[1] = "boolean" -> Miss(~e[2])
      [] e[1] = "function" -> MatchTime(x, <<"boolean", TRUE>>, e[2], st)
      [] e[1] = "table" -> Meaning([x EXCEPT !.rules = e[2]], e[2][1], st)
      [] e[1] = "S" -> In(e[2])
      [] e[1] = "V" -> Meaning(x, x.rules[e[2]], st)
      [] e[1] = "*" -> IF first.s < 0 THEN first ELSE Meaning(x, e[3], first)
      [] e[1] = "+" -> IF first.s # Missed THEN first
                       ELSE Meaning(x, e[3], [st EXCEPT !.calls = first.calls])
      [] e[1] = "-" -> LET r == Meaning(x, e[3], st) IN
                       IF r.s = Wrong THEN r
                       ELSE IF r.s = Missed THEN Meaning(x, e[2], [st EXCEPT !.calls = r.calls])
                       ELSE [st EXCEPT !.s = Missed, !.calls = r.calls]
      [] e[1] = "^" -> IF e[3] < 0 THEN Repeated(x, e[2], -e[3], st)
                       ELSE LET r == Times(x, e[2], e[3], st) IN
                            IF r.s < 0 THEN r ELSE Repeated(x, e[2], -1, r)
      [] e[1] = "#" -> IF first.s < 0 THEN first ELSE [st EXCEPT !.calls = first.calls]
      [] e[1] = "not" -> IF first.s = Wrong THEN first
                           ELSE [st EXCEPT !.s = IF first.s = Missed THEN @ ELSE Missed, !.calls = first.calls]
      [] e[1] = "B" -> Behind(x, e[2], st)
      [] e[1] \in Captures1 -> Captured(x, e[2], st, e[1], "")
      [] e[1] \in Captures2 ->
            Captured(x, e[2], st, e[1], e[3])
      [] e[1] = "Cposition" -> Single(st, "Cposition", "")
      [] e[1] \in {"Carg", "Cbackref"} -> Single(st, e[1], e[2])
      [] e[1] = "Cc" ->
            LET c == [i \in DOMAIN e[2] |-> Node("Cconst", e[2][i], st.s, st.s, <<>>)] IN
            [st EXCEPT !.caps = IF Len(c) <= 1 THEN @ \o c
                                ELSE Append(@, Node("Cgroup", "", st.s, st.s, c))]
      [] e[1] = "Cmt" -> MatchTime(x, e[2], e[3], st)

\* What lp_match should return.
Given(r, v) ==
    [calls |-> r.calls,
     values |-> CASE r.s = Missed -> <<<<"nil">>>>
                  [] r.s = Wrong -> <<Raised>>
                  [] r.s >= 0 -> ValuesOrEnd(v, r.s)]
WithValues(x, r) == Given(r, ValuesIn(x, r.caps, 1, <<>>))
Expected(e, subject, init, args) ==
    LET x == [subject |-> subject, args |-> args, rules |-> <<>>] IN
    WithValues(x, Meaning(x, e, Begun(initposition(Len(subject), init))))

\* Match-time functions under an and-predicate.  The code may pass them over, since
\* getfirst forgets them where they stand in a predicate; and their values are still on
\* Lua's stack when the predicate's captures are dropped, which fails an assertion of
\* the machine unless there are captures enough in front of them.
RECURSIVE HasFunction(_), FunctionInAnd(_)
Below(e) ==
    CASE e[1] \in {"*", "+", "-"} -> {e[2], e[3]}
      [] e[1] = "table" -> {e[2][i] : i \in DOMAIN e[2]}
      [] e[1] \in {"^", "#", "not", "B", "Cmt"} \union Captures1 \union Captures2 -> {e[2]}
      [] OTHER -> {}
HasFunction(e) == e[1] \in {"Cmt", "function", "V"} \/ \E p \in Below(e) : HasFunction(p)
FunctionInAnd(e) == (e[1] = "#" /\ HasFunction(e[2])) \/ \E p \in Below(e) : FunctionInAnd(p)

Agree(e, found, expected) ==
    \/ found = expected
    \/ FunctionInAnd(e) /\ found.values \in {expected.values, <<<<"assert">>>>}

\* A pattern that the library accepts matches what it means, with the same values and
\* the same calls of functions.
Runs(e, code, starts, args) ==
    code # <<>> =>
        \A b \in starts :
            Agree(e, lp_match(code, b[1], b[2], args), Expected(e, b[1], b[2], args))
PatternMatches(e, starts, args) ==
    LET t == Tree(e) IN t = NoTree \/ Runs(e, compile(t), starts, args)
=============================================================================
