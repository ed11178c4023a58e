------------------------------ MODULE PegMatch ------------------------------
(***************************************************************************)
(* lpeg, third part: the machine of lpvm.c that runs the code on a         *)
(* subject, and lpcap.c, which makes values of the captures it leaves.     *)
(*                                                                         *)
(* Positions count the characters before them.  The code keeps the values  *)
(* of match-time captures on Lua's stack and their places in the list of   *)
(* captures; here the list has both, and ndyncap counts the values on the  *)
(* stack.  calls are those of match-time functions, in their order.        *)
(***************************************************************************)
EXTENDS PegCode, TLC

CONSTANTS
    MaxFull,        \* a capture as long has a closing entry: 255
    MAXSTRCAPS      \* captures a string capture knows, 10

ASSUME PegMatchAssumption == MaxFull \in Nat /\ MAXSTRCAPS \in Nat \ {0}

String(s) == <<"string", s>>
Numeral(n) == <<"number", n>>
Raised == <<"raised">>

\* Between a (exclusive) and b.
Part(subject, a, b) == SubSeq(subject, a + 1, b)

\* The functions of a pattern.  A match-time function gets the position and the values
\* inside; it says false, true, or where to go on, and may add a value.
CallOf(f, s, subject, values) ==
    LET value == <<"called", f, s, values>> IN
    CASE f = "false" -> [s |-> -1, values |-> <<>>]
      [] f = "true" -> [s |-> s, values |-> <<>>]
      [] f = "value" -> [s |-> s, values |-> <<value, String(<<f>>)>>]
      [] f = "next" -> [s |-> IF s < Len(subject) THEN s + 1 ELSE -2, values |-> <<value>>]

\* A function capture returns nothing, or a value; a fold has one; a query finds some.
Applied(f, values) == IF f = "none" THEN <<>> ELSE <<<<"called", f, values>>>>
Folded(f, acc, values) == <<"called", f, <<acc>> \o values>>
Found(f, value) == IF f = "none" \/ value[1] # "string" THEN <<>> ELSE <<String(<<f>> \o value[2])>>

-----------------------------------------------------------------------------
(* lpcap.c.  m is what is matched: its subject, and its list of captures.  *)
(* An operator gives the values of a capture, ok, and where the next is.   *)

isclosecap(c) == c.kind = "Cclose"
isfullcap(c) == c.siz # 0
closeaddr(c) == c.s + c.siz - 1

Pushed(values, next) == [ok |-> TRUE, values |-> values, next |-> next]
NotPushed == [ok |-> FALSE, values |-> <<>>, next |-> 0]

RECURSIVE findopen(_, _, _)
findopen(caps, k, n) ==
    LET c == caps[k - 1] IN
    CASE isclosecap(c) -> findopen(caps, k - 1, n + 1)
      [] ~isclosecap(c) /\ isfullcap(c) -> findopen(caps, k - 1, n)
      [] ~isclosecap(c) /\ ~isfullcap(c) -> IF n = 0 THEN k - 1 ELSE findopen(caps, k - 1, n - 1)

\* The entry that closes the open one before k.
RECURSIVE Closing(_, _, _)
Closing(caps, k, n) ==
    CASE isclosecap(caps[k]) -> IF n = 0 THEN k ELSE Closing(caps, k + 1, n - 1)
      [] ~isclosecap(caps[k]) /\ isfullcap(caps[k]) -> Closing(caps, k + 1, n)
      [] ~isclosecap(caps[k]) /\ ~isfullcap(caps[k]) -> Closing(caps, k + 1, n + 1)
nextcap(caps, k) == IF isfullcap(caps[k]) THEN k + 1 ELSE Closing(caps, k + 1, 0) + 1

\* A named group that ended before k; 0 if there is none.
RECURSIVE findback(_, _, _)
findback(caps, k, name) ==
    IF k = 1 THEN 0
    ELSE LET o == IF isclosecap(caps[k - 1]) THEN findopen(caps, k - 1, 0) ELSE k - 1
             enclosing == ~isclosecap(caps[k - 1]) /\ ~isfullcap(caps[k - 1]) IN
         IF ~enclosing /\ caps[o].kind = "Cgroup" /\ caps[o].idx = name THEN o
         ELSE findback(caps, o, name)

RECURSIVE pushcapture(_, _), pushall(_, _), getstrcaps(_, _, _), Strcaps(_, _, _),
          substcap(_, _, _), tablefields(_, _, _, _), foldrest(_, _, _, _)

\* All values up to the entry that closes: those of c, and of r behind it.
Joined(c, r) == IF ~c.ok \/ ~r.ok THEN NotPushed ELSE Pushed(c.values \o r.values, r.next)
AllBehind(m, c) == IF c.ok THEN pushall(m, c.next) ELSE NotPushed
JoinedAll(m, c) == Joined(c, AllBehind(m, c))
pushall(m, k) ==
    IF isclosecap(m.caps[k]) THEN Pushed(<<>>, k) ELSE JoinedAll(m, pushcapture(m, k))

NestedUpTo(m, c, r, addextra) ==
    LET whole == String(Part(m.subject, c.s, m.caps[r.next].s)) IN
    IF ~r.ok THEN NotPushed
    ELSE Pushed(IF addextra \/ r.values = <<>> THEN Append(r.values, whole) ELSE r.values, r.next + 1)
pushnestedvalues(m, k, addextra) ==
    LET c == m.caps[k] IN
    IF isfullcap(c) THEN Pushed(<<String(Part(m.subject, c.s, closeaddr(c)))>>, k + 1)
    ELSE NestedUpTo(m, c, pushall(m, k + 1), addextra)

\* The whole match, which is the last of them, comes first.
simplecap(r) == IF ~r.ok THEN r ELSE Pushed(<<Last(r.values)>> \o Front(r.values), r.next)

backrefcap(m, k) ==
    LET b == findback(m.caps, k, m.caps[k].idx) IN
    IF b = 0 THEN NotPushed ELSE [pushnestedvalues(m, b, FALSE) EXCEPT !.next = k + 1]

\* The values of a table in a row, and its named ones.
AddField(m, r, row, named) == IF ~r.ok THEN NotPushed ELSE tablefields(m, r.next, row, named)
AddNamed(m, name, r, row, named) ==
    AddField(m, r, row, {p \in named : p[1] # name} \union {<<name, r.values[1]>>})
AddToRow(m, r, row, named) == AddField(m, r, row \o r.values, named)
tablefields(m, k, row, named) ==
    LET c == m.caps[k] IN
    IF isclosecap(c) THEN Pushed(<<<<"table", row, named>>>>, k + 1)
    ELSE IF c.kind = "Cgroup" /\ c.idx # ""
    THEN AddNamed(m, c.idx, pushnestedvalues(m, k, FALSE), row, named)
    ELSE AddToRow(m, pushcapture(m, k), row, named)
tablecap(m, k) ==
    IF isfullcap(m.caps[k]) THEN Pushed(<<<<"table", <<>>, {}>>>>, k + 1)
    ELSE tablefields(m, k + 1, <<>>, {})

querycap(f, r) == IF ~r.ok THEN r ELSE Pushed(Found(f, r.values[1]), r.next)
functioncap(f, r) == IF ~r.ok THEN r ELSE Pushed(Applied(f, r.values), r.next)
numcap(n, r) ==
    IF ~r.ok \/ Len(r.values) < n THEN NotPushed ELSE Pushed(<<r.values[n]>>, r.next)

FoldedOn(m, f, acc, r) ==
    IF ~r.ok THEN NotPushed ELSE foldrest(m, r.next, f, Folded(f, acc, r.values))
foldrest(m, k, f, acc) ==
    IF isclosecap(m.caps[k]) THEN Pushed(<<acc>>, k + 1) ELSE FoldedOn(m, f, acc, pushcapture(m, k))
FoldedFrom(m, f, r) ==
    IF ~r.ok \/ r.values = <<>> THEN NotPushed ELSE foldrest(m, r.next, f, r.values[1])
foldcap(m, k) ==
    IF isfullcap(m.caps[k]) \/ isclosecap(m.caps[k + 1]) THEN NotPushed
    ELSE FoldedFrom(m, m.caps[k].idx, pushcapture(m, k + 1))

\* What %0, %1, ... of a string capture are: part of the subject, or a capture.
Ended(m, n, r) == [r EXCEPT !.cps[n].e = closeaddr(m.caps[r.next - 1])]
getstrcaps(m, k, cps) ==
    LET begun == Append(cps, [isstring |-> TRUE, s |-> m.caps[k].s, e |-> 0]) IN
    Ended(m, Len(begun), IF isfullcap(m.caps[k]) THEN [cps |-> begun, next |-> k + 1]
                         ELSE Strcaps(m, k + 1, begun))
StrcapsOn(m, r) == Strcaps(m, r.next, r.cps)
Strcaps(m, k, cps) ==
    CASE isclosecap(m.caps[k]) -> [cps |-> cps, next |-> k + 1]
      [] ~isclosecap(m.caps[k]) /\ Len(cps) >= MAXSTRCAPS -> Strcaps(m, nextcap(m.caps, k), cps)
      [] ~isclosecap(m.caps[k]) /\ Len(cps) < MAXSTRCAPS /\ m.caps[k].kind = "Csimple" ->
            StrcapsOn(m, getstrcaps(m, k, cps))
      [] OTHER -> Strcaps(m, nextcap(m.caps, k), Append(cps, [isstring |-> FALSE, k |-> k]))

\* The first value of a capture, which must be a string or a number, as text; values
\* is <<>> if it has none.
AsText(r) ==
    IF ~r.ok \/ r.values = <<>> THEN r
    ELSE CASE r.values[1][1] = "string" -> [r EXCEPT !.values = <<@[1]>>]
           [] r.values[1][1] = "number" -> [r EXCEPT !.values = <<String(<<ToString(@[1][2])>>)>>]
           [] OTHER -> NotPushed
addonestring(m, k) == AsText(pushcapture(m, k))

\* What one item of a format stands for: a character, or the n-th of cps.
Item(m, item, cps) ==
    IF item.n < 0 THEN Pushed(<<String(<<item.char>>)>>, 0)
    ELSE IF item.n >= Len(cps) THEN NotPushed
    ELSE LET c == cps[item.n + 1] IN
         IF c.isstring THEN Pushed(<<String(Part(m.subject, c.s, c.e))>>, 0) ELSE addonestring(m, c.k)
\* The text of all items; one without a value is an error.
Concatenated(items, next) ==
    IF \E i \in DOMAIN items : ~items[i].ok \/ items[i].values = <<>> THEN NotPushed
    ELSE Pushed(<<String(FlattenSeq([i \in DOMAIN items |-> items[i].values[1][2]]))>>, next)
FormattedBy(m, fmt, r) == Concatenated([i \in DOMAIN fmt |-> Item(m, fmt[i], r.cps)], r.next)
stringcap(m, k) == FormattedBy(m, m.caps[k].idx, getstrcaps(m, k, <<>>))

\* The subject from curr on, with the values of captures in their places.
Prefixed(text, r) == IF ~r.ok THEN NotPushed ELSE [r EXCEPT !.values[1][2] = text \o @]
Replaced(m, c, curr, r) ==
    CASE ~r.ok -> NotPushed
      [] r.ok /\ r.values = <<>> -> Prefixed(Part(m.subject, curr, c.s), substcap(m, r.next, c.s))
      [] r.ok /\ r.values # <<>> -> Prefixed(Part(m.subject, curr, c.s) \o r.values[1][2],
                                             substcap(m, r.next, closeaddr(m.caps[r.next - 1])))
substcap(m, k, curr) ==
    LET c == m.caps[k] IN
    IF isclosecap(c) THEN Pushed(<<String(Part(m.subject, curr, c.s))>>, k + 1)
    ELSE Replaced(m, c, curr, addonestring(m, k))

\* nested are the values of a capture that has what is inside it.
CaptureWith(m, k, nested) ==
    LET c == m.caps[k] IN
    CASE c.kind = "Cposition" -> Pushed(<<Numeral(c.s + 1)>>, k + 1)
      [] c.kind = "Cconst" -> Pushed(<<c.idx>>, k + 1)
      [] c.kind = "Cruntime" -> Pushed(<<c.idx.value>>, k + 1)
      [] c.kind = "Carg" -> IF c.idx > Len(m.args) THEN NotPushed ELSE Pushed(<<m.args[c.idx]>>, k + 1)
      [] c.kind = "Csimple" -> simplecap(pushnestedvalues(m, k, TRUE))
      [] c.kind = "Cstring" -> stringcap(m, k)
      [] c.kind = "Csubst" ->
            IF isfullcap(c) THEN Pushed(<<String(Part(m.subject, c.s, closeaddr(c)))>>, k + 1)
            ELSE substcap(m, k + 1, c.s)
      [] c.kind = "Cgroup" -> IF c.idx = "" THEN nested ELSE Pushed(<<>>, nextcap(m.caps, k))
      [] c.kind = "Cbackref" -> backrefcap(m, k)
      [] c.kind = "Ctable" -> tablecap(m, k)
      [] c.kind = "Cfunction" -> functioncap(c.idx, nested)
      [] c.kind = "Cnum" -> IF c.idx = 0 THEN Pushed(<<>>, nextcap(m.caps, k)) ELSE numcap(c.idx, nested)
      [] c.kind = "Cquery" -> querycap(c.idx, nested)
      [] c.kind = "Cfold" -> foldcap(m, k)
pushcapture(m, k) == CaptureWith(m, k, pushnestedvalues(m, k, FALSE))

\* The values of a match, or the position after it.
ValuesOrEnd(r, s) ==
    IF ~r.ok THEN <<Raised>> ELSE IF r.values = <<>> THEN <<Numeral(s + 1)>> ELSE r.values
getcaptures(m, s) ==
    ValuesOrEnd(pushall([m EXCEPT !.caps = Append(@, [kind |-> "Cclose", idx |-> "", siz |-> 1, s |-> s])], 1), s)

-----------------------------------------------------------------------------
(* lpvm.c.  The machine: the next instruction p, the position s, the stack *)
(* of choices and calls, and the captures.  p is 0 at giveup.              *)

Call == -1      \* the position of an entry of the stack that is a call

Start(s) == [p |-> 1, s |-> s, stack |-> <<[p |-> 0, s |-> s, caplevel |-> 0]>>,
             caps |-> <<>>, ndyncap |-> 0, calls |-> <<>>, out |-> "running"]

\* The values on Lua's stack without those of caps from the k-th on, and all above them.
Without(caps, k, ndyncap) ==
    LET D == {i \in k..Len(caps) : caps[i].kind = "Cruntime"} IN
    IF D = {} THEN ndyncap ELSE caps[CHOOSE i \in D : \A j \in D : i <= j].idx.at - 1

\* The pattern failed: back to the last choice, over the calls since then.
RECURSIVE Fail(_)
Fail(v) ==
    LET top == Last(v.stack) IN
    IF top.s = Call THEN Fail([v EXCEPT !.stack = Front(@)])
    ELSE [v EXCEPT !.stack = Front(@), !.s = top.s, !.p = top.p, !.caps = SubSeq(@, 1, top.caplevel),
                   !.ndyncap = Without(v.caps, top.caplevel + 1, @)]

pushcap(v, kind, idx, siz, s) ==
    [v EXCEPT !.p = @ + 1, !.caps = Append(@, [kind |-> kind, idx |-> idx, siz |-> siz, s |-> s])]

\* A match-time capture: its function sees the values inside, and its own take their
\* place, in a group.
Entry(kind, idx, s) == [kind |-> kind, idx |-> idx, siz |-> 1, s |-> s]
AddValues(v, values) ==
    LET n == Len(v.caps)
        added == [i \in DOMAIN values |->
                     Entry("Cruntime", [at |-> v.ndyncap + i, value |-> values[i]], v.s)] IN
    [v EXCEPT !.ndyncap = @ + Len(values),
              !.caps = IF values = <<>> THEN Front(@)
                       ELSE [@ EXCEPT ![n].idx = ""] \o added \o <<Entry("Cclose", "", v.s)>>]
Decided(v, r) ==
    CASE r.s = -2 -> [v EXCEPT !.out = "raised"]
      [] r.s = -1 -> Fail(v)
      [] r.s >= 0 -> AddValues([v EXCEPT !.p = @ + 1, !.s = r.s], r.values)
CallWith(v, m, open, inside) ==
    LET f == v.caps[open].idx IN
    IF ~inside.ok THEN [v EXCEPT !.out = "raised"]
    ELSE Decided([v EXCEPT !.calls = Append(@, <<f, v.s, inside.values>>),
                           !.caps = SubSeq(@, 1, open), !.ndyncap = Without(v.caps, open, @)],
                 CallOf(f, v.s, m.subject, inside.values))
CloseRunTime(v, m) ==
    LET caps == Append(v.caps, Entry("Cclose", "", v.s))
        open == findopen(caps, Len(caps), 0) IN
    CallWith(v, m, open, pushnestedvalues([m EXCEPT !.caps = caps], open, FALSE))

\* A capture that is short enough and has nothing inside becomes a full one.
CloseCapture(v) ==
    LET c == Last(v.caps) IN
    IF c.siz = 0 /\ v.s - c.s < MaxFull
    THEN [v EXCEPT !.p = @ + 1, !.caps[Len(v.caps)].siz = v.s - c.s + 1]
    ELSE pushcap(v, "Cclose", "", 1, v.s)

step(code, m, v) ==
    LET i == code[v.p]
        more == v.s < Len(m.subject)
        c == m.subject[v.s + 1]
        top == Last(v.stack)
        Go(p) == [v EXCEPT !.p = p]
        Next == [v EXCEPT !.p = @ + 1]
        Take == [v EXCEPT !.p = @ + 1, !.s = @ + 1]
        Push(p, s) == Append(v.stack, [p |-> p, s |-> s, caplevel |-> Len(v.caps)]) IN
    CASE v.ndyncap > Len(v.caps) -> [v EXCEPT !.out = "assert"]
      [] v.p = 0 -> [v EXCEPT !.out = IF v.stack = <<>> THEN "failed" ELSE "assert"]
      [] v.p # 0 /\ i.op = "IEnd" -> [v EXCEPT !.out = IF Len(v.stack) = 1 THEN "matched" ELSE "assert"]
      [] v.p # 0 /\ i.op \in {"IRet", "ICommit", "IPartialCommit", "IBackCommit"}
           /\ (v.stack = <<>> \/ ((top.s = Call) # (i.op = "IRet"))) -> [v EXCEPT !.out = "assert"]
      [] OTHER ->
         CASE i.op = "IRet" -> [v EXCEPT !.p = top.p, !.stack = Front(@)]
           [] i.op = "IAny" -> IF more THEN Take ELSE Fail(v)
           [] i.op = "ITestAny" -> IF more THEN Next ELSE Go(i.to)
           [] i.op = "IChar" -> IF more /\ c = i.aux THEN Take ELSE Fail(v)
           [] i.op = "ITestChar" -> IF more /\ c = i.aux THEN Next ELSE Go(i.to)
           [] i.op = "ISet" -> IF more /\ c \in i.aux THEN Take ELSE Fail(v)
           [] i.op = "ITestSet" -> IF more /\ c \in i.aux THEN Next ELSE Go(i.to)
           [] i.op = "IBehind" -> IF i.aux > v.s THEN Fail(v) ELSE [Next EXCEPT !.s = @ - i.aux]
           [] i.op = "ISpan" -> IF more /\ c \in i.aux THEN [v EXCEPT !.s = @ + 1] ELSE Next
           [] i.op = "IJmp" -> Go(i.to)
           [] i.op = "IChoice" -> [Next EXCEPT !.stack = Push(i.to, v.s)]
           [] i.op = "ICall" -> [Go(i.to) EXCEPT !.stack = Push(v.p + 1, Call)]
           [] i.op = "ICommit" -> [Go(i.to) EXCEPT !.stack = Front(@)]
           [] i.op = "IPartialCommit" ->
                 [Go(i.to) EXCEPT !.stack = Append(Front(@), [top EXCEPT !.s = v.s, !.caplevel = Len(v.caps)])]
           [] i.op = "IBackCommit" ->
                 [Go(i.to) EXCEPT !.stack = Front(@), !.s = top.s, !.caps = SubSeq(@, 1, top.caplevel)]
           [] i.op = "IFailTwice" -> Fail([v EXCEPT !.stack = Front(@)])
           [] i.op = "IFail" -> Fail(v)
           [] i.op = "ICloseRunTime" -> CloseRunTime(v, m)
           [] i.op = "ICloseCapture" -> CloseCapture(v)
           [] i.op = "IOpenCapture" -> pushcap(v, i.aux.kind, i.aux.key, 0, v.s)
           [] i.op = "IFullCapture" -> pushcap(v, i.aux.kind, i.aux.key, i.aux.off + 1, v.s - i.aux.off)

RECURSIVE run(_, _, _)
run(code, m, v) == IF v.out # "running" THEN v ELSE run(code, m, step(code, m, v))

\* Where a match begins that is asked for from init on; negative from the end.
initposition(len, init) ==
    IF init > 0 THEN IF init <= len THEN init - 1 ELSE len
    ELSE IF -init <= len THEN len + init ELSE 0

\* What match returns, and the calls of match-time functions on the way.
Returned(m, v) ==
    [calls |-> v.calls,
     values |-> CASE v.out = "matched" -> getcaptures([m EXCEPT !.caps = v.caps], v.s)
                  [] v.out = "failed" -> <<<<"nil">>>>
                  [] v.out = "raised" -> <<Raised>>
                  [] v.out = "assert" -> <<<<"assert">>>>]
Matched(code, m, init) == Returned(m, run(code, m, Start(initposition(Len(m.subject), init))))
lp_match(code, subject, init, args) ==
    Matched(code, [subject |-> subject, args |-> args, caps |-> <<>>], init)
=============================================================================
