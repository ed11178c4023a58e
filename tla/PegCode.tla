------------------------------ MODULE PegCode ------------------------------
(***************************************************************************)
(* lpeg, second part: lpcode.c, from a tree to the code of the machine.    *)
(*                                                                         *)
(* An instruction is a record of the operation, its operand, and the       *)
(* instruction it may go to.  The code keeps instructions of one, two or   *)
(* more words and distances in words; here each is one element and knows   *)
(* the number of its target.  code is what has been generated so far, tt   *)
(* the test that protects what is generated, opt says that it is the last  *)
(* thing in something optional, and fl are the characters that may follow. *)
(***************************************************************************)
EXTENDS PegTree

CONSTANT MAXOFF         \* the longest capture of one instruction, 15

ASSUME PegCodeAssumption == MAXOFF \in Nat

NOINST == 0

addinstruction(code, op, aux) == Append(code, [op |-> op, aux |-> aux, to |-> 0])
addoffsetinst(code, op) == addinstruction(code, op, "")
addinstcap(code, op, kind, key, off) ==
    addinstruction(code, op, [kind |-> kind, key |-> key, off |-> off])
gethere(code) == Len(code) + 1
jumptothere(code, i, there) == IF i = NOINST THEN code ELSE [code EXCEPT ![i].to = there]
jumptohere(code, i) == jumptothere(code, i, gethere(code))

IsTest(code, tt, op, aux) == tt # NOINST /\ code[tt].op = op /\ code[tt].aux = aux

codechar(code, c, tt) ==
    IF IsTest(code, tt, "ITestChar", c) THEN addinstruction(code, "IAny", "")
    ELSE addinstruction(code, "IChar", c)

\* What instruction a set of characters takes.
charsettype(cs) ==
    CASE cs = {} -> "IFail"
      [] cs = Chars -> "IAny"
      [] cs # Chars /\ \E c \in Chars : cs = {c} -> "IChar"
      [] OTHER -> "ISet"
TheChar(cs) == CHOOSE c \in cs : TRUE

codecharset(code, cs, tt) ==
    CASE charsettype(cs) = "IChar" -> codechar(code, TheChar(cs), tt)
      [] charsettype(cs) = "ISet" ->
            IF IsTest(code, tt, "ITestSet", cs) THEN addinstruction(code, "IAny", "")
            ELSE addinstruction(code, "ISet", cs)
      [] OTHER -> addinstruction(code, charsettype(cs), "")

\* A test that goes elsewhere if the next character is not in cs; none if the empty
\* string is fine as well.
codetestset(code, cs, e) ==
    CASE e # {} -> code
      [] e = {} /\ cs = {} -> addoffsetinst(code, "IJmp")
      [] e = {} /\ cs = Chars -> addoffsetinst(code, "ITestAny")
      [] e = {} /\ charsettype(cs) = "IChar" -> addinstruction(code, "ITestChar", TheChar(cs))
      [] e = {} /\ charsettype(cs) = "ISet" -> addinstruction(code, "ITestSet", cs)
TheTest(code, e) == IF e # {} THEN NOINST ELSE gethere(code)

\* A test by cs1 tells the alternatives apart.
Apart(g, p1, cs1, e1, cs2) == headfail(g, p1) \/ (e1 = {} /\ cs1 \intersect cs2 = {})

RECURSIVE codegen(_, _, _, _, _, _)

codebehind(g, code, t) ==
    codegen(g, IF t[3] > 0 THEN addinstruction(code, "IBehind", t[3]) ELSE code,
            t[2], FALSE, NOINST, Chars)

codechoice(g, code, p1, p2, opt, fl) ==
    LET emptyp2 == p2 = TTrue
        f == getfirst(g, p1, Chars)
        here == gethere(code) IN
    IF Apart(g, p1, f.cs, f.e, getfirst(g, p2, fl).cs)
    THEN \* test L1; p1; jmp L2; L1: p2; L2:
         LET first == codegen(g, codetestset(code, f.cs, {}), p1, FALSE, here, fl)
             jmp == IF emptyp2 THEN NOINST ELSE gethere(first)
             tested == jumptohere(IF emptyp2 THEN first ELSE addoffsetinst(first, "IJmp"), here) IN
         jumptohere(codegen(g, tested, p2, opt, NOINST, fl), jmp)
    ELSE IF opt /\ emptyp2
    THEN \* partialcommit L1; L1: p1
         codegen(g, jumptohere(addoffsetinst(code, "IPartialCommit"), here), p1, TRUE, NOINST, Chars)
    ELSE \* test L1; choice L1; p1; commit L2; L1: p2; L2:
         LET test == TheTest(code, f.e)
             tested == codetestset(code, f.cs, f.e)
             pchoice == gethere(tested)
             first == codegen(g, addoffsetinst(tested, "IChoice"), p1, emptyp2, test, Chars)
             pcommit == gethere(first)
             second == jumptohere(jumptohere(addoffsetinst(first, "ICommit"), pchoice), test) IN
         jumptohere(codegen(g, second, p2, opt, NOINST, fl), pcommit)

codeand(g, code, t, tt) ==
    LET n == fixedlen(g, t, {}) IN
    IF n \in 0..MAXBEHIND /\ ~hascaptures(g, t, {})
    THEN LET body == codegen(g, code, t, FALSE, tt, Chars) IN
         IF n > 0 THEN addinstruction(body, "IBehind", n) ELSE body
    ELSE \* choice L1; p1; backcommit L2; L1: fail; L2:
         LET pchoice == gethere(code)
             body == codegen(g, addoffsetinst(code, "IChoice"), t, FALSE, tt, Chars)
             pcommit == gethere(body)
             failing == jumptohere(addoffsetinst(body, "IBackCommit"), pchoice) IN
         jumptohere(addinstruction(failing, "IFail", ""), pcommit)

codecapture(g, code, t, tt, fl) ==
    LET len == fixedlen(g, t[2], {}) IN
    IF len \in 0..MAXOFF /\ ~hascaptures(g, t[2], {})
    THEN addinstcap(codegen(g, code, t[2], FALSE, tt, fl), "IFullCapture", t[3], t[4], len)
    ELSE LET open == addinstcap(code, "IOpenCapture", t[3], t[4], 0) IN
         addinstcap(codegen(g, open, t[2], FALSE, tt, fl), "ICloseCapture", "Cclose", "", 0)

coderuntime(g, code, t, tt) ==
    LET open == addinstcap(code, "IOpenCapture", "Cgroup", t[3], 0) IN
    addinstcap(codegen(g, open, t[2], FALSE, tt, Chars), "ICloseRunTime", "Cclose", "", 0)

coderep(g, code, t, opt, fl) ==
    LET f == getfirst(g, t, Chars)
        here == gethere(code) IN
    IF IsCharset(t) THEN addinstruction(code, "ISpan", tocharset(t))
    ELSE IF Apart(g, t, f.cs, f.e, fl)
    THEN \* L1: test L2; p; jmp L1; L2:
         LET body == codegen(g, codetestset(code, f.cs, {}), t, FALSE, here, Chars)
             jmp == gethere(body) IN
         jumptothere(jumptohere(addoffsetinst(body, "IJmp"), here), jmp, here)
    ELSE \* test L2; choice L2; L1: p; partialcommit L1; L2:  (or partialcommit L1; L1: ...)
         LET test == TheTest(code, f.e)
             tested == codetestset(code, f.cs, f.e)
             first == gethere(tested)
             begun == IF opt THEN jumptohere(addoffsetinst(tested, "IPartialCommit"), first)
                      ELSE addoffsetinst(tested, "IChoice")
             body == codegen(g, begun, t, FALSE, NOINST, Chars)
             commit == gethere(body)
             again == jumptothere(addoffsetinst(body, "IPartialCommit"), commit, gethere(begun)) IN
         jumptohere(jumptohere(again, IF opt THEN NOINST ELSE first), test)

codenot(g, code, t) ==
    LET f == getfirst(g, t, Chars)
        test == TheTest(code, f.e)
        tested == codetestset(code, f.cs, f.e) IN
    IF headfail(g, t)
    THEN jumptohere(addinstruction(tested, "IFail", ""), test)
    ELSE \* test L1; choice L1; p; failtwice; L1:
         LET body == codegen(g, addoffsetinst(tested, "IChoice"), t, FALSE, NOINST, Chars)
             failing == addinstruction(body, "IFailTwice", "") IN
         jumptohere(jumptohere(failing, gethere(tested)), test)

RECURSIVE finaltarget(_, _)
finaltarget(code, i) == IF code[i].op = "IJmp" THEN finaltarget(code, code[i].to) ELSE i
finallabel(code, i) == finaltarget(code, code[i].to)

\* Calls find their rules; the last call of a rule is a jump.
correctcalls(code, positions, from) ==
    [i \in DOMAIN code |->
        IF i < from \/ code[i].op # "IOpenCall" THEN code[i]
        ELSE [op |-> IF code[finaltarget(code, i + 1)].op = "IRet" THEN "IJmp" ELSE "ICall",
              aux |-> "", to |-> positions[code[i].aux]]]

RECURSIVE coderules(_, _, _, _)
coderules(g, i, code, positions) ==
    IF i > Len(g) THEN [code |-> code, positions |-> positions]
    ELSE coderules(g, i + 1,
                   addinstruction(codegen(g, code, g[i], FALSE, NOINST, Chars), "IRet", ""),
                   Append(positions, gethere(code)))

codegrammar(code, g) ==
    LET firstcall == gethere(code)
        jumptoend == firstcall + 1
        begun == addoffsetinst(addoffsetinst(code, "ICall"), "IJmp")
        start == gethere(begun)
        rules == coderules(g, 1, jumptohere(begun, firstcall), <<>>) IN
    correctcalls(jumptohere(rules.code, jumptoend), rules.positions, start)

\* What protects p1 protects p2 if p1 takes nothing.
codeseq1(g, code, p1, p2, tt, fl) ==
    codegen(g, code, p1, FALSE, tt, IF needfollow(p1) THEN getfirst(g, p2, fl).cs ELSE Chars)
\* Slip: the test goes on although p1 has taken a character.
AfterSeq1_Slip(g, p1, tt) == tt
AfterSeq1(g, p1, tt) == IF fixedlen(g, p1, {}) # 0 THEN NOINST ELSE tt

codegen(g, code, t, opt, tt, fl) ==
    CASE t[1] = "TChar" -> codechar(code, t[2], tt)
      [] t[1] = "TAny" -> addinstruction(code, "IAny", "")
      [] t[1] = "TSet" -> codecharset(code, t[2], tt)
      [] t[1] = "TTrue" -> code
      [] t[1] = "TFalse" -> addinstruction(code, "IFail", "")
      [] t[1] = "TChoice" -> codechoice(g, code, t[2], t[3], opt, fl)
      [] t[1] = "TRep" -> coderep(g, code, t[2], opt, fl)
      [] t[1] = "TBehind" -> codebehind(g, code, t)
      [] t[1] = "TNot" -> codenot(g, code, t[2])
      [] t[1] = "TAnd" -> codeand(g, code, t[2], tt)
      [] t[1] = "TCapture" -> codecapture(g, code, t, tt, fl)
      [] t[1] = "TRunTime" -> coderuntime(g, code, t, tt)
      [] t[1] = "TGrammar" -> codegrammar(code, t[2])
      [] t[1] = "TCall" -> addinstruction(code, "IOpenCall", t[2])
      [] t[1] = "TSeq" -> codegen(g, codeseq1(g, code, t[2], t[3], tt, fl), t[3], opt,
                                  AfterSeq1(g, t[2], tt), fl)

\* Labels go to where jumps end, and a jump to a jump of its own kind becomes that.
RECURSIVE peep(_, _)
peep(code, i) ==
    LET ft == finaltarget(code, i) IN
    CASE code[i].op \in {"IChoice", "ICall", "ICommit", "IPartialCommit", "IBackCommit",
                         "ITestChar", "ITestSet", "ITestAny"} ->
            jumptothere(code, i, finallabel(code, i))
      [] code[i].op = "IJmp" /\ code[ft].op \in {"IRet", "IFail", "IFailTwice", "IEnd"} ->
            [code EXCEPT ![i] = code[ft]]
      [] code[i].op = "IJmp" /\ code[ft].op \in {"ICommit", "IPartialCommit", "IBackCommit"} ->
            peep([code EXCEPT ![i] = [code[ft] EXCEPT !.to = finallabel(code, ft)]], i)
      [] code[i].op = "IJmp" /\ code[ft].op \notin {"IRet", "IFail", "IFailTwice", "IEnd",
                                                    "ICommit", "IPartialCommit", "IBackCommit"} ->
            jumptothere(code, i, ft)
      [] OTHER -> code

RECURSIVE peephole(_, _)
peephole(code, i) == IF i > Len(code) THEN code ELSE peephole(peep(code, i), i + 1)

\* prepcompile: a call outside of a grammar is an error.
compile(t) ==
    IF OpenCalls(t) # {} THEN <<>>
    ELSE peephole(addinstruction(codegen(<<>>, <<>>, finalfix(t), FALSE, NOINST, Chars), "IEnd", ""), 1)
=============================================================================
