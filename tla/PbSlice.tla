------------------------------- MODULE PbSlice -------------------------------
(***************************************************************************)
(* protobuf, pb.slice (lpb.c): the bytes of a message are read piece by    *)
(* piece; a part of them is entered, read, and left again.                 *)
(*                                                                         *)
(* Of the bytes only the varints are here: `varints' says, for each place, *)
(* how many bytes the varint takes which begins there (0: it does not end) *)
(* and its value.  PbWire has the bytes, PbMessage whole messages.         *)
(*                                                                         *)
(* The code takes any position.  Here a range begins in what it is of or   *)
(* right behind it, a level is entered by a range before anything of it is *)
(* read, a step forward or back stays behind the start, and the count of   *)
(* levels to leave is not 0.                                               *)
(***************************************************************************)
EXTENDS Integers, Sequences

CONSTANTS
    Contents,       \* the messages there are to read
    Fixed32,        \* the bytes of 32 bits: 4
    Positions,      \* the numbers given as positions, steps and counts
    MaxLevels       \* bound

ASSUME PbSliceAssumption ==
    /\ Contents \subseteq Seq([n : Nat, v : Nat])
    /\ Fixed32 \in Nat \ {0} /\ Positions \subseteq Int

VARIABLES
    varints,        \* the message
    curr,           \* what is being read: where to go on, where it starts, and the place behind it
    buff,           \* what was being read when it was entered, from the whole message on
    entered         \* for each of them, whether by "bytes" or by a "range"; not in the code

sliceVars == <<varints, curr, buff, entered>>

View(p, start, end) == [p |-> p, start |-> start, end |-> end]
LeftOf(s) == s.end - s.p
pb_pos(s) == s.p - s.start
On(s, n) == View(s.p + n, s.start, s.end)
used == Len(buff)

\* The view of a level, as pb.slice:level says it.
LevelView(k) == IF k = used THEN curr ELSE buff[k + 1]

-----------------------------------------------------------------------------
(* The part of some bytes two positions stand for.  A position counts from *)
(* the end if it is negative.                                              *)

\* 0 if it is before the beginning.
posrelat(pos, len) ==
    IF pos >= 0 THEN pos ELSE IF -pos > len THEN 0 ELSE len + pos + 1

\* The part from i to j: its first place, and how many there are.
From(i, len) == IF posrelat(i, len) < 1 THEN 1 ELSE posrelat(i, len)
To(j, len) == IF posrelat(j, len) > len THEN len ELSE posrelat(j, len)
rangerelat(i, j, len) ==
    [from |-> From(i, len), range |-> IF From(i, len) <= To(j, len) THEN To(j, len) - From(i, len) + 1 ELSE 0]

-----------------------------------------------------------------------------
(* Reading: how many bytes are taken, 0 for none *)

pb_readvarint64_(s) ==
    IF LeftOf(s) <= 0 \/ varints[s.p].n > LeftOf(s) THEN 0 ELSE varints[s.p].n
pb_readfixed_(s, n) == IF LeftOf(s) < n THEN 0 ELSE n
pb_readslice(s, len) == IF len < 0 \/ LeftOf(s) < len THEN 0 ELSE len

\* A length, and so many bytes.
pb_readbytes_(s) ==
    LET n == pb_readvarint64_(s) IN
    IF n = 0 \/ LeftOf(s) - n < varints[s.p].v THEN 0 ELSE n + varints[s.p].v

\* lpb_readbytes: if the bytes are not all there, their length has been taken.
lpb_readbytes(s) == IF pb_readbytes_(s) # 0 THEN pb_readbytes_(s) ELSE pb_readvarint64_(s)

\* What one letter of a format takes: a number or bytes, or those of a type.
Letters == {"v", "d", "q", "s", "c", "S", "g"}
lpb_unpackscalar(s, letter, arg) ==
    CASE letter = "v" -> pb_readvarint64_(s)
      [] letter = "d" -> pb_readfixed_(s, Fixed32)
      [] letter = "q" -> pb_readfixed_(s, 2 * Fixed32)
      [] letter = "s" -> pb_readbytes_(s)
      [] letter = "c" -> pb_readslice(s, arg)
      [] letter = "S" -> lpb_readbytes(s)       \* also of the types string and bytes
      [] OTHER -> 0                                 \* the type group raises

\* Where "*" and "+" go.
Limited(li, len) == IF li = 0 THEN 1 ELSE IF li > len THEN len + 1 ELSE li
lpb_unpackloc(s, letter, arg) ==
    LET len == s.end - s.start
        li == Limited(IF letter = "*" THEN posrelat(arg, len) ELSE pb_pos(s) + arg + 1, len) IN
    View(s.start + li - 1, s.start, s.end)

-----------------------------------------------------------------------------
(* Operations *)

lpb_enterview(view, how) ==
    /\ buff' = Append(buff, curr)
    /\ curr' = view
    /\ entered' = Append(entered, how)

\* The view of i to j of a message; the whole of it is the first of buff.
lpb_initslice(c, i, j) ==
    LET r == rangerelat(i, j, Len(c)) IN
    /\ r.from <= Len(c) + 1
    /\ varints' = c
    /\ buff' = <<View(1, 1, Len(c) + 1)>>
    /\ curr' = View(r.from, 1, r.from + r.range)
    /\ entered' = <<"range">>

\* pb.slice.reset with a message, or without one.
Lslice_reset == \E c \in Contents, i, j \in Positions : lpb_initslice(c, i, j)
lpb_resetslice ==
    /\ varints' = <<>> /\ curr' = View(1, 1, 1) /\ buff' = <<>> /\ entered' = <<>>

SliceInit ==
    /\ \E c \in Contents, i, j \in Positions :
          LET r == rangerelat(i, j, Len(c)) IN
          /\ r.from <= Len(c) + 1
          /\ varints = c /\ buff = <<View(1, 1, Len(c) + 1)>> /\ curr = View(r.from, 1, r.from + r.range)
    /\ entered = <<"range">>

\* One letter of pb.slice:unpack; at the end of the view nothing is taken.  Each letter of a
\* format is a step, as an error leaves the bytes before it taken; in the code all of a format
\* use the first argument after it (*pidx++ moves the pointer), here any one.
lpb_unpackfmt ==
    /\ LeftOf(curr) > 0
    /\ \E letter \in Letters, arg \in Positions : curr' = On(curr, lpb_unpackscalar(curr, letter, arg))
    /\ UNCHANGED <<varints, buff, entered>>
UnpackGoes ==
    /\ \E letter \in {"*", "+"}, arg \in Positions :
          /\ letter = "+" => pb_pos(curr) + arg + 1 >= 0
          /\ curr' = lpb_unpackloc(curr, letter, arg)
    /\ UNCHANGED <<varints, buff, entered>>

\* pb.slice:enter, without and with a range.
Lslice_enter ==
    /\ used < MaxLevels
    /\ \/ LET n == pb_readbytes_(curr)
              from == curr.p + pb_readvarint64_(curr) IN
          /\ n # 0
          /\ buff' = Append(buff, On(curr, n))
          /\ curr' = View(from, from, curr.p + n)
          /\ entered' = Append(entered, "bytes")
       \/ \E i, j \in Positions :
             LET r == rangerelat(i, j, LeftOf(curr)) IN
             /\ curr.p = curr.start /\ r.from <= LeftOf(curr) + 1
             /\ lpb_enterview(View(curr.start + r.from - 1, curr.p, curr.start + r.from - 1 + r.range), "range")
    /\ UNCHANGED varints

\* pb.slice:leave; from the last level the whole message is read.
Lslice_leave ==
    /\ \E arg \in Positions :
          LET count == posrelat(arg, used) IN
          /\ count # 0 /\ count <= used
          /\ \/ /\ count = used
                /\ curr' = buff[1] /\ buff' = <<buff[1]>> /\ entered' = <<"range">>
             \/ /\ count < used
                /\ curr' = buff[used - count + 1]
                /\ buff' = SubSeq(buff, 1, used - count)
                /\ entered' = SubSeq(entered, 1, used - count)
    /\ UNCHANGED varints

SliceNext ==
    \/ Lslice_reset \/ lpb_resetslice
    \/ lpb_unpackfmt \/ UnpackGoes
    \/ Lslice_enter \/ Lslice_leave

SliceSpec == SliceInit /\ [][SliceNext]_sliceVars

-----------------------------------------------------------------------------
(* Correctness *)

\* Every level lies in the one below it, and where it goes on is in it; a level entered by its
\* length is followed, in the one below, by what is read after it.
LevelsNest ==
    /\ \A k \in 0..used :
          /\ 1 <= LevelView(k).start /\ LevelView(k).start <= LevelView(k).p
          /\ LevelView(k).p <= LevelView(k).end /\ LevelView(k).end <= Len(varints) + 1
    /\ \A k \in 1..used :
          /\ LevelView(k - 1).start <= LevelView(k).start /\ LevelView(k).end <= LevelView(k - 1).end
          /\ entered[k] = "bytes" => LevelView(k).end = LevelView(k - 1).p
=============================================================================
