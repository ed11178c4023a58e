------------------------------- MODULE PbWire -------------------------------
(***************************************************************************)
(* lpb.h: the bytes of a protobuf message, read and written.  Bytes are a  *)
(* sequence of numbers; a slice of them is where it goes on (p) and the    *)
(* place after its last byte (end).  A slice may lie within a longer one,  *)
(* so there may be bytes after its end.                                    *)
(*                                                                         *)
(* What a reader returns is the number of bytes it took, 0 if it failed,   *)
(* and what it read; a slice that could not be read does not go on.        *)
(***************************************************************************)
EXTENDS Integers, Sequences, FiniteSets, SequencesExt, FiniteSetsExt

CONSTANTS
    PbGroup,        \* the values of the seven bits a byte of a varint holds: 128
    PbWord          \* the bytes of 32 bits: 4

Octet == 2 * PbGroup
W32 == Octet ^ PbWord
W64 == W32 ^ 2

\* The number of bytes 64 bits take as a varint: 10.
MaxVarint == CHOOSE n \in 1..(4 * PbWord) : PbGroup ^ n >= W64 /\ PbGroup ^ (n - 1) < W64

AsSigned(u, w) == IF u >= w \div 2 THEN u - w ELSE u

-----------------------------------------------------------------------------
(* Conversions *)

\* Numbers near zero get small codes, whatever their sign: pb_encode_sint32 and 64, which
\* take the number in two's complement.
pb_encode_sint(u, w) == LET v == AsSigned(u, w) IN IF v < 0 THEN (-2 * v) - 1 ELSE 2 * v
pb_decode_sint(u) == IF u % 2 = 1 THEN -(u \div 2) - 1 ELSE u \div 2
pb_expandsig(u) == AsSigned(u, W32) % W64

\* Wire types, and the type and the number of a field in a tag.
VARINT == 0
BIT64 == 1
BYTES == 2
GSTART == 3
GEND == 4
BIT32 == 5

pb_gettype(tag) == tag % 8
pb_gettag(tag) == tag \div 8
pb_pair(number, type) == number * 8 + type

-----------------------------------------------------------------------------
(* Reading *)

NotRead == [n |-> 0, v |-> 0]
Rest(s, n) == [s EXCEPT !.p = @ + n]
LeftIn(s) == s.end - s.p
Slice(p, end) == [p |-> p, end |-> end]

RECURSIVE Groups(_, _, _), LittleEnd(_, _, _)
Groups(d, p, k) == IF k = 0 THEN 0 ELSE (d[p] % PbGroup) + PbGroup * Groups(d, p + 1, k - 1)
LittleEnd(d, p, k) == IF k = 0 THEN 0 ELSE d[p] + Octet * LittleEnd(d, p + 1, k - 1)

VarintOf(d, p, k) == [n |-> k, v |-> Groups(d, p, k) % W64]

\* The varint at p that ends before `end'.
Varint(d, p, end) ==
    LET last == {i \in p..Min({end, p + MaxVarint}) - 1 : d[i] < PbGroup} IN
    IF last = {} THEN NotRead ELSE VarintOf(d, p, Min(last) - p + 1)

\* pb_readvarint64_fallback does not look where the slice ends, so it is for those where
\* some byte must stop it; the others are pb_readvarint_slow's.
pb_readvarint64(d, s) ==
    IF LeftIn(s) <= 0 THEN NotRead
    ELSE IF d[s.p] < PbGroup THEN [n |-> 1, v |-> d[s.p]]
    ELSE Varint(d, s.p, IF LeftIn(s) >= MaxVarint \/ d[s.end - 1] < PbGroup THEN Len(d) + 1 ELSE s.end)

pb_readvarint32(d, s) == LET r == pb_readvarint64(d, s) IN [r EXCEPT !.v = @ % W32]

\* pb_readfixed32 and pb_readfixed64
pb_readfixed(d, s, n) ==
    IF LeftIn(s) < n THEN NotRead ELSE [n |-> n, v |-> LittleEnd(d, s.p, n)]

\* As many bytes as the varint r, the first one of s, says; pb_readslice.
BytesAfter(s, r) ==
    IF r.n = 0 \/ LeftIn(Rest(s, r.n)) < r.v THEN NotRead
    ELSE [n |-> r.n + r.v, v |-> Slice(s.p + r.n, s.p + r.n + r.v)]
pb_readbytes(d, s) == BytesAfter(s, pb_readvarint64(d, s))

\* The tag a slice begins with, if it does, and what follows it.
TagBefore(s, r) == [ok |-> r.n # 0, v |-> r.v, s |-> Rest(s, r.n)]
TagAt(d, s) == TagBefore(s, pb_readvarint32(d, s))

pb_skipvarint(d, s) ==
    LET last == {i \in s.p..(s.end - 1) : d[i] < PbGroup} IN
    IF last = {} THEN 0 ELSE Min(last) - s.p + 1

\* A value that is no use to the reader; a group ends at the tag with its number.  A field
\* in a group that cannot be skipped is read on in, from its first byte.
RECURSIVE pb_skipvalue(_, _, _), pb_readgroup(_, _, _)
Distance(s, end) == IF end = 0 THEN 0 ELSE end - s.p
pb_skipvalue(d, s, tag) ==
    CASE pb_gettype(tag) = VARINT -> pb_skipvarint(d, s)
      [] pb_gettype(tag) = BIT64 -> pb_readfixed(d, s, 2 * PbWord).n
      [] pb_gettype(tag) = BYTES -> pb_readbytes(d, s).n
      [] pb_gettype(tag) = BIT32 -> pb_readfixed(d, s, PbWord).n
      [] pb_gettype(tag) = GSTART -> Distance(s, pb_readgroup(d, s, tag))
      [] OTHER -> 0

\* Where the group ends, or 0; t is the next tag in it.
GroupFrom(d, t, tag) ==
    IF ~t.ok THEN 0
    ELSE IF pb_gettype(t.v) # GEND
    THEN pb_readgroup(d, Rest(t.s, pb_skipvalue(d, t.s, t.v)), tag)
    ELSE IF pb_gettag(t.v) = pb_gettag(tag) THEN t.s.p ELSE 0
pb_readgroup(d, s, tag) == GroupFrom(d, TagAt(d, s), tag)

-----------------------------------------------------------------------------
(* Writing *)

\* pb_addvarint32 and pb_addvarint64
RECURSIVE pb_addvarint(_)
pb_addvarint(n) ==
    IF n < PbGroup THEN <<n>> ELSE <<PbGroup + (n % PbGroup)>> \o pb_addvarint(n \div PbGroup)

\* pb_addfixed32 and pb_addfixed64
pb_addfixed(n, k) == [i \in 1..k |-> (n \div Octet ^ (i - 1)) % Octet]

\* pb_addbytes writes a string after its length; pb_addlength puts the length before what
\* has been written since.
pb_addbytes(b) == pb_addvarint(Len(b)) \o b

-----------------------------------------------------------------------------
(* Properties *)

\* What is read of a slice depends on its own bytes only: the readers that do not look for
\* its end never come to it.
ReadsOwnBytes(d) ==
    \A end \in 1..(Len(d) + 1) : \A p \in 1..end :
        LET own == SubSeq(d, 1, end - 1)
            s == Slice(p, end) IN
        /\ pb_readvarint64(d, s) = Varint(own, p, end)
        /\ pb_readbytes(d, s) = pb_readbytes(own, s)
        /\ \A tag \in {pb_pair(1, type) : type \in 0..7} :
              pb_skipvalue(d, s, tag) = pb_skipvalue(own, s, tag)
              /\ pb_skipvalue(d, s, tag) <= LeftIn(s)

\* Numbers are read as they were written, and skipped as they are read.
NumbersAreRead(n) ==
    LET All(b) == Slice(1, Len(b) + 1)
        b == pb_addvarint(n) IN
    /\ pb_readvarint64(b \o <<1>>, All(b)) = [n |-> Len(b), v |-> n]
    /\ pb_readvarint32(b, All(b)).v = n % W32
    /\ pb_skipvarint(b, All(b)) = Len(b)
    /\ AsSigned(pb_decode_sint(pb_encode_sint(n, W64)) % W64, W64) = AsSigned(n, W64)
=============================================================================
