----------------------------- MODULE HttpParser -----------------------------
(***************************************************************************)
(* lhttpparser/: heads of requests and responses, and bodies in chunks,    *)
(* parsed from what has arrived of them.  httpd reads until there is an    *)
(* empty line and parses the buffer, which may hold more than the head; so *)
(* it relies on heads that end at that line, and are the same whatever has *)
(* come behind them.                                                       *)
(*                                                                         *)
(* Characters are classes: "a" stands for letters that are no digits of    *)
(* base 16, "(" for what is printable but in no token, "ctl" for control   *)
(* characters; "HTTP/1." is one character.  The sizes of chunks have base  *)
(* HexBase instead of 16, with two digits.                                 *)
(***************************************************************************)
EXTENDS Integers, Sequences, FiniteSets, SequencesExt, FiniteSetsExt

CONSTANTS
    HexBase,        \* base of a chunk's size: 16
    MaxHex,         \* digits of the longest: 16
    MaxHeaders,     \* MAX_HEADER: 128
    Beginnings,     \* kind -> what of a message may be there at the start
    MaxMore         \* bound: characters that arrive behind the beginning

VARIABLES
    kind,           \* what is parsed: "request", "response" or "chunked"
    buf,            \* what has arrived
    before,         \* the result before the last character came
    more            \* counter of the bound

hvars == <<kind, buf, before, more>>

CR == "cr"
LF == "lf"
SP == " "
TAB == "tab"
HTTP1 == "HTTP/1."
Digit == {"0", "1"}
Token == {"a"} \union Digit
Control == {CR, LF, TAB, "ctl"}
Alphabet == Token \union Control \union {SP, ":", "(", HTTP1}

Incomplete == -2
Error == -1

-----------------------------------------------------------------------------
(* Parsing goes on at a place in the buffer: a step gives the next place,  *)
(* or Incomplete or Error.                                                 *)

\* CHECK_EOF: nothing can be said before there is a character.
Check(s, i, step) == IF i > Len(s) THEN Incomplete ELSE step

\* The first place from i on with a character of S, or the end.
First(s, i, S) == Min({k \in i..Len(s) : s[k] \in S} \union {Len(s) + 1})

\* Slip: the end of a line is taken for one when the first half of it is there.
Eol_Early(s, i) ==
    Check(s, i,
        CASE s[i] = LF -> i + 1
          [] s[i] = CR -> IF i < Len(s) /\ s[i + 1] = LF THEN i + 2 ELSE Error
          [] OTHER -> Error)

\* The end of a line.
Eol(s, i) ==
    Check(s, i,
        CASE s[i] = LF -> i + 1
          [] s[i] = CR -> Check(s, i + 1, IF s[i + 1] = LF THEN i + 2 ELSE Error)
          [] OTHER -> Error)

\* get_token_to_eol: to the end of a line with no control character but tabs.
get_token_to_eol(s, i) == Eol(s, First(s, i, Control \ {TAB}))

\* parse_token: up to a character that must follow the token.
parse_token(s, i, next_char) ==
    LET k == First(s, i, Alphabet \ Token) IN
    Check(s, k, IF s[k] = next_char THEN k ELSE Error)

\* ADVANCE_TOKEN: up to a space.
advance_token(s, i) ==
    LET k == First(s, i, Control \union {SP}) IN
    Check(s, k, IF s[k] = SP THEN k ELSE Error)

Blanks(s, i, S) == LET k == First(s, i, Alphabet \ S) IN Check(s, k, k)

\* Characters there are from i on, as the code counts them.
Left(s, i) == Len(s) - i + 1 + 6 * Cardinality({k \in i..Len(s) : s[k] = HTTP1})

\* parse_http_version: at least one more character is wanted behind the digit.
parse_http_version(s, i) ==
    IF Left(s, i) < 9 THEN Incomplete
    ELSE IF s[i] = HTTP1 /\ s[i + 1] \in Digit THEN i + 2 ELSE Error

-----------------------------------------------------------------------------
\* A result: the place behind the head, and its headers, in order.  A header is its
\* name, <<>> for a line that goes on with the last one's value, and its value.
Result(at, headers) == [at |-> at, headers |-> headers]

RTrim(v) == SubSeq(v, 1, Max({k \in 1..Len(v) : v[k] \notin {SP, TAB}} \union {0}))

RECURSIVE parse_headers(_, _, _)

\* A line of the headers, with its value from `from' on.
header(s, name, from, headers) ==
    LET eol == get_token_to_eol(s, from)
        value == SubSeq(s, from, First(s, from, Control \ {TAB}) - 1) IN
    IF from < 0 THEN Result(from, headers)
    ELSE IF eol < 0 THEN Result(eol, headers)
    ELSE parse_headers(s, eol, Append(headers, [name |-> name, value |-> RTrim(value)]))

parse_headers(s, i, headers) ==
    LET colon == parse_token(s, i, ":") IN
    CASE i < 0 \/ i > Len(s) -> Result(IF i < 0 THEN i ELSE Incomplete, headers)
      [] i \in DOMAIN s /\ s[i] \in {CR, LF} -> Result(Eol(s, i), headers)
      [] i \in DOMAIN s /\ s[i] \notin {CR, LF} /\ Len(headers) = MaxHeaders -> Result(Error, headers)
      [] i \in DOMAIN s /\ s[i] \in {SP, TAB} /\ headers # <<>> /\ Len(headers) # MaxHeaders ->
            header(s, <<>>, i, headers)
      [] OTHER ->
            header(s, SubSeq(s, i, colon - 1),
                   IF colon < 0 THEN colon ELSE IF colon = i THEN Error
                   ELSE Blanks(s, colon + 1, {SP, TAB}), headers)

\* parse_request
parse_request(s) ==
    LET start == Check(s, 1, IF s[1] \in {CR, LF} THEN Eol(s, 1) ELSE 1)
        method == parse_token(s, start, SP)
        path == Blanks(s, method + 1, {SP})
        gap == advance_token(s, path)
        version == Blanks(s, gap + 1, {SP})
        line == parse_http_version(s, version) IN
    IF start < 0 THEN Result(start, <<>>)
    ELSE IF method < 0 THEN Result(method, <<>>)
    ELSE IF path < 0 THEN Result(path, <<>>)
    ELSE IF gap < 0 THEN Result(gap, <<>>)
    ELSE IF version < 0 THEN Result(version, <<>>)
    ELSE IF method = start \/ gap = path THEN Result(Error, <<>>)
    ELSE IF line < 0 THEN Result(line, <<>>)
    ELSE parse_headers(s, Eol(s, line), <<>>)

\* parse_response: three digits of status, and a message behind a space, if any.
parse_response(s) ==
    LET version == parse_http_version(s, 1)
        status == Blanks(s, version, {SP})
        msg == status + 3 IN
    IF version < 0 THEN Result(version, <<>>)
    ELSE IF s[version] # SP THEN Result(Error, <<>>)
    ELSE IF status < 0 THEN Result(status, <<>>)
    ELSE IF Left(s, status) < 4 THEN Result(Incomplete, <<>>)
    ELSE IF \E k \in status..(msg - 1) : s[k] \notin Digit THEN Result(Error, <<>>)
    ELSE IF get_token_to_eol(s, msg) < 0 THEN Result(get_token_to_eol(s, msg), <<>>)
    ELSE IF s[msg] \notin {SP, CR, LF} THEN Result(Error, <<>>)
    ELSE parse_headers(s, get_token_to_eol(s, msg), <<>>)

\* What lparser_http_request and lparser_http_response make of the headers: the
\* first line that has no name ends them.
LuaHeaders(headers) ==
    SubSeq(headers, 1, Min({k \in DOMAIN headers : headers[k].name = <<>>} \union {Len(headers) + 1}) - 1)

-----------------------------------------------------------------------------
\* phr_decode_chunked, in one go with consume_trailer: a chunk from place i on, behind
\* what is already decoded.
RECURSIVE chunk(_, _, _), trailers(_, _, _)

Chunked(at, data) == [at |-> at, headers |-> data]

\* Any number of CR may stand before the LF.
CrLf(s, i) == First(s, i, Alphabet \ {CR})

trailers(s, i, data) ==
    LET k == CrLf(s, i)
        next == First(s, k + 1, {LF}) IN
    IF k > Len(s) THEN Chunked(Incomplete, data)
    ELSE IF s[k] = LF THEN Chunked(k + 1, data)
    ELSE IF next > Len(s) THEN Chunked(Incomplete, data)
    ELSE trailers(s, next + 1, data)

chunk(s, i, data) ==
    LET ext == First(s, i, Alphabet \ Digit)
        size == FoldLeft(LAMBDA n, c : n * HexBase + (IF c = "1" THEN 1 ELSE 0), 0, SubSeq(s, i, ext - 1))
        from == First(s, ext, {LF}) + 1
        end == from + size
        crlf == CrLf(s, end) IN
    IF ext - i > MaxHex THEN Chunked(Error, data)
    ELSE IF ext > Len(s) THEN Chunked(Incomplete, data)
    ELSE IF ext = i THEN Chunked(Error, data)
    ELSE IF from > Len(s) + 1 THEN Chunked(Incomplete, data)
    ELSE IF size = 0 THEN trailers(s, from, data)
    ELSE IF end > Len(s) + 1 THEN Chunked(Incomplete, data \o SubSeq(s, from, Len(s)))
    ELSE IF crlf > Len(s) THEN Chunked(Incomplete, data \o SubSeq(s, from, end - 1))
    ELSE IF s[crlf] # LF THEN Chunked(Error, data)
    ELSE chunk(s, crlf + 1, data \o SubSeq(s, from, end - 1))
-----------------------------------------------------------------------------
Parse(k, s) ==
    CASE k = "request" -> parse_request(s)
      [] k = "response" -> parse_response(s)
      [] k = "chunked" -> chunk(s, 1, <<>>)

HInit ==
    /\ kind \in DOMAIN Beginnings
    /\ buf \in Beginnings[kind]
    /\ before = Result(Incomplete, <<>>)
    /\ more = 0

\* One more character; when something could be said of what was there, the last one.
Arrive(c) ==
    /\ before.at = Incomplete /\ more < MaxMore
    /\ before' = Parse(kind, buf)
    /\ buf' = Append(buf, c)
    /\ more' = more + 1
    /\ UNCHANGED kind

HNext == \E c \in Alphabet : Arrive(c)

-----------------------------------------------------------------------------
\* A message that was taken for complete, or for no message, is so still when more
\* has come: what was complete ends at the same place with the same contents
\* (protocol/http/init.lua:361, httpc/protocol.lua:130).
AnswerStays ==
    LET now == Parse(kind, buf) IN
    /\ before.at = Error => now.at = Error
    /\ before.at > 0 => now = before

\* A head ends at the first empty line, which is where httpd looks for the body
\* (protocol/http/init.lua:358), and nowhere else.
EndsAtEmptyLine ==
    LET now == Parse(kind, buf)
        empty == {k \in 3..Len(buf) :
                    buf[k] = LF /\ (buf[k - 1] = LF \/ SubSeq(buf, k - 2, k - 1) = <<LF, CR>>)} IN
    (kind # "chunked" /\ now.at > 0) => now.at = Min(empty) + 1
=============================================================================
