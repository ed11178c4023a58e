------------------------------ MODULE AioFile ------------------------------
(***************************************************************************)
(* A file of aio/init.lua that several coroutines use: read, write, flush, *)
(* clean, lseek and close of class File, over the threads of laio.c.       *)
(*                                                                         *)
(* A method hands a request to libeio and waits.  Threads execute requests *)
(* in any order; the first answer to enter the queue of answers writes a   *)
(* byte into a pipe, on which the loop polls the answers and wakes the     *)
(* coroutines.  The file is a sequence of the numbers of the writes that   *)
(* its bytes are from, 0 for any other byte; other processes leave it      *)
(* alone.                                                                  *)
(***************************************************************************)
EXTENDS Integers, Sequences, FiniteSets, SequencesExt

CONSTANTS
    Users,          \* coroutines that share the object
    MaxWrites,      \* bound: calls of write
    MaxOthers,      \* bound: calls of the other methods
    MaxFailures     \* bound: requests that fail or write less than they should

ASSUME MaxWritesAssumption == MaxWrites \in Nat

VARIABLES
    file,           \* the file's bytes
    status,         \* self.status, self.fd
    locks,          \* which of __READ__, __WRITE__, __FLUSH__, __CLEAN__ are set
    stat,           \* self.stat.size, None for no table
    read_offset,    \* self.read_offset, 0 for nil
    write_offset,   \* self.write_offset, None for nil
    op,             \* user -> the method it is in
    req,            \* user -> its request to the threads
    res,            \* user -> the answer to it
    finished,       \* users whose answer is in libeio's queue
    pipe,           \* bytes in the pipe
    acked,          \* writes that returned since the file was last cleaned
    writes, others, failures,   \* counters of the bounds
    disturbed       \* has an offset been moved below a running method, or by hand?

fvars == <<file, status, locks, stat, read_offset, write_offset, op, req, res, finished,
           pipe, acked, writes, others, failures, disturbed>>

None == -1
Idle == [lock |-> "none", id |-> 0]
NoReq == [kind |-> "none", off |-> 0, id |-> 0]
Failure == [ok |-> FALSE, n |-> 0]
WriteSize == 2      \* bytes of one write, and what one read asks for

\* aio.open gives an object without a stat, aio.create a new file with one.
FInit ==
    /\ \/ file \in {<<>>, <<0>>} /\ stat = None
       \/ file = <<>> /\ stat = 0
    /\ status = "open" /\ locks = {}
    /\ read_offset = 0 /\ write_offset = None
    /\ op = [u \in Users |-> Idle]
    /\ req = [u \in Users |-> NoReq]
    /\ res = [u \in Users |-> Failure]
    /\ finished = {} /\ pipe = 0
    /\ acked = {}
    /\ writes = 0 /\ others = 0 /\ failures = 0
    /\ disturbed = FALSE

-----------------------------------------------------------------------------
(* The threads of libeio and the pipe.                                     *)

\* What pwrite of n bytes at offset `off' makes of the file.
Pwrite(off, n, id) ==
    [i \in 1..(IF off + n > Len(file) THEN off + n ELSE Len(file)) |->
        IF i > off /\ i <= off + n THEN id
        ELSE IF i <= Len(file) THEN file[i] ELSE 0]

AtMost(x, y) == IF x < y THEN x ELSE y
Readable(off) == IF off >= Len(file) THEN 0 ELSE AtMost(WriteSize, Len(file) - off)

\* Slip: a byte only for an answer that finds others in the queue.
Finished_Silent(u) ==
    /\ finished' = finished \union {u}
    /\ pipe' = (IF finished # {} THEN pipe + 1 ELSE pipe)

\* Slip: every answer writes a byte, though only the last one taken reads one.
Finished_EachOne(u) ==
    /\ finished' = finished \union {u}
    /\ pipe' = pipe + 1

\* The answer enters the queue; the first one writes a byte (AIO_WANT_POLL).
Finished(u) ==
    /\ finished' = finished \union {u}
    /\ pipe' = (IF finished = {} THEN pipe + 1 ELSE pipe)

\* A thread executes the request of u.
Execute(u) ==
    LET r == req[u] IN
    /\ r.kind \notin {"none", "done"}
    /\ \/ /\ r.kind \in {"stat", "truncate"} \/ status = "open"
          /\ file' = (CASE r.kind = "pwrite" -> Pwrite(r.off, WriteSize, r.id)
                        [] r.kind = "truncate" -> <<>>
                        [] OTHER -> file)
          /\ acked' = (IF r.kind = "truncate" THEN {} ELSE acked)
          /\ res' = [res EXCEPT ![u] = [ok |-> TRUE,
                       n |-> CASE r.kind = "pwrite" -> WriteSize
                               [] r.kind = "pread" -> Readable(r.off)
                               [] r.kind = "stat" -> Len(file)
                               [] OTHER -> 0]]
          /\ UNCHANGED failures
       \/ /\ r.kind = "pwrite" /\ status = "open" /\ failures < MaxFailures
          /\ file' = Pwrite(r.off, 1, r.id)
          /\ res' = [res EXCEPT ![u] = [ok |-> TRUE, n |-> 1]]
          /\ failures' = failures + 1
          /\ UNCHANGED acked
       \/ /\ r.kind \in {"pread", "pwrite", "fsync"} /\ status = "closed"
          /\ res' = [res EXCEPT ![u] = Failure]
          /\ UNCHANGED <<file, failures, acked>>
       \/ /\ failures < MaxFailures
          /\ res' = [res EXCEPT ![u] = Failure]
          /\ failures' = failures + 1
          /\ UNCHANGED <<file, acked>>
    /\ req' = [req EXCEPT ![u] = [@ EXCEPT !.kind = "done"]]
    /\ Finished(u)
    /\ UNCHANGED <<status, locks, stat, read_offset, write_offset, op, writes, others,
                   disturbed>>

\* AIO_EVENT: all answers are taken; the last one takes the byte (AIO_DONE_POLL).
\* The coroutines are woken, and run later.
Poll ==
    /\ pipe > 0
    /\ pipe' = pipe - 1
    /\ finished' = {}
    /\ UNCHANGED <<file, status, locks, stat, read_offset, write_offset, op, req, res, acked,
                   writes, others, failures, disturbed>>

Answered(u) == req[u].kind = "done" /\ u \notin finished

-----------------------------------------------------------------------------
(* The methods.                                                            *)

Ask(u, kind, off, id) == req' = [req EXCEPT ![u] = [kind |-> kind, off |-> off, id |-> id]]

\* The method returns; or it raises, and its lock stays.
Returns(u, lock) ==
    /\ locks' = locks \ {lock}
    /\ op' = [op EXCEPT ![u] = Idle]
    /\ req' = [req EXCEPT ![u] = NoReq]
Raises(u) ==
    /\ op' = [op EXCEPT ![u] = Idle]
    /\ req' = [req EXCEPT ![u] = NoReq]
    /\ UNCHANGED locks

\* Does a method that takes this lock move offsets below another one, or the
\* other one its own?
Disturbs(lock) ==
    \/ lock = "CLEAN" /\ locks \intersect {"READ", "WRITE"} # {}
    \/ lock \in {"READ", "WRITE"} /\ "CLEAN" \in locks

\* Slip: no lock.
Enter_Freely(u, lock, id) ==
    /\ status = "open" /\ op[u] = Idle
    /\ locks' = locks \union {lock}
    /\ op' = [op EXCEPT ![u] = [lock |-> lock, id |-> id]]
    /\ disturbed' = (disturbed \/ Disturbs(lock))

\* The head of each method: it fails on a closed file, and raises if its lock is
\* taken.
Enter(u, lock, id) ==
    /\ status = "open" /\ op[u] = Idle
    /\ lock \notin locks
    /\ locks' = locks \union {lock}
    /\ op' = [op EXCEPT ![u] = [lock |-> lock, id |-> id]]
    /\ disturbed' = (disturbed \/ Disturbs(lock))

Io == <<file, res, finished, pipe>>

\* File:write: the first one writes at the end, for which it needs a stat.
Write(u) ==
    /\ writes < MaxWrites /\ writes' = writes + 1
    /\ Enter(u, "WRITE", writes')
    /\ LET at == IF write_offset = None THEN stat ELSE write_offset IN
       /\ IF at = None THEN Ask(u, "stat", 0, 0) ELSE Ask(u, "pwrite", at, writes')
       /\ write_offset' = at
    /\ UNCHANGED <<Io, status, stat, read_offset, acked, others, failures>>

\* ... with the stat: it raises if there is none, or no file any more.
WriteStat(u) ==
    /\ Answered(u) /\ op[u].lock = "WRITE" /\ req[u].id = 0
    /\ stat' = (IF res[u].ok THEN res[u].n ELSE None)
    /\ \/ /\ res[u].ok /\ status = "open"
          /\ write_offset' = res[u].n
          /\ Ask(u, "pwrite", res[u].n, op[u].id)
          /\ UNCHANGED <<op, locks>>
       \/ /\ res[u].ok /\ status = "closed"
          /\ write_offset' = res[u].n
          /\ Raises(u)
       \/ /\ ~res[u].ok
          /\ Raises(u) /\ UNCHANGED write_offset
    /\ UNCHANGED <<Io, status, read_offset, acked, writes, others, failures, disturbed>>

\* ... and with what was written: without a stat it raises all the same.
WriteEnds(u) ==
    /\ Answered(u) /\ op[u].lock = "WRITE" /\ req[u].id # 0
    /\ \/ /\ res[u].ok /\ stat # None
          /\ stat' = stat + res[u].n
          /\ write_offset' = write_offset + res[u].n
          /\ acked' = acked \union {[id |-> req[u].id, off |-> req[u].off, n |-> res[u].n]}
          /\ Returns(u, "WRITE")
       \/ ~res[u].ok /\ Returns(u, "WRITE") /\ UNCHANGED <<stat, write_offset, acked>>
       \/ res[u].ok /\ stat = None /\ Raises(u) /\ UNCHANGED <<stat, write_offset, acked>>
    /\ UNCHANGED <<Io, status, read_offset, writes, others, failures, disturbed>>

Other == others < MaxOthers /\ others' = others + 1

\* File:read and readall, flush, clean: the first request of each.
Read(u) ==
    /\ Other /\ Enter(u, "READ", 0) /\ Ask(u, "stat", 0, 0)
    /\ UNCHANGED <<Io, status, stat, read_offset, write_offset, acked, writes, failures>>
Flush(u) ==
    /\ Other /\ Enter(u, "FLUSH", 0) /\ Ask(u, "fsync", 0, 1)
    /\ UNCHANGED <<Io, status, stat, read_offset, write_offset, acked, writes, failures>>
Clean(u) ==
    /\ Other /\ Enter(u, "CLEAN", 0) /\ Ask(u, "truncate", 0, 1)
    /\ UNCHANGED <<Io, status, stat, read_offset, write_offset, acked, writes, failures>>

\* read with the stat: the object keeps it.
ReadStat(u) ==
    /\ Answered(u) /\ op[u].lock = "READ" /\ req[u].id = 0
    /\ \/ ~res[u].ok /\ Returns(u, "READ") /\ UNCHANGED stat
       \/ /\ res[u].ok /\ status = "open"
          /\ stat' = res[u].n
          /\ Ask(u, "pread", read_offset, 1)
          /\ UNCHANGED <<op, locks>>
       \/ res[u].ok /\ status = "closed" /\ stat' = res[u].n /\ Raises(u)
    /\ UNCHANGED <<Io, status, read_offset, write_offset, acked, writes, others, failures,
                   disturbed>>

\* ... and with the data: it raises if reading failed (#data of a boolean).
ReadEnds(u) ==
    /\ Answered(u) /\ op[u].lock = "READ" /\ req[u].id = 1
    /\ \/ /\ res[u].ok
          /\ read_offset' = read_offset + res[u].n
          /\ Returns(u, "READ")
       \/ ~res[u].ok /\ Raises(u) /\ UNCHANGED read_offset
    /\ UNCHANGED <<Io, status, stat, write_offset, acked, writes, others, failures, disturbed>>

FlushEnds(u) ==
    /\ Answered(u) /\ op[u].lock = "FLUSH"
    /\ Returns(u, "FLUSH")
    /\ UNCHANGED <<Io, status, stat, read_offset, write_offset, acked, writes, others,
                   failures, disturbed>>

\* clean: truncate, then stat; the offsets go back to the start.
CleanStat(u) ==
    /\ Answered(u) /\ op[u].lock = "CLEAN" /\ req[u].id = 1
    /\ \/ res[u].ok /\ Ask(u, "stat", 0, 0) /\ UNCHANGED <<op, locks>>
       \/ ~res[u].ok /\ Returns(u, "CLEAN")
    /\ UNCHANGED <<Io, status, stat, read_offset, write_offset, acked, writes, others,
                   failures, disturbed>>

\* A stat that fails leaves the offsets where they were in the longer file.
CleanEnds(u) ==
    /\ Answered(u) /\ op[u].lock = "CLEAN" /\ req[u].id = 0
    /\ \/ /\ res[u].ok
          /\ stat' = res[u].n
          /\ read_offset' = 0
          /\ write_offset' = (IF write_offset = None THEN None ELSE 0)
       \/ ~res[u].ok /\ UNCHANGED <<stat, read_offset, write_offset>>
    /\ Returns(u, "CLEAN")
    /\ UNCHANGED <<Io, status, acked, writes, others, failures, disturbed>>

\* File:lseek moves either offset, whatever runs.
Lseek ==
    /\ Other /\ disturbed' = TRUE
    /\ \/ read_offset' = 0 /\ UNCHANGED write_offset
       \/ write_offset' = 0 /\ UNCHANGED read_offset
    /\ UNCHANGED <<Io, status, locks, stat, op, req, acked, writes, failures>>

\* File:close closes the descriptor at once, whatever the threads are at.
CloseFile ==
    /\ status = "open" /\ Other
    /\ status' = "closed"
    /\ UNCHANGED <<Io, locks, stat, read_offset, write_offset, op, req, acked, writes,
                   failures, disturbed>>

\* The coroutine goes on with its answer.
Continue(u) ==
    WriteStat(u) \/ WriteEnds(u) \/ ReadStat(u) \/ ReadEnds(u) \/ FlushEnds(u)
        \/ CleanStat(u) \/ CleanEnds(u)

\* What happens by itself; each step brings a method nearer to its end.
FRunning ==
    \/ \E u \in Users : Execute(u) \/ Continue(u)
    \/ Poll

FNext ==
    \/ FRunning
    \/ \E u \in Users : Write(u) \/ Read(u) \/ Flush(u) \/ Clean(u)
    \/ Lseek \/ CloseFile

\* Threads take the requests that are queued, the loop looks at the pipe, and the
\* scheduler resumes the coroutines that were woken.
FSpec == FInit /\ [][FNext]_fvars /\ WF_fvars(FRunning)

-----------------------------------------------------------------------------
Locks == {"READ", "WRITE", "FLUSH", "CLEAN"}

FTypeOK ==
    /\ file \in Seq(0..MaxWrites)
    /\ status \in {"open", "closed"} /\ locks \subseteq Locks
    /\ stat \in Nat \union {None}
    /\ read_offset \in Nat /\ write_offset \in Nat \union {None}
    /\ op \in [Users -> [lock : Locks \union {"none"}, id : Nat]]
    /\ req \in [Users -> [kind : {"none", "done", "stat", "pread", "pwrite", "fsync", "truncate"},
                          off : Nat, id : Nat]]
    /\ res \in [Users -> [ok : BOOLEAN, n : Nat]]
    /\ finished \subseteq Users /\ pipe \in 0..1
    /\ acked \subseteq [id : Nat, off : Nat, n : Nat]
    /\ writes \in Nat /\ others \in Nat /\ failures \in Nat /\ disturbed \in BOOLEAN

\* What a write has returned for is in the file, whole, until the file is
\* cleaned: no later write goes over it (aio/init.lua:138-150), short writes and
\* requests that fail included.  Not so if clean ran beside a read or a write
\* (init.lua:172-195), or lseek moved the offset.
WritesStay ==
    ~disturbed =>
        \A a \in acked : \A i \in (a.off + 1)..(a.off + a.n) :
            i <= Len(file) /\ file[i] = a.id

\* No method leaves its lock behind: the exceptions are a read or a write whose
\* request failed (init.lua:105, 144), a file closed below a running method, and a
\* write at an offset set by hand before the object had a stat (init.lua:148).
LocksAreReleased ==
    \A l \in locks :
        \/ \E u \in Users : op[u].lock = l
        \/ status = "closed"
        \/ l \in {"READ", "WRITE"} /\ failures > 0
        \/ l = "WRITE" /\ disturbed

\* What a file is for: writes stay, and the locks are released.
FilesAreKept == WritesStay /\ LocksAreReleased

\* The methods return, or raise: no answer stays in the queue without a byte in
\* the pipe (laio.c:332-356).
FilesReturn == \A u \in Users : (op[u] # Idle) ~> (op[u] = Idle)
=============================================================================
