---------------------------- MODULE ProcessCall ----------------------------
(***************************************************************************)
(* A master and its workers (src/core_start.c, src/core.c, lchild.c), and  *)
(* what they say to each other (lualib/process/): the master forks the     *)
(* workers and listens on a socket in the file system; each worker         *)
(* connects and says hello; then either end sends messages through a       *)
(* writer coroutine of its own, and a worker may call the master and wait  *)
(* for the answer under a session id.                                      *)
(*                                                                         *)
(* A socket holds Cap cells.  A message is one cell of header and two of   *)
(* body: a write that finds less room leaves part of it for later, and a   *)
(* read gets what is there.  Messages are known by their number in `mail', *)
(* which records all that were ever sent.                                  *)
(***************************************************************************)
EXTENDS Integers, Sequences, FiniteSets, SequencesExt

CONSTANTS
    Workers,        \* pids of the workers: consecutive naturals
    SidRange,       \* sessions ids of one process: 2^32 in the code
    Cap,            \* cells in a socket's buffer
    MaxEvents       \* bound: calls, other messages, and deaths

ASSUME WorkersAssumption == Workers \subseteq Nat \ {0} /\ IsFiniteSet(Workers)
ASSUME SidRangeAssumption == SidRange \in Nat \ {0}
ASSUME CapAssumption == Cap \in Nat /\ Cap >= 3

VARIABLES
    master,         \* where the master is
    worker,         \* pid -> where the worker is
    sockfile,       \* the socket file: "none", "listening", "removed"
    accepted,       \* pid -> what the master made of its connection
    queue,          \* end -> self.queue: messages nobody has started to write
    batch,          \* end -> messages its writer is at
    writer,         \* end -> where its writer coroutine is
    out,            \* end -> cells of the first of batch that are written
    net,            \* end -> cells in the socket
    reader,         \* end -> where the coroutine at the other side is
    mail,           \* end -> all messages sent, in order
    got,            \* end -> number of the last message dispatched
    split,          \* end -> has a write ever found too little room?
    calls,          \* pid -> calls it has made: its sid
    session_map,    \* pid -> sessions it waits for: pairs of sid and call
    returned,       \* pid -> calls that returned: pairs of call and answer
    handling,       \* calls the master's function is at
    sigchld,        \* a SIGCHLD that libev has not looked at yet
    reported,       \* workers whose death the master's callback was told
    events          \* counter of the bound

Ends == Workers \X {"up", "down"}

chan == <<queue, batch, writer, out, net, reader, mail, got, split>>
calling == <<calls, session_map, returned, handling>>
children == <<sigchld, reported>>
vars == <<master, worker, sockfile, accepted, chan, calling, children, events>>

Init ==
    /\ master = "forking"
    /\ worker = [w \in Workers |-> "unborn"]
    /\ sockfile = "none"
    /\ accepted = [w \in Workers |-> "no"]
    /\ queue = [e \in Ends |-> <<>>] /\ batch = [e \in Ends |-> <<>>]
    /\ writer = [e \in Ends |-> "none"]
    /\ out = [e \in Ends |-> 0]
    /\ net = [e \in Ends |-> <<>>]
    /\ reader = [e \in Ends |-> "none"]
    /\ mail = [e \in Ends |-> <<>>]
    /\ got = [e \in Ends |-> 0]
    /\ split = [e \in Ends |-> FALSE]
    /\ calls = [w \in Workers |-> 0]
    /\ session_map = [w \in Workers |-> {}]
    /\ returned = [w \in Workers |-> {}]
    /\ handling = {}
    /\ sigchld = FALSE /\ reported = {}
    /\ events = 0

MasterLives == master # "dead"
Lives(w) == worker[w] \in {"connecting", "up"}

\* Who writes to an end, who reads from it, and can what is written arrive?
WriterLives(e) == IF e[2] = "up" THEN Lives(e[1]) ELSE MasterLives
ReaderLives(e) == IF e[2] = "up" THEN MasterLives ELSE Lives(e[1])
Open(e) == ReaderLives(e) /\ accepted[e[1]] # "refused"

Known == {w \in Workers : accepted[w] = "known"}

-----------------------------------------------------------------------------
(* Channel:send and its writer.                                            *)

\* Message m is sent on the ends S: the first one forks the writer, one that
\* finds the writer waiting wakes it.
Post(S, m) ==
    /\ mail' = [e \in Ends |-> IF e \in S THEN Append(mail[e], m) ELSE mail[e]]
    /\ queue' = [e \in Ends |-> IF e \in S THEN Append(queue[e], Len(mail'[e])) ELSE queue[e]]
    /\ writer' = [e \in Ends |->
                    IF e \notin S THEN writer[e]
                    ELSE CASE writer[e] = "none" -> "forked"
                           [] writer[e] = "waiting" -> "woken"
                           [] OTHER -> writer[e]]

Size == 3
CellsOf(msgs) == [i \in 1..(Size * Len(msgs)) |->
                    <<msgs[(i - 1) \div Size + 1], ((i - 1) % Size) + 1>>]
Room(e) == Cap - Len(net[e])
Lesser(x, y) == IF x < y THEN x ELSE y

\* Only n cells of the messages held by e could be written, `done' messages
\* among them: with the batch finished, the queue has become the batch.
Drain_Blocks(e, held, n, done) ==
    /\ net' = [net EXCEPT ![e] = @ \o SubSeq(CellsOf(held), out[e] + 1, out[e] + n)]
    /\ out' = [out EXCEPT ![e] = (@ + n) % Size]
    /\ \/ /\ done < Len(batch[e])
          /\ batch' = [batch EXCEPT ![e] = SubSeq(@, done + 1, Len(@))]
          /\ UNCHANGED queue
       \/ /\ done >= Len(batch[e])
          /\ batch' = [batch EXCEPT ![e] = SubSeq(held, done + 1, Len(held))]
          /\ queue' = [queue EXCEPT ![e] = <<>>]
    /\ writer' = [writer EXCEPT ![e] = "blocked"]
    /\ split' = [split EXCEPT ![e] = TRUE]

\* The writer runs until it must wait: through its batch, through what was sent
\* meanwhile, and so on.  Either all is written, or the socket is full; a send
\* that fails, for the other process is gone, is not noticed.
Drain(e) ==
    LET held == batch[e] \o queue[e]
        n == IF Open(e) THEN Lesser(Room(e), Size * Len(held) - out[e]) ELSE 0
        done == (out[e] + n) \div Size IN
    \/ /\ Open(e) /\ n < Size * Len(held) - out[e]
       /\ Drain_Blocks(e, held, n, done)
    \/ /\ Open(e) => n = Size * Len(held) - out[e]
       /\ net' = [net EXCEPT ![e] = @ \o SubSeq(CellsOf(held), out[e] + 1, out[e] + n)]
       /\ queue' = [queue EXCEPT ![e] = <<>>]
       /\ batch' = [batch EXCEPT ![e] = <<>>]
       /\ out' = [out EXCEPT ![e] = 0]
       /\ writer' = [writer EXCEPT ![e] = "waiting"]
       /\ UNCHANGED split

\* The writer starts, is woken, or finds room again for what it could not write.
WriterRuns(e) ==
    /\ WriterLives(e) /\ writer[e] \in {"forked", "woken", "blocked"}
    /\ writer[e] = "blocked" => Room(e) > 0 \/ ~Open(e)
    /\ Drain(e)
    /\ UNCHANGED <<master, worker, sockfile, accepted, reader, mail, got, calling, children,
                   events>>

-----------------------------------------------------------------------------
(* Start: forks, the socket file, the handshake.                           *)

Note == [kind |-> "note", sid |-> 0, call |-> <<>>]
Hello == [kind |-> "hello", sid |-> 0, call |-> <<>>]

\* cfadmin_master_run: the workers are forked one after the other.
Fork(w) ==
    /\ master = "forking"
    /\ worker[w] = "unborn" /\ \A v \in Workers : v < w => worker[v] # "unborn"
    /\ worker' = [worker EXCEPT ![w] = "connecting"]
    /\ UNCHANGED <<master, sockfile, accepted, chan, calling, children, events>>

\* core_master_run, process.init: handlers of signals, watchers of the children,
\* and the listening socket; then the script waits for all workers.
Listen ==
    /\ master = "forking" /\ \A w \in Workers : worker[w] # "unborn"
    /\ master' = "listening"
    /\ sockfile' = "listening"
    /\ UNCHANGED <<worker, accepted, chan, calling, children, events>>

\* Channel:connect('worker'): tried over and over until there is a socket file.
Connect(w) ==
    /\ worker[w] = "connecting" /\ sockfile = "listening" /\ MasterLives
    /\ worker' = [worker EXCEPT ![w] = "up"]
    /\ accepted' = [accepted EXCEPT ![w] = "pending"]
    /\ Post({<<w, "up">>}, Hello)
    /\ UNCHANGED <<master, sockfile, batch, out, net, reader, got, split, calling, children,
                   events>>

\* The callback of listen_ex: a coroutine that receives the worker's hello.
Accept(w) ==
    /\ master = "listening" /\ accepted[w] = "pending"
    /\ accepted' = [accepted EXCEPT ![w] = "reading"]
    /\ reader' = [reader EXCEPT ![<<w, "up">>] = "header"]
    /\ UNCHANGED <<master, worker, sockfile, queue, batch, writer, out, net, mail, got,
                   split, calling, children, events>>

\* The hello has come: with the last one the master goes on, and nobody else can
\* connect.
Greeted(w) ==
    /\ accepted' = [accepted EXCEPT ![w] = "known"]
    /\ reader' = [reader EXCEPT ![<<w, "up">>] = "none"]
    /\ \/ /\ Known \union {w} = Workers
          /\ master' = "ready" /\ sockfile' = "removed"
       \/ Known \union {w} # Workers /\ UNCHANGED <<master, sockfile>>
    /\ UNCHANGED <<calling>>

-----------------------------------------------------------------------------
(* Channel:recv and the reader.                                            *)

\* A message of a worker: the master has no session of that id, and runs its
\* function on it.
AtMaster(w, m) ==
    /\ handling' = (IF m.kind = "call" THEN handling \union {m} ELSE handling)
    /\ reader' = [reader EXCEPT ![<<w, "up">>] = "header"]
    /\ UNCHANGED <<master, sockfile, accepted, calls, session_map, returned>>

\* Slip: an answer wakes whoever waits.
AtWorker_Any(w, m) ==
    LET s == CHOOSE t \in session_map[w] : TRUE IN
    /\ IF m.sid # 0 /\ session_map[w] # {}
       THEN /\ session_map' = [session_map EXCEPT ![w] = @ \ {s}]
            /\ returned' = [returned EXCEPT ![w] = @ \union {<<s[2], m.call>>}]
       ELSE UNCHANGED <<session_map, returned>>
    /\ reader' = [reader EXCEPT ![<<w, "down">>] = "header"]
    /\ UNCHANGED <<master, sockfile, accepted, calls, handling>>

\* A message of the master: it wakes the coroutine that waits for its session
\* (session.wakeup), or is one for the worker's function.
AtWorker(w, m) ==
    LET woken == {s \in session_map[w] : s[1] = m.sid} IN
    /\ session_map' = [session_map EXCEPT ![w] = @ \ woken]
    /\ returned' = [returned EXCEPT ![w] = @ \union {<<s[2], m.call>> : s \in woken}]
    /\ reader' = [reader EXCEPT ![<<w, "down">>] = "header"]
    /\ UNCHANGED <<master, sockfile, accepted, calls, handling>>

\* Only a part of the body is there: "Invalid message.", and the reader has ended.
RecvPart(e) ==
    /\ net' = [net EXCEPT ![e] = <<>>]
    /\ reader' = [reader EXCEPT ![e] = "broken"]
    /\ UNCHANGED <<master, sockfile, accepted, got, calling>>

\* One message is taken from the socket and dispatched.  With no more than its
\* length there, the reader waits for the body.
Recv(e) ==
    LET have == Len(net[e]) + (IF reader[e] = "body" THEN 1 ELSE 0)
        m == mail[e][Head(net[e])[1]] IN
    /\ ReaderLives(e) /\ reader[e] \in {"header", "body"} /\ net[e] # <<>>
    /\ \/ /\ have >= Size
          /\ net' = [net EXCEPT ![e] = SubSeq(@, Size - (have - Len(@)) + 1, Len(@))]
          /\ got' = [got EXCEPT ![e] = Head(net[e])[1]]
          /\ \/ e[2] = "up" /\ accepted[e[1]] = "reading" /\ Greeted(e[1])
             \/ e[2] = "up" /\ accepted[e[1]] # "reading" /\ AtMaster(e[1], m)
             \/ e[2] = "down" /\ AtWorker(e[1], m)
       \/ /\ have = 1
          /\ net' = [net EXCEPT ![e] = <<>>]
          /\ reader' = [reader EXCEPT ![e] = "body"]
          /\ UNCHANGED <<master, sockfile, accepted, got, calling>>
       \/ have = 2 /\ RecvPart(e)
    /\ UNCHANGED <<worker, queue, batch, writer, out, mail, split, children, events>>

\* The other process is gone: the reader ends.  In the handshake the master
\* removes the socket file as well.
RecvEnd(e) ==
    /\ ReaderLives(e) /\ ~WriterLives(e)
    /\ reader[e] \in {"header", "body"} /\ net[e] = <<>>
    /\ reader' = [reader EXCEPT ![e] = "closed"]
    /\ \/ /\ accepted[e[1]] = "reading" /\ e[2] = "up"
          /\ accepted' = [accepted EXCEPT ![e[1]] = "refused"]
          /\ sockfile' = "removed"
       \/ /\ accepted[e[1]] # "reading" \/ e[2] = "down"
          /\ UNCHANGED <<accepted, sockfile>>
    /\ UNCHANGED <<master, worker, queue, batch, writer, out, net, mail, got, split, calling,
                   children, events>>

-----------------------------------------------------------------------------
(* What the scripts of master and workers call.                            *)

\* process.on('message', func) in a worker ...
OnWorker(w) ==
    /\ worker[w] = "up" /\ reader[<<w, "down">>] = "none"
    /\ reader' = [reader EXCEPT ![<<w, "down">>] = "header"]
    /\ UNCHANGED <<master, worker, sockfile, accepted, queue, batch, writer, out, net, mail,
                   got, split, calling, children, events>>

\* ... and in the master.
OnMaster ==
    /\ master = "ready" /\ \E w \in Workers : reader[<<w, "up">>] = "none"
    /\ reader' = [e \in Ends |->
                    IF e[2] = "up" /\ reader[e] = "none" THEN "header" ELSE reader[e]]
    /\ UNCHANGED <<master, worker, sockfile, accepted, queue, batch, writer, out, net, mail,
                   got, split, calling, children, events>>

\* session.getsid: the process in the upper half, a counter in the lower.
Sid(w, n) == w * SidRange + n

\* session.get_pid
get_pid(sid) == sid \div SidRange

\* process.call in a worker: the message is queued and the session registered
\* before anything else runs.
Call(w) ==
    /\ worker[w] = "up" /\ events < MaxEvents
    /\ events' = events + 1
    /\ calls' = [calls EXCEPT ![w] = @ + 1]
    /\ Post({<<w, "up">>}, [kind |-> "call", sid |-> Sid(w, calls'[w]), call |-> <<w, calls'[w]>>])
    /\ session_map' = [session_map EXCEPT ![w] = @ \union {<<Sid(w, calls'[w]), calls'[w]>>}]
    /\ UNCHANGED <<master, worker, sockfile, accepted, batch, out, net, reader, got, split,
                   returned, handling, children>>

\* process.ret in the master's function, once for each call: without a channel
\* to that process it raises.
Ret(m) ==
    /\ MasterLives /\ m \in handling
    /\ handling' = handling \ {m}
    /\ \/ /\ get_pid(m.sid) \in Known
          /\ Post({<<get_pid(m.sid), "down">>}, [m EXCEPT !.kind = "ret"])
       \/ get_pid(m.sid) \notin Known /\ UNCHANGED <<mail, queue, writer>>
    /\ UNCHANGED <<master, worker, sockfile, accepted, batch, out, net, reader, got, split,
                   calls, session_map, returned, children, events>>

\* process.send in a worker; process.send and process.broadcast in the master.
Notify(S) ==
    /\ events < MaxEvents
    /\ events' = events + 1
    /\ Post(S, Note)
    /\ UNCHANGED <<master, worker, sockfile, accepted, batch, out, net, reader, got, split,
                   calling, children>>

WorkerNotes(w) == worker[w] = "up" /\ Notify({<<w, "up">>})
MasterNotes(w) == master = "ready" /\ Notify({<<w, "down">>})
Broadcast == master = "ready" /\ Notify({<<w, "down">> : w \in Workers})

-----------------------------------------------------------------------------
(* The end of a process, and of what it had in its memory.                 *)

Forget(S) ==
    /\ queue' = [e \in Ends |-> IF e \in S THEN <<>> ELSE queue[e]]
    /\ batch' = [e \in Ends |-> IF e \in S THEN <<>> ELSE batch[e]]
    /\ writer' = [e \in Ends |-> IF e \in S THEN "none" ELSE writer[e]]
    /\ out' = [e \in Ends |-> IF e \in S THEN 0 ELSE out[e]]
    /\ UNCHANGED <<reader, mail, got, split>>

WorkerDies(w) ==
    /\ Lives(w) /\ events < MaxEvents
    /\ events' = events + 1
    /\ worker' = [worker EXCEPT ![w] = "dead"]
    /\ sigchld' = (sigchld \/ master \in {"listening", "ready"})
    /\ session_map' = [session_map EXCEPT ![w] = {}]
    /\ net' = [net EXCEPT ![<<w, "down">>] = <<>>]
    /\ Forget({<<w, "up">>})
    /\ UNCHANGED <<master, sockfile, accepted, calls, returned, handling, reported>>

\* kill(0, SIGQUIT): master and workers end, when a fork fails, the master's
\* script does, or a signal asks for it (SIG_EXIT).
Quit ==
    /\ MasterLives /\ events < MaxEvents
    /\ events' = events + 1
    /\ master' = "dead"
    /\ worker' = [w \in Workers |-> IF worker[w] = "unborn" THEN "unborn" ELSE "dead"]
    /\ handling' = {}
    /\ session_map' = [w \in Workers |-> {}]
    /\ net' = [e \in Ends |-> <<>>]
    /\ Forget(Ends)
    /\ UNCHANGED <<sockfile, accepted, calls, returned, children>>

\* Killed without a handler: the workers go on.
MasterDies ==
    /\ MasterLives /\ events < MaxEvents
    /\ events' = events + 1
    /\ master' = "dead"
    /\ handling' = {}
    /\ net' = [e \in Ends |-> IF e[2] = "up" THEN <<>> ELSE net[e]]
    /\ Forget(Workers \X {"down"})
    /\ UNCHANGED <<worker, sockfile, accepted, calls, session_map, returned, children>>

\* Slip: one child for each signal.
Reap_One ==
    /\ MasterLives /\ sigchld
    /\ sigchld' = FALSE
    /\ \E w \in {v \in Workers : worker[v] = "dead"} \ reported : reported' = reported \union {w}
    /\ UNCHANGED <<master, worker, sockfile, accepted, chan, calling, events>>

\* libev collects all children that have ended; CHILD_CB tells process.event of
\* each and stops watching it.
Reap ==
    /\ MasterLives /\ sigchld
    /\ sigchld' = FALSE
    /\ reported' = {w \in Workers : worker[w] = "dead"}
    /\ UNCHANGED <<master, worker, sockfile, accepted, chan, calling, events>>

\* What happens by itself: start-up, the channels, signals, and the master's
\* function, which answers each call.
Running ==
    \/ \E w \in Workers : Fork(w) \/ Connect(w) \/ Accept(w)
    \/ \E e \in Ends : WriterRuns(e) \/ Recv(e) \/ RecvEnd(e)
    \/ \E m \in handling : Ret(m)
    \/ Listen \/ Reap

Next ==
    \/ Running
    \/ \E w \in Workers :
         OnWorker(w) \/ Call(w) \/ WorkerNotes(w) \/ MasterNotes(w) \/ WorkerDies(w)
    \/ OnMaster \/ Broadcast \/ MasterDies \/ Quit

Spec == Init /\ [][Next]_vars /\ WF_vars(Running)

-----------------------------------------------------------------------------
Message == [kind : {"hello", "note", "call", "ret"}, sid : Nat,
            call : {<<>>} \union (Workers \X Nat)]

TypeOK ==
    /\ master \in {"forking", "listening", "ready", "dead"}
    /\ worker \in [Workers -> {"unborn", "connecting", "up", "dead"}]
    /\ sockfile \in {"none", "listening", "removed"}
    /\ accepted \in [Workers -> {"no", "pending", "reading", "known", "refused"}]
    /\ mail \in [Ends -> Seq(Message)]
    /\ queue \in [Ends -> Seq(Nat)] /\ batch \in [Ends -> Seq(Nat)]
    /\ writer \in [Ends -> {"none", "forked", "blocked", "waiting", "woken"}]
    /\ out \in [Ends -> 0..(Size - 1)]
    /\ net \in [Ends -> Seq(Nat \X (1..Size))]
    /\ \A e \in Ends : Len(net[e]) <= Cap
    /\ reader \in [Ends -> {"none", "header", "body", "broken", "closed"}]
    /\ got \in [Ends -> Nat]
    /\ split \in [Ends -> BOOLEAN]
    /\ calls \in [Workers -> Nat]
    /\ session_map \in [Workers -> SUBSET (Nat \X Nat)]
    /\ returned \in [Workers -> SUBSET (Nat \X (Workers \X Nat))]
    /\ handling \subseteq Message
    /\ sigchld \in BOOLEAN /\ reported \subseteq Workers
    /\ events \in Nat

\* The cells of end e that are not yet dispatched: what is left of a message
\* whose header was read, the socket, and all that its writer holds.
OnTheWay(e) ==
    LET cells == CellsOf(batch[e] \o queue[e])
    IN  net[e] \o SubSeq(cells, out[e] + 1, Len(cells))

\* While both processes live and the reader was not broken, every message sent
\* is dispatched or on the way, once, whole, and in the order of sending: across
\* the two tables of the writer (process/channel.lua:39-50), partial writes and
\* the handshake's reader and its successor (channel.lua:114, setcb).
MessagesArrive ==
    \A e \in Ends :
        (WriterLives(e) /\ ReaderLives(e) /\ reader[e] # "broken") =>
            LET left == CellsOf([i \in 1..(Len(mail[e]) - got[e]) |-> got[e] + i])
            IN  OnTheWay(e) = IF reader[e] = "body" THEN Tail(left) ELSE left

\* A reader breaks on "Invalid message." (channel.lua:76) only where a write had
\* found too little room: messages that fit into the buffer arrive whole.
BreaksOnlyWhenFull == \A e \in Ends : reader[e] = "broken" => split[e]

\* The master is told of every worker that ends, once it has its handlers: each
\* that had connected is reported, or a signal is still to be looked at.
DeathsAreReported ==
    \A w \in Workers :
        (MasterLives /\ worker[w] = "dead" /\ accepted[w] # "no") => (w \in reported \/ sigchld)

\* Between master and workers neither messages nor deaths are lost.
NothingIsLost == MessagesArrive /\ BreaksOnlyWhenFull /\ DeathsAreReported

\* Every call that returned has the answer to that call and to no other, and no
\* call returns twice, as long as no process has used up its session ids
\* (process/session.lua:21 starts over only if minid equals maxid).
CallsGetOwnAnswer ==
    (\A w \in Workers : calls[w] < SidRange) =>
        \A w \in Workers :
            /\ \A r \in returned[w] : r[2] = <<w, r[1]>>
            /\ \A s \in session_map[w] : \A r \in returned[w] : s[2] # r[1]

-----------------------------------------------------------------------------
\* What keeps a call of worker w from returning: the death of either process or,
\* before all are known, of any other; a reader that was never registered
\* (process.on) or that broke; session ids used up.
Hopeless(w) ==
    \/ ~MasterLives \/ ~Lives(w)
    \/ master = "listening" /\ \E v \in Workers : worker[v] = "dead"
    \/ \E d \in {"up", "down"} : reader[<<w, d>>] \in {"none", "broken"}
    \/ \E v \in Workers : calls[v] >= SidRange

\* The calls of a worker return, unless they are hopeless.
CallsReturn ==
    \A w \in Workers : (session_map[w] # {}) ~> (session_map[w] = {} \/ Hopeless(w))
=============================================================================
