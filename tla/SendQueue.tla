----------------------------- MODULE SendQueue -----------------------------
(***************************************************************************)
(* Queues that a forked coroutine writes out while others append to them:  *)
(* the write queue of stream/init.lua ("stream"), the publish queue of     *)
(* MQ/stomp.lua ("stomp"), and that of MQ/redis.lua and MQ/mqtt.lua        *)
(* ("publish"), where the coroutine that publishes waits for the answer.   *)
(*                                                                         *)
(* Whoever finds no queue creates one and forks its writer; the writer     *)
(* walks the queue with ipairs, and so sees what is appended meanwhile,    *)
(* and takes the queue away when it is through.  An empty self.queue of    *)
(* redis and mqtt is no queue here.                                        *)
(***************************************************************************)
EXTENDS Integers, Sequences, FiniteSets, SequencesExt

CONSTANTS
    Senders,        \* coroutines that emit
    Schemes,        \* subset of {"stream", "stomp", "publish"}
    MaxEmits,       \* bound: messages of a sender
    MaxLogins,      \* bound: connections opened by emit
    MaxFaults       \* bound: connections lost, and answers that raise

ASSUME SchemesAssumption == Schemes \subseteq {"stream", "stomp", "publish"}
ASSUME EmitsAssumption == MaxEmits \in Nat

VARIABLES
    scheme,         \* which of the three this is
    tables,         \* every queue there has been, in order
    current,        \* self.queue, self.wqueue: an index of tables, 0 for nil
    walk,           \* table -> where its writer is
    pos,            \* table -> the entry the writer is at
    via,            \* table -> the connection its writer uses
    emiter,         \* self.emiter, self.tcp: a connection, 0 for nil
    logins,         \* connections that have been opened
    opened,         \* those the program has not closed
    lost,           \* those the network has closed
    closed,         \* self.closed
    caller,         \* sender -> where it is
    emits,          \* sender -> number of messages it has emitted
    answer,         \* sender -> what its last publish returned
    sent,           \* messages that went out, in order
    faults          \* counter of the bound

qvars == <<scheme, tables, current, walk, pos, via, emiter, logins, opened, lost,
           closed, caller, emits, answer, sent, faults>>
netvars == <<emiter, logins, opened, lost, closed>>

NoAnswer == [msg |-> <<>>, ok |-> FALSE]

\* A stream is connected before it is written to; a client logs in when it
\* first emits.
QInit ==
    /\ scheme \in Schemes
    /\ tables = <<>> /\ walk = <<>> /\ pos = <<>> /\ via = <<>>
    /\ current = 0
    /\ emiter = (IF scheme = "stream" THEN 1 ELSE 0)
    /\ logins = emiter
    /\ opened = 1..logins
    /\ lost = {} /\ closed = FALSE
    /\ caller = [s \in Senders |-> "idle"]
    /\ emits = [s \in Senders |-> 0]
    /\ answer = [s \in Senders |-> NoAnswer]
    /\ sent = <<>>
    /\ faults = 0

Usable(c) == c \in opened \ lost

-----------------------------------------------------------------------------
\* Slip: every message gets a queue and a writer of its own.
Enqueue_Alone(m) ==
    /\ tables' = Append(tables, <<m>>)
    /\ walk' = Append(walk, "ready")
    /\ pos' = Append(pos, 1)
    /\ via' = Append(via, 0)
    /\ current' = Len(tables) + 1

\* Stream:write, publish: m is appended, to a new queue with a new writer if
\* there is none.
Enqueue(m) ==
    IF current = 0
    THEN /\ tables' = Append(tables, <<m>>)
         /\ walk' = Append(walk, "ready")
         /\ pos' = Append(pos, 1)
         /\ via' = Append(via, 0)
         /\ current' = Len(tables) + 1
    ELSE /\ tables' = [tables EXCEPT ![current] = Append(@, m)]
         /\ UNCHANGED <<walk, pos, via, current>>

\* What emit does once there is a connection: redis and mqtt wait for the answer.
Publish(s) ==
    /\ Enqueue(<<s, emits'[s]>>)
    /\ caller' = [caller EXCEPT ![s] = IF scheme = "publish" THEN "waiting" ELSE "idle"]

\* Stream:write, mq:emit: a client without a connection logs in first.
Emit(s) ==
    /\ caller[s] = "idle" /\ emits[s] < MaxEmits
    /\ emits' = [emits EXCEPT ![s] = @ + 1]
    /\ \/ /\ scheme = "stream" \/ emiter # 0
          /\ Publish(s)
       \/ /\ scheme # "stream" /\ emiter = 0
          /\ logins + Cardinality({r \in Senders : caller[r] = "login"}) < MaxLogins
          /\ caller' = [caller EXCEPT ![s] = "login"]
          /\ UNCHANGED <<tables, current, walk, pos, via>>
    /\ UNCHANGED <<scheme, netvars, answer, sent, faults>>

\* _login returns; attempts that fail are repeated every three seconds and
\* change nothing.  Others may have logged in meanwhile, or closed the client.
LoggedIn(s) ==
    /\ caller[s] = "login"
    /\ logins' = logins + 1
    /\ emiter' = logins'
    /\ opened' = opened \union {logins'}
    /\ UNCHANGED emits
    /\ Publish(s)
    /\ UNCHANGED <<scheme, lost, closed, answer, sent, faults>>

-----------------------------------------------------------------------------
\* Where the writer of table t is: at an entry, or through.
AtEntry(t) == walk[t] = "ready" /\ pos[t] <= Len(tables[t])

\* The writer ends: it takes away the queue, whichever that is by now.
End(t) ==
    /\ walk' = [walk EXCEPT ![t] = "ended"]
    /\ current' = 0

\* Does the writer send its entry?  The writer of a stream finds the socket
\* gone, those of the clients the flag.
Sends == IF scheme = "stream" THEN emiter # 0 ELSE ~closed /\ emiter # 0

\* The writer hands its next entry to the socket or to the driver, and waits.
Begin(t) ==
    /\ AtEntry(t) /\ Sends
    /\ walk' = [walk EXCEPT ![t] = "sending"]
    /\ via' = [via EXCEPT ![t] = emiter]
    /\ UNCHANGED <<scheme, tables, current, pos, netvars, caller, emits, answer, sent, faults>>

\* Without a connection: stream and stomp drop what is left of the queue; redis
\* and mqtt go on to the next entry, and leave the sender of this one waiting.
Skip(t) ==
    /\ AtEntry(t) /\ ~Sends
    /\ \/ /\ scheme = "publish"
          /\ pos' = [pos EXCEPT ![t] = @ + 1]
          /\ UNCHANGED <<walk, current>>
       \/ scheme # "publish" /\ End(t) /\ UNCHANGED pos
    /\ UNCHANGED <<scheme, tables, via, netvars, caller, emits, answer, sent, faults>>

\* cf_wakeup(msg.co, ...): the sender of the entry gets what became of it.
Answer(t, ok) ==
    LET m == tables[t][pos[t]] IN
    IF scheme # "publish" THEN UNCHANGED <<caller, answer>>
    ELSE /\ caller' = [caller EXCEPT ![m[1]] = "idle"]
         /\ answer' = [answer EXCEPT ![m[1]] = [msg |-> m, ok |-> ok]]

\* The entry is written, or its publication acknowledged.
Done(t) ==
    /\ walk[t] = "sending" /\ Usable(via[t])
    /\ sent' = Append(sent, tables[t][pos[t]])
    /\ pos' = [pos EXCEPT ![t] = @ + 1]
    /\ walk' = [walk EXCEPT ![t] = "ready"]
    /\ Answer(t, TRUE)
    /\ UNCHANGED <<scheme, tables, current, via, netvars, emits, faults>>

\* The connection is gone: redis and mqtt report it and go on, the others stop.
Failed(t) ==
    /\ walk[t] = "sending" /\ ~Usable(via[t])
    /\ Answer(t, FALSE)
    /\ \/ /\ scheme = "publish"
          /\ pos' = [pos EXCEPT ![t] = @ + 1]
          /\ walk' = [walk EXCEPT ![t] = "ready"]
          /\ UNCHANGED current
       \/ scheme # "publish" /\ End(t) /\ UNCHANGED pos
    /\ UNCHANGED <<scheme, tables, via, netvars, emits, sent, faults>>

\* redis: the assert on an answer that is none.  The writer is gone, its queue
\* stays.
Raised(t) ==
    /\ scheme = "publish" /\ walk[t] = "sending" /\ faults < MaxFaults
    /\ walk' = [walk EXCEPT ![t] = "raised"]
    /\ faults' = faults + 1
    /\ UNCHANGED <<scheme, tables, current, pos, via, netvars, caller, emits, answer, sent>>

\* The writer has reached the end of its queue and takes it away.
Finish(t) ==
    /\ walk[t] = "ready" /\ pos[t] > Len(tables[t])
    /\ End(t)
    /\ UNCHANGED <<scheme, tables, pos, via, netvars, caller, emits, answer, sent, faults>>

-----------------------------------------------------------------------------
\* The network closes a connection.
Lose(c) ==
    /\ Usable(c) /\ faults < MaxFaults
    /\ lost' = lost \union {c}
    /\ faults' = faults + 1
    /\ UNCHANGED <<scheme, tables, current, walk, pos, via, emiter, logins, opened,
                   closed, caller, emits, answer, sent>>

\* Stream:close, mq:close
Close ==
    /\ ~closed \/ emiter # 0
    /\ closed' = TRUE
    /\ opened' = opened \ {emiter}
    /\ emiter' = 0
    /\ current' = (IF scheme = "stream" THEN 0 ELSE current)
    /\ UNCHANGED <<scheme, tables, walk, pos, via, logins, lost, caller, emits, answer,
                   sent, faults>>

WriterStep(t) == Begin(t) \/ Skip(t) \/ Done(t) \/ Failed(t) \/ Finish(t)

\* What happens by itself; no step of it can undo another.
QRunning ==
    \/ \E s \in Senders : LoggedIn(s)
    \/ \E t \in DOMAIN tables : WriterStep(t)

QNext ==
    \/ QRunning
    \/ \E s \in Senders : Emit(s)
    \/ \E t \in DOMAIN tables : Raised(t)
    \/ \E c \in opened : Lose(c)
    \/ Close

\* The scheduler resumes every coroutine that was forked or woken, and the network
\* takes or refuses what is written to it: as long as QRunning can take a step, one is
\* taken, and there is only a bounded number of them.
QSpec == QInit /\ [][QNext]_qvars /\ WF_qvars(QRunning)

-----------------------------------------------------------------------------
Messages == Senders \X (1..MaxEmits)

QTypeOK ==
    /\ scheme \in Schemes
    /\ tables \in Seq(Seq(Messages))
    /\ current \in 0..Len(tables)
    /\ walk \in [DOMAIN tables -> {"ready", "sending", "ended", "raised"}]
    /\ pos \in [DOMAIN tables -> Nat \ {0}]
    /\ logins \in Nat
    /\ via \in [DOMAIN tables -> 0..logins]
    /\ emiter \in 0..logins
    /\ opened \subseteq 1..logins /\ lost \subseteq 1..logins
    /\ closed \in BOOLEAN
    /\ caller \in [Senders -> {"idle", "login", "waiting"}]
    /\ emits \in [Senders -> Nat]
    /\ answer \in [Senders -> {NoAnswer} \union [msg : Messages, ok : BOOLEAN]]
    /\ sent \in Seq(Messages)
    /\ faults \in Nat

\* The places messages have, in the order in which they were appended, and what is
\* at one.
Places == UNION {{t} \X DOMAIN tables[t] : t \in DOMAIN tables}
Before(p, q) == p[1] < q[1] \/ (p[1] = q[1] /\ p[2] < q[2])
At(p) == tables[p[1]][p[2]]

PlaceOf(m) == CHOOSE p \in Places : At(p) = m

\* Messages go out in the order in which they were emitted, none of them twice;
\* and none is passed over while no connection is lost, none closed, and no
\* answer raises: neither when a message is appended just as the writer is
\* through (stream/init.lua:84, MQ/redis.lua:67, MQ/stomp.lua:63), nor when
\* several coroutines log in at the same time (MQ/redis.lua:100).
SentInOrder ==
    /\ \A i, j \in DOMAIN sent : i < j => Before(PlaceOf(sent[i]), PlaceOf(sent[j]))
    /\ faults = 0 /\ ~closed =>
          \A i \in DOMAIN sent : \A p \in Places :
              Before(p, PlaceOf(sent[i])) => At(p) \in ToSet(sent)

\* Whoever waits for the answer to its publication has its message in a queue,
\* not yet passed, with a writer on it (MQ/redis.lua:58-73): the exceptions are
\* a client that is closed, which answers nobody any more, and a queue whose
\* writer raised.
WaitersAreQueued ==
    \A s \in Senders : caller[s] = "waiting" =>
        \/ closed
        \/ \E t \in DOMAIN tables :
              /\ walk[t] # "ended"
              /\ \E i \in pos[t]..Len(tables[t]) : tables[t][i] = <<s, emits[s]>>

\* What publish returns is about the caller's own message: it went out exactly
\* if the answer says so.
AnswersAreOwn ==
    \A s \in Senders : LET a == answer[s] IN
        a # NoAnswer =>
            /\ a.msg[1] = s
            /\ caller[s] = "idle" => a.msg[2] = emits[s]
            /\ a.ok <=> a.msg \in ToSet(sent)

\* What the senders rely on, together.
SendersAreServed == SentInOrder /\ WaitersAreQueued /\ AnswersAreOwn

\* emit returns, unless the client is closed or an answer raised.
EmitReturns ==
    \A s \in Senders : (caller[s] # "idle") ~>
        (caller[s] = "idle" \/ closed \/ \E t \in DOMAIN tables : walk[t] = "raised")
=============================================================================
