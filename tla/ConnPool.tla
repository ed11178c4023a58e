------------------------------ MODULE ConnPool ------------------------------
(***************************************************************************)
(* The connection pools of DB/mysql.lua, DB/pgsql.lua, DB/mssql.lua,       *)
(* Cache/redis.lua and Cache/ssdb.lua: five copies of one scheme.  A       *)
(* coroutine that needs a connection takes an idle one, else opens one     *)
(* while fewer than max are counted in `current', else waits in co_pool.   *)
(* Whoever is done hands its connection to the LAST waiter, or puts it     *)
(* back into the pool.                                                     *)
(*                                                                         *)
(* Coroutines interleave only where the code waits for the network or for  *)
(* a hand-over; every action below runs from one such point to the next.   *)
(*                                                                         *)
(* The copies differ in what becomes of a lost connection (DB counts it    *)
(* out, Cache does not), in who replaces the connection of a failed        *)
(* transaction for a waiter (mysql: the transaction itself; pgsql, mssql:  *)
(* a spawned coroutine), and in what can go wrong while one is opened.     *)
(***************************************************************************)
EXTENDS Integers, Sequences, FiniteSets

CONSTANTS
    Clients,        \* coroutines that use the pool
    Connectors,     \* those that call connect
    Helper,         \* client -> the coroutine its transaction spawns
    Conns,          \* identities of connections
    None,           \* no connection, no coroutine
    Drivers,        \* the copies to look at
    Max,            \* opt.max
    MaxOps,         \* bound: operations a client starts
    MaxLosses,      \* bound: connections lost while in use
    MaxRaises       \* bound: failures between connect and the first answer

ASSUME MaxAssumption == Max \in Nat \ {0}
ASSUME ConnectorsAssumption == Connectors \subseteq Clients
ASSUME ClientsAssumption ==
    /\ IsFiniteSet(Clients) /\ None \notin Clients
    /\ \A c, d \in Clients : Helper[c] \notin Clients \union {None} /\ (Helper[c] = Helper[d] => c = d)
ASSUME ConnsAssumption == IsFiniteSet(Conns) /\ Cardinality(Conns) >= Max /\ None \notin Conns
ASSUME DriversAssumption == Drivers \subseteq {"mysql", "pgsql", "mssql", "redis", "ssdb"}
ASSUME BoundsAssumption ==
    MaxOps \in Nat /\ MaxLosses \in Nat /\ MaxRaises \in Nat

VARIABLES
    driver,         \* which copy this is
    unixdomain,     \* does a cache's opt name a unix domain path?
    INITIALIZATION, \* connect has succeeded
    current,        \* connections counted against Max
    pool,           \* db_pool, cache_pool: idle connections, a stack
    co_pool,        \* waiting coroutines, a stack
    alive,          \* connections whose driver has `state'
    conn,           \* coroutine -> the connection it holds
    op,             \* coroutine -> what it needs a connection for
    target,         \* coroutine -> the waiter it fetches a connection for
    pc,             \* coroutine -> where it waits, or how it ended
    raises,         \* connections counted whose opening raised an error
    ops, losses     \* counters of the bounds

opts == <<driver, unixdomain>>
bounds == <<ops, losses>>
vars == <<opts, INITIALIZATION, current, pool, co_pool, alive, conn, op, target,
          pc, raises, bounds>>

Helpers == {Helper[c] : c \in Clients}
Procs == Clients \union Helpers
IsCache == driver \in {"redis", "ssdb"}

Top(stack) == stack[Len(stack)]
Pop(stack) == SubSeq(stack, 1, Len(stack) - 1)
Elements(stack) == {stack[i] : i \in 1..Len(stack)}

Init ==
    /\ driver \in Drivers
    /\ unixdomain \in (IF IsCache THEN BOOLEAN ELSE {TRUE})
    /\ INITIALIZATION = FALSE
    /\ current = 0
    /\ pool = <<>>
    /\ co_pool = <<>>
    /\ alive = {}
    /\ conn = [p \in Procs |-> None]
    /\ op = [p \in Procs |-> "none"]
    /\ target = [p \in Procs |-> None]
    /\ pc = [p \in Procs |-> "idle"]
    /\ raises = 0
    /\ ops = [c \in Clients |-> 0]
    /\ losses = 0

Holders == {p \in Procs : conn[p] # None}
In(where) == {p \in Procs : pc[p] = where}

\* A connection object that is not in use.
Fresh == CHOOSE k \in Conns : k \notin Elements(pool) \union {conn[p] : p \in Holders}

\* An operation that raised leaves its coroutine free for the next one.
Free == {"idle", "failed"}

\* Where a coroutine goes on once it has its connection.
Continue(kind) ==
    CASE kind = "connect"     -> "connected"
      [] kind = "query"       -> "query"
      [] kind = "transaction" -> "begin"
      [] kind = "handover"    -> "handover"

-----------------------------------------------------------------------------
\* Slip: one connection too many is opened.
MayOpen_OffByOne(cur) == cur <= Max

MayOpen(cur) == cur < Max

\* A cache that is connected answers every field it does not have with a
\* command: a path nobody named reads as a function, of which connect_ex says
\* that it is no string.
CanDial == IsCache /\ INITIALIZATION => unixdomain

\* A new connection is counted before it is opened.  Dialling raises, or the
\* coroutine waits for the connection.
Dial(p, cur) ==
    /\ current' = cur + 1
    /\ \/ CanDial /\ pc' = [pc EXCEPT ![p] = "creating"] /\ UNCHANGED raises
       \/ ~CanDial /\ pc' = [pc EXCEPT ![p] = "failed"] /\ raises' = raises + 1

\* pop_db, called by p when `current' is cur and co_pool is waiters: an idle
\* connection, a new one, or a place in co_pool.
pop_db(p, kind, cur, waiters) ==
    /\ op' = [op EXCEPT ![p] = kind]
    /\ \/ /\ pool # <<>>
          /\ conn' = [conn EXCEPT ![p] = Top(pool)]
          /\ pool' = Pop(pool)
          /\ pc' = [pc EXCEPT ![p] = Continue(kind)]
          /\ current' = cur /\ co_pool' = waiters /\ UNCHANGED raises
       \/ /\ pool = <<>> /\ MayOpen(cur)
          /\ Dial(p, cur)
          /\ conn' = [conn EXCEPT ![p] = None]
          /\ co_pool' = waiters /\ UNCHANGED pool
       \/ /\ pool = <<>> /\ ~MayOpen(cur)
          /\ co_pool' = Append(waiters, p)
          /\ conn' = [conn EXCEPT ![p] = None]
          /\ pc' = [pc EXCEPT ![p] = "waiting"]
          /\ current' = cur /\ UNCHANGED <<pool, raises>>

\* Slip: the connection goes back to the pool, the waiters stay.
release_Unheard(p) ==
    /\ pool' = Append(pool, conn[p])
    /\ conn' = [conn EXCEPT ![p] = None]
    /\ pc' = [pc EXCEPT ![p] = "idle"]
    /\ UNCHANGED co_pool

\* Slip: the connection goes to the last waiter, who stays in co_pool.
release_Peeks(p) ==
    \/ co_pool = <<>> /\ release_Unheard(p)
    \/ /\ co_pool # <<>>
       /\ pc' = [pc EXCEPT ![p] = "idle", ![Top(co_pool)] = Continue(op[Top(co_pool)])]
       /\ conn' = [conn EXCEPT ![p] = None, ![Top(co_pool)] = conn[p]]
       /\ UNCHANGED <<co_pool, pool>>

\* Slip: the connection is put back as well as handed over.
release_Twice(p) ==
    /\ pool' = Append(pool, conn[p])
    /\ IF co_pool = <<>>
       THEN /\ conn' = [conn EXCEPT ![p] = None]
            /\ pc' = [pc EXCEPT ![p] = "idle"]
            /\ UNCHANGED co_pool
       ELSE LET w == Top(co_pool) IN
            /\ conn' = [conn EXCEPT ![p] = None, ![w] = conn[p]]
            /\ pc' = [pc EXCEPT ![p] = "idle", ![w] = Continue(op[w])]
            /\ co_pool' = Pop(co_pool)

\* p is done: its connection is handed to the last waiter, which goes on where
\* it wanted one, or put back.
release(p) ==
    \/ /\ co_pool # <<>>
       /\ LET w == Top(co_pool) IN
          /\ conn' = [conn EXCEPT ![p] = None, ![w] = conn[p]]
          /\ pc' = [pc EXCEPT ![p] = "idle", ![w] = Continue(op[w])]
       /\ co_pool' = Pop(co_pool)
       /\ UNCHANGED pool
    \/ /\ co_pool = <<>>
       /\ pool' = Append(pool, conn[p])
       /\ conn' = [conn EXCEPT ![p] = None]
       /\ pc' = [pc EXCEPT ![p] = "idle"]
       /\ UNCHANGED co_pool

-----------------------------------------------------------------------------
\* A client starts an operation; its helper of an earlier one is done.
Start(c, kind) ==
    /\ pc[c] \in Free /\ pc[Helper[c]] \in Free
    /\ ops[c] < MaxOps
    /\ ops' = [ops EXCEPT ![c] = @ + 1]
    /\ pop_db(c, kind, current, co_pool)
    /\ UNCHANGED <<opts, INITIALIZATION, alive, target, losses>>

\* DB:connect, Cache:connect
Connect(c) == ~INITIALIZATION /\ Start(c, "connect")

\* DB:query, DB:execute
Query(c) == INITIALIZATION /\ ~IsCache /\ Start(c, "query")

\* DB:transaction
Transaction(c) == INITIALIZATION /\ ~IsCache /\ Start(c, "transaction")

\* A command of a cache: cache:get(...), cache:exists(...) ...
Command(c) == INITIALIZATION /\ IsCache /\ Start(c, "query")

\* DB_CREATE, CREATE_CACHE return a connection; attempts that fail are repeated
\* every three seconds and change nothing.
Created(p) ==
    /\ pc[p] = "creating"
    /\ conn' = [conn EXCEPT ![p] = Fresh]
    /\ alive' = alive \union {Fresh}
    /\ pc' = [pc EXCEPT ![p] = Continue(op[p])]
    /\ UNCHANGED <<opts, INITIALIZATION, current, pool, co_pool, op, target, raises, bounds>>

\* The first statements on a new connection are asserted to succeed: mysql's
\* SETs, and redis's CONFIG commands before the pool is initialised.
MayRaise ==
    /\ driver = "mysql" \/ (driver = "redis" /\ ~INITIALIZATION)
    /\ raises < MaxRaises

\* Opening a connection raises: in such an assert, or because an attempt that
\* is repeated after another coroutine's connect cannot dial any more.
CreateRaises(p) ==
    /\ pc[p] = "creating"
    /\ MayRaise \/ ~CanDial
    /\ pc' = [pc EXCEPT ![p] = "failed"]
    /\ raises' = raises + 1
    /\ target' = [target EXCEPT ![p] = None]
    /\ UNCHANGED <<opts, INITIALIZATION, current, pool, co_pool, alive, conn, op, bounds>>

\* The rest of connect: add_db, add_cache, which wake nobody; setmeta.
Connected(c) ==
    /\ pc[c] = "connected"
    /\ pool' = Append(pool, conn[c])
    /\ conn' = [conn EXCEPT ![c] = None]
    /\ pc' = [pc EXCEPT ![c] = "idle"]
    /\ INITIALIZATION' = TRUE
    /\ UNCHANGED <<opts, current, co_pool, alive, op, target, raises, bounds>>

\* The server answers a query or a command: the loop ends.
QueryDone(c) ==
    /\ pc[c] = "query"
    /\ conn[c] \in alive
    /\ release(c)
    /\ UNCHANGED <<opts, INITIALIZATION, current, alive, op, target, raises, bounds>>

\* BEGIN is answered, the user's function runs.
Began(c) ==
    /\ pc[c] = "begin"
    /\ conn[c] \in alive
    /\ pc' = [pc EXCEPT ![c] = "body"]
    /\ UNCHANGED <<opts, INITIALIZATION, current, pool, co_pool, alive, conn, op,
                   target, raises, bounds>>

\* A connection is lost while p waits for its answer, or was lost before.
Lose(p) ==
    /\ \/ conn[p] \notin alive /\ UNCHANGED losses
       \/ conn[p] \in alive /\ losses < MaxLosses /\ losses' = losses + 1
    /\ alive' = alive \ {conn[p]}

\* Slip: the lost connection is still counted when the loop comes back.
Retry_Counted(c) ==
    /\ ~IsCache
    /\ pc[c] \in {"query", "begin"}
    /\ Lose(c)
    /\ pop_db(c, op[c], current, co_pool)
    /\ UNCHANGED <<opts, INITIALIZATION, target, ops>>

\* The query or the BEGIN finds the connection dead: close it, count it out
\* and start over.
Retry(c) ==
    /\ ~IsCache
    /\ pc[c] \in {"query", "begin"}
    /\ Lose(c)
    /\ pop_db(c, op[c], current - 1, co_pool)
    /\ UNCHANGED <<opts, INITIALIZATION, target, ops>>

\* The command finds the connection dead: close it and start over, with
\* `current' as it is.
RetryCommand(c) ==
    /\ IsCache
    /\ pc[c] = "query"
    /\ Lose(c)
    /\ pop_db(c, "query", current, co_pool)
    /\ UNCHANGED <<opts, INITIALIZATION, target, ops>>

\* A statement of the transaction loses the connection.
LoseInBody(c) ==
    /\ pc[c] = "body"
    /\ conn[c] \in alive
    /\ Lose(c)
    /\ UNCHANGED <<opts, INITIALIZATION, current, pool, co_pool, conn, op, target,
                   pc, raises, ops>>

\* The function ends with session:commit() or session:rollback().
Finished(c) ==
    /\ pc[c] = "body"
    /\ conn[c] \in alive
    /\ release(c)
    /\ UNCHANGED <<opts, INITIALIZATION, current, alive, op, target, raises, bounds>>

\* The function raises an error on a live connection, or returns without
\* commit or rollback (having swallowed the loss of its connection, perhaps):
\* the code rolls back itself ...
RollBack(c) ==
    /\ pc[c] = "body"
    /\ pc' = [pc EXCEPT ![c] = "rollback"]
    /\ UNCHANGED <<opts, INITIALIZATION, current, pool, co_pool, alive, conn, op,
                   target, raises, bounds>>

\* ... and hands the connection over whatever became of the rollback.
RolledBack(c) ==
    /\ pc[c] = "rollback"
    /\ Lose(c) \/ (conn[c] \in alive /\ UNCHANGED <<alive, losses>>)
    /\ release(c)
    /\ UNCHANGED <<opts, INITIALIZATION, current, op, target, raises, ops>>

\* The function raises an error and the connection is lost.
Raised(c) ==
    /\ pc[c] = "body"
    /\ conn[c] \notin alive
    /\ UNCHANGED <<opts, INITIALIZATION, alive, bounds>>

\* Nobody waits: count it out.
RaisedAlone(c) ==
    /\ Raised(c)
    /\ co_pool = <<>>
    /\ current' = current - 1
    /\ conn' = [conn EXCEPT ![c] = None]
    /\ pc' = [pc EXCEPT ![c] = "idle"]
    /\ UNCHANGED <<pool, co_pool, op, target, raises>>

\* Somebody waits.  mysql: the failed transaction itself gets a connection for
\* the last waiter.
RaisedInline(c) ==
    /\ Raised(c)
    /\ driver = "mysql"
    /\ co_pool # <<>>
    /\ target' = [target EXCEPT ![c] = Top(co_pool)]
    /\ pop_db(c, "handover", current - 1, Pop(co_pool))

\* pgsql, mssql: a spawned coroutine will.
RaisedSpawn(c) ==
    /\ Raised(c)
    /\ driver \in {"pgsql", "mssql"}
    /\ co_pool # <<>>
    /\ current' = current - 1
    /\ conn' = [conn EXCEPT ![c] = None]
    /\ target' = [target EXCEPT ![Helper[c]] = Top(co_pool)]
    /\ co_pool' = Pop(co_pool)
    /\ pc' = [pc EXCEPT ![c] = "idle", ![Helper[c]] = "spawned"]
    /\ UNCHANGED <<pool, op, raises>>

\* The spawned coroutine runs.
HelperRuns(h) ==
    /\ pc[h] = "spawned"
    /\ pop_db(h, "handover", current, co_pool)
    /\ UNCHANGED <<opts, INITIALIZATION, alive, target, bounds>>

\* co_wakeup(co, pop_db(self)), once pop_db has returned.
HandOver(p) ==
    /\ pc[p] = "handover"
    /\ LET w == target[p] IN
       /\ conn' = [conn EXCEPT ![p] = None, ![w] = conn[p]]
       /\ pc' = [pc EXCEPT ![p] = "idle", ![w] = Continue(op[w])]
    /\ target' = [target EXCEPT ![p] = None]
    /\ UNCHANGED <<opts, INITIALIZATION, current, pool, co_pool, alive, op, raises, bounds>>

Next ==
    \/ \E c \in Connectors : Connect(c)
    \/ \E c \in Clients : Query(c)
    \/ \E c \in Clients : Transaction(c)
    \/ \E c \in Clients : Command(c)
    \/ \E p \in Procs : Created(p)
    \/ \E p \in Procs : CreateRaises(p)
    \/ \E c \in Clients : Connected(c)
    \/ \E c \in Clients : QueryDone(c)
    \/ \E c \in Clients : Began(c)
    \/ \E c \in Clients : Retry(c)
    \/ \E c \in Clients : RetryCommand(c)
    \/ \E c \in Clients : LoseInBody(c)
    \/ \E c \in Clients : Finished(c)
    \/ \E c \in Clients : RollBack(c)
    \/ \E c \in Clients : RolledBack(c)
    \/ \E c \in Clients : RaisedAlone(c)
    \/ \E c \in Clients : RaisedInline(c)
    \/ \E c \in Clients : RaisedSpawn(c)
    \/ \E h \in Helpers : HelperRuns(h)
    \/ \E p \in Procs : HandOver(p)

SafeSpec == Init /\ [][Next]_vars

\* The server answers, or its loss is noticed; the user's function ends.
Ends(c) ==
    \/ QueryDone(c) \/ Began(c) \/ Retry(c) \/ RetryCommand(c) \/ Finished(c)
    \/ RolledBack(c) \/ RaisedAlone(c) \/ RaisedInline(c) \/ RaisedSpawn(c)

Fairness ==
    /\ \A c \in Clients : WF_vars(Ends(c)) /\ WF_vars(Connected(c))
    /\ \A p \in Procs : WF_vars(Created(p) \/ CreateRaises(p)) /\ WF_vars(HandOver(p))
    /\ \A h \in Helpers : WF_vars(HelperRuns(h))

Spec == SafeSpec /\ Fairness

-----------------------------------------------------------------------------
(* Properties *)

TypeOK ==
    /\ driver \in Drivers
    /\ unixdomain \in BOOLEAN
    /\ INITIALIZATION \in BOOLEAN
    /\ current \in 0..Max
    /\ pool \in Seq(Conns)
    /\ co_pool \in Seq(Procs)
    /\ alive \subseteq Conns
    /\ conn \in [Procs -> Conns \union {None}]
    /\ op \in [Procs -> {"none", "connect", "query", "transaction", "handover"}]
    /\ target \in [Procs -> Procs \union {None}]
    /\ pc \in [Procs -> Free \union {"waiting", "creating", "connected", "query",
                        "begin", "body", "rollback", "spawned", "handover"}]
    /\ raises \in 0..Max
    /\ ops \in [Clients -> 0..MaxOps]
    /\ losses \in 0..MaxLosses

\* Places of the pool that no connection has and nobody gives back.
Leaked == raises + (IF IsCache THEN losses ELSE 0)

\* `current' is the number of connections that are idle, in use or being
\* opened, on every path out of a query or a transaction, and never more than
\* Max - but for the places that leak: one for every error raised while a
\* connection is opened, and one for every connection a cache loses.
Accounting ==
    current = Len(pool) + Cardinality(Holders) + Cardinality(In("creating")) + Leaked

\* No connection is used by two coroutines, or used and idle at a time: two
\* coroutines would read each other's answers.
Exclusive ==
    /\ \A i, j \in 1..Len(pool) : pool[i] = pool[j] => i = j
    /\ \A p \in Holders : conn[p] \notin Elements(pool)
    /\ \A p, q \in Holders : conn[p] = conn[q] => p = q

\* Nobody waits while a connection is idle or may be opened, except for the
\* places that spawned coroutines are about to take for other waiters.
NoIdleCapacity ==
    co_pool # <<>> => pool = <<>> /\ current + Cardinality(In("spawned")) >= Max

\* How often a coroutine is known to somebody who is to hand it a connection.
Known(p) ==
    Cardinality({i \in 1..Len(co_pool) : co_pool[i] = p})
  + Cardinality({q \in Procs : target[q] = p})

Forgotten(p) == pc[p] = "waiting" /\ Known(p) = 0

\* A coroutine that waits is in co_pool once, or has been taken out of it by
\* exactly one transaction that is about to hand it a connection; no other
\* coroutine is.  (mysql: an error raised while that connection is opened
\* leaves the waiter unknown.)
WaitersAreKnown ==
    \A p \in Procs :
        IF pc[p] = "waiting" THEN Known(p) = 1 \/ (driver = "mysql" /\ raises > 0)
                             ELSE Known(p) = 0

\* Every operation ends, waiters are served, connections lost on the way are
\* replaced, until the pool has leaked away or, mysql, the transaction that
\* was to serve the waiter has failed.  (The number of operations is bounded;
\* with an endless stream of new ones the stack of waiters can starve its
\* oldest member.)
OperationsEnd ==
    \A c \in Clients :
        pc[c] \notin Free ~> pc[c] \in Free \/ Leaked = Max \/ Forgotten(c)

\* What a pool is for: a command comes back, with an answer or an error.
CommandsReturn == \A c \in Clients : pc[c] = "query" ~> pc[c] \in Free

\* Whoever takes a connection out of the pool gets one.
TakesConnection == In("failed") = {}
=============================================================================
