----------------------------- MODULE MCMessages -----------------------------
(***************************************************************************)
(* One instance for TLC of three components that share nothing: the        *)
(* channel of master and workers (ProcessCall), the write queues of the    *)
(* clients (SendQueue), and a shared file (AioFile).  A behaviour is one   *)
(* of the component that `part' names; the others stay as they started.    *)
(***************************************************************************)
EXTENDS ProcessCall, SendQueue, AioFile, TLC

CONSTANTS s1, s2, u1, u2

VARIABLE part

mvars == <<part, vars, qvars, fvars>>

\* The components that do not move start in one state; a file that was there when it
\* was opened has a byte.
MInit ==
    /\ part \in {"channel", "queue", "file"}
    /\ Init /\ QInit /\ FInit
    /\ part # "queue" => scheme = "stream"
    /\ part = "file" => (stat = None <=> file # <<>>)
    /\ part # "file" => file = <<>> /\ stat = 0

Channel(A) == part = "channel" /\ A /\ UNCHANGED <<part, qvars, fvars>>
Queue(A) == part = "queue" /\ A /\ UNCHANGED <<part, vars, fvars>>
File(A) == part = "file" /\ A /\ UNCHANGED <<part, vars, qvars>>

MNext == Channel(Next) \/ Queue(QNext) \/ File(FNext)

MSpec ==
    /\ MInit /\ [][MNext]_mvars
    /\ WF_mvars(Channel(Running)) /\ WF_mvars(Queue(QRunning)) /\ WF_mvars(File(FRunning))

\* Calls of the master, emit, and the methods of a file return.
AllReturn == CallsReturn /\ EmitReturns /\ FilesReturn

\* The types of all three.
TypesOK == TypeOK /\ QTypeOK /\ FTypeOK
=============================================================================
