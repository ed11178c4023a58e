------------------------------ MODULE MCSockets ------------------------------
(***************************************************************************)
(* One instance for TLC of the two modules about sockets: who waits for    *)
(* what (TcpSocket), and what becomes of the bytes (TcpStream).  A         *)
(* behaviour is one of the module that `part' names.                       *)
(***************************************************************************)
EXTENDS TcpSocket, TcpStream

VARIABLE part       \* "socket" or "bytes"

\* What is sent is told from what comes back: lines end in "r", "n".
AllBytes == {"1", "2", "3", "4", "5", "6", "7", "a", "b", "c", "r", "n"}
Sendings == {<<"1", "2">>, <<"3", "4", "5", "6", "7">>}
LineEnd == <<"r", "n">>
PeerStreams == {[bytes |-> <<>>, ends |-> {}],
                [bytes |-> <<"a", "r", "n", "b">>, ends |-> {2, 4}],
                [bytes |-> <<"a", "r", "n", "r", "n">>, ends |-> {1, 4, 5}],
                [bytes |-> <<"a", "b", "c", "r", "n", "r">>, ends |-> {5, 6}]}

svars == <<part, vars, tvars>>

SInit ==
    /\ part \in {"socket", "bytes"}
    /\ Init /\ TInit
    /\ part = "socket" => ssl = FALSE /\ peer.bytes = <<>>
    /\ part = "bytes" => timeout = [s \in Sockets |-> FALSE]

Socket(A) == part = "socket" /\ A /\ UNCHANGED <<part, tvars>>
InBytes(A) == part = "bytes" /\ A /\ UNCHANGED <<part, vars>>

SNext == Socket(Next) \/ InBytes(TNext)

\* Fairness is that of the two modules; nothing of TcpSocket's is enabled where it rests.
SSpec ==
    /\ SInit /\ [][SNext]_svars /\ Fairness
    /\ WF_svars(InBytes(TFair))

\* What waits with a time-out is woken in the end; reads and sends return if the peer goes on.
WaitsEnd == TimedWaitsEnd /\ StreamsEnd
=============================================================================
