------------------------------ MODULE MCConnPool ------------------------------
(* Instances of ConnPool for TLC. *)
EXTENDS ConnPool, TLC

CONSTANTS c1, c2, c3, h1, h2, h3

\* The coroutine each client's transaction may spawn.
HelperOf == (c1 :> h1) @@ (c2 :> h2) @@ (c3 :> h3)
=============================================================================
