------------------------------ MODULE MCCoSched ------------------------------
(* Instances of CoSched for TLC. *)
EXTENDS CoSched, TLC

CONSTANTS main, c1, c2, c3, ok, nil
=============================================================================
