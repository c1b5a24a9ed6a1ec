------------------------------ MODULE MCOutbox ------------------------------
(***************************************************************************)
(* The instance declares no symmetry: liveness is checked in the same run, *)
(* and one event is poisoned.                                              *)
(***************************************************************************)
EXTENDS OutboxProperties, TLC
=============================================================================
