----------------------------- MODULE MCFinalizer -----------------------------
(***************************************************************************)
(* Finalizer on every small DAG.                                           *)
(***************************************************************************)
EXTENDS Finalizer, SmallDags

=============================================================================
