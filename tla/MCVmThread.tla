----------------------------- MODULE MCVmThread -----------------------------
(***************************************************************************)
(* One script and one thread.                                              *)
(***************************************************************************)
EXTENDS VmThread
=============================================================================
