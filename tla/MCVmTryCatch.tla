---------------------------- MODULE MCVmTryCatch ----------------------------
(* Scripts of one or two functions with nested and consecutive try blocks. *)
EXTENDS VmTryCatch
=============================================================================
