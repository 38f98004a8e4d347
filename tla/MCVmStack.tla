----------------------------- MODULE MCVmStack -----------------------------
(***************************************************************************)
(* Virtual machines small enough for TLC.  The structure sizes are those   *)
(* of the 64-bit Linux build; the programs are cut into groups of          *)
(* instructions that interact.                                             *)
(***************************************************************************)
EXTENDS VmStack

\* Expressions, variables, branches, native calls and instances.
ValueOps ==
  {"SCTX", "OBJPUSH", "OBJSTORE", "OBJPOP", "OBJDUP", "OBJDEL", "OBJCONST",
   "F2O", "OPERATE", "OBJSUB", "JFALSE", "SWITCH", "JMP", "SYSCALL", "SETVAR",
   "OBJNEW", "EXTCALL", "NATIVE"}

\* Nested calls, function objects, arrays and their enumerators.
FrameOps ==
  {"SCTX", "CALL", "EXEC", "OBJPUSH", "OBJPOP", "OBJCONST", "OBJDEL",
   "FIRST", "ARGADD"}

\* A statement that is only the name of a variable: push it, delete it.
DeleteOps == {"SCTX", "OBJPUSH", "OBJDEL"}

\* A variable that is pushed again and again.
PushOps == {"SCTX", "OBJPUSH"}
=============================================================================
