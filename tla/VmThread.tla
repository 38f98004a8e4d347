------------------------------ MODULE VmThread ------------------------------
(***************************************************************************)
(* Script threads (va_create_thread, va_thread_start, va_thread_stop and   *)
(* va_thread_task of src/StackLib/StackVM/vm_framework.c): the script of   *)
(* the parent, its va_thread_arg block, and the new thread that runs a     *)
(* function in a virtual machine of its own.  The threads share the block, *)
(* the vm_instance of the child and the objects passed as arguments, all   *)
(* without a lock, so each access is a step of its own.                    *)
(*                                                                         *)
(* pthread_cancel is deferred (the default): the child ends at its next    *)
(* cancellation point.  External: pthreads, and printf, which may or may   *)
(* not be a cancellation point.                                            *)
(***************************************************************************)
EXTENDS Integers, FiniteSets, Sequences

CONSTANTS
  Objs,        \* objects of the parent that it may pass
  MaxArgs,     \* 15: an arg_count has four bits, arguments[] 16 entries
  ArgCounts,   \* func->arg_count of the functions that become threads
  CloneLimit,  \* 14: the arguments va_thread_task copies
  MaxVars,     \* bound on the parent's own references to an object
  MaxTouch     \* bound on the parent's own accesses to its objects

Junk == "junk"     \* what malloc left in arguments[]
None == "none"

ASSUME ThreadAssumption ==
  /\ {Junk, None} \cap Objs = {}
  /\ {MaxArgs, CloneLimit, MaxTouch} \subseteq Nat
  /\ MaxVars \in Nat \ {0}
  /\ ArgCounts \subseteq 0 .. MaxArgs

VARIABLES
  ta,      \* the va_thread_arg block
  vm,      \* the child's vm_instance: its vm_state, and whether it exists
  parent,  \* where the parent is, and the value of an interrupted update
  child,   \* where the thread is, its loop index and its private values
  heap     \* the parent's objects

vars == <<ta, vm, parent, child, heap>>

\* The reference byte of an object: a magic number and a counter of four bits.
VM_MAGIC == 128
Counter(mgc) == mgc % 16
\* (mgc_refcount & VM_MAGIC_MASK_ZERO) == VM_MAGIC
IsZero(mgc) == mgc >= VM_MAGIC /\ Counter(mgc) = 0
\* k calls of vm_object_ref: the counter stops at 15.
Referenced(mgc, k) == mgc + (IF k <= 15 - Counter(mgc) THEN k ELSE 15 - Counter(mgc))
\* vm_object_unref
Unreferenced(mgc) == IF Counter(mgc) = 0 THEN mgc ELSE mgc - 1

\* The va_thread_arg block.  "open" is the handle the script holds: its
\* length is not yet 0.
Init ==
  /\ ta = [exists |-> FALSE, open |-> FALSE, thread |-> FALSE, ctx |-> FALSE,
           stop |-> FALSE, n |-> 0, args |-> [i \in 0 .. MaxArgs |-> Junk]]
  /\ vm = [exists |-> FALSE, state |-> "INIT"]
  /\ parent = [at |-> "script", touched |-> 0, obj |-> None, read |-> 0]
  /\ child = [at |-> "none", i |-> 0, got |-> << >>, read |-> 0, cancel |-> FALSE]
  \* each object is in one variable of the parent
  /\ heap = [o \in Objs |-> [alive |-> TRUE, mgc |-> VM_MAGIC + 1, vars |-> 1]]

-----------------------------------------------------------------------------
(***************************************************************************)
(* The parent.                                                             *)
(***************************************************************************)
Script == parent.at = "script"

\* Variant of va_create_thread: the function itself is counted as an argument.
va_create_thread_counts_function ==
  /\ Script /\ ~ta.exists /\ child.at = "none"
  /\ \E n \in ArgCounts :
       ta' = [ta EXCEPT !.exists = TRUE, !.open = TRUE, !.n = n + 1]
  /\ UNCHANGED <<vm, parent, child, heap>>

va_create_thread ==
  /\ Script /\ ~ta.exists /\ child.at = "none"
  /\ \E n \in ArgCounts :
       ta' = [ta EXCEPT !.exists = TRUE, !.open = TRUE, !.n = n]
  /\ UNCHANGED <<vm, parent, child, heap>>

\* The arguments are referenced and stored from index 1 on.
StoreArguments(t, passed) ==
  [t EXCEPT !.thread = TRUE,
            !.args = [i \in DOMAIN @ |-> IF i \in 1 .. t.n THEN passed[i] ELSE @[i]]]

\* Variant of RefArguments: the arguments are not locked.
RefArguments_unlocked(h, passed) == h

Places(passed, o) == {i \in DOMAIN passed : passed[i] = o}
RefArguments(h, passed) ==
  [o \in Objs |-> [h[o] EXCEPT !.mgc = Referenced(@, Cardinality(Places(passed, o)))]]

\* An object may be passed more than once.  A failure of pthread_create is not noticed: the
\* pthread_t is what malloc left there.
va_thread_start ==
  /\ Script /\ ta.open /\ ~ta.thread
  /\ \E passed \in [1 .. ta.n -> {o \in Objs : heap[o].vars > 0}] :
       /\ ta' = StoreArguments(ta, passed)
       /\ heap' = RefArguments(heap, passed)
  /\ \E at \in {"init", "failed"} : child' = [child EXCEPT !.at = at]
  /\ UNCHANGED <<vm, parent>>

\* The script stores an object in one more variable or overwrites a variable:
\* a read and a write of the counter byte.
TouchRead ==
  /\ Script /\ parent.touched < MaxTouch
  /\ \E o \in Objs :
       /\ heap[o].vars > 0
       /\ parent' = [at |-> "touch", touched |-> parent.touched + 1,
                     obj |-> o, read |-> heap[o].mgc]
  /\ UNCHANGED <<ta, vm, child, heap>>

TouchWrite ==
  /\ parent.at = "touch"
  /\ \E d \in {-1, 1} :
       /\ d = 1 => heap[parent.obj].vars < MaxVars
       /\ heap' = [heap EXCEPT ![parent.obj].mgc = (parent.read + d) % 256,
                               ![parent.obj].vars = @ + d]
  /\ parent' = [parent EXCEPT !.at = "script", !.obj = None, !.read = 0]
  /\ UNCHANGED <<ta, vm, child>>

\* The parent's collector.
Collect ==
  /\ Script
  /\ \E o \in Objs : /\ heap[o].alive /\ IsZero(heap[o].mgc)
                     /\ heap' = [heap EXCEPT ![o].alive = FALSE]
  /\ UNCHANGED <<ta, vm, parent, child>>

\* va_thread_stop: ask the child's machine to abort if it is known, close the
\* handle, and read the pthread_t; there is none before va_thread_start.
StopAbort ==
  /\ Script /\ ta.open
  /\ vm' = IF ta.ctx THEN [vm EXCEPT !.state = "ABORT"] ELSE vm
  /\ ta' = [ta EXCEPT !.open = FALSE]
  /\ parent' = [parent EXCEPT !.at = IF ta.thread THEN "cancel" ELSE "crash"]
  /\ UNCHANGED <<child, heap>>

StopCancel ==
  /\ parent.at = "cancel"
  /\ child' = [child EXCEPT !.cancel = TRUE]
  /\ \/ parent' = [parent EXCEPT !.at = "request"]
     \* pthread_cancel of what was never a thread
     \/ child.at = "failed" /\ parent' = [parent EXCEPT !.at = "crash"]
  /\ UNCHANGED <<ta, vm, heap>>

\* Variant of StopRequest: the request is only sent after the join.
StopRequest_late ==
  /\ parent.at = "request"
  /\ parent' = [parent EXCEPT !.at = "join"]
  /\ UNCHANGED <<ta, vm, child, heap>>

StopRequest ==
  /\ parent.at = "request"
  /\ ta' = [ta EXCEPT !.stop = TRUE]
  /\ parent' = [parent EXCEPT !.at = "join"]
  /\ UNCHANGED <<vm, child, heap>>

\* Variant of StopJoin: the block is freed without waiting for the thread.
StopJoin_detached ==
  /\ parent.at = "join"
  /\ ta' = [ta EXCEPT !.exists = FALSE]
  /\ parent' = [parent EXCEPT !.at = "script"]
  /\ UNCHANGED <<vm, child, heap>>

\* pthread_join returns; the block is freed only if the thread was cancelled.  Where there is
\* no thread the join fails and its result was never written.
StopJoin ==
  /\ parent.at = "join"
  /\ child.at \in {"returned", "cancelled", "failed"}
  /\ \E kept \in BOOLEAN :
       /\ child.at # "failed" => kept = (child.at = "returned")
       /\ ta' = [ta EXCEPT !.exists = kept]
  /\ parent' = [parent EXCEPT !.at = "script"]
  /\ UNCHANGED <<vm, child, heap>>

-----------------------------------------------------------------------------
(***************************************************************************)
(* The thread.                                                             *)
(***************************************************************************)
Go(at) == child' = [child EXCEPT !.at = at]

TaskInit ==
  /\ child.at = "init"
  /\ vm' = [vm EXCEPT !.exists = TRUE]
  /\ Go("copy")
  /\ UNCHANGED <<ta, parent, heap>>

\* One argument is cloned.  A pointer that was never written is followed: the
\* process dies, or some other memory is cloned.
TaskClone ==
  /\ child.at = "copy" /\ child.i < ta.n /\ child.i < CloneLimit
  /\ LET o == ta.args[child.i]
     IN  \/ /\ o # Junk
            /\ child' = [child EXCEPT !.at = "unref", !.got = Append(@, o),
                                      !.read = heap[o].mgc]
            /\ UNCHANGED parent
         \/ /\ o = Junk
            /\ child' = [child EXCEPT !.got = Append(@, Junk), !.i = @ + 1]
            /\ UNCHANGED parent
         \/ /\ o = Junk
            /\ parent' = [parent EXCEPT !.at = "crash"]
            /\ UNCHANGED child
  /\ UNCHANGED <<ta, vm, heap>>

\* The write of vm_object_unref; its read was in TaskClone.
TaskUnref ==
  /\ child.at = "unref"
  /\ heap' = [heap EXCEPT ![ta.args[child.i]].mgc = Unreferenced(child.read)]
  /\ child' = [child EXCEPT !.at = "copy", !.i = @ + 1, !.read = 0]
  /\ UNCHANGED <<ta, vm, parent>>

\* The arguments are pushed.  Those beyond the limit were never copied: what the array held
\* there is counted up, in the process's memory or outside of it.
Copied == child.i = ta.n \/ child.i = CloneLimit
TaskPushJunk ==
  /\ child.at = "copy" /\ Copied /\ child.i < ta.n
  /\ parent' = [parent EXCEPT !.at = "crash"]
  /\ UNCHANGED <<ta, vm, child, heap>>

TaskPublish ==
  /\ child.at = "copy" /\ Copied
  /\ ta' = [ta EXCEPT !.ctx = TRUE]
  /\ child' = [child EXCEPT !.at = "decode", !.got = @ \o [k \in 1 .. ta.n - child.i |-> Junk]]
  /\ UNCHANGED <<vm, parent, heap>>

\* vm_decode sets the state to RUN whatever it was, an abort included.
TaskDecode ==
  /\ child.at = "decode"
  /\ vm' = [vm EXCEPT !.state = "RUN"]
  /\ Go("run")
  /\ UNCHANGED <<ta, parent, heap>>

\* The function ends by itself, or the loop of vm_decode sees the abort.
TaskEnd ==
  /\ child.at = "run"
  /\ vm' = [vm EXCEPT !.state = IF @ = "RUN" THEN "INIT" ELSE @]
  /\ Go("spin")
  /\ UNCHANGED <<ta, parent, heap>>

\* A cancellation point: printf in vm_decode and vm_set_state, sleep and I/O
\* in the script.
TaskCancelled ==
  /\ child.cancel /\ child.at \in {"decode", "run"}
  /\ vm' = [vm EXCEPT !.exists = FALSE]
  /\ Go("cancelled")
  /\ UNCHANGED <<ta, parent, heap>>

\* Variant of TaskReturn: the thread does not wait for the stop request.
TaskReturn_at_once ==
  /\ child.at = "spin"
  /\ vm' = [vm EXCEPT !.exists = FALSE]
  /\ Go("returned")
  /\ UNCHANGED <<ta, parent, heap>>

\* The wait for stop_requested contains no cancellation point.
TaskReturn ==
  /\ child.at = "spin" /\ ta.stop
  /\ vm' = [vm EXCEPT !.exists = FALSE]
  /\ Go("returned")
  /\ UNCHANGED <<ta, parent, heap>>

-----------------------------------------------------------------------------
Alive == parent.at # "crash"

ParentStep ==
  Alive /\ (\/ va_create_thread \/ va_thread_start \/ TouchRead \/ TouchWrite
            \/ Collect \/ StopAbort \/ StopCancel \/ StopRequest \/ StopJoin)

StopStep == Alive /\ (StopCancel \/ StopRequest \/ StopJoin)

ChildStep ==
  Alive /\ (\/ TaskInit \/ TaskClone \/ TaskUnref \/ TaskPushJunk \/ TaskPublish
            \/ TaskDecode \/ TaskEnd \/ TaskCancelled \/ TaskReturn)

Next == ParentStep \/ ChildStep

\* The operating system runs both threads, and the function of the thread
\* ends: TaskEnd is part of ChildStep.
Spec == Init /\ [][Next]_vars /\ WF_vars(StopStep) /\ WF_vars(ChildStep)

-----------------------------------------------------------------------------
(***************************************************************************)
(* Properties                                                              *)
(***************************************************************************)
Block ==
  [exists : BOOLEAN, open : BOOLEAN, thread : BOOLEAN, ctx : BOOLEAN, stop : BOOLEAN,
   n : 0 .. MaxArgs, args : [0 .. MaxArgs -> Objs \cup {Junk}]]

Machine == [exists : BOOLEAN, state : {"INIT", "RUN", "ABORT"}]

Parent ==
  [at : {"script", "touch", "cancel", "request", "join", "crash"},
   touched : 0 .. MaxTouch, obj : Objs \cup {None}, read : 0 .. 255]

Child ==
  [at : {"none", "init", "failed", "copy", "unref", "decode", "run", "spin", "returned", "cancelled"},
   i : 0 .. MaxArgs, got : Seq(Objs \cup {Junk}), read : 0 .. 255, cancel : BOOLEAN]

Object == [alive : BOOLEAN, mgc : 0 .. 255, vars : Int]

\* The block never counts more arguments than it has room for, and the two
\* threads are at a place of the code.
TypeOK ==
  /\ ta \in Block /\ vm \in Machine
  /\ parent \in Parent /\ child \in Child
  /\ heap \in [Objs -> Object]

\* va_thread_stop never writes the state of a machine that is gone: the ctx
\* pointer of the block leads to the stack of the thread, which waits for the
\* stop request so that it cannot leave that stack before.
AbortHitsMachine == ta.open /\ ta.ctx => vm.exists

\* The block outlives its thread: va_thread_stop frees it after the join only.
BlockOutlivesThread ==
  child.at \notin {"none", "failed", "returned", "cancelled"} => ta.exists

\* "lock object until it is accessed by thread" (vm_framework.c:3925), for the
\* arguments that the thread can reach and that are passed once: one it has still
\* to clone is not collected, whatever the script does with its variables.  If an
\* object is passed twice, the release of its first copy may overwrite a count of
\* the script, and the second copy is not safe; nor is an object in 15 variables,
\* for which the counter cannot count the lock.
PassedOnceStaysAlive ==
  ta.thread =>
    \A i \in 0 .. ta.n - 1 :
      /\ i >= child.i /\ ta.args[i] # Junk
      /\ \A j \in 0 .. ta.n : j # i => ta.args[j] # ta.args[i]
      => heap[ta.args[i]].alive

\* A stop always returns to the script.
StopReturns == parent.at = "cancel" ~> parent.at \in {"script", "crash"}

\* The thread is given the objects that were locked for it.
ArgumentsArrive ==
  child.at \in {"decode", "run"} =>
    \A i \in 1 .. ta.n : child.got[i] = ta.args[i]
=============================================================================
