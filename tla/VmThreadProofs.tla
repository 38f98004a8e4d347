-------------------------- MODULE VmThreadProofs --------------------------
(***************************************************************************)
(* Proofs about script threads, for every set of objects, every number of  *)
(* arguments and every interleaving of the two threads.                    *)
(***************************************************************************)
EXTENDS VmThread, FiniteSetTheorems, TLAPS

\* Where the child's machine is in use, and where the thread may be once the
\* block points to that machine.
Inside    == {"copy", "unref", "decode", "run", "spin"}
Published == {"decode", "run", "spin", "returned", "cancelled"}
Gone      == {"none", "failed", "returned", "cancelled"}

\* What ties the two threads together.  The thread leaves its stack only on a
\* request or a cancellation, both of which a stop sends after it has closed
\* the handle; no operation gets past a closed handle.
Handshake ==
  /\ ta.open => ta.exists /\ ~ta.stop /\ ~child.cancel
  /\ parent.at \in {"cancel", "request", "join"} => ~ta.open /\ ta.thread
  /\ ta.thread <=> child.at # "none"
  /\ child.at = "none" => ~ta.stop /\ ~child.cancel /\ ~ta.ctx
  /\ ta.ctx => child.at \in Published
  /\ child.at \in Inside => vm.exists
  /\ ta.stop \/ child.cancel => ~ta.open
  /\ child.at \notin Gone => ta.exists
  /\ child.at \in {"returned", "cancelled"} => ta.stop \/ child.cancel

\* The loop over the arguments stays inside the block.
Copying ==
  /\ child.i <= ta.n
  /\ child.at = "none" => child.i = 0
  /\ child.at = "unref" => child.i < ta.n /\ ta.args[child.i] \in Objs
  /\ parent.at = "touch" => parent.obj \in Objs

IInv == TypeOK /\ Handshake /\ Copying

-----------------------------------------------------------------------------
\* The numbers among the constants.
LEMMA Limits == MaxArgs \in Nat /\ CloneLimit \in Nat /\ MaxTouch \in Nat /\ MaxVars \in Nat
BY ThreadAssumption

\* The counter of a reference byte.
LEMMA CounterType ==
  ASSUME NEW m \in 0 .. 255
  PROVE  Counter(m) \in 0 .. 15 /\ m + (15 - Counter(m)) \in 0 .. 255
BY DEF Counter

\* vm_object_ref and vm_object_unref keep a byte a byte.
LEMMA ReferencedType ==
  ASSUME NEW m \in 0 .. 255, NEW k \in Nat
  PROVE  Referenced(m, k) \in 0 .. 255 /\ Unreferenced(m) \in 0 .. 255
<1>1. Counter(m) \in 0 .. 15 /\ m + (15 - Counter(m)) \in 0 .. 255
  BY CounterType
<1>2. Counter(m) # 0 => m # 0
  BY DEF Counter
<1>3. Unreferenced(m) \in 0 .. 255
  BY <1>2 DEF Unreferenced
<1>4. CASE k <= 15 - Counter(m)
  <2>1. Referenced(m, k) = m + k
    BY <1>4 DEF Referenced
  <2>2. QED
    BY <1>1, <1>3, <1>4, <2>1
<1>5. CASE ~(k <= 15 - Counter(m))
  <2>1. Referenced(m, k) = m + (15 - Counter(m))
    BY <1>5 DEF Referenced
  <2>2. QED
    BY <1>1, <1>3, <2>1
<1>6. QED
  BY <1>4, <1>5

\* An object is passed a number of times.
LEMMA PlacesCount ==
  ASSUME NEW n \in Nat, NEW passed \in [1 .. n -> Objs], NEW o \in Objs
  PROVE  Cardinality(Places(passed, o)) \in Nat
<1>1. IsFiniteSet(1 .. n)
  BY FS_Interval
<1>2. Places(passed, o) \subseteq 1 .. n
  BY DEF Places
<1>3. IsFiniteSet(Places(passed, o))
  BY <1>1, <1>2, FS_Subset
<1>4. QED
  BY <1>3, FS_CardinalityType

\* The first state: no block, no thread.
LEMMA InitIInv == Init => IInv
<1> SUFFICES ASSUME Init PROVE IInv
  OBVIOUS
<1> USE DEF Init
<1>1. TypeOK
  <2>1. << >> \in Seq(Objs \cup {Junk})
    OBVIOUS
  <2>2. QED
    BY <2>1, Limits, ThreadAssumption DEF TypeOK, Block, Machine, Parent, Child, Object, VM_MAGIC
<1>2. Handshake
  BY DEF Handshake, Inside, Published, Gone
<1>3. Copying
  BY DEF Copying
<1>4. QED
  BY <1>1, <1>2, <1>3 DEF IInv

\* An update of an object keeps its type.
LEMMA ObjectCount ==
  ASSUME NEW r \in Object, NEW c \in 0 .. 255
  PROVE  [r EXCEPT !.mgc = c] \in Object
BY Zenon DEF Object

\* Both counters.
LEMMA ObjectCounts ==
  ASSUME NEW r \in Object, NEW c \in 0 .. 255, NEW v \in Int
  PROVE  [r EXCEPT !.mgc = c, !.vars = v] \in Object
BY Zenon DEF Object

\* A collected object is still a record of the heap.
LEMMA ObjectCollected ==
  ASSUME NEW r \in Object
  PROVE  [r EXCEPT !.alive = FALSE] \in Object
BY Zenon DEF Object

\* The reference byte and the number of variables.
LEMMA ObjectFields ==
  ASSUME NEW r \in Object
  PROVE  r.mgc \in 0 .. 255 /\ r.vars \in Int
BY DEF Object

\* Replacing one object keeps the type of the heap.
LEMMA HeapPut ==
  ASSUME NEW h \in [Objs -> Object], NEW o \in Objs, NEW r \in Object
  PROVE  [h EXCEPT ![o] = r] \in [Objs -> Object]
OBVIOUS

\* Every step keeps the type of the parent's heap.
LEMMA NextHeap == IInv /\ [Next]_vars => heap' \in [Objs -> Object]
<1> SUFFICES ASSUME IInv, [Next]_vars PROVE heap' \in [Objs -> Object]
  OBVIOUS
<1>0. heap \in [Objs -> Object] /\ parent \in Parent /\ child \in Child
  BY DEF IInv, TypeOK
<1>1. CASE va_thread_start
  <2>1. PICK passed \in [1 .. ta.n -> {o \in Objs : heap[o].vars > 0}] :
          heap' = RefArguments(heap, passed)
    BY <1>1 DEF va_thread_start
  <2>2. ta.n \in Nat /\ passed \in [1 .. ta.n -> Objs]
    BY <2>1, Limits DEF IInv, TypeOK, Block
  <2>3. ASSUME NEW o \in Objs
        PROVE  [heap[o] EXCEPT !.mgc = Referenced(heap[o].mgc, Cardinality(Places(passed, o)))] \in Object
    <3>1. heap[o] \in Object
      BY <1>0
    <3>2. Cardinality(Places(passed, o)) \in Nat
      BY <2>2, PlacesCount
    <3>3. heap[o].mgc \in 0 .. 255
      BY <3>1, ObjectFields
    <3>4. Referenced(heap[o].mgc, Cardinality(Places(passed, o))) \in 0 .. 255
      BY <3>2, <3>3, ReferencedType
    <3>5. QED
      BY <3>1, <3>4, ObjectCount
  <2>4. heap' = [o \in Objs |->
                   [heap[o] EXCEPT !.mgc = Referenced(heap[o].mgc, Cardinality(Places(passed, o)))]]
    BY <2>1 DEF RefArguments
  <2>5. QED
    BY <2>3, <2>4
<1>2. CASE TouchWrite
  <2>1. PICK d \in {-1, 1} :
          heap' = [heap EXCEPT ![parent.obj].mgc = (parent.read + d) % 256,
                               ![parent.obj].vars = @ + d]
    BY <1>2 DEF TouchWrite
  <2> DEFINE o == parent.obj
             c == (parent.read + d) % 256
             v == heap[o].vars + d
  <2>2. o \in Objs
    BY <1>2 DEF TouchWrite, IInv, Copying
  <2>3. c \in 0 .. 255
    BY <1>0 DEF Parent
  <2>4. heap[o] \in Object
    BY <1>0, <2>2
  <2>5. v \in Int
    BY <2>4, ObjectFields
  <2>6. heap' = [heap EXCEPT ![o] = [heap[o] EXCEPT !.mgc = c, !.vars = v]]
    BY <2>1, <2>2, <1>0
  <2> HIDE DEF o, c, v
  <2>7. QED
    BY <1>0, <2>2, <2>3, <2>4, <2>5, <2>6, ObjectCounts, HeapPut
<1>3. CASE Collect
  <2>1. PICK o \in Objs : heap' = [heap EXCEPT ![o].alive = FALSE]
    BY <1>3 DEF Collect
  <2>2. heap' = [heap EXCEPT ![o] = [heap[o] EXCEPT !.alive = FALSE]]
    BY <2>1
  <2>3. heap[o] \in Object
    BY <1>0
  <2>4. QED
    BY <1>0, <2>2, <2>3, ObjectCollected, HeapPut
<1>4. CASE TaskUnref
  <2> DEFINE o == ta.args[child.i]
             c == Unreferenced(child.read)
  <2>1. o \in Objs
    BY <1>4 DEF TaskUnref, IInv, Copying
  <2>2. c \in 0 .. 255
    BY <1>0, ReferencedType DEF Child
  <2>3. heap' = [heap EXCEPT ![o] = [heap[o] EXCEPT !.mgc = c]]
    BY <1>4 DEF TaskUnref
  <2>4. heap[o] \in Object
    BY <1>0, <2>1
  <2> HIDE DEF o, c
  <2>5. QED
    BY <1>0, <2>1, <2>2, <2>3, <2>4, ObjectCount, HeapPut
<1>5. CASE UNCHANGED heap
  BY <1>0, <1>5
<1>6. QED
  BY <1>1, <1>2, <1>3, <1>4, <1>5
  DEF Next, ParentStep, ChildStep, vars, va_create_thread, TouchRead, StopAbort, StopCancel,
      StopRequest, StopJoin, TaskInit, TaskClone, TaskPushJunk, TaskPublish, TaskDecode, TaskEnd,
      TaskCancelled, TaskReturn

\* Every step keeps the type of the block.
LEMMA NextBlock == IInv /\ [Next]_vars => ta' \in Block
<1> SUFFICES ASSUME IInv, [Next]_vars PROVE ta' \in Block
  OBVIOUS
<1>0. ta \in Block
  BY DEF IInv, TypeOK
<1>1. CASE va_create_thread
  BY <1>0, <1>1, ThreadAssumption DEF va_create_thread, Block
<1>2. CASE va_thread_start
  <2>1. PICK passed \in [1 .. ta.n -> {o \in Objs : heap[o].vars > 0}] :
          ta' = StoreArguments(ta, passed)
    BY <1>2 DEF va_thread_start
  <2>2. QED
    BY <1>0, <2>1 DEF StoreArguments, Block
<1>3. CASE StopAbort
  BY <1>0, <1>3 DEF StopAbort, Block
<1>4. CASE StopRequest
  BY <1>0, <1>4 DEF StopRequest, Block
<1>5. CASE StopJoin
  BY <1>0, <1>5 DEF StopJoin, Block
<1>6. CASE TaskPublish
  BY <1>0, <1>6 DEF TaskPublish, Block
<1>7. CASE UNCHANGED ta
  BY <1>0, <1>7
<1>8. QED
  BY <1>1, <1>2, <1>3, <1>4, <1>5, <1>6, <1>7
  DEF Next, ParentStep, ChildStep, vars, TouchRead, TouchWrite, Collect, StopCancel,
      TaskInit, TaskClone, TaskUnref, TaskPushJunk, TaskDecode, TaskEnd, TaskCancelled, TaskReturn

\* Every step keeps the type of the machine and of the parent.
LEMMA NextMachine == IInv /\ [Next]_vars => vm' \in Machine /\ parent' \in Parent
<1> SUFFICES ASSUME IInv, [Next]_vars PROVE vm' \in Machine /\ parent' \in Parent
  OBVIOUS
<1>0. vm \in Machine /\ parent \in Parent /\ heap \in [Objs -> Object]
  BY SMTT(30) DEF IInv, TypeOK
<1>1. vm' \in Machine
  BY <1>0, ZenonT(60)
  DEF Machine, Next, ParentStep, ChildStep, vars, va_create_thread, va_thread_start,
      TouchRead, TouchWrite, Collect, StopAbort, StopCancel, StopRequest, StopJoin,
      TaskInit, TaskClone, TaskUnref, TaskPushJunk, TaskPublish, TaskDecode, TaskEnd, TaskCancelled,
      TaskReturn
<1>2. CASE TouchRead
  <2>1. \A o \in Objs : heap[o].mgc \in 0 .. 255
    BY <1>0, ObjectFields
  <2>2. QED
    BY <1>0, <1>1, <1>2, <2>1, ThreadAssumption DEF TouchRead, Parent
<1>3. CASE ~TouchRead
  <2>1. \/ UNCHANGED parent
        \/ parent' = [parent EXCEPT !.at = "script", !.obj = None, !.read = 0]
        \/ \E at \in {"script", "cancel", "request", "join", "crash"} :
             parent' = [parent EXCEPT !.at = at]
    BY <1>3
    DEF Next, ParentStep, ChildStep, vars, va_create_thread, va_thread_start,
      TouchWrite, Collect, StopAbort, StopCancel, StopRequest, StopJoin, TaskInit,
      TaskClone, TaskUnref, TaskPushJunk, TaskPublish, TaskDecode, TaskEnd, TaskCancelled, TaskReturn
  <2>2. 0 \in 0 .. 255
    OBVIOUS
  <2>3. CASE parent' = [parent EXCEPT !.at = "script", !.obj = None, !.read = 0]
    BY <1>0, <1>1, <2>2, <2>3, Zenon DEF Parent
  <2>4. ASSUME NEW at \in {"script", "cancel", "request", "join", "crash"},
               parent' = [parent EXCEPT !.at = at]
        PROVE  parent' \in Parent
    BY <1>0, <2>4, Zenon DEF Parent
  <2>5. QED
    BY <1>0, <1>1, <2>1, <2>3, <2>4
<1>4. QED
  BY <1>2, <1>3

\* Every step keeps the type of the thread.
LEMMA NextChild == IInv /\ [Next]_vars => child' \in Child
<1> SUFFICES ASSUME IInv, [Next]_vars PROVE child' \in Child
  OBVIOUS
<1>0. child \in Child /\ ta \in Block /\ heap \in [Objs -> Object]
  BY DEF IInv, TypeOK
<1>1. CASE TaskClone
  <2> DEFINE o == ta.args[child.i]
  <2>1. child.i \in 0 .. MaxArgs /\ child.i < ta.n /\ ta.n \in 0 .. MaxArgs
    BY <1>0, <1>1 DEF TaskClone, Child, Block
  <2>2. o \in Objs \cup {Junk}
    BY <1>0, <2>1 DEF Block
  <2>3. child.got \in Seq(Objs \cup {Junk})
    BY <1>0 DEF Child
  <2>4. Append(child.got, o) \in Seq(Objs \cup {Junk})
    BY <2>2, <2>3
  <2>5. o # Junk => heap[o].mgc \in 0 .. 255
    BY <1>0, <2>2, ObjectFields
  <2>6. \/ o # Junk /\ child' = [child EXCEPT !.at = "unref", !.got = Append(@, o),
                                              !.read = heap[o].mgc]
        \/ o = Junk /\ child' = [child EXCEPT !.got = Append(@, Junk), !.i = @ + 1]
        \/ child' = child
    BY <1>1 DEF TaskClone
  <2> HIDE DEF o
  <2>7. child.i + 1 \in 0 .. MaxArgs
    BY <2>1, Limits
  <2>8. CASE o # Junk /\ child' = [child EXCEPT !.at = "unref", !.got = Append(@, o),
                                                !.read = heap[o].mgc]
    BY <1>0, <2>4, <2>5, <2>8 DEF Child
  <2>9. CASE o = Junk /\ child' = [child EXCEPT !.got = Append(@, Junk), !.i = @ + 1]
    BY <1>0, <2>4, <2>7, <2>9 DEF Child
  <2>10. QED
    BY <1>0, <2>6, <2>8, <2>9
<1>2. CASE TaskUnref
  <2>1. child.i \in 0 .. MaxArgs /\ child.i < ta.n /\ ta.n \in 0 .. MaxArgs
    BY <1>0, <1>2 DEF TaskUnref, Child, Block, IInv, Copying
  <2>2. child.i + 1 \in 0 .. MaxArgs
    BY <2>1, Limits
  <2>3. child' = [child EXCEPT !.at = "copy", !.i = child.i + 1, !.read = 0]
    BY <1>2 DEF TaskUnref
  <2>4. 0 \in 0 .. 255
    OBVIOUS
  <2>5. QED
    BY <1>0, <2>2, <2>3, <2>4, Zenon DEF Child
<1>3. CASE TaskPublish
  <2>1. child.i \in 0 .. MaxArgs /\ child.i <= ta.n /\ ta.n \in 0 .. MaxArgs
    BY <1>0 DEF Child, Block, IInv, Copying
  <2>2. [k \in 1 .. ta.n - child.i |-> Junk] \in Seq(Objs \cup {Junk})
    BY <2>1, Limits
  <2>3. child.got \in Seq(Objs \cup {Junk})
    BY <1>0 DEF Child
  <2>4. child.got \o [k \in 1 .. ta.n - child.i |-> Junk] \in Seq(Objs \cup {Junk})
    BY <2>2, <2>3
  <2>5. QED
    BY <1>0, <1>3, <2>4 DEF TaskPublish, Child
<1>4. CASE ~TaskClone /\ ~TaskUnref /\ ~TaskPublish
  <2>1. \/ UNCHANGED child
        \/ child' = [child EXCEPT !.cancel = TRUE]
        \/ \E at \in {"init", "failed", "copy", "run", "spin", "returned", "cancelled"} :
             child' = [child EXCEPT !.at = at]
    BY <1>4
    DEF Go, Next, ParentStep, ChildStep, vars, va_create_thread, va_thread_start,
      TouchRead, TouchWrite, Collect, StopAbort, StopCancel, StopRequest, StopJoin,
      TaskInit, TaskPushJunk, TaskDecode, TaskEnd, TaskCancelled, TaskReturn
  <2>2. CASE child' = [child EXCEPT !.cancel = TRUE]
    BY <1>0, <2>2, Zenon DEF Child
  <2>3. ASSUME NEW at \in {"init", "failed", "copy", "run", "spin", "returned", "cancelled"},
               child' = [child EXCEPT !.at = at]
        PROVE  child' \in Child
    BY <1>0, <2>3, Zenon DEF Child
  <2>4. QED
    BY <1>0, <2>1, <2>2, <2>3
<1>5. QED
  BY <1>1, <1>2, <1>3, <1>4

\* Every step keeps the types.
LEMMA NextTypeOK == IInv /\ [Next]_vars => TypeOK'
BY NextHeap, NextBlock, NextMachine, NextChild DEF TypeOK

\* Every step keeps the handshake and the loop index.
LEMMA NextHandshake == IInv /\ [Next]_vars => Handshake' /\ Copying'
<1> SUFFICES ASSUME IInv, [Next]_vars PROVE Handshake' /\ Copying'
  OBVIOUS
<1> USE Limits, ThreadAssumption
    DEF IInv, TypeOK, Block, Machine, Parent, Child, Handshake, Copying, Inside, Published, Gone
<1>1. CASE va_create_thread
  BY <1>1 DEF va_create_thread, Script
<1>2. CASE va_thread_start
  BY <1>2 DEF va_thread_start, StoreArguments, RefArguments, Script
<1>3. CASE TouchRead
  BY <1>3 DEF TouchRead, Script
<1>4. CASE TouchWrite
  BY <1>4 DEF TouchWrite
<1>5. CASE Collect
  BY <1>5 DEF Collect, Script
<1>6. CASE StopAbort
  BY <1>6 DEF StopAbort, Script
<1>7. CASE StopCancel
  BY <1>7 DEF StopCancel
<1>8. CASE StopRequest
  BY <1>8 DEF StopRequest
<1>9. CASE StopJoin
  BY <1>9 DEF StopJoin
<1>10. CASE TaskInit
  BY <1>10 DEF TaskInit, Go
<1>11. CASE TaskClone
  <2>1. child.i \in 0 .. MaxArgs /\ child.i < ta.n
    BY <1>11 DEF TaskClone
  <2>2. ta.args[child.i] \in Objs \cup {Junk}
    BY <2>1
  <2>3. UNCHANGED <<ta, vm>> /\ child'.cancel = child.cancel
    BY <1>11 DEF TaskClone
  <2>4. /\ child.at = "copy" /\ child'.at \in {"copy", "unref"}
        /\ child'.i \in {child.i, child.i + 1}
        /\ child'.at = "unref" => child'.i = child.i /\ ta.args[child.i] # Junk
    BY <1>11, <2>1 DEF TaskClone
  <2>5. parent'.at \in {parent.at, "crash"} /\ parent'.obj = parent.obj
    BY <1>11 DEF TaskClone
  <2>6. QED
    BY <2>1, <2>2, <2>3, <2>4, <2>5
<1>12. CASE TaskUnref
  BY <1>12 DEF TaskUnref, Go
<1>13. CASE TaskPublish
  BY <1>13 DEF TaskPublish, Go
<1>14. CASE TaskDecode
  BY <1>14 DEF TaskDecode, Go
<1>15. CASE TaskEnd
  BY <1>15 DEF TaskEnd, Go
<1>16. CASE TaskCancelled
  BY <1>16 DEF TaskCancelled, Go
<1>17. CASE TaskReturn
  BY <1>17 DEF TaskReturn, Go
<1>18. CASE UNCHANGED vars
  BY <1>18 DEF vars
<1>20. CASE TaskPushJunk
  BY <1>20 DEF TaskPushJunk
<1>21. QED
  BY <1>20, <1>1, <1>2, <1>3, <1>4, <1>5, <1>6, <1>7, <1>8, <1>9, <1>10, <1>11, <1>12, <1>13, <1>14, <1>15, <1>16, <1>17, <1>18 DEF Next, ParentStep, ChildStep

\* The inductive invariant.
THEOREM InductiveInvariant == Spec => []IInv
<1>1. IInv /\ [Next]_vars => IInv'
  BY NextTypeOK, NextHandshake DEF IInv
<1>2. QED
  BY InitIInv, <1>1, PTL DEF Spec

\* Both threads stay at a place of the code, and neither counts more
\* arguments than there is room for.
THEOREM TypeCorrect == Spec => []TypeOK
<1>1. IInv => TypeOK
  BY DEF IInv
<1>2. QED
  BY InductiveInvariant, <1>1, PTL

\* A stop never writes to the machine of a thread that is gone.
THEOREM AbortIsSafe == Spec => []AbortHitsMachine
<1>1. IInv => AbortHitsMachine
  BY DEF IInv, Handshake, AbortHitsMachine, Inside, Published
<1>2. QED
  BY InductiveInvariant, <1>1, PTL

\* The block of a thread is never freed while the thread can read it.
THEOREM BlockIsSafe == Spec => []BlockOutlivesThread
<1>1. IInv => BlockOutlivesThread
  BY DEF IInv, Handshake, BlockOutlivesThread, Gone
<1>2. QED
  BY InductiveInvariant, <1>1, PTL

-----------------------------------------------------------------------------
(***************************************************************************)
(* The lock of the arguments.                                              *)
(***************************************************************************)
\* A bound under which the counter of four bits counts every variable and the lock.
FewVars == MaxVars <= 14

\* The i-th argument is passed once.
Once(i) == \A j \in 0 .. ta.n : j # i => ta.args[j] # ta.args[i]

\* An argument that the thread has still to clone or to release has one count more than
\* variables of the script: the script counts up and down what it stores, and the thread
\* releases each argument once, having come to it.
Locked ==
  ta.thread => \A i \in 1 .. ta.n - 1 :
    i >= child.i /\ Once(i) =>
      /\ heap[ta.args[i]].alive
      /\ heap[ta.args[i]].mgc = VM_MAGIC + heap[ta.args[i]].vars + 1

\* Before the thread starts, counters and variables agree.
Counted ==
  ~ta.thread => \A o \in Objs :
    /\ heap[o].mgc = VM_MAGIC + heap[o].vars
    /\ heap[o].vars > 0 => heap[o].alive

\* An update of the script that has been read and not written is not overtaken while its
\* object is due, or while there is no thread.
Undisturbed ==
  parent.at = "touch" =>
    /\ heap[parent.obj].vars > 0
    /\ ~ta.thread => parent.read = heap[parent.obj].mgc
    /\ ta.thread => \A i \in 1 .. ta.n - 1 :
         i >= child.i /\ ta.args[i] = parent.obj /\ Once(i) => parent.read = heap[parent.obj].mgc

\* Index 0 is never written, the others hold objects.
Stored ==
  /\ ta.args[0] = Junk
  /\ ta.thread => \A i \in 1 .. ta.n : ta.args[i] \in Objs

\* A variable is counted down only where there is one.
NoDebt == \A o \in Objs : heap[o].vars \in 0 .. MaxVars

Lock == Locked /\ Counted /\ Undisturbed /\ Stored /\ NoDebt

\* The first state: every object is in one variable.
LEMMA InitLock == Init => Lock
BY Limits, ThreadAssumption
DEF Init, Lock, Locked, Counted, Undisturbed, Stored, NoDebt, VM_MAGIC

\* The counter of few references.
LEMMA FewCounted ==
  ASSUME NEW v \in 0 .. 15
  PROVE  Counter(VM_MAGIC + v) = v
BY DEF Counter, VM_MAGIC

\* An object with a reference is not one the collector takes.
LEMMA FewNotZero ==
  ASSUME NEW v \in 1 .. 15
  PROVE  ~IsZero(VM_MAGIC + v)
<1>1. Counter(VM_MAGIC + v) = v
  BY FewCounted
<1>2. QED
  BY <1>1 DEF IsZero

\* One reference more.
LEMMA FewReferenced ==
  ASSUME NEW v \in 0 .. 14
  PROVE  Referenced(VM_MAGIC + v, 1) = VM_MAGIC + v + 1
<1>1. Counter(VM_MAGIC + v) = v
  BY FewCounted
<1>2. QED
  BY <1>1 DEF Referenced, VM_MAGIC

\* The write of the script, where nothing was lost.
LEMMA FewWritten ==
  ASSUME NEW v \in 0 .. 15, NEW d \in {-1, 1}, v + d \in 0 .. 15
  PROVE  (VM_MAGIC + v + d) % 256 = VM_MAGIC + v + d
BY DEF VM_MAGIC

\* The types the lock rests on.
LEMMA LockTypes ==
  IInv => /\ ta.n \in Nat /\ ta.n <= MaxArgs /\ child.i \in Nat
          /\ ta.args \in [0 .. MaxArgs -> Objs \cup {Junk}]
          /\ heap \in [Objs -> Object]
          /\ \A o \in Objs : heap[o].mgc \in 0 .. 255 /\ heap[o].vars \in Int
          /\ parent.read \in 0 .. 255 /\ child.read \in 0 .. 255
BY Limits DEF IInv, TypeOK, Block, Parent, Child, Object

\* A step that writes no counter, at most advances the thread and starts no update.
LEMMA QuietLock ==
  ASSUME IInv, IInv', Lock, UNCHANGED heap,
         ta'.thread = ta.thread, ta'.args = ta.args,
         ta.thread => ta'.n = ta.n /\ child'.i >= child.i,
         parent'.at = "touch" => parent' = parent
  PROVE  Lock'
<1>0. child.i \in Nat /\ child'.i \in Nat
  BY LockTypes DEF IInv, TypeOK, Child
<1>1. Locked'
  BY <1>0 DEF Lock, Locked, Once
<1>2. Counted' /\ NoDebt' /\ Stored'
  BY DEF Lock, Counted, NoDebt, Stored
<1>3. Undisturbed'
  <2>1. CASE parent'.at # "touch"
    BY <2>1 DEF Undisturbed
  <2>2. CASE parent' = parent
    BY <1>0, <2>2 DEF Lock, Undisturbed, Once
  <2>3. QED
    BY <2>1, <2>2
<1>4. QED
  BY <1>1, <1>2, <1>3 DEF Lock

\* The bound on the variables, as a number.
LEMMA FewPlaces ==
  ASSUME FewVars, Lock, NEW o \in Objs
  PROVE  heap[o].vars \in 0 .. 14
<1>1. heap[o].vars \in 0 .. MaxVars
  BY DEF Lock, NoDebt
<1>2. MaxVars \in Nat /\ MaxVars <= 14
  BY Limits DEF FewVars
<1>3. QED
  BY <1>1, <1>2

\* The start of a thread locks what it passes.
LEMMA StartLock == FewVars /\ IInv /\ Lock /\ va_thread_start => Lock'
<1> SUFFICES ASSUME FewVars, IInv, Lock, va_thread_start PROVE Lock'
  OBVIOUS
<1>0. /\ ta.n \in Nat /\ ta.n <= MaxArgs /\ heap \in [Objs -> Object]
      /\ \A o \in Objs : heap[o].mgc \in 0 .. 255 /\ heap[o].vars \in Int
      /\ ta.args \in [0 .. MaxArgs -> Objs \cup {Junk}]
      /\ ta \in Block
  BY LockTypes DEF IInv, TypeOK
<1>1. PICK passed \in [1 .. ta.n -> {o \in Objs : heap[o].vars > 0}] :
        /\ ta' = StoreArguments(ta, passed)
        /\ heap' = RefArguments(heap, passed)
  BY DEF va_thread_start
<1>2. ~ta.thread /\ parent.at = "script" /\ parent' = parent
  BY DEF va_thread_start, Script
<1>3. /\ ta'.thread /\ ta'.n = ta.n
      /\ ta'.args = [i \in 0 .. MaxArgs |-> IF i \in 1 .. ta.n THEN passed[i] ELSE ta.args[i]]
  BY <1>0, <1>1 DEF StoreArguments, Block
<1>4. /\ ta'.args[0] = Junk
      /\ \A i \in 1 .. ta.n : ta'.args[i] = passed[i]
  BY <1>0, <1>3, Limits DEF Lock, Stored
<1>5. ASSUME NEW o \in Objs
      PROVE  /\ heap'[o].vars = heap[o].vars /\ heap'[o].alive = heap[o].alive
             /\ heap'[o].mgc = Referenced(heap[o].mgc, Cardinality(Places(passed, o)))
  BY <1>0, <1>1 DEF RefArguments, Object
<1>6. Locked'
  <2> SUFFICES ASSUME NEW i \in 1 .. ta.n - 1, Once(i)'
               PROVE  /\ heap'[ta'.args[i]].alive
                      /\ heap'[ta'.args[i]].mgc = VM_MAGIC + heap'[ta'.args[i]].vars + 1
    BY <1>3 DEF Locked
  <2>1. i \in 1 .. ta.n
    BY <1>0
  <2>2. passed[i] \in Objs /\ heap[passed[i]].vars > 0
    BY <2>1, <1>1
  <2>3. heap[passed[i]].mgc = VM_MAGIC + heap[passed[i]].vars /\ heap[passed[i]].alive
    BY <2>2, <1>2 DEF Lock, Counted
  <2>4. \A j \in 1 .. ta.n : j # i => passed[j] # passed[i]
    <3>1. \A j \in 0 .. ta.n : j # i => ta'.args[j] # ta'.args[i]
      BY <1>3 DEF Once
    <3>2. QED
      BY <2>1, <1>0, <1>4, <3>1
  <2>5. Places(passed, passed[i]) = {i}
    BY <2>1, <2>4, <1>1 DEF Places
  <2>6. Cardinality(Places(passed, passed[i])) = 1
    BY <2>5, FS_Singleton
  <2>7. heap[passed[i]].vars \in 0 .. 14
    BY <2>2, FewPlaces
  <2>8. Referenced(heap[passed[i]].mgc, 1) = VM_MAGIC + heap[passed[i]].vars + 1
    BY <2>3, <2>7, FewReferenced
  <2>9. QED
    BY <2>1, <2>2, <2>3, <2>6, <2>8, <1>4, <1>5
<1>7. Stored'
  BY <1>1, <1>3, <1>4 DEF Stored
<1>8. NoDebt'
  BY <1>5 DEF Lock, NoDebt
<1>9. QED
  BY <1>2, <1>3, <1>6, <1>7, <1>8 DEF Lock, Counted, Undisturbed

\* The script writes what it had read: nobody has changed it in between.
LEMMA TouchLock == FewVars /\ IInv /\ Lock /\ TouchWrite => Lock'
<1> SUFFICES ASSUME FewVars, IInv, Lock, TouchWrite PROVE Lock'
  OBVIOUS
<1>0. /\ heap \in [Objs -> Object] /\ parent.obj \in Objs /\ parent.read \in 0 .. 255
      /\ \A o \in Objs : heap[o].mgc \in 0 .. 255 /\ heap[o].vars \in Int
  BY LockTypes DEF IInv, Copying, TouchWrite
<1>1. PICK d \in {-1, 1} :
        /\ d = 1 => heap[parent.obj].vars < MaxVars
        /\ heap' = [heap EXCEPT ![parent.obj].mgc = (parent.read + d) % 256,
                                ![parent.obj].vars = @ + d]
  BY DEF TouchWrite
<1>2. UNCHANGED <<ta, child>> /\ parent.at = "touch" /\ parent'.at = "script"
  BY DEF TouchWrite, IInv, TypeOK, Parent
<1>3. /\ heap'[parent.obj].mgc = (parent.read + d) % 256
      /\ heap'[parent.obj].vars = heap[parent.obj].vars + d
      /\ heap'[parent.obj].alive = heap[parent.obj].alive
  BY <1>0, <1>1 DEF Object
<1>4. \A o \in Objs : o # parent.obj => heap'[o] = heap[o]
  BY <1>0, <1>1
<1>5. heap[parent.obj].vars > 0 /\ heap[parent.obj].vars \in 0 .. MaxVars
  BY <1>0, <1>2 DEF Lock, Undisturbed, NoDebt
<1>6. heap[parent.obj].vars \in 1 .. 14 /\ heap[parent.obj].vars + d \in 0 .. 14
      /\ heap[parent.obj].vars + d \in 0 .. MaxVars
  BY <1>1, <1>5, Limits DEF FewVars
<1>7. Locked'
  <2> SUFFICES ASSUME ta.thread, NEW i \in 1 .. ta.n - 1, i >= child.i, Once(i)
               PROVE  /\ heap'[ta.args[i]].alive
                      /\ heap'[ta.args[i]].mgc = VM_MAGIC + heap'[ta.args[i]].vars + 1
    BY <1>2 DEF Locked, Once
  <2>1. /\ heap[ta.args[i]].alive
        /\ heap[ta.args[i]].mgc = VM_MAGIC + heap[ta.args[i]].vars + 1
    BY DEF Lock, Locked
  <2>0. ta.args[i] \in Objs
    BY LockTypes DEF Lock, Stored
  <2>2. CASE ta.args[i] = parent.obj
    <3>1. parent.read = heap[parent.obj].mgc
      BY <1>2, <2>2 DEF Lock, Undisturbed
    <3>2. parent.read + d = VM_MAGIC + (heap[parent.obj].vars + 1) + d
      BY <1>6, <2>1, <2>2, <3>1 DEF VM_MAGIC
    <3>3. (VM_MAGIC + (heap[parent.obj].vars + 1) + d) % 256
            = VM_MAGIC + (heap[parent.obj].vars + 1) + d
      <4>1. heap[parent.obj].vars + 1 \in 0 .. 15 /\ (heap[parent.obj].vars + 1) + d \in 0 .. 15
        BY <1>6
      <4>2. QED
        BY <4>1, FewWritten
    <3>4. QED
      BY <1>3, <1>6, <2>1, <2>2, <3>2, <3>3 DEF VM_MAGIC
  <2>3. CASE ta.args[i] # parent.obj
    BY <1>4, <2>0, <2>1, <2>3
  <2>4. QED
    BY <2>2, <2>3
<1>8. Counted'
  <2> SUFFICES ASSUME ~ta.thread, NEW o \in Objs
               PROVE  /\ heap'[o].mgc = VM_MAGIC + heap'[o].vars
                      /\ heap'[o].vars > 0 => heap'[o].alive
    BY <1>2 DEF Counted
  <2>1. heap[o].mgc = VM_MAGIC + heap[o].vars /\ (heap[o].vars > 0 => heap[o].alive)
    BY DEF Lock, Counted
  <2>2. parent.read = heap[parent.obj].mgc
    BY <1>2 DEF Lock, Undisturbed
  <2>3. CASE o = parent.obj
    <3>1. (VM_MAGIC + heap[o].vars + d) % 256 = VM_MAGIC + heap[o].vars + d
      BY <1>6, <2>3, FewWritten
    <3>2. QED
      BY <1>3, <1>5, <1>6, <2>1, <2>2, <2>3, <3>1 DEF VM_MAGIC
  <2>4. QED
    BY <1>4, <2>1, <2>3
<1>9. NoDebt'
  BY <1>0, <1>3, <1>4, <1>6 DEF Lock, NoDebt
<1>10. Undisturbed' /\ Stored'
  BY <1>2 DEF Lock, Undisturbed, Stored
<1>11. QED
  BY <1>7, <1>8, <1>9, <1>10 DEF Lock

\* The thread releases the argument it has come to, and no other one.
LEMMA UnrefLock == IInv /\ Lock /\ TaskUnref => Lock'
<1> SUFFICES ASSUME IInv, Lock, TaskUnref PROVE Lock'
  OBVIOUS
<1> DEFINE o == ta.args[child.i]
           c == Unreferenced(child.read)
<1>0. /\ heap \in [Objs -> Object] /\ o \in Objs /\ child.i \in Nat /\ child.i < ta.n /\ ta.n \in Nat
      /\ child \in Child
  BY LockTypes DEF IInv, Copying, TaskUnref, TypeOK
<1>1. heap' = [heap EXCEPT ![o].mgc = c] /\ UNCHANGED <<ta, parent>> /\ child'.i = child.i + 1
  BY <1>0 DEF TaskUnref, Child
<1>3. ta.thread
  BY DEF TaskUnref, IInv, Handshake
<1>4. \A i \in 1 .. ta.n - 1 : i >= child.i + 1 /\ Once(i) => ta.args[i] \in Objs /\ ta.args[i] # o
  <2> SUFFICES ASSUME NEW i \in 1 .. ta.n - 1, i >= child.i + 1, Once(i)
               PROVE  ta.args[i] \in Objs /\ ta.args[i] # o
    OBVIOUS
  <2>1. ta.args[i] \in Objs
    BY <1>0, <1>3 DEF Lock, Stored
  <2>2. child.i \in 0 .. ta.n /\ child.i # i
    BY <1>0
  <2>3. QED
    BY <2>1, <2>2 DEF Once
<1> HIDE DEF o, c
<1>5. /\ \A p \in Objs : p # o => heap'[p] = heap[p]
      /\ \A p \in Objs : heap'[p].vars = heap[p].vars
  BY <1>0, <1>1 DEF Object
<1>6. Locked'
  <2> SUFFICES ASSUME NEW i \in 1 .. ta.n - 1, i >= child.i + 1, Once(i)
               PROVE  /\ heap'[ta.args[i]].alive
                      /\ heap'[ta.args[i]].mgc = VM_MAGIC + heap'[ta.args[i]].vars + 1
    BY <1>1 DEF Locked, Once
  <2>1. i >= child.i /\ heap'[ta.args[i]] = heap[ta.args[i]]
    BY <1>0, <1>4, <1>5
  <2>2. QED
    BY <2>1, <1>3 DEF Lock, Locked
<1>7. Undisturbed'
  <2> SUFFICES ASSUME parent.at = "touch"
               PROVE  /\ heap'[parent.obj].vars > 0
                      /\ \A i \in 1 .. ta.n - 1 :
                           i >= child.i + 1 /\ ta.args[i] = parent.obj /\ Once(i)
                             => parent.read = heap'[parent.obj].mgc
    BY <1>1, <1>3 DEF Undisturbed, Once
  <2>1. parent.obj \in Objs
    BY DEF IInv, Copying
  <2>2. heap'[parent.obj].vars > 0
    BY <1>5, <2>1 DEF Lock, Undisturbed
  <2>3. ASSUME NEW i \in 1 .. ta.n - 1, i >= child.i + 1, ta.args[i] = parent.obj, Once(i)
        PROVE  parent.read = heap'[parent.obj].mgc
    <3>1. i >= child.i /\ heap'[parent.obj] = heap[parent.obj]
      BY <1>0, <1>4, <1>5, <2>3
    <3>2. QED
      BY <2>3, <3>1, <1>3 DEF Lock, Undisturbed
  <2>4. QED
    BY <2>2, <2>3
<1>8. QED
  BY <1>1, <1>3, <1>5, <1>6, <1>7 DEF Lock, Counted, Stored, NoDebt

\* The collector finds no locked object.
LEMMA CollectLock == FewVars /\ IInv /\ Lock /\ Collect => Lock'
<1> SUFFICES ASSUME FewVars, IInv, Lock, Collect PROVE Lock'
  OBVIOUS
<1>0. /\ heap \in [Objs -> Object]
      /\ \A o \in Objs : heap[o].mgc \in 0 .. 255 /\ heap[o].vars \in 0 .. 14
  BY LockTypes, FewPlaces
<1>1. PICK o \in Objs : IsZero(heap[o].mgc) /\ heap' = [heap EXCEPT ![o].alive = FALSE]
  BY DEF Collect
<1>2. UNCHANGED <<ta, parent, child>> /\ parent.at = "script"
  BY DEF Collect, Script
<1>3. /\ \A p \in Objs : p # o => heap'[p] = heap[p]
      /\ \A p \in Objs : heap'[p].vars = heap[p].vars /\ heap'[p].mgc = heap[p].mgc
  BY <1>0, <1>1 DEF Object
<1>4. Locked'
  <2> SUFFICES ASSUME ta.thread, NEW i \in 1 .. ta.n - 1, i >= child.i, Once(i)
               PROVE  /\ heap'[ta.args[i]].alive
                      /\ heap'[ta.args[i]].mgc = VM_MAGIC + heap'[ta.args[i]].vars + 1
    BY <1>2 DEF Locked, Once
  <2>0. ta.args[i] \in Objs
    BY LockTypes DEF Lock, Stored
  <2>1. /\ heap[ta.args[i]].alive
        /\ heap[ta.args[i]].mgc = VM_MAGIC + heap[ta.args[i]].vars + 1
    BY DEF Lock, Locked
  <2>2. heap[ta.args[i]].vars + 1 \in 1 .. 15
    BY <1>0, <2>0
  <2>3. heap[ta.args[i]].mgc = VM_MAGIC + (heap[ta.args[i]].vars + 1)
    BY <2>1, <2>2, <1>0, <2>0 DEF VM_MAGIC
  <2>4. ta.args[i] # o
    BY <1>1, <2>2, <2>3, FewNotZero
  <2>5. QED
    BY <1>3, <2>0, <2>1, <2>4
<1>5. Counted'
  <2> SUFFICES ASSUME ~ta.thread, NEW p \in Objs
               PROVE  /\ heap'[p].mgc = VM_MAGIC + heap'[p].vars
                      /\ heap'[p].vars > 0 => heap'[p].alive
    BY <1>2 DEF Counted
  <2>1. heap[p].mgc = VM_MAGIC + heap[p].vars /\ (heap[p].vars > 0 => heap[p].alive)
    BY DEF Lock, Counted
  <2>2. CASE heap[p].vars > 0
    <3>1. heap[p].vars \in 1 .. 15
      BY <1>0, <2>2
    <3>2. p # o
      BY <1>1, <2>1, <3>1, FewNotZero
    <3>3. QED
      BY <1>3, <2>1, <3>2
  <2>3. QED
    BY <1>3, <2>1, <2>2
<1>6. QED
  BY <1>2, <1>3, <1>4, <1>5 DEF Lock, Undisturbed, Stored, NoDebt

\* Every step keeps the lock.
LEMMA NextLock == FewVars /\ IInv /\ IInv' /\ Lock /\ [Next]_vars => Lock'
<1> SUFFICES ASSUME FewVars, IInv, IInv', Lock, [Next]_vars PROVE Lock'
  OBVIOUS
<1> USE DEF IInv, TypeOK, Block, Parent, Child
<1>1. CASE va_create_thread
  <2>1. ~ta.thread
    BY <1>1 DEF va_create_thread, Handshake
  <2>2. QED
    BY <1>1, <2>1, QuietLock DEF va_create_thread
<1>2. CASE TouchRead
  <2>1. UNCHANGED <<ta, child, heap>>
    BY <1>2 DEF TouchRead
  <2>2. /\ heap[parent'.obj].vars > 0 /\ parent'.read = heap[parent'.obj].mgc
    BY <1>2 DEF TouchRead
  <2>3. QED
    BY <2>1, <2>2 DEF Lock, Locked, Counted, Undisturbed, Stored, NoDebt, Once
<1>3. CASE TaskClone
  <2>1. UNCHANGED <<ta, vm, heap>>
    BY <1>3 DEF TaskClone
  <2>2. child'.i >= child.i
    <3>1. child'.i \in {child.i, child.i + 1}
      BY <1>3 DEF TaskClone
    <3>2. QED
      BY <3>1, LockTypes
  <2>3. parent'.at = "touch" => parent' = parent
    BY <1>3 DEF TaskClone
  <2>4. QED
    BY <2>1, <2>2, <2>3, QuietLock
<1>4. CASE \/ StopAbort \/ StopCancel \/ StopRequest \/ StopJoin
           \/ TaskInit \/ TaskPushJunk \/ TaskPublish \/ TaskDecode \/ TaskEnd \/ TaskCancelled \/ TaskReturn
           \/ UNCHANGED vars
  <2>1. UNCHANGED heap /\ ta'.thread = ta.thread /\ ta'.args = ta.args /\ ta'.n = ta.n
    BY <1>4 DEF StopAbort, StopCancel, StopRequest, StopJoin, TaskInit, TaskPushJunk, TaskPublish,
                TaskDecode, TaskEnd, TaskCancelled, TaskReturn, vars
  <2>2. child'.i = child.i
    BY <1>4 DEF StopAbort, StopCancel, StopRequest, StopJoin, TaskInit, TaskPushJunk, TaskPublish,
                TaskDecode, TaskEnd, TaskCancelled, TaskReturn, Go, vars
  <2>3. parent'.at = "touch" => parent' = parent
    BY <1>4 DEF StopAbort, StopCancel, StopRequest, StopJoin, TaskInit, TaskPushJunk, TaskPublish,
                TaskDecode, TaskEnd, TaskCancelled, TaskReturn, vars
  <2>4. child.i \in Nat
    BY LockTypes
  <2>5. QED
    BY <2>1, <2>2, <2>3, <2>4, QuietLock
<1>5. QED
  BY <1>1, <1>2, <1>3, <1>4, StartLock, TouchLock, UnrefLock, CollectLock
  DEF Next, ParentStep, ChildStep

\* "lock object until it is accessed by thread": as long as the script keeps no object in more
\* than 14 places, what the thread can still reach among the arguments passed once is not
\* collected, for any number of arguments and of accesses by the script.  With a fifteenth
\* place the counter of four bits cannot count the lock.
THEOREM ArgumentsStayAlive == FewVars => (Spec => []PassedOnceStaysAlive)
<1> SUFFICES ASSUME FewVars PROVE Spec => []PassedOnceStaysAlive
  OBVIOUS
<1>1. IInv /\ Lock => PassedOnceStaysAlive
  BY LockTypes DEF PassedOnceStaysAlive, Lock, Locked, Stored, Once
<1>2. IInv /\ [Next]_vars => IInv'
  BY NextTypeOK, NextHandshake DEF IInv
<1>3. IInv /\ Lock /\ [Next]_vars => IInv' /\ Lock'
  BY <1>2, NextLock
<1>4. QED
  BY InitIInv, InitLock, <1>1, <1>3, PTL DEF Spec
=============================================================================
