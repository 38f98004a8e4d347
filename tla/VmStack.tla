------------------------------ MODULE VmStack ------------------------------
(***************************************************************************)
(* The virtual machine of src/StackLib/StackVM/vm_stack.c: one vm_instance *)
(* with its midgard heap, its vm_stacks array and its reference counting   *)
(* collector.  Every instruction of vm_decode that touches an object is an *)
(* action; after each one the collector walks the chunk list, one          *)
(* iteration of its loop per step.                                         *)
(*                                                                         *)
(* Values are left out: an object is its size, its reference byte, its     *)
(* lock and the array an enumerator points to.  Control flow is left to    *)
(* the program, which is any sequence of instructions that the compiler    *)
(* could have emitted: it pops only what is on the operand stack and names *)
(* only the variables of its frame (the variable "frames").  Packages have *)
(* no try blocks here: an exception ends the run.                          *)
(*                                                                         *)
(* Sizes are bytes, as in the code.                                        *)
(***************************************************************************)
EXTENDS MidgardHeap

CONSTANTS
  MaxStack,            \* VM_MAX_STACK_SIZE
  ObjSize,             \* sizeof(vm_object)
  FuncLen,             \* sizeof(vm_function)
  IfaceLen,            \* sizeof(vm_interface)
  EnumLen,             \* sizeof(va_enumerator)
  VA_OBJECT_MAX_SIZE,  \* longest constant
  Lens,                \* lengths of the values of the program
  ArgLens,             \* lengths of the argument of a callback
  MaxLocals,           \* most variables of a function
  Entries,             \* how the run starts: "class" and/or "callback"
  Ops,                 \* the instructions the program uses
  DiscardsShared,      \* the program may delete an object that is in use
  ModifiesEnumerated   \* the program may change an array it enumerates

ASSUME VmAssumption ==
  /\ MaxStack \in Nat /\ MaxStack > 6   \* room for a callback and its argument
  /\ {ObjSize, FuncLen, IfaceLen, EnumLen, MaxLocals} \subseteq Nat \ {0}
  /\ VA_OBJECT_MAX_SIZE \in Nat
  /\ Lens \subseteq Nat /\ ArgLens \subseteq Nat
  /\ Entries \subseteq {"class", "callback"}
  /\ DiscardsShared \in BOOLEAN /\ ModifiesEnumerated \in BOOLEAN

VARIABLES
  ctx,      \* the vm_instance
  frames,   \* the function calls in progress, and their variables
  gc        \* the iterator of vm_garbage_collect

vars == <<ctx, frames, gc>>

\* What vm_stacks holds below a frame: a saved package or a saved pc.
RetMark == -1

\* A stack slot, and the reference byte of a vm_object: magic and counter.
VM_MAGIC == 128
Count(o) == o.mgc % 16

NewObject == [mgc |-> VM_MAGIC + 1, lock |-> 0, holds |-> NULL]
Zeroed    == [mgc |-> 0, lock |-> 0, holds |-> NULL]

\* Variant of IsZero: the last reference counts as none.
IsZero_or_one(mgc) == mgc >= 128 /\ mgc % 16 <= 1

\* (mgc_refcount & VM_MAGIC_MASK_ZERO) == VM_MAGIC
IsZero(mgc) == mgc >= 128 /\ mgc % 16 = 0

Bodies(ch) == {Body(ch[i]) : i \in 1 .. Len(ch) - 1}

LenOf(c, o) ==
  LET i == CHOOSE i \in 1 .. Len(c.chain) : Body(c.chain[i]) = o
  IN  c.chain[i].size - ObjSize

-----------------------------------------------------------------------------
(***************************************************************************)
(* Objects.  These operators take a vm_instance c and return the next one; *)
(* the field obj is the C variable of that name.                           *)
(***************************************************************************)

\* A C pointer that was NULL or freed is dereferenced: nothing is modelled
\* behind a NULL, and a write to freed memory changes no object.
Inc(m, o) == IF o \in DOMAIN m THEN [m EXCEPT ![o].mgc = (@ + 1) % 256] ELSE m
Dec(m, o) == IF o \in DOMAIN m THEN [m EXCEPT ![o].mgc = (@ - 1) % 256] ELSE m

\* A failed m_alloc is never tested: its result is written to at once.
Allocated(c, r) ==
  [c EXCEPT !.chain = r.chain,
            !.obj = r.ptr,
            !.state = IF r.ptr = NULL THEN "CRASH" ELSE @]

Alloc(c, size) == Allocated(c, m_alloc(c.chain, size))

Initialised(m, o) == [p \in DOMAIN m \cup {o} |-> IF p = o THEN NewObject ELSE m[p]]

InitObject(c) ==
  IF c.obj = NULL THEN c ELSE [c EXCEPT !.mem = Initialised(@, c.obj)]

vm_create_object(c, len) == InitObject(Alloc(c, ObjSize + len))

\* vm_release_object frees whatever the counter says, without the callback.
Freed(c, ch) == [c EXCEPT !.chain = ch, !.mem = Restrict(@, DOMAIN @ \cap Bodies(ch))]

vm_release_object(c, o) == Freed(c, IF o = NULL THEN c.chain ELSE m_free(c.chain, o))

\* A result r was computed with the help of the buffer that c.obj points to.
ReleaseBuffer(r, c) ==
  IF c.obj = NULL \/ r.obj = NULL THEN [r EXCEPT !.state = "CRASH"]
  ELSE vm_release_object(r, c.obj)

vm_object_ref(m, o) ==
  IF Count(m[o]) = 15 THEN m
  ELSE [m EXCEPT ![o].mgc = @ + 1, ![o].lock = (@ + 1) % 256]

vm_object_unref(m, o) ==
  IF o \notin DOMAIN m THEN m
  ELSE [m EXCEPT ![o].mgc = IF @ % 16 = 0 THEN @ ELSE @ - 1,
                 ![o].lock = IF @ = 0 THEN @ ELSE @ - 1]

vm_update_mutator(st, old, new) ==
  [s \in DOMAIN st |-> IF st[s] = old THEN new ELSE st[s]]

Uncount(c) == [c EXCEPT !.mem = Dec(@, c.obj)]

\* Variant of ReadConstant: the buffer is not released.
ReadConstant_keeps_buffer(c, len) == Uncount(vm_create_object(c, len))

\* The constant is read into a scratch buffer first, which is released after
\* the object was created behind it.  The counter of the object is 0.
ReadConstant(c, len) == ReleaseBuffer(Uncount(vm_create_object(c, len)), c)

vm_load_constant(c, len) == ReadConstant(Alloc(c, len + 1), len)

\* Longer constants are not loaded (ConstantTooLong).
Loadable == {len \in Lens : len <= VA_OBJECT_MAX_SIZE}

\* A buffer that is allocated and released again.
Scratch(c, size) == [ReleaseBuffer(Alloc(c, size), Alloc(c, size)) EXCEPT !.obj = c.obj]

-----------------------------------------------------------------------------
(***************************************************************************)
(* The two stacks in vm_stacks: operands grow down from the top, frames    *)
(* grow up from the bottom.                                                *)
(***************************************************************************)
vm_push_stack(c, o) == [c EXCEPT !.st[c.sp] = o, !.sp = @ - 1]
vm_push_base(c, o)  == [c EXCEPT !.st[c.bp] = o, !.bp = @ + 1]

vm_push_stack_arc(c, o) == [vm_push_stack(c, o) EXCEPT !.mem = Inc(@, o)]

\* The object that was just created becomes the top operand.
PushObj(c) == vm_push_stack(c, c.obj)
PushCounted(c) == vm_push_stack_arc(c, c.obj)

vm_pop_stack_arc(c) ==
  [c EXCEPT !.sp = @ + 1, !.st[c.sp + 1] = NULL,
            !.mem = Dec(@, c.st[c.sp + 1]), !.obj = c.st[c.sp + 1]]

PopN(c, k) ==
  LET popped[j \in 0 .. k] == IF j = 0 THEN c ELSE vm_pop_stack_arc(popped[j - 1])
  IN  popped[k]

\* Variant of PushReturn: the package is not saved.
PushReturn_pc_only(c) == vm_push_base(c, RetMark)

\* INS_CALL and vm_exec_function save the package and the pc.
PushReturn(c) == vm_push_base(vm_push_base(c, RetMark), RetMark)

\* The operands, the top one first: slots sp + 1 .. MaxStack - 1.
Depth(c) == MaxStack - 1 - c.sp

\* vm_get_argument(k) of an API that was called with n arguments.
Argument(c, n, k) == c.st[c.sp + n - k]

\* Variant of vmd_store_variable: the variable's reference is not counted.
vmd_store_variable_uncounted(c, i) ==
  [c EXCEPT !.mem = Dec(@, c.st[c.bp - i]), !.st[c.bp - i] = c.obj]

vmd_store_variable(c, i) ==
  IF c.st[c.bp - i] = c.obj THEN c
  ELSE [c EXCEPT !.mem = Inc(Dec(@, c.st[c.bp - i]), c.obj),
                 !.st[c.bp - i] = c.obj]

-----------------------------------------------------------------------------
(***************************************************************************)
(* The run.  vm_init_exec leaves the root as the terminal of an otherwise  *)
(* empty heap.  vm_exec_callback (and a new thread) does not call it: the  *)
(* root stays an empty chunk, the first argument comes right behind it,    *)
(* and there is a second pair of return marks.                             *)
(***************************************************************************)
Blank(chain, marks) ==
  [ chain |-> chain,
    mem   |-> << >>,
    st    |-> [s \in 0 .. MaxStack - 1 |-> IF s < marks THEN RetMark ELSE NULL],
    sp    |-> MaxStack - 1,
    bp    |-> marks,
    obj   |-> NULL,
    state |-> "RUN",
    ends  |-> FALSE ]         \* pc = 0xFFFF

vm_init_exec == Blank(<<[at |-> 0, size |-> 0]>>, 2)

vm_exec_callback(len) ==
  [PushCounted(vm_create_object(Blank(m_init_alloc(0), 4), len)) EXCEPT !.obj = NULL]

\* A frame: the slot of its first variable, the number of its variables (0
\* before SCTX), and whether RCTX has removed them.
Entered(base) == [base |-> base, locals |-> 0, left |-> FALSE]

Init ==
  /\ \/ "class" \in Entries /\ ctx = vm_init_exec
     \/ "callback" \in Entries /\ \E len \in ArgLens : ctx = vm_exec_callback(len)
  /\ frames = <<Entered(ctx.bp)>>
  /\ gc = [at |-> 0, released |-> FALSE]

Top == frames[Len(frames)]
Locals == 1 .. Top.locals

\* What the length field of the object at o may hold.  In memory that was freed
\* it may be anything; what is longer than the heap fails as HeapSize does.
LensAt(o) == IF o \in DOMAIN ctx.mem THEN {LenOf(ctx, o)} ELSE 0 .. HeapSize

Fetch(op) == op \in Ops /\ ctx.state = "RUN" /\ gc.at = 0 /\ frames # << >>

\* The instruction is one of a function body, and k operands are there.
InBody(op, k) == Fetch(op) /\ Top.locals > 0 /\ ~Top.left /\ Depth(ctx) >= k

\* Variant of EndOfInstruction: no overflow test.
EndOfInstruction_unchecked(c) ==
  IF c.state = "CRASH"
  THEN ctx' = [ctx EXCEPT !.state = "CRASH"] /\ UNCHANGED gc
  ELSE ctx' = [c EXCEPT !.obj = NULL] /\ gc' = [at |-> 1, released |-> FALSE]

\* The rest of the loop of vm_decode: the overflow test, then the collector.
\* A crash ends the process.
EndOfInstruction(c) ==
  IF c.state = "CRASH"
  THEN ctx' = [ctx EXCEPT !.state = "CRASH"] /\ UNCHANGED gc
  ELSE /\ ctx' = [c EXCEPT !.obj = NULL,
                           !.state = IF c.bp >= c.sp THEN "EXCEPTION" ELSE @]
       /\ gc' = [at |-> 1, released |-> FALSE]

Execute(c) == EndOfInstruction(c) /\ UNCHANGED frames

Raise(c) == [c EXCEPT !.state = IF @ = "RUN" THEN "EXCEPTION" ELSE @]

-----------------------------------------------------------------------------
(***************************************************************************)
(* Instructions on variables and operands.                                 *)
(***************************************************************************)
\* Variant of OBJPUSH: the operand's reference is not counted.
OBJPUSH_uncounted ==
  /\ InBody("OBJPUSH", 0)
  /\ \E i \in Locals : Execute(vm_push_stack(ctx, ctx.st[ctx.bp - i]))

OBJPUSH ==
  /\ InBody("OBJPUSH", 0)
  /\ \E i \in Locals : Execute(vm_push_stack_arc(ctx, ctx.st[ctx.bp - i]))

OBJSTORE ==
  /\ InBody("OBJSTORE", 1)
  /\ \E i \in Locals :
       Execute(vmd_store_variable([ctx EXCEPT !.obj = ctx.st[ctx.sp + 1]], i))

OBJPOP ==
  /\ InBody("OBJPOP", 1)
  /\ \E i \in Locals : Execute(vmd_store_variable(vm_pop_stack_arc(ctx), i))

OBJDUP ==
  /\ InBody("OBJDUP", 1)
  /\ Execute(vm_push_stack_arc(ctx, ctx.st[ctx.sp + 1]))

IsOnlyReference(o) == o \in DOMAIN ctx.mem /\ Count(ctx.mem[o]) = 1

\* The object is freed whoever else refers to it.
OBJDEL ==
  /\ InBody("OBJDEL", 1)
  /\ DiscardsShared \/ IsOnlyReference(ctx.st[ctx.sp + 1])
  /\ Execute(vm_release_object(vm_pop_stack_arc(ctx), ctx.st[ctx.sp + 1]))

\* JFALSE pops the condition; SWITCH pops the value, and loads and releases
\* the jump table and the constants of the cases it compares with.
JFALSE == InBody("JFALSE", 1) /\ Execute(vm_pop_stack_arc(ctx))

ReleaseObj(c) == vm_release_object(c, c.obj)

SWITCH ==
  /\ InBody("SWITCH", 1)
  /\ \E len \in Loadable : \E table \in {vm_load_constant(vm_pop_stack_arc(ctx), len)} :
       \E c \in {table, ReleaseObj(vm_load_constant(table, len))} :
         Execute(vm_release_object(c, table.obj))

\* A jump moves nothing, but the collector runs after it too.
JMP == InBody("JMP", 0) /\ Execute(ctx)

OBJCONST ==
  /\ InBody("OBJCONST", 0)
  /\ \E len \in Loadable : Execute(PushCounted(vm_load_constant(ctx, len)))

\* A crash inside the instruction.
Crash == Execute([ctx EXCEPT !.state = "CRASH"])

\* A constant that is too long raises an exception, and is VM_NULL_OBJECT, a
\* string literal.  OBJCONST counts a reference in it, which is a write to
\* read-only memory.  The others take it for a jump table or a name; the length
\* they read lies behind the end of the literal, so they crash or come to their
\* end with the exception, and to release it changes nothing on the heap.
ConstantTooLong ==
  /\ Loadable # Lens
  /\ \/ InBody("OBJCONST", 0) /\ Crash
     \/ InBody("OBJNEW", 0) /\ (Crash \/ Execute([Raise(ctx) EXCEPT !.ends = TRUE]))
     \/ InBody("SWITCH", 1) /\ (Crash \/ Execute(Raise(vm_pop_stack_arc(ctx))))
     \/ /\ InBody("EXTCALL", 1)
        /\ Crash \/ Execute([Raise(vm_pop_stack_arc(ctx)) EXCEPT !.ends = TRUE])

PushNew(c, len) == PushObj(vm_create_object(c, len))

F2O == InBody("F2O", 0) /\ Execute(PushNew(ctx, FuncLen))

\* How a result is computed.  Texts need no memory; numbers are converted in a
\* buffer of 12 bytes that is still there when the result is created; if only
\* one operand is typed the other one is cast to an object of its own, which
\* is released before.
WithBuffer(c, len) == ReleaseBuffer(PushNew(c, len), c)

Compute(c, len, how) ==
  CASE how = "text"    -> PushNew(c, len)
    [] how = "numbers" -> WithBuffer(Alloc(c, 12), len)
    [] how = "cast"    -> PushNew(Scratch(c, ObjSize + 8), len)

\* The arithmetic and logical operations pop two operands, NOT pops one.
vm_operation_object ==
  \E k \in 1 .. 2, len \in Lens, how \in {"text", "numbers", "cast"} :
    InBody("OPERATE", k) /\ Execute(Compute(PopN(ctx, k), len, how))

\* The lengths that the text of a number at o may have (vm_is_numeric_s).
NumberLens(o) == LensAt(o) \cap (Lens \cup ArgLens) \cap 1 .. 64

\* A text of len characters and the 0 behind it do not fit into the 12 bytes of
\* the buffer at c.obj: they reach the next header, the terminal's included.
Overruns(c, len) ==
  c.obj # NULL /\ \E i \in 1 .. Len(c.chain) : c.chain[i].at \in c.obj + 12 .. c.obj + len

\* The operands are copied to that buffer whatever their length.  If all that is
\* hit is the size of a terminal that the result's own chunk replaces at once,
\* the operation goes on as above; otherwise a size or a next pointer of the
\* list is overwritten with digits, and nothing is modelled behind that.
NumberOverruns ==
  /\ InBody("OPERATE", 2)
  /\ \E m \in NumberLens(ctx.st[ctx.sp + 2]), n \in NumberLens(ctx.st[ctx.sp + 1]) :
       \E len \in {m, n} : Overruns(Alloc(PopN(ctx, 2), 12), len)
  /\ Crash

vm_compare_object ==
  \E len \in Lens, how \in {"text", "numbers", "cast"} :
    InBody("OPERATE", 2) /\ Execute(Compute(PopN(ctx, 2), len, how))

\* A division by zero leaves the dividend as the result, an impossible cast
\* continues with VM_NULL_OBJECT; both raise an exception.
OperationFails ==
  \E len \in Lens, how \in {"text", "numbers"} :
    /\ InBody("OPERATE", 2)
    /\ Execute(Raise(Compute(PopN(ctx, 2), len, how)))

OBJSZ == \E len \in Lens : InBody("OPERATE", 1) /\ Execute(PushNew(PopN(ctx, 1), len))

\* Offset, length and text are popped; two buffers come and go.
TwoBuffers(c, size) == ReleaseObj(ReleaseBuffer(Alloc(c, size), c))

OBJSUB ==
  /\ InBody("OBJSUB", 3)
  /\ \E len \in Lens,
        m \in LensAt(ctx.st[ctx.sp + 2]), n \in LensAt(ctx.st[ctx.sp + 1]) :
       Execute(PushNew(TwoBuffers(Alloc(PopN(ctx, 3), m + 1), n + 1), len))

-----------------------------------------------------------------------------
(***************************************************************************)
(* Functions and classes.                                                  *)
(***************************************************************************)
PushVariable(c) == vm_push_base(c, c.obj)

\* One pass of the loop of INS_SCTX, and n of them.
StoreOne(c) == PushVariable(vm_create_object(c, 0))

StoreContext(c, n) ==
  LET stored[j \in 0 .. n] == IF j = 0 THEN c ELSE StoreOne(stored[j - 1])
  IN  stored[n]

SCTX ==
  /\ Fetch("SCTX") /\ Top.locals = 0
  /\ \E n \in 1 .. MaxLocals :
       /\ EndOfInstruction(StoreContext(ctx, n))
       /\ frames' = [frames EXCEPT ![Len(frames)].locals = n]

\* Each variable is popped and an empty object is left in its slot.
LeaveEmpty(c) == [c EXCEPT !.mem = Dec(@, c.st[c.bp]), !.st[c.bp] = c.obj]

\* One pass of the loop of INS_RCTX, and n of them.
RestoreOne(c) == LeaveEmpty(vm_create_object([c EXCEPT !.bp = @ - 1], 0))

RestoreContext(c, n) ==
  LET restored[j \in 0 .. n] == IF j = 0 THEN c ELSE RestoreOne(restored[j - 1])
  IN  restored[n]

RCTX ==
  /\ InBody("SCTX", 0)
  /\ EndOfInstruction(RestoreContext(ctx, Top.locals))
  /\ frames' = [frames EXCEPT ![Len(frames)].left = TRUE]

\* The return from the first function sets pc to 0xFFFF.
RET ==
  /\ Fetch("SCTX") /\ Top.left
  /\ EndOfInstruction([ctx EXCEPT !.bp = @ - 2, !.ends = Len(frames) = 1])
  /\ frames' = SubSeq(frames, 1, Len(frames) - 1)

\* The variables of the function come behind the two return marks.
EnterFrame(c) == EndOfInstruction(c) /\ frames' = Append(frames, Entered(ctx.bp + 2))

CALL == InBody("CALL", 0) /\ EnterFrame(PushReturn(ctx))

\* The arguments of a native method are its n top operands.
UnrefArguments(m, c, n) ==
  CASE n = 0 -> m
    [] n = 1 -> vm_object_unref(m, c.st[c.sp + 1])
    [] n = 2 -> vm_object_unref(vm_object_unref(m, c.st[c.sp + 1]), c.st[c.sp + 2])

\* An argument may be cast to an object that is garbage afterwards; they are
\* popped uncounted, and unreferenced once the result exists.
CastArgument(c, casts) == IF casts THEN Uncount(vm_create_object(c, 8)) ELSE c
Dropped(c, n) == [c EXCEPT !.sp = @ + n]

vm_interface_exec_sta(c, n, len, casts) ==
  [vm_create_object(Dropped(CastArgument(c, casts), n), len)
     EXCEPT !.mem = UnrefArguments(@, c, n)]

\* vm_decode and the operators push the result.
PushResult(c, n, len, casts) == PushObj(vm_interface_exec_sta(c, n, len, casts))

\* Without such a method the arguments stay where they are.
vm_interface_exec(c) ==
  \/ \E n \in 0 .. 1, len \in Lens, casts \in BOOLEAN :
       /\ n <= Depth(c) /\ (casts => n = 1)
       /\ Execute(PushResult(c, n, len, casts))
  \/ Execute(PushNew(c, 0))

MayBeInstance(o) == IfaceLen \in LensAt(o)
MayBeOther(o) == LensAt(o) # {IfaceLen}

\* An operator of a native instance: the right operand is pushed again as its
\* argument.
NativeOperator ==
  /\ InBody("OPERATE", 2) /\ MayBeInstance(ctx.st[ctx.sp + 2])
  /\ \E c \in {vm_push_stack_arc(PopN(ctx, 2), ctx.st[ctx.sp + 1])} :
         \/ \E len \in Lens, casts \in BOOLEAN :
              Execute(PushResult(c, 1, len, casts))
         \/ Execute(PushNew(c, 0))

\* The instance is popped and the method's name loaded.  The method is native
\* (an interface), is found (its name goes through a buffer), or is unknown:
\* then pc = 0xFFFF ends the run without an exception.
EXTCALL ==
  /\ InBody("EXTCALL", 1)
  /\ \E len \in Loadable :
       \E c \in {vm_load_constant(vm_pop_stack_arc(ctx), len)} :
         \/ /\ MayBeInstance(ctx.st[ctx.sp + 1])
            /\ \/ vm_interface_exec(c)
               \/ EnterFrame(PushReturn(Scratch(c, len + 1)))
               \/ Execute([Scratch(c, len + 1) EXCEPT !.ends = TRUE])
         \/ /\ MayBeOther(ctx.st[ctx.sp + 1])
            /\ Execute([Raise(c) EXCEPT !.ends = TRUE])

\* The class name is loaded and copied to a buffer, the instance created, and
\* its counter incremented once more than for the stack.
vm_load_class(c) == ReleaseBuffer(vm_create_object(c, IfaceLen), c)

OBJNEW ==
  /\ InBody("OBJNEW", 0)
  /\ \E len \in Loadable :
       \E name \in {vm_load_constant(ctx, len)} :
         \/ Execute(vm_release_object(PushCounted(vm_load_class(Alloc(name, len + 1))),
                                      name.obj))
         \/ Execute([Raise(Scratch(name, len + 1)) EXCEPT !.ends = TRUE])

-----------------------------------------------------------------------------
(***************************************************************************)
(* System calls.  vm_syscall creates an empty return value before it calls *)
(* the API with n arguments, and the API may replace it; vm_decode pops    *)
(* the arguments and pushes the return value.                              *)
(***************************************************************************)
vm_syscall(c) == vm_create_object(c, 0)

Return(c, n, o) == vm_push_stack(PopN(c, n), o)
ReturnObj(c, n) == Return(c, n, c.obj)

\* The API keeps the empty value, or returns a new one.
Syscall ==
  \E n \in 0 .. 2 :
    /\ InBody("SYSCALL", n)
    /\ \/ Execute(ReturnObj(vm_syscall(ctx), n))
       \/ \E len \in Lens : Execute(ReturnObj(vm_create_object(vm_syscall(ctx), len), n))

\* The API raises an exception, or there is none of that number.
SyscallFails ==
  \E n \in 0 .. 2 :
    /\ InBody("SYSCALL", n)
    /\ \E c \in {ctx, vm_syscall(ctx)} :
         Execute(Raise(PopN(c, n)))

\* va_set_var returns its first argument and counts the new reference.
IncCounter(mgc) == (mgc - (mgc % 16)) + ((mgc + 1) % 16)

SetVar ==
  /\ InBody("SETVAR", 3)
  /\ \E o \in {Argument(ctx, 3, 0)} :
       Execute(Return([vm_syscall(ctx) EXCEPT !.mem[o].mgc = IncCounter(@)], 3, o))

\* Objects that can be arrays: not empty, not an enumerator.
IsArray(c, o) == o \in DOMAIN c.mem /\ c.mem[o].holds = NULL /\ LenOf(c, o) > 0

\* va_arg_first: an enumerator that points to its array and references it.
Holding(c, o) ==
  IF c.obj = NULL THEN c ELSE [c EXCEPT !.mem[c.obj].holds = o]

ArgFirst ==
  /\ InBody("FIRST", 1)
  /\ \E o \in {Argument(ctx, 1, 0)} :
       /\ IsArray(ctx, o)
       /\ Execute(ReturnObj(Holding(vm_create_object(
                    [vm_syscall(ctx) EXCEPT !.mem = vm_object_ref(@, o)], EnumLen), o), 1))

Holders(c, o) == {e \in DOMAIN c.mem : c.mem[e].holds = o}

\* Every stack slot that refers to the array at o is redirected to the object
\* that was just created; the counter of o is cleared, and o is released.
Uncounted(c, o) ==
  IF o \in DOMAIN c.mem THEN [c EXCEPT !.mem[o].mgc = @ - (@ % 16)] ELSE c

Redirect(c, o) ==
  vm_release_object(Uncounted([c EXCEPT !.st = vm_update_mutator(@, o, c.obj)], o), o)

Referenced(c, refs) ==
  IF c.obj = NULL THEN c ELSE [c EXCEPT !.mem[c.obj].mgc = VM_MAGIC + (refs % 16)]

\* Variant of ReplaceArray: the references of the array are not carried over.
ReplaceArray_fresh_count(c, o, len, refs) == Redirect(vm_create_object(c, len), o)

\* The array at o is replaced by a new one of length len with the given number
\* of references.
ReplaceArray(c, o, len, refs) ==
  Redirect(Referenced(vm_create_object(c, len), refs), o)

\* Arrays that the program may change.
MayChange(o) ==
  IsArray(ctx, o) /\ (ModifiesEnumerated \/ Holders(ctx, o) = {})

\* va_arg_add (n = 2 arguments) and va_arg_set (3) return the new array.
ArgAdd ==
  \E n \in 2 .. 3, len \in Lens \ {0} :
    /\ InBody("ARGADD", n)
    /\ \E o \in {Argument(ctx, n, 0)} :
         /\ MayChange(o)
         /\ Execute(ReturnObj(ReplaceArray(vm_syscall(ctx), o, len,
                                           Count(ctx.mem[o]) + 1), n))

\* va_arg_pop and va_arg_dequeue return the element they take out.
ArgPop ==
  /\ InBody("ARGADD", 1)
  /\ \E len \in Lens \ {0}, o \in {Argument(ctx, 1, 0)} :
       /\ MayChange(o)
       /\ \E elem \in {vm_create_object(vm_syscall(ctx), n) : n \in Lens} :
            Execute(Return(ReplaceArray(elem, o, len, Count(ctx.mem[o])), 1, elem.obj))

\* The array APIs on a native instance, with n arguments, push k of them again
\* and call its method: add and remove the second argument, set the third and
\* the second (only the second for an empty value); pop, dequeue, first and next
\* push none.  Without such a method they stay on the stack, where vm_decode pops
\* them in place of the arguments.
PushAgain(c, n, k) ==
  CASE k = 0 -> c
    [] k = 1 -> vm_push_stack_arc(c, Argument(c, n, 1))
    [] k = 2 -> vm_push_stack_arc(vm_push_stack_arc(c, Argument(c, n, 2)), Argument(c, n, 1))

ArgNative ==
  \E n \in 1 .. 3, k \in 0 .. 2 :
    /\ k = n - 1 \/ (n = 3 /\ k = 1)
    /\ InBody("NATIVE", n) /\ MayBeInstance(Argument(ctx, n, 0))
    /\ \E c \in {PushAgain(vm_syscall(ctx), n, k)} :
         \/ \E len \in Lens, casts \in BOOLEAN :
              /\ casts => k > 0
              /\ Execute(ReturnObj(vm_interface_exec_sta(c, k, len, casts), n))
         \/ Execute(ReturnObj(vm_create_object(c, 0), n))

\* va_sys_exec: the function object leaves the stack, the arguments move up
\* over it, and the function is entered without popping or pushing.
TakeFirstArgument(c, n) ==
  [c EXCEPT !.mem = Dec(@, Argument(c, n, 0)),
            !.st  = [s \in DOMAIN @ |->
                       IF s \in c.sp + 2 .. c.sp + n THEN c.st[s - 1] ELSE c.st[s]],
            !.sp  = @ + 1]

SysExec ==
  \E n \in 1 .. 2 :
    InBody("EXEC", n) /\ EnterFrame(PushReturn(TakeFirstArgument(vm_syscall(ctx), n)))

\* The function expects another number of arguments: it has lost a reference
\* already, and is popped with the others.
SysExecMismatch ==
  \E n \in 1 .. 2 :
    /\ InBody("EXEC", n)
    /\ Execute(Raise(PopN([vm_syscall(ctx) EXCEPT !.mem = Dec(@, Argument(ctx, n, 0))], n)))

-----------------------------------------------------------------------------
(***************************************************************************)
(* vm_garbage_collect                                                      *)
(***************************************************************************)

\* The reference byte that the collector reads at chunk i.  The body of an
\* empty root is the header of the chunk that follows: its first byte is the
\* low byte of that chunk's size, or 0 when there is no header right there.
MgcAt(c, i) ==
  IF Body(c.chain[i]) \in DOMAIN c.mem THEN c.mem[Body(c.chain[i])].mgc
  ELSE IF c.chain[i + 1].at = EndOf(c.chain[i]) THEN c.chain[i + 1].size % 256
  ELSE 0

\* The object at old is moved to the same place of the chain ch.
MoveObject(c, ch, old, new) ==
  [c EXCEPT !.chain = ch,
            !.mem = [o \in (DOMAIN @ \ {old}) \cup {new} |->
                       IF o = new THEN c.mem[old] ELSE c.mem[o]],
            !.st = vm_update_mutator(@, old, new)]

ShiftTo(c, ch, i) == MoveObject(c, ch, Body(c.chain[i + 1]), Body(ch[i + 1]))

\* The successor of chunk i is moved if it is garbage that nobody locked.
IsLoose(o) == IsZero(o.mgc) /\ o.lock = 0

ShiftNext(c, i) ==
  IF IsLoose(c.mem[Body(c.chain[i + 1])])
  THEN ShiftTo(c, m_shift_next_chunk(c.chain, i), i) ELSE c

\* The release callback of an enumerator drops the reference to its array;
\* then the body is cleared and the chunk freed (the root cannot be).
Collect(c, o) ==
  vm_release_object(
    [c EXCEPT !.mem = [vm_object_unref(@, c.mem[o].holds) EXCEPT ![o] = Zeroed]], o)

\* Variants of Advance: the chunk behind a freed one is skipped; the iterator
\* is not moved.
Advance_skips(old, new, i) ==
  IF Len(new.chain) < Len(old.chain) /\ i + 1 = Len(new.chain) THEN i ELSE i + 1
Advance_stays(old, new, i) == i

\* The iterator moves to the successor, which has taken the place of chunk i
\* if that one was unlinked.
Advance(old, new, i) == IF Len(new.chain) < Len(old.chain) THEN i ELSE i + 1

\* The walk is over: vm_decode stops if pc is 0xFFFF.
GcEnd ==
  /\ ctx' = [ctx EXCEPT !.state = IF ctx.ends THEN "INIT" ELSE @]
  /\ gc' = [gc EXCEPT !.at = 0]

\* The chunk is kept, or it is garbage; or it is the empty root, behind which
\* the next header was taken for an object: the "release" field of that is the
\* length of the first object, and is called.
GcVisit(i, o) ==
  \/ /\ ~IsZero(MgcAt(ctx, i))
     /\ ctx' = ShiftNext(ctx, i)
     /\ gc' = [gc EXCEPT !.at = Advance(ctx, ctx', i)]
  \/ /\ IsZero(MgcAt(ctx, i)) /\ o \in DOMAIN ctx.mem
     /\ ctx' = Collect(ShiftNext(ctx, i), o)
     /\ gc' = [at |-> Advance(ctx, ctx', i),
               released |-> gc.released \/ ctx.mem[o].holds # NULL]
  \/ /\ IsZero(MgcAt(ctx, i)) /\ o \notin DOMAIN ctx.mem
     /\ ctx' = [ctx EXCEPT !.state = "CRASH"]
     /\ gc' = [gc EXCEPT !.at = 0]

GcStep ==
  /\ gc.at # 0
  /\ UNCHANGED frames
  /\ IF m_next_chunk(ctx.chain, gc.at) = NULL THEN GcEnd
     ELSE GcVisit(gc.at, Body(ctx.chain[gc.at]))

-----------------------------------------------------------------------------
Instruction ==
  \/ OBJPUSH \/ OBJSTORE \/ OBJPOP \/ OBJDUP \/ OBJDEL
  \/ JFALSE \/ SWITCH \/ JMP
  \/ OBJCONST \/ ConstantTooLong \/ F2O \/ OBJSUB \/ OBJSZ
  \/ vm_operation_object \/ vm_compare_object \/ OperationFails \/ NativeOperator
  \/ NumberOverruns
  \/ SCTX \/ RCTX \/ RET \/ CALL \/ EXTCALL \/ OBJNEW
  \/ Syscall \/ SyscallFails \/ SetVar \/ ArgFirst \/ ArgAdd \/ ArgPop
  \/ ArgNative \/ SysExec \/ SysExecMismatch

Next == Instruction \/ GcStep

Spec == Init /\ [][Next]_vars

\* The collector is a loop of one thread: it runs on.
FairSpec == Spec /\ WF_vars(GcStep)

-----------------------------------------------------------------------------
(***************************************************************************)
(* Properties                                                              *)
(***************************************************************************)
States == {"RUN", "INIT", "EXCEPTION", "CRASH"}

\* The most slots that one instruction puts on the frames: the variables of a
\* function, or a package and a pc.
MostPushed == IF MaxLocals > 2 THEN MaxLocals ELSE 2

\* The operands stay inside vm_stacks and the chunks inside the heap; the frames
\* leave vm_stacks by no more than a function has variables above two, because
\* the test for it comes after SCTX has written them; the three ways to leave the
\* loop of vm_decode are its only ends.
TypeOK ==
  /\ ctx.chain \in Seq(Chunk)
  /\ DOMAIN ctx.mem \subseteq 1 .. HeapSize
  /\ \A o \in DOMAIN ctx.mem : /\ ctx.mem[o].mgc \in 0 .. 255
                               /\ ctx.mem[o].lock \in 0 .. 255
                               /\ ctx.mem[o].holds \in 0 .. HeapSize
  /\ ctx.st \in [0 .. MaxStack - 1 -> {RetMark} \cup 0 .. HeapSize]
  /\ ctx.bp \in 0 .. MaxStack - 2 + MostPushed /\ ctx.sp \in -1 .. MaxStack - 1
  /\ ctx.state \in States /\ ctx.obj = NULL /\ ctx.ends \in BOOLEAN
  /\ frames \in Seq([base : 2 .. MaxStack, locals : 0 .. MaxLocals, left : BOOLEAN])
  /\ gc \in [at : 0 .. Len(ctx.chain), released : BOOLEAN]

\* The slots that the program can still reach.
LiveSlots == {s \in DOMAIN ctx.st : s < ctx.bp \/ s > ctx.sp}

\* Between instructions, every chunk behind the root is an object: the scratch
\* buffers of constants, numbers, texts and class names are all released, on
\* every path, and neither a release nor a move breaks the chunk list.  This is
\* up to the crash, if there is one: a failed allocation that is written to, or
\* the text of a number that overruns its buffer.
HeapAgrees ==
  ctx.state # "CRASH" =>
    /\ Ordered(ctx.chain) /\ NonEmpty(ctx.chain)
    /\ DOMAIN ctx.mem =
         {Body(ctx.chain[i]) : i \in {j \in 1 .. Len(ctx.chain) - 1 :
                                        ctx.chain[j].size > 0}}

\* While the program runs, whatever it can reach is an object on the heap: no
\* variable, operand or enumerator refers to memory that the collector, a
\* delete or a replaced array has given back.
NoDangling ==
  ctx.state = "RUN" =>
    /\ \A s \in LiveSlots : ctx.st[s] \in DOMAIN ctx.mem \cup {RetMark}
    /\ \A o \in DOMAIN ctx.mem : ctx.mem[o].holds \in DOMAIN ctx.mem \cup {NULL}

\* The slots and enumerators that refer to object o.
References(o) ==
  Cardinality({s \in LiveSlots : ctx.st[s] = o}) + Cardinality(Holders(ctx, o))

\* The counter of an object never falls below the number of references to it:
\* not by an operand that is popped twice, a native method that gives back what
\* it took, or a variable that is stored over.  (The counter has four bits: it
\* takes 16 references to one object to make this false.)
CountCovers ==
  ctx.state = "RUN" =>
    \A o \in DOMAIN ctx.mem : References(o) <= Count(ctx.mem[o])

\* The first slot behind the variables of frame k.
EndOfFrame(k) == frames[k].base + (IF frames[k].left THEN 0 ELSE frames[k].locals)

\* Each frame ends at its two return marks: RET finds a package and a pc, not
\* an object, whatever the calls and system calls in between.
FramesAligned ==
  ctx.state = "RUN" =>
    \A k \in 1 .. Len(frames) :
      /\ frames[k].base >= 2
      /\ ctx.st[frames[k].base - 1] = RetMark /\ ctx.st[frames[k].base - 2] = RetMark
      /\ \A s \in frames[k].base .. EndOfFrame(k) - 1 : ctx.st[s] # RetMark
      /\ EndOfFrame(k) = IF k = Len(frames) THEN ctx.bp ELSE frames[k + 1].base - 2

\* A step of the collector changes no slot the program can reach, and neither
\* frees nor moves what one refers to.
GcSparesReachable ==
  [][ gc.at # 0 /\ ctx.state = "RUN" =>
        \A s \in LiveSlots :
          /\ ctx'.st[s] = ctx.st[s]
          /\ ctx.st[s] # RetMark =>
               /\ ctx.st[s] \in DOMAIN ctx'.mem
               /\ ctx'.mem[ctx.st[s]].holds = ctx.mem[ctx.st[s]].holds ]_vars

\* One walk of the collector is enough: when it ends, garbage is left only in
\* the last chunk, which the walk never frees, unless the walk itself dropped
\* the last reference to an array.
GarbageGone ==
  ctx.state = "RUN" /\ gc.at = 0 /\ ~gc.released =>
    \A i \in 1 .. Len(ctx.chain) - 2 :
      ~(Body(ctx.chain[i]) \in DOMAIN ctx.mem /\ IsZero(MgcAt(ctx, i)))

\* The collector always comes to the end of the chunk list, although it frees
\* and moves chunks under its own iterator.
CollectorTerminates == gc.at # 0 ~> gc.at = 0

-----------------------------------------------------------------------------
(***************************************************************************)
(* What the comments of the code say, and the code does not do.            *)
(***************************************************************************)

\* "check vm_object reference counter == 0" (vm_stack.c:1405): what the
\* collector is about to release is an object.
CandidateIsObject ==
  gc.at # 0 /\ gc.at + 1 < Len(ctx.chain) /\ IsZero(MgcAt(ctx, gc.at)) =>
    Body(ctx.chain[gc.at]) \in DOMAIN ctx.mem
=============================================================================
