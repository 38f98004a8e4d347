----------------------------- MODULE VmTryCatch -----------------------------
(***************************************************************************)
(* Try blocks of a script: the addresses the compiler records for them     *)
(* (sem_proto.c, pkg_encoder.c) and what the virtual machine does with     *)
(* these addresses after every instruction (vm_stack.c).                   *)
(*                                                                         *)
(* First a script is written, one statement after the other, as the        *)
(* grammar of stack.y allows; then its last function is executed.  An      *)
(* expression is PUSH, OP: a constant, and an instruction that consumes it *)
(* or raises an exception in front of it.  The machine is reduced to its   *)
(* pc, the number of operands, the cells of its frames and its list of     *)
(* try blocks; all code is in one package.                                 *)
(***************************************************************************)
EXTENDS Integers, Sequences, SequencesExt, TLC

CONSTANTS NumFunctions,    \* functions of a script, in the order of the source
          MaxStatements,   \* statements of a script
          MaxNesting,      \* open statements
          MaxIterations,   \* true conditions of one execution
          MaxStack,        \* VM_MAX_STACK_SIZE
          Shapes           \* statements that may be written, see AllShapes

(***************************************************************************)
(* The last six are the shapes of scripts on which the machine loses track *)
(* of its operands or of its blocks:                                       *)
(*   void       a function that is called ends without a result, by a bare *)
(*              return or at its closing brace;                            *)
(*   touching   a try or a loop begins where a try begins or ends, or      *)
(*              where a loop ends that a break may leave from inside a try;*)
(*   call_up    a call of the same or of a later function;                 *)
(*   continue   a continue leaves a try block backwards;                   *)
(*   break_deep a break leaves more than one try block;                    *)
(*   return_deep a return leaves more than three try blocks.               *)
(***************************************************************************)
AllShapes == {"catch", "catch_arg", "while", "break", "return", "call", "void",
              "touching", "call_up", "continue", "break_deep", "return_deep"}

ASSUME SizesAssumption ==
  /\ NumFunctions \in Nat \ {0}
  /\ MaxStatements \in Nat /\ MaxNesting \in Nat /\ MaxIterations \in Nat
  /\ MaxStack \in Nat /\ MaxStack > 5
ASSUME ShapesAssumption == Shapes \subseteq AllShapes

VARIABLES prog,     \* the script: code, labels and the table of try blocks
          vm,       \* the machine
          raised,   \* history: the last instruction raised an exception
          crossed   \* history: a handler was entered with a bp other than that of its snapshot

vars == <<prog, vm, raised, crossed>>

(***************************************************************************)
(* Code.  A label is an index of prog.labels, its value the address, 0     *)
(* until it is placed.  The labels 1 .. NumFunctions are the functions.    *)
(***************************************************************************)
Size(op) ==
  CASE op \in {"OP", "DEL", "RET"} -> 1
    [] op \in {"SCTX", "RCTX", "OBJPUSH", "OBJPOP"} -> 2
    [] OTHER -> 3

Code(p, op, arg) ==
  [p EXCEPT !.code = @ @@ (p.off :> [op |-> op, arg |-> arg, fn |-> p.fn]),
            !.off = @ + Size(op)]
NewLabel(p) == [p EXCEPT !.labels = Append(@, 0)]
Newest(p) == Len(p.labels)
Place(p, l) == [p EXCEPT !.labels = [@ EXCEPT ![l] = p.off]]

Top(p) == Last(p.open)
Enter(p, item) == [p EXCEPT !.open = Append(@, item)]
Leave(p) == [p EXCEPT !.open = Front(@)]
InTop(p, item) == [p EXCEPT !.open = Append(Front(@), item)]

\* The open statements that belong to the body that is being written.
Bodies(p) == {i \in DOMAIN p.open : p.open[i].kind \in {"function", "handler"}}
BodyIndex(p) == CHOOSE i \in Bodies(p) : \A j \in Bodies(p) : j <= i
Body(p) == p.open[BodyIndex(p)]
Loops(p) == {i \in DOMAIN p.open : p.open[i].kind = "while" /\ i > BodyIndex(p)}
LoopIndex(p) == CHOOSE i \in Loops(p) : \A j \in Loops(p) : j <= i
TriesAfter(p, n) == Len(SelectSeq(SubSeq(p.open, n + 1, Len(p.open)), LAMBDA x : x.kind = "try"))

Init ==
  /\ prog = [code |-> [a \in {} |-> 0], off |-> 0, labels |-> [i \in 1 .. NumFunctions |-> 0], open |-> <<>>,
             blocks |-> <<>>, fn |-> 0, written |-> 0, marks |-> {}]
  /\ vm = [state |-> "INIT", pc |-> 0, ops |-> 0, base |-> <<>>, tcs |-> <<>>, turns |-> 0]
  /\ raised = FALSE
  /\ crossed = FALSE

Writing == vm.base = <<>> /\ vm.pc = 0
Script(p) == prog' = p /\ UNCHANGED <<vm, raised, crossed>>
Statement(p) == Script([p EXCEPT !.written = @ + 1])
MayWrite ==
  /\ Writing
  /\ prog.open # <<>>
  /\ prog.written < MaxStatements
MayOpen == MayWrite /\ Len(prog.open) < MaxNesting
Has(shape) == shape \in Shapes
\* Where a try, a handler or a loop begins or ends, a statement without effect is put in
\* front of the next try or loop.
Padded(p) == Code(Code(p, "PUSH", 0), "DEL", 0)
Apart(p) == IF p.off \in p.marks /\ ~Has("touching") THEN Padded(p) ELSE p
Mark(p) == [p EXCEPT !.marks = @ \cup {p.off}]

(***************************************************************************)
(* Functions, expressions, calls and jumps.                                *)
(***************************************************************************)
\* sp_start_function_body: one variable, the result
FunctionStart ==
  /\ Writing
  /\ prog.open = <<>>
  /\ prog.fn < NumFunctions
  /\ LET p == NewLabel([Place(prog, prog.fn + 1) EXCEPT !.fn = prog.fn + 1])
     IN  Script(Enter(Code(p, "SCTX", 1), [kind |-> "function", exit |-> Newest(p), fn |-> p.fn]))

\* Mutant: the end label is placed behind the release of the frame.
EpilogueLate(p, cells, exit) == Code(Place(Code(p, "RCTX", cells), exit), "RET", 0)
\* sp_end_function_body: the only scope is destroyed before the instruction that would load
\* the result is queued in it, so that instruction is lost.
Epilogue(p, cells, exit) == Code(Code(Place(p, exit), "RCTX", cells), "RET", 0)
\* sp_end_lambda_decl: the scope of the function around the lambda is still open.
LambdaEpilogue(p, cells, exit) ==
  Code(Code(Code(Place(p, exit), "OBJPUSH", 0), "RCTX", cells), "RET", 0)
\* sp_return_function_body: the value, the jump, and behind it the store that was queued; the
\* value itself stays on the stack.
Returned(p, exit) == Code(Code(Code(p, "PUSH", 0), "JMP", exit), "OBJPOP", 0)
\* The last function is the one that is executed; the others are called.
MayEndVoid == Has("void") \/ (prog.fn = NumFunctions /\ ~Has("call_up"))
\* The closing brace of a function; in one that needs a result, behind a return of a value.
FunctionEnd ==
  /\ Writing
  /\ prog.open # <<>>
  /\ Top(prog).kind = "function"
  /\ \/ MayEndVoid /\ Script(Leave(Epilogue(prog, 1, Top(prog).exit)))
     \/ ~MayEndVoid /\ Script(Leave(Epilogue(Returned(prog, Top(prog).exit), 1, Top(prog).exit)))

Work == MayWrite /\ Statement(Code(Code(prog, "PUSH", 0), "OP", 0))

\* A call statement and the removal of its result.
Call(f) ==
  /\ MayWrite
  /\ Has("call")
  /\ f < Body(prog).fn \/ Has("call_up")
  /\ Statement(Code(Code(prog, "CALL", f), "DEL", 0))

\* sp_exit_function_body: a bare return; the end of a lambda loads a result all the same
MayReturn ==
  /\ MayWrite
  /\ Has("return")
  /\ TriesAfter(prog, BodyIndex(prog)) <= 3 \/ Has("return_deep")
Return ==
  /\ MayReturn
  /\ Body(prog).kind = "handler" \/ MayEndVoid
  /\ Statement(Code(prog, "JMP", Body(prog).exit))
ReturnValue == MayReturn /\ Statement(Returned(prog, Body(prog).exit))

\* break, directly in the body of the loop or in try blocks around it.  In a catch block or a
\* handler the grammar takes the label of the try statement for that of the loop: not written.
Break ==
  /\ MayWrite
  /\ Has("break")
  /\ Loops(prog) # {}
  /\ \A i \in LoopIndex(prog) + 1 .. Len(prog.open) : prog.open[i].kind = "try"
  /\ TriesAfter(prog, LoopIndex(prog)) <= 1 \/ Has("break_deep")
  /\ Statement(Code(prog, "JMP", prog.open[LoopIndex(prog)].exit))

\* sp_continue_loop
Continue ==
  /\ MayWrite
  /\ Has("while")
  /\ Loops(prog) # {}
  /\ TriesAfter(prog, LoopIndex(prog)) = 0 \/ Has("continue")
  /\ Statement(Code(prog, "JMP", prog.open[LoopIndex(prog)].start))

While ==
  /\ MayOpen
  /\ Has("while")
  /\ LET p == NewLabel(NewLabel(Apart(prog)))
         started == Place(p, Newest(p) - 1)
     IN  Statement(Enter(Code(Code(started, "PUSH", 0), "JFALSE", Newest(p)),
                         [kind |-> "while", start |-> Newest(p) - 1, exit |-> Newest(p)]))
\* sp_end_loop
LoopClosed(p, item) == Place(Code(p, "JMP", item.start), item.exit)
WhileEnd ==
  /\ Writing
  /\ prog.open # <<>>
  /\ Top(prog).kind = "while"
  /\ Script(Leave(Mark(LoopClosed(prog, Top(prog)))))

(***************************************************************************)
(* Try blocks.                                                             *)
(***************************************************************************)
\* sp_push_try_catch
Try ==
  /\ MayOpen
  /\ Has("catch") \/ Has("catch_arg")
  /\ LET p == Apart(prog)
     IN  Statement(Enter(Mark(p), [kind |-> "try", start |-> p.off]))

\* The end of the block: a jump behind the handler, and sp_set_cblock.
StartCatch(p) ==
  LET jumped == Code(NewLabel(p), "JMP", Newest(p) + 1)
  IN  InTop(jumped, [kind |-> "catch", start |-> Top(p).start, exit |-> Newest(jumped),
                     cblock |-> jumped.off])
Catch ==
  /\ Writing
  /\ prog.open # <<>>
  /\ Top(prog).kind = "try"
  /\ Has("catch")
  /\ Script(Mark(StartCatch(prog)))

\* sp_pop_try_catch: pk_register_tcblock appends to the list of the package
Register(p, item, args) ==
  Mark([Place(p, item.exit) EXCEPT
          !.blocks = Append(@, [start |-> item.start, cblock |-> item.cblock, args |-> args,
                                fn |-> p.fn])])
CatchEnd ==
  /\ Writing
  /\ prog.open # <<>>
  /\ Top(prog).kind = "catch"
  /\ Script(Leave(Register(prog, Top(prog), 0)))

\* catch(e): the handler is a lambda that stands behind a jump around it
CatchArg ==
  /\ Writing
  /\ prog.open # <<>>
  /\ Top(prog).kind = "try"
  /\ Has("catch_arg")
  /\ LET p == NewLabel(NewLabel(NewLabel(StartCatch(prog))))
         skip == Newest(p) - 2
         lambda == Newest(p) - 1
         jumped == Place(Code(p, "JMP", skip), lambda)
         body == Code(Code([jumped EXCEPT !.fn = lambda], "SCTX", 2), "OBJPOP", 0)
     IN  Script(InTop(body, [kind |-> "handler", start |-> Top(p).start, cblock |-> Top(p).cblock,
                             over |-> Top(p).exit, skip |-> skip, lambda |-> lambda,
                             exit |-> Newest(p), outer |-> prog.fn, fn |-> Body(prog).fn]))
\* The lambda ends, the code around it calls it and keeps its result on the stack.
HandlerEnd ==
  /\ Writing
  /\ prog.open # <<>>
  /\ Top(prog).kind = "handler"
  /\ LET h == Top(prog)
         p == [Place(LambdaEpilogue(prog, 2, h.exit), h.skip) EXCEPT !.fn = h.outer]
     IN  Script(Leave(Register(Code(p, "CALL", h.lambda),
                               [start |-> h.start, cblock |-> h.cblock, exit |-> h.over], 1)))

(***************************************************************************)
(* The machine.                                                            *)
(***************************************************************************)
Exit == 65535            \* the pc that ends an execution
Address(l) == prog.labels[l]
InstructionAt(pc) == prog.code[pc]
Var == [k |-> "var", pc |-> 0, ops |-> 0]
Package == [k |-> "package", pc |-> 0, ops |-> 0]
\* ops is history: the operands in front of the call and its argument
Parameters(l) == IF l <= NumFunctions THEN 0 ELSE 1
ReturnTo(pc, ops) == [k |-> "ret", pc |-> pc, ops |-> ops]

\* vm_decode: the marks of the outermost frame
Run ==
  /\ Writing
  /\ prog.fn = NumFunctions
  /\ prog.open = <<>>
  /\ vm' = [vm EXCEPT !.state = "RUN", !.pc = Address(NumFunctions),
                      !.base = <<Package, ReturnTo(Exit, 0)>>]
  /\ UNCHANGED <<prog, raised, crossed>>

\* vm_push_tcblock
TcBlock(b, m) ==
  [catch |-> b.cblock, end |-> b.cblock - 1, args |-> b.args, start |-> b.start,
   ops |-> m.ops, bp |-> Len(m.base)]
Starting(m) == SelectSeq(prog.blocks, LAMBDA b : b.start = m.pc)
\* Mutant: new blocks are queued behind the old ones.
PushedLast(m) ==
  [m EXCEPT !.tcs = @ \o [i \in DOMAIN Starting(m) |-> TcBlock(Starting(m)[i], m)]]
Pushed(m) ==
  [m EXCEPT !.tcs = Reverse([i \in DOMAIN Starting(m) |-> TcBlock(Starting(m)[i], m)]) \o @]
Pop(m) == [m EXCEPT !.tcs = Tail(@)]
Expired(t, pc) == t.end <= pc
\* Mutant: a block that was left is kept.
LocatedKeeping(m) == m
\* vm_locate_tcblock
Located(m) ==
  IF m.tcs # <<>> /\ Expired(Head(m.tcs), m.pc) THEN Pop(m) ELSE m
vm_locate_tcblock(m) == Located(Pushed(m))

\* Mutants: the operands stay, or the block stays.
HandledKeepingOperands(m, t) ==
  [m EXCEPT !.state = "RUN", !.pc = t.catch, !.ops = @ + t.args, !.tcs = Tail(@)]
HandledKeepingBlock(m, t) ==
  [m EXCEPT !.state = "RUN", !.pc = t.catch, !.ops = t.ops + t.args]
\* An exception with a try block: operands are popped down to those of the snapshot, the
\* handler gets its arguments.  Popping cannot add: with too few operands it runs away.
Handled(m, t) ==
  IF m.ops < t.ops THEN [m EXCEPT !.state = "WILD"]
  ELSE [m EXCEPT !.state = "RUN", !.pc = t.catch, !.ops = t.ops + t.args, !.tcs = Tail(@)]
Unhandled(m) == [m EXCEPT !.state = "EXCEPTION"]

Full(m) == Len(m.base) + m.ops >= MaxStack - 1
Terminated(m) == IF m.pc = Exit THEN [m EXCEPT !.state = "INIT"] ELSE m

\* vm_pop_stack_arc with no operand left: sp passes the end of the stack and an exception is raised
Underflow(m) == m.ops < 0
\* The end of the loop of vm_decode, for a machine after one instruction.
EndOfInstruction(m, raises) ==
  /\ raised' = (raises \/ Full(m) \/ Underflow(m))
  /\ vm' = CASE ~raised' -> Terminated(vm_locate_tcblock(m))
             [] raised' /\ m.tcs = <<>> -> Unhandled(m)
             [] OTHER -> Handled(m, Head(m.tcs))
  /\ crossed' = (crossed \/ (raised' /\ m.tcs # <<>> /\ Head(m.tcs).bp # Len(m.base)))
  /\ UNCHANGED prog

Instruction(op) == vm.state = "RUN" /\ InstructionAt(vm.pc).op = op
Arg == InstructionAt(vm.pc).arg
Following == vm.pc + Size(InstructionAt(vm.pc).op)
Operands(n) == [vm EXCEPT !.ops = @ + n, !.pc = Following]
Goto(l) == [vm EXCEPT !.pc = Address(l)]
PushBase(m, cells) == [m EXCEPT !.base = @ \o cells]
PopBase(m, n) == [m EXCEPT !.base = SubSeq(@, 1, Len(@) - n)]
\* A cell that is no return mark: the machine goes on at the address of an object.
Wild == vm' = [vm EXCEPT !.state = "WILD"] /\ UNCHANGED <<prog, raised, crossed>>

Push == Instruction("PUSH") /\ EndOfInstruction(Operands(1), FALSE)
OBJPUSH == Instruction("OBJPUSH") /\ EndOfInstruction(Operands(1), FALSE)
OBJPOP == Instruction("OBJPOP") /\ EndOfInstruction(Operands(-1), FALSE)
OBJDEL == Instruction("DEL") /\ EndOfInstruction(Operands(-1), FALSE)
Operation == Instruction("OP") /\ EndOfInstruction(Operands(-1), FALSE)
\* vm_invoke_exception in the middle of an instruction
OperationFails == Instruction("OP") /\ EndOfInstruction(vm, TRUE)
JMP == Instruction("JMP") /\ EndOfInstruction(Goto(Arg), FALSE)
JFALSE ==
  /\ Instruction("JFALSE")
  /\ \/ EndOfInstruction([Goto(Arg) EXCEPT !.ops = @ - 1], FALSE)
     \/ /\ vm.turns < MaxIterations
        /\ EndOfInstruction([Operands(-1) EXCEPT !.turns = @ + 1], FALSE)
CALL ==
  /\ Instruction("CALL")
  /\ EndOfInstruction(PushBase(Goto(Arg), <<Package, ReturnTo(Following, vm.ops - Parameters(Arg))>>), FALSE)
SCTX ==
  /\ Instruction("SCTX")
  /\ EndOfInstruction(PushBase(Operands(0), [i \in 1 .. Arg |-> Var]), FALSE)
RCTX ==
  /\ Instruction("RCTX")
  /\ Len(vm.base) >= Arg
  /\ EndOfInstruction(PopBase(Operands(0), Arg), FALSE)
ReturnMark == Len(vm.base) >= 2 /\ Last(vm.base).k = "ret"
RET ==
  /\ Instruction("RET")
  /\ \/ ReturnMark /\ EndOfInstruction([PopBase(vm, 2) EXCEPT !.pc = Last(vm.base).pc], FALSE)
     \/ ~ReturnMark /\ Wild

Stopped == vm.state # "RUN" /\ ~Writing /\ UNCHANGED vars

Execute ==
  \/ Push \/ OBJPUSH \/ OBJPOP \/ OBJDEL \/ Operation \/ OperationFails
  \/ JMP \/ JFALSE \/ CALL \/ SCTX \/ RCTX \/ RET
Write ==
  \/ FunctionStart \/ FunctionEnd \/ Work \/ Return \/ ReturnValue \/ Break \/ Continue
  \/ While \/ WhileEnd \/ Try \/ Catch \/ CatchEnd \/ CatchArg \/ HandlerEnd
  \/ \E f \in 1 .. NumFunctions : Call(f)

Next == Write \/ Run \/ Execute \/ Stopped

\* The machine does not stop between two instructions.
Spec == Init /\ [][Next]_vars /\ WF_vars(Execute)

(***************************************************************************)
(* The try blocks the source says a machine is inside of: for each frame   *)
(* those around its current address, the innermost first.                  *)
(***************************************************************************)
Inner(b, c) == b.start > c.start \/ (b.start = c.start /\ b.cblock < c.cblock)
Around(pc) ==
  SetToSortSeq({b \in Range(prog.blocks) : /\ b.start <= pc /\ pc < b.cblock
                                           /\ b.fn = InstructionAt(pc).fn}, Inner)
Marks == SelectSeq(vm.base, LAMBDA x : x.k = "ret" /\ x.pc # Exit)
Callers == Reverse([i \in DOMAIN Marks |-> Marks[i].pc])
Enclosing == FlattenSeq([i \in 1 .. Len(Callers) + 1 |->
                           Around(IF i = 1 THEN vm.pc ELSE Callers[i - 1])])
Catches(s) == [i \in DOMAIN s |-> s[i].cblock]
Armed == [i \in DOMAIN vm.tcs |-> vm.tcs[i].catch]
Running == vm.state = "RUN" /\ ~crossed

(***************************************************************************)
(* Properties.                                                             *)
(***************************************************************************)
\* vm_locate_tcblock, which only compares addresses, keeps exactly the blocks around the
\* current statement and around its callers in its list, the innermost first.  Blocks that
\* a jump has just left may still wait to be removed in front of them.
ArmedAreEnclosing ==
  Running =>
    \E n \in 0 .. Len(vm.tcs) :
      /\ \A i \in 1 .. n : Expired(vm.tcs[i], vm.pc)
      /\ SubSeq(Armed, n + 1, Len(Armed)) = Catches(Enclosing)

\* An exception is handled by the innermost try block around the instruction or its
\* callers; it ends the script if and only if there is none.
RaiseFindsInnermost ==
  [][Running /\ raised' =>
       IF Enclosing = <<>> THEN vm'.state = "EXCEPTION"
       ELSE vm'.pc = Enclosing[1].cblock]_vars

\* RCTX and RET find the cells that SCTX and CALL pushed, and a script that ends has
\* released all frames, whatever was raised in it, unless a handler took over from a
\* function further in: bp is not restored.
FramesAligned ==
  ~crossed =>
    /\ vm.state # "WILD"
    /\ vm.state = "RUN" /\ InstructionAt(vm.pc).op = "RCTX" =>
         \A i \in 0 .. Arg - 1 : vm.base[Len(vm.base) - i] = Var
    /\ vm.state = "INIT" /\ ~Writing => vm.base = <<>> /\ vm.tcs = <<>>

\* A call leaves its result, one operand more than there were in front of it, and a script
\* that ends leaves at most the value it returned, although exceptions interrupted
\* expressions; handlers with an argument leave their own result on the stack.
OperandsBalanced ==
  LET handlers == \E b \in Range(prog.blocks) : b.args = 1
      results == IF vm.state = "RUN" /\ Instruction("RET") /\ Last(vm.base).pc # Exit
                 THEN {vm.ops - Last(vm.base).ops} ELSE {1}
  IN  ~crossed =>
        /\ \A n \in results : n >= 1 /\ (~handlers => n = 1)
        /\ vm.state = "INIT" /\ ~Writing => vm.ops >= 0 /\ (~handlers => vm.ops <= 1)

\* An execution whose loops end does end: a handler that raises again is not entered again.
RunEnds == vm.state = "RUN" ~> vm.state # "RUN"
=============================================================================
