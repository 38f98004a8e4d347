------------------------------ MODULE CodeGen ------------------------------
(***************************************************************************)
(* The back end of the OrbWeaver compiler: symbol records with lists of    *)
(* jumps to patch (sym_table.c), the semantic routines the grammar calls   *)
(* for functions, labels, loops, conditions, switches, try blocks and      *)
(* lambdas (sem_proto.c), the code buffer and the linker that makes jumps  *)
(* relative (il_streamer.c), and the way the virtual machine decodes a     *)
(* jump (vm_stack.c).                                                      *)
(*                                                                         *)
(* One action stands for one production of stack.y: the parser offers them *)
(* in every order the grammar allows, so that the behaviours are the       *)
(* scripts with at most MaxStatements statements.  Expressions are reduced *)
(* to one constant, functions take no arguments, and a statement flushes   *)
(* its instructions when it ends, as every production does.  Scripts with  *)
(* a syntax error produce no image and are left out.                       *)
(***************************************************************************)
EXTENDS Integers, FiniteSets, Sequences, SequencesExt

CONSTANTS Functions,      \* names of functions
          UserLabels,     \* names of labels of the script
          Variables,      \* names of variables
          Constructs,     \* productions the scripts may use
          MaxStatements,  \* statements of a script
          MaxNesting,     \* open constructs
          MaxCases        \* labels of one switch

AllConstructs ==
  {"while", "if", "switch", "try", "catch_arg", "lambda", "break", "continue", "return",
   "goto", "label", "call", "ref", "var", "declare"}

ASSUME ConstructsAssumption == Constructs \subseteq AllConstructs
\* is_jumptable_reloc reads the length of a table from one byte: 2 + 4 * cases < 128
ASSUME CasesAssumption == MaxCases \in 0 .. 31
ASSUME BoundsAssumption == MaxStatements \in Nat /\ MaxNesting \in Nat

VARIABLES gen,    \* the static variables of sem_proto.c, sym_table.c and il_streamer.c
          open,   \* the constructs the parser is inside of, the innermost last
          count,  \* statements parsed so far
          image   \* the linked code, or NoImage

vars == <<gen, open, count, image>>

NoImage == [code |-> <<>>, pool |-> <<>>, size |-> 0]

(***************************************************************************)
(* Instructions and addresses.                                             *)
(***************************************************************************)
Word == 65536              \* an address is 16 bits wide, as operand and as pc
Undef == -1                \* SYM_UNDEFINED, 0xFFFFFFFF
Nobody == 0                \* a NULL symrec

Size(ins) ==
  CASE ins \in {"RET", "OBJDEL"} -> 1
    [] ins \in {"SCTX", "RCTX", "OBJPUSH", "OBJPOP"} -> 2
    [] OTHER -> 3

\* The operand of an instruction of two bytes is one byte.
Modulus(ins) == IF Size(ins) = 2 THEN 256 ELSE Word

Branches == {"CALL", "JMP", "JTRUE", "JFALSE"}
PoolRefs == {"SWITCH", "OBJCONST"}

\* Mutant: every instruction is taken to be two bytes long.
EmitTwoBytes(g, ins, ref, arg, src) ==
  [g EXCEPT !.code = Append(@, [at |-> g.off, ins |-> ins, ref |-> ref, arg |-> arg % Modulus(ins),
                                src |-> src, fn |-> g.cur]),
            !.off = @ + 2]

\* is_gencode at _current_offset.  ref and src are what the instruction is for:
\* the record it refers to and the production that emits it.
Emit(g, ins, ref, arg, src) ==
  [g EXCEPT !.code = Append(@, [at |-> g.off, ins |-> ins, ref |-> ref, arg |-> arg % Modulus(ins),
                                src |-> src, fn |-> g.cur]),
            !.off = @ + Size(ins)]

\* The sequence of the values Op has on the positions of s.
Mapped(s, Op(_)) == SubSeq([i \in 1 .. Len(s) |-> Op(i)], 1, Len(s))

\* is_gencode at an earlier offset: the operand is written again.
Patch(code, sites, arg) ==
  Mapped(code, LAMBDA i : IF code[i].at \in sites
                          THEN [code[i] EXCEPT !.arg = arg % Modulus(code[i].ins)]
                          ELSE code[i])

(***************************************************************************)
(* The symbol table.  A record knows the table it is linked in; 0 means    *)
(* that it is in none.  A lambda has a table of its own.                   *)
(***************************************************************************)
Record(kind, name, off, parent, tab) ==
  [kind |-> kind, name |-> name, off |-> off, parent |-> parent, tab |-> tab, list |-> {}]

Table(g) == Last(g.tabs)

\* st_sym_select: the first record of that kind and name in the current table.
Matches(g, kind, name) ==
  {r \in DOMAIN g.recs : /\ g.recs[r].tab = Table(g)
                         /\ g.recs[r].kind = kind
                         /\ g.recs[r].name = name}
Select(g, kind, name) ==
  IF Matches(g, kind, name) = {} THEN Nobody
  ELSE CHOOSE r \in Matches(g, kind, name) : \A q \in Matches(g, kind, name) : r <= q

Newest(g) == Len(g.recs)
Insert(g, rec) == [g EXCEPT !.recs = Append(@, rec)]
Update(g, r, rec) == [g EXCEPT !.recs = [@ EXCEPT ![r] = rec]]
Adopt(g, r) == Update(g, r, [g.recs[r] EXCEPT !.parent = g.cur])

\* st_sym_insert unless the name is there already.
Ensure(g, kind, name) ==
  IF Select(g, kind, name) # Nobody THEN g
  ELSE Insert(g, Record(kind, name, Undef, Nobody, Table(g)))

Error(g, what, r) == [g EXCEPT !.errors = @ \cup {<<what, r>>}]

\* st_sym_clear_locals and st_sym_clear_globals: the records leave the table, the ones
\* with jumps still to patch are reported.
Clear(g, gone) ==
  [g EXCEPT !.recs = Mapped(@, LAMBDA r : IF r \in gone
                                         THEN [g.recs[r] EXCEPT !.tab = 0, !.list = {}]
                                         ELSE g.recs[r]),
            !.errors = @ \cup {<<"UNREF", r>> : r \in {q \in gone : g.recs[q].list # {}}}]
Locals(g, parent) ==
  {r \in DOMAIN g.recs : g.recs[r].tab = Table(g) /\ g.recs[r].parent = parent}
Globals(g) == {r \in DOMAIN g.recs : g.recs[r].tab = Table(g)}

(***************************************************************************)
(* Labels and jumps.                                                       *)
(***************************************************************************)
\* sp_create_label: a fresh name, owned by the current function.
CreateLabel(g) ==
  [Insert(g, Record("label", <<"gen", g.index>>, Undef, g.cur, Table(g))) EXCEPT !.index = @ + 1]

\* Mutant: st_jmp_add replaces the list instead of extending it.
EmitRefReplacing(g, ins, r, src) ==
  Emit(IF g.recs[r].off = Undef THEN Update(g, r, [g.recs[r] EXCEPT !.list = {g.off}]) ELSE g,
       ins, r, g.recs[r].off, src)

\* A jump, a call or a function value: a site of an undefined record is queued for
\* backpatching and the operand is emitted as it is now.
EmitRef(g, ins, r, src) ==
  Emit(IF g.recs[r].off = Undef THEN Update(g, r, [g.recs[r] EXCEPT !.list = @ \cup {g.off}])
                                ELSE g,
       ins, r, g.recs[r].off, src)

EmitJump(g, ins, name, src) == EmitRef(g, ins, Select(g, "label", name), src)
\* sp_jump_to
JumpTo(g, ins, name, src) == EmitJump(Ensure(g, "label", name), ins, name, src)

\* The record gets its address and every queued site is emitted again.
Resolve(g, r) ==
  Update([g EXCEPT !.code = Patch(g.code, g.recs[r].list, g.off)], r,
         [g.recs[r] EXCEPT !.off = g.off, !.list = {}])

DefineLabel(g, r) ==
  IF g.recs[r].off # Undef THEN Error(g, "MULTI_LABEL", r)
  ELSE Resolve(Adopt(g, r), r)
DefineNamed(g, name) == DefineLabel(g, Select(g, "label", name))
\* sp_new_label
NewLabel(g, name) == DefineNamed(Ensure(g, "label", name), name)

(***************************************************************************)
(* The stack of symbols the productions share (sp_push_symrec and others), *)
(* variables, and the value of an expression.                              *)
(***************************************************************************)
PushSym(g, r) == [g EXCEPT !.sym = Append(@, r)]
PopSym(g) == [g EXCEPT !.sym = Front(@)]
TopName(g) == g.recs[Last(g.sym)].name
UnderName(g) == g.recs[g.sym[Len(g.sym) - 1]].name

PushLabel(g) == PushSym(CreateLabel(g), Newest(g) + 1)
DefineTop(g) == PopSym(NewLabel(g, TopName(g)))

\* sp_create_variable: the next slot of the frame, unless the name is known.
CreateVariable(g, name) ==
  IF Select(g, "var", name) # Nobody
  THEN Adopt(g, Select(g, "var", name))
  ELSE [Insert(g, Record("var", name, g.slots, g.cur, Table(g))) EXCEPT !.slots = @ + 1]

EmitVar(g, ins, name) ==
  Emit(g, ins, Select(g, "var", name), g.recs[Select(g, "var", name)].off, "var")

\* sp_push_constant: one entry of the pool per value and symbol table, one byte long and a
\* length byte.
NoTable == [default |-> 0, cases |-> <<>>]
PoolEnd(g) == IF g.pool = <<>> THEN 0 ELSE Last(g.pool).at + Last(g.pool).bytes
KnowsConstant(g, c) == \E i \in DOMAIN g.pool : g.pool[i].value = c /\ g.pool[i].tab = Table(g)
PushConstant(g, c) ==
  IF KnowsConstant(g, c) THEN g
  ELSE [g EXCEPT !.pool = Append(@, [at |-> PoolEnd(g), bytes |-> 2, value |-> c, tab |-> Table(g),
                                     table |-> NoTable])]
ConstantAt(g, c) == (CHOOSE e \in Range(g.pool) : e.value = c /\ e.tab = Table(g)).at
EmitConst(g, c) == Emit(g, "OBJCONST", c, ConstantAt(g, c), "const")
LoadConstant(g, c) == EmitConst(PushConstant(g, c), c)
Value == 0     \* the constant that stands for an expression
TableValue == -1   \* the mark of a jump table in the pool

(***************************************************************************)
(* Frames of functions and lambdas.                                        *)
(***************************************************************************)
FrameSite(g, r) == {g.recs[r].off}
OpenFrame(g) == Emit(CreateLabel(g), "SCTX", g.cur, 0, "frame")
\* The end of a body: SCTX gets the number of slots and the end label is placed; then the
\* frame is released.
EndBody(g, r) ==
  NewLabel([g EXCEPT !.code = Patch(g.code, FrameSite(g, r), g.slots)], g.recs[g.exit].name)
Release(g, r, slots) == Emit(Emit(g, "RCTX", r, slots, "frame"), "RET", r, 0, "frame")
\* A function has destroyed its only scope when it queues the instruction that would load the
\* return value: the instruction is lost.  A lambda stands in the scope of a function.
CloseFrame(g, r) == Release(EndBody(g, r), r, g.slots)
CloseLambda(g, r) == Release(EmitVar(EndBody(g, r), "OBJPUSH", g.recs[r].name), r, g.slots)

(***************************************************************************)
(* The initial state: sp_clr_init.                                         *)
(***************************************************************************)
Init ==
  /\ gen = [recs |-> <<>>, code |-> <<>>, off |-> 0, pool |-> <<>>, index |-> 0, slots |-> 0,
            cur |-> Nobody, exit |-> Nobody, skip |-> Nobody, tabs |-> <<1>>, lastTab |-> 1,
            saved |-> <<>>, loops |-> <<>>, sym |-> <<>>, tables |-> <<>>, tries |-> <<>>,
            blocks |-> {}, errors |-> {}, done |-> FALSE]
  /\ open = <<>>
  /\ count = 0
  /\ image = NoImage

Parsing == ~gen.done
InBody == Parsing /\ open # <<>>
Statement(kind) == InBody /\ kind \in Constructs /\ count < MaxStatements /\ count' = count + 1
Opens(kind) == Len(open) < MaxNesting /\ open' = Append(open, kind) /\ image' = image
Inside(kind) == InBody /\ Last(open) = kind
Closes == open' = Front(open) /\ UNCHANGED <<count, image>>
Simple == UNCHANGED <<open, image>>

\* The productions that end in YYABORT: the parser gives up, no error is counted and
\* the host links what there is.
Abort(g) == gen' = [Clear(g, Globals(g)) EXCEPT !.done = TRUE] /\ UNCHANGED <<open, image>>

(***************************************************************************)
(* Functions.  A name is bare after a declaration and carries its number   *)
(* of arguments after a definition, a call or a use as a value.            *)
(***************************************************************************)
Bare(f) == <<f, "bare">>
Full(f) == <<f, "0">>
\* Both names in the table: the next routine that merges them frees a record that is
\* still linked.  Scripts that get there are left out.
Confused(f) == Select(gen, "func", Bare(f)) # Nobody /\ Select(gen, "func", Full(f)) # Nobody

\* sp_start_function_body for a record that is in the table: the code that follows LBL.
StartFrame(g, r) ==
  CreateVariable([OpenFrame([g EXCEPT !.cur = r, !.slots = 0]) EXCEPT !.exit = Newest(g) + 1],
                 g.recs[r].name)
EnterFunction(g, r) == PushSym(StartFrame(Resolve(g, r), r), r)
AddFunction(g, f) == Insert(g, Record("func", Full(f), Undef, Nobody, Table(g)))

\* class_stmt: sp_create_function, sp_start_function_body
FunctionStart(f) ==
  /\ Parsing
  /\ open = <<>>
  /\ count < MaxStatements
  /\ count' = count + 1
  /\ ~Confused(f)
  /\ \E full \in {Select(gen, "func", Full(f))} :
       \/ /\ full # Nobody
          /\ gen.recs[full].off = Undef
          /\ gen' = EnterFunction(gen, full)
          /\ Opens("function")
       \/ /\ full # Nobody
          /\ gen.recs[full].off # Undef
          /\ Abort(Error(gen, "MULTI_FUNCTION", full))
       \/ /\ full = Nobody
          /\ Select(gen, "func", Bare(f)) # Nobody
          /\ Abort(Error(gen, "MULTI_FUNCTION", Select(gen, "func", Bare(f))))
       \/ /\ full = Nobody
          /\ Select(gen, "func", Bare(f)) = Nobody
          /\ gen' = EnterFunction(AddFunction(gen, f), Newest(gen) + 1)
          /\ Opens("function")

\* sp_end_function_body
LeaveFunction(g, r) ==
  [Clear(g, Locals(g, r)) EXCEPT !.slots = 0, !.cur = Nobody, !.exit = Nobody, !.sym = Front(@)]
FunctionEnd ==
  /\ Inside("function")
  /\ gen' = LeaveFunction(CloseFrame(gen, Last(gen.sym)), Last(gen.sym))
  /\ Closes

\* extern function f(): sp_declare_function, sp_declare_function_end
Declare(f) ==
  /\ Parsing
  /\ open = <<>>
  /\ "declare" \in Constructs
  /\ count < MaxStatements
  /\ count' = count + 1
  /\ \/ /\ Select(gen, "func", Full(f)) # Nobody
        /\ Select(gen, "func", Bare(f)) = Nobody
        /\ Abort(Error(gen, "MULTI_FUNCTION", Select(gen, "func", Full(f))))
     \/ /\ Select(gen, "func", Full(f)) = Nobody
        /\ gen' = IF Select(gen, "func", Bare(f)) # Nobody THEN gen
                  ELSE Insert(gen, Record("func", Bare(f), Undef, Nobody, Table(gen)))
        /\ Simple

\* A call statement: sp_start_function_call, sp_end_function_call and the flush of CALL and
\* OBJDEL.  A name that is only declared is renamed; an unknown name gets a record that
\* enters no table.
EmitCall(g, r) == Emit(EmitRef(g, "CALL", r, "call"), "OBJDEL", Nobody, 0, "call")
Call(f) ==
  /\ Statement("call")
  /\ ~Confused(f)
  /\ \E full \in {Select(gen, "func", Full(f))}, bare \in {Select(gen, "func", Bare(f))} :
       gen' = CASE full # Nobody -> EmitCall(gen, full)
                [] full = Nobody /\ bare # Nobody ->
                     EmitCall(Update(gen, bare, [gen.recs[bare] EXCEPT !.name = Full(f)]), bare)
                [] OTHER ->
                     EmitCall(Insert(gen, Record("func", Full(f), Undef, Nobody, 0)),
                              Newest(gen) + 1)
  /\ Simple

\* var v = <what the stack holds>: var_decl
StoreNew(g, v) == EmitVar(CreateVariable(g, v), "OBJPOP", v)

\* sp_lz_load_method: the function as a value
LoadMethod(g, f) == EmitRef(g, "F2O", Select(g, "func", Full(f)), "ref")
Reference(f, v) ==
  /\ Statement("ref")
  /\ gen' = StoreNew(LoadMethod(Ensure(gen, "func", Full(f)), f), v)
  /\ Simple

Var(v) ==
  /\ Statement("var")
  /\ gen' = StoreNew(LoadConstant(gen, Value), v)
  /\ Simple

(***************************************************************************)
(* Jumps a script writes itself.                                           *)
(***************************************************************************)
\* sp_exit_function_body, and sp_return_function_body for a return with a value
Return ==
  /\ Statement("return")
  /\ gen' = JumpTo(gen, "JMP", gen.recs[gen.exit].name, "return")
  /\ Simple

\* The store of the value is only queued, and flushed behind the jump.
ReturnValue ==
  /\ Statement("return")
  /\ gen' = EmitVar(JumpTo(LoadConstant(gen, Value), "JMP", gen.recs[gen.exit].name, "return"),
                    "OBJPOP", gen.recs[gen.cur].name)
  /\ Simple

Goto(l) ==
  /\ Statement("goto")
  /\ gen' = JumpTo(gen, "JMP", l, "goto")
  /\ Simple

Label(l) ==
  /\ Statement("label")
  /\ gen' = NewLabel(gen, l)
  /\ Simple

\* break jumps to the label named like the symbol on top of the stack
Break ==
  /\ Statement("break")
  /\ gen' = JumpTo(gen, "JMP", TopName(gen), "break")
  /\ Simple

\* sp_continue_loop; outside of every loop the code reads in front of its array
Continue ==
  /\ Statement("continue")
  /\ gen.loops # <<>>
  /\ gen' = JumpTo(gen, "JMP", gen.recs[Last(gen.loops)].name, "continue")
  /\ Simple

(***************************************************************************)
(* Conditions and loops.                                                   *)
(***************************************************************************)
\* exprs: the value, and the jump to the label under the top of the symbol stack; then
\* the label on the top is placed.
Condition(g, src) == DefineTop(JumpTo(LoadConstant(g, Value), "JFALSE", UnderName(g), src))

\* sp_start_loop
StartLoop(g) == [NewLabel(CreateLabel(g), <<"gen", g.index>>) EXCEPT !.loops = Append(@, Newest(g) + 1)]
\* sp_end_loop
EndLoop(g) ==
  [JumpTo(g, "JMP", g.recs[Last(g.loops)].name, "while") EXCEPT !.loops = Front(@)]

While ==
  /\ Statement("while")
  /\ Opens("while")
  /\ gen' = Condition(StartLoop(PushLabel(PushLabel(gen))), "while")
WhileEnd ==
  /\ Inside("while")
  /\ gen' = DefineTop(EndLoop(gen))
  /\ Closes

If ==
  /\ Statement("if")
  /\ Opens("if")
  /\ gen' = Condition(PushLabel(PushLabel(gen)), "if")
\* The label of the skipped branch is popped and placed behind the jump over the other.
ElseJump(g, name) == NewLabel(JumpTo(g, "JMP", TopName(g), "if"), name)
Else ==
  /\ Inside("if")
  /\ open' = Append(Front(open), "else")
  /\ gen' = ElseJump(PushLabel(PopSym(gen)), TopName(gen))
  /\ UNCHANGED <<count, image>>
IfEnd ==
  /\ InBody
  /\ Last(open) \in {"if", "else"}
  /\ gen' = DefineTop(gen)
  /\ Closes

(***************************************************************************)
(* Switches.  A jump table is a record of its own kind; its site is queued *)
(* and patched when the table enters the pool.                             *)
(***************************************************************************)
\* sp_start_case
StartCase(g) ==
  [Emit(Insert(g, [Record("table", <<"table", g.off>>, 0, g.cur, Table(g)) EXCEPT !.list = {g.off}]),
        "SWITCH", Newest(g) + 1, 0, "switch")
     EXCEPT !.sym = Append(@, Newest(g) + 1),
            !.tables = Append(@, NoTable)]
Switch ==
  /\ Statement("switch")
  /\ Opens("switch")
  /\ gen' = PushLabel(StartCase(LoadConstant(gen, Value)))

TopTable(g) == Last(g.tables)
SetTable(g, t) == [g EXCEPT !.tables = Append(Front(@), t)]
\* sp_label_case_s
AddCase(g, c) ==
  SetTable(g, [TopTable(g) EXCEPT !.cases = Append(@, [const |-> ConstantAt(g, c), value |-> c,
                                                        target |-> g.off])])
Case(c) ==
  /\ Inside("switch")
  /\ Len(TopTable(gen).cases) < MaxCases
  /\ gen' = AddCase(PushConstant(gen, c), c)
  /\ UNCHANGED <<open, count, image>>
\* sp_default_case: the last default of a switch counts
Default ==
  /\ Inside("switch")
  /\ gen' = SetTable(gen, [TopTable(gen) EXCEPT !.default = gen.off])
  /\ UNCHANGED <<open, count, image>>

\* sp_end_case: without a default the table leads behind the switch
FinalTable(g) ==
  IF TopTable(g).default = 0 THEN [TopTable(g) EXCEPT !.default = g.off] ELSE TopTable(g)
EndCase(g, r) ==
  [Update(g, r, [g.recs[r] EXCEPT !.off = PoolEnd(g), !.list = {}])
     EXCEPT !.pool = Append(@, [at |-> PoolEnd(g), bytes |-> 3 + 4 * Len(TopTable(g).cases),
                                value |-> TableValue, tab |-> Table(g), table |-> FinalTable(g)]),
            !.code = Patch(g.code, g.recs[r].list, PoolEnd(g)),
            !.tables = Front(@), !.sym = Front(Front(@))]
SwitchEnd ==
  /\ Inside("switch")
  /\ gen' = NewLabel(EndCase(gen, gen.sym[Len(gen.sym) - 1]), TopName(gen))
  /\ Closes

(***************************************************************************)
(* Lambdas.  var v = function() { ... }, and the handler of a try block    *)
(* with an argument, which is a lambda that is called where it stands.     *)
(***************************************************************************)
\* sp_push_lambda, st_push_table: the frame is saved, the lambda has an empty table
PushLambda(g, r) ==
  [g EXCEPT !.saved = Append(@, [slots |-> g.slots, cur |-> g.cur, exit |-> g.exit]),
            !.tabs = Append(@, g.lastTab + 1), !.lastTab = @ + 1,
            !.slots = 0, !.cur = r]
\* sp_skip_lambda_body: the code around the lambda jumps over it
JumpOver(g) == [JumpTo(CreateLabel(g), "JMP", <<"gen", g.index>>, "skip") EXCEPT !.skip = Newest(g) + 1]
\* sp_start_lambda_decl and sp_execute_lambda_call; r is the record of the lambda
StartLambda(g) ==
  \* the name takes a number of the label counter
  LET named == [Insert(g, Record("func", <<"lambda", g.index>>, Undef, g.cur, 0)) EXCEPT !.index = @ + 1]
      inner == PushLambda(JumpOver(named), Newest(g) + 1)
  IN  Update(inner, Newest(g) + 1, [inner.recs[Newest(g) + 1] EXCEPT !.tab = Table(inner)])
\* sp_start_lambda_body: the variable of the result, the end label, SCTX
LambdaBody(g, r) ==
  LET entered == CreateVariable([Update(g, r, [g.recs[r] EXCEPT !.off = g.off]) EXCEPT !.cur = r],
                                g.recs[r].name)
  IN  [OpenFrame(entered) EXCEPT !.exit = Newest(entered) + 1]

\* Mutants: sp_pop_lambda forgets the slots, or the end label, of the function around.
PopLambdaKeepingSlots(g) ==
  [g EXCEPT !.tabs = Front(@), !.saved = Front(@),
            !.cur = Last(g.saved).cur, !.exit = Last(g.saved).exit]
PopLambdaKeepingExit(g) ==
  [g EXCEPT !.tabs = Front(@), !.saved = Front(@), !.slots = Last(g.saved).slots,
            !.cur = Last(g.saved).cur]
\* Mutant: the jump over the lambda is never patched.
PlaceNoSkip(g) == [g EXCEPT !.skip = Nobody]

\* sp_end_lambda_decl
PopLambda(g) ==
  [g EXCEPT !.tabs = Front(@), !.saved = Front(@), !.slots = Last(g.saved).slots,
            !.cur = Last(g.saved).cur, !.exit = Last(g.saved).exit]
PlaceSkip(g) ==
  IF g.skip = Nobody THEN g ELSE [NewLabel(g, g.recs[g.skip].name) EXCEPT !.skip = Nobody]
ClearLambda(g, r) == Clear(g, Locals(g, r))
EndLambda(g, r) == PlaceSkip(PopLambda(ClearLambda(CloseLambda(g, r), r)))

Lambda ==
  /\ Statement("lambda")
  /\ Opens("lambda")
  /\ gen' = PushSym(LambdaBody(StartLambda(gen), Newest(gen) + 1), Newest(gen) + 1)
\* sp_lz_load_lambda, then the assignment of the declaration around it
LambdaEnd(v) ==
  /\ Inside("lambda")
  /\ gen' = PopSym(StoreNew(EmitRef(EndLambda(gen, Last(gen.sym)), "F2O", Last(gen.sym), "ref"), v))
  /\ Closes

(***************************************************************************)
(* Try blocks.                                                             *)
(***************************************************************************)
\* sp_push_try_catch
Try ==
  /\ Statement("try")
  /\ Opens("try")
  /\ gen' = [gen EXCEPT !.tries = Append(@, [start |-> gen.off, cblock |-> 0])]

\* The jump behind the handler, the label of the handler, sp_set_cblock
StartCatch(g) ==
  LET jumped == JumpTo(PushLabel(g), "JMP", <<"gen", g.index>>, "try")
  IN  [PushLabel(jumped) EXCEPT !.tries[Len(g.tries)].cblock = jumped.off]
Catch ==
  /\ Inside("try")
  /\ open' = Append(Front(open), "catch")
  /\ gen' = StartCatch(gen)
  /\ UNCHANGED <<count, image>>

\* sp_pop_try_catch after the label behind the handler
Register(g, args) ==
  [g EXCEPT !.blocks = @ \cup {[start |-> Last(g.tries).start, cblock |-> Last(g.tries).cblock,
                                args |-> args]},
            !.tries = Front(@)]
CatchEnd ==
  /\ Inside("catch")
  /\ gen' = Register(DefineTop(PopSym(gen)), 0)
  /\ Closes

\* catch(v): the label of the handler serves as the record of the lambda; the record made for
\* the lambda only counts the arguments.
HandlerParam(g, v) == CreateVariable(g, v)
CatchArg(v) ==
  /\ Inside("try")
  /\ "catch_arg" \in Constructs
  /\ open' = Append(Front(open), "handler")
  /\ \E g \in {StartCatch(gen)} : \E h \in {HandlerParam(StartLambda(g), v)} :
       \* __cr leaves the stack, the lambda and __cr enter it
       gen' = EmitVar([LambdaBody(h, Last(g.sym)) EXCEPT
                         !.sym = Front(@) \o <<Newest(g) + 1, Last(g.sym)>>], "OBJPOP", v)
  /\ UNCHANGED <<count, image>>
\* the CALL of the handler, the label behind it, the registration with one argument
HandlerEnd ==
  /\ Inside("handler")
  /\ \E g \in {EndLambda(gen, Last(gen.sym))} :
       gen' = Register(DefineTop(PopSym(PopSym(EmitRef(g, "CALL", Last(g.sym), "try")))), 1)
  /\ Closes

(***************************************************************************)
(* The end of the script: sp_parse cleans the table, is_link_code makes    *)
(* the operands relative and appends the pool.                             *)
(***************************************************************************)
Parsed ==
  /\ Parsing
  /\ open = <<>>
  /\ gen' = [Clear(gen, Globals(gen)) EXCEPT !.done = TRUE]
  /\ UNCHANGED <<open, count, image>>

\* Mutant: the pool is taken to start at address 0.
LinkedArgUnmoved(c, size) ==
  IF c.ins \in Branches \cup PoolRefs THEN (c.arg - c.at) % Word ELSE c.arg

LinkedArg(c, size) ==
  CASE c.ins \in Branches -> (c.arg - c.at) % Word
    [] c.ins \in PoolRefs -> (c.arg + size - c.at) % Word
    [] OTHER -> c.arg
\* is_jumptable_reloc for the SWITCH at pc
RelocTable(t, pc, size) ==
  [default |-> (t.default - pc) % Word,
   cases |-> [i \in DOMAIN t.cases |->
                [t.cases[i] EXCEPT !.const = (@ + size - pc) % Word,
                                   !.target = (@ - pc) % Word]]]
SwitchOf(code, e) ==
  {i \in DOMAIN code : code[i].ins = "SWITCH" /\ code[i].arg = e.at}
RelocEntry(code, e, size) ==
  IF e.value # TableValue \/ SwitchOf(code, e) = {} THEN e
  ELSE [e EXCEPT !.table = RelocTable(@, code[CHOOSE i \in SwitchOf(code, e) : TRUE].at, size)]

\* is_link_code
Link ==
  /\ gen.done
  /\ image = NoImage
  /\ image' = [code |-> [i \in DOMAIN gen.code |->
                           [gen.code[i] EXCEPT !.arg = LinkedArg(gen.code[i], gen.off)]],
               pool |-> [i \in DOMAIN gen.pool |-> RelocEntry(gen.code, gen.pool[i], gen.off)],
               size |-> gen.off]
  /\ UNCHANGED <<gen, open, count>>

Done == image # NoImage /\ UNCHANGED vars

Next ==
  \/ \E f \in Functions : FunctionStart(f) \/ Declare(f) \/ Call(f)
  \/ \E f \in Functions, v \in Variables : Reference(f, v)
  \/ \E v \in Variables : Var(v) \/ LambdaEnd(v) \/ CatchArg(v)
  \/ \E l \in UserLabels : Goto(l) \/ Label(l)
  \/ \E c \in 1 .. MaxCases : Case(c)
  \/ FunctionEnd \/ Return \/ ReturnValue \/ Break \/ Continue
  \/ While \/ WhileEnd \/ If \/ Else \/ IfEnd
  \/ Switch \/ Default \/ SwitchEnd
  \/ Lambda \/ Try \/ Catch \/ CatchEnd \/ HandlerEnd
  \/ Parsed \/ Link \/ Done

Spec == Init /\ [][Next]_vars

(***************************************************************************)
(* How the virtual machine reads the image.                                *)
(***************************************************************************)
\* CALL, JMP, JTRUE, JFALSE, OBJCONST and SWITCH add the pc, a function value is absolute
VmTarget(c) == IF c.ins = "F2O" THEN c.arg ELSE (c.arg + c.at) % Word

EntryAt(address) == {e \in Range(image.pool) : image.size + e.at = address}
SourceTable(at) == CHOOSE e \in Range(gen.pool) : e.at = at

(***************************************************************************)
(* Properties.                                                             *)
(***************************************************************************)
Sites(r) == {c \in Range(gen.code) : c.ref = r /\ c.ins \in Branches \cup {"F2O"}}
Linked == image # NoImage
GaveUp == \E e \in gen.errors : e[1] = "MULTI_FUNCTION"

\* Every symbol is defined by its address or still waited for, and the code is a sequence
\* of instructions without holes (is_gencode returns the size it wrote).
TypeOK ==
  /\ \A r \in DOMAIN gen.recs : /\ gen.recs[r].kind \in {"label", "func", "var", "table"}
                                /\ gen.recs[r].off \in {Undef} \cup Nat
                                /\ gen.recs[r].parent \in {Nobody} \cup DOMAIN gen.recs
                                /\ gen.recs[r].list \subseteq 0 .. gen.off
  /\ \A i \in DOMAIN gen.code : gen.code[i].at = IF i = 1 THEN 0
                                                 ELSE gen.code[i - 1].at + Size(gen.code[i - 1].ins)
  /\ gen.cur \in {Nobody} \cup DOMAIN gen.recs
  /\ count \in 0 .. MaxStatements
  /\ Len(open) <= MaxNesting

\* The list a record keeps for backpatching holds exactly the sites whose operand is not
\* its address yet; a defined symbol has no list and all its sites hold its address, as far
\* as 16 bits hold it.
PendingExact ==
  \A r \in DOMAIN gen.recs :
    gen.recs[r].kind \in {"label", "func"} /\ gen.recs[r].tab \in Range(gen.tabs) =>
      IF gen.recs[r].off = Undef
      THEN gen.recs[r].list = {c.at : c \in Sites(r)}
      ELSE gen.recs[r].list = {} /\ \A c \in Sites(r) : c.arg = gen.recs[r].off % Word

\* Every operand of the linked image, decoded as the machine does it, leads to what the
\* compiler meant: a jump to its label, a constant to its entry of the pool, a switch to
\* the table whose cases lead to their constants and to their statements.
ImageDecodes ==
  Linked =>
    \A c \in Range(image.code) :
      /\ c.ins \in Branches \cup {"F2O"} /\ gen.recs[c.ref].off # Undef =>
           /\ VmTarget(c) = gen.recs[c.ref].off
           /\ \E d \in Range(image.code) : d.at = VmTarget(c)
      /\ c.ins = "OBJCONST" => \E e \in EntryAt(VmTarget(c)) : e.value = c.ref
      /\ c.ins = "SWITCH" =>
           \E e \in EntryAt(VmTarget(c)) : \E t \in {SourceTable(e.at).table} :
             /\ e.value = TableValue
             /\ (e.table.default + c.at) % Word = t.default
             /\ \A i \in DOMAIN t.cases :
                  /\ (e.table.cases[i].target + c.at) % Word = t.cases[i].target
                  /\ \E k \in EntryAt((e.table.cases[i].const + c.at) % Word) :
                       k.value = t.cases[i].value

\* A finished function or lambda reserves with SCTX what it releases with RCTX, and each
\* variable its own code touches lies inside that frame, lambdas in between or not.
FrameCovers ==
  \A d \in Range(gen.code) : d.ins = "RCTX" =>
    \A c \in Range(gen.code) : c.fn = d.ref =>
      /\ c.ins = "SCTX" => c.arg = d.arg
      /\ c.ins \in {"OBJPUSH", "OBJPOP"} => c.arg < d.arg

\* When the script was read to its end, the jumps of its loops, conditions, try blocks and
\* returns are all patched and lead to code of the function they stand in, also around and
\* inside of lambdas; so do break and continue where they name a label of that function.
BranchesStayHome ==
  gen.done /\ ~GaveUp =>
    \A c \in Range(gen.code) :
      /\ c.src \in {"while", "if", "try", "return"} => gen.recs[c.ref].off # Undef
      /\ /\ c.ins \in {"JMP", "JFALSE"}
         /\ c.src # "goto"
         /\ gen.recs[c.ref].parent # Nobody
         /\ gen.recs[c.ref].off # Undef
         => \E d \in Range(gen.code) : d.at = c.arg /\ d.fn = c.fn

\* The jump over a lambda is patched, unless another lambda stands in its body: there is
\* one _sp_skip_function_body for all of them.
LambdaSkipped ==
  gen.done =>
    \A c \in Range(gen.code) : c.src = "skip" =>
      \/ gen.recs[c.ref].off # Undef
      \/ \E b, d \in Range(gen.code) : /\ b.ins = "SCTX" /\ b.at = c.at + Size("JMP")
                                       /\ d.src = "skip" /\ d.fn = b.ref

\* "reserve the address location for backpatching" (sp_end_function_call): a call, jump or
\* function value that was never patched is reported as an unreferenced symbol.
UnresolvedReported ==
  Linked =>
    \A c \in Range(image.code) :
      c.ins \in Branches \cup {"F2O"} /\ gen.recs[c.ref].off = Undef
        => <<"UNREF", c.ref>> \in gen.errors

=============================================================================
