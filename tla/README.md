# OrbWeaver: TLA+ specifications, model checking and proofs

OrbWeaver is a scripting language: a compiler (`glome`) turns scripts into
packages of byte code, a virtual machine (`torus`) runs them, also as a web
server. This directory specifies the parts of it that are hard to test: the back end
of the compiler; in the runtime the heap, the reference-counting collector, the two
stacks in one array, try blocks and threads; in the host the web server and the
database layer.

## Inventory

| Part | State | Operations | Interacts with | Hard behaviour |
|---|---|---|---|---|
| midgard heap (`StackVM/midgard*.c`) | linked list of chunk headers inside one memory area | `m_alloc`, `m_free`, `m_shift_next_chunk` | called by the machine for every value | first fit at the boundary, double and foreign releases, chunks moved under their users |
| virtual machine (`vm_stack.c`, `vm_stack_apis.c`) | `vm_instance`: heap, `vm_stacks` with operands and frames, `sp`, `bp`, `pc`, state | one per instruction of `vm_decode`; `vm_garbage_collect` after each | heap, system calls, native calls | counters of 4 bits, collector frees under its own iterator, stack limits, scratch memory on error paths |
| arrays and enumerators (`vm_framework.c`) | encoded array object; enumerator with a pointer into it | add, set, pop, dequeue, first, next | machine, collector (release callback) | an array is replaced by a new object at every change |
| native calls (`stack_abis_sysv_x64.c`) | none of their own | cast, call, unreference | machine | counters of arguments, missing methods |
| try and catch (`vm_stack.c`, `sem_proto.c`) | list of armed try blocks with snapshots of the stacks | arm, disarm, locate, handle | every instruction, compiler | nested exceptions, jumps and returns out of a block, addresses that two blocks share |
| script threads (`vm_framework.c`) | `va_thread_arg`, the child's machine on its own stack | create, start, stop, task | two threads without any lock | publication of a stack address, cancellation, join |
| linker and package encoder (`Stack/pkg_*.c`) | class and method lists | select, encode, decode | compiler and machine | references across packages |
| code generation (`sem_proto.c`, `il_streamer.c`, `sym_table.c`) | symbol tables with lists of sites, stacks of labels, code buffer | one per grammar rule | encoder, machine | forward references, relocation, nested scopes and lambdas |
| optimizers (`il1_optimizer.c`, `il2_optimizer.c`) | instruction list | rewrites | code generation | none: never run |
| web server (`StackHost/core/http.c`, `https.c`, `stack_port.c`) | connections, descriptors, the static pointer of `strtok` | accept, read, look up, run, answer, close | sockets, machine, one thread per plain connection | partial reads, hang-ups, threads that share `strtok`, descriptors that run out |
| database layer (`StackHost/dal`, `va_dal_*`) | connections, prepared statements, results, cursors | connect, prepare, execute, query, read, seek, close | PostgreSQL, scripts | a lost or refused session, objects of the script that outlive the structure they point to |
| host API (`StackHost/stack`) | class cache, listeners | load class, listen, call back | machine, threads | callbacks from other threads |

Third-party or generated code (libcgi, WolfSSL, WolfCrypt, Jansson, http_parser,
minIni, crypto, `POSIX/`, the flex and bison output) is left out.

What makes each part correct: the heap never hands out memory in use and refuses
only when it is full; the machine never lets a script reach memory that was given
back, and its collector neither frees what is reachable nor keeps what is not; a
frame returns to where it was called; a stop ends a thread without using memory
of either side after it is gone, and arguments arrive; a jump leads to the label
that was written, whatever comes between; an exception reaches the innermost handler
around it with the stacks its code expects; a request runs the script of its URL and
is answered, and costs no descriptor for ever; a database connection is closed once,
its results live no longer than it does, and a cursor delivers every row once.

## Modules

* `HeapContract` - what users of a heap rely on: blocks that never overlap.
* `MidgardHeap` - the chunk list as pure operators. A chunk is `[at, size]`; the
  list is a sequence from the root to the terminal header. `m_alloc`, `m_free` and
  `m_shift_next_chunk` are functions of that sequence.
* `Midgard` - a heap with arbitrary users: `Alloc`, `Free` of any pointer, `Shift`.
* `VmStack` - one machine on top of `MidgardHeap`. `ctx` is the `vm_instance`
  (`chain` the heap, `mem` the objects on it with their reference byte, lock and, in an
  enumerator, the array it points to; `st`, `sp`, `bp` the stacks), `frames` are the
  calls in progress as the compiler knows them, `gc` is the iterator of the
  collector. Each instruction is one action that includes the overflow test at the
  end of the loop of `vm_decode`; the collector's walk is one step per chunk.
  Lengths are bytes of the 64-bit Linux build. What the program computes is left out:
  `frames` and the depth of the operand stack restrict it to code the compiler can
  emit (operands exist when they are popped, variables belong to the frame); a frame
  records the slot of its first variable. A length that is read from freed memory may be
  anything (`LensAt`). A constant longer than `VA_OBJECT_MAX_SIZE` is not loaded
  (`ConstantTooLong`). Numbers are copied as text into a scratch buffer of 12 bytes whatever
  their length; a text that reaches the next header ends the model in `CRASH`
  (`NumberOverruns`). An array function that is given a native instance calls its method and
  pushes the arguments again first (`ArgNative`).
* `VmThread` - a script and the thread it starts. The accesses of both to the shared
  block, to the child's machine and to reference counters are separate steps. The counter has
  four bits and stops at 15, as in `vm_object_ref`; an object may be passed twice; a failing
  `pthread_create` goes unnoticed and leaves a `pthread_t` that was never written; arguments
  beyond the 14 that are copied (`CloneLimit`) are whatever the array held.
* `CodeGen` - the compiler back end. One action is one production of the grammar; the
  parser offers them in every legal order, so the behaviours are the scripts. A symbol
  record holds its address and the list of sites that wait for it; a lambda pushes a
  symbol table of its own, and its body stands in the code of its parent, which jumps
  over it. Operands keep their width: one byte for slots and frames, two for addresses.
  `Link` makes the operands relative, and the operators at the end of the module
  decode them as `vm_decode` does, so that `ImageDecodes` compares what the script says
  with where the machine goes. The order of the emitted code is that of the queues of
  `sem_proto.c`: the store of a returned value is flushed behind the jump and never executed,
  a function's load of its result is lost because its scope is closed by then (a lambda's is
  not), and constants are shared within one symbol table.
* `VmTryCatch` - a script is written statement by statement and then executed. The
  writing half yields addresses as the compiler lays them out, the executing half is
  `vm_decode` reduced to pc, operands, frames and the list of try blocks; any operation
  may raise. `vm_locate_tcblock` runs after each instruction and knows only addresses.
* `HttpServer` - clients, the accepting tasks and the serving threads. A request is counted in
  units: two for the request line, the first of which ends somewhere in the URL, one for the
  header, which is not split, and the units of the body. A read takes what was sent
  until then, up to the size of its buffer. If the first one ends in the URL, the parser
  reports what there is of it, which may end in the middle of a name (`Cuts`). The walk over the
  components of a URL is one step per call of `strtok`, whose static pointer is the variable
  `tok`, the extra call behind an unknown name included (`Spill`). The arguments are found
  as the code finds them, by a byte offset: `Size` and `Start` give the bytes of names and
  slashes, an empty component stands between two slashes in a row.
* `Dal` - the objects of the script (`ctx`, `cur`) and the structures they point to
  (`conn`, `res`) by address. `dal_close` frees a structure and a later one may get
  its address; the server may refuse, lose the session or fail a statement. A query may itself
  drop prepared statements (`DEALLOCATE`, `DISCARD ALL`); the session is then `"cleared"`. A
  context may be copied with its status (`vm_clone_object`, for the argument of a thread) and
  the copy closed again; cursors are not copied in the model.
* `MCMidgard`, `MCVmStack`, `MCVmThread`, `MCCodeGen`, `MCVmTryCatch`, `MCHttpServer`,
  `MCDal` - instances for TLC.
* `MidgardHeapProofs` (lemmas about the operators of `MidgardHeap`), `MidgardProofs`,
  `Iteration` (what a loop of `n` passes is, for proofs about `VmStack`), `VmStackProofs`,
  `VmThreadProofs`, `DalProofs`, `HttpServerProofs`, `CodeGenProofs` - theorems checked by TLAPS.

## Runs

| Run | Checks | Result |
|---|---|---|
| `heap` | order of the list, blocks on chunks, nothing lost, completeness of first fit, refinement of `HeapContract` | holds |
| `vm_values` | scratch memory released on every path, counters cover references, collector spares what is reachable, stacks inside their array | holds |
| `vm_frames` | frames end at their return marks, nothing dangles while arrays that are not being enumerated are replaced and others are enumerated, one walk removes the garbage, the walk ends | holds |
| `thread` | abort and free never hit a side that is gone, an argument passed once lives until it is cloned, a stop returns | holds |
| `codegen` | every site is patched exactly when its record is defined, operands decode to what was meant, frames have room for their variables, jumps stay in their function, the body of a lambda is jumped over | holds |
| `trycatch` | armed blocks are those around the pc and its callers, exceptions go to the innermost, frames and operands fit the handler, the run ends | holds |
| `http` | descriptors accounted for, the script that was asked for runs with its arguments, bodies are read whole where the first read ended with the header or the request, a plain request that came in one piece is answered | holds |
| `dal` | one owner per connection, no result outlives its connection, statement list and server agree, rows come in order | holds |
| `vm_delete` | no dangling variable after `OBJDEL` of a variable | violated |
| `vm_callback` | the collector only releases objects | violated |
| `thread_args` | the thread gets the arguments that were locked for it | violated |
| `codegen_calls` | a call of a function that is not there yet is patched or reported | violated |

Each finding in `PROJECT.json` quotes the line of the repository that says otherwise.

The passing runs exclude by constants, or mark by history variables, what the code is
known to do wrong, so that they speak about everything else:

* `VmStack`: `DiscardsShared = FALSE` (a program that never deletes an object in use);
  `ModifiesEnumerated = FALSE` (with `TRUE`, a loop that adds to its own array leaves an
  enumerator that points to the old one, and `NoDangling` fails); stacks too short for
  16 references (with longer ones the four-bit counter wraps and `CountCovers` fails).
  `CountCovers` is about counters only: the lock of an array does not cover its enumerators,
  because a native method that is given the array takes the lock back
  (`stack_abis_sysv_x64.c:236`, `vm_stack.c:58`);
  in `vm_values`, a machine started by `vm_init_exec`. `vm_frames` starts callbacks too,
  with an argument of 88 bytes: there the machine stops in the state `CRASH`.
* `VmThread`: `PassedOnceStaysAlive` is about objects that are passed once, and `MaxVars` keeps
  the counter below its limit. With `MaxVars = 15` (two objects, 29 accesses) the property is
  violated: the lock of an object that 15 variables hold is not counted, their 15 releases are,
  and the thread copies freed memory. An object that is passed twice may be freed between its
  two copies, when the thread's release of the first one overwrites a count of the script.
* `VmTryCatch`: the comment on `AllShapes` names the shapes of scripts on which the machine
  loses track of its operands or its blocks. With `"void"` a function that is called may end
  without returning a value: the load of its result was lost in the compiler
  (`sp_destroy_scope` in front of `sp_load_stack`, `sem_proto.c:836-838`, although the comment
  there says "load return value"), the `OBJDEL` behind the call removes an operand too many, and
  in a try block the loop that pops down to the snapshot runs away. `OperandsBalanced`,
  `FramesAligned` and `RaiseFindsInnermost` are then violated. In the run every function that is called
  ends with a `return` of one, which stays on the stack because the store behind the jump is
  dead, and the function that is executed may end as it likes. Not written at all: a
  `break` in a catch block or a handler, for which the code takes the label of the try statement
  in place of the loop's. `ArmedAreEnclosing` fails with `"touching"` (one
  block begins at an address where another begins or ends), `"call_up"` (to the machine a call
  of the same or of a later function looks like entering or leaving the caller's block) and
  `"continue"` (a jump backwards out of a block); `"break_deep"` and `"return_deep"` leave more
  blocks at once than the following instructions remove, and need longer scripts to show. An
  exception that leaves a function unwinds operands but not frames; from then on `crossed` is
  true and the safety properties no longer apply.
* `HttpServer`: `mixed` marks a connection whose walk over the URL was disturbed by the
  `strtok` of another thread, `garbled` one whose beginning was lost in the read
  through a pointer that `http_thread` never sets, or whose first read ended in the URL, so that
  the script of a part of it runs. `RunsWhatWasAsked` is about the others, and about URLs without
  slashes in a row: the offset of the arguments counts one slash per name (`http.c:515`), so
  '/n//p/x' runs the script p of directory n with the arguments p and x; `BodyWhole` says in its precondition for which first
  reads the body is whole. Pages that were served never close their
  file; `FdsAccounted` counts them.
* `Dal`: a context or cursor is `stale` when its structure was freed, and `wild` is set when
  it is used after that. The properties about what scripts see hold until then. `OneOwner`
  leaves out connections with a `copied` context, which two objects may close, and
  `StatementsAgree` is about sessions that are `"up"`.

More the models show, and no property asks: `seek(k)` followed by a read delivers row
`k + 1`; a prepared `SELECT` fails because only `PGRES_COMMAND_OK` is accepted; the memory
of a refused connection is not released.

### Bounds

* Heap: 19 bytes, headers of 2, requests of 1, 3 and 5: up to five chunks, gaps that
  are smaller than, equal to and larger than a request, and a full heap. Every
  pointer value is released, not only valid ones. The first terminal's unwritten size
  is 0 or 7.
* `vm_values`: heap of 236 bytes (three or four objects, so that it runs out),
  8 stack slots, functions with up to two variables, values of 8 and 12 bytes, the second
  too long for the scratch buffer of a number. `VA_OBJECT_MAX_SIZE` is 8 instead of 4096,
  so that constants of 12 bytes are too long.
* `vm_frames`: heap of 300 bytes, 10 slots (three nested calls), one variable.
* `thread`: two objects, up to three arguments of which two are copied (`CloneLimit` is 14 in the
  code), three accesses of the script to its own variables while the thread starts.
* `codegen`: four statements over two functions, one label and one variable, three levels
  of nesting and switches of two cases: enough for a jump over a lambda in a loop, a goto
  in both directions, a call before and after its function, and a break, a continue
  and a return out of each construct. Function names are symmetric. An image of 64 KB
  or a function with 256 variables, where operands wrap, is out of reach.
* `trycatch`: four statements in two functions, all nested if need be, one true condition
  per execution and ten stack slots: two blocks around each other or one after the
  other, a handler that raises again, a callee that raises into its caller's block. The
  stack is so short that the overflow test raises too, inside calls of a handler.
* `http` starts in two ways (`MCInit`). One plain and one secure connection and two descriptors,
  so that an accept can fail after a page was served; one of them does a `GET` of a script with an
  argument and no body, the other a `POST` of a page (which cannot be opened when the descriptors
  are used up) with a body of one unit. Or a plain connection alone, after a secure one whose
  handshake failed: all methods and one that is not allowed; the root, a page, a name that nothing has,
  scripts with and without arguments, directories without a default class and with a
  directory of that name (whose missing byte code ends the process), and slashes in a row; no
  body, and bodies shorter than the header and as long, one of which fills the buffer of the
  first read. Requests are cut in the URL, behind the request line, behind the header and in the
  body.
* `dal`: two contexts, cursors and addresses each, so that an address is used again
  while an old object still points to it; replies of none, one and three rows and of
  two rows without columns; two statements, one name and the empty name; reads past the
  last row. With two contexts, a copy leaves none to open a connection at the address that was
  freed through it; the proofs cover that.

States after a crash or an exception without a handler are final; so are scripts that
have ended. That is why deadlock is not checked in the machine and thread runs. A server
waits for clients, who may never come, so `http` does not check it either. `codegen`, `trycatch` and
`dal` check deadlock; their final states stutter explicitly.

### Fairness

`CollectorTerminates` assumes weak fairness of the collector's step: it is a loop of
one thread. `StopReturns` assumes that the operating system runs both threads and that
the function of the thread ends or reaches a cancellation point. The second half is
about the script, not about the code: the model shows (`TaskDecode`) that an abort
which comes just before `vm_decode` starts is overwritten, so a function that never
ends and never prints or sleeps is joined for ever.

`RunEnds` assumes weak fairness of the interpreter, which is one loop, and scripts whose
loops end (`MaxIterations`): what it excludes is a machine that goes round a handler for
ever. `PlainAnswered` assumes that the operating system runs each serving thread and the
accepting tasks; clients are not assumed to do anything.

## Proofs

All theorems hold for every value of the constants under the named assumptions of the
modules: `HeapAssumption` (positive header size, room for two headers), `UsersAssumption` (no
empty request), `VmAssumption` (sizes of structures are positive, seven stack slots, which a
callback with its argument needs),
`ThreadAssumption` (no function has more arguments than the block has room for), in `Dal` that
there is an empty name and that a reply has tuples which either all have a column or none has
(`PQntuples` and `PQnfields` of one result), in `CodeGen` that a switch has at most 31 cases
(`is_jumptable_reloc` reads the length of a table from one byte), and in `HttpServer`

* `ConnsAssumption` and `SizesAssumption`: finitely many connections, a buffer that is longer
  than a request line and a header (32768 bytes in `http_read_request`);
* `BytesAssumption`: components of a URL follow each other with one slash in front of each;
* `RequestsAssumption`: a URL is a sequence of components, a body has a length or none is
  given, which is what `http_parser` delivers for the well-formed requests of the model;
* `TreeAssumption`: scripts and directories form a tree. `net_entry_select` walks the entries
  that were built from the directories on disk, so whatever has an entry is in a directory
  that has one, and it returns the first entry of a name, so a name is either a script or a
  directory (a directory comes first and hides a script of its name).

`MidgardProofs`, on top of `MidgardHeapProofs`: `TypeCorrect`, `ChainStaysOrdered`, `HeldStaysOnChain`,
`NothingIsLost`, `RefusesOnlyWhenFull`, and `Refinement`, that the list implements
`HeapContract`. The properties are not inductive one by one: a release needs to know
that each block is a chunk, a move that the list is ordered. The inductive invariant
is `Accounts`: the list is well formed (`WellFormed`: typed, inside the heap, ordered,
no empty chunk but the root) and the blocks in use are the bodies of its chunks. The
argument goes through one lemma per edit of the list (insert into a gap, extend at the
end, replace a chunk between its neighbours, remove a chunk), each of which keeps
`WellFormed`; then one lemma per operation. That the walk of `m_alloc` ends at a first
gap is the least-element principle on naturals.

`VmStackProofs`: `MachineSound`, and from it `TypeCorrect`, `HeapStaysInAgreement`,
`FramesStayAligned`, `OneWalkIsEnough` and `ClassesCollectObjects`, for every heap, stack, set of
lengths and program. The runs exclude by `DiscardsShared`, `ModifiesEnumerated` and the
length of the stack what makes variables dangle; the theorems do not. They say that the
operations of the machine keep the list of chunks, the frames and the walk of the collector
sound whichever objects they are given, also ones that were freed before. They do not say
what a counter that is written through a dangling pointer does to the memory it hits: in the
model such a write changes no object and no header. `HeapStaysInAgreement` holds up to a crash,
and the copy of a number over the end of its 12-byte buffer is one: what overwritten headers do
is not modelled.

* The inductive invariant is `Inv`: the chunks of the list are the objects and nothing else,
  each long enough for the fields of an object (`HeapInv`); return marks are in the slots of
  the frames and never among operands (`StacksInv`); the frames lie one behind the other
  between their marks (`FramesInv`); what the collector has passed in this walk is no garbage
  unless it made some itself (`GcInv`). `HeapAgrees` alone is not inductive: `RET` and the
  collector's redirection need the stacks, `RCTX` needs the frames, and `OneWalkIsEnough` needs
  the position of the iterator.
* An instruction is a composition of operators on a machine. Between them the machine is
  `Good`: its heap holds the objects and in addition the scratch buffers `B` that are still to
  be released; the ends of its stacks and the set of return marks are given; or it has
  crashed. There is one lemma per operator (a create adds to the heap, a release takes from `B`, a
  push moves one end) and one per instruction, which ends with `B` empty: that is why
  no path of an instruction leaks a buffer. The heap part of each lemma comes from
  `MidgardHeapProofs`.
* `SCTX`, `RCTX` and the pops repeat a step. `Iteration` proves what a recursive function on
  `0 .. n` is at each argument; the invariant after each pass then follows from a least
  counterexample, not from an induction theorem.
* A step of the collector either frees and unlinks, or moves garbage that follows
  down and redirects the slots that still name it, or only advances. `ShiftHeap` and its neighbours say that the
  chunks in front of the iterator are untouched.
* Hypothesis `RootKept`: the entry points include no callback, or no program discards an object
  in use. A callback starts on an empty root chunk. `m_free` joins it with the terminal
  when it is called with nothing on the heap, which takes a second release of the only
  object; from then on a buffer may be the root chunk, which `m_free` never unlinks.
  All runs with passing properties satisfy `RootKept`, and each half of it is satisfied by one.
* `ClassesCollectObjects` (hypothesis `RootTaken`: no callback) states the property that the run
  `vm_callback` refutes. The mistake it shows is confined to callbacks.

`VmThreadProofs`: `TypeCorrect`, `AbortIsSafe`, `BlockIsSafe` and `ArgumentsStayAlive`. The
invariant `Handshake` says why the first ones hold: the thread leaves its stack only after a
request or a cancellation, both of which `va_thread_stop` sends after it has closed the
handle of the script, and no operation gets past a closed handle. `ArgumentsStayAlive` needs
`Lock` in addition: an argument that the thread has still to clone is counted once more than
there are variables of the script that hold it, and an update of such a counter which the
script has read and not yet written is not overtaken, because the thread counts down only
what it has come to. It has the hypothesis `FewVars`, that the script holds an object in at most
14 variables, so that the lock still fits into the counter, and is about objects that are passed
once.

`DalProofs`: `TypeCorrect`, `ClosedOnce`, `FreedWithTheirConnection`, `NamesStayTrue` and
`RowsInOrder`. The steps fall into a few kinds (a connection opens or closes, a result is
added, a statement is prepared, a cursor reads or moves, a session is lost), and every action is shown to be of one of them; the
invariants are then proved per kind. `Ownership` is the invariant behind the first two: each
connection with a session has one context that may close it, unless that was copied (`Owners`), each live result is in
the list of its connection once and in no other, free memory has no list (`Lists`), and one
cursor that is not stale stands for each live result (`Stands`). Together they are inductive,
although a freed address comes back with the next connect or query. `NamesStayTrue` rests on
the order of `PQprepare` and the list entry: the server accepts a name before the list gets
it. `RowsInOrder` needs `Position`,
which ties the enumerator, the offset and the rows delivered so far together at the start, in
the middle, at the last row and at the end, and only for cursors whose structure was never
used after its release.

`HttpServerProofs`: `WholeBodies`, `DescriptorsAccounted` and `LookupFollows`, on top of the
invariant `Sound` (types, and per connection what was sent, read and still needed, and that
nothing is looked up or opened before the request was parsed). For the descriptors each step
is classified (`FdStep`: nothing, one connection enters or leaves, one page opens) and the
cardinalities follow. `LookupFollows` states `RunsWhatWasAsked` for any tree, names of any size and any
number of threads; the property itself is about request lines that were read whole and URLs
without slashes in a row. Its invariant `Following` says, for a connection that was not mixed: the
components it has are a beginning of its URL, and the pointer of `strtok` is in its own path
behind exactly these, and the byte offset is where they end. A step of another thread either leaves the pointer alone or marks the
connection as mixed. The lemmas `MeantScript` and `MeantItself` say that in a tree the first
script on the way is the only one, so the walk that stops there has found what the URL means.

`CodeGenProofs`: `CompilerSound`, and from it `TypeCorrect` and `NoJumpForgotten`, which is
`PendingExact` for scripts of any length, with any names and at any depth of nesting. The
inductive invariant is `Sound`. Its first half `Gen` relates records and code: addresses
increase without a gap, a list holds addresses of instructions that refer to its record, a jump
to a record without an address is on its list and a jump to one with an address holds it. That
is not inductive, because two routines write over code that is already there: the end of a
function patches `SCTX` at the address of the function, and the end of a switch patches `SWITCH`
at an address its table kept. If the symbol these routines pop were another one, they would
write over a jump. So the second half `Nested` says what lies on the stack of symbols: at the
address of the record of a function, a lambda or a handler stands `SCTX`, and under the label of
a switch lies its table. Which entry of the stack that is follows from the heights of the three
stacks below each open construct (`Heights`), a function on the positions of `open`, so no
induction over the script is needed. Each routine is shown to be a `Step` (the stacks stay) or a
`Move`; no routine takes back an address or moves an instruction (`Grows`); one lemma per
production composes them. `PendingExact` compares addresses modulo 2^16, as far as an operand
holds them.

Inductive invariants were checked by TLC on small instances before they were proved.

Model-checked only:

* liveness (`CollectorTerminates`, `StopReturns`, `RunEnds`, `PlainAnswered`), which the prover
  does not cover;
* `NoDangling`, `CountCovers` and `GcSparesReachable` of `VmStack`. They hold only while no value
  has 16 uses at once (the counter has four bits), which the runs ensure by short stacks; for
  every stack they are false, and a hypothesis on the number of references is a
  property of the program and not of a constant;
* the other properties of `CodeGen`. `ImageDecodes` and `FrameCovers` hold only for images below
  64 KB and functions of fewer than 256 variables, and would need these as hypotheses;
  `ImageDecodes` depends on the pool as well. `BranchesStayHome` and `LambdaSkipped` speak of
  regions of the code, for which the invariant would have to say which part of the code each
  open construct covers;
* `VmTryCatch`: its properties compare an execution with a script, and scripts longer than
  the run's are not known to be free of the shapes that break it.

## Not modelled

* Machine: writes through dangling pointers into memory that has another use by then, and
  writes behind the end of `vm_stacks` (by `SCTX`, before the overflow test); values, strings and the encoding of arrays; the list of immutable objects;
  register passing of native calls (assembly); a second level of `vm_decode` inside a
  native call. In `VmStack` an exception ends the run, in `VmTryCatch` it does not.
* Compiler: the scanner and the tables of the parser (generated); expressions beyond one
  constant, classes, arguments, `for`, `foreach` and `do` loops in `CodeGen`. The optimizers
  are reached by no call: every caller of `is_link_optimize` passes level 0.
* Packages: encoding to a file and back is sequential data conversion. One thing to know
  when reading `VmTryCatch`: `lk_decode_header` has no case for the tags of try blocks, so the
  model is of scripts that run in the process that compiled them.
* Web server: multipart bodies, header lists (and a read that ends in the header), mime types and
  TLS; the contents of an answer.
* Database: contents of rows; copies of cursors; `dal_release_result` and `dal_release_statement`, which nothing
  calls.
* Host: the loading of class files, and the socket API of scripts: I/O without state
  of its own.
* Third-party and generated code.

## Plan

1. Proofs: `BranchesStayHome` and `LambdaSkipped` of `CodeGen`, on top of `Nested`; `CountCovers` of
   `VmStack` with a counter as wide as the stack is long, on top of `Good`.
2. A leak run for `VmStack` (what `RCTX`, system calls and `OBJNEW` leave counted), and
   native calls, instances and enumerators together on a larger heap.
3. Immutable objects: the list that lives beside the heap and its unlinking.
4. Packages: decoder and linker as operators checked against a reference.
