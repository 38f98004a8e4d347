-------------------------------- MODULE Dal --------------------------------
(***************************************************************************)
(* The database layer of the host: connections, prepared statements and    *)
(* results of dal_core.c with its PostgreSQL backend dal_pgsql.c, as       *)
(* scripts use them through the va_dal_* functions of                      *)
(* stack_ext_framework.cpp.                                                *)
(*                                                                         *)
(* A script holds contexts (va_database_context) and cursors               *)
(* (va_database_result).  Both keep the address of a C structure that      *)
(* dal_close frees, and malloc may give the same address to a later        *)
(* structure.  A row is its number in the result, from 0.                  *)
(***************************************************************************)
EXTENDS Integers, FiniteSets, Sequences, SequencesExt

CONSTANTS Contexts,       \* context objects of the script
          Cursors,        \* cursor objects of the script
          ConnAddrs,      \* where malloc can place a dal_conn
          ResultAddrs,    \* where malloc can place a dal_result
          Names,          \* names of prepared statements, the empty one included
          Unnamed,        \* the empty name
          Replies,        \* what a query may return: tuples, and rows that have a column
          MaxRows,        \* tuples of a reply
          MaxReads,       \* largest offset of a cursor that is still read
          MaxStatements   \* statements in memory, of all connections

Null == -1                \* the NULL of enumerator and records
Texts == {"select", "command"}

ASSUME NamesAssumption == Unnamed \in Names
ASSUME BoundsAssumption == MaxRows \in Nat /\ MaxReads \in Nat /\ MaxStatements \in Nat

ASSUME RepliesAssumption ==
  /\ Replies \subseteq [tuples : 0..MaxRows, rows : 0..MaxRows]
  /\ \A a \in Replies : a.rows \in {0, a.tuples}

VARIABLES ctx,       \* the context objects: address of the connection and status
          cur,       \* the cursor objects: address of the result, offset, and what was read
          conn,      \* the connections in memory, by address
          res,       \* the results in memory, by address
          wild,      \* a pointer to a freed structure reached another one
          up         \* the process runs

vars == <<ctx, cur, conn, res, wild, up>>

FreeConn == [live |-> FALSE, session |-> "never", known |-> {}, statements |-> <<>>, results |-> <<>>]
FreeResult == [live |-> FALSE, conn |-> Null, tuples |-> 0, rows |-> 0, records |-> FALSE, enumerator |-> Null]
\* copied: another object may have the same address and status.
NoContext == [used |-> FALSE, conn |-> Null, status |-> FALSE, stale |-> FALSE, copied |-> FALSE]

\* from, seen, ended: the row the cursor was last moved to, the rows read since, and whether
\* a read found none; kept only as long as the cursor is not stale.
NoCursor == [used |-> FALSE, result |-> Null, offset |-> 0, stale |-> FALSE, from |-> -1, seen |-> <<>>, ended |-> FALSE]

Init ==
  /\ ctx = [x \in Contexts |-> NoContext]
  /\ cur = [k \in Cursors |-> NoCursor]
  /\ conn = [c \in ConnAddrs |-> FreeConn]
  /\ res = [r \in ResultAddrs |-> FreeResult]
  /\ wild = FALSE
  /\ up = TRUE

Crash == up' = FALSE /\ UNCHANGED <<ctx, cur, conn, res, wild>>
Nothing == UNCHANGED <<ctx, cur, conn, res, up>>

\* Reached through a context or a cursor, a live structure is another one when the script's
\* own was freed.
Reaches(x) == conn[ctx[x].conn].live
Follows(k) == res[cur[k].result].live
Strays(stale) == wild' = (wild \/ stale)

(***************************************************************************)
(* The server: a session knows the statements prepared in it by name.  An  *)
(* accepted statement gets a name that is new, or replaces the unnamed one.*)
(* A query drops the unnamed statement, and with DEALLOCATE or DISCARD ALL *)
(* in its text named ones too: the session is then "cleared".              *)
(***************************************************************************)
Open(c) == conn[c].session \in {"up", "cleared"}
Knows(c, n) == \E s \in conn[c].known : s.name = n
Forget(known, n) == {s \in known : s.name # n}
Accepts(c, n) == Open(c) /\ (n = Unnamed \/ ~Knows(c, n))
TextOf(c, n) == (CHOOSE s \in conn[c].known : s.name = n).text

Queried(c, kept) ==
  [conn[c] EXCEPT !.known = kept,
                  !.session = IF Open(c) /\ kept # Forget(conn[c].known, Unnamed) THEN "cleared" ELSE @]

SessionLost(c) ==
  /\ up /\ conn[c].live /\ Open(c)
  /\ conn' = [conn EXCEPT ![c].session = "lost", ![c].known = {}]
  /\ UNCHANGED <<ctx, cur, res, wild, up>>

(***************************************************************************)
(* Opening and closing.  A connection the server refuses stays in memory:  *)
(* its context has status 0, and close does nothing with that.             *)
(***************************************************************************)
va_dal_create(x) ==
  /\ up /\ ~ctx[x].used
  /\ \E c \in ConnAddrs, ok \in BOOLEAN :
       /\ ~conn[c].live
       /\ conn' = [conn EXCEPT ![c] = [FreeConn EXCEPT !.live = TRUE, !.session = IF ok THEN "up" ELSE "never"]]
       /\ ctx' = [ctx EXCEPT ![x] = [used |-> TRUE, conn |-> c, status |-> ok, stale |-> FALSE, copied |-> FALSE]]
  /\ UNCHANGED <<cur, res, wild, up>>

\* An argument of a new thread is a copy of the object with all its bytes, so a context that
\* is open gets a second one that may be closed too.  Cursors are not copied in the model.
vm_clone_object(x, y) ==
  /\ up /\ ctx[x].used /\ ~ctx[y].used
  /\ \E both \in {[ctx[x] EXCEPT !.copied = @ \/ ctx[x].status]} :
       ctx' = [ctx EXCEPT ![x] = both, ![y] = both]
  /\ UNCHANGED <<cur, conn, res, wild, up>>

Release(freed) ==
  /\ res' = [r \in ResultAddrs |-> IF r \in freed THEN FreeResult ELSE res[r]]
  /\ cur' = [k \in Cursors |->
               IF cur[k].used /\ cur[k].result \in freed
                 THEN [NoCursor EXCEPT !.used = TRUE, !.result = cur[k].result, !.offset = cur[k].offset, !.stale = TRUE]
                 ELSE cur[k]]

\* Bug: only the first result of the list is released.
ClearFirst(c) == Release({conn[c].results[i] : i \in {1} \cap DOMAIN conn[c].results})

dal_conn_clear_results(c) == Release(ToSet(conn[c].results))

dal_close(c) == dal_conn_clear_results(c) /\ conn' = [conn EXCEPT ![c] = FreeConn]

\* Bug: va_dal_close leaves the status as it is.
AfterCloseKeeping(x) ==
  [y \in Contexts |-> [ctx[y] EXCEPT !.stale = @ \/ (ctx[y].used /\ ctx[y].conn = ctx[x].conn)]]

AfterClose(x) ==
  [y \in Contexts |->
     [ctx[y] EXCEPT !.stale = @ \/ (ctx[y].used /\ ctx[y].conn = ctx[x].conn),
                    !.status = @ /\ y # x]]

\* A copy of a context that was closed frees the connection again, or the one in its place.
va_dal_close(x) ==
  /\ up /\ ctx[x].used
  /\ \/ /\ ctx[x].status /\ Reaches(x)
        /\ dal_close(ctx[x].conn)
        /\ ctx' = AfterClose(x)
        /\ Strays(ctx[x].stale)
        /\ UNCHANGED up
     \/ ctx[x].status /\ ~Reaches(x) /\ Crash
     \/ ~ctx[x].status /\ UNCHANGED vars

(***************************************************************************)
(* Statements and queries.  None of them looks at the status.              *)
(***************************************************************************)
\* A new result at the end of the connection's list, and the cursor the script gets for it.
dal_conn_create_result(c, k, answer, link) ==
  \E r \in ResultAddrs :
    /\ ~res[r].live
    /\ res' = [res EXCEPT ![r] = [FreeResult EXCEPT !.live = TRUE, !.conn = c,
                                                    !.tuples = answer.tuples, !.rows = answer.rows]]
    /\ conn' = [conn EXCEPT ![c] = [link EXCEPT !.results = Append(@, r)]]
    /\ cur' = [cur EXCEPT ![k] = [NoCursor EXCEPT !.used = TRUE, !.result = r]]

NoRows == [tuples |-> 0, rows |-> 0]

\* A row without columns has no data: pgsql_fetch_all keeps none of them.
Answers(c) ==
  CASE Open(c) -> Replies
    [] conn[c].session = "lost" -> {NoRows}
    [] OTHER -> {}

va_dal_query(x, k) ==
  /\ up /\ ctx[x].used /\ ~cur[k].used
  /\ \/ /\ Reaches(x)
        /\ \E a \in Answers(ctx[x].conn), kept \in SUBSET Forget(conn[ctx[x].conn].known, Unnamed) :
             dal_conn_create_result(ctx[x].conn, k, a, Queried(ctx[x].conn, kept))
        /\ Strays(ctx[x].stale)
        /\ UNCHANGED <<ctx, up>>
     \/ /\ Reaches(x) /\ ~Open(ctx[x].conn)
        /\ Strays(ctx[x].stale)
        /\ Nothing
     \/ ~Reaches(x) /\ Crash

dal_conn_create_statement(c, n, t) ==
  [conn EXCEPT ![c].statements = Append(@, [name |-> n, text |-> t]),
               ![c].known = Forget(@, n) \cup {[name |-> n, text |-> t]}]

\* Bug: the statement is kept without looking at the status of PQprepare.
RefusedKeeping(c, n, t) ==
  [conn EXCEPT ![c].statements = IF Len(@) < MaxStatements THEN Append(@, [name |-> n, text |-> t]) ELSE @]

\* The server refuses a name it knows and any text it cannot parse; it then still drops the
\* unnamed statement, and the connection's list stays as it is.
Refused(c, n, t) == [conn EXCEPT ![c].known = IF n = Unnamed THEN Forget(@, n) ELSE @]

InMemory == Cardinality({p \in ConnAddrs \X (1..MaxStatements) : p[2] <= Len(conn[p[1]].statements)})

va_dal_prepare(x, n, t) ==
  /\ up /\ ctx[x].used
  /\ \/ /\ Reaches(x)
        /\ \/ Accepts(ctx[x].conn, n) /\ InMemory < MaxStatements /\ conn' = dal_conn_create_statement(ctx[x].conn, n, t)
           \/ conn' = Refused(ctx[x].conn, n, t)
        /\ Strays(ctx[x].stale)
        /\ UNCHANGED <<ctx, cur, res, up>>
     \/ ~Reaches(x) /\ Crash

dal_conn_find_statement(c, n) == \E s \in ToSet(conn[c].statements) : s.name = n

\* Only the status of a command passes for success, so a prepared select gives no result.
Succeeds(c, n) == Knows(c, n) /\ TextOf(c, n) = "command"

\* A call that fails leaves everything as it is, and so may one that follows a freed address.
va_dal_execute(x, n, k) ==
  /\ up /\ ctx[x].used /\ ~cur[k].used
  /\ \/ /\ Reaches(x)
        /\ dal_conn_find_statement(ctx[x].conn, n) /\ Succeeds(ctx[x].conn, n)
        /\ dal_conn_create_result(ctx[x].conn, k, NoRows, conn[ctx[x].conn])
        /\ Strays(ctx[x].stale)
        /\ UNCHANGED <<ctx, up>>
     \/ /\ Reaches(x)
        /\ Strays(ctx[x].stale)
        /\ Nothing
     \/ ~Reaches(x) /\ (Crash \/ UNCHANGED vars)

(***************************************************************************)
(* Cursors.  The first read fetches all rows from the answer of the        *)
(* server; after that a read at offset 0 starts again, and any other one   *)
(* takes the row after the enumerator.                                     *)
(***************************************************************************)
First(rec) == IF rec.rows = 0 THEN Null ELSE 0

\* Bug: the row after the last one is the memory behind it.
RowAfterEnd(rec, i) == IF i = Null \/ i >= rec.rows THEN Null ELSE i + 1

RowAfter(rec, i) == IF i = Null \/ i + 1 >= rec.rows THEN Null ELSE i + 1

pgsql_fetch_all(rec) == [rec EXCEPT !.records = rec.rows # 0, !.enumerator = First(rec)]
Loaded(rec) == IF rec.records THEN rec ELSE pgsql_fetch_all(rec)
pgsql_fetch_first(rec) == [Loaded(rec) EXCEPT !.enumerator = First(rec)]
pgsql_fetch_next(rec) == [rec EXCEPT !.enumerator = RowAfter(rec, @)]

Fetch(k) ==
  IF cur[k].offset = 0 THEN pgsql_fetch_first(res[cur[k].result]) ELSE pgsql_fetch_next(res[cur[k].result])

Taken(k, row) ==
  IF row = Null
    THEN [cur[k] EXCEPT !.ended = ~cur[k].stale]
    ELSE [cur[k] EXCEPT !.offset = @ + 1, !.seen = IF cur[k].stale THEN @ ELSE Append(@, row)]

va_dal_result_read(k) ==
  /\ up /\ cur[k].used /\ cur[k].offset <= MaxReads
  /\ \/ /\ Follows(k)
        /\ \E rec \in {Fetch(k)} :
             /\ res' = [res EXCEPT ![cur[k].result] = rec]
             /\ cur' = [cur EXCEPT ![k] = Taken(k, rec.enumerator)]
        /\ Strays(cur[k].stale)
        /\ UNCHANGED <<ctx, conn, up>>
     \/ ~Follows(k) /\ (Crash \/ UNCHANGED vars)

SeekOffset(rec, fset) ==
  CASE fset = 0 -> 0
    [] fset # 0 /\ (fset >= rec.tuples \/ fset < 0) -> rec.tuples - 1
    [] OTHER -> fset

RowAt(rec, offset) == IF offset >= rec.rows THEN Null ELSE IF offset > 0 THEN offset ELSE First(rec)

Moved(k, offset) ==
  [cur[k] EXCEPT !.offset = offset, !.from = IF offset = 0 \/ cur[k].stale THEN -1 ELSE offset,
                 !.seen = <<>>, !.ended = FALSE]

\* Bug: seek leaves the enumerator where it is.
SeekedKeeping(rec, offset) == Loaded(rec)

Seeked(rec, offset) == [Loaded(rec) EXCEPT !.enumerator = RowAt(rec, offset)]

va_dal_result_seek(k, fset) ==
  /\ up /\ cur[k].used
  /\ \/ /\ Follows(k)
        /\ \E offset \in {SeekOffset(res[cur[k].result], fset)} :
             /\ res' = [res EXCEPT ![cur[k].result] = Seeked(@, offset)]
             /\ cur' = [cur EXCEPT ![k] = Moved(k, offset)]
        /\ Strays(cur[k].stale)
        /\ UNCHANGED <<ctx, conn, up>>
     \/ ~Follows(k) /\ Crash

Crashed == ~up /\ UNCHANGED vars

Next ==
  \/ \E c \in ConnAddrs : SessionLost(c)
  \/ \E x \in Contexts : va_dal_create(x) \/ va_dal_close(x)
  \/ \E x, y \in Contexts : vm_clone_object(x, y)
  \/ \E x \in Contexts, k \in Cursors : va_dal_query(x, k)
  \/ \E x \in Contexts, n \in Names, t \in Texts : va_dal_prepare(x, n, t)
  \/ \E x \in Contexts, n \in Names, k \in Cursors : va_dal_execute(x, n, k)
  \/ \E k \in Cursors : va_dal_result_read(k)
  \/ \E k \in Cursors, fset \in -1..MaxRows : va_dal_result_seek(k, fset)
  \/ Crashed

Spec == Init /\ [][Next]_vars

(***************************************************************************)
(* Properties.                                                             *)
(***************************************************************************)
Statement == [name : Names, text : Texts]
Context == [used : BOOLEAN, conn : ConnAddrs \cup {Null}, status : BOOLEAN, stale : BOOLEAN,
            copied : BOOLEAN]
Cursor == [used : BOOLEAN, result : ResultAddrs \cup {Null}, offset : Int, stale : BOOLEAN,
           from : Int, seen : Seq(Nat), ended : BOOLEAN]
Connection == [live : BOOLEAN, session : {"up", "cleared", "lost", "never"}, known : SUBSET Statement,
               statements : Seq(Statement), results : Seq(ResultAddrs)]
Result == [live : BOOLEAN, conn : ConnAddrs \cup {Null}, tuples : 0..MaxRows, rows : 0..MaxRows,
           records : BOOLEAN, enumerator : Int]

\* Type invariant: the structures of dal.h; an enumerator is NULL or a row that was fetched
\* (pgsql_fetch_first, pgsql_fetch_next and the loop of va_dal_result_seek stay in the list).
TypeOK ==
  /\ up \in BOOLEAN /\ wild \in BOOLEAN
  /\ ctx \in [Contexts -> Context] /\ \A x \in Contexts : ctx[x].used => ctx[x].conn \in ConnAddrs
  /\ cur \in [Cursors -> Cursor] /\ \A k \in Cursors : cur[k].used => cur[k].result \in ResultAddrs
  /\ conn \in [ConnAddrs -> Connection]
  /\ res \in [ResultAddrs -> Result]
  /\ \A r \in ResultAddrs :
       res[r].enumerator # Null => res[r].records /\ res[r].enumerator \in 0..(res[r].rows - 1)

\* A connection the server accepted can be closed through one context and no other, so
\* dal_close frees it once, although a context keeps the address after va_dal_close and a
\* later connection may get it.  The status is a byte of the context, so this ends where an
\* open context was copied for a thread.
OneOwner ==
  \A c \in ConnAddrs : (\A x \in Contexts : ctx[x].used /\ ctx[x].conn = c => ~ctx[x].copied) =>
    LET owners == {x \in Contexts : ctx[x].used /\ ctx[x].conn = c /\ ctx[x].status}
    IN Cardinality(owners) = IF conn[c].live /\ conn[c].session # "never" THEN 1 ELSE 0

\* A result in memory is in the list of the one connection it came from, once, and one cursor
\* that is not stale stands for it: dal_close frees every result of its connection and none
\* of another, and a cursor of an open connection never meets a freed result.
ResultsOwned ==
  \A r \in ResultAddrs :
    /\ {c \in ConnAddrs : r \in ToSet(conn[c].results)} = IF res[r].live THEN {res[r].conn} ELSE {}
    /\ \A c \in ConnAddrs : IsInjective(conn[c].results) /\ (conn[c].results # <<>> => conn[c].live)
    /\ Cardinality({k \in Cursors : cur[k].used /\ ~cur[k].stale /\ cur[k].result = r}) = IF res[r].live THEN 1 ELSE 0

\* While the session lives, and no query of the script dropped statements by itself (which
\* the list is not told), a named statement of the connection's list is in the list once and
\* the server runs under that name the text that was prepared with it: what va_dal_execute
\* finds by name is what PQexecPrepared runs.
StatementsAgree ==
  \A c \in ConnAddrs : conn[c].session = "up" =>
    \A i \in 1..Len(conn[c].statements) :
      LET s == conn[c].statements[i]
      IN s.name # Unnamed =>
           /\ s \in conn[c].known
           /\ \A j \in 1..Len(conn[c].statements) : conn[c].statements[j].name = s.name => j = i

\* Unless a stale pointer reached another structure, a cursor delivers the rows that follow
\* the one it was moved to (all rows when it was not moved, or moved to the start), in order
\* and none twice, and reports the end only after the last one.
ReadsInOrder ==
  ~wild => \A k \in Cursors : cur[k].used /\ ~cur[k].stale =>
    /\ \A i \in 1..Len(cur[k].seen) : cur[k].seen[i] = cur[k].from + i
    /\ cur[k].ended => \/ res[cur[k].result].rows = 0
                       \/ cur[k].from + Len(cur[k].seen) = res[cur[k].result].rows - 1
=============================================================================
