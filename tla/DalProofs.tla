----------------------------- MODULE DalProofs -----------------------------
(***************************************************************************)
(* Proofs about the database layer, for any number of contexts, cursors,   *)
(* addresses, statements and rows.                                         *)
(***************************************************************************)
EXTENDS Dal, FiniteSetTheorems, SequenceTheorems, TLAPS

-----------------------------------------------------------------------------
(***************************************************************************)
(* Types.                                                                  *)
(***************************************************************************)
\* The structures of a fresh machine have their types.
LEMMA FreeTypes ==
  /\ FreeConn \in Connection /\ FreeResult \in Result
  /\ NoContext \in Context /\ NoCursor \in Cursor
<1>1. <<>> \in Seq(Statement) /\ <<>> \in Seq(ResultAddrs) /\ <<>> \in Seq(Nat)
  OBVIOUS
<1>2. 0 \in 0..MaxRows
  BY BoundsAssumption
<1>3. FreeConn \in Connection
  BY <1>1 DEF FreeConn, Connection
<1>4. FreeResult \in Result
  BY <1>2 DEF FreeResult, Result, Null
<1>5. NoContext \in Context
  BY DEF NoContext, Context
<1>6. NoCursor \in Cursor
  BY <1>1 DEF NoCursor, Cursor, Null
<1>7. QED
  BY <1>3, <1>4, <1>5, <1>6

\* Nothing is open at first.
LEMMA InitTypeOK == Init => TypeOK
<1> SUFFICES ASSUME Init PROVE TypeOK
  OBVIOUS
<1>1. /\ ctx \in [Contexts -> Context] /\ cur \in [Cursors -> Cursor]
      /\ conn \in [ConnAddrs -> Connection] /\ res \in [ResultAddrs -> Result]
  BY FreeTypes DEF Init
<1>2. \A x \in Contexts : ~ctx[x].used
  BY DEF Init, NoContext
<1>3. \A k \in Cursors : ~cur[k].used
  BY DEF Init, NoCursor
<1>4. \A r \in ResultAddrs : res[r].enumerator = Null
  BY DEF Init, FreeResult
<1>5. QED
  BY <1>1, <1>2, <1>3, <1>4 DEF Init, TypeOK

\* An answer of the server fits a result.
LEMMA AnswerTypes ==
  ASSUME NEW c, NEW a \in Answers(c)
  PROVE  a.tuples \in 0..MaxRows /\ a.rows \in 0..MaxRows /\ a.rows \in {0, a.tuples}
BY RepliesAssumption, BoundsAssumption DEF Answers, NoRows

\* What a query or an execution adds to the memory.
LEMMA CreateResultTypes ==
  ASSUME TypeOK, NEW c \in ConnAddrs, NEW k \in Cursors, NEW answer, NEW link \in Connection,
         answer.tuples \in 0..MaxRows, answer.rows \in 0..MaxRows,
         dal_conn_create_result(c, k, answer, link)
  PROVE  /\ conn' \in [ConnAddrs -> Connection]
         /\ res' \in [ResultAddrs -> Result]
         /\ cur' \in [Cursors -> Cursor] /\ \A j \in Cursors : cur'[j].used => cur'[j].result \in ResultAddrs
         /\ \A r \in ResultAddrs :
              res'[r].enumerator # Null => res'[r].records /\ res'[r].enumerator \in 0..(res'[r].rows - 1)
<1>1. PICK r \in ResultAddrs :
        /\ res' = [res EXCEPT ![r] = [FreeResult EXCEPT !.live = TRUE, !.conn = c,
                                        !.tuples = answer.tuples, !.rows = answer.rows]]
        /\ conn' = [conn EXCEPT ![c] = [link EXCEPT !.results = Append(@, r)]]
        /\ cur' = [cur EXCEPT ![k] = [NoCursor EXCEPT !.used = TRUE, !.result = r]]
  BY DEF dal_conn_create_result
<1>2. conn' \in [ConnAddrs -> Connection]
  <2>1. Append(link.results, r) \in Seq(ResultAddrs)
    BY DEF Connection
  <2>2. [link EXCEPT !.results = Append(link.results, r)] \in Connection
    BY <2>1 DEF Connection
  <2>3. QED
    BY <1>1, <2>2 DEF TypeOK
<1>3. [FreeResult EXCEPT !.live = TRUE, !.conn = c, !.tuples = answer.tuples, !.rows = answer.rows] \in Result
  BY FreeTypes DEF Result
<1>4. res' \in [ResultAddrs -> Result]
  BY <1>1, <1>3 DEF TypeOK
<1>5. [NoCursor EXCEPT !.used = TRUE, !.result = r] \in Cursor
  BY FreeTypes DEF Cursor
<1>6. cur' \in [Cursors -> Cursor] /\ \A j \in Cursors : cur'[j].used => cur'[j].result \in ResultAddrs
  BY <1>1, <1>5 DEF TypeOK, NoCursor
<1>7. \A s \in ResultAddrs :
        res'[s].enumerator # Null => res'[s].records /\ res'[s].enumerator \in 0..(res'[s].rows - 1)
  BY <1>1 DEF TypeOK, FreeResult
<1>8. QED
  BY <1>2, <1>4, <1>6, <1>7

\* A release frees results and makes cursors stale.
LEMMA ReleaseTypes ==
  ASSUME TypeOK, NEW freed, Release(freed)
  PROVE  /\ res' \in [ResultAddrs -> Result]
         /\ cur' \in [Cursors -> Cursor] /\ \A j \in Cursors : cur'[j].used => cur'[j].result \in ResultAddrs
         /\ \A r \in ResultAddrs :
              res'[r].enumerator # Null => res'[r].records /\ res'[r].enumerator \in 0..(res'[r].rows - 1)
<1>1. res' \in [ResultAddrs -> Result]
  BY FreeTypes DEF TypeOK, Release
<1>2. ASSUME NEW k \in Cursors
      PROVE  [NoCursor EXCEPT !.used = TRUE, !.result = cur[k].result, !.offset = cur[k].offset, !.stale = TRUE] \in Cursor
  BY FreeTypes DEF TypeOK, Cursor
<1>3. cur' \in [Cursors -> Cursor]
  BY <1>2 DEF TypeOK, Release
<1>4. \A j \in Cursors : cur'[j].used => cur'[j].result \in ResultAddrs
  BY DEF TypeOK, Release, NoCursor
<1>5. \A r \in ResultAddrs :
        res'[r].enumerator # Null => res'[r].records /\ res'[r].enumerator \in 0..(res'[r].rows - 1)
  BY DEF TypeOK, Release, FreeResult
<1>6. QED
  BY <1>1, <1>3, <1>4, <1>5

\* A fetch or a seek leaves the enumerator on a row or on NULL.
LEMMA FetchTypes ==
  ASSUME NEW rec \in Result, NEW offset \in Int,
         rec.enumerator # Null => rec.records /\ rec.enumerator \in 0..(rec.rows - 1)
  PROVE  \A new \in {pgsql_fetch_first(rec), pgsql_fetch_next(rec), Seeked(rec, offset)} :
           /\ new \in Result /\ new.live = rec.live /\ new.conn = rec.conn
           /\ new.tuples = rec.tuples /\ new.rows = rec.rows
           /\ new.enumerator # Null => new.records /\ new.enumerator \in 0..(new.rows - 1)
<1>0. rec.rows \in Nat /\ rec.records \in BOOLEAN /\ rec.enumerator \in Int
  BY BoundsAssumption DEF Result
<1>1. ASSUME NEW e \in Int, NEW b \in BOOLEAN
      PROVE  /\ [rec EXCEPT !.records = b, !.enumerator = e] \in Result
             /\ [rec EXCEPT !.enumerator = e] \in Result
  BY DEF Result
<1>2. /\ First(rec) \in Int /\ RowAfter(rec, rec.enumerator) \in Int /\ RowAt(rec, offset) \in Int
  BY <1>0 DEF First, RowAfter, RowAt, Null
<1>3. /\ Loaded(rec) \in Result /\ Loaded(rec).live = rec.live /\ Loaded(rec).conn = rec.conn
      /\ Loaded(rec).tuples = rec.tuples /\ Loaded(rec).rows = rec.rows
      /\ rec.rows # 0 => Loaded(rec).records
  BY <1>0, <1>1, <1>2 DEF Loaded, pgsql_fetch_all, Result
<1>4. First(rec) # Null => First(rec) \in 0..(rec.rows - 1) /\ rec.rows # 0
  BY <1>0 DEF First, Null
<1>5. RowAt(rec, offset) # Null => RowAt(rec, offset) \in 0..(rec.rows - 1) /\ rec.rows # 0
  BY <1>0, <1>4 DEF RowAt, Null
<1>6. RowAfter(rec, rec.enumerator) # Null => rec.records /\ RowAfter(rec, rec.enumerator) \in 0..(rec.rows - 1)
  BY <1>0 DEF RowAfter, Null
<1>7. ASSUME NEW e \in Int, e # Null => e \in 0..(rec.rows - 1) /\ rec.rows # 0,
             NEW new, new = [Loaded(rec) EXCEPT !.enumerator = e]
      PROVE  /\ new \in Result /\ new.live = rec.live /\ new.conn = rec.conn
             /\ new.tuples = rec.tuples /\ new.rows = rec.rows
             /\ new.enumerator # Null => new.records /\ new.enumerator \in 0..(new.rows - 1)
  BY <1>3, <1>7 DEF Result
<1>8. ASSUME NEW new, new = pgsql_fetch_next(rec)
      PROVE  /\ new \in Result /\ new.live = rec.live /\ new.conn = rec.conn
             /\ new.tuples = rec.tuples /\ new.rows = rec.rows
             /\ new.enumerator # Null => new.records /\ new.enumerator \in 0..(new.rows - 1)
  BY <1>0, <1>1, <1>2, <1>6, <1>8 DEF pgsql_fetch_next, Result
<1>9. QED
  BY <1>2, <1>4, <1>5, <1>7, <1>8 DEF pgsql_fetch_first, Seeked

\* One connection is replaced by another record of its type.
LEMMA ConnPut ==
  ASSUME conn \in [ConnAddrs -> Connection], NEW c \in ConnAddrs, NEW new \in Connection,
         conn' = [conn EXCEPT ![c] = new]
  PROVE  conn' \in [ConnAddrs -> Connection]
OBVIOUS

\* What a query leaves of a connection is one.
LEMMA QueriedTypes ==
  ASSUME TypeOK, NEW c \in ConnAddrs, NEW kept \in SUBSET Forget(conn[c].known, Unnamed)
  PROVE  /\ Queried(c, kept) \in Connection
         /\ Queried(c, kept).live = conn[c].live /\ Queried(c, kept).results = conn[c].results
         /\ Queried(c, kept).statements = conn[c].statements /\ Queried(c, kept).known = kept
         /\ Queried(c, kept).session # "never" <=> conn[c].session # "never"
         /\ Queried(c, kept).session = "up" => conn[c].session = "up" /\ kept = Forget(conn[c].known, Unnamed)
<1>1. conn[c] \in Connection
  BY DEF TypeOK
<1>2. kept \in SUBSET Statement
  BY <1>1 DEF Connection, Forget
<1> DEFINE v == IF Open(c) /\ kept # Forget(conn[c].known, Unnamed) THEN "cleared" ELSE conn[c].session
<1>3. /\ v \in {"up", "cleared", "lost", "never"} /\ (v # "never" <=> conn[c].session # "never")
      /\ v = "up" => conn[c].session = "up" /\ kept = Forget(conn[c].known, Unnamed)
  BY <1>1 DEF Open, Connection
<1>4. Queried(c, kept) = [conn[c] EXCEPT !.known = kept, !.session = v]
  BY DEF Queried
<1> HIDE DEF v
<1>5. QED
  BY <1>1, <1>2, <1>3, <1>4 DEF Connection

\* Every call of the database functions keeps the types.
LEMMA NextTypeOK == TypeOK /\ [Next]_vars => TypeOK'
<1> SUFFICES ASSUME TypeOK, [Next]_vars PROVE TypeOK'
  OBVIOUS
<1>0. /\ ctx \in [Contexts -> Context] /\ cur \in [Cursors -> Cursor]
      /\ conn \in [ConnAddrs -> Connection] /\ res \in [ResultAddrs -> Result]
      /\ up \in BOOLEAN /\ wild \in BOOLEAN
      /\ \A x \in Contexts : ctx[x].used => ctx[x].conn \in ConnAddrs
      /\ \A k \in Cursors : cur[k].used => cur[k].result \in ResultAddrs
      /\ \A x \in Contexts : ctx[x].stale \in BOOLEAN
      /\ \A k \in Cursors : cur[k].stale \in BOOLEAN
  BY DEF TypeOK, Context, Cursor
<1>1. ASSUME NEW c \in ConnAddrs, SessionLost(c) PROVE TypeOK'
  <2>1. [conn[c] EXCEPT !.session = "lost", !.known = {}] \in Connection
    BY <1>0 DEF Connection
  <2>2. conn' = [conn EXCEPT ![c] = [conn[c] EXCEPT !.session = "lost", !.known = {}]]
    BY <1>0, <1>1 DEF SessionLost
  <2>3. conn' \in [ConnAddrs -> Connection]
    BY <1>0, <2>1, <2>2, ConnPut
  <2>4. QED
    BY <1>1, <2>3 DEF SessionLost, TypeOK
<1>2. ASSUME NEW x \in Contexts, va_dal_create(x) PROVE TypeOK'
  <2>1. PICK c \in ConnAddrs, ok \in BOOLEAN :
          /\ conn' = [conn EXCEPT ![c] = [FreeConn EXCEPT !.live = TRUE, !.session = IF ok THEN "up" ELSE "never"]]
          /\ ctx' = [ctx EXCEPT ![x] = [used |-> TRUE, conn |-> c, status |-> ok, stale |-> FALSE, copied |-> FALSE]]
    BY <1>2 DEF va_dal_create
  <2>2. [FreeConn EXCEPT !.live = TRUE, !.session = IF ok THEN "up" ELSE "never"] \in Connection
    BY FreeTypes DEF Connection
  <2>3. conn' \in [ConnAddrs -> Connection]
    BY <1>0, <2>1, <2>2, ConnPut
  <2>4. ctx' \in [Contexts -> Context] /\ \A y \in Contexts : ctx'[y].used => ctx'[y].conn \in ConnAddrs
    BY <1>0, <2>1 DEF Context
  <2>5. QED
    BY <1>2, <2>3, <2>4 DEF va_dal_create, TypeOK
<1>3. ASSUME NEW x \in Contexts, va_dal_close(x) PROVE TypeOK'
  <2>1. CASE ctx[x].status /\ Reaches(x)
    <3>1. /\ dal_close(ctx[x].conn) /\ ctx' = AfterClose(x) /\ UNCHANGED up /\ ctx[x].conn \in ConnAddrs
          /\ wild' \in BOOLEAN
      BY <1>0, <1>3, <2>1 DEF va_dal_close, Strays
    <3>2. conn' \in [ConnAddrs -> Connection]
      BY <1>0, <3>1, FreeTypes, ConnPut DEF dal_close
    <3>3. ctx' \in [Contexts -> Context] /\ \A y \in Contexts : ctx'[y].used => ctx'[y].conn \in ConnAddrs
      <4>1. ASSUME NEW y \in Contexts
            PROVE  /\ (ctx[y].stale \/ (ctx[y].used /\ ctx[y].conn = ctx[x].conn)) \in BOOLEAN
                   /\ (ctx[y].status /\ y # x) \in BOOLEAN
        BY <1>0 DEF Context
      <4>2. ASSUME NEW y \in Contexts
            PROVE  ctx'[y] \in Context /\ (ctx'[y].used => ctx'[y].conn \in ConnAddrs)
        <5>1. PICK a \in BOOLEAN, b \in BOOLEAN : ctx'[y] = [ctx[y] EXCEPT !.stale = a, !.status = b]
          BY <3>1, <4>1 DEF AfterClose
        <5>2. ctx'[y] \in Context /\ ctx'[y].used = ctx[y].used /\ ctx'[y].conn = ctx[y].conn
          BY <1>0, <5>1 DEF Context
        <5>3. QED
          BY <1>0, <5>2
      <4>3. QED
        BY <3>1, <4>2 DEF AfterClose
    <3>4. Release(ToSet(conn[ctx[x].conn].results))
      BY <3>1 DEF dal_close, dal_conn_clear_results
    <3>5. QED
      BY <3>1, <3>2, <3>3, <3>4, ReleaseTypes DEF TypeOK
  <2>2. CASE ~(ctx[x].status /\ Reaches(x))
    BY <1>3, <2>2 DEF va_dal_close, Crash, vars, TypeOK
  <2>3. QED
    BY <2>1, <2>2
<1>4. ASSUME NEW x \in Contexts, NEW k \in Cursors, va_dal_query(x, k) PROVE TypeOK'
  <2> DEFINE c == ctx[x].conn
  <2>0. c \in ConnAddrs
    BY <1>0, <1>4 DEF va_dal_query
  <2>1. ASSUME NEW a \in Answers(c), NEW kept \in SUBSET Forget(conn[c].known, Unnamed),
               dal_conn_create_result(c, k, a, Queried(c, kept)),
               Strays(ctx[x].stale), UNCHANGED <<ctx, up>>
        PROVE  TypeOK'
    <3>1. Queried(c, kept) \in Connection
      BY <2>0, QueriedTypes
    <3>2. a.tuples \in 0..MaxRows /\ a.rows \in 0..MaxRows
      BY AnswerTypes
    <3>3. wild' \in BOOLEAN
      BY <1>0, <2>1 DEF Strays
    <3> HIDE DEF c
    <3>4. QED
      BY <1>0, <2>0, <2>1, <3>1, <3>2, <3>3, CreateResultTypes DEF TypeOK
  <2>2. CASE Strays(ctx[x].stale) /\ Nothing
    BY <1>0, <2>2 DEF Strays, Nothing, TypeOK
  <2>3. CASE Crash
    BY <2>3 DEF Crash, TypeOK
  <2>4. QED
    BY <1>4, <2>1, <2>2, <2>3 DEF va_dal_query
<1>5. ASSUME NEW x \in Contexts, NEW n \in Names, NEW t \in Texts, va_dal_prepare(x, n, t) PROVE TypeOK'
  <2> DEFINE c == ctx[x].conn
  <2>0. c \in ConnAddrs /\ conn[c] \in Connection
    BY <1>0, <1>5 DEF va_dal_prepare
  <2>1. CASE conn' = dal_conn_create_statement(c, n, t) /\ Strays(ctx[x].stale) /\ UNCHANGED <<ctx, cur, res, up>>
    <3> DEFINE s == [name |-> n, text |-> t]
               new == [conn[c] EXCEPT !.statements = Append(conn[c].statements, s),
                                      !.known = Forget(conn[c].known, n) \cup {s}]
    <3>1. s \in Statement
      BY DEF Statement
    <3>2. Append(conn[c].statements, s) \in Seq(Statement)
      BY <2>0, <3>1 DEF Connection
    <3>3. Forget(conn[c].known, n) \cup {s} \in SUBSET Statement
      BY <2>0, <3>1 DEF Connection, Forget
    <3>4. conn' = [conn EXCEPT ![c] = new]
      BY <1>0, <2>0, <2>1 DEF dal_conn_create_statement
    <3>5. new \in Connection
      BY <2>0, <3>2, <3>3 DEF Connection
    <3> HIDE DEF new
    <3>6. conn' \in [ConnAddrs -> Connection]
      BY <1>0, <2>0, <3>4, <3>5, ConnPut
    <3>7. QED
      BY <1>0, <2>1, <3>6 DEF Strays, TypeOK
  <2>2. CASE conn' = Refused(c, n, t) /\ Strays(ctx[x].stale) /\ UNCHANGED <<ctx, cur, res, up>>
    <3> DEFINE new == [conn[c] EXCEPT !.known = IF n = Unnamed THEN Forget(conn[c].known, n) ELSE conn[c].known]
    <3>1. new \in Connection
      BY <2>0 DEF Connection, Forget
    <3>2. conn' = [conn EXCEPT ![c] = new]
      BY <1>0, <2>0, <2>2 DEF Refused
    <3> HIDE DEF new
    <3>3. conn' \in [ConnAddrs -> Connection]
      BY <1>0, <2>0, <3>1, <3>2, ConnPut
    <3>4. QED
      BY <1>0, <2>2, <3>3 DEF Strays, TypeOK
  <2>3. CASE Crash
    BY <2>3 DEF Crash, TypeOK
  <2>4. QED
    BY <1>5, <2>1, <2>2, <2>3 DEF va_dal_prepare
<1>6. ASSUME NEW x \in Contexts, NEW n \in Names, NEW k \in Cursors, va_dal_execute(x, n, k) PROVE TypeOK'
  <2> DEFINE c == ctx[x].conn
  <2>0. c \in ConnAddrs
    BY <1>0, <1>6 DEF va_dal_execute
  <2>1. CASE dal_conn_create_result(c, k, NoRows, conn[c]) /\ Strays(ctx[x].stale) /\ UNCHANGED <<ctx, up>>
    <3>1. conn[c] \in Connection
      BY <1>0, <2>0
    <3>2. NoRows.tuples \in 0..MaxRows /\ NoRows.rows \in 0..MaxRows
      BY BoundsAssumption DEF NoRows
    <3>3. wild' \in BOOLEAN
      BY <1>0, <2>1 DEF Strays
    <3> HIDE DEF c
    <3>4. QED
      BY <1>0, <2>0, <2>1, <3>1, <3>2, <3>3, CreateResultTypes DEF TypeOK
  <2>2. CASE Strays(ctx[x].stale) /\ Nothing
    BY <1>0, <2>2 DEF Strays, Nothing, TypeOK
  <2>3. CASE Crash \/ UNCHANGED vars
    BY <2>3 DEF Crash, TypeOK, vars
  <2>4. QED
    BY <1>6, <2>1, <2>2, <2>3 DEF va_dal_execute
<1>7. ASSUME NEW k \in Cursors, va_dal_result_read(k) PROVE TypeOK'
  <2> DEFINE r == cur[k].result
  <2>0. r \in ResultAddrs /\ res[r] \in Result /\ cur[k] \in Cursor
        /\ (res[r].enumerator # Null => res[r].records /\ res[r].enumerator \in 0..(res[r].rows - 1))
    BY <1>0, <1>7 DEF va_dal_result_read, TypeOK
  <2>1. CASE Crash \/ UNCHANGED vars
    BY <2>1 DEF Crash, TypeOK, vars
  <2>2. CASE ~(Crash \/ UNCHANGED vars)
    <3>1. /\ res' = [res EXCEPT ![r] = Fetch(k)] /\ cur' = [cur EXCEPT ![k] = Taken(k, Fetch(k).enumerator)]
          /\ Strays(cur[k].stale) /\ UNCHANGED <<ctx, conn, up>>
      BY <1>7, <2>2 DEF va_dal_result_read
    <3>2. Fetch(k) \in {pgsql_fetch_first(res[r]), pgsql_fetch_next(res[r])}
      BY DEF Fetch
    <3> HIDE DEF r
    <3>3. /\ Fetch(k) \in Result
          /\ Fetch(k).enumerator # Null => Fetch(k).records /\ Fetch(k).enumerator \in 0..(Fetch(k).rows - 1)
      BY <2>0, <3>2, FetchTypes, 0 \in Int
    <3>4. Fetch(k).rows \in Nat
      BY <3>3, BoundsAssumption DEF Result
    <3>5. Fetch(k).enumerator # Null => Fetch(k).enumerator \in Nat
      BY <3>3, <3>4
    <3>6. Taken(k, Fetch(k).enumerator) \in Cursor /\ Taken(k, Fetch(k).enumerator).used /\ Taken(k, Fetch(k).enumerator).result = cur[k].result
      <4>1. CASE Fetch(k).enumerator = Null
        BY <1>7, <2>0, <4>1 DEF Taken, Cursor, va_dal_result_read
      <4>2. CASE Fetch(k).enumerator # Null
        <5>1. (IF cur[k].stale THEN cur[k].seen ELSE Append(cur[k].seen, Fetch(k).enumerator)) \in Seq(Nat)
          BY <2>0, <3>5, <4>2 DEF Cursor
        <5>2. cur[k].offset + 1 \in Int
          BY <2>0 DEF Cursor
        <5>3. QED
          BY <1>7, <2>0, <4>2, <5>1, <5>2 DEF Taken, Cursor, va_dal_result_read
      <4>3. QED
        BY <4>1, <4>2
    <3>7. cur' \in [Cursors -> Cursor] /\ \A j \in Cursors : cur'[j].used => cur'[j].result \in ResultAddrs
      BY <1>0, <2>0, <3>1, <3>6 DEF r
    <3>8. res' \in [ResultAddrs -> Result]
      BY <1>0, <2>0, <3>1, <3>3
    <3>9. \A q \in ResultAddrs :
            res'[q].enumerator # Null => res'[q].records /\ res'[q].enumerator \in 0..(res'[q].rows - 1)
      BY <1>0, <2>0, <3>1, <3>3 DEF TypeOK
    <3>10. QED
      BY <1>0, <3>1, <3>7, <3>8, <3>9 DEF TypeOK, Strays
  <2>3. QED
    BY <2>1, <2>2
<1>8. ASSUME NEW k \in Cursors, NEW fset \in -1..MaxRows, va_dal_result_seek(k, fset) PROVE TypeOK'
  <2> DEFINE r == cur[k].result
             o == SeekOffset(res[r], fset)
  <2>0. r \in ResultAddrs /\ res[r] \in Result /\ cur[k] \in Cursor
        /\ (res[r].enumerator # Null => res[r].records /\ res[r].enumerator \in 0..(res[r].rows - 1))
    BY <1>0, <1>8 DEF va_dal_result_seek, TypeOK
  <2>1. CASE Crash
    BY <2>1 DEF Crash, TypeOK, vars
  <2>2. CASE ~Crash
    <3>1. /\ res' = [res EXCEPT ![r] = Seeked(res[r], o)] /\ cur' = [cur EXCEPT ![k] = Moved(k, o)]
          /\ Strays(cur[k].stale) /\ UNCHANGED <<ctx, conn, up>>
      BY <1>0, <1>8, <2>0, <2>2 DEF va_dal_result_seek
    <3>2. o \in Int
      <4>1. res[r].tuples \in Int /\ fset \in Int
        BY <2>0, BoundsAssumption DEF Result
      <4>2. QED
        BY <4>1 DEF SeekOffset
    <3> HIDE DEF r, o
    <3>3. /\ Seeked(res[r], o) \in Result
          /\ Seeked(res[r], o).enumerator # Null =>
               Seeked(res[r], o).records /\ Seeked(res[r], o).enumerator \in 0..(Seeked(res[r], o).rows - 1)
      BY <2>0, <3>2, FetchTypes
    <3>4. Moved(k, o) \in Cursor /\ Moved(k, o).used /\ Moved(k, o).result = cur[k].result
      <4>1. <<>> \in Seq(Nat) /\ (IF o = 0 \/ cur[k].stale THEN -1 ELSE o) \in Int
        BY <3>2
      <4>2. QED
        BY <1>8, <2>0, <3>2, <4>1 DEF Moved, Cursor, va_dal_result_seek
    <3>5. cur' \in [Cursors -> Cursor] /\ \A j \in Cursors : cur'[j].used => cur'[j].result \in ResultAddrs
      BY <1>0, <2>0, <3>1, <3>4 DEF r
    <3>6. res' \in [ResultAddrs -> Result]
      BY <1>0, <2>0, <3>1, <3>3
    <3>7. \A q \in ResultAddrs :
            res'[q].enumerator # Null => res'[q].records /\ res'[q].enumerator \in 0..(res'[q].rows - 1)
      BY <1>0, <2>0, <3>1, <3>3 DEF TypeOK
    <3>8. QED
      BY <1>0, <3>1, <3>5, <3>6, <3>7 DEF TypeOK, Strays
  <2>3. QED
    BY <2>1, <2>2
<1>9. ASSUME NEW x \in Contexts, NEW y \in Contexts, vm_clone_object(x, y) PROVE TypeOK'
  <2>1. PICK both : /\ both = [ctx[x] EXCEPT !.copied = @ \/ ctx[x].status]
                    /\ ctx' = [ctx EXCEPT ![x] = both, ![y] = both]
    BY <1>9 DEF vm_clone_object
  <2>2. (ctx[x].copied \/ ctx[x].status) \in BOOLEAN
    BY <1>0 DEF Context
  <2>3. both \in Context /\ both.conn = ctx[x].conn /\ both.used = ctx[x].used
    BY <1>0, <2>1, <2>2 DEF Context
  <2>4. both.conn \in ConnAddrs
    BY <1>0, <1>9, <2>3 DEF vm_clone_object
  <2> HIDE DEF vm_clone_object
  <2>5. ctx' \in [Contexts -> Context] /\ \A z \in Contexts : ctx'[z].used => ctx'[z].conn \in ConnAddrs
    <3>1. \A z \in Contexts : ctx'[z] \in {both, ctx[z]}
      BY <1>0, <2>1
    <3>2. ctx' \in [Contexts -> Context]
      BY <1>0, <2>1, <2>3
    <3>3. QED
      BY <1>0, <2>4, <3>1, <3>2
  <2>6. QED
    BY <1>9, <2>5 DEF vm_clone_object, TypeOK
<1>10. CASE UNCHANGED vars
  BY <1>10 DEF vars, TypeOK
<1>11. QED
  BY <1>1, <1>2, <1>3, <1>4, <1>5, <1>6, <1>7, <1>8, <1>9, <1>10 DEF Next, Crashed

\* The structures keep their types, and an enumerator never leaves the rows.
THEOREM TypeCorrect == Spec => []TypeOK
BY InitTypeOK, NextTypeOK, PTL DEF Spec

-----------------------------------------------------------------------------
(***************************************************************************)
(* Who owns what.  The counts of OneOwner and ResultsOwned, unfolded.      *)
(***************************************************************************)
Copied(c) == \E x \in Contexts : ctx[x].used /\ ctx[x].conn = c /\ ctx[x].copied
Owns(x, c) == ctx[x].used /\ ctx[x].conn = c /\ ctx[x].status
StandsFor(k, r) == cur[k].used /\ ~cur[k].stale /\ cur[k].result = r
Listed(r, c) == \E i \in 1..Len(conn[c].results) : conn[c].results[i] = r

\* A connection with a session has one context that may close it, the others have none, as
\* long as no context with that address was copied.
Owners ==
  \A c \in ConnAddrs : ~Copied(c) =>
    /\ conn[c].live /\ conn[c].session # "never" => \E x \in Contexts : Owns(x, c)
    /\ \A x \in Contexts : Owns(x, c) => conn[c].live /\ conn[c].session # "never"
    /\ \A x, y \in Contexts : Owns(x, c) /\ Owns(y, c) => x = y

\* The list of a connection holds exactly the live results that came from it, once each, and
\* free memory has no list.
Lists ==
  /\ \A c \in ConnAddrs : ~conn[c].live => conn[c] = FreeConn
  /\ \A r \in ResultAddrs : res[r].live => \E c \in ConnAddrs : res[r].conn = c /\ Listed(r, c)
  /\ \A r \in ResultAddrs, c \in ConnAddrs : Listed(r, c) => res[r].live /\ res[r].conn = c
  /\ \A c \in ConnAddrs : \A i, j \in 1..Len(conn[c].results) :
       conn[c].results[i] = conn[c].results[j] => i = j

\* A live result has one cursor that is not stale, a freed one has none.
Stands ==
  /\ \A k \in Cursors, r \in ResultAddrs : StandsFor(k, r) => res[r].live
  /\ \A r \in ResultAddrs : res[r].live => \E k \in Cursors : StandsFor(k, r)
  /\ \A r \in ResultAddrs, j, k \in Cursors : StandsFor(j, r) /\ StandsFor(k, r) => j = k

Ownership == Owners /\ Lists /\ Stands

\* Nothing is open at first.
LEMMA InitOwnership == Init => Ownership
<1> SUFFICES ASSUME Init PROVE Ownership
  OBVIOUS
<1>1. /\ \A c \in ConnAddrs : conn[c] = FreeConn /\ ~conn[c].live /\ conn[c].results = <<>>
      /\ \A r \in ResultAddrs : ~res[r].live
      /\ \A x \in Contexts : ~ctx[x].used
      /\ \A k \in Cursors : ~cur[k].used
  BY DEF Init, FreeConn, FreeResult, NoContext, NoCursor
<1>2. Owners
  BY <1>1 DEF Owners, Owns
<1>3. Lists
  BY <1>1 DEF Lists, Listed
<1>4. Stands
  BY <1>1 DEF Stands, StandsFor
<1>5. QED
  BY <1>2, <1>3, <1>4 DEF Ownership

\* A step that neither opens nor closes, neither makes a result nor frees one.
LEMMA QuietOwnership ==
  ASSUME TypeOK, Ownership, UNCHANGED ctx,
         \A c \in ConnAddrs : /\ conn'[c].live = conn[c].live /\ conn'[c].results = conn[c].results
                              /\ ~conn[c].live => conn'[c] = conn[c]
                              /\ conn'[c].session # "never" <=> conn[c].session # "never",
         \A r \in ResultAddrs : res'[r].live = res[r].live /\ res'[r].conn = res[r].conn,
         \A k \in Cursors : /\ cur'[k].used = cur[k].used /\ cur'[k].stale = cur[k].stale
                            /\ cur'[k].result = cur[k].result
  PROVE  Ownership'
<1>1. Owners'
  BY DEF Ownership, Owners, Owns, Copied
<1>2. Lists'
  BY DEF Ownership, Lists, Listed
<1>3. Stands'
  BY DEF Ownership, Stands, StandsFor
<1>4. QED
  BY <1>1, <1>2, <1>3 DEF Ownership

\* A new result enters the list of its connection, and its cursor stands for it.
LEMMA CreateResultOwnership ==
  ASSUME TypeOK, Ownership, UNCHANGED ctx,
         NEW c \in ConnAddrs, conn[c].live, NEW k \in Cursors, ~cur[k].used,
         NEW answer, NEW link \in Connection, dal_conn_create_result(c, k, answer, link),
         link.live = conn[c].live, link.results = conn[c].results,
         link.session # "never" <=> conn[c].session # "never"
  PROVE  Ownership'
<1>1. PICK r \in ResultAddrs :
        /\ ~res[r].live
        /\ res' = [res EXCEPT ![r] = [FreeResult EXCEPT !.live = TRUE, !.conn = c,
                                        !.tuples = answer.tuples, !.rows = answer.rows]]
        /\ conn' = [conn EXCEPT ![c] = [link EXCEPT !.results = Append(@, r)]]
        /\ cur' = [cur EXCEPT ![k] = [NoCursor EXCEPT !.used = TRUE, !.result = r]]
  BY DEF dal_conn_create_result
<1>2. /\ res'[r].live /\ res'[r].conn = c
      /\ \A q \in ResultAddrs : q # r => res'[q] = res[q]
  BY <1>1 DEF TypeOK, FreeResult
<1>3. /\ \A d \in ConnAddrs : d # c => conn'[d] = conn[d]
      /\ conn'[c].live = conn[c].live /\ (conn'[c].session # "never" <=> conn[c].session # "never")
      /\ conn'[c].results = Append(conn[c].results, r)
  BY <1>1 DEF TypeOK, Connection
<1>4. /\ StandsFor(k, r)' /\ \A q \in ResultAddrs : StandsFor(k, q)' => q = r
      /\ \A j \in Cursors, q \in ResultAddrs : j # k => (StandsFor(j, q)' <=> StandsFor(j, q))
  BY <1>1 DEF TypeOK, StandsFor, NoCursor
<1>5. conn[c].results \in Seq(ResultAddrs) /\ \A d \in ConnAddrs : conn[d].results \in Seq(ResultAddrs)
  BY DEF TypeOK, Connection
<1>6. /\ Len(conn'[c].results) = Len(conn[c].results) + 1
      /\ \A i \in 1..Len(conn[c].results) : conn'[c].results[i] = conn[c].results[i]
      /\ conn'[c].results[Len(conn[c].results) + 1] = r
  BY <1>3, <1>5
<1>7. \A q \in ResultAddrs, d \in ConnAddrs : Listed(q, d)' <=> (Listed(q, d) \/ (q = r /\ d = c))
  <2>1. ASSUME NEW q \in ResultAddrs, NEW d \in ConnAddrs, d # c
        PROVE  Listed(q, d)' <=> Listed(q, d)
    BY <1>3, <2>1 DEF Listed
  <2>2. ASSUME NEW q \in ResultAddrs
        PROVE  Listed(q, c)' <=> (Listed(q, c) \/ q = r)
    <3>1. Len(conn[c].results) \in Nat
      BY <1>5
    <3>2. Listed(q, c) => Listed(q, c)'
      BY <1>6, <3>1 DEF Listed
    <3>3. q = r => Listed(q, c)'
      BY <1>6, <3>1 DEF Listed
    <3>4. ASSUME NEW i \in 1..Len(conn'[c].results), conn'[c].results[i] = q
          PROVE  Listed(q, c) \/ q = r
      <4>1. i \in 1..Len(conn[c].results) \/ i = Len(conn[c].results) + 1
        BY <1>6, <3>1
      <4>2. QED
        BY <1>6, <3>4, <4>1 DEF Listed
    <3>5. QED
      BY <3>2, <3>3, <3>4 DEF Listed
  <2>3. QED
    BY <2>1, <2>2
<1>8. ~\E d \in ConnAddrs : Listed(r, d)
  BY <1>1 DEF Ownership, Lists
<1>9. Owners'
  <2>1. \A d \in ConnAddrs : /\ conn'[d].live = conn[d].live
                             /\ conn'[d].session # "never" <=> conn[d].session # "never"
    BY <1>3
  <2>2. /\ \A y \in Contexts, d \in ConnAddrs : Owns(y, d)' <=> Owns(y, d)
        /\ \A d \in ConnAddrs : Copied(d)' <=> Copied(d)
    BY DEF Owns, Copied
  <2>3. QED
    BY <2>1, <2>2 DEF Ownership, Owners
<1>10. Lists'
  <2>1. \A d \in ConnAddrs : ~conn'[d].live => conn'[d] = FreeConn
    BY <1>3 DEF Ownership, Lists
  <2>2. \A q \in ResultAddrs : res'[q].live => \E d \in ConnAddrs : res'[q].conn = d /\ Listed(q, d)'
    BY <1>2, <1>7 DEF Ownership, Lists
  <2>3. \A q \in ResultAddrs, d \in ConnAddrs : Listed(q, d)' => res'[q].live /\ res'[q].conn = d
    BY <1>2, <1>7, <1>8 DEF Ownership, Lists
  <2>4. \A d \in ConnAddrs : \A i, j \in 1..Len(conn'[d].results) :
          conn'[d].results[i] = conn'[d].results[j] => i = j
    <3>1. ASSUME NEW d \in ConnAddrs, d # c
          PROVE  \A i, j \in 1..Len(conn'[d].results) : conn'[d].results[i] = conn'[d].results[j] => i = j
      BY <1>3, <3>1 DEF Ownership, Lists
    <3>2. \A i \in 1..Len(conn[c].results) : conn[c].results[i] # r
      BY <1>8 DEF Listed
    <3>3. \A i, j \in 1..Len(conn[c].results) : conn[c].results[i] = conn[c].results[j] => i = j
      BY DEF Ownership, Lists
    <3>4. \A i, j \in 1..Len(conn'[c].results) : conn'[c].results[i] = conn'[c].results[j] => i = j
      <4>1. Len(conn[c].results) \in Nat
        BY <1>5
      <4>2. \A i \in 1..Len(conn'[c].results) : i \in 1..Len(conn[c].results) \/ i = Len(conn[c].results) + 1
        BY <1>6, <4>1
      <4>3. QED
        BY <1>6, <3>2, <3>3, <4>2
    <3>5. QED
      BY <3>1, <3>4
  <2>5. QED
    BY <2>1, <2>2, <2>3, <2>4 DEF Lists
<1>11. Stands'
  <2>1. \A j \in Cursors, q \in ResultAddrs : StandsFor(j, q)' => res'[q].live
    BY <1>2, <1>4 DEF Ownership, Stands
  <2>2. \A j \in Cursors : ~StandsFor(j, r)
    BY <1>1 DEF Ownership, Stands
  <2>3. \A q \in ResultAddrs : ~StandsFor(k, q)
    BY DEF StandsFor
  <2>4. \A q \in ResultAddrs : res'[q].live => \E j \in Cursors : StandsFor(j, q)'
    BY <1>2, <1>4, <2>3 DEF Ownership, Stands
  <2>5. \A q \in ResultAddrs, i, j \in Cursors : StandsFor(i, q)' /\ StandsFor(j, q)' => i = j
    BY <1>4, <2>2 DEF Ownership, Stands
  <2>6. QED
    BY <2>1, <2>4, <2>5 DEF Stands
<1>12. QED
  BY <1>9, <1>10, <1>11 DEF Ownership

\* A new connection is at an address that no context may close and no result came from.
LEMMA CreateOwnership ==
  ASSUME TypeOK, Ownership, NEW x \in Contexts, va_dal_create(x)
  PROVE  Ownership'
<1>1. PICK c \in ConnAddrs, ok \in BOOLEAN :
        /\ ~conn[c].live
        /\ conn' = [conn EXCEPT ![c] = [FreeConn EXCEPT !.live = TRUE, !.session = IF ok THEN "up" ELSE "never"]]
        /\ ctx' = [ctx EXCEPT ![x] = [used |-> TRUE, conn |-> c, status |-> ok, stale |-> FALSE, copied |-> FALSE]]
  BY DEF va_dal_create
<1>2. UNCHANGED <<cur, res>> /\ ~ctx[x].used
  BY DEF va_dal_create
<1>3. /\ \A d \in ConnAddrs : d # c => conn'[d] = conn[d]
      /\ conn'[c].live /\ (conn'[c].session # "never" <=> ok) /\ conn'[c].results = <<>>
  BY <1>1 DEF TypeOK, FreeConn
<1>4. conn[c] = FreeConn /\ conn[c].results = <<>>
  BY <1>1 DEF Ownership, Lists, FreeConn
<1>5. \A q \in ResultAddrs, d \in ConnAddrs : Listed(q, d)' <=> Listed(q, d)
  BY <1>3, <1>4 DEF Listed
<1>6. /\ \A y \in Contexts, d \in ConnAddrs : y # x => (Owns(y, d)' <=> Owns(y, d))
      /\ \A d \in ConnAddrs : Owns(x, d)' <=> (d = c /\ ok)
      /\ \A d \in ConnAddrs : ~Owns(x, d)
  BY <1>1, <1>2 DEF TypeOK, Owns
<1>a. \A d \in ConnAddrs : Copied(d) => Copied(d)'
  <2>1. \A y \in Contexts : ctx[y].used => ctx'[y] = ctx[y]
    BY <1>1, <1>2 DEF TypeOK
  <2>2. QED
    BY <2>1 DEF Copied
<1>7. ~Copied(c) => \A y \in Contexts : ~Owns(y, c)
  BY <1>1 DEF Ownership, Owners
<1>8. Owners'
  <2>1. ASSUME NEW d \in ConnAddrs, d # c, ~Copied(d)
        PROVE  /\ conn'[d].live /\ conn'[d].session # "never" => \E y \in Contexts : Owns(y, d)'
               /\ \A y \in Contexts : Owns(y, d)' => conn'[d].live /\ conn'[d].session # "never"
               /\ \A y, z \in Contexts : Owns(y, d)' /\ Owns(z, d)' => y = z
    BY <1>3, <1>6, <2>1 DEF Ownership, Owners
  <2>2. ASSUME ~Copied(c)
        PROVE  /\ conn'[c].live /\ conn'[c].session # "never" => \E y \in Contexts : Owns(y, c)'
               /\ \A y \in Contexts : Owns(y, c)' => conn'[c].live /\ conn'[c].session # "never"
               /\ \A y, z \in Contexts : Owns(y, c)' /\ Owns(z, c)' => y = z
    BY <1>3, <1>6, <1>7, <2>2
  <2>3. QED
    BY <1>a, <2>1, <2>2 DEF Owners
<1>9. Lists'
  <2>1. \A d \in ConnAddrs : ~conn'[d].live => conn'[d] = FreeConn
    BY <1>3 DEF Ownership, Lists
  <2>3. \A q \in ResultAddrs : res'[q].live => \E d \in ConnAddrs : res'[q].conn = d /\ Listed(q, d)'
    BY <1>2, <1>5 DEF Ownership, Lists
  <2>4. \A q \in ResultAddrs, d \in ConnAddrs : Listed(q, d)' => res'[q].live /\ res'[q].conn = d
    BY <1>2, <1>5 DEF Ownership, Lists
  <2>5. \A d \in ConnAddrs : \A i, j \in 1..Len(conn'[d].results) :
          conn'[d].results[i] = conn'[d].results[j] => i = j
    BY <1>3 DEF Ownership, Lists
  <2>6. QED
    BY <2>1, <2>3, <2>4, <2>5 DEF Lists
<1>10. Stands'
  BY <1>2 DEF Ownership, Stands, StandsFor
<1>11. QED
  BY <1>8, <1>9, <1>10 DEF Ownership

\* A close frees the connection and all its results, and no other.
LEMMA CloseOwnership ==
  ASSUME TypeOK, Ownership, NEW x \in Contexts, ctx[x].used, ctx[x].status,
         dal_close(ctx[x].conn), ctx' = AfterClose(x)
  PROVE  Ownership'
<1>a. PICK c \in ConnAddrs : c = ctx[x].conn
  BY DEF TypeOK
<1> DEFINE freed == ToSet(conn[c].results)
<1>0. Owns(x, c)
  BY <1>a DEF Owns
<1>1. /\ conn' = [conn EXCEPT ![c] = FreeConn]
      /\ res' = [r \in ResultAddrs |-> IF r \in freed THEN FreeResult ELSE res[r]]
      /\ cur' = [k \in Cursors |->
                   IF cur[k].used /\ cur[k].result \in freed
                     THEN [NoCursor EXCEPT !.used = TRUE, !.result = cur[k].result, !.offset = cur[k].offset, !.stale = TRUE]
                     ELSE cur[k]]
  BY <1>a DEF dal_close, dal_conn_clear_results, Release
<1>2. \A r \in ResultAddrs : r \in freed <=> Listed(r, c)
  <2>1. conn[c].results \in Seq(ResultAddrs)
    BY <1>0 DEF TypeOK, Connection
  <2>2. QED
    BY <2>1 DEF ToSet, Listed
<1>3. /\ \A d \in ConnAddrs : d # c => conn'[d] = conn[d]
      /\ conn'[c] = FreeConn /\ ~conn'[c].live /\ conn'[c].results = <<>>
  BY <1>0, <1>1 DEF TypeOK, FreeConn
<1>4. /\ \A y \in Contexts, d \in ConnAddrs : Owns(y, d)' <=> (Owns(y, d) /\ y # x)
      /\ \A d \in ConnAddrs : Copied(d)' <=> Copied(d)
  <2>1. ASSUME NEW y \in Contexts
        PROVE  /\ ctx'[y].used = ctx[y].used /\ ctx'[y].conn = ctx[y].conn
               /\ ctx'[y].status = (ctx[y].status /\ y # x) /\ ctx'[y].copied = ctx[y].copied
    BY DEF AfterClose, TypeOK, Context
  <2>2. QED
    BY <2>1 DEF Owns, Copied
<1> HIDE DEF freed
<1>5. ~Copied(c) => \A y \in Contexts : Owns(y, c) => y = x
  BY <1>0 DEF Ownership, Owners
<1>6. \A r \in ResultAddrs : /\ r \in freed => ~res'[r].live
                             /\ r \notin freed => res'[r] = res[r]
  BY <1>1 DEF FreeResult
<1>7. \A k \in Cursors, r \in ResultAddrs : StandsFor(k, r)' <=> (StandsFor(k, r) /\ r \notin freed)
  BY <1>1 DEF StandsFor, NoCursor
<1>8. \A r \in ResultAddrs, d \in ConnAddrs : Listed(r, d)' <=> (Listed(r, d) /\ d # c)
  BY <1>0, <1>3 DEF Listed
<1>9. Owners'
  <2>1. ASSUME NEW d \in ConnAddrs, d # c, ~Copied(d)
        PROVE  /\ conn'[d].live /\ conn'[d].session # "never" => \E y \in Contexts : Owns(y, d)'
               /\ \A y \in Contexts : Owns(y, d)' => conn'[d].live /\ conn'[d].session # "never"
               /\ \A y, z \in Contexts : Owns(y, d)' /\ Owns(z, d)' => y = z
    <3>1. ~Owns(x, d)
      BY <1>0, <2>1 DEF Owns
    <3>2. QED
      BY <1>3, <1>4, <2>1, <3>1 DEF Ownership, Owners
  <2>2. ~Copied(c) => \A y \in Contexts : ~Owns(y, c)'
    BY <1>0, <1>4, <1>5
  <2>3. QED
    BY <1>3, <1>4, <2>1, <2>2 DEF Owners
<1>10. Lists'
  <2>1. \A d \in ConnAddrs : ~conn'[d].live => conn'[d] = FreeConn
    BY <1>3 DEF Ownership, Lists
  <2>2. ASSUME NEW r \in ResultAddrs, res'[r].live
        PROVE  \E d \in ConnAddrs : res'[r].conn = d /\ Listed(r, d)'
    <3>1. r \notin freed /\ res'[r] = res[r]
      BY <1>6, <2>2
    <3>2. PICK d \in ConnAddrs : res[r].conn = d /\ Listed(r, d)
      BY <2>2, <3>1 DEF Ownership, Lists
    <3>3. d # c
      BY <1>2, <3>1, <3>2
    <3>4. QED
      BY <1>8, <3>1, <3>2, <3>3
  <2>3. \A r \in ResultAddrs, d \in ConnAddrs : Listed(r, d)' => res'[r].live /\ res'[r].conn = d
    <3>1. ASSUME NEW r \in ResultAddrs, NEW d \in ConnAddrs, Listed(r, d), d # c
          PROVE  res'[r].live /\ res'[r].conn = d
      <4>1. res[r].live /\ res[r].conn = d
        BY <3>1 DEF Ownership, Lists
      <4>2. ~Listed(r, c)
        BY <1>0, <3>1, <4>1 DEF Ownership, Lists
      <4>3. QED
        BY <1>2, <1>6, <4>1, <4>2
    <3>2. QED
      BY <1>8, <3>1
  <2>4. \A d \in ConnAddrs : \A i, j \in 1..Len(conn'[d].results) :
          conn'[d].results[i] = conn'[d].results[j] => i = j
    BY <1>3 DEF Ownership, Lists
  <2>5. QED
    BY <2>1, <2>2, <2>3, <2>4 DEF Lists
<1>11. Stands'
  <2>1. \A k \in Cursors, r \in ResultAddrs : StandsFor(k, r)' => res'[r].live
    BY <1>6, <1>7 DEF Ownership, Stands
  <2>2. \A r \in ResultAddrs : res'[r].live => \E k \in Cursors : StandsFor(k, r)'
    BY <1>6, <1>7 DEF Ownership, Stands
  <2>3. \A r \in ResultAddrs, j, k \in Cursors : StandsFor(j, r)' /\ StandsFor(k, r)' => j = k
    BY <1>7 DEF Ownership, Stands
  <2>4. QED
    BY <2>1, <2>2, <2>3 DEF Stands
<1>12. QED
  BY <1>9, <1>10, <1>11 DEF Ownership

\* A copy of a context changes nothing but who may close its connection.
LEMMA CloneOwnership ==
  ASSUME TypeOK, Ownership, NEW x \in Contexts, NEW y \in Contexts, vm_clone_object(x, y)
  PROVE  Ownership'
<1>1. PICK both : /\ both = [ctx[x] EXCEPT !.copied = @ \/ ctx[x].status]
                  /\ ctx' = [ctx EXCEPT ![x] = both, ![y] = both]
  BY DEF vm_clone_object
<1>2. UNCHANGED <<cur, conn, res>> /\ ctx[x].used /\ ~ctx[y].used
  BY DEF vm_clone_object
<1>3. ctx \in [Contexts -> Context] /\ ctx[x] \in Context
  BY DEF TypeOK
<1>4. /\ both.used /\ both.conn = ctx[x].conn /\ both.status = ctx[x].status
      /\ both.copied = (ctx[x].copied \/ ctx[x].status)
  BY <1>1, <1>2, <1>3 DEF Context
<1>5. /\ ctx'[x] = both /\ ctx'[y] = both
      /\ \A z \in Contexts : z # x /\ z # y => ctx'[z] = ctx[z]
  BY <1>1, <1>3
<1>6. Owners'
  <2> SUFFICES ASSUME NEW c \in ConnAddrs, ~Copied(c)'
               PROVE  /\ conn[c].live /\ conn[c].session # "never" => \E z \in Contexts : Owns(z, c)'
                      /\ \A z \in Contexts : Owns(z, c)' => conn[c].live /\ conn[c].session # "never"
                      /\ \A z, w \in Contexts : Owns(z, c)' /\ Owns(w, c)' => z = w
    BY <1>2 DEF Owners
  <2>1. ctx[x].conn = c => ~ctx[x].status /\ ~ctx[x].copied
    BY <1>4, <1>5 DEF Copied
  <2>2. \A z \in Contexts : Owns(z, c)' <=> Owns(z, c)
    BY <1>2, <1>4, <1>5, <2>1 DEF Owns
  <2>3. ~Copied(c)
    BY <1>2, <1>4, <1>5, <2>1 DEF Copied
  <2>4. QED
    BY <2>2, <2>3 DEF Ownership, Owners
<1>7. Lists'
  BY <1>2 DEF Ownership, Lists, Listed
<1>8. Stands'
  BY <1>2 DEF Ownership, Stands, StandsFor
<1>9. QED
  BY <1>6, <1>7, <1>8 DEF Ownership

-----------------------------------------------------------------------------
(***************************************************************************)
(* The kinds of steps.  Each of them changes one part of the memory.       *)
(***************************************************************************)
Closed(x) ==
  /\ ctx[x].used /\ ctx[x].status
  /\ dal_close(ctx[x].conn) /\ ctx' = AfterClose(x) /\ Strays(ctx[x].stale)

\* A query or an execution that gives a result.
Answered(c, k, a, link) ==
  /\ conn[c].live /\ ~cur[k].used
  /\ a.rows \in {0, a.tuples}
  /\ link = conn[c] \/ \E kept \in SUBSET Forget(conn[c].known, Unnamed) : link = Queried(c, kept)
  /\ dal_conn_create_result(c, k, a, link)
  /\ UNCHANGED ctx

Read(k) ==
  /\ cur[k].used
  /\ res' = [res EXCEPT ![cur[k].result] = Fetch(k)]
  /\ cur' = [cur EXCEPT ![k] = Taken(k, Fetch(k).enumerator)]
  /\ Strays(cur[k].stale)
  /\ UNCHANGED <<ctx, conn>>

Sought(k, offset) ==
  /\ cur[k].used
  /\ res' = [res EXCEPT ![cur[k].result] = Seeked(res[cur[k].result], offset)]
  /\ cur' = [cur EXCEPT ![k] = Moved(k, offset)]
  /\ Strays(cur[k].stale)
  /\ UNCHANGED <<ctx, conn>>

Prepared(c, n, t) ==
  /\ conn[c].live
  /\ \/ Accepts(c, n) /\ conn' = dal_conn_create_statement(c, n, t)
     \/ conn' = Refused(c, n, t)
  /\ UNCHANGED <<ctx, cur, res>>

Kept == UNCHANGED <<ctx, cur, conn, res>>

\* A step is of one of these kinds, and nothing that was wild becomes tame.
LEMMA StepKinds ==
  ASSUME TypeOK, [Next]_vars
  PROVE  /\ wild => wild'
         /\ \/ \E c \in ConnAddrs : SessionLost(c)
            \/ \E x \in Contexts : va_dal_create(x) \/ Closed(x)
            \/ \E x, y \in Contexts : vm_clone_object(x, y)
            \/ \E c \in ConnAddrs, k \in Cursors : \E a, link : Answered(c, k, a, link)
            \/ \E c \in ConnAddrs, n \in Names, t \in Texts : Prepared(c, n, t)
            \/ \E k \in Cursors : Read(k)
            \/ \E k \in Cursors, fset \in -1..MaxRows : Sought(k, SeekOffset(res[cur[k].result], fset))
            \/ Kept
<1> DEFINE Kinds == \/ \E c \in ConnAddrs : SessionLost(c)
                    \/ \E x \in Contexts : va_dal_create(x) \/ Closed(x)
                    \/ \E x, y \in Contexts : vm_clone_object(x, y)
                    \/ \E c \in ConnAddrs, k \in Cursors : \E a, link : Answered(c, k, a, link)
                    \/ \E c \in ConnAddrs, n \in Names, t \in Texts : Prepared(c, n, t)
                    \/ \E k \in Cursors : Read(k)
                    \/ \E k \in Cursors, fset \in -1..MaxRows : Sought(k, SeekOffset(res[cur[k].result], fset))
                    \/ Kept
<1>0. /\ \A x \in Contexts : ctx[x].used => ctx[x].conn \in ConnAddrs
      /\ \A k \in Cursors : cur[k].used => cur[k].result \in ResultAddrs
      /\ res \in [ResultAddrs -> Result] /\ wild \in BOOLEAN
      /\ \A x \in Contexts : ctx[x].stale \in BOOLEAN
      /\ \A k \in Cursors : cur[k].stale \in BOOLEAN
  BY DEF TypeOK, Context, Cursor
<1>1. ASSUME NEW c \in ConnAddrs, SessionLost(c) PROVE Kinds /\ (wild => wild')
  BY <1>1 DEF SessionLost
<1>2. ASSUME NEW x \in Contexts, va_dal_create(x) PROVE Kinds /\ (wild => wild')
  BY <1>2 DEF va_dal_create
<1>3. ASSUME NEW x \in Contexts, va_dal_close(x) PROVE Kinds /\ (wild => wild')
  <2>1. Closed(x) \/ Kept
    BY <1>3 DEF va_dal_close, Closed, Kept, Crash, vars
  <2>2. wild => wild'
    BY <1>0, <1>3 DEF va_dal_close, Strays, Crash, vars
  <2>3. QED
    BY <2>1, <2>2
<1>4. ASSUME NEW x \in Contexts, NEW k \in Cursors, va_dal_query(x, k) PROVE Kinds /\ (wild => wild')
  <2>0. PICK c \in ConnAddrs : c = ctx[x].conn
    BY <1>0, <1>4 DEF va_dal_query
  <2>1. ASSUME NEW a \in Answers(c), NEW kept \in SUBSET Forget(conn[c].known, Unnamed),
               dal_conn_create_result(c, k, a, Queried(c, kept)), UNCHANGED ctx, Reaches(x)
        PROVE  \E b, link : Answered(c, k, b, link)
    <3>1. Answered(c, k, a, Queried(c, kept))
      BY <1>4, <2>0, <2>1, AnswerTypes DEF Answered, Reaches, va_dal_query
    <3>2. QED
      BY <3>1
  <2>2. (\E b, link : Answered(c, k, b, link)) \/ Kept
    BY <1>4, <2>0, <2>1 DEF va_dal_query, Kept, Crash, Nothing
  <2>3. wild => wild'
    BY <1>0, <1>4 DEF va_dal_query, Strays, Crash
  <2>4. QED
    BY <2>2, <2>3
<1>5. ASSUME NEW x \in Contexts, NEW n \in Names, NEW t \in Texts, va_dal_prepare(x, n, t)
      PROVE  Kinds /\ (wild => wild')
  <2>0. PICK c \in ConnAddrs : c = ctx[x].conn
    BY <1>0, <1>5 DEF va_dal_prepare
  <2>1. Prepared(c, n, t) \/ Kept
    BY <1>5, <2>0 DEF va_dal_prepare, Prepared, Reaches, Kept, Crash
  <2>2. wild => wild'
    BY <1>0, <1>5 DEF va_dal_prepare, Strays, Crash
  <2>3. QED
    BY <2>1, <2>2
<1>6. ASSUME NEW x \in Contexts, NEW n \in Names, NEW k \in Cursors, va_dal_execute(x, n, k)
      PROVE  Kinds /\ (wild => wild')
  <2>0. PICK c \in ConnAddrs : c = ctx[x].conn
    BY <1>0, <1>6 DEF va_dal_execute
  <2>1. ASSUME dal_conn_create_result(c, k, NoRows, conn[c]), UNCHANGED ctx, Reaches(x)
        PROVE  \E b, link : Answered(c, k, b, link)
    <3>1. Answered(c, k, NoRows, conn[c])
      BY <1>6, <2>0, <2>1 DEF Answered, Reaches, va_dal_execute, NoRows
    <3>2. QED
      BY <3>1
  <2>2. (\E b, link : Answered(c, k, b, link)) \/ Kept
    BY <1>6, <2>0, <2>1 DEF va_dal_execute, Kept, Crash, Nothing, vars
  <2>3. wild => wild'
    BY <1>0, <1>6 DEF va_dal_execute, Strays, Crash, vars
  <2>4. QED
    BY <2>2, <2>3
<1>7. ASSUME NEW k \in Cursors, va_dal_result_read(k) PROVE Kinds /\ (wild => wild')
  <2>1. Read(k) \/ Kept
    BY <1>7 DEF va_dal_result_read, Read, Kept, Crash, vars
  <2>2. wild => wild'
    BY <1>0, <1>7 DEF va_dal_result_read, Strays, Crash, vars
  <2>3. QED
    BY <2>1, <2>2
<1>8. ASSUME NEW k \in Cursors, NEW fset \in -1..MaxRows, va_dal_result_seek(k, fset)
      PROVE  Kinds /\ (wild => wild')
  <2>1. Sought(k, SeekOffset(res[cur[k].result], fset)) \/ Kept
    BY <1>0, <1>8 DEF va_dal_result_seek, Sought, Kept, Crash
  <2>2. wild => wild'
    BY <1>0, <1>8 DEF va_dal_result_seek, Strays, Crash
  <2>3. QED
    BY <2>1, <2>2
<1>9. ASSUME NEW x \in Contexts, NEW y \in Contexts, vm_clone_object(x, y) PROVE Kinds /\ (wild => wild')
  BY <1>9 DEF vm_clone_object
<1>10. CASE UNCHANGED vars
  BY <1>10 DEF vars, Kept
<1>11. QED
  BY <1>1, <1>2, <1>3, <1>4, <1>5, <1>6, <1>7, <1>8, <1>9, <1>10 DEF Next, Crashed

-----------------------------------------------------------------------------
(***************************************************************************)
(* Ownership is kept.                                                      *)
(***************************************************************************)
\* A read or a seek changes neither who is alive nor who stands for whom.
LEMMA FetchKeeps ==
  ASSUME TypeOK, NEW k \in Cursors,
         Read(k) \/ \E fset \in -1..MaxRows : Sought(k, SeekOffset(res[cur[k].result], fset))
  PROVE  /\ \A r \in ResultAddrs : res'[r].live = res[r].live /\ res'[r].conn = res[r].conn
         /\ \A j \in Cursors : /\ cur'[j].used = cur[j].used /\ cur'[j].stale = cur[j].stale
                               /\ cur'[j].result = cur[j].result
<1>0. PICK r \in ResultAddrs : r = cur[k].result
  BY DEF TypeOK, Read, Sought
<1>1. /\ res \in [ResultAddrs -> Result] /\ cur \in [Cursors -> Cursor]
      /\ res[r] \in Result /\ cur[k] \in Cursor
      /\ (res[r].enumerator # Null => res[r].records /\ res[r].enumerator \in 0..(res[r].rows - 1))
  BY <1>0 DEF TypeOK
<1>2. PICK new : /\ res' = [res EXCEPT ![r] = new] /\ new.live = res[r].live /\ new.conn = res[r].conn
  <2>1. CASE Read(k)
    <3>1. Fetch(k) \in {pgsql_fetch_first(res[r]), pgsql_fetch_next(res[r])}
      BY <1>0 DEF Fetch
    <3>2. Fetch(k).live = res[r].live /\ Fetch(k).conn = res[r].conn
      BY <1>1, <3>1, FetchTypes, 0 \in Int
    <3>3. QED
      BY <1>0, <2>1, <3>2 DEF Read
  <2>2. ASSUME NEW fset \in -1..MaxRows, Sought(k, SeekOffset(res[r], fset))
        PROVE  \E new : /\ res' = [res EXCEPT ![r] = new] /\ new.live = res[r].live /\ new.conn = res[r].conn
    <3>1. PICK o \in Int : o = SeekOffset(res[r], fset)
      <4>1. res[r].tuples \in Int /\ fset \in Int
        BY <1>1, BoundsAssumption DEF Result
      <4>2. QED
        BY <4>1 DEF SeekOffset
    <3>2. Seeked(res[r], o).live = res[r].live /\ Seeked(res[r], o).conn = res[r].conn
      BY <1>1, FetchTypes
    <3>3. QED
      BY <1>0, <2>2, <3>1, <3>2 DEF Sought
  <2>3. QED
    BY <1>0, <2>1, <2>2
<1>3. PICK u : /\ cur' = [cur EXCEPT ![k] = u]
               /\ u.used = cur[k].used /\ u.stale = cur[k].stale /\ u.result = cur[k].result
  <2>1. \A e : /\ Taken(k, e).used = cur[k].used /\ Taken(k, e).stale = cur[k].stale
               /\ Taken(k, e).result = cur[k].result
    BY <1>1 DEF Taken, Cursor
  <2>2. \A o : /\ Moved(k, o).used = cur[k].used /\ Moved(k, o).stale = cur[k].stale
               /\ Moved(k, o).result = cur[k].result
    BY <1>1 DEF Moved, Cursor
  <2>3. \/ cur' = [cur EXCEPT ![k] = Taken(k, Fetch(k).enumerator)]
        \/ \E o : cur' = [cur EXCEPT ![k] = Moved(k, o)]
    BY DEF Read, Sought
  <2>4. QED
    BY <2>1, <2>2, <2>3
<1>4. QED
  BY <1>1, <1>2, <1>3

\* A statement changes nothing of a connection but what is prepared in it.
LEMMA PreparedKeeps ==
  ASSUME TypeOK, NEW c \in ConnAddrs, NEW n \in Names, NEW t \in Texts, Prepared(c, n, t)
  PROVE  /\ \A d \in ConnAddrs : d # c => conn'[d] = conn[d]
         /\ conn'[c].live = conn[c].live /\ conn'[c].results = conn[c].results
         /\ conn'[c].session = conn[c].session
<1>1. conn \in [ConnAddrs -> Connection] /\ conn[c] \in Connection
  BY DEF TypeOK
<1>2. CASE conn' = dal_conn_create_statement(c, n, t)
  BY <1>1, <1>2 DEF Connection, dal_conn_create_statement
<1>3. CASE conn' = Refused(c, n, t)
  BY <1>1, <1>3 DEF Connection, Refused
<1>4. QED
  BY <1>2, <1>3 DEF Prepared

\* Every step keeps the ownership.
LEMMA NextOwnership == TypeOK /\ Ownership /\ [Next]_vars => Ownership'
<1> SUFFICES ASSUME TypeOK, Ownership, [Next]_vars PROVE Ownership'
  OBVIOUS
<1>1. ASSUME NEW c \in ConnAddrs, SessionLost(c) PROVE Ownership'
  <2>1. /\ \A d \in ConnAddrs : d # c => conn'[d] = conn[d]
        /\ conn[c].live /\ conn'[c].live = conn[c].live /\ conn'[c].results = conn[c].results
        /\ conn'[c].session # "never" /\ conn[c].session # "never"
    BY <1>1 DEF SessionLost, Open, TypeOK, Connection
  <2>2. UNCHANGED <<ctx, cur, res>>
    BY <1>1 DEF SessionLost
  <2>3. QED
    BY <2>1, <2>2, QuietOwnership
<1>2. ASSUME NEW x \in Contexts, va_dal_create(x) PROVE Ownership'
  BY <1>2, CreateOwnership
<1>3. ASSUME NEW x \in Contexts, Closed(x) PROVE Ownership'
  BY <1>3, CloseOwnership DEF Closed
<1>4. ASSUME NEW c \in ConnAddrs, NEW k \in Cursors, NEW a, NEW link, Answered(c, k, a, link)
      PROVE  Ownership'
  <2>1. /\ link \in Connection /\ link.live = conn[c].live /\ link.results = conn[c].results
        /\ link.session # "never" <=> conn[c].session # "never"
    <3>1. conn[c] \in Connection
      BY DEF TypeOK
    <3>2. CASE link = conn[c]
      BY <3>1, <3>2
    <3>3. ASSUME NEW kept \in SUBSET Forget(conn[c].known, Unnamed), link = Queried(c, kept)
          PROVE  /\ link \in Connection /\ link.live = conn[c].live /\ link.results = conn[c].results
                 /\ link.session # "never" <=> conn[c].session # "never"
      BY <3>3, QueriedTypes
    <3>4. QED
      BY <1>4, <3>2, <3>3 DEF Answered
  <2>2. QED
    BY <1>4, <2>1, CreateResultOwnership DEF Answered
<1>5. ASSUME NEW c \in ConnAddrs, NEW n \in Names, NEW t \in Texts, Prepared(c, n, t) PROVE Ownership'
  <2>1. /\ \A d \in ConnAddrs : d # c => conn'[d] = conn[d]
        /\ conn'[c].live = conn[c].live /\ conn'[c].results = conn[c].results
        /\ conn'[c].session = conn[c].session
    BY <1>5, PreparedKeeps
  <2>2. UNCHANGED <<ctx, cur, res>> /\ conn[c].live
    BY <1>5 DEF Prepared
  <2>3. QED
    BY <2>1, <2>2, QuietOwnership
<1>6. ASSUME NEW k \in Cursors, Read(k) \/ \E fset \in -1..MaxRows : Sought(k, SeekOffset(res[cur[k].result], fset))
      PROVE  Ownership'
  <2>1. UNCHANGED <<ctx, conn>>
    BY <1>6 DEF Read, Sought
  <2>2. QED
    BY <1>6, <2>1, FetchKeeps, QuietOwnership
<1>7. CASE Kept
  BY <1>7, QuietOwnership DEF Kept
<1>8. ASSUME NEW x \in Contexts, NEW y \in Contexts, vm_clone_object(x, y) PROVE Ownership'
  BY <1>8, CloneOwnership
<1>9. QED
  BY <1>1, <1>2, <1>3, <1>4, <1>5, <1>6, <1>7, <1>8, StepKinds

\* What is owned, in every reachable state.
THEOREM OwnershipHolds == Spec => []Ownership
<1>1. Init => TypeOK /\ Ownership
  BY InitTypeOK, InitOwnership
<1>2. TypeOK /\ Ownership /\ [Next]_vars => (TypeOK /\ Ownership)'
  BY NextTypeOK, NextOwnership
<1>3. QED
  BY <1>1, <1>2, PTL DEF Spec

\* A connection has one context that can close it, or none, unless that context was copied:
\* dal_close frees it once.
THEOREM ClosedOnce == Spec => []OneOwner
<1>1. ASSUME Owners PROVE OneOwner
  <2> SUFFICES ASSUME NEW c \in ConnAddrs, ~Copied(c)
               PROVE  Cardinality({x \in Contexts : ctx[x].used /\ ctx[x].conn = c /\ ctx[x].status})
                        = IF conn[c].live /\ conn[c].session # "never" THEN 1 ELSE 0
    BY DEF OneOwner, Copied
  <2> DEFINE owners == {x \in Contexts : ctx[x].used /\ ctx[x].conn = c /\ ctx[x].status}
  <2>1. \A x \in Contexts : x \in owners <=> Owns(x, c)
    BY DEF Owns
  <2>2. owners \subseteq Contexts
    OBVIOUS
  <2> HIDE DEF owners
  <2>3. CASE conn[c].live /\ conn[c].session # "never"
    <3>1. PICK x \in Contexts : Owns(x, c)
      BY <1>1, <2>3 DEF Owners
    <3>2. owners = {x}
      BY <1>1, <2>1, <2>2, <3>1 DEF Owners
    <3>3. QED
      BY <2>3, <3>2, FS_Singleton DEF owners
  <2>4. CASE ~(conn[c].live /\ conn[c].session # "never")
    <3>1. owners = {}
      BY <1>1, <2>1, <2>2, <2>4 DEF Owners
    <3>2. QED
      BY <2>4, <3>1, FS_EmptySet DEF owners
  <2>5. QED
    BY <2>3, <2>4
<1>2. Ownership => OneOwner
  BY <1>1 DEF Ownership
<1>3. QED
  BY <1>2, OwnershipHolds, PTL

\* A result in memory is in one list and has one cursor, a freed one is in none: closing a
\* connection frees all its results and no cursor of another connection loses its own.
THEOREM FreedWithTheirConnection == Spec => []ResultsOwned
<1>1. ASSUME TypeOK, Lists, Stands PROVE ResultsOwned
  <2> SUFFICES ASSUME NEW r \in ResultAddrs
               PROVE  /\ {c \in ConnAddrs : r \in ToSet(conn[c].results)} = IF res[r].live THEN {res[r].conn} ELSE {}
                      /\ \A c \in ConnAddrs : IsInjective(conn[c].results) /\ (conn[c].results # <<>> => conn[c].live)
                      /\ Cardinality({k \in Cursors : cur[k].used /\ ~cur[k].stale /\ cur[k].result = r})
                           = IF res[r].live THEN 1 ELSE 0
    BY DEF ResultsOwned
  <2>1. \A c \in ConnAddrs : conn[c].results \in Seq(ResultAddrs)
    BY <1>1 DEF TypeOK, Connection
  <2>2. \A c \in ConnAddrs : r \in ToSet(conn[c].results) <=> Listed(r, c)
    BY <2>1 DEF ToSet, Listed
  <2>3. {c \in ConnAddrs : r \in ToSet(conn[c].results)} = IF res[r].live THEN {res[r].conn} ELSE {}
    <3>1. {c \in ConnAddrs : r \in ToSet(conn[c].results)} = {c \in ConnAddrs : Listed(r, c)}
      BY <2>2
    <3>2. QED
      BY <1>1, <3>1 DEF Lists
  <2>4. \A c \in ConnAddrs : IsInjective(conn[c].results) /\ (conn[c].results # <<>> => conn[c].live)
    <3> TAKE c \in ConnAddrs
    <3>1. DOMAIN conn[c].results = 1..Len(conn[c].results)
      BY <2>1
    <3>2. IsInjective(conn[c].results)
      BY <1>1, <3>1 DEF Lists, IsInjective
    <3>3. conn[c].results # <<>> => conn[c].live
      BY <1>1 DEF Lists, FreeConn
    <3>4. QED
      BY <3>2, <3>3
  <2> DEFINE standing == {k \in Cursors : cur[k].used /\ ~cur[k].stale /\ cur[k].result = r}
  <2>5. \A k \in Cursors : k \in standing <=> StandsFor(k, r)
    BY DEF StandsFor
  <2>6. standing \subseteq Cursors
    OBVIOUS
  <2> HIDE DEF standing
  <2>7. Cardinality(standing) = IF res[r].live THEN 1 ELSE 0
    <3>1. CASE res[r].live
      <4>1. PICK k \in Cursors : StandsFor(k, r)
        BY <1>1, <3>1 DEF Stands
      <4>2. standing = {k}
        BY <1>1, <2>5, <2>6, <4>1 DEF Stands
      <4>3. QED
        BY <3>1, <4>2, FS_Singleton
    <3>2. CASE ~res[r].live
      <4>1. standing = {}
        BY <1>1, <2>5, <2>6, <3>2 DEF Stands
      <4>2. QED
        BY <3>2, <4>1, FS_EmptySet
    <3>3. QED
      BY <3>1, <3>2
  <2>8. QED
    BY <2>3, <2>4, <2>7 DEF standing
<1>2. TypeOK /\ Ownership => ResultsOwned
  BY <1>1 DEF Ownership
<1>3. QED
  BY <1>2, TypeCorrect, OwnershipHolds, PTL

-----------------------------------------------------------------------------
(***************************************************************************)
(* Statements.                                                             *)
(***************************************************************************)
\* What StatementsAgree asks of one connection.
Agrees(d) ==
  d.session = "up" =>
    \A i \in 1..Len(d.statements) : d.statements[i].name # Unnamed =>
      /\ d.statements[i] \in d.known
      /\ \A j \in 1..Len(d.statements) : d.statements[j].name = d.statements[i].name => j = i

\* It is what StatementsAgree says of every connection.
LEMMA AgreesAll == StatementsAgree <=> \A c \in ConnAddrs : Agrees(conn[c])
BY DEF StatementsAgree, Agrees

\* A new statement agrees with the server: its name was unknown there, or is the empty one.
LEMMA AcceptAgrees ==
  ASSUME NEW d \in Connection, Agrees(d), NEW n \in Names, NEW t \in Texts, d.session = "up",
         n = Unnamed \/ ~\E s \in d.known : s.name = n,
         NEW e, e.session = "up",
         e.statements = Append(d.statements, [name |-> n, text |-> t]),
         e.known = Forget(d.known, n) \cup {[name |-> n, text |-> t]}
  PROVE  Agrees(e)
<1> DEFINE new == [name |-> n, text |-> t]
           m == Len(d.statements)
<1>1. d.statements \in Seq(Statement) /\ new \in Statement /\ new.name = n
  BY DEF Connection, Statement
<1> HIDE DEF new
<1>2. m \in Nat
  BY <1>1
<1>3. Len(e.statements) = m + 1
  BY <1>1 DEF new
<1>4. \A i \in 1..m : e.statements[i] = d.statements[i]
  BY <1>1 DEF new
<1>5. e.statements[m + 1] = new
  BY <1>1 DEF new
<1> HIDE DEF m
<1>6. \A i \in 1..(m + 1) : i \in 1..m \/ i = m + 1
  BY <1>2
<1>7. \A i \in 1..m : d.statements[i].name # Unnamed =>
        /\ d.statements[i] \in d.known
        /\ \A j \in 1..m : d.statements[j].name = d.statements[i].name => j = i
  BY DEF Agrees, m
<1>8. \A i \in 1..m : d.statements[i].name # Unnamed => d.statements[i].name # n
  BY <1>7
<1>9. \A i \in 1..m : d.statements[i].name # Unnamed => d.statements[i] \in e.known
  BY <1>7, <1>8 DEF Forget
<1>10. new \in e.known
  BY DEF new
<1>11. ASSUME NEW i \in 1..(m + 1), e.statements[i].name # Unnamed
       PROVE  /\ e.statements[i] \in e.known
              /\ \A j \in 1..(m + 1) : e.statements[j].name = e.statements[i].name => j = i
  <2>1. CASE i \in 1..m
    <3>1. d.statements[i].name # Unnamed /\ e.statements[i] = d.statements[i] /\ d.statements[i].name # n
      BY <1>4, <1>8, <1>11, <2>1
    <3>2. \A j \in 1..(m + 1) : e.statements[j].name = e.statements[i].name => j = i
      BY <1>1, <1>4, <1>5, <1>6, <1>7, <2>1, <3>1
    <3>3. QED
      BY <1>9, <2>1, <3>1, <3>2
  <2>2. CASE i = m + 1
    <3>1. e.statements[i] = new /\ n # Unnamed
      BY <1>1, <1>5, <1>11, <2>2
    <3>2. \A j \in 1..m : e.statements[j].name # n
      BY <1>4, <1>8, <3>1
    <3>3. QED
      BY <1>1, <1>6, <1>10, <2>2, <3>1, <3>2
  <2>3. QED
    BY <1>6, <2>1, <2>2
<1>12. QED
  BY <1>3, <1>11 DEF Agrees

\* Forgetting the unnamed statement does not disturb the named ones.
LEMMA ForgetAgrees ==
  ASSUME NEW d, Agrees(d), NEW e, e.session = d.session, e.statements = d.statements,
         e.known \in {d.known, Forget(d.known, Unnamed)}
  PROVE  Agrees(e)
BY DEF Agrees, Forget

\* Every step keeps the connection's list and the server's names in agreement.
LEMMA NextStatements == TypeOK /\ StatementsAgree /\ [Next]_vars => StatementsAgree'
<1> SUFFICES ASSUME TypeOK, \A c \in ConnAddrs : Agrees(conn[c]), [Next]_vars,
                    NEW c \in ConnAddrs
             PROVE  Agrees(conn'[c])
  <2>1. StatementsAgree' <=> \A c \in ConnAddrs : Agrees(conn'[c])
    BY DEF StatementsAgree, Agrees
  <2>2. QED
    BY <2>1, AgreesAll
<1>0. conn \in [ConnAddrs -> Connection] /\ conn[c] \in Connection
  BY DEF TypeOK
<1>1. CASE conn'[c] = conn[c]
  BY <1>1
<1>2. ASSUME NEW d \in ConnAddrs, SessionLost(d) PROVE Agrees(conn'[c])
  <2>1. CASE c = d
    <3>1. conn'[c].session # "up"
      BY <1>0, <1>2, <2>1 DEF SessionLost, Connection
    <3>2. QED
      BY <3>1 DEF Agrees
  <2>2. CASE c # d
    BY <1>0, <1>1, <1>2, <2>2 DEF SessionLost
  <2>3. QED
    BY <2>1, <2>2
<1>3. ASSUME NEW x \in Contexts, va_dal_create(x) \/ Closed(x) PROVE Agrees(conn'[c])
  <2>1. PICK d, new : /\ conn' = [conn EXCEPT ![d] = new] /\ new.statements = <<>>
    <3>1. FreeConn.statements = <<>>
      BY DEF FreeConn
    <3>2. \A v : [FreeConn EXCEPT !.live = TRUE, !.session = v].statements = <<>>
      BY DEF FreeConn
    <3>3. CASE va_dal_create(x)
      <4>1. PICK d, v : conn' = [conn EXCEPT ![d] = [FreeConn EXCEPT !.live = TRUE, !.session = v]]
        BY <3>3 DEF va_dal_create
      <4>2. QED
        BY <3>2, <4>1
    <3>4. CASE Closed(x)
      BY <3>1, <3>4 DEF Closed, dal_close
    <3>5. QED
      BY <1>3, <3>3, <3>4
  <2>2. CASE c = d
    <3>1. conn'[c].statements = <<>>
      BY <1>0, <2>1, <2>2
    <3>2. QED
      BY <3>1 DEF Agrees
  <2>3. CASE c # d
    BY <1>0, <1>1, <2>1, <2>3
  <2>4. QED
    BY <2>2, <2>3
<1>4. ASSUME NEW d \in ConnAddrs, NEW k \in Cursors, NEW a, NEW link, Answered(d, k, a, link)
      PROVE  Agrees(conn'[c])
  <2>1. PICK r : conn' = [conn EXCEPT ![d] = [link EXCEPT !.results = Append(@, r)]]
    BY <1>4 DEF Answered, dal_conn_create_result
  <2>2. CASE c = d
    <3>1. /\ link \in Connection /\ link.statements = conn[c].statements
          /\ link.session = "up" => /\ conn[c].session = "up"
                                    /\ link.known \in {conn[c].known, Forget(conn[c].known, Unnamed)}
      BY <1>0, <1>4, <2>2, QueriedTypes DEF Answered
    <3>2. /\ conn'[c].session = link.session /\ conn'[c].statements = link.statements
          /\ conn'[c].known = link.known
      BY <1>0, <2>1, <2>2, <3>1 DEF Connection
    <3>3. CASE link.session = "up"
      BY <3>1, <3>2, <3>3, ForgetAgrees
    <3>4. CASE link.session # "up"
      BY <3>2, <3>4 DEF Agrees
    <3>5. QED
      BY <3>3, <3>4
  <2>3. CASE c # d
    BY <1>0, <1>1, <2>1, <2>3
  <2>4. QED
    BY <2>2, <2>3
<1>5. ASSUME NEW d \in ConnAddrs, NEW n \in Names, NEW t \in Texts, Prepared(d, n, t)
      PROVE  Agrees(conn'[c])
  <2>1. CASE c # d
    BY <1>1, <1>5, <2>1, PreparedKeeps
  <2>2. CASE c = d /\ Accepts(c, n) /\ conn' = dal_conn_create_statement(c, n, t)
    <3>1. /\ conn'[c].session = conn[c].session
          /\ n = Unnamed \/ ~\E s \in conn[c].known : s.name = n
      BY <1>0, <1>5, <2>2, PreparedKeeps DEF Accepts, Knows
    <3>2. /\ conn'[c].statements = Append(conn[c].statements, [name |-> n, text |-> t])
          /\ conn'[c].known = Forget(conn[c].known, n) \cup {[name |-> n, text |-> t]}
      BY <1>0, <2>2 DEF dal_conn_create_statement, Connection
    <3>3. CASE conn[c].session = "up"
      BY <1>0, <3>1, <3>2, <3>3, AcceptAgrees
    <3>4. CASE conn[c].session # "up"
      BY <3>1, <3>4 DEF Agrees
    <3>5. QED
      BY <3>3, <3>4
  <2>3. CASE c = d /\ conn' = Refused(c, n, t)
    <3>1. /\ conn'[c].session = conn[c].session /\ conn'[c].statements = conn[c].statements
          /\ conn'[c].known \in {conn[c].known, Forget(conn[c].known, Unnamed)}
      BY <1>0, <2>3 DEF Refused, Connection
    <3>2. QED
      BY <3>1, ForgetAgrees
  <2>4. QED
    BY <1>5, <2>1, <2>2, <2>3 DEF Prepared
<1>6. CASE UNCHANGED conn
  BY <1>1, <1>6
<1>7. QED
  BY <1>2, <1>3, <1>4, <1>5, <1>6, StepKinds DEF Read, Sought, Kept, vm_clone_object

\* While the session lives and no query dropped statements, va_dal_execute runs under a name the text that was prepared with it.
THEOREM NamesStayTrue == Spec => []StatementsAgree
<1>1. Init => StatementsAgree
  BY DEF Init, StatementsAgree, FreeConn
<1>2. QED
  BY <1>1, TypeCorrect, NextStatements, PTL DEF Spec

-----------------------------------------------------------------------------
(***************************************************************************)
(* Positions.  Where the enumerator of a result is, seen from the cursor   *)
(* that stands for it.                                                     *)
(***************************************************************************)
Placed(u, rec) ==
  /\ \A i \in 1..Len(u.seen) : u.seen[i] = u.from + i
  /\ rec.rows \in {0, rec.tuples}
  /\ u.offset >= -1 /\ (u.offset = -1 => rec.rows = 0)
  /\ u.offset = 0 => u.from = -1 /\ u.seen = <<>> /\ (u.ended => rec.rows = 0)
  /\ rec.rows = 0 => rec.enumerator = Null /\ u.seen = <<>>
  /\ u.offset # 0 /\ rec.rows # 0 =>
       /\ rec.records
       /\ u.ended => rec.enumerator = Null /\ u.from + Len(u.seen) = rec.rows - 1
       /\ ~u.ended => rec.enumerator = u.from + Len(u.seen) /\ rec.enumerator # Null

\* Every cursor is placed, unless a stale pointer reached another structure.
Position == ~wild => \A k \in Cursors, r \in ResultAddrs : StandsFor(k, r) => Placed(cur[k], res[r])

\* The enumerator after a fetch or a seek.
LEMMA FetchedAt ==
  ASSUME NEW rec \in Result, NEW o \in Int
  PROVE  /\ pgsql_fetch_first(rec).enumerator = (IF rec.rows = 0 THEN Null ELSE 0)
         /\ rec.rows # 0 => pgsql_fetch_first(rec).records
         /\ pgsql_fetch_next(rec).enumerator = RowAfter(rec, rec.enumerator)
         /\ pgsql_fetch_next(rec).records = rec.records
         /\ Seeked(rec, o).enumerator = RowAt(rec, o)
         /\ rec.rows # 0 => Seeked(rec, o).records
<1>1. rec.records \in BOOLEAN
  BY DEF Result
<1>2. Loaded(rec) \in {rec, pgsql_fetch_all(rec)} /\ (rec.rows # 0 => Loaded(rec).records)
  BY <1>1 DEF Loaded, pgsql_fetch_all, Result
<1>3. \A e : [Loaded(rec) EXCEPT !.enumerator = e].enumerator = e
  BY <1>2 DEF pgsql_fetch_all, Result
<1>4. \A e : [Loaded(rec) EXCEPT !.enumerator = e].records = Loaded(rec).records
  BY <1>2 DEF pgsql_fetch_all, Result
<1>5. /\ pgsql_fetch_next(rec).enumerator = RowAfter(rec, rec.enumerator)
      /\ pgsql_fetch_next(rec).records = rec.records
  BY DEF pgsql_fetch_next, Result
<1>6. QED
  BY <1>2, <1>3, <1>4, <1>5 DEF pgsql_fetch_first, Seeked, First

\* A read takes the next row, or finds that there is none.
LEMMA ReadPlaced ==
  ASSUME NEW u \in Cursor, NEW rec \in Result, Placed(u, rec),
         rec.enumerator # Null => rec.enumerator \in 0..(rec.rows - 1),
         NEW new \in Result, new.rows = rec.rows, new.tuples = rec.tuples,
         u.offset = 0 => /\ new.enumerator = (IF rec.rows = 0 THEN Null ELSE 0)
                         /\ rec.rows # 0 => new.records,
         u.offset # 0 => /\ new.enumerator = RowAfter(rec, rec.enumerator)
                         /\ new.records = rec.records,
         NEW v \in Cursor, v.from = u.from,
         new.enumerator = Null => v.offset = u.offset /\ v.seen = u.seen /\ v.ended,
         new.enumerator # Null => /\ v.offset = u.offset + 1 /\ v.ended = u.ended
                                  /\ v.seen = Append(u.seen, new.enumerator)
  PROVE  Placed(v, new)
<1>1. /\ rec.rows \in Nat /\ rec.tuples \in Nat /\ rec.enumerator \in Int /\ new.enumerator \in Int
      /\ u.offset \in Int /\ u.from \in Int /\ u.seen \in Seq(Nat) /\ Len(u.seen) \in Nat
      /\ u.ended \in BOOLEAN /\ v.ended \in BOOLEAN /\ Null = -1
  BY BoundsAssumption DEF Result, Cursor, Null
<1>2. CASE rec.rows = 0
  <2>1. new.enumerator = Null
    BY <1>1, <1>2 DEF Placed, RowAfter
  <2>2. QED
    BY <1>1, <1>2, <2>1 DEF Placed
<1>3. CASE rec.rows # 0 /\ u.offset = 0
  <2>1. new.enumerator = 0 /\ new.records /\ v.offset = 1 /\ v.seen = <<0>> /\ v.from = -1 /\ ~v.ended
    BY <1>1, <1>3 DEF Placed
  <2>2. Len(v.seen) = 1 /\ v.seen[1] = 0
    BY <2>1
  <2>3. QED
    BY <1>1, <1>3, <2>1, <2>2 DEF Placed
<1>4. CASE rec.rows # 0 /\ u.offset # 0 /\ new.enumerator = Null
  <2>1. rec.enumerator = Null \/ rec.enumerator + 1 >= rec.rows
    BY <1>1, <1>4 DEF RowAfter
  <2>2. rec.enumerator # Null => rec.enumerator = rec.rows - 1
    BY <1>1, <2>1
  <2>3. u.from + Len(u.seen) = rec.rows - 1
    BY <1>1, <1>4, <2>2 DEF Placed
  <2>4. QED
    BY <1>1, <1>4, <2>3 DEF Placed
<1>5. CASE rec.rows # 0 /\ u.offset # 0 /\ new.enumerator # Null
  <2>1. new.enumerator = rec.enumerator + 1 /\ rec.enumerator # Null
    BY <1>1, <1>5 DEF RowAfter
  <2>2. ~u.ended /\ rec.enumerator = u.from + Len(u.seen) /\ new.records
    BY <1>1, <1>5, <2>1 DEF Placed
  <2>3. new.enumerator \in Nat /\ v.seen = Append(u.seen, new.enumerator)
    BY <1>1, <1>5, <2>1
  <2>4. Len(v.seen) = Len(u.seen) + 1
    BY <1>1, <2>3
  <2>5. \A i \in 1..Len(u.seen) : v.seen[i] = u.seen[i]
    BY <1>1, <2>3
  <2>6. v.seen[Len(u.seen) + 1] = new.enumerator
    BY <1>1, <2>3
  <2>7. new.enumerator = v.from + Len(v.seen)
    <3>1. new.enumerator = (u.from + Len(u.seen)) + 1 /\ v.from + Len(v.seen) = u.from + (Len(u.seen) + 1)
      BY <2>1, <2>2, <2>4
    <3>2. QED
      BY <1>1, <3>1
  <2>8. \A i \in 1..Len(v.seen) : v.seen[i] = v.from + i
    <3>1. \A i \in 1..Len(v.seen) : i \in 1..Len(u.seen) \/ i = Len(u.seen) + 1
      BY <1>1, <2>4
    <3>2. \A i \in 1..Len(u.seen) : u.seen[i] = u.from + i
      BY DEF Placed
    <3>3. v.seen[Len(u.seen) + 1] = v.from + (Len(u.seen) + 1)
      BY <2>4, <2>6, <2>7
    <3>4. QED
      BY <2>5, <3>1, <3>2, <3>3
  <2>9. v.offset >= 2
    <3>1. u.offset >= -1 /\ u.offset # -1 /\ u.offset # 0
      BY <1>5 DEF Placed
    <3>2. QED
      BY <1>1, <1>5, <3>1
  <2>10. v.offset \in Int /\ v.offset >= -1 /\ v.offset # -1 /\ v.offset # 0
    BY <1>1, <1>5, <2>9
  <2>11. ~v.ended /\ new.rows \in {0, new.tuples} /\ new.rows # 0
    BY <1>5, <2>2 DEF Placed
  <2>12. QED
    BY <1>5, <2>2, <2>7, <2>8, <2>10, <2>11 DEF Placed
<1>6. QED
  BY <1>2, <1>3, <1>4, <1>5

\* A seek puts the enumerator on the row of the offset.
LEMMA SeekPlaced ==
  ASSUME NEW rec \in Result, rec.rows \in {0, rec.tuples}, NEW fset \in -1..MaxRows,
         NEW o, o = SeekOffset(rec, fset),
         NEW new \in Result, new.rows = rec.rows, new.tuples = rec.tuples,
         new.enumerator = RowAt(rec, o), rec.rows # 0 => new.records,
         NEW v \in Cursor, v.offset = o, v.from = IF o = 0 THEN -1 ELSE o, v.seen = <<>>, ~v.ended
  PROVE  Placed(v, new)
<1>1. rec.rows \in Nat /\ rec.tuples \in Nat /\ fset \in Int /\ Null = -1 /\ fset >= -1
  BY BoundsAssumption DEF Result, Null
<1>2. o \in Int /\ o >= -1 /\ (o = -1 => rec.tuples = 0) /\ (rec.tuples # 0 => o < rec.tuples)
  BY <1>1 DEF SeekOffset
<1>3. rec.rows = 0 => new.enumerator = Null
  BY <1>1, <1>2 DEF RowAt, First
<1>4. rec.rows # 0 /\ o # 0 => new.enumerator = o
  BY <1>1, <1>2 DEF RowAt
<1>5. Len(v.seen) = 0
  OBVIOUS
<1>6. QED
  BY <1>1, <1>2, <1>3, <1>4, <1>5 DEF Placed

\* A placed cursor stays placed.
LEMMA NextPosition == TypeOK /\ Ownership /\ Position /\ [Next]_vars => Position'
<1> SUFFICES ASSUME TypeOK, Ownership, Position, [Next]_vars, ~wild',
                    NEW j \in Cursors, NEW q \in ResultAddrs, StandsFor(j, q)'
             PROVE  Placed(cur'[j], res'[q])
  BY DEF Position, Placed
<1>0. /\ cur \in [Cursors -> Cursor] /\ res \in [ResultAddrs -> Result]
      /\ cur' \in [Cursors -> Cursor] /\ res' \in [ResultAddrs -> Result]
      /\ ~wild
      /\ \A k \in Cursors, r \in ResultAddrs : StandsFor(k, r) => Placed(cur[k], res[r])
  BY NextTypeOK, StepKinds DEF TypeOK, Position
<1>1. ASSUME cur'[j] = cur[j], res'[q] = res[q] PROVE Placed(cur'[j], res'[q])
  BY <1>0, <1>1 DEF StandsFor
<1>2. ASSUME NEW x \in Contexts, Closed(x) PROVE Placed(cur'[j], res'[q])
  <2>1. PICK freed : Release(freed)
    BY <1>2 DEF Closed, dal_close, dal_conn_clear_results
  <2>2. cur'[j] = cur[j] /\ q \notin freed
    BY <2>1 DEF Release, StandsFor, NoCursor
  <2>3. res'[q] = res[q]
    BY <2>1, <2>2 DEF Release
  <2>4. QED
    BY <1>1, <2>2, <2>3
<1>3. ASSUME NEW c \in ConnAddrs, NEW k \in Cursors, NEW a, NEW link, Answered(c, k, a, link)
      PROVE  Placed(cur'[j], res'[q])
  <2>1. PICK r \in ResultAddrs :
          /\ ~res[r].live
          /\ res' = [res EXCEPT ![r] = [FreeResult EXCEPT !.live = TRUE, !.conn = c,
                                          !.tuples = a.tuples, !.rows = a.rows]]
          /\ cur' = [cur EXCEPT ![k] = [NoCursor EXCEPT !.used = TRUE, !.result = r]]
    BY <1>3 DEF Answered, dal_conn_create_result
  <2>2. CASE j = k
    <3>1. /\ cur'[j].result = r /\ cur'[j].offset = 0 /\ cur'[j].from = -1 /\ cur'[j].seen = <<>>
          /\ ~cur'[j].ended
      BY <1>0, <2>1, <2>2 DEF NoCursor
    <3>2. q = r
      BY <3>1 DEF StandsFor
    <3>3. res'[q].rows \in {0, res'[q].tuples} /\ res'[q].enumerator = Null
      BY <1>0, <1>3, <2>1, <3>2 DEF FreeResult, Answered
    <3>4. QED
      BY <3>1, <3>3 DEF Placed
  <2>3. CASE j # k
    <3>1. cur'[j] = cur[j]
      BY <1>0, <2>1, <2>3
    <3>2. q # r
      BY <2>1, <3>1 DEF Ownership, Stands, StandsFor
    <3>3. res'[q] = res[q]
      BY <1>0, <2>1, <3>2
    <3>4. QED
      BY <1>1, <3>1, <3>3
  <2>4. QED
    BY <2>2, <2>3
<1>4. ASSUME NEW k \in Cursors, Read(k) \/ \E fset \in -1..MaxRows : Sought(k, SeekOffset(res[cur[k].result], fset))
      PROVE  Placed(cur'[j], res'[q])
  <2>0. PICK r \in ResultAddrs : r = cur[k].result
    BY <1>4 DEF TypeOK, Read, Sought
  <2>1. ~cur[k].stale /\ StandsFor(k, r)
    BY <1>4, <2>0 DEF Read, Sought, Strays, StandsFor
  <2>2. StandsFor(j, q)
    BY <1>4, FetchKeeps DEF StandsFor
  <2>3. Placed(cur[k], res[r]) /\ cur[k] \in Cursor /\ res[r] \in Result
    BY <1>0, <2>1
  <2>4. res[r].enumerator # Null => res[r].records /\ res[r].enumerator \in 0..(res[r].rows - 1)
    BY DEF TypeOK
  <2>5. CASE j # k
    <3>1. q # r
      BY <2>1, <2>2, <2>5 DEF Ownership, Stands
    <3>2. cur'[j] = cur[j] /\ res'[q] = res[q]
      BY <1>0, <1>4, <2>0, <2>5, <3>1 DEF Read, Sought
    <3>3. QED
      BY <1>1, <3>2
  <2>6. CASE j = k /\ Read(k)
    <3>1. q = r
      BY <2>0, <2>2, <2>6 DEF StandsFor
    <3>2. res'[r] = Fetch(k) /\ cur'[k] = Taken(k, Fetch(k).enumerator)
      BY <1>0, <2>0, <2>6 DEF Read
    <3>3. Fetch(k) = (IF cur[k].offset = 0 THEN pgsql_fetch_first(res[r]) ELSE pgsql_fetch_next(res[r]))
      BY <2>0 DEF Fetch
    <3>4. Fetch(k).rows = res[r].rows /\ Fetch(k).tuples = res[r].tuples
      BY <2>3, <2>4, <3>3, FetchTypes, 0 \in Int
    <3>5. /\ cur[k].offset = 0 => /\ Fetch(k).enumerator = (IF res[r].rows = 0 THEN Null ELSE 0)
                                  /\ res[r].rows # 0 => Fetch(k).records
          /\ cur[k].offset # 0 => /\ Fetch(k).enumerator = RowAfter(res[r], res[r].enumerator)
                                  /\ Fetch(k).records = res[r].records
      BY <2>3, <3>3, FetchedAt, 0 \in Int
    <3>6. PICK e : e = Fetch(k).enumerator
      OBVIOUS
    <3>7. /\ Taken(k, e).from = cur[k].from
          /\ e = Null => Taken(k, e).offset = cur[k].offset /\ Taken(k, e).seen = cur[k].seen /\ Taken(k, e).ended
          /\ e # Null => /\ Taken(k, e).offset = cur[k].offset + 1 /\ Taken(k, e).ended = cur[k].ended
                         /\ Taken(k, e).seen = Append(cur[k].seen, e)
      BY <2>1, <2>3 DEF Taken, Cursor
    <3>8. cur'[k] \in Cursor /\ res'[r] \in Result
      BY <1>0
    <3>9. QED
      BY <2>3, <2>4, <2>6, <3>1, <3>2, <3>4, <3>5, <3>6, <3>7, <3>8, ReadPlaced
  <2>7. ASSUME j = k, NEW fset \in -1..MaxRows, Sought(k, SeekOffset(res[r], fset))
        PROVE  Placed(cur'[j], res'[q])
    <3>1. q = r
      BY <2>0, <2>2, <2>7 DEF StandsFor
    <3>2. PICK o \in Int : o = SeekOffset(res[r], fset)
      <4>1. res[r].tuples \in Int /\ fset \in Int
        BY <2>3, BoundsAssumption DEF Result
      <4>2. QED
        BY <4>1 DEF SeekOffset
    <3>3. res'[r] = Seeked(res[r], o) /\ cur'[k] = Moved(k, o)
      BY <1>0, <2>0, <2>7, <3>2 DEF Sought
    <3>4. /\ res'[r].rows = res[r].rows /\ res'[r].tuples = res[r].tuples
          /\ res'[r].enumerator = RowAt(res[r], o) /\ (res[r].rows # 0 => res'[r].records)
      BY <2>3, <2>4, <3>3, FetchTypes, FetchedAt
    <3>5. /\ cur'[k].offset = o /\ cur'[k].from = (IF o = 0 THEN -1 ELSE o)
          /\ cur'[k].seen = <<>> /\ ~cur'[k].ended
      BY <2>1, <2>3, <3>3 DEF Moved, Cursor
    <3>6. cur'[k] \in Cursor /\ res'[r] \in Result /\ res[r].rows \in {0, res[r].tuples}
      BY <1>0, <2>3 DEF Placed
    <3>7. QED
      BY <2>3, <2>7, <3>1, <3>2, <3>4, <3>5, <3>6, SeekPlaced
  <2>8. QED
    BY <1>4, <2>0, <2>5, <2>6, <2>7
<1>5. CASE UNCHANGED <<cur, res>>
  BY <1>1, <1>5
<1>6. QED
  BY <1>2, <1>3, <1>4, <1>5, StepKinds DEF SessionLost, va_dal_create, vm_clone_object, Prepared, Kept

\* A placed cursor has delivered the rows in order, and its end is the end of the rows.
LEMMA PlacedReads == TypeOK /\ Position => ReadsInOrder
<1> SUFFICES ASSUME TypeOK, Position, ~wild, NEW k \in Cursors, cur[k].used, ~cur[k].stale
             PROVE  /\ \A i \in 1..Len(cur[k].seen) : cur[k].seen[i] = cur[k].from + i
                    /\ cur[k].ended => \/ res[cur[k].result].rows = 0
                                       \/ cur[k].from + Len(cur[k].seen) = res[cur[k].result].rows - 1
  BY DEF ReadsInOrder
<1>1. PICK r \in ResultAddrs : r = cur[k].result
  BY DEF TypeOK
<1>2. Placed(cur[k], res[r])
  BY <1>1 DEF Position, StandsFor
<1>3. QED
  BY <1>1, <1>2 DEF Placed

\* As long as no stale pointer reached another structure, a cursor delivers the rows after
\* the one it was moved to, in order and none twice, and ends after the last one.
THEOREM RowsInOrder == Spec => []ReadsInOrder
<1>1. Init => Position
  BY DEF Init, Position, StandsFor, NoCursor
<1>2. QED
  BY <1>1, TypeCorrect, OwnershipHolds, NextPosition, PlacedReads, PTL DEF Spec

=============================================================================
