----------------------------- MODULE HttpServer -----------------------------
(***************************************************************************)
(* The web server of the host: http_task accepts plain connections and     *)
(* starts a thread for each of them (http_thread), https_task serves the   *)
(* secure ones one after the other; both read a request, look up the       *)
(* script of its URL, run it and answer (http.c, https.c, stack_port.c).   *)
(* The threads share the static pointer of strtok and the descriptors of   *)
(* the process.                                                            *)
(*                                                                         *)
(* A request is a request line, a header with its length, and a body.      *)
(* What comes over a connection is counted in units: two for the request   *)
(* line, the first of which ends in the URL, one for the header, which is  *)
(* not split, and the body.  A URL is the sequence of its components, and  *)
(* Start gives the bytes at which they are.  Clients send requests that    *)
(* are well formed, unit by unit or several at once, and may stop or hang  *)
(* up at any time.                                                         *)
(***************************************************************************)
EXTENDS Integers, FiniteSets, Sequences, SequencesExt

CONSTANTS Conns,       \* connections
          Requests,    \* [url, method, body] a client may ask for; body -1: no Content-Length
          Secure,      \* the connections to the secure port
          Scripts,     \* URLs of script files
          Spaces,      \* URLs of directories, the root is <<>>
          Pages,       \* URLs of files under www
          MaxFds,      \* descriptors of the process beyond the listening ones
          BufferSize,  \* the 32768 bytes of the first read
          MaxArgs,     \* arguments a script gets from dead memory, at most
          Size(_),     \* bytes of a name
          Start(_, _)  \* byte of a URL at which the slash of its i-th component is

LineSize == 2
HeaderSize == 3
Gap == ""        \* the component between two slashes in a row, and behind a last one
NameEnd == "tail" \* a name without its beginning

ASSUME ConnsAssumption == Secure \subseteq Conns /\ IsFiniteSet(Conns)
ASSUME SizesAssumption == MaxFds \in Nat /\ MaxArgs \in Nat /\ BufferSize \in Nat /\ BufferSize > HeaderSize
Names == UNION {Range(r.url) : r \in Requests}

ASSUME RequestsAssumption == \A r \in Requests : r.url \in Seq(Names) /\ r.body \in Nat \cup {-1}

ASSUME BytesAssumption ==
  /\ \A x \in Names : Size(x) \in Nat
  /\ \A r \in Requests :
       /\ Start(r.url, 1) = 0
       /\ \A i \in 1 .. Len(r.url) : Start(r.url, i + 1) = Start(r.url, i) + Size(r.url[i]) + 1
       /\ \A i, j \in 1 .. Len(r.url) + 1 : Start(r.url, i) \in Nat /\ (i < j => Start(r.url, i) < Start(r.url, j))

\* Whatever has an entry is in a directory that has one.
ASSUME TreeAssumption ==
  /\ <<>> \in Spaces /\ Scripts \cap Spaces = {}
  /\ \A p \in Scripts \cup Spaces : \A n \in 0..(Len(p) - 1) : SubSeq(p, 1, n) \in Spaces

VARIABLES conn,    \* what client and server know of a connection
          tok,     \* the static pointer of strtok: a component of some connection's path
          fds,     \* descriptors in use
          up       \* the process runs

vars == <<conn, tok, fds, up>>

Least(a, b) == IF a < b THEN a ELSE b
None == <<>>                    \* a URL without components

\* at: where the server is with this connection.  sent, taken: units sent by the client and
\* read by the server; got, needed: recv_size and needed_len.  line: what the parser makes of
\* the request line, which is garbled where its beginning or its end was not read.  path,
\* offset: the tokens of the walk, and offset_arg.  chosen: what is run, with args.
Fresh(r) ==
  [at |-> "idle", req |-> r, sent |-> 0, gone |-> FALSE, taken |-> 0, garbled |-> FALSE,
   line |-> [url |-> r.url, method |-> r.method],
   first |-> 0, got |-> 0, needed |-> 0, path |-> None, offset |-> 0, args |-> None,
   chosen |-> [kind |-> "none", url |-> None, method |-> "none"], mixed |-> FALSE, file |-> FALSE,
   reply |-> FALSE]

Init ==
  /\ conn \in [Conns -> {Fresh(r) : r \in Requests}]
  /\ tok = [owner |-> "nobody", pos |-> 0]
  /\ fds = 0
  /\ up = TRUE

Total(r) == HeaderSize + (IF r.body = -1 THEN 0 ELSE r.body)
At(c, place) == up /\ conn[c].at = place
Becomes(c, rec) == conn' = [conn EXCEPT ![c] = rec]
Moves(c, place) == Becomes(c, [conn[c] EXCEPT !.at = place])

(***************************************************************************)
(* Clients.  Nobody reads what is sent over a closed connection.           *)
(***************************************************************************)
Connect(c) == At(c, "idle") /\ Moves(c, "queued") /\ UNCHANGED <<tok, fds, up>>
Send(c, n) ==
  /\ up
  /\ conn[c].at \notin {"idle", "done"}
  /\ ~conn[c].gone
  /\ conn[c].sent + n <= Total(conn[c].req)
  /\ Becomes(c, [conn[c] EXCEPT !.sent = @ + n])
  /\ UNCHANGED <<tok, fds, up>>
Hangup(c) ==
  /\ up
  /\ conn[c].at \notin {"idle", "done"}
  /\ ~conn[c].gone
  /\ Becomes(c, [conn[c] EXCEPT !.gone = TRUE])
  /\ UNCHANGED <<tok, fds, up>>

(***************************************************************************)
(* Accepting.                                                              *)
(***************************************************************************)
Serving == {d \in Secure : conn[d].at \notin {"idle", "queued", "done"}}
\* http_task starts a thread; https_task goes on with the connection itself
Accept(c) ==
  /\ At(c, "queued")
  /\ fds < MaxFds
  /\ c \in Secure => Serving = {}
  /\ Moves(c, IF c \in Secure THEN "handshake" ELSE "prefetch")
  /\ fds' = fds + 1
  /\ UNCHANGED <<tok, up>>
\* pthread_create fails: nobody answers or closes the connection
AcceptNoThread(c) ==
  /\ At(c, "queued")
  /\ c \notin Secure
  /\ fds < MaxFds
  /\ Moves(c, "orphan")
  /\ fds' = fds + 1
  /\ UNCHANGED <<tok, up>>
\* http_task ends the process, https_task tries again
AcceptFails(c) ==
  /\ At(c, "queued")
  /\ c \notin Secure
  /\ fds = MaxFds
  /\ up' = FALSE
  /\ UNCHANGED <<conn, tok, fds>>

\* SSL_accept
Handshake(c) ==
  /\ At(c, "handshake")
  /\ Moves(c, "read") \/ Moves(c, "close")
  /\ UNCHANGED <<tok, fds, up>>

(***************************************************************************)
(* Reading a request.                                                      *)
(***************************************************************************)
Waiting(c) == conn[c].sent - conn[c].taken
Readable(c) == Waiting(c) > 0 \/ conn[c].gone

\* A request that cannot be parsed has no URL and keeps method 0 of the parser, DELETE.
Unparsed == [url |-> None, method |-> "delete"]

\* http_thread reads through a pointer that was never set: with luck recv fails and leaves
\* the bytes, otherwise the beginning of the request is lost.
Prefetch(c) ==
  /\ At(c, "prefetch")
  /\ Readable(c)
  /\ \/ Moves(c, "read")
     \/ /\ Waiting(c) > 0
        /\ Becomes(c, [conn[c] EXCEPT !.at = "read", !.taken = 1, !.garbled = TRUE, !.line = Unparsed])
  /\ UNCHANGED <<tok, fds, up>>

LengthKnown(c, m) == conn[c].req.body # -1 /\ conn[c].taken + m >= HeaderSize
\* Mutant: the boundary is taken to be behind the whole request.
WantsMoreAlways(c, m) == LengthKnown(c, m) /\ conn[c].req.body + HeaderSize >= m
\* A body that is shorter than the first read is taken to be complete.
WantsMore(c, m) == LengthKnown(c, m) /\ conn[c].req.body >= m
\* Mutant: what came first is forgotten.
NeededBodyOnly(c, m) == conn[c].req.body
\* needed_len: what came first, and the whole body
Needed(c, m) == m + conn[c].req.body

\* The first read may end in the URL, and the parser reports what there is of it.  The
\* beginning of a component may be any name.
Prefix(u, n) == SubSeq(u, 1, n)
Cuts(u) ==
  {Prefix(u, n) : n \in 0 .. Len(u)}
  \cup {Append(Prefix(u, n - 1), x) : n \in 1 .. Len(u), x \in Names \ {Gap}}
LineRead(c, m) == conn[c].garbled \/ m >= LineSize
Lines(c, m) ==
  IF LineRead(c, m) THEN {conn[c].line}
  ELSE {[url |-> u, method |-> conn[c].req.method] : u \in Cuts(conn[c].req.url)}

Received(c, m, read) ==
  [conn[c] EXCEPT !.taken = @ + m, !.first = m, !.got = m, !.line = read, !.garbled = @ \/ ~LineRead(c, m)]
AfterRead(c, m, read) ==
  CASE m = 0 \/ m = BufferSize -> [Received(c, m, read) EXCEPT !.at = "close"]
    [] 0 < m /\ m < BufferSize /\ WantsMore(c, m) ->
         [Received(c, m, read) EXCEPT !.at = "more", !.needed = Needed(c, m)]
    [] OTHER -> [Received(c, m, read) EXCEPT !.at = "parse"]
\* The first read of http_read_request and https_read_request
ReadFirst(c) ==
  /\ At(c, "read")
  /\ Readable(c)
  /\ \E m \in {Least(Waiting(c), BufferSize)} : \E read \in Lines(c, m) : Becomes(c, AfterRead(c, m, read))
  /\ UNCHANGED <<tok, fds, up>>
\* The loop: each turn reads at most content_length bytes.  A peer that hung up makes
\* recv return 0 and the loop turn for ever, or -1, which is added to the count.
ReadMore(c) ==
  /\ At(c, "more")
  /\ Waiting(c) > 0
  /\ \E m \in {Least(Waiting(c), conn[c].req.body)} :
       Becomes(c, [conn[c] EXCEPT !.taken = @ + m, !.got = @ + m,
                     !.at = IF conn[c].got + m >= conn[c].needed THEN "parse" ELSE "more"])
  /\ UNCHANGED <<tok, fds, up>>

\* An error counts down, and in the end the 0 behind the bytes is written in front of them.
ReadMoreFails(c) ==
  /\ At(c, "more")
  /\ Waiting(c) = 0
  /\ conn[c].gone
  /\ \/ /\ conn[c].got > 0
        /\ Becomes(c, [conn[c] EXCEPT !.got = @ - 1])
        /\ UNCHANGED up
     \/ /\ conn[c].got = 0
        /\ up' = FALSE
        /\ UNCHANGED conn
  /\ UNCHANGED <<tok, fds>>

(***************************************************************************)
(* Looking up the script.  strtok keeps its position in one static pointer *)
(* for all threads; a path whose owner has left http_decode is dead memory *)
(* on its stack.                                                           *)
(***************************************************************************)
Busy == {"walk", "spill", "decided", "args", "lastarg", "run"}
Url(c) == conn[c].line.url
Method(c) == conn[c].line.method

Alive == conn[tok.owner].at \in Busy
First(S) == {i \in S : \A j \in S : i <= j}
\* strtok skips slashes: the component it stops at, from the p-th on.
Ahead(u, p) == First({i \in p .. Len(u) : u[i] # Gap})
TokenAt(u, p) == IF Ahead(u, p) = {} THEN None ELSE <<u[CHOOSE i \in Ahead(u, p) : TRUE]>>
After(u, p) == IF Ahead(u, p) = {} THEN p ELSE (CHOOSE i \in Ahead(u, p) : TRUE) + 1
\* What strtok(NULL) may return to a thread that has n tokens: one name, or none.
Tokens(n) ==
  IF Alive THEN {TokenAt(Url(tok.owner), tok.pos)}
  ELSE IF n < MaxArgs THEN {<<x>> : x \in Names \ {Gap}} \cup {None} ELSE {None}
StartAt(c, i) == tok' = [owner |-> c, pos |-> i]
TokenTaken == tok' = IF Alive THEN [tok EXCEPT !.pos = After(Url(tok.owner), @)] ELSE tok
\* history: other connections that are in the middle of their tokens get this one mixed in
Mixing(c, rec) ==
  conn' = [d \in Conns |->
             IF d = c THEN [rec EXCEPT !.mixed = @ \/ \E e \in Conns \ {c} : conn[e].at \in Busy]
             ELSE IF conn[d].at \in Busy THEN [conn[d] EXCEPT !.mixed = TRUE] ELSE conn[d]]

\* net_entry_select for a walk that reached the entry p
Known(p) == p \in Scripts \cup Spaces
\* Mutant: the walk goes on behind a script file.
StopsNever(p) == FALSE
\* The loop ends at a script.
Stops(p) == p \in Scripts

\* The walk takes the token t: the entry it reaches, and whether it goes on.  Behind a name
\* that no entry has, one more token is taken and not looked at.
Walked(c, t) ==
  [conn[c] EXCEPT !.path = @ \o t,
                  !.offset = IF t # None /\ Known(conn[c].path \o t) THEN @ + Size(t[1]) + 1 ELSE @,
                  !.at = CASE t # None /\ ~Known(conn[c].path \o t) -> "spill"
                           [] t = None \/ Stops(conn[c].path \o t) -> "decided"
                           [] OTHER -> "walk"]

\* http_parse, and the first strtok of http_decode unless the URL is the root
Parse(c) ==
  /\ At(c, "parse")
  /\ \/ /\ Url(c) = None
        /\ Moves(c, "decided")
        /\ UNCHANGED tok
     \/ /\ Url(c) # None
        /\ Mixing(c, Walked(c, TokenAt(Url(c), 1)))
        /\ StartAt(c, After(Url(c), 1))
  /\ UNCHANGED <<fds, up>>
Walk(c) ==
  /\ At(c, "walk")
  /\ \E t \in Tokens(Len(conn[c].path)) : Mixing(c, Walked(c, t)) /\ TokenTaken
  /\ UNCHANGED <<fds, up>>
Spill(c) ==
  /\ At(c, "spill")
  /\ Mixing(c, [conn[c] EXCEPT !.at = "decided"]) /\ TokenTaken
  /\ UNCHANGED <<fds, up>>

\* What the entry is: a script, a directory with an entry program, which is run whatever it
\* is, or no entry and perhaps a file under www.
Default(p) == Append(p, "program")
Entry(p) ==
  CASE p \in Scripts -> [kind |-> "script", url |-> p]
    [] p \in Spaces /\ Default(p) \in Scripts -> [kind |-> "script", url |-> Default(p)]
    [] p \in Spaces /\ Default(p) \in Spaces -> [kind |-> "directory", url |-> Default(p)]
    [] p \in Spaces /\ ~Known(Default(p)) -> [kind |-> "empty", url |-> p]
    [] OTHER -> [kind |-> "error", url |-> None]
\* Mutant: the offset is one too large.
BehindLate(u, b) == First({i \in 1 .. Len(u) : u[i] # Gap /\ Start(u, i) > b})
\* path + offset_arg: the component that holds its first name, and that name.  Slashes in a
\* row are not counted, so that the offset may lie in front of what follows the script.
Behind(u, b) == First({i \in 1 .. Len(u) : u[i] # Gap /\ Start(u, i) + Size(u[i]) >= b})
NameFrom(u, i, b) == IF Start(u, i) + 1 >= b THEN u[i] ELSE NameEnd
Rest(c) == Behind(Url(c), conn[c].offset)
HasArguments(c) == conn[c].path \in Scripts /\ Rest(c) # {}
Choose(c, e) == [conn[c] EXCEPT !.chosen = [kind |-> e.kind, url |-> e.url, method |-> Method(c)]]
Executed == {"get", "put", "patch", "post", "delete"}
Handled == Executed \cup {"head"}
Forbidden == [kind |-> "error", url |-> None]

\* http_execute_script and the beginning of stack_exec_bytecodes_json: GET and DELETE take
\* all remaining components for arguments, PUT, PATCH and POST one for the name of a
\* callback, HEAD runs nothing and the other methods are not allowed.
Decide(c) ==
  /\ At(c, "decided")
  /\ Known(conn[c].path)
  /\ \E e \in {Entry(conn[c].path)} :
       \/ /\ HasArguments(c)
          /\ Method(c) \in Executed
          /\ \E i \in Rest(c) :
               /\ Mixing(c, [Choose(c, e) EXCEPT
                              !.args = <<NameFrom(Url(c), i, conn[c].offset)>>,
                              !.at = IF Method(c) \in {"get", "delete"} THEN "args" ELSE "lastarg"])
               /\ StartAt(c, i + 1)
       \/ /\ ~HasArguments(c) \/ Method(c) = "head"
          /\ Method(c) \in Handled \/ e.kind = "empty"
          /\ Becomes(c, [Choose(c, e) EXCEPT !.at = "run"])
          /\ UNCHANGED tok
       \/ /\ Method(c) \notin Handled
          /\ e.kind # "empty"
          /\ Becomes(c, [Choose(c, Forbidden) EXCEPT !.at = "send"])
          /\ UNCHANGED tok
  /\ UNCHANGED <<fds, up>>
\* No entry has this name: a file is opened, and never closed.
Page(c) ==
  /\ At(c, "decided")
  /\ ~Known(conn[c].path)
  /\ \/ /\ Url(c) \in Pages /\ fds < MaxFds
        /\ Becomes(c, [Choose(c, [kind |-> "page", url |-> Url(c)]) EXCEPT !.at = "send", !.file = TRUE])
        /\ fds' = fds + 1
     \/ /\ Url(c) \notin Pages \/ fds = MaxFds
        /\ Becomes(c, [Choose(c, Entry(conn[c].path)) EXCEPT !.at = "send"])
        /\ UNCHANGED fds
  /\ UNCHANGED <<tok, up>>
NextArgument(c) ==
  /\ At(c, "args")
  /\ \E t \in Tokens(Len(conn[c].args)) :
       /\ Mixing(c, [conn[c] EXCEPT !.args = @ \o t, !.at = IF t = None THEN "run" ELSE "args"])
       /\ TokenTaken
  /\ UNCHANGED <<fds, up>>
DropArgument(c) ==
  /\ At(c, "lastarg")
  /\ Mixing(c, [conn[c] EXCEPT !.at = "run"]) /\ TokenTaken
  /\ UNCHANGED <<fds, up>>

(***************************************************************************)
(* Running and answering.                                                  *)
(***************************************************************************)
Run(c) ==
  /\ At(c, "run")
  /\ conn[c].chosen.kind # "directory" \/ conn[c].chosen.method = "head"
  /\ Moves(c, "send")
  /\ UNCHANGED <<tok, fds, up>>
\* A directory has no bytecodes to run.
RunKills(c) ==
  /\ At(c, "run")
  /\ conn[c].chosen.kind = "directory"
  /\ conn[c].chosen.method # "head"
  /\ up' = FALSE
  /\ UNCHANGED <<conn, tok, fds>>
Answer(c) ==
  /\ At(c, "send")
  /\ Becomes(c, [conn[c] EXCEPT !.at = "close", !.reply = TRUE])
  /\ UNCHANGED <<tok, fds, up>>
\* The peer has reset the connection: SIGPIPE, which nobody handles, ends the process.
AnswerKills(c) ==
  /\ At(c, "send")
  /\ conn[c].gone
  /\ up' = FALSE
  /\ UNCHANGED <<conn, tok, fds>>
\* Mutant: the descriptor stays open.
CloseLeaking(c) == At(c, "close") /\ Moves(c, "done") /\ UNCHANGED <<tok, fds, up>>
Close(c) ==
  /\ At(c, "close")
  /\ Moves(c, "done")
  /\ fds' = fds - 1
  /\ UNCHANGED <<tok, up>>

Client(c) == Connect(c) \/ Hangup(c) \/ \E n \in 1 .. Total(conn[c].req) : Send(c, n)
\* The steps of the thread that serves c, and of the tasks that accept.
Serve(c) ==
  \/ Prefetch(c) \/ Handshake(c) \/ ReadFirst(c) \/ ReadMore(c) \/ ReadMoreFails(c) \/ Parse(c)
  \/ Walk(c) \/ Spill(c) \/ Decide(c) \/ Page(c) \/ NextArgument(c) \/ DropArgument(c) \/ Run(c) \/ RunKills(c)
  \/ Answer(c) \/ AnswerKills(c) \/ Close(c)
Listen(c) == Accept(c) \/ AcceptNoThread(c) \/ AcceptFails(c)

Next == \E c \in Conns : Client(c) \/ Listen(c) \/ Serve(c)

\* The operating system runs every thread, scripts end, and a queued connection is offered
\* to accept; clients owe nothing.
Fairness == \A c \in Conns : WF_vars(Serve(c)) /\ WF_vars(Listen(c))
Spec == Init /\ [][Next]_vars /\ Fairness

(***************************************************************************)
(* Properties.                                                             *)
(***************************************************************************)
Decoded == {"run", "send"}
Gapless(u) == \A i \in 1 .. Len(u) : u[i] # Gap
\* The entry a URL stands for: the first script on the way, else the URL itself.
Meant(u) ==
  IF \E n \in 0 .. Len(u) : Prefix(u, n) \in Scripts /\ \A i \in 0 .. n : Known(Prefix(u, i))
  THEN Prefix(u, CHOOSE n \in 0 .. Len(u) : /\ Prefix(u, n) \in Scripts
                                             /\ \A i \in 0 .. n - 1 : Prefix(u, i) \notin Scripts)
  ELSE u

\* Descriptors: one per connection that was accepted and not closed, one per page that was
\* ever served.
FdsAccounted ==
  fds = Cardinality({c \in Conns : conn[c].at \notin {"idle", "queued", "done"}})
        + Cardinality({c \in Conns : conn[c].file})

\* A request whose line was read whole, whose URL has no slashes in a row and whose tokens
\* were taken while no other thread was looking up its script runs the script of its own
\* URL, with its own arguments, by its own method.
RunsWhatWasAsked ==
  \A c \in Conns :
    conn[c].at \in Decoded /\ ~conn[c].mixed /\ ~conn[c].garbled /\ Gapless(conn[c].req.url) =>
      \E u \in {conn[c].req.url} :
        /\ conn[c].chosen.method = conn[c].req.method
        /\ Known(Meant(u)) /\ conn[c].req.method \in Handled => conn[c].chosen.url = Entry(Meant(u)).url
        /\ conn[c].chosen.kind = "page" => conn[c].chosen.url = u
        /\ Meant(u) \in Scripts /\ conn[c].req.method \in {"get", "delete"} =>
             Meant(u) \o conn[c].args = u

\* A request arrives with its whole body if the first read ended with the header, for a
\* body at least as long as that, or with the body; otherwise the end may be missing.
BodyWhole ==
  \A c \in Conns :
    /\ conn[c].at \in Decoded \cup {"parse"}
    /\ ~conn[c].garbled
    /\ conn[c].first = Total(conn[c].req) \/ (conn[c].first = HeaderSize /\ conn[c].req.body >= HeaderSize)
    => conn[c].got = Total(conn[c].req)

\* A plain request that came in one piece is answered and its connection closed, whatever
\* the other connections do, unless the process ends or no thread could be created.
InOnePiece(c) ==
  /\ c \notin Secure
  /\ conn[c].at = "read"
  /\ ~conn[c].garbled
  /\ conn[c].sent = Total(conn[c].req)
  /\ Total(conn[c].req) < BufferSize
PlainAnswered ==
  \A c \in Conns : InOnePiece(c) ~> (conn[c].at = "done" /\ conn[c].reply) \/ ~up

=============================================================================
