-------------------------- MODULE HttpServerProofs --------------------------
(***************************************************************************)
(* Proofs about the web server, for any number of plain and secure         *)
(* connections, any tree of scripts and any requests.                      *)
(***************************************************************************)
EXTENDS HttpServer, FiniteSetTheorems, SequenceTheorems, TLAPS

-----------------------------------------------------------------------------
(***************************************************************************)
(* Types.                                                                  *)
(***************************************************************************)
Places == {"idle", "queued", "orphan", "handshake", "prefetch", "read", "more", "parse",
           "walk", "spill", "decided", "args", "lastarg", "run", "send", "close", "done"}

Urls == Scripts \cup Spaces \cup Pages \cup {None}

Methods == {r.method : r \in Requests} \cup {"none", "delete"}

Kinds == {"script", "directory", "empty", "page", "error"}
Chosen == [kind : Kinds \cup {"none"}, url : Urls, method : Methods]

Line == [url : Seq(Names), method : Methods]
Words == Names \cup {NameEnd}

Connection ==
  [at : Places, req : Requests, sent : Nat, gone : BOOLEAN, taken : Nat, garbled : BOOLEAN,
   line : Line, first : Nat, got : Nat, needed : Nat, path : Seq(Names), offset : Nat, args : Seq(Words),
   chosen : Chosen, mixed : BOOLEAN, file : BOOLEAN, reply : BOOLEAN]

\* Places before the first read, and places where the request has been read.
Early == {"idle", "queued", "orphan", "handshake", "prefetch"}
Arrived == {"parse", "send"} \cup Busy

\* A page is open only once it was chosen.
Closed(k) == k.at \notin {"send", "close", "done"} => ~k.file

\* How much of the request has come, and how much of it was read.
Counted(k) ==
  /\ k.taken <= k.sent /\ k.sent <= Total(k.req)
  /\ k.at \in Early => k.taken = 0
  /\ k.at = "more" => k.req.body # -1
  /\ ~k.garbled =>
       /\ k.at = "read" => k.taken = 0
       /\ k.at = "more" => /\ k.needed = k.first + k.req.body
                          /\ \/ k.got = k.taken /\ k.got >= k.first
                             \/ k.gone /\ k.sent = k.taken
       /\ k.at \in Arrived =>
            /\ k.got = k.taken /\ k.got >= k.first
            /\ k.first = HeaderSize /\ k.req.body >= HeaderSize => k.got >= k.first + k.req.body

\* Nothing was looked up before the request was parsed.
Blank(k) == k.at \in Early \cup {"read", "more", "parse"} => k.path = None /\ k.offset = 0 /\ k.args = None

\* The parser has seen the line that was sent.
Asked(r) == [url |-> r.url, method |-> r.method]
Lined(k) == ~k.garbled => k.line = Asked(k.req)

Local(k) == k \in Connection /\ Closed(k) /\ Counted(k) /\ Blank(k) /\ Lined(k)

Taking == {"walk", "spill", "args", "lastarg"}

\* The pointer of strtok is in some path while anybody takes tokens.
Pointing == (\E c \in Conns : conn[c].at \in Taking) => tok.owner \in Conns /\ tok.pos >= 1

Sound ==
  /\ conn \in [Conns -> Connection] /\ \A c \in Conns : Local(conn[c])
  /\ tok \in [owner : Conns \cup {"nobody"}, pos : Nat]
  /\ Pointing

-----------------------------------------------------------------------------
(***************************************************************************)
(* One connection.  What each step makes of its record.                    *)
(***************************************************************************)
\* The size of a request is a number.
LEMMA TotalNat == \A r \in Requests : Total(r) \in Nat /\ Total(r) >= HeaderSize /\ r.body \in Int
BY RequestsAssumption DEF Total, HeaderSize

\* A fresh connection.
LEMMA FreshLocal == ASSUME NEW r \in Requests PROVE Local(Fresh(r))
<1>1. Total(r) \in Nat
  BY TotalNat
<1>2. None \in Seq(Names) /\ None \in Seq(Words) /\ None \in Urls
  BY DEF None, Urls
<1>3. [kind |-> "none", url |-> None, method |-> "none"] \in Chosen
  <2>1. "none" \in Methods
    BY DEF Methods
  <2>2. QED
    BY <1>2, <2>1 DEF Chosen
<1>a. Asked(r) \in Line
  BY RequestsAssumption DEF Asked, Line, Methods
<1>4. Fresh(r) \in Connection
  BY <1>2, <1>3, <1>a DEF Fresh, Connection, Places, Asked
<1>5. Closed(Fresh(r)) /\ Blank(Fresh(r)) /\ Lined(Fresh(r))
  BY DEF Closed, Blank, Fresh, Lined, Asked
<1>6. Counted(Fresh(r))
  BY <1>1 DEF Counted, Fresh, Arrived, Busy
<1>7. QED
  BY <1>4, <1>5, <1>6 DEF Local

\* A step that changes only the place.
LEMMA MovesLocal ==
  ASSUME NEW k, Local(k),
         NEW p, <<k.at, p>> \in {<<"idle", "queued">>, <<"queued", "handshake">>, <<"queued", "prefetch">>,
                                 <<"queued", "orphan">>, <<"handshake", "read">>, <<"handshake", "close">>,
                                 <<"prefetch", "read">>, <<"parse", "decided">>, <<"spill", "decided">>,
                                 <<"run", "send">>, <<"lastarg", "run">>, <<"close", "done">>}
  PROVE  Local([k EXCEPT !.at = p])
<1> DEFINE m == [k EXCEPT !.at = p]
<1>0. k \in Connection
  BY DEF Local
<1>1. m \in Connection /\ m.at = p
  BY <1>0 DEF Connection, Places
<1>2. /\ m.taken = k.taken /\ m.sent = k.sent /\ m.req = k.req /\ m.garbled = k.garbled /\ m.got = k.got
      /\ m.first = k.first /\ m.needed = k.needed /\ m.file = k.file /\ m.gone = k.gone
      /\ m.path = k.path /\ m.offset = k.offset /\ m.args = k.args /\ m.line = k.line
  BY <1>0 DEF Connection
<1> HIDE DEF m
<1>3. Closed(m) /\ Blank(m) /\ Lined(m)
  BY <1>1, <1>2 DEF Local, Closed, Blank, Early, Lined
<1>4. Counted(m)
  BY <1>1, <1>2 DEF Local, Counted, Early, Arrived, Busy
<1>5. QED
  BY <1>1, <1>3, <1>4 DEF Local, m

\* Another connection disturbs the tokens, the client hangs up.
LEMMA FlagLocal ==
  ASSUME NEW k, Local(k), NEW b \in BOOLEAN
  PROVE  Local([k EXCEPT !.mixed = b]) /\ Local([k EXCEPT !.gone = TRUE])
<1>0. k \in Connection
  BY DEF Local
<1>1. ASSUME NEW m, m \in {[k EXCEPT !.mixed = b], [k EXCEPT !.gone = TRUE]}
      PROVE  Local(m)
  <2>1. m \in Connection
    BY <1>0, <1>1 DEF Connection
  <2>2. /\ m.taken = k.taken /\ m.sent = k.sent /\ m.req = k.req /\ m.garbled = k.garbled /\ m.got = k.got
        /\ m.first = k.first /\ m.needed = k.needed /\ m.file = k.file /\ m.at = k.at /\ (k.gone => m.gone)
        /\ m.path = k.path /\ m.offset = k.offset /\ m.args = k.args /\ m.line = k.line
    BY <1>0, <1>1 DEF Connection
  <2>3. QED
    BY <2>1, <2>2 DEF Local, Closed, Blank, Counted, Lined
<1>2. QED
  BY <1>1

\* The client sends some more.
LEMMA SendLocal ==
  ASSUME NEW k, Local(k), ~k.gone, NEW n \in Nat, k.sent + n <= Total(k.req)
  PROVE  Local([k EXCEPT !.sent = k.sent + n])
<1> DEFINE m == [k EXCEPT !.sent = k.sent + n]
<1>0. k \in Connection /\ k.sent \in Nat /\ k.taken \in Nat /\ Total(k.req) \in Nat
  BY TotalNat DEF Local, Connection
<1>1. m \in Connection /\ m.sent = k.sent + n
  <2>1. k.sent + n \in Nat
    BY <1>0
  <2>2. QED
    BY <1>0, <2>1 DEF Connection
<1>2. /\ m.taken = k.taken /\ m.req = k.req /\ m.garbled = k.garbled /\ m.got = k.got
      /\ m.first = k.first /\ m.needed = k.needed /\ m.file = k.file /\ m.at = k.at
      /\ m.path = k.path /\ m.offset = k.offset /\ m.args = k.args /\ m.line = k.line
  BY <1>0 DEF Connection
<1> HIDE DEF m
<1>3. m.taken <= m.sent /\ m.sent <= Total(m.req)
  BY <1>0, <1>1, <1>2 DEF Local, Counted
<1>4. QED
  BY <1>1, <1>2, <1>3 DEF Local, Closed, Blank, Counted, Lined, m

\* The read through the pointer that was never set.
LEMMA PrefetchLocal ==
  ASSUME NEW k, Local(k), k.at = "prefetch", k.sent - k.taken > 0
  PROVE  Local([k EXCEPT !.at = "read", !.taken = 1, !.garbled = TRUE, !.line = Unparsed])
<1> DEFINE m == [k EXCEPT !.at = "read", !.taken = 1, !.garbled = TRUE, !.line = Unparsed]
<1>0. k \in Connection /\ k.sent \in Nat /\ k.taken \in Nat /\ Total(k.req) \in Nat
  BY TotalNat DEF Local, Connection
<1>a. Unparsed \in Line
  BY DEF Unparsed, Line, Methods, None
<1>1. m \in Connection /\ m.at = "read" /\ m.taken = 1 /\ m.garbled
  BY <1>0, <1>a DEF Connection, Places
<1>2. /\ m.sent = k.sent /\ m.req = k.req /\ m.file = k.file
      /\ m.path = k.path /\ m.offset = k.offset /\ m.args = k.args
  BY <1>0 DEF Connection
<1> HIDE DEF m
<1>3. m.taken <= m.sent /\ m.sent <= Total(m.req)
  BY <1>0, <1>1, <1>2 DEF Local, Counted
<1>4. Closed(m) /\ Blank(m) /\ Lined(m)
  BY <1>1, <1>2 DEF Local, Closed, Blank, Early, Lined
<1>5. QED
  BY <1>1, <1>3, <1>4 DEF Local, Counted, Early, m

\* The first read: the connection is given up, the request is complete, or more is needed.
LEMMA ReadFirstLocal ==
  ASSUME NEW c, Local(conn[c]), conn[c].at = "read", NEW m, m = Least(Waiting(c), BufferSize),
         NEW n \in Connection,
         /\ n.taken = conn[c].taken + m /\ n.first = m /\ n.got = m
         /\ n.sent = conn[c].sent /\ n.req = conn[c].req /\ n.file = conn[c].file
         /\ conn[c].garbled => n.garbled
         /\ ~n.garbled => n.line = conn[c].line
         /\ n.path = conn[c].path /\ n.offset = conn[c].offset /\ n.args = conn[c].args,
         \/ n.at = "close"
         \/ n.at = "more" /\ WantsMore(c, m) /\ n.needed = Needed(c, m)
         \/ n.at = "parse" /\ ~WantsMore(c, m)
  PROVE  Local(n)
<1> DEFINE k == conn[c]
<1>0. /\ k.sent \in Nat /\ k.taken \in Nat /\ k.garbled \in BOOLEAN /\ k.file \in BOOLEAN
      /\ Total(k.req) \in Nat /\ k.req.body \in Int
      /\ k.taken <= k.sent /\ k.sent <= Total(k.req) /\ (~k.garbled => k.taken = 0)
      /\ ~k.file /\ k.path = None /\ k.offset = 0 /\ k.args = None
  BY TotalNat DEF Local, Connection, Counted, Closed, Blank
<1>1. m \in Nat /\ k.taken + m \in Nat /\ k.taken + m <= k.sent
  BY <1>0, SizesAssumption DEF Least, Waiting
<1>2. n.at = "more" => n.needed = m + k.req.body /\ k.req.body # -1
  BY DEF WantsMore, LengthKnown, Needed
<1>3. n.at = "parse" /\ ~k.garbled => ~(m = HeaderSize /\ k.req.body >= HeaderSize)
  BY <1>0 DEF WantsMore, LengthKnown, HeaderSize
<1> HIDE DEF k
<1>4. Closed(n) /\ Blank(n) /\ Lined(n)
  BY <1>0 DEF Closed, Blank, k, Lined, Local
<1>5. ~n.garbled => n.got = n.taken
  BY <1>0, <1>1 DEF k
<1>6. n.got >= n.first
  BY <1>1
<1>7. n.taken <= n.sent /\ n.sent <= Total(n.req)
  BY <1>0, <1>1 DEF k
<1>8. Counted(n)
  BY <1>2, <1>3, <1>5, <1>6, <1>7 DEF Counted, Early, Arrived, Busy, k
<1>9. QED
  BY <1>4, <1>8 DEF Local

\* The loop reads on until everything that was needed has come.
LEMMA ReadMoreLocal ==
  ASSUME NEW c, Local(conn[c]), conn[c].at = "more", Waiting(c) > 0,
         NEW m, m = Least(Waiting(c), conn[c].req.body),
         NEW a, a = IF conn[c].got + m >= conn[c].needed THEN "parse" ELSE "more"
  PROVE  Local([conn[c] EXCEPT !.taken = conn[c].taken + m, !.got = conn[c].got + m, !.at = a])
<1> DEFINE k == conn[c]
           n == [conn[c] EXCEPT !.taken = conn[c].taken + m, !.got = conn[c].got + m, !.at = a]
<1>0. /\ k \in Connection /\ k.sent \in Nat /\ k.taken \in Nat /\ k.got \in Nat /\ k.first \in Nat /\ k.needed \in Nat
      /\ k.garbled \in BOOLEAN
      /\ Total(k.req) \in Nat /\ k.req.body \in Nat
      /\ k.taken <= k.sent /\ k.sent <= Total(k.req)
      /\ ~k.garbled => k.needed = k.first + k.req.body /\ ((k.got = k.taken /\ k.got >= k.first) \/ k.sent = k.taken)
      /\ ~k.file /\ k.path = None /\ k.offset = 0 /\ k.args = None
  BY TotalNat, RequestsAssumption DEF Local, Connection, Counted, Closed, Blank
<1>1. m \in Nat /\ k.taken + m \in Nat /\ k.got + m \in Nat /\ k.taken + m <= k.sent
  BY <1>0 DEF Least, Waiting
<1>2. a \in Places /\ a \in {"parse", "more"} /\ (a = "parse" => k.got + m >= k.needed)
  BY DEF Places
<1>3. n \in Connection
  BY <1>0, <1>1, <1>2 DEF Connection
<1>4. /\ n.taken = k.taken + m /\ n.got = k.got + m /\ n.at = a
      /\ n.first = k.first /\ n.needed = k.needed
      /\ n.sent = k.sent /\ n.req = k.req /\ n.garbled = k.garbled /\ n.file = k.file /\ n.line = k.line
      /\ n.path = k.path /\ n.offset = k.offset /\ n.args = k.args
  BY <1>0 DEF Connection
<1>b. Lined(k)
  BY DEF Local
<1> HIDE DEF k, n
<1>5. Closed(n) /\ Blank(n) /\ Lined(n)
  BY <1>0, <1>4, <1>b DEF Closed, Blank, Lined
<1>a. ~k.garbled => k.got = k.taken /\ k.got >= k.first
  BY <1>0 DEF Waiting, k
<1>6. ~k.garbled => n.got = n.taken /\ n.got >= n.first /\ (a = "parse" => n.got >= n.first + n.req.body)
  BY <1>0, <1>1, <1>2, <1>4, <1>a
<1>7. n.taken <= n.sent /\ n.sent <= Total(n.req)
  BY <1>0, <1>1, <1>4
<1>8. k.req.body # -1
  BY DEF k, Local, Counted
<1>9. Counted(n)
  BY <1>0, <1>2, <1>4, <1>6, <1>7, <1>8 DEF Counted, Early, Arrived, Busy
<1>10. QED
  BY <1>3, <1>5, <1>9 DEF Local, n, k

\* A read that fails counts down.
LEMMA ReadMoreFailsLocal ==
  ASSUME NEW k, Local(k), k.at = "more", k.sent - k.taken = 0, k.gone, k.got > 0
  PROVE  Local([k EXCEPT !.got = k.got - 1])
<1> DEFINE m == [k EXCEPT !.got = k.got - 1]
<1>0. /\ k \in Connection /\ k.sent \in Nat /\ k.taken \in Nat /\ k.got \in Nat /\ k.got - 1 \in Nat
  BY DEF Local, Connection
<1>1. m \in Connection
  BY <1>0 DEF Connection
<1>2. /\ m.taken = k.taken /\ m.sent = k.sent /\ m.req = k.req /\ m.garbled = k.garbled /\ m.gone = k.gone
      /\ m.first = k.first /\ m.needed = k.needed /\ m.file = k.file /\ m.at = k.at
      /\ m.path = k.path /\ m.offset = k.offset /\ m.args = k.args /\ m.line = k.line
  BY <1>0 DEF Connection
<1> HIDE DEF m
<1>3. m.sent = m.taken
  BY <1>0, <1>2
<1>4. Counted(m)
  BY <1>2, <1>3 DEF Local, Counted, Early, Arrived, Busy
<1>5. QED
  BY <1>1, <1>2, <1>4 DEF Local, Closed, Blank, Lined, m

\* Looking up the script and answering touch neither the counts nor, but for a page, the file.
LEMMA LookupLocal ==
  ASSUME NEW k, Local(k), k.at \in {"parse"} \cup Busy,
         NEW m \in Connection, m.at \in Busy \/ m.at = "send",
         /\ m.taken = k.taken /\ m.sent = k.sent /\ m.req = k.req /\ m.garbled = k.garbled
         /\ m.got = k.got /\ m.first = k.first /\ m.line = k.line,
         m.at # "send" => m.file = k.file
  PROVE  Local(m)
<1>1. Closed(m)
  BY DEF Local, Closed, Busy
<1>2. Blank(m)
  BY DEF Blank, Early, Busy
<1>3. Counted(m)
  BY DEF Local, Counted, Early, Arrived, Busy
<1>4. Lined(m)
  BY DEF Local, Lined
<1>5. QED
  BY <1>1, <1>2, <1>3, <1>4 DEF Local

\* The answer is out.
LEMMA AnswerLocal ==
  ASSUME NEW k, Local(k), k.at = "send"
  PROVE  Local([k EXCEPT !.at = "close", !.reply = TRUE])
<1> DEFINE m == [k EXCEPT !.at = "close", !.reply = TRUE]
<1>0. k \in Connection
  BY DEF Local
<1>1. /\ m \in Connection /\ m.at = "close" /\ m.taken = k.taken /\ m.sent = k.sent /\ m.req = k.req
      /\ m.garbled = k.garbled /\ m.line = k.line
  BY <1>0 DEF Connection, Places
<1> HIDE DEF m
<1>2. Closed(m) /\ Blank(m) /\ Counted(m) /\ Lined(m)
  BY <1>1 DEF Local, Closed, Blank, Counted, Early, Arrived, Busy, Lined
<1>3. QED
  BY <1>1, <1>2 DEF Local, m

\* What the walk makes of a connection.
LEMMA WalkedLocal ==
  ASSUME NEW c, Local(conn[c]), conn[c].at \in {"parse", "walk"}, NEW t \in Seq(Names)
  PROVE  Local(Walked(c, t)) /\ Walked(c, t).at \in {"walk", "spill", "decided"}
<1> DEFINE k == conn[c]
           m == Walked(c, t)
<1>0. k \in Connection /\ k.path \in Seq(Names) /\ k.offset \in Nat
  BY DEF Local, Connection
<1>1. PICK p, d, a : /\ m = [conn[c] EXCEPT !.path = p, !.offset = d, !.at = a]
                     /\ p \in Seq(Names) /\ d \in Nat /\ a \in {"walk", "spill", "decided"}
  <2>1. PICK p : p = k.path \o t
    OBVIOUS
  <2>2. p \in Seq(Names)
    BY <1>0, <2>1
  <2>3. PICK d : d = IF t # None /\ Known(p) THEN k.offset + Size(t[1]) + 1 ELSE k.offset
    OBVIOUS
  <2>4. t # None => t[1] \in Names
    BY DEF None
  <2>5. d \in Nat
    BY <1>0, <2>3, <2>4, BytesAssumption
  <2>6. PICK a : a = CASE t # None /\ ~Known(p) -> "spill" [] t = None \/ Stops(p) -> "decided" [] OTHER -> "walk"
    OBVIOUS
  <2>7. a \in {"walk", "spill", "decided"}
    BY <2>6
  <2>8. m = [conn[c] EXCEPT !.path = p, !.offset = d, !.at = a]
    BY <2>1, <2>3, <2>6 DEF Walked
  <2>9. QED
    BY <2>2, <2>5, <2>7, <2>8
<1>2. m \in Connection
  BY <1>0, <1>1 DEF Connection, Places
<1>3. /\ m.taken = k.taken /\ m.sent = k.sent /\ m.req = k.req /\ m.garbled = k.garbled
      /\ m.got = k.got /\ m.first = k.first /\ m.file = k.file /\ m.at = a /\ m.line = k.line
  BY <1>0, <1>1 DEF Connection
<1> HIDE DEF m
<1>4. Local(m)
  BY <1>1, <1>2, <1>3, LookupLocal DEF Busy
<1>5. QED
  BY <1>1, <1>3, <1>4 DEF m

\* What the entry is has its type.
LEMMA ChooseTypes ==
  ASSUME NEW c, conn[c] \in Connection, NEW e, e.kind \in Kinds, e.url \in Urls
  PROVE  \E v \in Chosen : /\ Choose(c, e) \in Connection /\ Choose(c, e) = [conn[c] EXCEPT !.chosen = v]
                           /\ v.kind = e.kind /\ v.url = e.url /\ v.method = Method(c)
<1>1. Method(c) \in Methods
  BY DEF Method, Line, Connection
<1>2. [kind |-> e.kind, url |-> e.url, method |-> Method(c)] \in Chosen
  BY <1>1 DEF Chosen
<1> DEFINE v == [kind |-> e.kind, url |-> e.url, method |-> Method(c)]
<1>3. Choose(c, e) = [conn[c] EXCEPT !.chosen = v]
  BY DEF Choose
<1> HIDE DEF v
<1>4. Choose(c, e) \in Connection /\ Choose(c, e).chosen = v
  BY <1>2, <1>3 DEF Connection, v
<1>5. v \in Chosen /\ v.kind = e.kind /\ v.url = e.url /\ v.method = Method(c)
  BY <1>2 DEF v
<1>6. QED
  BY <1>3, <1>4, <1>5

\* An entry is a script, a directory or nothing.
LEMMA EntryTypes ==
  ASSUME NEW p
  PROVE  Entry(p).kind \in Kinds \ {"page"} /\ Entry(p).url \in Urls
BY DEF Entry, Urls, None, Kinds

\* The first of a set of numbers is one of them, and there is only one.
LEMMA FirstFacts ==
  ASSUME NEW S, S \subseteq Nat, NEW i \in First(S)
  PROVE  i \in S /\ i \in Nat /\ First(S) = {i} /\ (CHOOSE j \in First(S) : TRUE) = i
<1>1. i \in S /\ i \in Nat /\ \A j \in S : i <= j
  BY DEF First
<1>2. ASSUME NEW j \in First(S) PROVE j = i
  <2>1. j \in S /\ j \in Nat /\ j <= i
    BY <1>1 DEF First
  <2>2. QED
    BY <1>1, <2>1
<1>3. First(S) = {i}
  BY <1>2
<1>4. QED
  BY <1>1, <1>3

\* What strtok finds in a URL is one of its names, or nothing.
LEMMA TokenAtTypes ==
  ASSUME NEW u \in Seq(Names), NEW p \in Nat, p >= 1
  PROVE  TokenAt(u, p) \in Seq(Names) /\ After(u, p) \in Nat /\ After(u, p) >= 1
<1>1. CASE Ahead(u, p) = {}
  BY <1>1 DEF TokenAt, After, None
<1>2. CASE Ahead(u, p) # {}
  <2>1. PICK i : i \in Ahead(u, p)
    BY <1>2
  <2>2. PICK S : S = {j \in p .. Len(u) : u[j] # Gap}
    OBVIOUS
  <2>3. S \subseteq Nat /\ i \in First(S) /\ Ahead(u, p) = First(S)
    BY <2>1, <2>2 DEF Ahead
  <2>a. i \in S /\ i \in Nat /\ (CHOOSE j \in First(S) : TRUE) = i
    BY <2>3, FirstFacts
  <2>4. i \in S /\ i \in Nat /\ (CHOOSE j \in Ahead(u, p) : TRUE) = i
    BY <2>3, <2>a, Zenon
  <2>5. u[i] \in Names /\ i >= 1
    BY <2>2, <2>4
  <2>6. TokenAt(u, p) = <<u[i]>> /\ After(u, p) = i + 1
    BY <1>2, <2>4 DEF TokenAt, After
  <2>7. QED
    BY <2>4, <2>5, <2>6
<1>3. QED
  BY <1>1, <1>2

\* strtok gives a component of a URL or nothing, and stays in the path it is in.
LEMMA TokenTypes ==
  ASSUME Sound, tok.owner \in Conns, tok.pos >= 1
  PROVE  /\ \A n : \A t \in Tokens(n) : t \in Seq(Names)
         /\ TokenTaken => /\ tok' \in [owner : Conns \cup {"nobody"}, pos : Nat]
                          /\ tok'.owner \in Conns /\ tok'.pos >= 1
<1>1. Url(tok.owner) \in Seq(Names)
  BY DEF Url, Line, Sound, Connection
<1>2. tok.pos \in Nat /\ tok.pos >= 1
  BY DEF Sound
<1>3. /\ TokenAt(Url(tok.owner), tok.pos) \in Seq(Names)
      /\ After(Url(tok.owner), tok.pos) \in Nat /\ After(Url(tok.owner), tok.pos) >= 1
  BY <1>1, <1>2, TokenAtTypes
<1>4. ASSUME NEW n, NEW t \in Tokens(n) PROVE t \in Seq(Names)
  <2>1. \A x \in Names : <<x>> \in Seq(Names)
    OBVIOUS
  <2>2. <<>> \in Seq(Names)
    OBVIOUS
  <2>3. t = TokenAt(Url(tok.owner), tok.pos) \/ t \in {<<x>> : x \in Names \ {Gap}} \/ t = <<>>
    BY <1>4 DEF Tokens, None
  <2>4. QED
    BY <1>3, <2>1, <2>2, <2>3
<1>5. ASSUME TokenTaken
      PROVE  /\ tok' \in [owner : Conns \cup {"nobody"}, pos : Nat]
             /\ tok'.owner \in Conns /\ tok'.pos >= 1
  <2>1. CASE Alive
    <3>1. PICK q : q = After(Url(tok.owner), tok.pos)
      OBVIOUS
    <3>2. tok' = [tok EXCEPT !.pos = q]
      BY <1>5, <2>1, <3>1 DEF TokenTaken
    <3>3. QED
      BY <1>3, <3>1, <3>2 DEF Sound
  <2>2. CASE ~Alive
    BY <1>2, <1>5, <2>2 DEF TokenTaken, Sound
  <2>3. QED
    BY <2>1, <2>2
<1>6. QED
  BY <1>4, <1>5

\* A name is a word.
LEMMA WordNames == \A t \in Seq(Names) : t \in Seq(Words)
BY DEF Words

\* The first argument is a name of the URL or the end of one.
LEMMA RestTypes ==
  ASSUME NEW c, Url(c) \in Seq(Names), NEW i \in Rest(c), NEW g, g = <<NameFrom(Url(c), i, conn[c].offset)>>
  PROVE  g \in Seq(Words) /\ i \in Nat
<1>1. PICK u : u = Url(c)
  OBVIOUS
<1>2. i \in 1 .. Len(u) /\ u \in Seq(Names)
  BY <1>1 DEF Rest, Behind, First
<1>3. u[i] \in Words /\ NameEnd \in Words /\ i \in Nat
  BY <1>2 DEF Words
<1>4. PICK x : x = NameFrom(u, i, conn[c].offset)
  OBVIOUS
<1>5. x \in Words
  BY <1>3, <1>4 DEF NameFrom
<1>6. g = <<x>>
  BY <1>1, <1>4
<1>7. QED
  BY <1>3, <1>5, <1>6

\* A URL that was cut is made of the names of its requests.
LEMMA CutTypes ==
  ASSUME NEW u \in Seq(Names), NEW v \in Cuts(u)
  PROVE  v \in Seq(Names)
<1>1. \A n \in 0 .. Len(u) : Prefix(u, n) \in Seq(Names)
  <2> SUFFICES ASSUME NEW n \in 0 .. Len(u) PROVE Prefix(u, n) \in Seq(Names)
    OBVIOUS
  <2>1. n \in Int /\ \A i \in 1 .. n : u[i] \in Names
    OBVIOUS
  <2>2. QED
    BY <2>1, SubSeqProperties DEF Prefix
<1>2. CASE v \in {Prefix(u, n) : n \in 0 .. Len(u)}
  BY <1>1, <1>2
<1>3. CASE v \in {Append(Prefix(u, n - 1), x) : n \in 1 .. Len(u), x \in Names \ {Gap}}
  <2>1. PICK n \in 1 .. Len(u), x \in Names : v = Append(Prefix(u, n - 1), x)
    BY <1>3
  <2>2. n - 1 \in 0 .. Len(u)
    OBVIOUS
  <2>3. Prefix(u, n - 1) \in Seq(Names)
    BY <1>1, <2>2
  <2>4. QED
    BY <2>1, <2>3
<1>4. QED
  BY <1>2, <1>3 DEF Cuts

\* The record of the first read.
LEMMA ReceivedFields ==
  ASSUME NEW c, conn[c] \in Connection, NEW m \in Nat, conn[c].taken + m \in Nat, NEW read \in Lines(c, m),
         NEW k, k = Received(c, m, read)
  PROVE  /\ k \in Connection /\ k.taken = conn[c].taken + m /\ k.first = m /\ k.got = m
         /\ k.sent = conn[c].sent /\ k.req = conn[c].req /\ k.file = conn[c].file
         /\ conn[c].garbled => k.garbled
         /\ ~k.garbled => k.line = conn[c].line
         /\ k.path = conn[c].path /\ k.offset = conn[c].offset /\ k.args = conn[c].args
<1>1. conn[c].garbled \in BOOLEAN
  BY DEF Connection
<1>2. PICK g \in BOOLEAN : g <=> (conn[c].garbled \/ ~LineRead(c, m))
  OBVIOUS
<1>3. g = (conn[c].garbled \/ ~LineRead(c, m))
  BY <1>1, <1>2
<1>4. read \in Line /\ (~g => read = conn[c].line)
  <2>1. conn[c].line \in Line /\ conn[c].req.url \in Seq(Names) /\ conn[c].req.method \in Methods
    BY RequestsAssumption DEF Connection, Methods
  <2>2. CASE LineRead(c, m)
    BY <2>1, <2>2 DEF Lines
  <2>3. CASE ~LineRead(c, m)
    <3>1. PICK u \in Cuts(conn[c].req.url) : read = [url |-> u, method |-> conn[c].req.method]
      BY <2>3 DEF Lines
    <3>2. u \in Seq(Names)
      BY <2>1, <3>1, CutTypes
    <3>3. QED
      BY <1>2, <2>1, <2>3, <3>1, <3>2 DEF Line
  <2>4. QED
    BY <2>2, <2>3
<1>5. k = [conn[c] EXCEPT !.taken = conn[c].taken + m, !.first = m, !.got = m, !.line = read, !.garbled = g]
  BY <1>3 DEF Received
<1>6. k.line = read /\ k.garbled = g
  BY <1>5 DEF Connection
<1>7. /\ k \in Connection /\ k.taken = conn[c].taken + m /\ k.first = m /\ k.got = m
      /\ k.sent = conn[c].sent /\ k.req = conn[c].req /\ k.file = conn[c].file
      /\ k.path = conn[c].path /\ k.offset = conn[c].offset /\ k.args = conn[c].args
  BY <1>4, <1>5 DEF Connection
<1>8. QED
  BY <1>2, <1>4, <1>6, <1>7

-----------------------------------------------------------------------------
(***************************************************************************)
(* All connections.                                                        *)
(***************************************************************************)
\* A step that changes one connection and leaves the tokens alone.
LEMMA BecomesSound ==
  ASSUME Sound, NEW c \in Conns, NEW rec, Local(rec), rec.at \notin Taking \/ rec.at = conn[c].at,
         Becomes(c, rec), UNCHANGED tok
  PROVE  Sound'
<1>1. rec \in Connection
  BY DEF Local
<1>2. /\ conn' \in [Conns -> Connection]
      /\ conn'[c] = rec /\ \A d \in Conns : d # c => conn'[d] = conn[d]
  BY <1>1 DEF Sound, Becomes
<1>3. \A d \in Conns : Local(conn'[d])
  BY <1>2 DEF Sound
<1>4. Pointing'
  BY <1>2 DEF Sound, Pointing, Taking
<1>5. \A d \in Conns : Local(conn[d])'
  BY <1>3 DEF Local, Closed, Counted, Blank, Lined
<1>6. QED
  BY <1>2, <1>4, <1>5 DEF Sound

\* The record of a connection after a step that takes a token: its own is rec, up to the mark
\* of having been mixed, and that of a connection in the middle of its tokens is marked.
LEMMA MixingEffect ==
  ASSUME conn \in [Conns -> Connection], NEW c \in Conns, NEW rec \in Connection, Mixing(c, rec)
  PROVE  /\ \E b \in BOOLEAN : conn'[c] = [rec EXCEPT !.mixed = b] /\ (rec.mixed => b)
         /\ \A d \in Conns : d # c => conn'[d] = IF conn[d].at \in Busy THEN [conn[d] EXCEPT !.mixed = TRUE] ELSE conn[d]
         /\ DOMAIN conn' = Conns
<1>1. rec.mixed \in BOOLEAN
  BY DEF Connection
<1>2. PICK b \in BOOLEAN : b <=> (rec.mixed \/ \E e \in Conns \ {c} : conn[e].at \in Busy)
  BY <1>1
<1>3. b = (rec.mixed \/ \E e \in Conns \ {c} : conn[e].at \in Busy)
  BY <1>1, <1>2
<1>4. conn'[c] = [rec EXCEPT !.mixed = b]
  BY <1>3 DEF Mixing
<1>5. QED
  BY <1>2, <1>4 DEF Mixing

\* A step that takes a token.
LEMMA MixingSound ==
  ASSUME Sound, NEW c \in Conns, NEW rec, Local(rec), Mixing(c, rec),
         tok' \in [owner : Conns \cup {"nobody"}, pos : Nat], tok'.owner \in Conns, tok'.pos >= 1
  PROVE  Sound'
<1>0. rec \in Connection /\ conn \in [Conns -> Connection]
  BY DEF Local, Sound
<1>1. /\ \E b \in BOOLEAN : conn'[c] = [rec EXCEPT !.mixed = b]
      /\ \A d \in Conns : d # c => conn'[d] = IF conn[d].at \in Busy THEN [conn[d] EXCEPT !.mixed = TRUE] ELSE conn[d]
      /\ DOMAIN conn' = Conns
  BY <1>0, MixingEffect
<1>2. ASSUME NEW d \in Conns PROVE Local(conn'[d])
  <2>1. CASE d = c
    <3>1. PICK b \in BOOLEAN : conn'[c] = [rec EXCEPT !.mixed = b]
      BY <1>1
    <3>2. Local([rec EXCEPT !.mixed = b])
      BY FlagLocal
    <3>3. QED
      BY <2>1, <3>1, <3>2
  <2>2. CASE d # c
    <3>1. Local(conn[d]) /\ TRUE \in BOOLEAN
      BY DEF Sound
    <3>2. Local([conn[d] EXCEPT !.mixed = TRUE])
      BY <3>1, FlagLocal
    <3>3. QED
      BY <1>1, <2>2, <3>1, <3>2
  <2>3. QED
    BY <2>1, <2>2
<1>3. conn' \in [Conns -> Connection]
  <2>1. \A d \in Conns : conn'[d] \in Connection
    BY <1>2 DEF Local
  <2>2. conn' = [d \in Conns |-> conn'[d]]
    BY <1>1 DEF Mixing
  <2>3. QED
    BY <2>1, <2>2
<1>4. \A d \in Conns : Local(conn[d])'
  BY <1>2 DEF Local, Closed, Counted, Blank, Lined
<1>5. Pointing'
  BY DEF Pointing
<1>6. QED
  BY <1>3, <1>4, <1>5 DEF Sound

\* Everything is fresh at first.
LEMMA InitSound == Init => Sound
<1> SUFFICES ASSUME Init PROVE Sound
  OBVIOUS
<1>1. ASSUME NEW c \in Conns PROVE Local(conn[c]) /\ conn[c].at = "idle"
  <2>1. PICK r \in Requests : conn[c] = Fresh(r)
    BY DEF Init
  <2>2. Fresh(r).at = "idle"
    BY DEF Fresh
  <2>3. QED
    BY <2>1, <2>2, FreshLocal
<1>2. conn \in [Conns -> Connection]
  <2>1. \A c \in Conns : conn[c] \in Connection
    BY <1>1 DEF Local
  <2>2. QED
    BY <2>1 DEF Init
<1>3. QED
  BY <1>1, <1>2 DEF Init, Sound, Pointing, Taking

\* The steps of the client and of the tasks that accept.
LEMMA ClientSound ==
  ASSUME Sound, NEW c \in Conns, Client(c) \/ Listen(c)
  PROVE  Sound'
<1>0. Local(conn[c]) /\ conn[c] \in Connection /\ conn[c].sent \in Nat
  BY DEF Sound, Connection
<1>1. ASSUME NEW p, p \notin Taking, Moves(c, p), UNCHANGED tok,
             <<conn[c].at, p>> \in {<<"idle", "queued">>, <<"queued", "handshake">>, <<"queued", "prefetch">>,
                                    <<"queued", "orphan">>}
      PROVE  Sound'
  <2>1. Local([conn[c] EXCEPT !.at = p])
    BY <1>0, <1>1, MovesLocal
  <2>2. [conn[c] EXCEPT !.at = p].at = p
    BY <1>0 DEF Connection
  <2>3. QED
    BY <1>1, <2>1, <2>2, BecomesSound DEF Moves
<1>2. CASE Connect(c)
  BY <1>1, <1>2 DEF Connect, At, Taking
<1>3. CASE Hangup(c)
  <2>1. Local([conn[c] EXCEPT !.gone = TRUE])
    BY <1>0, FlagLocal
  <2>2. [conn[c] EXCEPT !.gone = TRUE].at = conn[c].at
    BY <1>0 DEF Connection
  <2>3. QED
    BY <1>3, <2>1, <2>2, BecomesSound DEF Hangup
<1>4. ASSUME NEW n \in 1 .. Total(conn[c].req), Send(c, n) PROVE Sound'
  <2>1. n \in Nat /\ ~conn[c].gone /\ conn[c].sent + n <= Total(conn[c].req)
    BY <1>0, <1>4, TotalNat DEF Send, Connection
  <2>2. Local([conn[c] EXCEPT !.sent = conn[c].sent + n])
    BY <1>0, <2>1, SendLocal
  <2>3. [conn[c] EXCEPT !.sent = conn[c].sent + n].at = conn[c].at
    BY <1>0 DEF Connection
  <2>4. Becomes(c, [conn[c] EXCEPT !.sent = conn[c].sent + n]) /\ UNCHANGED tok
    BY <1>4 DEF Send
  <2>5. QED
    BY <2>2, <2>3, <2>4, BecomesSound
<1>5. CASE Accept(c)
  BY <1>1, <1>5 DEF Accept, At, Taking
<1>6. CASE AcceptNoThread(c)
  BY <1>1, <1>6 DEF AcceptNoThread, At, Taking
<1>7. CASE AcceptFails(c)
  BY <1>7 DEF AcceptFails, Sound, Pointing, Local, Closed, Counted, Blank, Lined
<1>8. QED
  BY <1>2, <1>3, <1>4, <1>5, <1>6, <1>7 DEF Client, Listen

\* The steps of a thread up to the complete request.
LEMMA ReadSound ==
  ASSUME Sound, NEW c \in Conns, Prefetch(c) \/ Handshake(c) \/ ReadFirst(c) \/ ReadMore(c) \/ ReadMoreFails(c)
  PROVE  Sound'
<1>0. Local(conn[c]) /\ conn[c] \in Connection
  BY DEF Sound
<1>1. ASSUME NEW p, p \notin Taking, Moves(c, p), UNCHANGED tok,
             <<conn[c].at, p>> \in {<<"handshake", "read">>, <<"handshake", "close">>, <<"prefetch", "read">>}
      PROVE  Sound'
  <2>1. Local([conn[c] EXCEPT !.at = p])
    BY <1>0, <1>1, MovesLocal
  <2>2. [conn[c] EXCEPT !.at = p].at = p
    BY <1>0 DEF Connection
  <2>3. QED
    BY <1>1, <2>1, <2>2, BecomesSound DEF Moves
<1>2. CASE Prefetch(c)
  <2>1. CASE Moves(c, "read")
    BY <1>1, <1>2, <2>1 DEF Prefetch, At, Taking
  <2>2. CASE Waiting(c) > 0 /\ Becomes(c, [conn[c] EXCEPT !.at = "read", !.taken = 1, !.garbled = TRUE, !.line = Unparsed])
    <3>1. Local([conn[c] EXCEPT !.at = "read", !.taken = 1, !.garbled = TRUE, !.line = Unparsed])
      BY <1>0, <1>2, <2>2, PrefetchLocal DEF Prefetch, At, Waiting
    <3>2. [conn[c] EXCEPT !.at = "read", !.taken = 1, !.garbled = TRUE, !.line = Unparsed].at = "read"
      BY <1>0 DEF Connection
    <3>3. QED
      BY <1>2, <2>2, <3>1, <3>2, BecomesSound DEF Prefetch, Taking
  <2>3. QED
    BY <1>2, <2>1, <2>2 DEF Prefetch
<1>3. CASE Handshake(c)
  BY <1>1, <1>3 DEF Handshake, At, Taking
<1>4. CASE ReadFirst(c)
  <2>1. PICK m : m = Least(Waiting(c), BufferSize)
    OBVIOUS
  <2>2. m \in Nat /\ conn[c].taken + m \in Nat /\ m <= BufferSize /\ BufferSize \in Nat
    <3>1. conn[c].taken \in Nat /\ conn[c].sent \in Nat /\ conn[c].taken <= conn[c].sent
      BY <1>0 DEF Local, Connection, Counted
    <3>2. QED
      BY <2>1, <3>1, SizesAssumption DEF Least, Waiting
  <2>a. PICK read \in Lines(c, m) :
          Becomes(c, AfterRead(c, m, read)) /\ UNCHANGED tok
    BY <1>4, <2>1 DEF ReadFirst
  <2> DEFINE k == Received(c, m, read)
             n == CASE m = 0 \/ m = BufferSize -> [k EXCEPT !.at = "close"]
                    [] 0 < m /\ m < BufferSize /\ WantsMore(c, m) ->
                         [k EXCEPT !.at = "more", !.needed = Needed(c, m)]
                    [] OTHER -> [k EXCEPT !.at = "parse"]
  <2>3. Becomes(c, n) /\ UNCHANGED tok
    BY <2>a DEF AfterRead
  <2>4. /\ k \in Connection /\ k.taken = conn[c].taken + m /\ k.first = m /\ k.got = m
        /\ k.sent = conn[c].sent /\ k.req = conn[c].req /\ k.file = conn[c].file
        /\ conn[c].garbled => k.garbled
        /\ ~k.garbled => k.line = conn[c].line
        /\ k.path = conn[c].path /\ k.offset = conn[c].offset /\ k.args = conn[c].args
    BY <1>0, <2>2, ReceivedFields
  <2> HIDE DEF k
  <2>5. ASSUME NEW v \in Connection, v.at \in {"close", "more", "parse"},
               /\ v.taken = k.taken /\ v.first = k.first /\ v.got = k.got
               /\ v.sent = k.sent /\ v.req = k.req /\ v.garbled = k.garbled /\ v.file = k.file /\ v.line = k.line
               /\ v.path = k.path /\ v.offset = k.offset /\ v.args = k.args,
               v.at = "more" => WantsMore(c, m) /\ v.needed = Needed(c, m),
               v.at = "parse" => ~WantsMore(c, m)
        PROVE  Local(v)
    <3>1. /\ v.taken = conn[c].taken + m /\ v.first = m /\ v.got = m
          /\ v.sent = conn[c].sent /\ v.req = conn[c].req /\ v.file = conn[c].file
          /\ conn[c].garbled => v.garbled
          /\ ~v.garbled => v.line = conn[c].line
          /\ v.path = conn[c].path /\ v.offset = conn[c].offset /\ v.args = conn[c].args
      BY <2>4, <2>5, Zenon
    <3>2. \/ v.at = "close"
          \/ v.at = "more" /\ WantsMore(c, m) /\ v.needed = Needed(c, m)
          \/ v.at = "parse" /\ ~WantsMore(c, m)
      BY <2>5
    <3>3. conn[c].at = "read"
      BY <1>4 DEF ReadFirst, At
    <3>4. QED
      BY <1>0, <2>1, <2>5, <3>1, <3>2, <3>3, ReadFirstLocal
  <2>6. CASE m = 0 \/ m = BufferSize
    <3>1. n = [k EXCEPT !.at = "close"]
      BY <2>2, <2>6
    <3> HIDE DEF n
    <3>2. /\ n \in Connection /\ n.at = "close"
          /\ n.taken = k.taken /\ n.first = k.first /\ n.got = k.got
          /\ n.sent = k.sent /\ n.req = k.req /\ n.garbled = k.garbled /\ n.file = k.file /\ n.line = k.line
          /\ n.path = k.path /\ n.offset = k.offset /\ n.args = k.args
      BY <2>4, <3>1 DEF Connection, Places
    <3>3. QED
      BY <2>3, <2>5, <3>2, BecomesSound DEF Taking
  <2>7. CASE 0 < m /\ m < BufferSize /\ WantsMore(c, m)
    <3>1. n = [k EXCEPT !.at = "more", !.needed = Needed(c, m)]
      BY <2>2, <2>7
    <3> HIDE DEF n
    <3>2. Needed(c, m) \in Nat
      <4>1. conn[c].req.body \in Nat
        BY <1>0, <2>7, RequestsAssumption DEF WantsMore, LengthKnown, Connection
      <4>2. QED
        BY <2>2, <4>1 DEF Needed
    <3>3. /\ n \in Connection /\ n.at = "more" /\ n.needed = Needed(c, m)
          /\ n.taken = k.taken /\ n.first = k.first /\ n.got = k.got
          /\ n.sent = k.sent /\ n.req = k.req /\ n.garbled = k.garbled /\ n.file = k.file /\ n.line = k.line
          /\ n.path = k.path /\ n.offset = k.offset /\ n.args = k.args
      BY <2>4, <3>1, <3>2 DEF Connection, Places
    <3>4. QED
      BY <2>3, <2>5, <2>7, <3>3, BecomesSound DEF Taking
  <2>8. CASE 0 < m /\ m < BufferSize /\ ~WantsMore(c, m)
    <3>1. n = [k EXCEPT !.at = "parse"]
      BY <2>2, <2>8
    <3> HIDE DEF n
    <3>2. /\ n \in Connection /\ n.at = "parse"
          /\ n.taken = k.taken /\ n.first = k.first /\ n.got = k.got
          /\ n.sent = k.sent /\ n.req = k.req /\ n.garbled = k.garbled /\ n.file = k.file /\ n.line = k.line
          /\ n.path = k.path /\ n.offset = k.offset /\ n.args = k.args
      BY <2>4, <3>1 DEF Connection, Places
    <3>3. QED
      BY <2>3, <2>5, <2>8, <3>2, BecomesSound DEF Taking
  <2>9. QED
    BY <2>2, <2>6, <2>7, <2>8
<1>5. CASE ReadMore(c)
  <2>1. PICK m, a : /\ m = Least(Waiting(c), conn[c].req.body)
                    /\ a = IF conn[c].got + m >= conn[c].needed THEN "parse" ELSE "more"
    OBVIOUS
  <2>2. Becomes(c, [conn[c] EXCEPT !.taken = conn[c].taken + m, !.got = conn[c].got + m, !.at = a]) /\ UNCHANGED tok
    BY <1>5, <2>1 DEF ReadMore
  <2>3. Local([conn[c] EXCEPT !.taken = conn[c].taken + m, !.got = conn[c].got + m, !.at = a])
    BY <1>0, <1>5, <2>1, ReadMoreLocal DEF ReadMore, At
  <2>4. [conn[c] EXCEPT !.taken = conn[c].taken + m, !.got = conn[c].got + m, !.at = a].at \in {"parse", "more"}
    BY <1>0, <2>1 DEF Connection
  <2>5. QED
    BY <2>2, <2>3, <2>4, BecomesSound DEF Taking
<1>6. CASE ReadMoreFails(c)
  <2>1. CASE conn[c].got > 0 /\ Becomes(c, [conn[c] EXCEPT !.got = conn[c].got - 1]) /\ UNCHANGED tok
    <3>1. Local([conn[c] EXCEPT !.got = conn[c].got - 1])
      BY <1>0, <1>6, <2>1, ReadMoreFailsLocal DEF ReadMoreFails, At, Waiting
    <3>2. [conn[c] EXCEPT !.got = conn[c].got - 1].at = conn[c].at
      BY <1>0 DEF Connection
    <3>3. QED
      BY <2>1, <3>1, <3>2, BecomesSound
  <2>2. CASE UNCHANGED <<conn, tok>>
    BY <2>2 DEF Sound, Pointing, Local, Closed, Counted, Blank, Lined
  <2>3. QED
    BY <1>6, <2>1, <2>2 DEF ReadMoreFails
<1>7. QED
  BY <1>2, <1>3, <1>4, <1>5, <1>6

\* The steps that look up the script, run it, answer and close.
LEMMA LookupSound ==
  ASSUME Sound, NEW c \in Conns,
         \/ Parse(c) \/ Walk(c) \/ Spill(c) \/ Decide(c) \/ Page(c) \/ NextArgument(c) \/ DropArgument(c)
         \/ Run(c) \/ RunKills(c) \/ Answer(c) \/ AnswerKills(c) \/ Close(c)
  PROVE  Sound'
<1>0. /\ Local(conn[c]) /\ conn[c] \in Connection
      /\ conn[c].path \in Seq(Names) /\ conn[c].offset \in Nat /\ conn[c].args \in Seq(Words)
  BY DEF Sound, Connection
<1>u. Url(c) \in Seq(Names)
  BY <1>0 DEF Url, Line, Connection
<1>1. ASSUME NEW p, p \notin Taking, Moves(c, p), UNCHANGED tok,
             <<conn[c].at, p>> \in {<<"parse", "decided">>, <<"run", "send">>, <<"close", "done">>}
      PROVE  Sound'
  <2>1. Local([conn[c] EXCEPT !.at = p])
    <3>1. CASE conn[c].at = "parse" /\ p = "decided"
      BY <1>0, <3>1, MovesLocal
    <3>2. CASE conn[c].at = "run" /\ p = "send"
      BY <1>0, <3>2, MovesLocal
    <3>3. CASE conn[c].at = "close" /\ p = "done"
      BY <1>0, <3>3, MovesLocal
    <3>4. QED
      BY <1>1, <3>1, <3>2, <3>3
  <2>2. [conn[c] EXCEPT !.at = p].at = p
    BY <1>0 DEF Connection
  <2>3. QED
    BY <1>1, <2>1, <2>2, BecomesSound DEF Moves
<1>2. ASSUME NEW i \in Nat, i >= 1, StartAt(c, i)
      PROVE  tok' \in [owner : Conns \cup {"nobody"}, pos : Nat] /\ tok'.owner \in Conns /\ tok'.pos >= 1
  BY <1>2 DEF StartAt
<1>3. ASSUME conn[c].at \in Taking PROVE tok.owner \in Conns /\ tok.pos >= 1
  BY <1>3 DEF Sound, Pointing, Taking
<1>4. CASE Parse(c)
  <2>1. CASE Moves(c, "decided") /\ UNCHANGED tok
    BY <1>1, <1>4, <2>1 DEF Parse, At, Taking
  <2>2. CASE Mixing(c, Walked(c, TokenAt(Url(c), 1))) /\ StartAt(c, After(Url(c), 1))
    <3>1. TokenAt(Url(c), 1) \in Seq(Names) /\ After(Url(c), 1) \in Nat /\ After(Url(c), 1) >= 1
      BY <1>u, TokenAtTypes
    <3>2. Local(Walked(c, TokenAt(Url(c), 1)))
      BY <1>0, <1>4, <3>1, WalkedLocal DEF Parse, At
    <3>3. QED
      BY <1>2, <2>2, <3>1, <3>2, MixingSound
  <2>3. QED
    BY <1>4, <2>1, <2>2 DEF Parse
<1>5. CASE Walk(c)
  <2>1. PICK t \in Tokens(Len(conn[c].path)) : Mixing(c, Walked(c, t)) /\ TokenTaken
    BY <1>5 DEF Walk
  <2>2. conn[c].at = "walk" /\ tok.owner \in Conns /\ tok.pos >= 1
    BY <1>3, <1>5 DEF Walk, At, Taking
  <2>3. /\ t \in Seq(Names) /\ tok' \in [owner : Conns \cup {"nobody"}, pos : Nat]
        /\ tok'.owner \in Conns /\ tok'.pos >= 1
    BY <2>1, <2>2, TokenTypes
  <2>4. Local(Walked(c, t))
    BY <1>0, <2>2, <2>3, WalkedLocal
  <2>5. QED
    BY <2>1, <2>3, <2>4, MixingSound
<1>6. CASE Decide(c)
  <2>1. PICK e : e = Entry(conn[c].path)
    OBVIOUS
  <2>2. e.kind \in Kinds \ {"page"} /\ e.url \in Urls
    BY <2>1, EntryTypes
  <2>3. PICK k : k = Choose(c, e)
    OBVIOUS
  <2>4. PICK v \in Chosen : k = [conn[c] EXCEPT !.chosen = v] /\ k \in Connection
    BY <1>0, <2>2, <2>3, ChooseTypes
  <2>5. conn[c].at = "decided"
    BY <1>6 DEF Decide, At
  <2>6. CASE \E i \in Rest(c) :
               /\ Mixing(c, [k EXCEPT !.args = <<NameFrom(Url(c), i, conn[c].offset)>>,
                                      !.at = IF Method(c) \in {"get", "delete"} THEN "args" ELSE "lastarg"])
               /\ StartAt(c, i + 1)
    <3>0. PICK i \in Rest(c) :
            /\ Mixing(c, [k EXCEPT !.args = <<NameFrom(Url(c), i, conn[c].offset)>>,
                                   !.at = IF Method(c) \in {"get", "delete"} THEN "args" ELSE "lastarg"])
            /\ StartAt(c, i + 1)
      BY <2>6
    <3>1. PICK g, a : /\ g = <<NameFrom(Url(c), i, conn[c].offset)>>
                      /\ a = IF Method(c) \in {"get", "delete"} THEN "args" ELSE "lastarg"
      OBVIOUS
    <3>2. g \in Seq(Words) /\ i \in Nat
      BY <1>u, <3>1, RestTypes
    <3>3. PICK m : m = [k EXCEPT !.args = g, !.at = a]
      OBVIOUS
    <3>4. m \in Connection /\ m.at \in Busy
      BY <2>4, <3>1, <3>2, <3>3 DEF Connection, Places, Busy
    <3>5. /\ m.taken = conn[c].taken /\ m.sent = conn[c].sent /\ m.req = conn[c].req /\ m.line = conn[c].line
          /\ m.garbled = conn[c].garbled /\ m.got = conn[c].got /\ m.first = conn[c].first /\ m.file = conn[c].file
      BY <1>0, <2>4, <3>3 DEF Connection
    <3>6. Local(m)
      BY <1>0, <2>5, <3>4, <3>5, LookupLocal DEF Busy
    <3>7. i + 1 \in Nat /\ i + 1 >= 1
      BY <3>2
    <3>8. Mixing(c, m) /\ StartAt(c, i + 1)
      BY <3>0, <3>1, <3>3
    <3>9. QED
      BY <1>2, <3>6, <3>7, <3>8, MixingSound
  <2>7. ASSUME NEW x, NEW n, NEW y, NEW m,
               x.kind \in Kinds \ {"page"} /\ x.url \in Urls, n = Choose(c, x), y \in {"run", "send"},
               m = [n EXCEPT !.at = y], Becomes(c, m), UNCHANGED tok
        PROVE  Sound'
    <3>1. PICK w \in Chosen : n = [conn[c] EXCEPT !.chosen = w] /\ n \in Connection
      BY <1>0, <2>7, ChooseTypes
    <3>2. m \in Connection /\ m.at = y
      BY <2>7, <3>1 DEF Connection, Places
    <3>3. /\ m.taken = conn[c].taken /\ m.sent = conn[c].sent /\ m.req = conn[c].req /\ m.line = conn[c].line
          /\ m.garbled = conn[c].garbled /\ m.got = conn[c].got /\ m.first = conn[c].first /\ m.file = conn[c].file
      BY <1>0, <2>7, <3>1 DEF Connection
    <3>4. Local(m)
      BY <1>0, <2>5, <2>7, <3>2, <3>3, LookupLocal DEF Busy
    <3>5. QED
      BY <2>7, <3>2, <3>4, BecomesSound DEF Taking
  <2>8. CASE Becomes(c, [k EXCEPT !.at = "run"]) /\ UNCHANGED tok
    <3>1. PICK m : m = [k EXCEPT !.at = "run"]
      OBVIOUS
    <3>2. QED
      BY <2>2, <2>3, <2>7, <2>8, <3>1, Zenon
  <2>9. CASE Becomes(c, [Choose(c, Forbidden) EXCEPT !.at = "send"]) /\ UNCHANGED tok
    <3>1. PICK n, m : n = Choose(c, Forbidden) /\ m = [n EXCEPT !.at = "send"]
      OBVIOUS
    <3>2. Forbidden.kind \in Kinds \ {"page"} /\ Forbidden.url \in Urls
      BY DEF Forbidden, Kinds, Urls
    <3>3. QED
      BY <2>7, <2>9, <3>1, <3>2, Zenon
  <2>10. QED
    BY <1>6, <2>1, <2>3, <2>6, <2>8, <2>9 DEF Decide
<1>7. CASE Page(c)
  <2>0. conn[c].at = "decided" /\ UNCHANGED tok
    BY <1>7 DEF Page, At
  <2>1. ASSUME NEW e, NEW k, NEW m,
               e.kind \in Kinds /\ e.url \in Urls /\ k = Choose(c, e),
               m = [k EXCEPT !.at = "send", !.file = TRUE] \/ m = [k EXCEPT !.at = "send"],
               Becomes(c, m)
        PROVE  Sound'
    <3>1. PICK v \in Chosen : k = [conn[c] EXCEPT !.chosen = v] /\ k \in Connection
      BY <1>0, <2>1, ChooseTypes
    <3>2. m \in Connection /\ m.at = "send"
      <4>1. CASE m = [k EXCEPT !.at = "send", !.file = TRUE]
        BY <3>1, <4>1 DEF Connection, Places
      <4>2. CASE m = [k EXCEPT !.at = "send"]
        BY <3>1, <4>2 DEF Connection, Places
      <4>3. QED
        BY <2>1, <4>1, <4>2
    <3>3. /\ m.taken = conn[c].taken /\ m.sent = conn[c].sent /\ m.req = conn[c].req
          /\ m.garbled = conn[c].garbled /\ m.got = conn[c].got /\ m.first = conn[c].first /\ m.line = conn[c].line
      <4>1. CASE m = [k EXCEPT !.at = "send", !.file = TRUE]
        BY <1>0, <3>1, <4>1 DEF Connection
      <4>2. CASE m = [k EXCEPT !.at = "send"]
        BY <1>0, <3>1, <4>2 DEF Connection
      <4>3. QED
        BY <2>1, <4>1, <4>2
    <3>4. Local(m)
      BY <1>0, <2>0, <3>2, <3>3, LookupLocal DEF Busy
    <3>5. QED
      BY <2>0, <2>1, <3>2, <3>4, BecomesSound DEF Taking
  <2>2. CASE /\ Url(c) \in Pages
             /\ Becomes(c, [Choose(c, [kind |-> "page", url |-> Url(c)]) EXCEPT !.at = "send", !.file = TRUE])
    <3>1. PICK e : e = [kind |-> "page", url |-> Url(c)]
      OBVIOUS
    <3>2. e.kind \in Kinds /\ e.url \in Urls
      BY <2>2, <3>1 DEF Urls, Kinds
    <3>3. PICK k, m : k = Choose(c, e) /\ m = [k EXCEPT !.at = "send", !.file = TRUE]
      OBVIOUS
    <3>4. Becomes(c, m)
      BY <2>2, <3>1, <3>3
    <3>5. QED
      BY <2>1, <3>2, <3>3, <3>4, Zenon
  <2>3. CASE Becomes(c, [Choose(c, Entry(conn[c].path)) EXCEPT !.at = "send"])
    <3>1. PICK e : e = Entry(conn[c].path)
      OBVIOUS
    <3>2. e.kind \in Kinds /\ e.url \in Urls
      BY <3>1, EntryTypes
    <3>3. PICK k, m : k = Choose(c, e) /\ m = [k EXCEPT !.at = "send"]
      OBVIOUS
    <3>4. Becomes(c, m)
      BY <2>3, <3>1, <3>3
    <3>5. QED
      BY <2>1, <3>2, <3>3, <3>4, Zenon
  <2>4. QED
    BY <1>7, <2>2, <2>3 DEF Page
<1>8. CASE NextArgument(c)
  <2>1. PICK t \in Tokens(Len(conn[c].args)) :
          /\ Mixing(c, [conn[c] EXCEPT !.args = @ \o t, !.at = IF t = None THEN "run" ELSE "args"])
          /\ TokenTaken
    BY <1>8 DEF NextArgument
  <2>2. conn[c].at = "args" /\ tok.owner \in Conns /\ tok.pos >= 1
    BY <1>3, <1>8 DEF NextArgument, At, Taking
  <2>3. /\ t \in Seq(Names) /\ tok' \in [owner : Conns \cup {"nobody"}, pos : Nat]
        /\ tok'.owner \in Conns /\ tok'.pos >= 1
    BY <2>1, <2>2, TokenTypes
  <2>4. PICK g, a : g = conn[c].args \o t /\ a = IF t = None THEN "run" ELSE "args"
    OBVIOUS
  <2>5. g \in Seq(Words)
    <3>1. t \in Seq(Words)
      BY <2>3, WordNames
    <3>2. QED
      BY <1>0, <2>4, <3>1
  <2>6. PICK m : m = [conn[c] EXCEPT !.args = g, !.at = a]
    OBVIOUS
  <2>7. m \in Connection /\ m.at \in Busy
    BY <1>0, <2>4, <2>5, <2>6 DEF Connection, Places, Busy
  <2>8. /\ m.taken = conn[c].taken /\ m.sent = conn[c].sent /\ m.req = conn[c].req /\ m.line = conn[c].line
        /\ m.garbled = conn[c].garbled /\ m.got = conn[c].got /\ m.first = conn[c].first /\ m.file = conn[c].file
    BY <1>0, <2>6 DEF Connection
  <2>9. Local(m)
    BY <1>0, <2>2, <2>7, <2>8, LookupLocal DEF Busy
  <2>10. Mixing(c, m)
    BY <2>1, <2>4, <2>6
  <2>11. QED
    BY <2>3, <2>9, <2>10, MixingSound
<1>9. CASE DropArgument(c)
  <2>1. Mixing(c, [conn[c] EXCEPT !.at = "run"]) /\ TokenTaken
    BY <1>9 DEF DropArgument
  <2>2. conn[c].at = "lastarg" /\ tok.owner \in Conns /\ tok.pos >= 1
    BY <1>3, <1>9 DEF DropArgument, At, Taking
  <2>3. /\ tok' \in [owner : Conns \cup {"nobody"}, pos : Nat]
        /\ tok'.owner \in Conns /\ tok'.pos >= 1
    BY <2>1, <2>2, TokenTypes
  <2>4. Local([conn[c] EXCEPT !.at = "run"])
    BY <1>0, <2>2, MovesLocal
  <2>5. QED
    BY <2>1, <2>3, <2>4, MixingSound
<1>10. CASE Run(c)
  BY <1>1, <1>10 DEF Run, At, Taking
<1>11. CASE Answer(c)
  <2>1. Local([conn[c] EXCEPT !.at = "close", !.reply = TRUE])
    BY <1>0, <1>11, AnswerLocal DEF Answer, At
  <2>2. [conn[c] EXCEPT !.at = "close", !.reply = TRUE].at = "close"
    BY <1>0 DEF Connection
  <2>3. QED
    BY <1>11, <2>1, <2>2, BecomesSound DEF Answer, Taking
<1>12. CASE AnswerKills(c)
  BY <1>12 DEF AnswerKills, Sound, Pointing, Local, Closed, Counted, Blank, Lined
<1>13. CASE Close(c)
  BY <1>1, <1>13 DEF Close, At, Taking
<1>14. CASE Spill(c)
  <2>1. Mixing(c, [conn[c] EXCEPT !.at = "decided"]) /\ TokenTaken
    BY <1>14 DEF Spill
  <2>2. conn[c].at = "spill" /\ tok.owner \in Conns /\ tok.pos >= 1
    BY <1>3, <1>14 DEF Spill, At, Taking
  <2>3. /\ tok' \in [owner : Conns \cup {"nobody"}, pos : Nat]
        /\ tok'.owner \in Conns /\ tok'.pos >= 1
    BY <2>1, <2>2, TokenTypes
  <2>4. Local([conn[c] EXCEPT !.at = "decided"])
    BY <1>0, <2>2, MovesLocal
  <2>5. QED
    BY <2>1, <2>3, <2>4, MixingSound
<1>15. CASE RunKills(c)
  BY <1>15 DEF RunKills, Sound, Pointing, Local, Closed, Counted, Blank, Lined
<1>16. QED
  BY <1>4, <1>5, <1>6, <1>7, <1>8, <1>9, <1>10, <1>11, <1>12, <1>13, <1>14, <1>15

\* Every step keeps the server sound.
LEMMA NextSound == Sound /\ [Next]_vars => Sound'
<1> SUFFICES ASSUME Sound, [Next]_vars PROVE Sound'
  OBVIOUS
<1>1. CASE UNCHANGED vars
  BY <1>1 DEF vars, Sound, Pointing, Local, Closed, Counted, Blank, Lined
<1>2. ASSUME NEW c \in Conns, Serve(c) PROVE Sound'
  BY <1>2, ReadSound, LookupSound DEF Serve
<1>3. QED
  BY <1>1, <1>2, ClientSound DEF Next

\* The server is sound in every reachable state.
THEOREM ServerSound == Spec => []Sound
BY InitSound, NextSound, PTL DEF Spec

\* A request that was read by the rules of http_read_request and whose first read ended with
\* the header or with the body is complete before it is looked up.
THEOREM WholeBodies == Spec => []BodyWhole
<1>1. ASSUME Sound, NEW c \in Conns,
             conn[c].at \in Decoded \cup {"parse"}, ~conn[c].garbled,
             conn[c].first = Total(conn[c].req) \/ (conn[c].first = HeaderSize /\ conn[c].req.body >= HeaderSize)
      PROVE  conn[c].got = Total(conn[c].req)
  <2>a. conn[c] \in Connection
    BY <1>1 DEF Sound
  <2>b. conn[c].req \in Requests /\ conn[c].got \in Nat /\ conn[c].taken \in Nat /\ conn[c].sent \in Nat /\ conn[c].first \in Nat
    BY <2>a DEF Connection
  <2>0. /\ conn[c].got \in Nat /\ conn[c].taken \in Nat /\ conn[c].sent \in Nat /\ Total(conn[c].req) \in Nat
        /\ conn[c].req.body \in Int /\ conn[c].first \in Nat
    BY <2>b, TotalNat
  <2>1. Counted(conn[c]) /\ conn[c].at \in Arrived
    BY <1>1 DEF Sound, Local, Decoded, Arrived, Busy
  <2>2. conn[c].got <= Total(conn[c].req)
    BY <1>1, <2>0, <2>1 DEF Counted
  <2>3. conn[c].got >= Total(conn[c].req)
    <3>1. CASE conn[c].first = Total(conn[c].req)
      BY <1>1, <2>0, <2>1, <3>1 DEF Counted
    <3>2. CASE conn[c].first = HeaderSize /\ conn[c].req.body >= HeaderSize
      <4>1. Total(conn[c].req) = HeaderSize + conn[c].req.body
        BY <2>0, <3>2 DEF Total, HeaderSize
      <4>2. conn[c].got >= conn[c].first + conn[c].req.body
        BY <1>1, <2>1, <3>2 DEF Counted
      <4>3. QED
        BY <3>2, <4>1, <4>2
    <3>3. QED
      BY <1>1, <3>1, <3>2
  <2>4. QED
    BY <2>0, <2>2, <2>3
<1>2. Sound => BodyWhole
  BY <1>1 DEF BodyWhole
<1>3. QED
  BY <1>2, ServerSound, PTL

-----------------------------------------------------------------------------
(***************************************************************************)
(* Descriptors.                                                            *)
(***************************************************************************)
Outside == {"idle", "queued", "done"}

\* No connection is accepted, closed or given a file.
Steady == \A d \in Conns : (conn'[d].at \in Outside <=> conn[d].at \in Outside) /\ conn'[d].file = conn[d].file

\* One connection is accepted, or closed; one page is opened.
Enters(c) ==
  /\ conn[c].at \in Outside /\ conn'[c].at \notin Outside /\ conn'[c].file = conn[c].file
  /\ \A d \in Conns : d # c => conn'[d] = conn[d]
Leaves(c) ==
  /\ conn[c].at \notin Outside /\ conn'[c].at \in Outside /\ conn'[c].file = conn[c].file
  /\ \A d \in Conns : d # c => conn'[d] = conn[d]
Opens(c) ==
  /\ conn[c].at \notin Outside /\ conn'[c].at \notin Outside /\ ~conn[c].file /\ conn'[c].file
  /\ \A d \in Conns : d # c => conn'[d] = conn[d]

\* A step that keeps its own connection inside or outside, and its file, is steady.
LEMMA SteadyStep ==
  ASSUME Sound, NEW c \in Conns, NEW rec \in Connection,
         (rec.at \in Outside <=> conn[c].at \in Outside) /\ rec.file = conn[c].file,
         Becomes(c, rec) \/ Mixing(c, rec)
  PROVE  Steady
<1>0. conn \in [Conns -> Connection]
  BY DEF Sound
<1>1. CASE Becomes(c, rec)
  BY <1>0, <1>1 DEF Becomes, Steady
<1>2. CASE Mixing(c, rec)
  <2>1. PICK b \in BOOLEAN : conn'[c] = [rec EXCEPT !.mixed = b]
    BY <1>0, <1>2, MixingEffect
  <2>2. conn'[c].at = rec.at /\ conn'[c].file = rec.file
    BY <2>1 DEF Connection
  <2>3. ASSUME NEW d \in Conns, d # c PROVE conn'[d].at = conn[d].at /\ conn'[d].file = conn[d].file
    <3>1. conn[d] \in Connection
      BY <1>0
    <3>2. conn'[d] = conn[d] \/ conn'[d] = [conn[d] EXCEPT !.mixed = TRUE]
      BY <1>0, <1>2, <2>3, MixingEffect
    <3>3. QED
      BY <3>1, <3>2 DEF Connection
  <2>4. QED
    BY <2>2, <2>3 DEF Steady
<1>3. QED
  BY <1>1, <1>2

\* The first read keeps the file and goes to one of three places.
LEMMA ReadFirstStep ==
  ASSUME conn \in [Conns -> Connection], NEW c \in Conns, ReadFirst(c)
  PROVE  conn'[c].at \in {"read", "close", "more", "parse"} /\ conn'[c].file = conn[c].file
<1>1. PICK m, read : \/ conn'[c] = [Received(c, m, read) EXCEPT !.at = "close"]
                     \/ conn'[c] = [Received(c, m, read) EXCEPT !.at = "more", !.needed = Needed(c, m)]
                     \/ conn'[c] = [Received(c, m, read) EXCEPT !.at = "parse"]
  <2>1. PICK m, read : Becomes(c, AfterRead(c, m, read))
    BY DEF ReadFirst
  <2>2. conn'[c] = AfterRead(c, m, read)
    BY <2>1 DEF Becomes
  <2>3. QED
    BY <2>2 DEF AfterRead
<1>2. PICK k : k = Received(c, m, read)
  OBVIOUS
<1>3. k.file = conn[c].file /\ "file" \in DOMAIN k /\ "at" \in DOMAIN k
  BY <1>2 DEF Received, Connection
<1>4. CASE conn'[c] = [k EXCEPT !.at = "close"]
  BY <1>3, <1>4
<1>5. CASE conn'[c] = [k EXCEPT !.at = "more", !.needed = Needed(c, m)]
  BY <1>3, <1>5
<1>6. CASE conn'[c] = [k EXCEPT !.at = "parse"]
  BY <1>3, <1>6
<1>7. QED
  BY <1>1, <1>2, <1>4, <1>5, <1>6

\* What a step does to the descriptors, it does to the connections and pages.
LEMMA FdStep ==
  ASSUME Sound, [Next]_vars
  PROVE  \/ fds' = fds /\ Steady
         \/ \E c \in Conns : fds' = fds + 1 /\ (Enters(c) \/ Opens(c))
         \/ \E c \in Conns : fds' = fds - 1 /\ Leaves(c)
<1>0. conn \in [Conns -> Connection]
  BY DEF Sound
<1>1. CASE UNCHANGED <<conn, fds>>
  BY <1>1 DEF Steady
<1>2. ASSUME NEW c \in Conns, NEW p, Moves(c, p), p \in Outside <=> conn[c].at \in Outside
      PROVE  Steady
  <2>1. [conn[c] EXCEPT !.at = p].at = p /\ [conn[c] EXCEPT !.at = p].file = conn[c].file
    BY <1>0 DEF Connection
  <2>2. /\ conn'[c] = [conn[c] EXCEPT !.at = p] /\ \A d \in Conns : d # c => conn'[d] = conn[d]
    BY <1>0, <1>2 DEF Moves, Becomes
  <2>3. QED
    BY <1>2, <2>1, <2>2 DEF Steady
<1>3. ASSUME NEW c \in Conns, Client(c) PROVE fds' = fds /\ Steady
  <2>1. CASE Connect(c)
    BY <1>2, <2>1 DEF Connect, At, Outside
  <2>2. CASE Hangup(c)
    <3>1. PICK rec : rec = [conn[c] EXCEPT !.gone = TRUE]
      OBVIOUS
    <3>2. rec \in Connection /\ rec.at = conn[c].at /\ rec.file = conn[c].file
      BY <1>0, <3>1 DEF Connection
    <3>3. QED
      BY <2>2, <3>1, <3>2, SteadyStep DEF Hangup
  <2>3. ASSUME NEW n \in 1 .. Total(conn[c].req), Send(c, n) PROVE fds' = fds /\ Steady
    <3>1. PICK rec : rec = [conn[c] EXCEPT !.sent = conn[c].sent + n]
      OBVIOUS
    <3>2. conn[c].sent + n \in Nat
      BY <1>0, TotalNat DEF Connection
    <3>3. rec \in Connection /\ rec.at = conn[c].at /\ rec.file = conn[c].file
      BY <1>0, <3>1, <3>2 DEF Connection
    <3>4. Becomes(c, rec) /\ fds' = fds
      BY <2>3, <3>1 DEF Send
    <3>5. QED
      BY <3>3, <3>4, SteadyStep
  <2>4. QED
    BY <1>3, <2>1, <2>2, <2>3 DEF Client
<1>4. ASSUME NEW c \in Conns, Listen(c)
      PROVE  (fds' = fds /\ Steady) \/ (fds' = fds + 1 /\ Enters(c))
  <2>1. CASE AcceptFails(c)
    BY <1>1, <2>1 DEF AcceptFails, Steady
  <2>2. CASE Accept(c) \/ AcceptNoThread(c)
    <3>1. PICK p : Moves(c, p) /\ p \notin Outside
      BY <2>2 DEF Accept, AcceptNoThread, Outside
    <3>2. [conn[c] EXCEPT !.at = p].at = p /\ [conn[c] EXCEPT !.at = p].file = conn[c].file
      BY <1>0 DEF Connection
    <3>3. /\ conn'[c] = [conn[c] EXCEPT !.at = p] /\ \A d \in Conns : d # c => conn'[d] = conn[d]
      BY <1>0, <3>1 DEF Moves, Becomes
    <3>4. conn[c].at \in Outside /\ fds' = fds + 1
      BY <2>2 DEF Accept, AcceptNoThread, At, Outside
    <3>5. QED
      BY <3>1, <3>2, <3>3, <3>4 DEF Enters
  <2>3. QED
    BY <1>4, <2>1, <2>2 DEF Listen
<1>5. ASSUME NEW c \in Conns, Close(c) PROVE fds' = fds - 1 /\ Leaves(c)
  <2>1. [conn[c] EXCEPT !.at = "done"].at = "done" /\ [conn[c] EXCEPT !.at = "done"].file = conn[c].file
    BY <1>0 DEF Connection
  <2>2. /\ conn'[c] = [conn[c] EXCEPT !.at = "done"] /\ \A d \in Conns : d # c => conn'[d] = conn[d]
    BY <1>0, <1>5 DEF Close, Moves, Becomes
  <2>3. conn[c].at \notin Outside /\ fds' = fds - 1
    BY <1>5 DEF Close, At, Outside
  <2>4. QED
    BY <2>1, <2>2, <2>3 DEF Leaves, Outside
<1>6. ASSUME NEW c \in Conns, Page(c)
      PROVE  (fds' = fds /\ Steady) \/ (fds' = fds + 1 /\ Opens(c))
  <2>1. conn[c].at = "decided" /\ ~conn[c].file
    BY <1>6 DEF Page, At, Sound, Local, Closed
  <2>2. ASSUME NEW e, NEW k, e.kind \in Kinds /\ e.url \in Urls, k = Choose(c, e)
        PROVE  \E v \in Chosen : k = [conn[c] EXCEPT !.chosen = v] /\ k \in Connection
    BY <1>0, <2>2, ChooseTypes
  <2>3. CASE /\ Url(c) \in Pages /\ fds' = fds + 1
             /\ Becomes(c, [Choose(c, [kind |-> "page", url |-> Url(c)]) EXCEPT !.at = "send", !.file = TRUE])
    <3>1. PICK e : e = [kind |-> "page", url |-> Url(c)]
      OBVIOUS
    <3>2. e.kind \in Kinds /\ e.url \in Urls
      BY <2>3, <3>1 DEF Urls, Kinds
    <3>3. PICK k, m : k = Choose(c, e) /\ m = [k EXCEPT !.at = "send", !.file = TRUE]
      OBVIOUS
    <3>4. PICK v \in Chosen : k = [conn[c] EXCEPT !.chosen = v] /\ k \in Connection
      BY <2>2, <3>2, <3>3
    <3>5. m.at = "send" /\ m.file
      BY <3>3, <3>4 DEF Connection
    <3>6. /\ conn'[c] = m /\ \A d \in Conns : d # c => conn'[d] = conn[d]
      BY <1>0, <2>3, <3>1, <3>3 DEF Becomes
    <3>7. QED
      BY <2>1, <2>3, <3>5, <3>6 DEF Opens, Outside
  <2>4. CASE fds' = fds /\ Becomes(c, [Choose(c, Entry(conn[c].path)) EXCEPT !.at = "send"])
    <3>1. PICK e : e = Entry(conn[c].path)
      OBVIOUS
    <3>2. e.kind \in Kinds /\ e.url \in Urls
      BY <3>1, EntryTypes
    <3>3. PICK k, m : k = Choose(c, e) /\ m = [k EXCEPT !.at = "send"]
      OBVIOUS
    <3>4. PICK v \in Chosen : k = [conn[c] EXCEPT !.chosen = v] /\ k \in Connection
      BY <2>2, <3>2, <3>3
    <3>5. m.at = "send" /\ m.file = conn[c].file /\ m \in Connection
      BY <1>0, <3>3, <3>4 DEF Connection, Places
    <3>6. Becomes(c, m)
      BY <2>4, <3>1, <3>3
    <3>7. QED
      BY <2>1, <2>4, <3>5, <3>6, SteadyStep DEF Outside
  <2>5. QED
    BY <1>6, <2>3, <2>4 DEF Page
<1>7. ASSUME NEW c \in Conns, Prefetch(c) \/ Handshake(c) \/ ReadFirst(c) \/ ReadMore(c) \/ ReadMoreFails(c)
      PROVE  fds' = fds /\ Steady
  <2>0. fds' = fds
    BY <1>7 DEF Prefetch, Handshake, ReadFirst, ReadMore, ReadMoreFails
  <2>1. /\ conn[c].at \notin Outside
        /\ Sound'
    BY <1>7, ReadSound DEF Prefetch, Handshake, ReadFirst, ReadMore, ReadMoreFails, At, Outside
  <2>2. \A d \in Conns : d # c => conn'[d] = conn[d]
    BY <1>0, <1>7 DEF Prefetch, Handshake, ReadFirst, ReadMore, ReadMoreFails, Moves, Becomes
  <2>3. conn'[c].at \in {"read", "close", "more", "parse"}
    <3>1. CASE Prefetch(c) \/ Handshake(c)
      BY <1>0, <3>1 DEF Prefetch, Handshake, Moves, Becomes, Connection
    <3>2. CASE ReadFirst(c)
      BY <1>0, <3>2, ReadFirstStep
    <3>3. CASE ReadMore(c)
      BY <1>0, <3>3 DEF ReadMore, Becomes, Connection
    <3>4. CASE ReadMoreFails(c)
      BY <1>0, <3>4 DEF ReadMoreFails, Becomes, Connection, At
    <3>5. QED
      BY <1>7, <3>1, <3>2, <3>3, <3>4
  <2>4. conn'[c].file = conn[c].file
    <3>1. CASE Prefetch(c) \/ Handshake(c)
      BY <1>0, <3>1 DEF Prefetch, Handshake, Moves, Becomes, Connection
    <3>2. CASE ReadFirst(c)
      BY <1>0, <3>2, ReadFirstStep
    <3>3. CASE ReadMore(c)
      BY <1>0, <3>3 DEF ReadMore, Becomes, Connection
    <3>4. CASE ReadMoreFails(c)
      BY <1>0, <3>4 DEF ReadMoreFails, Becomes, Connection, At
    <3>5. QED
      BY <1>7, <3>1, <3>2, <3>3, <3>4
  <2>5. QED
    BY <2>0, <2>1, <2>2, <2>3, <2>4 DEF Steady, Outside
<1>8. ASSUME NEW c \in Conns,
             \/ Parse(c) \/ Walk(c) \/ Spill(c) \/ Decide(c) \/ NextArgument(c) \/ DropArgument(c)
             \/ Run(c) \/ RunKills(c) \/ Answer(c) \/ AnswerKills(c)
      PROVE  fds' = fds /\ Steady
  <2>0. fds' = fds /\ conn[c].at \notin Outside /\ conn[c] \in Connection
    BY <1>0, <1>8 DEF Parse, Walk, Spill, Decide, NextArgument, DropArgument, Run, RunKills, Answer, AnswerKills, At, Outside
  <2>1. ASSUME NEW p, Moves(c, p), p \notin Outside PROVE Steady
    BY <1>2, <2>0, <2>1
  <2>2. ASSUME NEW t, Mixing(c, Walked(c, t)), t \in Seq(Names), conn[c].at \in {"parse", "walk"} PROVE Steady
    <3>1. Local(Walked(c, t)) /\ Walked(c, t).at \in {"walk", "spill", "decided"}
      BY <2>2, WalkedLocal DEF Sound
    <3>2. Walked(c, t).file = conn[c].file
      BY <2>0 DEF Walked, Connection
    <3>3. QED
      BY <2>0, <2>2, <3>1, <3>2, SteadyStep DEF Local, Outside
  <2>3. CASE Parse(c)
    <3>1. CASE Mixing(c, Walked(c, TokenAt(Url(c), 1)))
      <4>1. Url(c) \in Seq(Names)
        BY <2>0 DEF Url, Line, Connection
      <4>2. TokenAt(Url(c), 1) \in Seq(Names)
        BY <4>1, TokenAtTypes
      <4>3. QED
        BY <2>0, <2>2, <2>3, <3>1, <4>2 DEF Parse, At
    <3>2. QED
      BY <2>0, <2>1, <2>3, <3>1 DEF Parse, Outside
  <2>4. CASE Walk(c)
    <3>1. PICK t \in Tokens(Len(conn[c].path)) : Mixing(c, Walked(c, t))
      BY <2>4 DEF Walk
    <3>2. t \in Seq(Names) /\ conn[c].at = "walk"
      BY <2>4, TokenTypes DEF Walk, At, Sound, Pointing, Taking
    <3>3. QED
      BY <2>0, <2>2, <3>1, <3>2
  <2>5. CASE Decide(c)
    <3>1. PICK e : e = Entry(conn[c].path)
      OBVIOUS
    <3>2. e.kind \in Kinds \ {"page"} /\ e.url \in Urls
      BY <3>1, EntryTypes
    <3>3. PICK k : k = Choose(c, e)
      OBVIOUS
    <3>4. PICK v \in Chosen : k = [conn[c] EXCEPT !.chosen = v] /\ k \in Connection
      BY <2>0, <3>2, <3>3, ChooseTypes
    <3>5. ASSUME NEW x, NEW n, NEW m,
                 x.kind \in Kinds \ {"page"}, x.url \in Urls, n = Choose(c, x),
                 m = [n EXCEPT !.at = "run"] \/ m = [n EXCEPT !.at = "send"], Becomes(c, m)
          PROVE  Steady
      <4>1. PICK w \in Chosen : n = [conn[c] EXCEPT !.chosen = w] /\ n \in Connection
        BY <2>0, <3>5, ChooseTypes
      <4>2. m \in Connection /\ m.at \in {"run", "send"} /\ m.file = conn[c].file
        <5>1. CASE m = [n EXCEPT !.at = "run"]
          BY <2>0, <4>1, <5>1 DEF Connection, Places
        <5>2. CASE m = [n EXCEPT !.at = "send"]
          BY <2>0, <4>1, <5>2 DEF Connection, Places
        <5>3. QED
          BY <3>5, <5>1, <5>2
      <4>3. QED
        BY <2>0, <3>5, <4>2, SteadyStep DEF Outside
    <3>6. CASE Becomes(c, [k EXCEPT !.at = "run"])
      <4>1. PICK m : m = [k EXCEPT !.at = "run"]
        OBVIOUS
      <4>2. QED
        <5>1. Becomes(c, m)
          BY <3>6, <4>1
        <5>2. QED
          BY <2>0, <3>2, <3>3, <3>5, <4>1, <5>1, Zenon
    <3>7. CASE Becomes(c, [Choose(c, Forbidden) EXCEPT !.at = "send"])
      <4>1. PICK n, m : n = Choose(c, Forbidden) /\ m = [n EXCEPT !.at = "send"]
        OBVIOUS
      <4>2. Forbidden.kind \in Kinds \ {"page"} /\ Forbidden.url \in Urls
        BY DEF Forbidden, Kinds, Urls
      <4>3. QED
        <5>1. Becomes(c, m)
          BY <3>7, <4>1
        <5>2. QED
          BY <2>0, <3>5, <4>1, <4>2, <5>1, Zenon
    <3>8. ASSUME NEW i \in Rest(c),
                 Mixing(c, [k EXCEPT !.args = <<NameFrom(Url(c), i, conn[c].offset)>>,
                                     !.at = IF Method(c) \in {"get", "delete"} THEN "args" ELSE "lastarg"])
          PROVE  Steady
      <4>1. PICK g, a : /\ g = <<NameFrom(Url(c), i, conn[c].offset)>>
                        /\ a = IF Method(c) \in {"get", "delete"} THEN "args" ELSE "lastarg"
        OBVIOUS
      <4>2. g \in Seq(Words)
        <5>1. Url(c) \in Seq(Names)
          BY <2>0 DEF Url, Line, Connection
        <5>2. QED
          BY <3>8, <4>1, <5>1, RestTypes
      <4>3. PICK m : m = [k EXCEPT !.args = g, !.at = a]
        OBVIOUS
      <4>4. m \in Connection /\ m.at \in {"args", "lastarg"}
        BY <3>4, <4>1, <4>2, <4>3 DEF Connection, Places
      <4>5. m.file = conn[c].file
        BY <2>0, <3>4, <4>3 DEF Connection
      <4>6. Mixing(c, m)
        BY <3>8, <4>1, <4>3
      <4>7. QED
        BY <2>0, <4>4, <4>5, <4>6, SteadyStep DEF Outside
    <3>9. QED
      BY <2>0, <2>5, <3>1, <3>3, <3>6, <3>7, <3>8 DEF Decide
  <2>6. CASE NextArgument(c)
    <3>1. PICK t \in Tokens(Len(conn[c].args)) :
            Mixing(c, [conn[c] EXCEPT !.args = @ \o t, !.at = IF t = None THEN "run" ELSE "args"])
      BY <2>6 DEF NextArgument
    <3>2. t \in Seq(Names)
      BY <2>6, TokenTypes DEF NextArgument, At, Sound, Pointing, Taking
    <3>3. PICK g, a : g = conn[c].args \o t /\ a = IF t = None THEN "run" ELSE "args"
      OBVIOUS
    <3>4. g \in Seq(Words)
      <4>1. t \in Seq(Words) /\ conn[c].args \in Seq(Words)
        BY <2>0, <3>2, WordNames DEF Connection
      <4>2. QED
        BY <3>3, <4>1
    <3>5. PICK m : m = [conn[c] EXCEPT !.args = g, !.at = a]
      OBVIOUS
    <3>6. m \in Connection /\ m.at \in {"run", "args"} /\ m.file = conn[c].file
      BY <2>0, <3>3, <3>4, <3>5 DEF Connection, Places
    <3>7. Mixing(c, m)
      BY <3>1, <3>3, <3>5
    <3>8. QED
      BY <2>0, <3>6, <3>7, SteadyStep DEF Outside
  <2>7. CASE DropArgument(c)
    <3>1. PICK m : m = [conn[c] EXCEPT !.at = "run"]
      OBVIOUS
    <3>2. m \in Connection /\ m.at = "run" /\ m.file = conn[c].file
      BY <2>0, <3>1 DEF Connection, Places
    <3>3. Mixing(c, m)
      BY <2>7, <3>1 DEF DropArgument
    <3>4. QED
      BY <2>0, <3>2, <3>3, SteadyStep DEF Outside
  <2>8. CASE Run(c)
    BY <2>0, <2>1, <2>8 DEF Run, Outside
  <2>9. CASE Answer(c)
    <3>1. PICK m : m = [conn[c] EXCEPT !.at = "close", !.reply = TRUE]
      OBVIOUS
    <3>2. m \in Connection /\ m.at = "close" /\ m.file = conn[c].file
      BY <2>0, <3>1 DEF Connection, Places
    <3>3. QED
      BY <2>0, <2>9, <3>1, <3>2, SteadyStep DEF Outside, Answer
  <2>10. CASE AnswerKills(c)
    BY <2>10 DEF AnswerKills, Steady
  <2>11. CASE Spill(c)
    <3>1. PICK m : m = [conn[c] EXCEPT !.at = "decided"]
      OBVIOUS
    <3>2. m \in Connection /\ m.at = "decided" /\ m.file = conn[c].file
      BY <2>0, <3>1 DEF Connection, Places
    <3>3. Mixing(c, m)
      BY <2>11, <3>1 DEF Spill
    <3>4. QED
      BY <2>0, <3>2, <3>3, SteadyStep DEF Outside
  <2>12. CASE RunKills(c)
    BY <2>12 DEF RunKills, Steady
  <2>13. QED
    BY <1>8, <2>3, <2>4, <2>5, <2>6, <2>7, <2>8, <2>9, <2>10, <2>11, <2>12
<1>9. ASSUME NEW c \in Conns, Serve(c)
      PROVE  (fds' = fds /\ Steady) \/ (fds' = fds + 1 /\ Opens(c)) \/ (fds' = fds - 1 /\ Leaves(c))
  BY <1>5, <1>6, <1>7, <1>8, <1>9 DEF Serve
<1>10. QED
  BY <1>1, <1>3, <1>4, <1>9 DEF Next, vars

\* The sets that FdsAccounted counts.
Inside == {c \in Conns : conn[c].at \notin {"idle", "queued", "done"}}
Filed == {c \in Conns : conn[c].file}

\* Every descriptor belongs to a connection that was accepted and not closed, or to a page
\* that was served; each has one.
THEOREM DescriptorsAccounted == Spec => []FdsAccounted
<1>0. /\ IsFiniteSet(Inside) /\ IsFiniteSet(Filed) /\ IsFiniteSet(Inside') /\ IsFiniteSet(Filed')
      /\ Cardinality(Inside) \in Nat /\ Cardinality(Filed) \in Nat
  <2>1. \A S \in SUBSET Conns : IsFiniteSet(S)
    BY ConnsAssumption, FS_Subset
  <2>2. Inside \subseteq Conns /\ Filed \subseteq Conns /\ Inside' \subseteq Conns /\ Filed' \subseteq Conns
    BY DEF Inside, Filed
  <2>3. QED
    BY <2>1, <2>2, FS_CardinalityType
<1>1. Init => FdsAccounted
  <2> SUFFICES ASSUME Init PROVE FdsAccounted
    OBVIOUS
  <2>1. ASSUME NEW c \in Conns PROVE conn[c].at = "idle" /\ conn[c].file = FALSE
    BY DEF Init, Fresh
  <2>2. Inside = {} /\ Filed = {}
    BY <2>1 DEF Inside, Filed
  <2>3. QED
    <3>1. Cardinality(Inside) = 0 /\ Cardinality(Filed) = 0 /\ fds = 0
      BY <2>2, FS_EmptySet DEF Init
    <3>2. fds = Cardinality(Inside) + Cardinality(Filed)
      BY <3>1
    <3>3. QED
      BY <3>2 DEF FdsAccounted, Inside, Filed
<1>2. ASSUME Sound, FdsAccounted, [Next]_vars PROVE FdsAccounted'
  <2>0. fds = Cardinality(Inside) + Cardinality(Filed)
    BY <1>2 DEF FdsAccounted, Inside, Filed
  <2> SUFFICES fds' = Cardinality(Inside') + Cardinality(Filed')
    BY DEF FdsAccounted, Inside, Filed
  <2>1. CASE fds' = fds /\ Steady
    <3>1. Inside' = Inside /\ Filed' = Filed
      BY <2>1 DEF Steady, Inside, Filed, Outside
    <3>2. QED
      BY <2>0, <2>1, <3>1
  <2>2. ASSUME NEW c \in Conns, fds' = fds + 1, Enters(c) PROVE fds' = Cardinality(Inside') + Cardinality(Filed')
    <3>1. Inside' = Inside \cup {c} /\ c \notin Inside /\ Filed' = Filed
      BY <2>2 DEF Enters, Inside, Filed, Outside
    <3>2. Cardinality(Inside') = Cardinality(Inside) + 1
      BY <1>0, <3>1, FS_AddElement
    <3>3. QED
      BY <1>0, <2>0, <2>2, <3>1, <3>2
  <2>3. ASSUME NEW c \in Conns, fds' = fds + 1, Opens(c) PROVE fds' = Cardinality(Inside') + Cardinality(Filed')
    <3>1. Inside' = Inside /\ Filed' = Filed \cup {c} /\ c \notin Filed
      BY <2>3 DEF Opens, Inside, Filed, Outside
    <3>2. Cardinality(Filed') = Cardinality(Filed) + 1
      BY <1>0, <3>1, FS_AddElement
    <3>3. QED
      BY <1>0, <2>0, <2>3, <3>1, <3>2
  <2>4. ASSUME NEW c \in Conns, fds' = fds - 1, Leaves(c) PROVE fds' = Cardinality(Inside') + Cardinality(Filed')
    <3>1. Inside' = Inside \ {c} /\ c \in Inside /\ Filed' = Filed
      BY <2>4 DEF Leaves, Inside, Filed, Outside
    <3>2. Cardinality(Inside') = Cardinality(Inside) - 1
      BY <1>0, <3>1, FS_RemoveElement
    <3>3. QED
      BY <1>0, <2>0, <2>4, <3>1, <3>2
  <2>5. QED
    BY <1>2, <2>1, <2>2, <2>3, <2>4, FdStep
<1>3. Sound /\ FdsAccounted /\ [Next]_vars => FdsAccounted'
  BY <1>2
<1>4. QED
  BY <1>1, <1>3, ServerSound, PTL DEF Spec

-----------------------------------------------------------------------------
(***************************************************************************)
(* URLs and what they stand for.                                           *)
(***************************************************************************)
\* A beginning of a URL.
LEMMA PrefixFacts ==
  ASSUME NEW u \in Seq(Names), NEW n \in 0..Len(u)
  PROVE  /\ Prefix(u, n) \in Seq(Names) /\ Len(Prefix(u, n)) = n
         /\ \A i \in 1..n : Prefix(u, n)[i] = u[i]
         /\ Prefix(u, Len(u)) = u
<1>1. n \in Int /\ Len(u) \in Nat /\ \A i \in 1..n : u[i] \in Names
  OBVIOUS
<1>2. /\ SubSeq(u, 1, n) \in Seq(Names)
      /\ Len(SubSeq(u, 1, n)) = IF 1 <= n THEN n - 1 + 1 ELSE 0
      /\ \A i \in 1..(n - 1 + 1) : SubSeq(u, 1, n)[i] = u[1 + i - 1]
  BY <1>1, SubSeqProperties
<1>3. Prefix(u, n) \in Seq(Names) /\ Len(Prefix(u, n)) = n
  BY <1>1, <1>2 DEF Prefix
<1>4. \A i \in 1..n : Prefix(u, n)[i] = u[i]
  BY <1>1, <1>2 DEF Prefix
<1>5. Prefix(u, Len(u)) = u
  BY SubSeqFull DEF Prefix
<1>6. QED
  BY <1>3, <1>4, <1>5

\* The beginning of a beginning.
LEMMA PrefixPrefix ==
  ASSUME NEW u \in Seq(Names), NEW n \in 0..Len(u), NEW i \in 0..n
  PROVE  SubSeq(Prefix(u, n), 1, i) = Prefix(u, i)
<1>0. i \in 0..Len(u) /\ Len(u) \in Nat
  OBVIOUS
<1>1. /\ Prefix(u, n) \in Seq(Names) /\ Len(Prefix(u, n)) = n /\ \A j \in 1..n : Prefix(u, n)[j] = u[j]
  BY PrefixFacts
<1>2. /\ Prefix(u, i) \in Seq(Names) /\ Len(Prefix(u, i)) = i /\ \A j \in 1..i : Prefix(u, i)[j] = u[j]
  BY <1>0, PrefixFacts
<1>3. PICK p : p = Prefix(u, n)
  OBVIOUS
<1>4. i \in 0..Len(p) /\ p \in Seq(Names)
  BY <1>1, <1>3
<1>5. /\ Prefix(p, i) \in Seq(Names) /\ Len(Prefix(p, i)) = i /\ \A j \in 1..i : Prefix(p, i)[j] = p[j]
  BY <1>4, PrefixFacts
<1>6. \A j \in 1..i : Prefix(p, i)[j] = Prefix(u, i)[j]
  BY <1>0, <1>1, <1>2, <1>3, <1>5
<1>7. Prefix(p, i) = Prefix(u, i)
  BY <1>2, <1>5, <1>6, SeqEqual
<1>8. QED
  BY <1>3, <1>7 DEF Prefix

\* One component more.
LEMMA PrefixNext ==
  ASSUME NEW u \in Seq(Names), NEW n \in Nat, n < Len(u)
  PROVE  /\ Prefix(u, n) \o SubSeq(u, n + 1, n + 1) = Prefix(u, n + 1)
         /\ SubSeq(u, n + 1, n + 1) = <<u[n + 1]>>
         /\ Head(SubSeq(u, n + 1, Len(u))) = u[n + 1]
<1>0. Len(u) \in Nat
  OBVIOUS
<1>1. 1 \in 1..(Len(u) + 1) /\ n \in (1 - 1)..Len(u) /\ n + 1 \in n..Len(u) /\ n + 1 \in 1..Len(u)
  BY <1>0
<1>2. SubSeq(u, 1, n) \o SubSeq(u, n + 1, n + 1) = SubSeq(u, 1, n + 1)
  BY <1>1, ConcatAdjacentSubSeq
<1>3. SubSeq(u, n + 1, n + 1) = <<u[n + 1]>>
  <2>1. /\ SubSeq(u, n + 1, n + 1) = <<u[n + 1]>> \o SubSeq(u, (n + 1) + 1, n + 1)
    BY <1>0, <1>1, SubSeqRecursiveFirst
  <2>2. SubSeq(u, (n + 1) + 1, n + 1) = <<>>
    BY <1>1, SubSeqEmpty
  <2>3. <<u[n + 1]>> \in Seq(Names)
    BY <1>1
  <2>4. QED
    BY <2>1, <2>2, <2>3, ConcatEmptySeq
<1>4. Head(SubSeq(u, n + 1, Len(u))) = u[n + 1]
  BY <1>0, <1>1, HeadTailOfSubSeq
<1>5. QED
  BY <1>2, <1>3, <1>4 DEF Prefix

\* Whatever is on the way to an entry is a directory.
LEMMA WayIsSpaces ==
  ASSUME NEW u \in Seq(Names), NEW n \in 0..Len(u), Known(Prefix(u, n)), NEW i \in 0..n, i # n
  PROVE  Prefix(u, i) \in Spaces /\ Prefix(u, i) \notin Scripts
<1>1. Len(Prefix(u, n)) = n /\ n \in Nat
  BY PrefixFacts
<1>2. i \in 0..(Len(Prefix(u, n)) - 1)
  BY <1>1
<1>3. SubSeq(Prefix(u, n), 1, i) \in Spaces
  BY <1>2, TreeAssumption DEF Known
<1>4. QED
  BY <1>3, PrefixPrefix, TreeAssumption

\* A URL whose beginning is a script stands for that script.
LEMMA MeantScript ==
  ASSUME NEW u \in Seq(Names), NEW n \in 0..Len(u), Prefix(u, n) \in Scripts
  PROVE  Meant(u) = Prefix(u, n)
<1> DEFINE Is(m) == Prefix(u, m) \in Scripts /\ \A i \in 0 .. m - 1 : Prefix(u, i) \notin Scripts
           w == CHOOSE m \in 0 .. Len(u) : Is(m)
<1>0. Len(u) \in Nat /\ n \in Nat /\ Known(Prefix(u, n))
  BY DEF Known
<1>1. \A i \in 0..n : i # n => Prefix(u, i) \in Spaces /\ Prefix(u, i) \notin Scripts
  BY <1>0, WayIsSpaces
<1>2. \A i \in 0..n : Known(Prefix(u, i))
  BY <1>0, <1>1 DEF Known
<1>3. Is(n)
  BY <1>0, <1>1
<1>4. w \in 0..Len(u) /\ Is(w)
  BY <1>3
<1>5. \A m \in 0..Len(u) : Is(m) => m = n
  <2>1. ASSUME NEW m \in 0..Len(u), Is(m), m < n PROVE FALSE
    BY <1>1, <2>1
  <2>2. ASSUME NEW m \in 0..Len(u), Is(m), n < m PROVE FALSE
    BY <1>0, <2>2
  <2>3. QED
    BY <1>0, <2>1, <2>2
<1>6. w = n
  BY <1>4, <1>5
<1>7. Meant(u) = Prefix(u, w)
  BY <1>2 DEF Meant
<1>8. QED
  BY <1>6, <1>7

\* A URL that stands for a directory, or that leaves the tree, stands for itself.
LEMMA MeantItself ==
  ASSUME NEW u \in Seq(Names), NEW n \in 0..Len(u),
         \/ n = Len(u) /\ Prefix(u, n) \in Spaces
         \/ ~Known(Prefix(u, n)) /\ n > 0 /\ Prefix(u, n - 1) \in Spaces
  PROVE  /\ Meant(u) = u
         /\ ~Known(Prefix(u, n)) => ~Known(u)
<1>0. Len(u) \in Nat /\ n \in Nat /\ Prefix(u, Len(u)) = u /\ Len(u) \in 0..Len(u)
  BY PrefixFacts
<1>1. ASSUME NEW m \in 0..Len(u), Prefix(u, m) \in Scripts, \A i \in 0..m : Known(Prefix(u, i))
      PROVE  FALSE
  <2>1. CASE n = Len(u) /\ Prefix(u, n) \in Spaces
    <3>1. CASE m = n
      BY <1>1, <2>1, <3>1, TreeAssumption
    <3>2. CASE m # n
      <4>1. m \in 0..n
        BY <1>0, <2>1
      <4>2. QED
        BY <1>1, <2>1, <3>2, <4>1, WayIsSpaces DEF Known
    <3>3. QED
      BY <3>1, <3>2
  <2>2. CASE ~Known(Prefix(u, n)) /\ n > 0 /\ Prefix(u, n - 1) \in Spaces
    <3>1. m < n
      BY <1>0, <1>1, <2>2
    <3>2. n - 1 \in 0..Len(u) /\ m \in 0..(n - 1)
      BY <1>0, <2>2, <3>1
    <3>3. CASE m = n - 1
      BY <1>1, <2>2, <3>3, TreeAssumption
    <3>4. CASE m # n - 1
      BY <1>1, <2>2, <3>2, <3>4, WayIsSpaces DEF Known
    <3>5. QED
      BY <3>3, <3>4
  <2>3. QED
    BY <2>1, <2>2
<1>2. Meant(u) = u
  BY <1>1 DEF Meant
<1>3. ASSUME ~Known(Prefix(u, n)), Known(u) PROVE FALSE
  <2>1. n \in 0..Len(u) /\ n # Len(u) /\ Known(Prefix(u, Len(u)))
    BY <1>0, <1>3
  <2>2. QED
    BY <1>0, <1>3, <2>1, WayIsSpaces DEF Known
<1>4. QED
  BY <1>2, <1>3

-----------------------------------------------------------------------------
(***************************************************************************)
(* A lookup that nobody disturbs.  The walk, the choice and the arguments  *)
(* follow the URL of the request, and the pointer of strtok is where the   *)
(* thread left it.                                                         *)
(***************************************************************************)
OnTheWay(k) == Len(k.path) <= Len(k.req.url) /\ k.path = Prefix(k.req.url, Len(k.path))

\* offset_arg is behind the path.
Measured(k) == k.offset = Start(k.req.url, Len(k.path) + 1)

Walking(k) == OnTheWay(k) /\ k.path \in Spaces /\ Measured(k) /\ k.args = None

Decidable(k) ==
  /\ OnTheWay(k) /\ k.args = None
  /\ \/ Known(k.path) /\ Measured(k) /\ (k.path \in Spaces => k.path = k.req.url)
     \/ ~Known(k.path) /\ Len(k.path) > 0 /\ Prefix(k.req.url, Len(k.path) - 1) \in Spaces

ScriptChosen(k) ==
  /\ OnTheWay(k) /\ k.path \in Scripts
  /\ k.chosen.kind = "script" /\ k.chosen.url = k.path /\ k.chosen.method = k.req.method

Arguing(k) ==
  /\ ScriptChosen(k) /\ k.args \in Seq(Names)
  /\ Len(k.path) + Len(k.args) <= Len(k.req.url)
  /\ k.path \o k.args = Prefix(k.req.url, Len(k.path) + Len(k.args))

Dropping(k) == ScriptChosen(k) /\ k.req.method \notin {"get", "delete"}

\* What RunsWhatWasAsked asks of one connection.
Right(k) ==
  /\ k.chosen.method = k.req.method
  /\ Known(Meant(k.req.url)) /\ k.req.method \in Handled => k.chosen.url = Entry(Meant(k.req.url)).url
  /\ k.chosen.kind = "page" => k.chosen.url = k.req.url
  /\ Meant(k.req.url) \in Scripts /\ k.req.method \in {"get", "delete"} => Meant(k.req.url) \o k.args = k.req.url

Plain(k) == ~k.mixed /\ ~k.garbled /\ Gapless(k.req.url)

Followed(k) ==
  Plain(k) =>
    /\ k.at = "walk" => Walking(k)
    /\ k.at \in {"spill", "decided"} => Decidable(k)
    /\ k.at = "args" => Arguing(k)
    /\ k.at = "lastarg" => Dropping(k)
    /\ k.at \in Decoded => Right(k)

\* The pointer of strtok, behind the components that were taken.
Held(c, k, pointer) ==
  k.at \in {"walk", "args"} /\ Plain(k) =>
    pointer.owner = c /\ pointer.pos = Len(k.path) + Len(k.args) + 1

Following == \A c \in Conns : Followed(conn[c]) /\ Held(c, conn[c], tok)

\* What strtok returns behind n components of u.
Token(u, n) == SubSeq(u, n + 1, Least(n + 1, Len(u)))

\* A script file is its own entry.
LEMMA EntryScript ==
  ASSUME NEW p \in Scripts
  PROVE  Entry(p).url = p /\ Entry(p).kind = "script" /\ p \notin Spaces /\ Known(p)
<1>1. p \notin Spaces /\ Known(p)
  BY TreeAssumption DEF Known
<1>2. Entry(p) = [kind |-> "script", url |-> p]
  BY <1>1 DEF Entry
<1>3. QED
  BY <1>1, <1>2

\* A sequence of one is not empty; three in a row, and how long they are.
LEMMA OneIsSome == \A x : <<x>> # <<>>
OBVIOUS

\* One more component moves from the rest of a URL to the arguments.
LEMMA ThreeInARow ==
  ASSUME NEW p \in Seq(Names), NEW s \in Seq(Names), NEW t \in Seq(Names), NEW u \in Seq(Names),
         Len(t) = 1, Len(p) + Len(s) < Len(u)
  PROVE  /\ (p \o s) \o t = p \o (s \o t)
         /\ Len(p) + Len(s \o t) = (Len(p) + Len(s)) + 1
         /\ (Len(p) + Len(s)) + 1 <= Len(u)
<1>1. (p \o s) \o t = p \o (s \o t)
  BY ConcatAssociative
<1>2. Len(s \o t) = Len(s) + Len(t)
  BY ConcatProperties
<1>3. Len(p) \in Nat /\ Len(s) \in Nat /\ Len(u) \in Nat
  OBVIOUS
<1>4. \A x, y \in Nat : x + (y + 1) = (x + y) + 1
  OBVIOUS
<1>5. Len(p) + Len(s \o t) = (Len(p) + Len(s)) + 1
  <2>1. Len(s \o t) = Len(s) + 1
    BY <1>2, Zenon
  <2>2. Len(p) + (Len(s) + 1) = (Len(p) + Len(s)) + 1
    BY <1>3, <1>4, Zenon
  <2>3. QED
    BY <2>1, <2>2, Zenon
<1>6. \A x, y, z \in Nat : x + y < z => (x + y) + 1 <= z
  OBVIOUS
<1>7. (Len(p) + Len(s)) + 1 <= Len(u)
  BY <1>3, <1>6, Zenon
<1>8. QED
  BY <1>1, <1>5, <1>7

\* strtok behind n components of a URL: the next component, or nothing at the end.
LEMMA NextToken ==
  ASSUME NEW u \in Seq(Names), NEW n \in 0..Len(u)
  PROVE  /\ n < Len(u) => /\ Token(u, n) # None /\ Token(u, n) \in Seq(Names) /\ Len(Token(u, n)) = 1
                          /\ Prefix(u, n) \o Token(u, n) = Prefix(u, n + 1)
         /\ n = Len(u) => Token(u, n) = None
<1> PICK t : t = Token(u, n)
  OBVIOUS
<1>0. Len(u) \in Nat /\ n \in Nat
  OBVIOUS
<1>1. ASSUME n < Len(u) PROVE t # None /\ t \in Seq(Names) /\ Len(t) = 1 /\ Prefix(u, n) \o t = Prefix(u, n + 1)
  <2>1. Least(n + 1, Len(u)) = n + 1
    BY <1>0, <1>1 DEF Least
  <2>2. t = SubSeq(u, n + 1, n + 1)
    BY <2>1 DEF Token
  <2>3. t = <<u[n + 1]>> /\ Prefix(u, n) \o t = Prefix(u, n + 1)
    BY <1>0, <1>1, <2>2, PrefixNext
  <2>4. u[n + 1] \in Names
    BY <1>0, <1>1
  <2>5. <<u[n + 1]>> \in Seq(Names) /\ Len(<<u[n + 1]>>) = 1
    BY <2>4
  <2>6. t \in Seq(Names) /\ Len(t) = 1
    BY <2>3, <2>5
  <2>7. t # <<>>
    BY <2>3, OneIsSome
  <2>8. QED
    BY <2>3, <2>6, <2>7 DEF None
<1>2. ASSUME n = Len(u) PROVE t = None
  <2>1. Least(n + 1, Len(u)) = n
    BY <1>0, <1>2 DEF Least
  <2>2. t = SubSeq(u, n + 1, n)
    BY <2>1 DEF Token
  <2>3. QED
    BY <1>0, <2>2, SubSeqEmpty DEF None
<1>3. QED
  BY <1>1, <1>2

\* In a URL without slashes in a row, strtok finds each component in its turn.
LEMMA PlainToken ==
  ASSUME NEW u \in Seq(Names), Gapless(u), NEW n \in 0..Len(u), NEW q, q = n + 1
  PROVE  TokenAt(u, q) = Token(u, n) /\ (n < Len(u) => After(u, q) = q + 1)
<1>0. Len(u) \in Nat /\ n \in Nat /\ q \in Nat
  OBVIOUS
<1>1. PICK S : S = {i \in q .. Len(u) : u[i] # Gap}
  OBVIOUS
<1>2. S = q .. Len(u) /\ S \subseteq Nat
  BY <1>0, <1>1 DEF Gapless
<1>3. Ahead(u, q) = First(S)
  BY <1>1 DEF Ahead
<1>4. CASE n < Len(u)
  <2>1. q \in First(S)
    BY <1>0, <1>2, <1>4 DEF First
  <2>2. First(S) = {q} /\ (CHOOSE j \in First(S) : TRUE) = q
    BY <1>2, <2>1, FirstFacts
  <2>3. Ahead(u, q) # {} /\ (CHOOSE j \in Ahead(u, q) : TRUE) = q
    BY <1>3, <2>1, <2>2, Zenon
  <2>4. TokenAt(u, q) = <<u[q]>> /\ After(u, q) = q + 1
    BY <2>3 DEF TokenAt, After
  <2>5. SubSeq(u, n + 1, n + 1) = <<u[n + 1]>>
    BY <1>0, <1>4, PrefixNext
  <2>6. Least(n + 1, Len(u)) = n + 1
    BY <1>0, <1>4 DEF Least
  <2>7. Token(u, n) = <<u[q]>>
    BY <2>5, <2>6, Zenon DEF Token
  <2>8. QED
    BY <2>4, <2>7, Zenon
<1>5. CASE n = Len(u)
  <2>1. First(S) = {}
    BY <1>0, <1>2, <1>5 DEF First
  <2>2. TokenAt(u, q) = None
    BY <1>3, <2>1 DEF TokenAt
  <2>3. Token(u, n) = None
    BY <1>5, NextToken
  <2>4. QED
    BY <1>0, <1>5, <2>2, <2>3
<1>6. QED
  BY <1>0, <1>4, <1>5

\* In such a URL the bytes behind n components are those of the next one.
LEMMA PlainBytes ==
  ASSUME NEW r \in Requests, NEW u, u = r.url, Gapless(u), NEW n \in 0..Len(u), NEW b, b = Start(u, n + 1)
  PROVE  /\ n < Len(u) => Behind(u, b) = {n + 1} /\ NameFrom(u, n + 1, b) = u[n + 1]
         /\ n = Len(u) => Behind(u, b) = {}
<1>0. u \in Seq(Names) /\ Len(u) \in Nat /\ n \in Nat /\ n + 1 \in 1 .. Len(u) + 1
  BY RequestsAssumption
<1>1. \A i, j \in 1 .. Len(u) + 1 : Start(u, i) \in Nat /\ (i < j => Start(u, i) < Start(u, j))
  BY BytesAssumption
<1>2. \A i \in 1 .. Len(u) : Size(u[i]) \in Nat /\ Start(u, i + 1) = Start(u, i) + Size(u[i]) + 1
  BY <1>0, BytesAssumption
<1>3. ASSUME NEW i \in 1 .. Len(u) PROVE Start(u, i) + Size(u[i]) >= b <=> i >= n + 1
  <2>1. i \in 1 .. Len(u) + 1 /\ i + 1 \in 1 .. Len(u) + 1
    BY <1>0
  <2>2. /\ Start(u, i) \in Nat /\ Start(u, i + 1) \in Nat /\ b \in Nat /\ Size(u[i]) \in Nat
        /\ Start(u, i + 1) = Start(u, i) + Size(u[i]) + 1
    BY <1>0, <1>1, <1>2, <2>1
  <2>3. i < n + 1 => i + 1 = n + 1 \/ i + 1 < n + 1
    BY <1>0
  <2>4. i < n + 1 => Start(u, i + 1) <= b
    BY <1>0, <1>1, <2>1, <2>2, <2>3
  <2>5. i >= n + 1 => i = n + 1 \/ n + 1 < i
    BY <1>0
  <2>6. i >= n + 1 => Start(u, i) >= b
    BY <1>0, <1>1, <2>1, <2>2, <2>5
  <2>7. i < n + 1 \/ i >= n + 1
    BY <1>0
  <2>8. CASE i < n + 1
    BY <1>0, <2>2, <2>4, <2>8
  <2>9. CASE i >= n + 1
    BY <2>2, <2>6, <2>9
  <2>10. QED
    BY <2>7, <2>8, <2>9
<1>4. PICK S : S = {i \in 1 .. Len(u) : u[i] # Gap /\ Start(u, i) + Size(u[i]) >= b}
  OBVIOUS
<1>5. S \subseteq Nat /\ \A i : i \in S <=> i \in 1 .. Len(u) /\ i >= n + 1
  BY <1>3, <1>4 DEF Gapless
<1>6. Behind(u, b) = First(S)
  BY <1>4 DEF Behind
<1>7. ASSUME n < Len(u) PROVE Behind(u, b) = {n + 1} /\ NameFrom(u, n + 1, b) = u[n + 1]
  <2>1. n + 1 \in S /\ \A j \in S : n + 1 <= j
    BY <1>0, <1>5, <1>7
  <2>2. First(S) = {n + 1}
    BY <1>5, <2>1, FirstFacts DEF First
  <2>3. b \in Nat /\ b + 1 >= b
    BY <1>0, <1>1
  <2>4. QED
    BY <1>6, <2>2, <2>3 DEF NameFrom
<1>8. ASSUME n = Len(u) PROVE Behind(u, b) = {}
  <2>1. S = {}
    BY <1>0, <1>5, <1>8
  <2>2. QED
    BY <1>6, <2>1 DEF First
<1>9. QED
  BY <1>7, <1>8

\* A script on the way, with the rest of the URL for arguments or without, is what was asked.
LEMMA ScriptRight ==
  ASSUME NEW k \in Connection, ScriptChosen(k),
         k.req.method \in {"get", "delete"} => k.path \o k.args = k.req.url
  PROVE  Right(k)
<1>1. k.req.url \in Seq(Names) /\ Len(k.req.url) \in Nat /\ Len(k.path) \in Nat
  BY RequestsAssumption DEF Connection
<1>2. Len(k.path) \in 0..Len(k.req.url)
  BY <1>1 DEF ScriptChosen, OnTheWay
<1>3. Meant(k.req.url) = k.path
  BY <1>1, <1>2, MeantScript DEF ScriptChosen, OnTheWay
<1>4. Entry(k.path).url = k.path
  BY EntryScript DEF ScriptChosen
<1>5. QED
  BY <1>3, <1>4 DEF Right, ScriptChosen

\* One more component of the walk.
LEMMA WalkedFollows ==
  ASSUME NEW c, NEW u, NEW n, NEW t, NEW m,
         conn[c] \in Connection, Walking(conn[c]), u = conn[c].req.url, n = Len(conn[c].path),
         t = Token(u, n), m = Walked(c, t)
  PROVE  /\ m.at = "walk" => Walking(m) /\ t # None /\ Len(m.path) = n + 1
         /\ m.at \in {"spill", "decided"} => Decidable(m)
<1>1. /\ u \in Seq(Names) /\ Len(u) \in Nat /\ n \in Nat /\ n \in 0..Len(u)
      /\ conn[c].path = Prefix(u, n) /\ Prefix(u, n) \in Spaces /\ conn[c].args = None
  BY RequestsAssumption DEF Connection, Walking, OnTheWay
<1>0. conn[c].offset = Start(u, n + 1)
  BY Zenon DEF Walking, Measured
<1>2. PICK p : p = Prefix(u, n) \o t
  OBVIOUS
<1>3. PICK d : d = IF t # None /\ Known(p) THEN conn[c].offset + Size(t[1]) + 1 ELSE conn[c].offset
  OBVIOUS
<1>4. PICK a : a = CASE t # None /\ ~Known(p) -> "spill" [] t = None \/ Stops(p) -> "decided" [] OTHER -> "walk"
  OBVIOUS
<1>5. m = [conn[c] EXCEPT !.path = p, !.offset = d, !.at = a]
  BY <1>1, <1>2, <1>3, <1>4 DEF Walked
<1>6. m.path = p /\ m.offset = d /\ m.at = a /\ m.req = conn[c].req /\ m.args = None /\ m.req.url = u
  BY <1>1, <1>5 DEF Connection
<1>7. CASE n < Len(u)
  <2>1. t # None /\ p = Prefix(u, n + 1)
    BY <1>1, <1>2, <1>7, NextToken
  <2>2. n + 1 \in 0..Len(u) /\ n + 1 \in Nat /\ (n + 1) - 1 = n /\ n + 1 \in 1..Len(u)
    BY <1>1, <1>7
  <2>3. Len(p) = n + 1
    BY <1>1, <2>1, <2>2, PrefixFacts
  <2>4. OnTheWay(m)
    BY <1>6, <2>1, <2>2, <2>3 DEF OnTheWay
  <2>5. Known(p) => Measured(m)
    <3>1. SubSeq(u, n + 1, n + 1) = <<u[n + 1]>>
      BY <1>1, <1>7, PrefixNext
    <3>2. Least(n + 1, Len(u)) = n + 1
      BY <1>1, <1>7 DEF Least
    <3>3. t = <<u[n + 1]>>
      BY <3>1, <3>2, Zenon DEF Token
    <3>4. t[1] = u[n + 1]
      BY <3>3
    <3>5. conn[c].req \in Requests
      BY DEF Connection
    <3>6. Start(u, (n + 1) + 1) = Start(u, n + 1) + Size(u[n + 1]) + 1
      BY <2>2, <3>5, BytesAssumption
    <3>7. Known(p) => d = Start(u, (n + 1) + 1)
      BY <1>0, <1>3, <2>1, <3>4, <3>6, Zenon
    <3>8. QED
      BY <1>6, <2>3, <3>7, Zenon DEF Measured
  <2>6. a = "walk" => p \in Spaces
    BY <1>4, <2>1 DEF Stops, Known
  <2>7. m.at = "walk" => Walking(m) /\ t # None /\ Len(m.path) = n + 1
    BY <1>6, <2>1, <2>3, <2>4, <2>5, <2>6 DEF Walking, Known
  <2>8. CASE p \in Scripts
    <3>1. Known(p) /\ p \notin Spaces
      BY <2>8, EntryScript
    <3>2. Decidable(m)
      BY <1>6, <2>4, <2>5, <3>1 DEF Decidable
    <3>3. QED
      BY <2>7, <3>2
  <2>9. CASE ~Known(p)
    <3>1. Prefix(u, Len(m.path) - 1) \in Spaces /\ Len(m.path) > 0
      BY <1>1, <1>6, <2>2, <2>3
    <3>2. Decidable(m)
      BY <1>6, <2>4, <2>9, <3>1 DEF Decidable
    <3>3. QED
      BY <2>7, <3>2
  <2>10. CASE Known(p) /\ ~Stops(p)
    <3>1. a = "walk"
      BY <1>4, <2>1, <2>10
    <3>2. QED
      BY <1>6, <2>7, <3>1
  <2>11. QED
    BY <2>8, <2>9, <2>10 DEF Stops
<1>8. CASE n = Len(u)
  <2>1. t = <<>> /\ t = None
    BY <1>1, <1>8, NextToken DEF None
  <2>2. Prefix(u, n) = u
    BY <1>1, <1>8, PrefixFacts
  <2>3. p = u
    BY <1>1, <1>2, <2>1, <2>2, ConcatEmptySeq
  <2>4. a = "decided" /\ Known(p)
    BY <1>1, <1>4, <2>1, <2>2, <2>3 DEF Known
  <2>5. d = Start(u, n + 1)
    BY <1>0, <1>3, <2>1
  <2>6. OnTheWay(m) /\ Measured(m)
    BY <1>1, <1>6, <1>8, <2>2, <2>3, <2>5 DEF OnTheWay, Measured
  <2>7. Decidable(m)
    BY <1>6, <1>8, <2>3, <2>4, <2>6 DEF Decidable
  <2>8. QED
    BY <1>6, <2>4, <2>7
<1>9. QED
  BY <1>1, <1>7, <1>8

\* The first n components of u are the path p and the arguments s; what strtok adds to them.
Split(u, p, s, n) ==
  /\ u \in Seq(Names) /\ p \in Seq(Names) /\ s \in Seq(Names) /\ n \in Nat
  /\ n = Len(p) + Len(s) /\ n <= Len(u) /\ p \o s = Prefix(u, n)
Grown(u, p, s, n) ==
  /\ n < Len(u) => /\ Token(u, n) # None /\ Len(p) + Len(s \o Token(u, n)) = n + 1 /\ n + 1 <= Len(u)
                   /\ p \o (s \o Token(u, n)) = Prefix(u, n + 1)
  /\ n = Len(u) => Token(u, n) = None /\ s \o Token(u, n) = s /\ p \o s = u

\* The next token is the component behind the path and the arguments so far.
LEMMA NextArgumentToken ==
  ASSUME NEW u, NEW p, NEW s, NEW n, Split(u, p, s, n)
  PROVE  Grown(u, p, s, n)
<1> PICK t : t = Token(u, n)
  OBVIOUS
<1>0. /\ u \in Seq(Names) /\ p \in Seq(Names) /\ s \in Seq(Names) /\ n \in Nat
      /\ n = Len(p) + Len(s) /\ n <= Len(u) /\ p \o s = Prefix(u, n)
  BY DEF Split
<1>1. Len(u) \in Nat /\ Len(p) \in Nat /\ Len(s) \in Nat /\ n \in 0..Len(u)
  BY <1>0
<1>2. /\ n < Len(u) => /\ t # None /\ t \in Seq(Names) /\ Len(t) = 1
                       /\ Prefix(u, n) \o t = Prefix(u, n + 1)
      /\ n = Len(u) => t = None
  BY <1>0, <1>1, NextToken
<1>3. ASSUME n < Len(u)
      PROVE  t # None /\ Len(p) + Len(s \o t) = n + 1 /\ n + 1 <= Len(u) /\ p \o (s \o t) = Prefix(u, n + 1)
  <2>1. t # None /\ t \in Seq(Names) /\ Len(t) = 1 /\ (p \o s) \o t = Prefix(u, n + 1)
    BY <1>0, <1>2, <1>3
  <2>2. (p \o s) \o t = p \o (s \o t) /\ Len(p) + Len(s \o t) = n + 1 /\ n + 1 <= Len(u)
    <3>1. Len(p) + Len(s) < Len(u)
      BY <1>0, <1>3, Zenon
    <3>2. /\ (p \o s) \o t = p \o (s \o t)
          /\ Len(p) + Len(s \o t) = (Len(p) + Len(s)) + 1
          /\ (Len(p) + Len(s)) + 1 <= Len(u)
      BY <1>0, <2>1, <3>1, ThreeInARow, ZenonT(60)
    <3>3. QED
      BY <1>0, <3>2, Zenon
  <2>3. QED
    BY <2>1, <2>2
<1>4. ASSUME n = Len(u) PROVE t = None /\ s \o t = s /\ p \o s = u
  <2>1. t = <<>>
    BY <1>2, <1>4 DEF None
  <2>2. s \o t = s
    BY <1>0, <2>1, ConcatEmptySeq
  <2>3. p \o s = u
    BY <1>0, <1>1, <1>4, PrefixFacts
  <2>4. QED
    BY <2>1, <2>2, <2>3 DEF None
<1>5. QED
  BY <1>3, <1>4 DEF Grown

\* One more argument, or the end of them.
LEMMA ArgumentFollows ==
  ASSUME NEW k \in Connection, NEW t, Arguing(k),
         t = Token(k.req.url, Len(k.path) + Len(k.args))
  PROVE  \E m : /\ m = [k EXCEPT !.args = k.args \o t, !.at = IF t = None THEN "run" ELSE "args"]
                /\ m.at \in {"run", "args"}
                /\ m.at = "args" => /\ Arguing(m) /\ t # None
                                    /\ Len(m.path) + Len(m.args) = Len(k.path) + Len(k.args) + 1
                /\ m.at = "run" => Right(m)
<1>1. PICK u : u = k.req.url
  OBVIOUS
<1>2. PICK n : n = Len(k.path) + Len(k.args)
  OBVIOUS
<1>3. /\ u \in Seq(Names) /\ Len(u) \in Nat /\ k.path \in Seq(Names) /\ k.args \in Seq(Names)
  BY <1>1, RequestsAssumption DEF Connection, Arguing
<1>a. Len(k.path) \in Nat /\ Len(k.args) \in Nat
  BY <1>3
<1>b. n \in Nat
  <2>1. \A x, y \in Nat : x + y \in Nat
    OBVIOUS
  <2>2. QED
    BY <1>2, <1>a, <2>1, Zenon
<1>c. n <= Len(u) /\ k.path \o k.args = Prefix(u, n)
  BY <1>1, <1>2, Zenon DEF Arguing
<1>d. n < Len(u) \/ n = Len(u)
  BY <1>3, <1>b, <1>c
<1>5. PICK g : g = k.args \o t
  OBVIOUS
<1>6. PICK a : a = IF t = None THEN "run" ELSE "args"
  OBVIOUS
<1>7. PICK m : m = [k EXCEPT !.args = g, !.at = a]
  OBVIOUS
<1>8. m.args = g /\ m.at = a /\ m.path = k.path /\ m.req = k.req /\ m.chosen = k.chosen /\ m.req.url = u
  BY <1>1, <1>7 DEF Connection
<1>9. ScriptChosen(m)
  BY <1>8 DEF Arguing, ScriptChosen, OnTheWay
<1>10. t = Token(u, n)
  BY <1>1, <1>2
<1>11. /\ n < Len(u) => /\ t # None /\ Len(k.path) + Len(g) = n + 1 /\ n + 1 <= Len(u)
                        /\ k.path \o g = Prefix(u, n + 1)
       /\ n = Len(u) => t = None /\ g = k.args /\ k.path \o k.args = u
  <2>1. /\ n < Len(u) => /\ Token(u, n) # None /\ Len(k.path) + Len(k.args \o Token(u, n)) = n + 1 /\ n + 1 <= Len(u)
                         /\ k.path \o (k.args \o Token(u, n)) = Prefix(u, n + 1)
        /\ n = Len(u) => Token(u, n) = None /\ k.args \o Token(u, n) = k.args /\ k.path \o k.args = u
    <3>1. Split(u, k.path, k.args, n)
      BY <1>2, <1>3, <1>b, <1>c, Zenon DEF Split
    <3>2. Grown(u, k.path, k.args, n)
      BY <3>1, NextArgumentToken
    <3>3. QED
      BY <3>2 DEF Grown
  <2>2. QED
    BY <1>5, <1>10, <2>1, Zenon
<1>12. CASE n < Len(u)
  <2>0. g \in Seq(Names)
    <3>0. n \in 0 .. Len(u)
      BY <1>3, <1>b, <1>c
    <3>1. t \in Seq(Names)
      BY <1>3, <1>10, <1>12, <3>0, NextToken
    <3>2. k.args \o t \in Seq(Names)
      BY <1>3, <3>1, ConcatProperties
    <3>3. QED
      BY <1>5, <3>2, Zenon
  <2>1. Arguing(m) /\ Len(m.path) + Len(m.args) = n + 1
    BY <1>8, <1>9, <1>11, <1>12, <2>0 DEF Arguing
  <2>2. m.at = "args" /\ t # None
    BY <1>6, <1>8, <1>11, <1>12
  <2>3. QED
    BY <1>2, <1>5, <1>6, <1>7, <2>1, <2>2
<1>13. CASE n = Len(u)
  <2>1. m.at = "run" /\ m.path \o m.args = m.req.url
    BY <1>6, <1>8, <1>11, <1>13
  <2>2. m \in Connection
    <3>1. g \in Seq(Words) /\ a \in Places
      BY <1>3, <1>6, <1>11, <1>13, WordNames DEF Places
    <3>2. QED
      BY <1>7, <3>1 DEF Connection
  <2>3. Right(m)
    BY <1>9, <2>1, <2>2, ScriptRight
  <2>4. QED
    BY <1>5, <1>6, <1>7, <2>1, <2>3
<1>14. QED
  BY <1>d, <1>12, <1>13

\* Followed and Held see only the lookup of a connection.
Alike(k, m) ==
  /\ m.mixed = k.mixed /\ m.garbled = k.garbled /\ m.req = k.req /\ m.path = k.path
  /\ m.offset = k.offset /\ m.args = k.args /\ m.chosen = k.chosen

\* The invariant speaks only of the fields in which k and m agree.
LEMMA AlikeFollows ==
  ASSUME NEW k, NEW m, Alike(k, m)
  PROVE  /\ OnTheWay(k) <=> OnTheWay(m)
         /\ Walking(k) <=> Walking(m)
         /\ Decidable(k) <=> Decidable(m)
         /\ ScriptChosen(k) <=> ScriptChosen(m)
         /\ Arguing(k) <=> Arguing(m)
         /\ Dropping(k) <=> Dropping(m)
         /\ Right(k) <=> Right(m)
<1>1. OnTheWay(k) <=> OnTheWay(m)
  BY Zenon DEF Alike, OnTheWay
<1>2. ScriptChosen(k) <=> ScriptChosen(m)
  BY <1>1, Zenon DEF Alike, ScriptChosen
<1>a. Measured(k) <=> Measured(m)
  BY Zenon DEF Alike, Measured
<1>3. Walking(k) <=> Walking(m)
  BY <1>1, <1>a, Zenon DEF Alike, Walking
<1>4. Decidable(k) <=> Decidable(m)
  BY <1>1, <1>a, Zenon DEF Alike, Decidable
<1>5. Arguing(k) <=> Arguing(m)
  BY <1>2, Zenon DEF Alike, Arguing
<1>6. Dropping(k) <=> Dropping(m)
  BY <1>2, Zenon DEF Alike, Dropping
<1>7. Right(k) <=> Right(m)
  BY Zenon DEF Alike, Right
<1>8. QED
  BY <1>1, <1>2, <1>3, <1>4, <1>5, <1>6, <1>7

\* The same lookup at the same place.
LEMMA SameFollows ==
  ASSUME NEW c, NEW k, NEW m, NEW pointer, Alike(k, m), m.at = k.at, Followed(k), Held(c, k, pointer)
  PROVE  Followed(m) /\ Held(c, m, pointer)
<1>1. Followed(m)
  BY AlikeFollows DEF Plain, Followed, Alike
<1>2. Held(c, m, pointer)
  BY Zenon DEF Plain, Held, Alike
<1>3. QED
  BY <1>1, <1>2

\* A place outside the lookup asks nothing.
LEMMA ElsewhereFollows ==
  ASSUME NEW c, NEW m, NEW pointer, m.at \notin Busy \cup {"send"}
  PROVE  Followed(m) /\ Held(c, m, pointer)
BY DEF Plain, Followed, Held, Busy, Decoded

\* To be mixed asks less.
LEMMA FlagFollows ==
  ASSUME NEW c, NEW k \in Connection, NEW b \in BOOLEAN, NEW pointer, k.mixed => b, Followed(k), Held(c, k, pointer)
  PROVE  Followed([k EXCEPT !.mixed = b]) /\ Held(c, [k EXCEPT !.mixed = b], pointer)
<1>1. PICK m : m = [k EXCEPT !.mixed = b]
  OBVIOUS
<1>2. /\ m.mixed = b /\ m.garbled = k.garbled /\ m.req = k.req /\ m.path = k.path
      /\ m.offset = k.offset /\ m.args = k.args /\ m.chosen = k.chosen /\ m.at = k.at
  BY <1>1 DEF Connection
<1>3. CASE b
  BY <1>1, <1>2, <1>3 DEF Plain, Followed, Held
<1>4. CASE ~b
  <2>1. k.mixed \in BOOLEAN
    BY DEF Connection
  <2>2. m.mixed = k.mixed
    BY <1>2, <1>4, <2>1
  <2>3. Alike(k, m)
    BY <1>2, <2>2 DEF Alike
  <2>4. QED
    BY <1>1, <1>2, <2>3, SameFollows
<1>5. QED
  BY <1>3, <1>4

\* A step that changes one connection and leaves the tokens alone.
LEMMA BecomesFollows ==
  ASSUME Sound, Following, NEW c \in Conns, NEW rec, Becomes(c, rec), UNCHANGED tok,
         Followed(rec), Held(c, rec, tok)
  PROVE  Following'
<1>1. conn'[c] = rec /\ \A d \in Conns : d # c => conn'[d] = conn[d]
  BY DEF Sound, Becomes
<1>2. ASSUME NEW d \in Conns PROVE Followed(conn'[d]) /\ Held(d, conn'[d], tok')
  BY <1>1 DEF Following
<1>3. QED
  BY <1>2 DEF Following

\* A step that takes a token: whoever is in the middle of its tokens is mixed from now on.
LEMMA MixingFollows ==
  ASSUME Sound, Following, NEW c \in Conns, NEW rec \in Connection, Mixing(c, rec),
         Followed(rec), Held(c, rec, tok')
  PROVE  Following'
<1>0. conn \in [Conns -> Connection]
  BY DEF Sound
<1>1. PICK b \in BOOLEAN : conn'[c] = [rec EXCEPT !.mixed = b] /\ (rec.mixed => b)
  BY <1>0, MixingEffect
<1>2. Followed(conn'[c]) /\ Held(c, conn'[c], tok')
  BY <1>1, FlagFollows
<1>3. ASSUME NEW d \in Conns, d # c PROVE Followed(conn'[d]) /\ Held(d, conn'[d], tok')
  <2>1. conn'[d] = IF conn[d].at \in Busy THEN [conn[d] EXCEPT !.mixed = TRUE] ELSE conn[d]
    BY <1>0, <1>3, MixingEffect
  <2>2. CASE conn[d].at \in Busy
    <3>1. conn'[d].mixed = TRUE
      BY <1>0, <2>1, <2>2 DEF Connection
    <3>2. QED
      BY <3>1 DEF Plain, Followed, Held
  <2>3. CASE conn[d].at \notin Busy
    <3>1. conn'[d] = conn[d] /\ Followed(conn[d])
      BY <2>1, <2>3 DEF Following
    <3>2. Held(d, conn[d], tok')
      BY <2>3 DEF Plain, Held, Busy
    <3>3. QED
      BY <3>1, <3>2
  <2>4. QED
    BY <2>2, <2>3
<1>4. \A d \in Conns : Followed(conn'[d]) /\ Held(d, conn'[d], tok')
  BY <1>2, <1>3
<1>5. QED
  BY <1>4 DEF Following

\* The way to a decided entry ends in a script, a directory that is the whole URL, or nowhere.
LEMMA DecidedMeans ==
  ASSUME NEW k \in Connection, Decidable(k)
  PROVE  /\ k.path \in Scripts => Measured(k) /\ Meant(k.req.url) = k.path
         /\ k.path \in Spaces => k.path = k.req.url /\ Meant(k.req.url) = k.path
         /\ ~Known(k.path) => Meant(k.req.url) = k.req.url /\ ~Known(k.req.url)
<1>1. PICK u : u = k.req.url
  OBVIOUS
<1>2. PICK n : n = Len(k.path)
  OBVIOUS
<1>3. u \in Seq(Names) /\ k.path \in Seq(Names)
  BY <1>1, RequestsAssumption DEF Connection
<1>4. Len(u) \in Nat /\ n \in Nat
  BY <1>2, <1>3
<1>5. n <= Len(u) /\ k.path = Prefix(u, n)
  BY <1>1, <1>2, Zenon DEF Decidable, OnTheWay
<1>6. n \in 0..Len(u)
  BY <1>4, <1>5
<1>7. ASSUME k.path \in Scripts PROVE Measured(k) /\ Meant(u) = k.path
  <2>1. Known(k.path)
    BY <1>7, EntryScript
  <2>2. Measured(k)
    BY <2>1 DEF Decidable
  <2>3. Meant(u) = Prefix(u, n)
    BY <1>3, <1>5, <1>6, <1>7, MeantScript
  <2>4. QED
    BY <1>5, <2>2, <2>3
<1>8. ASSUME k.path \in Spaces PROVE k.path = u /\ Meant(u) = k.path
  <2>1. k.path = u
    BY <1>1, <1>8 DEF Decidable, Known
  <2>2. n = Len(u) /\ Prefix(u, n) \in Spaces
    BY <1>2, <1>5, <1>8, <2>1
  <2>3. Meant(u) = u
    BY <1>3, <1>6, <2>2, MeantItself
  <2>4. QED
    BY <2>1, <2>3
<1>9. ASSUME ~Known(k.path) PROVE Meant(u) = u /\ ~Known(u)
  <2>1. n > 0 /\ Prefix(u, n - 1) \in Spaces
    BY <1>1, <1>2, <1>9 DEF Decidable
  <2>2. ~Known(Prefix(u, n))
    BY <1>5, <1>9
  <2>3. Meant(u) = u /\ (~Known(Prefix(u, n)) => ~Known(u))
    BY <1>3, <1>6, <2>1, <2>2, MeantItself
  <2>4. QED
    BY <2>2, <2>3
<1>10. QED
  BY <1>1, <1>7, <1>8, <1>9

\* What is left of a URL behind a decided script, and the first argument of it.
LEMMA DecidedRest ==
  ASSUME NEW k \in Connection, NEW r, Decidable(k), k.path \in Scripts, Gapless(k.req.url),
         r = Behind(k.req.url, k.offset)
  PROVE  /\ r = {} => k.path \o k.args = k.req.url
         /\ \A i \in r : /\ k.path \o <<NameFrom(k.req.url, i, k.offset)>> = Prefix(k.req.url, Len(k.path) + 1)
                         /\ Len(k.path) + 1 <= Len(k.req.url) /\ i = Len(k.path) + 1
                         /\ NameFrom(k.req.url, i, k.offset) \in Names
<1>1. PICK u : u = k.req.url
  OBVIOUS
<1>2. PICK n : n = Len(k.path)
  OBVIOUS
<1>3. u \in Seq(Names) /\ k.path \in Seq(Names) /\ k.req \in Requests
  BY <1>1, RequestsAssumption DEF Connection
<1>4. Len(u) \in Nat /\ n \in Nat
  BY <1>2, <1>3
<1>5. n <= Len(u) /\ k.path = Prefix(u, n) /\ k.args = None
  BY <1>1, <1>2, Zenon DEF Decidable, OnTheWay
<1>6. n \in 0..Len(u)
  BY <1>4, <1>5
<1>a. Measured(k)
  BY DecidedMeans
<1>7. PICK b : b = k.offset
  OBVIOUS
<1>8. b = Start(u, n + 1)
  BY <1>1, <1>2, <1>7, <1>a, Zenon DEF Measured
<1>9. /\ n < Len(u) => Behind(u, b) = {n + 1} /\ NameFrom(u, n + 1, b) = u[n + 1]
      /\ n = Len(u) => Behind(u, b) = {}
  BY <1>1, <1>3, <1>6, <1>8, PlainBytes
<1>b. r = Behind(u, b)
  BY <1>1, <1>7, Zenon
<1>10. CASE n = Len(u)
  <2>1. Prefix(u, n) = u
    BY <1>3, <1>6, <1>10, PrefixFacts
  <2>2. u \o <<>> = u
    BY <1>3, ConcatEmptySeq
  <2>3. k.path \o k.args = u
    BY <1>5, <2>1, <2>2, Zenon DEF None
  <2>4. r = {}
    BY <1>9, <1>10, <1>b
  <2>5. QED
    BY <1>1, <2>3, <2>4
<1>11. CASE n < Len(u)
  <2>1. r = {n + 1} /\ NameFrom(u, n + 1, b) = u[n + 1] /\ n + 1 <= Len(u) /\ u[n + 1] \in Names
    BY <1>3, <1>4, <1>9, <1>11, <1>b
  <2>2. /\ Prefix(u, n) \o SubSeq(u, n + 1, n + 1) = Prefix(u, n + 1)
        /\ SubSeq(u, n + 1, n + 1) = <<u[n + 1]>>
    BY <1>3, <1>4, <1>11, PrefixNext
  <2>3. k.path \o <<u[n + 1]>> = Prefix(u, n + 1)
    BY <1>5, <2>2, Zenon
  <2>4. ASSUME NEW i \in r
        PROVE  /\ k.path \o <<NameFrom(u, i, b)>> = Prefix(u, n + 1)
               /\ n + 1 <= Len(u) /\ i = n + 1 /\ NameFrom(u, i, b) \in Names
    <3>1. i = n + 1
      BY <2>1, <2>4
    <3>2. QED
      BY <2>1, <2>3, <3>1, Zenon
  <2>5. r # {}
    BY <2>1
  <2>6. QED
    BY <1>1, <1>2, <1>7, <2>4, <2>5, Zenon
<1>12. QED
  BY <1>4, <1>5, <1>10, <1>11

\* Connection c has h components, and takes t for the one behind them.
Has(c, h) == h = Len(conn[c].path) + Len(conn[c].args) /\ h \in 0 .. Len(conn[c].req.url)
Takes(c, t, h) ==
  /\ t = Token(conn[c].req.url, h)
  /\ t # None => tok'.owner = c /\ tok'.pos = (h + 1) + 1

\* A thread that was not disturbed gets the component behind those it has.
LEMMA OwnToken ==
  ASSUME NEW c \in Conns, NEW n, NEW t, NEW h, Sound, Following, t \in Tokens(n), conn[c].at \in {"walk", "args"}, Plain(conn[c]), TokenTaken,
         Has(c, h)
  PROVE  Takes(c, t, h)
<1>h. h = Len(conn[c].path) + Len(conn[c].args) /\ h \in 0 .. Len(conn[c].req.url)
  BY DEF Has
<1>0. conn[c] \in Connection /\ Lined(conn[c])
  BY DEF Sound, Local
<1>1. tok.owner = c /\ tok.pos = h + 1
  BY <1>h DEF Plain, Following, Held
<1>2. Alive
  BY <1>1 DEF Alive, Busy
<1>3. PICK u : u = conn[c].req.url
  OBVIOUS
<1>4. Url(c) = u /\ Gapless(u)
  BY <1>3, <1>0 DEF Url, Plain, Lined, Asked
<1>5. u \in Seq(Names)
  BY <1>0, <1>3, RequestsAssumption DEF Connection
<1>6. t = TokenAt(u, tok.pos)
  BY <1>1, <1>2, <1>4 DEF Tokens
<1>7. PICK q : q = h + 1
  OBVIOUS
<1>8. TokenAt(u, q) = Token(u, h) /\ (h < Len(u) => After(u, q) = q + 1)
  BY <1>h, <1>3, <1>4, <1>5, <1>7, PlainToken
<1>9. t = Token(u, h)
  BY <1>1, <1>6, <1>7, <1>8, Zenon
<1>10. ASSUME t # None PROVE tok'.owner = c /\ tok'.pos = q + 1
  <2>1. h < Len(u)
    <3>1. h # Len(u)
      BY <1>h, <1>3, <1>5, <1>9, <1>10, NextToken
    <3>2. h \in 0 .. Len(u) /\ Len(u) \in Nat
      BY <1>h, <1>3, <1>5, Zenon, LenProperties
    <3>3. \A y \in Nat : \A x \in 0 .. y : x # y => x < y
      OBVIOUS
    <3>4. QED
      BY <3>1, <3>2, <3>3, Zenon
  <2>2. tok' = [tok EXCEPT !.pos = q + 1]
    BY <1>1, <1>2, <1>4, <1>7, <1>8, <2>1 DEF TokenTaken
  <2>3. QED
    BY <1>1, <2>2 DEF Sound
<1>11. QED
  BY <1>3, <1>7, <1>9, <1>10, Zenon DEF Takes

\* The record of a walk is a connection, and only its walk changes.
LEMMA WalkedFields ==
  ASSUME NEW c, NEW t, NEW m, conn[c] \in Connection, m = Walked(c, t)
  PROVE  /\ m.mixed = conn[c].mixed /\ m.garbled = conn[c].garbled /\ m.args = conn[c].args
         /\ m.req = conn[c].req /\ m.at \in {"walk", "spill", "decided"}
BY DEF Walked, Connection

\* The walk begins in the connection's own path.
LEMMA ParseFollows ==
  ASSUME Sound, Following, NEW c \in Conns, Parse(c)
  PROVE  Following'
<1>1. /\ conn[c] \in Connection /\ Local(conn[c]) /\ conn[c].at = "parse"
      /\ conn[c].path = None /\ conn[c].offset = 0 /\ conn[c].args = None /\ Lined(conn[c])
  BY DEF Sound, Local, Blank, Parse, At
<1>2. conn[c].req.url \in Seq(Names) /\ Url(c) \in Seq(Names) /\ Start(conn[c].req.url, 1) = 0
  BY <1>1, RequestsAssumption, BytesAssumption DEF Connection, Url, Line
<1>3. Prefix(conn[c].req.url, 0) = None
  <2>1. 0 \in 0..Len(conn[c].req.url)
    BY <1>2
  <2>2. Prefix(conn[c].req.url, 0) \in Seq(Names) /\ Len(Prefix(conn[c].req.url, 0)) = 0
    BY <1>2, <2>1, PrefixFacts
  <2>3. QED
    BY <2>2, EmptySeq DEF None
<1>4. Len(None) = 0 /\ None \in Spaces /\ 0 <= Len(conn[c].req.url)
  BY <1>2, TreeAssumption DEF None
<1>a. Measured(conn[c])
  <2>1. 0 + 1 = 1
    OBVIOUS
  <2>2. QED
    BY <1>1, <1>2, <1>4, <2>1, Zenon DEF Measured
<1>5. Walking(conn[c])
  BY <1>1, <1>3, <1>4, <1>a, Zenon DEF Walking, OnTheWay
<1>b. ~conn[c].garbled => Url(c) = conn[c].req.url
  BY <1>1 DEF Lined, Asked, Url
<1>6. CASE Url(c) = None /\ Moves(c, "decided") /\ UNCHANGED tok
  <2>1. PICK m : m = [conn[c] EXCEPT !.at = "decided"]
    OBVIOUS
  <2>2. m.at = "decided" /\ Alike(conn[c], m)
    BY <1>1, <2>1 DEF Connection, Alike
  <2>3. ~conn[c].garbled => conn[c].req.url = None
    BY <1>6, <1>b
  <2>4. ~conn[c].garbled => Decidable(conn[c])
    BY <1>1, <1>4, <1>5, <2>3, Zenon DEF Decidable, Walking, Known
  <2>5. Followed(m)
    BY <2>2, <2>4, AlikeFollows DEF Plain, Followed, Alike, Decoded
  <2>6. Held(c, m, tok)
    BY <2>2 DEF Plain, Held
  <2>7. QED
    BY <1>6, <2>1, <2>5, <2>6, BecomesFollows DEF Moves
<1>7. CASE /\ Url(c) # None
           /\ Mixing(c, Walked(c, TokenAt(Url(c), 1))) /\ StartAt(c, After(Url(c), 1))
  <2>1. PICK t : t = TokenAt(Url(c), 1)
    OBVIOUS
  <2>2. PICK m : m = Walked(c, t)
    OBVIOUS
  <2>3. m \in Connection
    <3>1. t \in Seq(Names)
      BY <1>2, <2>1, TokenAtTypes
    <3>2. Local(m)
      BY <1>1, <2>2, <3>1, WalkedLocal
    <3>3. QED
      BY <3>2 DEF Local
  <2>4. /\ m.mixed = conn[c].mixed /\ m.garbled = conn[c].garbled /\ m.args = None /\ m.req = conn[c].req
        /\ m.at \in {"walk", "spill", "decided"}
    BY <1>1, <2>2, WalkedFields
  <2>5. ASSUME Plain(conn[c])
        PROVE  /\ m.at = "walk" => Walking(m) /\ Len(m.path) = 0 + 1
               /\ m.at \in {"spill", "decided"} => Decidable(m)
               /\ After(Url(c), 1) = 2
    <3>1. PICK u : u = conn[c].req.url
      OBVIOUS
    <3>2. Url(c) = u /\ Gapless(u)
      BY <1>b, <2>5, <3>1 DEF Plain
    <3>3. u \in Seq(Names) /\ u # <<>>
      BY <1>2, <1>7, <3>1, <3>2 DEF None
    <3>4. 0 < Len(u) /\ Len(u) \in Nat /\ 0 \in 0 .. Len(u)
      BY <3>3
    <3>5. 1 = 0 + 1 /\ 1 + 1 = 2
      OBVIOUS
    <3>6. TokenAt(u, 1) = Token(u, 0) /\ After(u, 1) = 2
      BY <3>2, <3>3, <3>4, <3>5, PlainToken
    <3>7. PICK n : n = Len(conn[c].path)
      OBVIOUS
    <3>8. n = 0
      BY <1>1, <1>4, <3>7, Zenon
    <3>9. t = Token(u, n)
      BY <2>1, <3>2, <3>6, <3>8, Zenon
    <3>10. /\ m.at = "walk" => Walking(m) /\ t # None /\ Len(m.path) = n + 1
           /\ m.at \in {"spill", "decided"} => Decidable(m)
      BY <1>1, <1>5, <2>2, <3>1, <3>7, <3>9, WalkedFollows
    <3>11. QED
      BY <3>2, <3>6, <3>8, <3>10, Zenon
  <2>6. Followed(m)
    BY <2>4, <2>5 DEF Plain, Followed, Decoded
  <2>7. tok'.owner = c /\ tok'.pos = After(Url(c), 1)
    BY <1>7 DEF StartAt
  <2>8. Held(c, m, tok')
    <3>1. Len(m.args) = 0
      BY <1>4, <2>4, Zenon
    <3>2. (0 + 1) + 0 + 1 = 2
      OBVIOUS
    <3>3. Plain(m) => Plain(conn[c])
      BY <2>4, Zenon DEF Plain
    <3>4. m.at = "walk" /\ Plain(m) => tok'.pos = Len(m.path) + Len(m.args) + 1
      BY <2>4, <2>5, <2>7, <3>1, <3>2, <3>3, Zenon
    <3>5. QED
      BY <2>4, <2>7, <3>4 DEF Held
  <2>9. QED
    BY <1>7, <2>1, <2>2, <2>3, <2>6, <2>8, MixingFollows
<1>8. QED
  BY <1>6, <1>7 DEF Parse

\* A step of the walk takes the next component, or is mixed.
LEMMA WalkFollows ==
  ASSUME Sound, Following, NEW c \in Conns, Walk(c)
  PROVE  Following'
<1>1. conn[c] \in Connection /\ Local(conn[c]) /\ conn[c].at = "walk"
  BY DEF Sound, Walk, At
<1>2. PICK t \in Tokens(Len(conn[c].path)) : Mixing(c, Walked(c, t)) /\ TokenTaken
  BY DEF Walk
<1>3. PICK m : m = Walked(c, t)
  OBVIOUS
<1>4. m \in Connection
  <2>1. tok.owner \in Conns /\ tok.pos >= 1
    BY <1>1 DEF Sound, Pointing, Taking
  <2>2. t \in Seq(Names)
    BY <1>2, <2>1, TokenTypes
  <2>3. Local(m)
    BY <1>1, <1>3, <2>2, WalkedLocal
  <2>4. QED
    BY <2>3 DEF Local
<1>5. /\ m.mixed = conn[c].mixed /\ m.garbled = conn[c].garbled /\ m.args = conn[c].args /\ m.req = conn[c].req
      /\ m.at \in {"walk", "spill", "decided"}
  BY <1>1, <1>3, WalkedFields
<1>6. ASSUME Plain(conn[c])
      PROVE  /\ m.at = "walk" => Walking(m) /\ tok'.owner = c /\ tok'.pos = Len(m.path) + Len(m.args) + 1
             /\ m.at \in {"spill", "decided"} => Decidable(m)
  <2>1. Walking(conn[c])
    BY <1>1, <1>6 DEF Plain, Following, Followed
  <2>2. PICK n : n = Len(conn[c].path)
    OBVIOUS
  <2>3. n \in Nat /\ Len(conn[c].args) = 0 /\ Len(m.args) = 0
    BY <1>1, <1>5, <2>1, <2>2 DEF Walking, Connection, None
  <2>4. n + Len(conn[c].args) = n
    BY <2>3
  <2>5. t = Token(conn[c].req.url, n) /\ (t # None => tok'.owner = c /\ tok'.pos = (n + 1) + 1)
    <3>1. n = Len(conn[c].path) + Len(conn[c].args)
      BY <2>2, <2>4, Zenon
    <3>2. n \in 0 .. Len(conn[c].req.url)
      BY <1>1, <2>1, <2>2, <2>3, RequestsAssumption DEF Walking, OnTheWay, Connection
    <3>3. conn[c].at \in {"walk", "args"}
      BY <1>1
    <3>4. PICK w : w = Len(conn[c].path)
      OBVIOUS
    <3>5. t \in Tokens(w) /\ TokenTaken
      BY <1>2, <3>4, Zenon
    <3>6. Has(c, n)
      BY <3>1, <3>2, Zenon DEF Has
    <3>7. Takes(c, t, n)
      BY <1>6, <3>3, <3>5, <3>6, OwnToken
    <3>8. QED
      BY <3>7, Zenon DEF Takes
  <2>6. /\ m.at = "walk" => Walking(m) /\ t # None /\ Len(m.path) = n + 1
        /\ m.at \in {"spill", "decided"} => Decidable(m)
    <3>1. PICK u : u = conn[c].req.url
      OBVIOUS
    <3>2. t = Token(u, n)
      BY <2>5, <3>1, Zenon
    <3>3. QED
      BY <1>1, <1>3, <2>1, <2>2, <3>1, <3>2, WalkedFollows
  <2>7. m.at = "walk" => tok'.pos = Len(m.path) + Len(m.args) + 1
    BY <2>3, <2>5, <2>6
  <2>8. QED
    BY <2>5, <2>6, <2>7
<1>7. Followed(m)
  BY <1>5, <1>6 DEF Plain, Followed, Decoded
<1>8. Held(c, m, tok')
  BY <1>5, <1>6 DEF Plain, Held
<1>9. QED
  BY <1>2, <1>3, <1>4, <1>7, <1>8, MixingFollows

\* A connection with what was chosen for it, and its other fields.
LEMMA ChosenFields ==
  ASSUME NEW c, NEW e, NEW k, conn[c] \in Connection, k = Choose(c, e),
         e.kind \in Kinds, e.url \in Urls
  PROVE  /\ k \in Connection /\ k.mixed = conn[c].mixed /\ k.garbled = conn[c].garbled
         /\ k.req = conn[c].req /\ k.path = conn[c].path /\ k.offset = conn[c].offset /\ k.args = conn[c].args
         /\ k.chosen.kind = e.kind /\ k.chosen.url = e.url /\ k.chosen.method = Method(c)
<1>1. PICK v \in Chosen : /\ Choose(c, e) \in Connection /\ Choose(c, e) = [conn[c] EXCEPT !.chosen = v]
                          /\ v.kind = e.kind /\ v.url = e.url /\ v.method = Method(c)
  BY ChooseTypes
<1>2. k.chosen = v
  BY <1>1 DEF Connection
<1>3. QED
  BY <1>1, <1>2 DEF Connection

\* The walk has stopped at a script or a directory.
LEMMA DecideFollows ==
  ASSUME Sound, Following, NEW c \in Conns, Decide(c)
  PROVE  Following'
<1>1. conn[c] \in Connection /\ conn[c].at = "decided" /\ Known(conn[c].path)
  BY DEF Sound, Decide, At
<1>2. PICK e : e = Entry(conn[c].path)
  OBVIOUS
<1>3. e.kind \in Kinds \ {"page"} /\ e.url \in Urls
  BY <1>2, EntryTypes
<1>4. PICK k : k = Choose(c, e)
  OBVIOUS
<1>5. /\ k \in Connection /\ k.mixed = conn[c].mixed /\ k.garbled = conn[c].garbled
      /\ k.req = conn[c].req /\ k.path = conn[c].path /\ k.offset = conn[c].offset /\ k.args = conn[c].args
      /\ k.chosen.kind = e.kind /\ k.chosen.url = e.url /\ k.chosen.method = Method(c)
  BY <1>1, <1>3, <1>4, ChosenFields
<1>6. ASSUME Plain(conn[c])
      PROVE  /\ Decidable(conn[c]) /\ Method(c) = conn[c].req.method /\ Url(c) = conn[c].req.url
             /\ Rest(c) = Behind(conn[c].req.url, conn[c].offset) /\ Gapless(conn[c].req.url)
  <2>1. Decidable(conn[c])
    BY <1>1, <1>6 DEF Following, Followed
  <2>2. Lined(conn[c])
    BY DEF Sound, Local
  <2>3. Method(c) = conn[c].req.method /\ Url(c) = conn[c].req.url /\ Gapless(conn[c].req.url)
    BY <1>6, <2>2 DEF Method, Url, Plain, Lined, Asked
  <2>4. QED
    BY <2>1, <2>3, Zenon DEF Rest
<1>7. ASSUME Plain(conn[c]), conn[c].path \in Scripts,
             NEW m, m.req = k.req, m.path = k.path, m.chosen = k.chosen
      PROVE  ScriptChosen(m)
  <2>1. e.kind = "script" /\ e.url = conn[c].path
    BY <1>2, <1>7, EntryScript
  <2>2. OnTheWay(conn[c])
    BY <1>6, <1>7 DEF Decidable
  <2>3. OnTheWay(m)
    BY <1>5, <1>7, <2>2, Zenon DEF OnTheWay
  <2>4. m.chosen.method = m.req.method
    BY <1>5, <1>6, <1>7, Zenon
  <2>5. QED
    BY <1>5, <1>7, <2>1, <2>3, <2>4, Zenon DEF ScriptChosen
<1>8. ASSUME NEW i \in Rest(c), HasArguments(c), StartAt(c, i + 1),
             Mixing(c, [k EXCEPT !.args = <<NameFrom(Url(c), i, conn[c].offset)>>,
                                 !.at = IF Method(c) \in {"get", "delete"} THEN "args" ELSE "lastarg"])
      PROVE  Following'
  <2>1. PICK g : g = <<NameFrom(Url(c), i, conn[c].offset)>>
    OBVIOUS
  <2>2. PICK a : a = IF Method(c) \in {"get", "delete"} THEN "args" ELSE "lastarg"
    OBVIOUS
  <2>3. PICK m : m = [k EXCEPT !.args = g, !.at = a]
    OBVIOUS
  <2>4. /\ m.at = a /\ m.args = g /\ m.mixed = conn[c].mixed /\ m.garbled = conn[c].garbled
        /\ m.req = k.req /\ m.path = k.path /\ m.chosen = k.chosen
    BY <1>5, <2>3 DEF Connection
  <2>5. m \in Connection /\ i \in Nat
    <3>1. Url(c) \in Seq(Names)
      BY <1>1 DEF Connection, Url, Line
    <3>2. g \in Seq(Words) /\ i \in Nat
      BY <1>8, <2>1, <3>1, RestTypes
    <3>3. QED
      BY <1>5, <2>2, <2>3, <3>2 DEF Connection, Places
  <2>6. Len(g) = 1
    BY <2>1
  <2>7. ASSUME Plain(conn[c])
        PROVE  /\ a = "args" => Arguing(m)
               /\ a = "lastarg" => Dropping(m)
               /\ i = Len(m.path) + 1
    <3>1. conn[c].path \in Scripts
      BY <1>8 DEF HasArguments
    <3>2. ScriptChosen(m)
      BY <1>7, <2>4, <2>7, <3>1
    <3>3. PICK x : x = NameFrom(conn[c].req.url, i, conn[c].offset)
      OBVIOUS
    <3>4. /\ conn[c].path \o <<x>> = Prefix(conn[c].req.url, Len(conn[c].path) + 1)
          /\ Len(conn[c].path) + 1 <= Len(conn[c].req.url) /\ i = Len(conn[c].path) + 1
          /\ x \in Names
      <4>1. i \in Behind(conn[c].req.url, conn[c].offset)
        BY <1>6, <1>8, <2>7, Zenon
      <4>2. QED
        BY <1>1, <1>6, <2>7, <3>1, <3>3, <4>1, DecidedRest
    <3>5. g = <<x>>
      BY <1>6, <2>1, <2>7, <3>3, Zenon
    <3>6. g \in Seq(Names)
      BY <3>4, <3>5
    <3>7. Arguing(m)
      BY <1>5, <2>4, <2>6, <3>2, <3>4, <3>5, <3>6, Zenon DEF Arguing
    <3>8. a = "lastarg" => m.req.method \notin {"get", "delete"}
      BY <1>5, <1>6, <2>2, <2>4, <2>7
    <3>9. QED
      BY <1>5, <2>4, <3>2, <3>4, <3>7, <3>8, Zenon DEF Dropping
  <2>a. Plain(m) => Plain(conn[c])
    BY <1>5, <2>4, Zenon DEF Plain
  <2>8. Followed(m)
    BY <2>2, <2>4, <2>7, <2>a DEF Followed, Decoded
  <2>9. tok'.owner = c /\ tok'.pos = i + 1
    BY <1>8 DEF StartAt
  <2>10. Held(c, m, tok')
    <3>1. Plain(conn[c]) => tok'.pos = Len(m.path) + Len(m.args) + 1
      BY <2>4, <2>6, <2>7, <2>9, Zenon
    <3>2. QED
      BY <2>9, <2>a, <3>1, Zenon DEF Held
  <2>11. Mixing(c, m)
    BY <1>8, <2>1, <2>2, <2>3
  <2>12. QED
    BY <2>5, <2>8, <2>10, <2>11, MixingFollows
<1>9. CASE /\ ~HasArguments(c) \/ Method(c) = "head"
           /\ Becomes(c, [k EXCEPT !.at = "run"]) /\ UNCHANGED tok
  <2>1. PICK m : m = [k EXCEPT !.at = "run"]
    OBVIOUS
  <2>2. m.at = "run" /\ Alike(k, m) /\ m \in Connection
    BY <1>5, <2>1 DEF Connection, Alike, Places
  <2>3. ASSUME Plain(conn[c]) PROVE Right(m)
    <3>1. CASE conn[c].path \in Scripts
      <4>1. ScriptChosen(m)
        BY <1>7, <2>2, <2>3, <3>1 DEF Alike
      <4>2. m.req.method \in {"get", "delete"} => m.path \o m.args = m.req.url
        <5>1. ASSUME m.req.method \in {"get", "delete"} PROVE Rest(c) = {}
          <6>1. Method(c) # "head"
            BY <1>5, <1>6, <2>2, <2>3, <5>1 DEF Alike
          <6>2. QED
            BY <1>9, <3>1, <6>1 DEF HasArguments
        <5>2. Rest(c) = {} => conn[c].path \o conn[c].args = conn[c].req.url
          BY <1>1, <1>6, <2>3, <3>1, DecidedRest
        <5>3. QED
          BY <1>5, <2>2, <5>1, <5>2 DEF Alike
      <4>3. QED
        BY <2>2, <4>1, <4>2, ScriptRight
    <3>2. CASE conn[c].path \in Spaces
      <4>1. conn[c].path = conn[c].req.url /\ Meant(conn[c].req.url) = conn[c].path
        BY <1>1, <1>6, <2>3, <3>2, DecidedMeans
      <4>2. Meant(conn[c].req.url) \notin Scripts
        BY <3>2, <4>1, TreeAssumption
      <4>3. e.kind # "page" /\ e.url = Entry(Meant(conn[c].req.url)).url
        BY <1>2, <1>3, <4>1
      <4>4. m.req = conn[c].req /\ m.chosen.method = conn[c].req.method /\ m.chosen.kind # "page" /\ m.chosen.url = e.url
        BY <1>5, <1>6, <2>2, <2>3, <4>3, Zenon DEF Alike
      <4>5. QED
        BY <4>2, <4>3, <4>4, Zenon DEF Right
    <3>3. QED
      BY <1>1, <3>1, <3>2 DEF Known
  <2>4. m.mixed = conn[c].mixed /\ m.garbled = conn[c].garbled /\ m.req = conn[c].req
    BY <1>5, <2>2 DEF Alike
  <2>5. Followed(m) /\ Held(c, m, tok)
    BY <2>2, <2>3, <2>4 DEF Plain, Followed, Held
  <2>6. QED
    BY <1>9, <2>1, <2>5, BecomesFollows
<1>10. CASE /\ Method(c) \notin Handled
            /\ Becomes(c, [Choose(c, Forbidden) EXCEPT !.at = "send"]) /\ UNCHANGED tok
  <2>1. Forbidden.kind \in Kinds /\ Forbidden.kind # "page" /\ Forbidden.url \in Urls
    BY DEF Forbidden, Kinds, Urls
  <2>2. PICK n, m : n = Choose(c, Forbidden) /\ m = [n EXCEPT !.at = "send"]
    OBVIOUS
  <2>3. /\ n \in Connection /\ n.mixed = conn[c].mixed /\ n.garbled = conn[c].garbled /\ n.req = conn[c].req
        /\ n.chosen.kind = Forbidden.kind /\ n.chosen.method = Method(c)
    BY <1>1, <2>1, <2>2, ChosenFields
  <2>4. m.at = "send" /\ Alike(n, m)
    BY <2>2, <2>3 DEF Connection, Alike
  <2>5. ASSUME Plain(conn[c]) PROVE Right(m)
    <3>1. m.req = conn[c].req /\ m.chosen.method = conn[c].req.method /\ m.chosen.kind # "page"
      BY <1>6, <2>1, <2>3, <2>4, <2>5, Zenon DEF Alike
    <3>2. conn[c].req.method \notin Handled
      BY <1>6, <1>10, <2>5, Zenon
    <3>3. conn[c].req.method \notin {"get", "delete"}
      BY <3>2 DEF Handled, Executed
    <3>4. QED
      BY <3>1, <3>2, <3>3, Zenon DEF Right
  <2>6. Plain(m) => Plain(conn[c])
    BY <2>3, <2>4, Zenon DEF Plain, Alike
  <2>7. Followed(m) /\ Held(c, m, tok)
    BY <2>4, <2>5, <2>6 DEF Followed, Held
  <2>8. Becomes(c, m) /\ UNCHANGED tok
    BY <1>10, <2>2
  <2>9. QED
    BY <2>7, <2>8, BecomesFollows
<1>11. QED
  BY <1>2, <1>4, <1>8, <1>9, <1>10 DEF Decide

\* Nothing of that name is known: a page is looked for.
LEMMA PageFollows ==
  ASSUME Sound, Following, NEW c \in Conns, Page(c)
  PROVE  Following'
<1>1. conn[c] \in Connection /\ conn[c].at = "decided" /\ ~Known(conn[c].path) /\ UNCHANGED tok
  BY DEF Sound, Page, At
<1>2. ASSUME Plain(conn[c])
      PROVE  /\ Method(c) = conn[c].req.method /\ Url(c) = conn[c].req.url
             /\ Meant(conn[c].req.url) = conn[c].req.url /\ ~Known(conn[c].req.url)
  <2>1. Decidable(conn[c])
    BY <1>1, <1>2 DEF Following, Followed
  <2>2. Lined(conn[c]) /\ ~conn[c].garbled
    BY <1>2 DEF Sound, Local, Plain
  <2>3. QED
    BY <1>1, <2>1, <2>2, DecidedMeans DEF Method, Url, Lined, Asked
<1>3. ASSUME NEW e, e.kind \in {"page", "error"}, e.kind \in Kinds, e.url \in Urls, e.kind = "page" => e.url = Url(c),
             NEW m, m.at = "send", Alike(Choose(c, e), m), Becomes(c, m)
      PROVE  Following'
  <2>1. PICK k : k = Choose(c, e)
    OBVIOUS
  <2>2. /\ k.mixed = conn[c].mixed /\ k.garbled = conn[c].garbled /\ k.req = conn[c].req
        /\ k.chosen.kind = e.kind /\ k.chosen.url = e.url /\ k.chosen.method = Method(c)
    BY <1>1, <1>3, <2>1, ChosenFields
  <2>3. ASSUME Plain(conn[c]) PROVE Right(m)
    <3>1. /\ m.req = conn[c].req /\ m.chosen.method = conn[c].req.method
          /\ (m.chosen.kind = "page" => m.chosen.url = conn[c].req.url)
      BY <1>2, <1>3, <2>1, <2>2, <2>3, Zenon DEF Alike
    <3>2. ~Known(Meant(conn[c].req.url)) /\ Meant(conn[c].req.url) \notin Scripts
      BY <1>2, <2>3 DEF Known
    <3>3. QED
      BY <3>1, <3>2, Zenon DEF Right
  <2>4. m.mixed = conn[c].mixed /\ m.garbled = conn[c].garbled /\ m.req = conn[c].req
    BY <1>3, <2>1, <2>2 DEF Alike
  <2>5. Followed(m) /\ Held(c, m, tok)
    BY <1>3, <2>3, <2>4 DEF Plain, Followed, Held
  <2>6. QED
    BY <1>1, <1>3, <2>5, BecomesFollows
<1>4. CASE /\ Url(c) \in Pages
           /\ Becomes(c, [Choose(c, [kind |-> "page", url |-> Url(c)]) EXCEPT !.at = "send", !.file = TRUE])
  <2>1. PICK e : e = [kind |-> "page", url |-> Url(c)]
    OBVIOUS
  <2>2. e.kind = "page" /\ e.kind \in Kinds /\ e.url = Url(c) /\ e.url \in Urls
    BY <1>4, <2>1 DEF Urls, Kinds
  <2>3. PICK k : k = Choose(c, e)
    OBVIOUS
  <2>4. k \in Connection
    BY <1>1, <2>2, <2>3, ChosenFields
  <2>5. PICK m : m = [k EXCEPT !.at = "send", !.file = TRUE]
    OBVIOUS
  <2>6. m.at = "send" /\ Alike(k, m)
    BY <2>4, <2>5 DEF Connection, Alike
  <2>7. Becomes(c, m)
    BY <1>4, <2>1, <2>3, <2>5
  <2>8. QED
    BY <1>3, <2>2, <2>3, <2>6, <2>7
<1>5. CASE Becomes(c, [Choose(c, Entry(conn[c].path)) EXCEPT !.at = "send"])
  <2>1. PICK e : e = Entry(conn[c].path)
    OBVIOUS
  <2>2. e.kind = "error" /\ e.kind \in Kinds /\ e.url \in Urls
    <3>1. e = [kind |-> "error", url |-> None]
      BY <1>1, <2>1 DEF Entry, Known
    <3>2. QED
      BY <3>1 DEF Urls, Kinds
  <2>3. PICK k : k = Choose(c, e)
    OBVIOUS
  <2>4. k \in Connection
    BY <1>1, <2>2, <2>3, ChosenFields
  <2>5. PICK m : m = [k EXCEPT !.at = "send"]
    OBVIOUS
  <2>6. m.at = "send" /\ Alike(k, m)
    BY <2>4, <2>5 DEF Connection, Alike
  <2>7. Becomes(c, m)
    BY <1>5, <2>1, <2>3, <2>5
  <2>8. QED
    BY <1>3, <2>2, <2>3, <2>6, <2>7
<1>6. QED
  BY <1>4, <1>5 DEF Page

\* A component behind the script becomes an argument.
LEMMA NextArgumentFollows ==
  ASSUME Sound, Following, NEW c \in Conns, NextArgument(c)
  PROVE  Following'
<1>1. conn[c] \in Connection /\ conn[c].at = "args"
  BY DEF Sound, NextArgument, At
<1>2. PICK t \in Tokens(Len(conn[c].args)) :
        /\ Mixing(c, [conn[c] EXCEPT !.args = conn[c].args \o t, !.at = IF t = None THEN "run" ELSE "args"])
        /\ TokenTaken
  BY DEF NextArgument
<1>3. PICK g : g = conn[c].args \o t
  OBVIOUS
<1>4. PICK a : a = IF t = None THEN "run" ELSE "args"
  OBVIOUS
<1>5. PICK m : m = [conn[c] EXCEPT !.args = g, !.at = a]
  OBVIOUS
<1>6. m.at = a /\ m.mixed = conn[c].mixed /\ m.garbled = conn[c].garbled /\ m.req = conn[c].req
  BY <1>1, <1>5 DEF Connection
<1>7. m \in Connection
  <2>1. tok.owner \in Conns /\ tok.pos >= 1
    BY <1>1 DEF Sound, Pointing, Taking
  <2>2. t \in Seq(Names)
    BY <1>2, <2>1, TokenTypes
  <2>3. g \in Seq(Words)
    <3>1. t \in Seq(Words) /\ conn[c].args \in Seq(Words)
      BY <1>1, <2>2, WordNames DEF Connection
    <3>2. QED
      BY <1>3, <3>1, ConcatProperties
  <2>4. QED
    BY <1>1, <1>4, <1>5, <2>3 DEF Connection, Places
<1>8. ASSUME Plain(conn[c])
      PROVE  /\ a = "args" => Arguing(m) /\ tok'.owner = c /\ tok'.pos = Len(m.path) + Len(m.args) + 1
             /\ a = "run" => Right(m)
  <2>1. Arguing(conn[c])
    BY <1>1, <1>8 DEF Plain, Following, Followed
  <2>2. /\ t = Token(conn[c].req.url, Len(conn[c].path) + Len(conn[c].args))
        /\ t # None => tok'.owner = c /\ tok'.pos = (Len(conn[c].path) + Len(conn[c].args) + 1) + 1
    <3>1. PICK h : h = Len(conn[c].path) + Len(conn[c].args)
      OBVIOUS
    <3>2. conn[c].req.url \in Seq(Names) /\ conn[c].path \in Seq(Names) /\ conn[c].args \in Seq(Words)
      BY <1>1, RequestsAssumption DEF Connection
    <3>3. h <= Len(conn[c].req.url)
      BY <2>1, <3>1 DEF Arguing
    <3>4. h \in 0 .. Len(conn[c].req.url)
      <4>1. PICK x, y, z : x = Len(conn[c].path) /\ y = Len(conn[c].args) /\ z = Len(conn[c].req.url)
        OBVIOUS
      <4>2. x \in Nat /\ y \in Nat /\ z \in Nat
        BY <3>2, <4>1, LenProperties, Zenon
      <4>3. h = x + y /\ h <= z
        BY <3>1, <3>3, <4>1, Zenon
      <4>4. h \in 0 .. z
        BY <4>2, <4>3
      <4>5. QED
        BY <4>1, <4>4, Zenon
    <3>a. conn[c].at \in {"walk", "args"}
      BY <1>1
    <3>5. t = Token(conn[c].req.url, h) /\ (t # None => tok'.owner = c /\ tok'.pos = (h + 1) + 1)
      <4>1. PICK w : w = Len(conn[c].args)
        OBVIOUS
      <4>2. t \in Tokens(w) /\ TokenTaken
        BY <1>2, <4>1, Zenon
      <4>3. Has(c, h)
        BY <3>1, <3>4, Zenon DEF Has
      <4>4. Takes(c, t, h)
        BY <1>8, <3>a, <4>2, <4>3, OwnToken
      <4>5. QED
        BY <4>4, Zenon DEF Takes
    <3>6. QED
      BY <3>1, <3>5, Zenon
  <2>3. PICK k : k = conn[c]
    OBVIOUS
  <2>4. \E x : /\ x = [k EXCEPT !.args = k.args \o t, !.at = IF t = None THEN "run" ELSE "args"]
               /\ x.at \in {"run", "args"}
               /\ x.at = "args" => /\ Arguing(x) /\ t # None
                                   /\ Len(x.path) + Len(x.args) = Len(k.path) + Len(k.args) + 1
               /\ x.at = "run" => Right(x)
    BY <1>1, <2>1, <2>2, <2>3, ArgumentFollows
  <2>5. m = [k EXCEPT !.args = k.args \o t, !.at = IF t = None THEN "run" ELSE "args"]
    BY <1>3, <1>4, <1>5, <2>3
  <2>6. /\ m.at = "args" => /\ Arguing(m) /\ t # None
                            /\ Len(m.path) + Len(m.args) = Len(conn[c].path) + Len(conn[c].args) + 1
        /\ m.at = "run" => Right(m)
    BY <2>3, <2>4, <2>5, Zenon
  <2>7. QED
    BY <1>6, <2>2, <2>6, Zenon
<1>9. Followed(m)
  BY <1>4, <1>6, <1>8 DEF Plain, Followed, Decoded
<1>10. Held(c, m, tok')
  BY <1>4, <1>6, <1>8 DEF Plain, Held
<1>11. Mixing(c, m)
  BY <1>2, <1>3, <1>4, <1>5
<1>12. QED
  BY <1>7, <1>9, <1>10, <1>11, MixingFollows

\* The arguments are complete.
LEMMA DropArgumentFollows ==
  ASSUME Sound, Following, NEW c \in Conns, DropArgument(c)
  PROVE  Following'
<1>1. conn[c] \in Connection /\ conn[c].at = "lastarg"
  BY DEF Sound, DropArgument, At
<1>2. PICK m : m = [conn[c] EXCEPT !.at = "run"]
  OBVIOUS
<1>3. Mixing(c, m)
  BY <1>2 DEF DropArgument
<1>4. m \in Connection /\ m.at = "run" /\ Alike(conn[c], m)
  BY <1>1, <1>2 DEF Connection, Alike, Places
<1>5. ASSUME Plain(conn[c]) PROVE Right(m)
  <2>1. Dropping(conn[c])
    BY <1>1, <1>5 DEF Plain, Following, Followed
  <2>2. ScriptChosen(m) /\ m.req.method \notin {"get", "delete"}
    BY <1>4, <2>1, AlikeFollows DEF Dropping
  <2>3. QED
    BY <1>4, <2>2, ScriptRight
<1>6. Followed(m) /\ Held(c, m, tok')
  BY <1>4, <1>5 DEF Plain, Followed, Held, Alike
<1>7. QED
  BY <1>3, <1>4, <1>6, MixingFollows

\* The token behind an unknown name is not looked at.
LEMMA SpillFollows ==
  ASSUME Sound, Following, NEW c \in Conns, Spill(c)
  PROVE  Following'
<1>1. conn[c] \in Connection /\ conn[c].at = "spill"
  BY DEF Sound, Spill, At
<1>2. PICK m : m = [conn[c] EXCEPT !.at = "decided"]
  OBVIOUS
<1>3. Mixing(c, m)
  BY <1>2 DEF Spill
<1>4. m \in Connection /\ m.at = "decided" /\ Alike(conn[c], m)
  BY <1>1, <1>2 DEF Connection, Alike, Places
<1>5. ASSUME Plain(conn[c]) PROVE Decidable(m)
  <2>1. Decidable(conn[c])
    BY <1>1, <1>5 DEF Following, Followed
  <2>2. QED
    BY <1>4, <2>1, AlikeFollows
<1>6. Plain(m) => Plain(conn[c])
  BY <1>4, Zenon DEF Plain, Alike
<1>7. Followed(m) /\ Held(c, m, tok')
  BY <1>4, <1>5, <1>6 DEF Followed, Held, Decoded
<1>8. QED
  BY <1>3, <1>4, <1>7, MixingFollows

\* The steps outside the lookup.
LEMMA OutsideFollows ==
  ASSUME Sound, Following, NEW c \in Conns,
         \/ Client(c) \/ Listen(c) \/ Prefetch(c) \/ Handshake(c) \/ ReadFirst(c) \/ ReadMore(c)
         \/ ReadMoreFails(c) \/ Run(c) \/ RunKills(c) \/ Answer(c) \/ AnswerKills(c) \/ Close(c)
  PROVE  Following'
<1>0. conn[c] \in Connection /\ Followed(conn[c]) /\ Held(c, conn[c], tok)
  BY DEF Sound, Following
<1>1. CASE UNCHANGED <<conn, tok>>
  BY <1>1 DEF Following
<1>2. ASSUME NEW rec, rec.at \notin Busy \cup {"send"}, Becomes(c, rec), UNCHANGED tok PROVE Following'
  BY <1>2, ElsewhereFollows, BecomesFollows
<1>3. ASSUME NEW rec, rec.at = conn[c].at, Alike(conn[c], rec), Becomes(c, rec), UNCHANGED tok PROVE Following'
  BY <1>0, <1>3, SameFollows, BecomesFollows
<1>4. ASSUME NEW p, p \notin Busy \cup {"send"}, Moves(c, p), UNCHANGED tok PROVE Following'
  <2>1. [conn[c] EXCEPT !.at = p].at = p
    BY <1>0 DEF Connection
  <2>2. QED
    BY <1>2, <1>4, <2>1 DEF Moves
<1>5. CASE Client(c)
  <2>1. CASE Connect(c)
    BY <1>4, <2>1 DEF Connect, Busy
  <2>2. CASE Hangup(c)
    <3>1. PICK rec : rec = [conn[c] EXCEPT !.gone = TRUE]
      OBVIOUS
    <3>2. rec.at = conn[c].at /\ Alike(conn[c], rec)
      BY <1>0, <3>1 DEF Connection, Alike
    <3>3. QED
      BY <1>3, <2>2, <3>1, <3>2 DEF Hangup
  <2>3. ASSUME NEW n \in 1 .. Total(conn[c].req), Send(c, n) PROVE Following'
    <3>1. PICK rec : rec = [conn[c] EXCEPT !.sent = conn[c].sent + n]
      OBVIOUS
    <3>2. rec.at = conn[c].at /\ Alike(conn[c], rec)
      BY <1>0, <3>1 DEF Connection, Alike
    <3>3. Becomes(c, rec) /\ UNCHANGED tok
      BY <2>3, <3>1 DEF Send
    <3>4. QED
      BY <1>3, <3>2, <3>3
  <2>4. QED
    BY <1>5, <2>1, <2>2, <2>3 DEF Client
<1>6. CASE Listen(c)
  <2>1. CASE AcceptFails(c)
    BY <1>1, <2>1 DEF AcceptFails
  <2>2. CASE Accept(c) \/ AcceptNoThread(c)
    <3>1. PICK p : Moves(c, p) /\ p \in {"handshake", "prefetch", "orphan"} /\ UNCHANGED tok
      BY <2>2 DEF Accept, AcceptNoThread
    <3>2. QED
      BY <1>4, <3>1 DEF Busy
  <2>3. QED
    BY <1>6, <2>1, <2>2 DEF Listen
<1>7. CASE Prefetch(c)
  <2>1. CASE Moves(c, "read")
    BY <1>4, <1>7, <2>1 DEF Prefetch, Busy
  <2>2. CASE Becomes(c, [conn[c] EXCEPT !.at = "read", !.taken = 1, !.garbled = TRUE, !.line = Unparsed])
    <3>1. [conn[c] EXCEPT !.at = "read", !.taken = 1, !.garbled = TRUE, !.line = Unparsed].at = "read"
      BY <1>0 DEF Connection
    <3>2. QED
      BY <1>2, <1>7, <2>2, <3>1 DEF Prefetch, Busy
  <2>3. QED
    BY <1>7, <2>1, <2>2 DEF Prefetch
<1>8. CASE Handshake(c)
  BY <1>4, <1>8 DEF Handshake, Busy
<1>9. CASE ReadFirst(c)
  <2>1. PICK rec : Becomes(c, rec) /\ UNCHANGED tok
    BY <1>9 DEF ReadFirst
  <2>2. conn \in [Conns -> Connection]
    BY DEF Sound
  <2>3. rec = conn'[c]
    BY <2>1, <2>2 DEF Becomes
  <2>4. rec.at \in {"read", "close", "more", "parse"}
    BY <1>9, <2>2, <2>3, ReadFirstStep
  <2>5. QED
    BY <1>2, <2>1, <2>4 DEF Busy
<1>10. CASE ReadMore(c)
  <2>1. PICK m : Becomes(c, [conn[c] EXCEPT !.taken = conn[c].taken + m, !.got = conn[c].got + m,
                               !.at = IF conn[c].got + m >= conn[c].needed THEN "parse" ELSE "more"])
    BY <1>10 DEF ReadMore
  <2>2. PICK a : a = IF conn[c].got + m >= conn[c].needed THEN "parse" ELSE "more"
    OBVIOUS
  <2>3. PICK rec : rec = [conn[c] EXCEPT !.taken = conn[c].taken + m, !.got = conn[c].got + m, !.at = a]
    OBVIOUS
  <2>4. rec.at = a
    BY <1>0, <2>3 DEF Connection
  <2>5. Becomes(c, rec) /\ UNCHANGED tok
    BY <1>10, <2>1, <2>2, <2>3 DEF ReadMore
  <2>6. QED
    BY <1>2, <2>2, <2>4, <2>5 DEF Busy
<1>11. CASE Run(c)
  <2>1. PICK m : m = [conn[c] EXCEPT !.at = "send"]
    OBVIOUS
  <2>2. m.at = "send" /\ Alike(conn[c], m) /\ conn[c].at = "run"
    BY <1>0, <1>11, <2>1 DEF Connection, Alike, Run, At
  <2>3. Followed(m) /\ Held(c, m, tok)
    BY <1>0, <2>2, AlikeFollows DEF Plain, Followed, Held, Alike, Decoded
  <2>4. QED
    BY <1>11, <2>1, <2>3, BecomesFollows DEF Run, Moves
<1>12. CASE Answer(c)
  <2>1. [conn[c] EXCEPT !.at = "close", !.reply = TRUE].at = "close"
    BY <1>0 DEF Connection
  <2>2. QED
    BY <1>2, <1>12, <2>1 DEF Answer, Busy
<1>13. CASE AnswerKills(c)
  BY <1>1, <1>13 DEF AnswerKills
<1>14. CASE Close(c)
  BY <1>4, <1>14 DEF Close, Busy
<1>15. CASE ReadMoreFails(c)
  <2>1. CASE Becomes(c, [conn[c] EXCEPT !.got = conn[c].got - 1]) /\ UNCHANGED tok
    <3>1. PICK rec : rec = [conn[c] EXCEPT !.got = conn[c].got - 1]
      OBVIOUS
    <3>2. rec.at = conn[c].at /\ Alike(conn[c], rec)
      BY <1>0, <3>1 DEF Connection, Alike
    <3>3. QED
      BY <1>3, <2>1, <3>1, <3>2
  <2>2. QED
    BY <1>1, <1>15, <2>1 DEF ReadMoreFails
<1>16. CASE RunKills(c)
  BY <1>1, <1>16 DEF RunKills
<1>17. QED
  BY <1>5, <1>6, <1>7, <1>8, <1>9, <1>10, <1>11, <1>12, <1>13, <1>14, <1>15, <1>16

\* Every step keeps the connections on their way.
LEMMA NextFollows == Sound /\ Following /\ [Next]_vars => Following'
<1>1. ASSUME Sound, Following, NEW c \in Conns, Client(c) \/ Listen(c) \/ Serve(c) PROVE Following'
  BY <1>1, ParseFollows, WalkFollows, DecideFollows, PageFollows, NextArgumentFollows,
     DropArgumentFollows, SpillFollows, OutsideFollows DEF Serve
<1>2. ASSUME Following, UNCHANGED vars PROVE Following'
  BY <1>2 DEF Following, vars
<1>3. QED
  BY <1>1, <1>2 DEF Next

\* A request whose line was read whole, whose URL has no slashes in a row and whose lookup
\* nobody disturbed runs the script of its own URL, with its own
\* arguments, by its own method: http_decode, http_execute_script and the arguments of
\* stack_exec_bytecodes_json, whatever the other threads do with strtok.
THEOREM LookupFollows == Spec => []RunsWhatWasAsked
<1>1. Init => Following
  <2> SUFFICES ASSUME Init, NEW c \in Conns PROVE Followed(conn[c]) /\ Held(c, conn[c], tok)
    BY DEF Following
  <2>1. conn[c].at = "idle"
    BY DEF Init, Fresh
  <2>2. QED
    BY <2>1, ElsewhereFollows DEF Busy
<1>2. Following => RunsWhatWasAsked
  BY DEF Plain, Following, Followed, Right, RunsWhatWasAsked
<1>3. QED
  BY <1>1, <1>2, NextFollows, ServerSound, PTL DEF Spec

=============================================================================
