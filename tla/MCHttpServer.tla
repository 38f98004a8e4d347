---------------------------- MODULE MCHttpServer ----------------------------
(* A plain and a secure connection to a site with scripts in directories, *)
(* a default class, a directory in place of one, and a page.               *)
EXTENDS HttpServer

MCScripts == {<<"p">>, <<"n", "p">>, <<"program">>}
MCSpaces == {<<>>, <<"n">>, <<"n", "x">>, <<"n", "program">>}
MCPages == {<<"x">>}

\* Two clients at once: a script with an argument, and a page.
MCPair ==
  {[url |-> <<"p", "x">>, method |-> "get", body |-> -1],
   [url |-> <<"x">>, method |-> "post", body |-> 1]}
\* One client: every kind of entry, with and without slashes in a row.
MCUrls ==
  {<<>>, <<"x">>, <<"x", "p">>, <<"n">>, <<"n", "x">>, <<"n", "p">>, <<"n", "p", "x", "p">>,
   <<"n", "", "p">>, <<"n", "p", "", "x", "">>}
MCRequests ==
  MCPair \cup {[url |-> u, method |-> m, body |-> b] :
                 u \in MCUrls, m \in Handled \cup {"options"}, b \in {-1, 1, 3}}

\* Both clients of the pair are to come; or a plain one with any request, after a secure one
\* that has come and gone because its handshake failed.
MCInit ==
  /\ \/ /\ conn \in [Conns -> {Fresh(r) : r \in MCPair}]
        /\ \A c, d \in Conns : c # d => conn[c].req # conn[d].req
     \/ conn \in {[c \in Conns |-> IF c \in Secure THEN [Fresh(p) EXCEPT !.at = "done"] ELSE Fresh(r)] :
                  r \in MCRequests, p \in {q \in MCPair : q.body = -1}}
  /\ tok = [owner |-> "nobody", pos |-> 0]
  /\ fds = 0
  /\ up = TRUE
MCSpec == MCInit /\ [][Next]_vars /\ Fairness

MCSize(x) == IF x = Gap THEN 0 ELSE 1
RECURSIVE MCStart(_, _)
MCStart(u, i) == IF i = 1 THEN 0 ELSE MCStart(u, i - 1) + MCSize(u[i - 1]) + 1
=============================================================================
