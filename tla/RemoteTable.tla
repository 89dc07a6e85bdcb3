----------------------------- MODULE RemoteTable -----------------------------
(***************************************************************************)
(* ctable_server: remote_ctable makes a local command of a table that a    *)
(* server keeps.  Each call is sent as one line and answered over the same *)
(* connection: "k" or "e" and a result, "r" and the URL the table has      *)
(* moved to, or "m", rows, "\." and then a result.  The client reconnects  *)
(* and sends again when it reads the end of the connection instead of an   *)
(* answer, and follows the table when it moves.                            *)
(*                                                                         *)
(* One table, and for each client a URL of its own spelling.  A handler of *)
(* the server runs to its end before the next, so it is one action.  The   *)
(* network may break a connection and lose the end of what is under way    *)
(* in both directions; a send that fails is read as the end.  Connecting   *)
(* includes accept_connection and its greeting.                            *)
(***************************************************************************)
EXTENDS Integers, Sequences, FiniteSets, Functions

CONSTANTS
  Clients,
  NServers,    \* clients start with server 1, and the table moves upwards
  NConns,      \* connections that can be open at a time
  Kinds,       \* for each client, the calls it makes: a set of AllKinds
  Retries,     \* how often remote_ctable_send sends again: 5 in the code
  Rows,        \* rows in the answer to a search
  MaxCalls,    \* bound on the calls of each client
  MaxFaults,   \* bound on connections that break and servers that crash
  MaxRestarts  \* bound on servers started again

AllKinds == {"set", "search", "into", "redirect", "retire", "shutdown", "nowait", "quit"}
NoRedirect == {"redirect", "retire", "shutdown", "nowait"}
Moving == {"redirect", "retire"}

ASSUME SizesAssumption ==
  /\ Retries \in Nat /\ Rows \in Nat /\ Kinds \in [Clients -> SUBSET AllKinds]
  /\ \A c \in Clients : MaxCalls[c] \in Nat
  /\ NServers \in Nat \ {0} /\ NConns \in Nat

Servers == 1 .. NServers
Ids     == 1 .. NConns

VARIABLES
  srv,    \* the state of each server process
  conn,   \* the connections of which one side or the other is open
  cl,     \* the state remote_ctable keeps, and where in a call the client is
  call,   \* the client's current or last call, and how it went: a history
  spent   \* faults and restarts so far

vars == <<srv, conn, cl, call, spent>>

NoSock == 0
Fresh == [up |-> TRUE, listens |-> TRUE, closing |-> FALSE, table |-> TRUE, goesTo |-> 0, cached |-> {}]
Dead  == [up |-> FALSE, listens |-> FALSE, closing |-> FALSE, table |-> FALSE, goesTo |-> 0, cached |-> {}]
NoCall == [kind |-> "none", to |-> 0, tries |-> 0, sent |-> 0, done |-> 0, seen |-> 0, got |-> 0, res |-> "none",
           after |-> FALSE]

Request == [n : Nat, kind : AllKinds, to : Servers \cup {0}]
Answer  == [n : Nat, what : {"k", "gone", "r", "m", "row", "end"}, to : Servers \cup {0}]
Conn == [client : Clients, server : Servers, in : Seq(Request), out : Seq(Answer),
         held : BOOLEAN, serves : BOOLEAN, cut : BOOLEAN]

ServerState == [up : BOOLEAN, listens : BOOLEAN, closing : BOOLEAN, table : BOOLEAN,
                goesTo : Servers \cup {0}, cached : SUBSET Clients]
ClientState == [pc : {"idle", "send", "wait", "rows", "final"}, url : Servers,
                sock : Ids \cup {NoSock}, eof : BOOLEAN, left : BOOLEAN, n : Nat]
CallState   == [kind : AllKinds \cup {"none"}, to : Servers \cup {0}, tries : 0 .. Retries,
                sent : Nat, done : Nat, seen : Nat, got : Nat,
                res : {"none", "ok", "error", "moved", "stopped"}, after : BOOLEAN]

TypeOK ==
  /\ srv \in [Servers -> ServerState]
  /\ DOMAIN conn \subseteq Ids
  /\ \A i \in DOMAIN conn : conn[i] \in Conn
  /\ cl \in [Clients -> ClientState]
  /\ call \in [Clients -> CallState]
  /\ \A c \in Clients :
       cl[c].sock # NoSock => /\ cl[c].sock \in DOMAIN conn
                              /\ conn[cl[c].sock].client = c
                              /\ conn[cl[c].sock].held

Init ==
  /\ srv = [s \in Servers |-> Fresh]
  /\ conn = <<>>
  /\ cl = [c \in Clients |-> [pc |-> "idle", url |-> 1, sock |-> NoSock, eof |-> FALSE, left |-> FALSE, n |-> 0]]
  /\ call = [c \in Clients |-> NoCall]
  /\ spent = [faults |-> 0, restarts |-> 0]

-----------------------------------------------------------------------------
(* Connections.                                                            *)

\* A connection is gone when both sides have closed it.
Tidy(f) == Restrict(f, {i \in DOMAIN f : f[i].held \/ f[i].serves})

HungUp(f, i) == IF i = NoSock THEN f ELSE Tidy([f EXCEPT ![i].held = FALSE, ![i].out = <<>>])
Closed(f, i) == Tidy([f EXCEPT ![i].serves = FALSE, ![i].in = <<>>])

ClientsOf(f, s) == {i \in DOMAIN f : f[i].server = s /\ f[i].serves}
Abandoned(f, s) == Tidy([i \in DOMAIN f |-> IF f[i].server = s
                                            THEN [f[i] EXCEPT !.serves = FALSE, !.in = <<>>]
                                            ELSE f[i]])

\* What is written to a connection that the other side has closed is lost.
Written(f, i, answers) ==
  [f EXCEPT ![i].in = Tail(@), ![i].out = IF f[i].held /\ ~f[i].cut THEN @ \o answers ELSE @]

-----------------------------------------------------------------------------
(* The client.                                                             *)

Sock(c) == conn[cl[c].sock]
AtEnd(c) == Sock(c).out = <<>> /\ (Sock(c).cut \/ ~Sock(c).serves)
NextLine(c) == Head(Sock(c).out)
Read(c) == [conn EXCEPT ![cl[c].sock].out = Tail(@)]

\* remote_ctable_cache_disconnect, and the client's state after it.
Disconnect(c) == conn' = HungUp(conn, cl[c].sock)
Without(c) == [cl[c] EXCEPT !.sock = NoSock, !.eof = FALSE, !.left = FALSE]

Return(c, after, res, got) ==
  /\ cl' = [cl EXCEPT ![c] = [after EXCEPT !.pc = "idle"]]
  /\ call' = [call EXCEPT ![c].res = res, ![c].got = got, ![c].tries = 0]

\* remote_ctable_invoke.
Call(c, kind, to) ==
  /\ cl[c].pc = "idle" /\ cl[c].n < MaxCalls[c]
  /\ IF kind \in Moving THEN to > cl[c].url ELSE to = 0
  /\ cl' = [cl EXCEPT ![c].pc = "send", ![c].n = @ + 1]
  /\ call' = [call EXCEPT ![c] = [NoCall EXCEPT !.kind = kind, !.to = to, !.after = cl[c].left]]
  /\ UNCHANGED <<srv, conn, spent>>

\* remote_ctable_cache_connect: a socket of which the end was read is replaced.
Disconnected(c) == cl[c].pc = "send" /\ (cl[c].sock = NoSock \/ cl[c].eof)

Unused == CHOOSE i \in Ids : i \notin DOMAIN conn

Connect(c) ==
  /\ Disconnected(c) /\ srv[cl[c].url].listens
  /\ DOMAIN conn # Ids
  /\ LET new == [client |-> c, server |-> cl[c].url, in |-> <<>>, out |-> <<>>,
                 held |-> TRUE, serves |-> TRUE, cut |-> FALSE]
         old == HungUp(conn, cl[c].sock)
     IN  conn' = [i \in DOMAIN old \cup {Unused} |-> IF i = Unused THEN new ELSE old[i]]
  /\ cl' = [cl EXCEPT ![c].sock = Unused, ![c].eof = FALSE, ![c].left = FALSE]
  /\ UNCHANGED <<srv, call, spent>>

ConnectFails(c) ==
  /\ Disconnected(c) /\ ~srv[cl[c].url].listens
  /\ Disconnect(c)
  /\ Return(c, Without(c), "error", 0)
  /\ UNCHANGED <<srv, spent>>

Send(c) ==
  /\ cl[c].pc = "send" /\ ~Disconnected(c)
  /\ LET line == [n |-> cl[c].n, kind |-> call[c].kind, to |-> call[c].to]
     IN  conn' = IF Sock(c).serves /\ ~Sock(c).cut
                 THEN [conn EXCEPT ![cl[c].sock].in = Append(@, line)] ELSE conn
  /\ cl' = [cl EXCEPT ![c].pc = "wait"]
  /\ call' = [call EXCEPT ![c].sent = @ + 1]
  /\ UNCHANGED <<srv, spent>>

\* No answer: remote_ctable_send tries again, on a new connection.
Retry(c) ==
  /\ cl[c].pc = "wait" /\ AtEnd(c)
  /\ IF call[c].tries = Retries
     THEN conn' = conn /\ Return(c, [cl[c] EXCEPT !.eof = TRUE], "error", 0)
     ELSE /\ Disconnect(c)
          /\ cl' = [cl EXCEPT ![c] = [Without(c) EXCEPT !.pc = "send"]]
          /\ call' = [call EXCEPT ![c].tries = @ + 1]
  /\ UNCHANGED <<srv, spent>>

GiveUp_Again(c) ==
  /\ cl[c].pc = "final" /\ AtEnd(c)
  /\ Disconnect(c)
  /\ cl' = [cl EXCEPT ![c] = [Without(c) EXCEPT !.pc = "send"]]
  /\ UNCHANGED <<srv, call, spent>>

\* The end after "m": there is no retry, and the socket stays.
GiveUp(c) ==
  /\ cl[c].pc = "final" /\ AtEnd(c)
  /\ Return(c, [cl[c] EXCEPT !.eof = TRUE], "error", 0)
  /\ UNCHANGED <<srv, conn, spent>>

Waiting(c) == cl[c].pc \in {"wait", "final"} /\ Sock(c).out # <<>>

\* "k" and "e" return, and so does any line that is not an answer.
GetResult(c) ==
  /\ Waiting(c) /\ NextLine(c).what \notin {"m", "r"}
  /\ conn' = Read(c)
  /\ Return(c, cl[c], IF NextLine(c).what = "k" THEN "ok" ELSE "error", NextLine(c).n)
  /\ UNCHANGED <<srv, spent>>

\* "r": the table is at another URL from now on, and the call is sent there.
Follow(c) ==
  /\ Waiting(c) /\ NextLine(c).what = "r" /\ call[c].kind \notin NoRedirect
  /\ Disconnect(c)
  /\ cl' = [cl EXCEPT ![c] = [Without(c) EXCEPT !.pc = "send", !.url = NextLine(c).to]]
  /\ call' = [call EXCEPT ![c].tries = 0]
  /\ UNCHANGED <<srv, spent>>

\* redirect and shutdown do not follow the table: they return "".
StayBehind(c) ==
  /\ Waiting(c) /\ NextLine(c).what = "r" /\ call[c].kind \in NoRedirect
  /\ conn' = Read(c)
  /\ Return(c, cl[c], "moved", NextLine(c).n)
  /\ UNCHANGED <<srv, spent>>

StartRows(c) ==
  /\ Waiting(c) /\ NextLine(c).what = "m"
  /\ conn' = Read(c)
  /\ cl' = [cl EXCEPT ![c].pc = "rows"]
  /\ UNCHANGED <<srv, call, spent>>

Reading(c) == cl[c].pc = "rows" /\ ~AtEnd(c) /\ Sock(c).out # <<>>

\* A row for the script of search -code, or for read_tabsep of search -into.
ReadRow(c) ==
  /\ Reading(c) /\ NextLine(c).what # "end"
  /\ conn' = Read(c)
  /\ call' = [call EXCEPT ![c].seen = @ + 1]
  /\ UNCHANGED <<srv, cl, spent>>

Stop_Connected(c) ==
  /\ Reading(c) /\ call[c].kind = "search" /\ NextLine(c).what # "end"
  /\ conn' = conn
  /\ Return(c, cl[c], "stopped", 0)
  /\ UNCHANGED <<srv, spent>>

\* The script ends the search with an error, a break or a return.
Stop(c) ==
  /\ Reading(c) /\ call[c].kind = "search" /\ NextLine(c).what # "end"
  /\ Disconnect(c)
  /\ Return(c, Without(c), "stopped", 0)
  /\ UNCHANGED <<srv, spent>>

\* read_tabsep fails in a row; or, with all rows read, the script that follows it
\* ends with an error or a return.  The socket stays, with the rest unread; left
\* remembers that (it is not in the code).
IntoStops(c) ==
  /\ Reading(c) /\ call[c].kind = "into"
  /\ conn' = Read(c)
  /\ Return(c, [cl[c] EXCEPT !.left = TRUE], "stopped", 0)
  /\ UNCHANGED <<srv, spent>>

EndRows_Line(c) ==
  /\ Reading(c) /\ NextLine(c).what = "end" /\ conn' = Read(c)
  /\ cl' = [cl EXCEPT ![c].pc = "final"]
  /\ UNCHANGED <<srv, call, spent>>

\* "\." or the end of the connection.
EndRows(c) ==
  /\ cl[c].pc = "rows"
  /\ \/ Reading(c) /\ NextLine(c).what = "end" /\ conn' = Read(c)
     \/ AtEnd(c) /\ conn' = conn
  /\ cl' = [cl EXCEPT ![c].pc = "final"]
  /\ UNCHANGED <<srv, call, spent>>

\* handle_cttp_timeout.  The -timeout of a table is not kept when it moves.
Timeout(c) ==
  /\ cl[c].pc = "idle" /\ cl[c].url = 1 /\ cl[c].sock # NoSock
  /\ Disconnect(c)
  /\ cl' = [cl EXCEPT ![c] = Without(c)]
  /\ UNCHANGED <<srv, call, spent>>
-----------------------------------------------------------------------------
(* The server.                                                             *)

Asked(i) == i \in DOMAIN conn /\ conn[i].serves /\ conn[i].in # <<>>
Line(i) == Head(conn[i].in)
Says(i, what) == [n |-> Line(i).n, what |-> what, to |-> 0]

\* remote_receive looks for a redirect only when the URL is not in its cache.
IsMoved(i) == conn[i].client \notin srv[conn[i].server].cached /\ srv[conn[i].server].goesTo # 0
Known(i) == srv[conn[i].server].cached \cup {conn[i].client}

Serves(i, kinds) == Asked(i) /\ ~IsMoved(i) /\ Line(i).kind \in kinds

\* The call, if it is still its client's last one, has been done once more.
Did(i) ==
  LET c == conn[i].client
  IN  call' = [call EXCEPT ![c].done = IF Line(i).n = cl[c].n THEN @ + 1 ELSE @]

TellMoved(i) ==
  /\ Asked(i) /\ IsMoved(i)
  /\ conn' = Written(conn, i, <<[Says(i, "r") EXCEPT !.to = srv[conn[i].server].goesTo]>>)
  /\ UNCHANGED <<srv, cl, call, spent>>

\* A command of the table; a search streams its rows before the result.
Results(i) ==
  IF ~srv[conn[i].server].table THEN <<Says(i, "gone")>>
  ELSE IF Line(i).kind = "set" THEN <<Says(i, "k")>>
  ELSE <<Says(i, "m")>> \o [r \in 1 .. Rows |-> Says(i, "row")] \o <<Says(i, "end"), Says(i, "k")>>

Command(i) ==
  /\ Serves(i, {"set", "search", "into"})
  /\ conn' = Written(conn, i, Results(i))
  /\ srv' = [srv EXCEPT ![conn[i].server].cached = Known(i)]
  /\ IF srv[conn[i].server].table THEN Did(i) ELSE call' = call
  /\ UNCHANGED <<cl, spent>>

\* register_redirect_ctable: the port is opened again, and every URL of the table
\* is taken out of the cache.
Uncached_Own(s, c) == srv[s].cached \ {c}
Uncached(s, c) == {}
Moved(s, c, to) ==
  [srv[s] EXCEPT !.listens = TRUE, !.goesTo = to, !.table = FALSE, !.cached = Uncached(s, c)]
Closing(state) == [state EXCEPT !.listens = FALSE, !.closing = TRUE]

Redirect(i) ==
  /\ Serves(i, Moving)
  /\ LET s == conn[i].server
         moved == Moved(s, conn[i].client, Line(i).to)
     IN  srv' = [srv EXCEPT ![s] = IF Line(i).kind = "retire" THEN Closing(moved) ELSE moved]
  /\ conn' = Written(conn, i, <<Says(i, "k")>>)
  /\ Did(i)
  /\ UNCHANGED <<cl, spent>>

Shutdown(i) ==
  /\ Serves(i, {"shutdown"})
  /\ srv' = [srv EXCEPT ![conn[i].server] = [Closing(@) EXCEPT !.cached = Known(i)]]
  /\ conn' = Written(conn, i, <<Says(i, "k")>>)
  /\ Did(i)
  /\ UNCHANGED <<cl, spent>>

\* shutdown -nowait: serverdie, with every client still connected.
ShutdownNow(i) ==
  /\ Serves(i, {"nowait"})
  /\ srv' = [srv EXCEPT ![conn[i].server] = Dead]
  /\ conn' = Abandoned(Written(conn, i, <<Says(i, "k")>>), conn[i].server)
  /\ Did(i)
  /\ UNCHANGED <<cl, spent>>

HandleEof_None(i, f, cached) ==
  LET s == conn[i].server
  IN  /\ conn' = Closed(f, i)
      /\ srv' = [srv EXCEPT ![s] = IF @.closing /\ ClientsOf(f, s) = {} THEN Dead
                                   ELSE [@ EXCEPT !.cached = cached]]

\* handle_eof: a server that is shutting down ends with its last client.
HandleEof(i, f, cached) ==
  LET s == conn[i].server
  IN  /\ conn' = Closed(f, i)
      /\ srv' = [srv EXCEPT ![s] = IF @.closing /\ ClientsOf(f, s) = {i} THEN Dead
                                   ELSE [@ EXCEPT !.cached = cached]]

Quit(i) ==
  /\ Serves(i, {"quit"})
  /\ HandleEof(i, Written(conn, i, <<Says(i, "k")>>), Known(i))
  /\ Did(i)
  /\ UNCHANGED <<cl, spent>>

ServerEof(i) ==
  /\ i \in DOMAIN conn /\ conn[i].serves /\ conn[i].in = <<>> /\ (conn[i].cut \/ ~conn[i].held)
  /\ HandleEof(i, conn, srv[conn[i].server].cached)
  /\ UNCHANGED <<cl, call, spent>>

Serve(i) ==
  \/ TellMoved(i) \/ Command(i) \/ Redirect(i) \/ Shutdown(i) \/ ShutdownNow(i) \/ Quit(i)
  \/ ServerEof(i)

-----------------------------------------------------------------------------
(* The network and the machines.                                           *)

\* Of what is under way nothing or all is lost: to lose the rest of an answer is
\* to break when the client has read the beginning.
Break(i) ==
  /\ i \in DOMAIN conn /\ ~conn[i].cut /\ spent.faults < MaxFaults
  /\ \E in \in {conn[i].in, <<>>}, out \in {conn[i].out, <<>>} :
       conn' = [conn EXCEPT ![i].cut = TRUE, ![i].in = in, ![i].out = out]
  /\ spent' = [spent EXCEPT !.faults = @ + 1]
  /\ UNCHANGED <<srv, cl, call>>

Crash(s) ==
  /\ srv[s].up /\ spent.faults < MaxFaults
  /\ srv' = [srv EXCEPT ![s] = Dead]
  /\ conn' = Abandoned(conn, s)
  /\ spent' = [spent EXCEPT !.faults = @ + 1]
  /\ UNCHANGED <<cl, call>>

\* The application starts its server again, with the table.
Restart(s) ==
  /\ ~srv[s].up /\ spent.restarts < MaxRestarts
  /\ srv' = [srv EXCEPT ![s] = Fresh]
  /\ spent' = [spent EXCEPT !.restarts = @ + 1]
  /\ UNCHANGED <<conn, cl, call>>

-----------------------------------------------------------------------------
\* What a client does of itself once a call is begun.
Progress(c) ==
  \/ Connect(c) \/ ConnectFails(c) \/ Send(c) \/ Retry(c) \/ GiveUp(c) \/ GetResult(c)
  \/ Follow(c) \/ StayBehind(c) \/ StartRows(c) \/ ReadRow(c) \/ Stop(c) \/ IntoStops(c) \/ EndRows(c)

Next ==
  \/ \E c \in Clients :
       \/ \E kind \in Kinds[c], to \in Servers \cup {0} : Call(c, kind, to)
       \/ Progress(c) \/ Timeout(c)
  \/ \E i \in Ids : Serve(i) \/ Break(i)
  \/ \E s \in Servers : Crash(s) \/ Restart(s)

\* Clients and servers run on; a timer that is due fires in an idle client.
Fairness ==
  /\ \A c \in Clients : WF_vars(Progress(c) \/ Timeout(c))
  /\ \A s \in Servers : WF_vars(\E i \in DOMAIN conn : conn[i].server = s /\ Serve(i))

Spec == Init /\ [][Next]_vars /\ Fairness

-----------------------------------------------------------------------------
(* Properties.                                                             *)

\* The result that a call returns is an answer to that call, not one left from
\* an earlier call on the connection: remote_ctable_send disconnects whenever it
\* leaves answers unread, but after a search -into that failed.
AnswersMatch ==
  TypeOK /\ \A c \in Clients : ~call[c].after => call[c].got \in {0, cl[c].n}

\* A call that returns a result has been done: once if it was sent once, and a
\* search has given all its rows, each of them once, though the connection
\* may have broken at any point (the retry loop ends with the first line).
AnsweredIsDone ==
  \A c \in Clients :
    call[c].res = "ok" /\ ~call[c].after =>
      /\ call[c].done >= 1
      /\ call[c].sent = 1 => call[c].done = 1
      /\ call[c].kind \in {"search", "into"} => call[c].seen = Rows

\* No client of a table that has moved is told that there is no such table, by
\* whatever URL it knows it and however late it asks
\* (register_redirect_ctable and the URL cache of remote_receive).
NoOneIsLost == \A i \in DOMAIN conn : \A k \in DOMAIN conn[i].out : conn[i].out[k].what # "gone"

\* Every call returns, whatever breaks and whoever shuts down.
CallsReturn == \A c \in Clients : []<>(cl[c].pc = "idle")

\* A server told to shut down ends, once its clients have timed out or moved:
\* unless one of them stays that has no timeout.
StaysConnected(c, s) == cl[c].url = s /\ s # 1 /\ cl[c].sock # NoSock
ShutdownEnds ==
  \A s \in Servers : []<>(srv[s].closing => \E c \in Clients : StaysConnected(c, s))

=============================================================================
