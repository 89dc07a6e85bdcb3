-------------------------- MODULE RemoteTableProofs --------------------------
(***************************************************************************)
(* Answers belong to their calls, who asks for a table that has moved is   *)
(* told where, and a call that returns its result has been done: for any   *)
(* clients, servers, calls and retries, whatever connections break and     *)
(* whatever servers crash.                                                 *)
(***************************************************************************)
EXTENDS RemoteTable, SequenceTheorems, TLAPS

-----------------------------------------------------------------------------
(* Sequences.                                                              *)

LEMMA RangeOfTail ==
  ASSUME NEW S, NEW s \in Seq(S), s # <<>>
  PROVE  /\ Tail(s) \in Seq(S) /\ Range(Tail(s)) \subseteq Range(s)
         /\ Head(s) \in Range(s) /\ Head(s) \in S
BY DEF Range

LEMMA RangeOfAppend ==
  ASSUME NEW S, NEW s \in Seq(S), NEW x \in S
  PROVE  Append(s, x) \in Seq(S) /\ Range(Append(s, x)) \subseteq Range(s) \cup {x}
BY DEF Range

LEMMA RangeOfConcat ==
  ASSUME NEW S, NEW s \in Seq(S), NEW t \in Seq(S)
  PROVE  s \o t \in Seq(S) /\ Range(s \o t) \subseteq Range(s) \cup Range(t)
BY DEF Range

LEMMA RangeOfEmpty == \A S : <<>> \in Seq(S) /\ Range(<<>>) = {}
BY DEF Range

-----------------------------------------------------------------------------
(* Connections.                                                            *)

Conns(f) == DOMAIN f \subseteq Ids /\ \A i \in DOMAIN f : f[i] \in Conn

\* In g, no connection is new and nothing has been written to one.
Shrinks(f, g) ==
  /\ DOMAIN g \subseteq DOMAIN f
  /\ \A i \in DOMAIN g :
       /\ g[i].server = f[i].server /\ g[i].client = f[i].client
       /\ g[i].serves => f[i].serves
       /\ Range(g[i].in) \subseteq Range(f[i].in)
       /\ Range(g[i].out) \subseteq Range(f[i].out)

LEMMA TidyIs ==
  ASSUME NEW f
  PROVE  /\ DOMAIN Tidy(f) \subseteq DOMAIN f
         /\ \A i \in DOMAIN Tidy(f) : Tidy(f)[i] = f[i]
         /\ \A i \in DOMAIN f : f[i].held \/ f[i].serves => i \in DOMAIN Tidy(f)
BY DEF Tidy, Restrict

LEMMA HungUpIs ==
  ASSUME NEW f, Conns(f), NEW i
  PROVE  /\ Conns(HungUp(f, i)) /\ Shrinks(f, HungUp(f, i))
         /\ \A j \in DOMAIN HungUp(f, i) \ {i} : HungUp(f, i)[j] = f[j]
         /\ \A j \in DOMAIN f \ {i} : f[j].held => j \in DOMAIN HungUp(f, i)
<1>1. CASE i = NoSock
  BY <1>1 DEF HungUp, Shrinks
<1>2. CASE i # NoSock
  <2> DEFINE g == [f EXCEPT ![i].held = FALSE, ![i].out = <<>>]
             h == [f[i] EXCEPT !.held = FALSE, !.out = <<>>]
  <2>1. HungUp(f, i) = Tidy(g)
    BY <1>2 DEF HungUp
  <2>2. /\ DOMAIN g = DOMAIN f /\ \A j \in DOMAIN f \ {i} : g[j] = f[j]
        /\ i \in DOMAIN f => g[i] = h
    OBVIOUS
  <2>3. i \in DOMAIN f => /\ h \in Conn /\ h.server = f[i].server /\ h.client = f[i].client
                          /\ h.serves = f[i].serves /\ h.in = f[i].in /\ h.out = <<>>
    BY RangeOfEmpty DEF Conns, Conn
  <2> HIDE DEF g, h
  <2>4. Conns(g)
    BY <2>2, <2>3 DEF Conns
  <2>5. Shrinks(f, g)
    BY <2>2, <2>3, RangeOfEmpty DEF Shrinks
  <2>6. /\ DOMAIN Tidy(g) \subseteq DOMAIN g
        /\ \A j \in DOMAIN Tidy(g) : Tidy(g)[j] = g[j]
        /\ \A j \in DOMAIN g : g[j].held => j \in DOMAIN Tidy(g)
    BY TidyIs
  <2>7. Conns(Tidy(g)) /\ Shrinks(f, Tidy(g))
    BY <2>2, <2>4, <2>5, <2>6 DEF Conns, Shrinks
  <2> QED BY <2>1, <2>2, <2>6, <2>7
<1> QED BY <1>1, <1>2

\* The server has closed the connection i, or every one of the server s.
LEMMA ClosedIs ==
  ASSUME NEW f, Conns(f), NEW i \in DOMAIN f
  PROVE  /\ Conns(Closed(f, i)) /\ Shrinks(f, Closed(f, i))
         /\ \A j \in DOMAIN Closed(f, i) :
              /\ Closed(f, i)[j].held = f[j].held /\ Closed(f, i)[j].out = f[j].out
              /\ Closed(f, i)[j].in = f[j].in \/ Closed(f, i)[j].in = <<>>
              /\ j = i => ~Closed(f, i)[j].serves
         /\ \A j \in DOMAIN f : f[j].held => j \in DOMAIN Closed(f, i)
<1> DEFINE g == [f EXCEPT ![i].serves = FALSE, ![i].in = <<>>]
           h == [f[i] EXCEPT !.serves = FALSE, !.in = <<>>]
<1>1. DOMAIN g = DOMAIN f /\ g[i] = h /\ \A j \in DOMAIN f \ {i} : g[j] = f[j]
  OBVIOUS
<1>2. /\ h \in Conn /\ h.server = f[i].server /\ h.client = f[i].client /\ h.held = f[i].held
      /\ ~h.serves /\ h.in = <<>> /\ h.out = f[i].out
  BY RangeOfEmpty DEF Conns, Conn
<1>3. Closed(f, i) = Tidy(g)
  BY DEF Closed
<1> HIDE DEF g, h
<1>4. Conns(g) /\ Shrinks(f, g)
  BY <1>1, <1>2, RangeOfEmpty DEF Conns, Shrinks
<1>5. \A j \in DOMAIN f :
        /\ g[j].held = f[j].held /\ g[j].out = f[j].out
        /\ g[j].in = f[j].in \/ g[j].in = <<>>
        /\ j = i => ~g[j].serves
  BY <1>1, <1>2
<1>6. /\ DOMAIN Tidy(g) \subseteq DOMAIN g
      /\ \A j \in DOMAIN Tidy(g) : Tidy(g)[j] = g[j]
      /\ \A j \in DOMAIN g : g[j].held => j \in DOMAIN Tidy(g)
  BY TidyIs
<1>7. Conns(Tidy(g)) /\ Shrinks(f, Tidy(g))
  BY <1>1, <1>4, <1>6 DEF Conns, Shrinks
<1> QED BY <1>1, <1>3, <1>5, <1>6, <1>7

LEMMA AbandonedIs ==
  ASSUME NEW f, Conns(f), NEW s
  PROVE  /\ Conns(Abandoned(f, s)) /\ Shrinks(f, Abandoned(f, s))
         /\ \A j \in DOMAIN Abandoned(f, s) :
              /\ Abandoned(f, s)[j].held = f[j].held /\ Abandoned(f, s)[j].out = f[j].out
              /\ Abandoned(f, s)[j].in = f[j].in \/ Abandoned(f, s)[j].in = <<>>
              /\ f[j].server = s => ~Abandoned(f, s)[j].serves
         /\ \A j \in DOMAIN f : f[j].held => j \in DOMAIN Abandoned(f, s)
<1> DEFINE h(j) == [f[j] EXCEPT !.serves = FALSE, !.in = <<>>]
           g == [j \in DOMAIN f |-> IF f[j].server = s THEN h(j) ELSE f[j]]
<1>1. \A j \in DOMAIN f :
        /\ h(j) \in Conn /\ h(j).server = f[j].server /\ h(j).client = f[j].client
        /\ h(j).held = f[j].held /\ ~h(j).serves /\ h(j).in = <<>> /\ h(j).out = f[j].out
  BY RangeOfEmpty DEF Conns, Conn
<1>2. Abandoned(f, s) = Tidy(g)
  BY DEF Abandoned
<1>3. DOMAIN g = DOMAIN f /\ \A j \in DOMAIN f : g[j] = IF f[j].server = s THEN h(j) ELSE f[j]
  OBVIOUS
<1> HIDE DEF g, h
<1>4. Conns(g) /\ Shrinks(f, g)
  BY <1>1, <1>3, RangeOfEmpty DEF Conns, Shrinks
<1>5. \A j \in DOMAIN f :
        /\ g[j].held = f[j].held /\ g[j].out = f[j].out
        /\ g[j].in = f[j].in \/ g[j].in = <<>>
        /\ f[j].server = s => ~g[j].serves
  BY <1>1, <1>3
<1>6. /\ DOMAIN Tidy(g) \subseteq DOMAIN g
      /\ \A j \in DOMAIN Tidy(g) : Tidy(g)[j] = g[j]
      /\ \A j \in DOMAIN g : g[j].held => j \in DOMAIN Tidy(g)
  BY TidyIs
<1>7. Conns(Tidy(g)) /\ Shrinks(f, Tidy(g))
  BY <1>3, <1>4, <1>6 DEF Conns, Shrinks
<1> QED BY <1>2, <1>3, <1>5, <1>6, <1>7

LEMMA WrittenIs ==
  ASSUME NEW f, Conns(f), NEW i \in DOMAIN f, f[i].in # <<>>, NEW answers \in Seq(Answer)
  PROVE  /\ Conns(Written(f, i, answers)) /\ DOMAIN Written(f, i, answers) = DOMAIN f
         /\ \A j \in DOMAIN f \ {i} : Written(f, i, answers)[j] = f[j]
         /\ LET g == Written(f, i, answers)[i]
            IN  /\ g.client = f[i].client /\ g.server = f[i].server
                /\ g.held = f[i].held /\ g.serves = f[i].serves
                /\ g.in = Tail(f[i].in) /\ (g.out = f[i].out \/ g.out = f[i].out \o answers)
<1> DEFINE out == IF f[i].held /\ ~f[i].cut THEN f[i].out \o answers ELSE f[i].out
           h == [f[i] EXCEPT !.in = Tail(@), !.out = out]
           g == Written(f, i, answers)
<1>1. DOMAIN g = DOMAIN f /\ g[i] = h /\ \A j \in DOMAIN f \ {i} : g[j] = f[j]
  BY DEF Written
<1>2. f[i].in \in Seq(Request) /\ f[i].out \in Seq(Answer) /\ f[i] \in Conn
  BY DEF Conns, Conn
<1>3. Tail(f[i].in) \in Seq(Request) /\ out \in Seq(Answer)
  BY <1>2, RangeOfTail, RangeOfConcat
<1>4. out = f[i].out \/ out = f[i].out \o answers
  OBVIOUS
<1> HIDE DEF out, g
<1>5. /\ h \in Conn /\ h.client = f[i].client /\ h.server = f[i].server /\ h.held = f[i].held
      /\ h.serves = f[i].serves /\ h.in = Tail(f[i].in) /\ h.out = out
  BY <1>2, <1>3 DEF Conn
<1> HIDE DEF h
<1>6. Conns(g)
  BY <1>1, <1>5 DEF Conns
<1> QED BY <1>1, <1>4, <1>5, <1>6 DEF g

-----------------------------------------------------------------------------
(* The invariants.                                                         *)

\* A client in the midst of a call has a call, and a connection once it has sent it.
Types ==
  /\ TypeOK
  /\ \A c \in Clients :
       /\ cl[c].pc # "idle" => call[c].kind \in AllKinds
       /\ cl[c].pc \in {"wait", "rows", "final"} => cl[c].sock # NoSock

\* A server without the table knows where it is, and answers nobody from its cache.
ServersKnow ==
  \A s \in Servers :
    /\ srv[s].goesTo # 0 => srv[s].cached = {}
    /\ srv[s].listens => srv[s].table \/ srv[s].goesTo # 0

HasTable(i) == srv[conn[i].server].table \/ srv[conn[i].server].goesTo # 0

\* Who is connected is connected to such a server; nothing else is on the way.
LinesLead ==
  /\ \A i \in DOMAIN conn :
       /\ conn[i].serves => HasTable(i)
       /\ \A x \in Range(conn[i].in) : x.kind \in Moving => x.to # 0
       /\ \A x \in Range(conn[i].out) : x.what # "gone" /\ (x.what = "r" => x.to # 0)
  /\ \A c \in Clients : call[c].kind \in Moving => call[c].to # 0

\* What is left of the rows of a search, with the result after them.
RowsLeft(q) ==
  /\ Len(q) >= 2 /\ q[Len(q)].what = "k" /\ q[Len(q) - 1].what = "end"
  /\ \A k \in 1 .. Len(q) - 2 : q[k].what = "row"

\* The answer to one call.
OneAnswer(q) ==
  \/ Len(q) = 1 /\ q[1].what # "m"
  \/ Len(q) > 1 /\ q[1].what = "m" /\ RowsLeft(Tail(q))

\* What may be on the way when the client is at pc in its n-th call.
Fits(pc, n, in, out) ==
  /\ \A x \in Range(in) \cup Range(out) : x.n = n
  /\ pc \in {"idle", "send"} => in = <<>> /\ out = <<>>
  /\ pc = "wait" => (out = <<>> /\ Len(in) <= 1) \/ (in = <<>> /\ OneAnswer(out))
  /\ pc = "rows" => in = <<>> /\ (out = <<>> \/ RowsLeft(out))
  /\ pc = "final" => in = <<>> /\ (out = <<>> \/ (Len(out) = 1 /\ out[1].what = "k"))

\* The connection of c, unless the end of it has been read or answers were left in it.
InStepOf(c) ==
  cl[c].sock # NoSock /\ ~cl[c].eof /\ ~cl[c].left =>
    Fits(cl[c].pc, cl[c].n, conn[cl[c].sock].in, conn[cl[c].sock].out)

GotOwn(c) ==
  /\ cl[c].eof => cl[c].pc \in {"idle", "send"}
  /\ cl[c].left => cl[c].pc = "idle" \/ call[c].after
  /\ ~call[c].after => call[c].got \in {0, cl[c].n}

InStep == \A c \in Clients : InStepOf(c) /\ GotOwn(c)

IInv == Types /\ ServersKnow /\ LinesLead /\ InStep

-----------------------------------------------------------------------------
(* Steps of a client.                                                      *)

LEMMA ConnsAre == ASSUME Types PROVE Conns(conn)
BY DEF Types, TypeOK, Conns

LEMMA SockIs ==
  ASSUME Types, NEW c \in Clients, cl[c].sock # NoSock
  PROVE  /\ cl[c].sock \in DOMAIN conn /\ conn[cl[c].sock] \in Conn
         /\ conn[cl[c].sock].client = c /\ conn[cl[c].sock].held
         /\ Sock(c) = conn[cl[c].sock]
         /\ \A d \in Clients \ {c} : cl[d].sock # cl[c].sock
BY DEF Types, TypeOK, Sock

\* Connections only lose lines, and the servers stay as they are.
LEMMA ShrinkLeads ==
  ASSUME LinesLead, Shrinks(conn, conn'), UNCHANGED srv,
         \A c \in Clients : call'[c].kind \in Moving => call'[c].to # 0
  PROVE  LinesLead'
BY DEF LinesLead, Shrinks, HasTable

\* The connection and the call of every other client are as they were.
LEMMA OthersInStep ==
  ASSUME InStep, NEW c,
         \A d \in Clients \ {c} :
           /\ cl'[d] = cl[d] /\ call'[d] = call[d]
           /\ cl[d].sock # NoSock => conn'[cl[d].sock] = conn[cl[d].sock],
         c \in Clients => InStepOf(c)' /\ GotOwn(c)'
  PROVE  InStep'
BY DEF InStep, InStepOf, GotOwn

\* The client hangs up.
LEMMA HangUp ==
  ASSUME Types, NEW c \in Clients, conn' = HungUp(conn, cl[c].sock)
  PROVE  /\ Conns(conn') /\ Shrinks(conn, conn')
         /\ \A d \in Clients \ {c} :
              cl[d].sock # NoSock => cl[d].sock \in DOMAIN conn' /\ conn'[cl[d].sock] = conn[cl[d].sock]
<1>1. /\ Conns(conn') /\ Shrinks(conn, conn')
      /\ \A j \in DOMAIN conn' \ {cl[c].sock} : conn'[j] = conn[j]
      /\ \A j \in DOMAIN conn \ {cl[c].sock} : conn[j].held => j \in DOMAIN conn'
  BY ConnsAre, HungUpIs
<1>2. ASSUME NEW d \in Clients \ {c}, cl[d].sock # NoSock
      PROVE  cl[d].sock \in DOMAIN conn' /\ conn'[cl[d].sock] = conn[cl[d].sock]
  <2>1. cl[d].sock \in DOMAIN conn /\ conn[cl[d].sock].held /\ cl[c].sock # cl[d].sock
    BY <1>2, SockIs
  <2> QED BY <1>1, <2>1
<1> QED BY <1>1, <1>2

\* The client reads a line.
LEMMA ReadIs ==
  ASSUME Types, NEW c \in Clients, cl[c].sock # NoSock, Sock(c).out # <<>>, conn' = Read(c)
  PROVE  /\ Conns(conn') /\ Shrinks(conn, conn') /\ DOMAIN conn' = DOMAIN conn
         /\ conn'[cl[c].sock].in = conn[cl[c].sock].in
         /\ conn'[cl[c].sock].out = Tail(conn[cl[c].sock].out)
         /\ conn'[cl[c].sock].client = c /\ conn'[cl[c].sock].held
         /\ \A j \in DOMAIN conn \ {cl[c].sock} : conn'[j] = conn[j]
<1> DEFINE i == cl[c].sock
           h == [conn[i] EXCEPT !.out = Tail(@)]
<1>1. /\ i \in DOMAIN conn /\ conn[i] \in Conn /\ conn[i].out \in Seq(Answer) /\ conn[i].out # <<>>
      /\ conn[i].client = c /\ conn[i].held
  BY SockIs DEF Conn
<1>2. Tail(conn[i].out) \in Seq(Answer) /\ Range(Tail(conn[i].out)) \subseteq Range(conn[i].out)
  BY <1>1, RangeOfTail
<1>3. DOMAIN conn' = DOMAIN conn /\ conn'[i] = h /\ \A j \in DOMAIN conn \ {i} : conn'[j] = conn[j]
  BY <1>1 DEF Read
<1>4. /\ h \in Conn /\ h.server = conn[i].server /\ h.client = conn[i].client /\ h.held = conn[i].held
      /\ h.serves = conn[i].serves /\ h.in = conn[i].in /\ h.out = Tail(conn[i].out)
  BY <1>1, <1>2 DEF Conn
<1> HIDE DEF h, i
<1>5. Conns(conn)
  BY ConnsAre
<1>6. Conns(conn')
  BY <1>3, <1>4, <1>5 DEF Conns
<1>7. Shrinks(conn, conn')
  BY <1>2, <1>3, <1>4 DEF Shrinks
<1> QED BY <1>1, <1>3, <1>4, <1>6, <1>7 DEF i

\* The client c comes to the state C, with K of its call.
Steps(c, C, K) == cl' = [cl EXCEPT ![c] = C] /\ call' = [call EXCEPT ![c] = K]

OthersKeep(c) ==
  \A d \in Clients \ {c} :
    cl[d].sock # NoSock => cl[d].sock \in DOMAIN conn' /\ conn'[cl[d].sock] = conn[cl[d].sock]

LEMMA ClientTypes ==
  ASSUME Types, NEW c \in Clients, NEW C \in ClientState, NEW K \in CallState, Steps(c, C, K),
         UNCHANGED srv, Conns(conn'), OthersKeep(c),
         C.pc # "idle" => K.kind \in AllKinds,
         C.pc \in {"wait", "rows", "final"} => C.sock # NoSock,
         C.sock # NoSock => /\ C.sock \in DOMAIN conn'
                            /\ conn'[C.sock].client = c /\ conn'[C.sock].held
  PROVE  Types'
<1>1. /\ cl \in [Clients -> ClientState] /\ call \in [Clients -> CallState]
      /\ srv \in [Servers -> ServerState]
  BY DEF Types, TypeOK
<1>2. /\ cl' \in [Clients -> ClientState] /\ call' \in [Clients -> CallState]
      /\ cl'[c] = C /\ call'[c] = K
      /\ \A d \in Clients \ {c} : cl'[d] = cl[d] /\ call'[d] = call[d]
  BY <1>1 DEF Steps
<1>3. TypeOK'
  <2>1. \A d \in Clients :
          cl'[d].sock # NoSock => /\ cl'[d].sock \in DOMAIN conn'
                                  /\ conn'[cl'[d].sock].client = d
                                  /\ conn'[cl'[d].sock].held
    BY <1>2 DEF Types, TypeOK, OthersKeep
  <2> QED BY <1>1, <1>2, <2>1 DEF TypeOK, Conns
<1>4. \A d \in Clients :
        /\ cl'[d].pc # "idle" => call'[d].kind \in AllKinds
        /\ cl'[d].pc \in {"wait", "rows", "final"} => cl'[d].sock # NoSock
  BY <1>2 DEF Types
<1> QED BY <1>3, <1>4 DEF Types

LEMMA ClientInStep ==
  ASSUME Types, InStep, NEW c \in Clients, NEW C \in ClientState, NEW K \in CallState, Steps(c, C, K),
         OthersKeep(c),
         C.sock # NoSock /\ ~C.eof /\ ~C.left => Fits(C.pc, C.n, conn'[C.sock].in, conn'[C.sock].out),
         C.eof => C.pc \in {"idle", "send"},
         C.left => C.pc = "idle" \/ K.after,
         ~K.after => K.got \in {0, C.n}
  PROVE  InStep'
<1>1. /\ cl'[c] = C /\ call'[c] = K
      /\ \A d \in Clients \ {c} : cl'[d] = cl[d] /\ call'[d] = call[d]
  BY DEF Steps, Types, TypeOK
<1>2. InStepOf(c)' /\ GotOwn(c)'
  BY <1>1 DEF InStepOf, GotOwn
<1> QED BY <1>1, <1>2, OthersInStep DEF OthersKeep

LEMMA ClientLeads ==
  ASSUME Types, ServersKnow, LinesLead, NEW c \in Clients, NEW C \in ClientState, NEW K \in CallState,
         Steps(c, C, K), Shrinks(conn, conn'), UNCHANGED srv,
         K.kind \in Moving => K.to # 0
  PROVE  ServersKnow' /\ LinesLead'
<1>1. call'[c] = K /\ \A d \in Clients \ {c} : call'[d] = call[d]
  BY DEF Steps, Types, TypeOK
<1>2. \A d \in Clients : call'[d].kind \in Moving => call'[d].to # 0
  BY <1>1 DEF LinesLead
<1>3. LinesLead'
  BY <1>2, ShrinkLeads
<1> QED BY <1>3 DEF ServersKnow

LEMMA SameConns ==
  ASSUME Types, UNCHANGED conn, NEW c
  PROVE  Conns(conn') /\ Shrinks(conn, conn') /\ OthersKeep(c)
<1>1. Conns(conn) /\ \A d \in Clients : cl[d].sock # NoSock => cl[d].sock \in DOMAIN conn
  BY ConnsAre DEF Types, TypeOK
<1> QED BY <1>1 DEF Shrinks, OthersKeep

\* The client returns, in the state C.
LEMMA ReturnIs ==
  ASSUME Types, NEW c \in Clients, NEW C \in ClientState, NEW got \in Nat,
         NEW res \in {"none", "ok", "error", "moved", "stopped"}, Return(c, C, res, got)
  PROVE  \E D \in ClientState, K \in CallState :
           /\ Steps(c, D, K)
           /\ D.pc = "idle" /\ D.sock = C.sock /\ D.eof = C.eof /\ D.left = C.left /\ D.n = C.n
           /\ K.kind = call[c].kind /\ K.to = call[c].to /\ K.after = call[c].after /\ K.got = got
<1> DEFINE D == [C EXCEPT !.pc = "idle"]
           K == [call[c] EXCEPT !.res = res, !.got = got, !.tries = 0]
<1>1. call[c] \in CallState /\ Retries \in Nat
  BY SizesAssumption DEF Types, TypeOK
<1>2. /\ D \in ClientState
      /\ D.pc = "idle" /\ D.sock = C.sock /\ D.eof = C.eof /\ D.left = C.left /\ D.n = C.n
  BY DEF ClientState
<1>3. /\ K \in CallState
      /\ K.kind = call[c].kind /\ K.to = call[c].to /\ K.after = call[c].after /\ K.got = got
  <2>1. 0 \in 0 .. Retries
    BY <1>1
  <2> QED BY <1>1, <2>1 DEF CallState
<1>4. Steps(c, D, K)
  BY DEF Return, Steps, Types, TypeOK
<1> HIDE DEF D, K
<1> QED BY <1>2, <1>3, <1>4

LEMMA WithoutIs ==
  ASSUME Types, NEW c \in Clients
  PROVE  /\ Without(c) \in ClientState /\ Without(c).sock = NoSock
         /\ ~Without(c).eof /\ ~Without(c).left /\ Without(c).n = cl[c].n
         /\ Without(c).pc = cl[c].pc /\ Without(c).url = cl[c].url
<1>1. cl[c] \in ClientState
  BY DEF Types, TypeOK
<1> QED BY <1>1 DEF Without, ClientState

\* What C and K have to be for the invariants to hold.
Sound(c, C, K) ==
  /\ C \in ClientState /\ K \in CallState /\ Steps(c, C, K)
  /\ C.pc # "idle" => K.kind \in AllKinds
  /\ C.pc \in {"wait", "rows", "final"} => C.sock # NoSock
  /\ C.sock # NoSock => /\ C.sock \in DOMAIN conn'
                        /\ conn'[C.sock].client = c /\ conn'[C.sock].held
  /\ C.sock # NoSock /\ ~C.eof /\ ~C.left => Fits(C.pc, C.n, conn'[C.sock].in, conn'[C.sock].out)
  /\ C.eof => C.pc \in {"idle", "send"}
  /\ C.left => C.pc = "idle" \/ K.after
  /\ ~K.after => K.got \in {0, C.n}
  /\ K.kind \in Moving => K.to # 0

LEMMA SoundTypes ==
  ASSUME IInv, NEW c \in Clients, NEW C, NEW K, Sound(c, C, K), UNCHANGED srv, Conns(conn'), OthersKeep(c)
  PROVE  Types' /\ InStep'
<1>1. Types'
  BY ClientTypes DEF Sound, IInv
<1>2. InStep'
  BY ClientInStep DEF Sound, IInv
<1> QED BY <1>1, <1>2

LEMMA ClientStep ==
  ASSUME IInv, NEW c \in Clients, NEW C, NEW K, Sound(c, C, K), UNCHANGED srv,
         Conns(conn'), Shrinks(conn, conn'), OthersKeep(c)
  PROVE  IInv'
<1>1. ServersKnow' /\ LinesLead'
  BY ClientLeads DEF Sound, IInv
<1> QED BY <1>1, SoundTypes DEF IInv

\* What is known of a client.
LEMMA ClientIs ==
  ASSUME IInv, NEW c \in Clients
  PROVE  /\ cl[c] \in ClientState /\ call[c] \in CallState
         /\ cl[c].pc # "idle" => call[c].kind \in AllKinds
         /\ cl[c].pc \in {"wait", "rows", "final"} => cl[c].sock # NoSock /\ ~cl[c].eof
         /\ cl[c].sock # NoSock => /\ cl[c].sock \in DOMAIN conn
                                   /\ conn[cl[c].sock].client = c /\ conn[cl[c].sock].held
         /\ InStepOf(c) /\ GotOwn(c)
         /\ call[c].kind \in Moving => call[c].to # 0
BY DEF IInv, Types, TypeOK, InStep, LinesLead, GotOwn

\* The client keeps its connection, or leaves it, and returns.
LEMMA ReturnStep ==
  ASSUME IInv, NEW c \in Clients, NEW C \in ClientState, NEW got \in Nat,
         NEW res \in {"none", "ok", "error", "moved", "stopped"}, Return(c, C, res, got),
         UNCHANGED srv, Conns(conn'), Shrinks(conn, conn'), OthersKeep(c),
         C.sock # NoSock => /\ C.sock \in DOMAIN conn'
                            /\ conn'[C.sock].client = c /\ conn'[C.sock].held,
         C.sock # NoSock /\ ~C.eof /\ ~C.left =>
           conn'[C.sock].in = <<>> /\ conn'[C.sock].out = <<>>,
         ~call[c].after => got \in {0, C.n}
  PROVE  IInv'
<1>1. PICK D \in ClientState, K \in CallState :
        /\ Steps(c, D, K)
        /\ D.pc = "idle" /\ D.sock = C.sock /\ D.eof = C.eof /\ D.left = C.left /\ D.n = C.n
        /\ K.kind = call[c].kind /\ K.to = call[c].to /\ K.after = call[c].after /\ K.got = got
  BY ReturnIs DEF IInv
<1>2. D.sock # NoSock /\ ~D.eof /\ ~D.left =>
        Fits("idle", D.n, conn'[D.sock].in, conn'[D.sock].out)
  BY <1>1, RangeOfEmpty DEF Fits
<1>3. Sound(c, D, K)
  BY <1>1, <1>2, ClientIs DEF Sound
<1> QED BY <1>3, ClientStep

LEMMA StepCall ==
  ASSUME IInv, NEW c \in Clients, NEW kind \in Kinds[c], NEW to \in Servers \cup {0}, Call(c, kind, to)
  PROVE  IInv'
<1> DEFINE C == [cl[c] EXCEPT !.pc = "send", !.n = @ + 1]
           K == [NoCall EXCEPT !.kind = kind, !.to = to, !.after = cl[c].left]
<1>1. cl[c] \in ClientState /\ cl[c].pc = "idle" /\ kind \in AllKinds /\ Retries \in Nat
  BY ClientIs, SizesAssumption DEF Call
<1>2. cl[c].n + 1 \in Nat /\ cl[c].left \in BOOLEAN
  BY <1>1 DEF ClientState
<1>3. /\ C \in ClientState /\ C.pc = "send" /\ C.n = cl[c].n + 1 /\ C.sock = cl[c].sock
      /\ C.eof = cl[c].eof /\ C.left = cl[c].left
  BY <1>1, <1>2 DEF ClientState
<1>4. /\ K \in CallState /\ K.kind = kind /\ K.to = to /\ K.after = cl[c].left /\ K.got = 0
  <2>1. 0 \in 0 .. Retries
    BY <1>1
  <2> QED BY <1>1, <1>2, <2>1 DEF CallState, NoCall
<1>5. Steps(c, C, K)
  <2>1. cl' = [cl EXCEPT ![c] = C]
    BY DEF Call, IInv, Types, TypeOK
  <2>2. call' = [call EXCEPT ![c] = K]
    BY DEF Call
  <2> QED BY <2>1, <2>2 DEF Steps
<1>6. kind \in Moving => to # 0
  BY <1>1 DEF Call, ClientState, Servers
<1>7. UNCHANGED <<srv, conn>>
  BY DEF Call
<1> HIDE DEF C, K
<1>8. C.sock # NoSock /\ ~C.eof /\ ~C.left => Fits("send", C.n, conn'[C.sock].in, conn'[C.sock].out)
  BY <1>1, <1>3, <1>7, ClientIs, RangeOfEmpty DEF InStepOf, Fits
<1>9. Sound(c, C, K)
  BY <1>1, <1>3, <1>4, <1>5, <1>6, <1>7, <1>8, ClientIs DEF Sound
<1>10. Conns(conn') /\ Shrinks(conn, conn') /\ OthersKeep(c)
  BY <1>7, SameConns DEF IInv
<1> QED BY <1>7, <1>9, <1>10, ClientStep

LEMMA StepConnectFails ==
  ASSUME IInv, NEW c \in Clients, ConnectFails(c)
  PROVE  IInv'
<1>1. /\ conn' = HungUp(conn, cl[c].sock) /\ Return(c, Without(c), "error", 0) /\ UNCHANGED srv
  BY DEF ConnectFails, Disconnect
<1>2. Conns(conn') /\ Shrinks(conn, conn') /\ OthersKeep(c)
  BY <1>1, HangUp DEF IInv, OthersKeep
<1>3. Without(c) \in ClientState /\ Without(c).sock = NoSock
  BY WithoutIs DEF IInv
<1> QED BY <1>1, <1>2, <1>3, ReturnStep

LEMMA StepStop ==
  ASSUME IInv, NEW c \in Clients, Stop(c)
  PROVE  IInv'
<1>1. /\ conn' = HungUp(conn, cl[c].sock) /\ Return(c, Without(c), "stopped", 0) /\ UNCHANGED srv
  BY DEF Stop, Disconnect
<1>2. Conns(conn') /\ Shrinks(conn, conn') /\ OthersKeep(c)
  BY <1>1, HangUp DEF IInv, OthersKeep
<1>3. Without(c) \in ClientState /\ Without(c).sock = NoSock
  BY WithoutIs DEF IInv
<1> QED BY <1>1, <1>2, <1>3, ReturnStep

\* The client hangs up, and sends again on another connection.
LEMMA StartOver ==
  ASSUME IInv, NEW c \in Clients, cl[c].pc # "idle", conn' = HungUp(conn, cl[c].sock), UNCHANGED srv,
         NEW url \in Servers, NEW tries \in 0 .. Retries,
         cl' = [cl EXCEPT ![c] = [Without(c) EXCEPT !.pc = "send", !.url = url]],
         call' = [call EXCEPT ![c] = [call[c] EXCEPT !.tries = tries]]
  PROVE  IInv'
<1> DEFINE C == [Without(c) EXCEPT !.pc = "send", !.url = url]
           K == [call[c] EXCEPT !.tries = tries]
<1>1. /\ Without(c) \in ClientState /\ Without(c).sock = NoSock
      /\ ~Without(c).eof /\ ~Without(c).left /\ Without(c).n = cl[c].n
  BY WithoutIs DEF IInv
<1>2. /\ C \in ClientState /\ C.pc = "send" /\ C.sock = NoSock /\ ~C.eof /\ ~C.left /\ C.n = cl[c].n
  BY <1>1 DEF ClientState
<1>3. call[c] \in CallState /\ call[c].kind \in AllKinds
  BY ClientIs
<1>4. /\ K \in CallState /\ K.kind = call[c].kind /\ K.to = call[c].to
      /\ K.after = call[c].after /\ K.got = call[c].got
  BY <1>3 DEF CallState
<1>5. Steps(c, C, K)
  BY DEF Steps
<1> HIDE DEF C, K
<1>6. Sound(c, C, K)
  BY <1>2, <1>3, <1>4, <1>5, ClientIs DEF Sound, GotOwn
<1>7. Conns(conn') /\ Shrinks(conn, conn') /\ OthersKeep(c)
  BY HangUp DEF IInv, OthersKeep
<1> QED BY <1>6, <1>7, ClientStep

LEMMA StepRetry ==
  ASSUME IInv, NEW c \in Clients, Retry(c)
  PROVE  IInv'
<1>1. /\ cl[c].pc = "wait" /\ UNCHANGED srv /\ cl[c] \in ClientState /\ call[c] \in CallState
      /\ cl[c].sock # NoSock
  BY ClientIs DEF Retry
<1>2. CASE call[c].tries = Retries
  <2> DEFINE C == [cl[c] EXCEPT !.eof = TRUE]
  <2>1. conn' = conn /\ Return(c, C, "error", 0)
    BY <1>2 DEF Retry
  <2>2. C \in ClientState /\ C.eof /\ C.sock = cl[c].sock
    BY <1>1 DEF ClientState
  <2>3. Conns(conn') /\ Shrinks(conn, conn') /\ OthersKeep(c)
    BY <2>1, SameConns DEF IInv
  <2> HIDE DEF C
  <2> QED BY <1>1, <2>1, <2>2, <2>3, ClientIs, ReturnStep
<1>3. CASE call[c].tries # Retries
  <2>1. /\ conn' = HungUp(conn, cl[c].sock)
        /\ cl' = [cl EXCEPT ![c] = [Without(c) EXCEPT !.pc = "send"]]
        /\ call' = [call EXCEPT ![c].tries = @ + 1]
    BY <1>3 DEF Retry, Disconnect
  <2>2. call[c].tries + 1 \in 0 .. Retries
    BY <1>1, <1>3, SizesAssumption DEF CallState
  <2>3. call' = [call EXCEPT ![c] = [call[c] EXCEPT !.tries = call[c].tries + 1]]
    BY <2>1 DEF IInv, Types, TypeOK
  <2>4. Without(c) \in ClientState /\ Without(c).url = cl[c].url /\ cl[c].url \in Servers
    BY <1>1, WithoutIs DEF IInv, ClientState
  <2>5. [Without(c) EXCEPT !.pc = "send"] = [Without(c) EXCEPT !.pc = "send", !.url = cl[c].url]
    BY <2>4 DEF ClientState
  <2> QED BY <1>1, <2>1, <2>2, <2>3, <2>4, <2>5, StartOver
<1> QED BY <1>2, <1>3

LEMMA StepGiveUp ==
  ASSUME IInv, NEW c \in Clients, GiveUp(c)
  PROVE  IInv'
<1> DEFINE C == [cl[c] EXCEPT !.eof = TRUE]
<1>1. cl[c] \in ClientState /\ UNCHANGED <<srv, conn>> /\ Return(c, C, "error", 0)
  BY ClientIs DEF GiveUp
<1>2. C \in ClientState /\ C.eof /\ C.sock = cl[c].sock
  BY <1>1 DEF ClientState
<1>3. Conns(conn') /\ Shrinks(conn, conn') /\ OthersKeep(c)
  BY <1>1, SameConns DEF IInv
<1> HIDE DEF C
<1> QED BY <1>1, <1>2, <1>3, ClientIs, ReturnStep

\* The client reads a line: unless answers were left, it is of its call, and what
\* follows is the rest of the answer.
LEMMA LineIs ==
  ASSUME IInv, NEW c \in Clients, cl[c].pc \in {"wait", "rows", "final"}, Sock(c).out # <<>>,
         conn' = Read(c)
  PROVE  /\ Conns(conn') /\ Shrinks(conn, conn') /\ OthersKeep(c)
         /\ cl[c].sock # NoSock /\ cl[c].sock \in DOMAIN conn'
         /\ conn'[cl[c].sock].client = c /\ conn'[cl[c].sock].held
         /\ NextLine(c) \in Answer /\ NextLine(c) \in Range(conn[cl[c].sock].out)
         /\ NextLine(c).what = "r" => NextLine(c).to \in Servers
         /\ ~call[c].after => ~cl[c].left
         /\ ~cl[c].left =>
              /\ NextLine(c).n = cl[c].n
              /\ \A x \in Range(conn'[cl[c].sock].in) \cup Range(conn'[cl[c].sock].out) : x.n = cl[c].n
              /\ conn'[cl[c].sock].in = <<>>
              /\ conn'[cl[c].sock].out = Tail(conn[cl[c].sock].out)
              /\ cl[c].pc = "wait" => OneAnswer(conn[cl[c].sock].out)
              /\ cl[c].pc = "rows" => RowsLeft(conn[cl[c].sock].out)
              /\ cl[c].pc = "final" => /\ Len(conn[cl[c].sock].out) = 1
                                       /\ conn[cl[c].sock].out[1].what = "k"
<1> DEFINE i == cl[c].sock
<1>1. /\ i # NoSock /\ ~cl[c].eof /\ i \in DOMAIN conn /\ conn[i] \in Conn /\ conn[i].client = c
      /\ conn[i].held /\ Sock(c) = conn[i] /\ InStepOf(c) /\ GotOwn(c)
  BY ClientIs, SockIs DEF IInv
<1>2. /\ Conns(conn') /\ Shrinks(conn, conn') /\ DOMAIN conn' = DOMAIN conn
      /\ conn'[i].in = conn[i].in /\ conn'[i].out = Tail(conn[i].out)
      /\ conn'[i].client = c /\ conn'[i].held
      /\ \A j \in DOMAIN conn \ {i} : conn'[j] = conn[j]
  BY <1>1, ReadIs DEF IInv
<1>3. \A d \in Clients \ {c} : cl[d].sock # NoSock => cl[d].sock \in DOMAIN conn \ {i}
  BY SockIs, <1>1 DEF IInv
<1>4. OthersKeep(c)
  BY <1>2, <1>3 DEF OthersKeep
<1>5. conn[i].out \in Seq(Answer) /\ conn[i].out # <<>>
  BY <1>1 DEF Conn
<1>6. /\ NextLine(c) \in Answer /\ NextLine(c) \in Range(conn[i].out) /\ NextLine(c) = Head(conn[i].out)
      /\ Range(Tail(conn[i].out)) \subseteq Range(conn[i].out)
  BY <1>1, <1>5, RangeOfTail DEF NextLine
<1>7. NextLine(c).what = "r" => NextLine(c).to \in Servers
  BY <1>1, <1>6 DEF IInv, LinesLead, Answer
<1>8. ~call[c].after => ~cl[c].left
  BY <1>1 DEF GotOwn
<1>9. ASSUME ~cl[c].left
      PROVE  /\ Fits(cl[c].pc, cl[c].n, conn[i].in, conn[i].out)
             /\ conn[i].in = <<>>
  BY <1>1, <1>5, <1>9 DEF InStepOf, Fits
<1> HIDE DEF i
<1> QED BY <1>1, <1>2, <1>4, <1>5, <1>6, <1>7, <1>8, <1>9 DEF Fits, i

LEMMA TailOfOne ==
  ASSUME NEW S, NEW q \in Seq(S), Len(q) = 1
  PROVE  Tail(q) = <<>>
<1>1. Tail(q) \in Seq(S) /\ Len(Tail(q)) = 0
  OBVIOUS
<1> QED BY <1>1, EmptySeq

\* A result, which is the last line of its answer.
LEMMA ResultStep ==
  ASSUME IInv, NEW c \in Clients, Waiting(c), NextLine(c).what # "m", conn' = Read(c), UNCHANGED srv,
         NEW res \in {"none", "ok", "error", "moved", "stopped"},
         Return(c, cl[c], res, NextLine(c).n)
  PROVE  IInv'
<1> DEFINE i == cl[c].sock
<1>1. cl[c].pc \in {"wait", "final"} /\ Sock(c).out # <<>> /\ cl[c] \in ClientState
  BY ClientIs DEF Waiting
<1>2. /\ Conns(conn') /\ Shrinks(conn, conn') /\ OthersKeep(c)
      /\ i # NoSock /\ i \in DOMAIN conn' /\ conn'[i].client = c /\ conn'[i].held
      /\ NextLine(c).n \in Nat
      /\ ~call[c].after => ~cl[c].left
      /\ ~cl[c].left =>
           /\ NextLine(c).n = cl[c].n /\ conn'[i].in = <<>>
           /\ conn'[i].out = Tail(conn[i].out)
           /\ cl[c].pc = "wait" => OneAnswer(conn[i].out)
           /\ cl[c].pc = "final" => Len(conn[i].out) = 1
  BY <1>1, LineIs DEF Answer
<1>3. conn[i].out \in Seq(Answer) /\ conn[i].out # <<>> /\ NextLine(c) = Head(conn[i].out)
  BY <1>1, <1>2, SockIs DEF IInv, Conn, NextLine
<1>4. ~cl[c].left => Len(conn[i].out) = 1
  <2>1. conn[i].out[1] = NextLine(c)
    BY <1>3
  <2>2. OneAnswer(conn[i].out) => Len(conn[i].out) = 1
    BY <2>1 DEF OneAnswer
  <2> QED BY <1>1, <1>2, <2>2
<1>5. ~cl[c].left => conn'[i].out = <<>>
  BY <1>2, <1>3, <1>4, TailOfOne
<1> QED BY <1>1, <1>2, <1>5, ReturnStep

LEMMA StepGetResult ==
  ASSUME IInv, NEW c \in Clients, GetResult(c)
  PROVE  IInv'
BY ResultStep DEF GetResult

LEMMA StepStayBehind ==
  ASSUME IInv, NEW c \in Clients, StayBehind(c)
  PROVE  IInv'
BY ResultStep DEF StayBehind

LEMMA StepFollow ==
  ASSUME IInv, NEW c \in Clients, Follow(c)
  PROVE  IInv'
<1>1. /\ cl[c].pc \in {"wait", "final"} /\ Sock(c).out # <<>> /\ NextLine(c).what = "r"
      /\ conn' = HungUp(conn, cl[c].sock) /\ UNCHANGED srv
      /\ cl' = [cl EXCEPT ![c] = [Without(c) EXCEPT !.pc = "send", !.url = NextLine(c).to]]
      /\ call' = [call EXCEPT ![c].tries = 0]
  BY DEF Follow, Waiting, Disconnect
<1>2. NextLine(c).to \in Servers
  <2>1. /\ cl[c].sock # NoSock /\ cl[c].sock \in DOMAIN conn /\ conn[cl[c].sock] \in Conn
        /\ Sock(c) = conn[cl[c].sock]
    BY <1>1, ClientIs, SockIs DEF IInv
  <2>2. conn[cl[c].sock].out \in Seq(Answer) /\ conn[cl[c].sock].out # <<>>
    BY <1>1, <2>1 DEF Conn
  <2>3. NextLine(c) \in Range(conn[cl[c].sock].out) /\ NextLine(c) \in Answer
    BY <2>1, <2>2, RangeOfTail DEF NextLine
  <2> QED BY <1>1, <2>1, <2>3 DEF IInv, LinesLead, Answer
<1>3. 0 \in 0 .. Retries
  BY SizesAssumption
<1>4. call' = [call EXCEPT ![c] = [call[c] EXCEPT !.tries = 0]]
  BY <1>1 DEF IInv, Types, TypeOK
<1> QED BY <1>1, <1>2, <1>3, <1>4, StartOver

\* The client goes on reading, at pc.
LEMMA ReadOn ==
  ASSUME IInv, NEW c \in Clients, cl[c].pc # "idle", NEW pc \in {"rows", "final"},
         UNCHANGED srv, NEW seen \in Nat,
         cl' = [cl EXCEPT ![c].pc = pc], call' = [call EXCEPT ![c].seen = seen],
         Conns(conn'), Shrinks(conn, conn'), OthersKeep(c), ~cl[c].eof,
         cl[c].sock # NoSock, cl[c].sock \in DOMAIN conn',
         conn'[cl[c].sock].client = c, conn'[cl[c].sock].held,
         ~cl[c].left => Fits(pc, cl[c].n, conn'[cl[c].sock].in, conn'[cl[c].sock].out)
  PROVE  IInv'
<1> DEFINE C == [cl[c] EXCEPT !.pc = pc]
           K == [call[c] EXCEPT !.seen = seen]
<1>1. cl[c] \in ClientState /\ call[c] \in CallState /\ call[c].kind \in AllKinds
  BY ClientIs
<1>2. /\ C \in ClientState /\ C.pc = pc /\ C.sock = cl[c].sock /\ C.eof = cl[c].eof
      /\ C.left = cl[c].left /\ C.n = cl[c].n
  BY <1>1 DEF ClientState
<1>3. /\ K \in CallState /\ K.kind = call[c].kind /\ K.to = call[c].to
      /\ K.after = call[c].after /\ K.got = call[c].got
  BY <1>1 DEF CallState
<1>4. Steps(c, C, K)
  BY DEF Steps, IInv, Types, TypeOK
<1> HIDE DEF C, K
<1>5. Sound(c, C, K)
  BY <1>1, <1>2, <1>3, <1>4, ClientIs DEF Sound, GotOwn
<1> QED BY <1>5, ClientStep

LEMMA SameCall ==
  ASSUME IInv, NEW c \in Clients, UNCHANGED call
  PROVE  call' = [call EXCEPT ![c].seen = call[c].seen] /\ call[c].seen \in Nat
<1>1. call \in [Clients -> CallState] /\ call[c] \in CallState
  BY DEF IInv, Types, TypeOK
<1>2. [call[c] EXCEPT !.seen = call[c].seen] = call[c]
  BY <1>1 DEF CallState
<1> QED BY <1>1, <1>2 DEF CallState

LEMMA StepStartRows ==
  ASSUME IInv, NEW c \in Clients, StartRows(c)
  PROVE  IInv'
<1> DEFINE i == cl[c].sock
<1>1. /\ cl[c].pc \in {"wait", "final"} /\ Sock(c).out # <<>> /\ NextLine(c).what = "m"
      /\ conn' = Read(c) /\ UNCHANGED <<srv, call>> /\ cl' = [cl EXCEPT ![c].pc = "rows"]
  BY DEF StartRows, Waiting
<1>2. /\ Conns(conn') /\ Shrinks(conn, conn') /\ OthersKeep(c)
      /\ i # NoSock /\ i \in DOMAIN conn' /\ conn'[i].client = c /\ conn'[i].held
      /\ ~cl[c].left =>
           /\ \A x \in Range(conn'[i].in) \cup Range(conn'[i].out) : x.n = cl[c].n
           /\ conn'[i].in = <<>> /\ conn'[i].out = Tail(conn[i].out)
           /\ cl[c].pc = "wait" => OneAnswer(conn[i].out)
           /\ cl[c].pc = "final" => conn[i].out[1].what = "k"
  BY <1>1, LineIs
<1>3. conn[i].out \in Seq(Answer) /\ conn[i].out # <<>> /\ NextLine(c) = conn[i].out[1] /\ ~cl[c].eof
  BY <1>1, <1>2, SockIs, ClientIs DEF IInv, Conn, NextLine
<1>4. ~cl[c].left => Fits("rows", cl[c].n, conn'[i].in, conn'[i].out)
  BY <1>1, <1>2, <1>3 DEF Fits, OneAnswer
<1> QED BY <1>1, <1>2, <1>3, <1>4, SameCall, ReadOn

\* Of rows that are left, the first one is read.
LEMMA RowsLeftTail ==
  ASSUME NEW q \in Seq(Answer), RowsLeft(q)
  PROVE  /\ q[1].what # "end" => q[1].what = "row" /\ Tail(q) # <<>> /\ RowsLeft(Tail(q))
         /\ q[1].what = "end" => Len(Tail(q)) = 1 /\ Tail(q)[1].what = "k"
<1>0. Len(q) \in Nat /\ Len(q) >= 2
  BY DEF RowsLeft
<1>1. /\ Len(q) \in Nat /\ Len(q) >= 2 /\ q[Len(q)].what = "k" /\ q[Len(q) - 1].what = "end"
      /\ \A k \in 1 .. Len(q) - 2 : q[k].what = "row"
  BY DEF RowsLeft
<1>2. /\ Len(Tail(q)) = Len(q) - 1 /\ Tail(q) \in Seq(Answer)
      /\ \A k \in 1 .. Len(q) - 1 : Tail(q)[k] = q[k + 1]
  BY <1>1
<1>3. CASE Len(q) = 2
  BY <1>1, <1>2, <1>3
<1>4. CASE Len(q) > 2
  <2>1. 1 \in 1 .. Len(q) - 2 /\ q[1].what = "row"
    BY <1>1, <1>4
  <2>2. Tail(q)[Len(q) - 1] = q[Len(q)] /\ Tail(q)[Len(q) - 2] = q[Len(q) - 1]
    <3>1. Len(q) - 1 \in 1 .. Len(q) - 1 /\ Len(q) - 2 \in 1 .. Len(q) - 1
      BY <1>1, <1>4
    <3> QED BY <1>1, <1>2, <3>1
  <2>3. \A k \in 1 .. Len(q) - 3 : Tail(q)[k].what = "row"
    <3>1. \A k \in 1 .. Len(q) - 3 : k \in 1 .. Len(q) - 1 /\ k + 1 \in 1 .. Len(q) - 2
      BY <1>1, <1>4
    <3> QED BY <1>1, <1>2, <3>1
  <2>4. RowsLeft(Tail(q))
    <3>1. Len(Tail(q)) - 1 = Len(q) - 2 /\ Len(Tail(q)) - 2 = Len(q) - 3 /\ Len(Tail(q)) >= 2
      BY <1>1, <1>2, <1>4
    <3> QED BY <1>1, <1>2, <2>2, <2>3, <3>1 DEF RowsLeft
  <2>5. Tail(q) # <<>>
    <3>1. Len(Tail(q)) # 0
      BY <1>0, <1>2, <1>4
    <3>2. Len(<<>>) = 0
      OBVIOUS
    <3> QED BY <3>1, <3>2, Zenon
  <2> QED BY <2>1, <2>4, <2>5
<1>5. Len(q) = 2 \/ Len(q) > 2
  <2>1. \A n \in Nat : n >= 2 => n = 2 \/ n > 2
    OBVIOUS
  <2> QED BY <1>0, <2>1, Zenon
<1> QED BY <1>3, <1>4, <1>5

LEMMA StepReadRow ==
  ASSUME IInv, NEW c \in Clients, ReadRow(c)
  PROVE  IInv'
<1> DEFINE i == cl[c].sock
<1>1. /\ cl[c].pc = "rows" /\ Sock(c).out # <<>> /\ NextLine(c).what # "end"
      /\ conn' = Read(c) /\ UNCHANGED <<srv, cl>> /\ call' = [call EXCEPT ![c].seen = @ + 1]
  BY DEF ReadRow, Reading
<1>2. /\ Conns(conn') /\ Shrinks(conn, conn') /\ OthersKeep(c)
      /\ i # NoSock /\ i \in DOMAIN conn' /\ conn'[i].client = c /\ conn'[i].held
      /\ ~cl[c].left =>
           /\ \A x \in Range(conn'[i].in) \cup Range(conn'[i].out) : x.n = cl[c].n
           /\ conn'[i].in = <<>> /\ conn'[i].out = Tail(conn[i].out)
           /\ RowsLeft(conn[i].out)
  BY <1>1, LineIs
<1>3. /\ conn[i].out \in Seq(Answer) /\ NextLine(c) = conn[i].out[1] /\ ~cl[c].eof
      /\ cl[c] \in ClientState /\ call[c] \in CallState
  BY <1>1, <1>2, SockIs, ClientIs DEF IInv, Conn, NextLine
<1>4. ~cl[c].left => Fits("rows", cl[c].n, conn'[i].in, conn'[i].out)
  BY <1>1, <1>2, <1>3, RowsLeftTail DEF Fits
<1>5. call[c].seen + 1 \in Nat /\ call' = [call EXCEPT ![c].seen = call[c].seen + 1]
  BY <1>1, <1>3 DEF CallState, IInv, Types, TypeOK
<1>6. cl' = [cl EXCEPT ![c].pc = "rows"]
  <2>1. [cl[c] EXCEPT !.pc = "rows"] = cl[c]
    BY <1>1, <1>3 DEF ClientState
  <2> QED BY <1>1, <2>1 DEF IInv, Types, TypeOK
<1> QED BY <1>1, <1>2, <1>3, <1>4, <1>5, <1>6, ReadOn

LEMMA StepIntoStops ==
  ASSUME IInv, NEW c \in Clients, IntoStops(c)
  PROVE  IInv'
<1> DEFINE C == [cl[c] EXCEPT !.left = TRUE]
<1>1. /\ cl[c].pc = "rows" /\ Sock(c).out # <<>> /\ conn' = Read(c) /\ UNCHANGED srv
      /\ Return(c, C, "stopped", 0)
  BY DEF IntoStops, Reading
<1>2. cl[c] \in ClientState
  BY ClientIs
<1>3. C \in ClientState /\ C.left /\ C.sock = cl[c].sock
  BY <1>2 DEF ClientState
<1>4. /\ Conns(conn') /\ Shrinks(conn, conn') /\ OthersKeep(c)
      /\ cl[c].sock # NoSock => /\ cl[c].sock \in DOMAIN conn'
                                /\ conn'[cl[c].sock].client = c /\ conn'[cl[c].sock].held
  BY <1>1, LineIs
<1> HIDE DEF C
<1> QED BY <1>1, <1>3, <1>4, ReturnStep

\* The connection ended before the rows did.
LEMMA NothingFits ==
  ASSUME NEW n, NEW in, NEW out, out = <<>>, Fits("rows", n, in, out)
  PROVE  Fits("final", n, in, out)
BY DEF Fits

LEMMA StepEndRows ==
  ASSUME IInv, NEW c \in Clients, EndRows(c)
  PROVE  IInv'
<1> DEFINE i == cl[c].sock
<1>1. /\ cl[c].pc = "rows" /\ UNCHANGED <<srv, call>> /\ cl' = [cl EXCEPT ![c].pc = "final"]
  BY DEF EndRows
<1>2. CASE Reading(c) /\ NextLine(c).what = "end" /\ conn' = Read(c)
  <2>1. Sock(c).out # <<>>
    BY <1>2 DEF Reading
  <2>2. /\ Conns(conn') /\ Shrinks(conn, conn') /\ OthersKeep(c)
        /\ i # NoSock /\ i \in DOMAIN conn' /\ conn'[i].client = c /\ conn'[i].held
        /\ ~cl[c].left =>
             /\ \A x \in Range(conn'[i].in) \cup Range(conn'[i].out) : x.n = cl[c].n
             /\ conn'[i].in = <<>> /\ conn'[i].out = Tail(conn[i].out)
             /\ RowsLeft(conn[i].out)
    BY <1>1, <1>2, <2>1, LineIs
  <2>3. conn[i].out \in Seq(Answer) /\ NextLine(c) = conn[i].out[1] /\ ~cl[c].eof
    BY <1>1, <2>1, <2>2, SockIs, ClientIs DEF IInv, Conn, NextLine
  <2>4. ~cl[c].left => Fits("final", cl[c].n, conn'[i].in, conn'[i].out)
    BY <1>2, <2>2, <2>3, RowsLeftTail DEF Fits
  <2> QED BY <1>1, <2>2, <2>3, <2>4, SameCall, ReadOn
<1>3. CASE AtEnd(c) /\ conn' = conn
  <2>1. Conns(conn') /\ Shrinks(conn, conn') /\ OthersKeep(c)
    BY <1>3, SameConns DEF IInv
  <2>2. /\ i # NoSock /\ ~cl[c].eof /\ i \in DOMAIN conn /\ conn[i].client = c /\ conn[i].held
        /\ InStepOf(c)
    BY <1>1, ClientIs
  <2>3. conn[i].out = <<>>
    BY <1>3 DEF AtEnd, Sock
  <2>4. ASSUME ~cl[c].left PROVE Fits("final", cl[c].n, conn'[i].in, conn'[i].out)
    <3>1. Fits("rows", cl[c].n, conn[i].in, conn[i].out)
      BY <1>1, <2>2, <2>4 DEF InStepOf
    <3>2. Fits("final", cl[c].n, conn[i].in, conn[i].out)
      BY <2>3, <3>1, NothingFits
    <3> QED BY <1>3, <3>2
  <2> QED BY <1>1, <1>3, <2>1, <2>2, <2>4, SameCall, ReadOn
<1> QED BY <1>2, <1>3 DEF EndRows

LEMMA StepTimeout ==
  ASSUME IInv, NEW c \in Clients, Timeout(c)
  PROVE  IInv'
<1>1. /\ cl[c].pc = "idle" /\ conn' = HungUp(conn, cl[c].sock) /\ UNCHANGED <<srv, call>>
      /\ cl' = [cl EXCEPT ![c] = Without(c)]
  BY DEF Timeout, Disconnect
<1>2. /\ Without(c) \in ClientState /\ Without(c).sock = NoSock /\ Without(c).pc = "idle"
      /\ ~Without(c).eof /\ ~Without(c).left /\ Without(c).n = cl[c].n
  BY <1>1, WithoutIs DEF IInv
<1>3. Conns(conn') /\ Shrinks(conn, conn') /\ OthersKeep(c)
  BY <1>1, HangUp DEF IInv, OthersKeep
<1>4. Steps(c, Without(c), call[c])
  BY <1>1 DEF Steps, IInv, Types, TypeOK
<1>5. Sound(c, Without(c), call[c])
  BY <1>2, <1>4, ClientIs DEF Sound, GotOwn
<1> QED BY <1>1, <1>3, <1>5, ClientStep

LEMMA StepConnect ==
  ASSUME IInv, NEW c \in Clients, Connect(c)
  PROVE  IInv'
<1>0. PICK u : u = Unused
  OBVIOUS
<1> DEFINE old == HungUp(conn, cl[c].sock)
           new == [client |-> c, server |-> cl[c].url, in |-> <<>>, out |-> <<>>,
                   held |-> TRUE, serves |-> TRUE, cut |-> FALSE]
           C == [cl[c] EXCEPT !.sock = u, !.eof = FALSE, !.left = FALSE]
<1>1. /\ cl[c].pc = "send" /\ srv[cl[c].url].listens /\ DOMAIN conn # Ids /\ UNCHANGED <<srv, call>>
      /\ conn' = [i \in DOMAIN old \cup {u} |-> IF i = u THEN new ELSE old[i]]
      /\ cl' = [cl EXCEPT ![c].sock = u, ![c].eof = FALSE, ![c].left = FALSE]
  BY <1>0 DEF Connect, Disconnected
<1>2. Conns(conn) /\ cl[c] \in ClientState /\ cl[c].url \in Servers /\ call[c] \in CallState
  BY ConnsAre, ClientIs DEF IInv, ClientState
<1>3. u \in Ids /\ u \notin DOMAIN conn /\ u # NoSock
  <2>1. \E i \in Ids : i \notin DOMAIN conn
    BY <1>1, <1>2 DEF Conns
  <2>2. u \in Ids /\ u \notin DOMAIN conn
    BY <1>0, <2>1 DEF Unused
  <2> QED BY <2>2, SizesAssumption DEF Ids, NoSock
<1>4. /\ Conns(old) /\ Shrinks(conn, old)
      /\ \A j \in DOMAIN old \ {cl[c].sock} : old[j] = conn[j]
      /\ \A j \in DOMAIN conn \ {cl[c].sock} : conn[j].held => j \in DOMAIN old
  BY <1>2, HungUpIs
<1>5. new \in Conn
  BY <1>2, RangeOfEmpty DEF Conn
<1>6. /\ C \in ClientState /\ C.pc = "send" /\ C.sock = u /\ ~C.eof /\ ~C.left /\ C.n = cl[c].n
  BY <1>1, <1>2, <1>3 DEF ClientState
<1>7. Steps(c, C, call[c])
  BY <1>1 DEF Steps, IInv, Types, TypeOK
<1>8. /\ new.client = c /\ new.held /\ new.in = <<>> /\ new.out = <<>> /\ new.server = cl[c].url
  OBVIOUS
<1> HIDE DEF old, new, C
<1>9. /\ DOMAIN conn' = DOMAIN old \cup {u} /\ conn'[u] = new
      /\ \A j \in DOMAIN old \ {u} : conn'[j] = old[j]
  BY <1>1
<1>10. u \notin DOMAIN old
  BY <1>3, <1>4 DEF Shrinks
<1>11. Conns(conn')
  BY <1>3, <1>4, <1>5, <1>9 DEF Conns
<1>12. OthersKeep(c)
  <2> SUFFICES ASSUME NEW d \in Clients \ {c}, cl[d].sock # NoSock
               PROVE  cl[d].sock \in DOMAIN conn' /\ conn'[cl[d].sock] = conn[cl[d].sock]
    BY DEF OthersKeep
  <2>1. cl[d].sock \in DOMAIN conn /\ conn[cl[d].sock].held
    BY ClientIs
  <2>2. cl[c].sock # cl[d].sock
    BY SockIs DEF IInv
  <2> QED BY <1>3, <1>4, <1>9, <2>1, <2>2
<1>13. Fits("send", C.n, conn'[u].in, conn'[u].out)
  BY <1>8, <1>9, RangeOfEmpty DEF Fits
<1>14. Types' /\ InStep'
  <2>1. Sound(c, C, call[c])
    BY <1>1, <1>2, <1>3, <1>6, <1>7, <1>8, <1>9, <1>13, ClientIs DEF Sound, GotOwn
  <2> QED BY <1>1, <1>11, <1>12, <2>1, SoundTypes
<1>15. ServersKnow' /\ LinesLead'
  <2>1. srv[cl[c].url].table \/ srv[cl[c].url].goesTo # 0
    BY <1>1, <1>2 DEF IInv, ServersKnow
  <2>2. HasTable(u)'
    BY <1>1, <1>8, <1>9, <2>1 DEF HasTable
  <2>3. /\ Range(conn'[u].in) = {} /\ Range(conn'[u].out) = {}
    BY <1>8, <1>9, RangeOfEmpty
  <2>4. \A j \in DOMAIN conn' \ {u} :
          /\ j \in DOMAIN conn /\ conn'[j].server = conn[j].server
          /\ conn'[j].serves => conn[j].serves
          /\ Range(conn'[j].in) \subseteq Range(conn[j].in)
          /\ Range(conn'[j].out) \subseteq Range(conn[j].out)
    BY <1>4, <1>9, <1>10 DEF Shrinks
  <2>5. \A j \in DOMAIN conn' \ {u} : conn'[j].serves => HasTable(j)'
    BY <1>1, <2>4 DEF IInv, LinesLead, HasTable
  <2>6. \A j \in DOMAIN conn' :
          /\ \A x \in Range(conn'[j].in) : x.kind \in Moving => x.to # 0
          /\ \A x \in Range(conn'[j].out) : x.what # "gone" /\ (x.what = "r" => x.to # 0)
    BY <2>3, <2>4 DEF IInv, LinesLead
  <2>7. \A d \in Clients : call'[d].kind \in Moving => call'[d].to # 0
    BY <1>1 DEF IInv, LinesLead
  <2>8. LinesLead'
    BY <2>2, <2>5, <2>6, <2>7 DEF LinesLead
  <2> QED BY <1>1, <2>8 DEF IInv, ServersKnow
<1> QED BY <1>14, <1>15 DEF IInv

LEMMA StepSend ==
  ASSUME IInv, NEW c \in Clients, Send(c)
  PROVE  IInv'
<1> DEFINE i == cl[c].sock
           line == [n |-> cl[c].n, kind |-> call[c].kind, to |-> call[c].to]
           h == [conn[i] EXCEPT !.in = Append(@, line)]
           C == [cl[c] EXCEPT !.pc = "wait"]
           K == [call[c] EXCEPT !.sent = call[c].sent + 1]
<1>1. /\ cl[c].pc = "send" /\ i # NoSock /\ ~cl[c].eof /\ UNCHANGED srv
      /\ conn' = IF Sock(c).serves /\ ~Sock(c).cut
                 THEN [conn EXCEPT ![i].in = Append(@, line)] ELSE conn
      /\ cl' = [cl EXCEPT ![c].pc = "wait"] /\ call' = [call EXCEPT ![c].sent = @ + 1]
  BY DEF Send, Disconnected
<1>2. /\ cl[c] \in ClientState /\ call[c] \in CallState /\ call[c].kind \in AllKinds
      /\ InStepOf(c) /\ GotOwn(c) /\ (call[c].kind \in Moving => call[c].to # 0)
      /\ Conns(conn)
  BY <1>1, ClientIs, ConnsAre DEF IInv
<1>3. /\ i \in DOMAIN conn /\ conn[i] \in Conn /\ conn[i].client = c /\ conn[i].held
      /\ \A d \in Clients \ {c} : cl[d].sock # i
  BY <1>1, SockIs DEF IInv
<1>4. /\ C \in ClientState /\ C.pc = "wait" /\ C.sock = i /\ ~C.eof /\ C.left = cl[c].left /\ C.n = cl[c].n
  BY <1>1, <1>2 DEF ClientState
<1>5. /\ K \in CallState /\ K.kind = call[c].kind /\ K.to = call[c].to /\ K.after = call[c].after
      /\ K.got = call[c].got
  BY <1>2 DEF CallState
<1>6. Steps(c, C, K)
  BY <1>1 DEF Steps, IInv, Types, TypeOK
<1>7. line \in Request /\ line.n = cl[c].n /\ (line.kind \in Moving => line.to # 0)
  BY <1>2 DEF Request, ClientState, CallState
<1>8. conn[i].in \in Seq(Request) /\ conn[i].out \in Seq(Answer)
  BY <1>3 DEF Conn
<1> HIDE DEF line
<1>9. /\ Append(conn[i].in, line) \in Seq(Request)
      /\ Range(Append(conn[i].in, line)) \subseteq Range(conn[i].in) \cup {line}
  BY <1>7, <1>8, RangeOfAppend
<1>10. /\ h \in Conn /\ h.client = c /\ h.held /\ h.server = conn[i].server /\ h.serves = conn[i].serves
       /\ h.in = Append(conn[i].in, line) /\ h.out = conn[i].out
  BY <1>3, <1>9 DEF Conn
<1>11. /\ DOMAIN conn' = DOMAIN conn /\ conn'[i] \in {conn[i], h}
       /\ \A j \in DOMAIN conn \ {i} : conn'[j] = conn[j]
  BY <1>1, <1>3
<1> HIDE DEF i, h, C, K
<1>12. Conns(conn') /\ OthersKeep(c)
  BY <1>2, <1>3, <1>10, <1>11, ClientIs DEF Conns, OthersKeep
<1>13. ASSUME ~cl[c].left PROVE Fits("wait", cl[c].n, conn'[i].in, conn'[i].out)
  <2>1. Fits("send", cl[c].n, conn[i].in, conn[i].out)
    BY <1>1, <1>2, <1>13 DEF InStepOf, i
  <2>2. conn[i].in = <<>> /\ conn[i].out = <<>>
    BY <2>1 DEF Fits
  <2>3. CASE conn'[i] = conn[i]
    BY <2>2, <2>3, RangeOfEmpty DEF Fits
  <2>4. CASE conn'[i] = h
    <3>1. Len(Append(conn[i].in, line)) = 1
      BY <1>7, <1>8, <2>2
    <3>2. \A x \in Range(conn'[i].in) \cup Range(conn'[i].out) : x.n = cl[c].n
      BY <1>7, <1>9, <1>10, <2>2, <2>4, RangeOfEmpty
    <3>3. conn'[i].out = <<>> /\ conn'[i].in = Append(conn[i].in, line)
      BY <1>10, <2>2, <2>4, Zenon
    <3>4. Len(conn'[i].in) <= 1
      <4>1. Len(conn'[i].in) = 1
        BY <3>1, <3>3, Zenon
      <4> QED BY <4>1
    <3> QED BY <3>2, <3>3, <3>4 DEF Fits
  <2> QED BY <1>11, <2>3, <2>4
<1>14. Types' /\ InStep'
  <2>1. Sound(c, C, K)
    <3>1. i \in DOMAIN conn' /\ conn'[i].client = c /\ conn'[i].held
      BY <1>3, <1>10, <1>11
    <3> QED BY <1>1, <1>2, <1>4, <1>5, <1>6, <1>13, <3>1 DEF Sound, GotOwn
  <2> QED BY <1>1, <1>12, <2>1, SoundTypes
<1>15. ServersKnow' /\ LinesLead'
  <2>1. \A j \in DOMAIN conn' :
          /\ conn'[j].serves => conn[j].serves
          /\ conn'[j].server = conn[j].server /\ conn'[j].out = conn[j].out
          /\ Range(conn'[j].in) \subseteq Range(conn[j].in) \cup {line}
    BY <1>9, <1>10, <1>11
  <2>2. \A j \in DOMAIN conn' : conn'[j].serves => HasTable(j)'
    BY <1>1, <1>11, <2>1 DEF IInv, LinesLead, HasTable
  <2>3. \A j \in DOMAIN conn' :
          /\ \A x \in Range(conn'[j].in) : x.kind \in Moving => x.to # 0
          /\ \A x \in Range(conn'[j].out) : x.what # "gone" /\ (x.what = "r" => x.to # 0)
    BY <1>7, <1>11, <2>1 DEF IInv, LinesLead
  <2>4. \A d \in Clients : call'[d].kind \in Moving => call'[d].to # 0
    BY <1>5, <1>6 DEF Steps, IInv, LinesLead, Types, TypeOK
  <2>5. LinesLead'
    BY <2>2, <2>3, <2>4 DEF LinesLead
  <2> QED BY <1>1, <2>5 DEF IInv, ServersKnow
<1> QED BY <1>14, <1>15 DEF IInv

-----------------------------------------------------------------------------
(* Steps of the servers and of the network.                                *)

\* An answer to the n-th call that may be sent.
Good(a, n) ==
  /\ OneAnswer(a)
  /\ \A x \in Range(a) : x.n = n /\ x.what # "gone" /\ (x.what = "r" => x.to # 0)

\* What a server and the network do to a connection: lines are lost, or the first
\* is answered.
Later(in, out, in2, out2) ==
  \/ in2 \in {in, <<>>} /\ out2 \in {out, <<>>}
  \/ /\ in # <<>> /\ in2 \in {Tail(in), <<>>}
     /\ \/ out2 = out
        \/ \E a \in Seq(Answer) : Good(a, Head(in).n) /\ out2 = out \o a

LEMMA LinesLater ==
  ASSUME NEW in \in Seq(Request), NEW out \in Seq(Answer), NEW in2, NEW out2, Later(in, out, in2, out2)
  PROVE  /\ Range(in2) \subseteq Range(in)
         /\ \A x \in Range(out2) : x \in Range(out) \/ (x.what # "gone" /\ (x.what = "r" => x.to # 0))
<1>1. CASE in2 \in {in, <<>>} /\ out2 \in {out, <<>>}
  BY <1>1, RangeOfEmpty
<1>2. CASE /\ in # <<>> /\ in2 \in {Tail(in), <<>>}
           /\ \/ out2 = out
              \/ \E a \in Seq(Answer) : Good(a, Head(in).n) /\ out2 = out \o a
  <2>1. Range(in2) \subseteq Range(in)
    BY <1>2, RangeOfTail, RangeOfEmpty
  <2>2. CASE out2 = out
    BY <2>1, <2>2
  <2>3. CASE \E a \in Seq(Answer) : Good(a, Head(in).n) /\ out2 = out \o a
    <3>1. PICK a \in Seq(Answer) : Good(a, Head(in).n) /\ out2 = out \o a
      BY <2>3
    <3>2. Range(out2) \subseteq Range(out) \cup Range(a)
      BY <3>1, RangeOfConcat
    <3> QED BY <2>1, <3>1, <3>2 DEF Good
  <2> QED BY <1>2, <2>2, <2>3
<1> QED BY <1>1, <1>2 DEF Later

LEMMA OneAsked ==
  ASSUME NEW pc \in {"idle", "send", "wait", "rows", "final"}, NEW n, NEW in \in Seq(Request), NEW out,
         Fits(pc, n, in, out), in # <<>>
  PROVE  pc = "wait" /\ out = <<>> /\ Tail(in) = <<>> /\ Head(in).n = n
<1>1. pc = "wait"
  BY DEF Fits
<1>2. out = <<>> /\ Len(in) <= 1
  BY <1>1 DEF Fits
<1>3. Len(in) = 1
  BY <1>2
<1>4. Tail(in) = <<>>
  BY <1>3, TailOfOne
<1>5. Head(in) \in Range(in)
  BY RangeOfTail
<1> QED BY <1>1, <1>2, <1>4, <1>5 DEF Fits

LEMMA FitsLater ==
  ASSUME NEW pc \in {"idle", "send", "wait", "rows", "final"}, NEW n,
         NEW in \in Seq(Request), NEW out \in Seq(Answer), NEW in2, NEW out2,
         Fits(pc, n, in, out), Later(in, out, in2, out2)
  PROVE  Fits(pc, n, in2, out2)
<1>1. CASE in2 \in {in, <<>>} /\ out2 \in {out, <<>>}
  <2>1. \A x \in Range(in2) \cup Range(out2) : x.n = n
    BY <1>1, RangeOfEmpty DEF Fits
  <2>2. Len(<<>>) <= 1
    OBVIOUS
  <2>3. pc \in {"idle", "send"} => in2 = <<>> /\ out2 = <<>>
    BY <1>1 DEF Fits
  <2>4. pc = "wait" => (out2 = <<>> /\ Len(in2) <= 1) \/ (in2 = <<>> /\ OneAnswer(out2))
    BY <1>1, <2>2 DEF Fits
  <2>5. pc = "rows" => in2 = <<>> /\ (out2 = <<>> \/ RowsLeft(out2))
    BY <1>1 DEF Fits
  <2>6. pc = "final" => in2 = <<>> /\ (out2 = <<>> \/ (Len(out2) = 1 /\ out2[1].what = "k"))
    BY <1>1 DEF Fits
  <2> QED BY <2>1, <2>3, <2>4, <2>5, <2>6 DEF Fits
<1>2. CASE /\ in # <<>> /\ in2 \in {Tail(in), <<>>}
           /\ \/ out2 = out
              \/ \E a \in Seq(Answer) : Good(a, Head(in).n) /\ out2 = out \o a
  <2>1. pc = "wait" /\ out = <<>> /\ in2 = <<>> /\ Head(in).n = n /\ Len(in2) <= 1
    <3>1. pc = "wait" /\ out = <<>> /\ Tail(in) = <<>> /\ Head(in).n = n
      BY <1>2, OneAsked
    <3>2. in2 = <<>>
      BY <1>2, <3>1
    <3> QED BY <3>1, <3>2
  <2>2. CASE out2 = out
    BY <2>1, <2>2, RangeOfEmpty DEF Fits
  <2>3. CASE \E a \in Seq(Answer) : Good(a, Head(in).n) /\ out2 = out \o a
    <3>1. PICK a \in Seq(Answer) : Good(a, n) /\ out2 = out \o a
      BY <2>1, <2>3
    <3>2. out2 = a
      BY <2>1, <3>1
    <3>3. OneAnswer(out2) /\ \A x \in Range(out2) : x.n = n
      BY <3>1, <3>2 DEF Good
    <3> QED BY <2>1, <3>3, RangeOfEmpty DEF Fits
  <2> QED BY <1>2, <2>2, <2>3
<1> QED BY <1>1, <1>2 DEF Later

\* The connections come from f to g.
Goes(f, g) ==
  /\ Conns(g) /\ DOMAIN g \subseteq DOMAIN f
  /\ \A j \in DOMAIN f : f[j].held => j \in DOMAIN g
  /\ \A j \in DOMAIN g :
       /\ g[j].client = f[j].client /\ g[j].server = f[j].server /\ g[j].held = f[j].held
       /\ g[j].serves => f[j].serves
       /\ Later(f[j].in, f[j].out, g[j].in, g[j].out)

\* The server s comes to the state X.
Becomes(s, X) ==
  /\ srv' = [srv EXCEPT ![s] = X] /\ X \in ServerState
  /\ X.goesTo # 0 => X.cached = {}
  /\ X.listens => X.table \/ X.goesTo # 0
  /\ \A j \in DOMAIN conn' :
       conn'[j].serves /\ conn'[j].server = s => X.table \/ X.goesTo # 0

\* Calls only count how often they have been done.
CallsKeep ==
  \A c \in Clients :
    /\ call'[c].kind = call[c].kind /\ call'[c].to = call[c].to
    /\ call'[c].after = call[c].after /\ call'[c].got = call[c].got

LEMMA NetworkStep ==
  ASSUME IInv, UNCHANGED cl, call' \in [Clients -> CallState], CallsKeep, Goes(conn, conn'),
         NEW s \in Servers, NEW X, Becomes(s, X)
  PROVE  IInv'
<1>1. /\ srv' \in [Servers -> ServerState] /\ srv'[s] = X
      /\ \A t \in Servers \ {s} : srv'[t] = srv[t]
  BY DEF Becomes, IInv, Types, TypeOK
<1>2. Conns(conn)
  BY ConnsAre DEF IInv
<1>3. \A j \in DOMAIN conn' :
        /\ j \in DOMAIN conn /\ conn[j].in \in Seq(Request) /\ conn[j].out \in Seq(Answer)
        /\ conn[j].server \in Servers
        /\ conn'[j].client = conn[j].client /\ conn'[j].server = conn[j].server
        /\ conn'[j].held = conn[j].held /\ (conn'[j].serves => conn[j].serves)
        /\ Later(conn[j].in, conn[j].out, conn'[j].in, conn'[j].out)
  BY <1>2 DEF Goes, Conns, Conn
<1>4. \A c \in Clients :
        cl[c].sock # NoSock => /\ cl[c].sock \in DOMAIN conn' /\ conn'[cl[c].sock].client = c
                               /\ conn'[cl[c].sock].held
  BY <1>3, ClientIs DEF Goes
<1>5. Types'
  <2>1. TypeOK'
    BY <1>1, <1>4 DEF IInv, Types, TypeOK, Goes, Conns
  <2> QED BY <2>1 DEF IInv, Types, CallsKeep
<1>6. ServersKnow'
  BY <1>1 DEF ServersKnow, Becomes, IInv
<1>7. LinesLead'
  <2>1. \A j \in DOMAIN conn' : conn'[j].serves => HasTable(j)'
    BY <1>1, <1>3 DEF Becomes, HasTable, IInv, LinesLead
  <2>2. \A j \in DOMAIN conn' :
          /\ Range(conn'[j].in) \subseteq Range(conn[j].in)
          /\ \A x \in Range(conn'[j].out) :
               x \in Range(conn[j].out) \/ (x.what # "gone" /\ (x.what = "r" => x.to # 0))
    BY <1>3, LinesLater
  <2>3. \A j \in DOMAIN conn' :
          /\ \A x \in Range(conn'[j].in) : x.kind \in Moving => x.to # 0
          /\ \A x \in Range(conn'[j].out) : x.what # "gone" /\ (x.what = "r" => x.to # 0)
    BY <1>3, <2>2 DEF IInv, LinesLead
  <2>4. \A c \in Clients : call'[c].kind \in Moving => call'[c].to # 0
    BY DEF IInv, LinesLead, CallsKeep
  <2> QED BY <2>1, <2>3, <2>4 DEF LinesLead
<1>8. InStep'
  <2> SUFFICES ASSUME NEW c \in Clients PROVE InStepOf(c)' /\ GotOwn(c)'
    BY DEF InStep
  <2>1. GotOwn(c)'
    BY ClientIs DEF GotOwn, CallsKeep
  <2>2. ASSUME cl[c].sock # NoSock, ~cl[c].eof, ~cl[c].left
        PROVE  Fits(cl[c].pc, cl[c].n, conn'[cl[c].sock].in, conn'[cl[c].sock].out)
    <3>1. Fits(cl[c].pc, cl[c].n, conn[cl[c].sock].in, conn[cl[c].sock].out)
      BY <2>2, ClientIs DEF InStepOf
    <3>2. cl[c].pc \in {"idle", "send", "wait", "rows", "final"}
      BY ClientIs DEF ClientState
    <3> QED BY <1>3, <1>4, <2>2, <3>1, <3>2, FitsLater
  <2>3. InStepOf(c)'
    BY <2>2 DEF InStepOf
  <2> QED BY <2>1, <2>3
<1> QED BY <1>5, <1>6, <1>7, <1>8 DEF IInv

LEMMA LaterLess ==
  ASSUME NEW in, NEW out, NEW in2, NEW out2, Later(in, out, in2, out2), NEW in3 \in {in2, <<>>}
  PROVE  Later(in, out, in3, out2)
BY DEF Later

LEMMA StaysGo == ASSUME IInv PROVE Goes(conn, conn)
BY ConnsAre DEF Goes, Later, IInv

LEMMA ClosedGoes ==
  ASSUME NEW f, NEW g, Goes(f, g), NEW i \in DOMAIN g
  PROVE  Goes(f, Closed(g, i))
<1> DEFINE h == Closed(g, i)
<1>1. Conns(g)
  BY DEF Goes
<1>2. /\ Conns(h) /\ Shrinks(g, h)
      /\ \A j \in DOMAIN h : /\ h[j].held = g[j].held /\ h[j].out = g[j].out
                             /\ h[j].in \in {g[j].in, <<>>}
      /\ \A j \in DOMAIN g : g[j].held => j \in DOMAIN h
  BY <1>1, ClosedIs
<1> HIDE DEF h
<1>3. \A j \in DOMAIN h :
        /\ j \in DOMAIN g /\ j \in DOMAIN f
        /\ h[j].client = f[j].client /\ h[j].server = f[j].server /\ h[j].held = f[j].held
        /\ h[j].serves => f[j].serves
        /\ Later(f[j].in, f[j].out, g[j].in, h[j].out)
  BY <1>2 DEF Goes, Shrinks
<1>4. \A j \in DOMAIN h : Later(f[j].in, f[j].out, h[j].in, h[j].out)
  BY <1>2, <1>3, LaterLess
<1>5. \A j \in DOMAIN f : f[j].held => j \in DOMAIN h
  BY <1>2 DEF Goes
<1>6. Goes(f, h)
  BY <1>2, <1>3, <1>4, <1>5 DEF Goes
<1> QED BY <1>6 DEF h

LEMMA AbandonedGoes ==
  ASSUME NEW f, NEW g, Goes(f, g), NEW s
  PROVE  Goes(f, Abandoned(g, s))
<1> DEFINE h == Abandoned(g, s)
<1>1. Conns(g)
  BY DEF Goes
<1>2. /\ Conns(h) /\ Shrinks(g, h)
      /\ \A j \in DOMAIN h : /\ h[j].held = g[j].held /\ h[j].out = g[j].out
                             /\ h[j].in \in {g[j].in, <<>>}
      /\ \A j \in DOMAIN g : g[j].held => j \in DOMAIN h
  BY <1>1, AbandonedIs
<1> HIDE DEF h
<1>3. \A j \in DOMAIN h :
        /\ j \in DOMAIN g /\ j \in DOMAIN f
        /\ h[j].client = f[j].client /\ h[j].server = f[j].server /\ h[j].held = f[j].held
        /\ h[j].serves => f[j].serves
        /\ Later(f[j].in, f[j].out, g[j].in, h[j].out)
  BY <1>2 DEF Goes, Shrinks
<1>4. \A j \in DOMAIN h : Later(f[j].in, f[j].out, h[j].in, h[j].out)
  BY <1>2, <1>3, LaterLess
<1>5. \A j \in DOMAIN f : f[j].held => j \in DOMAIN h
  BY <1>2 DEF Goes
<1>6. Goes(f, h)
  BY <1>2, <1>3, <1>4, <1>5 DEF Goes
<1> QED BY <1>6 DEF h

\* A line waits at a server that can answer it.
LEMMA AskedIs ==
  ASSUME IInv, NEW i, Asked(i)
  PROVE  /\ i \in DOMAIN conn /\ conn[i] \in Conn /\ conn[i].serves /\ conn[i].in # <<>>
         /\ conn[i].server \in Servers /\ conn[i].client \in Clients
         /\ conn[i].in \in Seq(Request) /\ Line(i) = Head(conn[i].in) /\ Line(i) \in Request
         /\ Line(i).kind \in Moving => Line(i).to # 0
         /\ srv[conn[i].server].table \/ srv[conn[i].server].goesTo # 0
         /\ srv[conn[i].server] \in ServerState
         /\ srv[conn[i].server].goesTo # 0 => srv[conn[i].server].cached = {}
<1>1. i \in DOMAIN conn /\ conn[i] \in Conn /\ conn[i].serves /\ conn[i].in # <<>>
  BY DEF Asked, IInv, Types, TypeOK
<1>2. /\ conn[i].server \in Servers /\ conn[i].client \in Clients /\ conn[i].in \in Seq(Request)
  BY <1>1 DEF Conn
<1>3. Line(i) = Head(conn[i].in) /\ Line(i) \in Request /\ Line(i) \in Range(conn[i].in)
  BY <1>1, <1>2, RangeOfTail DEF Line
<1>4. /\ srv[conn[i].server] \in ServerState
      /\ srv[conn[i].server].goesTo # 0 => srv[conn[i].server].cached = {}
  BY <1>2 DEF IInv, Types, TypeOK, ServersKnow
<1>5. /\ Line(i).kind \in Moving => Line(i).to # 0
      /\ srv[conn[i].server].table \/ srv[conn[i].server].goesTo # 0
  BY <1>1, <1>3 DEF IInv, LinesLead, HasTable
<1> QED BY <1>1, <1>2, <1>3, <1>4, <1>5

LEMMA WrittenGoes ==
  ASSUME IInv, NEW i, Asked(i), NEW a \in Seq(Answer), Good(a, Line(i).n)
  PROVE  Goes(conn, Written(conn, i, a))
<1> DEFINE g == Written(conn, i, a)
<1>1. /\ i \in DOMAIN conn /\ conn[i].in # <<>> /\ Line(i) = Head(conn[i].in)
  BY AskedIs
<1>2. Conns(conn)
  BY ConnsAre DEF IInv
<1>3. /\ Conns(g) /\ DOMAIN g = DOMAIN conn
      /\ \A j \in DOMAIN conn \ {i} : g[j] = conn[j]
      /\ g[i].client = conn[i].client /\ g[i].server = conn[i].server
      /\ g[i].held = conn[i].held /\ g[i].serves = conn[i].serves
      /\ g[i].in = Tail(conn[i].in) /\ (g[i].out = conn[i].out \/ g[i].out = conn[i].out \o a)
  BY <1>1, <1>2, WrittenIs
<1> HIDE DEF g
<1>4. Later(conn[i].in, conn[i].out, g[i].in, g[i].out)
  BY <1>1, <1>3 DEF Later
<1>5. \A j \in DOMAIN conn \ {i} : Later(conn[j].in, conn[j].out, g[j].in, g[j].out)
  BY <1>3 DEF Later
<1>6. Goes(conn, g)
  BY <1>3, <1>4, <1>5 DEF Goes
<1> QED BY <1>6 DEF g

LEMMA OneLine ==
  ASSUME NEW x \in Answer, x.what \notin {"m", "gone"}, x.what = "r" => x.to # 0
  PROVE  <<x>> \in Seq(Answer) /\ Good(<<x>>, x.n)
<1>1. <<x>> \in Seq(Answer) /\ Range(<<x>>) = {x} /\ Len(<<x>>) = 1 /\ <<x>>[1] = x
  BY DEF Range
<1> QED BY <1>1 DEF Good, OneAnswer

LEMMA DidKeeps ==
  ASSUME IInv, NEW i, conn[i].client \in Clients, Did(i)
  PROVE  call' \in [Clients -> CallState] /\ CallsKeep
<1> DEFINE c == conn[i].client
           done == IF Line(i).n = cl[c].n THEN call[c].done + 1 ELSE call[c].done
           K == [call[c] EXCEPT !.done = done]
<1>1. call \in [Clients -> CallState] /\ call[c] \in CallState
  BY DEF IInv, Types, TypeOK
<1>2. done \in Nat
  BY <1>1 DEF CallState
<1>3. call' = [call EXCEPT ![c] = K]
  BY <1>1 DEF Did
<1> HIDE DEF done
<1>4. /\ K \in CallState /\ K.kind = call[c].kind /\ K.to = call[c].to
      /\ K.after = call[c].after /\ K.got = call[c].got
  BY <1>1, <1>2 DEF CallState
<1> HIDE DEF K
<1> QED BY <1>1, <1>3, <1>4 DEF CallsKeep

LEMMA CallStays ==
  ASSUME IInv, UNCHANGED call
  PROVE  call' \in [Clients -> CallState] /\ CallsKeep
BY DEF IInv, Types, TypeOK, CallsKeep

\* What is said of the call that waits in the connection i.
LEMMA SaysIs ==
  ASSUME IInv, NEW i, Asked(i), NEW what \in {"k", "gone", "r", "m", "row", "end"}
  PROVE  /\ Says(i, what) \in Answer /\ Says(i, what).n = Line(i).n /\ Says(i, what).what = what
         /\ Line(i).n \in Nat
<1>1. Line(i) \in Request
  BY AskedIs
<1> QED BY <1>1 DEF Says, Answer, Request

LEMMA SaysDone ==
  ASSUME IInv, NEW i, Asked(i)
  PROVE  Goes(conn, Written(conn, i, <<Says(i, "k")>>))
<1>1. Says(i, "k") \in Answer /\ Says(i, "k").n = Line(i).n /\ Says(i, "k").what = "k"
  BY SaysIs
<1>2. <<Says(i, "k")>> \in Seq(Answer) /\ Good(<<Says(i, "k")>>, Line(i).n)
  BY <1>1, OneLine
<1> QED BY <1>2, WrittenGoes

\* A server that keeps its port, its table and its way on is as sound as before.
LEMMA StaysSound ==
  ASSUME IInv, NEW s \in Servers, NEW X \in ServerState, srv' = [srv EXCEPT ![s] = X],
         Goes(conn, conn'),
         X.goesTo = srv[s].goesTo, X.table = srv[s].table, X.goesTo # 0 => X.cached = {},
         X.listens => srv[s].listens
  PROVE  Becomes(s, X)
<1>1. X.listens => X.table \/ X.goesTo # 0
  BY DEF IInv, ServersKnow
<1>2. \A j \in DOMAIN conn' : conn'[j].serves /\ conn'[j].server = s => X.table \/ X.goesTo # 0
  BY DEF Goes, IInv, LinesLead, HasTable
<1> QED BY <1>1, <1>2 DEF Becomes

LEMMA SameServer ==
  ASSUME IInv, NEW s \in Servers, UNCHANGED srv, Goes(conn, conn')
  PROVE  Becomes(s, srv[s])
<1>1. srv[s] \in ServerState /\ srv' = [srv EXCEPT ![s] = srv[s]]
  BY DEF IInv, Types, TypeOK
<1>2. srv[s].goesTo # 0 => srv[s].cached = {}
  BY DEF IInv, ServersKnow
<1> QED BY <1>1, <1>2, StaysSound

\* A server that has heard from the client of i has the client's URL in its cache,
\* which it never has once the table has moved.
LEMMA HeardFrom ==
  ASSUME IInv, NEW i, Asked(i), ~IsMoved(i)
  PROVE  srv[conn[i].server].goesTo = 0 /\ srv[conn[i].server].table /\ Known(i) \in SUBSET Clients
<1>1. /\ srv[conn[i].server] \in ServerState /\ conn[i].client \in Clients
      /\ srv[conn[i].server].goesTo # 0 => srv[conn[i].server].cached = {}
      /\ srv[conn[i].server].table \/ srv[conn[i].server].goesTo # 0
  BY AskedIs
<1> QED BY <1>1 DEF IsMoved, Known, ServerState

LEMMA StepTellMoved ==
  ASSUME IInv, NEW i, TellMoved(i)
  PROVE  IInv'
<1> DEFINE x == [Says(i, "r") EXCEPT !.to = srv[conn[i].server].goesTo]
<1>1. /\ Asked(i) /\ IsMoved(i) /\ conn' = Written(conn, i, <<x>>) /\ UNCHANGED <<srv, cl, call>>
  BY DEF TellMoved
<1>2. conn[i].server \in Servers /\ srv[conn[i].server] \in ServerState
  BY <1>1, AskedIs
<1>3. Says(i, "r") \in Answer /\ Says(i, "r").n = Line(i).n /\ Says(i, "r").what = "r"
  BY <1>1, SaysIs
<1>4. srv[conn[i].server].goesTo \in Servers \cup {0} /\ srv[conn[i].server].goesTo # 0
  BY <1>1, <1>2 DEF IsMoved, ServerState
<1>5. x \in Answer /\ x.n = Line(i).n /\ x.what = "r" /\ x.to # 0
  BY <1>3, <1>4 DEF Answer
<1> HIDE DEF x
<1>6. <<x>> \in Seq(Answer) /\ Good(<<x>>, Line(i).n)
  BY <1>5, OneLine
<1>7. Goes(conn, conn')
  BY <1>1, <1>6, WrittenGoes
<1>8. Becomes(conn[i].server, srv[conn[i].server])
  BY <1>1, <1>2, <1>7, SameServer
<1>9. call' \in [Clients -> CallState] /\ CallsKeep
  BY <1>1, CallStays
<1> QED BY <1>1, <1>2, <1>7, <1>8, <1>9, NetworkStep

\* The answer to a search, whole.
LEMMA RowsAnswer ==
  ASSUME NEW m \in Answer, NEW row \in Answer, NEW e \in Answer, NEW k \in Answer, NEW n,
         m.what = "m", row.what = "row", e.what = "end", k.what = "k",
         m.n = n, row.n = n, e.n = n, k.n = n
  PROVE  LET q == <<m>> \o [r \in 1 .. Rows |-> row] \o <<e, k>>
         IN  q \in Seq(Answer) /\ Good(q, n)
<1> DEFINE rows == [r \in 1 .. Rows |-> row]
           q == <<m>> \o rows \o <<e, k>>
<1>1. Rows \in Nat
  BY SizesAssumption
<1>2. rows \in Seq(Answer) /\ Len(rows) = Rows /\ \A r \in 1 .. Rows : rows[r] = row
  BY <1>1
<1> HIDE DEF rows
<1>3. /\ q \in Seq(Answer) /\ Len(q) = Rows + 3
      /\ q[1] = m /\ (\A r \in 2 .. Rows + 1 : q[r] = row) /\ q[Rows + 2] = e /\ q[Rows + 3] = k
  BY <1>1, <1>2
<1> HIDE DEF q
<1>4. \A x \in Range(q) : x \in {m, row, e, k}
  <2> SUFFICES ASSUME NEW j \in 1 .. Rows + 3 PROVE q[j] \in {m, row, e, k}
    BY <1>3 DEF Range
  <2>1. j = 1 \/ j \in 2 .. Rows + 1 \/ j = Rows + 2 \/ j = Rows + 3
    BY <1>1
  <2> QED BY <1>3, <2>1
<1>5. RowsLeft(Tail(q))
  <2>1. /\ Tail(q) \in Seq(Answer) /\ Len(Tail(q)) = Rows + 2
        /\ \A j \in 1 .. Rows + 2 : Tail(q)[j] = q[j + 1]
    BY <1>1, <1>3
  <2>2. Tail(q)[Rows + 2] = k /\ Tail(q)[Rows + 1] = e
    BY <1>1, <1>3, <2>1
  <2>3. \A j \in 1 .. Rows : Tail(q)[j] = row
    BY <1>1, <1>3, <2>1
  <2>4. Len(Tail(q)) >= 2 /\ Len(Tail(q)) - 1 = Rows + 1 /\ Len(Tail(q)) - 2 = Rows
    BY <1>1, <2>1
  <2>5. Tail(q)[Len(Tail(q))].what = "k" /\ Tail(q)[Len(Tail(q)) - 1].what = "end"
    BY <2>1, <2>2, <2>4
  <2>6. \A j \in 1 .. Len(Tail(q)) - 2 : Tail(q)[j].what = "row"
    BY <2>3, <2>4
  <2> QED BY <2>4, <2>5, <2>6 DEF RowsLeft
<1>6. OneAnswer(q)
  <2>1. Len(q) > 1
    BY <1>1, <1>3
  <2> QED BY <1>3, <1>5, <2>1 DEF OneAnswer
<1>7. Good(q, n)
  BY <1>4, <1>6 DEF Good
<1> QED BY <1>3, <1>7 DEF q, rows

LEMMA StepCommand ==
  ASSUME IInv, NEW i, Command(i)
  PROVE  IInv'
<1> DEFINE s == conn[i].server
           X == [srv[s] EXCEPT !.cached = Known(i)]
<1>1. /\ Asked(i) /\ ~IsMoved(i) /\ Line(i).kind \in {"set", "search", "into"}
      /\ conn' = Written(conn, i, Results(i)) /\ UNCHANGED cl
      /\ srv' = [srv EXCEPT ![s].cached = Known(i)]
      /\ IF srv[s].table THEN Did(i) ELSE call' = call
  BY DEF Command, Serves
<1>2. s \in Servers /\ conn[i].client \in Clients /\ srv[s] \in ServerState
  BY <1>1, AskedIs
<1>3. srv[s].goesTo = 0 /\ srv[s].table /\ Known(i) \in SUBSET Clients
  BY <1>1, HeardFrom
<1>4. /\ \A what \in {"k", "gone", "r", "m", "row", "end"} :
           Says(i, what) \in Answer /\ Says(i, what).n = Line(i).n /\ Says(i, what).what = what
  BY <1>1, SaysIs
<1>5. Results(i) \in Seq(Answer) /\ Good(Results(i), Line(i).n)
  <2>1. CASE Line(i).kind = "set"
    <3>1. Results(i) = <<Says(i, "k")>>
      BY <1>3, <2>1 DEF Results
    <3>2. <<Says(i, "k")>> \in Seq(Answer) /\ Good(<<Says(i, "k")>>, Line(i).n)
      BY <1>4, OneLine
    <3> QED BY <3>1, <3>2
  <2>2. CASE Line(i).kind # "set"
    <3>1. Results(i) = <<Says(i, "m")>> \o [r \in 1 .. Rows |-> Says(i, "row")] \o <<Says(i, "end"), Says(i, "k")>>
      BY <1>3, <2>2 DEF Results
    <3> QED BY <1>4, <3>1, RowsAnswer
  <2> QED BY <2>1, <2>2
<1>6. Goes(conn, conn')
  BY <1>1, <1>5, WrittenGoes
<1>7. /\ X \in ServerState /\ X.goesTo = srv[s].goesTo /\ X.table = srv[s].table
      /\ X.listens = srv[s].listens
  BY <1>2, <1>3 DEF ServerState
<1>8. srv' = [srv EXCEPT ![s] = X]
  BY <1>1, <1>2 DEF IInv, Types, TypeOK
<1> HIDE DEF X
<1>9. Becomes(s, X)
  BY <1>2, <1>3, <1>6, <1>7, <1>8, StaysSound
<1>10. call' \in [Clients -> CallState] /\ CallsKeep
  BY <1>1, <1>2, <1>3, DidKeeps
<1> QED BY <1>1, <1>2, <1>6, <1>9, <1>10, NetworkStep

LEMMA StepRedirect ==
  ASSUME IInv, NEW i, Redirect(i)
  PROVE  IInv'
<1> DEFINE s == conn[i].server
           M == Moved(s, conn[i].client, Line(i).to)
           X == IF Line(i).kind = "retire" THEN Closing(M) ELSE M
<1>1. /\ Asked(i) /\ ~IsMoved(i) /\ Line(i).kind \in Moving
      /\ conn' = Written(conn, i, <<Says(i, "k")>>) /\ UNCHANGED cl /\ Did(i)
      /\ srv' = [srv EXCEPT ![s] = X]
  BY DEF Redirect, Serves
<1>2. s \in Servers /\ conn[i].client \in Clients /\ srv[s] \in ServerState
  BY <1>1, AskedIs
<1>3. Line(i).to \in Servers /\ Line(i).to # 0
  BY <1>1, AskedIs DEF Request
<1>4. M \in ServerState /\ M.goesTo # 0 /\ M.cached = {}
  BY <1>2, <1>3 DEF Moved, Uncached, ServerState
<1>5. X \in ServerState /\ X.goesTo # 0 /\ X.cached = {}
  BY <1>4 DEF Closing, ServerState
<1>6. Goes(conn, conn')
  BY <1>1, SaysDone
<1> HIDE DEF X
<1>7. Becomes(s, X)
  BY <1>1, <1>5 DEF Becomes
<1>8. call' \in [Clients -> CallState] /\ CallsKeep
  BY <1>1, <1>2, DidKeeps
<1> QED BY <1>1, <1>2, <1>6, <1>7, <1>8, NetworkStep

LEMMA StepShutdown ==
  ASSUME IInv, NEW i, Shutdown(i)
  PROVE  IInv'
<1> DEFINE s == conn[i].server
           X == [Closing(srv[s]) EXCEPT !.cached = Known(i)]
<1>1. /\ Asked(i) /\ ~IsMoved(i)
      /\ conn' = Written(conn, i, <<Says(i, "k")>>) /\ UNCHANGED cl /\ Did(i)
      /\ srv' = [srv EXCEPT ![s] = [Closing(@) EXCEPT !.cached = Known(i)]]
  BY DEF Shutdown, Serves
<1>2. s \in Servers /\ conn[i].client \in Clients /\ srv[s] \in ServerState
  BY <1>1, AskedIs
<1>3. srv[s].goesTo = 0 /\ Known(i) \in SUBSET Clients
  BY <1>1, HeardFrom
<1>4. X \in ServerState /\ X.goesTo = srv[s].goesTo /\ X.table = srv[s].table /\ ~X.listens
  BY <1>2, <1>3 DEF Closing, ServerState
<1>5. srv' = [srv EXCEPT ![s] = X]
  BY <1>1, <1>2 DEF IInv, Types, TypeOK
<1>6. Goes(conn, conn')
  BY <1>1, SaysDone
<1> HIDE DEF X
<1>7. Becomes(s, X)
  BY <1>2, <1>3, <1>4, <1>5, <1>6, StaysSound
<1>8. call' \in [Clients -> CallState] /\ CallsKeep
  BY <1>1, <1>2, DidKeeps
<1> QED BY <1>1, <1>2, <1>6, <1>7, <1>8, NetworkStep

LEMMA DeadIs == Dead \in ServerState /\ Dead.goesTo = 0 /\ ~Dead.listens
BY DEF Dead, ServerState

\* The server s is dead, with none of its connections left open.
LEMMA Dies ==
  ASSUME IInv, NEW s \in Servers, NEW g, Goes(conn, g), conn' = Abandoned(g, s),
         srv' = [srv EXCEPT ![s] = Dead]
  PROVE  Goes(conn, conn') /\ Becomes(s, Dead)
<1>1. Goes(conn, conn')
  BY AbandonedGoes
<1>2. Conns(g)
  BY DEF Goes
<1>3. /\ \A j \in DOMAIN conn' : g[j].server = s => ~conn'[j].serves
      /\ \A j \in DOMAIN conn' : conn'[j].server = g[j].server
  BY <1>2, AbandonedIs DEF Shrinks
<1> QED BY <1>1, <1>3, DeadIs DEF Becomes

LEMMA StepShutdownNow ==
  ASSUME IInv, NEW i, ShutdownNow(i)
  PROVE  IInv'
<1>1. /\ Asked(i) /\ UNCHANGED cl /\ Did(i)
      /\ conn' = Abandoned(Written(conn, i, <<Says(i, "k")>>), conn[i].server)
      /\ srv' = [srv EXCEPT ![conn[i].server] = Dead]
  BY DEF ShutdownNow, Serves
<1>2. conn[i].server \in Servers /\ conn[i].client \in Clients
  BY <1>1, AskedIs
<1>3. Goes(conn, Written(conn, i, <<Says(i, "k")>>))
  BY <1>1, SaysDone
<1>4. Goes(conn, conn') /\ Becomes(conn[i].server, Dead)
  BY <1>1, <1>2, <1>3, Dies
<1>5. call' \in [Clients -> CallState] /\ CallsKeep
  BY <1>1, <1>2, DidKeeps
<1> QED BY <1>1, <1>2, <1>4, <1>5, NetworkStep

LEMMA StepHandleEof ==
  ASSUME IInv, UNCHANGED cl, call' \in [Clients -> CallState], CallsKeep, NEW i, NEW g, Goes(conn, g),
         i \in DOMAIN g, conn[i].server \in Servers, NEW cached \in SUBSET Clients,
         srv[conn[i].server].goesTo # 0 => cached = {}, HandleEof(i, g, cached)
  PROVE  IInv'
<1> DEFINE s == conn[i].server
           X == [srv[s] EXCEPT !.cached = cached]
<1>1. /\ conn' = Closed(g, i)
      /\ srv' = [srv EXCEPT ![s] = IF @.closing /\ ClientsOf(g, s) = {i} THEN Dead
                                   ELSE [@ EXCEPT !.cached = cached]]
  BY DEF HandleEof
<1>2. Goes(conn, conn')
  BY <1>1, ClosedGoes
<1>3. srv[s] \in ServerState
  BY DEF IInv, Types, TypeOK
<1>4. CASE srv[s].closing /\ ClientsOf(g, s) = {i}
  <2>1. srv' = [srv EXCEPT ![s] = Dead]
    BY <1>1, <1>4
  <2>2. Conns(g)
    BY DEF Goes
  <2>3. /\ Shrinks(g, conn') /\ \A j \in DOMAIN conn' : j = i => ~conn'[j].serves
    BY <1>1, <2>2, ClosedIs
  <2>4. \A j \in DOMAIN conn' : conn'[j].server = s => ~conn'[j].serves
    BY <1>4, <2>3 DEF Shrinks, ClientsOf
  <2>5. Becomes(s, Dead)
    BY <2>1, <2>4, DeadIs DEF Becomes
  <2> QED BY <1>2, <2>5, NetworkStep
<1>5. CASE ~(srv[s].closing /\ ClientsOf(g, s) = {i})
  <2>1. srv' = [srv EXCEPT ![s] = X]
    BY <1>1, <1>5
  <2>2. /\ X \in ServerState /\ X.goesTo = srv[s].goesTo /\ X.table = srv[s].table
        /\ X.listens = srv[s].listens /\ X.cached = cached
    BY <1>3 DEF ServerState
  <2> HIDE DEF X
  <2>3. Becomes(s, X)
    BY <1>2, <2>1, <2>2, StaysSound
  <2> QED BY <1>2, <2>3, NetworkStep
<1> QED BY <1>4, <1>5

LEMMA StepQuit ==
  ASSUME IInv, NEW i, Quit(i)
  PROVE  IInv'
<1> DEFINE g == Written(conn, i, <<Says(i, "k")>>)
<1>1. Asked(i) /\ ~IsMoved(i) /\ HandleEof(i, g, Known(i)) /\ Did(i) /\ UNCHANGED cl
  BY DEF Quit, Serves
<1>2. /\ conn[i].server \in Servers /\ conn[i].client \in Clients /\ i \in DOMAIN conn
      /\ srv[conn[i].server].goesTo = 0 /\ Known(i) \in SUBSET Clients
  BY <1>1, AskedIs, HeardFrom
<1>3. Goes(conn, g) /\ i \in DOMAIN g
  BY <1>1, <1>2, SaysDone DEF Written
<1>4. call' \in [Clients -> CallState] /\ CallsKeep
  BY <1>1, <1>2, DidKeeps
<1> HIDE DEF g
<1> QED BY <1>1, <1>2, <1>3, <1>4, StepHandleEof

LEMMA StepServerEof ==
  ASSUME IInv, NEW i, ServerEof(i)
  PROVE  IInv'
<1>1. i \in DOMAIN conn /\ HandleEof(i, conn, srv[conn[i].server].cached) /\ UNCHANGED <<cl, call>>
  BY DEF ServerEof
<1>2. conn[i].server \in Servers
  BY <1>1, ConnsAre DEF IInv, Conns, Conn
<1>3. /\ srv[conn[i].server].cached \in SUBSET Clients
      /\ srv[conn[i].server].goesTo # 0 => srv[conn[i].server].cached = {}
  BY <1>2 DEF IInv, Types, TypeOK, ServerState, ServersKnow
<1>4. Goes(conn, conn) /\ call' \in [Clients -> CallState] /\ CallsKeep
  BY <1>1, StaysGo, CallStays
<1> QED BY <1>1, <1>2, <1>3, <1>4, StepHandleEof

LEMMA StepBreak ==
  ASSUME IInv, NEW i, Break(i)
  PROVE  IInv'
<1>1. i \in DOMAIN conn /\ UNCHANGED <<srv, cl, call>>
  BY DEF Break
<1>2. PICK in \in {conn[i].in, <<>>}, out \in {conn[i].out, <<>>} :
        conn' = [conn EXCEPT ![i].cut = TRUE, ![i].in = in, ![i].out = out]
  BY DEF Break
<1> DEFINE h == [conn[i] EXCEPT !.cut = TRUE, !.in = in, !.out = out]
<1>3. Conns(conn) /\ conn[i] \in Conn /\ conn[i].server \in Servers
  BY <1>1, ConnsAre DEF IInv, Conns, Conn
<1>4. in \in Seq(Request) /\ out \in Seq(Answer)
  BY <1>3, RangeOfEmpty DEF Conn
<1>5. /\ h \in Conn /\ h.client = conn[i].client /\ h.server = conn[i].server /\ h.held = conn[i].held
      /\ h.serves = conn[i].serves /\ h.in = in /\ h.out = out
  BY <1>3, <1>4 DEF Conn
<1>6. DOMAIN conn' = DOMAIN conn /\ conn'[i] = h /\ \A j \in DOMAIN conn \ {i} : conn'[j] = conn[j]
  BY <1>1, <1>2
<1> HIDE DEF h
<1>7. Conns(conn')
  BY <1>3, <1>5, <1>6 DEF Conns
<1>8. \A j \in DOMAIN conn' : Later(conn[j].in, conn[j].out, conn'[j].in, conn'[j].out)
  BY <1>5, <1>6 DEF Later
<1>9. Goes(conn, conn')
  BY <1>5, <1>6, <1>7, <1>8 DEF Goes
<1>10. Becomes(conn[i].server, srv[conn[i].server])
  BY <1>1, <1>3, <1>9, SameServer
<1>11. call' \in [Clients -> CallState] /\ CallsKeep
  BY <1>1, CallStays
<1> QED BY <1>1, <1>3, <1>9, <1>10, <1>11, NetworkStep

LEMMA StepCrash ==
  ASSUME IInv, NEW s \in Servers, Crash(s)
  PROVE  IInv'
<1>1. /\ UNCHANGED <<cl, call>> /\ conn' = Abandoned(conn, s) /\ srv' = [srv EXCEPT ![s] = Dead]
  BY DEF Crash
<1>2. Goes(conn, conn') /\ Becomes(s, Dead)
  BY <1>1, StaysGo, Dies
<1>3. call' \in [Clients -> CallState] /\ CallsKeep
  BY <1>1, CallStays
<1> QED BY <1>1, <1>2, <1>3, NetworkStep

LEMMA StepRestart ==
  ASSUME IInv, NEW s \in Servers, Restart(s)
  PROVE  IInv'
<1>1. UNCHANGED <<conn, cl, call>> /\ srv' = [srv EXCEPT ![s] = Fresh]
  BY DEF Restart
<1>2. Fresh \in ServerState /\ Fresh.table /\ Fresh.cached = {}
  BY DEF Fresh, ServerState
<1>3. Goes(conn, conn')
  BY <1>1, StaysGo
<1>4. Becomes(s, Fresh)
  BY <1>1, <1>2 DEF Becomes
<1>5. call' \in [Clients -> CallState] /\ CallsKeep
  BY <1>1, CallStays
<1> QED BY <1>1, <1>3, <1>4, <1>5, NetworkStep

-----------------------------------------------------------------------------
(* How often a call is done.                                               *)

\* The connections, open or left, in which the client's last call waits.
Asks(c) ==
  {i \in DOMAIN conn : conn[i].client = c /\ \E x \in Range(conn[i].in) : x.n = cl[c].n}

Searching == {"search", "into"}

\* Each time the call was sent it waits, or it was done, or it is lost.
Counted(c) ==
  /\ \A i \in Asks(c) : Len(conn[i].in) = 1 /\ Head(conn[i].in).kind = call[c].kind
  /\ call[c].sent = 0 => Asks(c) = {} /\ call[c].done = 0
  /\ call[c].sent = 1 => /\ call[c].done <= 1
                         /\ call[c].done = 1 => Asks(c) = {}
                         /\ \A i, j \in Asks(c) : i = j

\* The answer to a call that was done: pc, out and K are where the client is,
\* what it has still to read, and the call.
Gives(pc, out, K) ==
  /\ pc = "wait" /\ out # <<>> /\ Head(out).what # "r" =>
       /\ K.done >= 1
       /\ K.kind \in Searching => Head(out).what = "m" /\ Len(out) = Rows + 3
  /\ pc = "rows" /\ K.kind \in Searching /\ out # <<>> => Len(out) + K.seen = Rows + 2
  /\ pc = "final" /\ K.kind \in Searching /\ out # <<>> => K.seen = Rows

DoneFor(c) ==
  /\ cl[c].pc # "idle" => call[c].res = "none"
  /\ cl[c].pc \in {"send", "wait"} => call[c].seen = 0
  /\ cl[c].pc \in {"rows", "final"} => call[c].done >= 1
  /\ cl[c].pc \in {"wait", "rows", "final"} => Gives(cl[c].pc, Sock(c).out, call[c])
  /\ call[c].res = "ok" => /\ call[c].done >= 1
                           /\ call[c].kind \in Searching => call[c].seen = Rows

\* Lines have the number of a call that was made.
Numbered == \A i \in DOMAIN conn : \A x \in Range(conn[i].in) : x.n <= cl[conn[i].client].n

OnceInv == Numbered /\ \A c \in Clients : ~call[c].after => Counted(c) /\ DoneFor(c)

\* A connection of which no lines are kept but those it had: for the server, and
\* for both sides.
Drained(f, g, j) ==
  \/ g[j].in = <<>>
  \/ j \in DOMAIN f /\ g[j].client = f[j].client /\ g[j].in = f[j].in

Lossy(f, g, j) ==
  /\ j \in DOMAIN f /\ g[j].client = f[j].client
  /\ g[j].in = f[j].in \/ g[j].in = <<>>
  /\ g[j].out = f[j].out \/ g[j].out = <<>>

Drains(f, g) == \A j \in DOMAIN g : Drained(f, g, j)
Loses(f, g) == \A j \in DOMAIN g : Lossy(f, g, j)

LEMMA HungUpLoses ==
  ASSUME NEW f, Conns(f), NEW i
  PROVE  Loses(f, HungUp(f, i))
<1>1. CASE i = NoSock
  BY <1>1 DEF HungUp, Loses, Lossy
<1>2. CASE i # NoSock
  <2> DEFINE g == [f EXCEPT ![i].held = FALSE, ![i].out = <<>>]
             h == [f[i] EXCEPT !.held = FALSE, !.out = <<>>]
  <2>1. HungUp(f, i) = Tidy(g)
    BY <1>2 DEF HungUp
  <2>2. /\ DOMAIN g = DOMAIN f /\ \A j \in DOMAIN f \ {i} : g[j] = f[j]
        /\ i \in DOMAIN f => g[i] = h
    OBVIOUS
  <2>3. i \in DOMAIN f => h.client = f[i].client /\ h.in = f[i].in /\ h.out = <<>>
    BY DEF Conns, Conn
  <2> HIDE DEF g, h
  <2>4. DOMAIN Tidy(g) \subseteq DOMAIN g /\ \A j \in DOMAIN Tidy(g) : Tidy(g)[j] = g[j]
    BY TidyIs
  <2> QED BY <2>1, <2>2, <2>3, <2>4 DEF Loses, Lossy
<1> QED BY <1>1, <1>2

LEMMA CountedStill ==
  ASSUME NEW c, Counted(c), cl'[c].n = cl[c].n,
         \A j \in DOMAIN conn' : conn'[j].client = c => Drained(conn, conn', j),
         call'[c].kind = call[c].kind, call'[c].sent = call[c].sent, call'[c].done = call[c].done
  PROVE  Counted(c)'
<1>1. \A i \in Asks(c)' : i \in Asks(c) /\ conn'[i].in = conn[i].in
  BY RangeOfEmpty DEF Asks, Drained
<1> QED BY <1>1 DEF Counted

LEMMA NumberedStill ==
  ASSUME IInv, Numbered, Drains(conn, conn'), Conns(conn'),
         \A d \in Clients : cl'[d].n = cl[d].n \/ cl'[d].n = cl[d].n + 1
  PROVE  Numbered'
<1> SUFFICES ASSUME NEW i \in DOMAIN conn', NEW x \in Range(conn'[i].in)
             PROVE  x.n <= cl'[conn'[i].client].n
  BY DEF Numbered
<1>1. /\ i \in DOMAIN conn /\ conn'[i].client = conn[i].client /\ x \in Range(conn[i].in)
      /\ conn'[i].client \in Clients
  BY RangeOfEmpty DEF Drains, Drained, Conns, Conn
<1>2. x.n <= cl[conn[i].client].n /\ cl[conn[i].client].n \in Nat
  BY <1>1, ClientIs DEF Numbered, ClientState
<1>3. x.n \in Nat
  <2>1. conn[i].in \in Seq(Request)
    BY <1>1, ConnsAre DEF IInv, Conns, Conn
  <2>2. x \in Request
    BY <1>1, <2>1 DEF Range
  <2> QED BY <2>2 DEF Request
<1> QED BY <1>1, <1>2, <1>3

\* What C and K have to be for a call to be done once.
Done(c, C, K) ==
  /\ C.pc # "idle" => K.res = "none"
  /\ C.pc \in {"send", "wait"} => K.seen = 0
  /\ C.pc \in {"rows", "final"} => K.done >= 1
  /\ C.pc \in {"wait", "rows", "final"} => Gives(C.pc, conn'[C.sock].out, K)
  /\ K.res = "ok" => K.done >= 1 /\ (K.kind \in Searching => K.seen = Rows)

LEMMA OthersOnce ==
  ASSUME IInv, OnceInv, NEW c \in Clients, NEW C, NEW K, Steps(c, C, K), OthersKeep(c),
         \A j \in DOMAIN conn' : conn'[j].client # c => Drained(conn, conn', j),
         NEW d \in Clients \ {c}, ~call'[d].after
  PROVE  Counted(d)' /\ DoneFor(d)'
<1>1. cl'[d] = cl[d] /\ call'[d] = call[d]
  BY DEF Steps, IInv, Types, TypeOK
<1>2. Counted(d)'
  BY <1>1, CountedStill DEF OnceInv
<1>3. cl[d].pc \in {"wait", "rows", "final"} => Sock(d)' = Sock(d)
  BY <1>1, ClientIs DEF OthersKeep, Sock
<1>4. DoneFor(d)'
  BY <1>1, <1>3 DEF OnceInv, DoneFor
<1> QED BY <1>2, <1>4

LEMMA ClientOnce ==
  ASSUME IInv, OnceInv, NEW c \in Clients, NEW C, NEW K, Steps(c, C, K),
         Conns(conn'), OthersKeep(c), Drains(conn, conn'), C.n = cl[c].n,
         K.kind = call[c].kind, K.sent = call[c].sent, K.done = call[c].done,
         K.after = call[c].after, ~call[c].after => Done(c, C, K)
  PROVE  OnceInv'
<1>1. cl'[c] = C /\ call'[c] = K /\ \A d \in Clients \ {c} : cl'[d] = cl[d]
  BY DEF Steps, IInv, Types, TypeOK
<1>2. Numbered'
  BY <1>1, NumberedStill DEF OnceInv
<1>3. ASSUME ~call[c].after PROVE Counted(c)' /\ DoneFor(c)'
  <2>1. Counted(c)'
    BY <1>1, <1>3, CountedStill DEF OnceInv, Drains
  <2>2. DoneFor(c)'
    BY <1>1, <1>3 DEF Done, DoneFor, Sock
  <2> QED BY <2>1, <2>2
<1>4. \A d \in Clients \ {c} : ~call'[d].after => Counted(d)' /\ DoneFor(d)'
  BY OthersOnce DEF Drains
<1> QED BY <1>1, <1>2, <1>3, <1>4 DEF OnceInv

\* The client returns.
LEMMA ReturnOnce ==
  ASSUME IInv, OnceInv, NEW c \in Clients, NEW C \in ClientState, NEW got, NEW res,
         Return(c, C, res, got), Conns(conn'), OthersKeep(c), Drains(conn, conn'), C.n = cl[c].n,
         res = "ok" /\ ~call[c].after =>
           call[c].done >= 1 /\ (call[c].kind \in Searching => call[c].seen = Rows)
  PROVE  OnceInv'
<1> DEFINE D == [C EXCEPT !.pc = "idle"]
           K == [call[c] EXCEPT !.res = res, !.got = got, !.tries = 0]
<1>1. call[c] \in CallState
  BY ClientIs
<1>2. D.pc = "idle" /\ D.n = C.n
  BY DEF ClientState
<1>3. /\ K.kind = call[c].kind /\ K.sent = call[c].sent /\ K.done = call[c].done
      /\ K.after = call[c].after /\ K.seen = call[c].seen /\ K.res = res
  BY <1>1 DEF CallState
<1>4. Steps(c, D, K)
  BY DEF Return, Steps, IInv, Types, TypeOK
<1> HIDE DEF D, K
<1>5. ~call[c].after => Done(c, D, K)
  BY <1>2, <1>3 DEF Done
<1> QED BY <1>2, <1>3, <1>4, <1>5, ClientOnce

LEMMA SameDrains ==
  ASSUME IInv, UNCHANGED conn, NEW c
  PROVE  Conns(conn') /\ OthersKeep(c) /\ Drains(conn, conn')
BY SameConns DEF IInv, Drains, Drained

LEMMA HangUpDrains ==
  ASSUME IInv, NEW c \in Clients, conn' = HungUp(conn, cl[c].sock)
  PROVE  Conns(conn') /\ OthersKeep(c) /\ Drains(conn, conn')
<1>1. Loses(conn, conn')
  BY ConnsAre, HungUpLoses DEF IInv
<1> QED BY <1>1, HangUp DEF IInv, OthersKeep, Loses, Lossy, Drains, Drained

LEMMA ReadDrains ==
  ASSUME IInv, NEW c \in Clients, cl[c].sock # NoSock, Sock(c).out # <<>>, conn' = Read(c)
  PROVE  Conns(conn') /\ OthersKeep(c) /\ Drains(conn, conn')
<1>1. /\ Conns(conn') /\ DOMAIN conn' = DOMAIN conn
      /\ conn'[cl[c].sock].in = conn[cl[c].sock].in
      /\ conn'[cl[c].sock].client = c
      /\ \A j \in DOMAIN conn \ {cl[c].sock} : conn'[j] = conn[j]
  BY ReadIs DEF IInv
<1>2. conn[cl[c].sock].client = c
  BY ClientIs
<1>3. Drains(conn, conn')
  BY <1>1, <1>2 DEF Drains, Drained
<1>4. \A d \in Clients \ {c} : cl[d].sock # NoSock => cl[d].sock \in DOMAIN conn \ {cl[c].sock}
  BY SockIs DEF IInv
<1> QED BY <1>1, <1>3, <1>4 DEF OthersKeep

\* A client that waits or reads in its own call: what its next line is.
LEMMA OwnLine ==
  ASSUME IInv, OnceInv, NEW c \in Clients, ~call[c].after, cl[c].pc \in {"wait", "rows", "final"}
  PROVE  /\ cl[c].sock # NoSock /\ Sock(c) = conn[cl[c].sock] /\ Sock(c).out \in Seq(Answer)
         /\ Fits(cl[c].pc, cl[c].n, Sock(c).in, Sock(c).out)
         /\ Counted(c) /\ DoneFor(c)
         /\ Sock(c).out # <<>> => NextLine(c) = Sock(c).out[1]
<1>1. /\ cl[c].sock # NoSock /\ ~cl[c].eof /\ InStepOf(c) /\ ~cl[c].left
  BY ClientIs DEF GotOwn
<1>2. Sock(c) = conn[cl[c].sock] /\ Sock(c).out \in Seq(Answer)
  BY <1>1, SockIs DEF IInv, Conn
<1> QED BY <1>1, <1>2 DEF InStepOf, OnceInv, NextLine

LEMMA OnceReturns ==
  ASSUME IInv, OnceInv, NEW c \in Clients,
         ConnectFails(c) \/ GiveUp(c) \/ StayBehind(c) \/ Stop(c) \/ IntoStops(c)
  PROVE  OnceInv'
<1>1. /\ cl[c] \in ClientState /\ Without(c) \in ClientState /\ Without(c).n = cl[c].n
  BY ClientIs, WithoutIs DEF IInv
<1>2. CASE ConnectFails(c) \/ Stop(c)
  <2>1. conn' = HungUp(conn, cl[c].sock) /\ \E res \in {"error", "stopped"} : Return(c, Without(c), res, 0)
    BY <1>2 DEF ConnectFails, Stop, Disconnect
  <2> QED BY <1>1, <2>1, HangUpDrains, ReturnOnce
<1>3. CASE GiveUp(c)
  <2> DEFINE C == [cl[c] EXCEPT !.eof = TRUE]
  <2>1. conn' = conn /\ Return(c, C, "error", 0)
    BY <1>3 DEF GiveUp
  <2>2. C \in ClientState /\ C.n = cl[c].n
    BY <1>1 DEF ClientState
  <2> HIDE DEF C
  <2> QED BY <2>1, <2>2, SameDrains, ReturnOnce
<1>4. CASE StayBehind(c)
  <2>1. /\ cl[c].pc \in {"wait", "final"} /\ Sock(c).out # <<>> /\ conn' = Read(c)
        /\ Return(c, cl[c], "moved", NextLine(c).n)
    BY <1>4 DEF StayBehind, Waiting
  <2>2. Conns(conn') /\ OthersKeep(c) /\ Drains(conn, conn')
    BY <2>1, ClientIs, ReadDrains
  <2> QED BY <1>1, <2>1, <2>2, ReturnOnce
<1>5. CASE IntoStops(c)
  <2> DEFINE C == [cl[c] EXCEPT !.left = TRUE]
  <2>1. /\ cl[c].pc = "rows" /\ Sock(c).out # <<>> /\ conn' = Read(c)
        /\ Return(c, C, "stopped", 0)
    BY <1>5 DEF IntoStops, Reading
  <2>2. C \in ClientState /\ C.n = cl[c].n
    BY <1>1 DEF ClientState
  <2>3. Conns(conn') /\ OthersKeep(c) /\ Drains(conn, conn')
    BY <2>1, ClientIs, ReadDrains
  <2> HIDE DEF C
  <2> QED BY <2>1, <2>2, <2>3, ReturnOnce
<1> QED BY <1>2, <1>3, <1>4, <1>5

\* The client hangs up, and sends again on another connection.
LEMMA OnceOver ==
  ASSUME IInv, OnceInv, NEW c \in Clients, cl[c].pc # "idle", conn' = HungUp(conn, cl[c].sock),
         NEW C, NEW K, Steps(c, C, K), C.pc = "send", C.n = cl[c].n,
         K.kind = call[c].kind, K.sent = call[c].sent, K.done = call[c].done,
         K.after = call[c].after, K.seen = call[c].seen, K.res = call[c].res,
         ~call[c].after => call[c].seen = 0
  PROVE  OnceInv'
<1>1. ~call[c].after => Done(c, C, K)
  BY DEF OnceInv, DoneFor, Done
<1> QED BY <1>1, HangUpDrains, ClientOnce

LEMMA OnceRetry ==
  ASSUME IInv, OnceInv, NEW c \in Clients, Retry(c)
  PROVE  OnceInv'
<1>1. cl[c].pc = "wait" /\ cl[c] \in ClientState /\ call[c] \in CallState
  BY ClientIs DEF Retry
<1>2. CASE call[c].tries = Retries
  <2> DEFINE C == [cl[c] EXCEPT !.eof = TRUE]
  <2>1. conn' = conn /\ Return(c, C, "error", 0)
    BY <1>2 DEF Retry
  <2>2. C \in ClientState /\ C.n = cl[c].n
    BY <1>1 DEF ClientState
  <2> HIDE DEF C
  <2> QED BY <2>1, <2>2, SameDrains, ReturnOnce
<1>3. CASE call[c].tries # Retries
  <2> DEFINE C == [Without(c) EXCEPT !.pc = "send"]
             K == [call[c] EXCEPT !.tries = call[c].tries + 1]
  <2>1. conn' = HungUp(conn, cl[c].sock) /\ Steps(c, C, K)
    BY <1>3 DEF Retry, Disconnect, Steps, IInv, Types, TypeOK
  <2>2. Without(c) \in ClientState /\ Without(c).n = cl[c].n
    BY WithoutIs DEF IInv
  <2>3. C.pc = "send" /\ C.n = cl[c].n
    BY <2>2 DEF ClientState
  <2>4. /\ K.kind = call[c].kind /\ K.sent = call[c].sent /\ K.done = call[c].done
        /\ K.after = call[c].after /\ K.seen = call[c].seen /\ K.res = call[c].res
    BY <1>1 DEF CallState
  <2>5. ~call[c].after => call[c].seen = 0
    BY <1>1 DEF OnceInv, DoneFor
  <2> HIDE DEF C, K
  <2> QED BY <1>1, <2>1, <2>3, <2>4, <2>5, OnceOver
<1> QED BY <1>2, <1>3

LEMMA OnceFollow ==
  ASSUME IInv, OnceInv, NEW c \in Clients, Follow(c)
  PROVE  OnceInv'
<1> DEFINE C == [Without(c) EXCEPT !.pc = "send", !.url = NextLine(c).to]
           K == [call[c] EXCEPT !.tries = 0]
<1>1. /\ cl[c].pc \in {"wait", "final"} /\ Sock(c).out # <<>> /\ NextLine(c).what = "r"
      /\ conn' = HungUp(conn, cl[c].sock) /\ call[c] \in CallState
  BY ClientIs DEF Follow, Waiting, Disconnect
<1>2. Steps(c, C, K)
  BY DEF Follow, Steps, IInv, Types, TypeOK
<1>3. ASSUME ~call[c].after PROVE call[c].seen = 0
  BY <1>1, <1>3, OwnLine DEF Fits, DoneFor
<1>4. Without(c) \in ClientState /\ Without(c).n = cl[c].n
  BY WithoutIs DEF IInv
<1>5. C.pc = "send" /\ C.n = cl[c].n
  BY <1>4 DEF ClientState
<1>6. /\ K.kind = call[c].kind /\ K.sent = call[c].sent /\ K.done = call[c].done
      /\ K.after = call[c].after /\ K.seen = call[c].seen /\ K.res = call[c].res
  BY <1>1 DEF CallState
<1> HIDE DEF C, K
<1> QED BY <1>1, <1>2, <1>3, <1>5, <1>6, OnceOver

LEMMA OnceTimeout ==
  ASSUME IInv, OnceInv, NEW c \in Clients, Timeout(c)
  PROVE  OnceInv'
<1>1. /\ cl[c].pc = "idle" /\ conn' = HungUp(conn, cl[c].sock) /\ UNCHANGED call
      /\ cl' = [cl EXCEPT ![c] = Without(c)]
  BY DEF Timeout, Disconnect
<1>2. Without(c).pc = "idle" /\ Without(c).n = cl[c].n
  BY <1>1, WithoutIs DEF IInv
<1>3. Steps(c, Without(c), call[c])
  BY <1>1 DEF Steps, IInv, Types, TypeOK
<1>4. ~call[c].after => Done(c, Without(c), call[c])
  BY <1>2 DEF OnceInv, DoneFor, Done
<1> QED BY <1>1, <1>2, <1>3, <1>4, HangUpDrains, ClientOnce

LEMMA OnceConnect ==
  ASSUME IInv, OnceInv, NEW c \in Clients, Connect(c)
  PROVE  OnceInv'
<1>0. PICK u : u = Unused
  OBVIOUS
<1> DEFINE old == HungUp(conn, cl[c].sock)
           new == [client |-> c, server |-> cl[c].url, in |-> <<>>, out |-> <<>>,
                   held |-> TRUE, serves |-> TRUE, cut |-> FALSE]
           C == [cl[c] EXCEPT !.sock = u, !.eof = FALSE, !.left = FALSE]
<1>1. /\ cl[c].pc = "send" /\ DOMAIN conn # Ids /\ UNCHANGED call
      /\ conn' = [i \in DOMAIN old \cup {u} |-> IF i = u THEN new ELSE old[i]]
      /\ cl' = [cl EXCEPT ![c].sock = u, ![c].eof = FALSE, ![c].left = FALSE]
  BY <1>0 DEF Connect, Disconnected
<1>2. Conns(conn) /\ cl[c] \in ClientState /\ cl[c].url \in Servers
  BY ConnsAre, ClientIs DEF IInv, ClientState
<1>3. u \in Ids /\ u \notin DOMAIN conn
  <2>1. \E i \in Ids : i \notin DOMAIN conn
    BY <1>1, <1>2 DEF Conns
  <2> QED BY <1>0, <2>1 DEF Unused
<1>4. /\ Conns(old) /\ Loses(conn, old)
      /\ \A j \in DOMAIN old \ {cl[c].sock} : old[j] = conn[j]
      /\ \A j \in DOMAIN conn \ {cl[c].sock} : conn[j].held => j \in DOMAIN old
  BY <1>2, HungUpIs, HungUpLoses
<1>5. new \in Conn /\ new.in = <<>>
  BY <1>2, RangeOfEmpty DEF Conn
<1>6. C.pc = "send" /\ C.n = cl[c].n
  BY <1>1, <1>2 DEF ClientState
<1>7. Steps(c, C, call[c])
  BY <1>1 DEF Steps, IInv, Types, TypeOK
<1> HIDE DEF old, new, C
<1>8. /\ DOMAIN conn' = DOMAIN old \cup {u} /\ conn'[u] = new
      /\ \A j \in DOMAIN old \ {u} : conn'[j] = old[j]
  BY <1>1
<1>9. Conns(conn')
  BY <1>3, <1>4, <1>5, <1>8 DEF Conns
<1>10. Drains(conn, conn')
  BY <1>4, <1>5, <1>8 DEF Drains, Drained, Loses, Lossy
<1>11. OthersKeep(c)
  <2> SUFFICES ASSUME NEW d \in Clients \ {c}, cl[d].sock # NoSock
               PROVE  cl[d].sock \in DOMAIN conn' /\ conn'[cl[d].sock] = conn[cl[d].sock]
    BY DEF OthersKeep
  <2>1. cl[d].sock \in DOMAIN conn /\ conn[cl[d].sock].held
    BY ClientIs
  <2>2. cl[c].sock # cl[d].sock
    BY SockIs DEF IInv
  <2> QED BY <1>3, <1>4, <1>8, <2>1, <2>2
<1>12. ~call[c].after => Done(c, C, call[c])
  BY <1>1, <1>6 DEF OnceInv, DoneFor, Done
<1> QED BY <1>6, <1>7, <1>9, <1>10, <1>11, <1>12, ClientOnce

LEMMA OnceCall ==
  ASSUME IInv, OnceInv, NEW c \in Clients, NEW kind \in Kinds[c], NEW to \in Servers \cup {0}, Call(c, kind, to)
  PROVE  OnceInv'
<1> DEFINE C == [cl[c] EXCEPT !.pc = "send", !.n = @ + 1]
           K == [NoCall EXCEPT !.kind = kind, !.to = to, !.after = cl[c].left]
<1>1. cl[c] \in ClientState /\ UNCHANGED conn
  BY ClientIs DEF Call
<1>2. C.pc = "send" /\ C.n = cl[c].n + 1 /\ cl[c].n \in Nat
  BY <1>1 DEF ClientState
<1>3. K.sent = 0 /\ K.done = 0 /\ K.seen = 0 /\ K.res = "none"
  BY DEF NoCall
<1>4. Steps(c, C, K)
  BY DEF Call, Steps, IInv, Types, TypeOK
<1> HIDE DEF C, K
<1>5. Conns(conn') /\ OthersKeep(c) /\ Drains(conn, conn')
  BY <1>1, SameDrains
<1>6. cl'[c] = C /\ call'[c] = K /\ \A d \in Clients \ {c} : cl'[d] = cl[d]
  BY <1>4 DEF Steps, IInv, Types, TypeOK
<1>7. Numbered'
  BY <1>2, <1>5, <1>6, NumberedStill DEF OnceInv
<1>8. Asks(c)' = {}
  BY <1>1, <1>2, <1>6 DEF Asks, OnceInv, Numbered
<1>9. Counted(c)' /\ DoneFor(c)'
  BY <1>2, <1>3, <1>6, <1>8 DEF Counted, DoneFor
<1>10. \A d \in Clients \ {c} : ~call'[d].after => Counted(d)' /\ DoneFor(d)'
  BY <1>4, <1>5, OthersOnce DEF Drains
<1> QED BY <1>7, <1>9, <1>10 DEF OnceInv

LEMMA OnceSend ==
  ASSUME IInv, OnceInv, NEW c \in Clients, Send(c)
  PROVE  OnceInv'
<1> DEFINE i == cl[c].sock
           line == [n |-> cl[c].n, kind |-> call[c].kind, to |-> call[c].to]
           h == [conn[i] EXCEPT !.in = Append(@, line)]
           C == [cl[c] EXCEPT !.pc = "wait"]
           K == [call[c] EXCEPT !.sent = call[c].sent + 1]
<1>1. /\ cl[c].pc = "send" /\ i # NoSock /\ ~cl[c].eof
      /\ conn' = IF Sock(c).serves /\ ~Sock(c).cut
                 THEN [conn EXCEPT ![i].in = Append(@, line)] ELSE conn
  BY DEF Send, Disconnected
<1>2. /\ cl[c] \in ClientState /\ call[c] \in CallState /\ call[c].kind \in AllKinds
      /\ InStepOf(c) /\ GotOwn(c)
  BY <1>1, ClientIs
<1>3. i \in DOMAIN conn /\ conn[i] \in Conn /\ conn[i].client = c
  BY <1>1, SockIs DEF IInv
<1>4. C.pc = "wait" /\ C.sock = i /\ C.n = cl[c].n
  BY <1>2 DEF ClientState
<1>5. /\ K.kind = call[c].kind /\ K.done = call[c].done /\ K.after = call[c].after
      /\ K.seen = call[c].seen /\ K.res = call[c].res /\ K.sent = call[c].sent + 1
      /\ call[c].sent \in Nat /\ call[c].done \in Nat
  BY <1>2 DEF CallState
<1>6. Steps(c, C, K)
  BY DEF Send, Steps, IInv, Types, TypeOK
<1>7. line \in Request /\ line.n = cl[c].n /\ line.kind = call[c].kind
  BY <1>2 DEF Request, ClientState, CallState
<1>8. conn[i].in \in Seq(Request)
  BY <1>3 DEF Conn
<1> HIDE DEF line
<1>9. /\ Append(conn[i].in, line) \in Seq(Request)
      /\ Range(Append(conn[i].in, line)) \subseteq Range(conn[i].in) \cup {line}
  BY <1>7, <1>8, RangeOfAppend
<1>10. h.client = c /\ h.in = Append(conn[i].in, line) /\ h.out = conn[i].out
  BY <1>3, <1>9 DEF Conn
<1>11. /\ DOMAIN conn' = DOMAIN conn /\ conn'[i] \in {conn[i], h}
       /\ \A j \in DOMAIN conn \ {i} : conn'[j] = conn[j]
  BY <1>1, <1>3
<1>12. OthersKeep(c)
  BY <1>1, <1>11, ClientIs, SockIs DEF OthersKeep, IInv
<1> HIDE DEF i, h, C, K
<1>13. cl'[c] = C /\ call'[c] = K /\ \A d \in Clients \ {c} : cl'[d] = cl[d]
  BY <1>6 DEF Steps, IInv, Types, TypeOK
<1>14. \A d \in Clients : cl'[d].n = cl[d].n
  BY <1>4, <1>13
<1>15. \A j \in DOMAIN conn' \ {i} : Drained(conn, conn', j)
  BY <1>11 DEF Drained
<1>16. Numbered'
  <2> SUFFICES ASSUME NEW j \in DOMAIN conn', NEW x \in Range(conn'[j].in)
               PROVE  x.n <= cl'[conn'[j].client].n
    BY DEF Numbered
  <2>1. /\ j \in DOMAIN conn /\ conn'[j].client = conn[j].client /\ conn[j].client \in Clients
        /\ x \in Range(conn[j].in) \/ (j = i /\ x = line)
    BY <1>3, <1>9, <1>10, <1>11, ConnsAre DEF IInv, Conns, Conn
  <2>2. cl[c].n \in Nat
    BY <1>2 DEF ClientState
  <2> QED BY <1>3, <1>7, <1>14, <2>1, <2>2 DEF OnceInv, Numbered
<1>17. \A d \in Clients \ {c} : ~call'[d].after => Counted(d)' /\ DoneFor(d)'
  <2>1. \A j \in DOMAIN conn' : conn'[j].client # c => Drained(conn, conn', j)
    BY <1>3, <1>10, <1>11, <1>15
  <2> QED BY <1>6, <1>12, <2>1, OthersOnce
<1>18. ASSUME ~call[c].after PROVE Counted(c)' /\ DoneFor(c)'
  <2>1. conn[i].in = <<>> /\ conn[i].out = <<>>
    BY <1>1, <1>2, <1>18 DEF InStepOf, GotOwn, Fits, i
  <2>2. i \notin Asks(c) /\ Counted(c) /\ DoneFor(c)
    BY <1>18, <2>1, RangeOfEmpty DEF Asks, OnceInv
  <2>3. \A j \in Asks(c)' \ {i} : j \in Asks(c) /\ conn'[j] = conn[j]
    BY <1>11, <1>14 DEF Asks
  <2>4. i \in Asks(c)' => Len(conn'[i].in) = 1 /\ Head(conn'[i].in).kind = call[c].kind
    <3> SUFFICES ASSUME i \in Asks(c)' PROVE Len(conn'[i].in) = 1 /\ Head(conn'[i].in).kind = call[c].kind
      OBVIOUS
    <3>1. conn'[i].in # <<>>
      BY RangeOfEmpty DEF Asks
    <3>2. conn'[i] = h
      BY <1>11, <2>1, <3>1
    <3>3. conn'[i].in = Append(<<>>, line)
      BY <1>10, <2>1, <3>2, Zenon
    <3>4. Len(Append(<<>>, line)) = 1 /\ Head(Append(<<>>, line)) = line
      BY <1>7
    <3> QED BY <1>7, <3>3, <3>4
  <2>5. Counted(c)'
    <3>1. \A j \in Asks(c)' : Len(conn'[j].in) = 1 /\ Head(conn'[j].in).kind = call[c].kind
      BY <2>2, <2>3, <2>4 DEF Counted
    <3>2. K.sent = 1 => /\ K.done = 0 /\ \A j, k \in Asks(c)' : j = k
      BY <1>5, <2>2, <2>3 DEF Counted
    <3> QED BY <1>5, <1>13, <3>1, <3>2 DEF Counted
  <2>6. DoneFor(c)'
    <3>1. conn'[i].out = <<>>
      BY <1>10, <1>11, <2>1
    <3>2. Sock(c)'.out = <<>>
      BY <1>4, <1>13, <3>1 DEF Sock
    <3>3. call[c].res = "none" /\ call[c].seen = 0
      BY <1>1, <2>2 DEF DoneFor
    <3> QED BY <1>4, <1>5, <1>13, <3>2, <3>3 DEF DoneFor, Gives
  <2> QED BY <2>5, <2>6
<1> QED BY <1>5, <1>13, <1>16, <1>17, <1>18 DEF OnceInv

LEMMA OnceGetResult ==
  ASSUME IInv, OnceInv, NEW c \in Clients, GetResult(c)
  PROVE  OnceInv'
<1> DEFINE res == IF NextLine(c).what = "k" THEN "ok" ELSE "error"
<1>1. /\ cl[c].pc \in {"wait", "final"} /\ Sock(c).out # <<>> /\ conn' = Read(c)
      /\ NextLine(c).what # "m" /\ NextLine(c).what # "r"
      /\ Return(c, cl[c], res, NextLine(c).n)
  BY DEF GetResult, Waiting
<1>2. cl[c] \in ClientState /\ cl[c].sock # NoSock
  BY <1>1, ClientIs
<1>3. Conns(conn') /\ OthersKeep(c) /\ Drains(conn, conn')
  BY <1>1, <1>2, ReadDrains
<1>4. ASSUME ~call[c].after
      PROVE  call[c].done >= 1 /\ (call[c].kind \in Searching => call[c].seen = Rows)
  <2>1. DoneFor(c) /\ Gives(cl[c].pc, Sock(c).out, call[c])
    BY <1>1, <1>4, OwnLine DEF DoneFor
  <2> QED BY <1>1, <2>1 DEF DoneFor, Gives, NextLine
<1> QED BY <1>1, <1>2, <1>3, <1>4, ReturnOnce

\* The client goes on reading, at pc.
LEMMA OnceReadOn ==
  ASSUME IInv, OnceInv, NEW c \in Clients, cl[c].pc # "idle", NEW pc \in {"rows", "final"}, NEW seen,
         cl' = [cl EXCEPT ![c].pc = pc], call' = [call EXCEPT ![c].seen = seen],
         Conns(conn'), OthersKeep(c), Drains(conn, conn'),
         ~call[c].after =>
           /\ call[c].done >= 1
           /\ call[c].kind \in Searching /\ conn'[cl[c].sock].out # <<>> =>
                IF pc = "rows" THEN Len(conn'[cl[c].sock].out) + seen = Rows + 2 ELSE seen = Rows
  PROVE  OnceInv'
<1> DEFINE C == [cl[c] EXCEPT !.pc = pc]
           K == [call[c] EXCEPT !.seen = seen]
<1>1. cl[c] \in ClientState /\ call[c] \in CallState
  BY ClientIs
<1>2. C.pc = pc /\ C.sock = cl[c].sock /\ C.n = cl[c].n
  BY <1>1 DEF ClientState
<1>3. /\ K.kind = call[c].kind /\ K.sent = call[c].sent /\ K.done = call[c].done
      /\ K.after = call[c].after /\ K.seen = seen /\ K.res = call[c].res
  BY <1>1 DEF CallState
<1>4. Steps(c, C, K)
  BY DEF Steps, IInv, Types, TypeOK
<1> HIDE DEF C, K
<1>5. ~call[c].after => Done(c, C, K)
  BY <1>2, <1>3 DEF OnceInv, DoneFor, Done, Gives
<1> QED BY <1>2, <1>3, <1>4, <1>5, ClientOnce

LEMMA OnceStartRows ==
  ASSUME IInv, OnceInv, NEW c \in Clients, StartRows(c)
  PROVE  OnceInv'
<1> DEFINE i == cl[c].sock
<1>1. /\ cl[c].pc \in {"wait", "final"} /\ Sock(c).out # <<>> /\ NextLine(c).what = "m"
      /\ conn' = Read(c) /\ UNCHANGED call /\ cl' = [cl EXCEPT ![c].pc = "rows"]
  BY DEF StartRows, Waiting
<1>2. cl[c].sock # NoSock /\ conn'[i].out = Tail(conn[i].out)
  BY <1>1, ClientIs, ReadIs DEF IInv
<1>3. Conns(conn') /\ OthersKeep(c) /\ Drains(conn, conn')
  BY <1>1, <1>2, ReadDrains
<1>4. ASSUME ~call[c].after
      PROVE  /\ call[c].done >= 1
             /\ call[c].kind \in Searching => Len(conn'[i].out) + call[c].seen = Rows + 2
  <2>1. /\ DoneFor(c) /\ Fits(cl[c].pc, cl[c].n, Sock(c).in, Sock(c).out)
        /\ Sock(c) = conn[i] /\ Sock(c).out \in Seq(Answer) /\ NextLine(c) = Sock(c).out[1]
    BY <1>1, <1>4, OwnLine
  <2>2. cl[c].pc = "wait"
    BY <1>1, <2>1 DEF Fits
  <2>3. /\ call[c].seen = 0 /\ call[c].done >= 1
        /\ call[c].kind \in Searching => Len(Sock(c).out) = Rows + 3
    BY <1>1, <2>1, <2>2 DEF DoneFor, Gives, NextLine
  <2>4. Len(Tail(Sock(c).out)) = Len(Sock(c).out) - 1 /\ Rows \in Nat
    BY <1>1, <2>1, SizesAssumption
  <2>5. Len(conn'[i].out) = Len(Sock(c).out) - 1
    BY <1>2, <2>1, <2>4, Zenon
  <2>6. Len(Sock(c).out) = Rows + 3 => (Len(Sock(c).out) - 1) + 0 = Rows + 2
    BY <2>4
  <2> QED BY <2>3, <2>5, <2>6, Zenon
<1>5. call' = [call EXCEPT ![c].seen = call[c].seen]
  BY <1>1, SameCall
<1> QED BY <1>1, <1>3, <1>4, <1>5, OnceReadOn

LEMMA OnceReadRow ==
  ASSUME IInv, OnceInv, NEW c \in Clients, ReadRow(c)
  PROVE  OnceInv'
<1> DEFINE i == cl[c].sock
<1>1. /\ cl[c].pc = "rows" /\ Sock(c).out # <<>> /\ conn' = Read(c) /\ UNCHANGED cl
      /\ call' = [call EXCEPT ![c].seen = @ + 1]
  BY DEF ReadRow, Reading
<1>2. /\ cl[c].sock # NoSock /\ conn'[i].out = Tail(conn[i].out)
      /\ cl[c] \in ClientState /\ call[c] \in CallState
  BY <1>1, ClientIs, ReadIs DEF IInv
<1>3. Conns(conn') /\ OthersKeep(c) /\ Drains(conn, conn')
  BY <1>1, <1>2, ReadDrains
<1>4. ASSUME ~call[c].after
      PROVE  /\ call[c].done >= 1
             /\ call[c].kind \in Searching => Len(conn'[i].out) + (call[c].seen + 1) = Rows + 2
  <2>1. DoneFor(c) /\ Sock(c) = conn[i] /\ Sock(c).out \in Seq(Answer)
    BY <1>1, <1>4, OwnLine
  <2>2. /\ call[c].done >= 1
        /\ call[c].kind \in Searching => Len(Sock(c).out) + call[c].seen = Rows + 2
    BY <1>1, <2>1 DEF DoneFor, Gives
  <2>3. /\ Len(Tail(Sock(c).out)) = Len(Sock(c).out) - 1 /\ Len(Sock(c).out) \in Nat
        /\ call[c].seen \in Nat /\ Rows \in Nat
    BY <1>1, <1>2, <2>1, SizesAssumption DEF CallState
  <2>4. Len(conn'[i].out) = Len(Sock(c).out) - 1
    BY <1>2, <2>1, <2>3, Zenon
  <2>5. Len(Sock(c).out) + call[c].seen = Rows + 2 =>
          (Len(Sock(c).out) - 1) + (call[c].seen + 1) = Rows + 2
    <3>1. \A x, y, z \in Nat : x + y = z + 2 => (x - 1) + (y + 1) = z + 2
      OBVIOUS
    <3> QED BY <2>3, <3>1, Zenon
  <2> QED BY <2>2, <2>4, <2>5, Zenon
<1>5. call' = [call EXCEPT ![c].seen = call[c].seen + 1]
  BY <1>1
<1>6. cl' = [cl EXCEPT ![c].pc = "rows"]
  <2>1. [cl[c] EXCEPT !.pc = "rows"] = cl[c]
    BY <1>1, <1>2 DEF ClientState
  <2> QED BY <1>1, <2>1 DEF IInv, Types, TypeOK
<1> QED BY <1>1, <1>3, <1>4, <1>5, <1>6, OnceReadOn

LEMMA OnceEndRows ==
  ASSUME IInv, OnceInv, NEW c \in Clients, EndRows(c)
  PROVE  OnceInv'
<1> DEFINE i == cl[c].sock
<1>1. /\ cl[c].pc = "rows" /\ UNCHANGED call /\ cl' = [cl EXCEPT ![c].pc = "final"]
      /\ cl[c].sock # NoSock
  BY ClientIs DEF EndRows
<1>2. call' = [call EXCEPT ![c].seen = call[c].seen]
  BY <1>1, SameCall
<1>3. CASE Reading(c) /\ NextLine(c).what = "end" /\ conn' = Read(c)
  <2>1. Sock(c).out # <<>>
    BY <1>3 DEF Reading
  <2>2. Conns(conn') /\ OthersKeep(c) /\ Drains(conn, conn')
    BY <1>1, <1>3, <2>1, ReadDrains
  <2>3. ASSUME ~call[c].after
        PROVE  call[c].done >= 1 /\ (call[c].kind \in Searching => call[c].seen = Rows)
    <3>1. /\ DoneFor(c) /\ Fits("rows", cl[c].n, Sock(c).in, Sock(c).out)
          /\ Sock(c).out \in Seq(Answer) /\ NextLine(c) = Sock(c).out[1]
      BY <1>1, <2>1, <2>3, OwnLine
    <3>2. /\ call[c].done >= 1
          /\ call[c].kind \in Searching => Len(Sock(c).out) + call[c].seen = Rows + 2
      BY <1>1, <2>1, <3>1 DEF DoneFor, Gives
    <3>3. Len(Tail(Sock(c).out)) = 1
      BY <1>3, <2>1, <3>1, RowsLeftTail DEF Fits
    <3>4. Len(Sock(c).out) = 2
      BY <2>1, <3>1, <3>3
    <3>5. call[c].seen \in Nat /\ Rows \in Nat
      BY ClientIs, SizesAssumption DEF CallState
    <3> QED BY <3>2, <3>4, <3>5
  <2> QED BY <1>1, <1>2, <2>2, <2>3, OnceReadOn
<1>4. CASE AtEnd(c) /\ conn' = conn
  <2>1. Conns(conn') /\ OthersKeep(c) /\ Drains(conn, conn')
    BY <1>4, SameDrains
  <2>2. conn'[i].out = <<>>
    BY <1>4 DEF AtEnd, Sock
  <2>3. ~call[c].after => call[c].done >= 1
    BY <1>1 DEF OnceInv, DoneFor
  <2> QED BY <1>1, <1>2, <2>1, <2>2, <2>3, OnceReadOn
<1> QED BY <1>3, <1>4 DEF EndRows

\* A client whose connections lose lines.
LEMMA LossOnce ==
  ASSUME IInv', OnceInv, NEW d \in Clients, cl'[d] = cl[d], call'[d] = call[d], ~call[d].after,
         \A j \in DOMAIN conn' : conn'[j].client = d => Lossy(conn, conn', j)
  PROVE  Counted(d)' /\ DoneFor(d)'
<1>1. Counted(d) /\ DoneFor(d)
  BY DEF OnceInv
<1>2. \A j \in DOMAIN conn' : conn'[j].client = d => Drained(conn, conn', j)
  BY DEF Lossy, Drained
<1>3. Counted(d)'
  BY <1>1, <1>2, CountedStill
<1>4. cl[d].pc \in {"wait", "rows", "final"} =>
        conn'[cl[d].sock].out = conn[cl[d].sock].out \/ conn'[cl[d].sock].out = <<>>
  <2>1. cl'[d].pc \in {"wait", "rows", "final"} =>
          cl'[d].sock \in DOMAIN conn' /\ conn'[cl'[d].sock].client = d
    BY DEF IInv, Types, TypeOK
  <2> QED BY <2>1 DEF Lossy
<1>5. DoneFor(d)'
  BY <1>1, <1>4 DEF DoneFor, Gives, Sock
<1> QED BY <1>3, <1>5

LEMMA LossesOnce ==
  ASSUME IInv', OnceInv, UNCHANGED <<cl, call>>, Loses(conn, conn')
  PROVE  OnceInv'
<1>1. Numbered'
  BY RangeOfEmpty DEF OnceInv, Numbered, Loses, Lossy
<1>2. \A d \in Clients : ~call'[d].after => Counted(d)' /\ DoneFor(d)'
  BY LossOnce DEF Loses
<1> QED BY <1>1, <1>2 DEF OnceInv

\* The connection i has lost its first line, which a is the answer to; the others
\* at most lost lines.
Answered(i, a) ==
  \A j \in DOMAIN conn' :
    IF j # i THEN Lossy(conn, conn', j)
    ELSE /\ conn'[i].client = conn[i].client
         /\ conn'[i].in = Tail(conn[i].in) \/ conn'[i].in = <<>>
         /\ conn'[i].out = conn[i].out \/ conn'[i].out = conn[i].out \o a

\* What is done when a is the answer to the line that waits in i.
Does(i, a) ==
  \/ a # <<>> /\ Head(a).what = "r" /\ UNCHANGED call
  \/ /\ Did(i)
     /\ Line(i).kind \in Searching => Head(a).what = "m" /\ Len(a) = Rows + 3

\* The answer to the call of another client, or to an earlier call.
LEMMA NotAsked ==
  ASSUME IInv, OnceInv, NEW i, Asked(i), NEW d \in Clients, ~call[d].after, i \notin Asks(d)
  PROVE  /\ conn[i].client = d => \A x \in Range(Tail(conn[i].in)) : x.n # cl[d].n
         /\ cl[d].pc \in {"wait", "rows", "final"} => cl[d].sock # i
<1>1. i \in DOMAIN conn /\ conn[i].in \in Seq(Request) /\ conn[i].in # <<>>
  BY AskedIs
<1>2. Head(conn[i].in) \in Range(conn[i].in) /\ Range(Tail(conn[i].in)) \subseteq Range(conn[i].in)
  BY <1>1, RangeOfTail
<1>3. conn[i].client = d => \A x \in Range(conn[i].in) : x.n # cl[d].n
  BY <1>1 DEF Asks
<1>4. ASSUME cl[d].pc \in {"wait", "rows", "final"}, cl[d].sock = i PROVE FALSE
  <2>1. Fits(cl[d].pc, cl[d].n, conn[i].in, conn[i].out) /\ conn[i].client = d
    BY <1>4, OwnLine, ClientIs
  <2> QED BY <1>2, <1>3, <2>1 DEF Fits
<1> QED BY <1>2, <1>3, <1>4

LEMMA GivesStill ==
  ASSUME NEW pc, NEW out, NEW K, NEW out2, NEW K2, Gives(pc, out, K), out2 = out \/ out2 = <<>>,
         K2.kind = K.kind, K2.seen = K.seen, K.done \in Nat, K2.done = K.done \/ K2.done = K.done + 1
  PROVE  Gives(pc, out2, K2)
<1>1. K.done >= 1 => K2.done >= 1
  OBVIOUS
<1> QED BY <1>1 DEF Gives

LEMMA ServerOther ==
  ASSUME IInv, IInv', OnceInv, NEW i, Asked(i), NEW a, Answered(i, a), NEW d \in Clients,
         ~call[d].after, cl'[d] = cl[d], call'[d] = call[d], i \notin Asks(d)
  PROVE  Counted(d)' /\ DoneFor(d)'
<1>1. Counted(d) /\ DoneFor(d)
  BY DEF OnceInv
<1>2. /\ conn[i].client = d => \A x \in Range(Tail(conn[i].in)) : x.n # cl[d].n
      /\ cl[d].pc \in {"wait", "rows", "final"} => cl[d].sock # i
  BY NotAsked
<1>3. \A j \in Asks(d)' : j \in Asks(d) /\ conn'[j].in = conn[j].in
  BY <1>2, RangeOfEmpty DEF Asks, Answered, Lossy
<1>4. Counted(d)'
  BY <1>1, <1>3 DEF Counted
<1>5. cl[d].pc \in {"wait", "rows", "final"} =>
        conn'[cl[d].sock].out = conn[cl[d].sock].out \/ conn'[cl[d].sock].out = <<>>
  <2>1. cl'[d].pc \in {"wait", "rows", "final"} =>
          cl'[d].sock \in DOMAIN conn' /\ conn'[cl'[d].sock].client = d
    BY DEF IInv, Types, TypeOK
  <2> QED BY <1>2, <2>1 DEF Answered, Lossy
<1>6. DoneFor(d)'
  BY <1>1, <1>5 DEF DoneFor, Gives, Sock
<1> QED BY <1>4, <1>6

\* The answer to a client's last call: it is done once more, or is sent elsewhere.
LEMMA ServerOwn ==
  ASSUME IInv, IInv', OnceInv, NEW i, Asked(i), NEW a \in Seq(Answer), Answered(i, a), Does(i, a),
         NEW c \in Clients, ~call[c].after, cl'[c] = cl[c], i \in Asks(c), Line(i).n = cl[c].n
  PROVE  Counted(c)' /\ DoneFor(c)'
<1>1. Counted(c) /\ DoneFor(c) /\ call[c] \in CallState /\ conn[i].client = c
  BY ClientIs DEF OnceInv, Asks
<1>2. /\ i \in DOMAIN conn /\ conn[i].in \in Seq(Request) /\ conn[i].out \in Seq(Answer)
      /\ conn[i].in # <<>> /\ Line(i) = Head(conn[i].in)
  BY AskedIs DEF Conn
<1>3. Len(conn[i].in) = 1 /\ Line(i).kind = call[c].kind /\ Tail(conn[i].in) = <<>>
  BY <1>1, <1>2, TailOfOne DEF Counted
<1>4. \A j \in Asks(c)' : j # i /\ j \in Asks(c) /\ conn'[j].in = conn[j].in
  BY <1>3, RangeOfEmpty DEF Asks, Answered, Lossy
<1>5. /\ call[c].sent \in Nat /\ call[c].done \in Nat /\ call[c].seen \in Nat /\ call[c].sent # 0
      /\ call[c].sent = 1 => call[c].done = 0
  BY <1>1 DEF CallState, Counted
<1>6. /\ call'[c].kind = call[c].kind /\ call'[c].sent = call[c].sent /\ call'[c].res = call[c].res
      /\ call'[c].seen = call[c].seen
      /\ \/ call'[c].done = call[c].done /\ a # <<>> /\ Head(a).what = "r"
         \/ /\ call'[c].done = call[c].done + 1
            /\ call[c].kind \in Searching => Head(a).what = "m" /\ Len(a) = Rows + 3
  <2>1. CASE a # <<>> /\ Head(a).what = "r" /\ UNCHANGED call
    BY <2>1
  <2>2. CASE Did(i) /\ (Line(i).kind \in Searching => Head(a).what = "m" /\ Len(a) = Rows + 3)
    <3> DEFINE K == [call[c] EXCEPT !.done = call[c].done + 1]
    <3>1. call'[c] = K
      BY <1>1, <2>2 DEF Did, IInv, Types, TypeOK
    <3>2. /\ K.kind = call[c].kind /\ K.sent = call[c].sent /\ K.res = call[c].res
          /\ K.seen = call[c].seen /\ K.done = call[c].done + 1
      BY <1>1 DEF CallState
    <3> HIDE DEF K
    <3> QED BY <1>3, <2>2, <3>1, <3>2
  <2> QED BY <2>1, <2>2 DEF Does
<1>7. Counted(c)'
  <2>1. \A j \in Asks(c)' : Len(conn'[j].in) = 1 /\ Head(conn'[j].in).kind = call'[c].kind
    BY <1>1, <1>4, <1>6 DEF Counted
  <2>2. call'[c].sent # 0
    BY <1>5, <1>6
  <2>3. call'[c].sent = 1 => call'[c].done <= 1 /\ Asks(c)' = {}
    BY <1>1, <1>4, <1>5, <1>6 DEF Counted
  <2> QED BY <2>1, <2>2, <2>3 DEF Counted
<1>8. call'[c].done >= call[c].done
  BY <1>5, <1>6
<1>9. cl[c].pc \in {"wait", "rows", "final"} => Gives(cl[c].pc, conn'[cl[c].sock].out, call'[c])
  <2> SUFFICES ASSUME cl[c].pc \in {"wait", "rows", "final"}
               PROVE  Gives(cl[c].pc, conn'[cl[c].sock].out, call'[c])
    OBVIOUS
  <2>1. /\ Gives(cl[c].pc, conn[cl[c].sock].out, call[c])
        /\ Fits(cl[c].pc, cl[c].n, conn[cl[c].sock].in, conn[cl[c].sock].out)
        /\ cl[c].sock \in DOMAIN conn'
    <3>1. cl'[c].sock # NoSock => cl'[c].sock \in DOMAIN conn'
      BY DEF IInv, Types, TypeOK
    <3> QED BY <1>1, <3>1, OwnLine DEF DoneFor
  <2>2. CASE cl[c].sock # i
    <3>1. conn'[cl[c].sock].out = conn[cl[c].sock].out \/ conn'[cl[c].sock].out = <<>>
      BY <2>1, <2>2 DEF Answered, Lossy
    <3> QED BY <1>5, <1>6, <2>1, <3>1, GivesStill
  <2>3. CASE cl[c].sock = i
    <3>1. cl[c].pc = "wait" /\ conn[i].out = <<>>
      <4>1. Fits(cl[c].pc, cl[c].n, conn[i].in, conn[i].out)
        BY <2>1, <2>3
      <4>2. cl[c].pc \in {"idle", "send", "wait", "rows", "final"}
        OBVIOUS
      <4> QED BY <1>2, <4>1, <4>2, OneAsked, Zenon
    <3>2. conn'[i].out = <<>> \/ conn'[i].out = a
      BY <2>1, <2>3, <3>1 DEF Answered
    <3> QED BY <1>5, <1>6, <2>3, <3>1, <3>2 DEF Gives
  <2> QED BY <2>2, <2>3
<1>10. DoneFor(c)'
  BY <1>1, <1>5, <1>6, <1>8, <1>9 DEF DoneFor, Sock
<1> QED BY <1>7, <1>10

LEMMA ServerOnce ==
  ASSUME IInv, IInv', OnceInv, UNCHANGED cl, NEW i, Asked(i), NEW a \in Seq(Answer), Answered(i, a), Does(i, a)
  PROVE  OnceInv'
<1>1. /\ i \in DOMAIN conn /\ conn[i].in \in Seq(Request) /\ conn[i].in # <<>>
      /\ conn[i].client \in Clients /\ Line(i) = Head(conn[i].in)
  BY AskedIs
<1>2. /\ Range(Tail(conn[i].in)) \subseteq Range(conn[i].in) /\ Line(i) \in Range(conn[i].in)
  BY <1>1, RangeOfTail
<1>3. Numbered'
  <2> SUFFICES ASSUME NEW j \in DOMAIN conn', NEW x \in Range(conn'[j].in)
               PROVE  x.n <= cl[conn'[j].client].n
    BY DEF Numbered
  <2>1. CASE j # i
    <3>1. j \in DOMAIN conn /\ conn'[j].client = conn[j].client /\ x \in Range(conn[j].in)
      BY <2>1, RangeOfEmpty DEF Answered, Lossy
    <3> QED BY <3>1 DEF OnceInv, Numbered
  <2>2. CASE j = i
    <3>1. conn'[j].client = conn[i].client /\ x \in Range(conn[i].in)
      BY <1>2, <2>2, RangeOfEmpty DEF Answered
    <3> QED BY <1>1, <3>1 DEF OnceInv, Numbered
  <2> QED BY <2>1, <2>2
<1>4. \A d \in Clients : call'[d].after = call[d].after
  <2>1. CASE UNCHANGED call
    BY <2>1
  <2>2. CASE Did(i)
    BY <1>1, <2>2, DidKeeps DEF CallsKeep
  <2> QED BY <2>1, <2>2 DEF Does
<1>5. ASSUME NEW d \in Clients, ~call'[d].after PROVE Counted(d)' /\ DoneFor(d)'
  <2>1. ~call[d].after /\ cl'[d] = cl[d]
    BY <1>4, <1>5
  <2>2. CASE conn[i].client = d /\ Line(i).n = cl[d].n
    <3>1. i \in Asks(d)
      BY <1>1, <1>2, <2>2 DEF Asks
    <3> QED BY <2>1, <2>2, <3>1, ServerOwn
  <2>3. CASE ~(conn[i].client = d /\ Line(i).n = cl[d].n)
    <3>1. i \notin Asks(d)
      <4> SUFFICES ASSUME i \in Asks(d) PROVE FALSE
        OBVIOUS
      <4>1. Len(conn[i].in) = 1 /\ conn[i].client = d /\ \E x \in Range(conn[i].in) : x.n = cl[d].n
        BY <2>1 DEF Asks, OnceInv, Counted
      <4> QED BY <1>1, <2>3, <4>1 DEF Range
    <3>2. call'[d] = call[d]
      <4>1. CASE UNCHANGED call
        BY <4>1
      <4>2. CASE Did(i)
        <5>1. call \in [Clients -> CallState] /\ call[d] \in CallState
          BY DEF IInv, Types, TypeOK
        <5>2. conn[i].client # d => call'[d] = call[d]
          BY <4>2 DEF Did
        <5>3. conn[i].client = d => call'[d] = [call[d] EXCEPT !.done = call[d].done]
          BY <2>3, <4>2, <5>1 DEF Did
        <5>4. [call[d] EXCEPT !.done = call[d].done] = call[d]
          BY <5>1 DEF CallState
        <5> QED BY <5>2, <5>3, <5>4
      <4> QED BY <4>1, <4>2 DEF Does
    <3> QED BY <2>1, <3>1, <3>2, ServerOther
  <2> QED BY <2>2, <2>3
<1> QED BY <1>3, <1>5 DEF OnceInv

LEMMA WrittenAnswers ==
  ASSUME IInv, NEW i, Asked(i), NEW a \in Seq(Answer)
  PROVE  /\ conn' = Written(conn, i, a) => Answered(i, a)
         /\ conn' = Closed(Written(conn, i, a), i) => Answered(i, a)
         /\ conn' = Abandoned(Written(conn, i, a), conn[i].server) => Answered(i, a)
<1> DEFINE g == Written(conn, i, a)
<1>1. i \in DOMAIN conn /\ conn[i].in # <<>> /\ Conns(conn)
  BY AskedIs, ConnsAre DEF IInv
<1>2. /\ Conns(g) /\ DOMAIN g = DOMAIN conn
      /\ \A j \in DOMAIN conn \ {i} : g[j] = conn[j]
      /\ g[i].client = conn[i].client /\ g[i].in = Tail(conn[i].in)
      /\ g[i].out = conn[i].out \/ g[i].out = conn[i].out \o a
  BY <1>1, WrittenIs
<1> HIDE DEF g
<1>3. ASSUME conn' = g PROVE Answered(i, a)
  BY <1>1, <1>2, <1>3 DEF Answered, Lossy
<1>4. ASSUME DOMAIN conn' \subseteq DOMAIN g,
             \A j \in DOMAIN conn' :
               /\ conn'[j].client = g[j].client /\ conn'[j].out = g[j].out
               /\ conn'[j].in = g[j].in \/ conn'[j].in = <<>>
      PROVE  Answered(i, a)
  BY <1>1, <1>2, <1>4 DEF Answered, Lossy
<1>5. ASSUME conn' = Closed(g, i) PROVE Answered(i, a)
  BY <1>1, <1>2, <1>4, <1>5, ClosedIs DEF Shrinks
<1>6. ASSUME conn' = Abandoned(g, conn[i].server) PROVE Answered(i, a)
  BY <1>2, <1>4, <1>6, AbandonedIs DEF Shrinks
<1> QED BY <1>3, <1>5, <1>6 DEF g

LEMMA OnceTellMoved ==
  ASSUME IInv, IInv', OnceInv, NEW i, TellMoved(i)
  PROVE  OnceInv'
<1> DEFINE x == [Says(i, "r") EXCEPT !.to = srv[conn[i].server].goesTo]
<1>1. /\ Asked(i) /\ IsMoved(i) /\ conn' = Written(conn, i, <<x>>) /\ UNCHANGED <<cl, call>>
  BY DEF TellMoved
<1>2. srv[conn[i].server] \in ServerState /\ Says(i, "r") \in Answer /\ Says(i, "r").what = "r"
  BY <1>1, AskedIs, SaysIs
<1>3. x \in Answer /\ x.what = "r"
  BY <1>2 DEF Answer, ServerState
<1> HIDE DEF x
<1>4. <<x>> \in Seq(Answer) /\ <<x>> # <<>> /\ Head(<<x>>).what = "r"
  BY <1>3
<1>5. Does(i, <<x>>)
  BY <1>1, <1>4 DEF Does
<1>6. Answered(i, <<x>>)
  BY <1>1, <1>4, WrittenAnswers
<1> QED BY <1>1, <1>4, <1>5, <1>6, ServerOnce

\* A call that is not a search is done, and answered with "k".
LEMMA SaysDoes ==
  ASSUME IInv, NEW i, Asked(i), Did(i), Line(i).kind \notin Searching
  PROVE  <<Says(i, "k")>> \in Seq(Answer) /\ Does(i, <<Says(i, "k")>>)
<1>1. Says(i, "k") \in Answer
  BY SaysIs
<1>2. <<Says(i, "k")>> \in Seq(Answer)
  BY <1>1
<1> QED BY <1>2 DEF Does

LEMMA OnceCommand ==
  ASSUME IInv, IInv', OnceInv, NEW i, Command(i)
  PROVE  OnceInv'
<1>1. /\ Asked(i) /\ ~IsMoved(i) /\ Line(i).kind \in {"set", "search", "into"}
      /\ conn' = Written(conn, i, Results(i)) /\ UNCHANGED cl
      /\ IF srv[conn[i].server].table THEN Did(i) ELSE call' = call
  BY DEF Command, Serves
<1>2. srv[conn[i].server].table
  BY <1>1, HeardFrom
<1>3. CASE Line(i).kind = "set"
  <2>1. Results(i) = <<Says(i, "k")>>
    BY <1>2, <1>3 DEF Results
  <2>2. Results(i) \in Seq(Answer) /\ Does(i, Results(i))
    BY <1>1, <1>2, <1>3, <2>1, SaysDoes DEF Searching
  <2>3. Answered(i, Results(i))
    BY <1>1, <2>2, WrittenAnswers
  <2> QED BY <1>1, <2>2, <2>3, ServerOnce
<1>4. CASE Line(i).kind # "set"
  <2> DEFINE rows == [r \in 1 .. Rows |-> Says(i, "row")]
  <2>1. Results(i) = <<Says(i, "m")>> \o rows \o <<Says(i, "end"), Says(i, "k")>>
    BY <1>2, <1>4 DEF Results
  <2>2. \A what \in {"k", "m", "row", "end"} : Says(i, what) \in Answer /\ Says(i, what).what = what
    BY <1>1, SaysIs
  <2>3. rows \in Seq(Answer) /\ Len(rows) = Rows /\ Rows \in Nat
    BY <2>2, SizesAssumption
  <2> HIDE DEF rows
  <2>4. Results(i) \in Seq(Answer) /\ Head(Results(i)) = Says(i, "m") /\ Len(Results(i)) = Rows + 3
    BY <2>1, <2>2, <2>3
  <2>5. Does(i, Results(i))
    BY <1>1, <1>2, <2>2, <2>4 DEF Does
  <2>6. Answered(i, Results(i))
    BY <1>1, <2>4, WrittenAnswers
  <2> QED BY <1>1, <2>4, <2>5, <2>6, ServerOnce
<1> QED BY <1>3, <1>4

\* The other commands of the server.
LEMMA OnceManaged ==
  ASSUME IInv, IInv', OnceInv, NEW i, Redirect(i) \/ Shutdown(i) \/ ShutdownNow(i) \/ Quit(i)
  PROVE  OnceInv'
<1> DEFINE a == <<Says(i, "k")>>
<1>1. Asked(i) /\ Did(i) /\ UNCHANGED cl /\ Line(i).kind \notin Searching
  BY DEF Redirect, Shutdown, ShutdownNow, Quit, Serves, Moving, Searching
<1>2. a \in Seq(Answer) /\ Does(i, a)
  BY <1>1, SaysDoes
<1>3. \/ conn' = Written(conn, i, a)
      \/ conn' = Closed(Written(conn, i, a), i)
      \/ conn' = Abandoned(Written(conn, i, a), conn[i].server)
  BY DEF Redirect, Shutdown, ShutdownNow, Quit, HandleEof
<1> HIDE DEF a
<1>4. Answered(i, a)
  BY <1>1, <1>2, <1>3, WrittenAnswers
<1> QED BY <1>1, <1>2, <1>4, ServerOnce

LEMMA BreakLoses ==
  ASSUME IInv, NEW i, Break(i)
  PROVE  UNCHANGED <<cl, call>> /\ Loses(conn, conn')
<1>1. i \in DOMAIN conn /\ UNCHANGED <<cl, call>>
  BY DEF Break
<1>2. PICK in \in {conn[i].in, <<>>}, out \in {conn[i].out, <<>>} :
        conn' = [conn EXCEPT ![i].cut = TRUE, ![i].in = in, ![i].out = out]
  BY DEF Break
<1> DEFINE h == [conn[i] EXCEPT !.cut = TRUE, !.in = in, !.out = out]
<1>3. conn[i] \in Conn
  BY <1>1, ConnsAre DEF IInv, Conns
<1>4. h.client = conn[i].client /\ h.in = in /\ h.out = out
  BY <1>3 DEF Conn
<1>5. DOMAIN conn' = DOMAIN conn /\ conn'[i] = h /\ \A j \in DOMAIN conn \ {i} : conn'[j] = conn[j]
  BY <1>1, <1>2
<1> HIDE DEF h
<1>6. Loses(conn, conn')
  BY <1>4, <1>5 DEF Loses, Lossy
<1> QED BY <1>1, <1>6

\* Nobody is answered.
LEMMA OnceLost ==
  ASSUME IInv, IInv', OnceInv,
         \/ \E i : ServerEof(i)
         \/ \E i : Break(i)
         \/ \E s \in Servers : Crash(s) \/ Restart(s)
         \/ UNCHANGED vars
  PROVE  OnceInv'
<1>1. Conns(conn)
  BY ConnsAre DEF IInv
<1>2. ASSUME NEW i, ServerEof(i) PROVE UNCHANGED <<cl, call>> /\ Loses(conn, conn')
  <2>1. i \in DOMAIN conn /\ conn' = Closed(conn, i) /\ UNCHANGED <<cl, call>>
    BY <1>2 DEF ServerEof, HandleEof
  <2> QED BY <1>1, <2>1, ClosedIs DEF Loses, Lossy, Shrinks
<1>3. ASSUME NEW s \in Servers, Crash(s) \/ Restart(s)
      PROVE  UNCHANGED <<cl, call>> /\ Loses(conn, conn')
  <2>1. (conn' = Abandoned(conn, s) \/ conn' = conn) /\ UNCHANGED <<cl, call>>
    BY <1>3 DEF Crash, Restart
  <2> QED BY <1>1, <2>1, AbandonedIs DEF Loses, Lossy, Shrinks
<1>4. UNCHANGED vars => UNCHANGED <<cl, call>> /\ Loses(conn, conn')
  BY DEF Loses, Lossy, vars
<1>5. UNCHANGED <<cl, call>> /\ Loses(conn, conn')
  BY <1>2, <1>3, <1>4, BreakLoses
<1> QED BY <1>5, LossesOnce

LEMMA OnceInit == Init => OnceInv
<1> SUFFICES ASSUME Init PROVE OnceInv
  OBVIOUS
<1>1. DOMAIN conn = {}
  BY DEF Init
<1>2. \A c \in Clients :
        /\ cl[c].pc = "idle"
        /\ call[c].sent = 0 /\ call[c].done = 0 /\ call[c].res = "none"
  BY DEF Init, NoCall
<1>3. \A c \in Clients : Asks(c) = {}
  BY <1>1 DEF Asks
<1> QED BY <1>1, <1>2, <1>3 DEF OnceInv, Numbered, Counted, DoneFor

LEMMA OnceStep == IInv /\ IInv' /\ OnceInv /\ [Next]_vars => OnceInv'
<1> SUFFICES ASSUME IInv, IInv', OnceInv, [Next]_vars PROVE OnceInv'
  OBVIOUS
<1>1. ASSUME NEW c \in Clients, NEW kind \in Kinds[c], NEW to \in Servers \cup {0}, Call(c, kind, to)
      PROVE  OnceInv'
  BY <1>1, OnceCall
<1>2. ASSUME NEW c \in Clients, Progress(c) \/ Timeout(c) PROVE OnceInv'
  BY <1>2, OnceConnect, OnceReturns, OnceSend, OnceRetry, OnceGetResult, OnceFollow, OnceStartRows,
     OnceReadRow, OnceEndRows, OnceTimeout DEF Progress
<1>3. ASSUME NEW i \in Ids, Serve(i) PROVE OnceInv'
  BY <1>3, OnceTellMoved, OnceCommand, OnceManaged, OnceLost DEF Serve
<1>4. ASSUME NEW i \in Ids, Break(i) PROVE OnceInv'
  BY <1>4, OnceLost
<1>5. ASSUME NEW s \in Servers, Crash(s) \/ Restart(s) PROVE OnceInv'
  BY <1>5, OnceLost
<1>6. CASE UNCHANGED vars
  BY <1>6, OnceLost
<1> QED BY <1>1, <1>2, <1>3, <1>4, <1>5, <1>6 DEF Next

-----------------------------------------------------------------------------
(* Theorems.                                                               *)

LEMMA InitInv == Init => IInv
<1> SUFFICES ASSUME Init PROVE IInv
  OBVIOUS
<1>1. /\ Retries \in Nat /\ 0 \in 0 .. Retries /\ 1 \in Servers
  BY SizesAssumption DEF Servers
<1>2. Fresh \in ServerState /\ Fresh.goesTo = 0 /\ Fresh.table
  BY DEF Fresh, ServerState
<1>3. NoCall \in CallState /\ NoCall.kind = "none" /\ ~NoCall.after /\ NoCall.got = 0
  BY <1>1 DEF NoCall, CallState
<1>4. DOMAIN conn = {}
  BY DEF Init
<1>5. \A c \in Clients : /\ cl[c] \in ClientState /\ cl[c].pc = "idle" /\ cl[c].sock = NoSock
                         /\ ~cl[c].eof /\ ~cl[c].left
  BY <1>1 DEF Init, ClientState
<1>6. srv \in [Servers -> ServerState] /\ cl \in [Clients -> ClientState] /\ call \in [Clients -> CallState]
  BY <1>2, <1>3, <1>5 DEF Init
<1>7. Types
  BY <1>4, <1>5, <1>6 DEF Types, TypeOK
<1>8. ServersKnow
  BY <1>2 DEF Init, ServersKnow
<1>9. \A c \in Clients : call[c] = NoCall
  BY DEF Init
<1>10. LinesLead
  BY <1>3, <1>4, <1>9 DEF LinesLead, Moving
<1>11. InStep
  BY <1>3, <1>5, <1>9 DEF InStep, InStepOf, GotOwn
<1> QED BY <1>7, <1>8, <1>10, <1>11 DEF IInv

LEMMA Invariance == IInv /\ [Next]_vars => IInv'
<1> SUFFICES ASSUME IInv, [Next]_vars PROVE IInv'
  OBVIOUS
<1>1. ASSUME NEW c \in Clients, NEW kind \in Kinds[c], NEW to \in Servers \cup {0}, Call(c, kind, to)
      PROVE  IInv'
  BY <1>1, StepCall
<1>2. ASSUME NEW c \in Clients, Progress(c) PROVE IInv'
  BY <1>2, StepConnect, StepConnectFails, StepSend, StepRetry, StepGiveUp, StepGetResult, StepFollow,
     StepStayBehind, StepStartRows, StepReadRow, StepStop, StepIntoStops, StepEndRows
     DEF Progress
<1>3. ASSUME NEW c \in Clients, Timeout(c) PROVE IInv'
  BY <1>3, StepTimeout
<1>4. ASSUME NEW i \in Ids, Serve(i) PROVE IInv'
  BY <1>4, StepTellMoved, StepCommand, StepRedirect, StepShutdown, StepShutdownNow, StepQuit,
     StepServerEof DEF Serve
<1>5. ASSUME NEW i \in Ids, Break(i) PROVE IInv'
  BY <1>5, StepBreak
<1>6. ASSUME NEW s \in Servers, Crash(s) \/ Restart(s) PROVE IInv'
  BY <1>6, StepCrash, StepRestart
<1>7. CASE UNCHANGED vars
  <2>1. /\ Types' /\ ServersKnow'
    BY <1>7 DEF vars, IInv, Types, TypeOK, ServersKnow
  <2>2. LinesLead' /\ InStep'
    BY <1>7 DEF vars, IInv, LinesLead, HasTable, InStep, InStepOf, GotOwn
  <2> QED BY <2>1, <2>2 DEF IInv
<1> QED BY <1>1, <1>2, <1>3, <1>4, <1>5, <1>6, <1>7 DEF Next

LEMMA AlwaysInv == Spec => []IInv
BY InitInv, Invariance, PTL DEF Spec

\* No client of a table that has moved is told that there is no such table
\* (register_redirect_ctable, remote_receive).
THEOREM EachFollows == Spec => []NoOneIsLost
<1>1. IInv => NoOneIsLost
  <2> SUFFICES ASSUME IInv, NEW i \in DOMAIN conn, NEW k \in DOMAIN conn[i].out
               PROVE  conn[i].out[k].what # "gone"
    BY DEF NoOneIsLost
  <2>1. conn[i].out[k] \in Range(conn[i].out)
    BY DEF Range
  <2> QED BY <2>1 DEF IInv, LinesLead
<1> QED BY <1>1, AlwaysInv, PTL

\* A call returns its own answer, after any breaks, crashes and retries, unless a
\* search -into that failed left answers before it (remote_ctable_send).
THEOREM OwnAnswers == Spec => []AnswersMatch
<1>1. IInv => AnswersMatch
  BY DEF IInv, Types, InStep, GotOwn, AnswersMatch
<1> QED BY <1>1, AlwaysInv, PTL

\* A call that returns "ok" has been done, once if it was sent once, and a search
\* has given each of its rows once, wherever connections broke
\* (remote_ctable_send, remote_ctable_invoke).
THEOREM DoneWhenAnswered == Spec => []AnsweredIsDone
<1>1. Spec => []OnceInv
  BY OnceInit, OnceStep, AlwaysInv, PTL DEF Spec
<1>2. IInv /\ OnceInv => AnsweredIsDone
  <2> SUFFICES ASSUME IInv, OnceInv, NEW c \in Clients, call[c].res = "ok", ~call[c].after
               PROVE  /\ call[c].done >= 1
                      /\ call[c].sent = 1 => call[c].done = 1
                      /\ call[c].kind \in {"search", "into"} => call[c].seen = Rows
    BY DEF AnsweredIsDone
  <2>1. Counted(c) /\ DoneFor(c) /\ call[c].done \in Nat
    BY ClientIs DEF OnceInv, CallState
  <2> QED BY <2>1 DEF Counted, DoneFor, Searching
<1> QED BY <1>1, <1>2, AlwaysInv, PTL

=============================================================================
