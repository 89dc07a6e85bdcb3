-------------------------- MODULE TableSearchProofs --------------------------
(***************************************************************************)
(* Searches and cursors give the read lock back, rows stay while one of    *)
(* them may point to them, no pointer of theirs is to a row that is gone,  *)
(* the transaction table is large enough, and a search acts on what it was *)
(* asked for, in order, with the transaction that goes with it: for any    *)
(* rows, values, cursors and searches, however deep the scripts go.        *)
(***************************************************************************)
EXTENDS TableSearch, Induction, FiniteSetTheorems

\* What is asked of a search does not change, and only a search that makes a cursor
\* comes to ctable_CreateCursor.
SearchesAreAsked ==
  /\ searches \in Seq(ToSet(searches))
  /\ \A i \in DOMAIN searches :
       /\ {"ask", "stage"} \subseteq DOMAIN searches[i]
       /\ searches[i].ask \in Asks
       /\ searches[i].stage = "cursor" => searches[i].ask.tran = "cursor"

\* The read lock is some search's, or some cursor's.
LockIsHeld ==
  /\ published \in BOOLEAN /\ cursorLock \in BOOLEAN
  /\ DOMAIN cursors \subseteq Names
  /\ \A n \in DOMAIN cursors : "locked" \in DOMAIN cursors[n] /\ cursors[n].locked \in BOOLEAN
  /\ published => share = "reader"
  /\ cursorLock => HasCursors
  /\ searches = <<>> /\ published => cursorLock \/ \E n \in DOMAIN cursors : cursors[n].locked

\* A search with -delete is the outermost one, and no cursor was there or is made.
DeleterIsAlone ==
  /\ \A i \in DOMAIN searches : searches[i].ask.tran = "delete" => i = 1
  /\ Deleting => ~HasCursors /\ \A i \in DOMAIN searches : searches[i].ask.tran # "cursor"

IInv == SearchesAreAsked /\ LockIsHeld /\ (Careful => DeleterIsAlone)

\* The same searches as before.
SameAsks ==
  /\ DOMAIN searches' = DOMAIN searches
  /\ \A i \in DOMAIN searches : searches'[i].ask = searches[i].ask

-----------------------------------------------------------------------------
(* Steps of the innermost search, and commands in its script.              *)

LEMMA TopIsAsked ==
  ASSUME SearchesAreAsked, searches # <<>>
  PROVE  /\ Len(searches) \in DOMAIN searches /\ Top = searches[Len(searches)]
         /\ {"ask", "stage"} \subseteq DOMAIN Top /\ Top.ask \in Asks
         /\ Top.stage = "cursor" => Top.ask.tran = "cursor"
<1>1. Len(searches) \in DOMAIN searches
  BY DEF SearchesAreAsked
<1> QED BY <1>1 DEF SearchesAreAsked, Top

\* The innermost search goes on as f.
Becomes(f) ==
  /\ searches # <<>> /\ searches' = Now(f)
  /\ {"ask", "stage"} \subseteq DOMAIN f /\ f.ask = Top.ask
  /\ f.stage = "cursor" => f.ask.tran = "cursor"

LEMMA TopStep ==
  ASSUME SearchesAreAsked, NEW f, Becomes(f)
  PROVE  SearchesAreAsked' /\ SameAsks
<1> DEFINE n == Len(searches)
<1> USE DEF Becomes
<1>1. n \in DOMAIN searches /\ Top = searches[n] /\ Top.ask \in Asks
  BY TopIsAsked
<1>2. /\ DOMAIN searches' = DOMAIN searches
      /\ searches'[n] = f
      /\ \A i \in DOMAIN searches \ {n} : searches'[i] = searches[i]
  BY <1>1 DEF Now, SearchesAreAsked
<1>3. searches' \in Seq(ToSet(searches'))
  <2>1. searches \in Seq(ToSet(searches)) /\ Len(searches) \in Nat
    BY DEF SearchesAreAsked
  <2>2. DOMAIN searches' = 1 .. Len(searches)
    BY <2>1, <1>2
  <2>3. searches' = [i \in 1 .. Len(searches) |-> searches'[i]]
    BY <2>1, <2>2 DEF Now
  <2>4. \A i \in 1 .. Len(searches) : searches'[i] \in ToSet(searches')
    BY <2>2 DEF ToSet
  <2> HIDE DEF n
  <2> QED BY <2>1, <2>3, <2>4
<1>4. \A i \in DOMAIN searches' :
        /\ {"ask", "stage"} \subseteq DOMAIN searches'[i]
        /\ searches'[i].ask \in Asks
        /\ searches'[i].stage = "cursor" => searches'[i].ask.tran = "cursor"
  BY <1>1, <1>2 DEF SearchesAreAsked
<1>5. SameAsks
  BY <1>1, <1>2 DEF SameAsks
<1> QED BY <1>3, <1>4, <1>5 DEF SearchesAreAsked

\* A command names rows.
LEMMA TouchStep ==
  ASSUME SearchesAreAsked, NEW S, searches' = Touch(searches, S)
  PROVE  SearchesAreAsked' /\ SameAsks
<1>1. searches \in Seq(ToSet(searches)) /\ Len(searches) \in Nat /\ DOMAIN searches = 1 .. Len(searches)
  BY DEF SearchesAreAsked
<1>2. /\ DOMAIN searches' = DOMAIN searches
      /\ \A i \in DOMAIN searches : searches'[i] = [searches[i] EXCEPT !.touched = @ \cup S]
  BY DEF Touch
<1>3. searches' \in Seq(ToSet(searches'))
  <2>1. searches' = [i \in 1 .. Len(searches) |-> searches'[i]]
    BY <1>1, <1>2 DEF Touch
  <2>2. \A i \in 1 .. Len(searches) : searches'[i] \in ToSet(searches')
    BY <1>1, <1>2 DEF ToSet
  <2> QED BY <1>1, <2>1, <2>2
<1>4. \A i \in DOMAIN searches :
        /\ DOMAIN searches'[i] = DOMAIN searches[i]
        /\ searches'[i].ask = searches[i].ask /\ searches'[i].stage = searches[i].stage
  BY <1>2 DEF SearchesAreAsked
<1> QED BY <1>2, <1>3, <1>4 DEF SearchesAreAsked, SameAsks

LEMMA GoOnStep ==
  ASSUME SearchesAreAsked, searches # <<>>, NEW f, {"ask", "stage"} \subseteq DOMAIN f,
         f.ask = Top.ask, GoOn(f)
  PROVE  \E g : Becomes(g)
<1>1. PICK r, s : /\ searches' = Now([f EXCEPT !.row = r, !.stage = s])
                  /\ s \in {"poll", "match", "post", "seek"}
  BY DEF GoOn, Arrive
<1> DEFINE g == [f EXCEPT !.row = r, !.stage = s]
<1>2. g.ask = f.ask /\ g.stage = s /\ DOMAIN g = DOMAIN f
  OBVIOUS
<1>3. Becomes(g)
  BY <1>1, <1>2 DEF Becomes
<1> QED BY <1>3

LEMMA OverStep ==
  ASSUME SearchesAreAsked, searches # <<>>, NEW f, {"ask", "stage"} \subseteq DOMAIN f,
         f.ask = Top.ask, Over(f)
  PROVE  \E g : Becomes(g)
<1> DEFINE g == [f EXCEPT !.stage = "post"]
<1>1. g.ask = f.ask /\ g.stage = "post" /\ DOMAIN g = DOMAIN f
  OBVIOUS
<1>2. Becomes(g)
  BY <1>1 DEF Becomes, Over
<1> QED BY <1>2

LEMMA FailStep ==
  ASSUME SearchesAreAsked, searches # <<>>, NEW f, {"ask", "stage"} \subseteq DOMAIN f,
         f.ask = Top.ask, NEW how, Fail(f, how)
  PROVE  \E g : Becomes(g)
<1> DEFINE g == [f EXCEPT !.stage = "done", !.result = how]
<1>1. g.ask = f.ask /\ g.stage = "done" /\ DOMAIN g = DOMAIN f
  OBVIOUS
<1>2. Becomes(g)
  BY <1>1 DEF Becomes, Fail
<1> QED BY <1>2

LEMMA ComeToIs ==
  ASSUME NEW f, {"ask", "stage"} \subseteq DOMAIN f, NEW r
  PROVE  /\ DOMAIN ComeTo(f, r) = DOMAIN f /\ ComeTo(f, r).ask = f.ask
         /\ ComeTo(f, r).stage \in {"poll", "match"}
<1>1. Arrive(f.ask) \in {"poll", "match"}
  BY DEF Arrive
<1> QED BY <1>1 DEF ComeTo

LEMMA StepSeekKey ==
  ASSUME SearchesAreAsked, SeekKey
  PROVE  \E g : Becomes(g)
<1> DEFINE f == Top
           g == [f EXCEPT !.left = Tail(@)]
<1>1. searches # <<>> /\ f.stage = "seek" /\ {"ask", "stage"} \subseteq DOMAIN f
  BY TopIsAsked DEF SeekKey, AtStage
<1>2. DOMAIN g = DOMAIN f /\ g.ask = f.ask /\ g.stage = f.stage
  BY <1>1
<1>3. CASE f.left = <<>>
  <2>1. Over(f)
    BY <1>3 DEF SeekKey
  <2> QED BY <1>1, <2>1, OverStep
<1>4. CASE f.left # <<>> /\ InTable(Head(f.left))
  <2> DEFINE h == ComeTo(g, Head(f.left))
  <2>1. searches' = Now(h)
    BY <1>4 DEF SeekKey
  <2>2. DOMAIN h = DOMAIN f /\ h.ask = f.ask /\ h.stage \in {"poll", "match"}
    BY <1>1, <1>2, ComeToIs
  <2> HIDE DEF h
  <2>3. Becomes(h)
    BY <1>1, <2>1, <2>2 DEF Becomes
  <2> QED BY <2>3
<1>5. CASE f.left # <<>> /\ ~InTable(Head(f.left))
  <2>1. searches' = Now(g)
    BY <1>5 DEF SeekKey
  <2>2. Becomes(g)
    BY <1>1, <1>2, <2>1 DEF Becomes
  <2> QED BY <2>2
<1> QED BY <1>3, <1>4, <1>5

LEMMA StepSeekNode ==
  ASSUME SearchesAreAsked, SeekNode
  PROVE  \E g : Becomes(g)
<1> DEFINE f == Top
           g == [f EXCEPT !.left = Tail(@)]
<1>1. searches # <<>> /\ f.stage = "seek" /\ {"ask", "stage"} \subseteq DOMAIN f
  BY TopIsAsked DEF SeekNode, AtStage
<1>2. DOMAIN g = DOMAIN f /\ g.ask = f.ask /\ g.stage = f.stage
  BY <1>1
<1>3. \/ Fail(f, "endless")
      \/ Over(f)
      \/ searches' = Now(g)
      \/ \E r : searches' = Now(ComeTo(g, r))
      \/ \E r : searches' = Now(ComeTo(f, r))
  BY DEF SeekNode
<1>4. CASE searches' = Now(g)
  <2>1. Becomes(g)
    BY <1>1, <1>2, <1>4 DEF Becomes
  <2> QED BY <2>1
<1>5. ASSUME NEW r, NEW h \in {f, g}, searches' = Now(ComeTo(h, r))
      PROVE  \E k : Becomes(k)
  <2>1. DOMAIN h = DOMAIN f /\ h.ask = f.ask
    BY <1>2
  <2>2. /\ DOMAIN ComeTo(h, r) = DOMAIN f /\ ComeTo(h, r).ask = f.ask
        /\ ComeTo(h, r).stage \in {"poll", "match"}
    BY <1>1, <2>1, ComeToIs
  <2>3. Becomes(ComeTo(h, r))
    BY <1>1, <1>5, <2>2 DEF Becomes
  <2> QED BY <2>3
<1>6. g \in {f, g} /\ f \in {f, g}
  OBVIOUS
<1> HIDE DEF f, g
<1>7. CASE Fail(f, "endless")
  BY <1>1, <1>7, FailStep DEF f
<1>8. CASE Over(f)
  BY <1>1, <1>8, OverStep DEF f
<1> QED BY <1>3, <1>4, <1>5, <1>6, <1>7, <1>8

LEMMA StepPolled ==
  ASSUME SearchesAreAsked, Polled
  PROVE  \E g : Becomes(g)
<1> DEFINE g == [Top EXCEPT !.stage = IF Top.phase = "walk" THEN "match" ELSE "act"]
<1>1. searches # <<>> /\ {"ask", "stage"} \subseteq DOMAIN Top
  BY TopIsAsked DEF Polled, AtStage
<1>2. DOMAIN g = DOMAIN Top /\ g.ask = Top.ask /\ g.stage # "cursor"
  BY <1>1
<1>3. Becomes(g)
  BY <1>1, <1>2 DEF Becomes, Polled
<1> QED BY <1>3

LEMMA StepMatch ==
  ASSUME SearchesAreAsked, Match
  PROVE  \E g : Becomes(g)
<1> DEFINE f == Top
           g == [f EXCEPT !.matchCount = @ + 1, !.found = Append(@, f.row),
                          !.tranTable = IF f.mode = "none" THEN @ ELSE Append(@, f.row)]
           h == [g EXCEPT !.stage = "act"]
<1>1. searches # <<>> /\ {"ask", "stage"} \subseteq DOMAIN f
  BY TopIsAsked DEF Match, AtStage
<1>2. DOMAIN g = DOMAIN f /\ g.ask = f.ask
  BY <1>1
<1>3. DOMAIN h = DOMAIN f /\ h.ask = f.ask /\ h.stage = "act"
  BY <1>1, <1>2
<1>4. GoOn(f) \/ GoOn(g) \/ searches' = Now(h) \/ Over(g)
  BY DEF Match
<1> HIDE DEF g, h
<1>5. CASE searches' = Now(h)
  <2>1. Becomes(h)
    BY <1>1, <1>3, <1>5 DEF Becomes
  <2> QED BY <2>1
<1>6. CASE GoOn(f)
  BY <1>1, <1>6, GoOnStep
<1>7. CASE GoOn(g)
  BY <1>1, <1>2, <1>7, GoOnStep
<1>8. CASE Over(g)
  BY <1>1, <1>2, <1>8, OverStep
<1> QED BY <1>4, <1>5, <1>6, <1>7, <1>8

LEMMA ActedIs ==
  ASSUME {"ask", "stage"} \subseteq DOMAIN Top, NEW c
  PROVE  /\ DOMAIN Acted(c) = DOMAIN Top /\ Acted(c).ask = Top.ask
         /\ Acted(c).stage = Top.stage
BY DEF Acted

LEMMA StepAct ==
  ASSUME SearchesAreAsked, NEW c, Act(c)
  PROVE  \E g : Becomes(g)
<1>1. searches # <<>> /\ {"ask", "stage"} \subseteq DOMAIN Top
  BY TopIsAsked DEF Act, AtStage
<1>2. DOMAIN Acted(c) = DOMAIN Top /\ Acted(c).ask = Top.ask
  BY <1>1, ActedIs
<1>3. Fail(Acted(c), c) \/ Over(Acted(c)) \/ GoOn(Acted(c))
  BY DEF Act
<1>4. CASE Fail(Acted(c), c)
  BY <1>1, <1>2, <1>4, FailStep
<1>5. CASE Over(Acted(c))
  BY <1>1, <1>2, <1>5, OverStep
<1>6. CASE GoOn(Acted(c))
  BY <1>1, <1>2, <1>6, GoOnStep
<1> QED BY <1>3, <1>4, <1>5, <1>6

LEMMA DeferIs ==
  ASSUME NEW f, {"ask", "stage"} \subseteq DOMAIN f
  PROVE  /\ DOMAIN Defer(f) = DOMAIN f /\ Defer(f).ask = f.ask
         /\ Defer(f).stage # "cursor"
<1> DEFINE r == f.tranTable[f.walkIndex + 1]
           s == IF f.ask.poll THEN "poll" ELSE "act"
           g == [f EXCEPT !.row = r, !.stage = s]
           h == [f EXCEPT !.stage = "commit"]
<1>1. DOMAIN g = DOMAIN f /\ g.ask = f.ask /\ g.stage = s
  OBVIOUS
<1>2. DOMAIN h = DOMAIN f /\ h.ask = f.ask /\ h.stage = "commit"
  OBVIOUS
<1>3. Defer(f) = g \/ Defer(f) = h
  BY DEF Defer
<1> HIDE DEF g, h
<1> QED BY <1>1, <1>2, <1>3

LEMMA StepPost ==
  ASSUME SearchesAreAsked, Post
  PROVE  \E g : Becomes(g)
<1> DEFINE o == Top.ask
           f == [Top EXCEPT !.phase = "after", !.row = NoRow]
           g == [f EXCEPT !.offsetLimit = LastOf(f), !.walkIndex = o.offset]
           short == [f EXCEPT !.matchCount = 0, !.stage = "done"]
           plain == [f EXCEPT !.matchCount = @ - o.offset, !.stage = "done"]
           h(t) == [g EXCEPT !.tranTable = t]
           cursor(t) == [h(t) EXCEPT !.stage = "cursor"]
           commit(t) == [h(t) EXCEPT !.stage = "commit"]
<1>1. searches # <<>> /\ {"ask", "stage"} \subseteq DOMAIN Top
  BY TopIsAsked DEF Post, AtStage
<1>2. DOMAIN f = DOMAIN Top /\ f.ask = o
  BY <1>1
<1>3. DOMAIN short = DOMAIN Top /\ short.ask = o /\ short.stage = "done"
  BY <1>1, <1>2
<1>4. DOMAIN plain = DOMAIN Top /\ plain.ask = o /\ plain.stage = "done"
  BY <1>1, <1>2
<1>5. DOMAIN g = DOMAIN Top /\ g.ask = o
  BY <1>1, <1>2
<1>6. \/ searches' = Now(short) \/ searches' = Now(plain)
      \/ \E t : \/ o.tran = "cursor" /\ searches' = Now(cursor(t))
               \/ searches' = Now(Defer(h(t)))
               \/ searches' = Now(commit(t))
  BY DEF Post
<1>7. \A t : DOMAIN h(t) = DOMAIN Top /\ h(t).ask = o
  BY <1>1, <1>5
<1>8. \A t : DOMAIN cursor(t) = DOMAIN Top /\ cursor(t).ask = o /\ cursor(t).stage = "cursor"
  BY <1>1, <1>7
<1>9. \A t : DOMAIN commit(t) = DOMAIN Top /\ commit(t).ask = o /\ commit(t).stage = "commit"
  BY <1>1, <1>7
<1>10. \A t : DOMAIN Defer(h(t)) = DOMAIN Top /\ Defer(h(t)).ask = o /\ Defer(h(t)).stage # "cursor"
  BY <1>1, <1>7, DeferIs
<1> HIDE DEF o, f, g, h, short, plain, cursor, commit
<1>11. o = Top.ask
  BY DEF o
<1>12. CASE searches' = Now(short)
  <2>1. Becomes(short)
    BY <1>1, <1>3, <1>11, <1>12 DEF Becomes
  <2> QED BY <2>1
<1>13. CASE searches' = Now(plain)
  <2>1. Becomes(plain)
    BY <1>1, <1>4, <1>11, <1>13 DEF Becomes
  <2> QED BY <2>1
<1>14. ASSUME NEW t, o.tran = "cursor", searches' = Now(cursor(t))
       PROVE  \E k : Becomes(k)
  <2>1. Becomes(cursor(t))
    BY <1>1, <1>8, <1>11, <1>14 DEF Becomes
  <2> QED BY <2>1
<1>15. ASSUME NEW t, searches' = Now(Defer(h(t)))
       PROVE  \E k : Becomes(k)
  <2>1. Becomes(Defer(h(t)))
    BY <1>1, <1>10, <1>11, <1>15 DEF Becomes
  <2> QED BY <2>1
<1>16. ASSUME NEW t, searches' = Now(commit(t))
       PROVE  \E k : Becomes(k)
  <2>1. Becomes(commit(t))
    BY <1>1, <1>9, <1>11, <1>16 DEF Becomes
  <2> QED BY <2>1
<1> QED BY <1>6, <1>12, <1>13, <1>14, <1>15, <1>16

LEMMA StepActLater ==
  ASSUME SearchesAreAsked, NEW c, ActLater(c)
  PROVE  \E g : Becomes(g)
<1> DEFINE f == [Acted(c) EXCEPT !.walkIndex = @ + 1]
           h == [f EXCEPT !.offsetLimit = f.walkIndex, !.stage = "commit"]
<1>1. searches # <<>> /\ {"ask", "stage"} \subseteq DOMAIN Top
  BY TopIsAsked DEF ActLater, AtStage
<1>2. DOMAIN f = DOMAIN Top /\ f.ask = Top.ask
  BY <1>1, ActedIs
<1>3. DOMAIN h = DOMAIN Top /\ h.ask = Top.ask /\ h.stage = "commit"
  BY <1>1, <1>2
<1>4. Fail(f, c) \/ searches' = Now(Defer(f)) \/ searches' = Now(h)
  BY DEF ActLater
<1> HIDE DEF f, h
<1>5. CASE Fail(f, c)
  BY <1>1, <1>2, <1>5, FailStep
<1>6. CASE searches' = Now(Defer(f))
  <2>1. Becomes(Defer(f))
    BY <1>1, <1>2, <1>6, DeferIs DEF Becomes
  <2> QED BY <2>1
<1>7. CASE searches' = Now(h)
  <2>1. Becomes(h)
    BY <1>1, <1>3, <1>7 DEF Becomes
  <2> QED BY <2>1
<1> QED BY <1>4, <1>5, <1>6, <1>7

LEMMA CountedIs ==
  ASSUME {"ask", "stage"} \subseteq DOMAIN Top
  PROVE  /\ DOMAIN Counted(Top) = DOMAIN Top /\ Counted(Top).ask = Top.ask
         /\ Counted(Top).stage = "done"
BY DEF Counted

LEMMA StepCommit ==
  ASSUME SearchesAreAsked, Commit \/ CommitDelete
  PROVE  \E g : Becomes(g)
<1>1. searches # <<>> /\ searches' = Now(Counted(Top))
  BY DEF Commit, CommitDelete, AtStage
<1>2. {"ask", "stage"} \subseteq DOMAIN Top
  BY <1>1, TopIsAsked
<1>3. Becomes(Counted(Top))
  BY <1>1, <1>2, CountedIs DEF Becomes
<1> QED BY <1>3

LEMMA StepCommitFails ==
  ASSUME SearchesAreAsked, CommitFails
  PROVE  \E g : Becomes(g)
<1> DEFINE f == [Top EXCEPT !.matchCount = Top.offsetLimit - Top.ask.offset]
<1>1. searches # <<>> /\ {"ask", "stage"} \subseteq DOMAIN Top
  BY TopIsAsked DEF CommitFails, AtStage
<1>2. DOMAIN f = DOMAIN Top /\ f.ask = Top.ask
  BY <1>1
<1>3. Fail(f, "error")
  BY DEF CommitFails
<1> HIDE DEF f
<1> QED BY <1>1, <1>2, <1>3, FailStep

LEMMA StepCommitUpdate ==
  ASSUME SearchesAreAsked, CommitUpdate
  PROVE  SearchesAreAsked' /\ SameAsks
<1> DEFINE n  == Len(searches)
           ss == Now(Counted(Top))
           S  == ToSet(Window(Top))
<1>1. /\ searches # <<>> /\ searches' = Touch(ss, S)
      /\ n \in DOMAIN searches /\ Top = searches[n] /\ {"ask", "stage"} \subseteq DOMAIN Top
  BY TopIsAsked DEF CommitUpdate, AtStage
<1>2. /\ DOMAIN Counted(Top) = DOMAIN Top /\ Counted(Top).ask = Top.ask
      /\ Counted(Top).stage = "done"
  BY <1>1, CountedIs
<1>3. /\ DOMAIN ss = DOMAIN searches /\ ss[n] = Counted(Top)
      /\ \A i \in DOMAIN searches \ {n} : ss[i] = searches[i]
  BY <1>1 DEF Now
<1> HIDE DEF ss, S
<1>4. /\ DOMAIN searches' = DOMAIN searches
      /\ \A i \in DOMAIN searches : searches'[i] = [ss[i] EXCEPT !.touched = @ \cup S]
  BY <1>1, <1>3 DEF Touch
<1>5. \A i \in DOMAIN searches : {"ask", "stage"} \subseteq DOMAIN ss[i]
  BY <1>1, <1>2, <1>3 DEF SearchesAreAsked
<1>6. \A i \in DOMAIN searches :
        /\ DOMAIN searches'[i] = DOMAIN ss[i]
        /\ searches'[i].ask = ss[i].ask /\ searches'[i].stage = ss[i].stage
  BY <1>4, <1>5
<1>7. \A i \in DOMAIN searches :
        /\ ss[i].ask = searches[i].ask
        /\ ss[i].stage = searches[i].stage \/ ss[i].stage = "done"
  BY <1>1, <1>2, <1>3
<1>8. searches' \in Seq(ToSet(searches'))
  <2>1. Len(searches) \in Nat /\ DOMAIN searches = 1 .. Len(searches)
    BY DEF SearchesAreAsked
  <2>2. searches' = [i \in 1 .. Len(searches) |-> searches'[i]]
    BY <1>1, <1>3, <2>1 DEF Touch
  <2>3. \A i \in 1 .. Len(searches) : searches'[i] \in ToSet(searches')
    BY <1>4, <2>1 DEF ToSet
  <2> QED BY <2>1, <2>2, <2>3
<1>9. SameAsks
  BY <1>4, <1>6, <1>7 DEF SameAsks
<1>10. \A i \in DOMAIN searches' :
         /\ {"ask", "stage"} \subseteq DOMAIN searches'[i]
         /\ searches'[i].ask \in Asks
         /\ searches'[i].stage = "cursor" => searches'[i].ask.tran = "cursor"
  BY <1>4, <1>5, <1>6, <1>7 DEF SearchesAreAsked
<1> QED BY <1>8, <1>9, <1>10 DEF SearchesAreAsked

-----------------------------------------------------------------------------
(* Steps that neither begin nor end a search.                              *)

LEMMA SameSearches ==
  ASSUME SearchesAreAsked, UNCHANGED searches
  PROVE  SearchesAreAsked' /\ SameAsks
<1>1. SameAsks
  BY DEF SameAsks
<1> QED BY <1>1 DEF SearchesAreAsked

LEMMA NoSearchIs ==
  ASSUME SearchesAreAsked, SearchesAreAsked', SameAsks
  PROVE  searches = <<>> <=> searches' = <<>>
<1>1. Len(searches) \in Nat /\ DOMAIN searches = 1 .. Len(searches)
  BY DEF SearchesAreAsked
<1>2. Len(searches') \in Nat /\ DOMAIN searches' = 1 .. Len(searches')
  BY DEF SearchesAreAsked
<1>3. Len(searches) = 0 <=> searches = <<>>
  BY DEF SearchesAreAsked
<1>4. Len(searches') = 0 <=> searches' = <<>>
  BY DEF SearchesAreAsked
<1>5. Len(searches) = Len(searches')
  BY <1>1, <1>2 DEF SameAsks
<1> QED BY <1>3, <1>4, <1>5

\* No cursor and no lock changes.
LEMMA StepInside ==
  ASSUME IInv, SearchesAreAsked', SameAsks, UNCHANGED <<share, cursors, locks>>
  PROVE  IInv'
<1>1. UNCHANGED <<share, cursors, published, cursorLock>>
  BY DEF locks
<1>2. LockIsHeld'
  BY <1>1, NoSearchIs DEF IInv, LockIsHeld, HasCursors
<1>3. Careful => DeleterIsAlone'
  BY <1>1 DEF IInv, DeleterIsAlone, Deleting, HasCursors, SameAsks
<1> QED BY <1>2, <1>3 DEF IInv

-----------------------------------------------------------------------------
(* Searches begin and end.                                                 *)

LEMMA NewSearchIs ==
  ASSUME NEW o
  PROVE  /\ {"ask", "stage"} \subseteq DOMAIN NewSearch(o) /\ NewSearch(o).ask = o
         /\ NewSearch(o).stage # "cursor"
<1>1. /\ {"ask", "stage"} \subseteq DOMAIN NewSearch(o) /\ NewSearch(o).ask = o
      /\ NewSearch(o).stage = IF Walk(o) = "list" THEN Arrive(o) ELSE "seek"
  BY DEF NewSearch
<1>2. Arrive(o) # "cursor"
  BY DEF Arrive
<1> QED BY <1>1, <1>2

LEMMA StepStart ==
  ASSUME IInv, NEW o \in Asks, Start(o)
  PROVE  IInv'
<1> DEFINE n == Len(searches)
           new == NewSearch(o)
<1>1. /\ {"ask", "stage"} \subseteq DOMAIN new /\ new.ask = o /\ new.stage # "cursor"
  BY NewSearchIs
<1>2. searches \in Seq(ToSet(searches)) /\ n \in Nat
  BY DEF IInv, SearchesAreAsked
<1>3. searches' = Append(searches, new) /\ UNCHANGED <<share, cursors, cursorLock>>
  BY DEF Start
<1> HIDE DEF new
<1>4. /\ searches' \in Seq(ToSet(searches) \cup {new})
      /\ Len(searches') = n + 1 /\ searches' # <<>>
      /\ \A i \in 1 .. n : searches'[i] = searches[i]
      /\ searches'[n + 1] = new
  BY <1>2, <1>3
<1>5. DOMAIN searches' = 1 .. n + 1 /\ DOMAIN searches = 1 .. n
  BY <1>2, <1>4
<1>6. searches' \in Seq(ToSet(searches'))
  <2>1. \A i \in 1 .. n + 1 : searches'[i] \in ToSet(searches')
    BY <1>5 DEF ToSet
  <2>2. searches' = [i \in 1 .. n + 1 |-> searches'[i]]
    BY <1>2, <1>4, <1>5
  <2> QED BY <1>2, <2>1, <2>2
<1>7. SearchesAreAsked'
  <2>1. \A i \in 1 .. n + 1 : i \in 1 .. n \/ i = n + 1
    BY <1>2
  <2>2. \A i \in DOMAIN searches' :
          /\ {"ask", "stage"} \subseteq DOMAIN searches'[i]
          /\ searches'[i].ask \in Asks
          /\ searches'[i].stage = "cursor" => searches'[i].ask.tran = "cursor"
    BY <1>1, <1>4, <1>5, <2>1 DEF IInv, SearchesAreAsked
  <2> QED BY <1>6, <2>2 DEF SearchesAreAsked
<1>8. LockIsHeld'
  BY <1>3, <1>4 DEF IInv, LockIsHeld, HasCursors, Start
<1>9. ASSUME Careful PROVE DeleterIsAlone'
  <2>1. DeleterIsAlone /\ MayStart(o) /\ ~Refused(o)
    BY <1>9 DEF IInv, Start, MayCall
  <2>2. CASE o.tran = "delete"
    <3>1. ~HasCursors /\ searches = <<>>
      BY <2>1, <2>2 DEF Refused
    <3>2. n = 0 /\ DOMAIN searches' = {1} /\ searches'[1].ask = o
      BY <1>1, <1>2, <1>4, <1>5, <3>1
    <3> QED BY <1>3, <2>2, <3>1, <3>2 DEF DeleterIsAlone, Deleting, HasCursors
  <2>3. CASE o.tran # "delete"
    <3>1. \A i \in 1 .. n + 1 : i \in 1 .. n \/ i = n + 1
      BY <1>2
    <3>2. \A i \in DOMAIN searches' :
            searches'[i].ask.tran = "delete" => i \in 1 .. n /\ searches[i].ask.tran = "delete"
      BY <1>1, <1>4, <1>5, <2>3, <3>1
    <3>3. Deleting' => Deleting
      BY <1>5, <3>2 DEF Deleting
    <3>4. Deleting => o.tran # "cursor"
      BY <1>9, <2>1 DEF MayStart, MayOpen
    <3>5. Deleting => \A i \in DOMAIN searches' : searches'[i].ask.tran # "cursor"
      BY <1>1, <1>4, <1>5, <2>1, <3>1, <3>4 DEF DeleterIsAlone
    <3> QED BY <1>3, <1>5, <2>1, <3>2, <3>3, <3>5 DEF DeleterIsAlone, HasCursors
  <2> QED BY <2>2, <2>3
<1> QED BY <1>7, <1>8, <1>9 DEF IInv

\* The searches that are left when the innermost one returns.
LEMMA LeaveIs ==
  ASSUME SearchesAreAsked, searches # <<>>, Leave
  PROVE  /\ SearchesAreAsked'
         /\ DOMAIN searches' \subseteq DOMAIN searches
         /\ \A i \in DOMAIN searches' : searches'[i] = searches[i]
<1> DEFINE n == Len(searches)
<1>1. searches \in Seq(ToSet(searches)) /\ n \in Nat \ {0} /\ DOMAIN searches = 1 .. n
  BY DEF SearchesAreAsked
<1>2. searches' = SubSeq(searches, 1, n - 1)
  BY DEF Leave, Front
<1>3. searches' \in Seq(ToSet(searches)) /\ Len(searches') = n - 1
  BY <1>1, <1>2
<1>4. DOMAIN searches' = 1 .. n - 1 /\ \A i \in 1 .. n - 1 : searches'[i] = searches[i]
  BY <1>1, <1>2
<1>5. searches' \in Seq(ToSet(searches'))
  <2>1. \A i \in 1 .. n - 1 : searches'[i] \in ToSet(searches')
    BY <1>4 DEF ToSet
  <2>2. searches' = [i \in 1 .. n - 1 |-> searches'[i]] /\ n - 1 \in Nat
    BY <1>1, <1>3, <1>4
  <2> QED BY <2>1, <2>2
<1>6. DOMAIN searches' \subseteq DOMAIN searches
  BY <1>1, <1>4
<1> QED BY <1>4, <1>5, <1>6 DEF SearchesAreAsked

\* A cursor is made, or none: a search with -delete is not there.
LEMMA OpenIs ==
  ASSUME LockIsHeld, NEW n \in Names, NEW c, "locked" \in DOMAIN c, c.locked \in BOOLEAN, Open(n, c)
  PROVE  /\ cursorLock' \in BOOLEAN /\ n \in DOMAIN cursors' /\ cursors'[n] = c
         /\ DOMAIN cursors' \subseteq Names
         /\ \A m \in DOMAIN cursors' : "locked" \in DOMAIN cursors'[m] /\ cursors'[m].locked \in BOOLEAN
<1>1. /\ DOMAIN cursors' = DOMAIN cursors \cup {n}
      /\ \A m \in DOMAIN cursors' : cursors'[m] = IF m = n THEN c ELSE cursors[m]
  BY DEF Open
<1>2. cursorLock' \in BOOLEAN
  BY DEF Open, LockIsHeld
<1>3. n \in DOMAIN cursors' /\ cursors'[n] = c /\ DOMAIN cursors' \subseteq Names
  BY <1>1 DEF LockIsHeld
<1>4. \A m \in DOMAIN cursors' : "locked" \in DOMAIN cursors'[m] /\ cursors'[m].locked \in BOOLEAN
  BY <1>1 DEF LockIsHeld
<1> QED BY <1>2, <1>3, <1>4

LEMMA EmptyCursorIs == "locked" \in DOMAIN EmptyCursor /\ EmptyCursor.locked \in BOOLEAN
BY DEF EmptyCursor

LEMMA NameIs == \A o \in Asks : o.name \in Names
BY AsksAssumption DEF Ask

LEMMA StepStartOnNothing ==
  ASSUME IInv, NEW o \in Asks, StartOnNothing(o)
  PROVE  IInv'
<1>1. published' = FALSE /\ UNCHANGED searches
  BY DEF StartOnNothing
<1>2. SearchesAreAsked' /\ SameAsks
  BY <1>1, SameSearches DEF IInv
<1>3. CASE o.tran = "cursor"
  <2>1. Open(o.name, EmptyCursor) /\ o.name \in Names
    BY <1>3, NameIs DEF StartOnNothing
  <2>2. LockIsHeld'
    BY <1>1, <2>1, OpenIs, EmptyCursorIs DEF IInv, LockIsHeld, HasCursors
  <2>3. Careful => ~Deleting
    BY <1>3 DEF StartOnNothing, MayCall, MayStart, MayOpen
  <2>4. Careful => DeleterIsAlone'
    BY <1>1, <2>3 DEF IInv, DeleterIsAlone, Deleting
  <2> QED BY <1>2, <2>2, <2>4 DEF IInv
<1>4. CASE o.tran # "cursor"
  <2>1. UNCHANGED <<cursors, cursorLock>>
    BY <1>4 DEF StartOnNothing
  <2>2. LockIsHeld'
    BY <1>1, <2>1 DEF IInv, LockIsHeld, HasCursors
  <2>3. Careful => DeleterIsAlone'
    BY <1>1, <2>1 DEF IInv, DeleterIsAlone, Deleting, HasCursors
  <2> QED BY <1>2, <2>2, <2>3 DEF IInv
<1> QED BY <1>3, <1>4

LEMMA StepReturnCursor ==
  ASSUME IInv, ReturnCursor
  PROVE  IInv'
<1> DEFINE f == Top
           c == [tranTable |-> f.tranTable, offset |-> f.ask.offset,
                 offsetLimit |-> f.offsetLimit, tranIndex |-> f.ask.offset,
                 locked |-> share = "reader"]
<1>1. /\ searches # <<>> /\ Leave /\ Open(f.ask.name, c) /\ UNCHANGED <<share, published>>
      /\ f.stage = "cursor"
  BY DEF ReturnCursor, AtStage
<1>2. /\ Len(searches) \in DOMAIN searches /\ f = searches[Len(searches)]
      /\ f.ask.tran = "cursor" /\ f.ask.name \in Names
  BY <1>1, TopIsAsked, NameIs DEF IInv
<1>3. /\ SearchesAreAsked' /\ DOMAIN searches' \subseteq DOMAIN searches
      /\ \A i \in DOMAIN searches' : searches'[i] = searches[i]
  BY <1>1, LeaveIs DEF IInv
<1>4. "locked" \in DOMAIN c /\ c.locked = (share = "reader")
  OBVIOUS
<1> HIDE DEF f, c
<1>5. LockIsHeld /\ c.locked \in BOOLEAN
  BY <1>4 DEF IInv
<1>6. /\ cursorLock' \in BOOLEAN /\ f.ask.name \in DOMAIN cursors' /\ cursors'[f.ask.name] = c
      /\ DOMAIN cursors' \subseteq Names
      /\ \A m \in DOMAIN cursors' : "locked" \in DOMAIN cursors'[m] /\ cursors'[m].locked \in BOOLEAN
  BY <1>1, <1>2, <1>4, <1>5, OpenIs
<1>7. published => c.locked
  BY <1>4, <1>5 DEF LockIsHeld
<1>8. LockIsHeld'
  BY <1>1, <1>5, <1>6, <1>7 DEF LockIsHeld, HasCursors
<1>9. ASSUME Careful PROVE DeleterIsAlone'
  <2>1. DeleterIsAlone
    BY <1>9 DEF IInv
  <2>2. ~Deleting
    BY <1>2, <2>1 DEF DeleterIsAlone
  <2>3. \A i \in DOMAIN searches' : searches'[i].ask.tran # "delete"
    BY <1>3, <2>2 DEF Deleting
  <2> QED BY <2>3 DEF DeleterIsAlone, Deleting
<1> QED BY <1>3, <1>8, <1>9 DEF IInv

LEMMA StepReturn ==
  ASSUME IInv, Return
  PROVE  IInv'
<1>1. searches # <<>> /\ Leave /\ published' = FALSE
  BY DEF Return, AtStage, Unlock
<1>2. Len(searches) \in DOMAIN searches /\ Top = searches[Len(searches)] /\ Top.ask \in Asks
  BY <1>1, TopIsAsked DEF IInv
<1>3. /\ SearchesAreAsked' /\ DOMAIN searches' \subseteq DOMAIN searches
      /\ \A i \in DOMAIN searches' : searches'[i] = searches[i]
  BY <1>1, LeaveIs DEF IInv
<1>4. CASE Top.ask.tran = "cursor" /\ Top.result = "ok"
  <2>1. Open(Top.ask.name, EmptyCursor) /\ Top.ask.name \in Names
    BY <1>2, <1>4, NameIs DEF Return
  <2>2. LockIsHeld'
    BY <1>1, <2>1, OpenIs, EmptyCursorIs DEF IInv, LockIsHeld, HasCursors
  <2>3. ASSUME Careful PROVE DeleterIsAlone'
    <3>1. ~Deleting
      BY <1>2, <1>4, <2>3 DEF IInv, DeleterIsAlone
    <3>2. \A i \in DOMAIN searches' : searches'[i].ask.tran # "delete"
      BY <1>3, <3>1 DEF Deleting
    <3> QED BY <3>2 DEF DeleterIsAlone, Deleting
  <2> QED BY <1>3, <2>2, <2>3 DEF IInv
<1>5. CASE ~(Top.ask.tran = "cursor" /\ Top.result = "ok")
  <2>1. UNCHANGED <<cursors, cursorLock>>
    BY <1>5 DEF Return
  <2>2. LockIsHeld'
    BY <1>1, <2>1 DEF IInv, LockIsHeld, HasCursors
  <2>3. Careful => DeleterIsAlone'
    BY <1>3, <2>1 DEF IInv, DeleterIsAlone, Deleting, HasCursors
  <2> QED BY <1>3, <2>2, <2>3 DEF IInv
<1> QED BY <1>4, <1>5

-----------------------------------------------------------------------------
(* Cursors.                                                                *)

\* Cursors move, or fewer are left, and no search begins or ends.
LEMMA StepOnCursors ==
  ASSUME IInv, UNCHANGED searches, LockIsHeld', HasCursors' => HasCursors
  PROVE  IInv'
<1>1. SearchesAreAsked'
  BY SameSearches DEF IInv
<1>2. Careful => DeleterIsAlone'
  BY DEF IInv, DeleterIsAlone, Deleting
<1> QED BY <1>1, <1>2 DEF IInv

LEMMA StepCursorMoves ==
  ASSUME IInv, NEW n \in Names, CursorNext(n) \/ CursorReset(n)
  PROVE  IInv'
<1>1. PICK k : cursors' = [cursors EXCEPT ![n].tranIndex = k]
  BY DEF CursorNext, CursorReset
<1>2. UNCHANGED <<share, searches, published, cursorLock>>
  BY DEF CursorNext, CursorReset, locks
<1>3. /\ DOMAIN cursors' = DOMAIN cursors
      /\ \A m \in DOMAIN cursors :
           /\ cursors'[m] = IF m = n THEN [cursors[m] EXCEPT !.tranIndex = k] ELSE cursors[m]
           /\ "locked" \in DOMAIN cursors[m]
  BY <1>1 DEF IInv, LockIsHeld
<1>4. \A m \in DOMAIN cursors :
        DOMAIN cursors'[m] = DOMAIN cursors[m] /\ cursors'[m].locked = cursors[m].locked
  BY <1>3
<1>5. LockIsHeld'
  BY <1>2, <1>3, <1>4 DEF IInv, LockIsHeld, HasCursors
<1> QED BY <1>2, <1>3, <1>5, StepOnCursors DEF HasCursors

LEMMA StepDestroy ==
  ASSUME IInv, NEW n \in Names, Destroy(n)
  PROVE  IInv'
<1> DEFINE lock == cursorLock \/ cursors[n].locked
<1>1. /\ n \in DOMAIN cursors /\ UNCHANGED <<share, searches>>
      /\ cursorLock' = (lock /\ ~LastCursor(n))
      /\ published' = (published /\ ~(lock /\ LastCursor(n)))
  BY DEF Destroy, CursorIs
<1>2. /\ DOMAIN cursors' = DOMAIN cursors \ {n}
      /\ \A m \in DOMAIN cursors' : cursors'[m] = cursors[m]
  BY DEF Destroy, Restrict
<1>3. LockIsHeld /\ lock \in BOOLEAN
  BY <1>1 DEF IInv, LockIsHeld
<1>4. HasCursors' <=> ~LastCursor(n)
  BY <1>1, <1>2 DEF HasCursors, LastCursor
<1>5. /\ published' \in BOOLEAN /\ cursorLock' \in BOOLEAN
      /\ published' => published /\ ~(lock /\ LastCursor(n))
      /\ cursorLock' => ~LastCursor(n)
      /\ lock /\ ~LastCursor(n) => cursorLock'
  BY <1>1, <1>3 DEF LockIsHeld, LastCursor
<1>6. ASSUME searches' = <<>>, published'
      PROVE  cursorLock' \/ \E m \in DOMAIN cursors' : cursors'[m].locked
  <2>1. cursorLock \/ \E m \in DOMAIN cursors : cursors[m].locked
    BY <1>1, <1>3, <1>5, <1>6 DEF LockIsHeld
  <2>2. CASE lock
    BY <1>5, <1>6, <2>2
  <2>3. CASE ~lock
    <3>1. PICK m \in DOMAIN cursors : cursors[m].locked
      BY <2>1, <2>3
    <3>2. m # n
      BY <2>3, <3>1
    <3> QED BY <1>2, <3>1, <3>2
  <2> QED BY <2>2, <2>3
<1> HIDE DEF lock
<1>7. LockIsHeld'
  BY <1>1, <1>2, <1>3, <1>4, <1>5, <1>6 DEF LockIsHeld
<1> QED BY <1>1, <1>2, <1>7, StepOnCursors DEF HasCursors

LEMMA StepDestroyAll ==
  ASSUME IInv, DestroyAll
  PROVE  IInv'
<1>1. /\ HasCursors /\ DOMAIN cursors' = {} /\ cursorLock' = FALSE /\ UNCHANGED <<share, searches>>
      /\ published' = (published /\ ~cursorLock /\ \A n \in DOMAIN cursors : ~cursors[n].locked)
  BY DEF DestroyAll
<1>2. published' => published /\ searches # <<>>
  BY <1>1 DEF IInv, LockIsHeld
<1>3. published' \in BOOLEAN
  BY <1>1
<1>4. LockIsHeld'
  BY <1>1, <1>2, <1>3 DEF IInv, LockIsHeld, HasCursors
<1> QED BY <1>1, <1>4, StepOnCursors

-----------------------------------------------------------------------------
LEMMA InitInv == Init => IInv
<1> SUFFICES ASSUME Init PROVE IInv
  OBVIOUS
<1>1. searches = <<>> /\ cursors = <<>> /\ published = FALSE /\ cursorLock = FALSE
  BY DEF Init
<1>2. DOMAIN searches = {} /\ DOMAIN cursors = {}
  BY <1>1
<1>3. searches \in Seq(ToSet(searches))
  BY <1>1
<1>4. SearchesAreAsked
  BY <1>2, <1>3 DEF SearchesAreAsked
<1>5. LockIsHeld
  BY <1>1, <1>2 DEF LockIsHeld
<1>6. DeleterIsAlone
  BY <1>2 DEF DeleterIsAlone, Deleting
<1> QED BY <1>4, <1>5, <1>6 DEF IInv

LEMMA StepSearching ==
  ASSUME IInv, Searching
  PROVE  IInv'
<1>1. SearchesAreAsked
  BY DEF IInv
<1>2. ASSUME NEW f, Becomes(f), UNCHANGED <<share, cursors, locks>>
      PROVE  IInv'
  BY <1>1, <1>2, TopStep, StepInside
<1>3. CASE \E o \in Asks : StartOnNothing(o) \/ Start(o)
  BY <1>3, StepStartOnNothing, StepStart
<1>4. CASE SeekKey
  BY <1>1, <1>2, <1>4, StepSeekKey DEF SeekKey, Same
<1>5. CASE SeekNode
  BY <1>1, <1>2, <1>5, StepSeekNode DEF SeekNode, Same
<1>6. CASE Polled
  BY <1>1, <1>2, <1>6, StepPolled DEF Polled, Same
<1>7. CASE Match
  BY <1>1, <1>2, <1>7, StepMatch DEF Match, Same
<1>8. CASE Post
  BY <1>1, <1>2, <1>8, StepPost DEF Post, Same
<1>9. ASSUME NEW c, Act(c) PROVE IInv'
  BY <1>1, <1>2, <1>9, StepAct DEF Act, Same
<1>10. ASSUME NEW c, ActLater(c) PROVE IInv'
  BY <1>1, <1>2, <1>10, StepActLater DEF ActLater, Same
<1>11. CASE Commit \/ CommitDelete
  BY <1>1, <1>2, <1>11, StepCommit DEF Commit, CommitDelete, Same
<1>12. CASE CommitUpdate
  BY <1>1, <1>12, StepCommitUpdate, StepInside DEF CommitUpdate
<1>13. CASE CommitFails
  BY <1>1, <1>2, <1>13, StepCommitFails DEF CommitFails, Same
<1>14. CASE ReturnCursor
  BY <1>14, StepReturnCursor
<1>15. CASE Return
  BY <1>15, StepReturn
<1> QED BY <1>3, <1>4, <1>5, <1>6, <1>7, <1>8, <1>9, <1>10, <1>11, <1>12, <1>13, <1>14, <1>15
  DEF Searching

LEMMA StepCommands ==
  ASSUME IInv, Commands
  PROVE  IInv'
<1>1. SearchesAreAsked
  BY DEF IInv
<1>2. UNCHANGED <<share, cursors, locks>>
  BY DEF Commands, Store, Set, Delete, Reset, IndexRange, Alone
<1>3. UNCHANGED searches \/ \E S : searches' = Touch(searches, S)
  BY DEF Commands, Store, Set, Delete, Reset, IndexRange
<1>4. SearchesAreAsked' /\ SameAsks
  BY <1>1, <1>3, SameSearches, TouchStep
<1> QED BY <1>2, <1>4, StepInside

LEMMA StepWithCursors ==
  ASSUME IInv, WithCursors
  PROVE  IInv'
<1>1. ASSUME NEW n \in Names, NEW v \in Values, CursorSet(n, v)
      PROVE  IInv'
  <2>1. UNCHANGED <<share, cursors, locks>> /\ \E S : searches' = Touch(searches, S)
    BY <1>1 DEF CursorSet, Alone
  <2>2. SearchesAreAsked' /\ SameAsks
    BY <2>1, TouchStep DEF IInv
  <2> QED BY <2>1, <2>2, StepInside
<1> QED BY <1>1, StepCursorMoves, StepDestroy, StepDestroyAll DEF WithCursors

LEMMA StepInv == IInv /\ [Next]_vars => IInv'
<1> SUFFICES ASSUME IInv, [Next]_vars PROVE IInv'
  OBVIOUS
<1>1. CASE UNCHANGED vars
  <2>1. UNCHANGED <<share, searches, cursors, locks>>
    BY <1>1 DEF vars
  <2>2. SearchesAreAsked' /\ SameAsks
    BY <2>1, SameSearches DEF IInv
  <2> QED BY <2>1, <2>2, StepInside
<1> QED BY <1>1, StepSearching, StepCommands, StepWithCursors DEF Next

LEMMA Invariance == Spec => []IInv
BY InitInv, StepInv, PTL DEF Spec

-----------------------------------------------------------------------------
\* When no search runs and no cursor is left, this reader holds no cycle: whatever
\* way each search ended and in whatever order cursors were made and destroyed
\* (ctable_PerformSearch, ctable_DestroyCursor).
THEOREM LockComesBack == Spec => []LockIsReturned
<1>1. IInv => LockIsReturned
  BY DEF IInv, LockIsHeld, LockIsReturned, HasCursors
<1> QED BY <1>1, Invariance, PTL

\* A search with -delete is the outermost one and there is no cursor while it runs,
\* if scripts are Careful (ctable_SetupSearch).
THEOREM OneDeletes == Careful => (Spec => []DeleterIsAlone)
<1> SUFFICES ASSUME Careful PROVE Spec => []DeleterIsAlone
  OBVIOUS
<1>1. IInv => DeleterIsAlone
  BY DEF IInv
<1> QED BY <1>1, Invariance, PTL

\* No row leaves the table while a cursor or another search may have a pointer to it,
\* if scripts are Careful (delete, ctable_SetupSearch and the tables of commands
\* that go with cursors).
THEOREM RowsAreKept == Careful => (Spec => RowsStay)
<1> SUFFICES ASSUME Careful PROVE Spec => RowsStay
  OBVIOUS
<1> DEFINE Stays == \/ list' = list \/ \E r \in Rows : list' = <<r>> \o list
                    \/ ~HasCursors /\ (searches = <<>> \/ (Len(searches) = 1 /\ Top.stage = "commit"))
<1>1. IInv /\ [Next]_vars => [Stays]_vars
  <2> SUFFICES ASSUME IInv, Next PROVE Stays
    BY DEF vars
  <2>1. CASE \E o \in Asks : StartOnNothing(o) \/ Start(o)
    BY <2>1 DEF StartOnNothing, Start, table
  <2>2. CASE CommitDelete
    <3>1. searches # <<>> /\ Top.stage = "commit" /\ Top.ask.tran = "delete"
      BY <2>2 DEF CommitDelete, AtStage
    <3>2. Len(searches) \in DOMAIN searches /\ Top = searches[Len(searches)]
      BY <3>1, TopIsAsked DEF IInv
    <3>3. Len(searches) = 1 /\ ~HasCursors
      BY <3>1, <3>2 DEF IInv, DeleterIsAlone, Deleting
    <3> QED BY <3>1, <3>3
  <2>3. CASE Searching /\ ~CommitDelete /\ ~\E o \in Asks : StartOnNothing(o) \/ Start(o)
    BY <2>3 DEF Searching, SeekKey, SeekNode, Polled, Match, Post, Act, ActLater, Commit,
       CommitUpdate, CommitFails, ReturnCursor, Return, Same, table
  <2>4. CASE Commands
    BY <2>4 DEF Commands, Store, Set, Delete, Reset, IndexRange, MayWrite, MayDelete, table
  <2>5. CASE WithCursors
    BY <2>5 DEF WithCursors, CursorNext, CursorReset, CursorSet, Destroy, DestroyAll, table
  <2> QED BY <2>1, <2>2, <2>3, <2>4, <2>5 DEF Next, Searching
<1>2. Spec => [][Stays]_vars
  BY <1>1, Invariance, PTL DEF Spec
<1> QED BY <1>2 DEF RowsStay, Stays

-----------------------------------------------------------------------------
(* The sequences of the table.                                             *)

LEMMA ToSetIs == \A s, x : x \in ToSet(s) <=> \E i \in DOMAIN s : s[i] = x
BY DEF ToSet

LEMMA UpTo ==
  ASSUME NEW n \in Nat
  PROVE  IsFiniteSet(1 .. n) /\ Cardinality(1 .. n) = n
<1>1. IsFiniteSet(1 .. n) /\ Cardinality(1 .. n) = IF 1 > n THEN 0 ELSE n - 1 + 1
  <2>1. 1 \in Int /\ n \in Int
    OBVIOUS
  <2> QED BY <2>1, FS_Interval
<1> QED BY <1>1

LEMMA SeqIs ==
  ASSUME NEW A, NEW s \in Seq(A)
  PROVE  /\ Len(s) \in Nat /\ DOMAIN s = 1 .. Len(s) /\ ToSet(s) \subseteq A
         /\ \A x : Contains(s, x) <=> x \in ToSet(s)
BY DEF ToSet, Contains

\* A sequence has finitely many elements, and as many as it is long if none is twice.
LEMMA SeqCounts ==
  ASSUME NEW A, NEW s \in Seq(A)
  PROVE  /\ IsFiniteSet(ToSet(s))
         /\ IsInjective(s) => Cardinality(ToSet(s)) = Len(s)
<1> DEFINE n == Len(s)
<1>1. n \in Nat /\ DOMAIN s = 1 .. n /\ s \in [1 .. n -> ToSet(s)]
  BY DEF ToSet
<1>2. \A x \in ToSet(s) : \E i \in 1 .. n : s[i] = x
  BY <1>1 DEF ToSet
<1>3. s \in Surjection(1 .. n, ToSet(s))
  BY <1>1, <1>2 DEF Surjection
<1>4. IsFiniteSet(1 .. n) /\ Cardinality(1 .. n) = n
  BY <1>1, UpTo
<1>5. IsFiniteSet(ToSet(s)) /\ (Cardinality(ToSet(s)) = n <=> s \in Injection(1 .. n, ToSet(s)))
  BY <1>3, <1>4, FS_Surjection
<1>6. IsInjective(s) => s \in Injection(1 .. n, ToSet(s))
  BY <1>1 DEF IsInjective, Injection
<1> QED BY <1>5, <1>6

\* The elements of a finite set of numbers can be counted up.
LEMMA RankIs ==
  ASSUME NEW n \in Nat, NEW K, K \subseteq 1 .. n
  PROVE  LET m == Cardinality(K)
             rank(i) == Cardinality({j \in K : j <= i})
         IN  /\ m \in Nat
             /\ \A i \in K : rank(i) \in 1 .. m
             /\ \A i, j \in K : i < j => rank(i) < rank(j)
             /\ \A k \in 1 .. m : \E i \in K : rank(i) = k
<1> DEFINE m == Cardinality(K)
           up(i) == {j \in K : j <= i}
           rank(i) == Cardinality(up(i))
<1>1. IsFiniteSet(K) /\ m \in Nat
  <2>1. IsFiniteSet(1 .. n) /\ K \in SUBSET (1 .. n)
    BY UpTo
  <2>2. IsFiniteSet(K)
    BY <2>1, FS_Subset
  <2> QED BY <2>2, FS_CardinalityType
<1>2. \A i : IsFiniteSet(up(i)) /\ rank(i) \in Nat /\ rank(i) <= m
  <2>1. \A i : up(i) \in SUBSET K
    OBVIOUS
  <2> HIDE DEF up
  <2> QED BY <1>1, <2>1, FS_Subset, FS_CardinalityType
<1>3. \A i \in K : rank(i) \in 1 .. m
  <2>1. \A i \in K : up(i) # {}
    OBVIOUS
  <2> HIDE DEF up
  <2>2. \A i \in K : rank(i) # 0
    BY <1>2, <2>1, FS_EmptySet
  <2> QED BY <1>1, <1>2, <2>2
<1>4. ASSUME NEW i \in K, NEW j \in K, i < j PROVE rank(i) < rank(j)
  <2>1. i \in Nat /\ j \in Nat /\ \A k \in K : k \in Nat
    OBVIOUS
  <2>2. \A k \in K : k <= i => k <= j
    BY <1>4, <2>1
  <2>3. ~(j <= i) /\ j <= j
    BY <1>4, <2>1
  <2>4. up(i) \subseteq up(j) /\ j \in up(j) /\ j \notin up(i)
    BY <2>2, <2>3
  <2> HIDE DEF up
  <2>5. rank(i) <= rank(j) /\ rank(i) # rank(j)
    BY <1>2, <2>4, FS_Subset
  <2> QED BY <1>2, <2>5
<1>5. ASSUME NEW k \in 1 .. m PROVE \E i \in K : rank(i) = k
  <2> DEFINE f == [i \in K |-> rank(i)]
  <2> HIDE DEF up
  <2>1. f \in [K -> 1 .. m] /\ \A i \in K : f[i] = rank(i)
    BY <1>3
  <2>2. \A i, j \in K : f[i] = f[j] => i = j
    <3>1. \A i, j \in K : i < j \/ j < i \/ i = j
      OBVIOUS
    <3> QED BY <1>2, <1>4, <2>1, <3>1
  <2> HIDE DEF f
  <2>3. f \in Injection(K, 1 .. m)
    <3>1. \A i, j \in K : f[i] = f[j] => i = j
      BY <2>2
    <3>2. f \in [K -> 1 .. m]
      BY <2>1
    <3> HIDE DEF rank, m
    <3> QED BY <3>1, <3>2 DEF Injection, IsInjective
  <2>4. IsFiniteSet(1 .. m) /\ Cardinality(1 .. m) = m
    BY <1>1, UpTo
  <2>5. f \in Surjection(K, 1 .. m)
    BY <2>3, <2>4, FS_Injection
  <2> QED BY <1>5, <2>1, <2>5 DEF Surjection
<1> QED BY <1>1, <1>3, <1>4, <1>5

LEMMA OnlyIs ==
  ASSUME NEW A, NEW s \in Seq(A), NEW S
  PROVE  /\ Only(s, S) \in Seq(A)
         /\ ToSet(Only(s, S)) = ToSet(s) \cap S
         /\ IsInjective(s) => IsInjective(Only(s, S))
<1> DEFINE K == {i \in DOMAIN s : s[i] \in S}
           m == Cardinality(K)
           rank(i) == Cardinality({j \in K : j <= i})
           Nth(k) == CHOOSE i \in K : rank(i) = k
           t == [k \in 1 .. m |-> s[Nth(k)]]
<1>1. K \subseteq 1 .. Len(s) /\ Len(s) \in Nat
  OBVIOUS
<1>2. Only(s, S) = t
  BY DEF Only
<1>3. \A i \in K : s[i] \in A /\ s[i] \in S
  OBVIOUS
<1>4. \A x \in ToSet(s) \cap S : \E i \in K : s[i] = x
  BY DEF ToSet
<1>5. \A i \in K : s[i] \in ToSet(s) \cap S
  BY DEF ToSet
<1>6. IsInjective(s) => \A i, j \in K : s[i] = s[j] => i = j
  BY DEF IsInjective
<1> HIDE DEF K
<1>7. /\ m \in Nat
      /\ \A i \in K : rank(i) \in 1 .. m
      /\ \A i, j \in K : i < j => rank(i) < rank(j)
      /\ \A k \in 1 .. m : \E i \in K : rank(i) = k
  BY <1>1, RankIs
<1> HIDE DEF rank
<1>8. \A k \in 1 .. m : Nth(k) \in K /\ rank(Nth(k)) = k
  BY <1>7
<1>9. \A i, j \in K : rank(i) = rank(j) => i = j
  <2>1. \A i, j \in K : i < j \/ j < i \/ i = j
    BY <1>1
  <2> QED BY <1>7, <2>1
<1> HIDE DEF Nth, m
<1>10. t \in Seq(A)
  BY <1>3, <1>7, <1>8
<1>11. ToSet(t) = ToSet(s) \cap S
  <2>1. \A x \in ToSet(t) : x \in ToSet(s) \cap S
    BY <1>5, <1>8 DEF ToSet
  <2>2. ASSUME NEW x \in ToSet(s) \cap S PROVE x \in ToSet(t)
    <3>1. PICK i \in K : s[i] = x
      BY <1>4
    <3>2. rank(i) \in 1 .. m /\ Nth(rank(i)) = i
      BY <1>7, <1>8, <1>9
    <3> QED BY <3>1, <3>2 DEF ToSet
  <2> QED BY <2>1, <2>2
<1>12. IsInjective(s) => IsInjective(t)
  <2> SUFFICES ASSUME IsInjective(s), NEW k \in 1 .. m, NEW l \in 1 .. m, t[k] = t[l]
               PROVE  k = l
    BY DEF IsInjective
  <2>1. Nth(k) = Nth(l)
    BY <1>6, <1>8
  <2> QED BY <1>8, <2>1
<1> QED BY <1>2, <1>10, <1>11, <1>12

LEMMA FirstIs ==
  ASSUME NEW S, S \subseteq Values
  PROVE  /\ First(S) \in Pointer
         /\ S = {} <=> First(S) = End
         /\ S # {} => First(S) \in S /\ \A w \in S : First(S) <= w
<1>1. \A v \in S : v \in Nat /\ v # 0
  BY DataAssumption
<1>2. S # {} => \E v \in S : \A w \in S : v <= w
  BY <1>1, LeastNatural
<1> QED BY <1>1, <1>2 DEF First, End, Pointer

\* q comes before r in s.
Leads(s, q, r) == \E i, j \in DOMAIN s : i < j /\ s[i] = q /\ s[j] = r

LEMMA LeadsIn ==
  ASSUME NEW s, NEW q, NEW r, Leads(s, q, r)
  PROVE  q \in ToSet(s) /\ r \in ToSet(s)
BY DEF Leads, ToSet

\* Where nothing is twice, nothing comes before itself, and what comes before what
\* comes before r does.
LEMMA LeadsOn ==
  ASSUME NEW s, s \in Seq(Rows), IsInjective(s), NEW p, NEW q, NEW r
  PROVE  ~Leads(s, q, q) /\ (Leads(s, p, q) /\ Leads(s, q, r) => Leads(s, p, r))
<1>1. Len(s) \in Nat /\ DOMAIN s = 1 .. Len(s)
  OBVIOUS
<1>2. ~Leads(s, q, q)
  BY <1>1 DEF Leads, IsInjective
<1>3. ASSUME Leads(s, p, q), Leads(s, q, r) PROVE Leads(s, p, r)
  <2>1. PICK i, j \in DOMAIN s : i < j /\ s[i] = p /\ s[j] = q
    BY <1>3 DEF Leads
  <2>2. PICK k, m \in DOMAIN s : k < m /\ s[k] = q /\ s[m] = r
    BY <1>3 DEF Leads
  <2>3. j = k
    BY <2>1, <2>2 DEF IsInjective
  <2>4. i < m
    BY <1>1, <2>1, <2>2, <2>3
  <2> QED BY <2>1, <2>2, <2>4 DEF Leads
<1> QED BY <1>2, <1>3

\* What follows r comes after it.
LEMMA AfterIs ==
  ASSUME NEW s, s \in Seq(Rows), NEW r
  PROVE  /\ After(s, r) \in ToSet(s) \cup {NoRow}
         /\ After(s, r) # NoRow => After(s, r) \in Rows /\ Leads(s, r, After(s, r))
<1>1. Len(s) \in Nat /\ DOMAIN s = 1 .. Len(s) /\ ToSet(s) \subseteq Rows
  BY SeqIs
<1>2. CASE After(s, r) = NoRow
  BY <1>2
<1>3. CASE After(s, r) # NoRow
  <2> DEFINE i == CHOOSE i \in 1 .. Len(s) : s[i] = r
  <2>1. Contains(s, r) /\ i < Len(s) /\ After(s, r) = s[i + 1]
    BY <1>3 DEF After
  <2>2. \E j \in 1 .. Len(s) : s[j] = r
    BY <1>1, <2>1 DEF Contains
  <2>3. i \in 1 .. Len(s) /\ s[i] = r
    BY <2>2
  <2> HIDE DEF i
  <2>4. i + 1 \in DOMAIN s /\ i < i + 1
    BY <1>1, <2>1, <2>3
  <2> QED BY <1>1, <2>1, <2>3, <2>4 DEF Leads, ToSet
<1> QED BY <1>2, <1>3

LEMMA HeadIs ==
  ASSUME NEW A, NEW s \in Seq(A), s # <<>>
  PROVE  Head(s) \in ToSet(s) /\ Head(s) \in A
<1>1. 1 \in DOMAIN s /\ Head(s) = s[1]
  OBVIOUS
<1> QED BY <1>1 DEF ToSet

LEMMA TailIs ==
  ASSUME NEW A, NEW s \in Seq(A), s # <<>>
  PROVE  /\ Tail(s) \in Seq(A) /\ ToSet(Tail(s)) \subseteq ToSet(s)
         /\ ToSet(s) \subseteq ToSet(Tail(s)) \cup {Head(s)}
         /\ IsInjective(s) => IsInjective(Tail(s)) /\ Head(s) \notin ToSet(Tail(s))
<1>1. /\ Len(s) \in Nat /\ DOMAIN s = 1 .. Len(s) /\ Head(s) = s[1] /\ 1 \in DOMAIN s
      /\ Tail(s) \in Seq(A) /\ DOMAIN Tail(s) = 1 .. Len(s) - 1
      /\ \A i \in 1 .. Len(s) - 1 : Tail(s)[i] = s[i + 1]
  OBVIOUS
<1>2. \A i \in DOMAIN Tail(s) : i + 1 \in DOMAIN s /\ i + 1 # 1 /\ Tail(s)[i] = s[i + 1]
  BY <1>1
<1> DEFINE t == Tail(s)
<1> HIDE DEF t
<1>3. ToSet(t) \subseteq ToSet(s)
  BY <1>2 DEF ToSet, t
<1>4. ASSUME IsInjective(s) PROVE IsInjective(t) /\ Head(s) \notin ToSet(t)
  <2>1. \A i, j \in DOMAIN t : t[i] = t[j] => i + 1 = j + 1
    BY <1>2, <1>4 DEF IsInjective, t
  <2>2. IsInjective(t)
    BY <1>1, <2>1 DEF IsInjective, t
  <2>3. \A i \in DOMAIN t : t[i] # s[1]
    BY <1>1, <1>2, <1>4 DEF IsInjective, t
  <2> QED BY <1>1, <2>2, <2>3 DEF ToSet
<1>5. ToSet(s) \subseteq ToSet(t) \cup {Head(s)}
  <2>1. ASSUME NEW i \in DOMAIN s, i # 1 PROVE s[i] \in ToSet(t)
    <3>1. i - 1 \in DOMAIN t /\ t[i - 1] = s[i - 1 + 1] /\ i - 1 + 1 = i
      BY <1>1, <2>1 DEF t
    <3> QED BY <3>1, ToSetIs
  <2> QED BY <1>1, <2>1, ToSetIs
<1> QED BY <1>1, <1>3, <1>4, <1>5 DEF t

LEMMA ConcatIs ==
  ASSUME NEW A, NEW s \in Seq(A), NEW t \in Seq(A)
  PROVE  /\ s \o t \in Seq(A) /\ Len(s \o t) = Len(s) + Len(t)
         /\ \A i \in 1 .. Len(s) : (s \o t)[i] = s[i]
         /\ \A i \in 1 .. Len(t) : (s \o t)[i + Len(s)] = t[i]
<1>1. s \o t \in Seq(A)
  OBVIOUS
<1>2. Len(s \o t) = Len(s) + Len(t)
  OBVIOUS
<1>3. ASSUME NEW i \in 1 .. Len(s) PROVE (s \o t)[i] = s[i]
  OBVIOUS
<1>4. ASSUME NEW i \in 1 .. Len(t) PROVE (s \o t)[i + Len(s)] = t[i]
  OBVIOUS
<1> QED BY <1>1, <1>2, <1>3, <1>4

\* A sequence turned round and put before another.
LEMMA ReversedIs ==
  ASSUME NEW A, NEW s \in Seq(A), NEW t \in Seq(A)
  PROVE  /\ Reverse(s) \o t \in Seq(A)
         /\ ToSet(Reverse(s) \o t) = ToSet(s) \cup ToSet(t)
         /\ IsInjective(s) /\ IsInjective(t) /\ ToSet(s) \cap ToSet(t) = {} =>
              IsInjective(Reverse(s) \o t)
<1> DEFINE m == Len(s)
           n == Len(t)
           r == Reverse(s)
           u == r \o t
<1>1. m \in Nat /\ n \in Nat /\ DOMAIN s = 1 .. m /\ DOMAIN t = 1 .. n
  OBVIOUS
<1>2. r \in Seq(A) /\ Len(r) = m /\ \A i \in 1 .. m : r[i] = s[m - i + 1]
  BY <1>1 DEF Reverse
<1> HIDE DEF r
<1>3. /\ u \in Seq(A) /\ Len(u) = m + n
      /\ \A i \in 1 .. m : u[i] = r[i]
      /\ \A i \in 1 .. n : u[i + m] = t[i]
  BY <1>2, ConcatIs
<1> HIDE DEF u, m, n
<1>4. DOMAIN u = 1 .. m + n
  BY <1>3
<1>5. ASSUME NEW k \in DOMAIN u
      PROVE  \/ k \in 1 .. m /\ m - k + 1 \in 1 .. m /\ u[k] = s[m - k + 1]
             \/ k \notin 1 .. m /\ k - m \in 1 .. n /\ u[k] = t[k - m]
  <2>1. CASE k \in 1 .. m
    <3>1. m - k + 1 \in 1 .. m
      BY <1>1, <2>1
    <3> QED BY <1>2, <1>3, <2>1, <3>1
  <2>2. CASE k \notin 1 .. m
    <3>1. k - m \in 1 .. n /\ k - m + m = k
      BY <1>1, <1>4, <2>2
    <3>2. u[k - m + m] = t[k - m]
      BY <1>3, <3>1
    <3> QED BY <2>2, <3>1, <3>2
  <2> QED BY <2>1, <2>2
<1>6. \A i \in 1 .. m : s[i] \in ToSet(u)
  <2>1. SUFFICES ASSUME NEW i \in 1 .. m PROVE \E k \in DOMAIN u : u[k] = s[i]
    BY ToSetIs
  <2>2. m - i + 1 \in 1 .. m /\ m - i + 1 \in DOMAIN u /\ m - (m - i + 1) + 1 = i
    BY <1>1, <1>4
  <2>3. u[m - i + 1] = s[m - (m - i + 1) + 1]
    BY <1>2, <1>3, <2>2
  <2> QED BY <2>2, <2>3
<1>7. \A i \in 1 .. n : t[i] \in ToSet(u)
  <2>1. SUFFICES ASSUME NEW i \in 1 .. n PROVE \E k \in DOMAIN u : u[k] = t[i]
    BY ToSetIs
  <2>2. i + m \in DOMAIN u
    BY <1>1, <1>4
  <2> QED BY <1>3, <2>2
<1>8. ToSet(u) = ToSet(s) \cup ToSet(t)
  <2>1. \A i \in 1 .. m : s[i] \in ToSet(s)
    BY <1>1, ToSetIs
  <2>2. \A i \in 1 .. n : t[i] \in ToSet(t)
    BY <1>1, ToSetIs
  <2>3. ToSet(u) \subseteq ToSet(s) \cup ToSet(t)
    BY <1>5, <2>1, <2>2, ToSetIs
  <2> QED BY <1>1, <1>6, <1>7, <2>3, ToSetIs
<1>9. ASSUME IsInjective(s), IsInjective(t), ToSet(s) \cap ToSet(t) = {},
             NEW i \in DOMAIN u, NEW j \in DOMAIN u, u[i] = u[j]
      PROVE  i = j
  <2>1. \A k \in 1 .. m, l \in 1 .. n : s[k] # t[l]
    BY <1>1, <1>9, ToSetIs
  <2>2. CASE i \in 1 .. m /\ j \in 1 .. m
    <3>1. m - i + 1 = m - j + 1
      BY <1>1, <1>5, <1>9, <2>2 DEF IsInjective
    <3> QED BY <1>1, <2>2, <3>1
  <2>3. CASE i \notin 1 .. m /\ j \notin 1 .. m
    <3>1. i - m = j - m
      BY <1>1, <1>5, <1>9, <2>3 DEF IsInjective
    <3> QED BY <1>1, <1>4, <3>1
  <2> QED BY <1>5, <1>9, <2>1, <2>2, <2>3
<1> QED BY <1>3, <1>8, <1>9 DEF u, r, IsInjective

\* A row is put before a sequence.
LEMMA PutIs ==
  ASSUME NEW r \in Rows, NEW s \in Seq(Rows)
  PROVE  /\ <<r>> \o s \in Seq(Rows) /\ ToSet(<<r>> \o s) = ToSet(s) \cup {r}
         /\ IsInjective(s) /\ r \notin ToSet(s) => IsInjective(<<r>> \o s)
         /\ \A p, q : Leads(s, p, q) => Leads(<<r>> \o s, p, q)
         /\ \A p, q : Leads(<<r>> \o s, p, q) /\ p \in ToSet(s) /\ r \notin ToSet(s) => Leads(s, p, q)
<1> DEFINE n == Len(s)
           t == <<r>> \o s
<1>1. /\ t \in Seq(Rows) /\ Len(t) = n + 1 /\ t[1] = r
      /\ n \in Nat /\ DOMAIN s = 1 .. n
      /\ \A i \in 1 .. n : t[i + 1] = s[i]
  <2>1. <<r>> \in Seq(Rows) /\ Len(<<r>>) = 1 /\ <<r>>[1] = r
    OBVIOUS
  <2> DEFINE one == <<r>>
  <2> HIDE DEF one
  <2>2. /\ one \o s \in Seq(Rows) /\ Len(one \o s) = Len(one) + Len(s)
        /\ \A i \in 1 .. Len(one) : (one \o s)[i] = one[i]
        /\ \A i \in 1 .. Len(s) : (one \o s)[i + Len(one)] = s[i]
    BY <2>1, ConcatIs DEF one
  <2>3. n \in Nat /\ DOMAIN s = 1 .. n /\ 1 \in 1 .. Len(one) /\ 1 + Len(s) = n + 1
    BY <2>1 DEF one
  <2> QED BY <2>1, <2>2, <2>3 DEF one
<1> HIDE DEF t, n
<1>2. DOMAIN t = 1 .. n + 1
  BY <1>1
<1>3. ASSUME NEW k \in DOMAIN t
      PROVE  \/ k = 1 /\ t[k] = r
             \/ k # 1 /\ k - 1 \in DOMAIN s /\ t[k] = s[k - 1]
  <2>1. CASE k = 1
    BY <1>1, <2>1
  <2>2. CASE k # 1
    <3>1. k - 1 \in 1 .. n /\ k - 1 + 1 = k
      BY <1>1, <1>2, <2>2
    <3>2. t[k - 1 + 1] = s[k - 1]
      BY <1>1, <3>1
    <3> QED BY <1>1, <2>2, <3>1, <3>2
  <2> QED BY <2>1, <2>2
<1>4. \A k \in DOMAIN s : k + 1 \in DOMAIN t /\ t[k + 1] = s[k]
  BY <1>1, <1>2
<1>5. ToSet(t) = ToSet(s) \cup {r}
  <2>1. ToSet(t) \subseteq ToSet(s) \cup {r}
    BY <1>3, ToSetIs
  <2>2. 1 \in DOMAIN t
    BY <1>1, <1>2
  <2> QED BY <1>1, <1>4, <2>1, <2>2, ToSetIs
<1>6. ASSUME IsInjective(s), r \notin ToSet(s), NEW k \in DOMAIN t, NEW l \in DOMAIN t, t[k] = t[l]
      PROVE  k = l
  <2>1. k # 1 => s[k - 1] \in ToSet(s)
    BY <1>3, ToSetIs
  <2>2. l # 1 => s[l - 1] \in ToSet(s)
    BY <1>3, ToSetIs
  <2>3. CASE k # 1 /\ l # 1
    <3>1. k - 1 = l - 1
      BY <1>3, <1>6, <2>3 DEF IsInjective
    <3> QED BY <1>1, <1>2, <3>1
  <2> QED BY <1>3, <1>6, <2>1, <2>2, <2>3
<1>7. ASSUME NEW p, NEW q, Leads(s, p, q) PROVE Leads(t, p, q)
  <2>1. PICK i, j \in DOMAIN s : i < j /\ s[i] = p /\ s[j] = q
    BY <1>7 DEF Leads
  <2>2. i + 1 < j + 1
    BY <1>1, <2>1
  <2> QED BY <1>4, <2>1, <2>2 DEF Leads
<1>8. ASSUME NEW p, NEW q, Leads(t, p, q), p \in ToSet(s), r \notin ToSet(s) PROVE Leads(s, p, q)
  <2>1. PICK i, j \in DOMAIN t : i < j /\ t[i] = p /\ t[j] = q
    BY <1>8 DEF Leads
  <2>2. i # 1
    BY <1>3, <1>8, <2>1
  <2>3. i \in Nat /\ j \in Nat /\ j # 1 /\ i - 1 < j - 1
    BY <1>1, <1>2, <2>1, <2>2
  <2> QED BY <1>3, <2>1, <2>2, <2>3 DEF Leads
<1> QED BY <1>1, <1>5, <1>6, <1>7, <1>8 DEF t, IsInjective

-----------------------------------------------------------------------------
(* The index.                                                              *)

\* The index ix has each row of the table once, at its value.
Indexed(l, vl, ix) ==
  /\ ix \in [Values -> Seq(Rows)]
  /\ \A v \in Values : IsInjective(ix[v]) /\ ToSet(ix[v]) = {r \in ToSet(l) : vl[r] = v}

LEMMA NodesAre ==
  ASSUME NEW l, NEW vl, NEW ix, Indexed(l, vl, ix)
  PROVE  Nodes(ix) \subseteq Values
BY DEF Nodes, Indexed

LEMMA WithoutIs ==
  ASSUME NEW l, NEW vl, NEW ix, Indexed(l, vl, ix), NEW S, ToSet(l) \subseteq Rows
  PROVE  /\ Without(ix, S) \in [Values -> Seq(Rows)]
         /\ \A v \in Values : /\ IsInjective(Without(ix, S)[v])
                              /\ ToSet(Without(ix, S)[v]) = {r \in ToSet(l) \ S : vl[r] = v}
<1> DEFINE w == Without(ix, S)
<1>1. DOMAIN ix = Values
  BY DEF Indexed
<1>2. w = [v \in Values |-> Only(ix[v], Rows \ S)]
  BY <1>1 DEF Without
<1>3. ASSUME NEW v \in Values
      PROVE  w[v] \in Seq(Rows) /\ IsInjective(w[v]) /\ ToSet(w[v]) = {r \in ToSet(l) \ S : vl[r] = v}
  <2>1. ix[v] \in Seq(Rows) /\ IsInjective(ix[v]) /\ ToSet(ix[v]) = {r \in ToSet(l) : vl[r] = v}
    BY DEF Indexed
  <2>2. w[v] = Only(ix[v], Rows \ S)
    BY <1>2
  <2>3. w[v] \in Seq(Rows) /\ ToSet(w[v]) = ToSet(ix[v]) \cap (Rows \ S) /\ IsInjective(w[v])
    BY <2>1, <2>2, OnlyIs
  <2> QED BY <2>1, <2>3
<1>4. w \in [Values -> Seq(Rows)]
  BY <1>2, <1>3
<1> QED BY <1>3, <1>4

\* Rows get another value.
LEMMA MoveToIs ==
  ASSUME list \in Seq(Rows), val \in [Rows -> Values], at \in Pointer, Indexed(list, val, index),
         NEW s \in Seq(Rows), IsInjective(s), ToSet(s) \subseteq ToSet(list),
         NEW v \in Values, MoveTo(s, v)
  PROVE  val' \in [Rows -> Values] /\ Indexed(list, val', index') /\ at' \in Pointer
<1> DEFINE moved == Only(s, {r \in Rows : val[r] # v})
           M     == ToSet(moved)
           gone  == Without(index, M)
<1>1. /\ val' = [r \in Rows |-> IF r \in M THEN v ELSE val[r]]
      /\ index' = [gone EXCEPT ![v] = Reverse(moved) \o @]
      /\ at' = IF Nodes(gone) = Nodes(index) THEN at ELSE First(Nodes(gone))
  BY DEF MoveTo
<1>2. moved \in Seq(Rows) /\ IsInjective(moved) /\ M = {r \in ToSet(s) : val[r] # v}
  <2>1. moved \in Seq(Rows) /\ M = ToSet(s) \cap {r \in Rows : val[r] # v} /\ IsInjective(moved)
    BY OnlyIs
  <2>2. ToSet(s) \subseteq Rows
    BY SeqIs
  <2> QED BY <2>1, <2>2
<1> HIDE DEF moved
<1>3. ToSet(list) \subseteq Rows /\ M \subseteq ToSet(list)
  BY <1>2, SeqIs
<1>4. /\ gone \in [Values -> Seq(Rows)]
      /\ \A u \in Values : IsInjective(gone[u]) /\ ToSet(gone[u]) = {r \in ToSet(list) \ M : val[r] = u}
  BY <1>3, WithoutIs
<1> HIDE DEF gone
<1>5. val' \in [Rows -> Values] /\ \A r \in Rows : val'[r] = IF r \in M THEN v ELSE val[r]
  BY <1>1
<1>6. at' \in Pointer
  <2>1. Nodes(gone) \subseteq Values
    BY <1>4 DEF Nodes
  <2> QED BY <1>1, <2>1, FirstIs
<1>7. ASSUME NEW u \in Values
      PROVE  index'[u] \in Seq(Rows) /\ IsInjective(index'[u])
             /\ ToSet(index'[u]) = {r \in ToSet(list) : val'[r] = u}
  <2>1. CASE u = v
    <3> DEFINE t == gone[v]
    <3>1. t \in Seq(Rows) /\ IsInjective(t) /\ ToSet(t) = {r \in ToSet(list) \ M : val[r] = v}
      BY <1>4
    <3>2. index'[u] = Reverse(moved) \o t
      BY <1>1, <1>4, <2>1
    <3> HIDE DEF t
    <3>3. ToSet(moved) \cap ToSet(t) = {}
      BY <3>1
    <3>4. /\ index'[u] \in Seq(Rows) /\ IsInjective(index'[u])
          /\ ToSet(index'[u]) = ToSet(moved) \cup ToSet(t)
      BY <1>2, <3>1, <3>2, <3>3, ReversedIs
    <3>5. ToSet(moved) \cup ToSet(t) = {r \in ToSet(list) : val'[r] = v}
      BY <1>3, <1>5, <3>1
    <3> QED BY <2>1, <3>4, <3>5
  <2>2. CASE u # v
    <3>1. index'[u] = gone[u]
      BY <1>1, <1>4, <2>2
    <3>2. {r \in ToSet(list) \ M : val[r] = u} = {r \in ToSet(list) : val'[r] = u}
      BY <1>3, <1>5, <2>2
    <3> QED BY <1>4, <3>1, <3>2
  <2> QED BY <2>1, <2>2
<1>8. index' \in [Values -> Seq(Rows)]
  <2>1. DOMAIN index' = Values /\ index' = [u \in Values |-> index'[u]]
    BY <1>1, <1>4
  <2> QED BY <1>7, <2>1
<1> QED BY <1>5, <1>6, <1>7, <1>8 DEF Indexed

-----------------------------------------------------------------------------
(* What a search knows of the table, given its list of rows l, the field   *)
(* vl, the index ix and skip->curl a.                                      *)

AtRow(f)   == f.stage \in {"poll", "match", "act"}
Follows(f) == f.walk = "index" /\ f.phase = "walk"

Stages(f) ==
  /\ f.phase = "walk"  => f.stage \in {"seek", "poll", "match", "act", "post", "done"}
  /\ f.phase = "after" => f.stage \in {"poll", "act", "commit", "cursor", "done"}

\* The rows a search can come to: those that were there when it began, and, looking
\* up keys, those stored since.
Findable(f) == f.was.rows \cup (IF f.walk = "hash" THEN f.touched ELSE {})

\* Where a walk is.
Stands(f, l, vl, ix, a) ==
  /\ f.walk = "list" => f.stage # "seek"
  /\ AtRow(f) => f.row \in ToSet(l) /\ f.row \in Findable(f)
  /\ f.walk = "hash" =>
       /\ IsInjective(f.left) /\ ToSet(f.left) \subseteq Rows
       /\ AtRow(f) => f.row \notin ToSet(f.left)
  /\ f.walk = "index" =>
       /\ f.touched = {} /\ a \in Nodes(ix) \cup {End}
       /\ f.ask.find = "in" =>
            /\ IsInjective(f.left) /\ ToSet(f.left) \subseteq Values
            /\ AtRow(f) => vl[f.row] \notin ToSet(f.left)
       /\ f.ask.find # "in" /\ AtRow(f) => a = vl[f.row]

\* A walk has passed row q on its way to the row it is at.
Passed(f, q, l, vl, ix) ==
  \/ f.walk = "list" /\ Leads(l, q, f.row)
  \/ f.walk = "hash" /\ q # f.row /\ q \notin ToSet(f.left)
  \/ f.walk = "index" /\ vl[q] = vl[f.row] /\ Leads(ix[vl[q]], q, f.row)
  \/ f.walk = "index" /\ vl[q] # vl[f.row] /\ f.ask.find = "in" /\ vl[q] \notin ToSet(f.left)
  \/ f.walk = "index" /\ f.ask.find # "in" /\ vl[q] < vl[f.row]

\* Or on its way to the next node or key.
Left(f, q, vl, a) ==
  \/ f.walk = "hash" /\ q \notin ToSet(f.left)
  \/ f.walk = "index" /\ f.ask.find = "in" /\ vl[q] \notin ToSet(f.left)
  \/ f.walk = "index" /\ f.ask.find # "in" /\ (a = End \/ vl[q] < a)

\* The rows found are behind.
Behind(f, l, vl, ix, a) ==
  /\ f.stage \in {"poll", "match"} => \A q \in ToSet(f.found) : Passed(f, q, l, vl, ix)
  /\ f.stage = "act" => \A q \in ToSet(f.found) : q = f.row \/ Passed(f, q, l, vl, ix)
  /\ f.stage = "seek" => \A q \in ToSet(f.found) : Left(f, q, vl, a)

\* The rows that were there when the search began stay, behind those stored since.
Kept(f, l) ==
  /\ f.was.rows \subseteq ToSet(l) /\ ToSet(l) \subseteq f.was.rows \cup f.touched
  /\ \A q, r \in Rows : Leads(l, q, r) /\ q \in f.was.rows => r \in f.was.rows

\* What was found, and the transaction table.
Held(f, l) ==
  /\ IsInjective(f.found) /\ ToSet(f.found) \subseteq Findable(f)
  /\ f.phase = "walk" => Len(f.found) = f.matchCount /\ (f.mode # "none" => f.tranTable = f.found)
  /\ IsInjective(f.tranTable)
  /\ ToSet(f.tranTable) \subseteq Findable(f)
  /\ f.stage # "done" => ToSet(f.tranTable) \subseteq ToSet(l)
  /\ IsFiniteSet(f.was.rows) /\ IsFiniteSet(f.touched)
  /\ f.room = IF f.mode = "none" THEN 0 ELSE Cardinality(f.was.rows)
  /\ f.mode = "none" => f.tranTable = <<>>
  /\ f.phase = "walk" => f.offsetLimit = f.ask.offset + f.ask.limit
  /\ f.phase = "after" /\ f.stage \in {"poll", "act"} =>
       /\ f.ask.offset <= f.walkIndex /\ f.walkIndex < f.offsetLimit
       /\ f.offsetLimit <= Len(f.tranTable)
       /\ f.row \in ToSet(f.tranTable)
  /\ f.stage \in {"commit", "cursor"} =>
       f.ask.offset <= f.offsetLimit /\ f.offsetLimit <= Len(f.tranTable)

Right(f, l, vl, ix, a) ==
  /\ Stages(f) /\ Held(f, l)
  /\ f.phase = "walk" => Stands(f, l, vl, ix, a) /\ Behind(f, l, vl, ix, a) /\ Kept(f, l)

\* Of the searches that run one at most walks the index, and none within it changes it.
OneFollows ==
  \A i, j \in DOMAIN searches : i < j /\ Follows(searches[i]) =>
    ~Follows(searches[j]) /\ searches[j].ask.tran # "update"

CursorsRight ==
  \A n \in DOMAIN cursors :
    /\ ToSet(cursors[n].tranTable) \subseteq ToSet(list)
    /\ cursors[n].offsetLimit <= Len(cursors[n].tranTable)

AllRight == \A i \in DOMAIN searches : Right(searches[i], list, val, index, at)

TInv == TypeOK /\ Indexed(list, val, index) /\ OneFollows /\ CursorsRight /\ AllRight

LEMMA TInvFacts ==
  ASSUME TInv
  PROVE  /\ list \in Seq(Rows) /\ IsInjective(list) /\ ToSet(list) \subseteq Rows
         /\ val \in [Rows -> Values] /\ at \in Pointer /\ Indexed(list, val, index)
         /\ searches \in Seq(Search) /\ Len(searches) \in Nat /\ DOMAIN searches = 1 .. Len(searches)
         /\ \A i \in DOMAIN searches : searches[i] \in Search /\ Right(searches[i], list, val, index, at)
<1>1. searches \in Seq(Search) /\ list \in Seq(Rows)
  BY DEF TInv, TypeOK
<1>2. \A i \in DOMAIN searches : searches[i] \in Search
  BY <1>1
<1> QED BY <1>1, <1>2, SeqIs DEF TInv, TypeOK, AllRight

LEMMA SearchFields ==
  ASSUME NEW f \in Search
  PROVE  /\ f.ask \in Asks /\ f.walk \in {"list", "hash", "index"}
         /\ f.mode \in {"none", "provisional", "defer"} /\ f.phase \in {"walk", "after"}
         /\ f.row \in Rows \cup {NoRow} /\ f.left \in Seq(Values \cup Rows)
         /\ f.steps \in Nat /\ f.matchCount \in Nat /\ f.offsetLimit \in Nat
         /\ f.tranTable \in Seq(Rows) /\ f.room \in Nat /\ f.walkIndex \in Nat
         /\ f.was.rows \subseteq Rows /\ f.touched \subseteq Rows
         /\ f.found \in Seq(Rows) /\ f.acted \in Seq(Rows)
BY DEF Search

LEMMA AskFields ==
  ASSUME NEW o \in Asks
  PROVE  /\ o.find \in Finds /\ o.arg \in Seq(Values \cup Rows)
         /\ o.offset \in Nat /\ o.limit \in Nat /\ o.name \in Names /\ o.to \in Values
         /\ o.poll \in BOOLEAN /\ Sensible(o)
BY AsksAssumption DEF Ask

\* The list changes from l to l2: nothing, or a row of S comes to its head.
Grows(l, l2, S) ==
  /\ ToSet(l) \subseteq ToSet(l2) /\ ToSet(l2) \subseteq ToSet(l) \cup S
  /\ \A q, r : Leads(l, q, r) => Leads(l2, q, r)
  /\ \A q, r : Leads(l2, q, r) /\ q \in ToSet(l) => Leads(l, q, r)

\* A search that does not follow the index is right after a command that names the
\* rows S, and so is one that does if there is no such command.
LEMMA StaysRight ==
  ASSUME NEW f \in Search, NEW l, NEW vl, NEW ix, NEW a, NEW l2, NEW vl2, NEW ix2, NEW a2,
         NEW S, S \subseteq Rows, IsFiniteSet(S), Grows(l, l2, S), Right(f, l, vl, ix, a),
         Follows(f) => S = {} /\ vl2 = vl /\ ix2 = ix /\ a2 = a
  PROVE  /\ [f EXCEPT !.touched = @ \cup S] \in Search
         /\ Right([f EXCEPT !.touched = @ \cup S], l2, vl2, ix2, a2)
<1> DEFINE g == [f EXCEPT !.touched = @ \cup S]
<1>1. f.touched \cup S \subseteq Rows
  BY SearchFields
<1>2. g \in Search
  BY <1>1 DEF Search
<1>3. /\ g.ask = f.ask /\ g.walk = f.walk /\ g.mode = f.mode /\ g.phase = f.phase
      /\ g.stage = f.stage /\ g.row = f.row /\ g.left = f.left /\ g.matchCount = f.matchCount
      /\ g.offsetLimit = f.offsetLimit /\ g.tranTable = f.tranTable /\ g.room = f.room
      /\ g.walkIndex = f.walkIndex /\ g.was = f.was /\ g.found = f.found
      /\ g.touched = f.touched \cup S
  BY DEF Search
<1> HIDE DEF g
<1>4. ToSet(l) \subseteq ToSet(l2)
  BY DEF Grows
<1>5. Findable(f) \subseteq Findable(g)
  BY <1>3 DEF Findable
<1>6. Stages(g)
  BY <1>3 DEF Right, Stages
<1>7. IsFiniteSet(g.touched)
  <2>1. IsFiniteSet(f.touched)
    BY DEF Right, Held
  <2>2. IsFiniteSet(f.touched \cup S)
    BY <2>1, FS_Union, Zenon
  <2>3. g.touched = f.touched \cup S
    BY <1>3
  <2> QED BY <2>2, <2>3
<1>8. Held(g, l2)
  BY <1>3, <1>4, <1>5, <1>7 DEF Right, Held
<1>9. ASSUME f.phase = "walk" PROVE Kept(g, l2)
  <2>1. Kept(f, l)
    BY <1>9 DEF Right
  <2> QED BY <1>3, <2>1 DEF Kept, Grows
<1>10. ASSUME f.phase = "walk" PROVE Stands(g, l2, vl2, ix2, a2)
  <2>1. Stands(f, l, vl, ix, a)
    BY <1>10 DEF Right
  <2>2. AtRow(g) <=> AtRow(f)
    BY <1>3 DEF AtRow
  <2>3. CASE f.walk = "index"
    <3>1. S = {} /\ vl2 = vl /\ ix2 = ix /\ a2 = a
      BY <1>10, <2>3 DEF Follows
    <3>2. g.touched = f.touched
      BY <1>3, <3>1
    <3> QED BY <1>3, <1>4, <1>5, <2>1, <2>2, <2>3, <3>1, <3>2 DEF Stands
  <2>4. CASE f.walk # "index"
    BY <1>3, <1>4, <1>5, <2>1, <2>2, <2>4 DEF Stands
  <2> QED BY <2>3, <2>4
<1>11. ASSUME f.phase = "walk" PROVE Behind(g, l2, vl2, ix2, a2)
  <2>1. Behind(f, l, vl, ix, a)
    BY <1>11 DEF Right
  <2>2. \A q : Passed(f, q, l, vl, ix) => Passed(g, q, l2, vl2, ix2)
    <3>1. CASE f.walk = "index"
      BY <1>3, <1>11, <3>1 DEF Passed, Follows
    <3>2. CASE f.walk # "index"
      BY <1>3, <3>2 DEF Passed, Grows
    <3> QED BY <3>1, <3>2
  <2>3. \A q : Left(f, q, vl, a) => Left(g, q, vl2, a2)
    <3>1. CASE f.walk = "index"
      BY <1>3, <1>11, <3>1 DEF Left, Follows
    <3>2. CASE f.walk # "index"
      BY <1>3, <3>2 DEF Left
    <3> QED BY <3>1, <3>2
  <2> QED BY <1>3, <2>1, <2>2, <2>3 DEF Behind
<1> QED BY <1>2, <1>3, <1>6, <1>8, <1>9, <1>10, <1>11 DEF Right, g

LEMMA GrowsNot == ASSUME NEW l, NEW S PROVE Grows(l, l, S)
BY DEF Grows

LEMMA GrowsByOne ==
  ASSUME NEW r \in Rows, NEW l \in Seq(Rows), r \notin ToSet(l)
  PROVE  Grows(l, <<r>> \o l, {r})
<1> DEFINE l2 == <<r>> \o l
<1>1. /\ ToSet(l2) = ToSet(l) \cup {r}
      /\ \A p, q : Leads(l, p, q) => Leads(l2, p, q)
      /\ \A p, q : Leads(l2, p, q) /\ p \in ToSet(l) => Leads(l, p, q)
  BY PutIs
<1> QED BY <1>1 DEF Grows

-----------------------------------------------------------------------------
(* The steps of the innermost search.                                      *)

LEMMA TopIs ==
  ASSUME TInv, searches # <<>>
  PROVE  /\ Len(searches) \in DOMAIN searches /\ Top = searches[Len(searches)]
         /\ Top \in Search /\ Right(Top, list, val, index, at)
<1>1. Len(searches) \in DOMAIN searches
  BY TInvFacts
<1> QED BY <1>1, TInvFacts DEF Top

LEMMA FollowersAre ==
  ASSUME TInv, searches # <<>>
  PROVE  \A i \in DOMAIN searches \ {Len(searches)} :
           Follows(searches[i]) => ~Follows(Top) /\ Top.ask.tran # "update"
<1>1. \A i \in DOMAIN searches \ {Len(searches)} : i < Len(searches)
  BY TInvFacts
<1> QED BY <1>1, TopIs DEF TInv, OneFollows

\* The innermost search goes on as g.
LEMMA TopGoesOn ==
  ASSUME TInv, searches # <<>>, NEW g \in Search, searches' = Now(g),
         UNCHANGED <<share, list, val, index, cursors, published, cursorLock>>,
         at' \in Pointer, at' = at \/ Follows(Top),
         g.ask = Top.ask, Follows(g) => Follows(Top),
         Right(g, list, val, index, at')
  PROVE  TInv'
<1> DEFINE n == Len(searches)
<1>1. n \in DOMAIN searches /\ Top = searches[n] /\ DOMAIN searches = 1 .. n /\ n \in Nat
  BY TopIs, TInvFacts
<1>2. /\ searches' \in Seq(Search) /\ DOMAIN searches' = DOMAIN searches
      /\ searches'[n] = g /\ \A i \in DOMAIN searches \ {n} : searches'[i] = searches[i]
  BY <1>1, TInvFacts DEF Now
<1> HIDE DEF n
<1>3. TypeOK'
  BY <1>2 DEF TInv, TypeOK
<1>4. Indexed(list, val, index)' /\ CursorsRight'
  BY DEF TInv, Indexed, CursorsRight
<1>5. OneFollows'
  <2>1. \A i \in DOMAIN searches : /\ Follows(searches'[i]) => Follows(searches[i])
                                   /\ searches'[i].ask = searches[i].ask
    BY <1>1, <1>2
  <2> QED BY <1>2, <2>1 DEF TInv, OneFollows
<1>6. ASSUME NEW i \in DOMAIN searches
      PROVE  Right(searches'[i], list, val, index, at')
  <2>1. CASE i = n
    BY <1>2, <2>1
  <2>2. CASE i # n
    <3>1. searches[i] \in Search /\ Right(searches[i], list, val, index, at) /\ searches'[i] = searches[i]
      BY <1>2, <2>2, TInvFacts
    <3>2. Follows(searches[i]) => at' = at
      BY <2>2, FollowersAre DEF n
    <3>3. Grows(list, list, {}) /\ IsFiniteSet({})
      BY GrowsNot, FS_EmptySet
    <3> DEFINE f == searches[i]
    <3> HIDE DEF f
    <3>4. Right([f EXCEPT !.touched = @ \cup {}], list, val, index, at')
      BY <3>1, <3>2, <3>3, StaysRight DEF f
    <3>5. [f EXCEPT !.touched = @ \cup {}] = f
      BY <3>1 DEF f, Search
    <3> QED BY <3>1, <3>4, <3>5 DEF f
  <2> QED BY <2>1, <2>2
<1>7. AllRight'
  BY <1>2, <1>6 DEF AllRight
<1> QED BY <1>3, <1>4, <1>5, <1>7 DEF TInv

\* f and h have found the same rows.
Agree(f, h) ==
  /\ h.ask = f.ask /\ h.walk = f.walk /\ h.mode = f.mode /\ h.phase = f.phase
  /\ h.matchCount = f.matchCount /\ h.offsetLimit = f.offsetLimit /\ h.tranTable = f.tranTable
  /\ h.room = f.room /\ h.was = f.was /\ h.found = f.found /\ h.touched = f.touched

\* The walk of the innermost search goes on from f to h.
LEMMA WalkGoesOn ==
  ASSUME TInv, searches # <<>>, Same, NEW f, NEW h \in Search, Agree(f, h), searches' = Now(h),
         f.ask = Top.ask, f.walk = Top.walk, f.phase = "walk", Top.phase = "walk",
         Held(f, list), f.stage # "done", Kept(f, list),
         h.stage \in {"seek", "poll", "match", "act", "post", "done"},
         at' = at \/ (at' \in Pointer /\ f.walk = "index"),
         Stands(h, list, val, index, at'), Behind(h, list, val, index, at')
  PROVE  TInv'
<1>1. UNCHANGED <<share, list, val, index, cursors, published, cursorLock>>
  BY DEF Same, table, locks
<1>2. /\ h.ask = f.ask /\ h.walk = f.walk /\ h.mode = f.mode /\ h.phase = f.phase
      /\ h.matchCount = f.matchCount /\ h.offsetLimit = f.offsetLimit /\ h.tranTable = f.tranTable
      /\ h.room = f.room /\ h.was = f.was /\ h.found = f.found /\ h.touched = f.touched
  BY DEF Agree
<1>3. Stages(h)
  BY <1>2 DEF Stages
<1>4. Held(h, list)
  BY <1>2 DEF Held, Findable
<1>5. Kept(h, list)
  BY <1>2 DEF Kept
<1>6. Right(h, list, val, index, at')
  BY <1>3, <1>4, <1>5 DEF Right
<1>7. at' \in Pointer /\ (at' = at \/ Follows(Top)) /\ (Follows(h) => Follows(Top))
  BY <1>2, TInvFacts DEF Follows
<1> QED BY <1>1, <1>2, <1>6, <1>7, TopGoesOn

\* On from the row of f, to the next in the list, in the node or to the next node.
LEMMA GoOnRight ==
  ASSUME TInv, searches # <<>>, Same, NEW f \in Search,
         f.ask = Top.ask, f.walk = Top.walk, f.phase = "walk", Top.phase = "walk",
         AtRow(f), Held(f, list), Kept(f, list), Stands(f, list, val, index, at),
         \A q \in ToSet(f.found) : q = f.row \/ Passed(f, q, list, val, index),
         GoOn(f)
  PROVE  TInv'
<1> DEFINE next == CASE f.walk = "list"  -> After(list, f.row)
                     [] f.walk = "index" -> After(index[val[f.row]], f.row)
                     [] f.walk = "hash"  -> NoRow
           st == IF next # NoRow THEN Arrive(f.ask) ELSE IF f.walk = "list" THEN "post" ELSE "seek"
           h == [f EXCEPT !.row = next, !.stage = st]
           N == {v \in Nodes(index) : v > at}
<1>1. /\ searches' = Now(h)
      /\ at' = IF next = NoRow /\ f.walk = "index" /\ f.ask.find # "in" THEN First(N) ELSE at
  BY DEF GoOn
<1>2. /\ f.walk \in {"list", "hash", "index"} /\ f.row \in ToSet(list) /\ f.row \in Rows
      /\ f.row \in Findable(f) /\ ToSet(f.found) \subseteq Rows /\ f.stage # "done"
      /\ f.found \in Seq(Rows) /\ f.ask \in Asks /\ f.left \in Seq(Values \cup Rows)
  BY TInvFacts, SearchFields, SeqIs DEF Stands, AtRow
<1>3. /\ list \in Seq(Rows) /\ IsInjective(list) /\ ToSet(list) \subseteq Rows
      /\ val \in [Rows -> Values] /\ at \in Pointer /\ Indexed(list, val, index)
  BY TInvFacts
<1>4. /\ val[f.row] \in Values /\ index[val[f.row]] \in Seq(Rows) /\ IsInjective(index[val[f.row]])
      /\ ToSet(index[val[f.row]]) = {r \in ToSet(list) : val[r] = val[f.row]}
  BY <1>2, <1>3 DEF Indexed
<1>5. next \in Rows \cup {NoRow}
  BY <1>2, <1>3, <1>4, AfterIs
<1>6. st \in {"poll", "match", "post", "seek"} /\ (next # NoRow => st \in {"poll", "match"})
      /\ (next = NoRow => st \in {"post", "seek"} /\ (st = "seek" <=> f.walk # "list"))
  BY DEF Arrive
<1> HIDE DEF st
<1>7. h \in Search
  BY <1>5, <1>6 DEF Search
<1>8. /\ h.row = next /\ h.stage = st /\ h.left = f.left /\ h.ask = f.ask /\ h.walk = f.walk
      /\ h.was = f.was /\ h.touched = f.touched /\ h.found = f.found /\ Agree(f, h)
  BY DEF Search, Agree
<1> HIDE DEF h
<1>9. AtRow(h) <=> next # NoRow
  BY <1>6, <1>8 DEF AtRow
<1>10. Findable(h) = Findable(f)
  BY <1>8 DEF Findable
<1>11. NoRow \notin Rows
  BY DataAssumption
<1>12. CASE f.walk = "list"
  <2>1. next = After(list, f.row) /\ at' = at
    BY <1>1, <1>12
  <2> HIDE DEF next
  <2>2. next # NoRow => next \in ToSet(list) /\ next \in Rows /\ Leads(list, f.row, next)
    BY <1>3, <2>1, AfterIs
  <2>3. next # NoRow => next \in f.was.rows
    BY <1>2, <1>12, <2>2 DEF Kept, Findable
  <2>4. Stands(h, list, val, index, at')
    BY <1>6, <1>8, <1>9, <1>12, <2>2, <2>3 DEF Stands, Findable
  <2>5. ASSUME NEW q \in ToSet(f.found), next # NoRow PROVE Passed(h, q, list, val, index)
    <3>1. q = f.row \/ Leads(list, q, f.row)
      BY <1>12, <2>5 DEF Passed
    <3>2. Leads(list, q, next)
      BY <1>3, <2>2, <2>5, <3>1, LeadsOn
    <3> QED BY <1>8, <1>12, <3>2 DEF Passed
  <2>6. Behind(h, list, val, index, at')
    BY <1>6, <1>8, <1>12, <2>5 DEF Behind
  <2> QED BY <1>1, <1>2, <1>6, <1>7, <1>8, <2>1, <2>4, <2>6, WalkGoesOn
<1>13. CASE f.walk = "hash"
  <2>1. next = NoRow /\ at' = at
    BY <1>1, <1>13
  <2> HIDE DEF next
  <2>2. Stands(h, list, val, index, at')
    BY <1>6, <1>8, <1>9, <1>13, <2>1 DEF Stands
  <2>3. \A q \in ToSet(f.found) : q \notin ToSet(f.left)
    BY <1>13 DEF Passed, Stands
  <2>4. Behind(h, list, val, index, at')
    BY <1>6, <1>8, <1>13, <2>1, <2>3 DEF Behind, Left
  <2> QED BY <1>1, <1>2, <1>6, <1>7, <1>8, <2>1, <2>2, <2>4, WalkGoesOn
<1>14. CASE f.walk = "index"
  <2> DEFINE node == index[val[f.row]]
  <2>1. next = After(node, f.row)
    BY <1>14
  <2> HIDE DEF next
  <2>2. /\ f.touched = {} /\ at \in Nodes(index) \cup {End}
        /\ f.ask.find = "in" =>
             /\ IsInjective(f.left) /\ ToSet(f.left) \subseteq Values
             /\ val[f.row] \notin ToSet(f.left)
        /\ f.ask.find # "in" => at = val[f.row]
    BY <1>14 DEF Stands
  <2>3. CASE next # NoRow
    <3>1. next \in ToSet(node) /\ next \in Rows /\ Leads(node, f.row, next) /\ at' = at
      BY <1>1, <1>4, <2>1, <2>3, AfterIs
    <3>2. next \in ToSet(list) /\ val[next] = val[f.row]
      BY <1>4, <3>1
    <3>3. next \in f.was.rows
      BY <2>2, <3>2 DEF Kept
    <3>4. Stands(h, list, val, index, at')
      BY <1>6, <1>8, <1>14, <2>2, <2>3, <3>1, <3>2, <3>3 DEF Stands, Findable
    <3>5. ASSUME NEW q \in ToSet(f.found) PROVE Passed(h, q, list, val, index)
      <4>1. CASE q = f.row
        BY <1>8, <1>14, <3>1, <3>2, <4>1 DEF Passed
      <4>2. CASE val[q] = val[f.row] /\ Leads(index[val[q]], q, f.row)
        <5>1. Leads(node, q, next)
          BY <1>4, <3>1, <4>2, LeadsOn
        <5> QED BY <1>8, <1>14, <3>2, <4>2, <5>1 DEF Passed
      <4>3. CASE val[q] # val[f.row] /\ f.ask.find = "in" /\ val[q] \notin ToSet(f.left)
        BY <1>8, <1>14, <3>2, <4>3 DEF Passed
      <4>4. CASE f.ask.find # "in" /\ val[q] < val[f.row]
        BY <1>8, <1>14, <3>2, <4>4 DEF Passed
      <4> QED BY <1>14, <4>1, <4>2, <4>3, <4>4 DEF Passed
    <3>6. Behind(h, list, val, index, at')
      BY <1>6, <1>8, <2>3, <3>5 DEF Behind
    <3> QED BY <1>1, <1>2, <1>6, <1>7, <1>8, <3>1, <3>4, <3>6, WalkGoesOn
  <2>4. CASE next = NoRow
    <3>1. st = "seek"
      BY <1>6, <1>14, <2>4
    <3>2. at' = IF f.ask.find # "in" THEN First(N) ELSE at
      BY <1>1, <1>14, <2>4
    <3>3. N \subseteq Values /\ at' \in Pointer /\ at' \in Nodes(index) \cup {End}
      <4>1. N \subseteq Values
        BY <1>3, NodesAre
      <4> QED BY <1>3, <2>2, <3>2, <4>1, FirstIs
    <3>4. Stands(h, list, val, index, at')
      BY <1>8, <1>9, <1>14, <2>2, <2>4, <3>1, <3>3 DEF Stands
    <3>5. ASSUME NEW q \in ToSet(f.found) PROVE Left(h, q, val, at')
      <4>1. q \in Rows /\ val[q] \in Nat
        BY <1>2, <1>3, DataAssumption
      <4>5. val[f.row] \in Nat
        BY <1>4, DataAssumption
      <4>2. CASE f.ask.find = "in"
        <5>1. val[q] \notin ToSet(f.left)
          BY <1>14, <2>2, <4>2 DEF Passed
        <5> QED BY <1>8, <1>14, <4>2, <5>1 DEF Left
      <4>3. CASE f.ask.find # "in"
        <5>1. val[q] <= val[f.row] /\ val[f.row] = at
          BY <1>14, <2>2, <4>1, <4>5, <4>3 DEF Passed
        <5>2. at' = End \/ at' > at
          BY <3>2, <3>3, <4>3, FirstIs
        <5>3. at' = End \/ val[q] < at'
          <6>1. at' \in Nat
            BY <3>3, DataAssumption DEF Pointer, End
          <6> QED BY <4>1, <4>5, <5>1, <5>2, <6>1
        <5> QED BY <1>8, <1>14, <4>3, <5>3 DEF Left
      <4> QED BY <4>2, <4>3
    <3>6. Behind(h, list, val, index, at')
      BY <1>8, <3>1, <3>5 DEF Behind
    <3> QED BY <1>1, <1>2, <1>6, <1>7, <1>8, <1>14, <3>3, <3>4, <3>6, WalkGoesOn
  <2> QED BY <2>3, <2>4
<1> QED BY <1>2, <1>12, <1>13, <1>14

\* A walk that is over stands nowhere.
LEMMA WalkEnds ==
  ASSUME NEW f, NEW h, NEW l, NEW vl, NEW ix, NEW a, Agree(f, h), h.left = f.left,
         h.stage \in {"post", "done"}, Stands(f, l, vl, ix, a)
  PROVE  Stands(h, l, vl, ix, a) /\ Behind(h, l, vl, ix, a)
<1>1. ~AtRow(h) /\ h.stage # "seek"
  BY DEF AtRow
<1> QED BY <1>1 DEF Agree, Stands, Behind, AtRow

LEMMA OverRight ==
  ASSUME TInv, searches # <<>>, Same, NEW f \in Search,
         f.ask = Top.ask, f.walk = Top.walk, f.phase = "walk", Top.phase = "walk",
         Held(f, list), f.stage # "done", Kept(f, list), Stands(f, list, val, index, at), Over(f)
  PROVE  TInv'
<1> DEFINE h == [f EXCEPT !.stage = "post"]
<1>1. searches' = Now(h) /\ at' = at
  BY DEF Over
<1>2. h \in Search /\ Agree(f, h) /\ h.left = f.left /\ h.stage = "post"
  BY DEF Search, Agree
<1> HIDE DEF h
<1>3. Stands(h, list, val, index, at) /\ Behind(h, list, val, index, at)
  BY <1>2, WalkEnds
<1> QED BY <1>1, <1>2, <1>3, WalkGoesOn

LEMMA FailRight ==
  ASSUME TInv, searches # <<>>, Same, NEW f \in Search, NEW how \in {"error", "endless"},
         f.ask = Top.ask, f.walk = Top.walk, f.phase = "walk", Top.phase = "walk",
         Held(f, list), f.stage # "done", Kept(f, list), Stands(f, list, val, index, at), Fail(f, how)
  PROVE  TInv'
<1> DEFINE h == [f EXCEPT !.stage = "done", !.result = how]
<1>1. searches' = Now(h) /\ at' = at
  BY DEF Fail
<1>2. h \in Search /\ Agree(f, h) /\ h.left = f.left /\ h.stage = "done"
  BY DEF Search, Agree
<1> HIDE DEF h
<1>3. Stands(h, list, val, index, at) /\ Behind(h, list, val, index, at)
  BY <1>2, WalkEnds
<1> QED BY <1>1, <1>2, <1>3, WalkGoesOn

\* What is known of the innermost search while it walks.
LEMMA TopWalks ==
  ASSUME TInv, searches # <<>>, Top.phase = "walk"
  PROVE  /\ Top \in Search /\ Stages(Top) /\ Held(Top, list) /\ Kept(Top, list)
         /\ Stands(Top, list, val, index, at) /\ Behind(Top, list, val, index, at)
BY TopIs DEF Right

LEMMA SeekWalks ==
  ASSUME TInv, searches # <<>>, Top.stage \in {"seek", "match", "post"}
  PROVE  Top.phase = "walk"
BY TopIs, SearchFields DEF Right, Stages

LEMMA ComesTo ==
  ASSUME NEW f \in Search, NEW r \in Rows
  PROVE  /\ ComeTo(f, r) \in Search /\ Agree(f, ComeTo(f, r))
         /\ ComeTo(f, r).row = r /\ ComeTo(f, r).stage \in {"poll", "match"}
         /\ ComeTo(f, r).left = f.left
<1>1. Arrive(f.ask) \in {"poll", "match"} /\ f.steps + 1 \in Nat
  BY SearchFields DEF Arrive
<1> DEFINE s == Arrive(f.ask)
           k == f.steps + 1
           h == [f EXCEPT !.row = r, !.stage = s, !.steps = k]
<1>2. ComeTo(f, r) = h
  BY DEF ComeTo
<1> HIDE DEF s, k
<1>3. s \in {"poll", "match"} /\ k \in Nat
  BY <1>1 DEF s, k
<1>4. h \in Search /\ Agree(f, h) /\ h.row = r /\ h.stage = s /\ h.left = f.left
  BY <1>3 DEF Search, Agree
<1> QED BY <1>2, <1>3, <1>4

LEMMA SeekKeyRight ==
  ASSUME TInv, SeekKey
  PROVE  TInv'
<1> DEFINE f == Top
           g == [f EXCEPT !.left = Tail(@)]
<1>1. searches # <<>> /\ f.stage = "seek" /\ f.walk = "hash" /\ Same
  BY DEF SeekKey, AtStage
<1>2. /\ f.phase = "walk" /\ f \in Search /\ Held(f, list) /\ Kept(f, list)
      /\ Stands(f, list, val, index, at) /\ Behind(f, list, val, index, at)
  BY <1>1, SeekWalks, TopWalks
<1>3. CASE f.left = <<>>
  <2>1. Over(f)
    BY <1>3 DEF SeekKey
  <2> QED BY <1>1, <1>2, <2>1, OverRight
<1>4. CASE f.left # <<>>
  <2> DEFINE r == Head(f.left)
             t == Tail(f.left)
  <2>1. f.left \in Seq(Values \cup Rows) /\ IsInjective(f.left) /\ ToSet(f.left) \subseteq Rows
    BY <1>1, <1>2, SearchFields DEF Stands
  <2>2. /\ t \in Seq(Values \cup Rows) /\ ToSet(t) \subseteq ToSet(f.left) /\ IsInjective(t)
        /\ r \notin ToSet(t) /\ r \in Rows /\ r \in ToSet(f.left)
    BY <1>4, <2>1, TailIs, HeadIs
  <2>3. searches' = Now(IF InTable(r) THEN ComeTo(g, r) ELSE g) /\ at' = at
    BY <1>4 DEF SeekKey
  <2> HIDE DEF r, t
  <2>4. g \in Search /\ Agree(f, g) /\ g.left = t /\ g.stage = "seek"
    BY <1>1, <1>2, <2>2 DEF Search, Agree, t
  <2> HIDE DEF f, g
  <2>5. g.walk = "hash" /\ g.found = f.found /\ g.was = f.was /\ g.touched = f.touched /\ g.ask = f.ask
    BY <1>1, <2>4 DEF Agree
  <2>6. \A q \in ToSet(f.found) : q \notin ToSet(f.left)
    BY <1>1, <1>2 DEF Behind, Left
  <2>7. CASE InTable(r)
    <3> DEFINE h == ComeTo(g, r)
    <3>1. /\ h \in Search /\ Agree(g, h) /\ h.row = r /\ h.stage \in {"poll", "match"}
          /\ h.left = t
      BY <2>2, <2>4, ComesTo
    <3>2. searches' = Now(h)
      BY <2>3, <2>7
    <3> HIDE DEF h
    <3>3. Agree(f, h)
      BY <2>4, <3>1 DEF Agree
    <3>4. r \in ToSet(list)
      BY <2>7, TInvFacts, SeqIs DEF InTable
    <3>5. /\ h.walk = "hash" /\ h.found = f.found /\ h.was = f.was /\ h.touched = f.touched
      BY <2>5, <3>1 DEF Agree
    <3>6. Stands(h, list, val, index, at')
      BY <1>2, <2>1, <2>2, <3>1, <3>4, <3>5 DEF Stands, Kept, Findable
    <3>7. Behind(h, list, val, index, at')
      BY <2>2, <2>6, <3>1, <3>5 DEF Behind, Passed
    <3> QED BY <1>1, <1>2, <2>3, <3>1, <3>2, <3>3, <3>6, <3>7, WalkGoesOn DEF f
  <2>8. CASE ~InTable(r)
    <3>1. searches' = Now(g)
      BY <2>3, <2>8
    <3>2. Stands(g, list, val, index, at')
      BY <2>1, <2>2, <2>4, <2>5 DEF Stands, AtRow
    <3>3. Behind(g, list, val, index, at')
      BY <2>2, <2>4, <2>5, <2>6 DEF Behind, Left
    <3> QED BY <1>1, <1>2, <2>3, <2>4, <3>1, <3>2, <3>3, WalkGoesOn DEF f
  <2> QED BY <2>7, <2>8
<1> QED BY <1>3, <1>4

\* A node has rows, and they have its value.
LEMMA NodeIs ==
  ASSUME NEW l, NEW vl, NEW ix, Indexed(l, vl, ix), NEW v \in Nodes(ix)
  PROVE  v \in Values /\ Head(ix[v]) \in ToSet(l) /\ Head(ix[v]) \in Rows /\ vl[Head(ix[v])] = v
<1>1. v \in Values /\ ix[v] \in Seq(Rows) /\ ix[v] # <<>> /\ ToSet(ix[v]) = {r \in ToSet(l) : vl[r] = v}
  BY DEF Nodes, Indexed
<1> DEFINE s == ix[v]
<1> HIDE DEF s
<1>2. Head(s) \in ToSet(s) /\ Head(s) \in Rows
  BY <1>1, HeadIs DEF s
<1> QED BY <1>1, <1>2 DEF s

LEMMA SeekNodeRight ==
  ASSUME TInv, SeekNode
  PROVE  TInv'
<1> DEFINE f == Top
           g == [f EXCEPT !.left = Tail(@)]
<1>1. searches # <<>> /\ f.stage = "seek" /\ f.walk = "index" /\ Same
  BY DEF SeekNode, AtStage
<1>2. /\ f.phase = "walk" /\ f \in Search /\ Held(f, list) /\ Kept(f, list)
      /\ Stands(f, list, val, index, at) /\ Behind(f, list, val, index, at)
  BY <1>1, SeekWalks, TopWalks
<1>3. /\ f.touched = {} /\ at \in Nodes(index) \cup {End}
      /\ f.ask.find = "in" => IsInjective(f.left) /\ ToSet(f.left) \subseteq Values
  BY <1>1, <1>2 DEF Stands
<1>4. /\ list \in Seq(Rows) /\ ToSet(list) \subseteq Rows /\ val \in [Rows -> Values]
      /\ at \in Pointer /\ Indexed(list, val, index) /\ Nodes(index) \subseteq Values
  BY TInvFacts, NodesAre
<1>5. ToSet(list) \subseteq f.was.rows
  BY <1>2, <1>3 DEF Kept
<1>6. \A q \in ToSet(f.found) :
        /\ f.ask.find = "in" => val[q] \notin ToSet(f.left)
        /\ f.ask.find # "in" => at = End \/ val[q] < at
  BY <1>1, <1>2 DEF Behind, Left
<1>7. CASE f.steps > Len(list)
  <2>1. Fail(f, "endless")
    BY <1>7 DEF SeekNode
  <2> QED BY <1>1, <1>2, <2>1, FailRight
<1>8. CASE ~(f.steps > Len(list)) /\ f.ask.find = "in" /\ f.left = <<>>
  <2>1. Over(f)
    BY <1>8 DEF SeekNode
  <2> QED BY <1>1, <1>2, <2>1, OverRight
<1>9. CASE ~(f.steps > Len(list)) /\ f.ask.find = "in" /\ f.left # <<>>
  <2> DEFINE v == Head(f.left)
             t == Tail(f.left)
             N == {w \in Nodes(index) : w >= v}
  <2>1. f.left \in Seq(Values \cup Rows)
    BY <1>2, SearchFields
  <2>2. /\ t \in Seq(Values \cup Rows) /\ ToSet(t) \subseteq ToSet(f.left) /\ IsInjective(t)
        /\ v \notin ToSet(t) /\ v \in Values /\ v \in ToSet(f.left)
    BY <1>3, <1>9, <2>1, TailIs, HeadIs
  <2>3. /\ searches' = Now(IF v \in Nodes(index) THEN ComeTo(g, Head(index[v])) ELSE g)
        /\ at' = First(N)
    BY <1>9 DEF SeekNode
  <2>4. at' \in Pointer /\ at' \in Nodes(index) \cup {End}
    <3>1. N \subseteq Values
      BY <1>4
    <3> QED BY <2>3, <3>1, FirstIs
  <2> HIDE DEF v, t
  <2>5. g \in Search /\ Agree(f, g) /\ g.left = t /\ g.stage = "seek"
    BY <1>1, <1>2, <2>2 DEF Search, Agree, t
  <2> HIDE DEF f, g, N
  <2>6. g.walk = "index" /\ g.found = f.found /\ g.was = f.was /\ g.touched = {} /\ g.ask = f.ask
    BY <1>1, <1>3, <2>5 DEF Agree
  <2>7. CASE v \in Nodes(index)
    <3> DEFINE r == Head(index[v])
               h == ComeTo(g, r)
    <3>1. r \in ToSet(list) /\ r \in Rows /\ val[r] = v
      BY <1>4, <2>7, NodeIs
    <3>2. searches' = Now(h)
      BY <2>3, <2>7
    <3> HIDE DEF r
    <3>3. /\ h \in Search /\ Agree(g, h) /\ h.row = r /\ h.stage \in {"poll", "match"}
          /\ h.left = t
      BY <2>5, <3>1, ComesTo
    <3> HIDE DEF h
    <3>4. Agree(f, h)
      BY <2>5, <3>3 DEF Agree
    <3>5. /\ h.walk = "index" /\ h.found = f.found /\ h.was = f.was /\ h.touched = {}
          /\ h.ask = f.ask
      BY <2>6, <3>3 DEF Agree
    <3>6. Stands(h, list, val, index, at')
      BY <1>3, <1>5, <1>9, <2>2, <2>4, <3>1, <3>3, <3>5 DEF Stands, Findable
    <3>7. ASSUME NEW q \in ToSet(f.found) PROVE Passed(h, q, list, val, index)
      <4>1. val[q] \notin ToSet(f.left) /\ val[q] # v /\ val[q] \notin ToSet(t)
        BY <1>6, <1>9, <2>2
      <4> QED BY <1>9, <3>1, <3>3, <3>5, <4>1 DEF Passed
    <3>8. Behind(h, list, val, index, at')
      BY <3>3, <3>5, <3>7 DEF Behind
    <3> QED BY <1>1, <1>2, <2>4, <3>2, <3>3, <3>4, <3>6, <3>8, WalkGoesOn DEF f
  <2>8. CASE v \notin Nodes(index)
    <3>1. searches' = Now(g)
      BY <2>3, <2>8
    <3>2. Stands(g, list, val, index, at')
      BY <1>3, <1>9, <2>2, <2>4, <2>5, <2>6 DEF Stands, AtRow
    <3>3. Behind(g, list, val, index, at')
      BY <1>6, <1>9, <2>2, <2>5, <2>6 DEF Behind, Left
    <3> QED BY <1>1, <1>2, <2>4, <2>5, <3>1, <3>2, <3>3, WalkGoesOn DEF f
  <2> QED BY <2>7, <2>8
<1>10. CASE ~(f.steps > Len(list)) /\ f.ask.find # "in" /\ (at = End \/ Beyond(f.ask, at))
  <2>1. Over(f)
    BY <1>10 DEF SeekNode
  <2> QED BY <1>1, <1>2, <2>1, OverRight
<1>11. CASE ~(f.steps > Len(list)) /\ f.ask.find # "in" /\ ~(at = End \/ Beyond(f.ask, at))
  <2> DEFINE r == Head(index[at])
             h == ComeTo(f, r)
  <2>1. at \in Nodes(index)
    BY <1>3, <1>11
  <2>2. searches' = Now(h) /\ at' = at
    BY <1>11 DEF SeekNode
  <2>3. r \in ToSet(list) /\ r \in Rows /\ val[r] = at
    BY <1>4, <2>1, NodeIs
  <2> HIDE DEF r
  <2>4. /\ h \in Search /\ Agree(f, h) /\ h.row = r /\ h.stage \in {"poll", "match"}
        /\ h.left = f.left
    BY <1>2, <2>3, ComesTo
  <2> HIDE DEF h
  <2>5. /\ h.walk = "index" /\ h.found = f.found /\ h.was = f.was /\ h.touched = {}
        /\ h.ask = f.ask
    BY <1>1, <1>3, <2>4 DEF Agree
  <2>6. Stands(h, list, val, index, at)
    BY <1>3, <1>5, <1>11, <2>3, <2>4, <2>5 DEF Stands, Findable
  <2>7. ASSUME NEW q \in ToSet(f.found) PROVE Passed(h, q, list, val, index)
    <3>1. val[q] < at
      BY <1>6, <1>11
    <3> QED BY <1>11, <2>3, <2>4, <2>5, <3>1 DEF Passed
  <2>8. Behind(h, list, val, index, at)
    BY <2>4, <2>5, <2>7 DEF Behind
  <2> QED BY <1>1, <1>2, <2>2, <2>4, <2>6, <2>8, WalkGoesOn
<1> QED BY <1>7, <1>8, <1>9, <1>10, <1>11

\* The script of -poll_code returns.
LEMMA PolledRight ==
  ASSUME TInv, Polled
  PROVE  TInv'
<1> DEFINE f == Top
           st == IF f.phase = "walk" THEN "match" ELSE "act"
           h == [f EXCEPT !.stage = st]
<1>1. searches # <<>> /\ f.stage = "poll" /\ Same /\ searches' = Now(h) /\ at' = at
  BY DEF Polled, AtStage
<1>2. f \in Search /\ Right(f, list, val, index, at)
  BY <1>1, TopIs
<1>3. st \in {"match", "act"}
  OBVIOUS
<1> HIDE DEF st
<1>4. h \in Search /\ Agree(f, h) /\ h.left = f.left /\ h.stage = st /\ h.row = f.row /\ h.walkIndex = f.walkIndex
  BY <1>2, <1>3 DEF Search, Agree
<1> HIDE DEF h
<1>5. CASE f.phase = "walk"
  <2>1. /\ Held(f, list) /\ Kept(f, list)
        /\ Stands(f, list, val, index, at) /\ Behind(f, list, val, index, at)
    BY <1>2, <1>5 DEF Right
  <2>2. st = "match"
    BY <1>5 DEF st
  <2>3. Stands(h, list, val, index, at)
    BY <1>1, <1>4, <2>1, <2>2 DEF Stands, Agree, AtRow, Findable
  <2>4. Behind(h, list, val, index, at)
    BY <1>1, <1>4, <2>1, <2>2 DEF Behind, Agree, Passed
  <2> QED BY <1>1, <1>4, <1>5, <2>1, <2>2, <2>3, <2>4, WalkGoesOn
<1>6. CASE f.phase = "after"
  <2>1. st = "act" /\ h.phase = "after"
    BY <1>4, <1>6 DEF st, Agree
  <2>2. Held(h, list)
    BY <1>1, <1>2, <1>4, <1>6, <2>1 DEF Right, Held, Agree, Findable
  <2>3. Right(h, list, val, index, at)
    BY <1>4, <2>1, <2>2 DEF Right, Stages
  <2>4. ~Follows(h) /\ h.ask = f.ask
    BY <1>4, <2>1 DEF Follows, Agree
  <2>5. UNCHANGED <<share, list, val, index, cursors, published, cursorLock>> /\ at' \in Pointer
    BY <1>1, TInvFacts DEF Same, table, locks
  <2> QED BY <1>1, <1>4, <2>3, <2>4, <2>5, TopGoesOn
<1> QED BY <1>2, <1>5, <1>6, SearchFields

LEMMA AppendIs ==
  ASSUME NEW A, NEW s \in Seq(A), NEW x \in A
  PROVE  /\ Append(s, x) \in Seq(A) /\ Len(Append(s, x)) = Len(s) + 1
         /\ ToSet(Append(s, x)) = ToSet(s) \cup {x}
         /\ IsInjective(s) /\ x \notin ToSet(s) => IsInjective(Append(s, x))
<1> DEFINE n == Len(s)
           t == Append(s, x)
<1>1. /\ n \in Nat /\ DOMAIN s = 1 .. n /\ t \in Seq(A) /\ Len(t) = n + 1 /\ DOMAIN t = 1 .. n + 1
      /\ t[n + 1] = x /\ \A i \in 1 .. n : t[i] = s[i]
  OBVIOUS
<1> HIDE DEF n, t
<1>2. \A i \in DOMAIN t : i = n + 1 \/ (i # n + 1 /\ i \in DOMAIN s /\ t[i] = s[i])
  BY <1>1
<1>3. n + 1 \in DOMAIN t /\ \A i \in DOMAIN s : i \in DOMAIN t /\ t[i] = s[i]
  BY <1>1
<1>4. ToSet(t) = ToSet(s) \cup {x}
  BY <1>1, <1>2, <1>3, ToSetIs
<1>5. ASSUME IsInjective(s), x \notin ToSet(s) PROVE IsInjective(t)
  <2>1. \A i \in DOMAIN s : s[i] # x
    BY <1>5, ToSetIs
  <2> QED BY <1>1, <1>2, <1>5, <2>1 DEF IsInjective
<1> QED BY <1>1, <1>4, <1>5 DEF n, t

\* A walk has not passed the row it is at.
LEMMA NotPassed ==
  ASSUME TInv, NEW f \in Search, Stands(f, list, val, index, at), AtRow(f)
  PROVE  ~Passed(f, f.row, list, val, index)
<1>1. /\ list \in Seq(Rows) /\ IsInjective(list) /\ ToSet(list) \subseteq Rows
      /\ val \in [Rows -> Values] /\ Indexed(list, val, index)
  BY TInvFacts
<1>2. f.row \in Rows /\ val[f.row] \in Values /\ val[f.row] \in Nat
  BY <1>1, DataAssumption DEF Stands
<1>3. index[val[f.row]] \in Seq(Rows) /\ IsInjective(index[val[f.row]])
  BY <1>1, <1>2 DEF Indexed
<1>4. ~Leads(list, f.row, f.row) /\ ~Leads(index[val[f.row]], f.row, f.row)
  BY <1>1, <1>3, LeadsOn
<1>5. f.walk = "index" /\ f.ask.find = "in" => val[f.row] \notin ToSet(f.left)
  BY DEF Stands
<1>6. ~(val[f.row] < val[f.row])
  BY <1>2
<1> QED BY <1>4, <1>5, <1>6 DEF Passed

\* A row is compared.
LEMMA MatchRight ==
  ASSUME TInv, Match
  PROVE  TInv'
<1> DEFINE f == Top
           k == f.matchCount + 1
           u == Append(f.found, f.row)
           t == IF f.mode = "none" THEN f.tranTable ELSE Append(f.tranTable, f.row)
           g == [f EXCEPT !.matchCount = k, !.found = u, !.tranTable = t]
           h == [g EXCEPT !.stage = "act"]
<1>1. searches # <<>> /\ f.stage = "match" /\ Same
  BY DEF Match, AtStage
<1>2. /\ f.phase = "walk" /\ f \in Search /\ Held(f, list) /\ Kept(f, list)
      /\ Stands(f, list, val, index, at) /\ Behind(f, list, val, index, at)
  BY <1>1, SeekWalks, TopWalks
<1>3. \/ GoOn(f) \/ GoOn(g) \/ Over(g)
      \/ searches' = Now(h) /\ at' = at
  BY DEF Match
<1>4. /\ f.row \in ToSet(list) /\ f.row \in Rows /\ f.row \in Findable(f)
      /\ f.found \in Seq(Rows) /\ f.tranTable \in Seq(Rows) /\ f.matchCount \in Nat /\ AtRow(f)
  BY <1>1, <1>2, TInvFacts, SearchFields DEF Stands, AtRow
<1>5. k \in Nat
  BY <1>4
<1>6. f.row \notin ToSet(f.found)
  BY <1>1, <1>2, <1>4, NotPassed DEF Behind
<1>7. /\ u \in Seq(Rows) /\ IsInjective(u) /\ ToSet(u) = ToSet(f.found) \cup {f.row} /\ Len(u) = k
      /\ t \in Seq(Rows) /\ t = IF f.mode = "none" THEN <<>> ELSE u
  <2>1. /\ IsInjective(f.found) /\ Len(f.found) = f.matchCount
        /\ f.tranTable = IF f.mode = "none" THEN <<>> ELSE f.found
    BY <1>2 DEF Held
  <2>2. u \in Seq(Rows) /\ Len(u) = Len(f.found) + 1 /\ ToSet(u) = ToSet(f.found) \cup {f.row}
        /\ IsInjective(u)
    BY <1>4, <1>6, <2>1, AppendIs
  <2> QED BY <1>4, <2>1, <2>2
<1> HIDE DEF f, k, u, t
<1>8. /\ g \in Search /\ g.ask = f.ask /\ g.walk = f.walk /\ g.mode = f.mode /\ g.phase = f.phase
      /\ g.stage = f.stage /\ g.row = f.row /\ g.left = f.left /\ g.matchCount = k
      /\ g.offsetLimit = f.offsetLimit /\ g.tranTable = t /\ g.room = f.room
      /\ g.was = f.was /\ g.found = u /\ g.touched = f.touched
  BY <1>2, <1>5, <1>7 DEF Search
<1> HIDE DEF g
<1>9. Findable(g) = Findable(f) /\ AtRow(g)
  BY <1>4, <1>8 DEF Findable, AtRow
<1>10. Held(g, list)
  BY <1>1, <1>2, <1>4, <1>7, <1>8, <1>9 DEF Held
<1>11. Kept(g, list)
  BY <1>2, <1>8 DEF Kept
<1>12. Stands(g, list, val, index, at)
  BY <1>2, <1>4, <1>8, <1>9 DEF Stands
<1>13. \A q \in ToSet(f.found) : Passed(f, q, list, val, index)
  BY <1>1, <1>2 DEF Behind
<1>14. \A q \in ToSet(u) : q = g.row \/ Passed(g, q, list, val, index)
  BY <1>7, <1>8, <1>13 DEF Passed
<1>15. f.ask = Top.ask /\ f.walk = Top.walk /\ f.phase = Top.phase
  BY DEF f
<1>16. CASE GoOn(f)
  BY <1>1, <1>2, <1>4, <1>13, <1>15, <1>16, GoOnRight
<1>17. CASE GoOn(g)
  BY <1>1, <1>2, <1>8, <1>9, <1>10, <1>11, <1>12, <1>14, <1>15, <1>17, GoOnRight
<1>18. CASE Over(g)
  BY <1>1, <1>2, <1>8, <1>10, <1>11, <1>12, <1>15, <1>18, OverRight
<1>19. CASE searches' = Now(h) /\ at' = at
  <2>1. h \in Search /\ Agree(g, h) /\ h.left = g.left /\ h.row = g.row /\ h.stage = "act"
    BY <1>8 DEF Search, Agree
  <2> HIDE DEF h
  <2>2. Stands(h, list, val, index, at)
    BY <1>9, <1>12, <2>1 DEF Stands, Agree, AtRow, Findable
  <2>3. \A q \in ToSet(u) : q = h.row \/ Passed(h, q, list, val, index)
    BY <1>14, <2>1 DEF Agree, Passed
  <2>4. Behind(h, list, val, index, at)
    BY <1>8, <2>1, <2>3 DEF Behind, Agree
  <2>5. g.stage # "done"
    BY <1>1, <1>8
  <2> QED BY <1>1, <1>2, <1>8, <1>10, <1>11, <1>15, <1>19, <2>1, <2>2, <2>4, <2>5, WalkGoesOn
<1> QED BY <1>3, <1>16, <1>17, <1>18, <1>19

\* What the action does to the record of the innermost search.
LEMMA ActedFields ==
  ASSUME Top \in Search, Top.row \in Rows, NEW c \in {"ok", "break", "return", "error"}
  PROVE  /\ Acted(c) \in Search /\ Agree(Top, Acted(c)) /\ Acted(c).left = Top.left
         /\ Acted(c).row = Top.row /\ Acted(c).stage = Top.stage /\ Acted(c).walkIndex = Top.walkIndex
<1> DEFINE s == Append(Top.acted, Top.row)
           u == Top.cut \/ c \in {"break", "return"}
           d == IF c = "return" THEN c ELSE Top.result
<1>1. s \in Seq(Rows)
  BY SearchFields
<1>2. u \in BOOLEAN
  OBVIOUS
<1>3. d \in {"ok", "return", "error", "endless"}
  BY DEF Search
<1> DEFINE f == Top
           g == [f EXCEPT !.acted = s, !.cut = u, !.result = d]
<1>4. Acted(c) = g
  BY DEF Acted
<1>5. f \in Search
  OBVIOUS
<1> HIDE DEF s, u, d, f
<1>6. g \in Search
  BY <1>1, <1>2, <1>3, <1>5 DEF Search
<1>7. /\ Agree(f, g) /\ g.left = f.left /\ g.row = f.row /\ g.stage = f.stage
      /\ g.walkIndex = f.walkIndex
  BY <1>5 DEF Search, Agree
<1> QED BY <1>4, <1>6, <1>7 DEF f

\* The action on a row.
LEMMA ActRight ==
  ASSUME TInv, NEW c \in {"ok", "break", "return", "error"}, Act(c)
  PROVE  TInv'
<1> DEFINE f == Acted(c)
<1>1. searches # <<>> /\ Top.stage = "act" /\ Top.phase = "walk" /\ Same
  BY DEF Act, AtStage
<1>2. /\ Top \in Search /\ Held(Top, list) /\ Kept(Top, list)
      /\ Stands(Top, list, val, index, at) /\ Behind(Top, list, val, index, at)
  BY <1>1, TopWalks
<1>3. AtRow(Top) /\ Top.row \in Rows
  BY <1>1, <1>2, TInvFacts DEF Stands, AtRow
<1>4. /\ f \in Search /\ Agree(Top, f) /\ f.left = Top.left /\ f.row = Top.row /\ f.stage = "act"
  BY <1>1, <1>2, <1>3, ActedFields
<1>5. (c = "error" /\ Fail(f, c)) \/ Over(f) \/ GoOn(f)
  BY DEF Act
<1> HIDE DEF f
<1>6. Held(f, list) /\ Kept(f, list) /\ AtRow(f)
  BY <1>1, <1>2, <1>4 DEF Held, Kept, Agree, Findable, AtRow
<1>7. Stands(f, list, val, index, at)
  BY <1>1, <1>2, <1>3, <1>4, <1>6 DEF Stands, Agree, Findable
<1>8. \A q \in ToSet(f.found) : q = f.row \/ Passed(f, q, list, val, index)
  BY <1>1, <1>2, <1>4 DEF Behind, Agree, Passed
<1>9. f.ask = Top.ask /\ f.walk = Top.walk /\ f.phase = "walk"
  BY <1>1, <1>4 DEF Agree
<1>10. CASE c = "error" /\ Fail(f, c)
  BY <1>1, <1>4, <1>6, <1>7, <1>9, <1>10, FailRight
<1>11. CASE Over(f)
  BY <1>1, <1>4, <1>6, <1>7, <1>9, <1>11, OverRight
<1>12. CASE GoOn(f)
  BY <1>1, <1>4, <1>6, <1>7, <1>8, <1>9, <1>12, GoOnRight
<1> QED BY <1>5, <1>10, <1>11, <1>12

-----------------------------------------------------------------------------
(* After the walk.                                                         *)

\* The innermost search goes on as h, its walk over.
LEMMA AfterGoesOn ==
  ASSUME TInv, searches # <<>>, Same, at' = at, NEW h \in Search, searches' = Now(h),
         h.ask = Top.ask, h.phase = "after", Stages(h), Held(h, list)
  PROVE  TInv'
<1>1. UNCHANGED <<share, list, val, index, cursors, published, cursorLock>>
  BY DEF Same, table, locks
<1>2. Right(h, list, val, index, at') /\ ~Follows(h)
  BY DEF Right, Follows
<1> QED BY <1>1, <1>2, TInvFacts, TopGoesOn

\* The transaction table of a search that is not done.
Table(f, l) ==
  /\ IsInjective(f.found) /\ ToSet(f.found) \subseteq Findable(f)
  /\ IsInjective(f.tranTable)
  /\ ToSet(f.tranTable) \subseteq Findable(f) /\ ToSet(f.tranTable) \subseteq ToSet(l)
  /\ IsFiniteSet(f.was.rows) /\ IsFiniteSet(f.touched)
  /\ f.room = IF f.mode = "none" THEN 0 ELSE Cardinality(f.was.rows)
  /\ f.mode = "none" => f.tranTable = <<>>

LEMMA TableHeld ==
  ASSUME NEW f, NEW l, Held(f, l), f.stage # "done"
  PROVE  Table(f, l)
BY DEF Held, Table

LEMMA SortsOfIs ==
  ASSUME NEW o, NEW s \in Seq(Rows), NEW t \in SortsOf(o, s)
  PROVE  /\ t \in Seq(Rows) /\ Len(t) = Len(s) /\ ToSet(t) \subseteq ToSet(s)
         /\ IsInjective(s) => IsInjective(t)
<1> DEFINE n == Len(s)
           In(u, r) == {i \in DOMAIN u : u[i] = r}
<1>1. n \in Nat /\ DOMAIN s = 1 .. n /\ ToSet(s) \subseteq Rows
  BY SeqIs
<1>2. /\ t \in [1 .. n -> ToSet(s)]
      /\ \A r \in ToSet(s) : Cardinality(In(t, r)) = Cardinality(In(s, r))
  BY <1>1 DEF SortsOf
<1> HIDE DEF n
<1>3. t \in Seq(Rows) /\ Len(t) = n /\ DOMAIN t = 1 .. n
  <2>1. t \in [1 .. n -> Rows]
    BY <1>1, <1>2
  <2> QED BY <1>1, <2>1
<1>4. \A i \in 1 .. n : t[i] \in ToSet(s)
  BY <1>2
<1>5. ToSet(t) \subseteq ToSet(s)
  BY <1>3, <1>4, ToSetIs
<1>6. ASSUME IsInjective(s), NEW i \in 1 .. n, NEW j \in 1 .. n, t[i] = t[j] PROVE i = j
  <2> DEFINE r == t[i]
  <2>1. r \in ToSet(s)
    BY <1>4
  <2>2. PICK k \in 1 .. n : s[k] = r
    BY <1>1, <2>1, ToSetIs
  <2>3. In(s, r) = {k}
    BY <1>1, <1>6, <2>2 DEF IsInjective
  <2>4. Cardinality(In(t, r)) = 1
    BY <1>2, <2>1, <2>3, FS_Singleton
  <2>5. In(t, r) \subseteq 1 .. n /\ i \in In(t, r) /\ j \in In(t, r)
    BY <1>3, <1>6
  <2> DEFINE T == In(t, r)
  <2> HIDE DEF T
  <2>6. IsFiniteSet(T)
    BY <1>1, <2>5, UpTo, FS_Subset DEF T
  <2>7. \E x : T = {x}
    BY <2>4, <2>6, FS_Singleton DEF T
  <2> QED BY <2>5, <2>7 DEF T
<1> QED BY <1>3, <1>5, <1>6 DEF n, IsInjective

\* The next of the actions that were put off.
LEMMA DeferRight ==
  ASSUME NEW f \in Search, NEW l, f.phase = "after", Table(f, l),
         f.ask.offset <= f.walkIndex, f.walkIndex <= f.offsetLimit, f.offsetLimit <= Len(f.tranTable)
  PROVE  /\ Defer(f) \in Search /\ Defer(f).ask = f.ask /\ Defer(f).phase = "after"
         /\ Stages(Defer(f)) /\ Held(Defer(f), l)
<1>1. /\ f.walkIndex \in Nat /\ f.offsetLimit \in Nat /\ f.tranTable \in Seq(Rows)
      /\ f.ask.offset \in Nat
  BY SearchFields, AskFields
<1>2. CASE f.walkIndex < f.offsetLimit
  <2> DEFINE r == f.tranTable[f.walkIndex + 1]
             s == IF f.ask.poll THEN "poll" ELSE "act"
             h == [f EXCEPT !.row = r, !.stage = s]
  <2>1. Defer(f) = h
    BY <1>2 DEF Defer
  <2>2. f.walkIndex + 1 \in DOMAIN f.tranTable
    BY <1>1, <1>2
  <2>3. r \in Rows /\ r \in ToSet(f.tranTable) /\ s \in {"poll", "act"}
    BY <1>1, <2>2, ToSetIs
  <2> HIDE DEF r, s
  <2>4. /\ h \in Search /\ h.ask = f.ask /\ h.walk = f.walk /\ h.mode = f.mode /\ h.phase = "after"
        /\ h.stage = s /\ h.row = r /\ h.offsetLimit = f.offsetLimit /\ h.tranTable = f.tranTable
        /\ h.room = f.room /\ h.walkIndex = f.walkIndex /\ h.was = f.was /\ h.found = f.found /\ h.touched = f.touched
    BY <2>3 DEF Search
  <2> HIDE DEF h
  <2>5. Stages(h)
    BY <2>3, <2>4 DEF Stages
  <2>6. Held(h, l)
    BY <1>2, <2>3, <2>4 DEF Held, Table, Findable
  <2> QED BY <2>1, <2>4, <2>5, <2>6
<1>3. CASE ~(f.walkIndex < f.offsetLimit)
  <2> DEFINE h == [f EXCEPT !.stage = "commit"]
  <2>1. Defer(f) = h
    BY <1>3 DEF Defer
  <2>2. /\ h \in Search /\ h.ask = f.ask /\ h.walk = f.walk /\ h.mode = f.mode /\ h.phase = "after"
        /\ h.stage = "commit" /\ h.offsetLimit = f.offsetLimit /\ h.tranTable = f.tranTable
        /\ h.room = f.room /\ h.was = f.was /\ h.found = f.found /\ h.touched = f.touched
    BY DEF Search
  <2> HIDE DEF h
  <2>3. Stages(h)
    BY <2>2 DEF Stages
  <2>4. f.ask.offset <= f.offsetLimit
    BY <1>1
  <2>5. Held(h, l)
    BY <2>2, <2>4 DEF Held, Table, Findable
  <2> QED BY <2>1, <2>2, <2>3, <2>5
<1> QED BY <1>2, <1>3

\* The walk is over.
LEMMA PostRight ==
  ASSUME TInv, Post
  PROVE  TInv'
<1> DEFINE p == Top
           o == p.ask
           f == [p EXCEPT !.phase = "after", !.row = NoRow]
           k == LastOf(f)
           g == [f EXCEPT !.offsetLimit = k, !.walkIndex = o.offset]
           short == [f EXCEPT !.matchCount = 0, !.stage = "done"]
           m == f.matchCount - o.offset
           plain == [f EXCEPT !.matchCount = m, !.stage = "done"]
           H(t) == [g EXCEPT !.tranTable = t]
           cursor(t) == [H(t) EXCEPT !.stage = "cursor"]
           commit(t) == [H(t) EXCEPT !.stage = "commit"]
<1>1. searches # <<>> /\ p.stage = "post" /\ Same /\ at' = at
  <2>1. AtStage("post")
    BY ZenonT(40) DEF Post
  <2>2. at' = at /\ Same
    BY ZenonT(40) DEF Post
  <2> QED BY <2>1, <2>2 DEF AtStage
<1>2. p.phase = "walk" /\ p \in Search /\ Held(p, list)
  BY <1>1, SeekWalks, TopWalks
<1>3. /\ p.matchCount \in Nat /\ p.offsetLimit \in Nat /\ p.tranTable \in Seq(Rows)
      /\ o \in Asks /\ o.offset \in Nat /\ o.limit \in Nat
  BY <1>2, SearchFields, AskFields
<1>4. /\ p.mode # "none" => Len(p.tranTable) = p.matchCount
      /\ p.offsetLimit = o.offset + o.limit /\ Table(p, list)
  BY <1>1, <1>2, TableHeld DEF Held
<1>5. \/ searches' = Now(short)
      \/ ~Short(f) /\ searches' = Now(plain)
      \/ /\ ~Short(f) /\ f.mode # "none"
         /\ \E t \in IF f.sorts THEN SortsOf(o, f.tranTable) ELSE {f.tranTable} :
              searches' = Now(cursor(t)) \/ searches' = Now(Defer(H(t))) \/ searches' = Now(commit(t))
  BY ZenonT(40) DEF Post
<1> HIDE DEF short, plain, cursor, commit, H, g
<1> HIDE DEF p
<1>6. /\ f \in Search /\ f.ask = o /\ f.walk = p.walk /\ f.mode = p.mode /\ f.phase = "after"
      /\ f.matchCount = p.matchCount /\ f.offsetLimit = p.offsetLimit /\ f.tranTable = p.tranTable
      /\ f.room = p.room /\ f.was = p.was /\ f.found = p.found /\ f.touched = p.touched
  BY <1>2 DEF Search
<1>7. o = Top.ask
  BY DEF p
<1> HIDE DEF f, o
<1>8. Table(f, list)
  BY <1>4, <1>6 DEF Table, Findable
<1>9. ASSUME NEW h \in Search, h.ask = f.ask, h.walk = f.walk, h.mode = f.mode, h.phase = "after",
             h.stage = "done", h.tranTable = f.tranTable, h.room = f.room, h.was = f.was,
             h.found = f.found /\ h.touched = f.touched, searches' = Now(h)
      PROVE  TInv'
  <2>1. Stages(h)
    BY <1>9 DEF Stages
  <2>2. Held(h, list)
    BY <1>8, <1>9 DEF Held, Table, Findable
  <2> QED BY <1>1, <1>6, <1>7, <1>9, <2>1, <2>2, AfterGoesOn
<1>10. CASE searches' = Now(short)
  <2> DEFINE h == short
  <2>1. /\ h \in Search /\ h.ask = f.ask /\ h.walk = f.walk /\ h.mode = f.mode /\ h.phase = "after"
        /\ h.stage = "done" /\ h.tranTable = f.tranTable /\ h.room = f.room /\ h.was = f.was
        /\ h.found = f.found /\ h.touched = f.touched /\ searches' = Now(h)
    BY <1>6, <1>10 DEF Search, short
  <2> HIDE DEF h
  <2> QED BY <1>9, <2>1
<1>11. ~Short(f) => o.offset <= f.matchCount
  BY <1>3, <1>6 DEF Short
<1>12. CASE ~Short(f) /\ searches' = Now(plain)
  <2> DEFINE h == plain
  <2>1. m \in Nat /\ searches' = Now(h)
    BY <1>3, <1>6, <1>11, <1>12
  <2> HIDE DEF m
  <2>2. /\ h \in Search /\ h.ask = f.ask /\ h.walk = f.walk /\ h.mode = f.mode /\ h.phase = "after"
        /\ h.stage = "done" /\ h.tranTable = f.tranTable /\ h.room = f.room /\ h.was = f.was
        /\ h.found = f.found /\ h.touched = f.touched
    BY <1>6, <2>1 DEF Search, plain
  <2> HIDE DEF h
  <2> QED BY <1>9, <2>1, <2>2
<1>13. ASSUME ~Short(f), f.mode # "none",
              NEW t \in IF f.sorts THEN SortsOf(o, f.tranTable) ELSE {f.tranTable},
              searches' = Now(cursor(t)) \/ searches' = Now(Defer(H(t))) \/ searches' = Now(commit(t))
       PROVE  TInv'
  <2> DEFINE h == H(t)
             ha == [h EXCEPT !.stage = "cursor"]
             hc == [h EXCEPT !.stage = "commit"]
  <2>1. /\ t \in Seq(Rows) /\ Len(t) = Len(f.tranTable) /\ ToSet(t) \subseteq ToSet(f.tranTable)
        /\ IsInjective(t)
    BY <1>3, <1>6, <1>8, <1>13, SortsOfIs DEF Table
  <2>2. k \in Nat /\ o.offset <= k /\ k <= Len(t)
    BY <1>3, <1>4, <1>6, <1>11, <1>13, <2>1 DEF LastOf
  <2> HIDE DEF k
  <2>3. /\ h \in Search /\ h.ask = o /\ h.walk = f.walk /\ h.mode = f.mode /\ h.phase = "after"
        /\ h.offsetLimit = k /\ h.tranTable = t /\ h.room = f.room /\ h.walkIndex = o.offset
        /\ h.was = f.was /\ h.found = f.found /\ h.touched = f.touched
    BY <1>3, <1>6, <2>1, <2>2 DEF Search, H, g
  <2>4. searches' = Now(Defer(h)) \/ searches' = Now(ha) \/ searches' = Now(hc)
    BY <1>13 DEF cursor, commit
  <2> HIDE DEF h
  <2>5. Table(h, list)
    BY <1>8, <2>1, <2>3 DEF Table, Findable
  <2>6. ASSUME NEW d \in Search, d.ask = h.ask, d.walk = h.walk, d.mode = h.mode, d.phase = "after",
               d.stage \in {"cursor", "commit"}, d.offsetLimit = k, d.tranTable = t, d.room = h.room,
               d.was = h.was, d.found = h.found /\ d.touched = h.touched, searches' = Now(d)
        PROVE  TInv'
    <3>1. Stages(d)
      BY <2>6 DEF Stages
    <3>2. Held(d, list)
      BY <2>2, <2>3, <2>5, <2>6 DEF Held, Table, Findable
    <3> QED BY <1>1, <1>7, <2>3, <2>6, <3>1, <3>2, AfterGoesOn
  <2>7. /\ ha \in Search /\ ha.ask = h.ask /\ ha.walk = h.walk /\ ha.mode = h.mode /\ ha.phase = "after"
        /\ ha.stage = "cursor" /\ ha.offsetLimit = k /\ ha.tranTable = t /\ ha.room = h.room
        /\ ha.was = h.was /\ ha.found = h.found /\ ha.touched = h.touched
    BY <2>3 DEF Search
  <2>8. /\ hc \in Search /\ hc.ask = h.ask /\ hc.walk = h.walk /\ hc.mode = h.mode /\ hc.phase = "after"
        /\ hc.stage = "commit" /\ hc.offsetLimit = k /\ hc.tranTable = t /\ hc.room = h.room
        /\ hc.was = h.was /\ hc.found = h.found /\ hc.touched = h.touched
    BY <2>3 DEF Search
  <2> HIDE DEF ha, hc
  <2>9. CASE searches' = Now(Defer(h))
    <3>1. h.ask.offset <= h.walkIndex /\ h.walkIndex <= h.offsetLimit /\ h.offsetLimit <= Len(h.tranTable)
      BY <1>3, <2>2, <2>3
    <3>2. /\ Defer(h) \in Search /\ Defer(h).ask = h.ask /\ Defer(h).phase = "after"
          /\ Stages(Defer(h)) /\ Held(Defer(h), list)
      BY <2>3, <2>5, <3>1, DeferRight
    <3> QED BY <1>1, <1>7, <2>3, <2>9, <3>2, AfterGoesOn
  <2> QED BY <2>4, <2>6, <2>7, <2>8, <2>9
<1> QED BY <1>5, <1>10, <1>12, <1>13

\* An action that was put off.
LEMMA ActLaterRight ==
  ASSUME TInv, NEW c \in {"ok", "break", "return", "error"}, ActLater(c)
  PROVE  TInv'
<1> DEFINE e == Acted(c)
           k == Top.walkIndex + 1
           f == [e EXCEPT !.walkIndex = k]
           he == [f EXCEPT !.stage = "done", !.result = c]
           hc == [f EXCEPT !.offsetLimit = k, !.stage = "commit"]
<1>1. searches # <<>> /\ Top.stage = "act" /\ Top.phase = "after" /\ Same
  BY DEF ActLater, AtStage
<1>2. Top \in Search /\ Held(Top, list)
  BY <1>1, TopIs DEF Right
<1>3. /\ Top.walkIndex \in Nat /\ Top.offsetLimit \in Nat /\ Top.tranTable \in Seq(Rows)
      /\ Top.ask.offset \in Nat
  BY <1>2, SearchFields, AskFields
<1>4. /\ Top.row \in Rows /\ Top.ask.offset <= Top.walkIndex /\ Top.walkIndex < Top.offsetLimit
      /\ Top.offsetLimit <= Len(Top.tranTable)
  <2>1. Top.row \in ToSet(Top.tranTable)
    BY <1>1, <1>2 DEF Held
  <2>2. ToSet(Top.tranTable) \subseteq Rows
    BY <1>3, SeqIs
  <2> QED BY <1>1, <1>2, <2>1, <2>2 DEF Held
<1>5. /\ e \in Search /\ Agree(Top, e) /\ e.walkIndex = Top.walkIndex
  BY <1>2, <1>4, ActedFields
<1>6. k \in Nat /\ Top.ask.offset <= k /\ k <= Top.offsetLimit /\ Top.offsetLimit <= Len(Top.tranTable)
  BY <1>3, <1>4
<1>7. \/ c = "error" /\ Fail([e EXCEPT !.walkIndex = @ + 1], c)
      \/ /\ at' = at
         /\ \/ searches' = Now(Defer([e EXCEPT !.walkIndex = @ + 1]))
            \/ searches' = Now([[e EXCEPT !.walkIndex = @ + 1] EXCEPT
                                  !.offsetLimit = [e EXCEPT !.walkIndex = @ + 1].walkIndex, !.stage = "commit"])
  BY DEF ActLater
<1> HIDE DEF e, k
<1>8. [e EXCEPT !.walkIndex = @ + 1] = f /\ f.walkIndex = k
  BY <1>5 DEF Search, k
<1>9. /\ f \in Search /\ f.ask = Top.ask /\ f.walk = Top.walk /\ f.mode = Top.mode
      /\ f.phase = "after" /\ f.offsetLimit = Top.offsetLimit
      /\ f.tranTable = Top.tranTable /\ f.room = Top.room /\ f.was = Top.was /\ f.found = Top.found /\ f.touched = Top.touched
  BY <1>1, <1>5, <1>6 DEF Search, Agree
<1> HIDE DEF f
<1>10. Table(f, list)
  <2>1. Table(Top, list)
    BY <1>1, <1>2, TableHeld
  <2> QED BY <1>9, <2>1 DEF Table, Findable
<1>11. \/ c = "error" /\ searches' = Now(he) /\ at' = at
       \/ searches' = Now(Defer(f)) /\ at' = at
       \/ searches' = Now(hc) /\ at' = at
  BY <1>7, <1>8 DEF Fail
<1>12. CASE c = "error" /\ searches' = Now(he) /\ at' = at
  <2>1. /\ he \in Search /\ he.ask = f.ask /\ he.walk = f.walk /\ he.mode = f.mode /\ he.phase = "after"
        /\ he.stage = "done" /\ he.tranTable = f.tranTable /\ he.room = f.room /\ he.was = f.was
        /\ he.found = f.found /\ he.touched = f.touched
    BY <1>9, <1>12 DEF Search
  <2> HIDE DEF he
  <2>2. Stages(he) /\ Held(he, list)
    BY <1>10, <2>1 DEF Stages, Held, Table, Findable
  <2> QED BY <1>1, <1>9, <1>12, <2>1, <2>2, AfterGoesOn
<1>13. CASE searches' = Now(Defer(f)) /\ at' = at
  <2>1. f.ask.offset <= f.walkIndex /\ f.walkIndex <= f.offsetLimit /\ f.offsetLimit <= Len(f.tranTable)
    BY <1>6, <1>8, <1>9
  <2>2. /\ Defer(f) \in Search /\ Defer(f).ask = f.ask /\ Defer(f).phase = "after"
        /\ Stages(Defer(f)) /\ Held(Defer(f), list)
    BY <1>9, <1>10, <2>1, DeferRight
  <2> QED BY <1>1, <1>9, <1>13, <2>2, AfterGoesOn
<1>14. CASE searches' = Now(hc) /\ at' = at
  <2>1. /\ hc \in Search /\ hc.ask = f.ask /\ hc.walk = f.walk /\ hc.mode = f.mode /\ hc.phase = "after"
        /\ hc.stage = "commit" /\ hc.offsetLimit = k /\ hc.tranTable = f.tranTable /\ hc.room = f.room
        /\ hc.was = f.was /\ hc.found = f.found /\ hc.touched = f.touched
    BY <1>6, <1>9 DEF Search
  <2> HIDE DEF hc
  <2>2. k <= Len(Top.tranTable)
    BY <1>3, <1>6
  <2>3. Stages(hc) /\ Held(hc, list)
    BY <1>6, <1>9, <1>10, <2>1, <2>2 DEF Stages, Held, Table, Findable
  <2> QED BY <1>1, <1>9, <1>14, <2>1, <2>3, AfterGoesOn
<1> QED BY <1>11, <1>12, <1>13, <1>14

\* What a search with a transaction ends as.
LEMMA CountedFields ==
  ASSUME NEW f \in Search, Held(f, list), f.stage = "commit", f.phase = "after"
  PROVE  LET h == Counted(f)
         IN  /\ h \in Search /\ h.ask = f.ask /\ h.walk = f.walk /\ h.mode = f.mode /\ h.phase = "after"
             /\ h.stage = "done" /\ h.tranTable = f.tranTable /\ h.room = f.room /\ h.was = f.was
             /\ h.found = f.found /\ h.touched = f.touched /\ f.offsetLimit - f.ask.offset \in Nat
<1> DEFINE m == f.offsetLimit - f.ask.offset
           h == [f EXCEPT !.matchCount = m, !.stage = "done"]
<1>1. m \in Nat
  BY SearchFields, AskFields DEF Held
<1>2. Counted(f) = h
  BY DEF Counted
<1> HIDE DEF m
<1>3. /\ h \in Search /\ h.ask = f.ask /\ h.walk = f.walk /\ h.mode = f.mode /\ h.phase = "after"
      /\ h.stage = "done" /\ h.tranTable = f.tranTable /\ h.room = f.room /\ h.was = f.was
      /\ h.found = f.found /\ h.touched = f.touched
  BY <1>1 DEF Search
<1> QED BY <1>1, <1>2, <1>3 DEF m

\* A search that is done keeps its transaction table, whatever becomes of the rows.
LEMMA DoneHeld ==
  ASSUME NEW f, NEW h, NEW l, NEW l2, Table(f, l), h.phase = "after", h.stage = "done",
         h.walk = f.walk, h.mode = f.mode, h.tranTable = f.tranTable, h.room = f.room,
         h.was = f.was, h.found = f.found /\ h.touched = f.touched
  PROVE  Stages(h) /\ Held(h, l2)
<1>1. Findable(h) = Findable(f)
  BY DEF Findable
<1>2. Held(h, l2)
  BY <1>1 DEF Held, Table
<1> QED BY <1>2 DEF Stages

\* What is known of the innermost search when it comes to its transaction.
LEMMA TopCommits ==
  ASSUME TInv, AtStage("commit")
  PROVE  /\ searches # <<>> /\ Top \in Search /\ Top.stage = "commit" /\ Top.phase = "after"
         /\ Held(Top, list) /\ Table(Top, list)
<1>1. searches # <<>> /\ Top.stage = "commit"
  BY DEF AtStage
<1>2. Top \in Search /\ Stages(Top) /\ Held(Top, list)
  BY <1>1, TopIs DEF Right
<1>3. Top.phase = "after"
  BY <1>1, <1>2, SearchFields DEF Stages
<1> QED BY <1>1, <1>2, <1>3, TableHeld

LEMMA CommitRight ==
  ASSUME TInv, Commit
  PROVE  TInv'
<1> DEFINE f == Top
           h == Counted(f)
<1>1. AtStage("commit") /\ Same /\ searches' = Now(h) /\ at' = at
  BY DEF Commit
<1>2. /\ searches # <<>> /\ f \in Search /\ f.stage = "commit" /\ f.phase = "after"
      /\ Held(f, list) /\ Table(f, list)
  BY <1>1, TopCommits
<1>3. /\ h \in Search /\ h.ask = f.ask /\ h.walk = f.walk /\ h.mode = f.mode /\ h.phase = "after"
      /\ h.stage = "done" /\ h.tranTable = f.tranTable /\ h.room = f.room /\ h.was = f.was
      /\ h.found = f.found /\ h.touched = f.touched
  BY <1>2, CountedFields
<1> HIDE DEF h
<1>4. Stages(h) /\ Held(h, list)
  BY <1>2, <1>3, DoneHeld
<1> QED BY <1>1, <1>2, <1>3, <1>4, AfterGoesOn

LEMMA CommitFailsRight ==
  ASSUME TInv, CommitFails
  PROVE  TInv'
<1> DEFINE f == Top
           m == f.offsetLimit - f.ask.offset
           g == [f EXCEPT !.matchCount = m]
           h == [g EXCEPT !.stage = "done", !.result = "error"]
<1>1. AtStage("commit") /\ Same /\ searches' = Now(h) /\ at' = at
  BY DEF CommitFails, Fail
<1>2. /\ searches # <<>> /\ f \in Search /\ f.stage = "commit" /\ f.phase = "after"
      /\ Held(f, list) /\ Table(f, list)
  BY <1>1, TopCommits
<1>3. m \in Nat
  BY <1>2, CountedFields
<1> HIDE DEF m, f
<1>4. /\ h \in Search /\ h.ask = f.ask /\ h.walk = f.walk /\ h.mode = f.mode /\ h.phase = "after"
      /\ h.stage = "done" /\ h.tranTable = f.tranTable /\ h.room = f.room /\ h.was = f.was
      /\ h.found = f.found /\ h.touched = f.touched
  BY <1>2, <1>3 DEF Search
<1> HIDE DEF h
<1>5. Stages(h) /\ Held(h, list)
  BY <1>2, <1>4, DoneHeld
<1> QED BY <1>1, <1>2, <1>4, <1>5, AfterGoesOn DEF f

LEMMA CommittedRight ==
  ASSUME TInv, AtStage("commit")
  PROVE  LET h == Counted(Top)
         IN  /\ Now(h) \in Seq(Search) /\ DOMAIN Now(h) = DOMAIN searches
             /\ \A i \in DOMAIN searches :
                  Now(h)[i] = IF i = Len(searches) THEN h ELSE searches[i]
             /\ h \in Search /\ h.ask = Top.ask /\ ~Follows(h)
             /\ \A l, vl, ix, a : Right(h, l, vl, ix, a)
<1> DEFINE n == Len(searches)
           f == Top
           h == Counted(f)
<1>1. /\ searches # <<>> /\ f \in Search /\ f.stage = "commit" /\ f.phase = "after"
      /\ Held(f, list) /\ Table(f, list)
  BY TopCommits
<1>2. /\ h \in Search /\ h.ask = f.ask /\ h.walk = f.walk /\ h.mode = f.mode /\ h.phase = "after"
      /\ h.stage = "done" /\ h.tranTable = f.tranTable /\ h.room = f.room /\ h.was = f.was
      /\ h.found = f.found /\ h.touched = f.touched
  BY <1>1, CountedFields
<1> HIDE DEF h
<1>3. \A l : Stages(h) /\ Held(h, l)
  BY <1>1, <1>2, DoneHeld
<1>4. \A l, vl, ix, a : Right(h, l, vl, ix, a)
  BY <1>2, <1>3 DEF Right
<1>5. n \in DOMAIN searches /\ searches \in Seq(Search)
  BY <1>1, TopIs, TInvFacts
<1>6. /\ Now(h) \in Seq(Search) /\ DOMAIN Now(h) = DOMAIN searches
      /\ \A i \in DOMAIN searches : Now(h)[i] = IF i = n THEN h ELSE searches[i]
  BY <1>2, <1>5 DEF Now
<1>7. ~Follows(h)
  BY <1>2 DEF Follows
<1> QED BY <1>2, <1>4, <1>6, <1>7 DEF h

\* The rows S are named, and the searches are ss but for that.
LEMMA TouchRight ==
  ASSUME TInv, NEW ss \in Seq(Search), DOMAIN ss = DOMAIN searches,
         \A i \in DOMAIN searches :
           /\ ss[i].ask = searches[i].ask /\ (Follows(ss[i]) => Follows(searches[i]))
           /\ Right(ss[i], list, val, index, at),
         NEW S, S \subseteq Rows, IsFiniteSet(S), searches' = Touch(ss, S),
         UNCHANGED <<share, cursors, published, cursorLock>>,
         Grows(list, list', S), list' \in Seq(Rows), IsInjective(list'),
         val' \in [Rows -> Values], Indexed(list', val', index'), at' \in Pointer,
         (\E i \in DOMAIN searches : Follows(ss[i])) =>
            S = {} /\ val' = val /\ index' = index /\ at' = at
  PROVE  TInv'
<1>1. /\ DOMAIN searches' = DOMAIN searches
      /\ \A i \in DOMAIN searches : searches'[i] = [ss[i] EXCEPT !.touched = @ \cup S]
  BY DEF Touch
<1>2. ASSUME NEW i \in DOMAIN searches
      PROVE  /\ searches'[i] \in Search /\ Right(searches'[i], list', val', index', at')
             /\ searches'[i].ask = searches[i].ask /\ (Follows(searches'[i]) => Follows(searches[i]))
  <2> DEFINE f == ss[i]
             g == [f EXCEPT !.touched = @ \cup S]
  <2>1. f \in Search /\ Right(f, list, val, index, at)
    OBVIOUS
  <2>2. Follows(f) => S = {} /\ val' = val /\ index' = index /\ at' = at
    OBVIOUS
  <2>3. f.ask = searches[i].ask /\ (Follows(f) => Follows(searches[i])) /\ searches'[i] = g
    BY <1>1
  <2> HIDE DEF f
  <2>4. g \in Search /\ Right(g, list', val', index', at')
    BY <2>1, <2>2, StaysRight
  <2>5. g.ask = f.ask /\ (Follows(g) => Follows(f))
    BY <2>1 DEF Search, Follows
  <2> QED BY <2>3, <2>4, <2>5
<1>3. searches' \in Seq(Search)
  <2>1. Len(ss) \in Nat /\ DOMAIN ss = 1 .. Len(ss)
    OBVIOUS
  <2>2. searches' = [i \in 1 .. Len(ss) |-> searches'[i]]
    BY <1>1, <2>1 DEF Touch
  <2> QED BY <1>2, <2>1, <2>2
<1>4. TypeOK'
  <2>1. index' \in [Values -> Seq(Rows)]
    BY DEF Indexed
  <2>2. /\ share \in Shares /\ DOMAIN cursors \subseteq Names
        /\ \A n \in DOMAIN cursors : cursors[n] \in Cursor
        /\ published \in BOOLEAN /\ cursorLock \in BOOLEAN
    BY DEF TInv, TypeOK
  <2> QED BY <1>3, <2>1, <2>2 DEF TypeOK
<1>5. OneFollows'
  BY <1>1, <1>2 DEF TInv, OneFollows
<1>6. CursorsRight'
  BY DEF TInv, CursorsRight, Grows
<1>7. AllRight'
  BY <1>1, <1>2 DEF AllRight
<1> QED BY <1>4, <1>5, <1>6, <1>7 DEF TInv

\* The rows of a window of a sequence.
LEMMA SubSeqIs ==
  ASSUME NEW A, NEW s \in Seq(A), NEW m \in Nat, NEW k \in Nat, m <= k, k <= Len(s)
  PROVE  /\ SubSeq(s, m + 1, k) \in Seq(A) /\ ToSet(SubSeq(s, m + 1, k)) \subseteq ToSet(s)
         /\ IsInjective(s) => IsInjective(SubSeq(s, m + 1, k))
<1> DEFINE w == SubSeq(s, m + 1, k)
<1>1. /\ w \in Seq(A) /\ Len(w) = k - m /\ DOMAIN w = 1 .. k - m /\ DOMAIN s = 1 .. Len(s)
      /\ Len(s) \in Nat /\ \A i \in 1 .. k - m : w[i] = s[i + m]
  <2>1. w \in Seq(A) /\ Len(w) = k - m
    OBVIOUS
  <2>2. \A i \in 1 .. k - m : w[i] = s[i + m]
    OBVIOUS
  <2> QED BY <2>1, <2>2
<1> HIDE DEF w
<1>2. \A i \in DOMAIN w : i + m \in DOMAIN s /\ w[i] = s[i + m]
  BY <1>1
<1>3. ToSet(w) \subseteq ToSet(s)
  BY <1>2, ToSetIs
<1>4. ASSUME IsInjective(s), NEW i \in DOMAIN w, NEW j \in DOMAIN w, w[i] = w[j]
      PROVE  i = j
  <2>1. i + m = j + m
    BY <1>2, <1>4 DEF IsInjective
  <2> QED BY <1>1, <2>1
<1> QED BY <1>1, <1>3, <1>4 DEF w, IsInjective

\* What a transaction is about.
LEMMA WindowIs ==
  ASSUME TInv, AtStage("commit")
  PROVE  /\ Window(Top) \in Seq(Rows) /\ IsInjective(Window(Top))
         /\ ToSet(Window(Top)) \subseteq ToSet(list)
<1>1. Top \in Search /\ Held(Top, list) /\ Top.stage = "commit" /\ Top.phase = "after"
  BY TopCommits
<1>2. /\ Top.tranTable \in Seq(Rows) /\ Top.ask.offset \in Nat /\ Top.offsetLimit \in Nat
  BY <1>1, SearchFields, AskFields
<1>3. /\ Top.ask.offset <= Top.offsetLimit /\ Top.offsetLimit <= Len(Top.tranTable)
      /\ IsInjective(Top.tranTable) /\ ToSet(Top.tranTable) \subseteq ToSet(list)
  BY <1>1 DEF Held
<1>4. /\ Window(Top) \in Seq(Rows) /\ ToSet(Window(Top)) \subseteq ToSet(Top.tranTable)
      /\ IsInjective(Window(Top))
  BY <1>2, <1>3, SubSeqIs DEF Window
<1> QED BY <1>3, <1>4

LEMMA CommitUpdateRight ==
  ASSUME TInv, CommitUpdate
  PROVE  TInv'
<1> DEFINE h  == Counted(Top)
           ss == Now(h)
           w  == Window(Top)
           S  == ToSet(w)
<1>1. /\ AtStage("commit") /\ Top.ask.tran = "update" /\ MoveTo(w, Top.ask.to)
      /\ searches' = Touch(ss, S)
      /\ UNCHANGED <<share, list, cursors, published, cursorLock>>
  BY DEF CommitUpdate, locks
<1>2. /\ ss \in Seq(Search) /\ DOMAIN ss = DOMAIN searches
      /\ \A i \in DOMAIN searches : ss[i] = IF i = Len(searches) THEN h ELSE searches[i]
      /\ h \in Search /\ h.ask = Top.ask /\ ~Follows(h) /\ Right(h, list, val, index, at)
  BY <1>1, CommittedRight
<1>3. w \in Seq(Rows) /\ IsInjective(w) /\ ToSet(w) \subseteq ToSet(list)
  BY <1>1, WindowIs
<1>4. searches # <<>> /\ Top.ask.to \in Values /\ Top = searches[Len(searches)]
  <2>1. searches # <<>> /\ Top \in Search
    BY <1>1, TopCommits
  <2> QED BY <2>1, SearchFields, AskFields DEF Top
<1> HIDE DEF h, ss, w
<1>5. IsFiniteSet(S) /\ S \subseteq Rows
  BY <1>3, SeqCounts, SeqIs
<1>6. /\ list \in Seq(Rows) /\ IsInjective(list) /\ val \in [Rows -> Values]
      /\ at \in Pointer /\ Indexed(list, val, index)
      /\ \A i \in DOMAIN searches : Right(searches[i], list, val, index, at)
  BY TInvFacts
<1> DEFINE to == Top.ask.to
<1>7. to \in Values /\ MoveTo(w, to)
  BY <1>1, <1>4
<1> HIDE DEF to
<1>8. val' \in [Rows -> Values] /\ Indexed(list, val', index') /\ at' \in Pointer
  BY <1>3, <1>6, <1>7, MoveToIs
<1>9. \A i \in DOMAIN searches : ~Follows(ss[i])
  BY <1>1, <1>2, <1>4, FollowersAre
<1>10. \A i \in DOMAIN searches : ss[i].ask = searches[i].ask /\ Right(ss[i], list, val, index, at)
  BY <1>2, <1>4, <1>6
<1> HIDE DEF S
<1>11. Grows(list, list', S)
  BY <1>1, GrowsNot
<1> QED BY <1>1, <1>2, <1>5, <1>6, <1>8, <1>9, <1>10, <1>11, TouchRight

\* Deleting, there is only one search and no cursor.
LEMMA CommitDeleteRight ==
  ASSUME TInv, IInv, Careful, CommitDelete
  PROVE  TInv'
<1> DEFINE h == Counted(Top)
           w == Window(Top)
           gone == ToSet(w)
<1>1. /\ AtStage("commit") /\ Top.ask.tran = "delete"
      /\ list' = Only(list, Rows \ gone) /\ index' = Without(index, gone)
      /\ searches' = Now(h) /\ at' = First(Nodes(index'))
      /\ UNCHANGED <<share, val, cursors, published, cursorLock>>
  BY DEF CommitDelete, locks
<1>2. /\ Now(h) \in Seq(Search) /\ DOMAIN Now(h) = DOMAIN searches
      /\ \A i \in DOMAIN searches : Now(h)[i] = IF i = Len(searches) THEN h ELSE searches[i]
      /\ h \in Search /\ h.ask = Top.ask /\ ~Follows(h)
      /\ \A l, vl, ix, a : Right(h, l, vl, ix, a)
  BY <1>1, CommittedRight
<1>3. searches # <<>> /\ Len(searches) \in DOMAIN searches /\ Top = searches[Len(searches)]
      /\ DOMAIN searches = 1 .. Len(searches)
  BY <1>1, TopCommits, TopIs, TInvFacts
<1>4. DeleterIsAlone
  BY DEF IInv
<1>5. Len(searches) = 1 /\ DOMAIN cursors = {}
  BY <1>1, <1>3, <1>4 DEF DeleterIsAlone, Deleting, HasCursors
<1>6. DOMAIN searches' = {1} /\ searches'[1] = h /\ searches' \in Seq(Search)
  BY <1>1, <1>2, <1>3, <1>5
<1> HIDE DEF h, w, gone
<1>7. list \in Seq(Rows) /\ IsInjective(list) /\ val \in [Rows -> Values]
      /\ ToSet(list) \subseteq Rows /\ Indexed(list, val, index)
  BY TInvFacts
<1>8. list' \in Seq(Rows) /\ IsInjective(list') /\ ToSet(list') = ToSet(list) \cap (Rows \ gone)
  BY <1>1, <1>7, OnlyIs
<1>9. /\ index' \in [Values -> Seq(Rows)]
      /\ \A v \in Values : IsInjective(index'[v]) /\ ToSet(index'[v]) = {r \in ToSet(list) \ gone : val[r] = v}
  BY <1>1, <1>7, WithoutIs
<1>10. Indexed(list', val', index')
  BY <1>1, <1>7, <1>8, <1>9 DEF Indexed
<1>11. at' \in Pointer
  <2>1. Nodes(index') \subseteq Values
    BY <1>9 DEF Nodes
  <2> QED BY <1>1, <2>1, FirstIs
<1>12. TypeOK'
  BY <1>1, <1>6, <1>8, <1>9, <1>11 DEF TInv, TypeOK
<1>13. OneFollows' /\ AllRight'
  BY <1>2, <1>6 DEF OneFollows, AllRight
<1>14. CursorsRight'
  BY <1>1, <1>5 DEF CursorsRight
<1> QED BY <1>10, <1>12, <1>13, <1>14 DEF TInv

-----------------------------------------------------------------------------
(* The other commands.                                                     *)

\* A command names the rows S and nobody follows the index.
LEMMA NamesRight ==
  ASSUME TInv, ~Following,
         NEW S, S \subseteq Rows, IsFiniteSet(S), searches' = Touch(searches, S),
         UNCHANGED <<share, cursors, published, cursorLock>>,
         Grows(list, list', S), list' \in Seq(Rows), IsInjective(list'),
         val' \in [Rows -> Values], Indexed(list', val', index'), at' \in Pointer
  PROVE  TInv'
<1>1. \A i \in DOMAIN searches : ~Follows(searches[i])
  BY DEF Following, Follows
<1>2. searches \in Seq(Search) /\ \A i \in DOMAIN searches : Right(searches[i], list, val, index, at)
  BY TInvFacts
<1> DEFINE ss == searches
<1>3. ss \in Seq(Search) /\ DOMAIN ss = DOMAIN searches /\ searches' = Touch(ss, S)
  BY <1>2
<1>4. \A i \in DOMAIN searches :
        /\ ss[i].ask = searches[i].ask /\ (Follows(ss[i]) => Follows(searches[i]))
        /\ Right(ss[i], list, val, index, at) /\ ~Follows(ss[i])
  BY <1>1, <1>2
<1> HIDE DEF ss
<1> QED BY <1>3, <1>4, TouchRight

LEMMA StoreRight ==
  ASSUME TInv, Careful, NEW r \in Rows, NEW v \in Values, Store(r, v)
  PROVE  TInv'
<1>1. /\ ~Following /\ ~InTable(r) /\ list' = <<r>> \o list /\ val' = [val EXCEPT ![r] = v]
      /\ index' = [index EXCEPT ![v] = <<r>> \o @] /\ searches' = Touch(searches, {r})
      /\ at' = at /\ UNCHANGED <<share, cursors, published, cursorLock>>
  BY DEF Store, MayMove, Alone, locks
<1>2. /\ list \in Seq(Rows) /\ IsInjective(list) /\ ToSet(list) \subseteq Rows
      /\ val \in [Rows -> Values] /\ at \in Pointer /\ Indexed(list, val, index)
  BY TInvFacts
<1>3. r \notin ToSet(list)
  BY <1>1, <1>2, SeqIs DEF InTable
<1>4. list' \in Seq(Rows) /\ ToSet(list') = ToSet(list) \cup {r} /\ IsInjective(list')
  BY <1>1, <1>2, <1>3, PutIs
<1>5. Grows(list, list', {r})
  BY <1>1, <1>2, <1>3, GrowsByOne
<1>6. val' \in [Rows -> Values] /\ \A q \in Rows : val'[q] = IF q = r THEN v ELSE val[q]
  BY <1>1, <1>2
<1>7. /\ index \in [Values -> Seq(Rows)]
      /\ \A u \in Values : IsInjective(index[u]) /\ ToSet(index[u]) = {q \in ToSet(list) : val[q] = u}
  BY <1>2 DEF Indexed
<1>8. ASSUME NEW u \in Values
      PROVE  index'[u] \in Seq(Rows) /\ IsInjective(index'[u])
             /\ ToSet(index'[u]) = {q \in ToSet(list') : val'[q] = u}
  <2>1. CASE u = v
    <3> DEFINE s == index[v]
    <3>1. s \in Seq(Rows) /\ IsInjective(s) /\ ToSet(s) = {q \in ToSet(list) : val[q] = v}
      BY <1>7
    <3>2. index'[u] = <<r>> \o s
      BY <1>1, <1>7, <2>1
    <3> HIDE DEF s
    <3>3. index'[u] \in Seq(Rows) /\ IsInjective(index'[u]) /\ ToSet(index'[u]) = ToSet(s) \cup {r}
      BY <1>3, <3>1, <3>2, PutIs
    <3>4. ToSet(s) \cup {r} = {q \in ToSet(list') : val'[q] = v}
      BY <1>2, <1>3, <1>4, <1>6, <3>1
    <3> QED BY <2>1, <3>3, <3>4
  <2>2. CASE u # v
    <3>1. index'[u] = index[u]
      BY <1>1, <1>7, <2>2
    <3>2. {q \in ToSet(list) : val[q] = u} = {q \in ToSet(list') : val'[q] = u}
      BY <1>2, <1>3, <1>4, <1>6, <2>2
    <3> QED BY <1>7, <3>1, <3>2
  <2> QED BY <2>1, <2>2
<1>9. Indexed(list', val', index')
  <2>1. index' \in [Values -> Seq(Rows)]
    <3>1. DOMAIN index' = Values /\ index' = [u \in Values |-> index'[u]]
      BY <1>1, <1>7
    <3> QED BY <1>8, <3>1
  <2> QED BY <1>8, <2>1 DEF Indexed
<1> DEFINE S == {r}
<1>10. S \subseteq Rows /\ IsFiniteSet(S)
  BY FS_Singleton
<1>11. searches' = Touch(searches, S) /\ Grows(list, list', S)
  BY <1>1, <1>5
<1> HIDE DEF S
<1> QED BY <1>1, <1>2, <1>4, <1>6, <1>9, <1>10, <1>11, NamesRight

\* A row of the table gets a value.
LEMMA MovesRight ==
  ASSUME TInv, ~Following, NEW r \in ToSet(list), NEW v \in Values, MoveTo(<<r>>, v),
         searches' = Touch(searches, {r}), UNCHANGED list,
         UNCHANGED <<share, cursors, published, cursorLock>>
  PROVE  TInv'
<1>1. /\ list \in Seq(Rows) /\ IsInjective(list) /\ ToSet(list) \subseteq Rows
      /\ val \in [Rows -> Values] /\ at \in Pointer /\ Indexed(list, val, index)
  BY TInvFacts
<1> DEFINE s == <<r>>
           S == {r}
<1>2. s \in Seq(Rows) /\ IsInjective(s) /\ ToSet(s) \subseteq ToSet(list) /\ MoveTo(s, v)
  BY <1>1 DEF IsInjective, ToSet
<1> HIDE DEF s
<1>3. val' \in [Rows -> Values] /\ Indexed(list, val', index') /\ at' \in Pointer
  BY <1>1, <1>2, MoveToIs
<1>4. S \subseteq Rows /\ IsFiniteSet(S) /\ searches' = Touch(searches, S)
  BY <1>1, FS_Singleton
<1> HIDE DEF S
<1>5. Grows(list, list', S)
  BY GrowsNot
<1> QED BY <1>1, <1>3, <1>4, <1>5, NamesRight

LEMMA SetRight ==
  ASSUME TInv, Careful, NEW r \in Rows, NEW v \in Values, Set(r, v)
  PROVE  TInv'
<1>1. /\ ~Following /\ InTable(r) /\ MoveTo(<<r>>, v) /\ searches' = Touch(searches, {r})
      /\ UNCHANGED list /\ UNCHANGED <<share, cursors, published, cursorLock>>
  BY DEF Set, MayMove, Alone, locks
<1>2. r \in ToSet(list)
  BY <1>1, TInvFacts, SeqIs DEF InTable
<1> QED BY <1>1, <1>2, MovesRight

LEMMA CursorSetRight ==
  ASSUME TInv, Careful, NEW n \in Names, NEW v \in Values, CursorSet(n, v)
  PROVE  TInv'
<1> DEFINE c == cursors[n]
           r == c.tranTable[c.tranIndex + 1]
<1>1. /\ ~Following /\ n \in DOMAIN cursors /\ c.tranIndex < c.offsetLimit
      /\ MoveTo(<<r>>, v) /\ searches' = Touch(searches, {r})
      /\ UNCHANGED list /\ UNCHANGED <<share, cursors, published, cursorLock>>
  BY DEF CursorSet, CursorIs, MayMove, Alone, locks
<1>2. c \in Cursor /\ ToSet(c.tranTable) \subseteq ToSet(list) /\ c.offsetLimit <= Len(c.tranTable)
  BY <1>1 DEF TInv, TypeOK, CursorsRight
<1>3. c.tranTable \in Seq(Rows) /\ c.tranIndex \in Nat /\ c.offsetLimit \in Nat
  BY <1>2 DEF Cursor
<1>4. c.tranIndex + 1 \in DOMAIN c.tranTable
  BY <1>1, <1>2, <1>3
<1>5. r \in ToSet(list)
  BY <1>2, <1>4, ToSetIs
<1> HIDE DEF r
<1> QED BY <1>1, <1>5, MovesRight

\* Rows are deleted when no search runs and no cursor is left.
LEMMA EmptyRight ==
  ASSUME TInv, searches = <<>>, DOMAIN cursors = {}, UNCHANGED <<share, searches, val, cursors, published, cursorLock>>,
         list' \in Seq(Rows), IsInjective(list'), Indexed(list', val, index'), at' \in Pointer
  PROVE  TInv'
<1>1. DOMAIN searches = {}
  OBVIOUS
<1>2. index' \in [Values -> Seq(Rows)]
  BY DEF Indexed
<1>3. /\ share \in Shares /\ val \in [Rows -> Values] /\ searches \in Seq(Search)
      /\ DOMAIN cursors \subseteq Names /\ \A n \in DOMAIN cursors : cursors[n] \in Cursor
      /\ published \in BOOLEAN /\ cursorLock \in BOOLEAN
  BY DEF TInv, TypeOK
<1>4. TypeOK'
  BY <1>2, <1>3 DEF TypeOK
<1>5. Indexed(list, val, index)'
  BY DEF Indexed
<1>6. OneFollows' /\ CursorsRight' /\ AllRight'
  BY <1>1 DEF OneFollows, CursorsRight, AllRight
<1> QED BY <1>4, <1>5, <1>6 DEF TInv

LEMMA DeleteRight ==
  ASSUME TInv, NEW r \in Rows, Delete(r)
  PROVE  TInv'
<1>1. /\ searches = <<>> /\ DOMAIN cursors = {}
      /\ list' = Only(list, Rows \ {r}) /\ index' = Without(index, {r})
      /\ UNCHANGED <<val, at, searches, share, cursors, published, cursorLock>>
  BY DEF Delete, MayWrite, MayDelete, HasCursors, Alone, locks
<1>2. /\ list \in Seq(Rows) /\ IsInjective(list) /\ val \in [Rows -> Values] /\ at \in Pointer
      /\ ToSet(list) \subseteq Rows /\ Indexed(list, val, index)
  BY TInvFacts
<1> DEFINE gone == {r}
<1>3. list' = Only(list, Rows \ gone) /\ index' = Without(index, gone)
  BY <1>1
<1> HIDE DEF gone
<1>4. list' \in Seq(Rows) /\ IsInjective(list') /\ ToSet(list') = ToSet(list) \cap (Rows \ gone)
  BY <1>2, <1>3, OnlyIs
<1>5. /\ index' \in [Values -> Seq(Rows)]
      /\ \A v \in Values : IsInjective(index'[v]) /\ ToSet(index'[v]) = {q \in ToSet(list) \ gone : val[q] = v}
  BY <1>2, <1>3, WithoutIs
<1>6. Indexed(list', val, index')
  BY <1>2, <1>4, <1>5 DEF Indexed
<1> QED BY <1>1, <1>2, <1>4, <1>6, EmptyRight

LEMMA ResetRight ==
  ASSUME TInv, Careful, Reset
  PROVE  TInv'
<1>1. /\ searches = <<>> /\ DOMAIN cursors = {}
      /\ list' = <<>> /\ index' = [v \in Values |-> <<>>] /\ at' = End
      /\ UNCHANGED <<val, searches, share, cursors, published, cursorLock>>
  BY DEF Reset, MayWrite, HasCursors, Alone, locks
<1>2. list' \in Seq(Rows) /\ IsInjective(list') /\ ToSet(list') = {}
  BY <1>1 DEF IsInjective, ToSet
<1>3. \A v \in Values : index'[v] \in Seq(Rows) /\ IsInjective(index'[v]) /\ ToSet(index'[v]) = {}
  BY <1>1 DEF IsInjective, ToSet
<1>4. index' \in [Values -> Seq(Rows)]
  BY <1>1
<1>5. Indexed(list', val, index')
  BY <1>2, <1>3, <1>4 DEF Indexed
<1> QED BY <1>1, <1>2, <1>5, EmptyRight DEF Pointer

\* The values of the rows of a sequence have a bound.
LEMMA Bounded ==
  ASSUME NEW s \in Seq(Rows), NEW vl \in [Rows -> Values]
  PROVE  \E b \in Nat : \A r \in ToSet(s) : vl[r] <= b
<1> DEFINE n == Len(s)
           Upto(m, b) == \A i \in 1 .. m : vl[s[i]] <= b
           Bad == {m \in 0 .. n : ~\E b \in Nat : Upto(m, b)}
<1>1. n \in Nat /\ DOMAIN s = 1 .. n /\ \A i \in 1 .. n : s[i] \in Rows /\ vl[s[i]] \in Nat
  <2>1. \A i \in 1 .. n : s[i] \in Rows
    OBVIOUS
  <2>2. \A r \in Rows : vl[r] \in Nat
    BY DataAssumption
  <2> QED BY <2>1, <2>2
<1>2. ASSUME NEW m \in 0 .. n, m \in Bad, \A k \in Bad : m <= k
      PROVE  FALSE
  <2>1. CASE m = 0
    <3>1. 0 \in Nat /\ Upto(m, 0)
      BY <2>1
    <3> QED BY <1>2, <3>1
  <2>2. CASE m # 0
    <3>1. m \in 1 .. n /\ m - 1 \in 0 .. n /\ ~(m <= m - 1)
      BY <1>1, <2>2
    <3>2. m - 1 \notin Bad
      BY <1>2, <3>1
    <3>3. PICK b \in Nat : Upto(m - 1, b)
      BY <3>1, <3>2
    <3> DEFINE c == IF vl[s[m]] <= b THEN b ELSE vl[s[m]]
    <3>4. c \in Nat /\ vl[s[m]] <= c /\ b <= c
      BY <1>1, <3>1
    <3> HIDE DEF c
    <3>5. \A i \in 1 .. m : vl[s[i]] <= c
      <4> SUFFICES ASSUME NEW i \in 1 .. m PROVE vl[s[i]] <= c
        OBVIOUS
      <4>1. i \in 1 .. n /\ vl[s[i]] \in Nat
        BY <1>1, <3>1
      <4>2. CASE i = m
        BY <3>4, <4>2
      <4>3. CASE i # m
        <5>1. vl[s[i]] <= b
          BY <3>1, <3>3, <4>3
        <5> QED BY <3>3, <3>4, <4>1, <5>1
      <4> QED BY <4>2, <4>3
    <3> QED BY <1>2, <3>4, <3>5
  <2> QED BY <2>1, <2>2
<1>3. Bad = {}
  <2>1. \A m \in Bad : m \in 0 .. n
    OBVIOUS
  <2> HIDE DEF Bad
  <2>2. Bad \subseteq Nat
    BY <1>1, <2>1
  <2> QED BY <1>2, <2>1, <2>2, LeastNatural
<1>4. PICK b \in Nat : Upto(n, b)
  <2>1. n \in 0 .. n
    BY <1>1
  <2> QED BY <1>3, <2>1
<1> QED BY <1>1, <1>4, ToSetIs

LEMMA IndexRangeRight ==
  ASSUME TInv, Careful, IndexRange
  PROVE  TInv'
<1> DEFINE N == Nodes(index)
<1>1. /\ ~Following /\ N # {} /\ at' = CHOOSE v \in N : \A w \in N : w <= v
      /\ UNCHANGED <<share, list, val, index, searches, cursors, published, cursorLock>>
  BY DEF IndexRange, MayMove, Alone, table, locks
<1>2. /\ list \in Seq(Rows) /\ IsInjective(list) /\ ToSet(list) \subseteq Rows
      /\ val \in [Rows -> Values] /\ Indexed(list, val, index) /\ searches \in Seq(Search)
  BY TInvFacts
<1>3. N \subseteq Values
  BY <1>2, NodesAre
<1>4. PICK b \in Nat : \A r \in ToSet(list) : val[r] <= b
  BY <1>2, Bounded
<1>5. \A v \in N : v \in 0 .. b
  <2> TAKE v \in N
  <2> DEFINE r == Head(index[v])
  <2>1. val[r] = v /\ r \in ToSet(list)
    BY <1>2, NodeIs
  <2> HIDE DEF r
  <2>2. v \in Nat /\ v <= b
    BY <1>3, <1>4, <2>1, DataAssumption
  <2> QED BY <2>2
<1> HIDE DEF N
<1>6. \E v \in N : \A w \in N : w <= v
  BY <1>1, <1>5, GreatestNatural
<1>7. at' \in N
  BY <1>1, <1>6
<1> DEFINE S == {}
<1>8. S \subseteq Rows /\ IsFiniteSet(S)
  BY FS_EmptySet
<1>9. searches' = Touch(searches, S)
  <2>1. \A i \in DOMAIN searches : [searches[i] EXCEPT !.touched = @ \cup S] = searches[i]
    <3> TAKE i \in DOMAIN searches
    <3>1. searches[i] \in Search
      BY <1>2
    <3> DEFINE f == searches[i]
    <3> HIDE DEF f
    <3>2. [f EXCEPT !.touched = @ \cup S] = f
      BY <3>1 DEF Search, f
    <3> QED BY <3>2 DEF f
  <2>2. Touch(searches, S) = [i \in DOMAIN searches |-> searches[i]]
    BY <2>1 DEF Touch
  <2> QED BY <1>1, <1>2, <2>2
<1> HIDE DEF S
<1>10. Grows(list, list', S)
  BY <1>1, GrowsNot
<1>11. Indexed(list', val', index')
  BY <1>1, <1>2
<1> QED BY <1>1, <1>2, <1>3, <1>7, <1>8, <1>9, <1>10, <1>11, NamesRight DEF Pointer

LEMMA CommandsRight ==
  ASSUME TInv, Careful, Commands
  PROVE  TInv'
BY StoreRight, SetRight, DeleteRight, ResetRight, IndexRangeRight DEF Commands

-----------------------------------------------------------------------------
(* Cursors.                                                                *)

\* Cursors change and nothing else.
LEMMA CursorsChange ==
  ASSUME TInv, UNCHANGED <<share, list, val, index, at, searches>>,
         DOMAIN cursors' \subseteq Names, published' \in BOOLEAN, cursorLock' \in BOOLEAN,
         \A n \in DOMAIN cursors' :
           /\ cursors'[n] \in Cursor /\ ToSet(cursors'[n].tranTable) \subseteq ToSet(list)
           /\ cursors'[n].offsetLimit <= Len(cursors'[n].tranTable)
  PROVE  TInv'
<1>1. TypeOK'
  BY DEF TInv, TypeOK
<1>2. CursorsRight'
  BY DEF CursorsRight
<1>3. Indexed(list, val, index)' /\ OneFollows'
  BY DEF TInv, Indexed, OneFollows
<1>4. AllRight'
  BY DEF TInv, AllRight
<1> QED BY <1>1, <1>2, <1>3, <1>4 DEF TInv

LEMMA CursorsAre ==
  ASSUME TInv
  PROVE  /\ DOMAIN cursors \subseteq Names /\ published \in BOOLEAN /\ cursorLock \in BOOLEAN
         /\ \A n \in DOMAIN cursors :
              /\ cursors[n] \in Cursor /\ ToSet(cursors[n].tranTable) \subseteq ToSet(list)
              /\ cursors[n].offsetLimit <= Len(cursors[n].tranTable)
BY DEF TInv, TypeOK, CursorsRight

LEMMA CursorMovesRight ==
  ASSUME TInv, NEW n \in Names, CursorNext(n) \/ CursorReset(n)
  PROVE  TInv'
<1>1. n \in DOMAIN cursors /\ cursors[n] \in Cursor
  BY CursorsAre DEF CursorNext, CursorReset, CursorIs
<1> DEFINE c == cursors[n]
<1>2. \E k \in Nat : cursors' = [cursors EXCEPT ![n].tranIndex = k]
  <2>1. c.tranIndex + 1 \in Nat /\ c.offset \in Nat
    BY <1>1 DEF Cursor
  <2>2. CASE CursorNext(n)
    BY <2>1, <2>2 DEF CursorNext
  <2>3. CASE CursorReset(n)
    BY <2>1, <2>3 DEF CursorReset
  <2> QED BY <2>2, <2>3
<1>3. PICK k \in Nat : cursors' = [cursors EXCEPT ![n].tranIndex = k]
  BY <1>2
<1>4. UNCHANGED <<share, list, val, index, at, searches, published, cursorLock>>
  BY DEF CursorNext, CursorReset, table, locks
<1>5. /\ DOMAIN cursors' = DOMAIN cursors
      /\ \A m \in DOMAIN cursors : cursors'[m] = IF m = n THEN [c EXCEPT !.tranIndex = k] ELSE cursors[m]
  BY <1>3
<1> DEFINE d == [c EXCEPT !.tranIndex = k]
<1>6. c \in Cursor
  BY <1>1
<1> HIDE DEF c
<1>7. d \in Cursor /\ d.tranTable = c.tranTable /\ d.offsetLimit = c.offsetLimit
  BY <1>6 DEF Cursor
<1> HIDE DEF d
<1>8. \A m \in DOMAIN cursors' :
        /\ cursors'[m] \in Cursor /\ ToSet(cursors'[m].tranTable) \subseteq ToSet(list)
        /\ cursors'[m].offsetLimit <= Len(cursors'[m].tranTable)
  BY <1>1, <1>5, <1>7, CursorsAre DEF c, d
<1> QED BY <1>4, <1>5, <1>8, CursorsAre, CursorsChange

LEMMA DestroyRight ==
  ASSUME TInv, NEW n \in Names, Destroy(n)
  PROVE  TInv'
<1> DEFINE lock == cursorLock \/ cursors[n].locked
<1>1. /\ DOMAIN cursors' = DOMAIN cursors \ {n}
      /\ \A m \in DOMAIN cursors' : cursors'[m] = cursors[m]
  BY DEF Destroy, Restrict
<1>2. /\ cursorLock' = (lock /\ ~LastCursor(n))
      /\ published' = (published /\ ~(lock /\ LastCursor(n)))
      /\ UNCHANGED <<share, list, val, index, at, searches>>
  BY DEF Destroy, table
<1>3. cursorLock' \in BOOLEAN /\ published' \in BOOLEAN
  BY <1>2
<1> QED BY <1>1, <1>2, <1>3, CursorsAre, CursorsChange

LEMMA DestroyAllRight ==
  ASSUME TInv, DestroyAll
  PROVE  TInv'
<1>1. DOMAIN cursors' = {} /\ cursorLock' \in BOOLEAN
  <2>1. cursors' = <<>> /\ cursorLock' = FALSE
    BY DEF DestroyAll
  <2>2. cursorLock' \in BOOLEAN
    BY <2>1
  <2>3. DOMAIN cursors' = {}
    BY <2>1
  <2> QED BY <2>2, <2>3
<1>2. published' = (published /\ ~cursorLock /\ \A n \in DOMAIN cursors : ~cursors[n].locked)
  BY DEF DestroyAll
<1>3. published' \in BOOLEAN
  BY <1>2
<1>4. UNCHANGED <<share, list, val, index, at, searches>>
  BY DEF DestroyAll, table
<1> QED BY <1>1, <1>3, <1>4, CursorsChange

LEMMA WithCursorsRight ==
  ASSUME TInv, Careful, WithCursors
  PROVE  TInv'
BY CursorMovesRight, DestroyRight, DestroyAllRight, CursorSetRight DEF WithCursors

-----------------------------------------------------------------------------
(* Searches begin and end.                                                 *)

\* A search does not notice what happens to skip->curl when it does not follow it.
LEMMA SameRight ==
  ASSUME NEW f \in Search, NEW l, NEW vl, NEW ix, NEW a, NEW b, Right(f, l, vl, ix, a),
         Follows(f) => b = a
  PROVE  Right(f, l, vl, ix, b)
<1> DEFINE S == {}
           g == [f EXCEPT !.touched = @ \cup S]
<1>1. S \subseteq Rows /\ IsFiniteSet(S)
  BY FS_EmptySet
<1>2. g = f
  BY DEF Search
<1>3. Grows(l, l, S)
  BY GrowsNot
<1>4. Follows(f) => S = {} /\ vl = vl /\ ix = ix /\ b = a
  OBVIOUS
<1> HIDE DEF S
<1>5. Right(g, l, vl, ix, b)
  BY <1>1, <1>3, <1>4, StaysRight
<1> HIDE DEF g
<1> QED BY <1>2, <1>5

LEMMA NewSearchFields ==
  ASSUME TInv, NEW o \in Asks, list # <<>>
  PROVE  LET h == NewSearch(o)
         IN  /\ h \in Search /\ h.ask = o /\ h.walk = Walk(o) /\ h.mode = Mode(o)
             /\ h.phase = "walk" /\ h.stage \in {"poll", "match", "seek"}
             /\ (AtRow(h) <=> Walk(o) = "list") /\ (h.stage = "seek" <=> Walk(o) # "list")
             /\ h.row = (IF Walk(o) = "list" THEN list[1] ELSE NoRow)
             /\ h.left = (IF o.find \in {"in", "keys"} THEN o.arg ELSE <<>>)
             /\ h.matchCount = 0 /\ h.offsetLimit = o.offset + o.limit /\ h.tranTable = <<>> /\ h.found = <<>>
             /\ h.room = Room(o) /\ h.was.rows = ToSet(list) /\ h.touched = {}
<1> DEFINE w == Walk(o)
           so == Sorts(o)
           mo == Mode(o)
           st == IF w = "list" THEN Arrive(o) ELSE "seek"
           ro == IF w = "list" THEN list[1] ELSE NoRow
           le == IF o.find \in {"in", "keys"} THEN o.arg ELSE <<>>
           of == o.offset + o.limit
           rm == Room(o)
           wa == [rows |-> ToSet(list), val |-> val]
           h == [ask |-> o, walk |-> w, sorts |-> so, mode |-> mo, phase |-> "walk", stage |-> st,
                 row |-> ro, left |-> le, steps |-> 0, matchCount |-> 0, offsetLimit |-> of,
                 tranTable |-> <<>>, room |-> rm, walkIndex |-> 0, result |-> "ok",
                 was |-> wa, found |-> <<>>, acted |-> <<>>, touched |-> {}, cut |-> FALSE]
<1>1. /\ list \in Seq(Rows) /\ Len(list) \in Nat /\ ToSet(list) \subseteq Rows /\ val \in [Rows -> Values]
  BY TInvFacts
<1>2. w \in {"list", "hash", "index"}
  BY DEF Walk
<1>3. so \in BOOLEAN
  BY DEF Sorts
<1>4. mo \in {"none", "provisional", "defer"}
  BY DEF Mode
<1>5. /\ st \in {"poll", "match", "seek"} /\ (w = "list" => st \in {"poll", "match"})
      /\ (st = "seek" <=> w # "list")
  BY DEF Arrive
<1>6. ro \in Rows \cup {NoRow}
  BY <1>1
<1>7. o.offset \in Nat /\ o.limit \in Nat /\ o.arg \in Seq(Values \cup Rows)
  BY AskFields
<1>8. le \in Seq(Values \cup Rows) /\ of \in Nat
  <2>1. <<>> \in Seq(Values \cup Rows)
    OBVIOUS
  <2> QED BY <1>7, <2>1
<1>9. rm \in Nat
  BY <1>1 DEF Room
<1>10. wa \in [rows : SUBSET Rows, val : [Rows -> Values]] /\ wa.rows = ToSet(list)
  BY <1>1
<1>11. NewSearch(o) = h
  BY DEF NewSearch
<1> HIDE DEF w, so, mo, st, ro, le, of, rm, wa
<1>12. <<>> \in Seq(Rows)
  OBVIOUS
<1>13. h \in Search
  BY <1>2, <1>3, <1>4, <1>5, <1>6, <1>8, <1>9, <1>10, <1>12 DEF Search
<1>14. AtRow(h) <=> w = "list"
  BY <1>5 DEF AtRow
<1> QED BY <1>5, <1>10, <1>11, <1>13, <1>14 DEF w, mo, ro, le, of, rm

LEMMA StartRight ==
  ASSUME TInv, Careful, NEW o \in Asks, Start(o)
  PROVE  TInv'
<1> DEFINE n == Len(searches)
           h == NewSearch(o)
<1>1. /\ MayStart(o) /\ list # <<>> /\ published' = (share = "reader")
      /\ searches' = Append(searches, h) /\ UNCHANGED <<share, list, val, index, cursors, cursorLock>>
      /\ at' = IF Walk(o) # "index" THEN at
               ELSE IF o.find \in {"le", "in"} THEN First(Nodes(index))
               ELSE First({v \in Nodes(index) : v >= o.arg[1]})
  BY DEF Start, MayCall, table
<1>2. /\ h \in Search /\ h.ask = o /\ h.walk = Walk(o) /\ h.mode = Mode(o)
      /\ h.phase = "walk" /\ h.stage \in {"poll", "match", "seek"}
      /\ (AtRow(h) <=> Walk(o) = "list") /\ (h.stage = "seek" <=> Walk(o) # "list")
      /\ h.row = (IF Walk(o) = "list" THEN list[1] ELSE NoRow)
      /\ h.left = (IF o.find \in {"in", "keys"} THEN o.arg ELSE <<>>)
      /\ h.matchCount = 0 /\ h.offsetLimit = o.offset + o.limit /\ h.tranTable = <<>> /\ h.found = <<>>
      /\ h.room = Room(o) /\ h.was.rows = ToSet(list) /\ h.touched = {}
  BY <1>1, NewSearchFields
<1>3. /\ list \in Seq(Rows) /\ IsInjective(list) /\ ToSet(list) \subseteq Rows
      /\ val \in [Rows -> Values] /\ at \in Pointer /\ Indexed(list, val, index)
      /\ searches \in Seq(Search) /\ n \in Nat /\ DOMAIN searches = 1 .. n
      /\ \A i \in DOMAIN searches : searches[i] \in Search /\ Right(searches[i], list, val, index, at)
  BY TInvFacts
<1>4. Nodes(index) \subseteq Values
  BY <1>3, NodesAre
<1>5. /\ at' \in Pointer /\ (Walk(o) = "index" => at' \in Nodes(index) \cup {End})
      /\ (Walk(o) # "index" => at' = at)
  <2> DEFINE N == Nodes(index)
             M == {v \in N : v >= o.arg[1]}
  <2>1. N \subseteq Values /\ M \subseteq Values /\ M \subseteq N
    BY <1>4
  <2>2. at' = at \/ at' = First(N) \/ at' = First(M)
    BY <1>1
  <2>3. Walk(o) = "index" => at' = First(N) \/ at' = First(M)
    BY <1>1
  <2>6. ASSUME Walk(o) # "index" PROVE at' = at
    BY <1>1, <2>6
  <2> HIDE DEF N, M
  <2>4. First(N) \in Pointer /\ First(N) \in N \cup {End}
    BY <2>1, FirstIs
  <2>5. First(M) \in Pointer /\ First(M) \in M \cup {End}
    BY <2>1, FirstIs
  <2> QED BY <1>3, <2>1, <2>2, <2>3, <2>4, <2>5, <2>6 DEF N
<1>6. Walk(o) = "index" => ~Following
  BY DEF Walk
<1>7. o.tran = "update" => ~Following
  BY <1>1 DEF MayStart, MayMove
<1>8. /\ Walk(o) = "hash" => o.find = "keys"
      /\ Walk(o) \in {"list", "hash", "index"}
  BY DEF Walk
<1>9. Sensible(o)
  BY AskFields
<1> HIDE DEF h, n
<1>10. \A q : q \notin ToSet(h.tranTable) /\ q \notin ToSet(h.found)
  BY <1>2, ToSetIs
<1>11. Findable(h) = ToSet(list)
  BY <1>2 DEF Findable
<1>12. Stands(h, list, val, index, at')
  <2>1. Walk(o) = "list" => h.row \in ToSet(list)
    <3>1. 1 \in DOMAIN list
      BY <1>1, <1>3
    <3> QED BY <1>2, <3>1, ToSetIs
  <2>2. h.walk = "hash" => IsInjective(h.left) /\ ToSet(h.left) \subseteq Rows
    BY <1>2, <1>8, <1>9 DEF Sensible
  <2>3. h.walk = "index" /\ h.ask.find = "in" => IsInjective(h.left) /\ ToSet(h.left) \subseteq Values
    BY <1>2, <1>9 DEF Sensible
  <2> QED BY <1>2, <1>5, <1>11, <2>1, <2>2, <2>3 DEF Stands
<1>13. Behind(h, list, val, index, at')
  BY <1>10 DEF Behind
<1>14. Kept(h, list)
  BY <1>2, LeadsIn DEF Kept
<1>15. Held(h, list)
  <2>1. IsFiniteSet(ToSet(list)) /\ Cardinality(ToSet(list)) = Len(list)
    BY <1>3, SeqCounts
  <2>2. IsInjective(h.tranTable) /\ IsInjective(h.found) /\ Len(h.found) = 0
    BY <1>2 DEF IsInjective
  <2>3. h.room = IF h.mode = "none" THEN 0 ELSE Cardinality(h.was.rows)
    BY <1>2, <2>1 DEF Room
  <2>4. IsFiniteSet(h.touched)
    BY <1>2, FS_EmptySet
  <2> QED BY <1>2, <1>10, <2>1, <2>2, <2>3, <2>4 DEF Held
<1>16. Right(h, list, val, index, at')
  BY <1>2, <1>12, <1>13, <1>14, <1>15 DEF Right, Stages
<1>17. /\ searches' \in Seq(Search) /\ DOMAIN searches' = 1 .. n + 1 /\ searches'[n + 1] = h
       /\ \A i \in 1 .. n : searches'[i] = searches[i]
  BY <1>1, <1>2, <1>3 DEF n
<1>18. \A i \in 1 .. n + 1 : i \in 1 .. n \/ i = n + 1
  BY <1>3
<1>19. \A i \in 1 .. n : Follows(searches[i]) => Following
  BY <1>3 DEF Following, Follows
<1>20. ASSUME NEW i \in 1 .. n + 1 PROVE Right(searches'[i], list, val, index, at')
  <2>1. CASE i = n + 1
    BY <1>16, <1>17, <2>1
  <2>2. CASE i \in 1 .. n
    <3> DEFINE f == searches[i]
    <3>1. f \in Search /\ Right(f, list, val, index, at)
      BY <1>3, <2>2
    <3>2. Follows(f) => at' = at
      BY <1>5, <1>6, <1>19, <2>2
    <3>3. searches'[i] = f
      BY <1>17, <2>2
    <3> HIDE DEF f
    <3> QED BY <3>1, <3>2, <3>3, SameRight
  <2> QED BY <1>18, <2>1, <2>2
<1>21. AllRight'
  BY <1>1, <1>17, <1>20 DEF AllRight
<1>22. OneFollows'
  <2> SUFFICES ASSUME NEW i \in 1 .. n + 1, NEW j \in 1 .. n + 1, i < j, Follows(searches'[i])
               PROVE  ~Follows(searches'[j]) /\ searches'[j].ask.tran # "update"
    BY <1>17 DEF OneFollows
  <2>1. i \in 1 .. n /\ searches'[i] = searches[i]
    BY <1>3, <1>17
  <2>2. CASE j = n + 1
    BY <1>2, <1>6, <1>7, <1>17, <1>19, <2>1, <2>2 DEF Follows
  <2>3. CASE j \in 1 .. n
    BY <1>3, <1>17, <2>1, <2>3 DEF TInv, OneFollows
  <2> QED BY <1>18, <2>2, <2>3
<1>23. TypeOK'
  <2>1. published' = (share = "reader")
    BY <1>1
  <2>2. published' \in BOOLEAN
    BY <2>1
  <2> QED BY <1>1, <1>5, <1>17, <2>2 DEF TInv, TypeOK
<1>24. Indexed(list, val, index)' /\ CursorsRight'
  BY <1>1 DEF TInv, Indexed, CursorsRight
<1> QED BY <1>21, <1>22, <1>23, <1>24 DEF TInv

\* A cursor is made.
CursorIn(c, l) ==
  c \in Cursor /\ ToSet(c.tranTable) \subseteq ToSet(l) /\ c.offsetLimit <= Len(c.tranTable)

LEMMA OpenRight ==
  ASSUME TInv, NEW n \in Names, NEW c, CursorIn(c, list), Open(n, c)
  PROVE  /\ DOMAIN cursors' \subseteq Names /\ cursorLock' \in BOOLEAN
         /\ \A m \in DOMAIN cursors' : CursorIn(cursors'[m], list)
<1>1. /\ DOMAIN cursors \subseteq Names /\ cursorLock \in BOOLEAN
      /\ \A m \in DOMAIN cursors : CursorIn(cursors[m], list)
  BY CursorsAre DEF CursorIn
<1>2. /\ DOMAIN cursors' = DOMAIN cursors \cup {n}
      /\ \A m \in DOMAIN cursors' : cursors'[m] = IF m = n THEN c ELSE cursors[m]
  BY DEF Open
<1>3. cursorLock' = (cursorLock \/ (n \in DOMAIN cursors /\ cursors[n].locked))
  BY DEF Open
<1>4. cursorLock' \in BOOLEAN
  BY <1>3
<1> QED BY <1>1, <1>2, <1>4

LEMMA EmptyCursorRight ==
  CursorIn(EmptyCursor, list)
<1>1. EmptyCursor.tranTable = <<>> /\ EmptyCursor.offsetLimit = 0
  BY DEF EmptyCursor
<1>2. ToSet(EmptyCursor.tranTable) = {} /\ EmptyCursor.offsetLimit <= Len(EmptyCursor.tranTable)
  BY <1>1 DEF ToSet
<1>3. EmptyCursor \in Cursor
  BY DEF EmptyCursor, Cursor
<1> QED BY <1>2, <1>3 DEF CursorIn

\* The innermost search returns.
LEMMA LeaveRight ==
  ASSUME TInv, searches # <<>>, Leave, UNCHANGED <<share, list, val, index>>,
         published' \in BOOLEAN, cursorLock' \in BOOLEAN, DOMAIN cursors' \subseteq Names,
         \A n \in DOMAIN cursors' : CursorIn(cursors'[n], list)
  PROVE  TInv'
<1> DEFINE n == Len(searches)
<1>1. /\ searches \in Seq(Search) /\ n \in Nat \ {0} /\ DOMAIN searches = 1 .. n /\ at \in Pointer
      /\ \A i \in 1 .. n : Right(searches[i], list, val, index, at)
  BY TInvFacts
<1>2. searches' = SubSeq(searches, 1, n - 1) /\ at' = IF n = 1 THEN End ELSE at
  BY DEF Leave, Front
<1>3. searches' \in Seq(Search) /\ Len(searches') = n - 1
  BY <1>1, <1>2
<1>4. DOMAIN searches' = 1 .. n - 1 /\ \A i \in 1 .. n - 1 : searches'[i] = searches[i] /\ i \in 1 .. n
  BY <1>1, <1>2, <1>3
<1>5. at' \in Pointer /\ (1 .. n - 1 # {} => at' = at)
  BY <1>1, <1>2 DEF Pointer
<1> HIDE DEF n
<1>6. TypeOK'
  BY <1>3, <1>5 DEF TInv, TypeOK, CursorIn
<1>7. Indexed(list, val, index)'
  BY DEF TInv, Indexed
<1>8. OneFollows'
  BY <1>1, <1>4 DEF TInv, OneFollows
<1>9. CursorsRight'
  BY DEF CursorsRight, CursorIn
<1>10. AllRight'
  BY <1>1, <1>4, <1>5 DEF AllRight
<1> QED BY <1>6, <1>7, <1>8, <1>9, <1>10 DEF TInv

LEMMA ReturnCursorRight ==
  ASSUME TInv, ReturnCursor
  PROVE  TInv'
<1> DEFINE f == Top
           b == share = "reader"
           c == [tranTable |-> f.tranTable, offset |-> f.ask.offset,
                 offsetLimit |-> f.offsetLimit, tranIndex |-> f.ask.offset, locked |-> b]
<1>1. /\ searches # <<>> /\ f.stage = "cursor" /\ Open(f.ask.name, c) /\ Leave
      /\ UNCHANGED <<share, list, val, index, published>>
  BY DEF ReturnCursor, AtStage, table
<1>2. f \in Search /\ Stages(f) /\ Held(f, list)
  BY <1>1, TopIs DEF Right
<1>3. /\ f.tranTable \in Seq(Rows) /\ f.offsetLimit \in Nat /\ f.ask.offset \in Nat
      /\ f.ask.name \in Names
  BY <1>2, SearchFields, AskFields
<1>4. ToSet(f.tranTable) \subseteq ToSet(list) /\ f.offsetLimit <= Len(f.tranTable)
  BY <1>1, <1>2 DEF Held
<1>5. b \in BOOLEAN
  OBVIOUS
<1> HIDE DEF b, f
<1>6. c \in Cursor /\ c.tranTable = f.tranTable /\ c.offsetLimit = f.offsetLimit
  BY <1>3, <1>5 DEF Cursor
<1> HIDE DEF c
<1>7. CursorIn(c, list)
  BY <1>4, <1>6 DEF CursorIn
<1> DEFINE name == f.ask.name
<1>8. name \in Names /\ Open(name, c)
  BY <1>1, <1>3
<1> HIDE DEF name
<1>9. /\ DOMAIN cursors' \subseteq Names /\ cursorLock' \in BOOLEAN
      /\ \A m \in DOMAIN cursors' : CursorIn(cursors'[m], list)
  BY <1>7, <1>8, OpenRight
<1>10. published' \in BOOLEAN
  BY <1>1, CursorsAre
<1> QED BY <1>1, <1>9, <1>10, LeaveRight

LEMMA ReturnRight ==
  ASSUME TInv, Return
  PROVE  TInv'
<1>1. /\ searches # <<>> /\ published' = FALSE /\ Leave /\ UNCHANGED <<share, list, val, index>>
      /\ \/ UNCHANGED <<cursors, cursorLock>>
         \/ Open(Top.ask.name, EmptyCursor)
  BY DEF Return, AtStage, Unlock, table
<1> DEFINE name == Top.ask.name
<1>2. name \in Names
  BY <1>1, TopIs, SearchFields, AskFields
<1>3. /\ DOMAIN cursors' \subseteq Names /\ cursorLock' \in BOOLEAN
      /\ \A m \in DOMAIN cursors' : CursorIn(cursors'[m], list)
  <2>1. CASE UNCHANGED <<cursors, cursorLock>>
    BY <2>1, CursorsAre DEF CursorIn
  <2>2. CASE Open(name, EmptyCursor)
    <3> HIDE DEF name
    <3> QED BY <1>2, <2>2, OpenRight, EmptyCursorRight
  <2> QED BY <1>1, <2>1, <2>2
<1>4. published' \in BOOLEAN
  BY <1>1
<1> QED BY <1>1, <1>3, <1>4, LeaveRight

LEMMA StartOnNothingRight ==
  ASSUME TInv, NEW o \in Asks, StartOnNothing(o)
  PROVE  TInv'
<1>1. /\ published' = FALSE /\ UNCHANGED <<share, list, val, index, at, searches>>
      /\ \/ UNCHANGED <<cursors, cursorLock>>
         \/ Open(o.name, EmptyCursor)
  BY DEF StartOnNothing, table
<1>2. /\ DOMAIN cursors' \subseteq Names /\ cursorLock' \in BOOLEAN
      /\ \A m \in DOMAIN cursors' : CursorIn(cursors'[m], list)
  <2>1. CASE UNCHANGED <<cursors, cursorLock>>
    BY <2>1, CursorsAre DEF CursorIn
  <2>2. CASE Open(o.name, EmptyCursor)
    <3> DEFINE name == o.name
    <3>1. name \in Names /\ Open(name, EmptyCursor)
      BY <2>2, AskFields
    <3> HIDE DEF name
    <3> QED BY <3>1, OpenRight, EmptyCursorRight
  <2> QED BY <1>1, <2>1, <2>2
<1>3. published' \in BOOLEAN
  BY <1>1
<1> QED BY <1>1, <1>2, <1>3, CursorsChange DEF CursorIn

-----------------------------------------------------------------------------
(* Init may start with any table.                                          *)

LEMMA InitRight == Init => TInv
<1> SUFFICES ASSUME Init PROVE TInv
  OBVIOUS
<1>1. /\ share \in Shares /\ val \in [Rows -> Values] /\ searches = <<>> /\ cursors = <<>>
      /\ at = End /\ published = FALSE /\ cursorLock = FALSE
      /\ index = [v \in Values |-> Only(list, {r \in Rows : val[r] = v})]
  BY DEF Init
<1>2. list \in Seq(Rows) /\ IsInjective(list)
  <2>1. PICK S \in SUBSET Rows : IsFiniteSet(S) /\ list \in SetToSeqs(S)
    BY DEF Init
  <2> DEFINE m == Cardinality(S)
  <2>2. m \in Nat
    BY <2>1, FS_CardinalityType
  <2>3. list \in [1 .. m -> S] /\ \A i, j \in 1 .. m : i # j => list[i] # list[j]
    BY <2>1 DEF SetToSeqs
  <2> HIDE DEF m
  <2>4. IsInjective(list)
    BY <2>3 DEF IsInjective
  <2>5. list \in [1 .. m -> Rows]
    BY <2>3
  <2> QED BY <2>2, <2>4, <2>5
<1>3. ToSet(list) \subseteq Rows
  BY <1>2, SeqIs
<1>4. ASSUME NEW v \in Values
      PROVE  index[v] \in Seq(Rows) /\ IsInjective(index[v]) /\ ToSet(index[v]) = {r \in ToSet(list) : val[r] = v}
  <2> DEFINE S == {r \in Rows : val[r] = v}
  <2>1. index[v] = Only(list, S)
    BY <1>1
  <2> HIDE DEF S
  <2>2. index[v] \in Seq(Rows) /\ IsInjective(index[v]) /\ ToSet(index[v]) = ToSet(list) \cap S
    BY <1>2, <2>1, OnlyIs
  <2> QED BY <1>3, <2>2 DEF S
<1>5. Indexed(list, val, index)
  <2>1. index \in [Values -> Seq(Rows)]
    BY <1>1, <1>4
  <2> QED BY <1>4, <2>1 DEF Indexed
<1>6. DOMAIN searches = {} /\ DOMAIN cursors = {}
  BY <1>1
<1>7. TypeOK
  <2>1. searches \in Seq(Search) /\ at \in Pointer
    BY <1>1 DEF Pointer
  <2>2. published \in BOOLEAN
    BY <1>1
  <2>3. cursorLock \in BOOLEAN
    BY <1>1
  <2>4. index \in [Values -> Seq(Rows)]
    BY <1>5 DEF Indexed
  <2> QED BY <1>1, <1>2, <1>6, <2>1, <2>2, <2>3, <2>4 DEF TypeOK
<1>8. OneFollows /\ CursorsRight /\ AllRight
  BY <1>6 DEF OneFollows, CursorsRight, AllRight
<1> QED BY <1>5, <1>7, <1>8 DEF TInv

LEMMA SearchingRight ==
  ASSUME TInv, IInv, Careful, Searching
  PROVE  TInv'
<1>1. CASE \E o \in Asks : StartOnNothing(o) \/ Start(o)
  BY <1>1, StartOnNothingRight, StartRight
<1>2. CASE \E c \in {"ok", "break", "return", "error"} : Act(c) \/ ActLater(c)
  BY <1>2, ActRight, ActLaterRight
<1>3. CASE SeekKey \/ SeekNode \/ Polled \/ Match \/ Post
  BY <1>3, SeekKeyRight, SeekNodeRight, PolledRight, MatchRight, PostRight
<1>4. CASE Commit \/ CommitDelete \/ CommitUpdate \/ CommitFails
  BY <1>4, CommitRight, CommitDeleteRight, CommitUpdateRight, CommitFailsRight
<1>5. CASE ReturnCursor \/ Return
  BY <1>5, ReturnCursorRight, ReturnRight
<1> QED BY <1>1, <1>2, <1>3, <1>4, <1>5 DEF Searching

LEMMA StepRight == Careful /\ IInv /\ TInv /\ [Next]_vars => TInv'
<1> SUFFICES ASSUME Careful, IInv, TInv, [Next]_vars PROVE TInv'
  OBVIOUS
<1>1. CASE UNCHANGED vars
  <2>1. /\ UNCHANGED <<share, list, val, index, at, searches, cursors, published, cursorLock>>
    BY <1>1 DEF vars, table, locks
  <2> QED BY <2>1 DEF TInv, TypeOK, Indexed, OneFollows, CursorsRight, AllRight
<1> QED BY <1>1, SearchingRight, CommandsRight, WithCursorsRight DEF Next

LEMMA AlwaysRight == Careful => (Spec => []TInv)
<1> SUFFICES ASSUME Careful PROVE Spec => []TInv
  OBVIOUS
<1>1. IInv /\ TInv /\ [Next]_vars => TInv'
  BY StepRight
<1> QED BY <1>1, InitRight, Invariance, PTL DEF Spec

-----------------------------------------------------------------------------
\* A search never holds a pointer to a row that is gone, and neither does a cursor,
\* if scripts are Careful: not in the walk it follows, not in its transaction table,
\* whatever is stored, set, opened and searched in its scripts (ctable_search.c).
THEOREM RowsStayLive == Careful => (Spec => []RowsAreLive)
<1>1. ASSUME TInv PROVE RowsAreLive
  <2>1. ASSUME NEW i \in DOMAIN searches
        PROVE  Pointers(searches[i]) \subseteq ToSet(list)
    <3> DEFINE f == searches[i]
    <3>1. f \in Search /\ Right(f, list, val, index, at)
      BY <1>1, TInvFacts
    <3> HIDE DEF f
    <3>2. f.stage # "done" => ToSet(f.tranTable) \subseteq ToSet(list)
      BY <3>1 DEF Right, Held
    <3>3. f.phase = "walk" /\ AtRow(f) => f.row \in ToSet(list)
      BY <3>1 DEF Right, Stands
    <3>4. f.phase = "after" /\ AtRow(f) => f.row \in ToSet(f.tranTable)
      BY <3>1 DEF Right, Held, Stages, AtRow
    <3>5. f.phase \in {"walk", "after"}
      BY <3>1, SearchFields
    <3>6. Pointers(f) \subseteq ToSet(list)
      BY <3>2, <3>3, <3>4, <3>5 DEF Pointers, AtRow
    <3> QED BY <3>6 DEF f
  <2> QED BY <1>1, <2>1 DEF RowsAreLive, TInv, CursorsRight
<1> QED BY <1>1, AlwaysRight, PTL

\* The transaction table has room for every row a search finds, if scripts are Careful:
\* as many as the table had when the search began, and, when the keys of a list are
\* looked up, those stored since (ctable_PrepareTransactions).
THEOREM TableIsLargeEnough == Careful => (Spec => []TableFits)
<1>1. ASSUME TInv PROVE TableFits
  <2>1. ASSUME NEW i \in DOMAIN searches
        PROVE  LET f   == searches[i]
                   new == IF f.walk = "hash" THEN f.touched \ f.was.rows ELSE {}
               IN  Len(f.tranTable) <= f.room + Cardinality(new)
    <3> DEFINE f   == searches[i]
               new == IF f.walk = "hash" THEN f.touched \ f.was.rows ELSE {}
               was == f.was.rows
               t   == f.tranTable
    <3>1. f \in Search /\ Right(f, list, val, index, at)
      BY <1>1, TInvFacts
    <3> HIDE DEF f
    <3>2. /\ t \in Seq(Rows) /\ IsInjective(t) /\ ToSet(t) \subseteq Findable(f)
          /\ IsFiniteSet(was) /\ IsFiniteSet(f.touched)
          /\ f.room = (IF f.mode = "none" THEN 0 ELSE Cardinality(was))
          /\ (f.mode = "none" => t = <<>>)
      BY <3>1, SearchFields DEF Right, Held
    <3>3. Findable(f) = was \cup new
      BY DEF Findable
    <3>4. IsFiniteSet(new)
      <4>1. new \subseteq f.touched
        OBVIOUS
      <4> HIDE DEF new
      <4> QED BY <3>2, <4>1, FS_Subset
    <3> HIDE DEF was, new, t
    <3>5. IsFiniteSet(was \cup new) /\ Cardinality(was \cup new) <= Cardinality(was) + Cardinality(new)
      <4>1. /\ IsFiniteSet(was \cup new)
            /\ Cardinality(was \cup new) = Cardinality(was) + Cardinality(new) - Cardinality(was \cap new)
        BY <3>2, <3>4, FS_Union
      <4>2. IsFiniteSet(was \cap new)
        BY <3>2, FS_Intersection
      <4>3. /\ Cardinality(was) \in Nat /\ Cardinality(new) \in Nat /\ Cardinality(was \cap new) \in Nat
        BY <3>2, <3>4, <4>2, FS_CardinalityType
      <4> QED BY <4>1, <4>3
    <3>6. Cardinality(ToSet(t)) = Len(t) /\ Cardinality(ToSet(t)) <= Cardinality(was \cup new)
      <4>1. Cardinality(ToSet(t)) = Len(t)
        BY <3>2, SeqCounts
      <4> DEFINE T == ToSet(t)
                 U == was \cup new
      <4>2. T \subseteq U /\ IsFiniteSet(U)
        BY <3>2, <3>3, <3>5
      <4> HIDE DEF T, U
      <4>3. Cardinality(T) <= Cardinality(U)
        BY <4>2, FS_Subset
      <4> QED BY <4>1, <4>3 DEF T, U
    <3>7. Cardinality(was) \in Nat /\ Cardinality(new) \in Nat /\ Len(t) \in Nat
          /\ Cardinality(was \cup new) \in Nat
      BY <3>2, <3>4, <3>5, FS_CardinalityType
    <3>8. Len(t) <= f.room + Cardinality(new)
      <4>1. CASE f.mode = "none"
        <5>1. Len(t) = 0 /\ f.room = 0
          BY <3>2, <4>1
        <5> QED BY <3>7, <5>1
      <4>2. CASE f.mode # "none"
        <5>1. f.room = Cardinality(was)
          BY <3>2, <4>2
        <5>2. Len(t) <= Cardinality(was) + Cardinality(new)
          BY <3>5, <3>6, <3>7
        <5> QED BY <5>1, <5>2
      <4> QED BY <4>1, <4>2
    <3> QED BY <3>8 DEF f, new, was, t
  <2> QED BY <1>1, <2>1 DEF TableFits, TInv
<1> QED BY <1>1, AlwaysRight, PTL

-----------------------------------------------------------------------------
(* What a search has found and done, given the list of rows l, the field   *)
(* vl, the index ix and skip->curl a.                                      *)

\* What follows from the options and the way to the rows.
Fixed(f) ==
  /\ f.sorts \/ f.ask.does = "cursor" => f.mode = "defer"
  /\ f.ask.tran # "none" => f.mode # "none"
  /\ f.ask.does = "count" => f.mode = "none"
  /\ f.ask.sort # "no" /\ ~f.sorts => f.walk = "index" /\ f.ask.find # "in"
  /\ f.walk = "index" => f.ask.find \in {"le", "eq", "ge", "in"}
  /\ f.walk = "hash" => f.ask.find = "keys"

\* The rows that a search has to find, whatever happens.
Owed(f)     == Due(f) \ f.touched
AllFound(f) == Owed(f) \subseteq ToSet(f.found)

\* A walk that is over has found them, unless a script or the limit broke it off.
Full(f)   == f.ask.limit > 0 /\ Len(f.found) = f.ask.offset + f.ask.limit
Enough(f) == AllFound(f) \/ (f.mode # "defer" /\ (f.cut \/ Full(f)))

\* The rows acted on are those found, from the offset on, in their order.
Source(f) == IF f.mode = "defer" THEN f.tranTable ELSE f.found
ActsOn(f) ==
  \A k \in DOMAIN f.acted :
    f.ask.offset + k \in DOMAIN Source(f) /\ f.acted[k] = Source(f)[f.ask.offset + k]

\* How many of the rows found so far are past the offset, and where the window ends.
Past(f) == IF f.ask.offset >= Len(f.found) THEN 0 ELSE Len(f.found) - f.ask.offset
Stop(f) ==
  IF f.ask.limit = 0 \/ f.ask.offset + f.ask.limit > Len(f.found)
  THEN Len(f.found) ELSE f.ask.offset + f.ask.limit

\* A walk along the index finds the rows in the order of their values.
InOrder(f) ==
  \A j \in DOMAIN f.found :
    /\ \A i \in 1 .. j : f.was.val[f.found[i]] <= f.was.val[f.found[j]]
    /\ \A q \in Due(f) : f.was.val[q] < f.was.val[f.found[j]] => \E i \in 1 .. j - 1 : f.found[i] = q

\* The nodes of the index a walk has come to.
Visited(f, vl, ix, a) ==
  {v \in Nodes(ix) :
     IF f.ask.find = "in" THEN v \notin ToSet(f.left)
     ELSE IF AtRow(f) THEN v <= vl[f.row] ELSE a = End \/ v < a}

\* The walk so far.
WalkDid(f, l, vl, ix, a) ==
  /\ f.stage \in {"seek", "poll", "match", "act"} => ~f.cut /\ f.result = "ok"
  /\ f.stage = "post" => f.result # "error" /\ (f.mode = "defer" => ~f.cut /\ f.result = "ok")
  /\ f.stage = "done" => f.result = "error"
  /\ f.stage = "act" =>
       /\ f.mode # "defer" /\ f.ask.does # "count" /\ f.ask.offset < Len(f.found)
       /\ f.found[Len(f.found)] = f.row
  /\ f.mode = "defer" \/ f.ask.does = "count" => f.acted = <<>>
  /\ f.mode # "defer" /\ f.ask.does # "count" =>
       Len(f.acted) = IF f.stage = "act" THEN Past(f) - 1 ELSE Past(f)
  /\ f.mode # "defer" /\ f.ask.limit > 0 =>
       /\ Len(f.found) <= f.ask.offset + f.ask.limit
       /\ f.stage \in {"seek", "poll", "match"} => Len(f.found) < f.ask.offset + f.ask.limit
  /\ AtRow(f) => \A q \in Owed(f) : Passed(f, q, l, vl, ix) => q \in ToSet(f.found)
  /\ f.stage = "seek" => \A q \in Owed(f) : Left(f, q, vl, a) => q \in ToSet(f.found)
  /\ f.stage = "post" => Enough(f)
  /\ AtRow(f) /\ f.walk # "list" => f.row \in Due(f) \cup f.touched
  /\ f.walk = "index" =>
       /\ f.stage = "seek" /\ f.ask.find \in {"eq", "ge"} => a = End \/ a >= f.ask.arg[1]
       /\ AtRow(f) \/ f.stage = "seek" => f.steps <= Cardinality(Visited(f, vl, ix, a))
  /\ (AtRow(f) \/ f.stage = "seek") /\ f.ask.find \in {"in", "keys"} =>
       ToSet(f.left) \subseteq ToSet(f.ask.arg)

\* What was found is in the transaction table, which is sorted if it has to be.
TableOfFound(f) ==
  /\ ToSet(f.tranTable) = ToSet(f.found) /\ Len(f.tranTable) = Len(f.found)
  /\ ~f.sorts => f.tranTable = f.found

InSort(f) ==
  \A i, j \in DOMAIN f.tranTable : i <= j =>
    LET v == f.was.val[f.tranTable[i]]
        w == f.was.val[f.tranTable[j]]
    IN  IF f.ask.sort = "down" THEN v >= w ELSE v <= w

\* After the walk.
AfterDid(f) ==
  /\ Enough(f)
  /\ f.mode # "none" => TableOfFound(f)
  /\ f.sorts /\ f.touched = {} /\ (f.stage # "done" \/ f.acted # <<>>) => InSort(f)
  /\ f.stage # "done" => f.mode # "none"
  /\ f.stage \in {"poll", "act"} =>
       /\ f.mode = "defer" /\ f.ask.does # "cursor" /\ ~f.cut /\ f.result = "ok" /\ ~OffsetLost(f)
       /\ f.ask.offset + Len(f.acted) = f.walkIndex /\ f.offsetLimit = Stop(f)
       /\ f.row = f.tranTable[f.walkIndex + 1]
  /\ f.stage = "commit" =>
       /\ f.ask.does # "cursor" /\ f.result # "error"
       /\ ~OffsetLost(f) => f.ask.offset + Len(f.acted) = f.offsetLimit /\ (f.cut \/ f.offsetLimit = Stop(f))
  /\ f.stage = "cursor" => f.acted = <<>> /\ f.result = "ok"

\* What a search has done in the end.
DoneDid(f, l, vl) ==
  LET o    == f.ask
      acts == o.does \notin {"count", "cursor"}
  IN  /\ f.result # "error" =>
           /\ acts /\ ~OffsetLost(f) => f.matchCount = Len(f.acted)
           /\ o.does # "cursor" /\ f.touched = {} /\ ~f.cut /\ ~OffsetLost(f) =>
                f.matchCount = Clip(o, Cardinality(Due(f)))
           /\ acts /\ o.offset = 0 /\ o.limit = 0 /\ ~f.cut => Owed(f) \subseteq ToSet(f.acted)
      /\ ~OffsetLost(f) =>
           /\ o.tran = "delete" =>
                (f.was.rows \cup f.touched) \ ToSet(l) = IF f.result = "error" THEN {} ELSE ToSet(f.acted)
           /\ o.tran = "update" /\ f.result # "error" => \A r \in ToSet(f.acted) : vl[r] = o.to

\* What holds at every stage.
Sound(f, l, vl) ==
  /\ Fixed(f) /\ ActsOn(f) /\ f.result # "endless"
  /\ \A r \in Rows \ f.touched : vl[r] = f.was.val[r]
  /\ f.stage # "done" => f.was.rows \cup f.touched \subseteq ToSet(l)
  /\ ToSet(f.found) \subseteq Due(f) \cup f.touched
  /\ f.walk = "index" /\ f.ask.find # "in" => InOrder(f)

Did(f, l, vl, ix, a) ==
  /\ Sound(f, l, vl)
  /\ f.phase = "walk"  => WalkDid(f, l, vl, ix, a)
  /\ f.phase = "after" => AfterDid(f)
  /\ f.stage = "done"  => DoneDid(f, l, vl)

\* Only the innermost search is not in a script.
Nested == \A i \in DOMAIN searches : i = Len(searches) \/ InScript(searches[i])

DInv == Nested /\ \A i \in DOMAIN searches : Did(searches[i], list, val, index, at)

-----------------------------------------------------------------------------
(* What a walk passes.                                                     *)

\* What comes before the next row is the row or comes before it.
LEMMA AfterFollows ==
  ASSUME NEW s, s \in Seq(Rows), IsInjective(s), NEW r \in ToSet(s)
  PROVE  /\ After(s, r) # NoRow => \A q : Leads(s, q, After(s, r)) => q = r \/ Leads(s, q, r)
         /\ After(s, r) = NoRow => \A q \in ToSet(s) : q = r \/ Leads(s, q, r)
<1> DEFINE n == Len(s)
           i == CHOOSE i \in 1 .. n : s[i] = r
<1>1. n \in Nat /\ DOMAIN s = 1 .. n /\ ToSet(s) \subseteq Rows /\ Contains(s, r)
  BY SeqIs
<1>2. \E j \in 1 .. n : s[j] = r
  BY <1>1, ToSetIs
<1>3. i \in 1 .. n /\ s[i] = r
  BY <1>2
<1>4. After(s, r) = IF i < n THEN s[i + 1] ELSE NoRow
  BY <1>1 DEF After
<1> HIDE DEF i
<1>5. i < n => i + 1 \in 1 .. n /\ s[i + 1] \in Rows /\ s[i + 1] # NoRow
  BY <1>1, <1>3, DataAssumption
<1>6. ASSUME i < n, NEW q, Leads(s, q, s[i + 1]) PROVE q = r \/ Leads(s, q, r)
  <2>1. PICK j, k \in 1 .. n : j < k /\ s[j] = q /\ s[k] = s[i + 1]
    BY <1>1, <1>6 DEF Leads
  <2>2. k = i + 1
    BY <1>1, <1>5, <1>6, <2>1 DEF IsInjective
  <2>3. j = i \/ j < i
    BY <1>1, <1>3, <2>1, <2>2
  <2> QED BY <1>1, <1>3, <2>1, <2>3 DEF Leads
<1>7. ASSUME ~(i < n), NEW q \in ToSet(s) PROVE q = r \/ Leads(s, q, r)
  <2>1. PICK j \in 1 .. n : s[j] = q
    BY <1>1, ToSetIs
  <2>2. j = i \/ j < i
    BY <1>1, <1>3, <1>7
  <2> QED BY <1>1, <1>3, <2>1, <2>2 DEF Leads
<1> QED BY <1>4, <1>5, <1>6, <1>7

\* There are no more nodes than rows.
LEMMA NodesCount ==
  ASSUME TInv
  PROVE  /\ IsFiniteSet(Nodes(index)) /\ Cardinality(Nodes(index)) <= Len(list)
         /\ \A q \in ToSet(list) : val[q] \in Nodes(index)
<1> DEFINE N == Nodes(index)
           L == ToSet(list)
           f == [v \in N |-> Head(index[v])]
<1>1. list \in Seq(Rows) /\ IsInjective(list) /\ L \subseteq Rows /\ val \in [Rows -> Values] /\ Indexed(list, val, index)
  BY TInvFacts
<1>2. \A v \in N : Head(index[v]) \in L /\ val[Head(index[v])] = v
  BY <1>1, NodeIs
<1>3. IsFiniteSet(L) /\ Cardinality(L) = Len(list)
  BY <1>1, SeqCounts
<1>4. \A q \in L : val[q] \in N
  <2>1. SUFFICES ASSUME NEW q \in L PROVE val[q] \in N
    OBVIOUS
  <2>2. val[q] \in Values /\ q \in ToSet(index[val[q]]) /\ DOMAIN index = Values
    BY <1>1 DEF Indexed
  <2>3. index[val[q]] # <<>>
    BY <2>2, ToSetIs
  <2> QED BY <2>2, <2>3 DEF Nodes
<1> HIDE DEF N, L
<1>5. f \in [N -> L] /\ \A u, v \in N : f[u] = f[v] => u = v
  BY <1>2
<1>6. f \in Injection(N, L)
  BY <1>5 DEF Injection, IsInjective
<1> HIDE DEF f
<1>7. IsFiniteSet(N) /\ Cardinality(N) <= Cardinality(L)
  BY <1>3, <1>6, FS_Injection
<1> QED BY <1>3, <1>4, <1>7 DEF N, L

\* What goes on from the row of f is at the next row, and has only passed what f has
\* passed, or the row of f; the nodes f has come to it has come to.
LEMMA GoOnIs ==
  ASSUME TInv, NEW f \in Search, AtRow(f), Stands(f, list, val, index, at), GoOn(f)
  PROVE  \E h \in Search :
           /\ searches' = Now(h) /\ (at' = at \/ (at' \in Pointer /\ f.walk = "index"))
           /\ \E r, s : h = [f EXCEPT !.row = r, !.stage = s]
           /\ IF f.walk = "list" THEN h.stage \in {"poll", "match", "post"}
              ELSE h.stage \in {"poll", "match", "seek"}
           /\ AtRow(h) /\ f.walk = "index" => h.row \in ToSet(list) /\ val[h.row] = val[f.row]
           /\ f.walk = "hash" => ~AtRow(h)
           /\ \A q \in ToSet(list) :
                \/ AtRow(h) /\ Passed(h, q, list, val, index)
                \/ h.stage = "seek" /\ Left(h, q, val, at')
                \/ h.stage = "post"
                => q = f.row \/ Passed(f, q, list, val, index)
           /\ f.walk = "index" =>
                /\ Visited(f, val, index, at) \subseteq Visited(h, val, index, at')
                /\ h.stage = "seek" /\ f.ask.find # "in" => at' = End \/ at' > val[f.row]
<1> DEFINE next == CASE f.walk = "list"  -> After(list, f.row)
                     [] f.walk = "index" -> After(index[val[f.row]], f.row)
                     [] f.walk = "hash"  -> NoRow
           st == IF next # NoRow THEN Arrive(f.ask) ELSE IF f.walk = "list" THEN "post" ELSE "seek"
           h == [f EXCEPT !.row = next, !.stage = st]
           N == {v \in Nodes(index) : v > at}
<1>1. /\ searches' = Now(h)
      /\ at' = IF next = NoRow /\ f.walk = "index" /\ f.ask.find # "in" THEN First(N) ELSE at
  BY DEF GoOn
<1>2. /\ list \in Seq(Rows) /\ IsInjective(list) /\ ToSet(list) \subseteq Rows
      /\ val \in [Rows -> Values] /\ at \in Pointer /\ Indexed(list, val, index)
  BY TInvFacts
<1>3. f.walk \in {"list", "hash", "index"} /\ f.row \in ToSet(list) /\ f.row \in Rows
  BY <1>2, SearchFields DEF Stands
<1> DEFINE node == index[val[f.row]]
<1>4. /\ val[f.row] \in Values /\ node \in Seq(Rows) /\ IsInjective(node) /\ f.row \in ToSet(node)
      /\ ToSet(node) = {r \in ToSet(list) : val[r] = val[f.row]}
  BY <1>2, <1>3 DEF Indexed
<1>5. /\ next \in Rows \cup {NoRow}
      /\ f.walk = "index" /\ next # NoRow => next \in ToSet(node)
  BY <1>2, <1>3, <1>4, AfterIs
<1>6. NoRow \notin Rows
  BY DataAssumption
<1>7. /\ f.walk = "list" /\ next # NoRow => \A q : Leads(list, q, next) => q = f.row \/ Leads(list, q, f.row)
      /\ f.walk = "list" /\ next = NoRow => \A q \in ToSet(list) : q = f.row \/ Leads(list, q, f.row)
  BY <1>2, <1>3, AfterFollows
<1>8. /\ f.walk = "index" /\ next # NoRow => \A q : Leads(node, q, next) => q = f.row \/ Leads(node, q, f.row)
      /\ f.walk = "index" /\ next = NoRow => \A q \in ToSet(node) : q = f.row \/ Leads(node, q, f.row)
  BY <1>4, AfterFollows
<1>9. f.walk = "hash" => next = NoRow
  OBVIOUS
<1> HIDE DEF next
<1>10. /\ next # NoRow => st \in {"poll", "match"}
       /\ next = NoRow => st = IF f.walk = "list" THEN "post" ELSE "seek"
  BY DEF Arrive
<1> HIDE DEF st
<1>11. h \in Search
  BY <1>3, <1>5, <1>10 DEF Search
<1>12. /\ h.row = next /\ h.stage = st /\ h.left = f.left /\ h.ask = f.ask /\ h.walk = f.walk
       /\ \E r, s : h = [f EXCEPT !.row = r, !.stage = s]
  BY DEF Search
<1> HIDE DEF h
<1>13. AtRow(h) <=> next # NoRow
  BY <1>10, <1>12 DEF AtRow
<1>14. N \subseteq Values /\ \A q \in ToSet(list) : val[q] \in Nodes(index)
  BY <1>2, NodesAre, NodesCount
<1>15. /\ at' \in Pointer
       /\ f.walk = "index" /\ f.ask.find # "in" /\ next = NoRow =>
            /\ at' = End => N = {}
            /\ at' # End => at' \in N /\ \A v \in N : at' <= v
  BY <1>1, <1>2, <1>14, FirstIs
<1>16. f.walk = "index" /\ f.ask.find # "in" => at = val[f.row]
  BY DEF Stands
<1>17. \A v \in Pointer : v \in Nat
  BY DataAssumption DEF Pointer, End
<1>18. Nodes(index) \subseteq Nat /\ \A q \in ToSet(list) : val[q] \in Nat
  BY <1>2, <1>14, NodesAre, DataAssumption
<1>19. f.walk = "index" /\ h.stage = "seek" /\ f.ask.find # "in" => at' = End \/ at' > val[f.row]
  BY <1>10, <1>12, <1>15, <1>16
<1>20. ASSUME f.walk = "index" PROVE Visited(f, val, index, at) \subseteq Visited(h, val, index, at')
  <2>1. CASE f.ask.find = "in"
    BY <1>12, <2>1 DEF Visited
  <2>2. CASE f.ask.find # "in" /\ next # NoRow
    <3>1. val[next] = val[f.row]
      BY <1>4, <1>5, <1>20, <2>2
    <3> QED BY <1>12, <1>13, <2>2, <3>1 DEF Visited
  <2>3. CASE f.ask.find # "in" /\ next = NoRow
    <3>1. at' = End \/ at' > val[f.row]
      BY <1>10, <1>12, <1>19, <1>20, <2>3
    <3>2. \A v \in Nodes(index) : v <= val[f.row] => at' = End \/ v < at'
      BY <1>4, <1>15, <1>17, <1>18, <3>1
    <3> QED BY <1>12, <1>13, <2>3, <3>2 DEF Visited
  <2> QED BY <2>1, <2>2, <2>3
<1>21. ASSUME NEW q \in ToSet(list),
              \/ AtRow(h) /\ Passed(h, q, list, val, index)
              \/ h.stage = "seek" /\ Left(h, q, val, at')
              \/ h.stage = "post"
       PROVE  q = f.row \/ Passed(f, q, list, val, index)
  <2>1. CASE f.walk = "list"
    BY <1>7, <1>10, <1>12, <1>13, <1>21, <2>1 DEF Passed
  <2>2. CASE f.walk = "hash"
    BY <1>9, <1>10, <1>12, <1>13, <1>21, <2>2 DEF Passed, Left
  <2>3. CASE f.walk = "index" /\ next # NoRow
    <3>1. val[next] = val[f.row] /\ AtRow(h) /\ Passed(h, q, list, val, index)
      BY <1>4, <1>5, <1>10, <1>12, <1>13, <1>21, <2>3
    <3> QED BY <1>8, <1>12, <2>3, <3>1 DEF Passed
  <2>4. CASE f.walk = "index" /\ next = NoRow
    <3>1. h.stage = "seek" /\ Left(h, q, val, at')
      BY <1>10, <1>12, <1>13, <1>21, <2>4
    <3>2. CASE val[q] = val[f.row]
      <4>1. q \in ToSet(node)
        BY <1>4, <3>2
      <4> QED BY <1>8, <2>4, <3>2, <4>1 DEF Passed
    <3>3. CASE val[q] # val[f.row] /\ f.ask.find = "in"
      BY <1>12, <2>4, <3>1, <3>3 DEF Passed, Left
    <3>4. CASE val[q] # val[f.row] /\ f.ask.find # "in"
      <4>1. at' = End \/ val[q] < at'
        BY <1>12, <2>4, <3>1, <3>4 DEF Left
      <4>2. ~(val[q] > at)
        BY <1>14, <1>15, <1>17, <1>18, <2>4, <3>4, <4>1
      <4>3. val[q] < val[f.row]
        BY <1>4, <1>16, <1>18, <2>4, <3>3, <3>4, <4>2, DataAssumption
      <4> QED BY <2>4, <3>4, <4>3 DEF Passed
    <3> QED BY <3>2, <3>3, <3>4
  <2> QED BY <1>3, <2>1, <2>2, <2>3, <2>4
<1> QED BY <1>1, <1>4, <1>5, <1>9, <1>10, <1>11, <1>12, <1>13, <1>15, <1>19, <1>20, <1>21

\* What is found and done is so of a search after a command that names the rows S.
LEMMA DidStays ==
  ASSUME NEW f \in Search, NEW l, NEW vl, NEW ix, NEW a, NEW l2, NEW vl2, NEW ix2, NEW a2,
         NEW S, S \subseteq Rows, Grows(l, l2, S), S \subseteq ToSet(l2), Did(f, l, vl, ix, a),
         InScript(f), \A r \in Rows \ S : vl2[r] = vl[r],
         Follows(f) => S = {} /\ vl2 = vl /\ ix2 = ix /\ a2 = a
  PROVE  Did([f EXCEPT !.touched = @ \cup S], l2, vl2, ix2, a2)
<1> DEFINE g == [f EXCEPT !.touched = @ \cup S]
<1>1. /\ g.ask = f.ask /\ g.walk = f.walk /\ g.sorts = f.sorts /\ g.mode = f.mode /\ g.phase = f.phase
      /\ g.stage = f.stage /\ g.row = f.row /\ g.left = f.left /\ g.steps = f.steps
      /\ g.matchCount = f.matchCount /\ g.offsetLimit = f.offsetLimit /\ g.tranTable = f.tranTable
      /\ g.walkIndex = f.walkIndex /\ g.result = f.result /\ g.was = f.was /\ g.found = f.found
      /\ g.acted = f.acted /\ g.cut = f.cut /\ g.touched = f.touched \cup S
  BY DEF Search
<1> HIDE DEF g
<1>2. f.stage \in {"poll", "act"}
  BY DEF InScript
<1>3. /\ Due(g) = Due(f) /\ Owed(g) = Owed(f) \ S /\ Owed(g) \subseteq Owed(f)
      /\ Due(f) \cup f.touched \subseteq Due(g) \cup g.touched
  BY <1>1 DEF Due, Owed
<1>4. /\ Fixed(g) /\ ActsOn(g) /\ g.result # "endless"
  BY <1>1 DEF Did, Sound, Fixed, ActsOn, Source
<1>5. \A r \in Rows \ g.touched : vl2[r] = g.was.val[r]
  BY <1>1 DEF Did, Sound
<1>6. g.was.rows \cup g.touched \subseteq ToSet(l2) /\ f.was.rows \subseteq ToSet(l)
  BY <1>1, <1>2 DEF Did, Sound, Grows
<1>7. ToSet(g.found) \subseteq Due(g) \cup g.touched
  BY <1>1, <1>3 DEF Did, Sound
<1>8. g.walk = "index" /\ g.ask.find # "in" => InOrder(g)
  BY <1>1, <1>3 DEF Did, Sound, InOrder
<1>9. (Full(f) <=> Full(g)) /\ (Enough(f) => Enough(g)) /\ (OffsetLost(f) <=> OffsetLost(g))
      /\ Stop(g) = Stop(f) /\ Past(g) = Past(f) /\ (AtRow(f) <=> AtRow(g))
  BY <1>1, <1>3 DEF Full, Enough, AllFound, OffsetLost, Stop, Past, AtRow
<1>10. ASSUME f.phase = "after" PROVE AfterDid(g)
  <2>1. AfterDid(f)
    BY <1>10 DEF Did
  <2>2. g.touched = {} => f.touched = {}
    BY <1>1
  <2>3. (TableOfFound(f) => TableOfFound(g)) /\ (InSort(f) => InSort(g))
    BY <1>1 DEF TableOfFound, InSort
  <2> QED BY <1>1, <1>2, <1>9, <2>1, <2>2, <2>3 DEF AfterDid
<1>11. ASSUME f.phase = "walk" PROVE WalkDid(g, l2, vl2, ix2, a2)
  <2>1. WalkDid(f, l, vl, ix, a)
    BY <1>11 DEF Did
  <2>2. \A q \in Owed(g) : Passed(g, q, l2, vl2, ix2) => q \in ToSet(g.found)
    <3>1. ASSUME NEW q \in Owed(g), Passed(g, q, l2, vl2, ix2) PROVE Passed(f, q, l, vl, ix)
      <4>1. q \in ToSet(l)
        BY <1>3, <1>6 DEF Owed, Due
      <4>2. CASE f.walk = "index"
        BY <1>1, <1>11, <3>1, <4>2 DEF Passed, Follows
      <4>3. CASE f.walk # "index"
        BY <1>1, <3>1, <4>1, <4>3 DEF Passed, Grows
      <4> QED BY <4>2, <4>3
    <3> QED BY <1>1, <1>2, <1>3, <2>1, <3>1 DEF WalkDid, AtRow
  <2>3. ASSUME f.walk = "index" PROVE S = {} /\ vl2 = vl /\ ix2 = ix /\ a2 = a /\ Visited(g, vl, ix, a) = Visited(f, vl, ix, a)
    BY <1>1, <1>9, <1>11, <2>3 DEF Follows, Visited
  <2>4. AtRow(g) /\ g.walk # "list" => g.row \in Due(g) \cup g.touched
    BY <1>1, <1>3, <1>9, <2>1 DEF WalkDid
  <2>5. g.walk = "index" =>
          /\ g.stage = "seek" /\ g.ask.find \in {"eq", "ge"} => a2 = End \/ a2 >= g.ask.arg[1]
          /\ AtRow(g) \/ g.stage = "seek" => g.steps <= Cardinality(Visited(g, vl2, ix2, a2))
    BY <1>1, <1>9, <2>1, <2>3 DEF WalkDid
  <2> QED BY <1>1, <1>2, <1>9, <2>1, <2>2, <2>4, <2>5 DEF WalkDid
<1> QED BY <1>1, <1>2, <1>4, <1>5, <1>6, <1>7, <1>8, <1>10, <1>11 DEF Did, Sound, g

LEMMA DidSame ==
  ASSUME NEW f \in Search, NEW a2, Did(f, list, val, index, at), InScript(f), Follows(f) => a2 = at
  PROVE  Did(f, list, val, index, a2)
<1>1. Grows(list, list, {}) /\ [f EXCEPT !.touched = @ \cup {}] = f
  BY GrowsNot DEF Search
<1> DEFINE g == [f EXCEPT !.touched = @ \cup {}]
<1>2. Did(g, list, val, index, a2)
  BY <1>1, DidStays
<1> QED BY <1>1, <1>2

\* The innermost search goes on as h.
LEMMA TopDid ==
  ASSUME TInv, DInv, searches # <<>>, NEW h \in Search, searches' = Now(h),
         UNCHANGED <<list, val, index>>, at' = at \/ Follows(Top), Did(h, list, val, index, at')
  PROVE  DInv'
<1> DEFINE n == Len(searches)
<1>1. n \in DOMAIN searches /\ Top = searches[n] /\ searches \in Seq(Search)
  BY TopIs, TInvFacts
<1>2. /\ DOMAIN searches' = DOMAIN searches /\ Len(searches') = n
      /\ searches'[n] = h /\ \A i \in DOMAIN searches \ {n} : searches'[i] = searches[i]
  BY <1>1 DEF Now
<1> HIDE DEF n
<1>3. Nested'
  BY <1>2 DEF DInv, Nested, n
<1>4. ASSUME NEW i \in DOMAIN searches PROVE Did(searches'[i], list, val, index, at')
  <2>1. CASE i = n
    BY <1>2, <2>1
  <2>2. CASE i # n
    <3>1. /\ searches[i] \in Search /\ Did(searches[i], list, val, index, at) /\ InScript(searches[i])
          /\ searches'[i] = searches[i]
      BY <1>2, <2>2, TInvFacts DEF DInv, Nested, n
    <3>2. Follows(searches[i]) => at' = at
      BY <2>2, FollowersAre DEF n
    <3> QED BY <3>1, <3>2, DidSame
  <2> QED BY <2>1, <2>2
<1> QED BY <1>2, <1>3, <1>4 DEF DInv

\* A walk that has dealt with the row it is at.
Ready(f) ==
  /\ f.phase = "walk" /\ AtRow(f) /\ Sound(f, list, val) /\ ~f.cut /\ f.result = "ok"
  /\ f.mode = "defer" \/ f.ask.does = "count" => f.acted = <<>>
  /\ f.mode # "defer" /\ f.ask.does # "count" => Len(f.acted) = Past(f)
  /\ f.mode # "defer" /\ f.ask.limit > 0 => Len(f.found) < f.ask.offset + f.ask.limit
  /\ \A q \in Owed(f) : q = f.row \/ Passed(f, q, list, val, index) => q \in ToSet(f.found)
  /\ f.walk # "list" => f.row \in Due(f) \cup f.touched
  /\ f.walk = "index" => f.steps <= Cardinality(Visited(f, val, index, at))
  /\ f.ask.find \in {"in", "keys"} => ToSet(f.left) \subseteq ToSet(f.ask.arg)

\* What is known of a value that was asked for.
LEMMA ArgIs ==
  ASSUME NEW o \in Asks, o.find \in {"le", "eq", "ge"}
  PROVE  o.arg[1] \in Values /\ o.arg[1] \in Nat
BY AskFields, DataAssumption DEF Sensible

LEMMA VisitedCount ==
  ASSUME TInv, NEW f, NEW g, NEW a, NEW b, Visited(f, val, index, a) \subseteq Visited(g, val, index, b)
  PROVE  /\ Cardinality(Visited(f, val, index, a)) <= Cardinality(Visited(g, val, index, b))
         /\ Cardinality(Visited(f, val, index, a)) \in Nat /\ Cardinality(Visited(g, val, index, b)) \in Nat
<1> DEFINE F == Visited(f, val, index, a)
           G == Visited(g, val, index, b)
           N == Nodes(index)
<1>1. IsFiniteSet(N) /\ F \subseteq N /\ G \subseteq N /\ F \subseteq G
  BY NodesCount DEF Visited
<1> HIDE DEF F, G, N
<1>2. IsFiniteSet(F) /\ IsFiniteSet(G)
  BY <1>1, FS_Subset
<1>3. Cardinality(F) <= Cardinality(G)
  BY <1>1, <1>2, FS_Subset
<1> QED BY <1>2, <1>3, FS_CardinalityType DEF F, G

\* f and h have found and done the same.
Alike(f, h) ==
  /\ h.ask = f.ask /\ h.walk = f.walk /\ h.sorts = f.sorts /\ h.mode = f.mode /\ h.phase = f.phase
  /\ h.tranTable = f.tranTable /\ h.was = f.was /\ h.found = f.found /\ h.acted = f.acted
  /\ h.touched = f.touched /\ h.cut = f.cut

LEMMA AlikeIs ==
  ASSUME NEW f, NEW h, Alike(f, h)
  PROVE  /\ Due(h) = Due(f) /\ Owed(h) = Owed(f) /\ (AllFound(h) <=> AllFound(f))
         /\ (Full(h) <=> Full(f)) /\ (Enough(h) <=> Enough(f)) /\ Past(h) = Past(f) /\ Stop(h) = Stop(f)
         /\ (OffsetLost(h) <=> OffsetLost(f)) /\ Source(h) = Source(f)
         /\ \A l, vl : Sound(f, l, vl) /\ h.result # "endless" /\ (f.stage = "done" => h.stage = "done")
                         => Sound(h, l, vl)
<1>1. Due(h) = Due(f) /\ Owed(h) = Owed(f)
  BY DEF Alike, Due, Owed
<1>2. /\ (AllFound(h) <=> AllFound(f)) /\ (Full(h) <=> Full(f)) /\ (Enough(h) <=> Enough(f))
      /\ Past(h) = Past(f) /\ Stop(h) = Stop(f) /\ (OffsetLost(h) <=> OffsetLost(f)) /\ Source(h) = Source(f)
  BY <1>1 DEF Alike, AllFound, Full, Enough, Past, Stop, OffsetLost, Source
<1>3. /\ Fixed(f) => Fixed(h)
      /\ ActsOn(f) => ActsOn(h)
      /\ InOrder(f) => InOrder(h)
  BY <1>1, <1>2 DEF Alike, Fixed, ActsOn, InOrder
<1> QED BY <1>1, <1>2, <1>3 DEF Alike, Sound

\* What the walk of the innermost search goes on as.
LEMMA WalkDidOn ==
  ASSUME TInv, DInv, searches # <<>>, Same, NEW f, f.walk = Top.walk, Top.phase = "walk",
         NEW h \in Search, Alike(f, h), searches' = Now(h), at' = at \/ f.walk = "index",
         Did(h, list, val, index, at')
  PROVE  DInv'
<1>1. UNCHANGED <<list, val, index>> /\ (at' = at \/ Follows(Top))
  BY DEF Same, table, Follows
<1> QED BY <1>1, TopDid

LEMMA GoOnDid ==
  ASSUME TInv, DInv, searches # <<>>, Same, NEW f \in Search, f.walk = Top.walk, Top.phase = "walk",
         Stands(f, list, val, index, at), Kept(f, list), Ready(f), GoOn(f)
  PROVE  DInv'
<1>1. PICK h \in Search :
        /\ searches' = Now(h) /\ (at' = at \/ (at' \in Pointer /\ f.walk = "index"))
        /\ \E r, s : h = [f EXCEPT !.row = r, !.stage = s]
        /\ IF f.walk = "list" THEN h.stage \in {"poll", "match", "post"}
           ELSE h.stage \in {"poll", "match", "seek"}
        /\ AtRow(h) /\ f.walk = "index" => h.row \in ToSet(list) /\ val[h.row] = val[f.row]
        /\ f.walk = "hash" => ~AtRow(h)
        /\ \A q \in ToSet(list) :
             \/ AtRow(h) /\ Passed(h, q, list, val, index)
             \/ h.stage = "seek" /\ Left(h, q, val, at')
             \/ h.stage = "post"
             => q = f.row \/ Passed(f, q, list, val, index)
        /\ f.walk = "index" =>
             /\ Visited(f, val, index, at) \subseteq Visited(h, val, index, at')
             /\ h.stage = "seek" /\ f.ask.find # "in" => at' = End \/ at' > val[f.row]
  BY GoOnIs DEF Ready
<1>2. /\ Alike(f, h) /\ h.steps = f.steps /\ h.left = f.left /\ h.result = f.result
  BY <1>1 DEF Search, Alike
<1>3. /\ f.ask \in Asks /\ f.walk \in {"list", "hash", "index"} /\ f.phase = "walk"
      /\ f.found \in Seq(Rows) /\ f.steps \in Nat /\ f.result = "ok" /\ f.stage # "done"
  BY SearchFields DEF Ready, AtRow
<1>4. /\ h.ask = f.ask /\ h.walk = f.walk /\ h.mode = f.mode /\ h.phase = f.phase /\ h.found = f.found
      /\ h.acted = f.acted /\ h.touched = f.touched /\ h.cut = f.cut /\ h.was = f.was
  BY <1>2 DEF Alike
<1>5. Due(h) = Due(f) /\ Owed(h) = Owed(f) /\ Past(h) = Past(f) /\ Sound(h, list, val)
  BY <1>2, <1>3, AlikeIs DEF Ready
<1>6. Owed(f) \subseteq ToSet(list)
  BY <1>3 DEF Ready, Sound, Owed, Due
<1>7. \A q \in Owed(f) :
        \/ AtRow(h) /\ Passed(h, q, list, val, index)
        \/ h.stage = "seek" /\ Left(h, q, val, at')
        \/ h.stage = "post"
        => q \in ToSet(f.found)
  BY <1>1, <1>6 DEF Ready
<1>8. h.stage = "post" => Enough(h)
  BY <1>4, <1>5, <1>7 DEF Enough, AllFound
<1>9. ASSUME f.walk = "index"
      PROVE  /\ f.touched = {} /\ f.row \in Due(f) /\ f.row \in Rows
             /\ \A r \in ToSet(list) : r \in f.was.rows /\ f.was.val[r] = val[r]
  <2>1. f.touched = {}
    BY <1>3, <1>9 DEF Ready, Stands
  <2>2. f.row \in Due(f) /\ f.row \in Rows
    BY <1>9, <2>1, SearchFields DEF Ready, Due
  <2>3. \A r \in ToSet(list) : r \in f.was.rows /\ f.was.val[r] = val[r]
    BY <2>1, SearchFields DEF Ready, Sound, Kept
  <2> QED BY <2>1, <2>2, <2>3
<1>10. AtRow(h) /\ h.walk # "list" => h.row \in Due(h) \cup h.touched
  <2>1. SUFFICES ASSUME AtRow(h), f.walk = "index" PROVE h.row \in Due(f)
    BY <1>1, <1>3, <1>4, <1>5
  <2>2. f.row \in ToSet(list)
    BY <1>3 DEF Ready, Stands
  <2>3. h.row \in f.was.rows /\ f.was.val[h.row] = f.was.val[f.row]
    BY <1>1, <1>9, <2>1, <2>2
  <2>4. Satisfies(f.ask, f.row, f.was.val) /\ f.ask.find # "keys"
    BY <1>9, <2>1 DEF Due, Ready, Sound, Fixed
  <2>5. Satisfies(f.ask, h.row, f.was.val)
    BY <1>3, <2>3, <2>4, AskFields DEF Satisfies, Finds
  <2> QED BY <2>3, <2>5 DEF Due
<1>11. ASSUME h.walk = "index", h.stage = "seek", h.ask.find \in {"eq", "ge"}
       PROVE  at' = End \/ at' >= h.ask.arg[1]
  <2>1. at' = End \/ at' > val[f.row]
    BY <1>1, <1>4, <1>11
  <2>2. f.row \in ToSet(list) /\ Satisfies(f.ask, f.row, f.was.val) /\ f.was.val[f.row] = val[f.row]
    BY <1>3, <1>4, <1>9, <1>11 DEF Ready, Stands, Due
  <2>3. f.ask.arg[1] \in Nat /\ val[f.row] \in Nat /\ at' \in Nat
    BY <1>1, <1>3, <1>4, <1>9, <1>11, ArgIs, TInvFacts, DataAssumption DEF Pointer, End
  <2>4. f.was.val[f.row] >= f.ask.arg[1]
    <3>1. CASE f.ask.find = "eq"
      BY <2>2, <2>3, <3>1 DEF Satisfies
    <3>2. CASE f.ask.find = "ge"
      BY <2>2, <3>2 DEF Satisfies
    <3> QED BY <1>4, <1>11, <3>1, <3>2
  <2> QED BY <1>4, <2>1, <2>2, <2>3, <2>4
<1>12. ASSUME h.walk = "index" PROVE h.steps <= Cardinality(Visited(h, val, index, at'))
  <2>1. /\ Cardinality(Visited(f, val, index, at)) <= Cardinality(Visited(h, val, index, at'))
        /\ Cardinality(Visited(f, val, index, at)) \in Nat
        /\ Cardinality(Visited(h, val, index, at')) \in Nat
    BY <1>1, <1>4, <1>12, VisitedCount
  <2> QED BY <1>2, <1>3, <1>4, <1>12, <2>1 DEF Ready
<1>13. h.stage \in {"poll", "match", "seek", "post"} /\ h.result = "ok" /\ ~h.cut
  BY <1>1, <1>2, <1>3, <1>4 DEF Ready
<1>14. Len(f.found) \in Nat /\ f.ask.offset \in Nat /\ f.ask.limit \in Nat
  BY <1>3, AskFields
<1>15. WalkDid(h, list, val, index, at')
  BY <1>2, <1>4, <1>5, <1>7, <1>8, <1>10, <1>11, <1>12, <1>13, <1>14 DEF WalkDid, Ready
<1>16. Did(h, list, val, index, at')
  BY <1>3, <1>4, <1>5, <1>13, <1>15 DEF Did
<1> QED BY <1>1, <1>2, <1>16, WalkDidOn

\* The walk of the innermost search is over, or broken off.
LEMMA OverDid ==
  ASSUME TInv, DInv, searches # <<>>, Same, NEW f \in Search, f.walk = Top.walk,
         f.phase = "walk", Top.phase = "walk", Sound(f, list, val), f.stage # "done", f.result # "error",
         f.mode = "defer" => ~f.cut /\ f.result = "ok",
         f.mode = "defer" \/ f.ask.does = "count" => f.acted = <<>>,
         f.mode # "defer" /\ f.ask.does # "count" => Len(f.acted) = Past(f),
         f.mode # "defer" /\ f.ask.limit > 0 => Len(f.found) <= f.ask.offset + f.ask.limit,
         Enough(f), Over(f)
  PROVE  DInv'
<1> DEFINE h == [f EXCEPT !.stage = "post"]
<1>1. searches' = Now(h) /\ at' = at
  BY DEF Over
<1>2. h \in Search /\ Alike(f, h) /\ h.result = f.result /\ h.stage = "post"
  BY DEF Search, Alike
<1> HIDE DEF h
<1>3. f.result # "endless"
  BY DEF Sound
<1>4. /\ Sound(h, list, val) /\ (Enough(h) <=> Enough(f)) /\ Past(h) = Past(f)
  BY <1>2, <1>3, AlikeIs
<1>5. /\ h.ask = f.ask /\ h.walk = f.walk /\ h.mode = f.mode /\ h.phase = f.phase /\ h.found = f.found
      /\ h.acted = f.acted
  BY <1>2 DEF Alike
<1>6. ~AtRow(h)
  BY <1>2 DEF AtRow
<1>7. WalkDid(h, list, val, index, at')
  <2>1. h.mode = "defer" => ~h.cut
    BY <1>2 DEF Alike
  <2>2. h.result # "error" /\ (h.mode = "defer" => h.result = "ok") /\ Enough(h)
    BY <1>2, <1>4, <1>5
  <2>3. /\ h.mode = "defer" \/ h.ask.does = "count" => h.acted = <<>>
        /\ h.mode # "defer" /\ h.ask.does # "count" => Len(h.acted) = Past(h)
        /\ h.mode # "defer" /\ h.ask.limit > 0 => Len(h.found) <= h.ask.offset + h.ask.limit
    BY <1>4, <1>5
  <2> QED BY <1>2, <1>6, <2>1, <2>2, <2>3 DEF WalkDid
<1>8. Did(h, list, val, index, at')
  BY <1>2, <1>4, <1>5, <1>7 DEF Did
<1> QED BY <1>1, <1>2, <1>8, WalkDidOn

\* A write fails in the walk.
LEMMA FailDid ==
  ASSUME TInv, DInv, searches # <<>>, Same, NEW f \in Search, f.walk = Top.walk,
         f.phase = "walk", Top.phase = "walk", Sound(f, list, val), f.stage # "done",
         f.mode = "defer" \/ f.ask.does = "count" => f.acted = <<>>,
         f.mode # "defer" /\ f.ask.does # "count" => Len(f.acted) = Past(f),
         f.mode # "defer" /\ f.ask.limit > 0 => Len(f.found) <= f.ask.offset + f.ask.limit,
         Fail(f, "error")
  PROVE  DInv'
<1> DEFINE h == [f EXCEPT !.stage = "done", !.result = "error"]
<1>1. searches' = Now(h) /\ at' = at
  BY DEF Fail
<1>2. h \in Search /\ Alike(f, h) /\ h.result = "error" /\ h.stage = "done"
  BY DEF Search, Alike
<1> HIDE DEF h
<1>3. Sound(h, list, val) /\ Past(h) = Past(f)
  BY <1>2, AlikeIs
<1>4. /\ h.ask = f.ask /\ h.walk = f.walk /\ h.mode = f.mode /\ h.phase = f.phase /\ h.found = f.found
      /\ h.acted = f.acted /\ h.was = f.was /\ h.touched = f.touched
  BY <1>2 DEF Alike
<1>5. ~AtRow(h)
  BY <1>2 DEF AtRow
<1>6. WalkDid(h, list, val, index, at')
  BY <1>2, <1>3, <1>4, <1>5 DEF WalkDid
<1>7. (h.was.rows \cup h.touched) \ ToSet(list) = {}
  BY <1>4 DEF Sound
<1>8. DoneDid(h, list, val)
  BY <1>2, <1>7 DEF DoneDid
<1>9. Did(h, list, val, index, at')
  BY <1>2, <1>3, <1>4, <1>6, <1>8 DEF Did
<1> QED BY <1>1, <1>2, <1>9, WalkDidOn

LEMMA TopDone ==
  ASSUME TInv, DInv, searches # <<>>
  PROVE  Did(Top, list, val, index, at) /\ Sound(Top, list, val)
         /\ (Top.phase = "walk" => WalkDid(Top, list, val, index, at))
         /\ (Top.phase = "after" => AfterDid(Top))
BY TopIs DEF DInv, Did

\* No row leads the first of its node.
LEMMA HeadLeads ==
  ASSUME NEW s, s \in Seq(Rows), s # <<>>, IsInjective(s), NEW q
  PROVE  ~Leads(s, q, Head(s))
<1>1. Len(s) \in Nat /\ DOMAIN s = 1 .. Len(s) /\ 1 \in DOMAIN s /\ Head(s) = s[1]
  OBVIOUS
<1>2. SUFFICES ASSUME NEW i \in DOMAIN s, NEW j \in DOMAIN s, i < j, s[j] = Head(s) PROVE FALSE
  BY DEF Leads
<1>3. j = 1
  BY <1>1, <1>2 DEF IsInjective
<1> QED BY <1>1, <1>2, <1>3

LEMMA ComesAlike ==
  ASSUME NEW f \in Search, NEW r \in Rows
  PROVE  Alike(f, ComeTo(f, r)) /\ ComeTo(f, r).result = f.result /\ ComeTo(f, r).steps = f.steps + 1
<1>1. Arrive(f.ask) \in {"poll", "match"} /\ f.steps + 1 \in Nat
  BY SearchFields DEF Arrive
<1> DEFINE s == Arrive(f.ask)
           k == f.steps + 1
           h == [f EXCEPT !.row = r, !.stage = s, !.steps = k]
<1>2. ComeTo(f, r) = h
  BY DEF ComeTo
<1> HIDE DEF s, k
<1>3. Alike(f, h) /\ h.result = f.result /\ h.steps = k
  BY DEF Search, Alike
<1> QED BY <1>2, <1>3 DEF k

LEMMA SeekKeyDid ==
  ASSUME TInv, DInv, SeekKey
  PROVE  DInv'
<1> DEFINE f == Top
           g == [f EXCEPT !.left = Tail(@)]
<1>1. searches # <<>> /\ f.stage = "seek" /\ f.walk = "hash" /\ Same
  BY DEF SeekKey, AtStage
<1>2. /\ f.phase = "walk" /\ f \in Search /\ Kept(f, list) /\ Stands(f, list, val, index, at)
  BY <1>1, SeekWalks, TopWalks
<1>3. Sound(f, list, val) /\ WalkDid(f, list, val, index, at) /\ f.ask.find = "keys"
  BY <1>1, <1>2, TopDone DEF Sound, Fixed
<1>4. /\ f.result = "ok" /\ ~f.cut /\ ToSet(f.left) \subseteq ToSet(f.ask.arg)
      /\ \A q \in Owed(f) : q \notin ToSet(f.left) => q \in ToSet(f.found)
      /\ f.mode = "defer" \/ f.ask.does = "count" => f.acted = <<>>
      /\ f.mode # "defer" /\ f.ask.does # "count" => Len(f.acted) = Past(f)
      /\ f.mode # "defer" /\ f.ask.limit > 0 => Len(f.found) < f.ask.offset + f.ask.limit
  BY <1>1, <1>3 DEF WalkDid, Left
<1>5. CASE f.left = <<>>
  <2>1. Over(f)
    BY <1>5 DEF SeekKey
  <2>2. ToSet(f.left) = {}
    BY <1>5, ToSetIs
  <2>3. Enough(f)
    BY <1>4, <2>2 DEF Enough, AllFound
  <2>4. f.mode # "defer" /\ f.ask.limit > 0 => Len(f.found) <= f.ask.offset + f.ask.limit
    BY <1>2, <1>4, SearchFields, AskFields
  <2> QED BY <1>1, <1>2, <1>3, <1>4, <2>1, <2>3, <2>4, OverDid
<1>6. CASE f.left # <<>>
  <2> DEFINE r == Head(f.left)
             t == Tail(f.left)
  <2>1. f.left \in Seq(Values \cup Rows) /\ IsInjective(f.left) /\ ToSet(f.left) \subseteq Rows
    BY <1>1, <1>2, SearchFields DEF Stands
  <2>2. /\ t \in Seq(Values \cup Rows) /\ r \in Rows /\ r \in ToSet(f.left)
        /\ ToSet(t) \subseteq ToSet(f.left) /\ ToSet(f.left) \subseteq ToSet(t) \cup {r}
    BY <1>6, <2>1, TailIs, HeadIs
  <2>3. searches' = Now(IF InTable(r) THEN ComeTo(g, r) ELSE g) /\ at' = at
    BY <1>6 DEF SeekKey
  <2> HIDE DEF r, t
  <2>4. g \in Search /\ Alike(f, g) /\ g.left = t /\ g.stage = "seek" /\ g.result = f.result
    BY <1>1, <1>2, <2>2 DEF Search, Alike, t
  <2> HIDE DEF f, g
  <2>5. \A h : Alike(f, h) /\ h.stage # "done" /\ h.result = "ok" => Sound(h, list, val)
    BY <1>1, <1>3, AlikeIs
  <2>6. \A h : Alike(f, h) => /\ Owed(h) = Owed(f) /\ Due(h) = Due(f) /\ Past(h) = Past(f)
                              /\ h.ask = f.ask /\ h.walk = "hash" /\ h.mode = f.mode /\ h.phase = "walk"
                              /\ h.found = f.found /\ h.acted = f.acted /\ ~h.cut /\ h.touched = f.touched
    BY <1>1, <1>2, <1>4, AlikeIs DEF Alike
  <2>7. Len(f.found) \in Nat /\ f.ask.offset \in Nat /\ f.ask.limit \in Nat
    BY <1>2, SearchFields, AskFields
  <2>8. CASE InTable(r)
    <3> DEFINE h == ComeTo(g, r)
    <3>1. h \in Search /\ h.row = r /\ h.stage \in {"poll", "match"} /\ h.left = t /\ Alike(f, h) /\ h.result = "ok"
      <4>1. /\ h \in Search /\ h.row = r /\ h.stage \in {"poll", "match"} /\ h.left = t
            /\ Alike(g, h) /\ h.result = g.result
        BY <2>2, <2>4, ComesTo, ComesAlike
      <4> HIDE DEF h
      <4> QED BY <1>4, <2>4, <4>1 DEF Alike
    <3>2. searches' = Now(h)
      BY <2>3, <2>8
    <3> HIDE DEF h
    <3>3. r \in ToSet(list)
      BY <2>8, TInvFacts, SeqIs DEF InTable
    <3>4. r \in Due(f) \cup f.touched
      <4>1. r \in f.was.rows \cup f.touched
        BY <1>2, <3>3 DEF Kept
      <4>2. Contains(f.ask.arg, r)
        BY <1>4, <2>2, ToSetIs, SearchFields, AskFields, <1>2, SeqIs
      <4>3. Satisfies(f.ask, r, f.was.val)
        BY <1>3, <4>2 DEF Satisfies
      <4> QED BY <4>1, <4>3 DEF Due
    <3>5. \A q \in Owed(h) : Passed(h, q, list, val, index) => q \in ToSet(h.found)
      BY <1>4, <2>2, <2>6, <3>1 DEF Passed
    <3>6. ToSet(h.left) \subseteq ToSet(h.ask.arg)
      BY <1>4, <2>2, <2>6, <3>1
    <3>7. WalkDid(h, list, val, index, at')
      BY <1>4, <2>6, <2>7, <3>1, <3>4, <3>5, <3>6 DEF WalkDid
    <3>8. Did(h, list, val, index, at')
      BY <2>5, <2>6, <3>1, <3>7 DEF Did
    <3> QED BY <1>1, <1>2, <2>3, <3>1, <3>2, <3>8, WalkDidOn DEF f
  <2>9. CASE ~InTable(r)
    <3>1. searches' = Now(g)
      BY <2>3, <2>9
    <3>2. r \notin ToSet(list)
      BY <2>9, TInvFacts, SeqIs DEF InTable
    <3>3. \A q \in Owed(g) : Left(g, q, val, at') => q \in ToSet(g.found)
      <4>1. Owed(f) \subseteq ToSet(list)
        BY <1>1, <1>3 DEF Sound, Owed, Due
      <4> QED BY <1>3, <1>4, <2>2, <2>4, <2>6, <3>2, <4>1 DEF Left
    <3>4. ToSet(g.left) \subseteq ToSet(g.ask.arg) /\ ~AtRow(g)
      BY <1>4, <2>2, <2>4, <2>6 DEF AtRow
    <3>5. WalkDid(g, list, val, index, at')
      <4>1. /\ Past(g) = Past(f) /\ g.ask = f.ask /\ g.walk = "hash" /\ g.mode = f.mode /\ g.found = f.found
            /\ g.acted = f.acted /\ ~g.cut /\ g.stage = "seek" /\ g.result = "ok"
        BY <1>4, <2>4, <2>6
      <4> QED BY <1>4, <2>7, <3>3, <3>4, <4>1 DEF WalkDid
    <3>6. Did(g, list, val, index, at')
      BY <1>4, <2>4, <2>5, <2>6, <3>5 DEF Did
    <3> QED BY <1>1, <1>2, <2>3, <2>4, <3>1, <3>6, WalkDidOn DEF f
  <2> QED BY <2>8, <2>9
<1> QED BY <1>5, <1>6

\* A walk comes to one more node.
LEMMA VisitsOneMore ==
  ASSUME TInv, NEW f, NEW g, NEW a, NEW b, NEW v \in Nodes(index),
         Visited(f, val, index, a) \subseteq Visited(g, val, index, b),
         v \notin Visited(f, val, index, a), v \in Visited(g, val, index, b)
  PROVE  /\ Cardinality(Visited(f, val, index, a)) \in Nat /\ Cardinality(Visited(g, val, index, b)) \in Nat
         /\ Cardinality(Visited(f, val, index, a)) + 1 <= Cardinality(Visited(g, val, index, b))
<1> DEFINE F == Visited(f, val, index, a)
           G == Visited(g, val, index, b)
           N == Nodes(index)
<1>1. IsFiniteSet(N) /\ F \subseteq N /\ G \subseteq N /\ F \cup {v} \subseteq G /\ v \notin F
  BY NodesCount DEF Visited
<1> HIDE DEF F, G, N
<1>2. IsFiniteSet(F) /\ IsFiniteSet(G)
  BY <1>1, FS_Subset
<1>3. Cardinality(F \cup {v}) <= Cardinality(G)
  BY <1>1, <1>2, FS_Subset
<1>4. Cardinality(F \cup {v}) = Cardinality(F) + 1
  BY <1>1, <1>2, FS_AddElement
<1> QED BY <1>2, <1>3, <1>4, FS_CardinalityType DEF F, G

\* A walk of the index comes to the row r of the node v.
LEMMA NodeDid ==
  ASSUME TInv, DInv, searches # <<>>, Same, NEW f \in Search, NEW v \in Nodes(index),
         f.walk = "index", Top.walk = "index", f.phase = "walk", Top.phase = "walk", f.stage = "seek",
         f.touched = {}, Sound(f, list, val), f.result = "ok", ~f.cut,
         f.mode = "defer" \/ f.ask.does = "count" => f.acted = <<>>,
         f.mode # "defer" /\ f.ask.does # "count" => Len(f.acted) = Past(f),
         f.mode # "defer" /\ f.ask.limit > 0 => Len(f.found) < f.ask.offset + f.ask.limit,
         NEW h, h = ComeTo(f, Head(index[v])), searches' = Now(h),
         f.ask.find = "in" => ToSet(f.left) \subseteq ToSet(f.ask.arg),
         \A q \in Owed(f) : IF f.ask.find = "in" THEN val[q] # v /\ val[q] \notin ToSet(f.left) => q \in ToSet(f.found)
                            ELSE val[q] < v => q \in ToSet(f.found),
         \A r \in Rows : f.was.val[r] = v => Satisfies(f.ask, r, f.was.val),
         Head(index[v]) \in f.was.rows,
         f.steps + 1 <= Cardinality(Visited(h, val, index, at'))
  PROVE  DInv'
<1> DEFINE r == Head(index[v])
<1>1. /\ list \in Seq(Rows) /\ ToSet(list) \subseteq Rows /\ val \in [Rows -> Values] /\ Indexed(list, val, index)
  BY TInvFacts
<1>2. r \in ToSet(list) /\ r \in Rows /\ val[r] = v /\ v \in Values
  BY <1>1, NodeIs
<1>3. index[v] \in Seq(Rows) /\ index[v] # <<>> /\ IsInjective(index[v])
  BY <1>1, <1>2 DEF Indexed, Nodes
<1>4. \A q : ~Leads(index[v], q, r)
  BY <1>3, HeadLeads
<1> HIDE DEF r
<1>5. /\ h \in Search /\ h.row = r /\ h.stage \in {"poll", "match"} /\ h.left = f.left /\ Alike(f, h)
      /\ h.result = "ok" /\ h.steps = f.steps + 1
  BY <1>2, ComesTo, ComesAlike DEF r
<1>6. /\ Owed(h) = Owed(f) /\ Due(h) = Due(f) /\ Past(h) = Past(f) /\ Sound(h, list, val)
      /\ h.ask = f.ask /\ h.walk = "index" /\ h.mode = f.mode /\ h.phase = "walk"
      /\ h.found = f.found /\ h.acted = f.acted /\ ~h.cut /\ h.touched = {}
  BY <1>5, AlikeIs DEF Alike
<1>7. Len(f.found) \in Nat /\ f.ask.offset \in Nat /\ f.ask.limit \in Nat
  BY SearchFields, AskFields
<1>8. r \in Due(f)
  <2>1. f.was.val[r] = v /\ r \in f.was.rows
    BY <1>2 DEF Sound, r
  <2> QED BY <1>2, <2>1 DEF Due
<1>9. \A q \in Owed(h) : Passed(h, q, list, val, index) => q \in ToSet(h.found)
  <2>1. SUFFICES ASSUME NEW q \in Owed(f), Passed(h, q, list, val, index) PROVE q \in ToSet(f.found)
    BY <1>6
  <2>2. CASE f.ask.find = "in"
    <3>1. val[q] # v /\ val[q] \notin ToSet(f.left)
      BY <1>2, <1>4, <1>5, <1>6, <2>1, <2>2 DEF Passed
    <3> QED BY <2>2, <3>1
  <2>3. CASE f.ask.find # "in"
    <3>1. val[q] < v
      BY <1>2, <1>4, <1>5, <1>6, <2>1, <2>3 DEF Passed
    <3> QED BY <2>3, <3>1
  <2> QED BY <2>2, <2>3
<1>10. f.ask.find # "keys"
  BY DEF Sound, Fixed
<1>11. WalkDid(h, list, val, index, at')
  <2>1. /\ h.stage \notin {"post", "act", "done", "seek"} /\ h.ask.find # "keys"
        /\ h.mode # "defer" /\ h.ask.limit > 0 => Len(h.found) < h.ask.offset + h.ask.limit
        /\ h.mode # "defer" /\ h.ask.limit > 0 => Len(h.found) <= h.ask.offset + h.ask.limit
    BY <1>5, <1>6, <1>7, <1>10
  <2>2. h.steps <= Cardinality(Visited(h, val, index, at'))
    BY <1>5
  <2>3. h.row \in Due(h) \cup h.touched
    BY <1>5, <1>6, <1>8
  <2> QED BY <1>5, <1>6, <1>9, <2>1, <2>2, <2>3 DEF WalkDid
<1>12. Did(h, list, val, index, at')
  BY <1>5, <1>6, <1>11 DEF Did
<1> QED BY <1>5, <1>12, WalkDidOn

LEMMA SeekNodeDid ==
  ASSUME TInv, DInv, SeekNode
  PROVE  DInv'
<1> DEFINE f == Top
           g == [f EXCEPT !.left = Tail(@)]
<1>1. searches # <<>> /\ f.stage = "seek" /\ f.walk = "index" /\ Same
  BY DEF SeekNode, AtStage
<1>2. /\ f.phase = "walk" /\ f \in Search /\ Kept(f, list) /\ Stands(f, list, val, index, at)
  BY <1>1, SeekWalks, TopWalks
<1>3. /\ f.touched = {} /\ at \in Nodes(index) \cup {End}
      /\ f.ask.find = "in" => IsInjective(f.left) /\ ToSet(f.left) \subseteq Values
  BY <1>1, <1>2 DEF Stands
<1>4. /\ list \in Seq(Rows) /\ ToSet(list) \subseteq Rows /\ val \in [Rows -> Values] /\ Len(list) \in Nat
      /\ at \in Pointer /\ Indexed(list, val, index) /\ Nodes(index) \subseteq Values
  BY TInvFacts, NodesAre
<1>5. Sound(f, list, val) /\ WalkDid(f, list, val, index, at)
  BY <1>1, <1>2, TopDone
<1>6. /\ f.result = "ok" /\ ~f.cut /\ ~AtRow(f)
      /\ f.ask.find = "in" => ToSet(f.left) \subseteq ToSet(f.ask.arg)
      /\ \A q \in Owed(f) : Left(f, q, val, at) => q \in ToSet(f.found)
      /\ f.mode = "defer" \/ f.ask.does = "count" => f.acted = <<>>
      /\ f.mode # "defer" /\ f.ask.does # "count" => Len(f.acted) = Past(f)
      /\ f.mode # "defer" /\ f.ask.limit > 0 => Len(f.found) < f.ask.offset + f.ask.limit
      /\ f.ask.find \in {"eq", "ge"} => at = End \/ at >= f.ask.arg[1]
      /\ f.steps <= Cardinality(Visited(f, val, index, at))
  BY <1>1, <1>5 DEF WalkDid, AtRow
<1>7. /\ f.ask \in Asks /\ f.steps \in Nat /\ Len(f.found) \in Nat /\ f.ask.offset \in Nat /\ f.ask.limit \in Nat
      /\ f.ask.arg \in Seq(Values \cup Rows)
  BY <1>2, SearchFields, AskFields
<1>8. f.ask.find \in {"le", "eq", "ge", "in"}
  BY <1>1, <1>5 DEF Sound, Fixed
<1>9. ToSet(list) \subseteq f.was.rows /\ f.was.rows \subseteq ToSet(list)
  BY <1>1, <1>2, <1>3, <1>5 DEF Kept, Sound
<1>10. \A q \in Owed(f) : q \in ToSet(list) /\ q \in Rows /\ f.was.val[q] = val[q] /\ val[q] \in Nodes(index) /\ val[q] \in Nat
                          /\ Satisfies(f.ask, q, f.was.val)
  <2>1. \A q \in Owed(f) : q \in ToSet(list) /\ q \in Rows /\ Satisfies(f.ask, q, f.was.val)
    BY <1>4, <1>9 DEF Owed, Due
  <2> QED BY <1>3, <1>4, <1>5, <2>1, NodesCount, DataAssumption DEF Sound
<1>11. ~(f.steps > Len(list))
  <2> DEFINE V == Visited(f, val, index, at)
             N == Nodes(index)
  <2>1. IsFiniteSet(N) /\ Cardinality(N) <= Len(list) /\ V \subseteq N
    BY NodesCount DEF Visited
  <2>2. f.steps <= Cardinality(V)
    BY <1>6
  <2> HIDE DEF V, N
  <2>3. Cardinality(V) <= Cardinality(N) /\ IsFiniteSet(V)
    BY <2>1, FS_Subset
  <2>4. Cardinality(V) \in Nat /\ Cardinality(N) \in Nat
    BY <2>1, <2>3, FS_CardinalityType
  <2> QED BY <1>4, <1>7, <2>1, <2>2, <2>3, <2>4
<1>12. ASSUME Over(f), AllFound(f) PROVE DInv'
  <2>1. Enough(f) /\ (f.mode # "defer" /\ f.ask.limit > 0 => Len(f.found) <= f.ask.offset + f.ask.limit)
    BY <1>6, <1>7, <1>12 DEF Enough
  <2> QED BY <1>1, <1>2, <1>5, <1>6, <1>12, <2>1, OverDid
<1>13. CASE f.ask.find = "in" /\ f.left = <<>>
  <2>1. Over(f)
    BY <1>11, <1>13 DEF SeekNode
  <2>2. ToSet(f.left) = {}
    BY <1>13, ToSetIs
  <2>3. AllFound(f)
    BY <1>1, <1>6, <1>13, <2>2 DEF AllFound, Left
  <2> QED BY <1>12, <2>1, <2>3
<1>14. CASE f.ask.find = "in" /\ f.left # <<>>
  <2> DEFINE v == Head(f.left)
             t == Tail(f.left)
  <2>1. f.left \in Seq(Values \cup Rows)
    BY <1>2, SearchFields
  <2>2. /\ t \in Seq(Values \cup Rows) /\ ToSet(t) \subseteq ToSet(f.left) /\ ToSet(f.left) \subseteq ToSet(t) \cup {v}
        /\ v \notin ToSet(t) /\ v \in Values /\ v \in ToSet(f.left)
    BY <1>3, <1>14, <2>1, TailIs, HeadIs
  <2>3. /\ searches' = Now(IF v \in Nodes(index) THEN ComeTo(g, Head(index[v])) ELSE g)
        /\ at' = First({w \in Nodes(index) : w >= v})
    BY <1>11, <1>14 DEF SeekNode
  <2> HIDE DEF v, t
  <2>4. g \in Search /\ Alike(f, g) /\ g.left = t /\ g.stage = "seek" /\ g.result = f.result /\ g.steps = f.steps
    BY <1>1, <1>2, <2>2 DEF Search, Alike, t
  <2> HIDE DEF f, g
  <2>5. /\ Owed(g) = Owed(f) /\ Due(g) = Due(f) /\ Past(g) = Past(f) /\ Sound(g, list, val)
    BY <1>1, <1>5, <1>6, <2>4, AlikeIs
  <2>6. /\ g.ask = f.ask /\ g.walk = "index" /\ g.mode = f.mode /\ g.phase = "walk"
        /\ g.found = f.found /\ g.acted = f.acted /\ ~g.cut /\ g.touched = {} /\ g.was = f.was
    BY <1>1, <1>2, <1>3, <1>6, <2>4 DEF Alike
  <2>7. ToSet(g.left) \subseteq ToSet(g.ask.arg) /\ ~AtRow(g)
    BY <1>6, <1>14, <2>2, <2>4, <2>6 DEF AtRow
  <2>8. CASE v \in Nodes(index)
    <3> DEFINE h == ComeTo(g, Head(index[v]))
    <3>1. Head(index[v]) \in Rows /\ Head(index[v]) \in f.was.rows
      BY <1>4, <1>9, <2>8, NodeIs
    <3>2. /\ h \in Search /\ h.stage \in {"poll", "match"} /\ h.left = t /\ h.ask = f.ask
      BY <2>4, <2>6, <3>1, ComesTo DEF Agree
    <3>3. searches' = Now(h)
      BY <2>3, <2>8
    <3> HIDE DEF h
    <3>4. /\ Visited(f, val, index, at) \subseteq Visited(h, val, index, at')
          /\ v \notin Visited(f, val, index, at) /\ v \in Visited(h, val, index, at')
      BY <1>14, <2>2, <2>8, <3>2 DEF Visited
    <3>5. f.steps + 1 <= Cardinality(Visited(h, val, index, at'))
      <4>1. /\ Cardinality(Visited(f, val, index, at)) \in Nat /\ Cardinality(Visited(h, val, index, at')) \in Nat
            /\ Cardinality(Visited(f, val, index, at)) + 1 <= Cardinality(Visited(h, val, index, at'))
        BY <2>8, <3>4, VisitsOneMore
      <4> QED BY <1>6, <1>7, <4>1
    <3>6. \A r \in Rows : f.was.val[r] = v => Satisfies(f.ask, r, f.was.val)
      <4>1. Contains(f.ask.arg, v)
        BY <1>6, <1>7, <1>14, <2>2, SeqIs
      <4> QED BY <1>14, <4>1 DEF Satisfies
    <3>7. \A q \in Owed(f) : val[q] # v /\ val[q] \notin ToSet(t) => q \in ToSet(f.found)
      BY <1>1, <1>6, <1>14, <2>2 DEF Left
    <3> QED BY <1>1, <1>2, <1>6, <1>14, <2>4, <2>5, <2>6, <2>7, <2>8, <3>1, <3>3, <3>5, <3>6, <3>7, NodeDid DEF f, h
  <2>9. CASE v \notin Nodes(index)
    <3>1. searches' = Now(g)
      BY <2>3, <2>9
    <3>2. \A q \in Owed(g) : Left(g, q, val, at') => q \in ToSet(g.found)
      BY <1>1, <1>6, <1>10, <1>14, <2>2, <2>4, <2>5, <2>6, <2>9 DEF Left
    <3>3. Visited(f, val, index, at) \subseteq Visited(g, val, index, at')
      BY <1>14, <2>2, <2>4, <2>6 DEF Visited
    <3>4. g.steps <= Cardinality(Visited(g, val, index, at'))
      <4>1. /\ Cardinality(Visited(f, val, index, at)) <= Cardinality(Visited(g, val, index, at'))
            /\ Cardinality(Visited(f, val, index, at)) \in Nat /\ Cardinality(Visited(g, val, index, at')) \in Nat
        BY <3>3, VisitedCount
      <4> QED BY <1>6, <1>7, <2>4, <4>1
    <3>5. WalkDid(g, list, val, index, at')
      BY <1>6, <1>7, <1>14, <2>4, <2>5, <2>6, <2>7, <3>2, <3>4 DEF WalkDid
    <3>6. Did(g, list, val, index, at')
      BY <2>4, <2>5, <2>6, <3>5 DEF Did
    <3> QED BY <1>1, <1>2, <2>4, <3>1, <3>6, WalkDidOn DEF f
  <2> QED BY <2>8, <2>9
<1>15. CASE f.ask.find # "in" /\ (at = End \/ Beyond(f.ask, at))
  <2>1. Over(f)
    BY <1>11, <1>15 DEF SeekNode
  <2>2. SUFFICES ASSUME NEW q \in Owed(f) PROVE at = End \/ val[q] < at
    BY <1>1, <1>6, <1>12, <1>15, <2>1 DEF AllFound, Left
  <2>3. CASE Beyond(f.ask, at)
    <3>1. f.ask.find \in {"le", "eq"} /\ at > f.ask.arg[1] /\ f.ask.arg[1] \in Nat /\ at \in Nat
      <4>1. f.ask.find \in {"le", "eq"} /\ at > f.ask.arg[1]
        BY <2>3 DEF Beyond
      <4>2. f.ask.arg[1] \in Nat
        BY <1>7, <4>1, ArgIs
      <4>3. at \in Nat
        BY <1>4, DataAssumption DEF Pointer, End
      <4> QED BY <4>1, <4>2, <4>3
    <3>2. val[q] <= f.ask.arg[1]
      <4>1. Satisfies(f.ask, q, f.was.val) /\ f.was.val[q] = val[q] /\ val[q] \in Nat
        BY <1>10
      <4>2. CASE f.ask.find = "le"
        BY <4>1, <4>2 DEF Satisfies
      <4>3. CASE f.ask.find = "eq"
        BY <3>1, <4>1, <4>3 DEF Satisfies
      <4> QED BY <3>1, <4>2, <4>3
    <3> QED BY <1>10, <3>1, <3>2
  <2> QED BY <1>15, <2>3
<1>16. CASE f.ask.find # "in" /\ ~(at = End \/ Beyond(f.ask, at))
  <2> DEFINE h == ComeTo(f, Head(index[at]))
  <2>1. at \in Nodes(index)
    BY <1>3, <1>16
  <2>2. searches' = Now(h) /\ at' = at
    BY <1>11, <1>16 DEF SeekNode
  <2>3. Head(index[at]) \in Rows /\ Head(index[at]) \in f.was.rows /\ val[Head(index[at])] = at
    BY <1>4, <1>9, <2>1, NodeIs
  <2>4. /\ h \in Search /\ h.stage \in {"poll", "match"} /\ h.row = Head(index[at]) /\ h.ask = f.ask
    BY <1>2, <2>3, ComesTo DEF Agree
  <2> HIDE DEF h
  <2>5. \A v \in Nodes(index) : v \in Nat
    BY <1>4, DataAssumption
  <2>6. /\ Visited(f, val, index, at) \subseteq Visited(h, val, index, at)
        /\ at \notin Visited(f, val, index, at) /\ at \in Visited(h, val, index, at)
    BY <1>6, <1>16, <2>1, <2>3, <2>4, <2>5 DEF Visited, AtRow
  <2>7. f.steps + 1 <= Cardinality(Visited(h, val, index, at'))
    <3>1. /\ Cardinality(Visited(f, val, index, at)) \in Nat /\ Cardinality(Visited(h, val, index, at)) \in Nat
          /\ Cardinality(Visited(f, val, index, at)) + 1 <= Cardinality(Visited(h, val, index, at))
      BY <2>1, <2>6, VisitsOneMore
    <3> QED BY <1>6, <1>7, <2>2, <3>1
  <2>8. f.ask.arg[1] \in Nat /\ at \in Nat
    BY <1>7, <1>8, <1>16, <2>1, <2>5, ArgIs
  <2>9. ASSUME NEW r \in Rows, f.was.val[r] = at PROVE Satisfies(f.ask, r, f.was.val)
    <3>1. CASE f.ask.find = "le"
      BY <1>16, <2>8, <2>9, <3>1 DEF Satisfies, Beyond
    <3>2. CASE f.ask.find = "eq"
      BY <1>6, <1>16, <2>8, <2>9, <3>2 DEF Satisfies, Beyond
    <3>3. CASE f.ask.find = "ge"
      BY <1>6, <1>16, <2>8, <2>9, <3>3 DEF Satisfies, Beyond
    <3> QED BY <1>8, <1>16, <3>1, <3>2, <3>3
  <2>10. \A q \in Owed(f) : val[q] < at => q \in ToSet(f.found)
    BY <1>1, <1>6, <1>16 DEF Left
  <2> QED BY <1>1, <1>2, <1>3, <1>5, <1>6, <1>16, <2>1, <2>2, <2>3, <2>7, <2>9, <2>10, NodeDid DEF h
<1> QED BY <1>8, <1>13, <1>14, <1>15, <1>16

\* The script of -poll_code returns.
LEMMA PolledDid ==
  ASSUME TInv, DInv, Polled
  PROVE  DInv'
<1> DEFINE f == Top
           st == IF f.phase = "walk" THEN "match" ELSE "act"
           h == [f EXCEPT !.stage = st]
<1>1. searches # <<>> /\ f.stage = "poll" /\ Same /\ searches' = Now(h) /\ at' = at
  BY DEF Polled, AtStage
<1>2. f \in Search /\ f.phase \in {"walk", "after"} /\ Did(f, list, val, index, at)
  BY <1>1, TopIs, TopDone, SearchFields
<1>3. st \in {"match", "act"} /\ (f.phase = "walk" <=> st = "match")
  OBVIOUS
<1> HIDE DEF st
<1>4. /\ h \in Search /\ Alike(f, h) /\ h.stage = st /\ h.result = f.result /\ h.left = f.left /\ h.row = f.row
      /\ h.steps = f.steps /\ h.walkIndex = f.walkIndex /\ h.offsetLimit = f.offsetLimit
  BY <1>2, <1>3 DEF Search, Alike
<1> HIDE DEF f, h
<1>5. f.result # "endless"
  BY <1>2 DEF Did, Sound
<1>6. /\ Owed(h) = Owed(f) /\ Due(h) = Due(f) /\ (Enough(h) <=> Enough(f)) /\ Past(h) = Past(f) /\ Stop(h) = Stop(f)
      /\ (OffsetLost(h) <=> OffsetLost(f)) /\ Sound(h, list, val)
  BY <1>1, <1>2, <1>4, <1>5, AlikeIs DEF Did
<1>7. /\ h.ask = f.ask /\ h.walk = f.walk /\ h.sorts = f.sorts /\ h.mode = f.mode /\ h.phase = f.phase
      /\ h.tranTable = f.tranTable /\ h.was = f.was /\ h.found = f.found /\ h.acted = f.acted
      /\ h.touched = f.touched /\ h.cut = f.cut
  BY <1>4 DEF Alike
<1>8. AtRow(f) /\ AtRow(h) /\ Visited(h, val, index, at) = Visited(f, val, index, at)
  BY <1>1, <1>3, <1>4, <1>7 DEF AtRow, Visited
<1>9. \A q : Passed(h, q, list, val, index) <=> Passed(f, q, list, val, index)
  BY <1>4, <1>7 DEF Passed
<1>10. ASSUME f.phase = "walk" PROVE WalkDid(h, list, val, index, at)
  <2>1. WalkDid(f, list, val, index, at) /\ st = "match"
    BY <1>2, <1>3, <1>10 DEF Did
  <2> QED BY <1>1, <1>4, <1>6, <1>7, <1>8, <1>9, <2>1 DEF WalkDid
<1>11. ASSUME f.phase = "after" PROVE AfterDid(h)
  <2>1. AfterDid(f) /\ st = "act"
    BY <1>2, <1>3, <1>11 DEF Did
  <2>2. (TableOfFound(f) => TableOfFound(h)) /\ (InSort(f) => InSort(h))
    BY <1>7 DEF TableOfFound, InSort
  <2> QED BY <1>1, <1>4, <1>6, <1>7, <2>1, <2>2 DEF AfterDid
<1>12. Did(h, list, val, index, at')
  BY <1>1, <1>3, <1>4, <1>6, <1>7, <1>10, <1>11 DEF Did
<1>13. UNCHANGED <<list, val, index>> /\ (at' = at \/ Follows(Top))
  BY <1>1 DEF Same, table
<1> QED BY <1>1, <1>4, <1>12, <1>13, TopDid

\* A row that matches is found.
LEMMA FoundIs ==
  ASSUME TInv, NEW f \in Search, f.phase = "walk", f.stage = "match", Stands(f, list, val, index, at),
         Behind(f, list, val, index, at), Sound(f, list, val), WalkDid(f, list, val, index, at),
         f.row \in Due(f) \cup f.touched,
         NEW g, g.found = Append(f.found, f.row), Due(g) = Due(f), g.was = f.was,
         f.walk = "index", f.ask.find # "in"
  PROVE  InOrder(g)
<1> DEFINE s == f.found
           n == Len(s)
           u == g.found
           w == f.was.val
<1>1. f.row \in Rows /\ s \in Seq(Rows) /\ f.touched = {} /\ AtRow(f)
  BY TInvFacts, SearchFields DEF Stands, AtRow
<1>2. /\ n \in Nat /\ DOMAIN s = 1 .. n /\ DOMAIN u = 1 .. n + 1 /\ u[n + 1] = f.row
      /\ \A i \in 1 .. n : u[i] = s[i] /\ s[i] \in Rows
  BY <1>1
<1>3. \A r \in Rows : w[r] = val[r] /\ val[r] \in Nat
  BY <1>1, TInvFacts, DataAssumption DEF Sound
<1>4. \A i \in 1 .. n : Passed(f, s[i], list, val, index)
  <2>1. \A i \in 1 .. n : s[i] \in ToSet(s)
    BY <1>2, ToSetIs
  <2> QED BY <2>1 DEF Behind
<1>5. \A i \in 1 .. n : val[s[i]] <= val[f.row]
  <2>1. \A i \in 1 .. n : val[s[i]] = val[f.row] \/ val[s[i]] < val[f.row]
    BY <1>4 DEF Passed
  <2> QED BY <1>1, <1>2, <1>3, <2>1
<1>6. \A q \in Due(f) : val[q] < val[f.row] => q \in ToSet(s)
  <2>1. SUFFICES ASSUME NEW q \in Due(f), val[q] < val[f.row] PROVE q \in ToSet(s)
    OBVIOUS
  <2>2. q \in Owed(f) /\ val[q] # val[f.row]
    <3>1. q \in Owed(f)
      BY <1>1 DEF Owed
    <3>2. q \in Rows
      BY SearchFields DEF Due
    <3> QED BY <1>1, <1>3, <2>1, <3>1, <3>2
  <2>3. Passed(f, q, list, val, index)
    BY <2>1, <2>2 DEF Passed
  <2> QED BY <1>1, <2>2, <2>3 DEF WalkDid
<1>7. \A q \in Due(f) : q \in Rows
  BY SearchFields DEF Due
<1> HIDE DEF s, n, u, w
<1>8. ASSUME NEW j \in DOMAIN u
      PROVE  /\ \A i \in 1 .. j : w[u[i]] <= w[u[j]]
             /\ \A q \in Due(f) : w[q] < w[u[j]] => \E i \in 1 .. j - 1 : u[i] = q
  <2>1. CASE j = n + 1
    <3>1. \A i \in 1 .. j : i = n + 1 \/ i \in 1 .. n
      BY <1>2, <2>1
    <3>2. \A i \in 1 .. j : w[u[i]] <= w[u[j]]
      BY <1>1, <1>2, <1>3, <1>5, <2>1, <3>1
    <3>3. j - 1 = n
      BY <1>2, <2>1
    <3>4. ASSUME NEW q \in Due(f), w[q] < w[u[j]] PROVE \E i \in 1 .. j - 1 : u[i] = q
      <4>1. q \in ToSet(s)
        BY <1>1, <1>2, <1>3, <1>6, <1>7, <2>1, <3>4
      <4> QED BY <1>2, <3>3, <4>1, ToSetIs
    <3> QED BY <3>2, <3>4
  <2>2. CASE j # n + 1
    <3>1. j \in DOMAIN s /\ u[j] = s[j] /\ \A i \in 1 .. j : i \in 1 .. n
      BY <1>2, <2>2
    <3>2. InOrder(f)
      BY DEF Sound
    <3>3. /\ \A i \in 1 .. j : w[s[i]] <= w[s[j]]
          /\ \A q \in Due(f) : w[q] < w[s[j]] => \E i \in 1 .. j - 1 : s[i] = q
      BY <3>1, <3>2 DEF InOrder, s, w
    <3>4. \A i \in 1 .. j - 1 : i \in 1 .. n
      BY <1>2, <3>1
    <3> QED BY <1>2, <3>1, <3>3, <3>4
  <2> QED BY <2>1, <2>2
<1> QED BY <1>8 DEF InOrder, u, w

LEMMA MatchDid ==
  ASSUME TInv, DInv, Match
  PROVE  DInv'
<1> DEFINE f == Top
           k == f.matchCount + 1
           u == Append(f.found, f.row)
           t == IF f.mode = "none" THEN f.tranTable ELSE Append(f.tranTable, f.row)
           g == [f EXCEPT !.matchCount = k, !.found = u, !.tranTable = t]
           h == [g EXCEPT !.stage = "act"]
<1>1. searches # <<>> /\ f.stage = "match" /\ Same
  BY DEF Match, AtStage
<1>2. /\ f.phase = "walk" /\ f \in Search /\ Held(f, list) /\ Kept(f, list)
      /\ Stands(f, list, val, index, at) /\ Behind(f, list, val, index, at)
  BY <1>1, SeekWalks, TopWalks
<1>3. Sound(f, list, val) /\ WalkDid(f, list, val, index, at)
  BY <1>1, <1>2, TopDone
<1>4. \/ f.walk = "list" /\ ~Satisfies(f.ask, f.row, val) /\ GoOn(f)
      \/ /\ ~(f.walk = "list" /\ ~Satisfies(f.ask, f.row, val))
         /\ \/ (f.mode = "defer" \/ g.matchCount <= f.ask.offset) /\ GoOn(g)
            \/ /\ f.mode # "defer" /\ ~(g.matchCount <= f.ask.offset)
               /\ \/ f.ask.does # "count" /\ searches' = Now(h) /\ at' = at
                  \/ f.ask.does = "count" /\ LimitMet(g) /\ Over(g)
                  \/ f.ask.does = "count" /\ ~LimitMet(g) /\ GoOn(g)
  BY DEF Match
<1>5. /\ f.row \in ToSet(list) /\ f.row \in Rows /\ AtRow(f) /\ f.ask \in Asks
      /\ f.found \in Seq(Rows) /\ f.tranTable \in Seq(Rows) /\ f.matchCount \in Nat
      /\ f.acted \in Seq(Rows) /\ Len(f.acted) \in Nat
      /\ f.ask.offset \in Nat /\ f.ask.limit \in Nat /\ Len(f.found) = f.matchCount
      /\ f.offsetLimit = f.ask.offset + f.ask.limit
  BY <1>1, <1>2, TInvFacts, SearchFields, AskFields DEF Stands, AtRow, Held
<1>6. /\ f.result = "ok" /\ ~f.cut
      /\ f.mode = "defer" \/ f.ask.does = "count" => f.acted = <<>>
      /\ f.mode # "defer" /\ f.ask.does # "count" => Len(f.acted) = Past(f)
      /\ f.mode # "defer" /\ f.ask.limit > 0 => Len(f.found) < f.ask.offset + f.ask.limit
      /\ \A q \in Owed(f) : Passed(f, q, list, val, index) => q \in ToSet(f.found)
      /\ f.walk # "list" => f.row \in Due(f) \cup f.touched
      /\ f.walk = "index" => f.steps <= Cardinality(Visited(f, val, index, at))
      /\ f.ask.find \in {"in", "keys"} => ToSet(f.left) \subseteq ToSet(f.ask.arg)
  BY <1>1, <1>3, <1>5 DEF WalkDid
<1>7. f.row \notin f.touched => (Satisfies(f.ask, f.row, f.was.val) <=> Satisfies(f.ask, f.row, val))
  <2>1. f.row \notin f.touched => f.was.val[f.row] = val[f.row]
    BY <1>3, <1>5 DEF Sound
  <2> QED BY <2>1 DEF Satisfies
<1>8. CASE f.walk = "list" /\ ~Satisfies(f.ask, f.row, val) /\ GoOn(f)
  <2>1. f.row \notin Owed(f)
    <3>1. SUFFICES ASSUME f.row \in Due(f) \ f.touched PROVE FALSE
      BY DEF Owed
    <3>2. Satisfies(f.ask, f.row, f.was.val)
      BY <3>1 DEF Due
    <3> QED BY <1>7, <1>8, <3>1, <3>2
  <2>2. Ready(f)
    BY <1>1, <1>2, <1>3, <1>5, <1>6, <1>8, <2>1 DEF Ready
  <2> QED BY <1>1, <1>2, <1>8, <2>2, GoOnDid
<1>9. ASSUME ~(f.walk = "list" /\ ~Satisfies(f.ask, f.row, val)) PROVE f.row \in Due(f) \cup f.touched
  <2>1. SUFFICES ASSUME f.walk = "list", f.row \notin f.touched PROVE f.row \in Due(f)
    BY <1>6
  <2>2. f.row \in f.was.rows /\ Satisfies(f.ask, f.row, f.was.val)
    BY <1>2, <1>5, <1>7, <1>9, <2>1 DEF Kept
  <2> QED BY <2>2 DEF Due
<1>10. ASSUME ~(f.walk = "list" /\ ~Satisfies(f.ask, f.row, val)),
              \/ (f.mode = "defer" \/ g.matchCount <= f.ask.offset) /\ GoOn(g)
              \/ /\ f.mode # "defer" /\ ~(g.matchCount <= f.ask.offset)
                 /\ \/ f.ask.does # "count" /\ searches' = Now(h) /\ at' = at
                    \/ f.ask.does = "count" /\ LimitMet(g) /\ Over(g)
                    \/ f.ask.does = "count" /\ ~LimitMet(g) /\ GoOn(g)
       PROVE  DInv'
  <2>1. /\ u \in Seq(Rows) /\ Len(u) = k /\ ToSet(u) = ToSet(f.found) \cup {f.row} /\ u[k] = f.row
        /\ \A i \in DOMAIN f.found : i \in DOMAIN u /\ u[i] = f.found[i]
    <3>1. u \in Seq(Rows) /\ Len(u) = k /\ u[k] = f.row /\ \A i \in DOMAIN f.found : i \in DOMAIN u /\ u[i] = f.found[i]
      BY <1>5
    <3>2. ToSet(u) = ToSet(f.found) \cup {f.row}
      BY <1>5, AppendIs
    <3> QED BY <3>1, <3>2
  <2>2. k \in Nat /\ t \in Seq(Rows)
    BY <1>5
  <2> HIDE DEF f, u, t
  <2>3. /\ g \in Search /\ g.ask = f.ask /\ g.walk = f.walk /\ g.sorts = f.sorts /\ g.mode = f.mode /\ g.phase = f.phase
        /\ g.stage = f.stage /\ g.row = f.row /\ g.left = f.left /\ g.matchCount = k /\ g.steps = f.steps
        /\ g.offsetLimit = f.offsetLimit /\ g.result = f.result
        /\ g.was = f.was /\ g.found = u /\ g.touched = f.touched /\ g.acted = f.acted /\ g.cut = f.cut
    BY <1>2, <2>1, <2>2 DEF Search
  <2> HIDE DEF g, k
  <2>4. Due(g) = Due(f) /\ Owed(g) = Owed(f) /\ AtRow(g) /\ Visited(g, val, index, at) = Visited(f, val, index, at)
    BY <1>5, <2>3 DEF Due, Owed, AtRow, Visited
  <2>5. f.row \in Due(f) \cup f.touched
    BY <1>9, <1>10
  <2>6. Sound(g, list, val)
    <3>1. Fixed(g)
      BY <1>3, <2>3 DEF Sound, Fixed
    <3>2. ActsOn(g)
      <4>1. CASE f.mode = "defer"
        <5>1. g.acted = <<>>
          BY <1>6, <2>3, <4>1
        <5> QED BY <5>1 DEF ActsOn
      <4>2. CASE f.mode # "defer"
        <5>1. ActsOn(f) /\ Source(f) = f.found /\ Source(g) = u
          BY <1>3, <2>3, <4>2 DEF Sound, Source
        <5> QED BY <2>1, <2>3, <5>1 DEF ActsOn
      <4> QED BY <4>1, <4>2
    <3>3. ToSet(g.found) \subseteq Due(g) \cup g.touched
      BY <1>3, <2>1, <2>3, <2>4, <2>5 DEF Sound
    <3>4. g.walk = "index" /\ g.ask.find # "in" => InOrder(g)
      BY <1>1, <1>2, <1>3, <2>3, <2>4, <2>5, FoundIs DEF f, u
    <3> QED BY <1>1, <1>3, <2>3, <3>1, <3>2, <3>3, <3>4 DEF Sound
  <2>7. Kept(g, list)
    BY <1>2, <2>3 DEF Kept
  <2>8. Stands(g, list, val, index, at)
    BY <1>2, <1>5, <2>3, <2>4 DEF Stands, Findable
  <2>9. f.mode # "defer" /\ f.ask.limit > 0 => Len(g.found) <= f.ask.offset + f.ask.limit
    BY <1>5, <1>6, <2>1, <2>3 DEF k
  <2>10. f.mode = "defer" \/ f.ask.does = "count" \/ k <= f.ask.offset =>
           (f.mode # "defer" /\ f.ask.does # "count" => Len(g.acted) = Past(g))
    BY <1>5, <1>6, <2>1, <2>3 DEF k, Past
  <2>11. ASSUME GoOn(g), f.mode = "defer" \/ k <= f.ask.offset \/ (f.ask.does = "count" /\ ~LimitMet(g)) PROVE DInv'
    <3>1. f.mode # "defer" /\ f.ask.limit > 0 => Len(g.found) < f.ask.offset + f.ask.limit
      BY <1>5, <2>1, <2>3, <2>11 DEF LimitMet, k
    <3>2. \A q \in Owed(g) : q = g.row \/ Passed(g, q, list, val, index) => q \in ToSet(g.found)
      BY <1>6, <2>1, <2>3, <2>4 DEF Passed
    <3>3. f.mode # "defer" /\ f.ask.does # "count" => Len(g.acted) = Past(g)
      BY <2>10, <2>11
    <3>4. Ready(g)
      BY <1>2, <1>6, <2>3, <2>4, <2>5, <2>6, <3>1, <3>2, <3>3 DEF Ready
    <3> QED BY <1>1, <1>2, <2>3, <2>7, <2>8, <2>11, <3>4, GoOnDid DEF f
  <2>12. ASSUME Over(g), f.mode # "defer", f.ask.does = "count", LimitMet(g) PROVE DInv'
    <3>1. g.ask.limit > 0 /\ Len(g.found) = g.ask.offset + g.ask.limit
      BY <1>5, <2>1, <2>3, <2>9, <2>12 DEF LimitMet
    <3>2. Enough(g)
      BY <2>3, <2>12, <3>1 DEF Enough, Full
    <3> QED BY <1>1, <1>2, <1>6, <2>3, <2>6, <2>9, <2>10, <2>12, <3>2, OverDid DEF f
  <2>13. ASSUME f.mode # "defer", ~(k <= f.ask.offset), f.ask.does # "count", searches' = Now(h), at' = at PROVE DInv'
    <3>1. /\ h \in Search /\ Alike(g, h) /\ h.left = g.left /\ h.row = g.row /\ h.stage = "act" /\ h.result = g.result
          /\ h.steps = g.steps
      BY <2>3 DEF Search, Alike
    <3> HIDE DEF h
    <3>2. /\ h.ask = f.ask /\ h.walk = f.walk /\ h.mode = f.mode /\ h.phase = "walk" /\ h.found = u
          /\ h.acted = f.acted /\ h.cut = f.cut /\ h.touched = f.touched /\ h.result = "ok"
      BY <1>2, <1>6, <2>3, <3>1 DEF Alike
    <3>3. /\ Due(h) = Due(f) /\ Owed(h) = Owed(f) /\ Past(h) = Past(g) /\ Sound(h, list, val) /\ AtRow(h)
      BY <1>1, <1>6, <2>3, <2>4, <2>6, <3>1, AlikeIs DEF AtRow
    <3>4. Visited(h, val, index, at) = Visited(f, val, index, at)
      BY <1>5, <2>3, <3>1, <3>2, <3>3 DEF Visited
    <3>5. Len(h.acted) = Past(h) - 1 /\ h.ask.offset < Len(h.found)
      <4>1. Len(f.acted) = Past(f)
        BY <1>6, <2>13
      <4> QED BY <1>5, <2>1, <2>3, <2>13, <3>2, <3>3, <4>1 DEF Past, k
    <3>6. h.found[Len(h.found)] = h.row
      BY <2>1, <2>3, <3>1, <3>2
    <3>7. \A q \in Owed(h) : Passed(h, q, list, val, index) => q \in ToSet(h.found)
      BY <1>6, <2>1, <2>3, <3>1, <3>2, <3>3 DEF Passed
    <3>8. h.row \in Due(h) \cup h.touched
      BY <2>3, <2>5, <3>1, <3>2, <3>3
    <3>9. WalkDid(h, list, val, index, at')
      BY <1>6, <2>3, <2>9, <2>13, <3>1, <3>2, <3>3, <3>4, <3>5, <3>6, <3>7, <3>8 DEF WalkDid
    <3>10. Did(h, list, val, index, at')
      BY <3>1, <3>2, <3>3, <3>9 DEF Did
    <3> QED BY <1>1, <1>2, <2>3, <2>13, <3>1, <3>10, TopDid DEF f, Same, table
  <2> QED BY <1>10, <2>3, <2>11, <2>12, <2>13
<1> QED BY <1>4, <1>8, <1>10

\* What a script or a write leaves of the record of the innermost search.
LEMMA ActedSound ==
  ASSUME Top \in Search, Top.row \in Rows, NEW c \in {"ok", "break", "return", "error"},
         Sound(Top, list, val), Top.stage = "act", Top.result = "ok", ~Top.cut,
         Top.ask.offset + Len(Top.acted) + 1 \in DOMAIN Source(Top),
         Source(Top)[Top.ask.offset + Len(Top.acted) + 1] = Top.row,
         NEW g, g = Acted(c)
  PROVE  /\ g \in Search /\ g.ask = Top.ask /\ g.walk = Top.walk /\ g.sorts = Top.sorts
         /\ g.mode = Top.mode /\ g.phase = Top.phase /\ g.stage = "act" /\ g.row = Top.row
         /\ g.left = Top.left /\ g.steps = Top.steps /\ g.matchCount = Top.matchCount
         /\ g.offsetLimit = Top.offsetLimit /\ g.tranTable = Top.tranTable /\ g.walkIndex = Top.walkIndex
         /\ g.was = Top.was /\ g.found = Top.found /\ g.touched = Top.touched
         /\ Len(g.acted) = Len(Top.acted) + 1
         /\ (g.cut <=> c \in {"break", "return"})
         /\ g.result = IF c = "return" THEN "return" ELSE "ok"
         /\ Due(g) = Due(Top) /\ Owed(g) = Owed(Top) /\ Past(g) = Past(Top) /\ Stop(g) = Stop(Top)
         /\ (OffsetLost(g) <=> OffsetLost(Top)) /\ (AllFound(g) <=> AllFound(Top)) /\ (Full(g) <=> Full(Top))
         /\ Sound(g, list, val)
<1> DEFINE s == Append(Top.acted, Top.row)
           u == Top.cut \/ c \in {"break", "return"}
           d == IF c = "return" THEN c ELSE Top.result
           a == Top.acted
           n == Len(a)
<1>1. a \in Seq(Rows)
  BY SearchFields
<1>2. /\ n \in Nat /\ DOMAIN a = 1 .. n /\ s \in Seq(Rows) /\ Len(s) = n + 1 /\ DOMAIN s = 1 .. n + 1
      /\ s[n + 1] = Top.row /\ \A i \in 1 .. n : s[i] = a[i]
  BY <1>1
<1>3. d \in {"ok", "return"} /\ d = IF c = "return" THEN "return" ELSE "ok"
  OBVIOUS
<1>4. u \in BOOLEAN /\ (u <=> c \in {"break", "return"})
  OBVIOUS
<1> DEFINE t == Top
           f == [t EXCEPT !.acted = s, !.cut = u, !.result = d]
<1>5. Acted(c) = f /\ t \in Search
  BY DEF Acted
<1>6. ActsOn(t) /\ Sound(t, list, val)
  BY DEF Sound
<1>7. t.ask.offset \in Nat
  BY <1>5, SearchFields, AskFields
<1>8. t.ask.offset + n + 1 \in DOMAIN Source(t) /\ Source(t)[t.ask.offset + n + 1] = s[n + 1] /\ t.acted = a
      /\ t.ask.offset + n + 1 = t.ask.offset + (n + 1)
  BY <1>2, <1>7
<1>9. t = Top
  OBVIOUS
<1> HIDE DEF s, u, d, a, n, t
<1>10. /\ f \in Search /\ f.ask = t.ask /\ f.walk = t.walk /\ f.sorts = t.sorts
       /\ f.mode = t.mode /\ f.phase = t.phase /\ f.stage = t.stage /\ f.row = t.row
       /\ f.left = t.left /\ f.steps = t.steps /\ f.matchCount = t.matchCount
       /\ f.offsetLimit = t.offsetLimit /\ f.tranTable = t.tranTable /\ f.walkIndex = t.walkIndex
       /\ f.was = t.was /\ f.found = t.found /\ f.touched = t.touched
       /\ f.acted = s /\ f.result = d
  BY <1>2, <1>3, <1>4, <1>5 DEF Search
<1>11. f.cut = u
  BY <1>5 DEF Search
<1> HIDE DEF f
<1>12. /\ Due(f) = Due(t) /\ Owed(f) = Owed(t) /\ Past(f) = Past(t) /\ Stop(f) = Stop(t)
       /\ (OffsetLost(f) <=> OffsetLost(t)) /\ (AllFound(f) <=> AllFound(t)) /\ (Full(f) <=> Full(t))
       /\ Source(f) = Source(t)
  BY <1>10 DEF Due, Owed, Past, Stop, OffsetLost, AllFound, Full, Source
<1>13. ActsOn(f)
  <2>1. SUFFICES ASSUME NEW k \in 1 .. n + 1
                 PROVE  f.ask.offset + k \in DOMAIN Source(f) /\ s[k] = Source(f)[f.ask.offset + k]
    BY <1>2, <1>10 DEF ActsOn
  <2>2. CASE k = n + 1
    BY <1>2, <1>8, <1>10, <1>12, <2>2
  <2>3. CASE k # n + 1
    <3>1. k \in DOMAIN a /\ s[k] = a[k]
      BY <1>2, <2>3
    <3> QED BY <1>6, <1>8, <1>10, <1>12, <3>1 DEF ActsOn
  <2> QED BY <2>2, <2>3
<1>14. Sound(f, list, val)
  <2>1. Fixed(f)
    BY <1>6, <1>10 DEF Sound, Fixed
  <2>2. f.walk = "index" /\ f.ask.find # "in" => InOrder(f)
    BY <1>6, <1>10, <1>12 DEF Sound, InOrder
  <2> QED BY <1>3, <1>6, <1>10, <1>12, <1>13, <2>1, <2>2 DEF Sound
<1> QED BY <1>2, <1>3, <1>4, <1>5, <1>8, <1>9, <1>10, <1>11, <1>12, <1>14

\* The action on a row.
LEMMA ActDid ==
  ASSUME TInv, DInv, NEW c \in {"ok", "break", "return", "error"}, Act(c)
  PROVE  DInv'
<1> DEFINE f == Acted(c)
           t == Top
<1>1. searches # <<>> /\ t.stage = "act" /\ t.phase = "walk" /\ Same
  BY DEF Act, AtStage
<1>2. /\ t \in Search /\ Held(t, list) /\ Kept(t, list)
      /\ Stands(t, list, val, index, at) /\ Behind(t, list, val, index, at)
  BY <1>1, TopWalks
<1>3. Sound(t, list, val) /\ WalkDid(t, list, val, index, at)
  BY <1>1, <1>2, TopDone
<1>4. /\ AtRow(t) /\ t.row \in Rows /\ t.ask \in Asks
      /\ t.found \in Seq(Rows) /\ t.acted \in Seq(Rows)
      /\ t.ask.offset \in Nat /\ t.ask.limit \in Nat /\ Len(t.found) = t.matchCount
      /\ t.offsetLimit = t.ask.offset + t.ask.limit
  BY <1>1, <1>2, TInvFacts, SearchFields, AskFields DEF Stands, AtRow, Held
<1>5. /\ t.result = "ok" /\ ~t.cut /\ t.mode # "defer" /\ t.ask.does # "count"
      /\ t.ask.offset < Len(t.found) /\ t.found[Len(t.found)] = t.row
      /\ Len(t.acted) = Past(t) - 1
      /\ t.ask.limit > 0 => Len(t.found) <= t.ask.offset + t.ask.limit
      /\ \A q \in Owed(t) : Passed(t, q, list, val, index) => q \in ToSet(t.found)
      /\ t.walk # "list" => t.row \in Due(t) \cup t.touched
      /\ t.walk = "index" => t.steps <= Cardinality(Visited(t, val, index, at))
      /\ t.ask.find \in {"in", "keys"} => ToSet(t.left) \subseteq ToSet(t.ask.arg)
  BY <1>1, <1>3, <1>4 DEF WalkDid
<1>6. Len(t.found) \in Nat /\ DOMAIN t.found = 1 .. Len(t.found) /\ Len(t.acted) \in Nat
  BY <1>4
<1>7. t.ask.offset + Len(t.acted) + 1 = Len(t.found) /\ Len(t.found) \in DOMAIN Source(t)
      /\ Source(t)[Len(t.found)] = t.row
  BY <1>4, <1>5, <1>6 DEF Past, Source
<1>8. /\ f \in Search /\ f.ask = t.ask /\ f.walk = t.walk
      /\ f.mode = t.mode /\ f.phase = t.phase /\ f.stage = "act" /\ f.row = t.row
      /\ f.left = t.left /\ f.steps = t.steps /\ f.matchCount = t.matchCount /\ f.offsetLimit = t.offsetLimit
      /\ f.was = t.was /\ f.found = t.found /\ f.touched = t.touched
      /\ Len(f.acted) = Len(t.acted) + 1
      /\ (f.cut <=> c \in {"break", "return"})
      /\ f.result = IF c = "return" THEN "return" ELSE "ok"
      /\ Due(f) = Due(t) /\ Owed(f) = Owed(t) /\ Past(f) = Past(t)
      /\ (Full(f) <=> Full(t))
      /\ Sound(f, list, val)
  BY <1>1, <1>2, <1>3, <1>4, <1>5, <1>7, ActedSound
<1>9. \/ c = "error" /\ Fail(f, "error")
      \/ (c \in {"break", "return"} \/ LimitMet(f)) /\ Over(f)
      \/ c = "ok" /\ ~LimitMet(f) /\ GoOn(f)
  BY DEF Act
<1>10. t = Top
  OBVIOUS
<1> HIDE DEF f, t
<1>11. Len(f.acted) = Past(f)
  BY <1>4, <1>5, <1>6, <1>8 DEF Past
<1>12. CASE c = "error" /\ Fail(f, "error")
  BY <1>1, <1>5, <1>8, <1>10, <1>11, <1>12, FailDid
<1>13. CASE (c \in {"break", "return"} \/ LimitMet(f)) /\ Over(f)
  <2>1. LimitMet(f) => Full(f)
    <3>1. SUFFICES ASSUME LimitMet(f) PROVE Full(t)
      BY <1>8
    <3>2. t.ask.limit > 0 /\ Len(t.found) >= t.ask.offset + t.ask.limit
      BY <1>4, <1>8, <3>1 DEF LimitMet
    <3>3. t.ask.limit > 0 => Len(t.found) <= t.ask.offset + t.ask.limit
      BY <1>5
    <3>4. Len(t.found) = t.ask.offset + t.ask.limit
      BY <1>4, <1>6, <3>2, <3>3
    <3> QED BY <3>2, <3>4 DEF Full
  <2>2. Enough(f)
    BY <1>5, <1>8, <1>13, <2>1 DEF Enough
  <2> QED BY <1>1, <1>5, <1>8, <1>10, <1>11, <1>13, <2>2, OverDid
<1>14. CASE c = "ok" /\ ~LimitMet(f) /\ GoOn(f)
  <2>1. t.row \in ToSet(t.found)
    BY <1>4, <1>5, <1>6, ToSetIs
  <2>2. \A q \in Owed(f) : q = f.row \/ Passed(f, q, list, val, index) => q \in ToSet(f.found)
    BY <1>5, <1>8, <2>1 DEF Passed
  <2>3. f.ask.limit > 0 => Len(f.found) < f.ask.offset + f.ask.limit
    BY <1>4, <1>5, <1>6, <1>8, <1>14 DEF LimitMet
  <2>4. AtRow(f) /\ Visited(f, val, index, at) = Visited(t, val, index, at)
    BY <1>1, <1>8 DEF AtRow, Visited
  <2>5. Stands(f, list, val, index, at) /\ Kept(f, list)
    BY <1>2, <1>4, <1>8, <2>4 DEF Stands, Kept, Findable
  <2>6. Ready(f)
    BY <1>1, <1>5, <1>8, <1>11, <1>14, <2>2, <2>3, <2>4 DEF Ready
  <2> QED BY <1>1, <1>8, <1>10, <1>14, <2>5, <2>6, GoOnDid
<1> QED BY <1>9, <1>12, <1>13, <1>14

-----------------------------------------------------------------------------
(* After the walk: how many rows are acted on, and which.                  *)

\* What the sort makes of a sequence: the same rows, in order.
LEMMA SortsAll ==
  ASSUME NEW o, NEW s \in Seq(Rows), IsInjective(s), NEW t \in SortsOf(o, s)
  PROVE  /\ t \in Seq(Rows) /\ Len(t) = Len(s) /\ ToSet(t) = ToSet(s) /\ IsInjective(t)
         /\ \A i, j \in DOMAIN t : i <= j => Ordered(o, t[i], t[j])
<1> DEFINE In(u, r) == {i \in DOMAIN u : u[i] = r}
<1>1. /\ t \in Seq(Rows) /\ Len(t) = Len(s) /\ ToSet(t) \subseteq ToSet(s) /\ IsInjective(t)
  BY SortsOfIs
<1>2. /\ \A r \in ToSet(s) : Cardinality(In(t, r)) = Cardinality(In(s, r))
      /\ \A i, j \in DOMAIN t : i <= j => Ordered(o, t[i], t[j])
  BY DEF SortsOf
<1>3. ASSUME NEW r \in ToSet(s) PROVE r \in ToSet(t)
  <2>1. PICK k \in DOMAIN s : s[k] = r
    BY ToSetIs
  <2>2. In(s, r) = {k}
    BY <2>1 DEF IsInjective
  <2>3. Cardinality(In(t, r)) = 1
    BY <1>2, <2>2, FS_Singleton
  <2> DEFINE T == In(t, r)
  <2>4. T # {}
    <3>1. Cardinality(T) = 1
      BY <2>3
    <3> HIDE DEF T
    <3>2. Cardinality({}) = 0
      BY FS_EmptySet
    <3>3. T = {} => Cardinality(T) = Cardinality({})
      OBVIOUS
    <3> QED BY <3>1, <3>2, <3>3
  <2>5. PICK i \in DOMAIN t : t[i] = r
    BY <2>4
  <2> QED BY <2>5, ToSetIs
<1> QED BY <1>1, <1>2, <1>3

\* How many of m rows are due, if n were found and the rest is past the limit.
LEMMA ClipIs ==
  ASSUME NEW o, o.offset \in Nat, o.limit \in Nat, NEW n \in Nat, NEW m \in Nat, n <= m,
         n = m \/ (o.limit > 0 /\ n = o.offset + o.limit)
  PROVE  /\ n = 0 \/ o.offset > n => Clip(o, m) = 0
         /\ o.offset <= n => Clip(o, m) = (IF o.limit = 0 \/ o.offset + o.limit > n THEN n ELSE o.offset + o.limit) - o.offset
<1> DEFINE a == o.offset
           b == o.limit
           rest == IF a > m THEN 0 ELSE m - a
<1>1. Clip(o, m) = IF b > 0 /\ b < rest THEN b ELSE rest
  BY DEF Clip
<1>2. a \in Nat /\ b \in Nat /\ (n = m \/ (b > 0 /\ n = a + b))
  OBVIOUS
<1> HIDE DEF a, b
<1>3. n = 0 \/ a > n => Clip(o, m) = 0
  BY <1>1, <1>2
<1>4. a <= n => Clip(o, m) = (IF b = 0 \/ a + b > n THEN n ELSE a + b) - a
  BY <1>1, <1>2
<1> QED BY <1>3, <1>4 DEF a, b

\* How many rows are found if no command named one and no script broke the walk off.
LEMMA FoundCount ==
  ASSUME NEW f \in Search, IsInjective(f.found), IsFiniteSet(f.was.rows), f.touched = {},
         ToSet(f.found) \subseteq Due(f) \cup f.touched, Enough(f), ~f.cut
  PROVE  /\ Cardinality(Due(f)) \in Nat /\ Len(f.found) \in Nat /\ Len(f.found) <= Cardinality(Due(f))
         /\ Len(f.found) = Cardinality(Due(f)) \/ Full(f)
<1> DEFINE D == Due(f)
           F == ToSet(f.found)
           n == Len(f.found)
<1>1. f.found \in Seq(Rows) /\ D \subseteq f.was.rows /\ F \subseteq D
  BY SearchFields DEF Due
<1>2. IsFiniteSet(F) /\ Cardinality(F) = n /\ n \in Nat
  BY <1>1, SeqCounts
<1>3. D \subseteq F \/ Full(f)
  BY DEF Enough, AllFound, Owed
<1> HIDE DEF D, F, n
<1>4. IsFiniteSet(D)
  BY <1>1, FS_Subset
<1>5. Cardinality(F) <= Cardinality(D)
  BY <1>1, <1>4, FS_Subset
<1>6. D \subseteq F => D = F
  BY <1>1
<1> QED BY <1>2, <1>3, <1>4, <1>5, <1>6, FS_CardinalityType DEF D, F, n

\* The rows acted on are a window of those found.
LEMMA ActedWindow ==
  ASSUME NEW f \in Search, ActsOn(f), NEW k \in Nat, NEW s \in Seq(Rows), s = Source(f),
         k <= Len(s), f.ask.offset + Len(f.acted) = k
  PROVE  /\ ToSet(f.acted) = ToSet(SubSeq(s, f.ask.offset + 1, k))
         /\ f.ask.offset = 0 /\ k = Len(s) => ToSet(f.acted) = ToSet(s)
<1> DEFINE m == f.ask.offset
           w == SubSeq(s, m + 1, k)
           a == f.acted
<1>1. m \in Nat /\ a \in Seq(Rows) /\ Len(s) \in Nat /\ DOMAIN s = 1 .. Len(s)
  BY SearchFields, AskFields
<1>2. Len(a) \in Nat /\ DOMAIN a = 1 .. Len(a) /\ Len(a) = k - m /\ m <= k
  BY <1>1
<1>3. \A i \in DOMAIN a : m + i \in DOMAIN s /\ a[i] = s[m + i]
  BY DEF ActsOn
<1> HIDE DEF m, a
<1>4. DOMAIN w = 1 .. k - m /\ \A i \in 1 .. k - m : w[i] = s[i + m]
  BY <1>1, <1>2
<1> HIDE DEF w
<1>5. DOMAIN w = DOMAIN a /\ \A i \in DOMAIN a : w[i] = a[i]
  BY <1>1, <1>2, <1>3, <1>4
<1>6. ToSet(a) = ToSet(w)
  BY <1>5 DEF ToSet
<1>7. ASSUME m = 0, k = Len(s) PROVE ToSet(a) = ToSet(s)
  <2>1. DOMAIN a = DOMAIN s /\ \A i \in DOMAIN s : a[i] = s[i]
    BY <1>1, <1>2, <1>3, <1>7
  <2> QED BY <2>1 DEF ToSet
<1> QED BY <1>6, <1>7 DEF m, w, a

\* What a search that nothing disturbed returns.
LEMMA StopClips ==
  ASSUME NEW f \in Search, IsInjective(f.found), IsFiniteSet(f.was.rows), f.touched = {},
         ToSet(f.found) \subseteq Due(f) \cup f.touched, Enough(f), ~f.cut
  PROVE  /\ Len(f.found) = 0 \/ f.ask.offset > Len(f.found) => Clip(f.ask, Cardinality(Due(f))) = 0
         /\ f.ask.offset <= Len(f.found) => Clip(f.ask, Cardinality(Due(f))) = Stop(f) - f.ask.offset
<1> DEFINE o == f.ask
           n == Len(f.found)
           m == Cardinality(Due(f))
<1>1. m \in Nat /\ n \in Nat /\ n <= m /\ (n = m \/ (o.limit > 0 /\ n = o.offset + o.limit))
  BY FoundCount DEF Full
<1>2. o.offset \in Nat /\ o.limit \in Nat
  BY SearchFields, AskFields
<1>3. Stop(f) = IF o.limit = 0 \/ o.offset + o.limit > n THEN n ELSE o.offset + o.limit
  BY DEF Stop
<1> HIDE DEF n, m, o
<1>4. /\ n = 0 \/ o.offset > n => Clip(o, m) = 0
      /\ o.offset <= n => Clip(o, m) = (IF o.limit = 0 \/ o.offset + o.limit > n THEN n ELSE o.offset + o.limit) - o.offset
  BY <1>1, <1>2, ClipIs
<1> QED BY <1>3, <1>4 DEF n, m, o

\* A search that comes to its end has acted on all rows of its window.
LEMMA CountedDid ==
  ASSUME NEW f \in Search, IsInjective(f.found), IsFiniteSet(f.was.rows), ActsOn(f),
         ToSet(f.found) \subseteq Due(f) \cup f.touched, Enough(f),
         NEW s \in Seq(Rows), s = Source(f), ToSet(s) = ToSet(f.found), Len(s) = Len(f.found),
         NEW k \in Nat, f.ask.offset <= k, k <= Len(s),
         ~OffsetLost(f) => f.ask.offset + Len(f.acted) = k /\ (f.cut \/ k = Stop(f)),
         f.matchCount = k - f.ask.offset
  PROVE  /\ ~OffsetLost(f) => f.matchCount = Len(f.acted)
         /\ f.touched = {} /\ ~f.cut /\ ~OffsetLost(f) => f.matchCount = Clip(f.ask, Cardinality(Due(f)))
         /\ f.ask.offset = 0 /\ f.ask.limit = 0 /\ ~f.cut => Owed(f) \subseteq ToSet(f.acted)
<1>1. /\ f.ask.offset \in Nat /\ f.ask.limit \in Nat /\ f.found \in Seq(Rows) /\ Len(f.found) \in Nat
      /\ f.acted \in Seq(Rows) /\ Len(f.acted) \in Nat
  BY SearchFields, AskFields
<1>2. ~OffsetLost(f) => f.matchCount = Len(f.acted)
  BY <1>1
<1>3. ASSUME f.touched = {}, ~f.cut, ~OffsetLost(f) PROVE f.matchCount = Clip(f.ask, Cardinality(Due(f)))
  <2>1. f.ask.offset <= Len(f.found) /\ k = Stop(f)
    BY <1>1, <1>3
  <2>2. Clip(f.ask, Cardinality(Due(f))) = Stop(f) - f.ask.offset
    BY <1>3, <2>1, StopClips
  <2> QED BY <2>1, <2>2
<1>4. ASSUME f.ask.offset = 0, f.ask.limit = 0, ~f.cut PROVE Owed(f) \subseteq ToSet(f.acted)
  <2>1. ~OffsetLost(f) /\ k = Len(s)
    <3>1. ~OffsetLost(f)
      BY <1>4 DEF OffsetLost
    <3> QED BY <1>4, <3>1 DEF Stop
  <2>2. ToSet(f.acted) = ToSet(s)
    BY <1>4, <2>1, ActedWindow
  <2>3. Owed(f) \subseteq ToSet(f.found)
    BY <1>4 DEF Enough, Full, AllFound
  <2> QED BY <2>2, <2>3
<1> QED BY <1>2, <1>3, <1>4

\* What is known of the innermost search when its walk is over.
LEMMA TopPosts ==
  ASSUME TInv, DInv, AtStage("post")
  PROVE  LET p == Top
             o == p.ask
         IN  /\ searches # <<>> /\ p \in Search /\ p.phase = "walk" /\ p.stage = "post" /\ o \in Asks /\ Sensible(o)
             /\ o.offset \in Nat /\ o.limit \in Nat /\ p.found \in Seq(Rows) /\ Len(p.found) \in Nat
             /\ IsInjective(p.found) /\ IsFiniteSet(p.was.rows) /\ p.matchCount = Len(p.found)
             /\ p.offsetLimit = o.offset + o.limit /\ (p.mode # "none" => p.tranTable = p.found)
             /\ Sound(p, list, val) /\ Enough(p) /\ p.result # "error"
             /\ p.acted \in Seq(Rows) /\ Len(p.acted) \in Nat
             /\ p.mode = "defer" => ~p.cut /\ p.result = "ok"
             /\ p.mode = "defer" \/ o.does = "count" => p.acted = <<>>
             /\ p.mode # "defer" /\ o.does # "count" => Len(p.acted) = Past(p)
             /\ p.mode # "defer" /\ o.limit > 0 => Len(p.found) <= o.offset + o.limit
<1> DEFINE p == Top
           o == p.ask
<1>1. searches # <<>> /\ p.stage = "post"
  BY DEF AtStage
<1>2. p.phase = "walk" /\ p \in Search /\ Held(p, list)
  BY <1>1, SeekWalks, TopWalks
<1>3. Sound(p, list, val) /\ WalkDid(p, list, val, index, at)
  BY <1>1, <1>2, TopDone
<1> HIDE DEF p
<1>4. o \in Asks /\ Sensible(o) /\ o.offset \in Nat /\ o.limit \in Nat /\ p.found \in Seq(Rows) /\ p.acted \in Seq(Rows)
  BY <1>2, SearchFields, AskFields
<1>5. Len(p.found) \in Nat /\ Len(p.acted) \in Nat
  BY <1>4
<1>6. /\ IsInjective(p.found) /\ IsFiniteSet(p.was.rows) /\ p.matchCount = Len(p.found)
      /\ p.offsetLimit = o.offset + o.limit /\ (p.mode # "none" => p.tranTable = p.found)
  BY <1>2 DEF Held
<1>7. /\ Enough(p) /\ p.result # "error"
      /\ p.mode = "defer" => ~p.cut /\ p.result = "ok"
      /\ p.mode = "defer" \/ o.does = "count" => p.acted = <<>>
      /\ p.mode # "defer" /\ o.does # "count" => Len(p.acted) = Past(p)
      /\ p.mode # "defer" /\ o.limit > 0 => Len(p.found) <= o.offset + o.limit
  BY <1>1, <1>3 DEF WalkDid
<1> QED BY <1>1, <1>2, <1>3, <1>4, <1>5, <1>6, <1>7 DEF p

\* f and h have found and done the same, and h may be further on.
Like(f, h) ==
  /\ h.ask = f.ask /\ h.walk = f.walk /\ h.sorts = f.sorts /\ h.mode = f.mode
  /\ h.was = f.was /\ h.found = f.found /\ h.acted = f.acted /\ h.touched = f.touched /\ h.cut = f.cut

LEMMA LikeIs ==
  ASSUME NEW f, NEW h, Like(f, h)
  PROVE  /\ Due(h) = Due(f) /\ Owed(h) = Owed(f) /\ (Enough(h) <=> Enough(f)) /\ Past(h) = Past(f) /\ Stop(h) = Stop(f)
         /\ (OffsetLost(h) <=> OffsetLost(f))
         /\ \A l, vl : /\ Sound(f, l, vl) /\ h.result # "endless" /\ (f.stage = "done" => h.stage = "done")
                       /\ ActsOn(h)
                       => Sound(h, l, vl)
         /\ ActsOn(f) /\ Source(h) = Source(f) => ActsOn(h)
<1>1. Due(h) = Due(f) /\ Owed(h) = Owed(f)
  BY DEF Like, Due, Owed
<1>2. /\ (Enough(h) <=> Enough(f))
      /\ Past(h) = Past(f) /\ Stop(h) = Stop(f) /\ (OffsetLost(h) <=> OffsetLost(f))
  BY <1>1 DEF Like, AllFound, Full, Enough, Past, Stop, OffsetLost
<1>3. /\ Fixed(f) => Fixed(h)
      /\ ActsOn(f) /\ Source(h) = Source(f) => ActsOn(h)
      /\ InOrder(f) => InOrder(h)
  BY <1>1 DEF Like, Fixed, ActsOn, InOrder
<1> QED BY <1>1, <1>2, <1>3 DEF Like, Sound

\* The next of the actions that were put off, or the transaction.
LEMMA DeferDid ==
  ASSUME NEW f \in Search, NEW l, NEW vl, NEW ix, NEW a, Sound(f, l, vl), f.stage # "done",
         f.phase = "after", f.mode = "defer", f.ask.does # "cursor", ~f.cut, f.result = "ok", Enough(f),
         TableOfFound(f), f.sorts /\ f.touched = {} => InSort(f),
         f.ask.offset + Len(f.acted) = f.walkIndex, f.walkIndex <= f.offsetLimit,
         IF OffsetLost(f) THEN f.walkIndex = f.offsetLimit ELSE f.offsetLimit = Stop(f)
  PROVE  Did(Defer(f), l, vl, ix, a)
<1>1. /\ f.walkIndex \in Nat /\ f.offsetLimit \in Nat
  BY SearchFields
<1>2. ActsOn(f)
  BY DEF Sound
<1>3. CASE f.walkIndex < f.offsetLimit
  <2> DEFINE r == f.tranTable[f.walkIndex + 1]
             s == IF f.ask.poll THEN "poll" ELSE "act"
             h == [f EXCEPT !.row = r, !.stage = s]
  <2>1. Defer(f) = h
    BY <1>3 DEF Defer
  <2>2. s \in {"poll", "act"}
    OBVIOUS
  <2> HIDE DEF r, s
  <2>3. /\ Like(f, h) /\ h.phase = "after" /\ h.stage = s /\ h.row = r /\ h.offsetLimit = f.offsetLimit
        /\ h.tranTable = f.tranTable /\ h.walkIndex = f.walkIndex /\ h.result = "ok"
    BY DEF Search, Like
  <2> HIDE DEF h
  <2>4. /\ h.ask = f.ask /\ h.sorts = f.sorts /\ h.mode = "defer" /\ h.was = f.was /\ h.found = f.found
        /\ h.acted = f.acted /\ h.touched = f.touched
    BY <2>3 DEF Like
  <2>5. ~h.cut
    BY <2>3 DEF Like
  <2>6. Source(h) = Source(f)
    BY <2>3, <2>4 DEF Source
  <2>7. Sound(h, l, vl) /\ Enough(h) /\ Stop(h) = Stop(f) /\ (OffsetLost(h) <=> OffsetLost(f))
    BY <1>2, <2>3, <2>6, LikeIs
  <2>8. TableOfFound(h) /\ (h.sorts /\ h.touched = {} => InSort(h))
    BY <2>3, <2>4 DEF TableOfFound, InSort
  <2>9. ~OffsetLost(f) /\ h.row = h.tranTable[h.walkIndex + 1]
    BY <1>1, <1>3, <2>3 DEF r
  <2>10. AfterDid(h)
    BY <2>2, <2>3, <2>4, <2>5, <2>7, <2>8, <2>9 DEF AfterDid
  <2> QED BY <2>1, <2>2, <2>3, <2>7, <2>10 DEF Did
<1>4. CASE ~(f.walkIndex < f.offsetLimit)
  <2> DEFINE h == [f EXCEPT !.stage = "commit"]
  <2>1. Defer(f) = h
    BY <1>4 DEF Defer
  <2>2. /\ Like(f, h) /\ h.phase = "after" /\ h.stage = "commit" /\ h.offsetLimit = f.offsetLimit
        /\ h.tranTable = f.tranTable /\ h.walkIndex = f.walkIndex /\ h.result = "ok"
    BY DEF Search, Like
  <2> HIDE DEF h
  <2>3. /\ h.ask = f.ask /\ h.sorts = f.sorts /\ h.mode = "defer" /\ h.was = f.was /\ h.found = f.found
        /\ h.acted = f.acted /\ h.touched = f.touched
    BY <2>2 DEF Like
  <2>4. Source(h) = Source(f)
    BY <2>2, <2>3 DEF Source
  <2>5. Sound(h, l, vl) /\ Enough(h) /\ Stop(h) = Stop(f) /\ (OffsetLost(h) <=> OffsetLost(f))
    BY <1>2, <2>2, <2>4, LikeIs
  <2>6. TableOfFound(h) /\ (h.sorts /\ h.touched = {} => InSort(h))
    BY <2>2, <2>3 DEF TableOfFound, InSort
  <2>7. f.walkIndex = f.offsetLimit
    BY <1>1, <1>4
  <2>8. AfterDid(h)
    BY <2>2, <2>3, <2>5, <2>6, <2>7 DEF AfterDid
  <2> QED BY <2>1, <2>2, <2>5, <2>8 DEF Did
<1> QED BY <1>3, <1>4

\* The walk is over.
LEMMA PostDid ==
  ASSUME TInv, DInv, Post
  PROVE  DInv'
<1> DEFINE p == Top
           o == p.ask
           f == [p EXCEPT !.phase = "after", !.row = NoRow]
           k == LastOf(f)
           g == [f EXCEPT !.offsetLimit = k, !.walkIndex = o.offset]
           short == [f EXCEPT !.matchCount = 0, !.stage = "done"]
           m == f.matchCount - o.offset
           plain == [f EXCEPT !.matchCount = m, !.stage = "done"]
           H(t) == [g EXCEPT !.tranTable = t]
           cursor(t) == [H(t) EXCEPT !.stage = "cursor"]
           commit(t) == [H(t) EXCEPT !.stage = "commit"]
<1>1. AtStage("post") /\ Same /\ at' = at
  <2>1. AtStage("post")
    BY ZenonT(40) DEF Post
  <2>2. at' = at /\ Same
    BY ZenonT(40) DEF Post
  <2> QED BY <2>1, <2>2
<1>2. /\ searches # <<>> /\ p \in Search /\ p.phase = "walk" /\ p.stage = "post" /\ o \in Asks /\ Sensible(o)
      /\ o.offset \in Nat /\ o.limit \in Nat /\ p.found \in Seq(Rows) /\ Len(p.found) \in Nat
      /\ IsInjective(p.found) /\ IsFiniteSet(p.was.rows) /\ p.matchCount = Len(p.found)
      /\ p.offsetLimit = o.offset + o.limit /\ (p.mode # "none" => p.tranTable = p.found)
      /\ Sound(p, list, val) /\ Enough(p) /\ p.result # "error"
      /\ p.acted \in Seq(Rows) /\ Len(p.acted) \in Nat
      /\ p.mode = "defer" => ~p.cut /\ p.result = "ok"
      /\ p.mode = "defer" \/ o.does = "count" => p.acted = <<>>
      /\ p.mode # "defer" /\ o.does # "count" => Len(p.acted) = Past(p)
      /\ p.mode # "defer" /\ o.limit > 0 => Len(p.found) <= o.offset + o.limit
  BY <1>1, TopPosts
<1>3. \/ Short(f) /\ searches' = Now(short)
      \/ ~Short(f) /\ f.mode = "none" /\ searches' = Now(plain)
      \/ /\ ~Short(f) /\ f.mode # "none"
         /\ \E t \in IF f.sorts THEN SortsOf(o, f.tranTable) ELSE {f.tranTable} :
              \/ o.tran = "cursor" /\ searches' = Now(cursor(t))
              \/ o.tran # "cursor" /\ f.mode = "defer" /\ searches' = Now(Defer(H(t)))
              \/ o.tran # "cursor" /\ f.mode # "defer" /\ searches' = Now(commit(t))
  BY ZenonT(60) DEF Post
<1> HIDE DEF short, plain, cursor, commit, H, g, k
<1>4. p = Top
  OBVIOUS
<1> HIDE DEF p
<1>5. /\ f \in Search /\ f.ask = o /\ f.walk = p.walk /\ f.sorts = p.sorts /\ f.mode = p.mode /\ f.phase = "after"
      /\ f.matchCount = p.matchCount /\ f.offsetLimit = p.offsetLimit /\ f.tranTable = p.tranTable
      /\ f.result = p.result /\ f.stage = "post" /\ f.found = p.found /\ f.acted = p.acted /\ Like(p, f)
      /\ f.room = p.room
  BY <1>2 DEF Search, Like
<1> HIDE DEF f, o
<1> DEFINE n == Len(f.found)
<1>6. /\ f.was.rows = p.was.rows /\ f.touched = p.touched
  BY <1>5 DEF Like
<1>7. f.cut <=> p.cut
  BY <1>5 DEF Like
<1>8. /\ Source(f) = Source(p) /\ f.result # "endless"
  <2>1. p.result # "endless"
    BY <1>2 DEF Sound
  <2> QED BY <1>5, <2>1 DEF Source
<1>9. Sound(f, list, val) /\ Enough(f) /\ Past(f) = Past(p) /\ ActsOn(f)
  <2>1. ActsOn(p)
    BY <1>2 DEF Sound
  <2> QED BY <1>2, <1>5, <1>8, <2>1, LikeIs
<1>10. /\ f.result # "error" /\ n = f.matchCount /\ n \in Nat /\ IsInjective(f.found)
       /\ f.mode # "none" => f.tranTable = f.found
       /\ f.mode = "defer" \/ o.does = "count" => f.acted = <<>>
       /\ f.mode # "defer" /\ o.does # "count" => Len(f.acted) = Past(f)
       /\ f.mode # "defer" /\ o.limit > 0 => n <= o.offset + o.limit
       /\ o.does = "count" => f.mode = "none"
       /\ o.does = "cursor" => f.mode = "defer"
       /\ o.tran # "none" => f.mode # "none"
       /\ f.sorts => f.mode = "defer"
  <2>1. Fixed(f)
    BY <1>9 DEF Sound
  <2> QED BY <1>2, <1>5, <1>9, <2>1 DEF Fixed
<1>11. f.mode = "defer" => ~f.cut /\ f.result = "ok"
  BY <1>2, <1>5, <1>7
<1>12. f.mode # "none" => TableOfFound(f)
  BY <1>10 DEF TableOfFound
<1>13. UNCHANGED <<list, val, index>> /\ (at' = at \/ Follows(Top))
  BY <1>1 DEF Same, table
<1>14. /\ ToSet(f.found) \subseteq Due(f) \cup f.touched /\ IsFiniteSet(f.was.rows)
       /\ f.found \in Seq(Rows) /\ (o.tran = "cursor" <=> o.does = "cursor")
  BY <1>2, <1>5, <1>6, <1>9 DEF Sound, Sensible
<1>15. CASE Short(f) /\ searches' = Now(short)
  <2> DEFINE h == short
  <2>1. /\ h \in Search /\ Like(f, h) /\ h.phase = "after" /\ h.stage = "done" /\ h.matchCount = 0
        /\ h.tranTable = f.tranTable /\ h.result = f.result
    BY <1>5 DEF Search, Like, short
  <2>2. searches' = Now(h)
    BY <1>15
  <2> HIDE DEF h
  <2>3. n = 0 \/ o.offset > n
    BY <1>5, <1>10, <1>15 DEF Short
  <2>4. /\ h.ask = o /\ h.sorts = f.sorts /\ h.mode = f.mode /\ h.found = f.found /\ h.acted = f.acted
        /\ h.touched = f.touched /\ h.was = f.was
    BY <1>5, <2>1 DEF Like
  <2>5. f.cut <=> h.cut
    BY <2>1 DEF Like
  <2>6. Source(h) = Source(f)
    BY <2>1, <2>4 DEF Source
  <2>7. Sound(h, list, val) /\ Enough(h) /\ Due(h) = Due(f) /\ Owed(h) = Owed(f) /\ (OffsetLost(h) <=> OffsetLost(f))
    BY <1>5, <1>8, <1>9, <2>1, <2>6, LikeIs
  <2>8. Len(f.acted) = 0 /\ f.acted = <<>>
    <3>1. f.mode # "defer" /\ o.does # "count" => Len(f.acted) = 0
      BY <1>2, <1>5, <1>10, <2>3 DEF Past
    <3>2. f.acted \in Seq(Rows)
      BY <1>2, <1>5
    <3> QED BY <1>10, <3>1, <3>2
  <2>9. h.mode # "none" => TableOfFound(h)
    BY <1>12, <2>1, <2>4 DEF TableOfFound
  <2>10. AfterDid(h)
    BY <2>1, <2>4, <2>7, <2>8, <2>9 DEF AfterDid
  <2>11. ASSUME h.touched = {}, ~h.cut PROVE h.matchCount = Clip(o, Cardinality(Due(h)))
    BY <1>5, <1>9, <1>10, <1>14, <2>1, <2>3, <2>4, <2>5, <2>7, <2>11, StopClips
  <2>12. ASSUME o.offset = 0, o.limit = 0, ~h.cut PROVE Owed(h) \subseteq ToSet(h.acted)
    <3>1. f.found = <<>> /\ Owed(f) \subseteq ToSet(f.found)
      <4>1. n = 0
        BY <2>3, <1>10, <2>12
      <4>2. AllFound(f)
        BY <1>5, <1>9, <2>5, <2>12 DEF Enough, Full
      <4> QED BY <1>14, <4>1, <4>2 DEF AllFound
    <3> QED BY <2>4, <2>7, <2>8, <3>1
  <2>13. ToSet(h.acted) = {}
    BY <2>4, <2>8, ToSetIs
  <2>14. (h.was.rows \cup h.touched) \ ToSet(list) = {}
    BY <1>5, <1>9, <2>4 DEF Sound
  <2>15. DoneDid(h, list, val)
    BY <1>10, <2>1, <2>4, <2>8, <2>11, <2>12, <2>13, <2>14 DEF DoneDid
  <2>16. Did(h, list, val, index, at')
    BY <2>1, <2>7, <2>10, <2>15 DEF Did
  <2> QED BY <1>2, <1>13, <2>1, <2>2, <2>16, TopDid
<1>16. ~Short(f) => o.offset <= n /\ n # 0
  BY <1>2, <1>5, <1>10 DEF Short
<1>17. CASE ~Short(f) /\ f.mode = "none" /\ searches' = Now(plain)
  <2> DEFINE h == plain
  <2>1. m \in Nat /\ m = n - o.offset
    BY <1>2, <1>10, <1>16, <1>17
  <2>2. searches' = Now(h)
    BY <1>17
  <2> HIDE DEF m
  <2>3. /\ h \in Search /\ Like(f, h) /\ h.phase = "after" /\ h.stage = "done" /\ h.matchCount = m
        /\ h.tranTable = f.tranTable /\ h.result = f.result
    BY <1>5, <2>1 DEF Search, Like, plain
  <2> HIDE DEF h
  <2>4. /\ h.ask = o /\ h.sorts = f.sorts /\ h.mode = "none" /\ h.found = f.found /\ h.acted = f.acted
        /\ h.touched = f.touched /\ h.was = f.was
    BY <1>5, <1>17, <2>3 DEF Like
  <2>5. f.cut <=> h.cut
    BY <2>3 DEF Like
  <2>6. Source(h) = Source(f) /\ Source(f) = f.found /\ Source(h) = f.found
    BY <1>17, <2>3, <2>4 DEF Source
  <2>7. Sound(h, list, val) /\ Enough(h) /\ Due(h) = Due(f) /\ Owed(h) = Owed(f) /\ Stop(h) = Stop(f) /\ ActsOn(h)
    BY <1>5, <1>8, <1>9, <2>3, <2>6, LikeIs
  <2>8. AfterDid(h)
    BY <1>10, <1>17, <2>3, <2>4, <2>7 DEF AfterDid
  <2>9. Stop(f) = n
    <3>1. o.limit > 0 => n <= o.offset + o.limit
      BY <1>10, <1>17
    <3>2. o.offset \in Nat /\ o.limit \in Nat /\ n \in Nat
      BY <1>2, <1>10
    <3>3. Stop(f) = IF o.limit = 0 \/ o.offset + o.limit > n THEN n ELSE o.offset + o.limit
      BY <1>5 DEF Stop
    <3> HIDE DEF n
    <3>4. o.limit = 0 \/ o.offset + o.limit > n \/ o.offset + o.limit = n
      BY <3>1, <3>2
    <3> QED BY <3>3, <3>4
  <2>10. o.tran = "none" /\ o.does # "cursor"
    BY <1>10, <1>17
  <2>11. h.touched = {} /\ ~h.cut => h.matchCount = Clip(o, Cardinality(Due(h)))
    BY <1>5, <1>9, <1>10, <1>14, <1>16, <1>17, <2>1, <2>3, <2>4, <2>5, <2>7, <2>9, StopClips
  <2>12. ASSUME o.does # "count" PROVE h.matchCount = Len(h.acted) /\ (o.offset = 0 /\ o.limit = 0 /\ ~h.cut => Owed(h) \subseteq ToSet(h.acted))
    <3>1. o.offset + Len(h.acted) = n
      BY <1>2, <1>5, <1>10, <1>16, <1>17, <2>4, <2>12 DEF Past
    <3>2. /\ IsInjective(h.found) /\ IsFiniteSet(h.was.rows) /\ ActsOn(h) /\ Enough(h)
          /\ f.found \in Seq(Rows) /\ f.found = Source(h) /\ ToSet(f.found) = ToSet(h.found) /\ Len(f.found) = Len(h.found)
      BY <1>10, <1>14, <2>4, <2>6, <2>7
    <3>3. ToSet(h.found) \subseteq Due(h) \cup h.touched
      BY <1>14, <2>4, <2>7
    <3>4. ~OffsetLost(h)
      BY <2>4 DEF OffsetLost
    <3>5. n \in Nat /\ h.ask.offset <= n /\ n <= Len(f.found) /\ h.ask.offset + Len(h.acted) = n /\ n = Stop(h)
          /\ h.matchCount = n - h.ask.offset
      BY <1>10, <1>16, <1>17, <2>1, <2>3, <2>4, <2>7, <2>9, <3>1
    <3> HIDE DEF n
    <3>6. /\ h.matchCount = Len(h.acted)
          /\ h.ask.offset = 0 /\ h.ask.limit = 0 /\ ~h.cut => Owed(h) \subseteq ToSet(h.acted)
      BY <2>3, <3>2, <3>3, <3>4, <3>5, CountedDid
    <3> QED BY <2>4, <3>6
  <2>13. DoneDid(h, list, val)
    BY <1>10, <2>3, <2>4, <2>10, <2>11, <2>12 DEF DoneDid
  <2>14. Did(h, list, val, index, at')
    BY <2>3, <2>7, <2>8, <2>13 DEF Did
  <2> QED BY <1>2, <1>13, <2>2, <2>3, <2>14, TopDid
<1>18. ASSUME ~Short(f), f.mode # "none",
              NEW t \in IF f.sorts THEN SortsOf(o, f.tranTable) ELSE {f.tranTable},
              \/ o.tran = "cursor" /\ searches' = Now(cursor(t))
              \/ o.tran # "cursor" /\ f.mode = "defer" /\ searches' = Now(Defer(H(t)))
              \/ o.tran # "cursor" /\ f.mode # "defer" /\ searches' = Now(commit(t))
       PROVE  DInv'
  <2> DEFINE h == H(t)
             ha == [h EXCEPT !.stage = "cursor"]
             hc == [h EXCEPT !.stage = "commit"]
  <2>20. f.tranTable = f.found
    BY <1>10, <1>18
  <2>21. f.sorts => t \in SortsOf(o, f.found)
    BY <1>18, <2>20
  <2>22. ~f.sorts => t = f.found
    BY <1>18, <2>20
  <2>1. /\ t \in Seq(Rows) /\ Len(t) = n /\ ToSet(t) = ToSet(f.found) /\ IsInjective(t)
        /\ ~f.sorts => t = f.found
    <3>1. CASE f.sorts
      BY <1>10, <1>14, <2>21, <3>1, SortsAll
    <3>2. CASE ~f.sorts
      BY <1>10, <1>14, <2>22, <3>2
    <3> QED BY <3>1, <3>2
  <2>2. f.sorts => \A i, j \in DOMAIN t : i <= j => Ordered(o, t[i], t[j])
    BY <1>10, <1>14, <2>21, SortsAll
  <2>3. k \in Nat /\ o.offset <= k /\ k <= n
    BY <1>2, <1>5, <1>10, <1>16, <1>18 DEF LastOf, k
  <2>4. IF OffsetLost(f) THEN k = o.offset ELSE k = Stop(f)
    BY <1>2, <1>5, <1>10, <1>16, <1>18 DEF LastOf, Stop, OffsetLost, k
  <2> HIDE DEF n
  <2>5. /\ h \in Search /\ Like(f, h) /\ h.phase = "after" /\ h.stage = "post" /\ h.result = f.result
        /\ h.offsetLimit = k /\ h.tranTable = t /\ h.walkIndex = o.offset /\ h.room = f.room
    BY <1>2, <1>5, <2>1, <2>3 DEF Search, Like, H, g
  <2>6. \/ o.tran = "cursor" /\ searches' = Now(ha)
        \/ o.tran # "cursor" /\ f.mode = "defer" /\ searches' = Now(Defer(h))
        \/ o.tran # "cursor" /\ f.mode # "defer" /\ searches' = Now(hc)
    BY <1>18 DEF cursor, commit
  <2> HIDE DEF h
  <2>7. /\ h.ask = o /\ h.sorts = f.sorts /\ h.mode = f.mode /\ h.found = f.found /\ h.acted = f.acted
        /\ h.touched = f.touched /\ h.was = f.was /\ h.walk = f.walk
    BY <1>5, <2>5 DEF Like
  <2>8. f.cut <=> h.cut
    BY <2>5 DEF Like
  <2>9. ActsOn(h)
    <3>1. CASE f.mode = "defer"
      <4>1. h.acted = <<>>
        BY <1>10, <2>7, <3>1
      <4> QED BY <4>1 DEF ActsOn
    <3>2. CASE f.mode # "defer"
      <4>1. Source(h) = Source(f)
        BY <2>7, <3>2 DEF Source
      <4> QED BY <1>9, <2>5, <4>1, LikeIs
    <3> QED BY <3>1, <3>2
  <2>10. Sound(h, list, val) /\ Enough(h) /\ Stop(h) = Stop(f) /\ (OffsetLost(h) <=> OffsetLost(f))
    BY <1>5, <1>8, <1>9, <2>5, <2>9, LikeIs
  <2>11. TableOfFound(h) /\ TableOfFound(h)
    BY <2>1, <2>5, <2>7 DEF TableOfFound, n
  <2>12. ASSUME f.sorts, f.touched = {} PROVE InSort(h)
    <3>1. \A r \in Rows : val[r] = f.was.val[r]
      BY <1>9, <2>12 DEF Sound
    <3>2. \A i \in DOMAIN t : t[i] \in Rows
      BY <2>1
    <3> QED BY <2>2, <2>5, <2>7, <2>12, <3>1, <3>2 DEF InSort, Ordered
  <2>13. CASE o.tran # "cursor" /\ f.mode = "defer" /\ searches' = Now(Defer(h))
    <3>1. Len(h.acted) = 0
      BY <1>10, <2>7, <2>13
    <3>2. h.ask.offset + Len(h.acted) = h.walkIndex /\ h.walkIndex <= h.offsetLimit
      BY <1>2, <2>3, <2>5, <2>7, <3>1
    <3>3. IF OffsetLost(h) THEN h.walkIndex = h.offsetLimit ELSE h.offsetLimit = Stop(h)
      BY <2>4, <2>5, <2>10
    <3>4. ~h.cut /\ h.result = "ok" /\ h.ask.does # "cursor" /\ h.mode = "defer"
      BY <1>11, <1>14, <2>5, <2>7, <2>8, <2>13
    <3>5. h.sorts /\ h.touched = {} => InSort(h)
      BY <2>7, <2>12
    <3>6. Did(Defer(h), list, val, index, at')
      BY <2>5, <2>10, <2>11, <3>2, <3>3, <3>4, <3>5, DeferDid
    <3>7. Defer(h) \in Search
      <4>1. Table(h, list)
        <5>1. Table(Top, list)
          BY <1>2, <1>4, TopWalks, TableHeld
        <5>2. Findable(h) = Findable(Top) /\ h.room = Top.room
          BY <1>2, <1>4, <1>5, <2>5, <2>7 DEF Findable, Like
        <5>3. Len(h.tranTable) = Len(Top.tranTable) /\ ToSet(h.tranTable) = ToSet(Top.tranTable) /\ h.mode = Top.mode
          BY <1>4, <1>5, <1>10, <1>18, <2>1, <2>5, <2>7 DEF n
        <5>4. /\ h.found = Top.found /\ h.was = Top.was /\ h.touched = Top.touched
              /\ IsInjective(h.tranTable) /\ IsInjective(Top.tranTable)
          BY <1>2, <1>4, <1>5, <1>10, <1>18, <2>1, <2>5, <2>7, <5>1 DEF Table, Like
        <5>5. h.mode # "none"
          BY <1>18, <2>7
        <5> QED BY <5>1, <5>2, <5>3, <5>4, <5>5 DEF Table
      <4>2. h.offsetLimit <= Len(h.tranTable) /\ h.ask.offset <= h.walkIndex /\ h.walkIndex <= h.offsetLimit
        BY <1>2, <2>1, <2>3, <2>5, <2>7 DEF n
      <4> QED BY <2>5, <4>1, <4>2, DeferRight
    <3> QED BY <1>2, <1>13, <2>13, <3>6, <3>7, TopDid
  <2>14. ASSUME NEW d \in Search, Like(h, d), d.phase = "after", d.stage \in {"cursor", "commit"},
                d.stage = "cursor" <=> o.tran = "cursor", d.stage = "commit" => f.mode # "defer",
                d.offsetLimit = k, d.tranTable = t, d.result = f.result, searches' = Now(d)
         PROVE  DInv'
    <3>1. /\ d.ask = o /\ d.sorts = f.sorts /\ d.mode = f.mode /\ d.found = f.found /\ d.acted = f.acted
          /\ d.touched = f.touched /\ d.was = f.was
      BY <2>7, <2>14 DEF Like
    <3>2. Source(d) = Source(h)
      BY <2>5, <2>7, <2>14, <3>1 DEF Source
    <3>3. Sound(d, list, val) /\ Enough(d) /\ (OffsetLost(d) <=> OffsetLost(f)) /\ Stop(d) = Stop(f)
      BY <1>8, <2>5, <2>9, <2>10, <2>14, <3>2, LikeIs
    <3>4. TableOfFound(d) /\ (d.sorts /\ d.touched = {} => InSort(d))
      BY <2>5, <2>7, <2>11, <2>12, <2>14, <3>1 DEF TableOfFound, InSort
    <3>5. d.stage = "cursor" => d.acted = <<>> /\ d.result = "ok"
      BY <1>10, <1>11, <1>14, <2>14, <3>1
    <3>6. d.stage = "commit" =>
            /\ d.ask.does # "cursor" /\ d.result # "error"
            /\ ~OffsetLost(d) => d.ask.offset + Len(d.acted) = d.offsetLimit /\ d.offsetLimit = Stop(d)
      <4>1. SUFFICES ASSUME d.stage = "commit", ~OffsetLost(f)
                     PROVE  o.offset + Len(f.acted) = k
        BY <1>10, <1>14, <2>4, <2>14, <3>1, <3>3
      <4>2. Len(f.acted) = Past(f) /\ (o.limit > 0 => n <= o.offset + o.limit)
        BY <1>10, <1>18, <2>14, <4>1 DEF n
      <4>3. k = n
        BY <1>2, <1>5, <2>3, <2>4, <1>10, <4>1, <4>2 DEF Stop, n
      <4> QED BY <1>2, <1>5, <1>10, <1>16, <1>18, <4>2, <4>3 DEF Past, n
    <3>7. AfterDid(d)
      BY <1>18, <2>14, <3>1, <3>3, <3>4, <3>5, <3>6 DEF AfterDid
    <3>8. Did(d, list, val, index, at')
      BY <2>14, <3>3, <3>7 DEF Did
    <3> QED BY <1>2, <1>13, <2>14, <3>8, TopDid
  <2>15. /\ ha \in Search /\ Like(h, ha) /\ ha.phase = "after" /\ ha.stage = "cursor"
         /\ ha.offsetLimit = k /\ ha.tranTable = t /\ ha.result = f.result
    BY <2>5 DEF Search, Like
  <2>16. /\ hc \in Search /\ Like(h, hc) /\ hc.phase = "after" /\ hc.stage = "commit"
         /\ hc.offsetLimit = k /\ hc.tranTable = t /\ hc.result = f.result
    BY <2>5 DEF Search, Like
  <2> HIDE DEF ha, hc
  <2>17. CASE o.tran = "cursor" /\ searches' = Now(ha)
    BY <2>14, <2>15, <2>17
  <2>18. CASE o.tran # "cursor" /\ f.mode # "defer" /\ searches' = Now(hc)
    BY <2>14, <2>16, <2>18
  <2> QED BY <2>6, <2>13, <2>17, <2>18
<1> QED BY <1>3, <1>15, <1>17, <1>18


\* What the transaction table says of f it says of h.
LEMMA LikeTables ==
  ASSUME NEW f, NEW h, h.ask = f.ask, h.sorts = f.sorts, h.was = f.was, h.found = f.found,
         h.tranTable = f.tranTable
  PROVE  (TableOfFound(f) => TableOfFound(h)) /\ (InSort(f) => InSort(h))
BY DEF TableOfFound, InSort

\* An action that was put off.
LEMMA ActLaterDid ==
  ASSUME TInv, DInv, NEW c \in {"ok", "break", "return", "error"}, ActLater(c)
  PROVE  DInv'
<1> DEFINE t == Top
           e == Acted(c)
           k == t.walkIndex + 1
           f == [e EXCEPT !.walkIndex = k]
           he == [f EXCEPT !.stage = "done", !.result = c]
           hc == [f EXCEPT !.offsetLimit = k, !.stage = "commit"]
<1>1. searches # <<>> /\ t.stage = "act" /\ t.phase = "after" /\ Same /\ c \in Codes(t.ask)
  BY DEF ActLater, AtStage
<1>2. t \in Search /\ Held(t, list)
  BY <1>1, TopIs DEF Right
<1>3. Sound(t, list, val) /\ AfterDid(t)
  BY <1>1, TopDone
<1>4. /\ t.walkIndex \in Nat /\ t.offsetLimit \in Nat /\ t.tranTable \in Seq(Rows)
      /\ t.ask.offset \in Nat /\ t.acted \in Seq(Rows)
  BY <1>2, SearchFields, AskFields
<1>5. /\ t.walkIndex < t.offsetLimit /\ t.offsetLimit <= Len(t.tranTable) /\ t.row \in ToSet(t.tranTable)
  BY <1>1, <1>2 DEF Held
<1>6. t.row \in Rows /\ Len(t.acted) \in Nat /\ Len(t.tranTable) \in Nat
  BY <1>4, <1>5, SeqIs
<1>7. /\ t.mode = "defer" /\ t.ask.does # "cursor" /\ ~t.cut /\ t.result = "ok" /\ ~OffsetLost(t)
      /\ t.ask.offset + Len(t.acted) = t.walkIndex /\ t.offsetLimit = Stop(t)
      /\ t.row = t.tranTable[t.walkIndex + 1] /\ Enough(t)
      /\ TableOfFound(t) /\ (t.sorts /\ t.touched = {} => InSort(t))
  BY <1>1, <1>3 DEF AfterDid
<1>8. Source(t) = t.tranTable /\ k \in DOMAIN t.tranTable /\ t.ask.offset + Len(t.acted) + 1 = k
      /\ k \in Nat /\ t.ask.offset <= k /\ k <= t.offsetLimit
  <2>1. Source(t) = t.tranTable
    BY <1>7 DEF Source
  <2>2. k \in Nat /\ k = t.walkIndex + 1 /\ DOMAIN t.tranTable = 1 .. Len(t.tranTable)
    BY <1>4
  <2> HIDE DEF k
  <2>3. t.ask.offset <= t.walkIndex
    BY <1>4, <1>6, <1>7
  <2>4. k <= t.offsetLimit /\ t.ask.offset <= k /\ 1 <= k /\ k <= Len(t.tranTable)
    BY <1>4, <1>5, <1>6, <2>2, <2>3
  <2> QED BY <1>7, <2>1, <2>2, <2>4
<1>9. /\ e \in Search /\ e.ask = t.ask /\ e.walk = t.walk /\ e.sorts = t.sorts
      /\ e.mode = t.mode /\ e.phase = t.phase /\ e.stage = "act" /\ e.row = t.row
      /\ e.offsetLimit = t.offsetLimit /\ e.tranTable = t.tranTable /\ e.walkIndex = t.walkIndex
      /\ e.was = t.was /\ e.found = t.found /\ e.touched = t.touched
      /\ Len(e.acted) = Len(t.acted) + 1
      /\ (e.cut <=> c \in {"break", "return"})
      /\ e.result = IF c = "return" THEN "return" ELSE "ok"
      /\ Due(e) = Due(t) /\ Owed(e) = Owed(t) /\ Stop(e) = Stop(t)
      /\ (OffsetLost(e) <=> OffsetLost(t)) /\ (AllFound(e) <=> AllFound(t))
      /\ Sound(e, list, val)
  BY <1>1, <1>2, <1>3, <1>6, <1>7, <1>8, ActedSound
<1>10. \/ c = "error" /\ Fail([e EXCEPT !.walkIndex = @ + 1], c)
       \/ /\ at' = at
          /\ \/ c = "ok" /\ searches' = Now(Defer([e EXCEPT !.walkIndex = @ + 1]))
             \/ c \in {"break", "return"} /\
                searches' = Now([[e EXCEPT !.walkIndex = @ + 1] EXCEPT
                                  !.offsetLimit = [e EXCEPT !.walkIndex = @ + 1].walkIndex, !.stage = "commit"])
  BY DEF ActLater
<1>11. t = Top
  OBVIOUS
<1> HIDE DEF e, k, t
<1>12. [e EXCEPT !.walkIndex = @ + 1] = f /\ f.walkIndex = k
  BY <1>9 DEF Search, k
<1>13. /\ f \in Search /\ Like(e, f) /\ f.phase = e.phase /\ f.stage = "act" /\ f.row = e.row
       /\ f.offsetLimit = e.offsetLimit /\ f.tranTable = e.tranTable /\ f.result = e.result
  BY <1>8, <1>9 DEF Search, Like
<1> HIDE DEF f
<1>14. \/ c = "error" /\ searches' = Now(he) /\ at' = at
       \/ c = "ok" /\ searches' = Now(Defer(f)) /\ at' = at
       \/ c \in {"break", "return"} /\ searches' = Now(hc) /\ at' = at
  BY <1>10, <1>12 DEF Fail
<1>15. Enough(e)
  BY <1>7, <1>9 DEF Enough
<1>16. TableOfFound(e) /\ (e.sorts /\ e.touched = {} => InSort(e))
  BY <1>7, <1>9, LikeTables
<1>17. UNCHANGED <<list, val, index>>
  BY <1>1 DEF Same, table
<1>18. /\ f.ask = t.ask /\ f.sorts = e.sorts /\ f.mode = "defer" /\ f.was = e.was /\ f.found = e.found
       /\ f.acted = e.acted /\ f.touched = e.touched /\ f.phase = "after" /\ f.result = e.result /\ f.walk = t.walk
  BY <1>1, <1>7, <1>9, <1>13 DEF Like
<1>19. (f.cut <=> e.cut) /\ Source(f) = Source(e)
  BY <1>9, <1>13, <1>18 DEF Like, Source
<1>20. e.result # "endless" /\ ActsOn(e)
  BY <1>9 DEF Sound
<1>21. /\ Sound(f, list, val) /\ Enough(f) /\ Stop(f) = Stop(e) /\ (OffsetLost(f) <=> OffsetLost(e)) /\ ActsOn(f)
  BY <1>9, <1>13, <1>15, <1>19, <1>20, LikeIs
<1>22. TableOfFound(f) /\ (f.sorts /\ f.touched = {} => InSort(f))
  BY <1>9, <1>13, <1>16, <1>18, LikeTables
<1>23. f.ask.offset + Len(f.acted) = k
  <2>1. Len(f.acted) = Len(t.acted) + 1 /\ f.ask.offset = t.ask.offset
    BY <1>9, <1>18
  <2>2. k = t.walkIndex + 1
    BY DEF k
  <2> QED BY <1>4, <1>6, <1>7, <2>1, <2>2
<1>24. CASE c = "error" /\ searches' = Now(he) /\ at' = at
  <2>1. /\ he \in Search /\ Like(f, he) /\ he.phase = "after" /\ he.stage = "done" /\ he.result = "error"
        /\ he.tranTable = f.tranTable
    BY <1>13, <1>18, <1>24 DEF Search, Like
  <2> HIDE DEF he
  <2>2. /\ he.ask = t.ask /\ he.sorts = f.sorts /\ he.mode = f.mode /\ he.was = f.was /\ he.found = f.found
        /\ he.touched = f.touched
    BY <1>18, <2>1 DEF Like
  <2>3. Source(he) = Source(f)
    BY <2>1, <2>2 DEF Source
  <2>4. Sound(he, list, val) /\ Enough(he)
    BY <1>21, <2>1, <2>3, LikeIs
  <2>5. TableOfFound(he) /\ (he.sorts /\ he.touched = {} => InSort(he))
    BY <1>18, <1>22, <2>1, <2>2, LikeTables
  <2>6. AfterDid(he)
    BY <2>1, <2>4, <2>5 DEF AfterDid
  <2>7. (he.was.rows \cup he.touched) \ ToSet(list) = {}
    BY <1>13, <1>21, <2>2 DEF Sound
  <2>8. DoneDid(he, list, val)
    BY <2>1, <2>7 DEF DoneDid
  <2>9. Did(he, list, val, index, at')
    BY <2>1, <2>4, <2>6, <2>8 DEF Did
  <2> QED BY <1>1, <1>17, <1>24, <2>1, <2>9, TopDid
<1>25. CASE c = "ok" /\ searches' = Now(Defer(f)) /\ at' = at
  <2>1. f.ask.offset + Len(f.acted) = f.walkIndex /\ f.walkIndex <= f.offsetLimit
    BY <1>8, <1>9, <1>12, <1>13, <1>23
  <2>2. IF OffsetLost(f) THEN f.walkIndex = f.offsetLimit ELSE f.offsetLimit = Stop(f)
    BY <1>7, <1>9, <1>13, <1>21
  <2>3. ~f.cut /\ f.result = "ok" /\ f.ask.does # "cursor"
    BY <1>7, <1>9, <1>18, <1>19, <1>25
  <2>4. Did(Defer(f), list, val, index, at')
    BY <1>13, <1>18, <1>21, <1>22, <2>1, <2>2, <2>3, DeferDid
  <2>5. Defer(f) \in Search
    <3>1. Table(t, list)
      BY <1>1, <1>2, TableHeld
    <3>2. /\ f.room = t.room /\ f.mode = t.mode /\ f.tranTable = t.tranTable /\ f.was = t.was
          /\ f.found = t.found /\ f.touched = t.touched
      <4>1. e.room = t.room
        BY <1>2, <1>11 DEF e, Acted, Search
      <4>2. f.room = e.room
        BY <1>9 DEF f, Search
      <4> QED BY <1>7, <1>9, <1>13, <1>18, <4>1, <4>2
    <3>3. Table(f, list)
      BY <1>18, <3>1, <3>2 DEF Table, Findable
    <3>4. f.ask.offset <= f.walkIndex /\ f.offsetLimit <= Len(f.tranTable)
      BY <1>5, <1>8, <1>9, <1>12, <1>13, <1>18
    <3> QED BY <1>13, <1>18, <2>1, <3>3, <3>4, DeferRight
  <2> QED BY <1>1, <1>17, <1>25, <2>4, <2>5, TopDid
<1>26. CASE c \in {"break", "return"} /\ searches' = Now(hc) /\ at' = at
  <2>1. /\ hc \in Search /\ Like(f, hc) /\ hc.phase = "after" /\ hc.stage = "commit" /\ hc.result = f.result
        /\ hc.tranTable = f.tranTable /\ hc.offsetLimit = k
    BY <1>8, <1>13, <1>18 DEF Search, Like
  <2> HIDE DEF hc
  <2>2. /\ hc.ask = t.ask /\ hc.sorts = f.sorts /\ hc.mode = f.mode /\ hc.was = f.was /\ hc.found = f.found
        /\ hc.touched = f.touched /\ hc.acted = f.acted
    BY <1>18, <2>1 DEF Like
  <2>3. Source(hc) = Source(f) /\ hc.cut
    BY <1>9, <1>19, <1>26, <2>1, <2>2 DEF Source, Like
  <2>4. Sound(hc, list, val) /\ Enough(hc)
    <3>1. ActsOn(hc)
      BY <1>21, <2>1, <2>3, LikeIs
    <3> QED BY <1>13, <1>18, <1>20, <1>21, <2>1, <2>3, <3>1, LikeIs
  <2>5. TableOfFound(hc) /\ (hc.sorts /\ hc.touched = {} => InSort(hc))
    BY <1>18, <1>22, <2>1, <2>2, LikeTables
  <2>6. hc.result # "error"
    BY <1>9, <1>18, <2>1
  <2>7. AfterDid(hc)
    BY <1>7, <1>18, <1>23, <2>1, <2>2, <2>3, <2>4, <2>5, <2>6 DEF AfterDid
  <2>8. Did(hc, list, val, index, at')
    BY <2>1, <2>4, <2>7 DEF Did
  <2> QED BY <1>1, <1>17, <1>26, <2>1, <2>8, TopDid
<1> QED BY <1>14, <1>24, <1>25, <1>26

-----------------------------------------------------------------------------
(* The transactions.                                                       *)

\* What is known of the innermost search when it comes to its transaction, and what
\* it ends as.
LEMMA CommitCounts ==
  ASSUME TInv, DInv, AtStage("commit"), NEW h, h = Counted(Top)
  PROVE  LET f == Top
             S == ToSet(Window(Top))
         IN  /\ searches # <<>> /\ f \in Search /\ h \in Search /\ Like(f, h) /\ h.phase = "after" /\ h.stage = "done"
             /\ h.result = f.result /\ h.result # "error" /\ h.result # "endless" /\ h.ask = f.ask
             /\ f.ask.does # "cursor" /\ Sound(f, list, val) /\ Sound(h, list, val) /\ AfterDid(h)
             /\ S \subseteq f.was.rows \cup f.touched /\ f.was.rows \cup f.touched \subseteq ToSet(list)
             /\ ~OffsetLost(h) => ToSet(h.acted) = S
             /\ ~OffsetLost(h) => h.matchCount = Len(h.acted)
             /\ h.touched = {} /\ ~h.cut /\ ~OffsetLost(h) => h.matchCount = Clip(h.ask, Cardinality(Due(h)))
             /\ h.ask.offset = 0 /\ h.ask.limit = 0 /\ ~h.cut => Owed(h) \subseteq ToSet(h.acted)
<1> DEFINE f == Top
           m == f.offsetLimit - f.ask.offset
           g == [f EXCEPT !.matchCount = m, !.stage = "done"]
           S == ToSet(Window(f))
<1>1. /\ searches # <<>> /\ f \in Search /\ f.stage = "commit" /\ f.phase = "after"
      /\ Held(f, list) /\ Table(f, list)
  BY TopCommits
<1>2. Sound(f, list, val) /\ AfterDid(f)
  BY <1>1, TopDone
<1>3. /\ f.ask.offset \in Nat /\ f.offsetLimit \in Nat /\ f.tranTable \in Seq(Rows) /\ f.acted \in Seq(Rows)
      /\ f.found \in Seq(Rows) /\ f.was.rows \subseteq Rows /\ f.touched \subseteq Rows
  BY <1>1, SearchFields, AskFields
<1>4. f.ask.offset <= f.offsetLimit /\ f.offsetLimit <= Len(f.tranTable) /\ IsInjective(f.found) /\ IsFiniteSet(f.was.rows)
  BY <1>1 DEF Held
<1>5. m \in Nat
  BY <1>1, CountedFields
<1>6. Window(f) = SubSeq(f.tranTable, f.ask.offset + 1, f.offsetLimit)
  BY DEF Window
<1>7. h = g
  BY DEF Counted
<1>8. f = Top
  OBVIOUS
<1>9. m = f.offsetLimit - f.ask.offset
  OBVIOUS
<1> HIDE DEF f, m
<1>10. /\ g \in Search /\ Like(f, g) /\ g.phase = "after" /\ g.stage = "done" /\ g.result = f.result
       /\ g.tranTable = f.tranTable /\ g.offsetLimit = f.offsetLimit /\ g.matchCount = m
  BY <1>1, <1>5 DEF Search, Like
<1> HIDE DEF g
<1>11. /\ g.ask = f.ask /\ g.sorts = f.sorts /\ g.mode = f.mode /\ g.was = f.was /\ g.found = f.found
       /\ g.acted = f.acted /\ g.touched = f.touched
  BY <1>10 DEF Like
<1>12. g.cut <=> f.cut
  BY <1>10 DEF Like
<1>13. /\ f.mode # "none" /\ TableOfFound(f) /\ Enough(f) /\ f.ask.does # "cursor" /\ f.result # "error"
       /\ ~OffsetLost(f) => f.ask.offset + Len(f.acted) = f.offsetLimit /\ (f.cut \/ f.offsetLimit = Stop(f))
       /\ f.sorts /\ f.touched = {} => InSort(f)
  BY <1>1, <1>2 DEF AfterDid
<1>14. f.sorts => f.mode = "defer"
  BY <1>2 DEF Sound, Fixed
<1>15. Source(f) = f.tranTable /\ Source(g) = f.tranTable
  BY <1>10, <1>11, <1>13, <1>14 DEF Source, TableOfFound
<1>16. ToSet(f.tranTable) = ToSet(f.found) /\ Len(f.tranTable) = Len(f.found)
  BY <1>13 DEF TableOfFound
<1>17. f.result # "endless" /\ ActsOn(f) /\ ToSet(f.found) \subseteq Due(f) \cup f.touched
  BY <1>2 DEF Sound
<1>18. /\ Sound(g, list, val) /\ Enough(g) /\ Due(g) = Due(f) /\ Owed(g) = Owed(f) /\ Stop(g) = Stop(f) /\ ActsOn(g)
       /\ (OffsetLost(g) <=> OffsetLost(f))
  <2>1. ActsOn(g)
    BY <1>10, <1>15, <1>17, LikeIs
  <2> QED BY <1>1, <1>2, <1>10, <1>13, <1>17, <2>1, LikeIs
<1>19. TableOfFound(g) /\ (g.sorts /\ g.touched = {} => InSort(g))
  BY <1>10, <1>11, <1>13, LikeTables
<1>20. AfterDid(g)
  BY <1>10, <1>11, <1>13, <1>18, <1>19 DEF AfterDid
<1> DEFINE k == f.offsetLimit
           s == f.tranTable
<1>21. /\ k \in Nat /\ s \in Seq(Rows) /\ s = Source(g) /\ ToSet(s) = ToSet(g.found) /\ Len(s) = Len(g.found)
       /\ g.ask.offset <= k /\ k <= Len(s) /\ g.matchCount = k - g.ask.offset
  BY <1>3, <1>4, <1>9, <1>10, <1>11, <1>15, <1>16
<1>22. /\ ~OffsetLost(g) => g.ask.offset + Len(g.acted) = k /\ (g.cut \/ k = Stop(g))
       /\ IsInjective(g.found) /\ IsFiniteSet(g.was.rows) /\ ToSet(g.found) \subseteq Due(g) \cup g.touched
  BY <1>4, <1>11, <1>12, <1>13, <1>17, <1>18
<1> HIDE DEF k, s
<1>23. /\ ~OffsetLost(g) => g.matchCount = Len(g.acted)
       /\ g.touched = {} /\ ~g.cut /\ ~OffsetLost(g) => g.matchCount = Clip(g.ask, Cardinality(Due(g)))
       /\ g.ask.offset = 0 /\ g.ask.limit = 0 /\ ~g.cut => Owed(g) \subseteq ToSet(g.acted)
  BY <1>10, <1>18, <1>21, <1>22, CountedDid
<1>24. ~OffsetLost(g) => ToSet(g.acted) = S
  <2>1. SUFFICES ASSUME ~OffsetLost(g) PROVE ToSet(g.acted) = S
    OBVIOUS
  <2>2. ToSet(g.acted) = ToSet(SubSeq(s, g.ask.offset + 1, k))
    BY <1>10, <1>18, <1>21, <1>22, <2>1, ActedWindow
  <2> QED BY <1>6, <1>11, <2>2 DEF k, s
<1>25. S \subseteq f.was.rows \cup f.touched
  <2>1. S \subseteq ToSet(f.tranTable)
    BY <1>3, <1>4, <1>6, SubSeqIs
  <2> QED BY <1>16, <1>17, <2>1 DEF Due
<1>26. f.was.rows \cup f.touched \subseteq ToSet(list)
  BY <1>1, <1>2 DEF Sound
<1> QED BY <1>1, <1>2, <1>7, <1>8, <1>10, <1>11, <1>13, <1>17, <1>18, <1>20, <1>23, <1>24, <1>25, <1>26 DEF S


\* The values after rows were given another one.
LEMMA MovedTo ==
  ASSUME val \in [Rows -> Values], NEW s \in Seq(Rows), NEW v \in Values, MoveTo(s, v)
  PROVE  \A r \in Rows : val'[r] = IF r \in ToSet(s) THEN v ELSE val[r]
<1> DEFINE T == {r \in Rows : val[r] # v}
           M == ToSet(Only(s, T))
<1>1. val' = [r \in Rows |-> IF r \in M THEN v ELSE val[r]]
  BY DEF MoveTo
<1>2. M = ToSet(s) \cap T
  BY OnlyIs
<1> HIDE DEF M
<1> QED BY <1>1, <1>2

\* The search is done, and nothing but its record changes.
LEMMA CommitDid ==
  ASSUME TInv, DInv, Commit
  PROVE  DInv'
<1> DEFINE f == Top
           h == Counted(f)
<1>1. AtStage("commit") /\ Same /\ searches' = Now(h) /\ at' = at /\ f.ask.tran = "none"
  BY DEF Commit
<1> DEFINE S == ToSet(Window(f))
<1>2. /\ searches # <<>> /\ f \in Search /\ h \in Search /\ Like(f, h) /\ h.phase = "after" /\ h.stage = "done"
      /\ h.result = f.result /\ h.result # "error" /\ h.result # "endless" /\ h.ask = f.ask
      /\ f.ask.does # "cursor" /\ Sound(f, list, val) /\ Sound(h, list, val) /\ AfterDid(h)
      /\ ~OffsetLost(h) => h.matchCount = Len(h.acted)
      /\ h.touched = {} /\ ~h.cut /\ ~OffsetLost(h) => h.matchCount = Clip(h.ask, Cardinality(Due(h)))
      /\ h.ask.offset = 0 /\ h.ask.limit = 0 /\ ~h.cut => Owed(h) \subseteq ToSet(h.acted)
  BY <1>1, CommitCounts
<1> HIDE DEF h
<1>3. DoneDid(h, list, val)
  BY <1>1, <1>2 DEF DoneDid
<1>4. Did(h, list, val, index, at')
  BY <1>2, <1>3 DEF Did
<1>5. UNCHANGED <<list, val, index>>
  BY <1>1 DEF Same, table
<1> QED BY <1>1, <1>2, <1>4, <1>5, TopDid

\* -update fails, and nothing is set.
LEMMA CommitFailsDid ==
  ASSUME TInv, DInv, CommitFails
  PROVE  DInv'
<1> DEFINE f == Top
           m == f.offsetLimit - f.ask.offset
           g == [f EXCEPT !.matchCount = m]
           h == [g EXCEPT !.stage = "done", !.result = "error"]
           c == Counted(f)
<1>1. AtStage("commit") /\ Same /\ searches' = Now(h) /\ at' = at /\ f.ask.tran = "update"
  BY DEF CommitFails, Fail
<1>2. /\ searches # <<>> /\ f \in Search /\ f.stage = "commit" /\ f.phase = "after" /\ m \in Nat
  BY <1>1, TopCommits, CountedFields
<1> DEFINE S == ToSet(Window(f))
<1>3. /\ c \in Search /\ Like(f, c) /\ Sound(f, list, val) /\ Sound(c, list, val) /\ AfterDid(c) /\ c.stage = "done"
      /\ f.was.rows \cup f.touched \subseteq ToSet(list)
  BY <1>1, CommitCounts
<1>4. c.tranTable = f.tranTable /\ c.matchCount = m
  <2>1. c = [f EXCEPT !.matchCount = m, !.stage = "done"]
    BY DEF Counted
  <2> HIDE DEF c, f, m
  <2> QED BY <1>2, <2>1 DEF Search
<1> HIDE DEF m, f, c
<1>5. /\ h \in Search /\ Like(f, h) /\ h.phase = "after" /\ h.stage = "done" /\ h.result = "error"
      /\ h.tranTable = f.tranTable
  BY <1>2 DEF Search, Like
<1> HIDE DEF h
<1>6. Like(c, h) /\ Source(h) = Source(c)
  <2>1. Like(c, h)
    <3>1. /\ h.ask = c.ask /\ h.walk = c.walk /\ h.sorts = c.sorts /\ h.mode = c.mode
          /\ h.was = c.was /\ h.found = c.found /\ h.acted = c.acted /\ h.touched = c.touched
      BY <1>3, <1>5 DEF Like
    <3>2. h.cut = c.cut
      BY <1>3, <1>5 DEF Like
    <3> QED BY <3>1, <3>2 DEF Like
  <2> QED BY <1>4, <1>5, <2>1 DEF Source, Like
<1>7. ActsOn(c) /\ Enough(c)
  BY <1>3 DEF Sound, AfterDid
<1>8. Sound(h, list, val) /\ Enough(h)
  BY <1>3, <1>5, <1>6, <1>7, LikeIs
<1>9. /\ h.ask = c.ask /\ h.sorts = c.sorts /\ h.mode = c.mode /\ h.was = c.was /\ h.found = c.found
      /\ h.acted = c.acted /\ h.touched = c.touched /\ h.tranTable = c.tranTable
  BY <1>4, <1>5, <1>6 DEF Like
<1>10. /\ h.mode # "none" => TableOfFound(h)
       /\ h.sorts /\ h.touched = {} /\ h.acted # <<>> => InSort(h)
  BY <1>3, <1>9, LikeTables DEF AfterDid
<1>11. AfterDid(h)
  BY <1>5, <1>8, <1>10 DEF AfterDid
<1>12. (h.was.rows \cup h.touched) \ ToSet(list) = {}
  BY <1>3, <1>5 DEF Like
<1>13. DoneDid(h, list, val)
  BY <1>5, <1>12 DEF DoneDid
<1>14. Did(h, list, val, index, at')
  BY <1>5, <1>8, <1>11, <1>13 DEF Did
<1>15. UNCHANGED <<list, val, index>>
  BY <1>1 DEF Same, table
<1> QED BY <1>1, <1>2, <1>5, <1>14, <1>15, TopDid

\* -delete: the rows acted on go.
LEMMA CommitDeleteDid ==
  ASSUME TInv, DInv, IInv, Careful, CommitDelete
  PROVE  DInv'
<1> DEFINE f == Top
           h == Counted(f)
           gone == ToSet(Window(f))
<1>1. /\ AtStage("commit") /\ f.ask.tran = "delete" /\ list' = Only(list, Rows \ gone)
      /\ searches' = Now(h) /\ val' = val
  BY DEF CommitDelete
<1>2. /\ searches # <<>> /\ f \in Search /\ h \in Search /\ Like(f, h) /\ h.phase = "after" /\ h.stage = "done"
      /\ h.result = f.result /\ h.result # "error" /\ h.result # "endless" /\ h.ask = f.ask
      /\ f.ask.does # "cursor" /\ Sound(f, list, val) /\ Sound(h, list, val) /\ AfterDid(h)
      /\ gone \subseteq f.was.rows \cup f.touched /\ f.was.rows \cup f.touched \subseteq ToSet(list)
      /\ ~OffsetLost(h) => ToSet(h.acted) = gone
      /\ ~OffsetLost(h) => h.matchCount = Len(h.acted)
      /\ h.touched = {} /\ ~h.cut /\ ~OffsetLost(h) => h.matchCount = Clip(h.ask, Cardinality(Due(h)))
      /\ h.ask.offset = 0 /\ h.ask.limit = 0 /\ ~h.cut => Owed(h) \subseteq ToSet(h.acted)
  BY <1>1, CommitCounts
<1>3. list \in Seq(Rows) /\ ToSet(list) \subseteq Rows
  BY TInvFacts
<1> HIDE DEF h, gone
<1>4. ToSet(list') = ToSet(list) \cap (Rows \ gone)
  BY <1>1, <1>3, OnlyIs
<1>5. h.was = f.was /\ h.touched = f.touched
  BY <1>2 DEF Like
<1>6. (h.was.rows \cup h.touched) \ ToSet(list') = gone
  BY <1>2, <1>3, <1>4, <1>5
<1>7. DoneDid(h, list', val')
  BY <1>1, <1>2, <1>6 DEF DoneDid
<1>8. Sound(h, list', val')
  BY <1>1, <1>2 DEF Sound
<1>9. Did(h, list', val', index', at')
  BY <1>2, <1>7, <1>8 DEF Did
<1>10. Len(searches) = 1 /\ DOMAIN searches = {1}
  <2>1. Len(searches) \in DOMAIN searches /\ Top = searches[Len(searches)] /\ DOMAIN searches = 1 .. Len(searches)
    BY <1>2, TopIs, TInvFacts
  <2>2. Len(searches) = 1
    BY <1>1, <2>1 DEF IInv, DeleterIsAlone, Deleting
  <2> QED BY <2>1, <2>2
<1>11. Len(searches') = 1 /\ DOMAIN searches' = {1} /\ searches'[1] = h
  <2>1. searches \in Seq(Search)
    BY TInvFacts
  <2> QED BY <1>1, <1>2, <1>10, <2>1 DEF Now
<1> QED BY <1>9, <1>11 DEF DInv, Nested


\* -update: the rows acted on are set, and named to all searches.
LEMMA CommitUpdateDid ==
  ASSUME TInv, DInv, CommitUpdate
  PROVE  DInv'
<1> DEFINE f  == Top
           h  == Counted(f)
           ss == Now(h)
           w  == Window(f)
           S  == ToSet(w)
           to == f.ask.to
           n  == Len(searches)
           T(s) == [s EXCEPT !.touched = @ \cup S]
           g  == T(h)
<1>1. /\ AtStage("commit") /\ f.ask.tran = "update" /\ MoveTo(w, to)
      /\ searches' = Touch(ss, S) /\ list' = list
  BY DEF CommitUpdate
<1>2. /\ searches # <<>> /\ f \in Search /\ h \in Search /\ Like(f, h) /\ h.phase = "after" /\ h.stage = "done"
      /\ h.result = f.result /\ h.result # "error" /\ h.result # "endless" /\ h.ask = f.ask
      /\ f.ask.does # "cursor" /\ Sound(f, list, val) /\ Sound(h, list, val) /\ AfterDid(h)
      /\ S \subseteq f.was.rows \cup f.touched /\ f.was.rows \cup f.touched \subseteq ToSet(list)
      /\ ~OffsetLost(h) => ToSet(h.acted) = S
      /\ ~OffsetLost(h) => h.matchCount = Len(h.acted)
      /\ h.touched = {} /\ ~h.cut /\ ~OffsetLost(h) => h.matchCount = Clip(h.ask, Cardinality(Due(h)))
      /\ h.ask.offset = 0 /\ h.ask.limit = 0 /\ ~h.cut => Owed(h) \subseteq ToSet(h.acted)
  BY <1>1, CommitCounts
<1>3. /\ w \in Seq(Rows) /\ S \subseteq ToSet(list)
  BY <1>1, WindowIs
<1>4. to \in Values /\ val \in [Rows -> Values] /\ S \subseteq Rows
  BY <1>2, <1>3, SearchFields, AskFields, SeqIs, TInvFacts
<1> HIDE DEF to, w
<1>5. \A r \in Rows : val'[r] = IF r \in S THEN to ELSE val[r]
  BY <1>1, <1>3, <1>4, MovedTo
<1>6. n \in DOMAIN searches /\ f = searches[n] /\ searches \in Seq(Search) /\ DOMAIN searches = 1 .. n
  BY <1>2, TopIs, TInvFacts
<1>7. DOMAIN ss = DOMAIN searches /\ ss[n] = h /\ (\A i \in DOMAIN searches \ {n} : ss[i] = searches[i])
  BY <1>6 DEF Now
<1>8. /\ DOMAIN searches' = DOMAIN searches /\ Len(searches') = n
      /\ \A i \in DOMAIN searches' : searches'[i] = T(ss[i])
  <2>1. DOMAIN searches' = DOMAIN searches /\ \A i \in DOMAIN searches' : searches'[i] = T(ss[i])
    BY <1>1, <1>7 DEF Touch
  <2>2. searches' = [i \in 1 .. n |-> T(ss[i])] /\ n \in Nat
    BY <1>1, <1>6, <1>7, TInvFacts DEF Touch
  <2>3. Len(searches') = n
    BY <2>2
  <2> QED BY <2>1, <2>3
<1>9. f = Top /\ to = f.ask.to
  BY DEF to
<1> HIDE DEF f, h, ss, S, n
<1>10. /\ g.ask = h.ask /\ g.walk = h.walk /\ g.sorts = h.sorts /\ g.mode = h.mode /\ g.phase = "after"
       /\ g.stage = "done" /\ g.matchCount = h.matchCount /\ g.tranTable = h.tranTable
       /\ g.result = h.result /\ g.was = h.was /\ g.found = h.found /\ g.acted = h.acted
       /\ g.touched = h.touched \cup S
  BY <1>2 DEF Search
<1>11. g.cut = h.cut
  BY <1>2 DEF Search
<1> HIDE DEF g
<1>12. /\ Due(g) = Due(h) /\ Owed(g) \subseteq Owed(h) /\ (OffsetLost(g) <=> OffsetLost(h))
       /\ (g.touched = {} => h.touched = {})
  BY <1>10 DEF Due, Owed, OffsetLost
<1>13. Sound(g, list, val')
  <2>1. Fixed(g) /\ ActsOn(g) /\ (InOrder(h) => InOrder(g))
    BY <1>2, <1>10, <1>12 DEF Sound, Fixed, ActsOn, Source, InOrder
  <2>2. \A r \in Rows \ g.touched : val'[r] = g.was.val[r]
    BY <1>2, <1>5, <1>10 DEF Sound
  <2>3. ToSet(g.found) \subseteq Due(g) \cup g.touched
    BY <1>2, <1>10, <1>12 DEF Sound
  <2> QED BY <1>2, <1>10, <2>1, <2>2, <2>3 DEF Sound
<1>14. AfterDid(g)
  <2>1. Enough(h) => Enough(g)
    BY <1>10, <1>11, <1>12 DEF Enough, AllFound, Full
  <2>2. (TableOfFound(h) => TableOfFound(g)) /\ (InSort(h) => InSort(g))
    BY <1>10, LikeTables
  <2> QED BY <1>2, <1>10, <1>12, <2>1, <2>2 DEF AfterDid
<1>15. DoneDid(g, list, val')
  <2>1. ~OffsetLost(g) => \A r \in ToSet(g.acted) : val'[r] = g.ask.to
    BY <1>2, <1>4, <1>5, <1>9, <1>10, <1>12
  <2>2. ~OffsetLost(g) => g.matchCount = Len(g.acted)
    BY <1>2, <1>10, <1>12
  <2>3. g.touched = {} /\ ~g.cut /\ ~OffsetLost(g) => g.matchCount = Clip(g.ask, Cardinality(Due(g)))
    BY <1>2, <1>10, <1>11, <1>12
  <2>4. g.ask.offset = 0 /\ g.ask.limit = 0 /\ ~g.cut => Owed(g) \subseteq ToSet(g.acted)
    BY <1>2, <1>10, <1>11, <1>12
  <2>5. g.ask.tran # "delete"
    BY <1>1, <1>2, <1>9, <1>10
  <2> QED BY <2>1, <2>2, <2>3, <2>4, <2>5 DEF DoneDid
<1>16. Did(g, list', val', index', at')
  BY <1>1, <1>10, <1>13, <1>14, <1>15 DEF Did
<1>17. ASSUME NEW i \in DOMAIN searches, i # n
       PROVE  Did(searches'[i], list', val', index', at') /\ InScript(searches'[i])
  <2> DEFINE s == searches[i]
             t == T(s)
  <2>1. s \in Search /\ Did(s, list, val, index, at) /\ InScript(s) /\ ~Follows(s)
    <3>1. s \in Search /\ Did(s, list, val, index, at) /\ InScript(s)
      BY <1>17, TInvFacts DEF DInv, Nested, n
    <3>2. ~Follows(s)
      BY <1>1, <1>2, <1>9, <1>17, FollowersAre DEF n
    <3> QED BY <3>1, <3>2
  <2>2. searches'[i] = t
    BY <1>7, <1>8, <1>17
  <2> HIDE DEF s
  <2>3. Grows(list, list', S) /\ S \subseteq ToSet(list')
    BY <1>1, <1>3, GrowsNot
  <2>4. \A r \in Rows \ S : val'[r] = val[r]
    BY <1>5
  <2>5. Did(t, list', val', index', at')
    BY <1>4, <2>1, <2>3, <2>4, DidStays
  <2>6. InScript(t)
    BY <2>1 DEF Search, InScript
  <2> QED BY <2>2, <2>5, <2>6
<1>18. searches'[n] = g
  BY <1>6, <1>7, <1>8 DEF g
<1> QED BY <1>8, <1>16, <1>17, <1>18 DEF DInv, Nested

-----------------------------------------------------------------------------
(* The other commands, and the searches that begin and return.             *)

\* A command names the rows S, and nobody follows the index.
LEMMA NamesDid ==
  ASSUME TInv, DInv, Free, ~Following, NEW S, S \subseteq Rows, searches' = Touch(searches, S),
         Grows(list, list', S), S \subseteq ToSet(list'), \A r \in Rows \ S : val'[r] = val[r]
  PROVE  DInv'
<1> DEFINE n == Len(searches)
           T(s) == [s EXCEPT !.touched = @ \cup S]
<1>1. searches \in Seq(Search) /\ n \in Nat /\ DOMAIN searches = 1 .. n
  BY TInvFacts
<1>2. searches' = [i \in 1 .. n |-> T(searches[i])]
  BY <1>1 DEF Touch
<1>3. DOMAIN searches' = DOMAIN searches /\ Len(searches') = n
  BY <1>1, <1>2
<1>4. ASSUME NEW i \in DOMAIN searches
      PROVE  Did(searches'[i], list', val', index', at') /\ InScript(searches'[i])
  <2> DEFINE s == searches[i]
             t == T(s)
  <2>1. s \in Search /\ Did(s, list, val, index, at)
    BY TInvFacts DEF DInv
  <2>2. ~Follows(s)
    BY DEF Following, Follows
  <2>3. InScript(s)
    <3>1. CASE i = n
      BY <1>1, <3>1 DEF Free, Top
    <3>2. CASE i # n
      BY <3>2 DEF DInv, Nested
    <3> QED BY <3>1, <3>2
  <2>4. searches'[i] = t
    BY <1>1, <1>2
  <2> HIDE DEF s
  <2>5. Did(t, list', val', index', at')
    BY <2>1, <2>2, <2>3, DidStays
  <2>6. InScript(t)
    BY <2>1, <2>3 DEF Search, InScript
  <2> QED BY <2>4, <2>5, <2>6
<1> QED BY <1>3, <1>4 DEF DInv, Nested

\* No row is named, and skip->curl only moves if nobody follows the index.
LEMMA InScriptsDid ==
  ASSUME TInv, DInv, UNCHANGED <<list, val, index, searches>>, at' = at \/ (Free /\ ~Following)
  PROVE  DInv'
<1>1. CASE at' = at
  BY <1>1 DEF DInv, Nested
<1>2. CASE Free /\ ~Following
  <2>1. ASSUME NEW i \in DOMAIN searches PROVE Did(searches[i], list, val, index, at')
    <3> DEFINE s == searches[i]
    <3>1. s \in Search /\ Did(s, list, val, index, at)
      BY TInvFacts DEF DInv
    <3>2. ~Follows(s)
      BY <1>2 DEF Following, Follows
    <3>3. InScript(s)
      <4>1. CASE i = Len(searches)
        BY <1>2, <4>1, TInvFacts DEF Free, Top
      <4>2. CASE i # Len(searches)
        BY <4>2 DEF DInv, Nested
      <4> QED BY <4>1, <4>2
    <3> HIDE DEF s
    <3>4. Did(s, list, val, index, at')
      BY <3>1, <3>2, <3>3, DidSame
    <3> QED BY <3>4 DEF s
  <2> QED BY <2>1 DEF DInv, Nested
<1> QED BY <1>1, <1>2

LEMMA NoneDid ==
  ASSUME searches' = <<>>
  PROVE  DInv'
<1>1. DOMAIN searches' = {}
  OBVIOUS
<1> QED BY <1>1 DEF DInv, Nested

LEMMA StoreDid ==
  ASSUME TInv, DInv, Careful, NEW r \in Rows, NEW v \in Values, Store(r, v)
  PROVE  DInv'
<1>1. /\ Free /\ ~Following /\ ~InTable(r) /\ list' = <<r>> \o list /\ val' = [val EXCEPT ![r] = v]
      /\ searches' = Touch(searches, {r})
  BY DEF Store, MayMove, MayWrite
<1>2. list \in Seq(Rows) /\ IsInjective(list) /\ val \in [Rows -> Values]
  BY TInvFacts
<1>3. r \notin ToSet(list)
  BY <1>1, <1>2, SeqIs DEF InTable
<1> DEFINE S == {r}
<1>4. Grows(list, list', S) /\ S \subseteq ToSet(list')
  BY <1>1, <1>2, <1>3, GrowsByOne, PutIs
<1>5. S \subseteq Rows /\ searches' = Touch(searches, S) /\ \A q \in Rows \ S : val'[q] = val[q]
  BY <1>1, <1>2
<1> HIDE DEF S
<1> QED BY <1>1, <1>4, <1>5, NamesDid

\* A row of the table gets a value.
LEMMA MovesDid ==
  ASSUME TInv, DInv, Free, ~Following, NEW r \in ToSet(list), NEW v \in Values, MoveTo(<<r>>, v),
         searches' = Touch(searches, {r}), UNCHANGED list
  PROVE  DInv'
<1>1. ToSet(list) \subseteq Rows /\ val \in [Rows -> Values]
  BY TInvFacts
<1> DEFINE s == <<r>>
           S == {r}
<1>2. s \in Seq(Rows) /\ ToSet(s) = S /\ MoveTo(s, v)
  BY <1>1 DEF ToSet
<1> HIDE DEF s
<1>3. S \subseteq Rows /\ S \subseteq ToSet(list') /\ searches' = Touch(searches, S)
  BY <1>1
<1> HIDE DEF S
<1>4. \A q \in Rows \ S : val'[q] = val[q]
  BY <1>1, <1>2, MovedTo
<1>5. Grows(list, list', S)
  BY GrowsNot
<1> QED BY <1>3, <1>4, <1>5, NamesDid

LEMMA SetDid ==
  ASSUME TInv, DInv, Careful, NEW r \in Rows, NEW v \in Values, Set(r, v)
  PROVE  DInv'
<1>1. /\ Free /\ ~Following /\ InTable(r) /\ MoveTo(<<r>>, v) /\ searches' = Touch(searches, {r})
      /\ UNCHANGED list
  BY DEF Set, MayMove, MayWrite
<1>2. r \in ToSet(list)
  BY <1>1, TInvFacts, SeqIs DEF InTable
<1> QED BY <1>1, <1>2, MovesDid

LEMMA CursorSetDid ==
  ASSUME TInv, DInv, Careful, NEW n \in Names, NEW v \in Values, CursorSet(n, v)
  PROVE  DInv'
<1> DEFINE c == cursors[n]
           r == c.tranTable[c.tranIndex + 1]
<1>1. /\ Free /\ ~Following /\ n \in DOMAIN cursors /\ c.tranIndex < c.offsetLimit
      /\ MoveTo(<<r>>, v) /\ searches' = Touch(searches, {r}) /\ UNCHANGED list
  BY DEF CursorSet, CursorIs, MayMove
<1>2. c \in Cursor /\ ToSet(c.tranTable) \subseteq ToSet(list) /\ c.offsetLimit <= Len(c.tranTable)
  BY <1>1 DEF TInv, TypeOK, CursorsRight
<1>3. c.tranTable \in Seq(Rows) /\ c.tranIndex \in Nat /\ c.offsetLimit \in Nat
  BY <1>2 DEF Cursor
<1>4. c.tranIndex + 1 \in DOMAIN c.tranTable
  BY <1>1, <1>2, <1>3
<1>5. r \in ToSet(list)
  BY <1>2, <1>4, ToSetIs
<1> HIDE DEF r
<1> QED BY <1>1, <1>5, MovesDid

LEMMA CommandsDid ==
  ASSUME TInv, DInv, Careful, Commands
  PROVE  DInv'
<1>1. ASSUME NEW r \in Rows, Delete(r) PROVE DInv'
  BY <1>1, NoneDid DEF Delete, MayDelete
<1>2. CASE Reset
  BY <1>2, NoneDid DEF Reset
<1>3. CASE IndexRange
  BY <1>3, InScriptsDid DEF IndexRange, MayWrite, MayMove, table
<1> QED BY <1>1, <1>2, <1>3, StoreDid, SetDid DEF Commands

LEMMA WithCursorsDid ==
  ASSUME TInv, DInv, Careful, WithCursors
  PROVE  DInv'
<1>1. ASSUME NEW n \in Names, CursorNext(n) \/ CursorReset(n) \/ Destroy(n) PROVE DInv'
  BY <1>1, InScriptsDid DEF CursorNext, CursorReset, Destroy, table
<1>2. CASE DestroyAll
  BY <1>2, InScriptsDid DEF DestroyAll, table
<1> QED BY <1>1, <1>2, CursorSetDid DEF WithCursors

\* A search returns.
LEMMA LeaveDid ==
  ASSUME TInv, DInv, searches # <<>>, Leave, UNCHANGED <<list, val, index>>
  PROVE  DInv'
<1> DEFINE n == Len(searches)
<1>1. /\ searches \in Seq(Search) /\ n \in Nat \ {0} /\ DOMAIN searches = 1 .. n
  BY TInvFacts
<1>2. searches' = SubSeq(searches, 1, n - 1) /\ at' = IF n = 1 THEN End ELSE at
  BY DEF Leave, Front
<1>3. searches' \in Seq(Search) /\ Len(searches') = n - 1
  BY <1>1, <1>2
<1>4. DOMAIN searches' = 1 .. n - 1 /\ \A i \in 1 .. n - 1 : searches'[i] = searches[i] /\ i \in 1 .. n /\ i # n
  <2>1. \A i \in 1 .. n - 1 : i \in 1 .. n /\ i # n
    <3>1. n \in Nat
      BY <1>1
    <3> HIDE DEF n
    <3> QED BY <3>1
  <2>2. DOMAIN searches' = 1 .. n - 1 /\ \A i \in 1 .. n - 1 : searches'[i] = searches[i]
    BY <1>1, <1>2, <1>3
  <2> QED BY <2>1, <2>2
<1>5. 1 .. n - 1 # {} => at' = at
  BY <1>1, <1>2
<1>6. \A i \in 1 .. n : Did(searches[i], list, val, index, at) /\ (i # n => InScript(searches[i]))
  BY <1>1 DEF DInv, Nested
<1> HIDE DEF n
<1> QED BY <1>4, <1>5, <1>6 DEF DInv, Nested


\* What a search that begins has found and done: nothing.
LEMMA NewDid ==
  ASSUME TInv, NEW o \in Asks, NEW a, list # <<>>,
         a = IF Walk(o) # "index" THEN at
             ELSE IF o.find \in {"le", "in"} THEN First(Nodes(index))
             ELSE First({v \in Nodes(index) : v >= o.arg[1]})
  PROVE  Did(NewSearch(o), list, val, index, a)
<1> DEFINE h == NewSearch(o)
<1>1. /\ h \in Search /\ h.ask = o /\ h.walk = Walk(o) /\ h.mode = Mode(o)
      /\ h.phase = "walk" /\ h.stage \in {"poll", "match", "seek"}
      /\ (AtRow(h) <=> Walk(o) = "list") /\ (h.stage = "seek" <=> Walk(o) # "list")
      /\ h.row = (IF Walk(o) = "list" THEN list[1] ELSE NoRow)
      /\ h.left = (IF o.find \in {"in", "keys"} THEN o.arg ELSE <<>>)
      /\ h.found = <<>> /\ h.was.rows = ToSet(list) /\ h.touched = {}
  BY NewSearchFields
<1>2. /\ h.sorts = Sorts(o) /\ h.result = "ok" /\ h.acted = <<>> /\ h.steps = 0
      /\ h.was.val = val
  BY DEF NewSearch
<1>3. h.cut = FALSE
  BY DEF NewSearch
<1> HIDE DEF h
<1>4. /\ Sensible(o) /\ o.find \in Finds /\ o.offset \in Nat /\ o.limit \in Nat /\ o.arg \in Seq(Values \cup Rows)
  BY AskFields
<1>5. /\ list \in Seq(Rows) /\ IsInjective(list) /\ ToSet(list) \subseteq Rows
      /\ val \in [Rows -> Values] /\ Indexed(list, val, index)
  BY TInvFacts
<1>6. Fixed(h)
  <2>1. Sorts(o) => o.does \in {"code", "write"}
    BY <1>4 DEF Sorts, Sensible
  <2>2. o.does = "count" => o.tran = "none"
    BY <1>4 DEF Sensible
  <2>3. Sorts(o) \/ o.does = "cursor" => Mode(o) = "defer"
    BY <2>1 DEF Mode
  <2>4. (o.tran # "none" => Mode(o) # "none") /\ (o.does = "count" => Mode(o) = "none")
    BY <2>2 DEF Mode
  <2>5. o.sort # "no" /\ ~Sorts(o) => Walk(o) = "index" /\ o.find # "in"
    BY DEF Sorts
  <2>6. /\ Walk(o) = "index" => o.find \in {"le", "eq", "ge", "in"}
        /\ Walk(o) = "hash" => o.find = "keys"
    BY DEF Walk
  <2> QED BY <1>1, <1>2, <2>3, <2>4, <2>5, <2>6 DEF Fixed
<1>7. Sound(h, list, val)
  <2>1. ActsOn(h)
    BY <1>2 DEF ActsOn
  <2>2. InOrder(h)
    BY <1>1 DEF InOrder
  <2>3. ToSet(h.found) = {}
    BY <1>1, ToSetIs
  <2> QED BY <1>1, <1>2, <1>6, <2>1, <2>2, <2>3 DEF Sound
<1>8. \A q \in Due(h) : q \in ToSet(list) /\ Satisfies(o, q, val)
  BY <1>1, <1>2 DEF Due
<1>9. Owed(h) \subseteq Due(h)
  BY DEF Owed
<1>10. ASSUME AtRow(h) PROVE \A q : ~Passed(h, q, list, val, index)
  <2>1. h.walk = "list" /\ h.row = Head(list)
    BY <1>1, <1>10, <1>5
  <2> QED BY <1>5, <2>1, HeadLeads DEF Passed
<1>11. ASSUME h.stage = "seek", NEW q \in Due(h) PROVE ~Left(h, q, val, a)
  <2>1. h.walk \in {"hash", "index"} /\ q \in ToSet(list) /\ Satisfies(o, q, val)
    BY <1>1, <1>8, <1>11, SearchFields
  <2>2. CASE h.walk = "hash"
    <3>1. o.find = "keys"
      BY <1>1, <2>2 DEF Walk
    <3>2. Contains(o.arg, q)
      BY <2>1, <3>1 DEF Satisfies
    <3> QED BY <1>1, <2>2, <3>1, <3>2, ToSetIs DEF Left, Contains
  <2>3. CASE h.walk = "index" /\ o.find = "in"
    <3>1. Contains(o.arg, val[q])
      BY <2>1, <2>3 DEF Satisfies
    <3> QED BY <1>1, <2>3, <3>1, ToSetIs DEF Left, Contains
  <2>4. CASE h.walk = "index" /\ o.find # "in"
    <3>1. o.find \in {"le", "eq", "ge"}
      BY <1>1, <2>4 DEF Walk
    <3> DEFINE N == Nodes(index)
               M == {v \in N : v >= o.arg[1]}
               v == val[q]
    <3>2. v \in N /\ N \subseteq Values /\ M \subseteq Values
      BY <1>5, <2>1, NodesCount, NodesAre
    <3>3. v \in Nat /\ v # 0 /\ o.arg[1] \in Nat
      BY <3>1, <3>2, ArgIs, DataAssumption
    <3>4. o.find # "le" => v \in M
      <4>1. SUFFICES ASSUME o.find # "le" PROVE v >= o.arg[1]
        BY <3>2
      <4>2. CASE o.find = "eq"
        BY <2>1, <3>3, <4>2 DEF Satisfies
      <4>3. CASE o.find = "ge"
        BY <2>1, <4>3 DEF Satisfies
      <4> QED BY <3>1, <4>1, <4>2, <4>3
    <3>5. a = IF o.find = "le" THEN First(N) ELSE First(M)
      BY <1>1, <2>4, <3>1
    <3> HIDE DEF N, M
    <3>6. a # End /\ a <= v /\ a \in Values
      <4>1. CASE o.find = "le"
        BY <3>2, <3>5, <4>1, FirstIs
      <4>2. CASE o.find # "le"
        BY <3>2, <3>4, <3>5, <4>2, FirstIs
      <4> QED BY <4>1, <4>2
    <3>7. ~(v < a)
      BY <3>3, <3>6, DataAssumption
    <3> QED BY <1>1, <2>4, <3>6, <3>7 DEF Left
  <2> QED BY <2>1, <2>2, <2>3, <2>4
<1>12. h.walk = "index" /\ o.find \in {"eq", "ge"} => a = End \/ a >= o.arg[1]
  <2>1. SUFFICES ASSUME h.walk = "index", o.find \in {"eq", "ge"} PROVE a = End \/ a >= o.arg[1]
    OBVIOUS
  <2> DEFINE M == {v \in Nodes(index) : v >= o.arg[1]}
  <2>2. a = First(M) /\ M \subseteq Values
    BY <1>1, <1>5, <2>1, NodesAre
  <2>3. \A v \in M : v >= o.arg[1]
    OBVIOUS
  <2> HIDE DEF M
  <2> QED BY <2>2, <2>3, FirstIs
<1>13. h.steps <= Cardinality(Visited(h, val, index, a))
  BY <1>2, VisitedCount
<1>14. Len(h.acted) = 0 /\ Len(h.found) = 0 /\ Past(h) = 0
  BY <1>1, <1>2, <1>4 DEF Past
<1>15. o.limit > 0 => 0 < o.offset + o.limit
  BY <1>4
<1>16. (AtRow(h) \/ h.stage = "seek") /\ o.find \in {"in", "keys"} => ToSet(h.left) \subseteq ToSet(o.arg)
  BY <1>1
<1>17. AtRow(h) => h.walk = "list"
  BY <1>1
<1>18. WalkDid(h, list, val, index, a)
  <2>1. /\ h.stage \in {"poll", "match", "seek"} /\ ~h.cut /\ h.result = "ok" /\ h.acted = <<>>
        /\ h.ask = o
    BY <1>1, <1>2, <1>3
  <2>2. /\ AtRow(h) => \A q \in Owed(h) : Passed(h, q, list, val, index) => q \in ToSet(h.found)
        /\ h.stage = "seek" => \A q \in Owed(h) : Left(h, q, val, a) => q \in ToSet(h.found)
    BY <1>9, <1>10, <1>11
  <2>3. h.mode # "defer" /\ h.ask.limit > 0 =>
         /\ Len(h.found) <= h.ask.offset + h.ask.limit
         /\ Len(h.found) < h.ask.offset + h.ask.limit
    BY <1>4, <1>14, <1>15, <2>1
  <2> QED BY <1>12, <1>13, <1>14, <1>16, <1>17, <2>1, <2>2, <2>3 DEF WalkDid
<1> QED BY <1>1, <1>7, <1>18 DEF Did, h

LEMMA StartDid ==
  ASSUME TInv, DInv, NEW o \in Asks, Start(o)
  PROVE  DInv'
<1> DEFINE n == Len(searches)
           h == NewSearch(o)
<1>1. /\ Free /\ list # <<>> /\ searches' = Append(searches, h) /\ UNCHANGED <<list, val, index>>
      /\ at' = IF Walk(o) # "index" THEN at
               ELSE IF o.find \in {"le", "in"} THEN First(Nodes(index))
               ELSE First({v \in Nodes(index) : v >= o.arg[1]})
  BY DEF Start, MayCall, table
<1>2. Did(h, list, val, index, at')
  BY <1>1, NewDid
<1>3. h \in Search
  BY <1>1, NewSearchFields
<1>4. at' = at \/ ~Following
  BY <1>1 DEF Walk
<1> HIDE DEF h
<1>5. searches \in Seq(Search) /\ n \in Nat /\ DOMAIN searches = 1 .. n
  BY TInvFacts
<1>6. /\ DOMAIN searches' = 1 .. n + 1 /\ Len(searches') = n + 1 /\ searches'[n + 1] = h
      /\ \A i \in 1 .. n : searches'[i] = searches[i]
  BY <1>1, <1>3, <1>5
<1>7. ASSUME NEW i \in 1 .. n
      PROVE  Did(searches'[i], list, val, index, at') /\ InScript(searches'[i])
  <2> DEFINE s == searches[i]
  <2>1. s \in Search /\ Did(s, list, val, index, at)
    BY <1>5, TInvFacts DEF DInv
  <2>2. InScript(s)
    <3>1. CASE i = n
      BY <1>1, <1>5, <3>1 DEF Free, Top
    <3>2. CASE i # n
      BY <1>5, <3>2 DEF DInv, Nested
    <3> QED BY <3>1, <3>2
  <2>3. Follows(s) => at' = at
    BY <1>4, <1>5 DEF Following, Follows
  <2>4. searches'[i] = s
    BY <1>6
  <2> HIDE DEF s
  <2> QED BY <2>1, <2>2, <2>3, <2>4, DidSame
<1>8. \A i \in 1 .. n + 1 : i \in 1 .. n \/ i = n + 1
  BY <1>5
<1> HIDE DEF n
<1> QED BY <1>1, <1>2, <1>6, <1>7, <1>8 DEF DInv, Nested

LEMMA SearchingDid ==
  ASSUME TInv, DInv, IInv, Careful, Searching
  PROVE  DInv'
<1>1. ASSUME NEW o \in Asks, StartOnNothing(o) PROVE DInv'
  BY <1>1, InScriptsDid DEF StartOnNothing, table
<1>2. CASE \E c \in {"ok", "break", "return", "error"} : Act(c) \/ ActLater(c)
  BY <1>2, ActDid, ActLaterDid
<1>3. CASE SeekKey \/ SeekNode \/ Polled \/ Match \/ Post
  BY <1>3, SeekKeyDid, SeekNodeDid, PolledDid, MatchDid, PostDid
<1>4. CASE Commit \/ CommitDelete \/ CommitUpdate \/ CommitFails
  BY <1>4, CommitDid, CommitDeleteDid, CommitUpdateDid, CommitFailsDid
<1>5. CASE ReturnCursor
  BY <1>5, LeaveDid DEF ReturnCursor, AtStage, table
<1>6. CASE Return
  BY <1>6, LeaveDid DEF Return, AtStage, table
<1> QED BY <1>1, <1>2, <1>3, <1>4, <1>5, <1>6, StartDid DEF Searching

LEMMA StepDid == Careful /\ IInv /\ TInv /\ DInv /\ [Next]_vars => DInv'
<1> SUFFICES ASSUME Careful, IInv, TInv, DInv, [Next]_vars PROVE DInv'
  OBVIOUS
<1>1. CASE UNCHANGED vars
  <2>1. UNCHANGED <<list, val, index, at, searches>>
    BY <1>1 DEF vars, table
  <2> QED BY <2>1 DEF DInv, Nested
<1> QED BY <1>1, SearchingDid, CommandsDid, WithCursorsDid DEF Next

LEMMA AlwaysDid == Careful => (Spec => []DInv)
<1> SUFFICES ASSUME Careful PROVE Spec => []DInv
  OBVIOUS
<1>1. IInv /\ TInv /\ DInv /\ [Next]_vars => DInv'
  BY StepDid
<1>2. Init => DInv
  <2>1. ASSUME Init PROVE DOMAIN searches = {}
    BY <2>1 DEF Init
  <2> QED BY <2>1 DEF DInv, Nested
<1> QED BY <1>1, <1>2, AlwaysRight, Invariance, PTL DEF Spec

-----------------------------------------------------------------------------
(* What is acted on.                                                       *)

\* What a search acts on is in the order of its table, or of what it found.
LEMMA SourceIs ==
  ASSUME TInv, DInv, NEW i \in DOMAIN searches, NEW f, f = searches[i]
  PROVE  /\ f \in Search /\ Did(f, list, val, index, at) /\ Right(f, list, val, index, at)
         /\ Source(f) \in Seq(Rows) /\ IsInjective(Source(f)) /\ ToSet(Source(f)) = ToSet(f.found)
         /\ ~f.sorts => Source(f) = f.found
         /\ \A k \in DOMAIN f.acted :
              /\ f.ask.offset + k \in DOMAIN Source(f) /\ f.acted[k] = Source(f)[f.ask.offset + k]
         /\ \A r \in Rows \ f.touched : val[r] = f.was.val[r]
         /\ ToSet(f.found) \subseteq Due(f) \cup f.touched /\ IsFiniteSet(Due(f))
<1>1. f \in Search /\ Did(f, list, val, index, at) /\ Right(f, list, val, index, at)
  BY TInvFacts DEF DInv
<1>2. Held(f, list) /\ Sound(f, list, val)
  BY <1>1 DEF Right, Did
<1>3. f.found \in Seq(Rows) /\ f.tranTable \in Seq(Rows) /\ IsInjective(f.found) /\ IsInjective(f.tranTable)
      /\ f.phase \in {"walk", "after"}
  BY <1>1, <1>2, SearchFields DEF Held
<1>4. Source(f) \in Seq(Rows) /\ IsInjective(Source(f))
  BY <1>3 DEF Source
<1>5. ToSet(Source(f)) = ToSet(f.found) /\ (~f.sorts => Source(f) = f.found)
  <2>1. CASE f.mode # "defer"
    BY <2>1 DEF Source
  <2>2. CASE f.mode = "defer" /\ f.phase = "walk"
    BY <1>2, <2>2 DEF Source, Held
  <2>3. CASE f.mode = "defer" /\ f.phase = "after"
    <3>1. TableOfFound(f)
      BY <1>1, <2>3 DEF Did, AfterDid
    <3> QED BY <2>3, <3>1 DEF Source, TableOfFound
  <2> QED BY <1>3, <2>1, <2>2, <2>3
<1>6. \A k \in DOMAIN f.acted :
        f.ask.offset + k \in DOMAIN Source(f) /\ f.acted[k] = Source(f)[f.ask.offset + k]
  BY <1>2 DEF Sound, ActsOn
<1>7. IsFiniteSet(Due(f))
  <2>1. IsFiniteSet(f.was.rows) /\ Due(f) \subseteq f.was.rows
    BY <1>2 DEF Held, Due
  <2> QED BY <2>1, FS_Subset
<1>8. (\A r \in Rows \ f.touched : val[r] = f.was.val[r]) /\ ToSet(f.found) \subseteq Due(f) \cup f.touched
  BY <1>2 DEF Sound
<1> QED BY <1>1, <1>4, <1>5, <1>6, <1>7, <1>8

\* What comes before a place of a sequence, and up to it.
LEMMA Ranks ==
  ASSUME NEW s \in Seq(Rows), IsInjective(s), NEW j \in DOMAIN s, NEW A, NEW B, IsFiniteSet(B),
         \A q \in A : \E i \in 1 .. j - 1 : s[i] = q, \A i \in 1 .. j : s[i] \in B
  PROVE  Cardinality(A) < j /\ j <= Cardinality(B)
<1>1. j \in Nat /\ j - 1 \in Nat /\ j <= Len(s) /\ j - 1 <= Len(s) /\ Len(s) \in Nat
  OBVIOUS
<1> DEFINE z == 0
           k == j - 1
           u == SubSeq(s, z + 1, j)
           w == SubSeq(s, z + 1, k)
<1>2. /\ u \in Seq(Rows) /\ IsInjective(u) /\ w \in Seq(Rows) /\ IsInjective(w)
  <2>1. z \in Nat /\ k \in Nat /\ z <= j /\ z <= k /\ k <= Len(s)
    BY <1>1
  <2> HIDE DEF z, k
  <2> QED BY <1>1, <2>1, SubSeqIs
<1>3. /\ Len(u) = j /\ DOMAIN u = 1 .. j /\ Len(w) = j - 1 /\ DOMAIN w = 1 .. j - 1
  BY <1>1
<1>4. (\A i \in 1 .. j : u[i] = s[i]) /\ (\A i \in 1 .. j - 1 : w[i] = s[i])
  BY <1>1
<1> HIDE DEF u, w
<1>5. ToSet(u) \subseteq B /\ A \subseteq ToSet(w)
  BY <1>3, <1>4, ToSetIs
<1>6. /\ IsFiniteSet(ToSet(u)) /\ Cardinality(ToSet(u)) = j
      /\ IsFiniteSet(ToSet(w)) /\ Cardinality(ToSet(w)) = j - 1
  BY <1>2, <1>3, SeqCounts
<1> DEFINE U == ToSet(u)
           W == ToSet(w)
<1>7. U \subseteq B /\ A \subseteq W /\ IsFiniteSet(W) /\ Cardinality(U) = j /\ Cardinality(W) = j - 1
  BY <1>5, <1>6
<1> HIDE DEF U, W
<1>8. Cardinality(U) <= Cardinality(B)
  BY <1>7, FS_Subset
<1>9. IsFiniteSet(A) /\ Cardinality(A) <= Cardinality(W)
  BY <1>7, FS_Subset
<1>10. Cardinality(A) \in Nat /\ Cardinality(B) \in Nat
  BY <1>9, FS_CardinalityType
<1> QED BY <1>1, <1>7, <1>8, <1>9, <1>10

\* A search that ends has acted on no row twice and on none that neither matched when
\* it began nor was set since; if no script cut it short, on each row that matched and
\* was left alone; and if none was touched, on as many as the offset and the limit
\* say: whichever way it took to the rows, however deep the searches in its scripts
\* go, if the scripts are Careful (ctable_SetupAndPerformSearch).
THEOREM SearchesAgree == Careful => (Spec => []SearchAgrees)
<1>1. ASSUME IInv, TInv, DInv PROVE SearchAgrees
  <2>1. SUFFICES ASSUME NEW i \in DOMAIN searches, NEW f, f = searches[i], Done(f)
                 PROVE  /\ f.result # "endless"
                        /\ IsInjective(f.acted)
                        /\ ToSet(f.acted) \subseteq Due(f) \cup f.touched
                        /\ f.ask.offset = 0 /\ f.ask.limit = 0 /\ ~f.cut /\ f.ask.does \notin {"count", "cursor"} =>
                             Due(f) \ f.touched \subseteq ToSet(f.acted)
                        /\ f.ask.does # "cursor" /\ f.touched = {} /\ ~f.cut /\ ~OffsetLost(f) =>
                             f.matchCount = Clip(f.ask, Cardinality(Due(f)))
                        /\ f.ask.does \notin {"count", "cursor"} /\ ~OffsetLost(f) => f.matchCount = Len(f.acted)
    BY DEF SearchAgrees
  <2>2. /\ f \in Search /\ Did(f, list, val, index, at)
        /\ Source(f) \in Seq(Rows) /\ IsInjective(Source(f)) /\ ToSet(Source(f)) = ToSet(f.found)
        /\ \A k \in DOMAIN f.acted :
             f.ask.offset + k \in DOMAIN Source(f) /\ f.acted[k] = Source(f)[f.ask.offset + k]
        /\ ToSet(f.found) \subseteq Due(f) \cup f.touched
    BY <1>1, <2>1, SourceIs
  <2>3. f.result # "endless"
    BY <2>2 DEF Did, Sound
  <2>4. IsInjective(f.acted)
    <3>1. f.ask.offset \in Nat /\ DOMAIN f.acted \subseteq Nat
      <4>1. f.acted \in Seq(Rows) /\ f.ask.offset \in Nat
        BY <2>2, SearchFields, AskFields
      <4> QED BY <4>1
    <3>2. \A k, m \in DOMAIN f.acted : f.acted[k] = f.acted[m] => f.ask.offset + k = f.ask.offset + m
      BY <2>2 DEF IsInjective
    <3> QED BY <3>1, <3>2 DEF IsInjective
  <2>5. ToSet(f.acted) \subseteq Due(f) \cup f.touched
    BY <2>2, ToSetIs
  <2>6. CASE f.stage = "done"
    <3>1. DoneDid(f, list, val) /\ f.result # "error"
      BY <2>1, <2>2, <2>6 DEF Did, Done
    <3> QED BY <2>3, <2>4, <2>5, <3>1 DEF DoneDid, Owed
  <2>7. CASE f.stage = "cursor"
    <3>1. f.ask.tran = "cursor"
      BY <1>1, <2>1, <2>7 DEF IInv, SearchesAreAsked
    <3>2. f.ask.does = "cursor"
      BY <2>2, <3>1, SearchFields, AskFields DEF Sensible
    <3> QED BY <2>3, <2>4, <2>5, <3>2
  <2> QED BY <2>1, <2>6, <2>7 DEF Done
<1> QED BY <1>1, AlwaysDid, AlwaysRight, Invariance, PTL

\* A search with -delete that succeeds has deleted the rows it acted on and no other,
\* one that fails none, and the rows -update set it acted on, if the scripts are
\* Careful (ctable_PerformTransaction).
THEOREM TransactionsFollow == Careful => (Spec => []TransactionFollows)
<1>1. ASSUME DInv PROVE TransactionFollows
  <2>1. SUFFICES ASSUME NEW i \in DOMAIN searches, NEW f, f = searches[i], f.stage = "done", ~OffsetLost(f)
                 PROVE  /\ f.ask.tran = "delete" =>
                             (f.was.rows \cup f.touched) \ ToSet(list) = IF f.result = "error" THEN {} ELSE ToSet(f.acted)
                        /\ f.ask.tran = "update" /\ f.result # "error" =>
                             \A r \in Rows : r \in ToSet(f.acted) => val[r] = f.ask.to
    BY DEF TransactionFollows
  <2>2. DoneDid(f, list, val)
    BY <1>1, <2>1 DEF DInv, Did
  <2> QED BY <2>1, <2>2 DEF DoneDid
<1> QED BY <1>1, AlwaysDid, PTL

\* A sorted search acts on the rows of the window that the offset and the limit cut
\* out of the sorted matches, also when the order of the index is trusted, if no
\* command named a row meanwhile and the scripts are Careful (ctable_qsort_r and the
\* check for it in ctable_SetupAndPerformSearch).
THEOREM SortsAreKept == Careful => (Spec => []SortIsKept)
<1>1. ASSUME TInv, DInv PROVE SortIsKept
  <2>1. SUFFICES ASSUME NEW i \in DOMAIN searches, NEW f, f = searches[i], f.ask.sort # "no",
                        f.ask.sort = "down" => f.sorts, f.touched = {}, NEW k \in DOMAIN f.acted
                 PROVE  LET o == f.ask
                            r == f.acted[k]
                            Before(q, p) == Ordered(o, q, p) /\ ~Ordered(o, p, q)
                        IN  /\ Cardinality({q \in Due(f) : Before(q, r)}) < o.offset + k
                            /\ o.offset + k <= Cardinality({q \in Due(f) : Ordered(o, q, r)})
    BY DEF SortIsKept
  <2> DEFINE o == f.ask
             r == f.acted[k]
             j == o.offset + k
             s == Source(f)
             A == {q \in Due(f) : Ordered(o, q, r) /\ ~Ordered(o, r, q)}
             B == {q \in Due(f) : Ordered(o, q, r)}
  <2>2. /\ f \in Search /\ Did(f, list, val, index, at)
        /\ s \in Seq(Rows) /\ IsInjective(s) /\ ToSet(s) = ToSet(f.found) /\ (~f.sorts => s = f.found)
        /\ j \in DOMAIN s /\ r = s[j]
        /\ \A p \in Rows : val[p] = f.was.val[p]
        /\ ToSet(f.found) \subseteq Due(f) /\ IsFiniteSet(Due(f))
    BY <1>1, <2>1, SourceIs
  <2>3. Due(f) \subseteq Rows /\ \A p \in Rows : f.was.val[p] \in Nat
    <3>1. f.was.val \in [Rows -> Values] /\ f.was.rows \subseteq Rows
      BY <2>2 DEF Search
    <3> QED BY <3>1, DataAssumption DEF Due
  <2>4. f.phase \in {"walk", "after"} /\ o.sort \in {"no", "up", "down"}
    BY <2>2, SearchFields, AsksAssumption DEF Ask
  <2>5. j \in Nat /\ DOMAIN s = 1 .. Len(s) /\ Len(s) \in Nat /\ \A m \in DOMAIN s : s[m] \in Due(f)
    <3>1. \A m \in DOMAIN s : s[m] \in ToSet(s)
      BY ToSetIs
    <3> QED BY <2>2, <3>1
  <2> HIDE DEF s, r, j
  <2>6. (\A m \in 1 .. j : Ordered(o, s[m], r)) /\ (\A q \in A : \E m \in 1 .. j - 1 : s[m] = q)
    <3>1. CASE f.sorts
      <4>1. f.mode = "defer"
        BY <2>2, <3>1 DEF Did, Sound, Fixed
      <4>2. f.phase = "after"
        <5>1. f.acted # <<>>
          BY <2>1
        <5> QED BY <2>2, <2>4, <4>1, <5>1 DEF Did, WalkDid
      <4>3. InSort(f) /\ AllFound(f) /\ s = f.tranTable
        <5>1. f.acted # <<>>
          BY <2>1
        <5> QED BY <2>1, <2>2, <3>1, <4>1, <4>2, <5>1 DEF Did, AfterDid, Enough, s, Source
      <4>4. \A m, l \in DOMAIN s : m <= l => Ordered(o, s[m], s[l])
        <5>1. \A m \in DOMAIN s : s[m] \in Rows /\ val[s[m]] = f.was.val[s[m]]
          BY <2>2, <2>3, <2>5
        <5> QED BY <4>3, <5>1 DEF InSort, Ordered
      <4>5. Due(f) \subseteq ToSet(s)
        BY <2>1, <2>2, <4>3 DEF AllFound, Owed
      <4>6. \A m \in 1 .. j : Ordered(o, s[m], r)
        BY <2>2, <2>5, <4>4
      <4>7. ASSUME NEW q \in A PROVE \E m \in 1 .. j - 1 : s[m] = q
        <5>1. PICK m \in DOMAIN s : s[m] = q
          BY <4>5, ToSetIs
        <5>2. ~(j <= m)
          BY <2>2, <4>4, <4>7, <5>1
        <5> QED BY <2>5, <5>1, <5>2
      <4> QED BY <4>6, <4>7
    <3>2. CASE ~f.sorts
      <4>1. o.sort = "up" /\ s = f.found
        BY <2>1, <2>2, <2>4, <3>2
      <4>2. InOrder(f)
        BY <2>1, <2>2, <3>2 DEF Did, Sound, Fixed
      <4>3. /\ \A m \in 1 .. j : f.was.val[s[m]] <= f.was.val[r]
            /\ \A q \in Due(f) : f.was.val[q] < f.was.val[r] => \E m \in 1 .. j - 1 : s[m] = q
        BY <2>2, <4>1, <4>2 DEF InOrder
      <4>4. \A p \in Rows : val[p] = f.was.val[p] /\ val[p] \in Nat
        BY <2>2, <2>3
      <4>5. r \in Rows /\ \A m \in 1 .. j : s[m] \in Rows
        BY <2>2, <2>3, <2>5
      <4>6. \A m \in 1 .. j : Ordered(o, s[m], r)
        BY <4>1, <4>3, <4>4, <4>5 DEF Ordered
      <4>7. ASSUME NEW q \in A PROVE f.was.val[q] < f.was.val[r] /\ q \in Due(f)
        BY <2>3, <4>1, <4>4, <4>5 DEF Ordered
      <4> QED BY <4>3, <4>6, <4>7
    <3> QED BY <3>1, <3>2
  <2>7. IsFiniteSet(B) /\ \A m \in 1 .. j : s[m] \in B
    <3>1. IsFiniteSet(B)
      BY <2>2, FS_Subset
    <3> QED BY <2>2, <2>5, <2>6, <3>1
  <2> HIDE DEF A, B
  <2>8. Cardinality(A) < j /\ j <= Cardinality(B)
    BY <2>2, <2>6, <2>7, Ranks
  <2> QED BY <2>8 DEF A, B, j, r
<1> QED BY <1>1, AlwaysDid, AlwaysRight, PTL

=============================================================================
