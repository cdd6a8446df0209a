------------------------- MODULE MemoryDynamicsProofs -------------------------
(***************************************************************************)
(* Theorems about MemoryDynamics for every set of turns, sessions and      *)
(* concepts, either store, any limits and any number of attempts.          *)
(* IInv serves all but what is never forgotten, which needs Memory: what   *)
(* a turn has added stays because a later one that read it writes it back. *)
(***************************************************************************)
EXTENDS MemoryDynamics, FiniteSetTheorems, TLAPS

\* The turn has listed the nodes it is about to update.
Listed(t) == turn[t].pc \notin {"new", "list"}

\* Where a turn may be, and what its local variables are there.
Local ==
    \A t \in Turn : turn[t].pc = "write" =>
        /\ store = "pocketbase"
        /\ turn[t].concept \in Concept
        /\ turn[t].found # NoRow => turn[t].found \in Live /\ key(turn[t].found) = turn[t].concept

\* What is remembered of a turn is of one that has got somewhere.
History ==
    /\ \A u \in Turn : turn[u].before \subseteq Ended
    /\ \A i \in Live : Listed(i[1]) /\ \A u \in rows[i].by : Listed(u)
    /\ \A t \in Turn, c \in Concept : \A u \in turn[t].lookup[c] : Listed(u)

\* Lookups are of the turn's own session, as rows and contexts are.
Own ==
    /\ OwnSessionOnly
    /\ \A t \in Turn, c \in Concept :
          \A u \in turn[t].lookup[c] : ask[u].session = ask[t].session

\* A turn about to create a node overlaps whoever has created it meanwhile,
\* unless a 404 hid the row from it.
Apart ==
    /\ DuplicatesOverlap
    /\ \A t \in Turn : turn[t].pc = "write" /\ turn[t].found = NoRow =>
          \A i \in Live : key(i) = turn[t].concept =>
             i[1] = t \/ Overlap(i[1], t) \/ turn[t].concept \in turn[t].misled

IInv == TypeOK /\ Local /\ History /\ Own /\ Apart

-----------------------------------------------------------------------------
(* Lemmas.                                                                 *)

\* Ids are triples.
LEMMA IdParts ==
    ASSUME NEW i \in Id
    PROVE  i[1] \in Turn /\ key(i) \in Concept /\ i[3] \in 1..Attempts
BY DEF Id, key

\* The row an attempt at a create makes is named after the turn and its concept.
LEMMA MadeId ==
    ASSUME NEW t \in Turn, NEW c \in Concept, NEW a \in 1..Attempts
    PROVE  <<t, c, a>> \in Id /\ <<t, c, a>>[1] = t /\ key(<<t, c, a>>) = c
BY DEF Id, key

\* What an upsert does to the rows.
LEMMA PutRows ==
    ASSUME NEW ids, NEW row, Put(ids, row)
    PROVE  /\ Live' = Live \cup ids
           /\ \A i \in ids : rows'[i] = row
           /\ \A i \in Live \ ids : rows'[i] = rows[i]
BY DEF Put, Live

\* Every list holds rows of the session only.
LEMMA ListedRows ==
    ASSUME NEW s, NEW p \in Lists(s)
    PROVE  p \subseteq Live /\ \A i \in p : rows[i].session = s
<1>1. \A ids, n : \A q \in Page(ids, n) : q \subseteq ids
  BY DEF Page
<1>2. CASE store = "memory"
  BY <1>1, <1>2 DEF Lists, OfSession
<1>3. CASE store # "memory"
  BY <1>1, <1>3 DEF Lists, OfSession
<1> QED BY <1>2, <1>3

\* A turn that begins.
LEMMA NewTurnType == NewTurn \in TurnState
<1>1. 1 \in 1..Attempts
  BY LimitsAssumption
<1> QED BY <1>1 DEF NewTurn, TurnState, PC

\* What a turn that gives up keeps.
LEMMA FailedTurn ==
    ASSUME NEW old \in TurnState
    PROVE  LET new == [NewTurn EXCEPT !.pc = "failed", !.before = old.before,
                                      !.misled = old.misled] IN
           /\ new \in TurnState
           /\ new.pc = "failed" /\ new.before = old.before /\ new.recalled = {}
           /\ new.misled = old.misled
           /\ \A d \in Concept : new.lookup[d] = {}
<1>1. old.before \in SUBSET Turn /\ old.misled \in SUBSET Concept
  BY DEF TurnState
<1>2. 1 \in 1..Attempts
  BY LimitsAssumption
<1> DEFINE nothing == [c \in Concept |-> {}]
<1>3. nothing \in [Concept -> SUBSET Turn] /\ \A d \in Concept : nothing[d] = {}
  OBVIOUS
<1>4. NewTurn = [pc |-> "new", recalled |-> {}, before |-> {}, lookup |-> nothing,
                 todo |-> {}, concept |-> NoConcept, found |-> NoRow,
                 attempt |-> 1, misled |-> {}]
  BY DEF NewTurn
<1> HIDE DEF nothing
<1> QED BY <1>1, <1>2, <1>3, <1>4 DEF TurnState, PC

\* No row and no turn under way.
THEOREM InitInv == Init => IInv
<1> SUFFICES ASSUME Init PROVE IInv
  OBVIOUS
<1>1. Live = {}
  BY DEF Init, Live
<1>2. NewTurn \in TurnState
  BY NewTurnType
<1>3. TypeOK
  BY <1>1, <1>2 DEF Init, TypeOK, Live
<1>4. \A t \in Turn : turn[t] = NewTurn
  BY DEF Init
<1>5. Local /\ History /\ Own /\ Apart
  BY <1>1, <1>4 DEF Local, History, Own, OwnSessionOnly, Apart, DuplicatesOverlap, NewTurn
<1> QED BY <1>3, <1>5 DEF IInv

-----------------------------------------------------------------------------
(* Steps that leave the rows alone.                                        *)

\* Giving a turn its context disturbs only what is recalled.
LEMMA BuildInv ==
    ASSUME IInv, NEW t \in Turn, BuildContext(t)
    PROVE  IInv'
<1> USE DEF IInv
<1>1. PICK recalled \in SUBSET Turn :
        /\ turn' = [turn EXCEPT ![t].pc = "list", ![t].recalled = recalled]
        /\ \A u \in recalled : u # t /\ ask[u].session = ask[t].session
  <2>1. ASSUME NEW p \in Lists(ask[t].session), NEW best \in Page(p, ContextLimit)
        PROVE  LET r == UNION {rows[i].by : i \in best} IN
               /\ r \in SUBSET Turn
               /\ \A u \in r : u # t /\ ask[u].session = ask[t].session
    <3>1. best \subseteq p
      BY DEF Page
    <3>2. \A i \in best : i \in Live /\ rows[i].session = ask[t].session
      BY <3>1, ListedRows
    <3>3. \A i \in best : rows[i].by \subseteq Turn
      BY <3>2 DEF TypeOK, Row, Live
    <3>4. \A i \in best : \A u \in rows[i].by : ask[u].session = ask[t].session /\ Listed(u)
      BY <3>2 DEF Own, OwnSessionOnly, History
    <3>5. ~Listed(t)
      BY DEF BuildContext, Listed
    <3> QED BY <3>3, <3>4, <3>5
  <2>2. turn[t] \in TurnState
    BY DEF TypeOK
  <2>3. turn[t].recalled \in SUBSET Turn
    BY <2>2 DEF TurnState
  <2>4. turn' = [turn EXCEPT ![t].pc = "list"] =>
          turn' = [turn EXCEPT ![t].pc = "list", ![t].recalled = turn[t].recalled]
    BY <2>2 DEF TypeOK, TurnState
  <2>5. \A u \in turn[t].recalled : u # t /\ ask[u].session = ask[t].session
    BY DEF Own, OwnSessionOnly
  <2> QED BY <2>1, <2>3, <2>4, <2>5 DEF BuildContext
<1>2. /\ turn[t] \in TurnState /\ turn[t].pc = "new"
      /\ store' = store /\ ask' = ask /\ rows' = rows /\ Live' = Live
  BY DEF BuildContext, TypeOK, Live
<1>3. /\ turn'[t] \in TurnState
      /\ turn'[t].pc = "list" /\ turn'[t].recalled = recalled
      /\ turn'[t].before = turn[t].before /\ turn'[t].lookup = turn[t].lookup
      /\ turn'[t].misled = turn[t].misled
  BY <1>1, <1>2 DEF TypeOK, TurnState, PC
<1>4. \A u \in Turn : u # t => turn'[u] = turn[u]
  BY <1>1 DEF TypeOK
<1>5. TypeOK'
  BY <1>1, <1>2, <1>3, <1>4 DEF TypeOK
<1>6. /\ \A u \in Turn : Listed(u) <=> Listed(u)'
      /\ Ended' = Ended
      /\ \A u, v \in Turn : Overlap(u, v) <=> Overlap(u, v)'
  BY <1>2, <1>3, <1>4 DEF Listed, Ended, Overlap
<1>7. Local'
  BY <1>2, <1>3, <1>4 DEF Local, key
<1>8. History'
  <2>1. \A i \in Live : i[1] \in Turn /\ rows[i].by \subseteq Turn
    BY IdParts DEF TypeOK, Row, Live
  <2>2. \A u \in Turn, c \in Concept : turn[u].lookup[c] \subseteq Turn
    BY DEF TypeOK, TurnState
  <2> QED BY <1>2, <1>3, <1>4, <1>6, <2>1, <2>2 DEF History
<1>9. Own'
  <2>1. \A i \in Live' : \A u \in rows'[i].by : ask'[u].session = rows'[i].session
    BY <1>2 DEF Own, OwnSessionOnly
  <2>2. \A v \in Turn : \A u \in turn'[v].recalled : u # v /\ ask'[u].session = ask'[v].session
    <3> SUFFICES ASSUME NEW v \in Turn, NEW u \in turn'[v].recalled
                 PROVE  u # v /\ ask[u].session = ask[v].session
      BY <1>2
    <3>1. CASE v = t
      BY <1>1, <1>3, <3>1
    <3>2. CASE v # t
      BY <1>4, <3>2 DEF Own, OwnSessionOnly
    <3> QED
      BY <3>1, <3>2
  <2>3. \A v \in Turn, c \in Concept :
          \A u \in turn'[v].lookup[c] : ask'[u].session = ask'[v].session
    BY <1>2, <1>3, <1>4 DEF Own
  <2> QED BY <2>1, <2>2, <2>3 DEF Own, OwnSessionOnly
<1>10. Apart'
  BY <1>2, <1>3, <1>4, <1>6, IdParts DEF Apart, DuplicatesOverlap, key, TypeOK, Live
<1> QED BY <1>5, <1>7, <1>8, <1>9, <1>10
-----------------------------------------------------------------------------
(* Steps of a turn that has listed its nodes, or gives up listing them.    *)

\* What such a step does to every conjunct but those about concepts at work:
\* t goes to local state new, and some rows may be set to its update of c.
LEMMA Advance ==
    ASSUME IInv, NEW t \in Turn, NEW c, NEW new \in TurnState,
           store' = store, ask' = ask, turn' = [turn EXCEPT ![t] = new],
           new.before = turn[t].before, turn[t].misled \subseteq new.misled,
           new.recalled \subseteq turn[t].recalled,
           \A d \in Concept : new.lookup[d] \subseteq turn[t].lookup[d],
           new.pc \notin {"new", "list"},
           t \notin Ended,
           Live \subseteq Live', Live' \subseteq Id,
           \A i \in Live' : i \in Live \/ i[1] = t,
           \A i \in Live' : (i \in Live /\ rows'[i] = rows[i])
                              \/ (c \in Concept /\ rows'[i] = Updated(t, c))
    PROVE  /\ TypeOK' /\ History' /\ Own'
           /\ \A u \in Turn : u # t => turn'[u] = turn[u]
           /\ turn'[t] = new
           /\ \A u, v \in Turn : Overlap(u, v)' <=> Overlap(u, v)
           /\ \A u \in Turn : turn[u].misled \subseteq turn'[u].misled
<1> USE DEF IInv
<1>1. /\ \A u \in Turn : u # t => turn'[u] = turn[u]
      /\ turn'[t] = new
  BY DEF TypeOK
<1>2. turn[t] \in TurnState
  BY DEF TypeOK
<1>3. \A u, v \in Turn : Overlap(u, v)' <=> Overlap(u, v)
  BY <1>1 DEF Overlap
<1>4. c \in Concept => Updated(t, c) \in Row
  BY <1>2 DEF Updated, Row, TypeOK, TurnState
<1>5. TypeOK'
  <2>1. \A i \in Live' : rows'[i] \in Row
    BY <1>4 DEF TypeOK, Live
  <2>2. turn' \in [Turn -> TurnState]
    BY DEF TypeOK
  <2> QED BY <2>1, <2>2 DEF TypeOK, Live
<1>6. \A u \in Turn : (Listed(u) => Listed(u)') /\ (u \in Ended => u \in Ended')
  BY <1>1 DEF Listed, Ended
<1>7. Listed(t)'
  BY <1>1 DEF Listed
<1>8. /\ \A i \in Live' : i[1] \in Turn
      /\ \A i \in Live : rows[i].by \subseteq Turn
      /\ \A u \in Turn, d \in Concept : turn[u].lookup[d] \subseteq Turn
      /\ \A u \in Turn : turn[u].before \subseteq Turn
  BY IdParts DEF TypeOK, Row, Live, TurnState
<1>9. /\ Updated(t, c).by = turn[t].lookup[c] \cup {t}
      /\ Updated(t, c).session = ask[t].session
  BY DEF Updated
<1>10. History'
  <2>1. \A u \in Turn : turn'[u].before \subseteq Ended'
    BY <1>1, <1>6, <1>8 DEF History
  <2>2. \A i \in Live' : Listed(i[1])'
    BY <1>6, <1>7, <1>8 DEF History
  <2>3. \A i \in Live' : \A u \in rows'[i].by : Listed(u)'
    <3>1. c \in Concept => \A u \in Updated(t, c).by : Listed(u)'
      BY <1>6, <1>7, <1>8, <1>9 DEF History
    <3> QED BY <3>1, <1>6, <1>8 DEF History
  <2>4. \A v \in Turn, d \in Concept : \A u \in turn'[v].lookup[d] : Listed(u)'
    BY <1>1, <1>6, <1>8 DEF History
  <2> QED BY <2>1, <2>2, <2>3, <2>4 DEF History
<1>11. Own'
  <2>1. \A i \in Live' : \A u \in rows'[i].by : ask'[u].session = rows'[i].session
    <3>1. c \in Concept => \A u \in Updated(t, c).by : ask[u].session = Updated(t, c).session
      BY <1>9 DEF Own
    <3> QED BY <3>1 DEF Own, OwnSessionOnly
  <2>2. \A v \in Turn : \A u \in turn'[v].recalled : u # v /\ ask'[u].session = ask'[v].session
    BY <1>1 DEF Own, OwnSessionOnly
  <2>3. \A v \in Turn, d \in Concept :
          \A u \in turn'[v].lookup[d] : ask'[u].session = ask'[v].session
    BY <1>1 DEF Own
  <2> QED BY <2>1, <2>2, <2>3 DEF Own, OwnSessionOnly
<1> QED BY <1>1, <1>3, <1>5, <1>10, <1>11

\* A failed turn keeps nothing but what it had seen end.
LEMMA GiveUpInv ==
    ASSUME IInv, NEW t \in Turn, t \notin Ended, GiveUp(t),
           UNCHANGED <<store, ask, rows>>
    PROVE  IInv'
<1> DEFINE new == [NewTurn EXCEPT !.pc = "failed", !.before = turn[t].before,
                                  !.misled = turn[t].misled]
<1>1. turn[t] \in TurnState
  BY DEF IInv, TypeOK
<1>2. /\ new \in TurnState
      /\ new.pc = "failed" /\ new.before = turn[t].before /\ new.recalled = {}
      /\ new.misled = turn[t].misled
      /\ \A d \in Concept : new.lookup[d] = {}
  BY <1>1, FailedTurn
<1>3. turn' = [turn EXCEPT ![t] = new]
  BY DEF GiveUp
<1>4. Live' = Live /\ Live \subseteq Id
  BY DEF Live, IInv, TypeOK
<1> HIDE DEF new
<1>5. /\ TypeOK' /\ History' /\ Own'
      /\ \A u \in Turn : u # t => turn'[u] = turn[u]
      /\ turn'[t] = new
      /\ \A u, v \in Turn : Overlap(u, v)' <=> Overlap(u, v)
      /\ \A u \in Turn : turn[u].misled \subseteq turn'[u].misled
  BY <1>2, <1>3, <1>4, Advance
<1>6. Local' /\ Apart'
  <2>1. Local'
    BY <1>2, <1>4, <1>5 DEF IInv, Local, key
  <2>2. Apart'
    BY <1>2, <1>4, <1>5, IdParts DEF IInv, Apart, DuplicatesOverlap, key
  <2> QED BY <2>1, <2>2
<1> QED BY <1>5, <1>6 DEF IInv

\* A turn that has listed knows values of its own session only, and whoever
\* creates from now on has not been seen to end.
LEMMA ListInv ==
    ASSUME IInv, NEW t \in Turn, ListNodes(t)
    PROVE  IInv'
<1> USE DEF IInv
<1>1. /\ turn[t] \in TurnState /\ turn[t].pc = "list" /\ t \notin Ended /\ ~Listed(t)
      /\ store' = store /\ ask' = ask /\ rows' = rows /\ Live' = Live /\ Live \subseteq Id
  BY DEF ListNodes, TypeOK, Live, Ended, Listed
<1>2. CASE ask[t].concepts = {} /\ turn' = [turn EXCEPT ![t].pc = "done", ![t].recalled = {}]
  <2> DEFINE new == [turn[t] EXCEPT !.pc = "done", !.recalled = {}]
  <2>1. turn' = [turn EXCEPT ![t] = new]
    BY <1>2 DEF TypeOK
  <2>2. /\ new \in TurnState
        /\ new.pc = "done" /\ new.before = turn[t].before /\ new.recalled = {}
        /\ new.lookup = turn[t].lookup /\ new.misled = turn[t].misled
    BY <1>1 DEF TurnState, PC
  <2> HIDE DEF new
  <2>3. /\ TypeOK' /\ History' /\ Own'
        /\ \A u \in Turn : u # t => turn'[u] = turn[u]
        /\ turn'[t] = new
        /\ \A u, v \in Turn : Overlap(u, v)' <=> Overlap(u, v)
        /\ \A u \in Turn : turn[u].misled \subseteq turn'[u].misled
    BY <1>1, <2>1, <2>2, Advance
  <2>4. Local'
    BY <1>1, <2>2, <2>3 DEF Local, key
  <2>5. Apart'
    BY <1>1, <2>2, <2>3, IdParts DEF Apart, DuplicatesOverlap, key
  <2> QED BY <2>3, <2>4, <2>5
<1>3. CASE GiveUp(t)
  BY <1>1, <1>3, GiveUpInv
<1>4. CASE \E p \in Lists(ask[t].session) :
           \E lookup \in [Concept -> {rows[i].by : i \in p} \cup {{}}] :
              turn' = [turn EXCEPT ![t].pc = "upsert", ![t].lookup = lookup,
                                   ![t].todo = ask[t].concepts, ![t].before = Ended,
                                   ![t].recalled = {}]
  <2>0. PICK p \in Lists(ask[t].session) :
           \E lookup \in [Concept -> {rows[i].by : i \in p} \cup {{}}] :
              turn' = [turn EXCEPT ![t].pc = "upsert", ![t].lookup = lookup,
                                   ![t].todo = ask[t].concepts, ![t].before = Ended,
                                   ![t].recalled = {}]
    BY <1>4
  <2>1. PICK lookup \in [Concept -> {rows[i].by : i \in p} \cup {{}}] :
              turn' = [turn EXCEPT ![t].pc = "upsert", ![t].lookup = lookup,
                                   ![t].todo = ask[t].concepts, ![t].before = Ended,
                                   ![t].recalled = {}]
    BY <2>0
  <2>2. \A i \in p : i \in Live /\ rows[i].session = ask[t].session
    BY ListedRows
  <2>3. \A c \in Concept : \/ lookup[c] = {}
                          \/ \E i \in p : lookup[c] = rows[i].by
    OBVIOUS
  <2>4. \A c \in Concept :
          /\ lookup[c] \subseteq Turn
          /\ \A u \in lookup[c] : Listed(u) /\ ask[u].session = ask[t].session
    BY <2>2, <2>3 DEF TypeOK, Row, Live, History, Own, OwnSessionOnly
  <2>5. Ended \subseteq Turn /\ ask[t].concepts \subseteq Concept
    BY DEF Ended, TypeOK
  <2>6. lookup \in [Concept -> SUBSET Turn]
    BY <2>4
  <2>7. /\ turn'[t] = [turn[t] EXCEPT !.pc = "upsert", !.lookup = lookup,
                           !.todo = ask[t].concepts, !.before = Ended, !.recalled = {}]
        /\ \A u \in Turn : u # t => turn'[u] = turn[u]
    BY <2>1 DEF TypeOK
  <2>8. /\ turn'[t] \in TurnState
        /\ turn'[t].pc = "upsert" /\ turn'[t].lookup = lookup
        /\ turn'[t].before = Ended /\ turn'[t].recalled = {}
        /\ turn'[t].misled = turn[t].misled
    <3>1. turn[t] \in TurnState /\ "upsert" \in PC
      BY DEF TypeOK, PC
    <3>2. turn'[t] \in TurnState
      BY <2>5, <2>6, <2>7, <3>1 DEF TurnState
    <3>3. /\ turn'[t].pc = "upsert" /\ turn'[t].lookup = lookup
          /\ turn'[t].before = Ended /\ turn'[t].recalled = {}
          /\ turn'[t].misled = turn[t].misled
      BY <2>7, <3>1 DEF TurnState
    <3> QED
      BY <3>2, <3>3
  <2>9. TypeOK'
    BY <1>1, <2>1, <2>7, <2>8 DEF TypeOK
  <2>10. /\ Ended' = Ended
         /\ \A u \in Turn : Listed(u) => Listed(u)'
    BY <1>1, <2>7, <2>8 DEF Ended, Listed
  <2>11. Local'
    <3>1. \A u \in Turn : turn'[u].pc = "write" => turn'[u] = turn[u]
      BY <2>7, <2>8
    <3>2. Local
      OBVIOUS
    <3> QED BY <1>1, <3>1, <3>2 DEF Local, key
  <2>12. History'
    <3>1. \A i \in Live : i[1] \in Turn /\ rows[i].by \subseteq Turn
      BY IdParts DEF TypeOK, Row, Live
    <3>2. \A u \in Turn, c \in Concept : turn[u].lookup[c] \subseteq Turn
      BY DEF TypeOK, TurnState
    <3>3. \A u \in Turn : turn'[u].before \subseteq Ended'
      BY <2>7, <2>8, <2>10 DEF History
    <3>4. \A v \in Turn, c \in Concept : \A u \in turn'[v].lookup[c] : Listed(u)'
      BY <2>4, <2>7, <2>8, <2>10, <3>2 DEF History
    <3>5. \A i \in Live' : Listed(i[1])' /\ \A u \in rows'[i].by : Listed(u)'
      BY <1>1, <2>10, <3>1 DEF History
    <3> QED BY <3>3, <3>4, <3>5 DEF History
  <2>13. Own'
    <3>1. \A i \in Live' : \A u \in rows'[i].by : ask'[u].session = rows'[i].session
      BY <1>1 DEF Own, OwnSessionOnly
    <3>2. \A v \in Turn : \A u \in turn'[v].recalled : u # v /\ ask'[u].session = ask'[v].session
      <4> SUFFICES ASSUME NEW v \in Turn, NEW u \in turn'[v].recalled
                   PROVE  u # v /\ ask[u].session = ask[v].session
        BY <1>1
      <4>1. v # t
        BY <2>8
      <4> QED
        BY <2>7, <4>1 DEF Own, OwnSessionOnly
    <3>3. \A v \in Turn, c \in Concept :
            \A u \in turn'[v].lookup[c] : ask'[u].session = ask'[v].session
      <4> SUFFICES ASSUME NEW v \in Turn, NEW c \in Concept, NEW u \in turn'[v].lookup[c]
                   PROVE  ask[u].session = ask[v].session
        BY <1>1
      <4>1. CASE v = t
        BY <2>4, <2>8, <4>1
      <4>2. CASE v # t
        BY <2>7, <4>2 DEF Own
      <4> QED BY <4>1, <4>2
    <3> QED BY <3>1, <3>2, <3>3 DEF Own, OwnSessionOnly
  \* Only t's past changes, and t has created nothing.
  <2>14. /\ \A u, v \in Turn : u # t /\ v # t => (Overlap(u, v)' <=> Overlap(u, v))
         /\ \A i \in Live : i[1] \in Turn /\ i[1] # t
    BY <1>1, <2>7, IdParts DEF Overlap, History
  <2>15. Apart'
    <3>1. DuplicatesOverlap'
      <4> SUFFICES ASSUME NEW i \in Live, NEW j \in Live, key(i) = key(j), i # j
                   PROVE  IF store = "memory" THEN rows[i].session # rows[j].session
                          ELSE \/ i[1] = j[1] \/ Overlap(i[1], j[1])'
                               \/ key(i) \in turn'[i[1]].misled \cup turn'[j[1]].misled
        BY <1>1 DEF DuplicatesOverlap, key
      <4>1. IF store = "memory" THEN rows[i].session # rows[j].session
            ELSE \/ i[1] = j[1] \/ Overlap(i[1], j[1])
                 \/ key(i) \in turn[i[1]].misled \cup turn[j[1]].misled
        BY DEF Apart, DuplicatesOverlap
      <4>2. Overlap(i[1], j[1])' <=> Overlap(i[1], j[1])
        BY <2>14
      <4>3. turn'[i[1]] = turn[i[1]] /\ turn'[j[1]] = turn[j[1]]
        BY <2>7, <2>14
      <4> QED BY <4>1, <4>2, <4>3
    <3>2. ASSUME NEW v \in Turn, turn'[v].pc = "write", turn'[v].found = NoRow,
                 NEW i \in Live, key(i) = turn'[v].concept
          PROVE  i[1] = v \/ Overlap(i[1], v)' \/ turn'[v].concept \in turn'[v].misled
      <4>1. v # t /\ turn'[v] = turn[v]
        BY <2>7, <2>8, <3>2
      <4>2. i[1] = v \/ Overlap(i[1], v) \/ turn[v].concept \in turn[v].misled
        BY <3>2, <4>1 DEF Apart
      <4>3. Overlap(i[1], v)' <=> Overlap(i[1], v)
        BY <2>14, <4>1
      <4> QED BY <4>1, <4>2, <4>3
    <3> QED BY <1>1, <3>1, <3>2 DEF Apart, key
  <2> QED BY <2>9, <2>11, <2>12, <2>13, <2>15
<1> QED BY <1>2, <1>3, <1>4 DEF ListNodes

\* What a query leads to: a row of the key, none because there is none, or none
\* because a 404 hid it.
Finds(t, c, found, misled) ==
    /\ turn' = [turn EXCEPT ![t].pc = "write", ![t].concept = c, ![t].found = found,
                            ![t].misled = misled]
    /\ turn[t].misled \subseteq misled /\ misled \subseteq Concept
    /\ \/ found \in Live /\ key(found) = c
       \/ found = NoRow /\ \A i \in Live : key(i) # c
       \/ found = NoRow /\ c \in misled

\* A query finds something, if it does not fail.
LEMMA FindCases ==
    ASSUME IInv, NEW t \in Turn, FindNode(t)
    PROVE  \/ GiveUp(t)
           \/ \E c \in turn[t].todo : \E found, misled : Finds(t, c, found, misled)
<1>1. turn[t] \in TurnState /\ turn \in [Turn -> TurnState]
  BY DEF IInv, TypeOK
<1>2. /\ turn[t].todo \subseteq Concept /\ turn[t].misled \subseteq Concept
  BY <1>1 DEF TurnState
<1>3. CASE \E c \in turn[t].todo :
             LET same == {i \in Live : key(i) = c} IN
             \E found \in (IF same = {} THEN {NoRow} ELSE same) :
               turn' = [turn EXCEPT ![t].pc = "write", ![t].concept = c, ![t].found = found]
  <2>1. PICK c \in turn[t].todo :
             LET same == {i \in Live : key(i) = c} IN
             \E found \in (IF same = {} THEN {NoRow} ELSE same) :
               turn' = [turn EXCEPT ![t].pc = "write", ![t].concept = c, ![t].found = found]
    BY <1>3
  <2>2. PICK found \in (IF {i \in Live : key(i) = c} = {} THEN {NoRow}
                                                         ELSE {i \in Live : key(i) = c}) :
             turn' = [turn EXCEPT ![t].pc = "write", ![t].concept = c, ![t].found = found]
    BY <2>1
  <2>3. turn' = [turn EXCEPT ![t].pc = "write", ![t].concept = c, ![t].found = found,
                             ![t].misled = turn[t].misled]
    BY <1>1, <2>2 DEF TurnState
  <2>4. \/ found \in Live /\ key(found) = c
        \/ found = NoRow /\ \A i \in Live : key(i) # c
    BY <2>2
  <2>5. Finds(t, c, found, turn[t].misled)
    BY <1>2, <2>3, <2>4 DEF Finds
  <2> QED BY <2>5
<1>4. CASE \E c \in turn[t].todo :
             turn' = [turn EXCEPT ![t].pc = "write", ![t].concept = c,
                                  ![t].found = NoRow, ![t].misled = @ \cup {c}]
  <2>1. PICK c \in turn[t].todo :
             turn' = [turn EXCEPT ![t].pc = "write", ![t].concept = c,
                                  ![t].found = NoRow, ![t].misled = @ \cup {c}]
    BY <1>4
  <2>2. turn' = [turn EXCEPT ![t].pc = "write", ![t].concept = c, ![t].found = NoRow,
                             ![t].misled = turn[t].misled \cup {c}]
    BY <1>1, <2>1
  <2>3. Finds(t, c, NoRow, turn[t].misled \cup {c})
    BY <1>2, <2>2 DEF Finds
  <2> QED BY <2>3
<1> QED BY <1>3, <1>4 DEF FindNode

\* A found row has the key that was asked for; if none was found, none had it or
\* the turn was misled.
LEMMA FindInv ==
    ASSUME IInv, NEW t \in Turn, FindNode(t)
    PROVE  IInv'
<1> USE DEF IInv
<1>1. /\ turn[t] \in TurnState /\ turn[t].pc = "upsert" /\ t \notin Ended
      /\ store = "pocketbase"
      /\ store' = store /\ ask' = ask /\ rows' = rows /\ Live' = Live /\ Live \subseteq Id
  BY DEF FindNode, TypeOK, Live, Ended
<1>2. CASE GiveUp(t)
  BY <1>1, <1>2, GiveUpInv
<1>3. ASSUME NEW c \in turn[t].todo, NEW found, NEW misled, Finds(t, c, found, misled)
      PROVE  IInv'
  <2>1. NoRow \notin Live
    BY <1>1, NamesAssumption DEF Id
  <2>2. c \in Concept
    BY <1>1 DEF TurnState
  <2> DEFINE new == [turn[t] EXCEPT !.pc = "write", !.concept = c, !.found = found,
                                    !.misled = misled]
  <2>3. turn' = [turn EXCEPT ![t] = new]
    BY <1>3 DEF TypeOK, Finds
  <2>4. found \in Id \cup {NoRow}
    BY <1>1, <1>3 DEF Finds
  <2>5. misled \in SUBSET Concept /\ turn[t].misled \subseteq misled
    BY <1>3 DEF Finds
  <2>6. /\ new \in TurnState
        /\ new.pc = "write" /\ new.concept = c /\ new.found = found
        /\ new.before = turn[t].before /\ new.recalled = turn[t].recalled
        /\ new.lookup = turn[t].lookup /\ new.misled = misled
    BY <1>1, <2>2, <2>4, <2>5 DEF TurnState, PC
  <2> HIDE DEF new
  <2>7. /\ TypeOK' /\ History' /\ Own'
        /\ \A u \in Turn : u # t => turn'[u] = turn[u]
        /\ turn'[t] = new
        /\ \A u, v \in Turn : Overlap(u, v)' <=> Overlap(u, v)
        /\ \A u \in Turn : turn[u].misled \subseteq turn'[u].misled
    BY <1>1, <2>3, <2>5, <2>6, Advance
  <2>8. Local'
    <3> SUFFICES ASSUME NEW v \in Turn, turn'[v].pc = "write"
                 PROVE  /\ store' = "pocketbase" /\ turn'[v].concept \in Concept
                        /\ turn'[v].found # NoRow =>
                             turn'[v].found \in Live' /\ key(turn'[v].found) = turn'[v].concept
      BY DEF Local, key
    <3>1. CASE v = t
      BY <1>1, <1>3, <2>2, <2>6, <2>7, <3>1 DEF Finds
    <3>2. CASE v # t
      BY <1>1, <2>7, <3>2 DEF Local
    <3> QED BY <3>1, <3>2
  <2>9. Apart'
    <3>1. DuplicatesOverlap'
      BY <1>1, <2>7, IdParts DEF Apart, DuplicatesOverlap, key
    <3>2. ASSUME NEW v \in Turn, turn'[v].pc = "write", turn'[v].found = NoRow,
                 NEW i \in Live, key(i) = turn'[v].concept
          PROVE  i[1] = v \/ Overlap(i[1], v)' \/ turn'[v].concept \in turn'[v].misled
      <4>1. CASE v = t
        BY <1>3, <2>1, <2>6, <2>7, <3>2, <4>1 DEF Finds
      <4>2. CASE v # t
        <5>1. i[1] = v \/ Overlap(i[1], v) \/ turn[v].concept \in turn[v].misled
          BY <2>7, <3>2, <4>2 DEF Apart
        <5> QED BY <1>1, <2>7, <4>2, <5>1, IdParts
      <4> QED BY <4>1, <4>2
    <3> QED BY <1>1, <3>1, <3>2 DEF Apart, key
  <2> QED BY <2>7, <2>8, <2>9
<1> QED BY <1>2, <1>3, FindCases

-----------------------------------------------------------------------------
(* Steps that write rows.                                                  *)

\* Where a turn is after an upsert, or an attempt at one.
LEMMA AfterUpsert ==
    ASSUME IInv, NEW t \in Turn, NEW c \in Concept,
           NextConcept(t, c) \/ TryAgain(t) \/ GiveUp(t)
    PROVE  \E new \in TurnState :
              /\ turn' = [turn EXCEPT ![t] = new]
              /\ \/ new.pc \in {"upsert", "done", "failed"}
                 \/ /\ TryAgain(t) /\ new.pc = turn[t].pc
                    /\ new.concept = turn[t].concept /\ new.found = turn[t].found
              /\ new.before = turn[t].before /\ new.misled = turn[t].misled
              /\ new.recalled \subseteq turn[t].recalled
              /\ \A d \in Concept : new.lookup[d] \subseteq turn[t].lookup[d]
<1>1. turn[t] \in TurnState /\ turn \in [Turn -> TurnState]
  BY DEF IInv, TypeOK
<1>2. CASE NextConcept(t, c)
  <2> DEFINE new == [turn[t] EXCEPT !.pc = IF turn[t].todo = {c} THEN "done" ELSE "upsert",
                                    !.todo = @ \ {c}, !.concept = NoConcept, !.found = NoRow,
                                    !.attempt = 1, !.lookup = [@ EXCEPT ![c] = {}]]
  <2>1. turn' = [turn EXCEPT ![t] = new]
    BY <1>1, <1>2 DEF NextConcept
  <2>2. /\ new \in TurnState /\ new.pc \in {"upsert", "done", "failed"}
        /\ new.before = turn[t].before /\ new.recalled = turn[t].recalled
        /\ new.misled = turn[t].misled
        /\ \A d \in Concept : new.lookup[d] \subseteq turn[t].lookup[d]
    <3>1. turn[t].lookup \in [Concept -> SUBSET Turn] /\ 1 \in 1..Attempts
      BY <1>1, LimitsAssumption DEF TurnState
    <3> DEFINE left == [turn[t].lookup EXCEPT ![c] = {}]
    <3>2. /\ left \in [Concept -> SUBSET Turn]
          /\ \A d \in Concept : left[d] \subseteq turn[t].lookup[d]
      BY <3>1
    <3>3. new = [turn[t] EXCEPT !.pc = IF turn[t].todo = {c} THEN "done" ELSE "upsert",
                                !.todo = @ \ {c}, !.concept = NoConcept, !.found = NoRow,
                                !.attempt = 1, !.lookup = left]
      BY <1>1 DEF TurnState
    <3> HIDE DEF left, new
    <3> QED BY <1>1, <3>1, <3>2, <3>3 DEF TurnState, PC
  <2> HIDE DEF new
  <2> QED BY <2>1, <2>2
<1>3. CASE GiveUp(t)
  <2> DEFINE new == [NewTurn EXCEPT !.pc = "failed", !.before = turn[t].before,
                                    !.misled = turn[t].misled]
  <2>1. turn' = [turn EXCEPT ![t] = new]
    BY <1>3 DEF GiveUp
  <2>2. /\ new \in TurnState /\ new.pc = "failed"
        /\ new.before = turn[t].before /\ new.recalled = {}
        /\ new.misled = turn[t].misled
        /\ \A d \in Concept : new.lookup[d] = {}
    BY <1>1, FailedTurn
  <2> HIDE DEF new
  <2> QED BY <2>1, <2>2
<1>4. CASE TryAgain(t)
  <2> DEFINE new == [turn[t] EXCEPT !.attempt = @ + 1]
  <2>1. turn' = [turn EXCEPT ![t] = new]
    BY <1>1, <1>4 DEF TryAgain
  <2>2. turn[t].attempt \in 1..Attempts /\ turn[t].attempt < Attempts
    BY <1>1, <1>4 DEF TurnState, TryAgain
  <2>3. turn[t].attempt + 1 \in 1..Attempts
    BY <2>2, LimitsAssumption
  <2>4. /\ new \in TurnState /\ new.pc = turn[t].pc
        /\ new.concept = turn[t].concept /\ new.found = turn[t].found
        /\ new.before = turn[t].before /\ new.recalled = turn[t].recalled
        /\ new.misled = turn[t].misled /\ new.lookup = turn[t].lookup
    BY <1>1, <2>3 DEF TurnState
  <2> HIDE DEF new
  <2> QED BY <1>4, <2>1, <2>4
<1> QED BY <1>2, <1>3, <1>4

\* The rows of ids, and no others, are set to what t wants of c.
Written(t, c, ids) ==
    /\ Live' = Live \cup ids
    /\ \A i \in ids : rows'[i] = Updated(t, c)
    /\ \A i \in Live \ ids : rows'[i] = rows[i]

\* An attempt at a write sets its row or none, and an answered one has set it.
LEMMA Sent ==
    ASSUME NEW t, NEW id, SendNode(t, id)
    PROVE  /\ UNCHANGED <<store, ask>>
           /\ \E ids \in SUBSET {id} :
                 /\ Written(t, turn[t].concept, ids)
                 /\ \/ NextConcept(t, turn[t].concept) /\ ids = {id}
                    \/ TryAgain(t) \/ GiveUp(t)
<1> DEFINE c == turn[t].concept
<1>1. Put({id}, Updated(t, c)) => Written(t, c, {id})
  BY PutRows DEF Written
<1>2. UNCHANGED rows => Written(t, c, {})
  BY DEF Written, Live
<1>3. /\ UNCHANGED <<store, ask>>
      /\ \/ Put({id}, Updated(t, c)) /\ NextConcept(t, c)
         \/ /\ Put({id}, Updated(t, c)) \/ UNCHANGED rows
            /\ TryAgain(t) \/ GiveUp(t)
  BY DEF SendNode
<1>4. {id} \in SUBSET {id} /\ {} \in SUBSET {id}
  OBVIOUS
<1> HIDE DEF c
<1>5. \E ids \in SUBSET {id} :
         /\ Written(t, c, ids)
         /\ \/ NextConcept(t, c) /\ ids = {id}
            \/ TryAgain(t) \/ GiveUp(t)
  BY <1>1, <1>2, <1>3, <1>4
<1> QED BY <1>3, <1>5 DEF c

\* An attempt at a write to PocketBase makes a row of t's or sets one there is.
LEMMA SendInv ==
    ASSUME IInv, NEW t \in Turn, turn[t].pc = "write", NEW id \in Id, SendNode(t, id),
           \/ id \in Live
           \/ turn[t].found = NoRow /\ id[1] = t /\ key(id) = turn[t].concept
    PROVE  IInv'
<1> USE DEF IInv
<1> DEFINE c == turn[t].concept
<1>1. /\ c \in Concept /\ store = "pocketbase" /\ t \notin Ended
      /\ store' = store /\ ask' = ask
  BY Sent DEF Local, Ended
<1>2. PICK ids \in SUBSET {id} :
        /\ Written(t, c, ids)
        /\ NextConcept(t, c) \/ TryAgain(t) \/ GiveUp(t)
  BY Sent
<1>3. PICK new \in TurnState :
        /\ turn' = [turn EXCEPT ![t] = new]
        /\ \/ new.pc \in {"upsert", "done", "failed"}
           \/ /\ TryAgain(t) /\ new.pc = turn[t].pc
              /\ new.concept = turn[t].concept /\ new.found = turn[t].found
        /\ new.before = turn[t].before /\ new.misled = turn[t].misled
        /\ new.recalled \subseteq turn[t].recalled
        /\ \A d \in Concept : new.lookup[d] \subseteq turn[t].lookup[d]
  BY <1>1, <1>2, AfterUpsert
<1>4. /\ Live' = Live \cup ids
      /\ \A i \in ids : rows'[i] = Updated(t, c)
      /\ \A i \in Live \ ids : rows'[i] = rows[i]
  BY <1>2 DEF Written
<1>5. Live \subseteq Id
  BY DEF TypeOK, Live
<1> HIDE DEF c
<1>6. /\ Live \subseteq Live' /\ Live' \subseteq Id
      /\ \A i \in Live' : i \in Live \/ i[1] = t
      /\ \A i \in Live' : (i \in Live /\ rows'[i] = rows[i])
                            \/ (c \in Concept /\ rows'[i] = Updated(t, c))
  BY <1>1, <1>4, <1>5
<1>7. new.pc \notin {"new", "list"} /\ turn[t].misled \subseteq new.misled
  BY <1>3
<1>8. /\ TypeOK' /\ History' /\ Own'
      /\ \A u \in Turn : u # t => turn'[u] = turn[u]
      /\ turn'[t] = new
      /\ \A u, v \in Turn : Overlap(u, v)' <=> Overlap(u, v)
      /\ \A u \in Turn : turn[u].misled \subseteq turn'[u].misled
  BY <1>1, <1>3, <1>6, <1>7, Advance
<1>9. Local'
  <2> SUFFICES ASSUME NEW v \in Turn, turn'[v].pc = "write"
               PROVE  /\ store' = "pocketbase" /\ turn'[v].concept \in Concept
                      /\ turn'[v].found # NoRow =>
                           turn'[v].found \in Live' /\ key(turn'[v].found) = turn'[v].concept
    BY DEF Local, key
  <2>1. turn'[v].concept = turn[v].concept /\ turn'[v].found = turn[v].found /\ turn[v].pc = "write"
    BY <1>3, <1>8
  <2> QED BY <1>1, <1>6, <2>1 DEF Local
<1>10. \A i \in Live' : i \in Live \/ (turn[t].found = NoRow /\ i[1] = t /\ key(i) = c)
  BY <1>4 DEF c
<1>11. \A i \in Live' : i[1] \in Turn
  BY <1>6, IdParts
\* Who is not apart from whom has been misled about it.
<1> DEFINE Met(i, u, d) == i[1] = u \/ Overlap(i[1], u) \/ d \in turn[u].misled
<1>12. \A u \in Turn : turn[u].pc = "write" /\ turn[u].found = NoRow =>
          \A i \in Live : key(i) = turn[u].concept => Met(i, u, key(i))
  BY DEF Apart
<1>13. DuplicatesOverlap'
  <2> SUFFICES ASSUME NEW i \in Live', NEW j \in Live', key(i) = key(j)
               PROVE  \/ i[1] = j[1] \/ Overlap(i[1], j[1])
                      \/ key(i) \in turn[i[1]].misled \cup turn[j[1]].misled
    <3>1. \A i, j \in Live' : key(i) = key(j) =>
             \/ i[1] = j[1] \/ Overlap(i[1], j[1])'
             \/ key(i) \in turn'[i[1]].misled \cup turn'[j[1]].misled
      BY <1>8, <1>11
    <3> QED BY <1>1, <3>1 DEF DuplicatesOverlap, key
  <2>1. CASE i \in Live /\ j \in Live
    BY <1>1, <2>1 DEF Apart, DuplicatesOverlap
  <2>2. CASE i \notin Live /\ j \notin Live
    BY <1>10, <2>2
  <2>3. CASE i \in Live /\ j \notin Live
    <3>1. turn[t].found = NoRow /\ j[1] = t /\ key(i) = turn[t].concept
      BY <1>10, <2>3 DEF c
    <3>2. Met(i, t, key(i))
      BY <1>12, <2>3, <3>1
    <3> QED BY <3>1, <3>2
  <2>4. CASE i \notin Live /\ j \in Live
    <3>1. turn[t].found = NoRow /\ i[1] = t /\ key(j) = turn[t].concept
      BY <1>10, <2>4 DEF c
    <3>2. Met(j, t, key(j))
      BY <1>12, <2>4, <3>1
    <3> QED BY <3>1, <3>2 DEF Overlap
  <2> QED BY <2>1, <2>2, <2>3, <2>4
<1>14. ASSUME NEW v \in Turn, turn'[v].pc = "write", turn'[v].found = NoRow,
              NEW i \in Live', key(i) = turn'[v].concept
       PROVE  i[1] = v \/ Overlap(i[1], v)' \/ turn'[v].concept \in turn'[v].misled
  <2>1. /\ turn[v].pc = "write" /\ turn[v].found = NoRow
        /\ turn'[v].concept = turn[v].concept
    BY <1>3, <1>8, <1>14
  <2>2. CASE i \in Live
    <3>1. Met(i, v, key(i))
      BY <1>12, <1>14, <2>1, <2>2
    <3> QED BY <1>8, <1>11, <1>14, <3>1
  \* Neither t nor v has ended, so neither has seen the other end.
  <2>3. CASE i \notin Live
    <3>1. i[1] = t
      BY <1>10, <2>3
    <3>2. v \notin Ended
      BY <2>1 DEF Ended
    <3>3. Overlap(t, v)
      BY <1>1, <3>2 DEF Overlap, History
    <3> QED BY <1>8, <3>1, <3>3
  <2> QED BY <2>2, <2>3
<1>15. Apart'
  BY <1>13, <1>14 DEF Apart, key
<1> QED BY <1>8, <1>9, <1>15

\* The row an attempt creates is of the turn and its concept.
LEMMA CreateInv ==
    ASSUME IInv, NEW t \in Turn, CreateNode(t)
    PROVE  IInv'
<1> DEFINE c == turn[t].concept
           a == turn[t].attempt
<1>1. turn[t].pc = "write" /\ turn[t].found = NoRow /\ c \in Concept /\ SendNode(t, <<t, c, a>>)
  BY DEF CreateNode, IInv, Local
<1>2. a \in 1..Attempts
  BY DEF IInv, TypeOK, TurnState
<1>3. PICK id : id = <<t, c, a>>
  OBVIOUS
<1>4. id \in Id /\ id[1] = t /\ key(id) = c
  BY <1>1, <1>2, <1>3, MadeId
<1> QED BY <1>1, <1>3, <1>4, SendInv

\* A patch adds no row.
LEMMA PatchInv ==
    ASSUME IInv, NEW t \in Turn, PatchNode(t)
    PROVE  IInv'
<1>1. turn[t].pc = "write" /\ turn[t].found \in Live /\ SendNode(t, turn[t].found)
  BY DEF PatchNode, IInv, Local
<1>2. turn[t].found \in Id
  BY <1>1 DEF IInv, TypeOK, Live
<1> QED BY <1>1, <1>2, SendInv

\* In process, the rows of a session and a key are found and set at once.
LEMMA InProcessInv ==
    ASSUME IInv, NEW t \in Turn, UpsertInProcess(t)
    PROVE  IInv'
<1> USE DEF IInv
<1> DEFINE s == ask[t].session
           same(c) == {i \in OfSession(Live, s) : key(i) = c}
<1>1. PICK c \in turn[t].todo :
        /\ Put(IF same(c) = {} THEN {<<t, c, 1>>} ELSE same(c), Updated(t, c))
        /\ NextConcept(t, c)
  BY DEF UpsertInProcess
<1>2. /\ turn[t] \in TurnState /\ t \notin Ended /\ store = "memory"
      /\ store' = store /\ ask' = ask
  BY DEF UpsertInProcess, TypeOK, Ended
<1>3. c \in Concept
  BY <1>1, <1>2 DEF TurnState
<1>4. PICK new \in TurnState :
        /\ turn' = [turn EXCEPT ![t] = new]
        /\ new.pc \in {"upsert", "done", "failed"}
        /\ new.before = turn[t].before /\ new.misled = turn[t].misled
        /\ new.recalled \subseteq turn[t].recalled
        /\ \A d \in Concept : new.lookup[d] \subseteq turn[t].lookup[d]
  <2>1. turn[t].pc = "upsert"
    BY DEF UpsertInProcess
  <2> QED BY <1>1, <1>3, <2>1, AfterUpsert
<1>5. PICK ids : ids = IF same(c) = {} THEN {<<t, c, 1>>} ELSE same(c)
  OBVIOUS
<1>6. /\ Live' = Live \cup ids
      /\ \A i \in ids : rows'[i] = Updated(t, c)
      /\ \A i \in Live \ ids : rows'[i] = rows[i]
  BY <1>1, <1>5, PutRows
<1>7. Live \subseteq Id /\ <<t, c, 1>> \in Id /\ <<t, c, 1>>[1] = t /\ key(<<t, c, 1>>) = c
  BY <1>3, LimitsAssumption DEF TypeOK, Live, Id, key
<1>8. \A i \in same(c) : i \in Live /\ rows[i].session = s /\ key(i) = c
  BY DEF OfSession
<1>9. \A i \in Live : rows[i].session = s /\ key(i) = c => i \in same(c)
  BY DEF OfSession
<1>10. Updated(t, c).session = s
  BY DEF Updated
<1> HIDE DEF same, s
<1>11. /\ Live \subseteq Live' /\ Live' \subseteq Id
       /\ \A i \in Live' : i \in Live \/ i[1] = t
       /\ \A i \in Live' : (i \in Live /\ rows'[i] = rows[i])
                             \/ (c \in Concept /\ rows'[i] = Updated(t, c))
  BY <1>3, <1>5, <1>6, <1>7, <1>8
<1>12. new.pc \notin {"new", "list"} /\ turn[t].misled \subseteq new.misled
  BY <1>4
<1>13. /\ TypeOK' /\ History' /\ Own'
       /\ \A u \in Turn : u # t => turn'[u] = turn[u]
       /\ turn'[t] = new
       /\ \A u, v \in Turn : Overlap(u, v)' <=> Overlap(u, v)
       /\ \A u \in Turn : turn[u].misled \subseteq turn'[u].misled
  BY <1>2, <1>4, <1>11, <1>12, Advance
\* No turn is between a query and a write.
<1>14. \A u \in Turn : turn'[u].pc # "write"
  BY <1>2, <1>4, <1>13 DEF Local
<1>15. Local'
  BY <1>14 DEF Local
<1>16. \A i, j \in Live' : key(i) = key(j) /\ i # j => rows'[i].session # rows'[j].session
  <2>1. \A i, j \in Live : key(i) = key(j) /\ i # j => rows[i].session # rows[j].session
    BY <1>2 DEF Apart, DuplicatesOverlap
  <2>2. CASE same(c) = {}
    <3>1. ids = {<<t, c, 1>>}
      BY <1>5, <2>2
    <3>2. \A i \in Live : key(i) = c => rows[i].session # s
      BY <1>9, <2>2
    <3> QED BY <1>6, <1>7, <1>10, <2>1, <3>1, <3>2
  <2>3. CASE same(c) # {}
    <3>1. ids = same(c)
      BY <1>5, <2>3
    <3>2. Live' = Live /\ \A i \in Live : rows'[i].session = rows[i].session
      BY <1>6, <1>8, <1>10, <3>1
    <3> QED BY <2>1, <3>2
  <2> QED BY <2>2, <2>3
<1>17. Apart'
  BY <1>2, <1>14, <1>16 DEF Apart, DuplicatesOverlap, key
<1> QED BY <1>13, <1>15, <1>17

-----------------------------------------------------------------------------
(* What finished turns have added, and to whom it may be lost.             *)

\* The excuses of OnlyTheseForget.
Excused(t, c) ==
    \/ Cardinality(Live) > Limit
    \/ \E u \in Turn \ {t} :
          /\ Wrote(u, c)
          /\ \/ Overlap(t, u)
             \/ store = "pocketbase" /\ ask[u].session # ask[t].session
    \/ store = "pocketbase" /\ Cardinality(Copies(c)) > 1

Updating(t) == turn[t].pc \in {"upsert", "write"}

\* t has upserted its node of c, and not failed since.
Added(t, c) ==
    /\ c \in ask[t].concepts
    /\ turn[t].pc = "done" \/ (Updating(t) /\ c \notin turn[t].todo)

\* What is left to upsert is of the turn's text; what is being written is left.
Todo ==
    \A t \in Turn :
        /\ Updating(t) => turn[t].todo \subseteq ask[t].concepts
        /\ turn[t].pc = "write" => turn[t].concept \in turn[t].todo

\* In process, rows never change hands.
Home == store = "memory" => \A i \in Live : rows[i].session = ask[i[1]].session

\* What a turn has added stays, unless excused ...
Stays == \A t \in Turn, c \in Concept : Added(t, c) => Kept(t, c) \/ Excused(t, c)

\* ... since a later turn of the session has read it and writes it back.
Carried(t, u, c) ==
    /\ Updating(u) /\ c \in turn[u].todo
    /\ t \in turn[u].before /\ Added(t, c) /\ ask[t].session = ask[u].session
    => t \in turn[u].lookup[c] \/ Excused(t, c)

Carries == \A t, u \in Turn, c \in Concept : Carried(t, u, c)

Memory == Todo /\ Home /\ Stays /\ Carries

\* There are finitely many rows.
LEMMA FiniteRows ==
    ASSUME NEW ids \in SUBSET Id
    PROVE  IsFiniteSet(ids)
<1> DEFINE Pairs == (Turn \X Concept) \X (1..Attempts)
           f == [i \in Id |-> <<<<i[1], i[2]>>, i[3]>>]
<1>1. IsFiniteSet(1..Attempts)
  BY LimitsAssumption, FS_Interval
<1>2. IsFiniteSet(Turn \X Concept)
  BY NamesAssumption, FS_Product
<1>3. IsFiniteSet(Pairs)
  BY <1>1, <1>2, FS_Product
<1>4. f \in Injection(Id, Pairs)
  <2>1. f \in [Id -> Pairs]
    BY DEF Id
  <2>2. \A i, j \in Id : f[i] = f[j] => i = j
    BY DEF Id
  <2> QED BY <2>1, <2>2 DEF Injection, IsInjective
<1> HIDE DEF f, Pairs
<1>5. IsFiniteSet(Id)
  BY <1>3, <1>4, FS_Injection
<1> QED BY <1>5, FS_Subset

\* More than n rows never become n.
LEMMA StaysAbove ==
    ASSUME NEW S, NEW T, IsFiniteSet(T), S \subseteq T, NEW n \in Nat, Cardinality(S) > n
    PROVE  Cardinality(T) > n
<1>1. IsFiniteSet(S) /\ Cardinality(S) <= Cardinality(T)
  BY FS_Subset
<1>2. Cardinality(S) \in Nat /\ Cardinality(T) \in Nat
  BY <1>1, FS_CardinalityType
<1> QED BY <1>1, <1>2

\* A set without two elements.
LEMMA OnlyOne ==
    ASSUME NEW S, IsFiniteSet(S), ~(Cardinality(S) > 1), NEW x \in S, NEW y \in S
    PROVE  x = y
<1> SUFFICES ASSUME x # y PROVE FALSE
  OBVIOUS
<1>1. IsFiniteSet({x}) /\ Cardinality({x}) = 1
  BY FS_Singleton
<1>2. {x} \subseteq S /\ {x} # S
  OBVIOUS
<1>3. Cardinality({x}) <= Cardinality(S) /\ Cardinality({x}) # Cardinality(S)
  BY <1>2, FS_Subset
<1>4. Cardinality(S) \in Nat
  BY FS_CardinalityType
<1> QED BY <1>1, <1>3, <1>4

\* An excuse is one for good: rows are only added, and what a turn had seen end
\* when it listed its nodes stays what it was.
LEMMA ExcuseStays ==
    ASSUME TypeOK', Live \subseteq Live', store' = store, ask' = ask,
           \A u \in Turn : Listed(u) => turn'[u].before = turn[u].before,
           \A u \in Turn, c \in Concept : Wrote(u, c) => Wrote(u, c)',
           NEW t \in Turn, Listed(t), NEW c \in Concept, Excused(t, c)
    PROVE  Excused(t, c)'
<1>1. IsFiniteSet(Live')
  BY FiniteRows DEF TypeOK, Live
<1>2. Copies(c) \subseteq Copies(c)' /\ Copies(c)' \subseteq Live'
  BY DEF Copies, key
<1>3. IsFiniteSet(Copies(c)')
  BY <1>1, <1>2, FS_Subset
<1>4. CASE Cardinality(Live) > Limit
  <2>1. Cardinality(Live') > Limit
    BY <1>1, <1>4, StaysAbove, LimitsAssumption
  <2> QED BY <2>1 DEF Excused
<1>5. CASE store = "pocketbase" /\ Cardinality(Copies(c)) > 1
  <2>1. Cardinality(Copies(c)') > 1
    BY <1>2, <1>3, <1>5, StaysAbove
  <2> QED BY <1>5, <2>1 DEF Excused
<1>6. ASSUME NEW u \in Turn \ {t}, Wrote(u, c),
             Overlap(t, u) \/ (store = "pocketbase" /\ ask[u].session # ask[t].session)
      PROVE  Excused(t, c)'
  <2>1. Wrote(u, c)' /\ Listed(u)
    BY <1>6 DEF Wrote, Listed
  <2>2. turn'[t].before = turn[t].before /\ turn'[u].before = turn[u].before
    BY <2>1
  <2>3. (Overlap(t, u) \/ (store = "pocketbase" /\ ask[u].session # ask[t].session))'
    BY <1>6, <2>2 DEF Overlap
  <2> QED BY <2>1, <2>3 DEF Excused
<1> QED BY <1>4, <1>5, <1>6 DEF Excused

\* A step of t that leaves the rows alone and adds nothing disturbs what is left
\* to t only.
LEMMA QuietStep ==
    ASSUME IInv, Memory, IInv', NEW t \in Turn, UNCHANGED <<store, ask, rows>>,
           \A u \in Turn : u # t => turn'[u] = turn[u],
           Listed(t) => turn'[t].before = turn[t].before,
           \A c \in Concept : Wrote(t, c) => Wrote(t, c)',
           \A c \in Concept : Added(t, c)' => Added(t, c),
           Updating(t)' => turn'[t].todo \subseteq ask[t].concepts,
           turn'[t].pc = "write" => turn'[t].concept \in turn'[t].todo,
           \A v \in Turn, c \in Concept : Carried(v, t, c)'
    PROVE  Memory'
<1>1. Live' = Live
  BY DEF Live
<1>2. /\ \A u \in Turn : Listed(u) => turn'[u].before = turn[u].before
      /\ \A u \in Turn, c \in Concept : Wrote(u, c) => Wrote(u, c)'
      /\ \A u \in Turn, c \in Concept : Added(u, c)' => Added(u, c)
  BY DEF Wrote, Added, Updating
<1>3. TypeOK'
  BY DEF IInv
<1>4. \A v \in Turn, c \in Concept : Listed(v) /\ Excused(v, c) => Excused(v, c)'
  BY <1>1, <1>2, <1>3, ExcuseStays
<1>5. \A v \in Turn, c \in Concept : Added(v, c) => Listed(v)
  BY DEF Added, Updating, Listed
<1>6. Todo'
  BY DEF Memory, Todo, Updating
<1>7. Home'
  BY <1>1 DEF Memory, Home
<1>8. Stays'
  <2> SUFFICES ASSUME NEW v \in Turn, NEW c \in Concept, Added(v, c)'
               PROVE  Kept(v, c)' \/ Excused(v, c)'
    BY DEF Stays
  <2>1. Added(v, c) /\ Listed(v)
    BY <1>2, <1>5
  <2>2. Kept(v, c) \/ Excused(v, c)
    BY <2>1 DEF Memory, Stays
  <2>3. Kept(v, c) => Kept(v, c)'
    BY <1>1 DEF Kept, Copies, key
  <2> QED BY <1>4, <2>1, <2>2, <2>3
<1>9. Carries'
  <2> SUFFICES ASSUME NEW v \in Turn, NEW u \in Turn, NEW c \in Concept
               PROVE  Carried(v, u, c)'
    BY DEF Carries
  <2>1. CASE u = t
    BY <2>1
  <2>2. CASE u # t
    <3>1. turn'[u] = turn[u]
      BY <2>2
    <3> SUFFICES ASSUME Updating(u), c \in turn[u].todo, v \in turn[u].before,
                        Added(v, c)', ask[v].session = ask[u].session
                 PROVE  v \in turn[u].lookup[c] \/ Excused(v, c)'
      BY <3>1 DEF Carried, Updating
    <3>2. Added(v, c) /\ Listed(v)
      BY <1>2, <1>5
    <3>3. v \in turn[u].lookup[c] \/ Excused(v, c)
      BY <3>2 DEF Memory, Carries, Carried
    <3> QED BY <1>4, <3>2, <3>3
  <2> QED BY <2>1, <2>2
<1> QED BY <1>6, <1>7, <1>8, <1>9 DEF Memory

\* A turn that is not updating has nothing to carry.
LEMMA NothingToCarry ==
    ASSUME NEW t \in Turn, NEW v \in Turn, NEW c \in Concept, ~Updating(t)'
    PROVE  Carried(v, t, c)'
BY DEF Carried

\* The context is given before the turn has listed anything.
LEMMA BuildKeeps ==
    ASSUME IInv, Memory, IInv', NEW t \in Turn, BuildContext(t)
    PROVE  Memory'
<1>1. /\ turn[t].pc = "new" /\ turn'[t].pc = "list"
      /\ \A u \in Turn : u # t => turn'[u] = turn[u]
      /\ UNCHANGED <<store, ask, rows>>
  <2>1. \E recalled : \/ turn' = [turn EXCEPT ![t].pc = "list", ![t].recalled = recalled]
                      \/ turn' = [turn EXCEPT ![t].pc = "list"]
    BY DEF BuildContext
  <2>2. PICK recalled : \/ turn' = [turn EXCEPT ![t].pc = "list", ![t].recalled = recalled]
                        \/ turn' = [turn EXCEPT ![t].pc = "list"]
    BY <2>1
  <2>3. turn[t] \in TurnState
    BY DEF IInv, TypeOK
  <2>4. turn'[t].pc = "list" /\ \A u \in Turn : u # t => turn'[u] = turn[u]
    BY <2>2, <2>3 DEF IInv, TypeOK, TurnState
  <2> QED BY <2>4 DEF BuildContext
<1>2. /\ ~Listed(t) /\ ~Updating(t)'
      /\ \A c \in Concept : ~Wrote(t, c) /\ ~Added(t, c)'
  BY <1>1 DEF Listed, Updating, Wrote, Added
<1>3. \A v \in Turn, c \in Concept : Carried(v, t, c)'
  BY <1>2, NothingToCarry
<1> QED BY <1>1, <1>2, <1>3, QuietStep

\* A turn that fails has added nothing.
LEMMA GiveUpKeeps ==
    ASSUME IInv, Memory, IInv', NEW t \in Turn, GiveUp(t), t \notin Ended,
           Updating(t) => turn[t].todo \subseteq ask[t].concepts,
           UNCHANGED <<store, ask, rows>>
    PROVE  Memory'
<1>1. /\ turn'[t].pc = "failed" /\ turn'[t].before = turn[t].before
      /\ \A u \in Turn : u # t => turn'[u] = turn[u]
  BY DEF GiveUp, IInv, TypeOK, NewTurn
<1>2. /\ ~Updating(t)'
      /\ \A c \in Concept : ~Added(t, c)' /\ (Wrote(t, c) => Wrote(t, c)')
  BY <1>1 DEF Updating, Wrote, Added
<1>3. \A v \in Turn, c \in Concept : Carried(v, t, c)'
  BY <1>2, NothingToCarry
<1> QED BY <1>1, <1>2, <1>3, QuietStep

\* A query chooses what is written next.
LEMMA FindKeeps ==
    ASSUME IInv, Memory, IInv', NEW t \in Turn, FindNode(t)
    PROVE  Memory'
<1>1. turn[t].pc = "upsert" /\ t \notin Ended /\ Updating(t) /\ UNCHANGED <<store, ask, rows>>
  BY DEF FindNode, Ended, Updating
<1>2. turn[t].todo \subseteq ask[t].concepts
  BY <1>1 DEF Memory, Todo
<1>3. CASE GiveUp(t)
  BY <1>1, <1>2, <1>3, GiveUpKeeps
<1>4. ASSUME NEW c \in turn[t].todo, NEW found, NEW misled, Finds(t, c, found, misled)
      PROVE  Memory'
  <2>3. turn[t] \in TurnState
    BY DEF IInv, TypeOK
  <2>4. /\ turn'[t] = [turn[t] EXCEPT !.pc = "write", !.concept = c, !.found = found,
                                      !.misled = misled]
        /\ \A u \in Turn : u # t => turn'[u] = turn[u]
    BY <1>4 DEF IInv, TypeOK, Finds
  <2>5. /\ turn'[t].pc = "write" /\ turn'[t].concept = c
        /\ turn'[t].todo = turn[t].todo /\ turn'[t].before = turn[t].before
        /\ turn'[t].lookup = turn[t].lookup
    BY <2>3, <2>4 DEF TurnState
  <2>6. \A d \in Concept : (Added(t, d)' <=> Added(t, d)) /\ (Wrote(t, d) => Wrote(t, d)')
    BY <1>1, <2>5 DEF Added, Wrote, Updating
  <2>7. Listed(t)
    BY <1>1 DEF Listed
  <2>8. \A v \in Turn, d \in Concept : Carried(v, t, d)'
    <3> SUFFICES ASSUME NEW v \in Turn, NEW d \in Concept,
                        d \in turn[t].todo, v \in turn[t].before, Added(v, d)',
                        ask[v].session = ask[t].session
                 PROVE  v \in turn[t].lookup[d] \/ Excused(v, d)'
      BY <1>1, <2>5 DEF Carried
    <3>1. v # t /\ turn'[v] = turn[v]
      BY <1>1, <2>4 DEF IInv, History
    <3>2. Added(v, d) /\ Listed(v)
      BY <1>1, <3>1 DEF Added, Updating, Listed
    <3>3. v \in turn[t].lookup[d] \/ Excused(v, d)
      BY <1>1, <3>2 DEF Memory, Carries, Carried
    <3>4. \A u \in Turn : Listed(u) => turn'[u].before = turn[u].before
      BY <2>4, <2>5
    <3>5. \A u \in Turn, e \in Concept : Wrote(u, e) => Wrote(u, e)'
      BY <1>1, <2>4, <2>6 DEF Wrote
    <3>6. TypeOK' /\ Live \subseteq Live'
      BY <1>1 DEF IInv, Live
    <3>7. Excused(v, d) => Excused(v, d)'
      BY <1>1, <3>2, <3>4, <3>5, <3>6, ExcuseStays
    <3> QED BY <3>3, <3>7
  <2> QED BY <1>1, <1>2, <2>4, <2>5, <2>6, <2>7, <2>8, QuietStep DEF Updating
<1> QED BY <1>3, <1>4, FindCases

\* An uncut list returns the session's row of a key that has no other.
LEMMA ReadBack ==
    ASSUME IInv, NEW s, NEW p \in Lists(s), ~(Cardinality(Live) > Limit), NEW c \in Concept,
           ~(store = "pocketbase" /\ Cardinality(Copies(c)) > 1),
           NEW i \in Live, rows[i].session = s, key(i) = c
    PROVE  i \in p /\ \A j \in p : key(j) = c => j = i
<1>1. store \in {"memory", "pocketbase"} /\ Live \subseteq Id
  BY NamesAssumption DEF IInv, TypeOK, Live
<1>2. IsFiniteSet(Live)
  BY <1>1, FiniteRows
<1>3. Cardinality(Live) \in Nat /\ Cardinality(Live) <= Limit
  BY <1>2, FS_CardinalityType, LimitsAssumption
<1>4. OfSession(Live, s) \subseteq Live /\ i \in OfSession(Live, s)
  BY DEF OfSession
<1>5. IsFiniteSet(OfSession(Live, s)) /\ Cardinality(OfSession(Live, s)) <= Cardinality(Live)
  BY <1>2, <1>4, FS_Subset
<1>6. Cardinality(OfSession(Live, s)) <= Limit
  <2>1. Cardinality(OfSession(Live, s)) \in Nat
    BY <1>5, FS_CardinalityType
  <2> QED BY <1>3, <1>5, <2>1, LimitsAssumption
<1>7. p = OfSession(Live, s)
  <2>1. \A ids : Cardinality(ids) <= Limit => \A q \in Page(ids, Limit) : q = ids
    BY DEF Page
  <2>2. CASE store = "memory"
    BY <1>6, <2>1, <2>2 DEF Lists
  <2>3. CASE store = "pocketbase"
    BY <1>3, <2>1, <2>3 DEF Lists
  <2> QED BY <1>1, <2>2, <2>3
<1>8. ASSUME NEW j \in p, key(j) = c PROVE j = i
  <2>1. j \in Live /\ rows[j].session = s
    BY <1>7, <1>8 DEF OfSession
  <2>2. CASE store = "memory"
    BY <1>8, <2>1, <2>2 DEF IInv, Apart, DuplicatesOverlap
  <2>3. CASE store = "pocketbase"
    <3>1. IsFiniteSet(Copies(c))
      BY <1>1, FiniteRows DEF Copies
    <3>2. i \in Copies(c) /\ j \in Copies(c)
      BY <1>8, <2>1 DEF Copies
    <3> QED BY <2>3, <3>1, <3>2, OnlyOne
  <2> QED BY <1>1, <2>2, <2>3
<1> QED BY <1>4, <1>7, <1>8

\* A turn that lists its nodes reads what every turn that had ended added, unless
\* an excuse has cost it already.
LEMMA ListKeeps ==
    ASSUME IInv, Memory, IInv', NEW t \in Turn, ListNodes(t)
    PROVE  Memory'
<1>1. /\ turn[t].pc = "list" /\ t \notin Ended /\ ~Listed(t) /\ ~Updating(t)
      /\ UNCHANGED <<store, ask, rows>>
      /\ turn[t] \in TurnState
  BY DEF ListNodes, Ended, Listed, Updating, IInv, TypeOK
<1>2. \A c \in Concept : ~Wrote(t, c)
  BY <1>1 DEF Wrote
<1>3. CASE GiveUp(t)
  BY <1>1, <1>3, GiveUpKeeps
<1>4. CASE ask[t].concepts = {} /\ turn' = [turn EXCEPT ![t].pc = "done", ![t].recalled = {}]
  <2>1. turn'[t].pc = "done" /\ \A u \in Turn : u # t => turn'[u] = turn[u]
    BY <1>1, <1>4 DEF IInv, TypeOK, TurnState
  <2>2. ~Updating(t)' /\ \A c \in Concept : ~Added(t, c)'
    BY <1>1, <1>4, <2>1 DEF Updating, Added
  <2>3. \A v \in Turn, c \in Concept : Carried(v, t, c)'
    BY <2>2, NothingToCarry
  <2> QED BY <1>1, <1>2, <2>1, <2>2, <2>3, QuietStep
<1>5. CASE \E p \in Lists(ask[t].session) :
           \E lookup \in [Concept -> {rows[i].by : i \in p} \cup {{}}] :
              /\ \A c \in Concept :
                   LET known == {rows[i].by : i \in {j \in p : key(j) = c}} IN
                   IF known = {} THEN lookup[c] = {} ELSE lookup[c] \in known
              /\ turn' = [turn EXCEPT ![t].pc = "upsert", ![t].lookup = lookup,
                                      ![t].todo = ask[t].concepts, ![t].before = Ended,
                                      ![t].recalled = {}]
  <2>1. PICK p \in Lists(ask[t].session) :
           \E lookup \in [Concept -> {rows[i].by : i \in p} \cup {{}}] :
              /\ \A c \in Concept :
                   LET known == {rows[i].by : i \in {j \in p : key(j) = c}} IN
                   IF known = {} THEN lookup[c] = {} ELSE lookup[c] \in known
              /\ turn' = [turn EXCEPT ![t].pc = "upsert", ![t].lookup = lookup,
                                      ![t].todo = ask[t].concepts, ![t].before = Ended,
                                      ![t].recalled = {}]
    BY <1>5
  <2>2. PICK lookup \in [Concept -> {rows[i].by : i \in p} \cup {{}}] :
              /\ \A c \in Concept :
                   LET known == {rows[i].by : i \in {j \in p : key(j) = c}} IN
                   IF known = {} THEN lookup[c] = {} ELSE lookup[c] \in known
              /\ turn' = [turn EXCEPT ![t].pc = "upsert", ![t].lookup = lookup,
                                      ![t].todo = ask[t].concepts, ![t].before = Ended,
                                      ![t].recalled = {}]
    BY <2>1
  <2>3. /\ turn'[t] = [turn[t] EXCEPT !.pc = "upsert", !.lookup = lookup,
                           !.todo = ask[t].concepts, !.before = Ended, !.recalled = {}]
        /\ \A u \in Turn : u # t => turn'[u] = turn[u]
    BY <2>2 DEF IInv, TypeOK
  <2>4. /\ turn'[t].pc = "upsert" /\ turn'[t].lookup = lookup
        /\ turn'[t].todo = ask[t].concepts /\ turn'[t].before = Ended
    BY <1>1, <2>3 DEF TurnState
  <2>5. \A c \in Concept : ~Added(t, c)'
    BY <1>1, <2>4 DEF Added, Updating
  <2>6. ASSUME NEW v \in Turn, NEW c \in Concept, v \in Ended, Added(v, c)',
               ask[v].session = ask[t].session
        PROVE  v \in lookup[c] \/ Excused(v, c)'
    <3>1. v # t /\ turn'[v] = turn[v]
      BY <1>1, <2>3, <2>6
    <3>2. Added(v, c) /\ Listed(v)
      BY <1>1, <2>6, <3>1 DEF Added, Updating, Listed
    <3>3. CASE Excused(v, c)
      <4>1. \A u \in Turn : Listed(u) => turn'[u].before = turn[u].before
        BY <1>1, <2>3
      <4>2. \A u \in Turn, e \in Concept : Wrote(u, e) => Wrote(u, e)'
        BY <1>1, <1>2, <2>3 DEF Wrote
      <4>3. TypeOK' /\ Live \subseteq Live'
        BY <1>1 DEF IInv, Live
      <4> QED BY <1>1, <3>2, <3>3, <4>1, <4>2, <4>3, ExcuseStays
    <3>4. CASE ~Excused(v, c)
      <4>1. Kept(v, c)
        BY <3>2, <3>4 DEF Memory, Stays
      <4>2. PICK i \in Copies(c) : rows[i].session = ask[v].session /\ v \in rows[i].by
        BY <4>1 DEF Kept
      <4>3. /\ ~(Cardinality(Live) > Limit)
            /\ ~(store = "pocketbase" /\ Cardinality(Copies(c)) > 1)
        BY <3>4 DEF Excused
      <4>4. i \in Live /\ key(i) = c /\ rows[i].session = ask[t].session
        BY <2>6, <4>2 DEF Copies
      <4>5. i \in p /\ \A j \in p : key(j) = c => j = i
        BY <4>3, <4>4, ReadBack
      <4>6. {rows[j].by : j \in {k \in p : key(k) = c}} = {rows[i].by}
        BY <4>4, <4>5
      <4>7. lookup[c] \in {rows[i].by}
        BY <2>2, <4>6
      <4> QED BY <4>2, <4>7
    <3> QED BY <3>3, <3>4
  <2>7. \A v \in Turn, c \in Concept : Carried(v, t, c)'
    BY <1>1, <2>4, <2>6 DEF Carried
  <2> QED BY <1>1, <1>2, <2>3, <2>4, <2>5, <2>7, QuietStep DEF Updating
<1>6. \/ GiveUp(t)
      \/ ask[t].concepts = {} /\ turn' = [turn EXCEPT ![t].pc = "done", ![t].recalled = {}]
      \/ \E p \in Lists(ask[t].session) :
           \E lookup \in [Concept -> {rows[i].by : i \in p} \cup {{}}] :
              /\ \A c \in Concept :
                   LET known == {rows[i].by : i \in {j \in p : key(j) = c}} IN
                   IF known = {} THEN lookup[c] = {} ELSE lookup[c] \in known
              /\ turn' = [turn EXCEPT ![t].pc = "upsert", ![t].lookup = lookup,
                                      ![t].todo = ask[t].concepts, ![t].before = Ended,
                                      ![t].recalled = {}]
  BY DEF ListNodes
<1> QED BY <1>3, <1>4, <1>5, <1>6

\* Whoever writes over what v has added overlaps v, or writes it back, or has
\* an excuse: it had seen v end before it listed its nodes.
LEMMA UpsertKeeps ==
    ASSUME IInv, Memory, IInv', NEW t \in Turn, Updating(t), NEW c \in turn[t].todo,
           turn[t].pc = "write" => c = turn[t].concept,
           NEW ids, Written(t, c, ids), \A i \in ids : key(i) = c,
           store = "memory" => \A i \in ids :
              IF i \in Live THEN rows[i].session = ask[t].session ELSE i[1] = t,
           \/ NextConcept(t, c) /\ ids # {}
           \/ turn[t].pc = "write" /\ TryAgain(t)
           \/ GiveUp(t),
           UNCHANGED <<store, ask>>
    PROVE  Memory'
<1>1. /\ turn[t] \in TurnState /\ t \notin Ended /\ Listed(t)
      /\ turn[t].todo \subseteq Concept
      /\ turn[t].todo \subseteq ask[t].concepts
  BY DEF IInv, TypeOK, Ended, Updating, Listed, TurnState, Memory, Todo
<1>2. /\ Live' = Live \cup ids
      /\ \A i \in ids : rows'[i] = Updated(t, c)
      /\ \A i \in Live \ ids : rows'[i] = rows[i]
  BY DEF Written
<1>3. \A u \in Turn : u # t => turn'[u] = turn[u]
  BY DEF IInv, TypeOK, NextConcept, TryAgain, GiveUp
<1>4. /\ turn'[t].before = turn[t].before
      /\ \/ /\ ids # {}
            /\ turn'[t].pc \in {"done", "upsert"}
            /\ turn'[t].pc = "done" => turn'[t].todo = {}
            /\ turn'[t].todo = turn[t].todo \ {c}
            /\ \A d \in turn'[t].todo : turn'[t].lookup[d] = turn[t].lookup[d]
         \/ /\ turn[t].pc = "write" /\ turn'[t].pc = "write"
            /\ turn'[t].todo = turn[t].todo /\ turn'[t].lookup = turn[t].lookup
            /\ turn'[t].concept = c /\ turn'[t].attempt > 1
         \/ turn'[t].pc = "failed"
  <2>1. CASE NextConcept(t, c) /\ ids # {}
    <3>1. turn'[t] = [turn[t] EXCEPT
                        !.pc = IF turn[t].todo = {c} THEN "done" ELSE "upsert",
                        !.todo = @ \ {c}, !.concept = NoConcept, !.found = NoRow,
                        !.attempt = 1, !.lookup = [@ EXCEPT ![c] = {}]]
      BY <2>1 DEF IInv, TypeOK, NextConcept
    <3>2. \A d \in turn[t].todo \ {c} : turn'[t].lookup[d] = turn[t].lookup[d]
      BY <1>1, <3>1 DEF TurnState
    <3> QED BY <1>1, <2>1, <3>1, <3>2 DEF TurnState
  <2>2. CASE GiveUp(t)
    <3>1. turn'[t] = [NewTurn EXCEPT !.pc = "failed", !.before = turn[t].before,
                                     !.misled = turn[t].misled]
      BY <2>2 DEF IInv, TypeOK, GiveUp
    <3> QED BY <3>1 DEF NewTurn
  <2>3. CASE turn[t].pc = "write" /\ TryAgain(t)
    <3>1. turn'[t] = [turn[t] EXCEPT !.attempt = @ + 1]
      BY <2>3 DEF IInv, TypeOK, TryAgain
    <3>2. turn[t].attempt \in 1..Attempts
      BY <1>1 DEF TurnState
    <3>3. turn'[t].attempt = turn[t].attempt + 1
      BY <1>1, <3>1 DEF TurnState
    <3>4. turn'[t].attempt > 1
      BY <3>2, <3>3, LimitsAssumption
    <3> QED BY <1>1, <2>3, <3>1, <3>4 DEF TurnState
  <2> QED BY <2>1, <2>2, <2>3
<1>5. Updated(t, c).session = ask[t].session /\ Updated(t, c).by = turn[t].lookup[c] \cup {t}
  BY DEF Updated
<1>6. c \in Concept /\ c \in ask[t].concepts
  BY <1>1
<1>7. Wrote(t, c)' /\ \A d \in Concept : Wrote(t, d) => Wrote(t, d)'
  BY <1>1, <1>4, <1>6 DEF Wrote, Updating
<1>8. \A d \in Concept : Added(t, d)' =>
          \/ Added(t, d)
          \/ d = c /\ ids # {}
  BY <1>1, <1>4 DEF Added, Updating
<1>9. \A u \in Turn, d \in Concept : Added(u, d) => Listed(u)
  BY DEF Added, Updating, Listed
<1>10. \A u \in Turn, d \in Concept : u # t => (Added(u, d)' <=> Added(u, d))
  BY <1>3 DEF Added, Updating
<1>11. \A u \in Turn, d \in Concept : Listed(u) /\ Excused(u, d) => Excused(u, d)'
  <2>1. \A u \in Turn : Listed(u) => turn'[u].before = turn[u].before
    BY <1>3, <1>4
  <2>2. \A u \in Turn, d \in Concept : Wrote(u, d) => Wrote(u, d)'
    BY <1>3, <1>7 DEF Wrote
  <2>3. TypeOK' /\ Live \subseteq Live'
    BY <1>2 DEF IInv
  <2> QED BY <2>1, <2>2, <2>3, ExcuseStays
<1>12. Todo'
  BY <1>3, <1>4 DEF Memory, Todo, Updating
<1>13. Home'
  <2> SUFFICES ASSUME store = "memory", NEW i \in Live'
               PROVE  rows'[i].session = ask[i[1]].session
    BY DEF Home
  <2>1. CASE i \in ids
    <3>1. CASE i \in Live
      BY <1>2, <1>5, <2>1, <3>1 DEF Memory, Home
    <3>2. CASE i \notin Live
      BY <1>2, <1>5, <2>1, <3>2
    <3> QED BY <3>1, <3>2
  <2>2. CASE i \notin ids
    BY <1>2, <2>2 DEF Memory, Home
  <2> QED BY <2>1, <2>2
<1>14. Stays'
  <2> SUFFICES ASSUME NEW v \in Turn, NEW d \in Concept, Added(v, d)'
               PROVE  Kept(v, d)' \/ Excused(v, d)'
    BY DEF Stays
  <2>1. CASE v = t /\ d = c /\ ids # {}
    <3>1. PICK i \in ids : TRUE
      BY <2>1
    <3>2. i \in Copies(c)'
      BY <1>2, <3>1 DEF Copies, key
    <3>3. rows'[i].session = ask[t].session /\ t \in rows'[i].by
      BY <1>2, <1>5, <3>1
    <3> QED BY <2>1, <3>2, <3>3 DEF Kept
  <2>2. CASE Added(v, d)
    <3>1. Kept(v, d) \/ Excused(v, d)
      BY <2>2 DEF Memory, Stays
    <3>2. ASSUME Kept(v, d) PROVE Kept(v, d)' \/ Excused(v, d)'
      <4>1. PICK i \in Copies(d) : rows[i].session = ask[v].session /\ v \in rows[i].by
        BY <3>2 DEF Kept
      <4>2. i \in Live /\ key(i) = d /\ i \in Copies(d)'
        BY <1>2, <4>1 DEF Copies, key
      <4>3. CASE i \notin ids \/ v = t
        <5>1. rows'[i] = rows[i] \/ (v = t /\ rows'[i] = Updated(t, c))
          BY <1>2, <4>2, <4>3
        <5>2. rows'[i].session = ask[v].session /\ v \in rows'[i].by
          BY <1>5, <4>1, <5>1
        <5> QED BY <4>2, <5>2 DEF Kept
      <4>4. CASE i \in ids /\ v # t
        <5>1. d = c /\ rows'[i] = Updated(t, c)
          BY <1>2, <4>2, <4>4
        <5>2. CASE Overlap(v, t)
          <6>1. Overlap(v, t)'
            BY <1>3, <1>4, <4>4, <5>2 DEF Overlap
          <6> QED BY <1>7, <4>4, <5>1, <6>1 DEF Excused
        <5>3. CASE ask[v].session # ask[t].session
          <6>1. store # "memory"
            BY <4>1, <4>2, <4>4, <5>3
          <6>2. store = "pocketbase"
            BY <6>1, NamesAssumption DEF IInv, TypeOK
          <6> QED BY <1>7, <4>4, <5>1, <5>3, <6>2 DEF Excused
        <5>4. CASE ask[v].session = ask[t].session /\ ~Overlap(v, t)
          <6>1. v \in turn[t].before
            BY <1>1, <5>4 DEF Overlap, IInv, History
          <6>2. v \in turn[t].lookup[c] \/ Excused(v, c)
            BY <1>6, <2>2, <5>1, <5>4, <6>1 DEF Memory, Carries, Carried
          <6>3. CASE v \in turn[t].lookup[c]
            <7>1. rows'[i].session = ask[v].session /\ v \in rows'[i].by
              BY <1>5, <5>1, <5>4, <6>3
            <7> QED BY <4>2, <7>1 DEF Kept
          <6> QED BY <1>9, <1>11, <2>2, <5>1, <6>2, <6>3
        <5> QED BY <5>2, <5>3, <5>4
      <4> QED BY <4>3, <4>4
    <3> QED BY <1>9, <1>11, <2>2, <3>1, <3>2
  <2> QED BY <1>8, <1>10, <2>1, <2>2
<1>15. Carries'
  <2> SUFFICES ASSUME NEW v \in Turn, NEW u \in Turn, NEW d \in Concept,
                      Updating(u)', d \in turn'[u].todo, v \in turn'[u].before,
                      Added(v, d)', ask[v].session = ask[u].session
               PROVE  v \in turn'[u].lookup[d] \/ Excused(v, d)'
    BY DEF Carries, Carried
  <2>1. /\ Updating(u) /\ d \in turn[u].todo /\ v \in turn[u].before
        /\ turn'[u].lookup[d] = turn[u].lookup[d]
    <3>1. CASE u = t
      BY <1>3, <1>4, <3>1 DEF Updating
    <3>2. CASE u # t
      BY <1>3, <3>2 DEF Updating
    <3> QED BY <3>1, <3>2
  <2>2. v # t
    BY <1>1, <2>1 DEF IInv, History
  <2>3. Added(v, d) /\ Listed(v)
    BY <1>9, <1>10, <2>2
  <2>4. v \in turn[u].lookup[d] \/ Excused(v, d)
    BY <2>1, <2>3 DEF Memory, Carries, Carried
  <2> QED BY <1>11, <2>1, <2>3, <2>4
<1> QED BY <1>12, <1>13, <1>14, <1>15 DEF Memory

\* An attempt at a write to PocketBase names or finds its row by the concept.
LEMMA SendKeeps ==
    ASSUME IInv, Memory, IInv', NEW t \in Turn, turn[t].pc = "write", NEW id,
           key(id) = turn[t].concept, SendNode(t, id)
    PROVE  Memory'
<1> DEFINE c == turn[t].concept
<1>1. PICK ids \in SUBSET {id} :
        /\ Written(t, c, ids)
        /\ \/ NextConcept(t, c) /\ ids = {id}
           \/ TryAgain(t) \/ GiveUp(t)
  BY Sent
<1>2. UNCHANGED <<store, ask>>
  BY Sent
<1>3. Updating(t) /\ c \in turn[t].todo /\ store # "memory"
  BY DEF Updating, Memory, Todo, IInv, Local
<1>4. \A i \in ids : key(i) = c
  BY <1>1
<1>5. \/ NextConcept(t, c) /\ ids # {}
      \/ turn[t].pc = "write" /\ TryAgain(t)
      \/ GiveUp(t)
  BY <1>1
<1>6. turn[t].pc = "write" => c = turn[t].concept
  OBVIOUS
<1> HIDE DEF c
<1> QED BY <1>1, <1>2, <1>3, <1>4, <1>5, <1>6, UpsertKeeps

\* A create names its row after the concept.
LEMMA CreateKeeps ==
    ASSUME IInv, Memory, IInv', NEW t \in Turn, CreateNode(t)
    PROVE  Memory'
<1>1. PICK id : id = <<t, turn[t].concept, turn[t].attempt>>
  OBVIOUS
<1>2. turn[t].pc = "write" /\ SendNode(t, id) /\ key(id) = turn[t].concept
  BY <1>1 DEF CreateNode, key
<1> QED BY <1>2, SendKeeps

\* A patch writes the row the query found.
LEMMA PatchKeeps ==
    ASSUME IInv, Memory, IInv', NEW t \in Turn, PatchNode(t)
    PROVE  Memory'
<1>1. /\ turn[t].pc = "write" /\ SendNode(t, turn[t].found)
      /\ key(turn[t].found) = turn[t].concept
  BY DEF PatchNode, IInv, Local
<1> QED BY <1>1, SendKeeps

\* In process only rows of the session are written; a new row's name is not
\* that of another session's.
LEMMA InProcessKeeps ==
    ASSUME IInv, Memory, IInv', NEW t \in Turn, UpsertInProcess(t)
    PROVE  Memory'
<1> DEFINE same(c) == {i \in OfSession(Live, ask[t].session) : key(i) = c}
<1>1. PICK c \in turn[t].todo :
        /\ Put(IF same(c) = {} THEN {<<t, c, 1>>} ELSE same(c), Updated(t, c))
        /\ NextConcept(t, c)
  BY DEF UpsertInProcess
<1>2. PICK ids : ids = IF same(c) = {} THEN {<<t, c, 1>>} ELSE same(c)
  OBVIOUS
<1>3. Updating(t) /\ store = "memory" /\ UNCHANGED <<store, ask>>
  BY DEF UpsertInProcess, Updating
<1>4. \A i \in same(c) : i \in Live /\ rows[i].session = ask[t].session /\ key(i) = c
  BY DEF OfSession
<1>5. \A i \in Live : rows[i].session = ask[t].session /\ key(i) = c => i \in same(c)
  BY DEF OfSession
<1>6. <<t, c, 1>>[1] = t /\ key(<<t, c, 1>>) = c
  BY DEF key
<1> HIDE DEF same
<1>7. \A i \in ids : key(i) = c
  BY <1>2, <1>4, <1>6
<1>8. \A i \in ids : IF i \in Live THEN rows[i].session = ask[t].session ELSE i[1] = t
  <2>1. CASE same(c) = {}
    <3>1. <<t, c, 1>> \in Live => rows[<<t, c, 1>>].session = ask[t].session
      BY <1>3, <1>6 DEF Memory, Home
    <3> QED BY <1>2, <1>6, <2>1, <3>1
  <2>2. CASE same(c) # {}
    BY <1>2, <1>4, <2>2
  <2> QED BY <2>1, <2>2
<1>9. ids # {} /\ Written(t, c, ids)
  <2>1. Put(ids, Updated(t, c))
    BY <1>1, <1>2
  <2> QED BY <1>2, <2>1, PutRows DEF Written
<1>10. turn[t].pc = "upsert"
  BY DEF UpsertInProcess
<1> QED BY <1>1, <1>3, <1>7, <1>8, <1>9, <1>10, UpsertKeeps

-----------------------------------------------------------------------------
(* Theorems.                                                               *)

\* Every step of a turn, and none, preserves the invariant.
LEMMA StepInv == IInv /\ [Next]_vars => IInv'
<1> SUFFICES ASSUME IInv, [Next]_vars PROVE IInv'
  OBVIOUS
<1>1. ASSUME NEW t \in Turn, Step(t)
      PROVE  IInv'
  BY <1>1, BuildInv, ListInv, InProcessInv, FindInv, CreateInv, PatchInv DEF Step
<1>2. CASE UNCHANGED vars
  BY <1>2 DEF vars, IInv, TypeOK, Local, Listed, History, Own, OwnSessionOnly, Apart,
              DuplicatesOverlap, Overlap, Ended, Live, key
<1> QED BY <1>1, <1>2 DEF Next

\* The inductive invariant holds in every behaviour.
THEOREM Inductive == Spec => []IInv
BY InitInv, StepInv, PTL DEF Spec

\* The types hold: a row's creator, key and attempt, and a turn's local
\* variables, are what UpdateFromTurn and the stores can make them.
THEOREM TypeCorrect == Spec => []TypeOK
<1>1. IInv => TypeOK
  BY DEF IInv
<1> QED BY <1>1, Inductive, PTL

\* However turns interleave and requests are repeated, no session's node or
\* context holds anything of another session, although the PocketBase upsert
\* finds rows by key alone: the write always replaces the session with it.
THEOREM SessionsApart == Spec => []OwnSessionOnly
<1>1. IInv => OwnSessionOnly
  BY DEF IInv, Own
<1> QED BY <1>1, Inductive, PTL

\* Two rows of one key come of a repeated create, of two turns between whose
\* queries neither had ended, or of a query answered with 404 although there was
\* a row (store.go:604); in process, of two sessions.
THEOREM CreatedApart == Spec => []DuplicatesOverlap
<1>1. IInv => DuplicatesOverlap
  BY DEF IInv, Apart
<1> QED BY <1>1, Inductive, PTL

\* What finished turns have added stays through every step.
LEMMA StepKeeps == IInv /\ Memory /\ [Next]_vars /\ IInv' => Memory'
<1> SUFFICES ASSUME IInv, Memory, [Next]_vars, IInv' PROVE Memory'
  OBVIOUS
<1>1. ASSUME NEW t \in Turn, Step(t)
      PROVE  Memory'
  BY <1>1, BuildKeeps, ListKeeps, InProcessKeeps, FindKeeps, CreateKeeps, PatchKeeps DEF Step
<1>2. CASE UNCHANGED vars
  <2>1. store' = store /\ ask' = ask /\ rows' = rows /\ turn' = turn /\ Live' = Live
    BY <1>2 DEF vars, Live
  <2>2. /\ \A t \in Turn : Updating(t)' <=> Updating(t)
        /\ \A t \in Turn, c \in Concept : Added(t, c)' <=> Added(t, c)
        /\ \A t \in Turn, c \in Concept : Wrote(t, c)' <=> Wrote(t, c)
        /\ \A t, u \in Turn : Overlap(t, u)' <=> Overlap(t, u)
        /\ \A c \in Concept : Copies(c)' = Copies(c)
    BY <2>1 DEF Updating, Added, Wrote, Overlap, Copies, key
  <2>3. \A t \in Turn, c \in Concept : Excused(t, c)' <=> Excused(t, c)
    BY <2>1, <2>2 DEF Excused
  <2>4. \A t \in Turn, c \in Concept : Kept(t, c)' <=> Kept(t, c)
    BY <2>1, <2>2 DEF Kept
  <2>5. Todo' /\ Home'
    BY <2>1, <2>2 DEF Memory, Todo, Home
  <2>6. Stays'
    BY <2>2, <2>3, <2>4 DEF Memory, Stays
  <2>7. Carries'
    BY <2>1, <2>2, <2>3 DEF Memory, Carries, Carried
  <2> QED BY <2>5, <2>6, <2>7 DEF Memory
<1> QED BY <1>1, <1>2 DEF Next

\* A turn's part of a node is only lost to a turn that overlapped it, to a
\* list cut at its limit or, in PocketBase, to another session with the concept
\* or a second row of the key: every other turn of the session has read it
\* before it writes, however many turns and lost replies there are.
THEOREM OnlyTheseCost == Spec => []OnlyTheseForget
<1>1. Init => Memory
  <2> SUFFICES ASSUME Init PROVE Memory
    OBVIOUS
  <2>1. Live = {}
    BY DEF Init, Live
  <2>2. \A t \in Turn : turn[t].pc = "new"
    BY DEF Init, NewTurn
  <2> QED BY <2>1, <2>2 DEF Memory, Todo, Home, Stays, Carries, Carried, Added, Updating
<1>2. IInv /\ Memory => OnlyTheseForget
  <2> SUFFICES ASSUME IInv, Memory, NEW t \in Turn, turn[t].pc = "done", NEW c \in ask[t].concepts
               PROVE  Kept(t, c) \/ Excused(t, c)
    BY DEF OnlyTheseForget, Excused
  <2>1. c \in Concept /\ Added(t, c)
    BY DEF IInv, TypeOK, Added
  <2> QED BY <2>1 DEF Memory, Stays
<1> QED BY <1>1, <1>2, StepKeeps, Inductive, PTL DEF Spec

=============================================================================
