--------------------------- MODULE MemoryDynamics ---------------------------
(***************************************************************************)
(* The memory of a tenant's sessions: internal/memorydynamics/service.go   *)
(* over the memory nodes of the PocketBase store or of the in-process one. *)
(*                                                                         *)
(* A chat turn is given the nodes of its session and, once answered, adds  *)
(* itself to the node of every concept of its text: it lists the nodes,    *)
(* computes new values and upserts them one by one.  The PocketBase upsert *)
(* is itself a query followed by a create or a patch, each sent through    *)
(* Store.do; turns interleave at every attempt of a call to the store.     *)
(*                                                                         *)
(* A node is the set of turns whose text has gone into its weight,         *)
(* importance and access count (its size is the access count).  Which rows *)
(* were updated last is not kept: a list cut at its limit may hold any.    *)
(***************************************************************************)
EXTENDS Naturals, FiniteSets

CONSTANTS
    Turn,         \* the turns of a behaviour (a bound of the model)
    Session,      \* sessions of the tenant (that differ in more than case)
    Concept,      \* keys topConcepts finds
    Texts,        \* the concepts of the turns' texts, turn by turn
    NoConcept,    \* "no concept"
    NoRow,        \* "no row"
    Stores,       \* the stores a server may be given
    Limit,        \* rows a list returns at most (100 and 200 in the code)
    ContextLimit, \* ContextNodeLimit
    Attempts,     \* attempts of Store.do for one request
    Faults        \* may PocketBase fail and lose replies?

ASSUME NamesAssumption ==
    /\ Texts \subseteq [Turn -> SUBSET Concept]
    /\ NoConcept \notin Concept
    /\ NoRow \notin Turn \X Concept \X (1..Attempts)
    /\ Stores \subseteq {"memory", "pocketbase"}
    /\ IsFiniteSet(Turn) /\ IsFiniteSet(Concept)
ASSUME LimitsAssumption ==
    /\ Limit \in Nat /\ ContextLimit \in Nat
    /\ Attempts \in Nat \ {0}
    /\ Faults \in BOOLEAN

VARIABLES
    store, \* the kind of store
    ask,   \* each turn's session and the concepts of its text
    rows,  \* memory_nodes: a function from row ids
    turn   \* where each turn is; before: who had ended when it listed the nodes,
           \* misled: the concepts whose rows a 404 hid from it

vars == <<store, ask, rows, turn>>

\* A row is named after its creator, its key and the attempt that made it.
Id == Turn \X Concept \X (1..Attempts)
Row == [session : Session, by : SUBSET Turn]

PC == {"new", "list", "upsert", "write", "done", "failed"}
TurnState == [pc : PC, recalled : SUBSET Turn, before : SUBSET Turn,
              lookup : [Concept -> SUBSET Turn], todo : SUBSET Concept,
              concept : Concept \cup {NoConcept}, found : Id \cup {NoRow},
              attempt : 1..Attempts, misled : SUBSET Concept]

TypeOK ==
    /\ store \in Stores
    /\ ask \in [Turn -> [session : Session, concepts : SUBSET Concept]]
    /\ DOMAIN rows \subseteq Id
    /\ \A i \in DOMAIN rows : rows[i] \in Row
    /\ turn \in [Turn -> TurnState]

NewTurn == [pc |-> "new", recalled |-> {}, before |-> {},
            lookup |-> [c \in Concept |-> {}], todo |-> {},
            concept |-> NoConcept, found |-> NoRow, attempt |-> 1, misled |-> {}]

Init ==
    /\ store \in Stores
    /\ ask \in [Turn -> [session : Session, concepts : SUBSET Concept]]
    /\ [t \in Turn |-> ask[t].concepts] \in Texts
    /\ rows = [i \in {} |-> NoRow]
    /\ turn = [t \in Turn |-> NewTurn]

-----------------------------------------------------------------------------
key(i) == i[2]
Live == DOMAIN rows
Ended == {t \in Turn : turn[t].pc \in {"done", "failed"}}

Put(ids, row) == rows' = [i \in Live \cup ids |-> IF i \in ids THEN row ELSE rows[i]]

OfSession(ids, s) == {i \in ids : rows[i].session = s}

\* A list of at most n of the given rows.
Page(ids, n) == {p \in SUBSET ids : IF Cardinality(ids) <= n THEN p = ids
                                                            ELSE Cardinality(p) = n}

\* Mutant of Lists: PocketBase rows are not filtered by session.
ListsOfTenant(s) == IF store = "memory" THEN Page(OfSession(Live, s), Limit) ELSE Page(Live, Limit)

\* ListMemoryNodes: PocketBase cuts the tenant's rows and then filters them by
\* session; the in-process store filters first.
Lists(s) ==
    IF store = "memory" THEN Page(OfSession(Live, s), Limit)
    ELSE {OfSession(p, s) : p \in Page(Live, Limit)}

MayFail == Faults /\ store = "pocketbase"

\* An error of the store ends the update; the answer has been given anyway.
GiveUp(t) ==
    turn' = [turn EXCEPT ![t] = [NewTurn EXCEPT !.pc = "failed", !.before = turn[t].before,
                                                !.misled = turn[t].misled]]

-----------------------------------------------------------------------------
\* BuildContext: the best of the session's nodes are given to the turn; when
\* the list fails the turn goes on without.
BuildContext(t) ==
    /\ turn[t].pc = "new"
    /\ \/ \E p \in Lists(ask[t].session) : \E best \in Page(p, ContextLimit) :
            turn' = [turn EXCEPT ![t].pc = "list",
                                 ![t].recalled = UNION {rows[i].by : i \in best}]
       \/ MayFail /\ turn' = [turn EXCEPT ![t].pc = "list"]
    /\ UNCHANGED <<store, ask, rows>>

\* UpdateFromTurn is called with an answer: one without concepts changes
\* nothing; else the session's nodes are listed.  Of several rows of a key one
\* is kept in the lookup.
ListNodes(t) ==
    /\ turn[t].pc = "list"
    /\ \/ /\ ask[t].concepts = {}
          /\ turn' = [turn EXCEPT ![t].pc = "done", ![t].recalled = {}]
       \/ /\ ask[t].concepts # {}
          /\ \E p \in Lists(ask[t].session) :
             \E lookup \in [Concept -> {rows[i].by : i \in p} \cup {{}}] :
                /\ \A c \in Concept :
                     LET known == {rows[i].by : i \in {j \in p : key(j) = c}} IN
                     IF known = {} THEN lookup[c] = {} ELSE lookup[c] \in known
                /\ turn' = [turn EXCEPT ![t].pc = "upsert", ![t].lookup = lookup,
                                        ![t].todo = ask[t].concepts, ![t].before = Ended,
                                        ![t].recalled = {}]
       \/ /\ ask[t].concepts # {} /\ MayFail
          /\ GiveUp(t)
    /\ UNCHANGED <<store, ask, rows>>

\* Mutant of Updated: the values start afresh every time.
UpdatedAfresh(t, c) == [session |-> ask[t].session, by |-> {t}]

\* The node as the turn wants it: what it read and what the turn adds.
Updated(t, c) == [session |-> ask[t].session, by |-> turn[t].lookup[c] \cup {t}]

\* The upsert of concept c is over; the next one, or the end.
NextConcept(t, c) ==
    turn' = [turn EXCEPT ![t].pc = IF turn[t].todo = {c} THEN "done" ELSE "upsert",
                         ![t].todo = @ \ {c}, ![t].concept = NoConcept, ![t].found = NoRow,
                         ![t].attempt = 1, ![t].lookup = [@ EXCEPT ![c] = {}]]

\* The in-process UpsertMemoryNode: under one lock, by session and key.
UpsertInProcess(t) ==
    /\ turn[t].pc = "upsert" /\ store = "memory"
    /\ \E c \in turn[t].todo :
        LET same == {i \in OfSession(Live, ask[t].session) : key(i) = c} IN
        /\ Put(IF same = {} THEN {<<t, c, 1>>} ELSE same, Updated(t, c))
        /\ NextConcept(t, c)
    /\ UNCHANGED <<store, ask>>

\* The PocketBase UpsertMemoryNode asks for one row of the tenant and the key,
\* of whatever session.  A 404 counts as an answer without rows.
FindNode(t) ==
    /\ turn[t].pc = "upsert" /\ store = "pocketbase"
    /\ \/ \E c \in turn[t].todo :
            LET same == {i \in Live : key(i) = c} IN
            \/ \E found \in (IF same = {} THEN {NoRow} ELSE same) :
                 turn' = [turn EXCEPT ![t].pc = "write", ![t].concept = c, ![t].found = found]
            \/ /\ MayFail /\ same # {}
               /\ turn' = [turn EXCEPT ![t].pc = "write", ![t].concept = c,
                                       ![t].found = NoRow, ![t].misled = @ \cup {c}]
       \/ MayFail /\ GiveUp(t)
    /\ UNCHANGED <<store, ask, rows>>

\* Mutant of TryAgain: one attempt too many.
TryAgainOnceMore(t) ==
    /\ turn[t].attempt <= Attempts
    /\ turn' = [turn EXCEPT ![t].attempt = @ + 1]

TryAgain(t) ==
    /\ turn[t].attempt < Attempts
    /\ turn' = [turn EXCEPT ![t].attempt = @ + 1]

\* An attempt at a POST or PATCH: an answer, or an error, although the row may
\* have been written.  After a 429, 502, 503 or 504 do tries again.
SendNode(t, id) ==
    LET c == turn[t].concept IN
    /\ \/ Put({id}, Updated(t, c)) /\ NextConcept(t, c)
       \/ /\ Faults
          /\ Put({id}, Updated(t, c)) \/ UNCHANGED rows
          /\ TryAgain(t) \/ GiveUp(t)
    /\ UNCHANGED <<store, ask>>

\* Every attempt at a create may make a row.
CreateNode(t) ==
    /\ turn[t].pc = "write" /\ turn[t].found = NoRow
    /\ SendNode(t, <<t, turn[t].concept, turn[t].attempt>>)

\* Mutant of PatchNode: what was found is not patched, another row is made.
PatchNodeAnew(t) ==
    /\ turn[t].pc = "write" /\ turn[t].found # NoRow
    /\ SendNode(t, <<t, turn[t].concept, turn[t].attempt>>)

\* The patch writes every field of the row, its session too.
PatchNode(t) ==
    /\ turn[t].pc = "write" /\ turn[t].found # NoRow
    /\ SendNode(t, turn[t].found)

Step(t) ==
    \/ BuildContext(t) \/ ListNodes(t) \/ UpsertInProcess(t)
    \/ FindNode(t) \/ CreateNode(t) \/ PatchNode(t)

Next == \E t \in Turn : Step(t)

Spec == Init /\ [][Next]_vars

-----------------------------------------------------------------------------
(* Properties.                                                             *)

\* A node is made of turns of its own session only, and a turn is only given
\* such: although PocketBase rows are found by key alone and change hands, no
\* session reads what another said.
OwnSessionOnly ==
    /\ \A i \in Live : \A u \in rows[i].by : ask[u].session = rows[i].session
    /\ \A t \in Turn : \A u \in turn[t].recalled :
          u # t /\ ask[u].session = ask[t].session

\* u listed the nodes before t had ended, and the other way round.
Overlap(t, u) == t \notin turn[u].before /\ u \notin turn[t].before

\* A key has two rows only if one creation was repeated, if two turns created
\* it at the same time, or if a 404 hid from one of them that there was a row
\* (store.go:604); in process, if it is of two sessions.
DuplicatesOverlap ==
    \A i, j \in Live : key(i) = key(j) /\ i # j =>
        IF store = "memory" THEN rows[i].session # rows[j].session
        ELSE \/ i[1] = j[1]
             \/ Overlap(i[1], j[1])
             \/ key(i) \in turn[i[1]].misled \cup turn[j[1]].misled

Copies(c) == {i \in Live : key(i) = c}
Kept(t, c) == \E i \in Copies(c) : rows[i].session = ask[t].session /\ t \in rows[i].by

\* u has upserted its node of c, or an attempt at it or a failure of u may have.
Wrote(u, c) == /\ c \in ask[u].concepts
               /\ \/ turn[u].pc = "done"
                  \/ turn[u].pc = "failed"
                  \/ turn[u].pc \in {"upsert", "write"} /\ c \notin turn[u].todo
                  \/ turn[u].pc = "write" /\ turn[u].concept = c /\ turn[u].attempt > 1

\* What a finished turn has added to a node is lost only to a turn that
\* overlapped it, to a full list or, in PocketBase, to another session that has
\* the concept or to a second row of the key.
OnlyTheseForget ==
    \A t \in Turn : turn[t].pc = "done" =>
        \A c \in ask[t].concepts :
            \/ Kept(t, c)
            \/ Cardinality(Live) > Limit
            \/ \E u \in Turn \ {t} :
                  /\ Wrote(u, c)
                  /\ \/ Overlap(t, u)
                     \/ store = "pocketbase" /\ ask[u].session # ask[t].session
            \/ store = "pocketbase" /\ Cardinality(Copies(c)) > 1

\* README.md:25 "Session state and memory dynamics for continuity across
\* turns": a session keeps a node of what a finished turn was about.
Continuity ==
    \A t \in Turn : turn[t].pc = "done" =>
        \A c \in ask[t].concepts :
            \E i \in Copies(c) : rows[i].session = ask[t].session

=============================================================================
