------------------------- MODULE JITInventoryProofs -------------------------
(***************************************************************************)
(* Safety of JITInventory for every set of models, goroutines and requests *)
(* and every value of the limits.                                          *)
(***************************************************************************)
EXTENDS JITInventory, FiniteSetTheorems, SequenceTheorems, TLAPS

\* What the program counters say about the local variables of a goroutine.
RecLocals(s) ==
    /\ s.pc \in {"pull", "pulled"} => s.target \in Ideal
    /\ s.pc \in {"stale", "stats", "prune", "delete", "sync"} => s.held \in MapId
    /\ s.pc = "delete" => s.victims # <<>>
LocalsOK ==
    /\ \A p \in Reconciler : RecLocals(rec[p])
    /\ \A r \in Request : req[r].pc \in {"check", "mark", "spawn"} => req[r].ideal \in Ideal

\* No protected model is on any pruner's list.
VictimsUnprotected ==
    \A p \in Reconciler : rec[p].victims \in Seq(Model \ protectedModels)

\* The inductive invariant.
IInv == TypeOK /\ LocalsOK /\ NoOrphanMark /\ VictimsUnprotected

LEMMA IdleRecType == IdleRec \in RecState
  BY BoundsAssumption DEF IdleRec, RecState, RecPC

LEMMA IdleReqType ==
    IdleReq \in ReqState
  BY DEF IdleReq, ReqPC, ReqState

\* The fields of the local states.
LEMMA RecFields ==
    ASSUME TypeOK, NEW p \in Reconciler
    PROVE  /\ rec \in [Reconciler -> RecState]
           /\ rec[p] \in RecState
           /\ rec[p].listed \in SUBSET Model
           /\ rec[p].victims \in Seq(Model)
           /\ rec[p].target \in Model \cup {NoModel}
<1>1. rec \in [Reconciler -> RecState]
  BY DEF TypeOK
<1>2. rec[p] \in RecState
  BY <1>1
<1> QED
  BY <1>1, <1>2 DEF RecState

LEMMA ReqFields ==
    ASSUME TypeOK, NEW r \in Request
    PROVE  /\ req \in [Request -> ReqState]
           /\ req[r] \in ReqState
           /\ req[r].view \in SUBSET Model
<1>1. req \in [Request -> ReqState]
  BY DEF TypeOK
<1>2. req[r] \in ReqState
  BY <1>1
<1> QED
  BY <1>1, <1>2 DEF ReqState

\* prunableModels returns sequences of unprotected models of the snapshot.
LEMMA PrunableModels ==
    ASSUME NEW avail \in SUBSET Model, NEW s \in prunableModels(avail)
    PROVE  s \in Seq(Model \ protectedModels)
<1> DEFINE items == avail \ protectedModels
<1>1. Cardinality(items) \in Nat
  BY FS_Subset, FS_CardinalityType, NamesAssumption
<1>2. s \in [1..Cardinality(items) -> items]
  BY DEF prunableModels
<1>3. s \in Seq(items)
  BY <1>1, <1>2, SeqDef
<1> QED
  BY <1>3, SeqMonotonic

\* A fresh map is stored by the collector like every other.
LEMMA RetainedType ==
    ASSUME NEW contents \in [MapId -> SUBSET Model]
    PROVE  Retained(contents) \in [MapId -> SUBSET Model]
  BY DEF Retained

LEMMA SetSnapshotType ==
    ASSUME TypeOK, NEW models \in SUBSET Model, setSnapshot(models)
    PROVE  /\ maps' \in [MapId -> SUBSET Model]
           /\ snap' \in [map : MapId, stale : BOOLEAN]
<1>1. PICK i \in MapId : /\ snap' = [map |-> i, stale |-> FALSE]
                         /\ maps' = Retained([maps EXCEPT ![i] = models])
  BY DEF setSnapshot
<1>2. [maps EXCEPT ![i] = models] \in [MapId -> SUBSET Model]
  BY DEF TypeOK
<1> QED
  BY <1>1, <1>2, RetainedType

LEMMA MarkModelUsedType ==
    ASSUME TypeOK, NEW m \in Model, markModelUsed(m)
    PROVE  used' \in SUBSET Model /\ newer' \in SUBSET (Model \X Model)
  BY DEF markModelUsed, TypeOK

LEMMA ForgetModelType ==
    ASSUME TypeOK, NEW m \in Model, forgetModel(m)
    PROVE  used' \in SUBSET Model /\ newer' \in SUBSET (Model \X Model)
  BY DEF forgetModel, TypeOK

\* ChooseOther ends the request and at most records the use of one model.
LEMMA ChooseOtherType ==
    ASSUME TypeOK, NEW r \in Request, ChooseOther(r)
    PROVE  /\ used' \in SUBSET Model
           /\ newer' \in SUBSET (Model \X Model)
           /\ req' \in [Request -> ReqState]
           /\ req' = [req EXCEPT ![r] = IdleReq]
<1>1. req' = [req EXCEPT ![r] = IdleReq]
  BY DEF ChooseOther
<1>2. CASE req[r].view \subseteq Blocked
  BY <1>1, <1>2, IdleReqType DEF ChooseOther, TypeOK, lruVars
<1>3. CASE ~(req[r].view \subseteq Blocked)
  <2>1. PICK m \in req[r].view \ Blocked : markModelUsed(m)
    BY <1>3 DEF ChooseOther
  <2>2. m \in Model
    BY <2>1, ReqFields
  <2> QED
    BY <1>1, <2>1, <2>2, MarkModelUsedType, IdleReqType DEF TypeOK
<1> QED
  BY <1>2, <1>3

LEMMA GotoType ==
    ASSUME TypeOK, NEW p \in Reconciler, NEW c \in RecPC, Goto(p, c)
    PROVE  rec' \in [Reconciler -> RecState]
  BY RecFields DEF Goto, RecState

LEMMA ListedType ==
    ASSUME NEW p \in Reconciler, NEW c \in RecPC, NEW l \in SUBSET Model,
           rec \in [Reconciler -> RecState]
    PROVE  [rec EXCEPT ![p].pc = c, ![p].listed = l] \in [Reconciler -> RecState]
<1> DEFINE t == [rec[p] EXCEPT !.pc = c, !.listed = l]
<1>1. t \in RecState
  BY DEF RecState
<1>2. [rec EXCEPT ![p].pc = c, ![p].listed = l] = [rec EXCEPT ![p] = t]
  OBVIOUS
<1> QED
  BY <1>1, <1>2

LEMMA HeldType ==
    ASSUME NEW p \in Reconciler, NEW c \in RecPC, NEW h \in 0..MapCount,
           rec \in [Reconciler -> RecState]
    PROVE  [rec EXCEPT ![p].pc = c, ![p].held = h] \in [Reconciler -> RecState]
<1> DEFINE t == [rec[p] EXCEPT !.pc = c, !.held = h]
<1>1. t \in RecState
  BY DEF RecState
<1>2. [rec EXCEPT ![p].pc = c, ![p].held = h] = [rec EXCEPT ![p] = t]
  OBVIOUS
<1> QED
  BY <1>1, <1>2

LEMMA StartPruneType ==
    ASSUME NEW p \in Reconciler, NEW s \in Seq(Model), NEW g \in BOOLEAN,
           rec \in [Reconciler -> RecState]
    PROVE  [rec EXCEPT ![p].pc = "prune", ![p].victims = s, ![p].governed = g]
              \in [Reconciler -> RecState]
<1> DEFINE t == [rec[p] EXCEPT !.pc = "prune", !.victims = s, !.governed = g]
<1>1. t \in RecState
  BY DEF RecState, RecPC
<1>2. [rec EXCEPT ![p].pc = "prune", ![p].victims = s, ![p].governed = g]
         = [rec EXCEPT ![p] = t]
  OBVIOUS
<1> QED
  BY <1>1, <1>2

LEMMA NextVictimType ==
    ASSUME TypeOK, NEW p \in Reconciler, Tail(rec[p].victims) \in Seq(Model), NextVictim(p)
    PROVE  rec' \in [Reconciler -> RecState]
<1>1. rec' = [rec EXCEPT ![p].pc = "prune", ![p].victims = Tail(rec[p].victims)]
  BY DEF NextVictim
<1> DEFINE t == [rec[p] EXCEPT !.pc = "prune", !.victims = Tail(rec[p].victims)]
<1>2. "prune" \in RecPC
  BY DEF RecPC
<1>3. t \in RecState
  BY <1>2, RecFields DEF RecState
<1>4. rec' = [rec EXCEPT ![p] = t]
  BY <1>1, RecFields
<1> QED
  BY <1>3, <1>4, RecFields

LEMMA ReturnType ==
    ASSUME TypeOK, NEW p \in Reconciler, Return(p)
    PROVE  /\ rec' \in [Reconciler -> RecState]
           /\ inFlight' \in SUBSET Ideal
           /\ recent' \in SUBSET Ideal
  BY IdleRecType DEF TypeOK, Return, releaseMark

-----------------------------------------------------------------------------
LEMMA InitIInv == Init => IInv
<1> SUFFICES ASSUME Init PROVE IInv
  OBVIOUS
<1>1. TypeOK
  BY IdleRecType, IdleReqType, BoundsAssumption
     DEF Init, TypeOK, MapId, RecState
<1>2. LocalsOK
  BY DEF Init, LocalsOK, RecLocals, IdleRec, IdleReq
<1>3. NoOrphanMark
  BY DEF Init, NoOrphanMark
<1>4. VictimsUnprotected
  <2>1. \A p \in Reconciler : rec[p].victims = << >>
    BY DEF Init, IdleRec
  <2> QED
    BY <2>1, EmptySeq DEF VictimsUnprotected
<1> QED
  BY <1>1, <1>2, <1>3, <1>4 DEF IInv

LEMMA TypeStep == IInv /\ [Next]_vars => TypeOK'
<1> SUFFICES ASSUME IInv, [Next]_vars PROVE TypeOK'
  OBVIOUS
<1> USE DEF IInv, hostVars, snapVars, pullVars, lruVars
<1>a. installed \in SUBSET Model
  BY DEF TypeOK
<1>1. CASE UNCHANGED vars
  BY <1>1 DEF vars, TypeOK
<1>2. CASE ReconcileTick
  <2>1. rec' \in [Reconciler -> RecState]
    BY <1>2, GotoType DEF ReconcileTick, RecPC, Reconciler
  <2> QED
    BY <1>2, <2>1 DEF ReconcileTick, TypeOK
<1>3. ASSUME NEW p \in Puller, HostInstalls(p) PROVE TypeOK'
  <2>1. rec' \in [Reconciler -> RecState]
    BY <1>3, GotoType DEF HostInstalls, RecPC, Reconciler
  <2>2. rec[p].target \in Model
    BY <1>3, NamesAssumption DEF HostInstalls, LocalsOK, RecLocals, Reconciler
  <2> QED
    BY <1>3, <2>1, <2>2 DEF HostInstalls, TypeOK
<1>4. ASSUME NEW p \in Puller, PullReturns(p) PROVE TypeOK'
  <2>1. rec' \in [Reconciler -> RecState]
    BY <1>4, GotoType DEF PullReturns, RecPC, Reconciler
  <2> QED
    BY <1>4, <2>1 DEF PullReturns, TypeOK
<1>5. ASSUME NEW p \in Puller, PullFails(p) PROVE TypeOK'
  <2>1. p \in Reconciler
    BY DEF Reconciler
  <2> QED
    BY <1>5, <2>1, ReturnType DEF PullFails, TypeOK
<1>6. ASSUME NEW p \in Reconciler, ReconcileStep(p) PROVE TypeOK'
  <2>1. CASE ListModels(p)
    <3>1. rec' = [rec EXCEPT ![p].pc = "publish", ![p].listed = installed]
      BY <2>1 DEF ListModels
    <3>2. rec' \in [Reconciler -> RecState]
      BY <3>1, <1>a, RecFields, ListedType DEF RecPC
    <3> QED
      BY <2>1, <3>2 DEF ListModels, TypeOK
  <2>2. CASE ListFails(p)
    <3>1. rec' = [rec EXCEPT ![p].pc = "stale", ![p].held = snap.map]
      BY <2>2 DEF ListFails
    <3>2. snap.map \in 0..MapCount
      BY BoundsAssumption DEF TypeOK, MapId
    <3>3. rec' \in [Reconciler -> RecState]
      BY <3>1, <3>2, RecFields, HeldType DEF RecPC
    <3> QED
      BY <2>2, <3>3 DEF ListFails, TypeOK
  <2>3. CASE MarkStale(p)
    <3>1. rec[p].held \in MapId
      BY <2>3 DEF MarkStale, LocalsOK, RecLocals
    <3>2. snap' \in [map : MapId, stale : BOOLEAN]
      BY <2>3, <3>1 DEF MarkStale
    <3> QED
      BY <2>3, <3>2, ReturnType, RetainedType DEF MarkStale, TypeOK
  <2>4. CASE Publish(p)
    <3>1. rec[p].listed \in SUBSET Model
      BY RecFields
    <3>2. /\ maps' \in [MapId -> SUBSET Model]
          /\ snap' \in [map : MapId, stale : BOOLEAN]
      BY <2>4, <3>1, SetSnapshotType DEF Publish
    <3>3. rec' \in [Reconciler -> RecState]
      BY <2>4, GotoType DEF Publish, RecPC
    <3> QED
      BY <2>4, <3>2, <3>3 DEF Publish, TypeOK
  <2>4a. CASE clearResolvedInFlight(p)
    <3>1. rec' = [rec EXCEPT ![p].pc = "load", ![p].listed = {}]
      BY <2>4a DEF clearResolvedInFlight
    <3>2. rec' \in [Reconciler -> RecState]
      BY <3>1, RecFields, ListedType DEF RecPC
    <3> QED
      BY <2>4a, <3>2 DEF clearResolvedInFlight, TypeOK
  <2>5. CASE LoadSnapshot(p)
    <3>1. CASE Return(p)
      BY <2>5, <3>1, ReturnType DEF LoadSnapshot, TypeOK
    <3>2. CASE ~Return(p)
      <4>1. /\ rec' = [rec EXCEPT ![p].pc = "stats", ![p].held = snap.map]
            /\ UNCHANGED pullVars
        BY <2>5, <3>2 DEF LoadSnapshot
      <4>2. snap.map \in 0..MapCount
        BY BoundsAssumption DEF TypeOK, MapId
      <4>3. rec' \in [Reconciler -> RecState]
        BY <4>1, <4>2, RecFields, HeldType DEF RecPC
      <4> QED
        BY <2>5, <4>1, <4>3 DEF LoadSnapshot, TypeOK
    <3> QED
      BY <3>1, <3>2
  <2>6. CASE CheckStats(p)
    <3>1. maps' \in [MapId -> SUBSET Model]
      BY <2>6, RetainedType DEF CheckStats, TypeOK
    <3>2. PICK answered \in StatsAnswers :
            \/ \E s \in prunableModels(maps[rec[p].held]) :
                 /\ rec' = [rec EXCEPT ![p].pc = "prune", ![p].victims = s,
                                       ![p].governed = answered]
                 /\ UNCHANGED pullVars
            \/ Return(p)
      BY <2>6 DEF CheckStats
    <3>3. CASE Return(p)
      BY <2>6, <3>1, <3>3, ReturnType DEF CheckStats, TypeOK
    <3>4. CASE ~Return(p)
      <4>1. PICK s \in prunableModels(maps[rec[p].held]) :
               /\ rec' = [rec EXCEPT ![p].pc = "prune", ![p].victims = s,
                                     ![p].governed = answered]
               /\ UNCHANGED pullVars
        BY <3>2, <3>4
      <4>2. rec[p].held \in MapId
        BY <2>6 DEF CheckStats, LocalsOK, RecLocals
      <4>3. maps[rec[p].held] \in SUBSET Model
        BY <4>2 DEF TypeOK
      <4>4. s \in Seq(Model)
        BY <4>3, PrunableModels, SeqMonotonic
      <4>5. answered \in BOOLEAN
        BY BoundsAssumption
      <4>6. rec' \in [Reconciler -> RecState]
        BY <4>1, <4>4, <4>5, RecFields, StartPruneType
      <4> QED
        BY <2>6, <3>1, <4>1, <4>6 DEF CheckStats, TypeOK
    <3> QED
      BY <3>3, <3>4
  <2>7. CASE PruneCheck(p)
    <3>1. PICK c \in RecPC : Goto(p, c)
      BY <2>7 DEF PruneCheck, RecPC
    <3>2. rec' \in [Reconciler -> RecState]
      BY <3>1, GotoType
    <3> QED
      BY <2>7, <3>2 DEF PruneCheck, TypeOK
  <2>8. CASE DeleteModel(p)
    <3>1. Head(rec[p].victims) \in Model /\ Tail(rec[p].victims) \in Seq(Model)
      BY <2>8, RecFields, HeadTailProperties DEF DeleteModel, LocalsOK, RecLocals
    <3>2. used' \in SUBSET Model /\ newer' \in SUBSET (Model \X Model)
      BY <2>8, <3>1, ForgetModelType DEF DeleteModel
    <3>3. rec' \in [Reconciler -> RecState]
      BY <2>8, <3>1, NextVictimType DEF DeleteModel
    <3> QED
      BY <2>8, <3>2, <3>3 DEF DeleteModel, TypeOK
  <2>9. CASE DeleteFails(p)
    <3>1. Tail(rec[p].victims) \in Seq(Model)
      BY <2>9, RecFields, HeadTailProperties DEF DeleteFails, LocalsOK, RecLocals
    <3> QED
      BY <2>9, <3>1, NextVictimType DEF DeleteFails, TypeOK
  <2>10. CASE SyncSnapshot(p)
    <3>1. rec[p].held \in MapId
      BY <2>10 DEF SyncSnapshot, LocalsOK, RecLocals
    <3>2. /\ maps' \in [MapId -> SUBSET Model]
          /\ snap' \in [map : MapId, stale : BOOLEAN]
      BY <2>10, <3>1, SetSnapshotType DEF SyncSnapshot, TypeOK
    <3> QED
      BY <2>10, <3>2, ReturnType DEF SyncSnapshot, TypeOK
  <2> QED
    BY <1>6, <2>1, <2>2, <2>3, <2>4, <2>4a, <2>5, <2>6, <2>7, <2>8, <2>9, <2>10
       DEF ReconcileStep
<1>7. ASSUME NEW r \in Request, ListAvailable(r) PROVE TypeOK'
  <2>1. req' \in [Request -> ReqState]
    BY <1>7, <1>a, ReqFields DEF ListAvailable, ReqPC, ReqState
  <2> QED
    BY <1>7, <2>1 DEF ListAvailable, TypeOK
<1>8. ASSUME NEW r \in Request, RouteStep(r) PROVE TypeOK'
  <2>1. CASE NothingAvailable(r)
    BY <2>1, IdleReqType DEF NothingAvailable, TypeOK
  <2>2. CASE ChooseIdeal(r)
    <3>1. PICK i \in Ideal : markModelUsed(i)
      BY <2>2 DEF ChooseIdeal
    <3>2. used' \in SUBSET Model /\ newer' \in SUBSET (Model \X Model)
      BY <3>1, MarkModelUsedType, NamesAssumption
    <3> QED
      BY <2>2, <3>2, IdleReqType DEF ChooseIdeal, TypeOK
  <2>3. CASE IdealUnusable(r)
    <3>1. Effective(r) \in SUBSET Model
      BY ReqFields DEF Effective, TypeOK
    <3>2. req' \in [Request -> ReqState]
      BY <2>3, <3>1, ReqFields, NamesAssumption DEF IdealUnusable, ReqPC, ReqState
    <3> QED
      BY <2>3, <3>2 DEF IdealUnusable, TypeOK
  <2>4. CASE CheckRecent(r)
    BY <2>4, ChooseOtherType DEF CheckRecent, TypeOK, ReqPC, ReqState
  <2>5. CASE MarkInFlight(r)
    <3>1. req[r].ideal \in Ideal
      BY <2>5 DEF MarkInFlight, LocalsOK
    <3> QED
      BY <2>5, <3>1, ChooseOtherType DEF MarkInFlight, TypeOK, ReqPC, ReqState
  <2>6. CASE SpawnPull(r)
    <3>1. req[r].ideal \in Ideal /\ req[r].ideal \in Model
      BY <2>6, NamesAssumption DEF SpawnPull, LocalsOK
    <3>2. PICK p \in Puller :
            rec' = [rec EXCEPT ![p] = [IdleRec EXCEPT !.pc = "pull", !.target = req[r].ideal]]
      BY <2>6 DEF SpawnPull
    <3>3. [IdleRec EXCEPT !.pc = "pull", !.target = req[r].ideal] \in RecState
      BY <3>1, IdleRecType DEF RecState, RecPC
    <3>4. rec' \in [Reconciler -> RecState]
      BY <3>2, <3>3 DEF TypeOK, RecState
    <3> QED
      BY <2>6, <3>1, <3>4, ChooseOtherType DEF SpawnPull, TypeOK, RecState
  <2> QED
    BY <1>8, <2>1, <2>2, <2>3, <2>4, <2>5, <2>6 DEF RouteStep
<1>9. ASSUME NEW m \in Model, CooldownEnds(m) PROVE TypeOK'
  BY <1>9 DEF CooldownEnds, TypeOK
<1>10. ASSUME NEW m \in Model, ExternalChange(m) PROVE TypeOK'
  BY <1>10, BoundsAssumption DEF ExternalChange, TypeOK
<1> QED
  BY <1>1, <1>2, <1>3, <1>4, <1>5, <1>6, <1>7, <1>8, <1>9, <1>10 DEF Next, PullStep

-----------------------------------------------------------------------------
\* What a step of one reconciler does to the control state: it is alone in
\* moving, marks only disappear, and it ends by dropping its own mark.
Moves(p) ==
    /\ req' = req
    /\ inFlight' \subseteq inFlight
    /\ \A q \in Reconciler : q # p => rec'[q] = rec[q]
    /\ \/ /\ rec'[p] = IdleRec
          /\ p = Loop \/ rec[p].target \notin inFlight'
       \/ rec'[p].pc # "idle" /\ rec'[p].target = rec[p].target

LEMMA GotoMoves ==
    ASSUME TypeOK, NEW p \in Reconciler, NEW c, c # "idle", Goto(p, c),
           UNCHANGED <<inFlight, req>>
    PROVE  Moves(p)
  BY RecFields DEF Goto, Moves

LEMMA ReturnMoves ==
    ASSUME TypeOK, NEW p \in Reconciler, Return(p), UNCHANGED req
    PROVE  Moves(p)
  BY RecFields DEF Return, releaseMark, Moves

LEMMA NextVictimMoves ==
    ASSUME TypeOK, NEW p \in Reconciler, NextVictim(p), UNCHANGED <<inFlight, req>>
    PROVE  Moves(p)
  BY RecFields DEF NextVictim, Moves

LEMMA ReconcilerMoves ==
    ASSUME TypeOK, NEW p \in Reconciler,
           \/ p = Loop /\ ReconcileTick
           \/ p \in Puller /\ PullStep(p)
           \/ ReconcileStep(p)
    PROVE  Moves(p)
<1> USE DEF pullVars
<1>1. CASE p = Loop /\ ReconcileTick
  BY <1>1, GotoMoves DEF ReconcileTick
<1>2. CASE HostInstalls(p)
  BY <1>2, GotoMoves DEF HostInstalls
<1>3. CASE PullReturns(p)
  BY <1>3, GotoMoves DEF PullReturns
<1>4. CASE PullFails(p)
  BY <1>4, ReturnMoves DEF PullFails
<1>5. CASE ListModels(p)
  BY <1>5, RecFields DEF ListModels, Moves
<1>6. CASE ListFails(p)
  BY <1>6, RecFields DEF ListFails, Moves
<1>7. CASE MarkStale(p)
  BY <1>7, ReturnMoves DEF MarkStale
<1>8. CASE Publish(p)
  BY <1>8, GotoMoves DEF Publish
<1>8a. CASE clearResolvedInFlight(p)
  BY <1>8a, RecFields DEF clearResolvedInFlight, Moves
<1>9. CASE LoadSnapshot(p)
  <2>1. CASE Return(p)
    BY <1>9, <2>1, ReturnMoves DEF LoadSnapshot
  <2>2. CASE ~Return(p)
    <3>1. /\ rec' = [rec EXCEPT ![p].pc = "stats", ![p].held = snap.map]
          /\ UNCHANGED pullVars
      BY <1>9, <2>2 DEF LoadSnapshot
    <3>2. req' = req
      BY <1>9 DEF LoadSnapshot
    <3> QED
      BY <3>1, <3>2, RecFields DEF Moves
  <2> QED
    BY <2>1, <2>2
<1>10. CASE CheckStats(p)
  <2>1. CASE Return(p)
    BY <1>10, <2>1, ReturnMoves DEF CheckStats
  <2>2. CASE ~Return(p)
    <3>1. PICK answered \in StatsAnswers, s \in prunableModels(maps[rec[p].held]) :
             /\ rec' = [rec EXCEPT ![p].pc = "prune", ![p].victims = s,
                                   ![p].governed = answered]
             /\ UNCHANGED pullVars
      BY <1>10, <2>2 DEF CheckStats
    <3>2. req' = req
      BY <1>10 DEF CheckStats
    <3> QED
      BY <3>1, <3>2, RecFields DEF Moves
  <2> QED
    BY <2>1, <2>2
<1>11. CASE PruneCheck(p)
  <2>1. PICK c \in {"sync", "delete"} : Goto(p, c)
    BY <1>11 DEF PruneCheck
  <2> QED
    BY <1>11, <2>1, GotoMoves DEF PruneCheck
<1>12. CASE DeleteModel(p)
  BY <1>12, NextVictimMoves DEF DeleteModel
<1>13. CASE DeleteFails(p)
  BY <1>13, NextVictimMoves DEF DeleteFails
<1>14. CASE SyncSnapshot(p)
  BY <1>14, ReturnMoves DEF SyncSnapshot
<1> QED
  BY <1>1, <1>2, <1>3, <1>4, <1>5, <1>6, <1>7, <1>8, <1>8a, <1>9, <1>10, <1>11,
     <1>12, <1>13, <1>14 DEF PullStep, ReconcileStep

\* A step of a reconciler leaves no mark behind.
LEMMA MovesKeepMarks ==
    ASSUME NoOrphanMark, NEW p \in Reconciler, Moves(p), Loop \notin Puller
    PROVE  NoOrphanMark'
<1> SUFFICES ASSUME NEW m \in inFlight'
             PROVE  \/ \E q \in Puller : rec'[q].pc # "idle" /\ rec'[q].target = m
                    \/ \E r \in Request : req'[r].pc = "spawn" /\ req'[r].ideal = m
  BY DEF NoOrphanMark
<1>1. m \in inFlight
  BY DEF Moves
<1>2. CASE \E r \in Request : req[r].pc = "spawn" /\ req[r].ideal = m
  BY <1>2 DEF Moves
<1>3. CASE \E q \in Puller : rec[q].pc # "idle" /\ rec[q].target = m
  <2>1. PICK q \in Puller : rec[q].pc # "idle" /\ rec[q].target = m
    BY <1>3
  <2>2. CASE q = p
    BY <2>1, <2>2 DEF Moves
  <2>3. CASE q # p
    BY <2>1, <2>3 DEF Moves, Reconciler
  <2> QED
    BY <2>2, <2>3
<1> QED
  BY <1>1, <1>2, <1>3 DEF NoOrphanMark

LEMMA OrphanStep == IInv /\ [Next]_vars => NoOrphanMark'
<1> SUFFICES ASSUME IInv, [Next]_vars PROVE NoOrphanMark'
  OBVIOUS
<1>a. TypeOK /\ LocalsOK /\ NoOrphanMark
  BY DEF IInv
<1> USE DEF pullVars
<1>1. CASE UNCHANGED vars
  BY <1>1, <1>a DEF vars, NoOrphanMark
<1>2. CASE ReconcileTick
  BY <1>2, <1>a, ReconcilerMoves, MovesKeepMarks, NamesAssumption DEF Reconciler
<1>3. ASSUME NEW p \in Puller, PullStep(p) PROVE NoOrphanMark'
  BY <1>3, <1>a, ReconcilerMoves, MovesKeepMarks, NamesAssumption DEF Reconciler
<1>4. ASSUME NEW p \in Reconciler, ReconcileStep(p) PROVE NoOrphanMark'
  BY <1>4, <1>a, ReconcilerMoves, MovesKeepMarks, NamesAssumption
<1>5. ASSUME NEW r \in Request, ListAvailable(r) PROVE NoOrphanMark'
  BY <1>5, <1>a, ReqFields DEF ListAvailable, NoOrphanMark
<1>6. ASSUME NEW r \in Request, RouteStep(r) PROVE NoOrphanMark'
  <2>1. CASE NothingAvailable(r)
    BY <2>1, <1>a, ReqFields DEF NothingAvailable, NoOrphanMark
  <2>2. CASE ChooseIdeal(r)
    BY <2>2, <1>a, ReqFields DEF ChooseIdeal, NoOrphanMark
  <2>3. CASE IdealUnusable(r)
    <3>1. /\ req[r].pc = "listed" /\ inFlight' = inFlight /\ rec' = rec
          /\ \A q \in Request : q # r => req'[q] = req[q]
      BY <2>3, <1>a, ReqFields DEF IdealUnusable
    <3> QED
      BY <3>1, <1>a DEF NoOrphanMark
  <2>4. CASE CheckRecent(r)
    <3>1. /\ req[r].pc = "check" /\ inFlight' = inFlight /\ rec' = rec
          /\ \A q \in Request : q # r => req'[q] = req[q]
      BY <2>4, <1>a, ReqFields DEF CheckRecent, ChooseOther
    <3> QED
      BY <3>1, <1>a DEF NoOrphanMark
  <2>5. CASE MarkInFlight(r)
    <3>1. CASE req[r].ideal \in inFlight
      BY <2>5, <3>1, <1>a, ReqFields DEF MarkInFlight, ChooseOther, NoOrphanMark
    <3>2. CASE req[r].ideal \notin inFlight
      <4>1. /\ inFlight' = inFlight \cup {req[r].ideal}
            /\ req' = [req EXCEPT ![r].pc = "spawn"]
            /\ req[r].pc = "mark"
            /\ rec' = rec
        BY <2>5, <3>2 DEF MarkInFlight
      <4>2. /\ req'[r].pc = "spawn" /\ req'[r].ideal = req[r].ideal
            /\ \A q \in Request : q # r => req'[q] = req[q]
        BY <4>1, <1>a, ReqFields DEF ReqState
      <4> QED
        BY <4>1, <4>2, <1>a DEF NoOrphanMark
    <3> QED
      BY <3>1, <3>2
  <2>6. CASE SpawnPull(r)
    <3>1. PICK p \in Puller :
             /\ rec[p].pc = "idle"
             /\ rec' = [rec EXCEPT ![p] = [IdleRec EXCEPT !.pc = "pull", !.target = req[r].ideal]]
      BY <2>6 DEF SpawnPull
    <3>2. /\ rec'[p].pc = "pull" /\ rec'[p].target = req[r].ideal
          /\ \A q \in Puller : q # p => rec'[q] = rec[q]
      BY <3>1, <1>a, RecFields DEF Reconciler, IdleRec
    <3>3. inFlight' = inFlight /\ req' = [req EXCEPT ![r] = IdleReq]
      BY <2>6, <1>a, ChooseOtherType DEF SpawnPull
    <3>4. \A q \in Request : q # r => req'[q] = req[q]
      BY <3>3, <1>a, ReqFields
    <3> QED
      BY <3>1, <3>2, <3>3, <3>4, <1>a DEF NoOrphanMark
  <2> QED
    BY <1>6, <2>1, <2>2, <2>3, <2>4, <2>5, <2>6 DEF RouteStep
<1>7. ASSUME NEW m \in Model, CooldownEnds(m) \/ ExternalChange(m) PROVE NoOrphanMark'
  BY <1>7, <1>a DEF CooldownEnds, ExternalChange, NoOrphanMark
<1> QED
  BY <1>1, <1>2, <1>3, <1>4, <1>5, <1>6, <1>7 DEF Next

-----------------------------------------------------------------------------
\* The list of victims is empty, unchanged, freshly computed or shortened.
LEMMA VictimsStep == IInv /\ [Next]_vars => VictimsUnprotected'
<1> SUFFICES ASSUME IInv, [Next]_vars PROVE VictimsUnprotected'
  OBVIOUS
<1>a. TypeOK /\ LocalsOK /\ VictimsUnprotected
  BY DEF IInv
<1>b. << >> \in Seq(Model \ protectedModels)
  BY EmptySeq
<1>c. ASSUME rec' = rec PROVE VictimsUnprotected'
  BY <1>a, <1>c DEF VictimsUnprotected, protectedModels
<1>d. ASSUME NEW p \in Reconciler,
             \A q \in Reconciler : q # p => rec'[q] = rec[q],
             rec'[p].victims \in Seq(Model \ protectedModels)
      PROVE  VictimsUnprotected'
  BY <1>a, <1>d DEF VictimsUnprotected, protectedModels
<1>e. ASSUME NEW p \in Reconciler, NEW c, Goto(p, c) PROVE VictimsUnprotected'
  <2>1. /\ \A q \in Reconciler : q # p => rec'[q] = rec[q]
        /\ rec'[p].victims = rec[p].victims
    BY <1>a, <1>e, RecFields DEF Goto, RecState
  <2> QED
    BY <1>a, <1>d, <2>1 DEF VictimsUnprotected
<1>f. ASSUME NEW p \in Reconciler, NEW s \in RecState, rec' = [rec EXCEPT ![p] = s],
             s.victims \in Seq(Model \ protectedModels)
      PROVE  VictimsUnprotected'
  BY <1>a, <1>d, <1>f, RecFields
<1>g. ASSUME NEW p \in Reconciler, Return(p) PROVE VictimsUnprotected'
  BY <1>b, <1>f, <1>g, IdleRecType DEF Return, IdleRec
<1>h. ASSUME NEW p \in Reconciler, rec[p].victims # << >>, NextVictim(p)
      PROVE  VictimsUnprotected'
  <2>1. Tail(rec[p].victims) \in Seq(Model \ protectedModels)
    BY <1>a, <1>h, HeadTailProperties DEF VictimsUnprotected
  <2>2. /\ \A q \in Reconciler : q # p => rec'[q] = rec[q]
        /\ rec'[p].victims = Tail(rec[p].victims)
    BY <1>a, <1>h, RecFields DEF NextVictim, RecState
  <2> QED
    BY <1>d, <2>1, <2>2
<1>1. CASE UNCHANGED vars
  BY <1>1, <1>c DEF vars
<1>2. CASE ReconcileTick
  BY <1>2, <1>e DEF ReconcileTick, Reconciler
<1>3. ASSUME NEW p \in Puller, PullStep(p) PROVE VictimsUnprotected'
  BY <1>3, <1>e, <1>g DEF PullStep, HostInstalls, PullReturns, PullFails, Reconciler
<1>4. ASSUME NEW p \in Reconciler, ReconcileStep(p) PROVE VictimsUnprotected'
  <2>a. rec[p].victims \in Seq(Model \ protectedModels)
    BY <1>a DEF VictimsUnprotected
  <2>b. ASSUME \A q \in Reconciler : q # p => rec'[q] = rec[q],
               rec'[p].victims = rec[p].victims
        PROVE  VictimsUnprotected'
    BY <1>d, <2>a, <2>b
  <2>1. CASE ListModels(p)
    BY <2>1, <2>b, <1>a, RecFields DEF ListModels, RecState
  <2>2. CASE ListFails(p)
    BY <2>2, <2>b, <1>a, RecFields DEF ListFails, RecState
  <2>3. CASE MarkStale(p) \/ SyncSnapshot(p)
    BY <2>3, <1>g DEF MarkStale, SyncSnapshot
  <2>4. CASE Publish(p)
    BY <2>4, <1>e DEF Publish
  <2>4a. CASE clearResolvedInFlight(p)
    BY <2>4a, <2>b, <1>a, RecFields DEF clearResolvedInFlight, RecState
  <2>5. CASE LoadSnapshot(p)
    <3>1. CASE rec' = [rec EXCEPT ![p].pc = "stats", ![p].held = snap.map]
      BY <3>1, <2>b, <1>a, RecFields DEF RecState
    <3> QED
      BY <2>5, <3>1, <1>g DEF LoadSnapshot
  <2>6. CASE CheckStats(p)
    <3>1. CASE Return(p)
      BY <3>1, <1>g
    <3>2. CASE ~Return(p)
      <4>1. PICK answered \in StatsAnswers, s \in prunableModels(maps[rec[p].held]) :
               rec' = [rec EXCEPT ![p].pc = "prune", ![p].victims = s,
                                  ![p].governed = answered]
        BY <2>6, <3>2 DEF CheckStats
      <4>2. maps[rec[p].held] \in SUBSET Model
        BY <2>6, <1>a DEF CheckStats, LocalsOK, RecLocals, TypeOK
      <4>3. s \in Seq(Model \ protectedModels)
        BY <4>2, PrunableModels
      <4>4. /\ \A q \in Reconciler : q # p => rec'[q] = rec[q]
            /\ rec'[p].victims = s
        BY <4>1, <1>a, RecFields DEF RecState
      <4> QED
        BY <4>3, <4>4, <1>d
    <3> QED
      BY <3>1, <3>2
  <2>7. CASE PruneCheck(p)
    BY <2>7, <1>e DEF PruneCheck
  <2>8. CASE DeleteModel(p)
    BY <2>8, <1>a, <1>h DEF DeleteModel, LocalsOK, RecLocals
  <2>9. CASE DeleteFails(p)
    BY <2>9, <1>a, <1>h DEF DeleteFails, LocalsOK, RecLocals
  <2> QED
    BY <1>4, <2>1, <2>2, <2>3, <2>4, <2>4a, <2>5, <2>6, <2>7, <2>8, <2>9 DEF ReconcileStep
<1>5. ASSUME NEW r \in Request, ListAvailable(r) PROVE VictimsUnprotected'
  BY <1>5, <1>c DEF ListAvailable
<1>6. ASSUME NEW r \in Request, RouteStep(r) PROVE VictimsUnprotected'
  <2>1. CASE SpawnPull(r)
    <3>1. PICK p \in Puller :
             rec' = [rec EXCEPT ![p] = [IdleRec EXCEPT !.pc = "pull", !.target = req[r].ideal]]
      BY <2>1 DEF SpawnPull
    <3>2. req[r].ideal \in Model
      BY <2>1, <1>a, NamesAssumption DEF SpawnPull, LocalsOK
    <3>3. [IdleRec EXCEPT !.pc = "pull", !.target = req[r].ideal] \in RecState
      BY <3>2, IdleRecType DEF RecState, RecPC
    <3>4. [IdleRec EXCEPT !.pc = "pull", !.target = req[r].ideal].victims = << >>
      BY DEF IdleRec
    <3> QED
      BY <3>1, <3>3, <3>4, <1>b, <1>f DEF Reconciler
  <2> QED
    BY <1>6, <2>1, <1>c DEF RouteStep, NothingAvailable, ChooseIdeal, IdealUnusable,
                            CheckRecent, MarkInFlight
<1>7. ASSUME NEW m \in Model, CooldownEnds(m) \/ ExternalChange(m) PROVE VictimsUnprotected'
  BY <1>7, <1>c DEF CooldownEnds, ExternalChange
<1> QED
  BY <1>1, <1>2, <1>3, <1>4, <1>5, <1>6, <1>7 DEF Next

-----------------------------------------------------------------------------
LEMMA LocalsStep == IInv /\ [Next]_vars => LocalsOK'
<1> SUFFICES ASSUME IInv, [Next]_vars PROVE LocalsOK'
  OBVIOUS
<1>a. TypeOK /\ LocalsOK
  BY DEF IInv
<1>b. ASSUME rec' = rec, req' = req PROVE LocalsOK'
  BY <1>a, <1>b DEF LocalsOK, RecLocals, MapId
<1>c. ASSUME NEW p \in Reconciler, req' = req, RecLocals(rec'[p]),
             \A q \in Reconciler : q # p => rec'[q] = rec[q]
      PROVE  LocalsOK'
  BY <1>a, <1>c DEF LocalsOK, RecLocals, MapId
<1>d. ASSUME NEW p \in Reconciler, NEW c \in RecPC, Goto(p, c), req' = req,
             RecLocals([rec[p] EXCEPT !.pc = c])
      PROVE  LocalsOK'
  BY <1>a, <1>c, <1>d, RecFields DEF Goto
<1>e. RecLocals(IdleRec)
  BY DEF IdleRec, RecLocals
<1>f. ASSUME NEW p \in Reconciler, Return(p), req' = req PROVE LocalsOK'
  BY <1>a, <1>c, <1>e, <1>f, RecFields DEF Return
<1>g. ASSUME NEW p \in Reconciler, NextVictim(p), req' = req, rec[p].held \in MapId
      PROVE  LocalsOK'
  BY <1>a, <1>c, <1>g, RecFields DEF NextVictim, RecLocals, RecState
<1>h. ASSUME NEW r \in Request, rec' = rec,
             req'[r].pc \in {"check", "mark", "spawn"} => req'[r].ideal \in Ideal,
             \A q \in Request : q # r => req'[q] = req[q]
      PROVE  LocalsOK'
  BY <1>a, <1>h DEF LocalsOK, RecLocals, MapId
<1>i. snap.map \in MapId
  BY <1>a DEF TypeOK
<1>1. CASE UNCHANGED vars
  BY <1>1, <1>b DEF vars
<1>2. CASE ReconcileTick
  <2>1. Loop \in Reconciler /\ rec[Loop] \in RecState
    BY <1>a, RecFields DEF Reconciler
  <2>2. RecLocals([rec[Loop] EXCEPT !.pc = "list"])
    BY <2>1 DEF RecLocals, RecState
  <2> QED
    BY <1>2, <1>d, <2>1, <2>2 DEF ReconcileTick, RecPC
<1>3. ASSUME NEW p \in Puller, PullStep(p) PROVE LocalsOK'
  <2>1. p \in Reconciler /\ rec[p] \in RecState /\ RecLocals(rec[p])
    BY <1>a, RecFields DEF LocalsOK, Reconciler
  <2>2. CASE HostInstalls(p)
    <3>1. RecLocals([rec[p] EXCEPT !.pc = "pulled"])
      BY <2>1, <2>2 DEF HostInstalls, RecLocals, RecState
    <3> QED
      BY <2>1, <2>2, <3>1, <1>d DEF HostInstalls, RecPC
  <2>3. CASE PullReturns(p)
    <3>1. RecLocals([rec[p] EXCEPT !.pc = "list"])
      BY <2>1, <2>3 DEF PullReturns, RecLocals, RecState
    <3> QED
      BY <2>1, <2>3, <3>1, <1>d DEF PullReturns, RecPC
  <2>4. CASE PullFails(p)
    BY <2>1, <2>4, <1>f DEF PullFails
  <2> QED
    BY <1>3, <2>2, <2>3, <2>4 DEF PullStep
<1>4. ASSUME NEW p \in Reconciler, ReconcileStep(p) PROVE LocalsOK'
  <2>a. rec[p] \in RecState /\ RecLocals(rec[p])
    BY <1>a, RecFields DEF LocalsOK
  <2>1. CASE ListModels(p)
    BY <2>1, <1>a, <1>c, RecFields DEF ListModels, RecLocals, RecState
  <2>2. CASE ListFails(p)
    BY <2>2, <1>a, <1>c, <1>i, RecFields DEF ListFails, RecLocals, RecState
  <2>3. CASE MarkStale(p)
    BY <2>3, <1>f DEF MarkStale
  <2>4. CASE Publish(p)
    <3>1. RecLocals([rec[p] EXCEPT !.pc = "clear"])
      BY <2>a, <2>4 DEF RecLocals, RecState
    <3> QED
      BY <2>4, <3>1, <1>d DEF Publish, RecPC
  <2>4a. CASE clearResolvedInFlight(p)
    BY <2>4a, <1>a, <1>c, RecFields DEF clearResolvedInFlight, RecLocals, RecState
  <2>5. CASE LoadSnapshot(p)
    <3>1. CASE rec' = [rec EXCEPT ![p].pc = "stats", ![p].held = snap.map]
      BY <2>5, <3>1, <1>a, <1>c, <1>i, RecFields DEF LoadSnapshot, RecLocals, RecState
    <3> QED
      BY <2>5, <3>1, <1>f DEF LoadSnapshot
  <2>6. CASE CheckStats(p)
    <3>1. CASE Return(p)
      BY <2>6, <3>1, <1>f DEF CheckStats
    <3>2. CASE ~Return(p)
      <4>1. PICK answered \in StatsAnswers, s \in prunableModels(maps[rec[p].held]) :
               rec' = [rec EXCEPT ![p].pc = "prune", ![p].victims = s,
                                  ![p].governed = answered]
        BY <2>6, <3>2 DEF CheckStats
      <4>2. rec[p].held \in MapId
        BY <2>a, <2>6 DEF CheckStats, RecLocals
      <4>3. /\ \A q \in Reconciler : q # p => rec'[q] = rec[q]
            /\ rec'[p].pc = "prune" /\ rec'[p].held = rec[p].held
        BY <4>1, <1>a, RecFields DEF RecState
      <4>4. RecLocals(rec'[p])
        BY <4>2, <4>3 DEF RecLocals
      <4> QED
        BY <2>6, <4>3, <4>4, <1>c DEF CheckStats
    <3> QED
      BY <3>1, <3>2
  <2>7. CASE PruneCheck(p)
    <3>1. PICK c \in {"sync", "delete"} :
             Goto(p, c) /\ (c = "delete" => rec[p].victims # << >>)
      BY <2>7 DEF PruneCheck
    <3>2. RecLocals([rec[p] EXCEPT !.pc = c])
      BY <2>a, <2>7, <3>1 DEF PruneCheck, RecLocals, RecState
    <3> QED
      BY <2>7, <3>1, <3>2, <1>d DEF PruneCheck, RecPC
  <2>8. CASE DeleteModel(p)
    BY <2>a, <2>8, <1>g DEF DeleteModel, RecLocals
  <2>9. CASE DeleteFails(p)
    BY <2>a, <2>9, <1>g DEF DeleteFails, RecLocals
  <2>10. CASE SyncSnapshot(p)
    BY <2>10, <1>f DEF SyncSnapshot
  <2> QED
    BY <1>4, <2>1, <2>2, <2>3, <2>4, <2>4a, <2>5, <2>6, <2>7, <2>8, <2>9, <2>10
       DEF ReconcileStep
<1>5. ASSUME NEW r \in Request, ListAvailable(r) PROVE LocalsOK'
  BY <1>5, <1>a, <1>h, ReqFields DEF ListAvailable, ReqState
<1>6. ASSUME NEW r \in Request, RouteStep(r) PROVE LocalsOK'
  <2>a. req[r] \in ReqState
    BY <1>a, ReqFields
  <2>b. ASSUME req' = [req EXCEPT ![r] = IdleReq], rec' = rec PROVE LocalsOK'
    BY <1>a, <1>h, <2>b, ReqFields DEF IdleReq
  <2>1. CASE NothingAvailable(r) \/ ChooseIdeal(r)
    BY <2>1, <2>b DEF NothingAvailable, ChooseIdeal
  <2>2. CASE IdealUnusable(r)
    <3>1. PICK i \in Ideal :
             req' = [req EXCEPT ![r] = [pc |-> "check", ideal |-> i, view |-> Effective(r)]]
      BY <2>2 DEF IdealUnusable
    <3> QED
      BY <2>2, <3>1, <1>a, <1>h, ReqFields DEF IdealUnusable
  <2>3. CASE CheckRecent(r)
    <3>1. CASE ChooseOther(r)
      BY <2>3, <3>1, <2>b DEF CheckRecent, ChooseOther
    <3>2. CASE req' = [req EXCEPT ![r].pc = "mark"]
      BY <2>3, <3>2, <2>a, <1>a, <1>h, ReqFields DEF CheckRecent, LocalsOK, ReqState
    <3> QED
      BY <2>3, <3>1, <3>2 DEF CheckRecent
  <2>4. CASE MarkInFlight(r)
    <3>1. CASE ChooseOther(r)
      BY <2>4, <3>1, <2>b DEF MarkInFlight, ChooseOther
    <3>2. CASE req' = [req EXCEPT ![r].pc = "spawn"]
      BY <2>4, <3>2, <2>a, <1>a, <1>h, ReqFields DEF MarkInFlight, LocalsOK, ReqState
    <3> QED
      BY <2>4, <3>1, <3>2 DEF MarkInFlight
  <2>5. CASE SpawnPull(r)
    <3>1. PICK p \in Puller :
             rec' = [rec EXCEPT ![p] = [IdleRec EXCEPT !.pc = "pull", !.target = req[r].ideal]]
      BY <2>5 DEF SpawnPull
    <3>2. req[r].ideal \in Ideal
      BY <2>5, <1>a DEF SpawnPull, LocalsOK
    <3>3. RecLocals([IdleRec EXCEPT !.pc = "pull", !.target = req[r].ideal])
      BY <3>2 DEF IdleRec, RecLocals
    <3>4. \A q \in Reconciler : RecLocals(rec'[q])
      BY <3>1, <3>3, <1>a, RecFields DEF LocalsOK
    <3>5. req' = [req EXCEPT ![r] = IdleReq]
      BY <2>5 DEF SpawnPull, ChooseOther
    <3>6. \A q \in Request : req'[q].pc \in {"check", "mark", "spawn"} => req'[q].ideal \in Ideal
      BY <3>5, <1>a, ReqFields DEF LocalsOK, IdleReq
    <3> QED
      BY <3>4, <3>6 DEF LocalsOK, RecLocals, MapId
  <2> QED
    BY <1>6, <2>1, <2>2, <2>3, <2>4, <2>5 DEF RouteStep
<1>7. ASSUME NEW m \in Model, CooldownEnds(m) \/ ExternalChange(m) PROVE LocalsOK'
  BY <1>7, <1>b DEF CooldownEnds, ExternalChange
<1> QED
  BY <1>1, <1>2, <1>3, <1>4, <1>5, <1>6, <1>7 DEF Next

-----------------------------------------------------------------------------
(* The theorems.                                                           *)

\* The invariant holds in every reachable state.
THEOREM Inductive == Spec => []IInv
<1>1. Init => IInv
  BY InitIInv
<1>2. IInv /\ [Next]_vars => IInv'
  BY TypeStep, LocalsStep, OrphanStep, VictimsStep DEF IInv
<1> QED
  BY <1>1, <1>2, PTL DEF Spec

\* Type correctness: every variable of the router and every local of its
\* goroutines keeps to its type.
THEOREM TypeCorrect == Spec => []TypeOK
<1>1. IInv => TypeOK
  BY DEF IInv
<1> QED
  BY <1>1, Inductive, PTL

\* No in-flight mark outlives the goroutines that could remove it, however
\* many pulls, reconcilers and requests there are.
THEOREM MarksHaveOwners == Spec => []NoOrphanMark
<1>1. IInv => NoOrphanMark
  BY DEF IInv
<1> QED
  BY <1>1, Inductive, PTL

\* Only deletes of prunable models take models off the host.
LEMMA PruneOnlyUnprotected ==
    ASSUME IInv, [Next]_vars, NEW m \in protectedModels, m \in installed, m \notin installed'
    PROVE  env' # env
<1> USE DEF hostVars
<1>1. env \in Nat
  BY BoundsAssumption DEF IInv, TypeOK
<1>2. CASE \E x \in Model : ExternalChange(x)
  BY <1>1, <1>2 DEF ExternalChange
<1>3. ASSUME NEW p \in Reconciler, DeleteModel(p) \/ DeleteFails(p) PROVE FALSE
  <2>1. rec[p].victims # << >>
    BY <1>3 DEF DeleteModel, DeleteFails, IInv, LocalsOK, RecLocals
  <2>2. Head(rec[p].victims) \in Model \ protectedModels
    BY <2>1, HeadTailProperties DEF IInv, VictimsUnprotected
  <2> QED
    BY <1>3, <2>2 DEF DeleteModel, DeleteFails
<1>4. CASE installed' = installed
  BY <1>4
<1>5. CASE \E p \in Puller : HostInstalls(p)
  BY <1>5 DEF HostInstalls
<1>6. CASE UNCHANGED vars
  BY <1>6 DEF vars
<1> QED
  BY <1>2, <1>3, <1>4, <1>5, <1>6
     DEF Next, PullStep, ReconcileStep, RouteStep, ReconcileTick, PullReturns, PullFails,
         ListModels, ListFails, MarkStale, Publish, clearResolvedInFlight, LoadSnapshot, CheckStats, PruneCheck,
         SyncSnapshot, ListAvailable, NothingAvailable, ChooseIdeal, IdealUnusable,
         CheckRecent, MarkInFlight, SpawnPull, CooldownEnds

\* Pruning never removes the default, the fallback or an ideal model, however
\* many reconcilers prune at once.
THEOREM ProtectedStay == Spec => ProtectedKept
<1>1. IInv /\ [Next]_vars =>
        [\A m \in protectedModels : m \in installed /\ m \notin installed' => env' # env]_vars
  BY PruneOnlyUnprotected
<1> QED
  BY <1>1, Inductive, PTL DEF Spec, ProtectedKept

-----------------------------------------------------------------------------
(* How far pruners overshoot.                                              *)

\* Who prunes does so by the watermark.
Governed == \A p \in Reconciler : rec[p].pc \in {"prune", "delete"} => rec[p].governed

LEMMA GotoLands ==
    ASSUME TypeOK, NEW p \in Reconciler, NEW c, Goto(p, c)
    PROVE  /\ \A q \in Reconciler : q # p => rec'[q] = rec[q]
           /\ rec'[p].pc = c /\ rec'[p].governed = rec[p].governed
  BY RecFields DEF Goto, RecState

LEMMA ReturnLands ==
    ASSUME TypeOK, NEW p \in Reconciler, Return(p)
    PROVE  /\ \A q \in Reconciler : q # p => rec'[q] = rec[q]
           /\ rec'[p].pc = "idle"
  BY RecFields DEF Return, IdleRec

LEMMA NextVictimLands ==
    ASSUME TypeOK, NEW p \in Reconciler, NextVictim(p)
    PROVE  /\ \A q \in Reconciler : q # p => rec'[q] = rec[q]
           /\ rec'[p].pc = "prune" /\ rec'[p].governed = rec[p].governed
<1>1. rec' = [rec EXCEPT ![p].pc = "prune", ![p].victims = Tail(rec[p].victims)]
  BY DEF NextVictim
<1>2. rec \in [Reconciler -> RecState] /\ rec[p] \in RecState
  BY RecFields
<1> QED
  BY <1>1, <1>2 DEF RecState

\* The steps of a reconciler that lead neither into pruning nor on in it.
LEMMA OutsidePruning ==
    ASSUME TypeOK, NEW p \in Reconciler,
           \/ p = Loop /\ ReconcileTick
           \/ p \in Puller /\ PullStep(p)
           \/ ListModels(p) \/ ListFails(p) \/ MarkStale(p) \/ Publish(p)
           \/ clearResolvedInFlight(p) \/ LoadSnapshot(p) \/ SyncSnapshot(p)
    PROVE  /\ \A q \in Reconciler : q # p => rec'[q] = rec[q]
           /\ rec'[p].pc \notin {"prune", "delete"}
           /\ installed \subseteq installed' /\ env' = env
<1> USE DEF hostVars
<1>1. CASE p = Loop /\ ReconcileTick
  BY <1>1, GotoLands DEF ReconcileTick
<1>2. CASE PullStep(p)
  BY <1>2, GotoLands, ReturnLands DEF PullStep, HostInstalls, PullReturns, PullFails
<1>3. CASE ListModels(p)
  BY <1>3, RecFields DEF ListModels, RecState
<1>4. CASE ListFails(p)
  BY <1>4, RecFields DEF ListFails, RecState
<1>5. CASE MarkStale(p) \/ SyncSnapshot(p)
  BY <1>5, ReturnLands DEF MarkStale, SyncSnapshot
<1>6. CASE Publish(p)
  BY <1>6, GotoLands DEF Publish
<1>6a. CASE clearResolvedInFlight(p)
  BY <1>6a, RecFields DEF clearResolvedInFlight, RecState
<1>7. CASE LoadSnapshot(p)
  <2>1. CASE Return(p)
    BY <1>7, <2>1, ReturnLands DEF LoadSnapshot
  <2>2. CASE ~Return(p)
    <3>1. rec' = [rec EXCEPT ![p].pc = "stats", ![p].held = snap.map]
      BY <1>7, <2>2 DEF LoadSnapshot
    <3> QED
      BY <1>7, <3>1, RecFields DEF LoadSnapshot, RecState
  <2> QED
    BY <2>1, <2>2
<1> QED
  BY <1>1, <1>2, <1>3, <1>4, <1>5, <1>6, <1>6a, <1>7

\* A reconciler begins to prune on what it was answered.
LEMMA IntoPruning ==
    ASSUME TypeOK, NEW p \in Reconciler, CheckStats(p)
    PROVE  /\ \A q \in Reconciler : q # p => rec'[q] = rec[q]
           /\ rec'[p].pc # "delete" /\ installed' = installed /\ env' = env
           /\ rec'[p].pc = "prune" => rec'[p].governed \in StatsAnswers
<1>1. installed' = installed /\ env' = env
  BY DEF CheckStats, hostVars
<1>2. CASE Return(p)
  BY <1>1, <1>2, ReturnLands
<1>3. CASE ~Return(p)
  <2>1. PICK answered \in StatsAnswers, s \in prunableModels(maps[rec[p].held]) :
           rec' = [rec EXCEPT ![p].pc = "prune", ![p].victims = s, ![p].governed = answered]
    BY <1>3 DEF CheckStats
  <2> QED
    BY <1>1, <2>1, RecFields DEF RecState
<1> QED
  BY <1>2, <1>3

LEMMA SpawnLands ==
    ASSUME TypeOK, NEW r \in Request, SpawnPull(r)
    PROVE  /\ \E p \in Reconciler : rec'[p].pc = "pull" /\ \A q \in Reconciler : q # p => rec'[q] = rec[q]
           /\ installed' = installed /\ env' = env
<1>1. PICK p \in Puller :
         rec' = [rec EXCEPT ![p] = [IdleRec EXCEPT !.pc = "pull", !.target = req[r].ideal]]
  BY DEF SpawnPull
<1>2. p \in Reconciler
  BY DEF Reconciler
<1>3. rec'[p].pc = "pull" /\ \A q \in Reconciler : q # p => rec'[q] = rec[q]
  BY <1>1, <1>2 DEF IdleRec, TypeOK
<1> QED
  BY <1>2, <1>3 DEF SpawnPull, hostVars

\* The steps of a request but one, and of the surroundings, leave the
\* reconcilers alone.
LEMMA ElsewhereCases ==
    ASSUME [Next]_vars
    PROVE  \/ UNCHANGED <<rec, installed, env>>
           \/ \E m \in Model : ExternalChange(m)
           \/ \E r \in Request : SpawnPull(r)
           \/ \E p \in Reconciler :
                \/ p = Loop /\ ReconcileTick
                \/ p \in Puller /\ PullStep(p)
                \/ ReconcileStep(p)
<1> USE DEF hostVars
<1>1. CASE \E r \in Request : ListAvailable(r) \/ RouteStep(r)
  BY <1>1 DEF ListAvailable, RouteStep, NothingAvailable, ChooseIdeal, IdealUnusable, CheckRecent,
              MarkInFlight
<1>2. CASE \E m \in Model : CooldownEnds(m) \/ ExternalChange(m)
  BY <1>2 DEF CooldownEnds
<1>3. CASE UNCHANGED vars
  BY <1>3 DEF vars
<1> QED
  BY <1>1, <1>2, <1>3 DEF Next, Reconciler

LEMMA GovernedStep ==
    ASSUME StatsAnswers \subseteq {TRUE}, IInv, Governed, [Next]_vars PROVE Governed'
<1>a. TypeOK
  BY DEF IInv
<1>1. ASSUME NEW p \in Reconciler, \A q \in Reconciler : q # p => rec'[q] = rec[q],
             rec'[p].pc \in {"prune", "delete"} => rec'[p].governed
      PROVE  Governed'
  BY <1>1 DEF Governed
<1>2. ASSUME NEW p \in Reconciler,
             \/ p = Loop /\ ReconcileTick
             \/ p \in Puller /\ PullStep(p)
             \/ ReconcileStep(p)
      PROVE  Governed'
  <2>1. CASE CheckStats(p)
    <3>1. rec'[p].pc \in {"prune", "delete"} => rec'[p].governed = TRUE
      BY <1>a, <2>1, IntoPruning
    <3> QED
      BY <1>1, <1>a, <2>1, <3>1, IntoPruning
  <2>2. CASE PruneCheck(p)
    <3>1. PICK c : Goto(p, c)
      BY <2>2 DEF PruneCheck
    <3>2. rec[p].governed
      BY <2>2 DEF PruneCheck, Governed
    <3> QED
      BY <1>1, <1>a, <3>1, <3>2, GotoLands
  <2>3. CASE DeleteModel(p) \/ DeleteFails(p)
    <3>1. NextVictim(p) /\ rec[p].governed
      BY <2>3 DEF DeleteModel, DeleteFails, Governed
    <3> QED
      BY <1>1, <1>a, <3>1, NextVictimLands
  <2>4. CASE ~(CheckStats(p) \/ PruneCheck(p) \/ DeleteModel(p) \/ DeleteFails(p))
    <3>1. /\ \A q \in Reconciler : q # p => rec'[q] = rec[q]
          /\ rec'[p].pc \notin {"prune", "delete"}
      BY <1>2, <1>a, <2>4, OutsidePruning DEF ReconcileStep
    <3> QED
      BY <1>1, <3>1
  <2> QED
    BY <2>1, <2>2, <2>3, <2>4
<1>3. ASSUME NEW r \in Request, SpawnPull(r) PROVE Governed'
  BY <1>1, <1>3, <1>a, SpawnLands
<1>4. CASE rec' = rec
  BY <1>4 DEF Governed
<1> QED
  BY <1>2, <1>3, <1>4, ElsewhereCases DEF ExternalChange

\* What a step does to the host and to the deletes decided and not done: one
\* more is decided only above the target, and one model fewer is there only
\* when one fewer is decided or others have changed the host.
LEMMA DeletesDecided ==
    ASSUME IInv, Governed, StatsAnswers \subseteq {TRUE}, [Next]_vars
    PROVE  \/ Deciding' \subseteq Deciding /\ installed \subseteq installed' /\ env' = env
           \/ installed' = installed /\ Cardinality(installed) > Target /\ env' = env
           \/ \E p \in Deciding : \E m :
                /\ Deciding' \subseteq Deciding \ {p}
                /\ installed \ {m} \subseteq installed' /\ env' = env
           \/ \E m : /\ Deciding' = Deciding
                     /\ installed \ {m} \subseteq installed' /\ env' = env + 1
<1>a. TypeOK
  BY DEF IInv
<1>b. ASSUME NEW p \in Reconciler, \A q \in Reconciler : q # p => rec'[q] = rec[q],
             rec'[p].pc # "delete"
      PROVE  Deciding' \subseteq Deciding \ {p}
  BY <1>b DEF Deciding
<1>1. ASSUME NEW p \in Reconciler, DeleteModel(p) \/ DeleteFails(p)
      PROVE  \E m : /\ Deciding' \subseteq Deciding \ {p} /\ p \in Deciding
                    /\ installed \ {m} \subseteq installed' /\ env' = env
  <2>1. NextVictim(p) /\ p \in Deciding
    BY <1>1 DEF DeleteModel, DeleteFails, Deciding
  <2>2. installed \ {Head(rec[p].victims)} \subseteq installed' /\ env' = env
    BY <1>1 DEF DeleteModel, DeleteFails
  <2> QED
    BY <1>a, <1>b, <2>1, <2>2, NextVictimLands
<1>2. ASSUME NEW p \in Reconciler, PruneCheck(p)
      PROVE  \/ Deciding' \subseteq Deciding /\ installed' = installed /\ env' = env
             \/ installed' = installed /\ Cardinality(installed) > Target /\ env' = env
  <2>1. rec[p].governed /\ installed' = installed /\ env' = env
    BY <1>2 DEF PruneCheck, Governed, hostVars
  <2>2. PICK answered \in StatsAnswers :
          Goto(p, IF rec[p].victims = <<>> \/ PrunedEnough(p, answered) THEN "sync" ELSE "delete")
    BY <1>2 DEF PruneCheck
  <2>3. CASE rec[p].victims = <<>> \/ PrunedEnough(p, answered)
    <3>1. Goto(p, "sync")
      BY <2>2, <2>3
    <3> QED
      BY <1>a, <1>b, <2>1, <3>1, GotoLands
  <2>4. CASE ~PrunedEnough(p, answered)
    <3>1. Cardinality(installed) \in Nat /\ Target \in Nat
      BY <1>a, NamesAssumption, BoundsAssumption, FS_Subset, FS_CardinalityType DEF TypeOK
    <3>2. ~(Cardinality(installed) <= Target)
      BY <2>1, <2>2, <2>4 DEF PrunedEnough
    <3> QED
      BY <2>1, <3>1, <3>2
  <2> QED
    BY <2>3, <2>4
<1>3. ASSUME NEW p \in Reconciler, CheckStats(p)
      PROVE  Deciding' \subseteq Deciding /\ installed' = installed /\ env' = env
  BY <1>3, <1>a, <1>b, IntoPruning
<1>4. ASSUME NEW p \in Reconciler,
             ~(DeleteModel(p) \/ DeleteFails(p) \/ PruneCheck(p) \/ CheckStats(p)),
             \/ p = Loop /\ ReconcileTick
             \/ p \in Puller /\ PullStep(p)
             \/ ReconcileStep(p)
      PROVE  Deciding' \subseteq Deciding /\ installed \subseteq installed' /\ env' = env
  <2>1. /\ \A q \in Reconciler : q # p => rec'[q] = rec[q]
        /\ rec'[p].pc # "delete" /\ installed \subseteq installed' /\ env' = env
    BY <1>4, <1>a, OutsidePruning DEF ReconcileStep
  <2> QED
    BY <1>b, <2>1
<1>5. ASSUME NEW r \in Request, SpawnPull(r)
      PROVE  Deciding' \subseteq Deciding /\ installed \subseteq installed' /\ env' = env
  BY <1>5, <1>a, <1>b, SpawnLands
<1>6. ASSUME NEW m \in Model, ExternalChange(m)
      PROVE  Deciding' = Deciding /\ installed \ {m} \subseteq installed' /\ env' = env + 1
  BY <1>6 DEF ExternalChange, Deciding
<1>7. CASE UNCHANGED <<rec, installed, env>>
  BY <1>7 DEF Deciding
<1> QED
  BY <1>1, <1>2, <1>3, <1>4, <1>5, <1>6, <1>7, ElsewhereCases

LEMMA OvershootStep ==
    ASSUME IInv, Governed, OvershootBounded, StatsAnswers \subseteq {TRUE}, [Next]_vars, TypeOK'
    PROVE  OvershootBounded'
<1> DEFINE D == Cardinality(Deciding)
           E == Cardinality(Deciding')
           I == Cardinality(installed)
           J == Cardinality(installed')
           N == Cardinality(Reconciler)
<1>1. IsFiniteSet(Reconciler) /\ N \in Nat
  <2>1. IsFiniteSet(Reconciler)
    BY NamesAssumption, FS_AddElement DEF Reconciler
  <2> QED
    BY <2>1, FS_CardinalityType
<1>2. Deciding \subseteq Reconciler /\ Deciding' \subseteq Reconciler
  BY DEF Deciding
<1>3. IsFiniteSet(Deciding) /\ D \in Nat /\ IsFiniteSet(Deciding') /\ E \in Nat /\ E <= N
  BY <1>1, <1>2, FS_Subset, FS_CardinalityType
<1>4. IsFiniteSet(installed) /\ I \in Nat /\ IsFiniteSet(installed') /\ J \in Nat
  BY NamesAssumption, FS_Subset, FS_CardinalityType DEF IInv, TypeOK
<1>5. env \in Nat /\ env' \in Nat /\ Target \in Nat
  BY BoundsAssumption DEF IInv, TypeOK
<1>6. ASSUME NEW m, installed \ {m} \subseteq installed' PROVE J + 1 >= I
  <2>1. IsFiniteSet(installed \ {m}) /\ Cardinality(installed \ {m}) \in Nat
    BY <1>4, FS_RemoveElement, FS_CardinalityType
  <2>2. I <= Cardinality(installed \ {m}) + 1
    <3>1. CASE m \in installed
      BY <1>4, <2>1, <3>1, FS_RemoveElement
    <3>2. CASE m \notin installed
      <4>1. installed \ {m} = installed
        BY <3>2
      <4> QED
        BY <1>4, <4>1
    <3> QED
      BY <3>1, <3>2
  <2>3. Cardinality(installed \ {m}) <= J
    BY <1>4, <1>6, FS_Subset
  <2> QED
    BY <1>4, <2>1, <2>2, <2>3
<1>7. Deciding # {} => I + N + env >= Target + 1 + D
  BY DEF OvershootBounded
<1>8. Deciding' # {} => J + N + env' >= Target + 1 + E
  <2>1. CASE Deciding' \subseteq Deciding /\ installed \subseteq installed' /\ env' = env
    <3>1. E <= D /\ I <= J
      BY <1>3, <1>4, <2>1, FS_Subset
    <3> QED
      BY <1>1, <1>3, <1>4, <1>5, <1>7, <2>1, <3>1
  <2>2. CASE installed' = installed /\ Cardinality(installed) > Target /\ env' = env
    <3>1. J > Target
      BY <2>2
    <3> QED
      BY <1>1, <1>3, <1>4, <1>5, <3>1
  <2>3. CASE \E p \in Deciding : \E m :
               /\ Deciding' \subseteq Deciding \ {p}
               /\ installed \ {m} \subseteq installed' /\ env' = env
    <3>1. PICK p \in Deciding : \E m :
               /\ Deciding' \subseteq Deciding \ {p}
               /\ installed \ {m} \subseteq installed' /\ env' = env
      BY <2>3
    <3>2. J + 1 >= I /\ env' = env /\ Deciding # {}
      BY <1>6, <3>1
    <3>3. IsFiniteSet(Deciding \ {p}) /\ Cardinality(Deciding \ {p}) = D - 1
      BY <1>3, <3>1, FS_RemoveElement
    <3>4. E <= D - 1
      BY <3>1, <3>3, FS_Subset
    <3> HIDE DEF D, E, I, J, N
    <3> QED
      BY <1>1, <1>3, <1>4, <1>5, <1>7, <3>2, <3>4
  <2>4. CASE \E m : /\ Deciding' = Deciding
                    /\ installed \ {m} \subseteq installed' /\ env' = env + 1
    <3>1. J + 1 >= I /\ E = D
      BY <1>6, <2>4
    <3> HIDE DEF D, E, I, J, N
    <3> QED
      BY <1>1, <1>3, <1>4, <1>5, <1>7, <2>4, <3>1
  <2> QED
    BY <2>1, <2>2, <2>3, <2>4, DeletesDecided
<1> QED
  BY <1>8 DEF OvershootBounded

\* However many reconcilers prune at once, each by a watermark it can read, they
\* go below the target by at most one model for each other reconciler, beyond
\* what others remove: the check of the disk and the delete are two calls to the
\* host, and a reconciler has decided one delete at a time (cleanInventoryIfNeeded).
THEOREM OvershootWithin ==
    ASSUME StatsAnswers \subseteq {TRUE}
    PROVE  Spec => []OvershootBounded
<1>1. Init => Governed /\ OvershootBounded
  BY DEF Init, IdleRec, Governed, OvershootBounded, Deciding
<1>2. IInv /\ IInv' /\ Governed /\ OvershootBounded /\ [Next]_vars => (Governed /\ OvershootBounded)'
  BY GovernedStep, OvershootStep DEF IInv
<1> QED
  BY <1>1, <1>2, Inductive, PTL DEF Spec

=============================================================================
