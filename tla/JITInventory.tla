---------------------------- MODULE JITInventory ----------------------------
(***************************************************************************)
(* The just-in-time model inventory of internal/orchestrator/router.go.    *)
(*                                                                         *)
(* One background loop and one goroutine per pull all run reconcileOnce    *)
(* with no lock between them: each lists the models on the Ollama host,    *)
(* publishes a snapshot, clears the in-flight marks of the models it saw   *)
(* and prunes.  Requests choose a model and, when the ideal model of their *)
(* task class cannot be used, trigger a pull.  An action ends where        *)
(* another goroutine can be observed to interleave: at a call to the host  *)
(* or at an access to shared memory.                                       *)
(*                                                                         *)
(* JITInventoryEnabled and PruneEnabled are true and a control client is   *)
(* configured; otherwise none of this code runs.                           *)
(***************************************************************************)
EXTENDS Naturals, FiniteSets, Sequences

CONSTANTS
    Model,        \* model ids the host may hold
    Ideal,        \* idealModels: the ideal model of each task class
    Default,      \* defaultModel
    Fallback,     \* fallbackDefault
    Blocked,      \* models the tenant's allow-list refuses
    Puller,       \* slots for pull goroutines (a bound of the model)
    Loop,         \* the goroutine running reconcileLoop
    Request,      \* slots for concurrent chat requests (a bound)
    NoModel,      \* "no model"
    MaxModels,    \* cfg.MaxModels
    High,         \* StorageHighWatermark, in models on the disk
    Target,       \* StorageTargetWatermark, in models on the disk
    StatsAnswers, \* can HostStats answer (TRUE) and fail (FALSE)?
    MapCount,     \* how many Go maps may be alive at once
    MaxEnv        \* bound on changes made to the host by others

Reconciler == Puller \cup {Loop}
MapId == 1..MapCount

ASSUME NamesAssumption ==
    /\ Ideal \subseteq Model
    /\ {Default, Fallback} \subseteq Model
    /\ Loop \notin Puller
    /\ NoModel \notin Model
    /\ IsFiniteSet(Model)
    /\ IsFiniteSet(Puller)
ASSUME BoundsAssumption ==
    /\ MaxModels \in Nat \ {0}
    /\ High \in Nat
    /\ Target \in Nat /\ Target <= High
    /\ StatsAnswers \subseteq BOOLEAN
    /\ MapCount \in Nat \ {0}
    /\ MaxEnv \in Nat

VARIABLES
    installed,  \* the models on the host
    maps,       \* Go heap: the contents of each live Available map
    snap,       \* r.inventory: [map, stale]
    inFlight,   \* keys of r.pullInFlight
    recent,     \* keys of r.pullRecent stored less than 30 s ago
    used,       \* keys of r.lastUsed
    newer,      \* <<a, b>>: a has a later lastUsed time than b
    rec,        \* local state of each reconcileOnce caller
    req,        \* local state of each request in ChooseWithState
    env         \* changes others have made to the host so far

hostVars == <<installed, env>>
snapVars == <<maps, snap>>
pullVars == <<inFlight, recent>>
lruVars  == <<used, newer>>
vars == <<hostVars, snapVars, pullVars, lruVars, rec, req>>

RecPC == {"idle", "pull", "pulled", "list", "stale", "publish", "clear",
          "load", "stats", "prune", "delete", "sync"}
ReqPC == {"idle", "listed", "check", "mark", "spawn"}

IdleRec == [pc |-> "idle", target |-> NoModel, listed |-> {}, held |-> 0,
            victims |-> <<>>, governed |-> FALSE]
IdleReq == [pc |-> "idle", ideal |-> NoModel, view |-> {}]

RecState == [pc : RecPC, target : Model \cup {NoModel}, listed : SUBSET Model,
             held : 0..MapCount, victims : Seq(Model), governed : BOOLEAN]
ReqState == [pc : ReqPC, ideal : Model \cup {NoModel}, view : SUBSET Model]

\* Every variable stays within the values the code can hold.
TypeOK ==
    /\ installed \in SUBSET Model
    /\ env \in 0..MaxEnv
    /\ maps \in [MapId -> SUBSET Model]
    /\ snap \in [map : MapId, stale : BOOLEAN]
    /\ inFlight \in SUBSET Ideal
    /\ recent \in SUBSET Ideal
    /\ used \in SUBSET Model
    /\ newer \in SUBSET (Model \X Model)
    /\ rec \in [Reconciler -> RecState]
    /\ req \in [Request -> ReqState]

Init ==
    /\ installed \in SUBSET Model
    /\ env = 0
    /\ maps = [i \in MapId |-> {}]
    /\ snap = [map |-> 1, stale |-> TRUE]
    /\ inFlight = {}
    /\ recent = {}
    /\ used = {}
    /\ newer = {}
    /\ rec = [p \in Reconciler |-> IdleRec]
    /\ req = [r \in Request |-> IdleReq]

-----------------------------------------------------------------------------
(* Helpers.                                                                *)

\* The garbage collector: a map no goroutine and no snapshot refers to is gone.
Retained(contents) ==
    [i \in MapId |-> IF i = snap'.map \/ \E p \in Reconciler : rec'[p].held = i
                     THEN contents[i] ELSE {}]

\* The least map id not in use.
Unreferenced == {i \in MapId : i # snap.map /\ \A p \in Reconciler : rec[p].held # i}
IsFresh(i) == i \in Unreferenced /\ \A j \in Unreferenced : i <= j

\* setSnapshot: a new map is published; the old one lives on in its holders.
setSnapshot(models) ==
    \E i \in MapId :
        /\ IsFresh(i)
        /\ snap' = [map |-> i, stale |-> FALSE]
        /\ maps' = Retained([maps EXCEPT ![i] = models])

protectedModels == {Default, Fallback} \cup Ideal

\* a was last used before b; a model without an entry has the zero time.
UsedBefore(a, b) == \/ a \notin used /\ b \in used
                    \/ <<b, a>> \in newer

\* Mutant of prunableModels: the protected models are not skipped.
prunableModelsAll(avail) ==
    {s \in [1..Cardinality(avail) -> avail] :
        \A i, j \in 1..Cardinality(avail) :
            i < j => s[i] # s[j] /\ ~UsedBefore(s[j], s[i])}

\* prunableModels: oldest first; sort.Slice leaves ties in any order.
prunableModels(avail) ==
    LET items == avail \ protectedModels IN
    {s \in [1..Cardinality(items) -> items] :
        \A i, j \in 1..Cardinality(items) :
            i < j => s[i] # s[j] /\ ~UsedBefore(s[j], s[i])}

markModelUsed(m) ==
    /\ used' = used \cup {m}
    /\ newer' = {e \in newer : m \notin {e[1], e[2]}} \cup ({m} \X (used \ {m}))

forgetModel(m) ==
    /\ used' = used \ {m}
    /\ newer' = {e \in newer : m \notin {e[1], e[2]}}

\* Mutant of releaseMark: the deferred delete is missing.
releaseMarkNever(p) == UNCHANGED inFlight

\* The goroutine of a pull ends: its deferred pullInFlight.Delete runs.
releaseMark(p) == inFlight' = inFlight \ {rec[p].target}

\* reconcileOnce returns to its caller.
Return(p) ==
    /\ rec' = [rec EXCEPT ![p] = IdleRec]
    /\ IF p = Loop THEN UNCHANGED inFlight ELSE releaseMark(p)
    /\ UNCHANGED recent

Goto(p, pc) == rec' = [rec EXCEPT ![p].pc = pc]

-----------------------------------------------------------------------------
(* reconcileLoop and the pull goroutine.                                   *)

ReconcileTick ==
    /\ rec[Loop].pc = "idle"
    /\ Goto(Loop, "list")
    /\ UNCHANGED <<hostVars, snapVars, pullVars, lruVars, req>>

\* The host has the model; the goroutine has not seen the reply yet.
HostInstalls(p) ==
    /\ rec[p].pc = "pull"
    /\ installed' = installed \cup {rec[p].target}
    /\ Goto(p, "pulled")
    /\ UNCHANGED <<env, snapVars, pullVars, lruVars, req>>

PullReturns(p) ==
    /\ rec[p].pc = "pulled"
    /\ Goto(p, "list")
    /\ UNCHANGED <<hostVars, snapVars, pullVars, lruVars, req>>

\* PullModel fails: refused, timed out, or its reply was lost.
PullFails(p) ==
    /\ rec[p].pc \in {"pull", "pulled"}
    /\ Return(p)
    /\ UNCHANGED <<hostVars, snapVars, lruVars, req>>

-----------------------------------------------------------------------------
(* reconcileOnce.                                                          *)

ListModels(p) ==
    /\ rec[p].pc = "list"
    /\ rec' = [rec EXCEPT ![p].pc = "publish", ![p].listed = installed]
    /\ UNCHANGED <<hostVars, snapVars, pullVars, lruVars, req>>

\* ListModels fails: the current snapshot is read ...
ListFails(p) ==
    /\ rec[p].pc = "list"
    /\ rec' = [rec EXCEPT ![p].pc = "stale", ![p].held = snap.map]
    /\ UNCHANGED <<hostVars, snapVars, pullVars, lruVars, req>>

\* ... and stored again with Stale set, whatever was stored in between.
MarkStale(p) ==
    /\ rec[p].pc = "stale"
    /\ snap' = [map |-> rec[p].held, stale |-> TRUE]
    /\ Return(p)
    /\ maps' = Retained(maps)
    /\ UNCHANGED <<hostVars, lruVars, req>>

\* Mutant of Publish: only a stale snapshot is replaced.
PublishIfStale(p) ==
    /\ rec[p].pc = "publish"
    /\ Goto(p, "clear")
    /\ IF snap.stale THEN setSnapshot(rec[p].listed) ELSE UNCHANGED snapVars
    /\ UNCHANGED <<hostVars, pullVars, lruVars, req>>

\* setSnapshot(models, false)
Publish(p) ==
    /\ rec[p].pc = "publish"
    /\ Goto(p, "clear")
    /\ setSnapshot(rec[p].listed)
    /\ UNCHANGED <<hostVars, pullVars, lruVars, req>>

\* The marks of the listed models go, whoever set them.  Range deletes them one
\* by one, which nobody can tell: each request looks at the mark of one model.
clearResolvedInFlight(p) ==
    /\ rec[p].pc = "clear"
    /\ rec' = [rec EXCEPT ![p].pc = "load", ![p].listed = {}]
    /\ inFlight' = inFlight \ rec[p].listed
    /\ UNCHANGED <<hostVars, snapVars, recent, lruVars, req>>

-----------------------------------------------------------------------------
(* cleanInventoryIfNeeded.                                                 *)

LoadSnapshot(p) ==
    /\ rec[p].pc = "load"
    /\ IF maps[snap.map] = {}
       THEN Return(p)
       ELSE /\ rec' = [rec EXCEPT ![p].pc = "stats", ![p].held = snap.map]
            /\ UNCHANGED pullVars
    /\ UNCHANGED <<hostVars, snapVars, lruVars, req>>

\* Above the high watermark or, when HostStats cannot tell, above MaxModels.
MustPrune(p, answered) ==
    IF answered THEN Cardinality(installed) > High
                ELSE Cardinality(maps[rec[p].held]) > MaxModels

CheckStats(p) ==
    /\ rec[p].pc = "stats"
    /\ \E answered \in StatsAnswers :
        IF MustPrune(p, answered)
        THEN /\ \E s \in prunableModels(maps[rec[p].held]) :
                   rec' = [rec EXCEPT ![p].pc = "prune", ![p].victims = s,
                                      ![p].governed = answered]
             /\ UNCHANGED pullVars
        ELSE Return(p)
    /\ UNCHANGED <<hostVars, snap, lruVars, req>>
    /\ maps' = Retained(maps)

\* Mutant of PrunedEnough: the watermark is not read again between deletes.
PrunedEnoughOnce(p, answered) ==
    ~rec[p].governed /\ Cardinality(maps[rec[p].held]) <= MaxModels

\* The check before each delete: a failing re-read of the stats never stops.
PrunedEnough(p, answered) ==
    IF rec[p].governed
    THEN answered /\ Cardinality(installed) <= Target
    ELSE Cardinality(maps[rec[p].held]) <= MaxModels

PruneCheck(p) ==
    /\ rec[p].pc = "prune"
    /\ \E answered \in StatsAnswers :
        Goto(p, IF rec[p].victims = <<>> \/ PrunedEnough(p, answered)
                THEN "sync" ELSE "delete")
    /\ UNCHANGED <<hostVars, snapVars, pullVars, lruVars, req>>

NextVictim(p) ==
    rec' = [rec EXCEPT ![p].pc = "prune", ![p].victims = Tail(@)]

\* DeleteModel succeeds; delete(snap.Available, ...) hits the shared map.
DeleteModel(p) ==
    /\ rec[p].pc = "delete"
    /\ LET m == Head(rec[p].victims) IN
        /\ m \in installed
        /\ installed' = installed \ {m}
        /\ maps' = [maps EXCEPT ![rec[p].held] = @ \ {m}]
        /\ forgetModel(m)
    /\ NextVictim(p)
    /\ UNCHANGED <<env, snap, pullVars, req>>

\* DeleteModel reports an error: the model is gone already, the host refused,
\* or it deleted the model and the reply was lost.
DeleteFails(p) ==
    /\ rec[p].pc = "delete"
    /\ installed' \in {installed, installed \ {Head(rec[p].victims)}}
    /\ NextVictim(p)
    /\ UNCHANGED <<env, snapVars, pullVars, lruVars, req>>

\* "keep internal snapshot in sync after prune decisions"
SyncSnapshot(p) ==
    /\ rec[p].pc = "sync"
    /\ Return(p)
    /\ setSnapshot(maps[rec[p].held])
    /\ UNCHANGED <<hostVars, lruVars, req>>

-----------------------------------------------------------------------------
(* ChooseWithState and triggerBackgroundPull.                              *)

\* The request lists the upstream's models before it routes.
ListAvailable(r) ==
    /\ req[r].pc = "idle"
    /\ req' = [req EXCEPT ![r].pc = "listed", ![r].view = installed]
    /\ UNCHANGED <<hostVars, snapVars, pullVars, lruVars, rec>>

\* The request's own list, or the snapshot when that list is empty.
Effective(r) == IF req[r].view = {} THEN maps[snap.map] ELSE req[r].view

NothingAvailable(r) ==
    /\ req[r].pc = "listed"
    /\ Effective(r) = {}
    /\ req' = [req EXCEPT ![r] = IdleReq]
    /\ UNCHANGED <<hostVars, snapVars, pullVars, lruVars, rec>>

ChooseIdeal(r) ==
    /\ req[r].pc = "listed"
    /\ \E i \in (Ideal \cap Effective(r)) \ Blocked : markModelUsed(i)
    /\ req' = [req EXCEPT ![r] = IdleReq]
    /\ UNCHANGED <<hostVars, snapVars, pullVars, rec>>

\* The ideal model is missing, or the tenant may not use it.
IdealUnusable(r) ==
    /\ req[r].pc = "listed"
    /\ Effective(r) # {}
    /\ \E i \in Ideal :
        /\ i \notin Effective(r) \/ i \in Blocked
        /\ req' = [req EXCEPT ![r] = [pc |-> "check", ideal |-> i, view |-> Effective(r)]]
    /\ UNCHANGED <<hostVars, snapVars, pullVars, lruVars, rec>>

\* The rest of ChooseWithState: some allowed model of the list, if any.
ChooseOther(r) ==
    /\ req' = [req EXCEPT ![r] = IdleReq]
    /\ IF req[r].view \subseteq Blocked
       THEN UNCHANGED lruVars
       ELSE \E m \in req[r].view \ Blocked : markModelUsed(m)

CheckRecent(r) ==
    /\ req[r].pc = "check"
    /\ IF req[r].ideal \in recent
       THEN ChooseOther(r)
       ELSE req' = [req EXCEPT ![r].pc = "mark"] /\ UNCHANGED lruVars
    /\ UNCHANGED <<hostVars, snapVars, pullVars, rec>>

\* A goroutine can always be started: the slot is set aside with the mark.
SlotFree ==
    Cardinality({p \in Puller : rec[p].pc = "idle"})
        > Cardinality({r \in Request : req[r].pc = "spawn"})

\* pullInFlight.LoadOrStore
MarkInFlight(r) ==
    /\ req[r].pc = "mark"
    /\ IF req[r].ideal \in inFlight
       THEN ChooseOther(r) /\ UNCHANGED inFlight
       ELSE /\ SlotFree
            /\ inFlight' = inFlight \cup {req[r].ideal}
            /\ req' = [req EXCEPT ![r].pc = "spawn"]
            /\ UNCHANGED lruVars
    /\ UNCHANGED <<hostVars, snapVars, recent, rec>>

\* Mutant of SpawnPull: the goroutine is not given its model.
SpawnPullBlind(r) ==
    /\ req[r].pc = "spawn"
    /\ recent' = recent \cup {req[r].ideal}
    /\ \E p \in Puller :
        /\ rec[p].pc = "idle"
        /\ rec' = [rec EXCEPT ![p] = [IdleRec EXCEPT !.pc = "pull"]]
    /\ ChooseOther(r)
    /\ UNCHANGED <<hostVars, snapVars, inFlight>>

\* pullRecent.Store and the go statement
SpawnPull(r) ==
    /\ req[r].pc = "spawn"
    /\ recent' = recent \cup {req[r].ideal}
    /\ \E p \in Puller :
        /\ rec[p].pc = "idle"
        /\ rec' = [rec EXCEPT ![p] = [IdleRec EXCEPT !.pc = "pull", !.target = req[r].ideal]]
    /\ ChooseOther(r)
    /\ UNCHANGED <<hostVars, snapVars, inFlight>>

-----------------------------------------------------------------------------
(* Time and the host's other users.                                        *)

CooldownEnds(m) ==
    /\ m \in recent
    /\ recent' = recent \ {m}
    /\ UNCHANGED <<hostVars, snapVars, inFlight, lruVars, rec, req>>

ExternalChange(m) ==
    /\ env < MaxEnv
    /\ env' = env + 1
    /\ installed' = IF m \in installed THEN installed \ {m} ELSE installed \cup {m}
    /\ UNCHANGED <<snapVars, pullVars, lruVars, rec, req>>

PullStep(p) == HostInstalls(p) \/ PullReturns(p) \/ PullFails(p)

ReconcileStep(p) ==
    \/ ListModels(p) \/ ListFails(p) \/ MarkStale(p)
    \/ Publish(p) \/ clearResolvedInFlight(p)
    \/ LoadSnapshot(p) \/ CheckStats(p) \/ PruneCheck(p)
    \/ DeleteModel(p) \/ DeleteFails(p) \/ SyncSnapshot(p)

RouteStep(r) ==
    \/ NothingAvailable(r) \/ ChooseIdeal(r) \/ IdealUnusable(r)
    \/ CheckRecent(r) \/ MarkInFlight(r) \/ SpawnPull(r)

Next ==
    \/ ReconcileTick
    \/ \E p \in Puller : PullStep(p)
    \/ \E p \in Reconciler : ReconcileStep(p)
    \/ \E r \in Request : ListAvailable(r) \/ RouteStep(r)
    \/ \E m \in Model : CooldownEnds(m) \/ ExternalChange(m)

Spec == Init /\ [][Next]_vars

\* A goroutine that can run does (the Go scheduler), every host call ends (the
\* control client's http.Client has a Timeout, PullModel a context deadline),
\* the ticker keeps firing, and a host listed again and again answers once.
Fairness ==
    /\ WF_vars(ReconcileTick)
    /\ \A p \in Puller : WF_vars(PullStep(p))
    /\ \A p \in Reconciler : WF_vars(ReconcileStep(p))
    /\ \A r \in Request : WF_vars(RouteStep(r))
    /\ SF_vars(ListModels(Loop))

FairSpec == Spec /\ Fairness

-----------------------------------------------------------------------------
(* Properties.                                                             *)

\* An in-flight mark always has someone who will remove it: the request about
\* to start the pull or a running pull goroutine of that model.  An orphan mark
\* would keep triggerBackgroundPull from ever pulling the model again.
NoOrphanMark ==
    \A m \in inFlight :
        \/ \E p \in Puller : rec[p].pc # "idle" /\ rec[p].target = m
        \/ \E r \in Request : req[r].pc = "spawn" /\ req[r].ideal = m

\* However the reconcilers interleave, the default, the fallback and the ideal
\* models leave the host only by someone else's hand, never by pruning.
ProtectedKept ==
    [][\A m \in protectedModels :
          m \in installed /\ m \notin installed' => env' # env]_vars

\* Pruners check the disk and delete in two steps.  With P reconcilers and
\* HostStats answering, they overshoot the target by at most P - 1 models
\* beyond what others remove: each other reconciler can have at most one delete
\* decided and not done.
Deciding == {p \in Reconciler : rec[p].pc = "delete"}
OvershootBounded ==
    Deciding # {} =>
        Cardinality(installed) + Cardinality(Reconciler) + env
            >= Target + 1 + Cardinality(Deciding)

\* Once the pulls have stopped, the published snapshot keeps coming back to
\* exactly what the host holds, whatever stale list a pull published last.
PullsOver == \A p \in Puller : rec[p].pc = "idle"
HostSettled == \A r \in Request : req[r].pc \notin {"mark", "spawn"}
InSync == ~snap.stale /\ maps[snap.map] = installed
SnapshotConverges == <>[](PullsOver /\ HostSettled) => []<>InSync

\* Every in-flight mark is eventually removed, so that a failed pull can be
\* tried again.
MarkReleased == \A m \in Ideal : m \in inFlight ~> m \notin inFlight

(* What the repository says and the code does not do.                      *)

\* "deduping/cooldown protections to avoid repeated concurrent pulls for the
\* same ideal model" (CHANGELOG.md:389): no model is pulled twice at once.
AtMostOnePull ==
    \A p, q \in Puller :
        /\ p # q
        /\ rec[p].pc \in {"pull", "pulled"}
        /\ rec[q].pc \in {"pull", "pulled"}
        => rec[p].target # rec[q].target

=============================================================================
