----------------------------- MODULE TreeSearch -----------------------------
(***************************************************************************)
(* executeMCTS of internal/reasoning/mcts.go.  A rollout walks down the    *)
(* best children to a leaf, expands it, asks for an answer along its first *)
(* child and, when there is one, counts the visit on the whole way up.     *)
(*                                                                         *)
(* mctsUCT and mctsUCBTuned are functions of visits, values and priors: a  *)
(* child without visits comes first, the first such one before the others, *)
(* and among visited children any may be best, until a visit changes the   *)
(* numbers.  So the way down is chosen anew when a score is propagated,    *)
(* and only then.                                                          *)
(***************************************************************************)
EXTENDS ReasonRun, Sequences

CONSTANTS
    Actions,            \* 1..3 in the code: the actions tried from every node
    DefaultRollouts,    \* cfg.MCTSDefaultRollouts
    MaxRollouts,        \* cfg.MCTSMaxRollouts
    MaxDepth,           \* cfg.MCTSMaxDepth, as resolveMCTSDepth leaves it
    Window,             \* resolveMCTSEarlyStopWindow
    MinGain             \* resolveMCTSEarlyStopDelta, in hundredths

ASSUME SearchAssumption ==
    /\ IsFiniteSet(Actions) /\ Actions # {} /\ Actions = 1..Cardinality(Actions)
    /\ DefaultRollouts \in Nat \ {0}
    /\ MaxRollouts \in Nat \ {0}
    /\ MaxDepth \in Nat \ {0}
    /\ Window \in Nat /\ Window >= 2
    /\ MinGain \in 0..20

VARIABLES
    rollouts,   \* resolveMCTSRollouts(req)
    rollout,    \* rollouts begun
    visits,     \* the nodes of the tree, by their path, and their visits
    voiced,     \* the nodes whose own answer was scored (node.Output)
    leaf,       \* where selectMCTSLeaf will end
    bestHistory,\* the best score so far, after each scored rollout
    idle        \* observer: rollouts that ended at the depth limit

searchVars == <<rollouts, rollout, visits, voiced, leaf, bestHistory, idle>>

Root == <<>>
Node == UNION {[1..d -> Actions] : d \in 0..MaxDepth}
resolveMCTSRollouts(want) == Clamp(Asked(want, DefaultRollouts), 1, MaxRollouts)

SearchTypeOK ==
    /\ rollouts \in 0..MaxRollouts
    /\ rollout \in 0..rollouts
    /\ DOMAIN visits \subseteq Node
    /\ \A n \in DOMAIN visits : visits[n] \in Nat
    /\ voiced \subseteq DOMAIN visits
    /\ leaf \in DOMAIN visits
    /\ bestHistory \in Seq(Scores)
    /\ idle \in 0..rollout

SearchInit ==
    /\ rollouts \in IF mode = "mcts" THEN {resolveMCTSRollouts(w) : w \in Wants} ELSE {0}
    /\ rollout = 0
    /\ visits = [n \in {Root} |-> 0]
    /\ voiced = {}
    /\ leaf = Root
    /\ bestHistory = <<>>
    /\ idle = 0

-----------------------------------------------------------------------------
(* The tree.                                                               *)

Child(n, a) == Append(n, a)
Children(n, v) == {Child(n, a) : a \in Actions} \cap DOMAIN v

\* selectMCTSChild: the children that may come out best.
Preferred(n, v) ==
    LET unseen == {a \in Actions : v[Child(n, a)] = 0}
    IN  IF unseen = {} THEN Children(n, v)
        ELSE {Child(n, a) : a \in {b \in unseen : \A c \in unseen : b <= c}}

Above(n) == {SubSeq(n, 1, i) : i \in 0..Len(n)}

\* selectMCTSLeaf: the leaves that the walk down from the root may reach.
Selectable(v) ==
    {n \in DOMAIN v :
        /\ Children(n, v) = {}
        /\ \A i \in 1..Len(n) : SubSeq(n, 1, i) \in Preferred(SubSeq(n, 1, i - 1), v)}

\* expandMCTSLeaf
Expanded(v, n) ==
    [m \in DOMAIN v \cup {Child(n, a) : a \in Actions} |-> IF m \in DOMAIN v THEN v[m] ELSE 0]

\* Mutant: the chain lacks the root.
BackpropagatedBelow(v, n) ==
    [m \in DOMAIN v |-> IF m \in Above(n) \ {Root} THEN v[m] + 1 ELSE v[m]]

\* backpropagateMCTS along the chain from the root to n.
Backpropagated(v, n) == [m \in DOMAIN v |-> IF m \in Above(n) THEN v[m] + 1 ELSE v[m]]

\* What was selected is a leaf: its first child is the one simulated.
NextNode == Child(leaf, 1)

\* shouldEarlyStop
Converged(history) ==
    /\ Len(history) >= Window
    /\ history[Len(history)] - history[Len(history) - Window + 1] < MinGain

-----------------------------------------------------------------------------
(* The steps.                                                              *)

\* Mutant: one level deeper.
AtDepthLimitLate == Len(leaf) > MaxDepth

AtDepthLimit == Len(leaf) >= MaxDepth

InRollout ==
    /\ pc = "rollout"
    /\ rollout < rollouts
    /\ ~expired
    /\ rollout' = rollout + 1
    /\ UNCHANGED <<mode, pruning, expired, shortlist, rollouts>>

\* Mutant: selection goes elsewhere the next time.
RolloutIdleElsewhere ==
    /\ InRollout
    /\ AtDepthLimit
    /\ idle' = idle + 1
    /\ leaf' \in {n \in DOMAIN visits : Children(n, visits) = {}}
    /\ UNCHANGED <<pc, pool, found, calls, failing, visits, voiced, bestHistory>>

\* leaf.Depth >= maxDepth: nothing is simulated and nothing is propagated.
RolloutIdle ==
    /\ InRollout
    /\ AtDepthLimit
    /\ idle' = idle + 1
    /\ UNCHANGED <<pc, pool, found, calls, failing, visits, voiced, leaf, bestHistory>>

\* The children stay, without visits: the next rollout goes on below the first.
SimulationFails ==
    /\ InRollout
    /\ ~AtDepthLimit
    /\ CallFails
    /\ visits' = Expanded(visits, leaf)
    /\ leaf' = NextNode
    /\ UNCHANGED <<pc, pool, found, voiced, bestHistory, idle>>

SimulationScored ==
    /\ InRollout
    /\ ~AtDepthLimit
    /\ CallSucceeds
    /\ visits' = Backpropagated(Expanded(visits, leaf), NextNode)
    /\ leaf' \in Selectable(visits')
    /\ voiced' = voiced \cup {NextNode}
    /\ \E s \in Scores :
          LET c == NewCandidate("rollout", s)
              last == Len(bestHistory)
              best == IF last > 0 /\ bestHistory[last] > s THEN bestHistory[last] ELSE s
          IN  /\ found' = found \cup {c}
              /\ pool' \in Pruned(pool \cup {c}, PoolTopK)
              /\ bestHistory' = Append(bestHistory, best)
              /\ pc' = IF ~Converged(bestHistory') THEN pc
                       ELSE IF pool' = {} THEN "baseline" ELSE "settle"
    /\ UNCHANGED idle

RolloutsDone ==
    /\ pc = "rollout"
    /\ rollout = rollouts \/ expired
    /\ pc' = IF pool = {} THEN "baseline" ELSE "settle"
    /\ UNCHANGED <<mode, pruning, expired, pool, found, shortlist, calls, failing, searchVars>>

SearchStep == RolloutIdle \/ SimulationFails \/ SimulationScored \/ RolloutsDone

=============================================================================
