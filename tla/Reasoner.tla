------------------------------ MODULE Reasoner ------------------------------
(***************************************************************************)
(* Executor.Execute of internal/reasoning/executor.go: one run of the mode *)
(* the request asks for, and what holds of a run whichever mode it is.     *)
(***************************************************************************)
EXTENDS Thoughts, TreeSearch, AgentRounds, Subtasks

reasonVars == <<runVars, thoughtVars, searchVars, agentVars, subtaskVars>>

ReasonInit == RunInit /\ ThoughtsInit /\ SearchInit /\ RoundsInit /\ SubtasksInit

\* Execute: the mode the request asks for decides which steps there are.
Work ==
    \/ RunStep /\ UNCHANGED <<thoughtVars, searchVars, agentVars, subtaskVars>>
    \/ ThoughtsStep /\ UNCHANGED <<searchVars, agentVars, subtaskVars>>
    \/ SearchStep /\ UNCHANGED <<thoughtVars, agentVars, subtaskVars>>
    \/ RoundsStep /\ UNCHANGED <<thoughtVars, searchVars, subtaskVars>>
    \/ SubtasksStep /\ UNCHANGED <<thoughtVars, searchVars, agentVars>>

ReasonNext ==
    \/ Work
    \/ Expire /\ UNCHANGED <<thoughtVars, searchVars, agentVars, subtaskVars>>

ReasonTypeOK == RunTypeOK /\ ThoughtsTypeOK /\ SearchTypeOK /\ RoundsTypeOK /\ SubtasksTypeOK

-----------------------------------------------------------------------------
(* Properties.                                                             *)

\* However candidates were pruned on the way, in whatever order rounds and
\* rollouts brought them, the synthesis is shown one as good as the best that
\* was worth keeping (buildSynthesisMessages and its multi_agent and decompose
\* counterparts).  Except in tree of thought without pruning, which quotes the
\* first branches, not the best.
BestReachesSynthesis ==
    pc \in {"synth", "answered"} =>
      \/ mode = "tot" /\ ~pruning
      \/ \A P \in Payloads : \A c \in Worthy(found) : \E d \in P : d.score >= c.score

\* The calls one request can cause, by the server's configuration and not by
\* what the request asks for: the request's sizes are cut (resolveBranches,
\* resolveMCTSRollouts, multiAgentConfig, resolveDecomposeConfig) and at most
\* two baselines and a synthesis, or a plan, come on top.
CallBound ==
    CASE mode = "tot" -> MaxBranches + 1
      [] mode = "mcts" -> MaxRollouts + 3
      [] mode = "multi_agent" -> Len(Workers) + 2 * (RoundLimit - 1) + 3
      [] mode = "decompose" -> MaxSubtasks + 3
      [] OTHER -> 0
CallsBounded == calls <= CallBound

\* Tokens: a multi-agent run accepts no outputs beyond its budget, in whatever
\* order the agents send them (runMultiAgentRound); a decomposition runs over
\* its budget by less than what one subtask costs (executeDecompose).
BudgetKept ==
    /\ used <= TokenBudget
    /\ spent = 0 \/ \E cost \in Costs : spent - cost < SubtaskBudget

\* Of the tree that selection works on: a node's visits are its own scored
\* answer and those of its children, so a failed call has left no trace in any
\* of them, and the root has seen every scored rollout (backpropagateMCTS).
TreeAddsUp ==
    /\ \A n \in DOMAIN visits :
          visits[n] = Cardinality({m \in voiced : n \in Above(m)})
    /\ visits[Root] = Len(bestHistory)

\* Once a rollout has ended at the depth limit, every later one does, for it
\* changes nothing that selection looks at: no further answer is asked for in
\* that search, however many rollouts are left (mcts.go:84).
IdleForEver == [][idle > 0 /\ pc' = "rollout" => calls' = calls]_reasonVars

\* The accumulator the agents share without a lock may lose counts but never
\* all of them, and never gains any: the trace says that memory was weighed if
\* some output was (memAcc.Add, multiagent.go:299).
AnchorsCounted ==
    mode = "multi_agent" /\ pc \notin {"await", "crashed"} =>
      /\ counted <= evaluated
      /\ evaluated > 0 => counted > 0

\* What the handler can tell of a run.
Stage == CASE pc = "setup" -> "setup"
           [] pc = "synth" -> "writing"
           [] pc = "crashed" -> "lost"
           [] pc \in {"answered", "failed"} -> pc
           [] OTHER -> "thinking"

D == INSTANCE Deliberation
        WITH stage <- Stage, material <- found # {}, failing <- failing, late <- expired

\* A run is a deliberation, whatever its mode: it answers only from material and
\* gives up only when its last call failed or its time is over.
ImplementsDeliberation == D!Spec

=============================================================================
