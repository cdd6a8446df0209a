------------------------------ MODULE Subtasks ------------------------------
(***************************************************************************)
(* executeDecompose of internal/reasoning/decompose.go: one call plans the *)
(* subtasks, each is one call, until they, the tokens or the time run out. *)
(* The tokens are looked at before a subtask and counted after it.         *)
(***************************************************************************)
EXTENDS ReasonRun, Sequences

CONSTANTS
    MaxSubtasks,    \* cfg.DecomposeMaxSubtasks
    SubtaskBudget,  \* cfg.BudgetTokens, as resolveDecomposeConfig leaves it
    Costs,          \* tokens a subtask and its output may be estimated at
    Plans           \* what the planner may write: sequences of items, "" is blank

ASSUME SubtaskAssumption ==
    /\ MaxSubtasks \in Nat \ {0}
    /\ SubtaskBudget \in Nat \ {0}
    /\ Costs \subseteq Nat \ {0}
    /\ Plans \subseteq Seq(STRING)

VARIABLES
    subtaskCap, \* cfg.MaxSubtasks of the request
    planned,    \* len(subtasks)
    subtask,    \* subtasks tried
    spent       \* tokenBudgetUsed

subtaskVars == <<subtaskCap, planned, subtask, spent>>

resolveDecomposeConfig(want) == Clamp(Asked(want, MaxSubtasks), 1, MaxSubtasks)

\* parseDecomposeSubtasks: the items that are not blank, once each, up to the cap.
parseDecomposeSubtasks(items, cap) ==
    LET taken[i \in 0..Len(items)] ==
          IF i = 0 THEN <<>>
          ELSE LET before == taken[i - 1]
               IN  IF \/ Len(before) = cap
                      \/ items[i] = ""
                      \/ \E j \in 1..Len(before) : before[j] = items[i]
                   THEN before
                   ELSE Append(before, items[i])
    IN  taken[Len(items)]

SubtasksTypeOK ==
    /\ subtaskCap \in 0..MaxSubtasks
    /\ planned \in 0..MaxSubtasks
    /\ subtask \in 0..planned
    /\ spent \in Nat

SubtasksInit ==
    /\ subtaskCap \in IF mode = "decompose" THEN {resolveDecomposeConfig(w) : w \in Wants} ELSE {0}
    /\ planned = 0
    /\ subtask = 0
    /\ spent = 0

\* A plan nobody can parse, or none at all, is replaced by one synthetic subtask.
PlanSubtasks ==
    /\ pc = "plan"
    /\ \/ /\ CallSucceeds
          /\ \E items \in Plans :
                LET subtasks == parseDecomposeSubtasks(items, subtaskCap)
                IN  planned' = IF subtasks = <<>> THEN 1 ELSE Len(subtasks)
       \/ /\ CallFails
          /\ planned' = 1
    /\ pc' = "subtask"
    /\ UNCHANGED <<mode, pruning, expired, pool, found, shortlist, subtaskCap, subtask, spent>>

MoreSubtasks == subtask < planned /\ ~expired /\ spent < SubtaskBudget

InSubtask ==
    /\ pc = "subtask"
    /\ subtask' = subtask + 1
    /\ UNCHANGED <<mode, pruning, pc, expired, pool, shortlist, subtaskCap, planned>>

SubtaskAnswers ==
    /\ InSubtask
    /\ MoreSubtasks
    /\ CallSucceeds
    /\ \E s \in Scores : found' = found \cup {NewCandidate("subtask", s)}
    /\ \E cost \in Costs : spent' = spent + cost

SubtaskFails ==
    /\ InSubtask
    /\ MoreSubtasks
    /\ CallFails
    /\ UNCHANGED <<found, spent>>

SubtasksDone ==
    /\ pc = "subtask"
    /\ ~MoreSubtasks
    /\ pc' = IF found = {} THEN "baseline" ELSE "settle"
    /\ UNCHANGED <<mode, pruning, expired, pool, found, shortlist, calls, failing, subtaskVars>>

SubtasksStep == PlanSubtasks \/ SubtaskAnswers \/ SubtaskFails \/ SubtasksDone

=============================================================================
