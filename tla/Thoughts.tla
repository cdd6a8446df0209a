------------------------------ MODULE Thoughts ------------------------------
(***************************************************************************)
(* executeToT of internal/reasoning/executor.go: a fixed number of         *)
(* branches one after another, the survivors of pruning kept as they come. *)
(* The loop does not look at its context: when it has expired every        *)
(* remaining branch is still tried, and fails.                             *)
(***************************************************************************)
EXTENDS ReasonRun

CONSTANTS
    DefaultBranches,    \* cfg.DefaultBranches
    MaxBranches         \* cfg.MaxBranches

ASSUME BranchAssumption ==
    /\ DefaultBranches \in Nat \ {0}
    /\ MaxBranches \in Nat \ {0}

VARIABLES
    branches,   \* resolveBranches(req)
    branch      \* branches tried

thoughtVars == <<branches, branch>>

resolveBranches(want) == Clamp(Asked(want, DefaultBranches), 2, MaxBranches)

ThoughtsTypeOK ==
    /\ branches \in 0..MaxBranches
    /\ branch \in 0..branches

ThoughtsInit ==
    /\ branches \in IF mode = "tot" THEN {resolveBranches(w) : w \in Wants} ELSE {0}
    /\ branch = 0

InBranch ==
    /\ pc = "branch"
    /\ branch < branches
    /\ branch' = branch + 1
    /\ UNCHANGED <<mode, pruning, pc, expired, shortlist, branches>>

BranchAnswers ==
    /\ InBranch
    /\ CallSucceeds
    /\ \E s \in Scores :
          LET c == NewCandidate("branch", s)
          IN  /\ found' = found \cup {c}
              /\ pool' \in Pruned(pool \cup {c}, PoolTopK)

BranchFails ==
    /\ InBranch
    /\ CallFails
    /\ UNCHANGED <<pool, found>>

\* Mutant: goes on without a branch.
BranchesDoneUnchecked ==
    /\ pc = "branch"
    /\ branch = branches
    /\ pc' = "settle"
    /\ UNCHANGED <<mode, pruning, expired, pool, found, shortlist, calls, failing, thoughtVars>>

BranchesDone ==
    /\ pc = "branch"
    /\ branch = branches
    /\ pc' = IF found = {} THEN "failed" ELSE "settle"
    /\ UNCHANGED <<mode, pruning, expired, pool, found, shortlist, calls, failing, thoughtVars>>

ThoughtsStep == BranchAnswers \/ BranchFails \/ BranchesDone

=============================================================================
