------------------------------ MODULE ReasonRun ------------------------------
(***************************************************************************)
(* What the four modes of internal/reasoning share: the beginning of a     *)
(* run, the pruning of candidates, the baseline call when there are none,  *)
(* and the synthesis.  The modes themselves are in Thoughts (tot),         *)
(* TreeSearch (mcts), AgentRounds (multi_agent) and Subtasks (decompose);  *)
(* Reasoner composes them.                                                 *)
(*                                                                         *)
(* A candidate is the order in which it was found, who spoke it, and its   *)
(* score in hundredths.  Its text is left out: equal scores of mcts and    *)
(* multi_agent are ranked by length, so either may come first.             *)
(***************************************************************************)
EXTENDS Integers, FiniteSets

CONSTANTS
    Modes,          \* the modes a request may ask for; "none" is no reasoning
    Scores,         \* scores an output may get
    MinScore,       \* PruningMinScore
    PoolTopK,       \* candidates kept while the mode runs
    SynthTopK,      \* candidates kept for the synthesis
    PayloadSize,    \* candidates quoted to the synthesis: 3 in the code
    Wants,          \* sizes a request may ask for; 0 is "not given"
    Voices          \* who a candidate can come from

ModeNames == {"tot", "mcts", "multi_agent", "decompose"}

ASSUME RunAssumption ==
    /\ Modes \subseteq ModeNames \cup {"none"}
    /\ Scores \subseteq 0..100
    /\ MinScore \in 0..100
    /\ SynthTopK \in Nat \ {0}
    /\ PoolTopK \in Nat /\ PoolTopK >= SynthTopK
    /\ PayloadSize \in Nat \ {0}
    /\ Wants \subseteq Nat
    /\ {"baseline", "branch", "rollout", "subtask"} \subseteq Voices

VARIABLES
    mode,       \* req.Reasoning.Mode
    pruning,    \* cfg.PruningEnabled
    pc,         \* where the run is
    expired,    \* ctx.Err() # nil
    pool,       \* branchResults or candidates, after the latest pruning
    found,      \* allSuccessful: every candidate accepted so far
    shortlist,  \* synthBranches, synthCandidates or pruned
    calls,      \* ChatCompletions calls made
    failing     \* did the latest upstream call fail?

runVars == <<mode, pruning, pc, expired, pool, found, shortlist, calls, failing>>

Steps == {"setup", "branch", "rollout", "round", "await", "plan", "subtask", "baseline",
          "settle", "rebaseline", "synth", "answered", "failed", "crashed"}
Ended == {"answered", "failed", "crashed"}
Candidate == [n : Nat \ {0}, who : Voices, score : Scores]

RunTypeOK ==
    /\ mode \in Modes
    /\ pruning \in BOOLEAN
    /\ pc \in Steps
    /\ expired \in BOOLEAN
    /\ pool \subseteq found
    /\ found \subseteq Candidate
    /\ shortlist \subseteq found
    /\ calls \in Nat
    /\ failing \in BOOLEAN

RunInit ==
    /\ mode \in Modes
    /\ pruning \in BOOLEAN
    /\ pc = "setup"
    /\ expired = FALSE
    /\ pool = {}
    /\ found = {}
    /\ shortlist = {}
    /\ calls = 0
    /\ failing = FALSE

\* A value is raised to the lower limit first and then cut at the upper one.
Clamp(x, lo, hi) ==
    LET raised == IF x < lo THEN lo ELSE x
    IN  IF raised > hi THEN hi ELSE raised

Asked(want, default) == IF want > 0 THEN want ELSE default

-----------------------------------------------------------------------------
(* Candidates.                                                             *)

\* pruneStableSort: may a stand before b?  Ties go by index where the outputs'
\* lengths play no part.
Ahead(a, b) ==
    \/ a.score > b.score
    \/ a.score = b.score /\ (mode \in {"tot", "decompose"} => a.n < b.n)

\* The first k of S, as the sort may have left them.
Top(S, k) ==
    LET size == IF Cardinality(S) < k THEN Cardinality(S) ELSE k
    IN  {T \in SUBSET S : /\ Cardinality(T) = size
                          /\ \A a \in T, b \in S \ T : Ahead(a, b)}

Worthy(S) == {c \in S : c.score >= MinScore}

\* Mutant: cuts without sorting.
pruneBranchesUnsorted(S, k) ==
    LET size == IF Cardinality(Worthy(S)) < k THEN Cardinality(Worthy(S)) ELSE k
    IN  {T \in SUBSET Worthy(S) : Cardinality(T) = size}

\* pruneBranches: the possible results.
pruneBranches(S, k) == Top(Worthy(S), k)

Pruned(S, k) == IF pruning THEN pruneBranches(S, k) ELSE {S}

\* evaluateOutput has scored an output: the new candidate.
NewCandidate(speaker, score) == [n |-> Cardinality(found) + 1, who |-> speaker, score |-> score]

\* The candidates the synthesis gets to see.  Tree of thought without pruning
\* has sorted nothing: it quotes the first branches, not the best.
Payloads ==
    IF mode = "tot" /\ ~pruning
    THEN {{c \in shortlist : Cardinality({d \in shortlist : d.n < c.n}) < PayloadSize}}
    ELSE Top(shortlist, PayloadSize)

-----------------------------------------------------------------------------
(* The steps.                                                              *)

FirstStep(m) == CASE m = "tot" -> "branch"
                  [] m = "mcts" -> "rollout"
                  [] m = "multi_agent" -> "round"
                  [] m = "decompose" -> "plan"

\* Executor.ShouldExecute; mode "auto" is one of the others by then.
ShouldExecute == mode # "none"

\* The request's own flag for the mode is missing, the models cannot be listed,
\* or the router has none to offer.
Refuse ==
    /\ pc = "setup"
    /\ ShouldExecute
    /\ pc' = "failed"
    /\ failing' \in BOOLEAN
    /\ UNCHANGED <<mode, pruning, expired, pool, found, shortlist, calls>>

Begin ==
    /\ pc = "setup"
    /\ ShouldExecute
    /\ ~expired
    /\ pc' = FirstStep(mode)
    /\ UNCHANGED <<mode, pruning, expired, pool, found, shortlist, calls, failing>>

\* A ChatCompletions call returns an answer; it cannot once the context expired.
CallSucceeds ==
    /\ ~expired
    /\ calls' = calls + 1
    /\ failing' = FALSE

CallFails ==
    /\ calls' = calls + 1
    /\ failing' = TRUE

GiveUp ==
    /\ pc' = "failed"
    /\ UNCHANGED <<mode, pruning, expired, pool, found, shortlist>>

\* The baseline responder, when the mode has produced no candidate.
Baseline ==
    /\ pc = "baseline"
    /\ CallSucceeds
    /\ \E s \in Scores :
          LET c == NewCandidate("baseline", s)
          IN  /\ pool' = pool \cup {c}
              /\ found' = found \cup {c}
    /\ pc' = "settle"
    /\ UNCHANGED <<mode, pruning, expired, shortlist>>

\* Mutant: the second baseline is pruned like the first.
RebaselinePruned ==
    /\ pc = "rebaseline"
    /\ CallSucceeds
    /\ \E s \in Scores :
          LET c == NewCandidate("baseline", s)
          IN  /\ pool' = pool \cup {c}
              /\ found' = found \cup {c}
    /\ pc' = "settle"
    /\ UNCHANGED <<mode, pruning, expired, shortlist>>

\* The baseline responder again, when pruning has left nothing to synthesise:
\* its candidate is not pruned a second time.
Rebaseline ==
    /\ pc = "rebaseline"
    /\ CallSucceeds
    /\ \E s \in Scores :
          LET c == NewCandidate("baseline", s)
          IN  /\ shortlist' = {c}
              /\ found' = found \cup {c}
    /\ pc' = "synth"
    /\ UNCHANGED <<mode, pruning, expired, pool>>

\* A deadline that passed before the call is noticed before it is made.
BaselineFails ==
    /\ pc \in {"baseline", "rebaseline"}
    /\ IF expired THEN UNCHANGED <<calls, failing>> ELSE CallFails
    /\ GiveUp

\* What goes to the synthesis.  When everything is below the minimum score the
\* two modes without a second baseline take the best of all there is.
Settle ==
    /\ pc = "settle"
    /\ \E T \in Pruned(IF pool = {} THEN found ELSE pool, SynthTopK) :
          \/ /\ T # {}
             /\ shortlist' = T
             /\ pc' = "synth"
          \/ /\ T = {}
             /\ mode \in {"tot", "decompose"}
             /\ shortlist' \in Top(found, SynthTopK)
             /\ pc' = "synth"
          \/ /\ T = {}
             /\ mode \in {"mcts", "multi_agent"}
             /\ pc' = "rebaseline"
             /\ UNCHANGED shortlist
    /\ UNCHANGED <<mode, pruning, expired, pool, found, calls, failing>>

Synthesise ==
    /\ pc = "synth"
    /\ CallSucceeds
    /\ pc' = "answered"
    /\ UNCHANGED <<mode, pruning, expired, pool, found, shortlist>>

SynthesisFails ==
    /\ pc = "synth"
    /\ CallFails
    /\ GiveUp

\* The stage timeout, or the client leaves.
Expire ==
    /\ ShouldExecute
    /\ pc \notin Ended
    /\ ~expired
    /\ expired' = TRUE
    /\ UNCHANGED <<mode, pruning, pc, pool, found, shortlist, calls, failing>>

RunStep ==
    \/ Refuse \/ Begin
    \/ Baseline \/ Rebaseline \/ BaselineFails
    \/ Settle \/ Synthesise \/ SynthesisFails

=============================================================================
