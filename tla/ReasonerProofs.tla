--------------------------- MODULE ReasonerProofs ---------------------------
(***************************************************************************)
(* What holds of a run of the reasoner for any configuration, any sizes a  *)
(* request may ask for, any scores and any pattern of failures.            *)
(*                                                                         *)
(* Each result has an inductive invariant of its own, since the modes      *)
(* share little: IdleInv and TreeInv are about the search tree, AnchorInv  *)
(* about the agents' accumulator, Solid about the material a run has, and  *)
(* BestInv about what pruning keeps.  RunInv puts those together that      *)
(* types, budgets and the number of calls need.                            *)
(***************************************************************************)
EXTENDS Completion, FiniteSetTheorems, SequenceTheorems, WellFoundedInduction, TLAPS

USE DEF ModeNames, Steps

-----------------------------------------------------------------------------
(* Induction and recursion.  The operators of the model that go through a  *)
(* sequence are recursive functions.  These lemmas, whose parameters are   *)
(* sets and functions only, say that such a function exists and that what  *)
(* passes from each of its values to the next holds of all.                *)

\* A set of numbers that is not empty has a least one.
LEMMA SomeLeast ==
    ASSUME NEW S \in SUBSET Nat, S # {}
    PROVE  \E n \in S : \A m \in S : n <= m
<1> DEFINE R == StrictSubsetOrdering(Nat)
           F == FiniteSubsetsOf(Nat)
           T == {1..n : n \in S}
<1>1. IsWellFoundedOn(R, F)
  BY FS_StrictSubsetOrderingWellFounded
<1>2. T \subseteq F /\ T # {}
  <2>1. ASSUME NEW n \in S PROVE 1..n \in F
    <3>1. IsFiniteSet(1..n)
      BY FS_Interval
    <3>2. 1..n \in SUBSET Nat
       OBVIOUS
    <3> QED BY <3>1, <3>2 DEF FiniteSubsetsOf
  <2> QED BY <2>1
<1>3. PICK X \in T : \A Y \in T : ~(<<Y, X>> \in R)
  <2> HIDE DEF R, F, T
  <2> QED BY <1>1, <1>2, WFMin
<1>4. PICK n \in S : X = 1..n
  OBVIOUS
<1>5. ASSUME NEW m \in S, m < n PROVE FALSE
  <2>1. 1..m \subseteq 1..n /\ 1..m # 1..n
    <3>1. n \in 1..n /\ n \notin 1..m
      BY <1>5
    <3> QED BY <3>1, <1>5
  <2>2. 1..m \in SUBSET Nat /\ 1..n \in SUBSET Nat
    OBVIOUS
  <2>3. <<1..m, 1..n>> \in R
    BY <2>1, <2>2 DEF StrictSubsetOrdering
  <2> QED BY <2>3, <1>3, <1>4
<1> QED
  BY <1>5

\* Every d of Dom is at a stop or refers to another of lower rank, all below N.
Ranked(Dom, stop, N, rank, next) ==
    /\ stop \in SUBSET Dom /\ N \in Nat /\ rank \in [Dom -> 0..N] /\ next \in [Dom -> Dom]
    /\ \A d \in Dom \ stop : rank[next[d]] < rank[d]

\* f is computed from base at a stop, and elsewhere by step from what d refers to.
Computes(Dom, stop, next, base, step, f) ==
    \A d \in Dom : f[d] = IF d \in stop THEN base[d] ELSE step[<<d, f[next[d]]>>]

\* P holds at a stop, and where it holds of what d refers to.
Inherited(Dom, stop, next, P) ==
    /\ P \in SUBSET Dom
    /\ \A d \in Dom : d \in stop \/ next[d] \in P => d \in P

\* A count below its cap may be raised.
LEMMA BelowCap ==
    ASSUME NEW n \in Nat, NEW cap \in Nat, n <= cap, n # cap PROVE n + 1 <= cap
  OBVIOUS

\* Induction: what holds of d when it holds of the one d refers to holds of all.
LEMMA ByRank ==
    ASSUME NEW Dom, NEW stop, NEW N, NEW rank, NEW next, Ranked(Dom, stop, N, rank, next),
           NEW P, Inherited(Dom, stop, next, P)
    PROVE  P = Dom
<1> USE DEF Ranked, Inherited
<1> SUFFICES ASSUME P # Dom PROVE FALSE
  OBVIOUS
<1> DEFINE R == {rank[d] : d \in Dom \ P}
<1>1. R \in SUBSET Nat /\ R # {}
  OBVIOUS
<1>2. PICK n \in R : \A m \in R : n <= m
  <2> HIDE DEF R
  <2> QED BY <1>1, SomeLeast
<1>3. PICK d \in Dom \ P : rank[d] = n
  BY <1>2
<1>4. d \notin stop /\ next[d] \in Dom \ P
  BY <1>3
<1>5. rank[next[d]] \in R /\ rank[next[d]] < n
  BY <1>3, <1>4
<1>6. n \in Nat /\ rank[next[d]] \in Nat
  BY <1>1, <1>4
<1> HIDE DEF R
<1> QED BY <1>2, <1>5, <1>6

\* Recursion: there is a function whose values are computed from its values at
\* arguments of lower rank.
LEMMA Recursion ==
    ASSUME NEW Dom, NEW S, NEW stop, NEW N, NEW rank, NEW next, Ranked(Dom, stop, N, rank, next),
           NEW base \in [Dom -> S], NEW step \in [Dom \X S -> S]
    PROVE  \E f \in [Dom -> S] : Computes(Dom, stop, next, base, step, f)
<1> USE DEF Ranked
<1> DEFINE Below(n) == {d \in Dom : rank[d] < n}
           Solves(f, E) == \A d \in E : f[d] = IF d \in stop THEN base[d]
                                               ELSE step[<<d, f[next[d]]>>]
           Bad == {n \in Nat : ~\E f \in [Below(n) -> S] : Solves(f, Below(n))}
<1>1. Bad = {}
  <2> SUFFICES ASSUME Bad # {} PROVE FALSE
    OBVIOUS
  <2>1. PICK n \in Bad : \A m \in Bad : n <= m
    <3>1. Bad \in SUBSET Nat
      OBVIOUS
    <3> HIDE DEF Bad
    <3> QED BY <3>1, SomeLeast
  <2>2. n # 0
    <3> SUFFICES ASSUME n = 0 PROVE FALSE
      OBVIOUS
    <3>1. Below(0) = {}
      OBVIOUS
    <3>2. [d \in Below(0) |-> base[d]] \in [Below(0) -> S]
      BY <3>1
    <3>3. Solves([d \in Below(0) |-> base[d]], Below(0))
      BY <3>1
    <3> QED BY <3>2, <3>3
  <2>3. n - 1 \in Nat /\ ~(n <= n - 1)
    BY <2>1, <2>2
  <2>4. n - 1 \notin Bad
    BY <2>1, <2>3
  <2>5. PICK f \in [Below(n - 1) -> S] : Solves(f, Below(n - 1))
    BY <2>3, <2>4
  <2>6. \A d \in Below(n) \ stop : next[d] \in Below(n - 1)
    <3> SUFFICES ASSUME NEW d \in Below(n), d \notin stop PROVE rank[next[d]] < n - 1
      OBVIOUS
    <3>1. rank[next[d]] < rank[d] /\ rank[d] < n /\ rank[d] \in Int /\ rank[next[d]] \in Int
      OBVIOUS
    <3>2. n \in Int
      OBVIOUS
    <3> QED BY <3>1, <3>2
  <2>7. Below(n - 1) \subseteq Below(n)
    <3> SUFFICES ASSUME NEW d \in Dom, rank[d] < n - 1 PROVE rank[d] < n
      OBVIOUS
    <3>1. rank[d] \in Int /\ n \in Int
      OBVIOUS
    <3> QED BY <3>1
  <2> DEFINE g == [d \in Below(n) |-> IF d \in stop THEN base[d] ELSE step[<<d, f[next[d]]>>]]
  <2>8. g \in [Below(n) -> S]
    <3> SUFFICES ASSUME NEW d \in Below(n) PROVE g[d] \in S
      OBVIOUS
    <3>1. CASE d \in stop
      BY <3>1
    <3>2. CASE d \notin stop
      <4>1. f[next[d]] \in S
        BY <2>6, <3>2
      <4>2. <<d, f[next[d]]>> \in Dom \X S
        BY <4>1
      <4> QED BY <3>2, <4>2
    <3> QED BY <3>1, <3>2
  <2>9. \A d \in Below(n - 1) : g[d] = f[d]
    BY <2>5, <2>7
  <2>10. Solves(g, Below(n))
    <3> SUFFICES ASSUME NEW d \in Below(n)
                 PROVE  g[d] = IF d \in stop THEN base[d] ELSE step[<<d, g[next[d]]>>]
      OBVIOUS
    <3> QED BY <2>6, <2>9
  <2> HIDE DEF g, Below, Solves
  <2> QED BY <2>1, <2>8, <2>10
<1>2. Below(N + 1) = Dom
  <2> SUFFICES ASSUME NEW d \in Dom PROVE rank[d] < N + 1
    OBVIOUS
  <2>1. rank[d] \in 0..N
    OBVIOUS
  <2> QED BY <2>1
<1>3. N + 1 \in Nat
  OBVIOUS
<1>4. \E f \in [Below(N + 1) -> S] : Solves(f, Below(N + 1))
  <2> HIDE DEF Below, Solves
  <2> QED BY <1>1, <1>3
<1>5. \E f \in [Dom -> S] : Solves(f, Dom)
  <2> HIDE DEF Below, Solves
  <2> QED BY <1>2, <1>4
<1> QED BY <1>5 DEF Computes

\* The same for functions of 0..N computed from one value to the next.
Advances(N, P) == 0 \in P /\ \A i \in 1..N : i - 1 \in P => i \in P

Iterates(N, first, step, f) == f[0] = first /\ \A i \in 1..N : f[i] = step[<<i, f[i - 1]>>]

LEMMA CountUp ==
    ASSUME NEW N \in Nat, NEW P, Advances(N, P)
    PROVE  \A i \in 0..N : i \in P
<1> DEFINE R == {i \in 0..N : i \notin P}
<1> SUFFICES ASSUME R # {} PROVE FALSE
  OBVIOUS
<1>1. R \in SUBSET Nat
  OBVIOUS
<1>2. PICK n \in R : \A m \in R : n <= m
  <2> HIDE DEF R
  <2> QED BY <1>1, SomeLeast
<1>3. n \in 1..N
  BY DEF Advances
<1>4. n - 1 \in 0..N /\ ~(n <= n - 1)
  BY <1>3
<1>5. n - 1 \in P
  BY <1>2, <1>4
<1> QED BY <1>3, <1>5 DEF Advances

LEMMA Iterate ==
    ASSUME NEW N \in Nat, NEW S, NEW first \in S, NEW step \in [(1..N) \X S -> S]
    PROVE  \E f \in [0..N -> S] : Iterates(N, first, step, f)
<1> DEFINE Dom == 0..N
           stop == {0}
           rank == [i \in Dom |-> i]
           next == [i \in Dom |-> IF i = 0 THEN 0 ELSE i - 1]
           base == [i \in Dom |-> first]
           more == [p \in Dom \X S |-> IF p[1] = 0 THEN first ELSE step[p]]
<1>1. \A i \in Dom : i = 0 \/ (i \in 1..N /\ i - 1 \in Dom)
  OBVIOUS
<1>2. base \in [Dom -> S] /\ more \in [Dom \X S -> S]
  <2>1. \A p \in Dom \X S : p[1] = 0 \/ p \in (1..N) \X S
    BY <1>1
  <2> QED BY <2>1
<1>3. Ranked(Dom, stop, N, rank, next)
  BY <1>1 DEF Ranked
<1>4. PICK f \in [Dom -> S] : Computes(Dom, stop, next, base, more, f)
  <2> HIDE DEF Dom, stop, rank, next, base, more
  <2> QED BY <1>2, <1>3, Recursion
<1>5. f[0] = first
  <2>1. 0 \in Dom /\ 0 \in stop /\ base[0] = first
    OBVIOUS
  <2> HIDE DEF Dom, stop, base, more, next
  <2> QED BY <1>4, <2>1 DEF Computes
<1>6. ASSUME NEW i \in 1..N PROVE f[i] = step[<<i, f[i - 1]>>]
  <2>1. i \in Dom /\ i \notin stop /\ next[i] = i - 1 /\ i - 1 \in Dom
    OBVIOUS
  <2>2. f[i] = more[<<i, f[i - 1]>>] /\ f[i - 1] \in S
    BY <1>4, <2>1 DEF Computes
  <2> QED BY <2>1, <2>2
<1>7. Iterates(N, first, step, f)
  BY <1>5, <1>6 DEF Iterates
<1>8. f \in [0..N -> S]
  OBVIOUS
<1> QED BY <1>7, <1>8

-----------------------------------------------------------------------------
(* Steps.                                                                  *)

\* Which step of which component a step of the specification is.
LEMMA Cases ==
    ASSUME [Next]_vars
    PROVE  \/ UNCHANGED reasonVars
           \/ Expire /\ UNCHANGED <<thoughtVars, searchVars, agentVars, subtaskVars>>
           \/ RunStep /\ UNCHANGED <<thoughtVars, searchVars, agentVars, subtaskVars>>
           \/ ThoughtsStep /\ UNCHANGED <<searchVars, agentVars, subtaskVars>>
           \/ SearchStep /\ UNCHANGED <<thoughtVars, agentVars, subtaskVars>>
           \/ RoundsStep /\ UNCHANGED <<thoughtVars, searchVars, subtaskVars>>
           \/ SubtasksStep /\ UNCHANGED <<thoughtVars, searchVars, agentVars>>
  BY DEF Next, vars, ReasonNext, Work

\* Where a step can lead to the loop over rollouts.
LEMMA ToRollouts ==
    ASSUME [Next]_vars, pc' = "rollout" PROVE pc = "setup" \/ pc = "rollout"
<1>1. CASE UNCHANGED reasonVars
  BY <1>1 DEF reasonVars, runVars
<1>2. CASE Expire
  BY <1>2 DEF Expire
<1>3. CASE RunStep
  BY <1>3 DEF RunStep, Refuse, Begin, Baseline, Rebaseline, BaselineFails, GiveUp, Settle,
              Synthesise, SynthesisFails
<1>4. CASE ThoughtsStep
  BY <1>4 DEF ThoughtsStep, InBranch, BranchAnswers, BranchFails, BranchesDone
<1>5. CASE SearchStep
  BY <1>5 DEF SearchStep, InRollout, RolloutIdle, SimulationFails, SimulationScored, RolloutsDone
<1>6. CASE RoundsStep
  BY <1>6 DEF RoundsStep, SpawnAgents, AgentAnswers, AgentAdds, AgentSends, AgentFails, ConcurrentMapWrites,
              RoundsDone, RoundEmpty, RoundScored, LeaveRounds
<1>7. CASE SubtasksStep
  BY <1>7 DEF SubtasksStep, PlanSubtasks, InSubtask, SubtaskAnswers, SubtaskFails, SubtasksDone
<1> QED
  BY <1>1, <1>2, <1>3, <1>4, <1>5, <1>6, <1>7, Cases

-----------------------------------------------------------------------------
(* Idle rollouts.                                                          *)

IdleInv ==
    /\ mode \in Modes
    /\ idle \in Nat
    /\ pc = "setup" => idle = 0
    /\ pc = "rollout" /\ idle > 0 => AtDepthLimit

\* Which steps there are within the loop over rollouts.
LEMMA OfRollouts ==
    ASSUME [Next]_vars, pc = "rollout"
    PROVE  \/ UNCHANGED reasonVars
           \/ Expire /\ UNCHANGED <<thoughtVars, searchVars, agentVars, subtaskVars>>
           \/ SearchStep /\ UNCHANGED <<thoughtVars, agentVars, subtaskVars>>
<1>1. ~RunStep
  BY DEF RunStep, Refuse, Begin, Baseline, Rebaseline, BaselineFails, Settle, Synthesise,
         SynthesisFails
<1>2. ~ThoughtsStep
  BY DEF ThoughtsStep, InBranch, BranchAnswers, BranchFails, BranchesDone
<1>3. ~RoundsStep
  BY DEF RoundsStep, SpawnAgents, AgentAnswers, AgentAdds, AgentSends, AgentFails, ConcurrentMapWrites,
         RoundsDone, RoundEmpty, RoundScored, RoundReturned
<1>4. ~SubtasksStep
  BY DEF SubtasksStep, PlanSubtasks, InSubtask, SubtaskAnswers, SubtaskFails, SubtasksDone
<1> QED
  BY <1>1, <1>2, <1>3, <1>4, Cases

\* The search tree changes within the loop over rollouts only.
LEMMA SearchRests ==
    ASSUME [Next]_vars, pc # "rollout" PROVE UNCHANGED searchVars
<1>1. ~SearchStep
  BY DEF SearchStep, InRollout, RolloutIdle, SimulationFails, SimulationScored, RolloutsDone
<1> QED
  BY <1>1, Cases DEF reasonVars

\* The mode of a run is the one it was asked for.
LEMMA ModeKept ==
    ASSUME [Next]_vars PROVE mode' = mode
<1>1. CASE UNCHANGED reasonVars
  BY <1>1 DEF reasonVars, runVars
<1>2. CASE Expire
  BY <1>2 DEF Expire
<1>3. CASE RunStep
  BY <1>3 DEF RunStep, Refuse, Begin, Baseline, Rebaseline, BaselineFails, GiveUp, Settle,
              Synthesise, SynthesisFails
<1>4. CASE ThoughtsStep
  BY <1>4 DEF ThoughtsStep, InBranch, BranchAnswers, BranchFails, BranchesDone
<1>5. CASE SearchStep
  BY <1>5 DEF SearchStep, InRollout, RolloutIdle, SimulationFails, SimulationScored, RolloutsDone
<1>6. CASE RoundsStep
  BY <1>6 DEF RoundsStep, SpawnAgents, AgentUnchanged, AgentAnswers, AgentAdds, AgentSends, AgentFails,
              ConcurrentMapWrites, RoundsDone, RoundEmpty, RoundScored
<1>7. CASE SubtasksStep
  BY <1>7 DEF SubtasksStep, PlanSubtasks, InSubtask, SubtaskAnswers, SubtaskFails, SubtasksDone
<1> QED
  BY <1>1, <1>2, <1>3, <1>4, <1>5, <1>6, <1>7, Cases

\* The first step of a mode is none of those the modes share.
LEMMA FirstSteps ==
    ASSUME mode \in Modes, ShouldExecute
    PROVE  FirstStep(mode) \in {"branch", "rollout", "round", "plan"}
  BY RunAssumption DEF ShouldExecute, FirstStep

\* No step goes back to the setup.
LEMMA NotBack ==
    ASSUME mode \in Modes, [Next]_vars, pc' = "setup" PROVE pc = "setup"
<1>1. CASE UNCHANGED reasonVars
  BY <1>1 DEF reasonVars, runVars
<1>2. CASE Expire
  BY <1>2 DEF Expire
<1>3. ASSUME RunStep PROVE FALSE
  <2>1. ASSUME Begin PROVE FALSE
    BY <2>1, FirstSteps DEF Begin
  <2> QED
    BY <1>3, <2>1 DEF RunStep, Refuse, Baseline, Rebaseline, BaselineFails, GiveUp, Settle,
                      Synthesise, SynthesisFails
<1>4. CASE ThoughtsStep
  BY <1>4 DEF ThoughtsStep, InBranch, BranchAnswers, BranchFails, BranchesDone
<1>5. CASE SearchStep
  BY <1>5 DEF SearchStep, InRollout, RolloutIdle, SimulationFails, SimulationScored, RolloutsDone
<1>6. CASE RoundsStep
  BY <1>6 DEF RoundsStep, SpawnAgents, AgentAnswers, AgentAdds, AgentSends, AgentFails, ConcurrentMapWrites,
              RoundsDone, RoundEmpty, RoundScored, LeaveRounds
<1>7. CASE SubtasksStep
  BY <1>7 DEF SubtasksStep, PlanSubtasks, InSubtask, SubtaskAnswers, SubtaskFails, SubtasksDone
<1> QED
  BY <1>1, <1>2, <1>3, <1>4, <1>5, <1>6, <1>7, Cases

LEMMA IdleInit == Init => IdleInv
  BY RunAssumption DEF Init, ReasonInit, RunInit, SearchInit, IdleInv

\* Once idle, a rollout can only be idle again.
LEMMA IdleRollout ==
    ASSUME IdleInv, [Next]_vars, pc = "rollout", idle > 0, pc' = "rollout"
    PROVE  UNCHANGED <<leaf, calls>> /\ idle' \in Nat
<1>1. CASE UNCHANGED reasonVars
  BY <1>1 DEF reasonVars, runVars, searchVars, IdleInv
<1>2. CASE Expire /\ UNCHANGED searchVars
  BY <1>2 DEF Expire, searchVars, IdleInv
<1>3. CASE SearchStep
  <2>1. RolloutIdle \/ RolloutsDone
    BY <1>3 DEF SearchStep, SimulationFails, SimulationScored, IdleInv
  <2>2. ~RolloutsDone
    BY DEF RolloutsDone
  <2> QED
    BY <2>1, <2>2 DEF RolloutIdle, IdleInv
<1> QED
  BY <1>1, <1>2, <1>3, OfRollouts

LEMMA IdleStep == IdleInv /\ [Next]_vars => IdleInv'
<1> SUFFICES ASSUME IdleInv, [Next]_vars PROVE IdleInv'
  OBVIOUS
<1>1. CASE pc # "rollout"
  <2>1. UNCHANGED <<idle, leaf>>
    BY <1>1, SearchRests DEF searchVars
  <2>2. pc' = "setup" => pc = "setup"
    BY NotBack DEF IdleInv
  <2>3. pc' = "rollout" => pc = "setup"
    BY <1>1, ToRollouts
  <2> QED
    BY <2>1, <2>2, <2>3, ModeKept DEF IdleInv
<1>2. CASE pc = "rollout" /\ idle > 0
  <2>1. pc' # "setup"
    BY <1>2, NotBack DEF IdleInv
  <2>2. CASE pc' = "rollout"
    BY <1>2, <2>1, <2>2, IdleRollout, ModeKept DEF IdleInv, AtDepthLimit
  <2>3. CASE pc' # "rollout"
    <3>1. idle' = idle \/ idle' = idle + 1
      BY <1>2, OfRollouts DEF reasonVars, searchVars, Expire, SearchStep, RolloutIdle,
                              SimulationFails, SimulationScored, RolloutsDone
    <3> QED
      BY <2>1, <2>3, <3>1, ModeKept DEF IdleInv
  <2> QED
    BY <2>2, <2>3
<1>3. CASE pc = "rollout" /\ ~(idle > 0)
  <2>1. pc' # "setup"
    BY <1>3, NotBack DEF IdleInv
  <2>2. \/ UNCHANGED idle
        \/ AtDepthLimit /\ idle' = idle + 1 /\ UNCHANGED leaf
    BY <1>3, OfRollouts DEF reasonVars, searchVars, Expire, SearchStep, RolloutIdle,
                            SimulationFails, SimulationScored, RolloutsDone
  <2> QED
    BY <1>3, <2>1, <2>2, ModeKept DEF IdleInv, AtDepthLimit
<1> QED
  BY <1>1, <1>2, <1>3

\* Once a rollout has ended at the depth limit the search asks for no further
\* answer, whatever is left of its rollouts (the early continue of
\* executeMCTS, which propagates nothing).
THEOREM IdleStays == Spec => IdleForEver
<1>1. IdleInv /\ [Next]_vars => [idle > 0 /\ pc' = "rollout" => calls' = calls]_reasonVars
  BY IdleRollout, ToRollouts DEF IdleInv
<1> QED
  BY <1>1, IdleInit, IdleStep, PTL DEF Spec, IdleForEver

-----------------------------------------------------------------------------
(* The accumulator of a round of agents.                                   *)

\* While an agent is adding it has read a number of outputs below the number
\* evaluated, and an evaluated output is counted or about to be.
AnchorInv ==
    /\ counted \in Nat
    /\ evaluated \in Nat
    /\ counted <= evaluated
    /\ agent = [k \in Agents |-> agent[k]]
    /\ result = [k \in Agents |-> result[k]]
    /\ \A k \in Agents :
          agent[k] = "adding" => result[k].read \in Nat /\ result[k].read < evaluated
    /\ evaluated > 0 => counted > 0 \/ \E k \in Agents : agent[k] = "adding"
    /\ pc \notin {"await", "crashed"} => \A k \in Agents : agent[k] # "adding"

LEMMA AnchorInit == Init => AnchorInv
<1> SUFFICES ASSUME Init PROVE AnchorInv
  OBVIOUS
<1>1. /\ pc = "setup"
      /\ counted = 0 /\ evaluated = 0
      /\ agent = [k \in Agents |-> "idle"]
      /\ result = [k \in Agents |-> NoResult]
  BY DEF Init, ReasonInit, RunInit, RoundsInit
<1> QED
  BY <1>1 DEF AnchorInv

\* Of the steps other than the rounds' own, none leaves a round of agents.
LEMMA RoundsRest ==
    ASSUME [Next]_vars, ~RoundsStep
    PROVE  UNCHANGED agentVars /\ (pc \in {"round", "await", "crashed"} => pc' = pc)
<1>1. CASE UNCHANGED reasonVars
  BY <1>1 DEF reasonVars, runVars
<1>2. CASE Expire /\ UNCHANGED agentVars
  BY <1>2 DEF Expire
<1>3. CASE RunStep /\ UNCHANGED agentVars
  BY <1>3 DEF RunStep, Refuse, Begin, Baseline, Rebaseline, BaselineFails, Settle, Synthesise,
              SynthesisFails
<1>4. CASE ThoughtsStep /\ UNCHANGED agentVars
  BY <1>4 DEF ThoughtsStep, InBranch, BranchAnswers, BranchFails, BranchesDone
<1>5. CASE SearchStep /\ UNCHANGED agentVars
  BY <1>5 DEF SearchStep, InRollout, RolloutIdle, SimulationFails, SimulationScored, RolloutsDone
<1>6. CASE SubtasksStep /\ UNCHANGED agentVars
  BY <1>6 DEF SubtasksStep, PlanSubtasks, InSubtask, SubtaskAnswers, SubtaskFails, SubtasksDone
<1> QED
  BY <1>1, <1>2, <1>3, <1>4, <1>5, <1>6, Cases

LEMMA AnchorAnswers ==
    ASSUME AnchorInv, NEW k \in Agents, AgentAnswers(k) PROVE AnchorInv'
<1>1. Agents' = Agents
  BY DEF AgentAnswers, AgentUnchanged, Agents
<1>2. PICK s \in Scores, t \in Tokens :
        result' = [result EXCEPT ![k] = [score |-> s, tokens |-> t, read |-> counted]]
  BY DEF AgentAnswers
<1>3. /\ pc' = "await" /\ counted' = counted /\ evaluated' = evaluated + 1
      /\ agent' = [agent EXCEPT ![k] = "adding"]
  BY DEF AgentAnswers
<1>4. \A l \in Agents : l # k => agent'[l] = agent[l] /\ result'[l] = result[l]
  BY <1>2, <1>3 DEF AnchorInv
<1>5. agent'[k] = "adding" /\ result'[k].read = counted
  BY <1>2, <1>3 DEF AnchorInv
<1>6. agent' = [l \in Agents |-> agent'[l]] /\ result' = [l \in Agents |-> result'[l]]
  BY <1>2, <1>3 DEF AnchorInv
<1>7. \A l \in Agents :
        agent'[l] = "adding" => result'[l].read \in Nat /\ result'[l].read < evaluated'
  BY <1>3, <1>4, <1>5 DEF AnchorInv
<1> QED
  BY <1>1, <1>3, <1>5, <1>6, <1>7 DEF AnchorInv

LEMMA AnchorAdds ==
    ASSUME AnchorInv, NEW k \in Agents, AgentAdds(k) PROVE AnchorInv'
<1>1. Agents' = Agents
  BY DEF AgentAdds, AgentUnchanged, Agents
<1>2. /\ pc' = "await" /\ counted' = result[k].read + 1
      /\ UNCHANGED <<evaluated, result>>
      /\ agent[k] = "adding"
      /\ agent' = [agent EXCEPT ![k] = "mapping"]
  BY DEF AgentAdds
<1>3. \A l \in Agents : agent'[l] = "adding" => agent[l] = "adding"
  BY <1>2 DEF AnchorInv
<1>4. agent' = [l \in Agents |-> agent'[l]]
  BY <1>2 DEF AnchorInv
<1>5. result[k].read \in Nat /\ result[k].read < evaluated
  BY <1>2 DEF AnchorInv
<1> QED
  BY <1>1, <1>2, <1>3, <1>4, <1>5 DEF AnchorInv

\* An agent whose call failed, or that has been counted, sends what it has.
LEMMA AnchorSends ==
    ASSUME AnchorInv, NEW k \in Agents, AgentSends(k) \/ AgentFails(k) PROVE AnchorInv'
<1>1. Agents' = Agents
  BY DEF AgentSends, AgentFails, AgentUnchanged, Agents
<1>2. /\ pc' = "await"
      /\ UNCHANGED <<evaluated, result, counted>>
      /\ agent[k] # "adding"
      /\ \E what \in {"done", "failed"} : agent' = [agent EXCEPT ![k] = what]
  BY DEF AgentSends, AgentFails
<1>3. \A l \in Agents : agent'[l] = "adding" <=> agent[l] = "adding"
  BY <1>2 DEF AnchorInv
<1>4. agent' = [l \in Agents |-> agent'[l]]
  BY <1>2 DEF AnchorInv
<1> QED
  BY <1>1, <1>2, <1>3, <1>4 DEF AnchorInv

\* A round that begins or ends has nobody adding.
LEMMA AnchorFresh ==
    ASSUME AnchorInv, UNCHANGED <<counted, evaluated>>,
           \A k \in Agents : agent[k] # "adding",
           agent' = [k \in Agents' |-> agent'[k]], result' = [k \in Agents' |-> result'[k]],
           \A k \in Agents' : agent'[k] # "adding"
    PROVE  AnchorInv'
  BY DEF AnchorInv

LEMMA AnchorStep == AnchorInv /\ [Next]_vars => AnchorInv'
<1> SUFFICES ASSUME AnchorInv, [Next]_vars PROVE AnchorInv'
  OBVIOUS
<1>1. CASE ~RoundsStep
  <2>1. UNCHANGED agentVars /\ (pc \in {"await", "crashed"} => pc' = pc)
    BY <1>1, RoundsRest
  <2> QED
    BY <2>1 DEF AnchorInv, agentVars, Agents
<1>2. CASE SpawnAgents
  <2>1. Agents' = Agents
    BY <1>2 DEF SpawnAgents, Agents
  <2>2. \A k \in Agents : agent[k] # "adding"
    BY <1>2 DEF SpawnAgents, AnchorInv
  <2> QED
    BY <1>2, <2>1, <2>2, AnchorFresh DEF SpawnAgents
<1>3. CASE \E k \in Agents : AgentAnswers(k) \/ AgentAdds(k) \/ AgentSends(k) \/ AgentFails(k)
  BY <1>3, AnchorAnswers, AnchorAdds, AnchorSends
<1>4. CASE ConcurrentMapWrites
  BY <1>4 DEF ConcurrentMapWrites, AgentUnchanged, AnchorInv, Agents
<1>5. CASE RoundsDone
  BY <1>5 DEF RoundsDone, LeaveRounds, agentVars, AnchorInv, Agents
<1>6. CASE RoundEmpty
  <2>1. \A k \in Agents : agent[k] # "adding"
    BY <1>6 DEF RoundEmpty, RoundReturned
  <2>2. UNCHANGED <<counted, evaluated, agent, result, roles>>
    BY <1>6 DEF RoundEmpty, agentVars
  <2> QED
    BY <2>1, <2>2 DEF AnchorInv, Agents
<1>7. CASE RoundScored
  <2>1. \A k \in Agents : agent[k] # "adding"
    BY <1>7 DEF RoundScored, RoundReturned
  <2>2. /\ UNCHANGED <<counted, evaluated>>
        /\ agent' = [k \in DOMAIN roles' |-> "idle"]
        /\ result' = [k \in DOMAIN roles' |-> NoResult]
    BY <1>7 DEF RoundScored
  <2>3. Agents' = DOMAIN roles'
    BY DEF Agents
  <2> QED
    BY <2>1, <2>2, <2>3, AnchorFresh
<1> QED
  BY <1>1, <1>2, <1>3, <1>4, <1>5, <1>6, <1>7 DEF RoundsStep

\* Agents that lose each other's updates still leave a count: no more than were
\* evaluated, and not nothing if some were (memAcc.Add without a lock).
THEOREM AnchorsCount == Spec => []AnchorsCounted
<1>1. AnchorInv => AnchorsCounted
  BY DEF AnchorInv, AnchorsCounted
<1> QED
  BY <1>1, AnchorInit, AnchorStep, PTL DEF Spec

-----------------------------------------------------------------------------
(* Deliberation.                                                           *)

\* Pruning adds nothing.
LEMMA PrunedWithin ==
    ASSUME NEW S, NEW k, NEW T \in Pruned(S, k) PROVE T \subseteq S
  BY DEF Pruned, pruneBranches, Top, Worthy

LEMMA AtLeastOne ==
    ASSUME NEW want \in Wants PROVE resolveBranches(want) \in Nat \ {0}
  BY RunAssumption, BranchAssumption DEF resolveBranches, Clamp, Asked

\* What is settled or synthesised comes of a candidate, and a tree of thought
\* that has tried branches without getting one has just seen a call fail.
Solid ==
    /\ mode \in Modes
    /\ pool \subseteq found
    /\ pc \in {"settle", "synth", "rebaseline"} => found # {}
    /\ pc = "branch" => mode = "tot"
    /\ mode = "tot" => branches \in Nat \ {0}
    /\ branch \in Nat
    /\ pc = "setup" => branch = 0
    /\ pc = "branch" /\ found = {} /\ branch > 0 => failing

LEMMA SolidInit == Init => Solid
<1> SUFFICES ASSUME Init PROVE Solid
  OBVIOUS
<1>1. /\ mode \in Modes /\ pc = "setup" /\ pool = {} /\ found = {} /\ branch = 0
      /\ mode = "tot" => branches \in {resolveBranches(w) : w \in Wants}
  BY DEF Init, ReasonInit, RunInit, ThoughtsInit
<1>2. mode = "tot" => branches \in Nat \ {0}
  BY <1>1, AtLeastOne
<1> QED
  BY <1>1, <1>2 DEF Solid

\* What a step must leave so that the material stays solid.
LEMMA SolidElsewhere ==
    ASSUME Solid, UNCHANGED <<mode, branches, branch>>, pool' \subseteq found',
           pc' \in {"settle", "synth", "rebaseline"} => found' # {},
           pc' \notin {"setup", "branch"}
    PROVE  Solid'
  BY DEF Solid

LEMMA SolidRun ==
    ASSUME Solid, RunStep, UNCHANGED thoughtVars PROVE Solid'
<1> USE DEF thoughtVars
<1>1. CASE Refuse
  BY <1>1, SolidElsewhere DEF Refuse, Solid
<1>2. CASE Begin
  <2>1. pc' = "branch" => mode = "tot"
    BY <1>2, RunAssumption DEF Begin, FirstStep, Solid, ShouldExecute
  <2>2. pc' \in {"branch", "rollout", "round", "plan"}
    BY <1>2, FirstSteps DEF Begin, Solid
  <2> QED
    BY <1>2, <2>1, <2>2 DEF Begin, Solid
<1>3. CASE Baseline
  <2>1. PICK s \in Scores : /\ pool' = pool \cup {NewCandidate("baseline", s)}
                            /\ found' = found \cup {NewCandidate("baseline", s)}
    BY <1>3 DEF Baseline
  <2>2. pc' = "settle" /\ mode' = mode
    BY <1>3 DEF Baseline
  <2> QED
    BY <2>1, <2>2, SolidElsewhere DEF Solid
<1>4. CASE Rebaseline
  <2>1. PICK s \in Scores : found' = found \cup {NewCandidate("baseline", s)}
    BY <1>4 DEF Rebaseline
  <2>2. pc' = "synth" /\ mode' = mode /\ pool' = pool
    BY <1>4 DEF Rebaseline
  <2> QED
    BY <2>1, <2>2, SolidElsewhere DEF Solid
<1>5. CASE BaselineFails \/ SynthesisFails
  BY <1>5, SolidElsewhere DEF BaselineFails, SynthesisFails, GiveUp, Solid
<1>6. CASE Settle
  BY <1>6, SolidElsewhere DEF Settle, Solid
<1>7. CASE Synthesise
  BY <1>7, SolidElsewhere DEF Synthesise, Solid
<1> QED
  BY <1>1, <1>2, <1>3, <1>4, <1>5, <1>6, <1>7 DEF RunStep

LEMMA SolidThoughts ==
    ASSUME Solid, ThoughtsStep PROVE Solid'
<1>1. CASE BranchAnswers
  <2>1. PICK s \in Scores : /\ found' = found \cup {NewCandidate("branch", s)}
                            /\ pool' \in Pruned(pool \cup {NewCandidate("branch", s)}, PoolTopK)
    BY <1>1 DEF BranchAnswers
  <2>2. pool' \subseteq found' /\ found' # {}
    BY <2>1, PrunedWithin DEF Solid
  <2> QED
    BY <1>1, <2>2 DEF BranchAnswers, InBranch, Solid
<1>2. CASE BranchFails
  BY <1>2 DEF BranchFails, InBranch, CallFails, Solid
<1>3. CASE BranchesDone
  BY <1>3, SolidElsewhere DEF BranchesDone, thoughtVars, Solid
<1> QED
  BY <1>1, <1>2, <1>3 DEF ThoughtsStep

LEMMA SolidSearch ==
    ASSUME Solid, SearchStep, UNCHANGED thoughtVars PROVE Solid'
<1> USE DEF thoughtVars
<1>1. CASE RolloutIdle \/ SimulationFails
  BY <1>1, SolidElsewhere DEF RolloutIdle, SimulationFails, InRollout, Solid
<1>2. CASE SimulationScored
  <2>1. PICK s \in Scores :
          /\ found' = found \cup {NewCandidate("rollout", s)}
          /\ pool' \in Pruned(pool \cup {NewCandidate("rollout", s)}, PoolTopK)
          /\ pc' \in {pc, "baseline", "settle"}
    BY <1>2 DEF SimulationScored
  <2>2. pool' \subseteq found' /\ found' # {}
    BY <2>1, PrunedWithin DEF Solid
  <2>3. pc = "rollout" /\ mode' = mode
    BY <1>2 DEF SimulationScored, InRollout
  <2> QED
    BY <2>1, <2>2, <2>3, SolidElsewhere
<1>3. CASE RolloutsDone
  BY <1>3, SolidElsewhere DEF RolloutsDone, Solid
<1> QED
  BY <1>1, <1>2, <1>3 DEF SearchStep

LEMMA SolidRounds ==
    ASSUME Solid, RoundsStep, UNCHANGED thoughtVars PROVE Solid'
<1> USE DEF thoughtVars
<1>1. CASE SpawnAgents
  BY <1>1, SolidElsewhere DEF SpawnAgents, Solid
<1>2. ASSUME NEW k \in Agents, AgentAnswers(k) \/ AgentAdds(k) \/ AgentSends(k) \/ AgentFails(k) PROVE Solid'
  BY <1>2, SolidElsewhere DEF AgentAnswers, AgentAdds, AgentSends, AgentFails, AgentUnchanged, Solid
<1>3. CASE ConcurrentMapWrites
  BY <1>3, SolidElsewhere DEF ConcurrentMapWrites, AgentUnchanged, Solid
<1>4. CASE RoundsDone \/ RoundEmpty
  BY <1>4, SolidElsewhere DEF RoundsDone, RoundEmpty, LeaveRounds, Solid
<1>5. CASE RoundScored
  <2>1. PICK new : found' = found \cup new /\ pool' \in Pruned(pool \cup new, PoolTopK)
    BY <1>5 DEF RoundScored
  <2>2. pool' \subseteq found'
    BY <2>1, PrunedWithin DEF Solid
  <2>3. pc' \in {"baseline", "round"} \/ (pc' = "settle" /\ MayAgree(pool'))
    BY <1>5 DEF RoundScored
  <2>4. ~MayAgree({})
    BY FS_EmptySet DEF MayAgree
  <2>5. pc' = "settle" => found' # {}
    BY <2>2, <2>3, <2>4
  <2>6. mode' = mode
    BY <1>5 DEF RoundScored
  <2> QED
    BY <2>2, <2>3, <2>5, <2>6, SolidElsewhere
<1> QED
  BY <1>1, <1>2, <1>3, <1>4, <1>5 DEF RoundsStep

LEMMA SolidSubtasks ==
    ASSUME Solid, SubtasksStep, UNCHANGED thoughtVars PROVE Solid'
<1> USE DEF thoughtVars
<1>1. CASE PlanSubtasks
  BY <1>1, SolidElsewhere DEF PlanSubtasks, Solid
<1>2. CASE SubtaskAnswers
  <2>1. found \subseteq found'
    BY <1>2 DEF SubtaskAnswers
  <2> QED
    BY <1>2, <2>1, SolidElsewhere DEF SubtaskAnswers, InSubtask, Solid
<1>3. CASE SubtaskFails
  BY <1>3, SolidElsewhere DEF SubtaskFails, InSubtask, Solid
<1>4. CASE SubtasksDone
  BY <1>4, SolidElsewhere DEF SubtasksDone, Solid
<1> QED
  BY <1>1, <1>2, <1>3, <1>4 DEF SubtasksStep

LEMMA SolidStep == Solid /\ [Next]_vars => Solid'
<1> SUFFICES ASSUME Solid, [Next]_vars PROVE Solid'
  OBVIOUS
<1>1. CASE UNCHANGED reasonVars
  BY <1>1 DEF reasonVars, runVars, thoughtVars, Solid
<1>2. CASE Expire /\ UNCHANGED thoughtVars
  BY <1>2 DEF Expire, thoughtVars, Solid
<1> QED
  BY <1>1, <1>2, Cases, SolidRun, SolidThoughts, SolidSearch, SolidRounds, SolidSubtasks

\* The abstract step that each part of a run takes, or a stutter.
LEMMA ThinkOn ==
    ASSUME pc \notin {"setup", "synth", "answered", "failed", "crashed"},
           pc' \notin {"setup", "synth", "answered", "failed"},
           found \subseteq found', UNCHANGED expired
    PROVE  D!Next
  BY DEF D!Next, D!Think, Stage

LEMMA RunDeliberates ==
    ASSUME Solid, RunStep PROVE D!Next
<1>1. CASE Refuse
  BY <1>1 DEF Refuse, D!Next, D!Begin, Stage
<1>2. CASE Begin
  <2>1. pc' \in {"branch", "rollout", "round", "plan"}
    BY <1>2, FirstSteps DEF Begin, Solid
  <2> QED
    BY <1>2, <2>1 DEF Begin, D!Next, D!Begin, Stage
<1>3. CASE Baseline
  <2>1. found \subseteq found'
    BY <1>3 DEF Baseline
  <2> QED
    BY <1>3, <2>1, ThinkOn DEF Baseline
<1>4. CASE Rebaseline
  <2>1. found' # {}
    BY <1>4 DEF Rebaseline
  <2> QED
    BY <1>4, <2>1 DEF Rebaseline, D!Next, D!Write, Stage
<1>5. CASE BaselineFails
  BY <1>5 DEF BaselineFails, GiveUp, CallFails, D!Next, D!GiveUp, Stage
<1>6. CASE Settle
  <2>1. pc = "settle" /\ found # {} /\ UNCHANGED <<found, expired, failing>>
    BY <1>6 DEF Settle, Solid
  <2>2. pc' \in {"synth", "rebaseline"}
    BY <1>6 DEF Settle
  <2>3. CASE pc' = "synth"
    BY <2>1, <2>3 DEF D!Next, D!Write, Stage
  <2>4. CASE pc' = "rebaseline"
    BY <2>1, <2>4, ThinkOn
  <2> QED
    BY <2>2, <2>3, <2>4
<1>7. CASE Synthesise
  BY <1>7 DEF Synthesise, CallSucceeds, D!Next, D!Answer, Stage
<1>8. CASE SynthesisFails
  BY <1>8 DEF SynthesisFails, GiveUp, CallFails, D!Next, D!GiveUp, Stage
<1> QED
  BY <1>1, <1>2, <1>3, <1>4, <1>5, <1>6, <1>7, <1>8 DEF RunStep

LEMMA ThoughtsDeliberate ==
    ASSUME Solid, ThoughtsStep PROVE D!Next
<1>1. CASE BranchAnswers
  <2>1. found \subseteq found'
    BY <1>1 DEF BranchAnswers
  <2> QED
    BY <1>1, <2>1, ThinkOn DEF BranchAnswers, InBranch
<1>2. CASE BranchFails
  BY <1>2, ThinkOn DEF BranchFails, InBranch
<1>3. CASE BranchesDone /\ found # {}
  BY <1>3, ThinkOn DEF BranchesDone
<1>4. CASE BranchesDone /\ found = {}
  <2>1. pc = "branch" /\ pc' = "failed" /\ UNCHANGED <<found, failing, expired>>
    BY <1>4 DEF BranchesDone
  <2>2. failing
    BY <1>4, <2>1 DEF BranchesDone, Solid
  <2> QED
    BY <2>1, <2>2 DEF D!Next, D!GiveUp, Stage
<1> QED
  BY <1>1, <1>2, <1>3, <1>4 DEF ThoughtsStep

LEMMA SearchDeliberates ==
    ASSUME SearchStep PROVE D!Next
<1>1. CASE RolloutIdle \/ SimulationFails
  BY <1>1, ThinkOn DEF RolloutIdle, SimulationFails, InRollout
<1>2. CASE SimulationScored
  <2>1. found \subseteq found' /\ pc' \in {pc, "baseline", "settle"}
    BY <1>2 DEF SimulationScored
  <2> QED
    BY <1>2, <2>1, ThinkOn DEF SimulationScored, InRollout
<1>3. CASE RolloutsDone
  BY <1>3, ThinkOn DEF RolloutsDone
<1> QED
  BY <1>1, <1>2, <1>3 DEF SearchStep

LEMMA RoundsDeliberate ==
    ASSUME RoundsStep PROVE D!Next
<1>1. CASE SpawnAgents
  BY <1>1, ThinkOn DEF SpawnAgents
<1>2. ASSUME NEW k \in Agents, AgentAnswers(k) \/ AgentAdds(k) \/ AgentSends(k) \/ AgentFails(k) PROVE D!Next
  BY <1>2, ThinkOn DEF AgentAnswers, AgentAdds, AgentSends, AgentFails, AgentUnchanged
<1>3. CASE ConcurrentMapWrites
  BY <1>3, ThinkOn DEF ConcurrentMapWrites, AgentUnchanged
<1>4. CASE RoundsDone \/ RoundEmpty
  BY <1>4, ThinkOn DEF RoundsDone, RoundEmpty, RoundReturned, LeaveRounds
<1>5. CASE RoundScored
  <2>1. pc = "await" /\ pc' \in {"baseline", "settle", "round"} /\ UNCHANGED expired
    BY <1>5 DEF RoundScored, RoundReturned
  <2>2. found \subseteq found'
    BY <1>5 DEF RoundScored
  <2> QED
    BY <2>1, <2>2, ThinkOn
<1> QED
  BY <1>1, <1>2, <1>3, <1>4, <1>5 DEF RoundsStep

LEMMA SubtasksDeliberate ==
    ASSUME SubtasksStep PROVE D!Next
<1>1. CASE PlanSubtasks
  BY <1>1, ThinkOn DEF PlanSubtasks
<1>2. CASE SubtaskAnswers
  <2>1. found \subseteq found'
    BY <1>2 DEF SubtaskAnswers
  <2> QED
    BY <1>2, <2>1, ThinkOn DEF SubtaskAnswers, InSubtask
<1>3. CASE SubtaskFails
  BY <1>3, ThinkOn DEF SubtaskFails, InSubtask
<1>4. CASE SubtasksDone
  BY <1>4, ThinkOn DEF SubtasksDone
<1> QED
  BY <1>1, <1>2, <1>3, <1>4 DEF SubtasksStep

LEMMA StepDeliberates == Solid /\ [Next]_vars => [D!Next]_(D!vars)
<1> SUFFICES ASSUME Solid, [Next]_vars PROVE D!Next \/ UNCHANGED D!vars
  OBVIOUS
<1>1. CASE UNCHANGED reasonVars
  BY <1>1 DEF reasonVars, runVars, D!vars, Stage
<1>2. CASE Expire
  BY <1>2 DEF Expire, D!Next, D!Expire, Stage
<1> QED
  BY <1>1, <1>2, Cases, RunDeliberates, ThoughtsDeliberate, SearchDeliberates, RoundsDeliberate,
     SubtasksDeliberate

\* Whatever its mode, a run answers only from material and with its last call
\* answered, and gives up only after a failed call or when time is over
\* (Executor.Execute and the four modes).
THEOREM Deliberates == Spec => ImplementsDeliberation
<1>1. Init => D!Init
  BY DEF Init, ReasonInit, RunInit, D!Init, Stage
<1> QED
  BY <1>1, SolidInit, SolidStep, StepDeliberates, PTL DEF Spec, ImplementsDeliberation, D!Spec

-----------------------------------------------------------------------------
(* The search tree.                                                        *)

Paths == Seq(Actions)
Under(n, S) == {m \in S : n \in Above(m)}

\* On the way to a child are its parent's ancestors, its parent and itself.
LEMMA AboveChild ==
    ASSUME NEW n \in Paths, NEW a \in Actions
    PROVE  /\ Child(n, a) \in Paths
           /\ Len(Child(n, a)) = Len(n) + 1
           /\ Above(Child(n, a)) = Above(n) \cup {Child(n, a)}
<1> DEFINE c == Child(n, a)
<1>1. c \in Paths /\ Len(c) = Len(n) + 1 /\ \A i \in 1..Len(n) : c[i] = n[i]
  BY AppendProperties DEF Paths, Child
<1>2. ASSUME NEW i \in 0..Len(n) PROVE SubSeq(c, 1, i) = SubSeq(n, 1, i)
  <2>1. i \in Nat /\ \A j \in 1..i : c[j] = n[j] /\ c[j] \in Actions /\ n[j] \in Actions
    BY <1>1, <1>2 DEF Paths
  <2> HIDE DEF c
  <2>2. /\ SubSeq(c, 1, i) \in Seq(Actions) /\ Len(SubSeq(c, 1, i)) = i
        /\ \A j \in 1..i : SubSeq(c, 1, i)[j] = c[j]
    BY <2>1, SubSeqProperties
  <2>3. /\ SubSeq(n, 1, i) \in Seq(Actions) /\ Len(SubSeq(n, 1, i)) = i
        /\ \A j \in 1..i : SubSeq(n, 1, i)[j] = n[j]
    BY <2>1, SubSeqProperties
  <2> DEFINE p == SubSeq(c, 1, i)
             q == SubSeq(n, 1, i)
  <2> HIDE DEF p, q
  <2>4. p \in Seq(Actions) /\ q \in Seq(Actions) /\ Len(p) = Len(q) /\ \A j \in 1..Len(p) : p[j] = q[j]
    BY <2>1, <2>2, <2>3 DEF p, q
  <2>5. p = q
    BY <2>4, SeqEqual
  <2> QED
    BY <2>5 DEF p, q
<1>3. SubSeq(c, 1, Len(n) + 1) = c
  BY <1>1, SubSeqFull DEF Paths
<1>4. 0..Len(c) = (0..Len(n)) \cup {Len(n) + 1}
  BY <1>1 DEF Paths
<1>5. {SubSeq(c, 1, i) : i \in 0..Len(c)} = {SubSeq(n, 1, i) : i \in 0..Len(n)} \cup {c}
  BY <1>2, <1>3, <1>4
<1> HIDE DEF c
<1>6. Above(c) = Above(n) \cup {c}
  BY <1>5 DEF Above
<1> QED
  BY <1>1, <1>6 DEF c

LEMMA AboveAll ==
    ASSUME NEW n \in Paths PROVE Root \in Above(n) /\ n \in Above(n)
<1>1. SubSeq(n, 1, 0) = <<>>
  BY SubSeqEmpty
<1>2. SubSeq(n, 1, Len(n)) = n
  BY SubSeqFull DEF Paths
<1>3. 0 \in 0..Len(n) /\ Len(n) \in 0..Len(n)
  BY DEF Paths
<1>4. SubSeq(n, 1, 0) \in Above(n) /\ SubSeq(n, 1, Len(n)) \in Above(n)
  BY <1>3 DEF Above
<1> QED
  BY <1>1, <1>2, <1>4 DEF Root

\* The tree is closed under parents, selection will end in one of its leaves, and
\* each node counts the scored answers below it.
Grown(v, l) ==
    /\ DOMAIN v \subseteq Paths
    /\ Root \in DOMAIN v
    /\ \A n \in DOMAIN v : Above(n) \subseteq DOMAIN v
    /\ l \in DOMAIN v
    /\ Children(l, v) = {}

TreeInv ==
    /\ Grown(visits, leaf)
    /\ voiced \subseteq DOMAIN visits
    /\ IsFiniteSet(voiced)
    /\ \A n \in DOMAIN visits : visits[n] = Cardinality(Under(n, voiced))
    /\ bestHistory \in Seq(Scores)
    /\ visits[Root] = Len(bestHistory)

LEMMA TreeInit == Init => TreeInv
<1> SUFFICES ASSUME Init PROVE TreeInv
  OBVIOUS
<1>1. /\ visits = [n \in {Root} |-> 0] /\ voiced = {} /\ leaf = Root /\ bestHistory = <<>>
  BY DEF Init, ReasonInit, SearchInit
<1>2. Root \in Paths /\ Above(Root) = {Root}
  <2>1. Len(Root) = 0 /\ Root \in Paths
    BY DEF Root, Paths
  <2>2. SubSeq(Root, 1, 0) = Root
    BY SubSeqEmpty DEF Root
  <2>3. 0..Len(Root) = {0}
    BY <2>1
  <2>4. Above(Root) = {SubSeq(Root, 1, 0)}
    BY <2>3 DEF Above
  <2> QED
    BY <2>1, <2>2, <2>4
<1>3. ASSUME NEW a \in Actions PROVE Child(Root, a) # Root
  BY <1>2, AboveChild DEF Paths
<1>4. Grown(visits, leaf)
  BY <1>1, <1>2, <1>3 DEF Grown, Children
<1>5. Under(Root, voiced) = {}
  BY <1>1 DEF Under
<1>6. Len(bestHistory) = 0 /\ bestHistory \in Seq(Scores)
  BY <1>1
<1> QED
  BY <1>1, <1>4, <1>5, <1>6, FS_EmptySet DEF TreeInv

\* The children of a leaf that expansion makes are new, have no children, and no
\* node of the tree below them.
LEMMA Expansion ==
    ASSUME TreeInv
    PROVE  LET v == Expanded(visits, leaf)
           IN  /\ Grown(v, NextNode)
               /\ DOMAIN visits \subseteq DOMAIN v
               /\ NextNode \notin DOMAIN visits
               /\ NextNode \in Paths
               /\ \A n \in DOMAIN v : v[n] = Cardinality(Under(n, voiced))
<1> DEFINE kids == {Child(leaf, a) : a \in Actions}
           v == Expanded(visits, leaf)
<1>1. leaf \in Paths /\ leaf \in DOMAIN visits /\ DOMAIN visits \subseteq Paths
  BY DEF TreeInv, Grown
<1>2. DOMAIN v = DOMAIN visits \cup kids
  BY DEF Expanded
<1>3. kids \cap DOMAIN visits = {}
  BY DEF TreeInv, Grown, Children
<1>4. 1 \in Actions
  <2>1. Cardinality(Actions) \in Nat /\ Cardinality(Actions) # 0
    BY SearchAssumption, FS_CardinalityType, FS_EmptySet
  <2> QED
    BY <2>1, SearchAssumption
<1>5. NextNode \in kids
  BY <1>4 DEF NextNode
<1>6. kids \subseteq Paths /\ \A n \in kids : Len(n) = Len(leaf) + 1
  BY <1>1, AboveChild
<1>7. ASSUME NEW n \in kids PROVE Above(n) \subseteq DOMAIN v
  <2>1. PICK a \in Actions : n = Child(leaf, a)
    BY <1>7
  <2>2. Above(n) = Above(leaf) \cup {n}
    BY <1>1, <2>1, AboveChild
  <2>3. Above(leaf) \subseteq DOMAIN visits
    BY DEF TreeInv, Grown
  <2> QED
    BY <1>2, <1>7, <2>2, <2>3
<1>8. ASSUME NEW a \in Actions PROVE Child(NextNode, a) \notin DOMAIN v
  <2> DEFINE c == Child(NextNode, a)
  <2>1. NextNode \in Paths /\ Len(NextNode) = Len(leaf) + 1
    BY <1>5, <1>6
  <2>2. Len(c) = Len(leaf) + 2 /\ Above(c) = Above(NextNode) \cup {c}
    BY <1>1, <2>1, AboveChild DEF Paths
  <2>3. NextNode \in Above(c)
    BY <2>1, <2>2, AboveAll
  <2>4. c \notin DOMAIN visits
    BY <1>3, <1>5, <2>3 DEF TreeInv, Grown
  <2>5. c \notin kids
    BY <1>1, <1>6, <2>2 DEF Paths
  <2> QED
    BY <1>2, <2>4, <2>5
<1>9. Grown(v, NextNode)
  <2>1. \A n \in DOMAIN v : Above(n) \subseteq DOMAIN v
    BY <1>2, <1>7 DEF TreeInv, Grown
  <2>2. Children(NextNode, v) = {}
    BY <1>8 DEF Children
  <2>3. DOMAIN v \subseteq Paths /\ Root \in DOMAIN v
    BY <1>1, <1>2, <1>6 DEF TreeInv, Grown
  <2> QED
    BY <1>2, <1>5, <2>1, <2>2, <2>3 DEF Grown
<1>10. ASSUME NEW n \in DOMAIN v PROVE v[n] = Cardinality(Under(n, voiced))
  <2>1. CASE n \in DOMAIN visits
    BY <1>2, <2>1 DEF TreeInv, Expanded
  <2>2. CASE n \in kids
    <3>1. v[n] = 0
      BY <1>2, <1>3, <2>2 DEF Expanded
    <3>2. Under(n, voiced) = {}
      BY <1>3, <2>2 DEF Under, TreeInv, Grown
    <3> QED
      BY <3>1, <3>2, FS_EmptySet
  <2> QED
    BY <1>2, <2>1, <2>2
<1> QED
  BY <1>2, <1>3, <1>5, <1>6, <1>9, <1>10

\* A scored answer at a new node counts for the nodes above it, once.
LEMMA OneMoreUnder ==
    ASSUME IsFiniteSet(voiced), NEW c, c \notin voiced, NEW n
    PROVE  Cardinality(Under(n, voiced \cup {c}))
             = IF n \in Above(c) THEN Cardinality(Under(n, voiced)) + 1
               ELSE Cardinality(Under(n, voiced))
<1>1. IsFiniteSet(Under(n, voiced))
  BY FS_Subset DEF Under
<1>2. c \notin Under(n, voiced)
  BY DEF Under
<1>3. CASE n \in Above(c)
  <2>1. Under(n, voiced \cup {c}) = Under(n, voiced) \cup {c}
    BY <1>3 DEF Under
  <2> QED
    BY <1>1, <1>2, <1>3, <2>1, FS_AddElement
<1>4. CASE n \notin Above(c)
  BY <1>4 DEF Under
<1> QED
  BY <1>3, <1>4

LEMMA TreeScored ==
    ASSUME TreeInv, SimulationScored PROVE TreeInv'
<1> DEFINE v == Expanded(visits, leaf)
<1>1. /\ visits' = Backpropagated(v, NextNode)
      /\ leaf' \in Selectable(visits')
      /\ voiced' = voiced \cup {NextNode}
  BY DEF SimulationScored
<1>2. PICK s \in Scores :
        bestHistory' = Append(bestHistory,
                              IF Len(bestHistory) > 0 /\ bestHistory[Len(bestHistory)] > s
                              THEN bestHistory[Len(bestHistory)] ELSE s)
  BY DEF SimulationScored
<1>3. /\ Grown(v, NextNode) /\ DOMAIN visits \subseteq DOMAIN v
      /\ NextNode \notin DOMAIN visits /\ NextNode \in Paths
      /\ \A n \in DOMAIN v : v[n] = Cardinality(Under(n, voiced))
  BY Expansion
<1> HIDE DEF v
<1>4. DOMAIN visits' = DOMAIN v
  BY <1>1 DEF Backpropagated
<1>5. \A n \in DOMAIN v : visits'[n] = IF n \in Above(NextNode) THEN v[n] + 1 ELSE v[n]
  BY <1>1 DEF Backpropagated
<1>6. NextNode \notin voiced /\ IsFiniteSet(voiced) /\ voiced \subseteq DOMAIN v
  BY <1>3 DEF TreeInv
<1>7. IsFiniteSet(voiced') /\ voiced' \subseteq DOMAIN visits'
  BY <1>1, <1>3, <1>4, <1>6, FS_AddElement DEF Grown
<1>8. \A n \in DOMAIN v : visits'[n] = Cardinality(Under(n, voiced'))
  BY <1>1, <1>3, <1>5, <1>6, OneMoreUnder
<1>9. leaf' \in DOMAIN visits' /\ Children(leaf', visits') = {}
  BY <1>1 DEF Selectable
<1>10. Grown(visits', leaf')
  BY <1>3, <1>4, <1>9 DEF Grown
<1>11. bestHistory' \in Seq(Scores) /\ Len(bestHistory') = Len(bestHistory) + 1
  <2>1. bestHistory \in Seq(Scores)
    BY DEF TreeInv
  <2>2. Len(bestHistory) > 0 => bestHistory[Len(bestHistory)] \in Scores
    BY <2>1
  <2> QED
    BY <1>2, <2>1, <2>2, AppendProperties
<1>12. visits'[Root] = Len(bestHistory')
  <2>1. Root \in Above(NextNode)
    BY <1>3, AboveAll
  <2>2. Root \in DOMAIN visits /\ visits[Root] = Len(bestHistory)
    BY DEF TreeInv, Grown
  <2>3. v[Root] = visits[Root]
    BY <2>2 DEF v, Expanded
  <2> QED
    BY <1>3, <1>5, <1>11, <2>1, <2>2, <2>3
<1> QED
  BY <1>4, <1>7, <1>8, <1>10, <1>11, <1>12 DEF TreeInv

LEMMA TreeStep == TreeInv /\ [Next]_vars => TreeInv'
<1> SUFFICES ASSUME TreeInv, [Next]_vars PROVE TreeInv'
  OBVIOUS
<1>1. CASE UNCHANGED searchVars
  BY <1>1 DEF searchVars, TreeInv, Grown, Under, Children
<1>2. CASE RolloutIdle
  BY <1>2 DEF RolloutIdle, TreeInv, Grown, Under, Children
<1>3. CASE SimulationFails
  <2> DEFINE v == Expanded(visits, leaf)
  <2>1. visits' = v /\ leaf' = NextNode /\ UNCHANGED <<voiced, bestHistory>>
    BY <1>3 DEF SimulationFails
  <2>2. /\ Grown(v, NextNode) /\ DOMAIN visits \subseteq DOMAIN v
        /\ \A n \in DOMAIN v : v[n] = Cardinality(Under(n, voiced))
    BY Expansion
  <2>3. Root \in DOMAIN visits
    BY DEF TreeInv, Grown
  <2>4. v[Root] = visits[Root]
    BY <2>3 DEF Expanded
  <2> HIDE DEF v
  <2> QED
    BY <2>1, <2>2, <2>4 DEF TreeInv
<1>4. CASE SimulationScored
  BY <1>4, TreeScored
<1>5. CASE RolloutsDone
  BY <1>1, <1>5 DEF RolloutsDone
<1> QED
  BY <1>1, <1>2, <1>3, <1>4, <1>5, Cases DEF SearchStep, reasonVars

\* The numbers that selection works on always add up: a failed call leaves no
\* trace in them and the root has seen every scored one (backpropagateMCTS).
THEOREM TreeCounts == Spec => []TreeAddsUp
<1>1. TreeInv => TreeAddsUp
  BY DEF TreeInv, Grown, TreeAddsUp, Under
<1> QED
  BY <1>1, TreeInit, TreeStep, PTL DEF Spec

-----------------------------------------------------------------------------
(* The best candidate.                                                     *)

Scored(S) == IsFiniteSet(S) /\ \A c \in S : c.score \in Int

\* S has a candidate as good as each of F that is worth keeping.
Covers(S, F) == \A c \in Worthy(F) : \E d \in S : d.score >= c.score

\* The first k have one as good as any.
LEMMA TopKeeps ==
    ASSUME NEW S, Scored(S), NEW k \in Nat \ {0}, NEW T \in Top(S, k), NEW d \in S
    PROVE  \E e \in T : e.score >= d.score
<1>1. CASE d \in T
  BY <1>1 DEF Scored
<1>2. CASE d \notin T
  <2>1. Cardinality(S) \in Nat /\ Cardinality(S) # 0
    BY FS_CardinalityType, FS_EmptySet DEF Scored
  <2>2. T \subseteq S /\ Cardinality(T) # 0 /\ \A a \in T, b \in S \ T : Ahead(a, b)
    BY <2>1 DEF Top
  <2>3. PICK a \in T : TRUE
    BY <2>2, FS_EmptySet
  <2>4. Ahead(a, d)
    BY <1>2, <2>2, <2>3
  <2>5. a.score \in Int /\ d.score \in Int
    BY <2>2, <2>3 DEF Scored
  <2> QED
    BY <2>3, <2>4, <2>5 DEF Ahead
<1> QED
  BY <1>1, <1>2

\* Pruning does not lose the best.
LEMMA PrunedCovers ==
    ASSUME NEW F, Scored(F), NEW S \in SUBSET F, Covers(S, F),
           NEW k \in Nat \ {0}, NEW T \in Pruned(S, k)
    PROVE  Covers(T, F)
<1> SUFFICES ASSUME NEW c \in Worthy(F) PROVE \E e \in T : e.score >= c.score
  BY DEF Covers
<1>1. PICK d \in S : d.score >= c.score
  BY DEF Covers
<1>2. CASE ~pruning
  BY <1>1, <1>2 DEF Pruned
<1>3. CASE pruning
  <2>1. c.score \in Int /\ d.score \in Int /\ c.score >= MinScore /\ MinScore \in Int
    BY RunAssumption DEF Worthy, Scored
  <2>2. d \in Worthy(S)
    BY <1>1, <2>1 DEF Worthy
  <2>3. Scored(Worthy(S))
    BY FS_Subset DEF Scored, Worthy
  <2>4. T \in Top(Worthy(S), k)
    BY <1>3 DEF Pruned, pruneBranches
  <2>5. PICK e \in T : e.score >= d.score
    BY <2>2, <2>3, <2>4, TopKeeps
  <2>6. e.score \in Int
    BY <2>4 DEF Top, Scored, Worthy
  <2> QED
    BY <1>1, <2>1, <2>5, <2>6
<1> QED
  BY <1>2, <1>3

LEMMA CoversMore ==
    ASSUME NEW S, NEW F, NEW N, Scored(N), Covers(S, F)
    PROVE  Covers(S \cup N, F \cup N)
  BY DEF Covers, Worthy, Scored

LEMMA CoversItself ==
    ASSUME NEW F, Scored(F) PROVE Covers(F, F)
  BY DEF Covers, Worthy, Scored

LEMMA ScoredMore ==
    ASSUME NEW F, NEW N, Scored(F), Scored(N) PROVE Scored(F \cup N)
  BY FS_Union DEF Scored

\* Candidates arrive and the pool is pruned.
LEMMA PoolCovers ==
    ASSUME Scored(found), pool \subseteq found, Covers(pool, found),
           NEW N, Scored(N), NEW T \in Pruned(pool \cup N, PoolTopK)
    PROVE  /\ Scored(found \cup N)
           /\ T \subseteq found \cup N
           /\ Covers(T, found \cup N)
<1>1. PoolTopK \in Nat \ {0}
  BY RunAssumption
<1>2. Scored(found \cup N) /\ Covers(pool \cup N, found \cup N)
  BY ScoredMore, CoversMore
<1> QED
  BY <1>1, <1>2, PrunedCovers, PrunedWithin

LEMMA OneCandidate ==
    ASSUME NEW who, NEW s \in Scores PROVE Scored({NewCandidate(who, s)})
<1>1. IsFiniteSet({NewCandidate(who, s)})
  BY FS_EmptySet, FS_AddElement
<1>2. NewCandidate(who, s).score \in Int
  BY RunAssumption DEF NewCandidate
<1> QED
  BY <1>1, <1>2 DEF Scored

\* The agents are finitely many and their results have scores.
AgentsInv ==
    /\ IsFiniteSet(Agents)
    /\ result = [k \in Agents |-> result[k]]
    /\ \A k \in Agents : result[k].score \in Int

\* Whatever number of agents a request asks for, its roles are the first ones.
LEMMA AskedRoles ==
    ASSUME NEW want \in Wants
    PROVE  /\ multiAgentRoles(want) \in Seq(Voices)
           /\ Len(multiAgentRoles(want)) \in 1..Len(Workers)
<1> DEFINE n == Clamp(Clamp(Asked(want, DefaultAgents), 2, 4) - 1, 1, Len(Workers))
<1>1. Len(Workers) \in 1..3 /\ Workers \in Seq(Voices)
  BY RoundAssumption
<1>2. n \in 1..Len(Workers)
  <2> DEFINE team == Clamp(Asked(want, DefaultAgents), 2, 4)
             names == Len(Workers)
  <2>1. Asked(want, DefaultAgents) \in Nat
    BY RunAssumption, RoundAssumption DEF Asked
  <2>2. team \in 2..4
    BY <2>1 DEF Clamp
  <2>3. n = Clamp(team - 1, 1, names) /\ names \in 1..3
    BY <1>1
  <2> HIDE DEF team, names
  <2>4. Clamp(team - 1, 1, names) \in 1..names
    BY <2>2, <2>3 DEF Clamp
  <2> QED
    BY <2>3, <2>4 DEF names
<1>3. multiAgentRoles(want) = SubSeq(Workers, 1, n)
  BY DEF multiAgentRoles
<1> HIDE DEF n
<1>4. SubSeq(Workers, 1, n) \in Seq(Voices) /\ Len(SubSeq(Workers, 1, n)) = n
  BY <1>1, <1>2, SubSeqProperties
<1> QED
  BY <1>2, <1>3, <1>4

LEMMA FirstRoles == Init => roles \in Seq(Voices) /\ Len(roles) \in 1..Len(Workers)
<1> SUFFICES ASSUME Init PROVE roles \in Seq(Voices) /\ Len(roles) \in 1..Len(Workers)
  OBVIOUS
<1>1. roles = Workers \/ \E w \in Wants : roles = multiAgentRoles(w)
  BY DEF Init, ReasonInit, RoundsInit
<1>2. CASE roles = Workers
  <2>1. Workers \in Seq(Voices) /\ Len(Workers) \in 1..Len(Workers)
    BY RoundAssumption
  <2> QED
    BY <1>2, <2>1
<1>3. ASSUME NEW w \in Wants, roles = multiAgentRoles(w)
      PROVE  roles \in Seq(Voices) /\ Len(roles) \in 1..Len(Workers)
  BY <1>3, AskedRoles
<1> QED
  BY <1>1, <1>2, <1>3

LEMMA AgentsInit == Init => AgentsInv
<1> SUFFICES ASSUME Init PROVE AgentsInv
  OBVIOUS
<1>1. result = [k \in Agents |-> NoResult]
  BY DEF Init, ReasonInit, RoundsInit
<1>2. Agents = 1..Len(roles) /\ Len(roles) \in Nat
  BY FirstRoles, RoundAssumption DEF Agents
<1>3. IsFiniteSet(Agents)
  BY <1>2, FS_Interval
<1> QED
  BY <1>1, <1>3 DEF AgentsInv, NoResult

\* Refinement goes on with one agent or two.
LEMMA FewRoles ==
    ASSUME NEW S, NEW next \in refinementRoles(S) PROVE IsFiniteSet(DOMAIN next)
<1>1. (\E x : next = <<x>>) \/ (\E x, y : next = <<x, y>>)
  BY DEF refinementRoles
<1>2. ASSUME NEW x, next = <<x>> PROVE IsFiniteSet(DOMAIN next)
  <2>1. DOMAIN next = {} \cup {1}
    BY <1>2
  <2>2. IsFiniteSet({} \cup {1})
    BY FS_EmptySet, FS_AddElement
  <2> QED
    BY <2>1, <2>2
<1>3. ASSUME NEW x, NEW y, next = <<x, y>> PROVE IsFiniteSet(DOMAIN next)
  <2>1. DOMAIN next = ({} \cup {1}) \cup {2}
    BY <1>3
  <2>2. IsFiniteSet(({} \cup {1}) \cup {2})
    BY FS_EmptySet, FS_AddElement
  <2> QED
    BY <2>1, <2>2
<1> QED
  BY <1>1, <1>2, <1>3

LEMMA AgentsStep == AgentsInv /\ [Next]_vars => AgentsInv'
<1> SUFFICES ASSUME AgentsInv, [Next]_vars PROVE AgentsInv'
  OBVIOUS
<1>1. CASE UNCHANGED <<roles, result>>
  BY <1>1 DEF AgentsInv, Agents
<1>2. CASE SpawnAgents
  <2>1. roles' = roles /\ result' = [k \in Agents |-> NoResult]
    BY <1>2 DEF SpawnAgents
  <2> QED
    BY <2>1 DEF AgentsInv, Agents, NoResult
<1>3. ASSUME NEW k \in Agents, AgentAnswers(k) PROVE AgentsInv'
  <2>1. PICK s \in Scores, t \in Tokens :
          result' = [result EXCEPT ![k] = [score |-> s, tokens |-> t, read |-> counted]]
    BY <1>3 DEF AgentAnswers
  <2>2. roles' = roles
    BY <1>3 DEF AgentAnswers, AgentUnchanged
  <2>3. result'[k].score = s /\ s \in Int
    BY <2>1, RunAssumption DEF AgentsInv
  <2>4. \A l \in Agents : l # k => result'[l] = result[l]
    BY <2>1 DEF AgentsInv
  <2> QED
    BY <2>1, <2>2, <2>3, <2>4 DEF AgentsInv, Agents
<1>4. ASSUME NEW k \in Agents, AgentAdds(k) \/ AgentSends(k) \/ AgentFails(k) PROVE AgentsInv'
  BY <1>1, <1>4 DEF AgentAdds, AgentSends, AgentFails, AgentUnchanged
<1>5. CASE ConcurrentMapWrites \/ RoundsDone \/ RoundEmpty
  BY <1>1, <1>5 DEF ConcurrentMapWrites, RoundsDone, RoundEmpty, AgentUnchanged, agentVars
<1>6. CASE RoundScored
  <2>1. result' = [k \in DOMAIN roles' |-> NoResult]
    BY <1>6 DEF RoundScored
  <2>2. roles' = roles \/ roles' \in refinementRoles(pool')
    BY <1>6 DEF RoundScored
  <2>3. IsFiniteSet(DOMAIN roles')
    BY <2>2, FewRoles DEF AgentsInv, Agents
  <2> QED
    BY <2>1, <2>3 DEF AgentsInv, Agents, NoResult
<1> QED
  BY <1>1, <1>2, <1>3, <1>4, <1>5, <1>6, RoundsRest DEF RoundsStep, agentVars

\* A decomposition keeps no pool before its baseline; every other mode keeps one
\* with the best of what it found.
BestInv ==
    /\ mode \in Modes
    /\ Scored(found)
    /\ pool \subseteq found
    /\ shortlist \subseteq found
    /\ pc \in {"setup", "plan", "subtask"} => pool = {}
    /\ pc \in {"plan", "subtask"} => mode = "decompose"
    /\ pc = "setup" => found = {}
    /\ pc \in {"branch", "rollout", "round", "await"} => mode # "decompose"
    /\ mode # "decompose" /\ pc \notin {"synth", "answered", "failed"} => Covers(pool, found)
    /\ mode = "decompose" => pool = {} \/ pool = found
    /\ mode = "decompose" /\ pc = "baseline" => found = {}
    /\ pc = "rebaseline" => mode # "decompose" /\ Worthy(found) = {}
    /\ pc \in {"synth", "answered"} => Covers(shortlist, found)

LEMMA BestInit == Init => BestInv
<1> SUFFICES ASSUME Init PROVE BestInv
  OBVIOUS
<1>1. mode \in Modes /\ pc = "setup" /\ pool = {} /\ found = {} /\ shortlist = {}
  BY DEF Init, ReasonInit, RunInit
<1>2. Scored({}) /\ Covers({}, {})
  BY FS_EmptySet DEF Scored, Covers, Worthy
<1> QED
  BY <1>1, <1>2 DEF BestInv

\* A step that brings no candidate and does not choose any.
LEMMA BestRests ==
    ASSUME BestInv, UNCHANGED <<mode, pool, found, shortlist>>,
           \/ pc' = pc
           \/ pc' \in {"failed", "crashed", "round", "rollout", "branch", "await", "settle"} /\
              pc \notin {"synth", "answered", "failed"} /\
              (mode = "decompose" => pc' \in {"failed", "crashed", "settle"})
           \/ pc' = "failed"
           \/ pc \notin {"synth", "answered", "failed"} /\ pc' = "baseline" /\
              (mode = "decompose" => found = {})
           \/ pc = "setup" /\ pc' = "plan" /\ mode = "decompose"
           \/ pc = "plan" /\ pc' = "subtask"
           \/ pc = "synth" /\ pc' = "answered"
    PROVE  BestInv'
  BY DEF BestInv

\* A step that brings candidates to a mode that keeps a pool.
LEMMA BestArrives ==
    ASSUME BestInv, mode # "decompose", pc \notin {"synth", "answered", "failed"},
           NEW N, Scored(N), found' = found \cup N, pool' \in Pruned(pool \cup N, PoolTopK),
           UNCHANGED <<mode, shortlist>>,
           pc' \in {"branch", "rollout", "round", "baseline", "settle"}
    PROVE  BestInv'
<1>1. Scored(found) /\ pool \subseteq found /\ Covers(pool, found)
  BY DEF BestInv
<1>2. Scored(found') /\ pool' \subseteq found' /\ Covers(pool', found')
  BY <1>1, PoolCovers
<1> QED
  BY <1>2 DEF BestInv

LEMMA BestRun ==
    ASSUME BestInv, RunStep PROVE BestInv'
<1>1. CASE Refuse \/ Synthesise \/ SynthesisFails \/ BaselineFails
  BY <1>1, BestRests DEF Refuse, Synthesise, SynthesisFails, BaselineFails, GiveUp
<1>2. CASE Begin
  <2>1. /\ pc' \in {"branch", "rollout", "round", "plan"}
        /\ mode = "decompose" <=> pc' = "plan"
    BY <1>2, RunAssumption DEF Begin, FirstStep, BestInv, ShouldExecute
  <2>2. pc = "setup" /\ UNCHANGED <<mode, pool, found, shortlist>>
    BY <1>2 DEF Begin
  <2> QED
    BY <2>1, <2>2, BestRests
<1>3. CASE Baseline
  <2>1. PICK s \in Scores : /\ pool' = pool \cup {NewCandidate("baseline", s)}
                            /\ found' = found \cup {NewCandidate("baseline", s)}
    BY <1>3 DEF Baseline
  <2>2. pc = "baseline" /\ pc' = "settle" /\ UNCHANGED <<mode, shortlist>>
    BY <1>3 DEF Baseline
  <2>3. Scored({NewCandidate("baseline", s)}) /\ Scored(found')
    BY <2>1, OneCandidate, ScoredMore DEF BestInv
  <2>4. CASE mode = "decompose"
    <3>1. found = {} /\ pool = {}
      BY <2>2, <2>4 DEF BestInv
    <3> QED
      BY <2>1, <2>2, <2>3, <2>4, <3>1 DEF BestInv
  <2>5. CASE mode # "decompose"
    <3>1. Covers(pool', found')
      BY <2>1, <2>2, <2>3, <2>5, CoversMore DEF BestInv
    <3> QED
      BY <2>1, <2>2, <2>3, <2>5, <3>1 DEF BestInv
  <2> QED
    BY <2>4, <2>5
<1>4. CASE Rebaseline
  <2>1. PICK s \in Scores : /\ shortlist' = {NewCandidate("baseline", s)}
                            /\ found' = found \cup {NewCandidate("baseline", s)}
    BY <1>4 DEF Rebaseline
  <2>2. pc = "rebaseline" /\ pc' = "synth" /\ UNCHANGED <<mode, pool>>
    BY <1>4 DEF Rebaseline
  <2>3. Scored(shortlist') /\ Scored(found')
    BY <2>1, OneCandidate, ScoredMore DEF BestInv
  <2>4. Covers({}, found)
    BY <2>2 DEF BestInv, Covers
  <2>5. Covers(shortlist', found')
    BY <2>1, <2>3, <2>4, CoversMore
  <2> QED
    BY <2>1, <2>2, <2>3, <2>5 DEF BestInv
<1>5. CASE Settle
  <2> DEFINE stock == IF pool = {} THEN found ELSE pool
  <2>1. /\ pc = "settle" /\ UNCHANGED <<mode, pool, found>>
        /\ \/ shortlist' \in Pruned(stock, SynthTopK) /\ pc' = "synth"
           \/ mode \in {"tot", "decompose"} /\ shortlist' \in Top(found, SynthTopK) /\ pc' = "synth"
           \/ /\ {} \in Pruned(stock, SynthTopK) /\ pc' = "rebaseline"
              /\ mode \in {"mcts", "multi_agent"} /\ UNCHANGED shortlist
    BY <1>5 DEF Settle
  <2>2. Scored(found) /\ stock \in SUBSET found /\ SynthTopK \in Nat \ {0}
    BY RunAssumption DEF BestInv
  <2>3. Covers(stock, found)
    BY <2>1, <2>2, CoversItself DEF BestInv
  <2> HIDE DEF stock
  <2>4. CASE shortlist' \in Pruned(stock, SynthTopK) /\ pc' = "synth"
    <3>1. Covers(shortlist', found) /\ shortlist' \subseteq found
      BY <2>2, <2>3, <2>4, PrunedCovers, PrunedWithin
    <3> QED
      BY <2>1, <2>4, <3>1 DEF BestInv
  <2>5. CASE shortlist' \in Top(found, SynthTopK) /\ pc' = "synth"
    <3>1. shortlist' \subseteq found
      BY <2>5 DEF Top
    <3>2. \A c \in found : \E d \in shortlist' : d.score >= c.score
      BY <2>2, <2>5, TopKeeps
    <3>3. Covers(shortlist', found)
      BY <3>2 DEF Covers, Worthy
    <3> QED
      BY <2>1, <2>5, <3>1, <3>3 DEF BestInv
  <2>6. CASE /\ {} \in Pruned(stock, SynthTopK) /\ pc' = "rebaseline"
             /\ mode \in {"mcts", "multi_agent"} /\ UNCHANGED shortlist
    <3>1. Covers({}, found)
      BY <2>2, <2>3, <2>6, PrunedCovers
    <3>2. Worthy(found) = {}
      BY <3>1 DEF Covers
    <3> QED
      BY <2>1, <2>6, <3>2 DEF BestInv
  <2> QED
    BY <2>1, <2>4, <2>5, <2>6
<1> QED
  BY <1>1, <1>2, <1>3, <1>4, <1>5 DEF RunStep

LEMMA BestThoughts ==
    ASSUME BestInv, ThoughtsStep PROVE BestInv'
<1>1. CASE BranchAnswers
  <2>1. PICK s \in Scores : /\ found' = found \cup {NewCandidate("branch", s)}
                            /\ pool' \in Pruned(pool \cup {NewCandidate("branch", s)}, PoolTopK)
    BY <1>1 DEF BranchAnswers
  <2>2. pc = "branch" /\ pc' = "branch" /\ UNCHANGED <<mode, shortlist>>
    BY <1>1 DEF BranchAnswers, InBranch
  <2>3. mode # "decompose"
    BY <2>2 DEF BestInv
  <2> QED
    BY <2>1, <2>2, <2>3, OneCandidate, BestArrives
<1>2. CASE BranchFails
  BY <1>2, BestRests DEF BranchFails, InBranch
<1>3. CASE BranchesDone
  BY <1>3, BestRests DEF BranchesDone
<1> QED
  BY <1>1, <1>2, <1>3 DEF ThoughtsStep

LEMMA BestSearch ==
    ASSUME BestInv, SearchStep PROVE BestInv'
<1>1. CASE RolloutIdle \/ SimulationFails
  BY <1>1, BestRests DEF RolloutIdle, SimulationFails, InRollout
<1>2. CASE SimulationScored
  <2>1. PICK s \in Scores :
          /\ found' = found \cup {NewCandidate("rollout", s)}
          /\ pool' \in Pruned(pool \cup {NewCandidate("rollout", s)}, PoolTopK)
          /\ pc' \in {pc, "baseline", "settle"}
    BY <1>2 DEF SimulationScored
  <2>2. pc = "rollout" /\ UNCHANGED <<mode, shortlist>>
    BY <1>2 DEF SimulationScored, InRollout
  <2>3. mode # "decompose"
    BY <2>2 DEF BestInv
  <2> QED
    BY <2>1, <2>2, <2>3, OneCandidate, BestArrives
<1>3. CASE RolloutsDone
  BY <1>3, BestRests DEF RolloutsDone, BestInv
<1> QED
  BY <1>1, <1>2, <1>3 DEF SearchStep

LEMMA BestRounds ==
    ASSUME BestInv, AgentsInv, RoundsStep PROVE BestInv'
<1>1. CASE SpawnAgents
  BY <1>1, BestRests DEF SpawnAgents, BestInv
<1>2. ASSUME NEW k \in Agents, AgentAnswers(k) \/ AgentAdds(k) \/ AgentSends(k) \/ AgentFails(k)
      PROVE  BestInv'
  BY <1>2, BestRests DEF AgentAnswers, AgentAdds, AgentSends, AgentFails, AgentUnchanged
<1>3. CASE ConcurrentMapWrites
  BY <1>3, BestRests DEF ConcurrentMapWrites, AgentUnchanged
<1>4. CASE RoundsDone \/ RoundEmpty
  BY <1>4, BestRests DEF RoundsDone, RoundEmpty, RoundReturned, LeaveRounds, BestInv
<1>5. CASE RoundScored
  <2> DEFINE who == Accepted(outCh, TokenBudget - used).who
             taken == {a \in Agents : a \in who}
             candidate(k) == [n |-> 3 * (round - 1) + k, who |-> roles[k], score |-> result[k].score]
             new == {candidate(k) : k \in taken}
  <2>1. found' = found \cup new /\ pool' \in Pruned(pool \cup new, PoolTopK)
    BY <1>5 DEF RoundScored
  <2>2. pc = "await" /\ pc' \in {"baseline", "settle", "round"} /\ UNCHANGED <<mode, shortlist>>
    BY <1>5 DEF RoundScored, RoundReturned
  <2>3. IsFiniteSet(taken)
    BY FS_Subset DEF AgentsInv
  <2>4. IsFiniteSet(new)
    <3> DEFINE f == [k \in taken |-> candidate(k)]
    <3>1. f \in Surjection(taken, new)
      BY DEF Surjection
    <3> QED
      BY <2>3, <3>1, FS_Surjection
  <2>5. \A c \in new : c.score \in Int
    BY DEF AgentsInv
  <2>6. Scored(new)
    BY <2>4, <2>5 DEF Scored
  <2>7. mode # "decompose"
    BY <2>2 DEF BestInv
  <2> HIDE DEF new
  <2> QED
    BY <2>1, <2>2, <2>6, <2>7, BestArrives
<1> QED
  BY <1>1, <1>2, <1>3, <1>4, <1>5 DEF RoundsStep

LEMMA BestSubtasks ==
    ASSUME BestInv, SubtasksStep PROVE BestInv'
<1>1. CASE PlanSubtasks
  BY <1>1, BestRests DEF PlanSubtasks
<1>2. CASE SubtaskAnswers
  <2>1. PICK s \in Scores : found' = found \cup {NewCandidate("subtask", s)}
    BY <1>2 DEF SubtaskAnswers
  <2>2. pc = "subtask" /\ UNCHANGED <<pc, mode, pool, shortlist>>
    BY <1>2 DEF SubtaskAnswers, InSubtask
  <2>3. Scored(found')
    BY <2>1, OneCandidate, ScoredMore DEF BestInv
  <2>4. mode = "decompose"
    BY <2>2 DEF BestInv
  <2> QED
    BY <2>1, <2>2, <2>3, <2>4 DEF BestInv
<1>3. CASE SubtaskFails
  BY <1>3, BestRests DEF SubtaskFails, InSubtask
<1>4. CASE SubtasksDone
  BY <1>4, BestRests DEF SubtasksDone
<1> QED
  BY <1>1, <1>2, <1>3, <1>4 DEF SubtasksStep

LEMMA BestStep == BestInv /\ AgentsInv /\ [Next]_vars => BestInv'
<1> SUFFICES ASSUME BestInv, AgentsInv, [Next]_vars PROVE BestInv'
  OBVIOUS
<1>1. CASE UNCHANGED reasonVars
  BY <1>1, BestRests DEF reasonVars, runVars
<1>2. CASE Expire
  BY <1>2, BestRests DEF Expire
<1> QED
  BY <1>1, <1>2, Cases, BestRun, BestThoughts, BestSearch, BestRounds, BestSubtasks

\* What is quoted to the synthesis covers what the shortlist covers.
LEMMA BestQuoted == BestInv => BestReachesSynthesis
<1> SUFFICES ASSUME BestInv, pc \in {"synth", "answered"}, ~(mode = "tot" /\ ~pruning),
                    NEW P \in Payloads, NEW c \in Worthy(found)
             PROVE  \E e \in P : e.score >= c.score
  BY DEF BestReachesSynthesis
<1>1. P \in Top(shortlist, PayloadSize) /\ PayloadSize \in Nat \ {0}
  BY RunAssumption DEF Payloads
<1>2. Scored(shortlist)
  BY FS_Subset DEF BestInv, Scored
<1>3. PICK d \in shortlist : d.score >= c.score
  BY DEF BestInv, Covers
<1>4. PICK e \in P : e.score >= d.score
  BY <1>1, <1>2, <1>3, TopKeeps
<1>5. c.score \in Int /\ d.score \in Int /\ e.score \in Int
  BY <1>1, <1>2, <1>3, <1>4 DEF BestInv, Scored, Worthy, Top
<1> QED
  BY <1>3, <1>4, <1>5

\* Whatever is pruned on the way and however often, one as good as the best that
\* was worth keeping is quoted to the synthesis (buildSynthesisMessages and its
\* counterparts in mcts.go, multiagent.go and decompose.go).
THEOREM BestSynthesised == Spec => []BestReachesSynthesis
<1>1. BestInv /\ AgentsInv /\ [Next]_vars => (BestInv /\ AgentsInv)'
  BY BestStep, AgentsStep
<1>2. Init => BestInv /\ AgentsInv
  BY BestInit, AgentsInit
<1> QED
  BY <1>1, <1>2, BestQuoted, PTL DEF Spec

-----------------------------------------------------------------------------
(* What the model's recursive functions compute.                           *)

\* A plan never has more subtasks than the cap (parseDecomposeSubtasks).
LEMMA FewSubtasks ==
    ASSUME NEW X, NEW items \in Seq(X), NEW cap \in Nat
    PROVE  LET s == parseDecomposeSubtasks(items, cap) IN s \in Seq(X) /\ Len(s) <= cap
<1> DEFINE N == Len(items)
           S == {s \in Seq(X) : Len(s) <= cap}
           Skip(i, before) == \/ Len(before) = cap
                              \/ items[i] = ""
                              \/ \E j \in 1..Len(before) : before[j] = items[i]
           More(i, before) == IF Skip(i, before) THEN before ELSE Append(before, items[i])
           step == [p \in (1..N) \X S |-> More(p[1], p[2])]
           Taken(f) == [i \in 0..N |-> IF i = 0 THEN <<>> ELSE More(i, f[i - 1])]
<1>1. N \in Nat /\ <<>> \in S
  BY EmptySeq
<1>2. \A i \in 1..N : \A s \in S : More(i, s) \in S
  <2> SUFFICES ASSUME NEW i \in 1..N, NEW s \in S, ~Skip(i, s) PROVE Append(s, items[i]) \in S
    BY DEF More
  <2>1. items[i] \in X
    BY ElementOfSeq
  <2>2. s \in Seq(X) /\ Len(s) <= cap /\ Len(s) # cap
    OBVIOUS
  <2>3. Append(s, items[i]) \in Seq(X) /\ Len(Append(s, items[i])) = Len(s) + 1
    BY <2>1, <2>2, AppendProperties
  <2>4. Len(s) \in Nat
    BY <2>2, LenProperties
  <2>5. Len(s) + 1 <= cap
    <3> HIDE DEF S, More, N
    <3> QED BY <2>2, <2>4, BelowCap
  <2> QED BY <2>3, <2>5
<1> HIDE DEF More, S, N
<1>3. step \in [(1..N) \X S -> S]
  BY <1>2
<1>4. PICK f \in [0..N -> S] : Iterates(N, <<>>, step, f)
  <2> HIDE DEF step
  <2> QED BY <1>1, <1>3, Iterate
<1>5. f = Taken(f)
  <2>1. \A i \in 0..N : f[i] = IF i = 0 THEN <<>> ELSE More(i, f[i - 1])
    <3> SUFFICES ASSUME NEW i \in 0..N, i # 0 PROVE f[i] = More(i, f[i - 1])
      BY <1>4 DEF Iterates
    <3>1. i \in 1..N /\ i - 1 \in 0..N
      BY <1>1
    <3>2. f[i] = step[<<i, f[i - 1]>>] /\ f[i - 1] \in S
      BY <1>4, <3>1 DEF Iterates
    <3> QED BY <3>1, <3>2
  <2> QED BY <2>1
<1>6. PICK g : g = (CHOOSE h : h = Taken(h))
  OBVIOUS
<1>7. g = Taken(g)
  <2> HIDE DEF Taken
  <2> QED BY <1>5, <1>6
<1> DEFINE P == {i \in 0..N : g[i] \in S}
<1>8. Advances(N, P)
  <2>1. 0 \in P
    BY <1>1, <1>7
  <2>2. ASSUME NEW i \in 1..N, i - 1 \in P PROVE i \in P
    <3>1. i \in 0..N /\ i # 0 /\ g[i] = More(i, g[i - 1])
      BY <1>1, <1>7
    <3> QED BY <1>2, <2>2, <3>1
  <2> QED BY <2>1, <2>2 DEF Advances
<1>9. N \in P
  <2>1. \A i \in 0..N : i \in P
    <3> HIDE DEF P
    <3> QED BY <1>1, <1>8, CountUp
  <2> QED BY <1>1, <2>1
<1>10. parseDecomposeSubtasks(items, cap) = g[N]
  BY <1>6 DEF parseDecomposeSubtasks, More, N
<1> QED BY <1>9, <1>10 DEF S

\* The outputs a round accepts are of agents that did not fail, and fit the budget.
LEMMA AcceptedFits ==
    ASSUME NEW channel \in Seq(Agents), NEW budget \in Nat,
           \A k \in Agents : result[k].tokens \in Nat
    PROVE  LET got == Accepted(channel, budget)
           IN  /\ got.tokens \in 0..budget
               /\ got.who \subseteq {k \in Agents : agent[k] # "failed"}
<1> DEFINE N == Len(channel)
           S == [tokens : 0..budget, who : SUBSET {k \in Agents : agent[k] # "failed"}]
           first == [tokens |-> 0, who |-> {}]
           Skip(k, before) == agent[k] = "failed" \/ before.tokens + result[k].tokens > budget
           More(k, before) == IF Skip(k, before) THEN before
                              ELSE [tokens |-> before.tokens + result[k].tokens,
                                    who |-> before.who \cup {k}]
           step == [p \in (1..N) \X S |-> More(channel[p[1]], p[2])]
           Taken(f) == [i \in 0..N |-> IF i = 0 THEN first ELSE More(channel[i], f[i - 1])]
<1>1. N \in Nat /\ first \in S
  OBVIOUS
<1>2. \A k \in Agents : \A s \in S : More(k, s) \in S
  <2> SUFFICES ASSUME NEW k \in Agents, NEW s \in S, ~Skip(k, s)
               PROVE  [tokens |-> s.tokens + result[k].tokens, who |-> s.who \cup {k}] \in S
    OBVIOUS
  <2>1. s.tokens + result[k].tokens \in 0..budget
    OBVIOUS
  <2>2. s.who \cup {k} \subseteq {a \in Agents : agent[a] # "failed"}
    OBVIOUS
  <2> QED BY <2>1, <2>2
<1>3. \A i \in 1..N : channel[i] \in Agents
  BY ElementOfSeq
<1> HIDE DEF More, S, N, first
<1>4. step \in [(1..N) \X S -> S]
  BY <1>2, <1>3
<1>5. PICK f \in [0..N -> S] : Iterates(N, first, step, f)
  <2> HIDE DEF step
  <2> QED BY <1>1, <1>4, Iterate
<1>6. f = Taken(f)
  <2>1. \A i \in 0..N : f[i] = IF i = 0 THEN first ELSE More(channel[i], f[i - 1])
    <3> SUFFICES ASSUME NEW i \in 0..N, i # 0 PROVE f[i] = More(channel[i], f[i - 1])
      BY <1>5 DEF Iterates
    <3>1. i \in 1..N /\ i - 1 \in 0..N
      BY <1>1
    <3>2. f[i] = step[<<i, f[i - 1]>>] /\ f[i - 1] \in S
      BY <1>5, <3>1 DEF Iterates
    <3> QED BY <3>1, <3>2
  <2> QED BY <2>1
<1>7. PICK g : g = (CHOOSE h : h = Taken(h))
  OBVIOUS
<1>8. g = Taken(g)
  <2> HIDE DEF Taken
  <2> QED BY <1>6, <1>7
<1> DEFINE P == {i \in 0..N : g[i] \in S}
<1>9. Advances(N, P)
  <2>1. 0 \in P
    BY <1>1, <1>8
  <2>2. ASSUME NEW i \in 1..N, i - 1 \in P PROVE i \in P
    <3>1. i \in 0..N /\ i # 0 /\ g[i] = More(channel[i], g[i - 1])
      BY <1>1, <1>8
    <3> QED BY <1>2, <1>3, <2>2, <3>1
  <2> QED BY <2>1, <2>2 DEF Advances
<1>10. N \in P
  <2>1. \A i \in 0..N : i \in P
    <3> HIDE DEF P
    <3> QED BY <1>1, <1>9, CountUp
  <2> QED BY <1>1, <2>1
<1>11. Accepted(channel, budget) = g[N]
  BY <1>7 DEF Accepted, More, N, first
<1> QED BY <1>10, <1>11 DEF S

-----------------------------------------------------------------------------
(* Where a run is, and the budget of its rounds.                           *)

\* From where to where a step can lead.
LEMMA Moves ==
    ASSUME [Next]_vars
    PROVE  \/ pc' = pc
           \/ pc = "setup" /\ ShouldExecute /\ pc' \in {"failed", FirstStep(mode)}
           \/ pc = "branch" /\ pc' \in {"failed", "settle"}
           \/ pc = "rollout" /\ pc' \in {"baseline", "settle"}
           \/ pc = "round" /\ pc' \in {"await", "baseline", "settle"}
           \/ pc = "await" /\ pc' \in {"round", "baseline", "settle", "crashed"}
           \/ pc = "plan" /\ pc' = "subtask"
           \/ pc = "subtask" /\ pc' \in {"baseline", "settle"}
           \/ pc = "baseline" /\ pc' \in {"failed", "settle"}
           \/ pc = "settle" /\ pc' = "synth"
           \/ pc = "settle" /\ pc' = "rebaseline" /\ mode \in {"mcts", "multi_agent"}
           \/ pc = "rebaseline" /\ pc' \in {"failed", "synth"}
           \/ pc = "synth" /\ pc' \in {"failed", "answered"}
<1>1. CASE UNCHANGED reasonVars
  BY <1>1 DEF reasonVars, runVars
<1>2. CASE Expire
  BY <1>2 DEF Expire
<1>3. CASE RunStep
  <2>1. CASE Refuse \/ Begin
    BY <2>1 DEF Refuse, Begin
  <2>2. CASE Baseline \/ Rebaseline \/ BaselineFails
    BY <2>2 DEF Baseline, Rebaseline, BaselineFails, GiveUp
  <2>3. CASE Settle
    BY <2>3 DEF Settle
  <2>4. CASE Synthesise \/ SynthesisFails
    BY <2>4 DEF Synthesise, SynthesisFails, GiveUp
  <2> QED
    BY <1>3, <2>1, <2>2, <2>3, <2>4 DEF RunStep
<1>4. CASE ThoughtsStep
  BY <1>4 DEF ThoughtsStep, InBranch, BranchAnswers, BranchFails, BranchesDone
<1>5. CASE SearchStep
  BY <1>5 DEF SearchStep, InRollout, RolloutIdle, SimulationFails, SimulationScored, RolloutsDone
<1>6. CASE RoundsStep
  BY <1>6 DEF RoundsStep, SpawnAgents, AgentAnswers, AgentAdds, AgentSends, AgentFails, ConcurrentMapWrites,
              RoundsDone, RoundEmpty, RoundScored, RoundReturned, LeaveRounds
<1>7. CASE SubtasksStep
  BY <1>7 DEF SubtasksStep, PlanSubtasks, InSubtask, SubtaskAnswers, SubtaskFails, SubtasksDone
<1> QED
  BY <1>1, <1>2, <1>3, <1>4, <1>5, <1>6, <1>7, Cases

\* A run is in the steps of its mode, or in those the modes share.
ModeInv ==
    /\ mode \in Modes
    /\ pc \in Steps
    /\ pc = "branch" => mode = "tot"
    /\ pc = "rollout" => mode = "mcts"
    /\ pc \in {"round", "await", "crashed"} => mode = "multi_agent"
    /\ pc \in {"plan", "subtask"} => mode = "decompose"
    /\ pc = "baseline" => mode \in {"mcts", "multi_agent", "decompose"}
    /\ pc = "rebaseline" => mode \in {"mcts", "multi_agent"}
    /\ pc # "setup" => mode \in ModeNames

LEMMA ModeInit == Init => ModeInv
  BY DEF Init, ReasonInit, RunInit, ModeInv

LEMMA ModeStep == ModeInv /\ [Next]_vars => ModeInv'
<1> SUFFICES ASSUME ModeInv, [Next]_vars PROVE ModeInv'
  OBVIOUS
<1>1. mode' = mode
  BY ModeKept
<1>2. CASE pc = "setup" /\ ShouldExecute /\ pc' \in {"failed", FirstStep(mode)}
  <2>1. mode \in ModeNames
    BY <1>2, RunAssumption DEF ModeInv, ShouldExecute
  <2>2. CASE pc' = "failed"
    BY <1>1, <1>2, <2>1, <2>2 DEF ModeInv
  <2>3. CASE pc' = FirstStep(mode)
    BY <1>1, <1>2, <2>1, <2>3 DEF ModeInv, FirstStep
  <2> QED
    BY <1>2, <2>2, <2>3
<1>3. CASE ~(pc = "setup" /\ ShouldExecute /\ pc' \in {"failed", FirstStep(mode)})
  BY <1>1, <1>3, Moves DEF ModeInv
<1> QED
  BY <1>2, <1>3

\* The rounds, their agents and what these have sent.
Result == [score : Scores, tokens : Tokens, read : Nat]

RoundInv ==
    /\ anchored \in BOOLEAN
    /\ rounds \in 0..RoundLimit
    /\ round \in 1..rounds + 1
    /\ pc = "await" => round <= rounds
    /\ roles \in Seq(Voices)
    /\ agent \in [Agents -> {"idle", "calling", "adding", "mapping", "failed", "done"}]
    /\ result = [k \in Agents |-> result[k]]
    /\ \A k \in Agents : result[k] \in Result \cup {NoResult}
    /\ \A k \in Agents : agent[k] \in {"adding", "mapping", "done"} => result[k] \in Result
    /\ outCh \in Seq(Agents)
    /\ used \in 0..TokenBudget
    /\ counted \in Nat
    /\ evaluated \in Nat

LEMMA Clamped ==
    ASSUME NEW x \in Nat, NEW lo \in Nat, NEW hi \in Nat, hi > 0
    PROVE  /\ Clamp(x, lo, hi) \in 0..hi
           /\ lo > 0 => Clamp(x, lo, hi) \in 1..hi
  BY DEF Clamp

LEMMA AskedFor ==
    ASSUME NEW want \in Wants, NEW default \in Nat PROVE Asked(want, default) \in Nat
  BY RunAssumption DEF Asked

LEMMA RoundInit == Init => RoundInv
<1> SUFFICES ASSUME Init PROVE RoundInv
  OBVIOUS
<1>1. /\ anchored \in BOOLEAN /\ round = 1 /\ pc = "setup"
      /\ agent = [k \in Agents |-> "idle"]
      /\ result = [k \in Agents |-> NoResult]
      /\ outCh = <<>> /\ used = 0 /\ counted = 0 /\ evaluated = 0
      /\ rounds \in {multiAgentRounds(w) : w \in Wants} \cup {0}
  BY DEF Init, ReasonInit, RunInit, RoundsInit
<1>2. \A w \in Wants : multiAgentRounds(w) \in 0..RoundLimit
  <2> SUFFICES ASSUME NEW w \in Wants PROVE Clamp(Asked(w, DefaultRounds), 1, 4) \in 0..4
    BY DEF multiAgentRounds, RoundLimit
  <2>1. Asked(w, DefaultRounds) \in Nat
    BY RoundAssumption, AskedFor
  <2> QED
    BY <2>1 DEF Clamp
<1>3. rounds \in 0..RoundLimit /\ round \in 1..rounds + 1
  BY <1>1, <1>2 DEF RoundLimit
<1>4. roles \in Seq(Voices)
  BY FirstRoles
<1>5. used \in 0..TokenBudget
  BY <1>1, RoundAssumption
<1> QED
  BY <1>1, <1>3, <1>4, <1>5 DEF RoundInv

\* A step of a round that one agent takes.
LEMMA RoundAgent ==
    ASSUME RoundInv, NEW k \in Agents, AgentAnswers(k) \/ AgentAdds(k) \/ AgentSends(k) \/ AgentFails(k)
    PROVE  RoundInv'
<1>1. /\ UNCHANGED <<anchored, rounds, round, roles, used, pc>>
      /\ pc = "await"
  BY DEF AgentAnswers, AgentAdds, AgentSends, AgentFails, AgentUnchanged
<1>2. Agents' = Agents
  BY <1>1 DEF Agents
<1>3. \E what \in {"adding", "mapping", "failed", "done"} : agent' = [agent EXCEPT ![k] = what]
  BY DEF AgentAnswers, AgentAdds, AgentSends, AgentFails
<1>4. agent' \in [Agents -> {"idle", "calling", "adding", "mapping", "failed", "done"}]
  BY <1>3 DEF RoundInv
<1>5. outCh' = outCh \/ outCh' = Append(outCh, k)
  BY DEF AgentAnswers, AgentAdds, AgentSends, AgentFails
<1>6. outCh' \in Seq(Agents)
  <2>1. outCh \in Seq(Agents)
    BY DEF RoundInv
  <2>2. Append(outCh, k) \in Seq(Agents)
    BY <2>1, AppendProperties
  <2> QED
    BY <1>5, <2>1, <2>2
<1>7. counted' \in Nat /\ evaluated' \in Nat
  <2>1. CASE AgentAdds(k)
    <3>1. result[k] \in Result
      BY <2>1 DEF AgentAdds, RoundInv
    <3> QED
      BY <2>1, <3>1 DEF AgentAdds, RoundInv, Result
  <2>2. CASE ~AgentAdds(k)
    BY <2>2 DEF AgentAnswers, AgentSends, AgentFails, RoundInv
  <2> QED
    BY <2>1, <2>2
<1>8. /\ result' = [l \in Agents |-> result'[l]]
      /\ \A l \in Agents : result'[l] \in Result \cup {NoResult}
      /\ \A l \in Agents : agent'[l] \in {"adding", "mapping", "done"} => result'[l] \in Result
  <2>1. CASE AgentAnswers(k)
    <3>1. PICK s \in Scores, t \in Tokens :
            result' = [result EXCEPT ![k] = [score |-> s, tokens |-> t, read |-> counted]]
      BY <2>1 DEF AgentAnswers
    <3>2. [score |-> s, tokens |-> t, read |-> counted] \in Result
      BY DEF Result, RoundInv
    <3>3. agent' = [agent EXCEPT ![k] = "adding"]
      BY <2>1 DEF AgentAnswers
    <3> QED
      BY <3>1, <3>2, <3>3 DEF RoundInv
  <2>2. CASE AgentAdds(k)
    BY <2>2 DEF AgentAdds, RoundInv
  <2>3. CASE AgentSends(k) \/ AgentFails(k)
    BY <2>3 DEF AgentSends, AgentFails, RoundInv
  <2> QED
    BY <2>1, <2>2, <2>3
<1> QED
  BY <1>1, <1>2, <1>4, <1>6, <1>7, <1>8 DEF RoundInv

\* What a round has accepted.
LEMMA RoundAccepts ==
    ASSUME RoundInv
    PROVE  LET got == Accepted(outCh, TokenBudget - used)
           IN  /\ got.tokens \in 0..(TokenBudget - used)
               /\ got.who \subseteq {k \in Agents : agent[k] # "failed"}
<1>1. \A k \in Agents : result[k].tokens \in Nat
  BY RoundAssumption DEF RoundInv, Result, NoResult
<1>2. TokenBudget - used \in Nat /\ outCh \in Seq(Agents)
  BY RoundAssumption DEF RoundInv
<1> QED
  BY <1>1, <1>2, AcceptedFits

LEMMA NextRoles ==
    ASSUME NEW S, \A c \in S : c.who \in Voices, NEW next \in refinementRoles(S)
    PROVE  next \in Seq(Voices) /\ Len(next) \in 1..2
<1>1. (\E c \in S : next = <<c.who>>) \/ (\E c, d \in S : next = <<c.who, d.who>>)
  BY DEF refinementRoles
<1>2. (\E x \in Voices : next = <<x>>) \/ (\E x, y \in Voices : next = <<x, y>>)
  BY <1>1
<1>3. ASSUME NEW x \in Voices, next = <<x>> PROVE next \in Seq(Voices) /\ Len(next) \in 1..2
  BY <1>3
<1>4. ASSUME NEW x \in Voices, NEW y \in Voices, next = <<x, y>>
      PROVE  next \in Seq(Voices) /\ Len(next) \in 1..2
  BY <1>4
<1> QED
  BY <1>2, <1>3, <1>4

\* The candidates that a round brings.
LEMMA RoundCandidates ==
    ASSUME RoundInv, RoundReturned,
           NEW k \in Agents, k \in Accepted(outCh, TokenBudget - used).who
    PROVE  [n |-> 3 * (round - 1) + k, who |-> roles[k], score |-> result[k].score] \in Candidate
<1>1. agent[k] = "done"
  BY RoundAccepts DEF RoundReturned
<1>2. result[k].score \in Scores
  BY <1>1 DEF RoundInv, Result
<1>3. roles[k] \in Voices /\ k \in Nat \ {0}
  BY DEF RoundInv, Agents
<1>4. 3 * (round - 1) + k \in Nat \ {0}
  <2>1. round \in Nat \ {0}
    BY DEF RoundInv, RoundLimit
  <2> QED
    BY <1>3, <2>1
<1> QED
  BY <1>2, <1>3, <1>4 DEF Candidate

LEMMA OfCandidates ==
    ASSUME Scored(found), NEW who \in Voices, NEW s \in Scores
    PROVE  NewCandidate(who, s) \in Candidate
  BY FS_CardinalityType DEF NewCandidate, Candidate, Scored

LEMMA RoundEnds ==
    ASSUME RoundInv, \A c \in found : c.who \in Voices, pool \subseteq found, RoundScored
    PROVE  RoundInv'
<1> DEFINE got == Accepted(outCh, TokenBudget - used)
<1>1. /\ UNCHANGED <<anchored, rounds, counted, evaluated>>
      /\ used' = used + got.tokens
      /\ agent' = [k \in DOMAIN roles' |-> "idle"]
      /\ result' = [k \in DOMAIN roles' |-> NoResult]
      /\ outCh' = <<>>
      /\ pc = "await" /\ pc' \in {"baseline", "settle", "round"}
  BY DEF RoundScored, RoundReturned
<1>2. used' \in 0..TokenBudget
  <2>1. got.tokens \in 0..(TokenBudget - used)
    BY RoundAccepts
  <2>2. used \in 0..TokenBudget /\ TokenBudget \in Nat
    BY RoundAssumption DEF RoundInv
  <2> HIDE DEF got
  <2> QED
    BY <1>1, <2>1, <2>2
<1>3. \A c \in pool' : c.who \in Voices
  <2> DEFINE new == {[n |-> 3 * (round - 1) + k, who |-> roles[k], score |-> result[k].score] :
                       k \in {a \in Agents : a \in got.who}}
  <2>1. pool' \in Pruned(pool \cup new, PoolTopK)
    BY DEF RoundScored
  <2>2. pool' \subseteq pool \cup new
    BY <2>1, PrunedWithin
  <2>3. \A c \in new : c.who \in Voices
    BY DEF RoundInv, Agents
  <2> QED
    BY <2>2, <2>3
<1>4. \/ UNCHANGED <<round, roles>>
      \/ round' = round + 1 /\ roles' \in refinementRoles(pool')
  BY DEF RoundScored
<1>5. roles' \in Seq(Voices)
  BY <1>3, <1>4, NextRoles DEF RoundInv
<1>6. round' \in 1..rounds' + 1
  BY <1>1, <1>4 DEF RoundInv, RoundLimit
<1>7. Agents' = DOMAIN roles'
  BY DEF Agents
<1> HIDE DEF got
<1> QED
  BY <1>1, <1>2, <1>5, <1>6, <1>7 DEF RoundInv

LEMMA RoundStep == RoundInv /\ BestInv /\ found \subseteq Candidate /\ [Next]_vars => RoundInv'
<1> SUFFICES ASSUME RoundInv, BestInv, found \subseteq Candidate, [Next]_vars PROVE RoundInv'
  OBVIOUS
<1>1. CASE ~RoundsStep
  <2>1. UNCHANGED agentVars
    BY <1>1, RoundsRest
  <2>2. pc' = "await" => pc = "await"
    BY <1>1, Moves, RoundsRest, FirstSteps DEF BestInv
  <2> QED
    BY <2>1, <2>2 DEF RoundInv, agentVars, Agents
<1>2. CASE SpawnAgents
  <2>1. /\ UNCHANGED <<anchored, rounds, round, roles, used, counted, evaluated>>
        /\ round <= rounds
        /\ agent' = [k \in Agents |-> "calling"]
        /\ result' = [k \in Agents |-> NoResult]
        /\ outCh' = <<>>
    BY <1>2 DEF SpawnAgents
  <2>2. Agents' = Agents
    BY <2>1 DEF Agents
  <2> QED
    BY <2>1, <2>2 DEF RoundInv
<1>3. ASSUME NEW k \in Agents, AgentAnswers(k) \/ AgentAdds(k) \/ AgentSends(k) \/ AgentFails(k)
      PROVE  RoundInv'
  BY <1>3, RoundAgent
<1>4. CASE ConcurrentMapWrites
  BY <1>4 DEF ConcurrentMapWrites, AgentUnchanged, RoundInv, Agents
<1>5. CASE RoundsDone \/ RoundEmpty
  BY <1>5 DEF RoundsDone, RoundEmpty, LeaveRounds, agentVars, RoundInv, Agents
<1>6. CASE RoundScored
  BY <1>6, RoundEnds DEF BestInv, Candidate
<1> QED
  BY <1>1, <1>2, <1>3, <1>4, <1>5, <1>6 DEF RoundsStep

-----------------------------------------------------------------------------
(* The candidates, the branches, the tree's size and the subtasks.         *)

LEMMA FoundRun ==
    ASSUME found \subseteq Candidate, Scored(found), RunStep \/ ThoughtsStep \/ SearchStep \/ SubtasksStep
    PROVE  found' \subseteq Candidate
<1>1. \/ found' = found
      \/ \E who \in {"baseline", "branch", "rollout", "subtask"}, s \in Scores :
           found' = found \cup {NewCandidate(who, s)}
  <2>1. CASE RunStep
    <3>1. CASE Baseline
      <4>1. PICK s \in Scores : found' = found \cup {NewCandidate("baseline", s)}
        BY <3>1 DEF Baseline
      <4> QED
        BY <4>1
    <3>2. CASE Rebaseline
      <4>1. PICK s \in Scores : found' = found \cup {NewCandidate("baseline", s)}
        BY <3>2 DEF Rebaseline
      <4> QED
        BY <4>1
    <3> QED
      BY <2>1, <3>1, <3>2 DEF RunStep, Refuse, Begin, BaselineFails, GiveUp, Settle, Synthesise,
                              SynthesisFails
  <2>2. CASE ThoughtsStep
    <3>1. CASE BranchAnswers
      <4>1. PICK s \in Scores : found' = found \cup {NewCandidate("branch", s)}
        BY <3>1 DEF BranchAnswers
      <4> QED
        BY <4>1
    <3> QED
      BY <2>2, <3>1 DEF ThoughtsStep, BranchFails, BranchesDone
  <2>3. CASE SearchStep
    <3>1. CASE SimulationScored
      <4>1. PICK s \in Scores : found' = found \cup {NewCandidate("rollout", s)}
        BY <3>1 DEF SimulationScored
      <4> QED
        BY <4>1
    <3> QED
      BY <2>3, <3>1 DEF SearchStep, RolloutIdle, SimulationFails, RolloutsDone
  <2>4. CASE SubtasksStep
    <3>1. CASE SubtaskAnswers
      <4>1. PICK s \in Scores : found' = found \cup {NewCandidate("subtask", s)}
        BY <3>1 DEF SubtaskAnswers
      <4> QED
        BY <4>1
    <3> QED
      BY <2>4, <3>1 DEF SubtasksStep, PlanSubtasks, SubtaskFails, SubtasksDone
  <2> QED
    BY <2>1, <2>2, <2>3, <2>4
<1>2. ASSUME NEW who \in {"baseline", "branch", "rollout", "subtask"}, NEW s \in Scores,
             found' = found \cup {NewCandidate(who, s)}
      PROVE  found' \subseteq Candidate
  <2>1. who \in Voices
    BY RunAssumption
  <2>2. NewCandidate(who, s) \in Candidate
    BY <2>1, OfCandidates
  <2> QED
    BY <1>2, <2>2
<1> QED
  BY <1>1, <1>2

LEMMA FoundStep ==
    found \subseteq Candidate /\ BestInv /\ RoundInv /\ [Next]_vars => found' \subseteq Candidate
<1> SUFFICES ASSUME found \subseteq Candidate, BestInv, RoundInv, [Next]_vars
             PROVE  found' \subseteq Candidate
  OBVIOUS
<1>1. CASE UNCHANGED reasonVars
  BY <1>1 DEF reasonVars, runVars
<1>2. CASE Expire
  BY <1>2 DEF Expire
<1>3. CASE RunStep \/ ThoughtsStep \/ SearchStep \/ SubtasksStep
  BY <1>3, FoundRun DEF BestInv
<1>4. CASE RoundScored
  <2>1. RoundReturned
    BY <1>4 DEF RoundScored
  <2>2. found' = found \cup {[n |-> 3 * (round - 1) + k, who |-> roles[k], score |-> result[k].score] :
                    k \in {a \in Agents : a \in Accepted(outCh, TokenBudget - used).who}}
    BY <1>4 DEF RoundScored
  <2> QED
    BY <2>1, <2>2, RoundCandidates
<1>5. CASE RoundsStep /\ ~RoundScored
  BY <1>5 DEF RoundsStep, SpawnAgents, AgentAnswers, AgentAdds, AgentSends, AgentFails, AgentUnchanged,
              ConcurrentMapWrites, RoundsDone, RoundEmpty
<1> QED
  BY <1>1, <1>2, <1>3, <1>4, <1>5, Cases

\* The variables that a step sets without looking further.
LEMMA Simple ==
    ASSUME [Next]_vars
    PROVE  /\ pruning' = pruning
           /\ expired' = expired \/ expired' = TRUE
           /\ failing' = failing \/ failing' \in BOOLEAN
<1>1. CASE UNCHANGED reasonVars
  BY <1>1 DEF reasonVars, runVars
<1>2. CASE Expire
  BY <1>2 DEF Expire
<1>3. CASE RunStep
  BY <1>3 DEF RunStep, Refuse, Begin, Baseline, Rebaseline, BaselineFails, GiveUp, Settle,
              Synthesise, SynthesisFails, CallSucceeds, CallFails
<1>4. CASE ThoughtsStep
  BY <1>4 DEF ThoughtsStep, InBranch, BranchAnswers, BranchFails, BranchesDone, CallSucceeds, CallFails
<1>5. CASE SearchStep
  BY <1>5 DEF SearchStep, InRollout, RolloutIdle, SimulationFails, SimulationScored, RolloutsDone,
              CallSucceeds, CallFails
<1>6. CASE RoundsStep
  BY <1>6 DEF RoundsStep, SpawnAgents, AgentUnchanged, AgentAnswers, AgentAdds, AgentSends, AgentFails,
              ConcurrentMapWrites, RoundsDone, RoundEmpty, RoundScored, CallSucceeds, CallFails
<1>7. CASE SubtasksStep
  BY <1>7 DEF SubtasksStep, PlanSubtasks, InSubtask, SubtaskAnswers, SubtaskFails, SubtasksDone,
              CallSucceeds, CallFails
<1> QED
  BY <1>1, <1>2, <1>3, <1>4, <1>5, <1>6, <1>7, Cases

\* Branches, rollouts and subtasks are counted up to their number, which the
\* configuration caps; a subtask is begun only while tokens are left.
SizeInv ==
    /\ branches \in 0..MaxBranches
    /\ branch \in 0..branches
    /\ rollouts \in 0..MaxRollouts
    /\ rollout \in 0..rollouts
    /\ idle \in 0..rollout
    /\ \A n \in DOMAIN visits : Len(n) <= MaxDepth
    /\ subtaskCap \in 0..MaxSubtasks
    /\ planned \in 0..MaxSubtasks
    /\ subtask \in 0..planned
    /\ pc \in {"setup", "plan"} => subtask = 0
    /\ spent \in Nat
    /\ spent = 0 \/ \E cost \in Costs : spent - cost < SubtaskBudget

LEMMA SizeInit == Init => SizeInv
<1> SUFFICES ASSUME Init PROVE SizeInv
  OBVIOUS
<1>1. ASSUME NEW want \in Wants, NEW default \in Nat, NEW lo \in Nat, NEW hi \in Nat, hi > 0
      PROVE  Clamp(Asked(want, default), lo, hi) \in 0..hi
  <2>1. Asked(want, default) \in Nat
    BY AskedFor
  <2> QED
    BY <2>1, Clamped DEF Clamp
<1>2. ASSUME NEW w \in Wants PROVE resolveBranches(w) \in 0..MaxBranches
  <2>1. DefaultBranches \in Nat /\ 2 \in Nat /\ MaxBranches \in Nat /\ MaxBranches > 0
    BY BranchAssumption
  <2> QED
    BY <1>1, <2>1 DEF resolveBranches
<1>3. ASSUME NEW w \in Wants PROVE resolveMCTSRollouts(w) \in 0..MaxRollouts
  <2>1. DefaultRollouts \in Nat /\ 1 \in Nat /\ MaxRollouts \in Nat /\ MaxRollouts > 0
    BY SearchAssumption
  <2> QED
    BY <1>1, <2>1 DEF resolveMCTSRollouts
<1>4. ASSUME NEW w \in Wants PROVE resolveDecomposeConfig(w) \in 0..MaxSubtasks
  <2>1. 1 \in Nat /\ MaxSubtasks \in Nat /\ MaxSubtasks > 0
    BY SubtaskAssumption
  <2> QED
    BY <1>1, <2>1 DEF resolveDecomposeConfig
<1>5. branches \in 0..MaxBranches /\ branch = 0
  BY <1>2, BranchAssumption DEF Init, ReasonInit, ThoughtsInit
<1>6. rollouts \in 0..MaxRollouts /\ rollout = 0 /\ idle = 0
  BY <1>3, SearchAssumption DEF Init, ReasonInit, SearchInit
<1>7. \A n \in DOMAIN visits : Len(n) <= MaxDepth
  <2>1. DOMAIN visits = {Root} /\ Len(Root) = 0
    BY DEF Init, ReasonInit, SearchInit, Root
  <2> QED
    BY <2>1, SearchAssumption
<1>8. subtaskCap \in 0..MaxSubtasks /\ planned = 0 /\ subtask = 0 /\ spent = 0
  BY <1>4, SubtaskAssumption DEF Init, ReasonInit, SubtasksInit
<1> QED
  BY <1>5, <1>6, <1>7, <1>8, SubtaskAssumption, BranchAssumption, SearchAssumption DEF SizeInv

\* A plan has one subtask at least, and no more than the configuration allows.
LEMMA PlanFits ==
    ASSUME SizeInv, PlanSubtasks PROVE planned' \in 1..MaxSubtasks
<1>1. 1 \in 1..MaxSubtasks
  BY SubtaskAssumption
<1>2. ASSUME NEW items \in Plans, parseDecomposeSubtasks(items, subtaskCap) # <<>>
      PROVE  Len(parseDecomposeSubtasks(items, subtaskCap)) \in 1..MaxSubtasks
  <2> DEFINE s == parseDecomposeSubtasks(items, subtaskCap)
  <2>1. items \in Seq(STRING) /\ subtaskCap \in Nat
    BY SubtaskAssumption DEF SizeInv
  <2>2. s \in Seq(STRING) /\ Len(s) <= subtaskCap
    BY <2>1, FewSubtasks
  <2> HIDE DEF s
  <2>3. Len(s) \in Nat /\ Len(s) # 0
    BY <1>2, <2>2, EmptySeq DEF s
  <2>4. Len(s) \in 1..MaxSubtasks
    BY <2>2, <2>3, SubtaskAssumption DEF SizeInv
  <2> QED
    BY <2>4 DEF s
<1> QED
  BY <1>1, <1>2 DEF PlanSubtasks

LEMMA SizeSearch ==
    ASSUME SizeInv, TreeInv, SearchStep, UNCHANGED <<thoughtVars, subtaskVars>>
    PROVE  SizeInv'
<1>1. pc = "rollout" /\ pc' \notin {"setup", "plan"}
  BY DEF SearchStep, InRollout, RolloutIdle, SimulationFails, SimulationScored, RolloutsDone
<1>2. UNCHANGED rollouts /\ rollout' \in 0..rollouts' /\ idle' \in 0..rollout'
  <2>1. CASE RolloutsDone
    BY <2>1 DEF RolloutsDone, searchVars, SizeInv
  <2>2. CASE ~RolloutsDone
    <3>1. rollout < rollouts /\ rollout' = rollout + 1 /\ rollouts' = rollouts
          /\ idle' \in {idle, idle + 1}
      BY <2>2 DEF SearchStep, InRollout, RolloutIdle, SimulationFails, SimulationScored
    <3>2. rollouts \in Nat /\ rollout \in Nat /\ idle \in Nat
      BY SearchAssumption DEF SizeInv
    <3> QED
      BY <3>1, <3>2 DEF SizeInv
  <2> QED
    BY <2>1, <2>2
<1>3. \A n \in DOMAIN visits' : Len(n) <= MaxDepth
  <2>1. CASE RolloutIdle \/ RolloutsDone
    BY <2>1 DEF RolloutIdle, RolloutsDone, searchVars, SizeInv
  <2>2. CASE SimulationFails \/ SimulationScored
    <3>1. DOMAIN visits' = DOMAIN visits \cup {Child(leaf, a) : a \in Actions}
      BY <2>2 DEF SimulationFails, SimulationScored, Expanded, Backpropagated
    <3>2. leaf \in Paths /\ ~AtDepthLimit
      BY <2>2 DEF SimulationFails, SimulationScored, TreeInv, Grown
    <3>3. \A a \in Actions : Len(Child(leaf, a)) = Len(leaf) + 1
      BY <3>2, AboveChild
    <3>4. Len(leaf) \in Nat /\ Len(leaf) < MaxDepth
      BY <3>2, SearchAssumption DEF AtDepthLimit, Paths
    <3>5. Len(leaf) + 1 <= MaxDepth
      BY <3>4, SearchAssumption
    <3> QED
      BY <3>1, <3>3, <3>5 DEF SizeInv
  <2> QED
    BY <2>1, <2>2 DEF SearchStep
<1> QED
  BY <1>1, <1>2, <1>3 DEF SizeInv, thoughtVars, subtaskVars

LEMMA SizeSubtasks ==
    ASSUME SizeInv, SubtasksStep, UNCHANGED <<thoughtVars, searchVars>>
    PROVE  SizeInv'
<1> USE DEF thoughtVars, searchVars
<1>1. CASE PlanSubtasks
  <2>1. planned' \in 1..MaxSubtasks
    BY <1>1, PlanFits
  <2>2. pc = "plan" /\ pc' = "subtask" /\ UNCHANGED <<subtaskCap, subtask, spent>>
    BY <1>1 DEF PlanSubtasks
  <2>3. subtask' = 0
    BY <2>2 DEF SizeInv
  <2> QED
    BY <2>1, <2>2, <2>3, SubtaskAssumption DEF SizeInv
<1>2. CASE SubtaskAnswers \/ SubtaskFails
  <2>1. /\ pc = "subtask" /\ pc' = pc /\ subtask' = subtask + 1 /\ subtask < planned
        /\ spent < SubtaskBudget /\ UNCHANGED <<subtaskCap, planned>>
    BY <1>2 DEF SubtaskAnswers, SubtaskFails, InSubtask, MoreSubtasks
  <2>2. spent' = spent \/ \E cost \in Costs : spent' = spent + cost
    BY <1>2 DEF SubtaskAnswers, SubtaskFails
  <2>3. spent' \in Nat /\ (spent' = 0 \/ \E cost \in Costs : spent' - cost < SubtaskBudget)
    <3>1. CASE spent' = spent
      BY <3>1 DEF SizeInv
    <3>2. ASSUME NEW cost \in Costs, spent' = spent + cost
          PROVE  spent' \in Nat /\ spent' - cost < SubtaskBudget
      BY <2>1, <3>2, SubtaskAssumption DEF SizeInv
    <3> QED
      BY <2>2, <3>1, <3>2
  <2>4. subtask' \in 0..planned'
    BY <2>1, SubtaskAssumption DEF SizeInv
  <2> QED
    BY <2>1, <2>3, <2>4 DEF SizeInv
<1>3. CASE SubtasksDone
  BY <1>3 DEF SubtasksDone, subtaskVars, SizeInv
<1> QED
  BY <1>1, <1>2, <1>3 DEF SubtasksStep

LEMMA SizeStep == SizeInv /\ ModeInv /\ TreeInv /\ [Next]_vars => SizeInv'
<1> SUFFICES ASSUME SizeInv, ModeInv, TreeInv, [Next]_vars PROVE SizeInv'
  OBVIOUS
<1>1. pc' \in {"setup", "plan"} => pc \in {"setup", "plan"}
  BY Moves, FirstSteps DEF ModeInv
<1>2. CASE UNCHANGED <<thoughtVars, searchVars, subtaskVars>>
  BY <1>1, <1>2 DEF thoughtVars, searchVars, subtaskVars, SizeInv
<1>3. CASE ThoughtsStep /\ UNCHANGED <<searchVars, subtaskVars>>
  <2>1. branches' = branches /\ branch' \in 0..branches
    BY <1>3, BranchAssumption DEF ThoughtsStep, InBranch, BranchAnswers, BranchFails, BranchesDone,
            thoughtVars, SizeInv
  <2> QED
    BY <1>1, <1>3, <2>1 DEF searchVars, subtaskVars, SizeInv
<1>4. CASE SearchStep /\ UNCHANGED <<thoughtVars, subtaskVars>>
  BY <1>4, SizeSearch
<1>5. CASE SubtasksStep /\ UNCHANGED <<thoughtVars, searchVars>>
  BY <1>5, SizeSubtasks
<1> QED
  BY <1>2, <1>3, <1>4, <1>5, Cases DEF reasonVars

-----------------------------------------------------------------------------
(* Types and budgets.                                                      *)

RunInv ==
    /\ IdleInv /\ TreeInv /\ AgentsInv /\ BestInv
    /\ ModeInv /\ RoundInv /\ SizeInv
    /\ found \subseteq Candidate
    /\ pruning \in BOOLEAN /\ expired \in BOOLEAN /\ failing \in BOOLEAN

LEMMA RunInvInit == Init => RunInv
  BY IdleInit, TreeInit, AgentsInit, BestInit, ModeInit, RoundInit, SizeInit
     DEF RunInv, Init, ReasonInit, RunInit

LEMMA RunInvStep == RunInv /\ [Next]_vars => RunInv'
<1> SUFFICES ASSUME RunInv, [Next]_vars PROVE RunInv'
  OBVIOUS
<1>1. IdleInv' /\ TreeInv' /\ AgentsInv' /\ BestInv'
  BY IdleStep, TreeStep, AgentsStep, BestStep DEF RunInv
<1>2. ModeInv' /\ RoundInv' /\ SizeInv' /\ found' \subseteq Candidate
  BY ModeStep, RoundStep, SizeStep, FoundStep DEF RunInv
<1>3. pruning' \in BOOLEAN /\ expired' \in BOOLEAN /\ failing' \in BOOLEAN
  BY Simple DEF RunInv
<1> QED
  BY <1>1, <1>2, <1>3 DEF RunInv

\* Whatever agents send, in whatever order, no round accepts outputs beyond the
\* token budget, and a decomposition that has overrun its budget did so with one
\* subtask (runMultiAgentRound and executeDecompose).
THEOREM BudgetsKept == Spec => []BudgetKept
<1>1. RunInv => BudgetKept
  BY RoundAssumption DEF RunInv, RoundInv, SizeInv, BudgetKept
<1> QED
  BY <1>1, RunInvInit, RunInvStep, PTL DEF Spec

-----------------------------------------------------------------------------
(* Calls.                                                                  *)

\* The calls a run may still make: those of the branches, rollouts, agents and
\* subtasks it has not begun, two baselines at most, and the synthesis.
CallsLeft ==
    CASE pc = "setup" -> CallBound
      [] pc = "branch" -> branches - branch + 1
      [] pc = "rollout" -> rollouts - rollout + 3
      [] pc = "round" -> IF round > rounds THEN 3 ELSE Len(roles) + 2 * (rounds - round) + 3
      [] pc = "await" -> Cardinality({k \in Agents : agent[k] = "calling"}) + 2 * (rounds - round) + 3
      [] pc = "plan" -> MaxSubtasks + 3
      [] pc = "subtask" -> planned - subtask + 2
      [] pc = "baseline" -> IF mode = "decompose" THEN 2 ELSE 3
      [] pc = "settle" -> IF mode \in {"tot", "decompose"} THEN 1 ELSE 2
      [] pc = "rebaseline" -> 2
      [] pc = "synth" -> 1
      [] OTHER -> 0

\* A run that has not begun has called nobody.
CallInv ==
    /\ calls \in Nat
    /\ calls + CallsLeft <= CallBound
    /\ pc = "setup" => branch = 0 /\ rollout = 0 /\ round = 1 /\ Len(roles) <= Len(Workers)

LEMMA BoundNat == CallBound \in Nat
<1>1. Len(Workers) \in Nat
  BY RoundAssumption
<1> QED
  BY <1>1, BranchAssumption, SearchAssumption, SubtaskAssumption DEF CallBound, RoundLimit

LEMMA CallInit == Init => CallInv
<1> SUFFICES ASSUME Init PROVE CallInv
  OBVIOUS
<1>1. pc = "setup" /\ calls = 0 /\ branch = 0 /\ rollout = 0 /\ round = 1
  BY DEF Init, ReasonInit, RunInit, ThoughtsInit, SearchInit, RoundsInit
<1>2. CallsLeft = CallBound
  BY <1>1 DEF CallsLeft
<1>3. Len(roles) <= Len(Workers)
  BY FirstRoles, RoundAssumption
<1> QED
  BY <1>1, <1>2, <1>3, BoundNat DEF CallInv

LEMMA OneLess ==
    ASSUME NEW n \in Nat, NEW l \in Nat, NEW m \in Nat, NEW b \in Nat, n + l <= b, NEW k,
           (k = n /\ m <= l) \/ (k = n + 1 /\ m < l)
    PROVE  k \in Nat /\ k + m <= b
  OBVIOUS

\* A step that makes a call has one less left, and the others not more.
Spends == (calls' = calls /\ CallsLeft' <= CallsLeft) \/ (calls' = calls + 1 /\ CallsLeft' < CallsLeft)

LEMMA CallMoves ==
    ASSUME CallInv, mode' = mode, pc' # "setup", CallsLeft \in Nat, CallsLeft' \in Nat, Spends
    PROVE  CallInv'
<1>1. CallBound' = CallBound /\ CallBound \in Nat
  BY BoundNat DEF CallBound
<1>2. calls \in Nat /\ calls + CallsLeft <= CallBound
  BY DEF CallInv
<1>3. calls' \in Nat /\ calls' + CallsLeft' <= CallBound
  BY <1>1, <1>2, OneLess DEF Spends
<1> QED
  BY <1>1, <1>3 DEF CallInv

\* The agents that are still calling.
LEMMA Callers ==
    ASSUME AgentsInv PROVE Cardinality({k \in Agents : agent[k] = "calling"}) \in Nat
<1>1. IsFiniteSet({k \in Agents : agent[k] = "calling"})
  BY FS_Subset DEF AgentsInv
<1> QED
  BY <1>1, FS_CardinalityType

LEMMA CallBegin ==
    ASSUME RunInv, CallInv, Begin, UNCHANGED <<thoughtVars, searchVars, agentVars, subtaskVars>>
    PROVE  CallInv'
<1>1. pc = "setup" /\ mode \in ModeNames /\ mode' = mode /\ calls' = calls /\ pc' = FirstStep(mode)
  BY RunAssumption DEF Begin, RunInv, ModeInv, ShouldExecute
<1>2. CallsLeft = CallBound /\ CallBound \in Nat
  BY <1>1, BoundNat DEF CallsLeft
<1>3. branch' = 0 /\ rollout' = 0 /\ round' = 1 /\ roles' = roles /\ Len(roles) <= Len(Workers)
  BY <1>1 DEF CallInv, thoughtVars, searchVars, agentVars
<1>4. /\ branches' \in 0..MaxBranches /\ rollouts' \in 0..MaxRollouts /\ rounds' \in 0..RoundLimit
  BY DEF RunInv, SizeInv, RoundInv, thoughtVars, searchVars, agentVars
<1>5. Len(Workers) \in 1..3 /\ Len(roles) \in Nat
  BY RoundAssumption DEF RunInv, RoundInv
<1>6. CallsLeft' \in Nat /\ CallsLeft' <= CallBound
  <2>1. CASE mode = "tot"
    BY <1>1, <1>3, <1>4, <2>1, BranchAssumption DEF FirstStep, CallsLeft, CallBound
  <2>2. CASE mode = "mcts"
    BY <1>1, <1>3, <1>4, <2>2, SearchAssumption DEF FirstStep, CallsLeft, CallBound
  <2>3. CASE mode = "multi_agent"
    BY <1>1, <1>3, <1>4, <1>5, <2>3 DEF FirstStep, CallsLeft, CallBound, RoundLimit
  <2>4. CASE mode = "decompose"
    BY <1>1, <2>4, SubtaskAssumption DEF FirstStep, CallsLeft, CallBound
  <2> QED
    BY <1>1, <2>1, <2>2, <2>3, <2>4
<1>7. pc' # "setup"
  BY <1>1 DEF FirstStep
<1>8. CallsLeft \in Nat /\ Spends
  BY <1>1, <1>2, <1>6 DEF Spends
<1> QED
  BY <1>1, <1>6, <1>7, <1>8, CallMoves

LEMMA CallRun ==
    ASSUME RunInv, CallInv, RunStep, UNCHANGED <<thoughtVars, searchVars, agentVars, subtaskVars>>
    PROVE  CallInv'
<1>1. CASE Begin
  BY <1>1, CallBegin
<1>2. ASSUME ~Begin
      PROVE  mode' = mode /\ pc' # "setup" /\ CallsLeft \in Nat /\ CallsLeft' \in Nat /\ Spends
  <2>1. calls \in Nat /\ CallBound \in Nat
    BY BoundNat DEF CallInv
  <2>2. CASE Refuse
    <3>1. pc = "setup" /\ pc' = "failed" /\ UNCHANGED <<mode, calls>>
      BY <2>2 DEF Refuse
    <3> QED
      BY <2>1, <3>1 DEF CallsLeft, Spends
  <2>3. CASE Baseline
    <3>1. pc = "baseline" /\ pc' = "settle" /\ mode' = mode /\ calls' = calls + 1
          /\ mode \in {"mcts", "multi_agent", "decompose"}
      BY <2>3 DEF Baseline, CallSucceeds, RunInv, ModeInv
    <3> QED
      BY <2>1, <3>1 DEF CallsLeft, Spends
  <2>4. CASE Rebaseline
    <3>1. pc = "rebaseline" /\ pc' = "synth" /\ mode' = mode /\ calls' = calls + 1
      BY <2>4 DEF Rebaseline, CallSucceeds
    <3> QED
      BY <2>1, <3>1 DEF CallsLeft, Spends
  <2>5. CASE BaselineFails
    <3>1. pc \in {"baseline", "rebaseline"} /\ pc' = "failed" /\ mode' = mode
          /\ calls' \in {calls, calls + 1}
      BY <2>5 DEF BaselineFails, GiveUp, CallFails
    <3> QED
      BY <2>1, <3>1 DEF CallsLeft, Spends
  <2>6. CASE Settle
    <3>1. /\ pc = "settle" /\ mode' = mode /\ calls' = calls
          /\ pc' = "synth" \/ (pc' = "rebaseline" /\ mode \in {"mcts", "multi_agent"})
      BY <2>6 DEF Settle
    <3> QED
      BY <2>1, <3>1 DEF CallsLeft, Spends
  <2>7. CASE Synthesise \/ SynthesisFails
    <3>1. pc = "synth" /\ pc' \in {"answered", "failed"} /\ mode' = mode /\ calls' = calls + 1
      BY <2>7 DEF Synthesise, SynthesisFails, GiveUp, CallSucceeds, CallFails
    <3> QED
      BY <2>1, <3>1 DEF CallsLeft, Spends
  <2> QED
    BY <1>2, <2>2, <2>3, <2>4, <2>5, <2>6, <2>7 DEF RunStep
<1> HIDE DEF CallsLeft, Spends
<1> QED
  BY <1>1, <1>2, CallMoves

LEMMA CallThoughts ==
    ASSUME RunInv, CallInv, ThoughtsStep PROVE CallInv'
<1>1. calls \in Nat /\ branches \in Nat /\ branch \in 0..branches /\ pc = "branch" /\ mode = "tot"
  BY BranchAssumption DEF RunInv, SizeInv, CallInv, ModeInv, ThoughtsStep, InBranch, BranchAnswers,
                          BranchFails, BranchesDone
<1>2. mode' = mode /\ branches' = branches
  BY DEF ThoughtsStep, InBranch, BranchAnswers, BranchFails, BranchesDone, thoughtVars
<1>3. \/ pc' = pc /\ calls' = calls + 1 /\ branch' = branch + 1 /\ branch < branches
      \/ pc' \in {"failed", "settle"} /\ calls' = calls
  BY DEF ThoughtsStep, InBranch, BranchAnswers, BranchFails, BranchesDone, CallSucceeds, CallFails
<1>4. CallsLeft \in Nat /\ CallsLeft' \in Nat /\ Spends
  BY <1>1, <1>2, <1>3 DEF CallsLeft, Spends
<1>5. pc' # "setup"
  BY <1>1, <1>3
<1> HIDE DEF CallsLeft, Spends
<1> QED
  BY <1>2, <1>4, <1>5, CallMoves

LEMMA CallSearch ==
    ASSUME RunInv, CallInv, SearchStep PROVE CallInv'
<1>1. calls \in Nat /\ rollouts \in Nat /\ rollout \in 0..rollouts /\ pc = "rollout" /\ mode = "mcts"
  BY SearchAssumption DEF RunInv, SizeInv, CallInv, ModeInv, SearchStep, InRollout, RolloutIdle,
                          SimulationFails, SimulationScored, RolloutsDone
<1>2. mode' = mode /\ rollouts' = rollouts
  BY DEF SearchStep, InRollout, RolloutIdle, SimulationFails, SimulationScored, RolloutsDone, searchVars
<1>3. \/ /\ pc' \in {pc, "baseline", "settle"} /\ calls' \in {calls, calls + 1}
         /\ rollout' = rollout + 1 /\ rollout < rollouts
      \/ pc' \in {"baseline", "settle"} /\ calls' = calls
  BY DEF SearchStep, InRollout, RolloutIdle, SimulationFails, SimulationScored, RolloutsDone,
         CallSucceeds, CallFails
<1>4. CallsLeft \in Nat /\ CallsLeft' \in Nat /\ Spends
  BY <1>1, <1>2, <1>3 DEF CallsLeft, Spends
<1>5. pc' # "setup"
  BY <1>1, <1>3
<1> HIDE DEF CallsLeft, Spends
<1> QED
  BY <1>2, <1>4, <1>5, CallMoves

LEMMA CallSubtasks ==
    ASSUME RunInv, CallInv, SubtasksStep PROVE CallInv'
<1>1. /\ calls \in Nat /\ planned \in 0..MaxSubtasks /\ subtask \in 0..planned
      /\ MaxSubtasks \in Nat /\ mode = "decompose" /\ pc \in {"plan", "subtask"}
      /\ pc = "plan" => subtask = 0
  BY SubtaskAssumption DEF RunInv, SizeInv, CallInv, ModeInv, SubtasksStep, PlanSubtasks, InSubtask,
                           SubtaskAnswers, SubtaskFails, SubtasksDone
<1>2. mode' = mode
  BY DEF SubtasksStep, PlanSubtasks, InSubtask, SubtaskAnswers, SubtaskFails, SubtasksDone
<1>3. /\ pc' # "setup"
      /\ CallsLeft \in Nat /\ CallsLeft' \in Nat /\ Spends
  <2>1. CASE PlanSubtasks
    <3>1. pc = "plan" /\ pc' = "subtask" /\ calls' = calls + 1 /\ subtask' = 0
      BY <1>1, <2>1 DEF PlanSubtasks, CallSucceeds, CallFails
    <3>2. planned' \in 1..MaxSubtasks
      BY <2>1, PlanFits DEF RunInv
    <3> QED
      BY <1>1, <3>1, <3>2 DEF CallsLeft, Spends
  <2>2. CASE SubtaskAnswers \/ SubtaskFails
    <3>1. /\ pc = "subtask" /\ pc' = pc /\ calls' = calls + 1 /\ planned' = planned
          /\ subtask' = subtask + 1 /\ subtask < planned
      BY <2>2 DEF SubtaskAnswers, SubtaskFails, InSubtask, MoreSubtasks, CallSucceeds, CallFails
    <3> QED
      BY <1>1, <3>1 DEF CallsLeft, Spends
  <2>3. CASE SubtasksDone
    <3>1. pc = "subtask" /\ pc' \in {"baseline", "settle"} /\ calls' = calls
      BY <2>3 DEF SubtasksDone
    <3> QED
      BY <1>1, <1>2, <3>1 DEF CallsLeft, Spends
  <2> QED
    BY <2>1, <2>2, <2>3 DEF SubtasksStep
<1> HIDE DEF CallsLeft, Spends
<1> QED
  BY <1>2, <1>3, CallMoves

\* A round after the first asks two agents at most.
LEMMA NextRound ==
    ASSUME NEW last \in Nat, NEW this \in Nat, this <= last, NEW asks \in 1..2, NEW left,
           left = IF this + 1 > last THEN 3 ELSE asks + 2 * (last - (this + 1)) + 3
    PROVE  left \in Nat /\ left <= 2 * (last - this) + 3
  OBVIOUS

LEMMA CallRounds ==
    ASSUME RunInv, CallInv, RoundsStep PROVE CallInv'
<1> DEFINE callers == {k \in Agents : agent[k] = "calling"}
<1>1. /\ calls \in Nat /\ rounds \in Nat /\ round \in 1..rounds + 1 /\ Len(roles) \in Nat
      /\ mode = "multi_agent" /\ pc \in {"round", "await"}
      /\ pc = "await" => round <= rounds
  <2>1. pc \in {"round", "await"}
    BY DEF RoundsStep, SpawnAgents, AgentAnswers, AgentAdds, AgentSends, AgentFails, ConcurrentMapWrites,
           RoundsDone, RoundEmpty, RoundReturned, RoundScored
  <2>2. /\ rounds \in Nat /\ round \in 1..rounds + 1 /\ Len(roles) \in Nat
        /\ pc = "await" => round <= rounds
    BY DEF RoundLimit, RunInv, RoundInv
  <2> QED
    BY <2>1, <2>2 DEF RunInv, CallInv, ModeInv
<1>2. Cardinality(callers) \in Nat
  BY Callers DEF RunInv
<1>3. CallsLeft \in Nat /\ (pc = "await" => CallsLeft = Cardinality(callers) + 2 * (rounds - round) + 3)
  <2>1. CASE pc = "await"
    <3>1. CallsLeft = Cardinality(callers) + 2 * (rounds - round) + 3
      BY <2>1 DEF CallsLeft
    <3> HIDE DEF callers
    <3> QED
      BY <1>1, <1>2, <2>1, <3>1
  <2>2. CASE pc = "round"
    <3>1. CallsLeft = IF round > rounds THEN 3 ELSE Len(roles) + 2 * (rounds - round) + 3
      BY <2>2 DEF CallsLeft
    <3> QED
      BY <1>1, <2>2, <3>1
  <2> QED
    BY <1>1, <2>1, <2>2
<1>4. mode' = mode
  <2>1. ASSUME NEW k \in Agents, AgentAnswers(k) \/ AgentAdds(k) \/ AgentSends(k) \/ AgentFails(k)
      PROVE  mode' = mode
    BY <2>1 DEF AgentUnchanged, AgentAnswers, AgentAdds, AgentSends, AgentFails
  <2>2. ASSUME SpawnAgents \/ ConcurrentMapWrites \/ RoundsDone \/ RoundEmpty PROVE mode' = mode
    BY <2>2 DEF SpawnAgents, AgentUnchanged, ConcurrentMapWrites, RoundsDone, RoundEmpty
  <2>3. ASSUME RoundScored PROVE mode' = mode
    BY <2>3 DEF RoundScored
  <2> QED
    BY <2>1, <2>2, <2>3 DEF RoundsStep
<1>5. /\ pc' # "setup"
      /\ CallsLeft' \in Nat /\ Spends
  <2>1. CASE SpawnAgents
    <3>1. /\ pc = "round" /\ pc' = "await" /\ calls' = calls /\ round <= rounds
          /\ UNCHANGED <<rounds, round, roles>>
          /\ agent' = [k \in Agents |-> "calling"]
      BY <2>1 DEF SpawnAgents
    <3>2. {k \in Agents' : agent'[k] = "calling"} = 1..Len(roles)
      BY <1>1, <3>1 DEF Agents, RunInv, RoundInv
    <3>3. Cardinality(1..Len(roles)) = Len(roles)
      <4> DEFINE n == Len(roles)
      <4>1. n \in Nat
        BY <1>1
      <4> HIDE DEF n
      <4>2. Cardinality(1..n) = n
        BY <4>1, FS_Interval
      <4> QED
        BY <4>2 DEF n
    <3>4. CallsLeft' = Len(roles) + 2 * (rounds - round) + 3
      BY <3>1, <3>2, <3>3 DEF CallsLeft
    <3>5. CallsLeft = Len(roles) + 2 * (rounds - round) + 3
      BY <1>1, <3>1 DEF CallsLeft
    <3> QED
      BY <1>1, <1>3, <3>1, <3>4, <3>5 DEF Spends
  <2>2. ASSUME NEW k \in Agents, AgentAnswers(k) \/ AgentFails(k)
        PROVE  /\ pc' # "setup"
               /\ CallsLeft' \in Nat /\ Spends
    <3>1. /\ pc = "await" /\ pc' = pc /\ calls' = calls + 1 /\ k \in callers
          /\ UNCHANGED <<rounds, round, roles>>
          /\ \E what \in {"adding", "failed"} : agent' = [agent EXCEPT ![k] = what]
      BY <2>2 DEF AgentAnswers, AgentFails, AgentUnchanged, CallSucceeds, CallFails
    <3>2. {l \in Agents' : agent'[l] = "calling"} = callers \ {k}
      BY <3>1 DEF Agents, RunInv, RoundInv
    <3>3. IsFiniteSet(callers)
      BY FS_Subset DEF RunInv, AgentsInv
    <3>4. Cardinality(callers \ {k}) = Cardinality(callers) - 1
      <4> HIDE DEF callers
      <4> QED BY <3>1, <3>3, FS_RemoveElement
    <3>5. Cardinality(callers \ {k}) \in Nat
      BY <3>3, FS_Subset, FS_CardinalityType
    <3>6. CallsLeft' = Cardinality(callers \ {k}) + 2 * (rounds - round) + 3
      <4> HIDE DEF callers
      <4> QED BY <3>1, <3>2 DEF CallsLeft
    <3> QED
      BY <1>1, <1>2, <1>3, <3>1, <3>4, <3>5, <3>6 DEF Spends
  <2>3. ASSUME NEW k \in Agents, AgentAdds(k) \/ AgentSends(k)
        PROVE  /\ pc' # "setup"
               /\ CallsLeft' \in Nat /\ Spends
    <3>1. /\ pc = "await" /\ pc' = pc /\ calls' = calls /\ agent[k] # "calling"
          /\ UNCHANGED <<rounds, round, roles>>
          /\ \E what \in {"mapping", "done"} : agent' = [agent EXCEPT ![k] = what]
      BY <2>3 DEF AgentAdds, AgentSends, AgentUnchanged
    <3>2. {l \in Agents' : agent'[l] = "calling"} = callers
      BY <3>1 DEF Agents, RunInv, RoundInv
    <3>3. CallsLeft' = Cardinality(callers) + 2 * (rounds - round) + 3
      <4> HIDE DEF callers
      <4> QED BY <3>1, <3>2 DEF CallsLeft
    <3> QED
      BY <1>1, <1>3, <3>1, <3>3 DEF Spends
  <2>4. CASE ConcurrentMapWrites
    <3>1. pc' = "crashed" /\ calls' = calls
      BY <2>4 DEF ConcurrentMapWrites
    <3>2. CallsLeft' = 0
      BY <3>1 DEF CallsLeft
    <3> QED
      BY <1>3, <3>1, <3>2 DEF Spends
  <2>5. CASE RoundsDone \/ RoundEmpty
    <3>1. pc' \in {"baseline", "settle"} /\ calls' = calls
      BY <2>5 DEF RoundsDone, RoundEmpty, LeaveRounds
    <3>2. CallsLeft' \in {2, 3} /\ CallsLeft >= 3
      BY <1>1, <1>2, <1>4, <3>1 DEF CallsLeft
    <3> QED
      BY <1>1, <1>3, <3>1, <3>2 DEF Spends
  <2>6. CASE RoundScored
    <3>1. pc = "await" /\ calls' = calls /\ rounds' = rounds
      BY <2>6 DEF RoundScored, RoundReturned
    <3>2. CASE pc' \in {"baseline", "settle"}
      <4>1. CallsLeft' \in {2, 3} /\ CallsLeft >= 3
        BY <1>1, <1>2, <1>4, <3>1, <3>2 DEF CallsLeft
      <4> QED
        BY <1>1, <1>3, <3>1, <3>2, <4>1 DEF Spends
    <3>3. CASE pc' = "round"
      <4>1. round' = round + 1 /\ roles' \in refinementRoles(pool')
        BY <2>6, <3>3 DEF RoundScored
      <4>2. Len(roles') \in 1..2
        <5>1. (\E x : roles' = <<x>>) \/ (\E x, y : roles' = <<x, y>>)
          BY <4>1 DEF refinementRoles
        <5>2. ASSUME NEW x, roles' = <<x>> PROVE Len(roles') \in 1..2
          BY <5>2
        <5>3. ASSUME NEW x, NEW y, roles' = <<x, y>> PROVE Len(roles') \in 1..2
          BY <5>3
        <5> QED
          BY <5>1, <5>2, <5>3
      <4>3. CallsLeft' = IF round + 1 > rounds THEN 3 ELSE Len(roles') + 2 * (rounds - (round + 1)) + 3
        BY <3>1, <3>3, <4>1 DEF CallsLeft
      <4>4. CallsLeft' \in Nat /\ CallsLeft' <= 2 * (rounds - round) + 3
        <5>1. round \in Nat /\ round <= rounds
          BY <1>1, <3>1
        <5> QED
          BY <1>1, <4>2, <4>3, <5>1, NextRound
      <4>5. 2 * (rounds - round) + 3 <= CallsLeft
        BY <1>1, <1>2, <1>3, <3>1
      <4>6. CallsLeft' <= CallsLeft
        BY <1>1, <1>3, <3>1, <4>4, <4>5
      <4> QED
        BY <1>1, <1>3, <3>1, <3>3, <4>4, <4>6 DEF Spends
    <3> QED
      BY <2>6, <3>2, <3>3 DEF RoundScored
  <2> QED
    BY <2>1, <2>2, <2>3, <2>4, <2>5, <2>6 DEF RoundsStep
<1> QED
  BY <1>3, <1>4, <1>5, CallMoves

LEMMA CallStep == RunInv /\ CallInv /\ [Next]_vars => CallInv'
<1> SUFFICES ASSUME RunInv, CallInv, [Next]_vars PROVE CallInv'
  OBVIOUS
<1>1. CASE UNCHANGED <<mode, pc, calls, thoughtVars, searchVars, agentVars, subtaskVars>>
  BY <1>1 DEF CallInv, CallsLeft, CallBound, thoughtVars, searchVars, agentVars, subtaskVars, Agents
<1> QED
  BY <1>1, Cases, CallRun, CallThoughts, CallSearch, CallRounds, CallSubtasks
     DEF reasonVars, runVars, Expire

LEMMA ReasonTyped == RunInv /\ CallInv => ReasonTypeOK
<1> SUFFICES ASSUME RunInv, CallInv PROVE ReasonTypeOK
  OBVIOUS
<1>1. RunTypeOK
  BY DEF RunInv, CallInv, BestInv, ModeInv, RunTypeOK
<1>2. ThoughtsTypeOK
  BY DEF RunInv, SizeInv, ThoughtsTypeOK
<1>3. SearchTypeOK
  <2>1. ASSUME NEW n \in DOMAIN visits PROVE n \in Node /\ visits[n] \in Nat
    <3>1. n \in Paths /\ Len(n) <= MaxDepth
      BY DEF RunInv, TreeInv, Grown, SizeInv
    <3>2. Len(n) \in 0..MaxDepth /\ n \in [1..Len(n) -> Actions]
      BY <3>1, SearchAssumption DEF Paths
    <3>3. IsFiniteSet(Under(n, voiced))
      BY FS_Subset DEF RunInv, TreeInv, Under
    <3>4. visits[n] \in Nat
      BY <3>3, FS_CardinalityType DEF RunInv, TreeInv
    <3> QED
      BY <3>2, <3>4 DEF Node
  <2> QED
    BY <2>1 DEF RunInv, TreeInv, Grown, SizeInv, SearchTypeOK
<1>4. RoundsTypeOK
  <2>1. round \in 1..RoundLimit + 1 /\ used \in Nat
    BY RoundAssumption DEF RunInv, RoundInv, RoundLimit
  <2> QED
    BY <2>1 DEF RunInv, RoundInv, Result, RoundsTypeOK
<1>5. SubtasksTypeOK
  BY DEF RunInv, SizeInv, SubtasksTypeOK
<1> QED
  BY <1>1, <1>2, <1>3, <1>4, <1>5 DEF ReasonTypeOK

LEMMA RunInvariant == Spec => [](RunInv /\ CallInv)
  BY RunInvInit, RunInvStep, CallInit, CallStep, PTL DEF Spec

\* However the branches, rollouts, rounds and subtasks of a run go, and whatever
\* sizes were asked for, it makes no more calls than the configuration allows.
THEOREM CallsWithin == Spec => []CallsBounded
<1>1. RunInv /\ CallInv => CallsBounded
  <2> SUFFICES ASSUME RunInv, CallInv PROVE calls <= CallBound
    BY DEF CallsBounded
  <2>1. CallsLeft \in Nat
    <3>1. CallBound \in Nat
      BY BoundNat
    <3>2. Cardinality({k \in Agents : agent[k] = "calling"}) \in Nat
      BY Callers DEF RunInv
    <3>3. branches \in Nat /\ branch \in 0..branches
      BY BranchAssumption DEF RunInv, SizeInv
    <3>4. rollouts \in Nat /\ rollout \in 0..rollouts
      BY SearchAssumption DEF RunInv, SizeInv
    <3>5. MaxSubtasks \in Nat /\ planned \in Nat /\ subtask \in 0..planned
      BY SubtaskAssumption DEF RunInv, SizeInv
    <3>6. /\ rounds \in Nat /\ round \in 1..rounds + 1 /\ Len(roles) \in Nat
          /\ pc = "await" => round <= rounds
      BY DEF RunInv, RoundInv, RoundLimit
    <3>7. CASE pc = "round"
      BY <3>6, <3>7 DEF CallsLeft
    <3>8. CASE pc = "await"
      BY <3>2, <3>6, <3>8 DEF CallsLeft
    <3>9. CASE pc \in {"branch", "rollout"}
      BY <3>3, <3>4, <3>9 DEF CallsLeft
    <3>10. CASE pc \in {"plan", "subtask"}
      BY <3>5, <3>10 DEF CallsLeft
    <3>11. CASE pc \notin {"round", "await", "branch", "rollout", "plan", "subtask"}
      BY <3>1, <3>11 DEF CallsLeft
    <3> QED
      BY <3>7, <3>8, <3>9, <3>10, <3>11
  <2>2. calls \in Nat /\ calls + CallsLeft <= CallBound /\ CallBound \in Nat
    BY BoundNat DEF CallInv
  <2> QED
    BY <2>1, <2>2
<1> QED
  BY <1>1, RunInvariant, PTL

=============================================================================
