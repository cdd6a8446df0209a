---------------------------- MODULE AgentRounds ----------------------------
(***************************************************************************)
(* executeMultiAgent of internal/reasoning/multiagent.go: rounds of agents *)
(* that call the upstream concurrently, one goroutine each, until they     *)
(* agree or rounds, tokens or time run out.                                *)
(*                                                                         *)
(* The agents of a round add what they found about memory anchors to one   *)
(* accumulator without a lock.  Its counter is read and written in two     *)
(* steps; its map of anchors, written next when there are anchors, stops   *)
(* the whole process when the runtime notices two writers.                 *)
(***************************************************************************)
EXTENDS ReasonRun, Sequences

CONSTANTS
    Workers,        \* the role names multiAgentRoles takes from, in order
    DefaultAgents,  \* cfg.MultiAgentMaxAgents
    DefaultRounds,  \* cfg.MultiAgentMaxRounds
    TokenBudget,    \* cfg.BudgetTokens
    Tokens,         \* what estimateTokens may say of an output
    NearGap         \* the least difference of scores that is a consensus: 5

\* A request may ask for up to four rounds, whatever is configured.
RoundLimit == 4

ASSUME RoundAssumption ==
    /\ Workers \in Seq(Voices)
    /\ Len(Workers) \in 1..3
    /\ DefaultAgents \in Nat \ {0}
    /\ DefaultRounds \in Nat \ {0}
    /\ TokenBudget \in Nat \ {0}
    /\ Tokens \subseteq Nat \ {0}
    /\ NearGap \in Nat

VARIABLES
    anchored,   \* does the request carry memory anchors?
    rounds,     \* cfg.MaxRounds
    round,      \* the present round
    roles,      \* the roles of this round, one agent each
    agent,      \* per agent: what it is doing
    result,     \* per agent: the score and the tokens of its output
    outCh,      \* the agents that have sent their result, in order
    used,       \* tokenBudgetUsed
    counted,    \* memAcc.candidates
    evaluated   \* observer: outputs evaluated

agentVars == <<anchored, rounds, round, roles, agent, result, outCh, used, counted, evaluated>>

Agents == DOMAIN roles
NoResult == [score |-> 0, tokens |-> 0, read |-> 0]

\* The first roles, one less than the agents asked for: the last one synthesises.
multiAgentRoles(want) ==
    SubSeq(Workers, 1, Clamp(Clamp(Asked(want, DefaultAgents), 2, 4) - 1, 1, Len(Workers)))

multiAgentRounds(want) == Clamp(Asked(want, DefaultRounds), 1, RoundLimit)

RoundsTypeOK ==
    /\ anchored \in BOOLEAN
    /\ rounds \in 0..RoundLimit
    /\ round \in 1..RoundLimit + 1
    /\ roles \in Seq(Voices)
    /\ agent \in [Agents -> {"idle", "calling", "adding", "mapping", "failed", "done"}]
    /\ \A k \in Agents :
          result[k] = NoResult \/ result[k] \in [score : Scores, tokens : Tokens, read : Nat]
    /\ outCh \in Seq(Agents)
    /\ used \in Nat
    /\ counted \in Nat
    /\ evaluated \in Nat

RoundsInit ==
    /\ anchored \in IF mode = "multi_agent" THEN BOOLEAN ELSE {FALSE}
    /\ rounds \in IF mode = "multi_agent" THEN {multiAgentRounds(w) : w \in Wants} ELSE {0}
    /\ round = 1
    /\ roles \in IF mode = "multi_agent" THEN {multiAgentRoles(w) : w \in Wants} ELSE {Workers}
    /\ agent = [k \in Agents |-> "idle"]
    /\ result = [k \in Agents |-> NoResult]
    /\ outCh = <<>>
    /\ used = 0
    /\ counted = 0
    /\ evaluated = 0

-----------------------------------------------------------------------------
(* runMultiAgentRound.                                                     *)

SpawnAgents ==
    /\ pc = "round"
    /\ round <= rounds
    /\ ~expired
    /\ used < TokenBudget
    /\ pc' = "await"
    /\ agent' = [k \in Agents |-> "calling"]
    /\ result' = [k \in Agents |-> NoResult]
    /\ outCh' = <<>>
    /\ UNCHANGED <<mode, pruning, expired, pool, found, shortlist, calls, failing,
                   anchored, rounds, round, roles, used, counted, evaluated>>

AgentUnchanged ==
    UNCHANGED <<mode, pruning, expired, pool, found, shortlist,
                anchored, rounds, round, roles, used>>

\* The reply is scored, and memAcc.Add reads the counter.
AgentAnswers(k) ==
    /\ pc = "await"
    /\ agent[k] = "calling"
    /\ CallSucceeds
    /\ agent' = [agent EXCEPT ![k] = "adding"]
    /\ \E s \in Scores, t \in Tokens :
          result' = [result EXCEPT ![k] = [score |-> s, tokens |-> t, read |-> counted]]
    /\ evaluated' = evaluated + 1
    /\ AgentUnchanged
    /\ UNCHANGED <<pc, outCh, counted>>

\* memAcc.Add writes the counter and goes on to the map.
AgentAdds(k) ==
    /\ pc = "await"
    /\ agent[k] = "adding"
    /\ agent' = [agent EXCEPT ![k] = "mapping"]
    /\ counted' = result[k].read + 1
    /\ AgentUnchanged
    /\ UNCHANGED <<pc, calls, failing, result, outCh, evaluated>>

\* memAcc.Add is through with the map; the agent sends its result.
AgentSends(k) ==
    /\ pc = "await"
    /\ agent[k] = "mapping"
    /\ agent' = [agent EXCEPT ![k] = "done"]
    /\ outCh' = Append(outCh, k)
    /\ AgentUnchanged
    /\ UNCHANGED <<pc, calls, failing, result, counted, evaluated>>

\* Mutant: a failed agent counts too.
AgentFailsCounted(k) ==
    /\ pc = "await"
    /\ agent[k] = "calling"
    /\ CallFails
    /\ agent' = [agent EXCEPT ![k] = "failed"]
    /\ outCh' = Append(outCh, k)
    /\ counted' = counted + 1
    /\ AgentUnchanged
    /\ UNCHANGED <<pc, result, evaluated>>

AgentFails(k) ==
    /\ pc = "await"
    /\ agent[k] = "calling"
    /\ CallFails
    /\ agent' = [agent EXCEPT ![k] = "failed"]
    /\ outCh' = Append(outCh, k)
    /\ AgentUnchanged
    /\ UNCHANGED <<pc, result, counted, evaluated>>

\* Two goroutines write memAcc.anchorsUsed at once and the runtime sees it.
ConcurrentMapWrites ==
    /\ pc = "await"
    /\ anchored
    /\ \E k, l \in Agents : k # l /\ agent[k] = "mapping" /\ agent[l] = "mapping"
    /\ pc' = "crashed"
    /\ AgentUnchanged
    /\ UNCHANGED <<calls, failing, agent, result, outCh, counted, evaluated>>

\* Mutant: the budget is looked at before a result and not with it.
AcceptedOver(channel, budget) ==
    LET taken[i \in 0..Len(channel)] ==
          IF i = 0 THEN [tokens |-> 0, who |-> {}]
          ELSE LET before == taken[i - 1]
                   k == channel[i]
               IN  IF agent[k] = "failed" \/ before.tokens >= budget
                   THEN before
                   ELSE [tokens |-> before.tokens + result[k].tokens, who |-> before.who \cup {k}]
    IN  taken[Len(channel)]

\* The results that fit the budget, taken in the order they were sent; one that
\* does not is dropped, and a later, cheaper one may still fit.
Accepted(channel, budget) ==
    LET taken[i \in 0..Len(channel)] ==
          IF i = 0 THEN [tokens |-> 0, who |-> {}]
          ELSE LET before == taken[i - 1]
                   k == channel[i]
               IN  IF agent[k] = "failed" \/ before.tokens + result[k].tokens > budget
                   THEN before
                   ELSE [tokens |-> before.tokens + result[k].tokens, who |-> before.who \cup {k}]
    IN  taken[Len(channel)]

-----------------------------------------------------------------------------
(* The loop over rounds.                                                   *)

LeaveRounds == pc' = IF pool = {} THEN "baseline" ELSE "settle"

\* All rounds run, the deadline passed, or no tokens left.
RoundsDone ==
    /\ pc = "round"
    /\ round > rounds \/ expired \/ used >= TokenBudget
    /\ LeaveRounds
    /\ UNCHANGED <<mode, pruning, expired, pool, found, shortlist, calls, failing, agentVars>>

RoundReturned == pc = "await" /\ \A k \in Agents : agent[k] \in {"failed", "done"}

\* No output, or none that fits.
RoundEmpty ==
    /\ RoundReturned
    /\ Accepted(outCh, TokenBudget - used).who = {}
    /\ LeaveRounds
    /\ UNCHANGED <<mode, pruning, expired, pool, found, shortlist, calls, failing, agentVars>>

\* multiAgentConsensus may be other than "low": the first candidate is well ahead
\* of the second.  It is "low" all the same when their conclusions look
\* contradictory, which depends on their texts.
MayAgree(S) ==
    /\ Cardinality(S) >= 2
    /\ \E a \in S : \A b \in S \ {a} : a.score - b.score >= NearGap

\* refinementRoles: the roles of the first two candidates, the same role
\* perhaps twice.
refinementRoles(S) ==
    IF Cardinality(S) = 1 THEN {<<c.who>> : c \in S}
    ELSE {<<p[1].who, p[2].who>> :
            p \in {q \in S \X S : /\ q[1] # q[2]
                                  /\ \A c \in S \ {q[1]} : Ahead(q[1], c)
                                  /\ \A c \in S \ {q[1], q[2]} : Ahead(q[2], c)}}

\* The accepted outputs, numbered by round and agent (three agents at most), are
\* candidates; pruning, then consensus, decide how it goes on.
RoundScored ==
    LET got == Accepted(outCh, TokenBudget - used)
        new == {[n |-> 3 * (round - 1) + k, who |-> roles[k], score |-> result[k].score] :
                   k \in {a \in Agents : a \in got.who}}
    IN  /\ RoundReturned
        /\ got.who # {}
        /\ used' = used + got.tokens
        /\ found' = found \cup new
        /\ pool' \in Pruned(pool \cup new, PoolTopK)
        /\ \/ /\ pool' = {}
              /\ pc' = "baseline"
              /\ UNCHANGED <<round, roles>>
           \/ /\ MayAgree(pool')
              /\ pc' = "settle"
              /\ UNCHANGED <<round, roles>>
           \/ /\ pool' # {}
              /\ pc' = "round"
              /\ round' = round + 1
              /\ roles' \in refinementRoles(pool')
        /\ agent' = [k \in DOMAIN roles' |-> "idle"]
        /\ result' = [k \in DOMAIN roles' |-> NoResult]
        /\ outCh' = <<>>
        /\ UNCHANGED <<mode, pruning, expired, shortlist, calls, failing,
                       anchored, rounds, counted, evaluated>>

RoundsStep ==
    \/ SpawnAgents
    \/ \E k \in Agents : AgentAnswers(k) \/ AgentAdds(k) \/ AgentSends(k) \/ AgentFails(k)
    \/ ConcurrentMapWrites
    \/ RoundsDone \/ RoundEmpty \/ RoundScored

=============================================================================
