---------------------------- MODULE ChatPipeline ----------------------------
(***************************************************************************)
(* chatCompletions of internal/http/server.go from the gate on reasoning   *)
(* modes to the reply: routing, the reasoning modes with their fail-open   *)
(* chains, the policy's fallback model, adversarial self-play, meta        *)
(* reflection, symbolic supervision, and the audit event.                  *)
(*                                                                         *)
(* A call of the upstream may succeed or fail at any time (a client that   *)
(* leaves, a deadline, the host).  A response is the model that wrote it,  *)
(* the risk the evaluator finds in it (in hundredths) and the number of    *)
(* constraints of the symbolic overlay it violates.                        *)
(***************************************************************************)
EXTENDS Integers, Sequences

CONSTANTS
    Model,          \* upstream models
    NoModel,        \* "no model"
    Routed,         \* the model names that ask for routing
    Allowed,        \* policyRec.AllowedModels
    Primary,        \* policyRec.PrimaryModel
    Fallback,       \* policyRec.FallbackModel, or NoModel
    AutoRoute,      \* OrchestratorEnabled
    Offered,        \* the reasoning modes the server has switched on
    FailOpen,       \* the modes whose fail-open chain is switched on
    MaxPasses,      \* metaReflectionPassesForRequest: 0..4
    Chain,          \* is the evaluator chain switched on?
    Risk,           \* risks a response may have
    Violations,     \* violations a response may have
    WarnThreshold,  \* SupervisionWarnThreshold
    RejectThreshold,\* SupervisionRejectThreshold
    StoreFaults     \* may the store lose an audit event?

ModeNames == {"tot", "mcts", "multi_agent", "decompose"}

ASSUME ModelAssumption ==
    /\ NoModel \notin Model
    /\ Routed \notin Model
    /\ Routed # NoModel
    /\ Allowed \subseteq Model
    /\ Primary \in Model
    /\ Fallback \in Model \cup {NoModel}
ASSUME ConfigAssumption ==
    /\ AutoRoute \in BOOLEAN
    /\ Offered \subseteq ModeNames
    /\ Offered # {} => "tot" \in Offered
    /\ FailOpen \subseteq {"mcts", "multi_agent", "decompose"}
    /\ MaxPasses \in 0..4
    /\ Chain \in BOOLEAN
    /\ StoreFaults \in BOOLEAN
ASSUME QualityAssumption ==
    /\ Risk \subseteq 0..100
    /\ Violations \subseteq Nat
    /\ WarnThreshold \in Nat
    /\ RejectThreshold \in Nat

Response == [by : Model, risk : Risk, violations : Violations]
NoResponse == [by |-> NoModel, risk |-> 0, violations |-> 0]

VARIABLES
    stage,   \* where the handler is
    req,     \* req.Model and req.Reasoning.Mode
    used,    \* usedModel
    resp,    \* resp
    draft,   \* resp when the present revising stage began
    refl,    \* reflectionStatus, reflectionPasses, appliedAny
    tried,   \* the ways of answering that were tried and failed
    asked,   \* the models a completion was asked of
    reply,   \* what the client got
    audit    \* audit events

vars == <<stage, req, used, resp, draft, refl, tried, asked, reply, audit>>

Stages == {"gate", "route", "execute", "mcts", "tot", "direct", "policy", "adversarial",
           "meta", "check", "revise", "finish", "done"}
Ways == ModeNames \cup {"direct", "policy"}
NoReflection == [status |-> "disabled", passes |-> 0, applied |-> FALSE]

TypeOK ==
    /\ stage \in Stages
    /\ req \in [model : Model \cup {Routed}, mode : ModeNames \cup {"none", "auto"}]
    /\ used \in Model \cup {NoModel}
    /\ resp \in Response \cup {NoResponse}
    /\ draft \in Response \cup {NoResponse}
    /\ refl \in [status : {"disabled", "skipped", "applied", "error"},
                 passes : 0..MaxPasses, applied : BOOLEAN]
    /\ tried \subseteq Ways
    /\ asked \subseteq Model
    /\ reply \in {"none", "refused", "error", "ok"}
    /\ audit \in Seq([model : Model \cup {NoModel}, outcome : {"error", "success"}])

Init ==
    /\ stage = "gate"
    /\ req \in [model : Model \cup {Routed}, mode : ModeNames \cup {"none", "auto"}]
    /\ used = NoModel
    /\ resp = NoResponse
    /\ draft = NoResponse
    /\ refl = NoReflection
    /\ tried = {}
    /\ asked = {}
    /\ reply = "none"
    /\ audit = <<>>

-----------------------------------------------------------------------------
(* Ending.                                                                 *)

\* audit.Record: best effort, with the request's context.
Record(m, outcome) ==
    \E kept \in IF StoreFaults THEN BOOLEAN ELSE {TRUE} :
        audit' = IF kept THEN Append(audit, [model |-> m, outcome |-> outcome]) ELSE audit

Reply(status) ==
    /\ reply' = status
    /\ stage' = "done"

\* Refused before any completion, with an event or without.
Refuse(recorded, m) ==
    /\ Reply("refused")
    /\ IF recorded THEN Record(m, "error") ELSE UNCHANGED audit
    /\ UNCHANGED <<req, used, resp, draft, refl, tried, asked>>

-----------------------------------------------------------------------------
(* Before the completion.                                                  *)

\* A reasoning mode the server has switched off is refused.
Gate ==
    /\ stage = "gate"
    /\ IF req.mode \in ModeNames \ Offered
       THEN Refuse(FALSE, NoModel)
       ELSE /\ stage' = "route"
            /\ UNCHANGED <<req, used, resp, draft, refl, tried, asked, reply, audit>>

\* Mutant of Admit: the allow-list is not asked.
AdmitUnchecked(m, documents) ==
    /\ stage' = "execute"
    /\ req' = [req EXCEPT !.model = m]
    /\ used' = m
    /\ asked' = IF documents THEN asked \cup {m} ELSE asked
    /\ UNCHANGED <<resp, draft, refl, tried, reply, audit>>

\* The request goes on to model m; the document stage may ask it first.
Admit(m, documents) ==
    IF m \in Allowed
    THEN /\ stage' = "execute"
         /\ req' = [req EXCEPT !.model = m]
         /\ used' = m
         /\ asked' = IF documents THEN asked \cup {m} ELSE asked
         /\ UNCHANGED <<resp, draft, refl, tried, reply, audit>>
    ELSE Refuse(FALSE, NoModel)

\* The models are listed when the model is to be routed or documents are to be
\* prepared: a failed list, a router with nothing to offer, and a model that is
\* not there end the request.  The router offers only allowed models.
RouteAuto ==
    /\ stage = "route" /\ req.model = Routed /\ AutoRoute
    /\ \/ Refuse(TRUE, NoModel)
       \/ Refuse(FALSE, NoModel)
       \/ \E m \in Allowed, documents \in BOOLEAN : Refuse(TRUE, m) \/ Admit(m, documents)

RouteExplicit ==
    /\ stage = "route" /\ ~(req.model = Routed /\ AutoRoute)
    /\ LET m == IF req.model = Routed THEN Primary ELSE req.model IN
        \/ Admit(m, FALSE)
        \/ Refuse(TRUE, NoModel) \/ Refuse(TRUE, m) \/ Admit(m, TRUE)

-----------------------------------------------------------------------------
(* The completion.                                                         *)

\* An answer of model m: it becomes resp, and m the model used.
Answered(m) ==
    /\ \E r \in Risk, v \in Violations : resp' = [by |-> m, risk |-> r, violations |-> v]
    /\ used' = m
    /\ stage' = "adversarial"
    /\ UNCHANGED <<draft, refl, tried, reply, audit>>

\* The way just tried failed; the next one is to be tried.
FallTo(next, way) ==
    /\ stage' = next
    /\ tried' = tried \cup {way}
    /\ UNCHANGED <<used, resp, draft, refl, reply, audit>>

\* One run of the reasoner in the given mode.  It picks its own model for all
\* its calls; without a list of models it ends before it asks one.
Reason(mode, next) ==
    \/ \E m \in Allowed :
        /\ asked' = asked \cup {m}
        /\ Answered(m) \/ FallTo(next, mode)
    \/ UNCHANGED asked /\ FallTo(next, mode)

\* Mutant of AfterMode: agents that fail leave only the direct call.
AfterModeShort(mode) == IF mode \in FailOpen \ {"multi_agent"} THEN "tot" ELSE "direct"

\* What follows the failure of the mode that was asked for.
AfterMode(mode) ==
    IF mode \notin FailOpen THEN "direct"
    ELSE IF mode = "multi_agent" THEN "mcts" ELSE "tot"

ReasonFirst ==
    /\ stage = "execute"
    /\ req.mode \in ModeNames
    /\ Reason(req.mode, AfterMode(req.mode))
    /\ UNCHANGED req

\* In mode "auto" the session's task decides between a tree of thought and none.
ReasonAuto ==
    /\ stage = "execute"
    /\ req.mode = "auto"
    /\ "tot" \in Offered
    /\ Reason("tot", "direct")
    /\ UNCHANGED req

\* The fail-open runs write their mode into the options req shares with them.
ReasonMCTS ==
    /\ stage = "mcts"
    /\ Reason("mcts", "tot")
    /\ req' = [req EXCEPT !.mode = "mcts"]

\* Mutant of ReasonToT: it falls back to the search it replaces.
ReasonToTAgain ==
    /\ stage = "tot"
    /\ Reason("tot", "mcts")
    /\ req' = [req EXCEPT !.mode = "tot"]

ReasonToT ==
    /\ stage = "tot"
    /\ Reason("tot", "direct")
    /\ req' = [req EXCEPT !.mode = "tot"]

\* Straight to the upstream, after the reasoner or without it.
Direct ==
    /\ \/ stage = "direct"
       \/ stage = "execute" /\ req.mode \in {"none", "auto"}
    /\ \/ asked' = asked \cup {req.model} /\ Answered(req.model)
       \/ asked' \in {asked, asked \cup {req.model}} /\ FallTo("policy", "direct")
    /\ UNCHANGED req

FallbackUsable == Fallback # NoModel /\ Fallback # req.model /\ Fallback \in Allowed

\* The policy's fallback model, once, if there is one; else the request fails.
PolicyFallback ==
    /\ stage = "policy"
    /\ FallbackUsable
    /\ "policy" \notin tried
    /\ asked' = asked \cup {Fallback}
    /\ \/ Answered(Fallback)
       \/ /\ tried' = tried \cup {"policy"}
          /\ used' = Fallback
          /\ UNCHANGED <<stage, resp, draft, refl, reply, audit>>
    /\ UNCHANGED req

Fail ==
    /\ stage = "policy"
    /\ FallbackUsable => "policy" \in tried
    /\ Reply("error")
    /\ Record(used, "error")
    /\ UNCHANGED <<req, used, resp, draft, refl, tried, asked>>

-----------------------------------------------------------------------------
(* After the completion.                                                   *)

\* The rounds of self-play replace the answer unread; a round that fails, or no
\* self-play, leaves it.
Adversarial ==
    /\ stage = "adversarial"
    /\ \/ UNCHANGED <<resp, asked>>
       \/ /\ asked' = asked \cup {used}
          /\ \/ UNCHANGED resp
             \/ \E r \in Risk, v \in Violations :
                    resp' = [by |-> used, risk |-> r, violations |-> v]
    /\ draft' = resp'
    /\ stage' = "meta"
    /\ UNCHANGED <<req, used, refl, tried, reply, audit>>

\* decide, profile "default"; metaDecisionRank.
Rank(risk) == IF risk <= 28 THEN 2 ELSE IF risk < 64 THEN 1 ELSE 0

\* Mutant of ShouldAdoptReflected: the risk counts, the decision does not, and
\* the sign is wrong.
ShouldAdoptReflectedWorse(before, after) == after.risk - before.risk >= 3

ShouldAdoptReflected(before, after) ==
    \/ Rank(after.risk) > Rank(before.risk)
    \/ Rank(after.risk) = Rank(before.risk) /\ before.risk - after.risk >= 3

\* shouldTriggerReflection, trigger decisions caution and reject.
Triggered(r) == Rank(r.risk) < 2

\* The evaluator chain ends the loop on a low risk, or on a policy lens that
\* rejects (if the chain has one and reached it).
ChainStop(r) ==
    IF ~Chain THEN {FALSE}
    ELSE IF r.risk <= 30 THEN {TRUE}
    ELSE IF Rank(r.risk) = 0 THEN BOOLEAN ELSE {FALSE}

\* No reflection: not asked for, the evaluation failed, or nothing triggers it.
MetaSkip ==
    /\ stage = "meta"
    /\ refl = NoReflection
    /\ refl' \in {NoReflection, [NoReflection EXCEPT !.status = "skipped"]}
    /\ refl'.status = "skipped" => ~Triggered(resp) \/ MaxPasses = 0
    /\ stage' = "check"
    /\ UNCHANGED <<req, used, resp, draft, tried, asked, reply, audit>>

EndReflection(status) ==
    /\ refl' = [refl EXCEPT !.status = status, !.passes = @ + 1]
    /\ stage' = "check"
    /\ UNCHANGED resp

\* Mutant of LastPass: one pass more than configured.
LastPassLate == refl.passes >= MaxPasses

LastPass == refl.passes + 1 >= MaxPasses

\* One pass: the model revises its answer, and a better one is adopted.
Reflect ==
    /\ stage = "meta"
    /\ MaxPasses > 0
    /\ Triggered(resp)
    /\ asked' = asked \cup {used}
    /\ \/ EndReflection("error")
       \/ \E r \in Risk, v \in Violations :
            LET revised == [by |-> used, risk |-> r, violations |-> v] IN
            IF ShouldAdoptReflected(resp, revised)
            THEN /\ resp' = revised
                 /\ refl' = [status |-> "applied", passes |-> refl.passes + 1, applied |-> TRUE]
                 /\ \E stop \in ChainStop(revised) :
                        stage' = IF stop \/ ~Triggered(revised) \/ LastPass
                                 THEN "check" ELSE "meta"
            ELSE EndReflection(IF refl.applied THEN "applied" ELSE "skipped")
    /\ UNCHANGED <<req, used, draft, tried, reply, audit>>

\* Strict overlays are checked; Supervise asks for a revision of an answer with
\* violations worth a warning and not a rejection, if it may.
Check ==
    /\ stage = "check"
    /\ draft' = resp
    /\ \/ stage' = "finish"
       \/ /\ WarnThreshold <= resp.violations /\ resp.violations < RejectThreshold
          /\ stage' = "revise"
    /\ UNCHANGED <<req, used, resp, refl, tried, asked, reply, audit>>

\* Supervise, symbolicDecisionRank; checkCompliance's score, in hundredths.
SymbolicRank(v) == IF v >= RejectThreshold THEN 0 ELSE IF v >= WarnThreshold THEN 1 ELSE 2
Score(v) == IF v >= 5 THEN 0 ELSE 100 - 20 * v

\* Mutant of ShouldAdoptSymbolic: any checked revision is taken.
ShouldAdoptSymbolicAny(before, after) == after = after

ShouldAdoptSymbolic(before, after) ==
    \/ SymbolicRank(after) > SymbolicRank(before)
    \/ after < before
    \/ SymbolicRank(after) = SymbolicRank(before) /\ Score(after) - Score(before) >= 5

\* The single revision of the supervision.
Revise ==
    /\ stage = "revise"
    /\ asked' = asked \cup {used}
    /\ \/ UNCHANGED resp
       \/ \E r \in Risk, v \in Violations :
            /\ ShouldAdoptSymbolic(resp.violations, v)
            /\ resp' = [by |-> used, risk |-> r, violations |-> v]
    /\ stage' = "finish"
    /\ UNCHANGED <<req, used, draft, refl, tried, reply, audit>>

\* Mutant of Finish: the event names the model of the request.
FinishAsRequested ==
    /\ stage = "finish"
    /\ Reply("ok")
    /\ Record(req.model, "success")
    /\ UNCHANGED <<req, used, resp, draft, refl, tried, asked>>

Finish ==
    /\ stage = "finish"
    /\ Reply("ok")
    /\ Record(used, "success")
    /\ UNCHANGED <<req, used, resp, draft, refl, tried, asked>>

Step ==
    \/ Gate
    \/ RouteAuto
    \/ RouteExplicit
    \/ ReasonFirst
    \/ ReasonAuto
    \/ ReasonMCTS
    \/ ReasonToT
    \/ Direct
    \/ PolicyFallback
    \/ Fail
    \/ Adversarial
    \/ MetaSkip
    \/ Reflect
    \/ Check
    \/ Revise
    \/ Finish

\* The handler runs until it has replied.
Ended == stage = "done" /\ UNCHANGED vars

Next == Step \/ Ended

Spec == Init /\ [][Next]_vars

\* A handler that has work goes on: its calls return or hit a deadline.
FairSpec == Spec /\ WF_vars(Step)

-----------------------------------------------------------------------------
(* Properties.                                                             *)

\* The promise of module Turn: one reply, one truthful event.
T == INSTANCE Turn WITH answeredBy <- IF reply = "ok" THEN resp.by ELSE NoModel
ImplementsTurn == T!Spec

\* No stage, whatever it falls back to, asks a model outside the allow-list.
AllowedOnly == asked \subseteq Allowed

\* README.md:15 "staged fallbacks": a request that got as far as a completion
\* fails only when every stage behind the first has failed too.
StagedFallback ==
    reply = "error" =>
        /\ "direct" \in tried
        /\ FallbackUsable => "policy" \in tried
        /\ "multi_agent" \in tried \cap FailOpen => {"mcts", "tot"} \subseteq tried
        /\ tried \cap FailOpen # {} => "tot" \in tried

\* A revising stage leaves the answer it was given or a better one: a better
\* decision or a lower risk after reflection, fewer violations after supervision.
RevisionsHelp ==
    /\ stage \in {"meta", "check"} =>
        resp = draft \/ (resp.risk < draft.risk /\ Rank(resp.risk) >= Rank(draft.risk))
    /\ stage = "finish" \/ reply = "ok" =>
        resp = draft \/ resp.violations < draft.violations

\* Every request is answered.
EveryTurnEnds == <>(reply # "none")

=============================================================================
