------------------------- MODULE ChatPipelineProofs -------------------------
(***************************************************************************)
(* The handler of a chat request keeps the promise of module Turn for all  *)
(* sets of models, policies, modes and thresholds.                         *)
(***************************************************************************)
EXTENDS ChatPipeline, TLAPS

\* The stages between the choice of a model and the reply, and those that have
\* an answer.
Running == {"execute", "mcts", "tot", "direct", "policy", "adversarial", "meta", "check",
            "revise", "finish"}
Revising == {"adversarial", "meta", "check", "revise", "finish"}

\* The answer is always the used model's, and the models in play are allowed.
Shape ==
    /\ stage = "done" <=> reply # "none"
    /\ stage # "done" => audit = <<>>
    /\ stage \in Running => req.model \in Allowed /\ used \in Allowed
    /\ stage \in Revising => resp \in Response /\ resp.by = used

\* What has failed by the time the direct call is made.
Chained ==
    /\ "multi_agent" \in tried \cap FailOpen => {"mcts", "tot"} \subseteq tried
    /\ tried \cap FailOpen # {} => "tot" \in tried

Fallen ==
    /\ stage \in {"gate", "route", "execute"} => tried = {}
    /\ stage = "tot" /\ "multi_agent" \in tried => "mcts" \in tried
    /\ stage \in {"direct", "policy"} => Chained
    /\ stage = "policy" => "direct" \in tried

\* There is a pass left whenever the reflection goes on.
Budget ==
    /\ stage \in {"gate", "route", "execute", "mcts", "tot", "direct", "policy", "adversarial"}
          => refl = NoReflection
    /\ stage = "meta" => refl.passes < MaxPasses \/ refl = NoReflection

IInv == TypeOK /\ Shape /\ Fallen /\ Budget /\ AllowedOnly /\ StagedFallback

-----------------------------------------------------------------------------
LEMMA ResponseType ==
    ASSUME NEW m \in Model, NEW r \in Risk, NEW v \in Violations
    PROVE  /\ [by |-> m, risk |-> r, violations |-> v] \in Response
           /\ [by |-> m, risk |-> r, violations |-> v].by = m
  BY DEF Response

LEMMA RecordType ==
    ASSUME audit = <<>>, NEW m \in Model \cup {NoModel}, NEW o \in {"error", "success"},
           Record(m, o)
    PROVE  audit' \in {<<>>, <<[model |-> m, outcome |-> o]>>}
  BY DEF Record

LEMMA EventType ==
    ASSUME NEW m \in Model \cup {NoModel}, NEW o \in {"error", "success"},
           NEW a \in {<<>>, <<[model |-> m, outcome |-> o]>>}
    PROVE  a \in Seq([model : Model \cup {NoModel}, outcome : {"error", "success"}])
<1> DEFINE Events == [model : Model \cup {NoModel}, outcome : {"error", "success"}]
            e == [model |-> m, outcome |-> o]
<1>1. e \in Events
  OBVIOUS
<1> HIDE DEF Events, e
<1>2. <<>> \in Seq(Events) /\ <<e>> \in Seq(Events)
  BY <1>1
<1>3. a = <<>> \/ a = <<e>>
  BY DEF e
<1> QED
  BY <1>2, <1>3 DEF Events

LEMMA InitIInv == Init => IInv
<1> SUFFICES ASSUME Init PROVE IInv
  OBVIOUS
<1>1. TypeOK
  <2>1. refl \in [status : {"disabled", "skipped", "applied", "error"},
                  passes : 0..MaxPasses, applied : BOOLEAN]
    BY ConfigAssumption DEF Init, NoReflection
  <2>2. audit \in Seq([model : Model \cup {NoModel}, outcome : {"error", "success"}])
    BY DEF Init
  <2> QED
    BY <2>1, <2>2 DEF Init, TypeOK, Stages
<1>2. Shape
  BY DEF Init, Shape, Running, Revising
<1> QED
  BY <1>1, <1>2 DEF Init, IInv, Fallen, Budget, AllowedOnly, StagedFallback

-----------------------------------------------------------------------------
(* The steps, grouped by what they do.                                     *)

LEMMA RefuseStep ==
    ASSUME IInv, NEW recorded \in BOOLEAN, NEW m \in Model \cup {NoModel},
           stage \in {"gate", "route"}, Refuse(recorded, m)
    PROVE  IInv'
<1>1. audit' \in {<<>>, <<[model |-> m, outcome |-> "error"]>>}
  BY RecordType DEF IInv, Shape, Refuse
<1>2. audit' \in Seq([model : Model \cup {NoModel}, outcome : {"error", "success"}])
  BY <1>1, EventType
<1>3. TypeOK'
  BY <1>2 DEF IInv, TypeOK, Refuse, Reply, Stages
<1>4. Shape' /\ Fallen'
  BY DEF IInv, Shape, Fallen, Running, Revising, Refuse, Reply
<1>5. Budget'
  BY DEF Budget, Refuse, Reply
<1> QED
  BY <1>3, <1>4, <1>5 DEF IInv, AllowedOnly, StagedFallback, Refuse, Reply

LEMMA AdmitStep ==
    ASSUME IInv, NEW m \in Model, NEW documents \in BOOLEAN, stage = "route",
           Admit(m, documents)
    PROVE  IInv'
<1>1. CASE m \in Allowed
  <2>1. /\ stage' = "execute" /\ used' = m /\ req' = [req EXCEPT !.model = m]
        /\ asked' \subseteq asked \cup {m}
        /\ UNCHANGED <<resp, draft, refl, tried, reply, audit>>
    BY <1>1 DEF Admit
  <2>2. req'.model = m /\ TypeOK'
    BY <2>1 DEF IInv, TypeOK, Stages
  <2>3. Shape' /\ Fallen'
    BY <1>1, <2>1, <2>2 DEF IInv, Shape, Fallen, Running, Revising
  <2>4. AllowedOnly'
    BY <1>1, <2>1 DEF IInv, AllowedOnly
  <2>5. StagedFallback'
    BY <2>1 DEF IInv, Shape, StagedFallback
  <2>6. Budget'
    BY <2>1 DEF IInv, Budget, NoReflection
  <2> QED
    BY <2>2, <2>3, <2>4, <2>5, <2>6 DEF IInv
<1>2. CASE m \notin Allowed
  BY <1>2, RefuseStep DEF Admit
<1> QED
  BY <1>1, <1>2

\* An answer from any stage that may have one.
LEMMA AnsweredStep ==
    ASSUME IInv, NEW m \in Allowed, stage \in Running \ {"meta", "check", "revise", "finish"},
           asked' \subseteq asked \cup {m}, Answered(m),
           req' \in [model : Model \cup {Routed}, mode : ModeNames \cup {"none", "auto"}],
           req'.model = req.model
    PROVE  IInv'
<1>0. m \in Model
  BY ModelAssumption
<1>1. /\ stage' = "adversarial" /\ used' = m /\ resp' \in Response /\ resp'.by = m
      /\ UNCHANGED <<draft, refl, tried, reply, audit>>
  BY <1>0, ResponseType DEF Answered
<1>2. TypeOK'
  BY <1>0, <1>1, ModelAssumption DEF IInv, TypeOK, Stages, AllowedOnly
<1>3. Shape' /\ Fallen'
  BY <1>1 DEF IInv, Shape, Fallen, Running, Revising
<1>4. AllowedOnly'
  BY DEF IInv, AllowedOnly
<1>5. StagedFallback'
  BY <1>1 DEF IInv, Shape, StagedFallback, Running
<1>6. Budget'
  BY <1>1 DEF IInv, Budget, NoReflection, Running
<1> QED
  BY <1>2, <1>3, <1>4, <1>5, <1>6 DEF IInv

\* The failure of a way that leads to another stage.
LEMMA FallStep ==
    ASSUME IInv, stage \in Running \ Revising, NEW way \in Ways,
           NEW next \in {"mcts", "tot", "direct", "policy"}, FallTo(next, way),
           asked' \subseteq Allowed,
           req' \in [model : Model \cup {Routed}, mode : ModeNames \cup {"none", "auto"}],
           req'.model = req.model, Fallen'
    PROVE  IInv'
<1>1. /\ stage' = next /\ tried' = tried \cup {way}
      /\ UNCHANGED <<used, resp, draft, refl, reply, audit>>
  BY DEF FallTo
<1>2. TypeOK'
  BY <1>1, ModelAssumption DEF IInv, TypeOK, Stages
<1>3. Shape'
  BY <1>1 DEF IInv, Shape, Running, Revising
<1>4. StagedFallback'
  BY <1>1 DEF IInv, Shape, StagedFallback, Running
<1>5. Budget'
  BY <1>1 DEF IInv, Budget, NoReflection, Running, Revising
<1> QED
  BY <1>2, <1>3, <1>4, <1>5 DEF IInv, AllowedOnly

LEMMA ReasonStep ==
    ASSUME IInv, stage \in Running \ Revising, NEW mode \in ModeNames,
           NEW next \in {"mcts", "tot", "direct"}, Reason(mode, next),
           req' \in [model : Model \cup {Routed}, mode : ModeNames \cup {"none", "auto"}],
           req'.model = req.model, FallTo(next, mode) => Fallen'
    PROVE  IInv'
<1>1. CASE FallTo(next, mode)
  <2>1. asked' \subseteq Allowed
    BY <1>1 DEF Reason, IInv, AllowedOnly, Answered, FallTo
  <2>2. mode \in Ways
    BY DEF Ways
  <2> QED
    BY <1>1, <2>1, <2>2, FallStep
<1>2. CASE \E m \in Allowed : asked' = asked \cup {m} /\ Answered(m)
  BY <1>2, AnsweredStep DEF Revising
<1> QED
  BY <1>1, <1>2 DEF Reason

-----------------------------------------------------------------------------
LEMMA NextStep == IInv /\ [Next]_vars => IInv'
<1> SUFFICES ASSUME IInv, [Next]_vars PROVE IInv'
  OBVIOUS
<1>a. Allowed \subseteq Model /\ NoModel \notin Model
  BY ModelAssumption
<1>t. TypeOK
  BY DEF IInv
<1>c. req \in [model : Model \cup {Routed}, mode : ModeNames \cup {"none", "auto"}]
  BY <1>t DEF TypeOK
<1>b. req.model \in Model \cup {Routed} /\ req.mode \in ModeNames \cup {"none", "auto"}
  BY <1>c
<1>1. CASE UNCHANGED vars
  BY <1>1 DEF vars, IInv, TypeOK, Shape, Fallen, Chained, AllowedOnly, StagedFallback,
              FallbackUsable, Budget, NoReflection
<1>2. CASE Gate
  <2>1. CASE Refuse(FALSE, NoModel)
    BY <1>2, <2>1, RefuseStep DEF Gate
  <2>2. CASE /\ stage' = "route"
             /\ UNCHANGED <<req, used, resp, draft, refl, tried, asked, reply, audit>>
    <3>1. TypeOK'
      BY <2>2 DEF IInv, TypeOK, Stages
    <3> QED
      BY <1>2, <2>2, <3>1 DEF Gate, IInv, Shape, Fallen, Budget, NoReflection,
                              AllowedOnly, StagedFallback, Running, Revising
  <2> QED
    BY <1>2, <2>1, <2>2 DEF Gate
<1>3. CASE RouteAuto
  <2>1. CASE \E m \in Allowed, documents \in BOOLEAN : Admit(m, documents)
    BY <1>3, <1>a, <2>1, AdmitStep DEF RouteAuto
  <2>2. CASE \/ Refuse(TRUE, NoModel) \/ Refuse(FALSE, NoModel)
             \/ \E m \in Allowed : Refuse(TRUE, m)
    BY <1>3, <1>a, <2>2, RefuseStep DEF RouteAuto
  <2> QED
    BY <1>3, <2>1, <2>2 DEF RouteAuto
<1>4. CASE RouteExplicit
  <2> DEFINE m == IF req.model = Routed THEN Primary ELSE req.model
  <2>1. m \in Model
    BY <1>b, ModelAssumption
  <2>2. \/ Admit(m, FALSE) \/ Admit(m, TRUE)
        \/ Refuse(TRUE, NoModel) \/ Refuse(TRUE, m)
    BY <1>4 DEF RouteExplicit
  <2>3. stage = "route"
    BY <1>4 DEF RouteExplicit
  <2> HIDE DEF m
  <2> QED
    BY <2>1, <2>2, <2>3, AdmitStep, RefuseStep
<1>5. CASE ReasonFirst
  <2>1. /\ stage = "execute" /\ req.mode \in ModeNames /\ UNCHANGED req
        /\ Reason(req.mode, AfterMode(req.mode))
    BY <1>5 DEF ReasonFirst
  <2>2. AfterMode(req.mode) \in {"mcts", "tot", "direct"}
    BY DEF AfterMode
  <2>3. FallTo(AfterMode(req.mode), req.mode) => Fallen'
    BY <2>1, ConfigAssumption DEF FallTo, AfterMode, IInv, Fallen, Chained, ModeNames
  <2> QED
    BY <1>c, <2>1, <2>2, <2>3, ReasonStep DEF Running, Revising
<1>6. CASE ReasonAuto
  <2>1. stage = "execute" /\ UNCHANGED req /\ Reason("tot", "direct")
    BY <1>6 DEF ReasonAuto
  <2>2. FallTo("direct", "tot") => Fallen'
    BY <2>1 DEF FallTo, IInv, Fallen, Chained
  <2> QED
    BY <1>c, <2>1, <2>2, ReasonStep DEF Running, Revising, ModeNames
<1>7. CASE ReasonMCTS
  <2>1. /\ stage = "mcts" /\ Reason("mcts", "tot") /\ req' = [req EXCEPT !.mode = "mcts"]
    BY <1>7 DEF ReasonMCTS
  <2>2. FallTo("tot", "mcts") => Fallen'
    BY <2>1 DEF FallTo, IInv, Fallen, Chained
  <2>3. req' \in [model : Model \cup {Routed}, mode : ModeNames \cup {"none", "auto"}]
        /\ req'.model = req.model
    BY <1>c, <2>1 DEF ModeNames
  <2> QED
    BY <2>1, <2>2, <2>3, ReasonStep DEF Running, Revising, ModeNames
<1>8. CASE ReasonToT
  <2>1. /\ stage = "tot" /\ Reason("tot", "direct") /\ req' = [req EXCEPT !.mode = "tot"]
    BY <1>8 DEF ReasonToT
  <2>2. FallTo("direct", "tot") => Fallen'
    BY <2>1 DEF FallTo, IInv, Fallen, Chained
  <2>3. req' \in [model : Model \cup {Routed}, mode : ModeNames \cup {"none", "auto"}]
        /\ req'.model = req.model
    BY <1>c, <2>1 DEF ModeNames
  <2> QED
    BY <2>1, <2>2, <2>3, ReasonStep DEF Running, Revising, ModeNames
<1>9. CASE Direct
  <2>1. /\ stage \in {"direct", "execute"} /\ UNCHANGED req
        /\ \/ asked' = asked \cup {req.model} /\ Answered(req.model)
           \/ asked' \in {asked, asked \cup {req.model}} /\ FallTo("policy", "direct")
    BY <1>9 DEF Direct
  <2>2. req.model \in Allowed /\ asked \subseteq Allowed /\ stage \in Running \ Revising
    BY <2>1 DEF IInv, Shape, Running, Revising, AllowedOnly
  <2>3. CASE asked' = asked \cup {req.model} /\ Answered(req.model)
    BY <1>c, <2>1, <2>2, <2>3, AnsweredStep DEF Revising
  <2>4. CASE asked' \in {asked, asked \cup {req.model}} /\ FallTo("policy", "direct")
    <3>1. Fallen'
      BY <2>1, <2>4, ConfigAssumption DEF FallTo, IInv, Fallen, Chained
    <3>2. asked' \subseteq Allowed /\ "direct" \in Ways
      BY <2>2, <2>4 DEF Ways
    <3> QED
      BY <1>c, <2>1, <2>2, <2>4, <3>1, <3>2, FallStep
  <2> QED
    BY <2>1, <2>3, <2>4
<1>10. CASE PolicyFallback
  <2>1. /\ stage = "policy" /\ Fallback \in Allowed /\ UNCHANGED req
        /\ asked' = asked \cup {Fallback}
    BY <1>10 DEF PolicyFallback, FallbackUsable
  <2>2. CASE Answered(Fallback)
    BY <1>c, <2>1, <2>2, AnsweredStep DEF Running
  <2>3. CASE /\ tried' = tried \cup {"policy"} /\ used' = Fallback
             /\ UNCHANGED <<stage, resp, draft, refl, reply, audit>>
    <3>1. TypeOK'
      BY <1>a, <2>1, <2>3 DEF IInv, TypeOK, AllowedOnly, Ways
    <3>2. Shape' /\ AllowedOnly'
      BY <2>1, <2>3 DEF IInv, Shape, AllowedOnly, Running, Revising
    <3>3. Fallen'
      BY <2>1, <2>3, ConfigAssumption DEF IInv, Fallen, Chained
    <3>4. StagedFallback'
      BY <2>1, <2>3 DEF IInv, Shape, StagedFallback
    <3>5. Budget'
      BY <2>1, <2>3 DEF IInv, Budget, NoReflection
    <3> QED
      BY <3>1, <3>2, <3>3, <3>4, <3>5 DEF IInv
  <2> QED
    BY <1>10, <2>2, <2>3 DEF PolicyFallback
<1>11. CASE Fail
  <2>1. /\ stage = "policy" /\ Reply("error") /\ Record(used, "error")
        /\ FallbackUsable => "policy" \in tried
        /\ UNCHANGED <<req, used, resp, draft, refl, tried, asked>>
    BY <1>11 DEF Fail
  <2>2. audit' \in Seq([model : Model \cup {NoModel}, outcome : {"error", "success"}])
    BY <2>1, RecordType, EventType DEF IInv, TypeOK, Shape
  <2>3. TypeOK'
    BY <2>1, <2>2 DEF IInv, TypeOK, Reply, Stages
  <2>4. Shape' /\ Fallen' /\ AllowedOnly'
    BY <2>1 DEF IInv, Shape, Fallen, AllowedOnly, Reply, Running, Revising
  <2>5. StagedFallback'
    BY <2>1 DEF IInv, Fallen, Chained, StagedFallback, FallbackUsable
  <2>6. Budget'
    BY <2>1 DEF Budget, Reply
  <2> QED
    BY <2>3, <2>4, <2>5, <2>6 DEF IInv
<1>12. ASSUME stage \in Revising, stage' \in Revising,
              resp' = resp \/ (resp' \in Response /\ resp'.by = used),
              draft' \in {draft, resp, resp'},
              asked' \subseteq asked \cup {used},
              refl' \in [status : {"disabled", "skipped", "applied", "error"},
                          passes : 0..MaxPasses, applied : BOOLEAN],
              Budget',
              UNCHANGED <<req, used, tried, reply, audit>>
       PROVE  IInv'
  <2>1. used \in Allowed /\ resp' \in Response /\ resp'.by = used
    BY <1>12 DEF IInv, Shape, Running, Revising
  <2>2. AllowedOnly'
    BY <1>12, <2>1 DEF IInv, AllowedOnly
  <2>3. TypeOK'
    BY <1>12, <1>a, <2>1, <2>2 DEF IInv, TypeOK, Stages, Revising, AllowedOnly
  <2>4. Shape'
    BY <1>12, <2>1 DEF IInv, Shape, Running, Revising
  <2>5. Fallen' /\ StagedFallback'
    BY <1>12 DEF IInv, Shape, Fallen, StagedFallback, Revising
  <2> QED
    BY <1>12, <2>2, <2>3, <2>4, <2>5 DEF IInv
<1>d. \A r \in Risk, v \in Violations :
        stage \in Revising => /\ [by |-> used, risk |-> r, violations |-> v] \in Response
                              /\ [by |-> used, risk |-> r, violations |-> v].by = used
  BY <1>a, ResponseType DEF IInv, Shape, Running, Revising
<1>13. CASE Adversarial
  <2>1. Budget'
    BY <1>13 DEF Adversarial, IInv, Budget, NoReflection
  <2>2. /\ stage \in Revising /\ stage' \in Revising
        /\ resp' = resp \/ (resp' \in Response /\ resp'.by = used)
        /\ draft' = resp' /\ asked' \subseteq asked \cup {used} /\ refl' = refl
        /\ UNCHANGED <<req, used, tried, reply, audit>>
    BY <1>13, <1>d DEF Adversarial, Revising
  <2>3. refl' \in [status : {"disabled", "skipped", "applied", "error"},
                   passes : 0..MaxPasses, applied : BOOLEAN]
    BY <1>t, <2>2 DEF TypeOK
  <2> QED
    BY <1>12, <2>1, <2>2, <2>3
<1>14. CASE MetaSkip
  <2>1. refl' \in [status : {"disabled", "skipped", "applied", "error"},
                   passes : 0..MaxPasses, applied : BOOLEAN]
    <3>1. 0 \in 0..MaxPasses
      BY ConfigAssumption
    <3>2. \/ refl' = [status |-> "disabled", passes |-> 0, applied |-> FALSE]
          \/ refl' = [status |-> "skipped", passes |-> 0, applied |-> FALSE]
      BY <1>14 DEF MetaSkip, NoReflection
    <3>3. \A status \in {"disabled", "skipped"} :
            [status |-> status, passes |-> 0, applied |-> FALSE]
              \in [status : {"disabled", "skipped", "applied", "error"},
                   passes : 0..MaxPasses, applied : BOOLEAN]
      BY <3>1
    <3> QED
      BY <3>2, <3>3, Zenon
  <2>2. Budget'
    BY <1>14 DEF MetaSkip, Budget
  <2> QED
    BY <1>14, <1>12, <2>1, <2>2 DEF MetaSkip, Revising
<1>15. CASE Reflect
  <2>1. /\ stage = "meta" /\ MaxPasses > 0 /\ asked' = asked \cup {used}
        /\ UNCHANGED <<req, used, draft, tried, reply, audit>>
    BY <1>15 DEF Reflect
  <2>2. refl.passes + 1 \in 0..MaxPasses /\ refl.applied \in BOOLEAN /\ refl.passes \in Nat
    BY <1>t, <2>1, ConfigAssumption DEF TypeOK, IInv, Budget, NoReflection
  <2>3. ASSUME NEW status \in {"disabled", "skipped", "applied", "error"},
               EndReflection(status)
        PROVE  IInv'
    <3>1. /\ refl' = [refl EXCEPT !.status = status, !.passes = refl.passes + 1]
          /\ stage' = "check" /\ resp' = resp
      BY <2>3 DEF EndReflection
    <3>2. refl' \in [status : {"disabled", "skipped", "applied", "error"},
                     passes : 0..MaxPasses, applied : BOOLEAN]
      BY <1>t, <2>2, <3>1 DEF TypeOK
    <3>3. Budget'
      BY <3>1 DEF Budget
    <3> QED
      BY <1>12, <2>1, <3>1, <3>2, <3>3 DEF Revising
  <2>4. ASSUME NEW r \in Risk, NEW v \in Violations,
               resp' = [by |-> used, risk |-> r, violations |-> v],
               refl' = [status |-> "applied", passes |-> refl.passes + 1, applied |-> TRUE],
               stage' \in {"check", "meta"}, LastPass => stage' = "check"
        PROVE  IInv'
    <3>1. refl' \in [status : {"disabled", "skipped", "applied", "error"},
                     passes : 0..MaxPasses, applied : BOOLEAN]
      BY <2>2, <2>4
    <3>2. Budget'
      <4>1. stage' = "meta" => refl.passes + 1 < MaxPasses
        BY <2>2, <2>4, ConfigAssumption DEF LastPass
      <4> QED
        BY <2>4, <4>1 DEF Budget
    <3>3. resp' \in Response /\ resp'.by = used
      BY <1>d, <2>1, <2>4 DEF Revising
    <3> QED
      BY <1>12, <2>1, <2>4, <3>1, <3>2, <3>3 DEF Revising
  <2>5. \/ \E status \in {"disabled", "skipped", "applied", "error"} : EndReflection(status)
        \/ \E r \in Risk, v \in Violations :
              /\ resp' = [by |-> used, risk |-> r, violations |-> v]
              /\ refl' = [status |-> "applied", passes |-> refl.passes + 1, applied |-> TRUE]
              /\ stage' \in {"check", "meta"} /\ (LastPass => stage' = "check")
    BY <1>15 DEF Reflect
  <2> QED
    BY <2>3, <2>4, <2>5
<1>16. CASE Check
  <2>1. Budget'
    BY <1>16 DEF Check, Budget
  <2> QED
    BY <1>16, <1>t, <1>12, <2>1 DEF Check, Revising, TypeOK
<1>17. CASE Revise
  <2>1. Budget'
    BY <1>17 DEF Revise, Budget
  <2>2. resp' = resp \/ (resp' \in Response /\ resp'.by = used)
    BY <1>17, <1>d DEF Revise, Revising
  <2> QED
    BY <1>17, <1>t, <1>12, <2>1, <2>2 DEF Revise, Revising, TypeOK
<1>18. CASE Finish
  <2>1. /\ stage = "finish" /\ Reply("ok") /\ Record(used, "success")
        /\ UNCHANGED <<req, used, resp, draft, refl, tried, asked>>
    BY <1>18 DEF Finish
  <2>2. audit' \in Seq([model : Model \cup {NoModel}, outcome : {"error", "success"}])
    BY <2>1, RecordType, EventType DEF IInv, TypeOK, Shape
  <2>3. TypeOK'
    BY <2>1, <2>2 DEF IInv, TypeOK, Reply, Stages
  <2> QED
    BY <2>1, <2>3 DEF IInv, Shape, Fallen, Budget, AllowedOnly, StagedFallback, Reply,
                       Running, Revising
<1>19. CASE Ended
  BY <1>1, <1>19 DEF Ended
<1> QED
  BY <1>1, <1>2, <1>3, <1>4, <1>5, <1>6, <1>7, <1>8, <1>9, <1>10, <1>11, <1>13, <1>14, <1>15,
     <1>16, <1>17, <1>18, <1>19 DEF Next, Step

-----------------------------------------------------------------------------
(* The revising stages.                                                    *)

QInv == RevisionsHelp /\ (stage = "revise" => resp = draft)

\* What ShouldAdoptReflected and ShouldAdoptSymbolic let through.
LEMMA RiskOf == \A x \in Response : x.risk \in Int
<1>1. \A x \in Response : x.risk \in Risk
  BY DEF Response
<1>2. \A r \in Risk : r \in Int
  BY QualityAssumption
<1> QED
  BY <1>1, <1>2

LEMMA AdoptedReflection ==
    ASSUME NEW a \in Response, NEW b \in Response, ShouldAdoptReflected(a, b)
    PROVE  b.risk < a.risk /\ Rank(b.risk) >= Rank(a.risk)
<1>1. a.risk \in Int /\ b.risk \in Int
  BY RiskOf
<1> QED
  BY <1>1 DEF ShouldAdoptReflected, Rank

LEMMA AdoptedRevision ==
    ASSUME NEW v \in Violations, NEW w \in Violations, ShouldAdoptSymbolic(v, w)
    PROVE  w < v
<1>1. v \in Int /\ w \in Int /\ v >= 0 /\ w >= 0
  BY QualityAssumption
<1>2. CASE SymbolicRank(w) > SymbolicRank(v)
  BY <1>1, <1>2, QualityAssumption DEF SymbolicRank
<1>3. CASE Score(w) - Score(v) >= 5
  BY <1>1, <1>3 DEF Score
<1> QED
  BY <1>2, <1>3 DEF ShouldAdoptSymbolic

LEMMA QualityStep == IInv /\ QInv /\ [Next]_vars => QInv'
<1> SUFFICES ASSUME IInv, QInv, [Next]_vars PROVE QInv'
  OBVIOUS
<1>a. stage \in Revising => resp \in Response /\ resp.by = used
  BY DEF IInv, Shape
<1>b. draft.risk \in Int
  <2>1. draft \in Response \/ draft = NoResponse
    BY DEF IInv, TypeOK
  <2>2. NoResponse.risk \in Int
    BY DEF NoResponse
  <2> QED
    BY <2>1, <2>2, RiskOf
<1>c. stage = "done" <=> reply # "none"
  BY DEF IInv, Shape
<1>d. used \in Model \/ stage \notin Revising
  BY ModelAssumption DEF IInv, Shape, Running, Revising
<1>1. CASE UNCHANGED vars
  BY <1>1 DEF vars, QInv, RevisionsHelp
<1>2. ASSUME stage' \in {"route", "execute", "mcts", "tot", "direct", "policy", "adversarial"},
             reply' = reply, stage # "done"
      PROVE  QInv'
  BY <1>2, <1>c DEF QInv, RevisionsHelp
<1>3. ASSUME reply' \in {"refused", "error"}, stage' = "done"
      PROVE  QInv'
  BY <1>3 DEF QInv, RevisionsHelp
<1>4. CASE Gate \/ RouteAuto \/ RouteExplicit
  BY <1>2, <1>3, <1>4 DEF Gate, RouteAuto, RouteExplicit, Refuse, Reply, Admit
<1>5. CASE ReasonFirst \/ ReasonAuto \/ ReasonMCTS \/ ReasonToT
  <2>1. stage' \in {"mcts", "tot", "direct", "adversarial"} /\ reply' = reply /\ stage # "done"
    BY <1>5 DEF ReasonFirst, ReasonAuto, ReasonMCTS, ReasonToT, Reason, Answered, FallTo, AfterMode
  <2> QED
    BY <1>2, <2>1
<1>6. CASE Direct \/ PolicyFallback \/ Fail
  BY <1>2, <1>3, <1>6 DEF Direct, PolicyFallback, Fail, Answered, FallTo, Reply
<1>7. CASE Adversarial
  BY <1>7, <1>c DEF Adversarial, QInv, RevisionsHelp
<1>8. CASE MetaSkip
  BY <1>8, <1>c DEF MetaSkip, QInv, RevisionsHelp
<1>9. CASE Reflect
  <2>1. /\ stage = "meta" /\ draft' = draft /\ reply' = reply /\ stage' \in {"meta", "check"}
        /\ \/ resp' = resp
           \/ resp' \in Response /\ ShouldAdoptReflected(resp, resp')
    <3>1. \A r \in Risk, v \in Violations :
            stage = "meta" => [by |-> used, risk |-> r, violations |-> v] \in Response
      BY <1>d, ResponseType DEF Revising
    <3> QED
      BY <1>9, <3>1 DEF Reflect, EndReflection
  <2>2. CASE resp' = resp
    BY <2>1, <2>2, <1>c DEF QInv, RevisionsHelp
  <2>3. CASE resp' \in Response /\ ShouldAdoptReflected(resp, resp')
    <3>1. resp'.risk < resp.risk /\ Rank(resp'.risk) >= Rank(resp.risk)
      BY <1>a, <2>1, <2>3, AdoptedReflection DEF Revising
    <3>2. resp = draft \/ (resp.risk < draft.risk /\ Rank(resp.risk) >= Rank(draft.risk))
      BY <2>1 DEF QInv, RevisionsHelp
    <3>3. resp.risk \in Int /\ resp'.risk \in Int
      BY <1>a, <2>1, <2>3, RiskOf DEF Revising
    <3>4. resp'.risk < draft.risk /\ Rank(resp'.risk) >= Rank(draft.risk)
      BY <1>b, <3>1, <3>2, <3>3 DEF Rank
    <3> QED
      BY <1>c, <2>1, <3>4 DEF QInv, RevisionsHelp
  <2> QED
    BY <2>1, <2>2, <2>3
<1>10. CASE Check
  BY <1>10, <1>c DEF Check, QInv, RevisionsHelp
<1>11. CASE Revise
  <2>1. /\ stage = "revise" /\ stage' = "finish" /\ draft' = draft /\ resp = draft
        /\ \/ resp' = resp
           \/ \E r \in Risk, v \in Violations :
                /\ ShouldAdoptSymbolic(resp.violations, v)
                /\ resp' = [by |-> used, risk |-> r, violations |-> v]
    BY <1>11 DEF Revise, QInv
  <2>2. resp.violations \in Violations
    BY <1>a, <2>1 DEF Revising, Response
  <2>3. resp' = draft \/ resp'.violations < draft.violations
    BY <2>1, <2>2, AdoptedRevision
  <2> QED
    BY <2>1, <2>3 DEF QInv, RevisionsHelp
<1>12. CASE Finish
  BY <1>12 DEF Finish, Reply, QInv, RevisionsHelp
<1>13. CASE Ended
  BY <1>1, <1>13 DEF Ended
<1> QED
  BY <1>1, <1>4, <1>5, <1>6, <1>7, <1>8, <1>9, <1>10, <1>11, <1>12, <1>13 DEF Next, Step

-----------------------------------------------------------------------------
(* The theorems.                                                           *)

THEOREM Inductive == Spec => []IInv
<1> QED
  BY InitIInv, NextStep, PTL DEF Spec

\* Every variable keeps its type.
THEOREM TypeCorrect == Spec => []TypeOK
<1>1. IInv => TypeOK
  BY DEF IInv
<1> QED
  BY <1>1, Inductive, PTL

\* No completion, of whatever stage, is asked of a model outside the allow-list.
THEOREM OnlyAllowed == Spec => []AllowedOnly
<1>1. IInv => AllowedOnly
  BY DEF IInv
<1> QED
  BY <1>1, Inductive, PTL

\* A request fails only when every way behind the one it asked for has failed.
THEOREM FallsThroughAll == Spec => []StagedFallback
<1>1. IInv => StagedFallback
  BY DEF IInv
<1> QED
  BY <1>1, Inductive, PTL

\* Reflection and supervision never make the answer worse.
THEOREM NeverWorse == Spec => []RevisionsHelp
<1>1. Init => QInv
  BY DEF Init, QInv, RevisionsHelp
<1>2. QInv => RevisionsHelp
  BY DEF QInv
<1> QED
  BY <1>1, <1>2, Inductive, QualityStep, PTL DEF Spec

\* The handler implements module Turn.
THEOREM Implements == Spec => ImplementsTurn
<1>1. Init => T!Init
  BY DEF Init, T!Init
<1>2. IInv /\ [Next]_vars => [T!Next]_T!vars
  <2> SUFFICES ASSUME IInv, [Next]_vars PROVE [T!Next]_T!vars
    OBVIOUS
  <2>a. /\ stage = "done" <=> reply # "none"
        /\ stage # "done" => audit = <<>>
    BY DEF IInv, Shape
  <2>1. ASSUME reply' = reply, audit' = audit, reply = "none" PROVE [T!Next]_T!vars
    BY <2>1 DEF T!vars
  <2>2. ASSUME NEW m \in Model \cup {NoModel}, NEW recorded \in BOOLEAN,
               stage \in {"gate", "route"}, Refuse(recorded, m)
        PROVE  T!Next
    <3>1. audit' \in {<<>>, <<[model |-> m, outcome |-> "error"]>>}
      BY <2>2, <2>a, RecordType DEF Refuse
    <3> QED
      BY <2>2, <2>a, <3>1 DEF Refuse, Reply, T!Next, T!Refuse, T!Event
  <2>3. CASE UNCHANGED vars
    BY <2>3 DEF vars, T!vars
  <2>4. CASE Gate
    BY <2>1, <2>2, <2>4, <2>a DEF Gate
  <2>5. CASE RouteAuto \/ RouteExplicit
    <3>1. stage = "route"
      BY <2>5 DEF RouteAuto, RouteExplicit
    <3>2. \/ \E m \in Model \cup {NoModel}, recorded \in BOOLEAN : Refuse(recorded, m)
          \/ \E m \in Model, documents \in BOOLEAN : Admit(m, documents)
      <4>1. req.model \in Model \cup {Routed}
        BY DEF IInv, TypeOK
      <4> QED
        BY <2>5, <4>1, ModelAssumption DEF RouteAuto, RouteExplicit
    <3> QED
      BY <2>1, <2>2, <2>a, <3>1, <3>2 DEF Admit
  <2>6. CASE ReasonFirst \/ ReasonAuto \/ ReasonMCTS \/ ReasonToT \/ Direct \/ PolicyFallback
    <3>1. stage # "done" /\ reply' = reply /\ audit' = audit
      BY <2>6 DEF ReasonFirst, ReasonAuto, ReasonMCTS, ReasonToT, Direct, PolicyFallback,
                  Reason, Answered, FallTo
    <3> QED
      BY <2>1, <2>a, <3>1
  <2>7. CASE Adversarial \/ MetaSkip \/ Reflect \/ Check \/ Revise
    <3>1. stage # "done" /\ reply' = reply /\ audit' = audit
      BY <2>7 DEF Adversarial, MetaSkip, Reflect, Check, Revise
    <3> QED
      BY <2>1, <2>a, <3>1
  <2>8. CASE Fail \/ Finish
    <3>1. stage \in {"policy", "finish"} /\ used \in Allowed /\ used \in Model
      BY <2>8, ModelAssumption DEF Fail, Finish, IInv, Shape, Running
    <3>2. CASE Fail
      <4>1. audit' \in {<<>>, <<[model |-> used, outcome |-> "error"]>>}
        BY <2>a, <3>1, <3>2, RecordType DEF Fail
      <4> QED
        BY <2>a, <3>1, <3>2, <4>1 DEF Fail, Reply, T!Next, T!Fail, T!Event
    <3>3. CASE Finish
      <4>1. audit' \in {<<>>, <<[model |-> used, outcome |-> "success"]>>}
        BY <2>a, <3>1, <3>3, RecordType DEF Finish
      <4>2. stage = "finish" /\ reply = "none" /\ reply' = "ok" /\ resp' = resp
        BY <2>a, <3>3 DEF Finish, Reply
      <4>3. resp.by = used
        BY <4>2 DEF IInv, Shape, Revising
      <4> QED
        BY <3>1, <4>1, <4>2, <4>3 DEF T!Next, T!Serve, T!Event
    <3> QED
      BY <2>8, <3>2, <3>3
  <2>9. CASE Ended
    BY <2>3, <2>9 DEF Ended
  <2> QED
    BY <2>3, <2>4, <2>5, <2>6, <2>7, <2>8, <2>9 DEF Next, Step
<1> QED
  BY <1>1, <1>2, Inductive, PTL DEF Spec, ImplementsTurn, T!Spec

=============================================================================
