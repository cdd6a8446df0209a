----------------------------- MODULE Completion -----------------------------
(***************************************************************************)
(* The completion of one chat request, as chatCompletions of               *)
(* internal/http/server.go dispatches it: a request that asks for a mode   *)
(* of reasoning gets a run of the reasoner (Reasoner), any other the model *)
(* with its documents and tools (Exchange).  What the handler does when a  *)
(* run fails is in module ChatPipeline.                                    *)
(***************************************************************************)
EXTENDS Reasoner, Exchange

vars == <<reasonVars, exchangeVars>>

Init ==
    /\ ReasonInit
    /\ ShouldExecute \/ pruning
    /\ IF ShouldExecute THEN Aside ELSE ExchangeInit

Next ==
    \/ ShouldExecute /\ ReasonNext /\ UNCHANGED exchangeVars
    \/ ~ShouldExecute /\ ExchangeNext /\ UNCHANGED reasonVars

Spec == Init /\ [][Next]_vars

\* The one type invariant; who has no mode of reasoning is in the exchange.
TypeOK ==
    /\ ReasonTypeOK
    /\ ExchangeTypeOK
    /\ ShouldExecute <=> where = "aside"

=============================================================================
