-------------------------------- MODULE Turn --------------------------------
(***************************************************************************)
(* What the gateway promises about one chat request, whatever the stages   *)
(* it runs: one reply, and at most one audit event, written with the reply *)
(* and telling the truth about it.  An answer comes from one model of the  *)
(* tenant's allow-list.                                                    *)
(***************************************************************************)
EXTENDS Sequences

CONSTANTS
    Model,      \* upstream models
    Allowed,    \* the allow-list of the tenant's policy
    NoModel     \* the model of a request that reached none

VARIABLES
    reply,      \* "none", "refused", "error" or "ok"
    answeredBy, \* the model whose words the client got
    audit       \* audit events of the request

vars == <<reply, answeredBy, audit>>

Event(m, outcome) == [model |-> m, outcome |-> outcome]

Init ==
    /\ reply = "none"
    /\ answeredBy = NoModel
    /\ audit = <<>>

\* Turned away before any completion: by the limits of the request, which
\* leaves no event, or because the models could not be listed or the one asked
\* for is not there.
Refuse ==
    /\ reply = "none"
    /\ reply' = "refused"
    /\ audit' \in {<<>>} \cup {<<Event(m, "error")>> : m \in Model \cup {NoModel}}
    /\ UNCHANGED answeredBy

\* Every stage failed: the event names the last model asked.
Fail(m) ==
    /\ reply = "none"
    /\ reply' = "error"
    /\ audit' \in {<<>>, <<Event(m, "error")>>}
    /\ UNCHANGED answeredBy

\* Answered: the event names the model that wrote the answer.
Serve(m) ==
    /\ reply = "none"
    /\ reply' = "ok"
    /\ answeredBy' = m
    /\ audit' \in {<<>>, <<Event(m, "success")>>}

Next ==
    \/ Refuse
    \/ \E m \in Allowed : Fail(m) \/ Serve(m)

Spec == Init /\ [][Next]_vars

=============================================================================
