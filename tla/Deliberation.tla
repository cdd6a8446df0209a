---------------------------- MODULE Deliberation ----------------------------
(***************************************************************************)
(* What Executor.Execute promises the chat handler, whichever mode of      *)
(* reasoning runs: it writes a final answer only when some call has given  *)
(* it material, it answers only with the reply to that last call, and once *)
(* begun it gives up only because the call it last made failed or its      *)
(* deadline has passed.                                                    *)
(***************************************************************************)
VARIABLES
    stage,      \* "setup", "thinking", "writing", "answered", "failed" or "lost"
    material,   \* has a candidate been accepted?
    failing,    \* did the latest upstream call fail?
    late        \* has the context expired?

vars == <<stage, material, failing, late>>

Init ==
    /\ stage = "setup"
    /\ ~material
    /\ ~failing
    /\ ~late

Begin ==
    /\ stage = "setup"
    /\ stage' \in {"thinking", "failed"}
    /\ UNCHANGED <<material, late>>

Think ==
    /\ stage = "thinking"
    /\ stage' \in {"thinking", "lost"}
    /\ material => material'
    /\ UNCHANGED late

Write ==
    /\ stage = "thinking"
    /\ stage' = "writing"
    /\ material'
    /\ UNCHANGED late

Answer ==
    /\ stage = "writing"
    /\ stage' = "answered"
    /\ ~failing'
    /\ UNCHANGED <<material, late>>

GiveUp ==
    /\ stage \in {"thinking", "writing"}
    /\ stage' = "failed"
    /\ failing' \/ late
    /\ UNCHANGED <<material, late>>

Expire ==
    /\ late'
    /\ UNCHANGED <<stage, material, failing>>

Next == Begin \/ Think \/ Write \/ Answer \/ GiveUp \/ Expire

Spec == Init /\ [][Next]_vars

=============================================================================
