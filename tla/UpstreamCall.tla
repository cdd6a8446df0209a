---------------------------- MODULE UpstreamCall ----------------------------
(***************************************************************************)
(* ChatCompletions of internal/upstream/openwebui/client.go: one HTTP      *)
(* request, sent again while its failure is transient.  A module that asks *)
(* the model takes one of these three for every try.                       *)
(*                                                                         *)
(* Whatever http.Client.Do returns is a net.Error, the end of the context  *)
(* included: a request that is already late is tried as often as any, but  *)
(* never sent.                                                             *)
(***************************************************************************)
EXTENDS Integers, Sequences

CONSTANT RetryMax   \* c.retryMax

ASSUME RetryAssumption == RetryMax \in Nat

VARIABLES
    where,      \* where the handler is
    late,       \* has the request's context ended?
    attempt,    \* of ChatCompletions
    requests    \* sent to the upstream in this stage of the handler

callVars == <<attempt, requests>>

ChatAnswers(gone) ==
    /\ ~gone
    /\ attempt' = 0
    /\ requests' = requests + 1

\* A network error, or a 502, 503 or 504.
ChatRepeats(gone) ==
    /\ attempt < RetryMax
    /\ attempt' = attempt + 1
    /\ requests' = IF gone THEN requests ELSE requests + 1

\* The call may fail for good: with another error, or at the last attempt.
ChatMayFail(gone) == gone => attempt = RetryMax

\* The client leaves.
Leave ==
    /\ where \notin {"answered", "failed"}
    /\ ~late
    /\ late' = TRUE
    /\ UNCHANGED <<where, attempt, requests>>

=============================================================================
