----------------------------- MODULE StoreClient -----------------------------
(***************************************************************************)
(* The client of internal/store/pocketbase/store.go: one token, shared by  *)
(* all requests, around every call to the database.  The mutex guards the  *)
(* writes of the token and is held across the authentication calls; the    *)
(* token is read, and put in a request, without it.                        *)
(*                                                                         *)
(* A caller is one operation of the store on the rows of one tenant:       *)
(* a Create..., a Get..., or an Upsert... (which reads and then writes).   *)
(* A row is the caller whose payload it holds, its id is its place.        *)
(* The goroutine that notes the last use of the account after every        *)
(* authentication changes nothing the client reads and is left out.        *)
(***************************************************************************)
EXTENDS Integers, Sequences, FiniteSets

CONSTANTS
    Callers,
    None,
    Attempts,       \* of one call in do: 3 in the code
    Profiles,       \* what the account may be at the server
    Operations,     \* what the callers may be about to do
    MaxRevocations  \* bound: how often the server forgets the tokens it issued

Kinds == {"create", "get", "upsert"}
Scope == {"read", "write"}
Profile == [active : BOOLEAN, scopes : SUBSET Scope]

ASSUME StoreAssumption ==
    /\ None \notin Callers
    /\ Attempts \in Nat \ {0}
    /\ Profiles \subseteq Profile
    /\ Operations \subseteq [Callers -> Kinds]
    /\ MaxRevocations \in Nat

VARIABLES
    \* the Store
    token,      \* s.token: absent (""), live or dead at the server
    aged,       \* time.Since(s.authedAt) > 10 min
    account,    \* s.account.Scopes
    mu,         \* s.mu: its holder
    \* the server
    profile,    \* the account's record
    revocations,
    rows,       \* the tenant's rows in the collection
    \* one operation
    kind,
    pc,
    phase,      \* which call of the operation: "check", "read" or "write"
    sent,       \* the token in the request under way, else absent
    attempt,    \* of do
    seen,       \* the id of the row found, 0 for none
    \* observers
    before,     \* the operations that had ended when this one began
    doubtful    \* a call was repeated after a gateway's answer, or met a 404

storeVars == <<token, aged, account, mu>>
serverVars == <<profile, revocations, rows>>
callVars == <<kind, pc, phase, sent, attempt, seen, before, doubtful>>
vars == <<storeVars, serverVars, callVars>>

Token == {"absent", "live", "dead"}
Ended == {"ok", "failed", "notFound"}

TypeOK ==
    /\ token \in Token
    /\ aged \in BOOLEAN
    /\ account \subseteq Scope
    /\ mu \in Callers \cup {None}
    /\ \A c \in Callers : mu = c <=> pc[c] \in {"refresh", "auth"}
    /\ profile \in Profiles
    /\ revocations \in 0..MaxRevocations
    /\ rows \in Seq(Callers)
    /\ kind \in [Callers -> Kinds]
    /\ pc \in [Callers -> Ended \cup {"begin", "ensure", "refresh", "auth", "scope",
                                       "send", "flight", "rejected"}]
    /\ phase \in [Callers -> {"check", "read", "write"}]
    /\ sent \in [Callers -> Token]
    /\ attempt \in [Callers -> 0..Attempts - 1]
    /\ seen \in [Callers -> 0..Len(rows)]
    /\ before \in [Callers -> SUBSET Callers]
    /\ doubtful \in [Callers -> BOOLEAN]

Init ==
    /\ token = "absent"
    /\ aged = FALSE
    /\ account = {}
    /\ mu = None
    /\ profile \in Profiles
    /\ revocations = 0
    /\ rows = <<>>
    /\ kind \in Operations
    /\ pc = [c \in Callers |-> "begin"]
    /\ phase = [c \in Callers |-> "check"]
    /\ sent = [c \in Callers |-> "absent"]
    /\ attempt = [c \in Callers |-> 0]
    /\ seen = [c \in Callers |-> 0]
    /\ before = [c \in Callers |-> {}]
    /\ doubtful = [c \in Callers |-> FALSE]

-----------------------------------------------------------------------------
(* The token.                                                              *)

Goto(c, step) == pc' = [pc EXCEPT ![c] = step]

\* What ensureToken was called for.
Ensured(c) == IF phase[c] = "check" THEN "scope" ELSE "send"

Begin(c) ==
    /\ pc[c] = "begin"
    /\ Goto(c, "ensure")
    /\ before' = [before EXCEPT ![c] = {d \in Callers : pc[d] \in Ended}]
    /\ UNCHANGED <<storeVars, serverVars, kind, phase, sent, attempt, seen, doubtful>>

ensureToken(c) ==
    /\ pc[c] = "ensure"
    /\ mu = None
    /\ \/ token = "absent" /\ mu' = c /\ Goto(c, "auth")
       \/ token # "absent" /\ aged /\ mu' = c /\ Goto(c, "refresh")
       \/ token # "absent" /\ ~aged /\ UNCHANGED mu /\ Goto(c, Ensured(c))
    /\ UNCHANGED <<token, aged, account, serverVars,
                   kind, phase, sent, attempt, seen, before, doubtful>>

\* The answer to an authentication call: the account must be active.
Authenticated(c) ==
    /\ profile.active
    /\ token' = "live"
    /\ aged' = FALSE
    /\ account' = profile.scopes
    /\ mu' = None
    /\ Goto(c, Ensured(c))
    /\ UNCHANGED <<serverVars, kind, phase, sent, attempt, seen, before, doubtful>>

authWithPasswordLocked(c) == pc[c] = "auth" /\ Authenticated(c)

authRefreshLocked(c) == pc[c] = "refresh" /\ token = "live" /\ Authenticated(c)

\* A refresh that fails, or finds the account not active, is followed by the
\* password, still under the lock.
RefreshFails(c) ==
    /\ pc[c] = "refresh"
    /\ token' = "absent"
    /\ Goto(c, "auth")
    /\ UNCHANGED <<aged, account, mu, serverVars,
                   kind, phase, sent, attempt, seen, before, doubtful>>

\* Mutant: an early return leaves the mutex locked.
AuthFailsLocked(c) ==
    /\ pc[c] = "auth"
    /\ Goto(c, "failed")
    /\ UNCHANGED <<storeVars, serverVars, kind, phase, sent, attempt, seen, before, doubtful>>

AuthFails(c) ==
    /\ pc[c] = "auth"
    /\ mu' = None
    /\ Goto(c, "failed")
    /\ UNCHANGED <<token, aged, account, serverVars,
                   kind, phase, sent, attempt, seen, before, doubtful>>

-----------------------------------------------------------------------------
(* The calls.                                                              *)

Needs(c) == IF kind[c] = "get" THEN "read" ELSE "write"

\* requireAnyScope looks at the account without the lock.
requireAnyScope(c) ==
    /\ pc[c] = "scope"
    /\ \/ /\ Needs(c) \in account
          /\ phase' = [phase EXCEPT ![c] = IF kind[c] = "create" THEN "write" ELSE "read"]
          /\ Goto(c, "ensure")
       \/ /\ Needs(c) \notin account
          /\ Goto(c, "failed")
          /\ UNCHANGED phase
    /\ UNCHANGED <<storeVars, serverVars, kind, sent, attempt, seen, before, doubtful>>

\* doOnce reads the token without the lock: while another caller authenticates
\* it may read a torn string, which no server accepts.
Send(c) ==
    /\ pc[c] = "send"
    /\ \E t \in {token} \cup (IF mu = None THEN {} ELSE {"dead"}) :
          sent' = [sent EXCEPT ![c] = t]
    /\ Goto(c, "flight")
    /\ UNCHANGED <<storeVars, serverVars, kind, phase, attempt, seen, before, doubtful>>

Over(c) == pc[c] \in Ended

\* The request is over.
Received(c) == sent' = [sent EXCEPT ![c] = "absent"]

\* A 401.
Unauthorized(c) ==
    /\ pc[c] = "flight"
    /\ sent[c] # "live"
    /\ Received(c)
    /\ Goto(c, "rejected")
    /\ UNCHANGED <<storeVars, serverVars, kind, phase, attempt, seen, before, doubtful>>

\* Mutant: the call is repeated without a new token.
ClearTokenNot(c) ==
    /\ pc[c] = "rejected"
    /\ mu = None
    /\ Goto(c, "ensure")
    /\ UNCHANGED <<storeVars, serverVars,
                   kind, phase, sent, attempt, seen, before, doubtful>>

\* The token is dropped, whether it is the one the server refused or another
\* caller's new one; then ensureToken, then the same call again.
ClearToken(c) ==
    /\ pc[c] = "rejected"
    /\ mu = None
    /\ token' = "absent"
    /\ Goto(c, "ensure")
    /\ UNCHANGED <<aged, account, mu, serverVars,
                   kind, phase, sent, attempt, seen, before, doubtful>>

\* Mutant: an upsert always creates.
CarriedAnew(c) ==
    /\ pc[c] = "flight"
    /\ sent[c] = "live"
    /\ rows' = IF phase[c] = "read" THEN rows ELSE Append(rows, c)

\* A call carried out at the server.
Carried(c) ==
    /\ pc[c] = "flight"
    /\ sent[c] = "live"
    /\ rows' = IF phase[c] = "read" THEN rows
               ELSE IF kind[c] = "upsert" /\ seen[c] # 0 THEN [rows EXCEPT ![seen[c]] = c]
               ELSE Append(rows, c)

\* What the caller makes of an answer: any one row of those that match, a new
\* call or the end of the operation.
Answered(c) ==
    /\ Carried(c)
    /\ IF phase[c] = "read"
       THEN \E id \in IF rows = <<>> THEN {0} ELSE 1..Len(rows) : seen' = [seen EXCEPT ![c] = id]
       ELSE UNCHANGED seen
    /\ \/ /\ kind[c] = "upsert" /\ phase[c] = "read"
          /\ phase' = [phase EXCEPT ![c] = "write"]
          /\ Goto(c, "ensure")
       \/ /\ ~(kind[c] = "upsert" /\ phase[c] = "read")
          /\ Goto(c, IF kind[c] = "get" /\ seen'[c] = 0 THEN "notFound" ELSE "ok")
          /\ UNCHANGED phase
    /\ attempt' = [attempt EXCEPT ![c] = 0]
    /\ Received(c)
    /\ UNCHANGED <<storeVars, profile, revocations, kind, before, doubtful>>

\* The request reached the server or not, and the answer is no answer of it: an
\* error of the network or of the server, which do does not repeat ...
Lost(c) ==
    /\ pc[c] = "flight"
    /\ Carried(c) \/ UNCHANGED rows
    /\ Goto(c, "failed")
    /\ Received(c)
    /\ UNCHANGED <<storeVars, profile, revocations,
                   kind, phase, attempt, seen, before, doubtful>>

\* Mutant: after the last attempt the error is forgotten.
RepeatedForgotten(c) ==
    /\ pc[c] = "flight"
    /\ Carried(c) \/ UNCHANGED rows
    /\ doubtful' = [doubtful EXCEPT ![c] = @ \/ rows' # rows]
    /\ \/ /\ attempt[c] + 1 < Attempts
          /\ attempt' = [attempt EXCEPT ![c] = @ + 1]
          /\ Goto(c, "send")
       \/ /\ attempt[c] + 1 = Attempts
          /\ Goto(c, "ok")
          /\ UNCHANGED attempt
    /\ Received(c)
    /\ UNCHANGED <<storeVars, profile, revocations, kind, phase, seen, before>>

\* ... or a 429, 502, 503 or 504, which it does, with the same payload.
Repeated(c) ==
    /\ pc[c] = "flight"
    /\ Carried(c) \/ UNCHANGED rows
    /\ doubtful' = [doubtful EXCEPT ![c] = @ \/ rows' # rows]
    /\ \/ /\ attempt[c] + 1 < Attempts
          /\ attempt' = [attempt EXCEPT ![c] = @ + 1]
          /\ Goto(c, "send")
       \/ /\ attempt[c] + 1 = Attempts
          /\ Goto(c, "failed")
          /\ UNCHANGED attempt
    /\ Received(c)
    /\ UNCHANGED <<storeVars, profile, revocations, kind, phase, seen, before>>

\* A 404: an upsert takes it for "no row yet", a Get for "not found".
NoSuchPath(c) ==
    /\ pc[c] = "flight"
    /\ doubtful' = [doubtful EXCEPT ![c] = TRUE]
    /\ \/ /\ kind[c] = "upsert" /\ phase[c] = "read"
          /\ phase' = [phase EXCEPT ![c] = "write"]
          /\ Goto(c, "ensure")
       \/ /\ ~(kind[c] = "upsert" /\ phase[c] = "read")
          /\ Goto(c, IF kind[c] = "get" THEN "notFound" ELSE "failed")
          /\ UNCHANGED phase
    /\ attempt' = [attempt EXCEPT ![c] = 0]
    /\ Received(c)
    /\ UNCHANGED <<storeVars, serverVars, kind, seen, before>>

-----------------------------------------------------------------------------
(* The surroundings.                                                       *)

\* Ten minutes pass since the last authentication.
Age ==
    /\ ~aged
    /\ token # "absent"
    /\ aged' = TRUE
    /\ UNCHANGED <<token, account, mu, serverVars, callVars>>

\* An administrator changes the account's scopes or status.
ChangeAccount ==
    /\ profile' \in Profiles \ {profile}
    /\ UNCHANGED <<storeVars, revocations, rows, callVars>>

\* The tokens issued so far are no longer accepted.
Revoke ==
    /\ revocations < MaxRevocations
    /\ revocations' = revocations + 1
    /\ token' = IF token = "live" THEN "dead" ELSE token
    /\ sent' = [c \in Callers |-> IF sent[c] = "live" THEN "dead" ELSE sent[c]]
    /\ UNCHANGED <<aged, account, mu, profile, rows,
                   kind, pc, phase, attempt, seen, before, doubtful>>

CallerStep(c) ==
    \/ Begin(c)
    \/ ensureToken(c) \/ authWithPasswordLocked(c) \/ authRefreshLocked(c)
    \/ RefreshFails(c) \/ AuthFails(c) \/ requireAnyScope(c)
    \/ Send(c) \/ Unauthorized(c) \/ ClearToken(c)
    \/ Answered(c) \/ Lost(c) \/ Repeated(c) \/ NoSuchPath(c)

Next ==
    \/ \E c \in Callers : CallerStep(c)
    \/ Age \/ ChangeAccount \/ Revoke

Spec == Init /\ [][Next]_vars

\* The HTTP client gives every call 15 seconds, and a goroutine that can take
\* the mutex does.
FairSpec == Spec /\ \A c \in Callers : WF_vars(CallerStep(c))

-----------------------------------------------------------------------------
(* Properties.                                                             *)

Begun(c) == pc[c] # "begin"
Overlapped(c, d) == Begun(c) /\ Begun(d) /\ c # d /\ c \notin before[d] /\ d \notin before[c]
Upserts == {c \in Callers : kind[c] = "upsert"}

\* A tenant that is only upserted has one row, unless two upserts overlapped,
\* an answer of the gateway hid that the row had been created, or a 404 that
\* there was one: the reads of a policy or quota ask for one row, unsorted, and
\* would get either of two (UpsertModelPolicy, UpsertCognitivePolicy,
\* UpsertQuota).  Where model_policies and quotas have the unique index on
\* tenant_id that docs/pb_info_md documents (lines 194 and 229), their second
\* create is refused by the server, and only cognitive_policies may hold two.
OneRowEach ==
    Len(rows) > 1 =>
      \/ \E c \in Callers : kind[c] = "create"
      \/ \E c \in Upserts : doubtful[c]
      \/ \E c, d \in Upserts : Overlapped(c, d)

\* What was acknowledged is there: unless the tenant has two rows, its row after
\* an upsert that was acknowledged is not missing, and not one that had been
\* written before it began (do, and the error it keeps for its last attempt).
AcknowledgedStays ==
    \A u \in Upserts :
        pc[u] = "ok" /\ Len(rows) <= 1 => rows # <<>> /\ rows[1] \notin before[u]

\* A call on its own always comes to an end: however its token was lost, two
\* rounds of 401 are over once the server accepts a new token.  It is not so of
\* calls side by side: two of them can clear each other's token for ever
\* (doOnce, store.go:240).
LoneCallEnds ==
    \A c \in Callers :
        (Begun(c) /\ \A d \in Callers \ {c} : Over(d)) ~> Over(c)

=============================================================================
