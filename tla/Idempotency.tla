----------------------------- MODULE Idempotency -----------------------------
(***************************************************************************)
(* Idempotency-Key in POST /v1/chat/completions: the part of               *)
(* chatCompletions (internal/http/server.go) that reads and writes         *)
(* internal/idempotency, its in-process cache and the durable              *)
(* idempotency_records.                                                    *)
(*                                                                         *)
(* Requests run concurrently and nothing marks a key as being worked on:   *)
(* the lookup and the save are far apart, with the upstream call and the   *)
(* memory update between them.  What is hashed is not the client's body    *)
(* but the request as it is by then: with the session's mood (response     *)
(* style, tone), the model that routing or the policy chose, the document  *)
(* summaries the upstream wrote, and the session's memory.  The hash is    *)
(* thus a pair of the payload and of this context.  Mood and memory are    *)
(* version numbers here, equal versions give equal text; what routing and  *)
(* documents add is any element of a set.                                  *)
(*                                                                         *)
(* Every element of Request is one HTTP request; a client's retry is       *)
(* another element with the same key and payload.  The response a request  *)
(* obtains from the upstream is named after the request.                   *)
(***************************************************************************)
EXTENDS Naturals, FiniteSets

CONSTANTS
    Request,      \* the requests of a behaviour (a bound of the model)
    Key,          \* tenant id and Idempotency-Key together
    NoKey,        \* the header is absent
    Payload,      \* request bodies
    Session,      \* session ids
    Preparation,  \* what routing, the policy and the document stage may add
    NoItem,       \* an empty cache slot; no response; no context yet
    Durable,      \* TRUE: PocketBase; FALSE: the in-process memory store
    Contextual,   \* FALSE: memory and tone are off, the client sends its style
    MaxVersion,   \* versions of a session's mood and memory (a bound of the model)
    Faults        \* which store calls may fail: a subset of {"read", "write"}

ASSUME NamesAssumption ==
    /\ NoKey \notin Key
    /\ NoItem \notin Request
    /\ Preparation # {}
    /\ IsFiniteSet(Request)
ASSUME ModesAssumption ==
    /\ Durable \in BOOLEAN
    /\ Contextual \in BOOLEAN
    /\ MaxVersion \in Nat
    /\ Faults \subseteq {"read", "write"}

VARIABLES
    ask,     \* what each client sends: key, payload and session
    call,    \* the handler of each request
    cache,   \* idempotency.Service.cache: the owner of each key's response
    records, \* idempotency_records: the owner of each record
    mood,    \* state.Manager: the version of each session's state
    memory   \* memory nodes: the version of each session's memory

contextVars == <<mood, memory>>
vars == <<ask, call, cache, records, contextVars>>

PC == {"new", "prepare", "cache", "durable", "execute", "save", "persist",
       "reply", "done", "dropped", "lost"}
Status == {"none", "ok", "conflict", "failed"}

\* A mood, what was prepared and a memory.
Context == Nat \X Preparation \X Nat

\* felt: the mood RecordUserInput returned; blind: the look at the durable record
\* failed and was logged.
CallState == [pc : PC, felt : Nat, context : Context \cup {NoItem},
              before : SUBSET Request, blind : BOOLEAN,
              status : Status, resp : Request \cup {NoItem}]

key(r) == ask[r].key

Types ==
    /\ ask \in [Request -> [key : Key \cup {NoKey}, payload : Payload, session : Session]]
    /\ call \in [Request -> CallState]
    /\ cache \in [Key -> Request \cup {NoItem}]
    /\ records \in SUBSET Request
    /\ mood \in [Session -> Nat]
    /\ memory \in [Session -> Nat]

\* What is done with a key is done for a request that has one.
Keyed ==
    \A r \in Request :
        call[r].pc \in {"cache", "durable", "save", "persist"} => key(r) # NoKey

TypeOK == Types /\ Keyed

NewCall == [pc |-> "new", felt |-> 0, context |-> NoItem, before |-> {}, blind |-> FALSE,
            status |-> "none", resp |-> NoItem]

Init ==
    /\ ask \in [Request -> [key : Key \cup {NoKey}, payload : Payload, session : Session]]
    /\ call = [r \in Request |-> NewCall]
    /\ cache = [k \in Key |-> NoItem]
    /\ records = {}
    /\ mood = [s \in Session |-> 0]
    /\ memory = [s \in Session |-> 0]

-----------------------------------------------------------------------------
\* RequestHash(req): req as it is after all that was done to it.
RequestHash(r) == <<ask[r].payload, call[r].context>>

Recorded(k) == {o \in records : key(o) = k}
Answered == {r \in Request : call[r].pc = "done"}

Goto(r, pc) == call' = [call EXCEPT ![r].pc = pc]
GoBlind(r) == call' = [call EXCEPT ![r].pc = "execute", ![r].blind = TRUE]
Answer(r, status, resp) ==
    call' = [call EXCEPT ![r].pc = "done", ![r].status = status, ![r].resp = resp]

-----------------------------------------------------------------------------
(* The handler.                                                            *)

\* RecordUserInput may change the session's mood, which style and tone follow;
\* what RecordAssistantOutput did to it since then shows here too.
RecordUserInput(r) ==
    /\ call[r].pc = "new"
    /\ LET s == ask[r].session IN
       \E felt \in mood[s]..mood[s] + 1 :
        /\ felt <= MaxVersion /\ (Contextual \/ felt = 0)
        /\ mood' = [mood EXCEPT ![s] = felt]
        /\ call' = [call EXCEPT ![r].pc = "prepare", ![r].felt = felt]
    /\ UNCHANGED <<ask, cache, records, memory>>

\* The memory a request is given: none when BuildContext fails.
Recalled(s) == {memory[s]} \cup (IF "read" \in Faults THEN {0} ELSE {})

\* The model is chosen, documents are summarised and memory.BuildContext reads
\* the session's nodes; then the hash is taken.
Prepare(r) ==
    /\ call[r].pc = "prepare"
    /\ \E prepared \in Preparation, recalled \in Recalled(ask[r].session) :
        /\ Contextual \/ recalled = 0
        /\ call' = [call EXCEPT ![r].pc = IF key(r) = NoKey THEN "execute" ELSE "cache",
                                ![r].context = <<call[r].felt, prepared, recalled>>,
                                ![r].before = Answered]
    /\ UNCHANGED <<ask, cache, records, contextVars>>

\* No model to route to, or none that is available or allowed.
Refuse(r) ==
    /\ call[r].pc = "prepare"
    /\ Answer(r, "failed", NoItem)
    /\ UNCHANGED <<ask, cache, records, contextVars>>

\* Mutant of LookupCache: a hit is replayed without comparing the hashes.
LookupCacheUnchecked(r) ==
    /\ call[r].pc = "cache"
    /\ LET o == cache[key(r)] IN
        IF o = NoItem THEN Goto(r, "durable") ELSE Answer(r, "ok", o)
    /\ UNCHANGED <<ask, cache, records, contextVars>>

\* Mutant of LookupCache: a hit with another hash counts as a miss.
LookupCacheMissOnMismatch(r) ==
    /\ call[r].pc = "cache"
    /\ LET o == cache[key(r)] IN
        IF o # NoItem /\ RequestHash(o) = RequestHash(r)
        THEN Answer(r, "ok", o) ELSE Goto(r, "durable")
    /\ UNCHANGED <<ask, cache, records, contextVars>>

\* idem.Get: replay, conflict, or go on to the durable record.
LookupCache(r) ==
    /\ call[r].pc = "cache"
    /\ LET o == cache[key(r)] IN
        IF o = NoItem THEN Goto(r, "durable")
        ELSE IF RequestHash(o) = RequestHash(r) THEN Answer(r, "ok", o)
        ELSE Answer(r, "conflict", NoItem)
    /\ UNCHANGED <<ask, cache, records, contextVars>>

\* Mutant of LookupDurable: the comparison is the wrong way round.
LookupDurableSwapped(r) ==
    /\ call[r].pc = "durable"
    /\ \/ \E o \in Recorded(key(r)) :
            IF RequestHash(o) = RequestHash(r)
            THEN Answer(r, "conflict", NoItem) ELSE Goto(r, "execute")
       \/ Recorded(key(r)) = {} /\ Goto(r, "execute")
       \/ "read" \in Faults /\ Goto(r, "execute")
    /\ UNCHANGED <<ask, cache, records, contextVars>>

\* Mutant of LookupDurable: a record with another hash counts as none.
LookupDurableMissOnMismatch(r) ==
    /\ call[r].pc = "durable"
    /\ Goto(r, "execute") \/ ("read" \in Faults /\ GoBlind(r))
    /\ UNCHANGED <<ask, cache, records, contextVars>>

\* idem.GetDurable: the query has no order, so with several records of the
\* key it is any of them.  No record, an error and an equal hash all execute.
LookupDurable(r) ==
    /\ call[r].pc = "durable"
    /\ \/ \E o \in Recorded(key(r)) :
            IF RequestHash(o) = RequestHash(r)
            THEN Goto(r, "execute") ELSE Answer(r, "conflict", NoItem)
       \/ Recorded(key(r)) = {} /\ Goto(r, "execute")
       \/ "read" \in Faults /\ GoBlind(r)
    /\ UNCHANGED <<ask, cache, records, contextVars>>

\* No answer from the upstream, from reasoning or from the fallback model: 502,
\* nothing is saved.
ExecuteFails(r) ==
    /\ call[r].pc = "execute"
    /\ Answer(r, "failed", NoItem)
    /\ UNCHANGED <<ask, cache, records, contextVars>>

\* The memory after a turn: it may find no concept, or fail.
Remember(s) ==
    \/ UNCHANGED memory
    \/ Contextual /\ memory[s] < MaxVersion /\ memory' = [memory EXCEPT ![s] = @ + 1]

\* Mutant of UpdateFromTurn: the answer is saved with a key or without one.
UpdateFromTurnSaveAll(r) ==
    /\ call[r].pc = "execute"
    /\ Remember(ask[r].session)
    /\ Goto(r, "save")
    /\ UNCHANGED <<ask, cache, records, mood>>

\* The upstream has answered; memory.UpdateFromTurn, and the answer is saved if
\* the request has a key.
UpdateFromTurn(r) ==
    /\ call[r].pc = "execute"
    /\ Remember(ask[r].session)
    /\ Goto(r, IF key(r) = NoKey THEN "reply" ELSE "save")
    /\ UNCHANGED <<ask, cache, records, mood>>

\* idem.Save, first half: the cache, under its lock.
SaveCache(r) ==
    /\ call[r].pc = "save"
    /\ cache' = [cache EXCEPT ![key(r)] = r]
    /\ Goto(r, "persist")
    /\ UNCHANGED <<ask, records, contextVars>>

\* PocketBase gets another row; the memory store keeps the last one.
Stored(r) == IF Durable THEN records \cup {r}
             ELSE (records \ Recorded(key(r))) \cup {r}

\* idem.Save, second half; an error is logged, and may hide a stored record.
SaveDurable(r) ==
    /\ call[r].pc = "persist"
    /\ \/ records' = Stored(r)
       \/ "write" \in Faults /\ records' = records
    /\ Goto(r, "reply")
    /\ UNCHANGED <<ask, cache, contextVars>>

Reply(r) ==
    /\ call[r].pc = "reply"
    /\ Answer(r, "ok", r)
    /\ UNCHANGED <<ask, cache, records, contextVars>>

-----------------------------------------------------------------------------
(* Time and crashes.                                                       *)

\* The cached item is older than the TTL: Get no longer finds it.  Nothing
\* compares a durable record with its expires_at or calls CleanupExpired.
Expire(k) ==
    /\ cache[k] # NoItem
    /\ cache' = [cache EXCEPT ![k] = NoItem]
    /\ UNCHANGED <<ask, call, records, contextVars>>

\* The process dies and starts again; PocketBase lives on.  A request that dies
\* is lost if others may have seen its response, else only dropped.
Crash ==
    /\ call' = [r \in Request |->
                  IF call[r].pc \in {"new", "done"} THEN call[r]
                  ELSE IF call[r].pc \in {"persist", "reply", "lost"}
                  THEN [call[r] EXCEPT !.pc = "lost"]
                  ELSE [NewCall EXCEPT !.pc = "dropped"]]
    /\ cache' = [k \in Key |-> NoItem]
    /\ mood' = [s \in Session |-> 0]
    /\ IF Durable THEN UNCHANGED <<records, memory>>
       ELSE records' = {} /\ memory' = [s \in Session |-> 0]
    /\ UNCHANGED ask

Step(r) ==
    \/ RecordUserInput(r) \/ Prepare(r) \/ Refuse(r) \/ LookupCache(r) \/ LookupDurable(r)
    \/ ExecuteFails(r) \/ UpdateFromTurn(r) \/ SaveCache(r) \/ SaveDurable(r) \/ Reply(r)

Next ==
    \/ \E r \in Request : Step(r)
    \/ \E k \in Key : Expire(k)
    \/ Crash

Spec == Init /\ [][Next]_vars

-----------------------------------------------------------------------------
(* Properties.                                                             *)

Ok(r) == call[r].status = "ok"
\* r got a response from the upstream and has at least cached it.
Executed(r) == call[r].pc \in {"persist", "reply", "lost"} \/ call[r].resp = r

\* A replayed response is the one of a request with the same key, the same
\* payload and the same injected context, however lookups, saves, expiry and
\* crashes interleave.
ReplayFaithful ==
    \A r \in Request :
        Ok(r) /\ call[r].resp # r =>
            LET o == call[r].resp IN
            /\ o \in Request
            /\ key(o) = key(r)
            /\ RequestHash(o) = RequestHash(r)
            /\ Executed(o)

\* A request is refused only if another one executed under its key with
\* another hash.
ConflictJustified ==
    \A r \in Request : call[r].status = "conflict" =>
        \E o \in Request :
            /\ key(o) = key(r)
            /\ RequestHash(o) # RequestHash(r)
            /\ Executed(o)

\* A cached response is only displaced by a request that had begun before it
\* was answered: once a client has its answer, no later request of the key
\* gets to run the upstream and put another answer in its place.
NoStaleOverwrite ==
    [][\A k \in Key :
          LET a == cache[k]
              b == cache'[k]
          IN a # NoItem /\ b # NoItem /\ a # b => a \notin call[b].before]_vars

\* A request whose durable record is stored binds its key to its hash, across
\* expiry and restarts: a later request that could read the records and has
\* another hash gets an answer only if one with that hash had overlapped the
\* first, or could not read them.
OnlyOverlapUnbindsKey ==
    \A r, o \in Request :
        /\ o \in call[r].before \cap records
        /\ Ok(r) /\ ~call[r].blind
        /\ key(o) = key(r)
        /\ RequestHash(o) # RequestHash(r)
        => \E l \in Request \ {r, o} :
              /\ key(l) = key(r) /\ RequestHash(l) = RequestHash(r)
              /\ o \notin call[l].before \/ call[l].blind
              /\ Executed(l)

\* internal/http/server.go:640 answers a conflict with "idempotency key reused
\* with different payload".  The hash covers what the session injected, and the
\* first turn has changed the session: the same payload is refused.
ConflictMeansOtherPayload ==
    \A r \in Request : call[r].status = "conflict" =>
        \E o \in Request : key(o) = key(r) /\ ask[o].payload # ask[r].payload

=============================================================================
