# A verification project for G-LM

G-LM (`src/cmd/glm-api`, `src/internal/...`) is a gateway written in Go that
sits between chat clients and an Open WebUI / Ollama upstream. It authenticates
and limits requests, picks a model for them, runs multi-call reasoning modes,
criticises and revises the answer, remembers sessions, and keeps the models of
the Ollama host in shape. This directory holds TLA+ modules that model its
concurrent and fault-handling parts, the TLC runs that check them on small
instances, and TLAPS proofs of what matters most for every instance.

Run everything from this directory:

    tlasany M.tla                       # parse
    tlc -workers 2 -config X.cfg MCxxx  # one run of the table below
    tlapm XxxProofs.tla                 # the proofs of one component

## 1. Inventory

| Component | Source | State it keeps | Operations | Hard part |
|---|---|---|---|---|
| Model inventory | `orchestrator/router.go`, `upstream/ollama/control_client.go` | published snapshot (a shared Go map), `pullInFlight`, `pullRecent`, `lastUsed` | reconcile loop, background pull, prune, route a request | many goroutines run `reconcileOnce` with no common lock; host calls fail or lose replies |
| Auto-routing | `orchestrator/router.go`, `classifier.go` | none of its own | `ChooseWithState` | reads and writes the inventory's state |
| Idempotency keys | `idempotency/idempotency.go`, both stores, `http/server.go` 634-651, 1265-1268 | TTL cache, `idempotency_records` | lookup, save, expiry | lookup and save are far apart; the hash depends on session context |
| Rate limiter, quotas | `ratelimit/ratelimit.go`, `http/server.go` | one bucket per API key, quota rows | `Allow`, `upsertQuota` | arithmetic of refill and burst; restarts |
| Chat pipeline | `http/server.go` 323-1284 | one request's local variables, audit events | routing, reasoning, fail-open chains, policy fallback, revision stages | five nested ways of answering, copied code, stale `usedModel` |
| Reasoning executor | `reasoning/*.go` | a tree, candidates, budgets of one run | ToT, MCTS, multi-agent, decompose | budgets, concurrent agents, pruning in stages, baselines when nothing is left |
| Meta reasoning, symbolic overlay, adversarial | `metareasoning`, `symbolicoverlay`, `adversarial` | none | evaluate, supervise, revise | when to adopt a revision, when to stop |
| Session state | `state/manager.go` | per-session cognitive state | snapshot, update from a turn | averages per session; entries are never evicted |
| Memory dynamics | `memorydynamics/service.go` | memory nodes in the store | build context, update from turn | read-then-write upserts |
| Documents | `document/orchestrator.go` | none | trim, chunk, summarise | boundaries of chunks, calls a request can cause |
| Tool calling | `http/toolcalling.go`, `toolcalling/client.go` | tool cache | tool loop, calls with retry classes | repeated side effects, caps per loop |
| PocketBase client | `store/pocketbase/store.go` | auth token | auth, refresh, requests with retry | token shared without a lock, recursion on 401 |
| In-memory store | `store/memory/memory.go` | maps under one mutex | the same interface | differs from PocketBase in what a key is |
| Upstream client | `upstream/openwebui/client.go` | none | list, chat, with retries | retry limit |
| Auth | `auth/auth.go` | none | look a key up | none: stateless |
| Text transformations | `intent`, `skillcompiler`, `stylecontract`, `contextindex` | none | pure functions of one request | none |
| CLI, config, types | `cmd/glm-api`, `config`, `model`, `client`, `cognition` | process wiring | start, terminal client | none |

How they interact: `chatCompletions` calls, in this order, the limiter, the
session manager, the policy, the router (which triggers pulls), the memory
service, the idempotency service, the reasoning executor or the upstream with
the policy's fallback, the three revising stages, memory and idempotency again,
and audit. Requests share only the router's inventory, the limiter's buckets,
the session map, the idempotency cache and the store; the inventory also has a
goroutine of its own and one per pull.

What makes each part correct, in the order of importance used for the plan:

* inventory: protected models are never pruned, pruning stops near its target,
  an in-flight mark is always released, the snapshot returns to the truth;
* idempotency: a replay is the answer to the same key and hash, a conflict has
  a cause, an answered key is not rebound by a later request;
* limiter: a bound on any window, and no starvation by refused calls;
* pipeline: one reply, a truthful audit event, every fallback tried before a
  failure, only allowed models asked, no revision for the worse;
* reasoning: calls and tokens are bounded by configuration, the best candidate
  reaches the synthesis, an answer rests on material that some call gave;
* documents and tools: no text lost, no side effect repeated, results told in
  order, requests bounded;
* memory and store: no lost update, no session's memory in another's, one row
  per tenant, an acknowledged write is there, every lone call ends.

`PROJECT.json` lists every hazard found in the survey at its line, with the
properties that cover it or the reason none does.

## 2. The modules

### JITInventory — the just-in-time model inventory

| Model | Code |
|---|---|
| `installed`, `env` | the models on the Ollama host; changes by its other users |
| `maps`, `snap` | Go maps on the heap and `r.inventory`. Maps are modelled by identity because `cleanInventoryIfNeeded` deletes entries from the map it *loaded*, which may be the published one, an older one, or one held by another goroutine |
| `inFlight`, `recent` | `pullInFlight`; the keys of `pullRecent` inside the 30 s cooldown |
| `used`, `newer` | `lastUsed`, as the order of its times |
| `rec[p]` | one `reconcileOnce` caller: the loop or a pull goroutine; `pc` names the next host call or shared access |
| `req[r]` | one request inside `ChooseWithState` / `triggerBackgroundPull` |

An action ends wherever another goroutine can be observed to interleave: at a
host call and at each access to a `sync.Map` or the snapshot; publishing a list
and clearing its models' marks are two steps, the clearing itself is one, since a
request looks at one mark only. `DeleteFails`
covers refusal and the lost reply of a delete that happened; `PullFails` the
same for pulls. `sort.Slice` is not stable, so equal `lastUsed` times give any
order. Disk sizes are counted in models (`High`, `Target`). There are finitely
many goroutines that pull.

### Idempotency — Idempotency-Key

One process per HTTP request, each with the key, payload and session its client
sends. The hash is the pair of the payload and of the *context*, all that is put
into the request before it is hashed: the session's mood (`RecordUserInput`),
the model that routing or the policy chose and the document summaries the
upstream wrote (`Preparation`), and the session's memory (`BuildContext`). Mood
and memory are version numbers, equal versions are equal text; what is prepared
is any element of a set. Mood and memory are read in two steps, so that other
turns change the session in between. Reasoning, the upstream and the stages after
it are module `ChatPipeline`'s and change nothing here but whether there is an
answer. Cache and durable records are separate, `Save` is two steps, `Expire` and
`Crash` may happen anywhere (a request that dies is `lost` if others may have seen
its response, else `dropped`), and `Faults` lets store reads and writes fail. With
`Durable = TRUE` the records are PocketBase rows (several per key, returned in
no order), otherwise the in-process map (the last one wins).

### RateLimit — admission

Integer time in seconds, a token is 60 units, so that a second refills exactly
`Rpm` units and no rounding is needed. `grants`, `start`, `boots` and `granted`
are observers: a window that may be opened at any time.

### Turn and ChatPipeline — one chat completion

`Turn` is the abstract promise: a request gets one reply and at most one audit
event, and an event that says success names the model that wrote the reply.
`ChatPipeline` is the handler between the gate on reasoning modes and the reply.
A response is abstracted to who wrote it, its risk and its number of violated
constraints, which is what the revising stages decide on. Each reasoning mode is
one step that answers or fails; the fail-open chains, the policy fallback, the
reflection loop with its five ways to stop, the supervision and the audit are
modelled branch by branch.

### MemoryDynamics — what sessions remember

| Model | Code |
|---|---|
| `rows` | the memory nodes of a tenant, in PocketBase or in the in-process store; a row is named after who created it, for what concept, in what attempt |
| `rows[i].by` | the turns that went into the node: its weight and importance are averages over their texts, its access count is their number |
| `turn[t]` | one chat turn: its context (`BuildContext`), then the list, and for each concept the query and the write of the upsert |
| `found`, `attempt` | what the query of an upsert came back with, and the attempt at its write (`Store.do`) |
| `before`, `misled` | observers: who had ended when the turn listed its nodes; the concepts whose rows a 404 hid from it |

A turn is any request that gets as far as an answer; refused and replayed ones
never update memory. Each request to the store is a step, a repeated one too, so
that other turns run between two attempts. `Lists` and `FindNode` show how the
stores differ: PocketBase cuts its list before it filters by session, and its
upsert finds a row by tenant and key alone. With `Faults` every PocketBase
request may fail, and a create or a patch may have happened although its reply
was lost; `Store.do` repeats it on 429 and on 502 to 504, so a create makes up
to `Attempts` rows. A query answered with 404 counts as one that found nothing
(store.go:604): the turn then creates a second row of a key that has one,
without overlapping or repeating anything. A request given up on has been
carried out by then or never is. Which rows were updated last is not kept: a
list cut at its limit may hold any rows, and of two rows of a key a lookup may
see either. A restart between turns loses nothing that is not in the store, and
one within a turn is a turn that stops there, which the safety properties allow
for; the in-process store with a restart is a fresh behaviour.

### StoreClient — the PocketBase client

| Model | Code |
|---|---|
| `token`, `aged`, `account`, `mu` | `s.token`, the age of `s.authedAt`, `s.account.Scopes`, the mutex. Only whether the server accepts the token matters |
| `profile`, `rows` | the service account's record, and one collection's rows of one tenant, named after who wrote them |
| `kind[c]`, `phase[c]` | one operation of the store: a Create..., a Get... or an Upsert..., and which of its calls it has come to: the check of the scopes, the read or the write |
| `sent[c]`, `attempt[c]` | `doOnce`: the token in the request under way; `do`: the attempt |

The token is read without the lock, so a request sent while another caller
authenticates may carry a torn string. `Answered`, `Lost`, `Repeated`,
`Unauthorized` and `NoSuchPath` are what `doOnce` can make of a request; in
`Lost` and `Repeated` the call may have been carried out. The tenant's rows stand
for the model policies, the cognitive policies and the quotas, whose upserts are
alike: query by tenant, then PATCH the one row found or POST. `before[c]` is an
observer, who had ended when c began; two operations overlap when both have begun
and neither had ended before the other. `docs/pb_info_md` (lines 194 and 229)
documents a unique index on `tenant_id` for model_policies and quotas: where it
exists the server refuses their second row, and what `OneRowEach` exempts, two
overlapping upserts, a misleading answer or a 404, can leave two rows of the
cognitive policies alone.

### The completion: Completion, Reasoner and Exchange

`Completion` dispatches as `chatCompletions` does: a request with a mode of
reasoning gets a run of `Reasoner`, any other an `Exchange`.

* `ReasonRun` holds what the four modes share: candidates, pruning, the
  baseline call, the synthesis, the deadline. A candidate is its place, its
  speaker and its score; scores are inputs, texts are left out.
* `Thoughts` (`executeToT`), `TreeSearch` (`executeMCTS`), `AgentRounds`
  (`executeMultiAgent`), `Subtasks` (`executeDecompose`) add each mode's own
  state; `Reasoner` composes them. In `TreeSearch` UCT is a function of visits,
  values and priors that prefers unvisited children, so the leaf is chosen anew
  only when a score is propagated. In `AgentRounds` every agent is a goroutine,
  and `memAcc.Add` is a read and a write of its counter without a lock, then a
  write of its map, in which two agents may end the process. The agents of a
  round are the first of the role list, one less than the request asks for
  (`multiAgentRoles`): with two agents there is one worker, and no consensus in
  the first round.
* `Deliberation` is the abstract promise of `Execute`, whichever mode runs.
* `UpstreamCall` is the repeated request of the Open WebUI client; `Documents`
  (`Prepare`) and `ToolLoop` (`chatWithTools`, `Call`) use it; `Exchange`
  composes them. A text is a sequence of letters, marks and spaces, since
  `splitChunks` tells just these apart; `Without` is a text without certain
  bytes, and a document of spaces only is dropped. What a tool does happens at the tool
  server (`served`), whether or not its answer arrives. The counter of requests
  and the state of a stage are reset when the stage is left.

Each call of a run of `Reasoner` is one `ChatCompletions` of the upstream it was
given. When the request has tools, that upstream is a `ToolLoop` of its own
(`toolAwareUpstream`): the calls of `CallsBounded` are then loops, each with the
bound of `ExchangeBounded`.

## 3. The runs

| Run | Checks | Instance | Shows |
|---|---|---|---|
| JITPrune | `OvershootBounded` | 3 models, the loop, a pull and a request, disk statistics answer | two pruners decide on stale statistics, yet overshoot by at most one model |
| JITMarks | `NoOrphanMark` | 1 model, the loop, 2 pulls, a request, two external changes, nothing is pruned | a mark that two goroutines would remove, since a reconcile cleared it and another pull set it again, is removed by one of them |
| JITLive | `TypeOK`, `ProtectedKept`, `MarkReleased`, `SnapshotConverges` | 2 models, the loop and a pull that prune, statistics come and go, fairness | pruning never takes a protected model off the host; marks are released; after the last pull the snapshot keeps returning to the truth |
| JITTwoPulls | `AtMostOnePull` (violated) | 2 pull goroutines, 1 request | the de-duplication the changelog promises does not hold |
| IdemFaults | `TypeOK`, `ReplayFaithful`, `ConflictJustified`, `OnlyOverlapUnbindsKey`, `NoStaleOverwrite` | 3 requests, 1 key (or none), a mood, a memory and a preparation of 2 values each, crashes, expiry, every store call may fail | replays and conflicts are justified; only an overlap, a failed lookup or a failed save lets one key be answered for two payloads |
| IdemSamePayload | `ConflictMeansOtherPayload` (violated) | 2 requests of one session, in-process store | an identical retry is refused as "different payload" |
| RateWindow | `TypeOK`, `WindowBound`, `RefusalsAreFree` | 2 keys, 4 calls a minute, a restart | the token bucket's contract |
| ChatTurn | `TypeOK`, `AllowedOnly`, `StagedFallback`, `RevisionsHelp`, `ImplementsTurn`, `EveryTurnEnds` | all four modes and chains, fallback allowed, 2 passes, 6 risks, 3 violation counts, fairness | the pipeline implements `Turn`, keeps to the allow-list, gives up only when all stages failed, never adopts a worse revision, answers every request |
| Completion | `TypeOK`, `BestReachesSynthesis`, `CallsBounded`, `BudgetKept`, `TreeAddsUp`, `AnchorsCounted`, `IdleForEver`, `ImplementsDeliberation`, `ChunksCover`, `ExchangeBounded`, `ToolRepeats`, `AnsweredInOrder` | one completion by each mode or by none; sizes asked for: none, one, too many; any call fails, deadlines pass anywhere | calls, tokens and requests are bounded by configuration; the best candidate is synthesised; failed calls leave no trace in the tree; chunks lose nothing; changing tools act once |
| Store | `TypeOK`, `OneRowEach`, `AcknowledgedStays`, `LoneCallEnds` | 2 operations of any kinds, 2 attempts, 1 revocation, accounts with two sets of scopes, fairness | two rows of a tenant and a missing write have one of the causes named; a call on its own ends |
| MemoryTurns | `TypeOK`, `OwnSessionOnly`, `DuplicatesOverlap`, `OnlyTheseForget` | 3 turns, 2 sessions, 2 concepts (`FewWords`), either store, lists of 2 rows, 2 attempts, lost replies, 404s | sessions never mix; duplicate rows and forgotten turns have one of the causes named |
| MemoryContinuity | `Continuity` (violated) | 2 turns, PocketBase, no fault, no list limit reached | a turn takes over the node of another session |

Bounds and why they are enough. Two reconcilers are the smallest number at which
one can act on what another has changed; three models give one protected model
and two victims, so that both the order and the last-but-one delete occur.
`MapCount` is the number of reconcilers plus the published map plus one being
published, so a fresh map always exists (one less in JITLive, where it leaves
the states as they are). Three requests are needed for a lookup,
an overlapping save and a later observer; two suffice for the violations. Risks
lie on both sides of each limit of `decide` (28, 64), of the chain's 30, and
pairwise more and less than 3 apart. In MemoryTurns `FewWords` has either two
turns speak of any concepts, or three of one concept each on average: turns that
upsert several nodes meet in pairs, turns that upsert one all together, and a
turn of two concepts meets one of one while a third looks on; the proofs have no
such bound. `MaxTime = 30` with delays 4 and 15 covers
refill below, at and beyond a full bucket.

In Completion the scores are one below the minimum and two above it that are a
consensus apart; three branches, rollouts or subtasks against pools of two make
every cut drop something; depth 3 with 5 rollouts reaches the depth limit and
idles there; a budget of 3 tokens with outputs of 1 and 2 is met exactly, missed
and overrun, in every order of arrival. `PayloadSize` is 1 where the code quotes
3, so that the payload cuts again after `SynthTopK = 2`. All texts of up to four
bytes are chunked in every size. Two worker roles of the code's three (the third
multiplies the states by three and adds nothing the second does not show) with
two, three or more agents asked for give rounds of one and of two agents; the
proofs are for any list of up to three. `MaxToolCalls` bounds the calls of one answer,
which the code does not limit, and `MaxFailures` the failed tool calls of a
loop: two of each show a repeated call beside another one. In Store two attempts
show a repetition and its end, and `MaxRevocations = 1` a token that dies at any
point; who of the callers does which operation is symmetric and fixed.

Deadlock checking is on for the inventory and the pipeline. It is off for
Idempotency, MemoryDynamics, Completion and StoreClient (the requests of a
behaviour are finite) and RateLimit (the clock is bounded): there the last state
is the end of the observation.

Fairness. `JITInventory!Fairness`: a goroutine that can run does (Go scheduler),
every host call ends (the control client has a timeout, pulls a context
deadline), the ticker fires, and a host listed again and again answers once
(strong fairness of `ListModels(Loop)`: without it an always-failing host
would keep the snapshot stale, which is what the code intends).
`ChatPipeline!FairSpec`: weak fairness of the handler's step, since every
upstream call returns or meets a deadline. `StoreClient!FairSpec`: weak fairness
of each operation's step, since the HTTP client ends every call after 15 s and
a goroutine that can take the mutex does. No fairness is assumed of clients,
of the host's other users or of faults.

Every passing property has a mutant of the code in `PROJECT.json` that breaks
it under the same configuration.

## 4. The proofs

Every safety invariant and every safety action property of the passing runs is a
theorem, for every value of the constants that the named `ASSUME`s of the
modules allow; TLC evaluates these assumptions in the runs. A proof module has
an inductive invariant, the facts that the initial states satisfy it and every
step keeps it, and the results that follow.

**JITInventoryProofs**, any numbers of models, goroutines, requests and maps.
`TypeCorrect`, `MarksHaveOwners` (`NoOrphanMark`), `ProtectedStay`
(`ProtectedKept`), `OvershootWithin` (`OvershootBounded`). `NoOrphanMark` is not
inductive: when a pull goroutine returns it deletes its target's mark, and one
must know that a request between marking and spawning owns its own mark and that
a running goroutine has a real target. `ProtectedKept` needs that a pruner's
remaining victims contain no protected model, from the moment they are sorted to
the delete. `OvershootBounded` counts who has decided a delete and not done it:
a decision is taken above the target, and each delete uses one up. It is stated
under the hypothesis that the disk statistics answer (`StatsAnswers \subseteq
{TRUE}`, as in run JITPrune): a pass whose statistics fail half-way goes on
without a limit (section 5), so that without it the bound is false.

**IdempotencyProofs**, any requests, keys, payloads and sessions. `TypeCorrect`,
`AnswersJustified` (`ReplayFaithful` and `ConflictJustified`), `AnswersStay`
(`NoStaleOverwrite`), `KeyStaysBound` (`OnlyOverlapUnbindsKey`). The invariant
says whose responses the cache and the records can hold (a request that has
executed, with that key), and that what is done with a key is done for a request
that has one; a hash is fixed once the context is complete and as long as the
request is not dropped. It also says what each program counter implies about the
request's own answer. For `OnlyOverlapUnbindsKey` one must look at requests
before they are answered: from its look at the record on, a request that may go
on against a record has somebody who unbound the key (`BindInv`), and what the
cache holds comes of a request that is past its execution (`Saved`).

**RateLimitProofs**: `TypeCorrect`, `RateKept` (`WindowBound`), `NoStarvation`
(`RefusalsAreFree`), for any rate. The invariant is a conservation law: the
admitted tokens plus what the bucket would hold now never exceed the bursts
granted plus the refill of the window.

**ChatPipelineProofs**: `TypeCorrect`, `OnlyAllowed` (`AllowedOnly`),
`FallsThroughAll` (`StagedFallback`), `NeverWorse` (`RevisionsHelp`),
`Implements` (`ImplementsTurn`), for every configuration. The invariant ties
each stage to the ways already tried, to the allowed models behind `used` and
`req.model`, and to the draft the revising stage began with.

**MemoryDynamicsProofs**, any turns, sessions and concepts, either store, any
number of attempts. `TypeCorrect`, `SessionsApart` (`OwnSessionOnly`),
`CreatedApart` (`DuplicatesOverlap`), `OnlyTheseCost` (`OnlyTheseForget`). None
is inductive alone. `OwnSessionOnly` needs that what a turn looked up is of its
session too. `DuplicatesOverlap` needs, of a turn between its query and its
create, that whoever created the key meanwhile overlaps it, unless a 404 hid the
row from it; this holds because a
turn counts as seen by another only once it has ended (`before \subseteq
Ended`), and a turn about to write has not. `OnlyTheseForget` needs that a turn
about to write a concept has read what the turns before it added (`Carries`),
for it will overwrite the row, and that in the in-process store a row never
changes its session (`Home`).

**StoreClientProofs**, any callers, operations, profiles, attempts and
revocations. `TypeCorrect`, which holds that the mutex is held by who
authenticates and by nobody else, `OneRow` (`OneRowEach`), `WritesStay`
(`AcknowledgedStays`). `Shape` says in which phase of its operation a caller can
be at each call, and that those before it have ended. An upsert that is about to
create has either seen that there was no row, and then whoever created one since
overlaps it, or was misled by an answer (`Single`).

**ReasonerProofs**, over `Completion!Spec`, any sizes, scores and pattern of
failures. The modes share little, so each result has an invariant of its own.

* `BestSynthesised` (`BestReachesSynthesis`): the pool has a candidate as good as
  each one found that is worth keeping (`BestInv`), since the first k of a set
  have one as good as any of it (`TopKeeps`); a second baseline is asked for only
  when nothing found was worth keeping.
* `TreeCounts` (`TreeAddsUp`): the tree is closed under parents and what is
  expanded is new and childless (`TreeInv`), so a new node has no scored one
  below it. `IdleStays` (`IdleForEver`): from the first idle rollout the selected
  leaf is at the depth limit.
* `AnchorsCount` (`AnchorsCounted`): an agent in the middle of its update has
  read less than was evaluated, and an evaluated output is counted or about to be
  (`AnchorInv`).
* `BudgetsKept` (`BudgetKept`): what a round accepts is what `Accepted` computes
  from its outputs in the order of their arrival, which never adds one over the
  budget, by induction over that order.
* `CallsWithin` (`CallsBounded`): `CallsLeft` says, for each place in each mode,
  how many calls are still possible; calls made and calls left never exceed the
  bound (`CallInv`). The sizes it is counted in are kept by `RunInv`.
* `Deliberates` (`ImplementsDeliberation`): who settles or writes has a
  candidate, and a tree of thought with branches tried but none answered has just
  seen a call fail (`Solid`).

**ExchangeProofs**, any documents, chunk sizes, limits, tools and failures.

* `ToolsCarriedOut` (`ToolRepeats`), `RepliesInOrder` (`AnsweredInOrder`): the
  calls before the one whose turn it is were carried out as often as their class
  allows at most, it itself as often as it was tried, those behind it not at all;
  and an output was told of a call that was carried out (`ToolInv`).
* `ChunksHoldText` (`ChunksCover`): lemmas about texts (what is without certain
  bytes, joined, trimmed, cut in two) lead to: the next chunk begins where the
  last one ends, and what is cut away between them is blank. `SplitCovers` and
  `FirstCover` are the induction over the chunks, `DocumentInv` says that a run's
  chunks are those of the document whose turn it is.
* `RequestsWithin` (`ExchangeBounded`): the requests of a stage are those of the
  answered calls, each tried `RetryMax + 1` times at most, and of the call under
  way (`CountInv`); calls are counted by documents and chunks, or by iterations.
* `CompletionTyped` (`TypeOK` of `Completion`) joins `RunInv`, `ToolInv`,
  `DocumentInv`, `CountInv` and `ToolTypes`.

Recursion. The model goes through sequences with recursive functions (`Accepted`,
`Without`, `splitChunks`, `parseDecomposeSubtasks`). The library's induction
theorems take an operator as a parameter, which the installed provers cannot
instantiate; `ReasonerProofs` therefore begins with induction and recursion
stated for sets and functions: a set of numbers has a least one (`SomeLeast`,
from the well-foundedness of inclusion of finite sets), what passes from a value
to those that refer to it holds of all (`ByRank`), and a function computed from
values of lower rank exists (`Recursion`, with `CountUp` and `Iterate` for the
counts of the model).

Only model-checked: `MarkReleased`, `SnapshotConverges`, `EveryTurnEnds` and
`LoneCallEnds`, since liveness under fairness is out of the prover's reach; and
the violations, which are counterexamples.

## 5. Observations

The three violated runs are the findings of `PROJECT.json`. Met while modelling
and not given a run:

* `router.go:235`: an ideal model that is installed but refused by the tenant's
  allow-list takes the "missing" branch and is pulled again.
* `router.go:630`: when the disk statistics fail in the middle of a pass, the
  pass deletes on with neither the disk nor `MaxModels` as a limit.
* `router.go:628`: a model used after the candidates were sorted keeps its place.
* `router.go:657`: the map published after pruning was loaded before it and may
  hide what a pull has published since; the next tick repairs it
  (`SnapshotConverges`).
* `http/server.go:1747`: the quota a tenant is given is stored and never read
  again; the limiter knows only the global rate (`UpsertQuota` changes nothing
  that admission depends on).
* `store/pocketbase/store.go:680`: PocketBase nodes are matched to a session
  without regard to case, while every other use of a session id is exact; the
  sessions of the model differ in more than case.
* `store/pocketbase/store.go:669`: the list of a session's nodes is cut before
  it is filtered, so a busy tenant's other sessions can empty it (`Lists`).
* `store/pocketbase/store.go:240`: a caller that gets a 401 clears whatever token
  there is by then, also one another caller has just obtained. Two callers can
  go on clearing each other's token for ever; `LoneCallEnds` is therefore stated
  for a caller on its own. The check of the scopes reads the account without the
  lock and may use those of an earlier authentication.
* `reasoning/multiagent.go:299`: the goroutines of a round write one Go map,
  `anchorsUsed`; the runtime may end the whole process (`ConcurrentMapWrites`).
* `reasoning/mcts.go:84`: once a rollout has ended at the depth limit every later
  one does the same (`IdleForEver`); siblings of a first child are only ever
  reached as leaves.
* `reasoning/executor.go:733`: without pruning, tree of thought quotes its first
  three branches and not its best.
* `reasoning/mcts.go:183`, `multiagent.go:155`: when pruning leaves nothing, the
  baseline may be asked for a second time.
* `reasoning/multiagent.go:342`: a request may ask for four rounds and any token
  budget, whatever is configured. A refinement round may run one role twice.
* `reasoning/executor.go:481`: tree of thought goes on calling after its deadline
  has passed; a baseline's answer is discarded when it passes meanwhile.
* `http/toolcalling.go:74`: the tools of the last iteration are run although
  nobody reads their results; the tool calls of one answer are not limited; a
  call without an id gets one that the assistant message does not have.
* `http/server.go:965`: the fallback model repeats the whole tool loop, so a tool
  that changes something may act once for each model (`ToolRepeats` counts per
  loop).
* `upstream/openwebui/client.go:81`: the end of the context counts as a transient
  error, so a request that is already late is tried as often as any.
* `document/orchestrator.go:334`: blank documents count against the limit;
  `266`: chunks may be empty or split a character of several bytes.
* `router.go:686`: only the configured name of the default model is protected,
  the installed alias it resolves to may be pruned.
* `ratelimit/ratelimit.go:39`: buckets are never removed.
* `state/manager.go`: sessions are kept by their id alone, for the life of the
  process.
* `http/server.go:1079`: when a later reflection pass fails, the revision an
  earlier pass adopted is kept although the status says error.

## 6. Not modelled

Text processing (extraction, injection, classification, prompts, scoring
formulas, geometry and worldview fusion), HTTP and JSON encoding, configuration
parsing, authentication (a stateless lookup), the averages of the session state
(floats that no step of another component waits for; their effect on the request
hash is a version number in Idempotency), the admin endpoints that write one row
each, the terminal client. Floating point is replaced by integers at the
precision the decisions use. The data race of deleting from a map others read is
taken as an atomic delete. See `components` in `PROJECT.json`.

## 7. Plan

Done, in this order: JITInventory, Idempotency, RateLimit, Turn and
ChatPipeline, MemoryDynamics, each with its proofs; StoreClient, Reasoner with
its modes and Deliberation, Documents, ToolLoop, Exchange, Completion; then the
proofs of the later modules and of what had been left to TLC of the earlier.

Next, most important first:

1. An abstract specification of the exchange (one answer or one error, grounded
   on summaries or not) that `Exchange` implements, as `Reasoner` does
   `Deliberation`, and the proof.
2. The router's candidate order and name resolution as pure operators checked
   against reference definitions, and lemmas about them.
3. Of the store client, that the retries of a single caller are bounded.

Runs are kept to one per distinct question: modules that a request never uses at
the same time share one configuration through the module that composes them.
