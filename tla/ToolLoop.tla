------------------------------ MODULE ToolLoop ------------------------------
(***************************************************************************)
(* chatWithTools of internal/http/toolcalling.go and Call of internal/     *)
(* toolcalling/client.go: the model is asked, the tools it calls are run,  *)
(* their results are told to it, and so on for a number of iterations.     *)
(* When the loop ends in an error and the tenant has a fallback model, the *)
(* handler runs the whole loop again, from the request's own messages      *)
(* (internal/http/server.go:965).                                          *)
(*                                                                         *)
(* What a tool does happens at the tool server: an answer that comes too   *)
(* late, or not at all, says nothing about whether it happened.            *)
(***************************************************************************)
EXTENDS UpstreamCall

CONSTANTS
    ToolNames,      \* names the model may call
    MaxIterations,  \* cfg.ToolCallingMaxIterations: 4 when not configured
    MaxToolCalls,   \* bound: tool calls in one answer, which the code does not limit
    MaxFailures     \* bound: tool calls that fail in one run

ASSUME ToolAssumption ==
    /\ MaxIterations \in Nat \ {0}
    /\ MaxToolCalls \in Nat \ {0}
    /\ MaxFailures \in Nat

Supported == {"web_search", "fetch_url", "http_request", "vector_retrieve", "code_exec_sandbox"}
Failures == {"net", "4xx", "429", "5xx"}

VARIABLES
    tools,      \* the request brings tools of its own, asks for them, or neither
    enabled,    \* s.tools.Enabled()
    cache,      \* c.cachedTools: empty, fresh, or older than cacheTTL
    fallback,   \* may the policy's fallback model be asked?
    loop,       \* 1, or 2 for the run with the fallback model
    iter,       \* answers of the model
    asked,      \* the tools its latest answer calls, in order
    replies,    \* what it is told of each: an output or an error
    served,     \* observer: how often each call was carried out
    try,        \* of the present call
    failures    \* tool calls that failed in this run

toolVars == <<tools, enabled, cache, fallback, loop, iter, asked, replies, served, try, failures>>

ToolsTypeOK ==
    /\ tools \in {"none", "own", "auto"}
    /\ enabled \in BOOLEAN
    /\ cache \in {"empty", "fresh", "stale"}
    /\ fallback \in BOOLEAN
    /\ loop \in {1, 2}
    /\ iter \in 0..MaxIterations
    /\ asked \in Seq(ToolNames)
    /\ replies \in Seq({"output", "error"})
    /\ DOMAIN served = DOMAIN asked
    /\ try \in 0..2
    /\ try > 0 => where = "tools"
    /\ failures \in 0..MaxFailures

ToolsInit ==
    /\ tools \in {"none", "own", "auto"}
    /\ enabled \in BOOLEAN
    /\ cache = "empty"
    /\ fallback \in BOOLEAN
    /\ loop = 1
    /\ iter = 0
    /\ asked = <<>>
    /\ replies = <<>>
    /\ served = <<>>
    /\ try = 0
    /\ failures = 0

\* The loop returns an error: the handler's last resort, or a 502.
LoopFails ==
    /\ \/ /\ loop = 1 /\ fallback
          /\ loop' = 2
          /\ where' = "prepare"
       \/ /\ loop = 2 \/ ~fallback
          /\ UNCHANGED loop
          /\ where' = "failed"
    /\ iter' = 0
    /\ asked' = <<>>
    /\ replies' = <<>>
    /\ served' = <<>>
    /\ try' = 0
    /\ failures' = 0
    /\ attempt' = 0
    /\ requests' = 0
    /\ UNCHANGED <<late, tools, enabled, cache, fallback>>

Loop(next) ==
    /\ where' = next
    /\ UNCHANGED <<late, tools, enabled, fallback, loop, iter, asked, replies, served, try, failures>>

-----------------------------------------------------------------------------
(* The tools on offer.                                                     *)

prepareTools ==
    /\ where = "prepare"
    /\ \/ tools = "none" /\ Loop("plain") /\ UNCHANGED <<callVars, cache>>
       \/ tools = "own" /\ enabled /\ Loop("ask") /\ UNCHANGED <<callVars, cache>>
       \/ tools = "auto" /\ enabled /\ cache = "fresh" /\ Loop("ask") /\ UNCHANGED <<callVars, cache>>
       \/ tools = "auto" /\ enabled /\ cache # "fresh" /\ Loop("fetch") /\ UNCHANGED <<callVars, cache>>
       \/ tools # "none" /\ ~enabled /\ LoopFails

fetchToolDefinitions ==
    /\ where = "fetch"
    /\ \/ ~late /\ cache' = "fresh" /\ Loop("ask") /\ UNCHANGED callVars
       \/ LoopFails

\* Time passes, or another request has fetched the definitions.
CacheChanges ==
    /\ where \in {"documents", "prepare", "fetch"}
    /\ cache' = IF cache = "fresh" THEN "stale" ELSE "fresh"
    /\ Loop(where)
    /\ UNCHANGED callVars

-----------------------------------------------------------------------------
(* The model.                                                              *)

Asking == where \in {"plain", "ask"}

ModelRepeats ==
    /\ Asking
    /\ ChatRepeats(late)
    /\ Loop(where)
    /\ UNCHANGED cache

ModelFails ==
    /\ Asking
    /\ ChatMayFail(late)
    /\ LoopFails

\* No choices, no tool calls, or no tools to call.
ModelAnswers ==
    /\ Asking
    /\ ChatAnswers(late)
    /\ Loop("answered")
    /\ UNCHANGED cache

ModelCallsTools ==
    /\ where = "ask"
    /\ ChatAnswers(late)
    /\ \E n \in 1..MaxToolCalls : \E called \in [1..n -> ToolNames] :
          /\ asked' = called
          /\ served' = [i \in 1..n |-> 0]
    /\ replies' = <<>>
    /\ iter' = iter + 1
    /\ where' = "tools"
    /\ UNCHANGED <<late, tools, enabled, cache, fallback, loop, try, failures>>

-----------------------------------------------------------------------------
(* The tools.                                                              *)

\* Mutant: one more than the contract.
policyForOneMore(tool) ==
    CASE tool = "web_search" -> 2
      [] tool = "fetch_url" -> 1
      [] tool = "vector_retrieve" -> 2
      [] OTHER -> 0

\* policyFor: retries.
policyFor(tool) ==
    CASE tool = "web_search" -> 2
      [] tool = "fetch_url" -> 1
      [] tool = "vector_retrieve" -> 1
      [] OTHER -> 0

shouldRetry(tool, why) ==
    \/ why \in {"net", "5xx"} /\ tool \in {"web_search", "fetch_url", "vector_retrieve"}
    \/ why = "429" /\ tool = "vector_retrieve"

\* The call whose turn it is.
Turn == Len(replies) + 1
Calling == where = "tools" /\ Turn <= Len(asked)

Told(what) ==
    /\ replies' = Append(replies, what)
    /\ try' = 0

\* Without a round trip.
UnsupportedTool ==
    /\ Calling
    /\ asked[Turn] \notin Supported
    /\ Told("error")
    /\ UNCHANGED <<where, late, callVars, tools, enabled, cache, fallback, loop, iter, asked, served, failures>>

ToolAnswers ==
    /\ Calling
    /\ asked[Turn] \in Supported
    /\ ~late
    /\ served' = [served EXCEPT ![Turn] = @ + 1]
    /\ Told("output")
    /\ UNCHANGED <<where, late, callVars, tools, enabled, cache, fallback, loop, iter, asked, failures>>

\* Mutant: the error of the last try is forgotten.
ToolFailsForgotten ==
    /\ Calling
    /\ asked[Turn] \in Supported
    /\ failures < MaxFailures \/ late
    /\ failures' = IF late THEN failures ELSE failures + 1
    /\ Told("output")
    /\ UNCHANGED <<where, late, callVars, tools, enabled, cache, fallback, loop, iter, asked, served>>

\* A failed try, of a call carried out or not; the model is told of the last.
ToolFails ==
    /\ Calling
    /\ asked[Turn] \in Supported
    /\ failures < MaxFailures \/ late
    /\ failures' = IF late THEN failures ELSE failures + 1
    /\ \/ ~late /\ served' = [served EXCEPT ![Turn] = @ + 1]
       \/ UNCHANGED served
    /\ \E why \in IF late THEN {"net"} ELSE Failures :
          IF try < policyFor(asked[Turn]) /\ shouldRetry(asked[Turn], why)
          THEN try' = try + 1 /\ UNCHANGED replies
          ELSE Told("error")
    /\ UNCHANGED <<where, late, callVars, tools, enabled, cache, fallback, loop, iter, asked>>

\* After the last iteration nobody reads what the tools have found.
ToolsDone ==
    /\ where = "tools"
    /\ Turn > Len(asked)
    /\ \/ iter < MaxIterations /\ Loop("ask") /\ UNCHANGED <<callVars, cache>>
       \/ iter = MaxIterations /\ LoopFails

ToolsStep ==
    \/ prepareTools \/ fetchToolDefinitions \/ CacheChanges
    \/ ModelRepeats \/ ModelFails \/ ModelAnswers \/ ModelCallsTools
    \/ UnsupportedTool \/ ToolAnswers \/ ToolFails \/ ToolsDone

=============================================================================
