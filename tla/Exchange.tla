------------------------------ MODULE Exchange ------------------------------
(***************************************************************************)
(* The subcalls of one request without a mode of reasoning: the documents  *)
(* that come with it are summarised, then the model is asked, with tools   *)
(* and in the end with the policy's fallback model (chatCompletions of     *)
(* internal/http/server.go).                                               *)
(***************************************************************************)
EXTENDS Documents, ToolLoop

exchangeVars == <<where, late, callVars, documentVars, toolVars>>

ExchangeInit ==
    /\ where = "documents"
    /\ late = FALSE
    /\ attempt = 0
    /\ requests = 0
    /\ DocumentsInit
    /\ ToolsInit

\* A request that is not answered this way.
Aside ==
    /\ where = "aside"
    /\ late = FALSE
    /\ attempt = 0 /\ requests = 0
    /\ documents = <<>> /\ chunkSize = 0 /\ chunks = <<>> /\ chunk = 0
    /\ stageLate = FALSE /\ grounded = FALSE
    /\ tools = "none" /\ enabled = FALSE /\ cache = "empty" /\ fallback = FALSE
    /\ loop = 1 /\ iter = 0 /\ asked = <<>> /\ replies = <<>> /\ served = <<>>
    /\ try = 0 /\ failures = 0

ExchangeNext ==
    \/ DocumentsStep /\ UNCHANGED toolVars
    \/ ToolsStep /\ UNCHANGED documentVars
    \/ Leave /\ UNCHANGED <<documentVars, toolVars>>

ExchangeTypeOK ==
    /\ where \in {"documents", "prepare", "fetch", "plain", "ask", "tools", "answered", "failed",
              "aside"}
    /\ late \in BOOLEAN
    /\ attempt \in 0..RetryMax
    /\ requests \in Nat
    /\ DocumentsTypeOK
    /\ ToolsTypeOK

-----------------------------------------------------------------------------
(* Properties.                                                             *)

\* The texts of s, one after the other, and the bytes of a text that are no spaces.
Joined(s) ==
    LET joined[i \in 0..Len(s)] == IF i = 0 THEN <<>> ELSE joined[i - 1] \o s[i]
    IN  joined[Len(s)]

Squeeze(t) == Without(t, {" "})

Chunked(cs, text, size) ==
    LET whole == Squeeze(text)
        part == Squeeze(Joined(cs))
    IN  /\ part = SubSeq(whole, 1, Len(part))
        /\ Len(cs) < MaxChunksPerDoc => part = whole
        /\ \A i \in 1..Len(cs) : Len(cs[i]) <= size

\* The chunks of a document hold all of its text, in order and nothing twice,
\* up to the cap on their number, and none is longer than asked for: whatever
\* marks and spaces there are to split at, and in how small chunks
\* (splitChunks, whose next chunk begins at the mark where the last one ends).
ChunksCover == documents # <<>> => Chunked(chunks, Head(documents), chunkSize)

\* The requests that a stage of one chat request can cause at the upstream, by
\* the server's configuration alone: whatever documents, limits and chunk sizes
\* it asks for, and however the model goes on calling tools
\* (resolveMaxDocuments, MaxChunksPerDoc, maxIters, retryMax).  There is one
\* stage of documents and there are two loops at most.
ExchangeBounded ==
    requests <= (RetryMax + 1) * IF where = "documents" THEN MaxDocuments * (MaxChunksPerDoc + 1)
                                                     ELSE MaxIterations

\* A tool that changes something is carried out once at most for each call the
\* model makes of it in a loop, however its answer is lost, and the others as
\* often as the contract says (CHANGELOG.md:232-236): the cap on retries and the
\* class of the failure are two conditions (policyFor, shouldRetry).
ToolRepeats ==
    \A k \in 1..Len(asked) :
        served[k] <= CASE asked[k] = "web_search" -> 3
                       [] asked[k] \in {"fetch_url", "vector_retrieve"} -> 2
                       [] asked[k] \in {"http_request", "code_exec_sandbox"} -> 1
                       [] OTHER -> 0

\* When the model is asked again it has been told one thing of every tool it
\* called, in the order of its calls, and an output only of one that was
\* carried out; also when some were unknown, failed or were tried several times.
AnsweredInOrder ==
    where = "ask" =>
      /\ Len(replies) = Len(asked)
      /\ \A k \in 1..Len(replies) : replies[k] = "output" => served[k] > 0

=============================================================================
