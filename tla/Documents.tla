------------------------------ MODULE Documents ------------------------------
(***************************************************************************)
(* Prepare of internal/document/orchestrator.go: every chunk of every      *)
(* document is summarised by one call, then the document by one more, and  *)
(* the summaries become a message in front of the request's own.  The      *)
(* first failure ends the stage, and the request goes on as it came        *)
(* (internal/http/server.go:567).                                          *)
(*                                                                         *)
(* A text is a sequence of "x", "." and " ", for a letter, a mark at which *)
(* a text may be split, and a space, at which it may be split too.  What   *)
(* the summaries and the links between them say is left out.               *)
(***************************************************************************)
EXTENDS UpstreamCall, FiniteSets

CONSTANTS
    Inputs,         \* sequences of texts that may come with a request
    AskedSizes,     \* chunk sizes a request may ask for; 0 is "not given"
    AskedLimits,    \* numbers of documents a request may ask for; likewise
    DefaultChunkSize,
    MaxDocuments,
    MaxChunksPerDoc

ASSUME DocumentAssumption ==
    /\ Inputs \subseteq Seq(Seq({"x", ".", " "}))
    /\ DefaultChunkSize \in Nat \ {0}
    /\ MaxDocuments \in Nat \ {0}
    /\ MaxChunksPerDoc \in Nat \ {0}
    /\ AskedSizes \subseteq Nat
    /\ AskedLimits \subseteq Nat

VARIABLES
    documents,  \* processed: what trimDocuments leaves
    chunkSize,  \* resolveChunkSize(req)
    chunks,     \* of the first document in documents
    chunk,      \* chunks summarised
    stageLate,  \* has the stage's own context ended?
    grounded    \* are the summaries in the request's messages?

documentVars == <<documents, chunkSize, chunks, chunk, stageLate, grounded>>

-----------------------------------------------------------------------------
(* Texts.                                                                  *)

\* The elements of s that are not bad, in order.
Without(s, bad) ==
    LET kept[i \in 0..Len(s)] ==
          IF i = 0 THEN <<>>
          ELSE IF s[i] \in bad THEN kept[i - 1] ELSE Append(kept[i - 1], s[i])
    IN  kept[Len(s)]

\* strings.TrimSpace
TrimSpace(t) ==
    LET solid == {i \in 1..Len(t) : t[i] # " "}
    IN  IF solid = {} THEN <<>>
        ELSE LET first == CHOOSE i \in solid : \A j \in solid : i <= j
                 last == CHOOSE i \in solid : \A j \in solid : i >= j
             IN  SubSeq(t, first, last)

\* Mutant: the mark at the split is skipped, and so is a letter when there is none.
splitChunksSkipping(text, size) ==
    LET t == TrimSpace(text)
        from[start \in 0..Len(t)] ==
          IF start = Len(t) THEN <<>>
          ELSE IF start + size >= Len(t) THEN <<TrimSpace(SubSeq(t, start + 1, Len(t)))>>
          ELSE LET marks == {k \in 1..size - 1 : t[start + k + 1] \in {".", " "}}
                   split == IF marks = {} THEN size
                            ELSE CHOOSE k \in marks : \A l \in marks : k >= l
               IN  <<TrimSpace(SubSeq(t, start + 1, start + split))>> \o from[start + split + 1]
    IN  from[0]

\* splitChunks: a chunk ends before the last mark in it that is not its first
\* byte, and the next one begins with that mark.
splitChunks(text, size) ==
    LET t == TrimSpace(text)
        from[start \in 0..Len(t)] ==
          IF start = Len(t) THEN <<>>
          ELSE IF start + size >= Len(t) THEN <<TrimSpace(SubSeq(t, start + 1, Len(t)))>>
          ELSE LET marks == {k \in 1..size - 1 : t[start + k + 1] \in {".", " "}}
                   split == IF marks = {} THEN size
                            ELSE CHOOSE k \in marks : \A l \in marks : k >= l
               IN  <<TrimSpace(SubSeq(t, start + 1, start + split))>> \o from[start + split]
    IN  from[0]

\* Mutant: the cap on chunks is left out.
FirstChunksAll(s) == s

FirstChunks(s) == SubSeq(s, 1, IF Len(s) < MaxChunksPerDoc THEN Len(s) ELSE MaxChunksPerDoc)

ChunksOf(docs, size) == IF docs = <<>> THEN <<>> ELSE FirstChunks(splitChunks(Head(docs), size))

\* trimDocuments: of the first max documents those that are not blank.
trimDocuments(docs, max) ==
    LET first == SubSeq(docs, 1, IF Len(docs) < max THEN Len(docs) ELSE max)
    IN  Without(first, {first[i] : i \in {j \in 1..Len(first) : TrimSpace(first[j]) = <<>>}})

resolveChunkSize(asked) == IF asked > 0 THEN asked ELSE DefaultChunkSize

\* A request may ask for fewer documents, never for more.
resolveMaxDocuments(asked) == IF asked > 0 /\ asked < MaxDocuments THEN asked ELSE MaxDocuments

-----------------------------------------------------------------------------
(* The stage.                                                              *)

DocumentsTypeOK ==
    /\ Len(documents) <= MaxDocuments
    /\ chunkSize \in Nat
    /\ chunk \in 0..Len(chunks)
    /\ stageLate \in BOOLEAN
    /\ grounded \in BOOLEAN
    /\ grounded => where # "documents"

DocumentsInit ==
    /\ \E docs \in Inputs, max \in AskedLimits :
          documents = trimDocuments(docs, resolveMaxDocuments(max))
    /\ \E size \in AskedSizes : chunkSize = resolveChunkSize(size)
    /\ chunks = ChunksOf(documents, chunkSize)
    /\ chunk = 0
    /\ stageLate = FALSE
    /\ grounded = FALSE

\* The stage is left: nothing remains of it but the request's messages.
LeaveStage(applied) ==
    /\ where' = "prepare"
    /\ documents' = <<>>
    /\ chunks' = <<>>
    /\ chunk' = 0
    /\ grounded' = applied
    /\ stageLate' = FALSE
    /\ chunkSize' = 0
    /\ attempt' = 0
    /\ requests' = 0
    /\ UNCHANGED late

NoDocuments ==
    /\ where = "documents"
    /\ documents = <<>>
    /\ LeaveStage(FALSE)

summarizeChunk ==
    /\ where = "documents"
    /\ chunk < Len(chunks)
    /\ ChatAnswers(late \/ stageLate)
    /\ chunk' = chunk + 1
    /\ UNCHANGED <<where, late, documents, chunkSize, chunks, stageLate, grounded>>

summarizeDocument ==
    /\ where = "documents"
    /\ documents # <<>>
    /\ chunk = Len(chunks)
    /\ \/ /\ Len(documents) > 1
          /\ ChatAnswers(late \/ stageLate)
          /\ documents' = Tail(documents)
          /\ chunks' = ChunksOf(Tail(documents), chunkSize)
          /\ chunk' = 0
          /\ UNCHANGED <<where, late, chunkSize, stageLate, grounded>>
       \/ /\ Len(documents) = 1
          /\ ~late /\ ~stageLate
          /\ LeaveStage(TRUE)

SummaryRepeats ==
    /\ where = "documents"
    /\ documents # <<>>
    /\ ChatRepeats(late \/ stageLate)
    /\ UNCHANGED <<where, late, documentVars>>

SummaryFails ==
    /\ where = "documents"
    /\ documents # <<>>
    /\ ChatMayFail(late \/ stageLate)
    /\ LeaveStage(FALSE)

\* DocumentStageTimeout
StageExpires ==
    /\ where = "documents"
    /\ ~stageLate
    /\ stageLate' = TRUE
    /\ UNCHANGED <<where, late, callVars, documents, chunkSize, chunks, chunk, grounded>>

DocumentsStep ==
    \/ NoDocuments \/ summarizeChunk \/ summarizeDocument
    \/ SummaryRepeats \/ SummaryFails \/ StageExpires

=============================================================================
