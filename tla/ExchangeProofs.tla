---------------------------- MODULE ExchangeProofs ----------------------------
(***************************************************************************)
(* What holds of one request's subcalls for any documents, any chunk sizes *)
(* and limits it may ask for, any tools and any pattern of failures.       *)
(*                                                                         *)
(* ToolInv is about the loop over tools: how often the call whose turn it  *)
(* is can have been carried out is bounded by its tries, and that of those *)
(* before it by the contract of their tools.  DocumentInv says whose the   *)
(* chunks are, and the lemmas on texts before it what cutting, trimming    *)
(* and joining do to a text.  CountInv counts the requests of a stage      *)
(* against the calls that were answered.  With ToolTypes they give the     *)
(* types of Completion.  The operators that go through a text are          *)
(* recursive functions: the lemmas on induction of ReasonerProofs serve.   *)
(***************************************************************************)
EXTENDS ReasonerProofs

\* Which step of which component a step of the exchange is.
LEMMA ExchangeCases ==
    ASSUME [Next]_vars
    PROVE  \/ UNCHANGED exchangeVars
           \/ Leave /\ UNCHANGED <<documentVars, toolVars>>
           \/ DocumentsStep /\ UNCHANGED toolVars
           \/ ToolsStep /\ UNCHANGED documentVars
  BY DEF Next, vars, ExchangeNext

-----------------------------------------------------------------------------
(* The tools.                                                              *)

\* How often a call of a tool may be carried out.
Limit(tool) == IF tool \in Supported THEN policyFor(tool) + 1 ELSE 0

ToolInv ==
    /\ asked \in Seq(ToolNames)
    /\ replies \in Seq({"output", "error"})
    /\ Len(replies) <= Len(asked)
    /\ served \in [1..Len(asked) -> Nat]
    /\ try \in Nat
    /\ try > 0 => where = "tools" /\ Turn <= Len(asked) /\ try <= policyFor(asked[Turn])
    /\ where \in {"documents", "prepare", "fetch"} => asked = <<>>
    /\ where = "ask" => Len(replies) = Len(asked)
    /\ \A k \in 1..Len(asked) :
         /\ k < Turn => served[k] <= Limit(asked[k])
         /\ k = Turn => served[k] <= try
         /\ k > Turn => served[k] = 0
    /\ \A k \in 1..Len(replies) : replies[k] = "output" => served[k] > 0

LEMMA ToolInit == Init => ToolInv
<1> SUFFICES ASSUME Init PROVE ToolInv
  OBVIOUS
<1>1. asked = <<>> /\ replies = <<>> /\ served = <<>> /\ try = 0
  BY DEF Init, Aside, ExchangeInit, ToolsInit
<1>2. where \in {"documents", "aside"}
  BY DEF Init, Aside, ExchangeInit
<1>3. <<>> \in [1..0 -> Nat] /\ Len(asked) = 0 /\ Len(replies) = 0
  BY <1>1
<1> QED
  BY <1>1, <1>2, <1>3 DEF ToolInv, Turn

\* The loop starts again, or has ended, with nothing asked.
LEMMA ToolFresh ==
    ASSUME asked' = <<>>, replies' = <<>>, served' = <<>>, try' = 0
    PROVE  ToolInv'
<1>1. <<>> \in [1..0 -> Nat] /\ Len(asked') = 0 /\ Len(replies') = 0
  OBVIOUS
<1> QED
  BY <1>1 DEF ToolInv, Turn

\* The handler goes elsewhere; what was asked and told stays.
LEMMA ToolRests ==
    ASSUME ToolInv, UNCHANGED <<asked, replies, served, try>>, try > 0 => where' = "tools",
           where' \in {"documents", "prepare", "fetch"} => asked = <<>>,
           where' = "ask" => Len(replies) = Len(asked)
    PROVE  ToolInv'
  BY DEF ToolInv, Turn

LEMMA ToolCalls ==
    ASSUME ToolInv, ModelCallsTools PROVE ToolInv'
<1>1. PICK n \in 1..MaxToolCalls : \E called \in [1..n -> ToolNames] :
        asked' = called /\ served' = [i \in 1..n |-> 0]
  BY DEF ModelCallsTools
<1>2. n \in Nat
  BY ToolAssumption
<1>3. asked' \in Seq(ToolNames) /\ Len(asked') = n
  BY <1>1, <1>2
<1>4. try' = 0 /\ replies' = <<>> /\ where' = "tools"
  BY DEF ModelCallsTools, ToolInv
<1>5. served' \in [1..Len(asked') -> Nat] /\ \A k \in 1..Len(asked') : served'[k] = 0
  BY <1>1, <1>3
<1>6. Len(replies') = 0 /\ replies' \in Seq({"output", "error"})
  BY <1>4
<1> QED
  BY <1>2, <1>3, <1>4, <1>5, <1>6, 0 <= n DEF ToolInv, Turn

LEMMA Policies ==
    ASSUME NEW tool PROVE policyFor(tool) \in 0..2 /\ Limit(tool) \in Nat
  BY DEF policyFor, Limit

LEMMA OneMore ==
    ASSUME NEW n \in Nat, NEW f \in [1..n -> Nat], NEW g, NEW i \in 1..n,
           g = f \/ g = [f EXCEPT ![i] = f[i] + 1]
    PROVE  /\ g \in [1..n -> Nat] /\ (\A k \in 1..n : k # i => g[k] = f[k])
           /\ g[i] \in {f[i], f[i] + 1}
           /\ g = [f EXCEPT ![i] = f[i] + 1] => g[i] = f[i] + 1
<1>1. f[i] + 1 \in Nat
  OBVIOUS
<1> QED
  BY <1>1

\* The call whose turn it is has been carried out once more at most, and is told
\* of for good.
LEMMA ToolTold ==
    ASSUME ToolInv, Calling, NEW what \in {"output", "error"}, Told(what),
           UNCHANGED <<where, asked>>,
           \/ served' = served /\ what = "error"
           \/ asked[Turn] \in Supported /\ served' = [served EXCEPT ![Turn] = served[Turn] + 1]
    PROVE  ToolInv'
<1>1. /\ where = "tools" /\ Turn \in 1..Len(asked) /\ Turn = Len(replies) + 1 /\ Len(replies) \in Nat
      /\ Len(asked) \in Nat
  BY DEF Calling, Turn, ToolInv
<1>2. replies' = Append(replies, what) /\ try' = 0
  BY DEF Told
<1>3. /\ replies' \in Seq({"output", "error"}) /\ Len(replies') = Turn /\ replies'[Turn] = what
      /\ \A k \in 1..Len(replies) : replies'[k] = replies[k]
  BY <1>1, <1>2, AppendProperties DEF ToolInv
<1>4. Turn' = Turn + 1
  BY <1>3 DEF Turn
<1>5. try <= policyFor(asked[Turn]) /\ policyFor(asked[Turn]) \in Nat /\ served[Turn] <= try
      /\ served[Turn] \in Nat /\ try \in Nat
  <2>1. policyFor(asked[Turn]) \in Nat /\ policyFor(asked[Turn]) >= 0
    BY Policies
  <2>2. served[Turn] <= try /\ served[Turn] \in Nat /\ try \in Nat
    BY <1>1 DEF ToolInv
  <2>3. try > 0 => try <= policyFor(asked[Turn])
    BY DEF ToolInv
  <2> QED
    BY <2>1, <2>2, <2>3
<1>6. served' \in [1..Len(asked) -> Nat] /\ \A k \in 1..Len(asked) : k # Turn => served'[k] = served[k]
  <2>1. served \in [1..Len(asked) -> Nat]
    BY DEF ToolInv
  <2>2. served' = served \/ served' = [served EXCEPT ![Turn] = served[Turn] + 1]
    OBVIOUS
  <2> QED
    BY <1>1, <2>1, <2>2, OneMore
<1>7. /\ served'[Turn] <= Limit(asked[Turn])
      /\ what = "output" => served'[Turn] > 0
  <2>1. CASE served' = served /\ what = "error"
    <3>1. asked[Turn] \notin Supported => policyFor(asked[Turn]) = 0
      BY DEF Supported, policyFor
    <3> QED
      BY <1>5, <2>1, <3>1 DEF Limit
  <2>2. CASE asked[Turn] \in Supported /\ served' = [served EXCEPT ![Turn] = served[Turn] + 1]
    <3>1. served'[Turn] = served[Turn] + 1
      BY <1>1, <2>2, OneMore DEF ToolInv
    <3> QED
      BY <1>5, <2>2, <3>1 DEF Limit
  <2> QED
    BY <2>1, <2>2
<1>8. ASSUME NEW k \in 1..Len(asked)
      PROVE  /\ k < Turn' => served'[k] <= Limit(asked[k])
             /\ k = Turn' => served'[k] <= 0
             /\ k > Turn' => served'[k] = 0
  BY <1>1, <1>4, <1>6, <1>7 DEF ToolInv
<1>9. ASSUME NEW k \in 1..Len(replies'), replies'[k] = "output" PROVE served'[k] > 0
  <2>1. CASE k = Turn
    BY <1>3, <1>7, <1>9, <2>1
  <2>2. CASE k # Turn
    <3>1. k \in 1..Len(replies) /\ k \in 1..Len(asked) /\ k # Turn
      BY <1>1, <1>3, <2>2
    <3>2. replies[k] = "output"
      BY <1>3, <1>9, <3>1
    <3>3. served[k] > 0
      BY <3>1, <3>2 DEF ToolInv
    <3> QED
      BY <1>6, <3>1, <3>3
  <2> QED
    BY <2>1, <2>2
<1> QED
  BY <1>1, <1>2, <1>3, <1>4, <1>6, <1>8, <1>9 DEF ToolInv

\* The call is tried again.
LEMMA ToolTriedAgain ==
    ASSUME ToolInv, Calling, try < policyFor(asked[Turn]), try' = try + 1,
           UNCHANGED <<where, asked, replies>>,
           served' = served \/ served' = [served EXCEPT ![Turn] = served[Turn] + 1]
    PROVE  ToolInv'
<1>1. /\ where = "tools" /\ Turn \in 1..Len(asked) /\ Turn = Len(replies) + 1 /\ Len(replies) \in Nat
      /\ Len(asked) \in Nat /\ Turn' = Turn
  BY DEF Calling, Turn, ToolInv
<1>2. served[Turn] \in Nat /\ try \in Nat /\ served[Turn] <= try /\ policyFor(asked[Turn]) \in Nat
  BY <1>1, Policies DEF ToolInv
<1>3. /\ served' \in [1..Len(asked) -> Nat] /\ \A k \in 1..Len(asked) : k # Turn => served'[k] = served[k]
      /\ served'[Turn] \in {served[Turn], served[Turn] + 1}
  <2>1. served \in [1..Len(asked) -> Nat]
    BY DEF ToolInv
  <2> QED
    BY <1>1, <2>1, OneMore
<1>4. ASSUME NEW k \in 1..Len(asked)
      PROVE  /\ k < Turn => served'[k] <= Limit(asked[k])
             /\ k = Turn => served'[k] <= try'
             /\ k > Turn => served'[k] = 0
  BY <1>1, <1>2, <1>3 DEF ToolInv
<1>5. ASSUME NEW k \in 1..Len(replies), replies[k] = "output" PROVE served'[k] > 0
  BY <1>1, <1>3, <1>5 DEF ToolInv
<1> QED
  BY <1>1, <1>2, <1>3, <1>4, <1>5 DEF ToolInv

LEMMA ToolToolFails ==
    ASSUME ToolInv, ToolFails PROVE ToolInv'
<1>1. /\ Calling /\ asked[Turn] \in Supported /\ UNCHANGED <<where, asked>>
      /\ served' = served \/ served' = [served EXCEPT ![Turn] = served[Turn] + 1]
  BY DEF ToolFails
<1>2. \/ Told("error")
      \/ try < policyFor(asked[Turn]) /\ try' = try + 1 /\ UNCHANGED replies
  BY DEF ToolFails
<1> QED
  BY <1>1, <1>2, ToolTold, ToolTriedAgain

LEMMA ToolLoopFails ==
    ASSUME LoopFails PROVE ToolInv'
  BY ToolFresh DEF LoopFails

LEMMA ToolTools ==
    ASSUME ToolInv, ToolsStep PROVE ToolInv'
<1>1. CASE LoopFails
  BY <1>1, ToolLoopFails
<1>2. CASE prepareTools /\ ~LoopFails
  <2>1. /\ where = "prepare" /\ UNCHANGED <<asked, replies, served, try>>
        /\ where' \in {"plain", "ask", "fetch"}
    BY <1>2 DEF prepareTools, Loop
  <2>2. asked = <<>> /\ Len(replies) = Len(asked) /\ try = 0
    BY <2>1 DEF ToolInv
  <2> QED
    BY <2>1, <2>2, ToolRests
<1>3. CASE fetchToolDefinitions /\ ~LoopFails
  <2>1. where = "fetch" /\ UNCHANGED <<asked, replies, served, try>> /\ where' = "ask"
    BY <1>3 DEF fetchToolDefinitions, Loop
  <2>2. asked = <<>> /\ Len(replies) = Len(asked) /\ try = 0
    BY <2>1 DEF ToolInv
  <2> QED
    BY <2>1, <2>2, ToolRests
<1>4. CASE CacheChanges \/ ModelRepeats \/ ModelAnswers
  <2>1. /\ where # "tools" /\ UNCHANGED <<asked, replies, served, try>>
        /\ where' = where \/ where' = "answered"
    BY <1>4 DEF CacheChanges, ModelRepeats, ModelAnswers, Loop, Asking
  <2> QED
    BY <2>1, ToolRests DEF ToolInv
<1>5. CASE ModelFails
  BY <1>1, <1>5 DEF ModelFails
<1>6. CASE ModelCallsTools
  BY <1>6, ToolCalls
<1>7. CASE UnsupportedTool
  BY <1>7, ToolTold DEF UnsupportedTool
<1>8. CASE ToolAnswers
  BY <1>8, ToolTold DEF ToolAnswers
<1>9. CASE ToolFails
  BY <1>9, ToolToolFails
<1>10. CASE ToolsDone /\ ~LoopFails
  <2>1. /\ where = "tools" /\ Turn > Len(asked) /\ where' = "ask"
        /\ UNCHANGED <<asked, replies, served, try>>
    BY <1>10 DEF ToolsDone, Loop
  <2>2. Len(replies) = Len(asked) /\ try = 0
    BY <2>1 DEF ToolInv, Turn
  <2> QED
    BY <2>1, <2>2, ToolRests
<1> QED
  BY <1>1, <1>2, <1>3, <1>4, <1>5, <1>6, <1>7, <1>8, <1>9, <1>10 DEF ToolsStep

LEMMA ToolStep == ToolInv /\ [Next]_vars => ToolInv'
<1> SUFFICES ASSUME ToolInv, [Next]_vars PROVE ToolInv'
  OBVIOUS
<1>1. CASE UNCHANGED exchangeVars
  BY <1>1, ToolRests DEF exchangeVars, toolVars, ToolInv
<1>2. CASE Leave /\ UNCHANGED <<documentVars, toolVars>>
  BY <1>2, ToolRests DEF Leave, toolVars, ToolInv
<1>3. CASE DocumentsStep /\ UNCHANGED toolVars
  <2>1. where = "documents" /\ where' \in {"documents", "prepare"}
    BY <1>3 DEF DocumentsStep, NoDocuments, summarizeChunk, summarizeDocument, SummaryRepeats,
                SummaryFails, StageExpires, LeaveStage
  <2> QED
    BY <1>3, <2>1, ToolRests DEF toolVars, ToolInv
<1>4. CASE ToolsStep
  BY <1>4, ToolTools
<1> QED
  BY <1>1, <1>2, <1>3, <1>4, ExchangeCases

\* A tool that changes something is carried out once for each call at most, the
\* others as often as the contract says, for any tools the model may name and
\* any number of calls (policyFor, shouldRetry, Call).
THEOREM ToolsCarriedOut == Spec => []ToolRepeats
<1>1. ToolInv => ToolRepeats
  <2> SUFFICES ASSUME ToolInv, NEW k \in 1..Len(asked)
               PROVE  served[k] <= CASE asked[k] = "web_search" -> 3
                                     [] asked[k] \in {"fetch_url", "vector_retrieve"} -> 2
                                     [] asked[k] \in {"http_request", "code_exec_sandbox"} -> 1
                                     [] OTHER -> 0
    BY DEF ToolRepeats
  <2>1. served[k] \in Nat /\ Turn \in Nat /\ k \in Nat /\ Limit(asked[k]) \in Nat
    BY Policies DEF ToolInv, Turn
  <2>2. served[k] <= Limit(asked[k])
    <3>1. CASE k < Turn
      BY <3>1 DEF ToolInv
    <3>2. CASE k = Turn
      <4>1. served[k] <= policyFor(asked[k])
        BY <3>2, Policies DEF ToolInv
      <4>2. asked[k] \notin Supported => policyFor(asked[k]) = 0
        BY DEF Supported, policyFor
      <4> QED
        BY <2>1, <4>1, <4>2, Policies DEF Limit
    <3>3. CASE k > Turn
      BY <2>1, <3>3 DEF ToolInv
    <3> QED
      BY <2>1, <3>1, <3>2, <3>3
  <2> QED
    BY <2>1, <2>2 DEF Limit, Supported, policyFor
<1> QED
  BY <1>1, ToolInit, ToolStep, PTL DEF Spec

\* The model that is asked again has been told one thing of every tool it
\* called, and no output of one that was not carried out (chatWithTools).
THEOREM RepliesInOrder == Spec => []AnsweredInOrder
<1>1. ToolInv => AnsweredInOrder
  BY DEF ToolInv, AnsweredInOrder
<1> QED
  BY <1>1, ToolInit, ToolStep, PTL DEF Spec

-----------------------------------------------------------------------------
(* Texts: what trimDocuments and splitChunks compute.                      *)

\* g is what Without has kept of s, after each of its elements.
Keeps(s, bad, g) ==
    /\ g[0] = <<>>
    /\ \A i \in 1..Len(s) : g[i] = IF s[i] \in bad THEN g[i - 1] ELSE Append(g[i - 1], s[i])

LEMMA WithoutKeeps ==
    ASSUME NEW X, NEW s \in Seq(X), NEW bad
    PROVE  \E g \in [0..Len(s) -> Seq(X)] : Keeps(s, bad, g) /\ Without(s, bad) = g[Len(s)]
<1> DEFINE N == Len(s)
           S == Seq(X)
           More(i, before) == IF s[i] \in bad THEN before ELSE Append(before, s[i])
           step == [p \in (1..N) \X S |-> More(p[1], p[2])]
           Taken(f) == [i \in 0..N |-> IF i = 0 THEN <<>> ELSE More(i, f[i - 1])]
<1>1. N \in Nat /\ <<>> \in S
  BY EmptySeq
<1>2. \A i \in 1..N : \A b \in S : More(i, b) \in S
  <2> SUFFICES ASSUME NEW i \in 1..N, NEW b \in S PROVE Append(b, s[i]) \in S
    OBVIOUS
  <2>1. s[i] \in X
    BY ElementOfSeq
  <2> QED BY <2>1, AppendProperties
<1> HIDE DEF More, S, N
<1>3. step \in [(1..N) \X S -> S]
  BY <1>2
<1>4. PICK f \in [0..N -> S] : Iterates(N, <<>>, step, f)
  <2> HIDE DEF step
  <2> QED BY <1>1, <1>3, Iterate
<1>5. f = Taken(f)
  <2>1. \A i \in 0..N : f[i] = IF i = 0 THEN <<>> ELSE More(i, f[i - 1])
    <3> SUFFICES ASSUME NEW i \in 0..N, i # 0 PROVE f[i] = More(i, f[i - 1])
      BY <1>4 DEF Iterates
    <3>1. i \in 1..N /\ i - 1 \in 0..N
      BY <1>1
    <3>2. f[i] = step[<<i, f[i - 1]>>] /\ f[i - 1] \in S
      BY <1>4, <3>1 DEF Iterates
    <3> QED BY <3>1, <3>2
  <2> QED BY <2>1
<1>6. PICK g : g = (CHOOSE h : h = Taken(h))
  OBVIOUS
<1>7. g = Taken(g)
  <2> HIDE DEF Taken
  <2> QED BY <1>5, <1>6
<1> DEFINE P == {i \in 0..N : g[i] \in S}
<1>8. Advances(N, P)
  <2>1. 0 \in P
    BY <1>1, <1>7
  <2>2. ASSUME NEW i \in 1..N, i - 1 \in P PROVE i \in P
    <3>1. i \in 0..N /\ i # 0 /\ g[i] = More(i, g[i - 1])
      BY <1>1, <1>7
    <3> QED BY <1>2, <2>2, <3>1
  <2> QED BY <2>1, <2>2 DEF Advances
<1>9. \A i \in 0..N : g[i] \in S
  <2>1. \A i \in 0..N : i \in P
    <3> HIDE DEF P
    <3> QED BY <1>1, <1>8, CountUp
  <2> QED BY <2>1
<1>10. Without(s, bad) = g[N]
  BY <1>6 DEF Without, More, N
<1>11. g[0] = <<>> /\ \A i \in 1..N : g[i] = More(i, g[i - 1])
  BY <1>1, <1>7
<1>12. g \in [0..N -> S]
  BY <1>7, <1>9
<1> QED BY <1>10, <1>11, <1>12 DEF Keeps, More, N, S

\* There is one way to keep.
LEMMA KeepsOnce ==
    ASSUME NEW s, NEW bad, NEW N \in Nat, Len(s) = N, NEW f, NEW g,
           Keeps(s, bad, f), Keeps(s, bad, g)
    PROVE  \A i \in 0..N : f[i] = g[i]
<1> DEFINE P == {i \in 0..N : f[i] = g[i]}
<1>1. Advances(N, P)
  <2>1. 0 \in P
    BY DEF Keeps
  <2>2. ASSUME NEW i \in 1..N, i - 1 \in P PROVE i \in P
    BY <2>2 DEF Keeps
  <2> QED BY <2>1, <2>2 DEF Advances
<1>2. \A i \in 0..N : i \in P
  <2> HIDE DEF P
  <2> QED BY <1>1, CountUp
<1> QED BY <1>2

\* Without gives a sequence, no longer than the one it is given.
LEMMA WithoutShortens ==
    ASSUME NEW X, NEW s \in Seq(X), NEW bad
    PROVE  Without(s, bad) \in Seq(X) /\ Len(Without(s, bad)) <= Len(s)
<1>1. PICK g \in [0..Len(s) -> Seq(X)] : Keeps(s, bad, g) /\ Without(s, bad) = g[Len(s)]
  BY WithoutKeeps
<1> DEFINE N == Len(s)
           P == {i \in 0..N : Len(g[i]) <= i}
<1>2. N \in Nat
  OBVIOUS
<1>3. Advances(N, P)
  <2>1. 0 \in P
    BY <1>1, <1>2 DEF Keeps
  <2>2. ASSUME NEW i \in 1..N, i - 1 \in P PROVE i \in P
    <3>1. i - 1 \in 0..N /\ i \in 0..N
      BY <1>2
    <3>2. g[i - 1] \in Seq(X) /\ Len(g[i - 1]) <= i - 1
      BY <2>2, <3>1
    <3>3. s[i] \in X
      BY ElementOfSeq
    <3>4. Len(Append(g[i - 1], s[i])) = Len(g[i - 1]) + 1 /\ Len(g[i - 1]) \in Nat
      BY <3>2, <3>3, AppendProperties, LenProperties
    <3>5. g[i] = g[i - 1] \/ g[i] = Append(g[i - 1], s[i])
      BY <1>1 DEF Keeps
    <3> QED BY <3>1, <3>2, <3>4, <3>5
  <2> QED BY <2>1, <2>2 DEF Advances
<1>4. N \in P
  <2>1. \A i \in 0..N : i \in P
    <3> HIDE DEF P
    <3> QED BY <1>2, <1>3, CountUp
  <2> QED BY <1>2, <2>1
<1>5. Without(s, bad) \in Seq(X)
  BY <1>1, <1>2
<1> QED BY <1>1, <1>4, <1>5

\* Nothing is left of a sequence that is all bad.
LEMMA WithoutAll ==
    ASSUME NEW X, NEW s \in Seq(X), NEW bad, \A i \in 1..Len(s) : s[i] \in bad
    PROVE  Without(s, bad) = <<>>
<1>1. PICK g \in [0..Len(s) -> Seq(X)] : Keeps(s, bad, g) /\ Without(s, bad) = g[Len(s)]
  BY WithoutKeeps
<1> DEFINE N == Len(s)
           P == {i \in 0..N : g[i] = <<>>}
<1>2. N \in Nat
  OBVIOUS
<1>3. Advances(N, P)
  <2>1. 0 \in P
    BY <1>1, <1>2 DEF Keeps
  <2>2. ASSUME NEW i \in 1..N, i - 1 \in P PROVE i \in P
    BY <1>1, <2>2 DEF Keeps
  <2> QED BY <2>1, <2>2 DEF Advances
<1>4. N \in P
  <2>1. \A i \in 0..N : i \in P
    <3> HIDE DEF P
    <3> QED BY <1>2, <1>3, CountUp
  <2> QED BY <1>2, <2>1
<1> QED BY <1>1, <1>4

\* An element is appended to the second of two sequences, or to both together.
AppendsLater(a, b, x) == Append(a \o b, x) = a \o Append(b, x)

LEMMA AppendLater ==
    ASSUME NEW X, NEW a \in Seq(X), NEW b \in Seq(X), NEW x \in X
    PROVE  AppendsLater(a, b, x)
  BY DEF AppendsLater

\* What is kept of two sequences one after the other.
KeepsBoth(s, t, bad) == Without(s \o t, bad) = Without(s, bad) \o Without(t, bad)

LEMMA WithoutConcat ==
    ASSUME NEW X, NEW s \in Seq(X), NEW t \in Seq(X), NEW bad
    PROVE  KeepsBoth(s, t, bad)
<1> DEFINE M == Len(s)
           N == Len(t)
           u == s \o t
<1>1. /\ M \in Nat /\ N \in Nat /\ u \in Seq(X) /\ Len(u) = M + N
      /\ \A i \in 1..M : u[i] = s[i]
      /\ \A i \in 1..N : u[M + i] = t[i]
  BY ConcatProperties
<1>2. PICK f \in [0..M -> Seq(X)] : Keeps(s, bad, f) /\ Without(s, bad) = f[M]
  BY WithoutKeeps
<1>3. PICK g \in [0..N -> Seq(X)] : Keeps(t, bad, g) /\ Without(t, bad) = g[N]
  BY WithoutKeeps
<1>u. u \in Seq(X)
  BY <1>1
<1> HIDE DEF u
<1>4. PICK h \in [0..Len(u) -> Seq(X)] : Keeps(u, bad, h) /\ Without(u, bad) = h[Len(u)]
  BY <1>u, WithoutKeeps
<1> HIDE DEF M, N
<1> DEFINE P == {i \in 0..M : h[i] = f[i]}
           Q == {i \in 0..N : h[M + i] = f[M] \o g[i]}
<1>5. h[M] = f[M]
  <2>1. Advances(M, P)
    <3>1. 0 \in P
      BY <1>1, <1>2, <1>4 DEF Keeps
    <3>2. ASSUME NEW i \in 1..M, i - 1 \in P PROVE i \in P
      <4>1. i \in 1..Len(u) /\ u[i] = s[i] /\ i \in 1..Len(s)
        BY <1>1 DEF M
      <4>2. h[i - 1] = f[i - 1]
        BY <3>2
      <4>3. h[i] = f[i]
        BY <1>2, <1>4, <4>1, <4>2 DEF Keeps
      <4> QED BY <1>1, <4>3
    <3> QED BY <3>1, <3>2 DEF Advances
  <2>2. \A i \in 0..M : i \in P
    <3> HIDE DEF P
    <3> QED BY <1>1, <2>1, CountUp
  <2> QED BY <1>1, <2>2
<1>6. h[M + N] = f[M] \o g[N]
  <2>1. Advances(N, Q)
    <3>1. 0 \in Q
      <4>1. f[M] \o g[0] = f[M]
        BY <1>1, <1>2, <1>3, ConcatEmptySeq DEF Keeps
      <4> QED BY <1>1, <1>5, <4>1
    <3>2. ASSUME NEW i \in 1..N, i - 1 \in Q PROVE i \in Q
      <4>1. M + i \in 1..Len(u) /\ u[M + i] = t[i] /\ i \in 1..Len(t) /\ (M + i) - 1 = M + (i - 1)
        BY <1>1 DEF N
      <4>2. h[M + (i - 1)] = f[M] \o g[i - 1]
        BY <3>2
      <4>3. t[i] \in X /\ f[M] \in Seq(X) /\ g[i - 1] \in Seq(X)
        BY <1>1, <1>2, <1>3, <4>1, ElementOfSeq
      <4>4. Append(f[M] \o g[i - 1], t[i]) = f[M] \o Append(g[i - 1], t[i])
        <5>1. AppendsLater(f[M], g[i - 1], t[i])
          BY <4>3, AppendLater
        <5> QED BY <5>1 DEF AppendsLater
      <4>5. h[M + i] = IF t[i] \in bad THEN h[M + (i - 1)] ELSE Append(h[M + (i - 1)], t[i])
        BY <1>4, <4>1 DEF Keeps
      <4>6. g[i] = IF t[i] \in bad THEN g[i - 1] ELSE Append(g[i - 1], t[i])
        BY <1>3, <4>1 DEF Keeps
      <4>7. h[M + i] = f[M] \o g[i]
        <5>1. CASE t[i] \in bad
          BY <5>1, <4>2, <4>5, <4>6
        <5>2. CASE t[i] \notin bad
          BY <5>2, <4>2, <4>4, <4>5, <4>6
        <5> QED BY <5>1, <5>2
      <4>8. i \in 0..N
        BY <1>1
      <4> QED BY <4>7, <4>8
    <3> QED BY <3>1, <3>2 DEF Advances
  <2>2. \A i \in 0..N : i \in Q
    <3> HIDE DEF Q
    <3> QED BY <1>1, <2>1, CountUp
  <2> QED BY <1>1, <2>2
<1> QED BY <1>1, <1>2, <1>3, <1>4, <1>6 DEF u, KeepsBoth

-----------------------------------------------------------------------------
(* What is kept of several texts in a row, and of pieces of one.            *)

\* Two sequences and a third are three in a row.
Associative(a, b, c) == (a \o b) \o c = a \o (b \o c)

LEMMA ConcatThree ==
    ASSUME NEW X, NEW a \in Seq(X), NEW b \in Seq(X), NEW c \in Seq(X)
    PROVE  Associative(a, b, c)
  BY DEF Associative

\* g is what Joined has joined of s, after each of its texts.
Joins(s, g) == g[0] = <<>> /\ \A i \in 1..Len(s) : g[i] = g[i - 1] \o s[i]

LEMMA JoinedJoins ==
    ASSUME NEW X, NEW s \in Seq(Seq(X))
    PROVE  \E g \in [0..Len(s) -> Seq(X)] : Joins(s, g) /\ Joined(s) = g[Len(s)]
<1> DEFINE N == Len(s)
           S == Seq(X)
           More(i, before) == before \o s[i]
           step == [p \in (1..N) \X S |-> More(p[1], p[2])]
           Taken(f) == [i \in 0..N |-> IF i = 0 THEN <<>> ELSE More(i, f[i - 1])]
<1>1. N \in Nat /\ <<>> \in S
  BY EmptySeq
<1>2. \A i \in 1..N : \A b \in S : More(i, b) \in S
  <2> SUFFICES ASSUME NEW i \in 1..N, NEW b \in S PROVE b \o s[i] \in S
    OBVIOUS
  <2>1. s[i] \in S
    BY ElementOfSeq
  <2> QED BY <2>1, ConcatProperties
<1> HIDE DEF More, S, N
<1>3. step \in [(1..N) \X S -> S]
  BY <1>2
<1>4. PICK f \in [0..N -> S] : Iterates(N, <<>>, step, f)
  <2> HIDE DEF step
  <2> QED BY <1>1, <1>3, Iterate
<1>5. f = Taken(f)
  <2>1. \A i \in 0..N : f[i] = IF i = 0 THEN <<>> ELSE More(i, f[i - 1])
    <3> SUFFICES ASSUME NEW i \in 0..N, i # 0 PROVE f[i] = More(i, f[i - 1])
      BY <1>4 DEF Iterates
    <3>1. i \in 1..N /\ i - 1 \in 0..N
      BY <1>1
    <3>2. f[i] = step[<<i, f[i - 1]>>] /\ f[i - 1] \in S
      BY <1>4, <3>1 DEF Iterates
    <3> QED BY <3>1, <3>2
  <2> QED BY <2>1
<1>6. PICK g : g = (CHOOSE h : h = Taken(h))
  OBVIOUS
<1>7. g = Taken(g)
  <2> HIDE DEF Taken
  <2> QED BY <1>5, <1>6
<1> DEFINE P == {i \in 0..N : g[i] \in S}
<1>8. Advances(N, P)
  <2>1. 0 \in P
    BY <1>1, <1>7
  <2>2. ASSUME NEW i \in 1..N, i - 1 \in P PROVE i \in P
    <3>1. i \in 0..N /\ i # 0 /\ g[i] = More(i, g[i - 1])
      BY <1>1, <1>7
    <3> QED BY <1>2, <2>2, <3>1
  <2> QED BY <2>1, <2>2 DEF Advances
<1>9. \A i \in 0..N : g[i] \in S
  <2>1. \A i \in 0..N : i \in P
    <3> HIDE DEF P
    <3> QED BY <1>1, <1>8, CountUp
  <2> QED BY <2>1
<1>10. Joined(s) = g[N]
  BY <1>6 DEF Joined, More, N
<1>11. g[0] = <<>> /\ \A i \in 1..N : g[i] = More(i, g[i - 1])
  BY <1>1, <1>7
<1>12. g \in [0..N -> S]
  BY <1>7, <1>9
<1> QED BY <1>10, <1>11, <1>12 DEF Joins, More, N, S

LEMMA JoinedNone == Joined(<<>>) = <<>>
<1>1. <<>> \in Seq(Seq({})) /\ Len(<<>>) = 0
  BY EmptySeq
<1>2. PICK g \in [0..Len(<<>>) -> Seq({})] : Joins(<<>>, g) /\ Joined(<<>>) = g[Len(<<>>)]
  BY <1>1, JoinedJoins
<1> QED BY <1>1, <1>2 DEF Joins

LEMMA JoinedTyped ==
    ASSUME NEW X, NEW s \in Seq(Seq(X)) PROVE Joined(s) \in Seq(X)
<1>1. PICK g \in [0..Len(s) -> Seq(X)] : Joins(s, g) /\ Joined(s) = g[Len(s)]
  BY JoinedJoins
<1> QED BY <1>1

LEMMA JoinedOne ==
    ASSUME NEW X, NEW t \in Seq(X) PROVE Joined(<<t>>) = t
<1> DEFINE s == <<t>>
<1>1. s \in Seq(Seq(X)) /\ Len(s) = 1 /\ s[1] = t
  OBVIOUS
<1> HIDE DEF s
<1>2. PICK g \in [0..Len(s) -> Seq(X)] : Joins(s, g) /\ Joined(s) = g[Len(s)]
  BY <1>1, JoinedJoins
<1>3. g[1] = <<>> \o t
  <2>1. 1 \in 1..Len(s) /\ 1 - 1 = 0
    BY <1>1
  <2>2. g[1] = g[0] \o s[1] /\ g[0] = <<>>
    BY <1>2, <2>1 DEF Joins
  <2> QED BY <1>1, <2>2
<1>4. <<>> \o t = t
  BY ConcatEmptySeq
<1> QED BY <1>1, <1>2, <1>3, <1>4 DEF s

JoinsBoth(s, t) == Joined(s \o t) = Joined(s) \o Joined(t)

LEMMA JoinedConcat ==
    ASSUME NEW X, NEW s \in Seq(Seq(X)), NEW t \in Seq(Seq(X))
    PROVE  JoinsBoth(s, t)
<1> DEFINE M == Len(s)
           N == Len(t)
           u == s \o t
<1>1. /\ M \in Nat /\ N \in Nat /\ u \in Seq(Seq(X)) /\ Len(u) = M + N
      /\ \A i \in 1..M : u[i] = s[i]
      /\ \A i \in 1..N : u[M + i] = t[i]
  BY ConcatProperties
<1>2. PICK f \in [0..M -> Seq(X)] : Joins(s, f) /\ Joined(s) = f[M]
  BY JoinedJoins
<1>3. PICK g \in [0..N -> Seq(X)] : Joins(t, g) /\ Joined(t) = g[N]
  BY JoinedJoins
<1>u. u \in Seq(Seq(X))
  BY <1>1
<1> HIDE DEF u
<1>4. PICK h \in [0..Len(u) -> Seq(X)] : Joins(u, h) /\ Joined(u) = h[Len(u)]
  BY <1>u, JoinedJoins
<1> HIDE DEF M, N
<1> DEFINE P == {i \in 0..M : h[i] = f[i]}
           Q == {i \in 0..N : h[M + i] = f[M] \o g[i]}
<1>5. h[M] = f[M]
  <2>1. Advances(M, P)
    <3>1. 0 \in P
      BY <1>1, <1>2, <1>4 DEF Joins
    <3>2. ASSUME NEW i \in 1..M, i - 1 \in P PROVE i \in P
      <4>1. i \in 1..Len(u) /\ u[i] = s[i] /\ i \in 1..Len(s)
        BY <1>1 DEF M
      <4>2. h[i - 1] = f[i - 1]
        BY <3>2
      <4>3. h[i] = f[i]
        BY <1>2, <1>4, <4>1, <4>2 DEF Joins
      <4> QED BY <1>1, <4>3
    <3> QED BY <3>1, <3>2 DEF Advances
  <2>2. \A i \in 0..M : i \in P
    <3> HIDE DEF P
    <3> QED BY <1>1, <2>1, CountUp
  <2> QED BY <1>1, <2>2
<1>6. h[M + N] = f[M] \o g[N]
  <2>1. Advances(N, Q)
    <3>1. 0 \in Q
      <4>1. f[M] \o g[0] = f[M]
        BY <1>1, <1>2, <1>3, ConcatEmptySeq DEF Joins
      <4> QED BY <1>1, <1>5, <4>1
    <3>2. ASSUME NEW i \in 1..N, i - 1 \in Q PROVE i \in Q
      <4>1. M + i \in 1..Len(u) /\ u[M + i] = t[i] /\ i \in 1..Len(t) /\ (M + i) - 1 = M + (i - 1)
        BY <1>1 DEF N
      <4>2. h[M + (i - 1)] = f[M] \o g[i - 1]
        BY <3>2
      <4>3. t[i] \in Seq(X) /\ f[M] \in Seq(X) /\ g[i - 1] \in Seq(X)
        BY <1>1, <1>2, <1>3, <4>1, ElementOfSeq
      <4>4. (f[M] \o g[i - 1]) \o t[i] = f[M] \o (g[i - 1] \o t[i])
        <5>1. Associative(f[M], g[i - 1], t[i])
          BY <4>3, ConcatThree
        <5> QED BY <5>1 DEF Associative
      <4>5. h[M + i] = h[M + (i - 1)] \o t[i]
        BY <1>4, <4>1 DEF Joins
      <4>6. g[i] = g[i - 1] \o t[i]
        BY <1>3, <4>1 DEF Joins
      <4>7. h[M + i] = f[M] \o g[i]
        BY <4>2, <4>4, <4>5, <4>6
      <4>8. i \in 0..N
        BY <1>1
      <4> QED BY <4>7, <4>8
    <3> QED BY <3>1, <3>2 DEF Advances
  <2>2. \A i \in 0..N : i \in Q
    <3> HIDE DEF Q
    <3> QED BY <1>1, <2>1, CountUp
  <2>3. N \in Q
    <3> HIDE DEF Q
    <3> QED BY <1>1, <2>2
  <2> QED BY <2>3
<1> QED BY <1>1, <1>2, <1>3, <1>4, <1>6 DEF u, JoinsBoth

\* The bytes of a text between two places, as t[i:j] of the code.
Piece(t, i, j) == SubSeq(t, i + 1, j)

PiecesMeet(t, i, k, j) == Piece(t, i, j) = Piece(t, i, k) \o Piece(t, k, j)

LEMMA PieceTyped ==
    ASSUME NEW X, NEW t \in Seq(X), NEW i \in 0..Len(t), NEW j \in i..Len(t)
    PROVE  /\ Piece(t, i, j) \in Seq(X) /\ Len(Piece(t, i, j)) = j - i
           /\ \A k \in 1..(j - i) : Piece(t, i, j)[k] = t[i + k]
<1>1. /\ Len(t) \in Nat /\ i \in Nat /\ j \in Nat /\ i <= j /\ j <= Len(t) /\ i + 1 \in Int /\ j \in Int
      /\ \A k \in (i + 1)..j : t[k] \in X
  OBVIOUS
<1>2. /\ SubSeq(t, i + 1, j) \in Seq(X)
      /\ Len(SubSeq(t, i + 1, j)) = IF i + 1 <= j THEN j - (i + 1) + 1 ELSE 0
      /\ \A k \in 1..(j - (i + 1) + 1) : SubSeq(t, i + 1, j)[k] = t[i + 1 + k - 1]
  BY <1>1, SubSeqProperties
<1>3. j - (i + 1) + 1 = j - i /\ \A k \in Int : i + 1 + k - 1 = i + k
  BY <1>1
<1>4. Len(SubSeq(t, i + 1, j)) = j - i
  BY <1>1, <1>2
<1>5. \A k \in 1..(j - i) : SubSeq(t, i + 1, j)[k] = t[i + k]
  BY <1>2, <1>3
<1> QED BY <1>2, <1>4, <1>5 DEF Piece

LEMMA PieceMeet ==
    ASSUME NEW X, NEW t \in Seq(X), NEW i \in 0..Len(t), NEW k \in i..Len(t), NEW j \in k..Len(t)
    PROVE  PiecesMeet(t, i, k, j)
<1>1. i + 1 \in 1..Len(t) + 1 /\ k \in (i + 1) - 1..Len(t)
  OBVIOUS
<1>2. SubSeq(t, i + 1, k) \o SubSeq(t, k + 1, j) = SubSeq(t, i + 1, j)
  BY <1>1, ConcatAdjacentSubSeq
<1> QED BY <1>2 DEF PiecesMeet, Piece

LEMMA PieceWhole ==
    ASSUME NEW X, NEW t \in Seq(X)
    PROVE  Piece(t, 0, Len(t)) = t /\ Piece(t, Len(t), Len(t)) = <<>>
<1>1. SubSeq(t, 1, Len(t)) = t /\ 0 + 1 = 1
  BY SubSeqFull
<1>2. Len(t) \in Int /\ Len(t) + 1 \in Int /\ Len(t) < Len(t) + 1
  OBVIOUS
<1>3. SubSeq(t, Len(t) + 1, Len(t)) = <<>>
  BY <1>2, SubSeqEmpty
<1> QED BY <1>1, <1>3 DEF Piece

\* Squeezing goes by pieces.
LEMMA SqueezePieces ==
    ASSUME NEW X, NEW t \in Seq(X), NEW i \in 0..Len(t), NEW k \in i..Len(t), NEW j \in k..Len(t)
    PROVE  Squeeze(Piece(t, i, j)) = Squeeze(Piece(t, i, k)) \o Squeeze(Piece(t, k, j))
<1>1. Piece(t, i, j) = Piece(t, i, k) \o Piece(t, k, j)
  BY PieceMeet DEF PiecesMeet
<1>2. k \in 0..Len(t)
  OBVIOUS
<1>3. Piece(t, i, k) \in Seq(X) /\ Piece(t, k, j) \in Seq(X)
  BY <1>2, PieceTyped
<1>4. KeepsBoth(Piece(t, i, k), Piece(t, k, j), {" "})
  BY <1>3, WithoutConcat
<1> QED BY <1>1, <1>4 DEF KeepsBoth, Squeeze

LEMMA SqueezeTyped ==
    ASSUME NEW X, NEW t \in Seq(X) PROVE Squeeze(t) \in Seq(X)
  BY WithoutShortens DEF Squeeze

\* Nothing is left of a text of spaces.
Space(c) == c = " "

LEMMA SqueezeBlank ==
    ASSUME NEW X, NEW t \in Seq(X), \A i \in 1..Len(t) : Space(t[i])
    PROVE  Squeeze(t) = <<>>
<1>1. \A i \in 1..Len(t) : t[i] \in {" "}
  BY DEF Space
<1> QED BY <1>1, WithoutAll DEF Squeeze

\* A set of numbers up to N that is not empty has a greatest one.
LEMMA SomeGreatest ==
    ASSUME NEW N \in Nat, NEW S \in SUBSET (1..N), S # {}
    PROVE  \E n \in S : \A m \in S : n >= m
<1> DEFINE R == {N - i : i \in S}
<1>1. R \in SUBSET Nat /\ R # {}
  <2>1. ASSUME NEW i \in S PROVE N - i \in Nat
    OBVIOUS
  <2> QED BY <2>1
<1>2. PICK r \in R : \A m \in R : r <= m
  <2> HIDE DEF R
  <2> QED BY <1>1, SomeLeast
<1>3. PICK n \in S : r = N - n
  OBVIOUS
<1>4. ASSUME NEW m \in S PROVE n >= m
  <2>1. r <= N - m
    BY <1>2
  <2> QED BY <1>3, <2>1
<1> QED BY <1>4

\* Where the solid bytes of a text begin and end.
Ends(t, first, last) ==
    /\ first \in 1..Len(t) /\ last \in first..Len(t)
    /\ \A i \in 1..Len(t) : i < first \/ i > last => Space(t[i])

LEMMA TrimEnds ==
    ASSUME NEW X, NEW t \in Seq(X)
    PROVE  \/ TrimSpace(t) = <<>> /\ \A i \in 1..Len(t) : Space(t[i])
           \/ \E first, last \in Int : Ends(t, first, last) /\ TrimSpace(t) = Piece(t, first - 1, last)
<1> DEFINE solid == {i \in 1..Len(t) : ~Space(t[i])}
           first == CHOOSE i \in solid : \A j \in solid : i <= j
           last == CHOOSE i \in solid : \A j \in solid : i >= j
<1> HIDE DEF first, last
<1>1. CASE solid = {}
  <2>1. TrimSpace(t) = <<>>
    BY <1>1 DEF TrimSpace, Space
  <2> QED BY <1>1, <2>1
<1>2. CASE solid # {}
  <2>0. Len(t) \in Nat /\ solid \in SUBSET (1..Len(t)) /\ solid \in SUBSET Nat
    <3>1. solid \in SUBSET (1..Len(t)) /\ 1..Len(t) \in SUBSET Nat
      OBVIOUS
    <3>2. Len(t) \in Nat
      OBVIOUS
    <3> QED BY <3>1, <3>2
  <2>1. first \in solid /\ \A j \in solid : first <= j
    <3> HIDE DEF solid
    <3>1. \E i \in solid : \A j \in solid : i <= j
      BY <1>2, <2>0, SomeLeast
    <3> QED BY <3>1 DEF first
  <2>2. last \in solid /\ \A j \in solid : last >= j
    <3> HIDE DEF solid
    <3>1. \E i \in solid : \A j \in solid : i >= j
      BY <1>2, <2>0, SomeGreatest
    <3> QED BY <3>1 DEF last
  <2>3. TrimSpace(t) = SubSeq(t, first, last)
    BY <1>2 DEF TrimSpace, Space, first, last
  <2>4. /\ first \in 1..Len(t) /\ last \in 1..Len(t) /\ last \in first..Len(t)
        /\ first \in Int /\ last \in Int /\ Len(t) \in Nat
    <3>1. first \in 1..Len(t) /\ last \in 1..Len(t) /\ last >= first
      <4> HIDE DEF solid
      <4> QED BY <2>0, <2>1, <2>2
    <3> QED BY <2>0, <3>1
  <2>5. Ends(t, first, last)
    <3> SUFFICES ASSUME NEW i \in 1..Len(t), i < first \/ i > last, ~Space(t[i]) PROVE FALSE
      BY <2>4 DEF Ends
    <3>1. i \in solid
      OBVIOUS
    <3>2. first <= i /\ i <= last
      <4> HIDE DEF solid
      <4> QED BY <2>1, <2>2, <2>4, <3>1
    <3>3. ~(i < first) /\ ~(i > last)
      <4>1. i \in Int
        OBVIOUS
      <4> QED BY <2>4, <3>2, <4>1
    <3> QED BY <3>3
  <2>6. TrimSpace(t) = Piece(t, first - 1, last)
    <3>1. first - 1 + 1 = first
      BY <2>4
    <3> QED BY <2>3, <3>1 DEF Piece
  <2> HIDE DEF solid
  <2>7. \E f, l \in Int : Ends(t, f, l) /\ TrimSpace(t) = Piece(t, f - 1, l)
    BY <2>4, <2>5, <2>6
  <2> QED BY <2>7
<1> QED BY <1>1, <1>2

\* TrimSpace takes nothing but spaces.
LEMMA TrimKeeps ==
    ASSUME NEW X, NEW t \in Seq(X)
    PROVE  /\ TrimSpace(t) \in Seq(X) /\ Len(TrimSpace(t)) <= Len(t)
           /\ Squeeze(TrimSpace(t)) = Squeeze(t)
<1>0. Len(t) \in Nat /\ <<>> \in Seq(X) /\ Len(<<>>) = 0
  BY EmptySeq
<1>1. CASE TrimSpace(t) = <<>> /\ \A i \in 1..Len(t) : Space(t[i])
  <2>1. Squeeze(t) = <<>>
    BY <1>1, SqueezeBlank
  <2>2. Squeeze(<<>>) = <<>>
    <3>1. \A i \in 1..Len(<<>>) : Space(<<>>[i])
      BY <1>0
    <3> QED BY <1>0, <3>1, SqueezeBlank
  <2>3. Squeeze(TrimSpace(t)) = Squeeze(t)
    BY <1>1, <2>1, <2>2
  <2>4. TrimSpace(t) \in Seq(X) /\ Len(TrimSpace(t)) = 0
    BY <1>0, <1>1
  <2> QED BY <1>0, <2>3, <2>4
<1>2. CASE \E first, last \in Int : Ends(t, first, last) /\ TrimSpace(t) = Piece(t, first - 1, last)
  <2>1. PICK first \in Int, last \in Int : Ends(t, first, last) /\ TrimSpace(t) = Piece(t, first - 1, last)
    BY <1>2
  <2> DEFINE i == first - 1
             N == Len(t)
             a == Piece(t, 0, i)
             b == Piece(t, i, last)
             c == Piece(t, last, N)
  <2>2. /\ i \in 0..N /\ last \in i..N /\ last \in 0..N /\ 0 \in 0..N /\ N \in i..N /\ N \in last..N
        /\ N \in Nat /\ i \in 0..last
    <3>1. first \in 1..N /\ last \in first..N /\ N \in Nat
      BY <2>1, <1>0 DEF Ends
    <3> HIDE DEF N
    <3> QED BY <3>1
  <2> HIDE DEF i, N
  <2>3. /\ a \in Seq(X) /\ Len(a) = i - 0 /\ \A k \in 1..(i - 0) : a[k] = t[0 + k]
        /\ b \in Seq(X) /\ Len(b) = last - i
        /\ c \in Seq(X) /\ Len(c) = N - last /\ \A k \in 1..(N - last) : c[k] = t[last + k]
    BY <2>2, PieceTyped DEF N
  <2>4. Squeeze(a) = <<>>
    <3>1. \A k \in 1..Len(a) : Space(a[k])
      <4>0. Len(a) = i
        BY <2>2, <2>3
      <4> SUFFICES ASSUME NEW k \in 1..i PROVE Space(a[k])
        BY <4>0
      <4>1. k \in 1..N /\ k < first /\ 0 + k = k /\ k \in 1..(i - 0)
        BY <2>2 DEF i
      <4> QED BY <2>1, <2>3, <4>1 DEF Ends, N
    <3> QED BY <2>3, <3>1, SqueezeBlank
  <2>5. Squeeze(c) = <<>>
    <3>1. \A k \in 1..Len(c) : Space(c[k])
      <4> SUFFICES ASSUME NEW k \in 1..(N - last) PROVE Space(c[k])
        BY <2>3
      <4>1. last + k \in 1..N /\ last + k > last
        BY <2>2
      <4> QED BY <2>1, <2>3, <4>1 DEF Ends, N
    <3> QED BY <2>3, <3>1, SqueezeBlank
  <2>6. Squeeze(Piece(t, 0, N)) = Squeeze(a) \o Squeeze(Piece(t, i, N))
    BY <2>2, SqueezePieces DEF N
  <2>7. Squeeze(Piece(t, i, N)) = Squeeze(b) \o Squeeze(c)
    BY <2>2, SqueezePieces DEF N
  <2>8. Piece(t, 0, N) = t
    BY PieceWhole DEF N
  <2>9. Squeeze(b) \in Seq(X)
    <3> HIDE DEF b
    <3> QED BY <2>3, SqueezeTyped
  <2> HIDE DEF a, b, c
  <2>10. Squeeze(t) = Squeeze(b)
    <3>1. Squeeze(t) = <<>> \o (Squeeze(b) \o <<>>)
      BY <2>4, <2>5, <2>6, <2>7, <2>8
    <3> QED BY <2>9, <3>1, ConcatEmptySeq
  <2>11. TrimSpace(t) = b
    BY <2>1 DEF b, i
  <2>12. Len(b) <= N
    BY <2>2, <2>3
  <2> QED BY <2>3, <2>10, <2>11, <2>12 DEF N
<1> QED BY <1>1, <1>2, TrimEnds

-----------------------------------------------------------------------------
(* What splitChunks makes of a text.                                        *)

\* Where the code cuts a text, and what it makes of each piece up to its end.
Splits(t, size, ends, g) ==
    /\ ends \in [0..Len(t) -> 0..Len(t)]
    /\ ends[Len(t)] = Len(t) /\ g[Len(t)] = <<>>
    /\ \A i \in 0..Len(t) : i # Len(t) =>
         /\ i < ends[i] /\ ends[i] - i <= size
         /\ g[i] = <<TrimSpace(Piece(t, i, ends[i]))>> \o g[ends[i]]

LEMMA OneMoreText ==
    ASSUME NEW X, NEW t \in X, NEW s \in Seq(X) PROVE <<t>> \o s \in Seq(X)
<1>1. <<t>> \in Seq(X)
  OBVIOUS
<1> QED BY <1>1, ConcatProperties

LEMMA SplitSplits ==
    ASSUME NEW X, NEW text \in Seq(X), NEW size \in Nat \ {0}
    PROVE  LET t == TrimSpace(text)
           IN  \E ends, g : /\ Splits(t, size, ends, g) /\ splitChunks(text, size) = g[0]
                            /\ g \in [0..Len(t) -> Seq(Seq(X))]
<1> DEFINE t == TrimSpace(text)
           N == Len(t)
           Dom == 0..N
           S == Seq(Seq(X))
           Mark(c) == c \in {".", " "}
           marks(i) == {k \in 1..size - 1 : Mark(t[i + k + 1])}
           cut(i) == IF marks(i) = {} THEN size ELSE CHOOSE k \in marks(i) : \A l \in marks(i) : k >= l
           One(i, j) == TrimSpace(SubSeq(t, i + 1, j))
           Taken(f) == [i \in Dom |->
               IF i = N THEN <<>>
               ELSE IF i + size >= N THEN <<One(i, N)>>
               ELSE <<One(i, i + cut(i))>> \o f[i + cut(i)]]
           from == CHOOSE f : f = Taken(f)
<1>0. splitChunks(text, size) = from[0]
  BY DEF splitChunks
<1>1. t \in Seq(X) /\ N \in Nat
  BY TrimKeeps
<1> HIDE DEF t
<1>2. \A i \in Int : cut(i) \in 1..size
  <2> SUFFICES ASSUME NEW i \in Int PROVE cut(i) \in 1..size
    OBVIOUS
  <2> HIDE DEF Mark, One, from, N, Taken
  <2>0. size \in Nat /\ size >= 1 /\ size \in 1..size /\ size - 1 \in Nat
    OBVIOUS
  <2>1. CASE marks(i) = {}
    <3>1. cut(i) = size
      BY <2>1
    <3> HIDE DEF cut
    <3> QED BY <2>0, <3>1
  <2>2. CASE marks(i) # {}
    <3> DEFINE M == marks(i)
    <3>1. M \in SUBSET (1..size - 1) /\ M # {}
      BY <2>2
    <3>2. cut(i) = CHOOSE k \in M : \A l \in M : k >= l
      BY <2>2
    <3> HIDE DEF M, cut
    <3>3. \E k \in M : \A l \in M : k >= l
      BY <2>0, <3>1, SomeGreatest
    <3>4. cut(i) \in M
      BY <3>2, <3>3
    <3>5. cut(i) \in 1..size - 1
      BY <3>1, <3>4
    <3> QED BY <2>0, <3>5
  <2> QED BY <2>1, <2>2
<1> HIDE DEF cut, marks, Mark
<1> DEFINE end(i) == IF i = N \/ i + size >= N THEN N ELSE i + cut(i)
           ends == [i \in Dom |-> end(i)]
<1>3. \A i \in Dom : end(i) \in Dom /\ (i # N => i < end(i) /\ end(i) - i <= size)
  <2> SUFFICES ASSUME NEW i \in Dom PROVE end(i) \in Dom /\ (i # N => i < end(i) /\ end(i) - i <= size)
    OBVIOUS
  <2> HIDE DEF N
  <2>1. cut(i) \in 1..size /\ i \in Int
    BY <1>1, <1>2
  <2> QED BY <1>1, <2>1
<1>4. \A i, j \in Dom : i <= j => One(i, j) \in Seq(X)
  <2> SUFFICES ASSUME NEW i \in Dom, NEW j \in Dom, i <= j PROVE One(i, j) \in Seq(X)
    OBVIOUS
  <2>1. i \in 0..N /\ j \in i..N
    BY <1>1
  <2>2. Piece(t, i, j) \in Seq(X)
    BY <1>1, <2>1, PieceTyped
  <2> QED BY <2>2, TrimKeeps DEF Piece
<1> DEFINE stop == {N}
           rank == [i \in Dom |-> N - i]
           base == [i \in Dom |-> <<>>]
           step == [p \in Dom \X S |->
                      IF p[1] = N THEN <<>>
                      ELSE IF p[1] + size >= N THEN <<One(p[1], N)>>
                      ELSE <<One(p[1], end(p[1]))>> \o p[2]]
<1>5. Ranked(Dom, stop, N, rank, ends)
  <2>1. stop \in SUBSET Dom
    <3> HIDE DEF N
    <3> QED BY <1>1
  <2>2. rank \in [Dom -> 0..N]
    <3> HIDE DEF N
    <3> QED BY <1>1
  <2>3. ends \in [Dom -> Dom]
    <3> HIDE DEF end, Dom
    <3> QED BY <1>3
  <2>4. ASSUME NEW i \in Dom \ stop PROVE rank[ends[i]] < rank[i]
    <3>1. end(i) \in Dom /\ i < end(i) /\ i \in Dom /\ ends[i] = end(i)
      <4> HIDE DEF end, Dom, N
      <4> QED BY <1>3
    <3> HIDE DEF end, N, ends
    <3> QED BY <1>1, <3>1
  <2> HIDE DEF N, Dom, stop, rank, ends
  <2> QED BY <1>1, <2>1, <2>2, <2>3, <2>4 DEF Ranked
<1>6. base \in [Dom -> S]
  <2>1. <<>> \in S
    BY EmptySeq
  <2> HIDE DEF S, Dom
  <2> QED BY <2>1
<1>7. step \in [Dom \X S -> S]
  <2> SUFFICES ASSUME NEW p \in Dom \X S PROVE step[p] \in S
    OBVIOUS
  <2>1. PICK i \in Dom, rest \in S : p = <<i, rest>>
    OBVIOUS
  <2>2. <<>> \in S
    BY EmptySeq
  <2>3. end(i) \in Dom /\ N \in Dom /\ i <= N /\ (i # N => i <= end(i))
    <3>1. N \in Dom /\ i <= N /\ i \in Int
      <4> HIDE DEF N
      <4> QED BY <1>1
    <3>2. end(i) \in Int
      <4> HIDE DEF end, N
      <4> QED BY <1>1, <1>3
    <3> HIDE DEF end, N, Dom
    <3> QED BY <1>3, <3>1, <3>2
  <2>4. i # N => One(i, N) \in Seq(X) /\ One(i, end(i)) \in Seq(X)
    <3> HIDE DEF One, end, Dom, N
    <3> QED BY <1>4, <2>3
  <2>5. i # N => <<One(i, N)>> \in S /\ <<One(i, end(i))>> \o rest \in S
    <3> HIDE DEF One, end, N, Dom
    <3> SUFFICES ASSUME i # N PROVE <<One(i, N)>> \in S /\ <<One(i, end(i))>> \o rest \in S
      OBVIOUS
    <3>1. <<One(i, N)>> \in S
      BY <2>4
    <3>2. <<One(i, end(i))>> \o rest \in S
      BY <2>4, OneMoreText
    <3> QED BY <3>1, <3>2
  <2>6. step[p] = IF i = N THEN <<>>
                  ELSE IF i + size >= N THEN <<One(i, N)>> ELSE <<One(i, end(i))>> \o rest
    <3> HIDE DEF One, end, N, Dom, S
    <3> QED BY <2>1
  <2> HIDE DEF step, One, end, N, Dom, S
  <2> QED BY <2>2, <2>5, <2>6
<1>8. PICK f \in [Dom -> S] : Computes(Dom, stop, ends, base, step, f)
  <2> HIDE DEF Dom, S, stop, rank, ends, base, step, N
  <2> QED BY <1>5, <1>6, <1>7, Recursion
<1>9. f = Taken(f)
  <2>1. \A i \in Dom : f[i] = IF i = N THEN <<>>
               ELSE IF i + size >= N THEN <<One(i, N)>>
               ELSE <<One(i, i + cut(i))>> \o f[i + cut(i)]
    <3> SUFFICES ASSUME NEW i \in Dom
                 PROVE  f[i] = IF i = N THEN <<>>
                               ELSE IF i + size >= N THEN <<One(i, N)>>
                               ELSE <<One(i, i + cut(i))>> \o f[i + cut(i)]
      OBVIOUS
    <3>1. f[i] = IF i \in stop THEN base[i] ELSE step[<<i, f[ends[i]]>>]
      <4> HIDE DEF Dom, stop, ends, base, step
      <4> QED BY <1>8 DEF Computes
    <3>2. ends[i] = end(i) /\ end(i) \in Dom /\ f[end(i)] \in S /\ base[i] = <<>>
      <4> HIDE DEF end, Dom, S
      <4> QED BY <1>3, <1>8
    <3>3. step[<<i, f[end(i)]>>] = IF i = N THEN <<>>
                      ELSE IF i + size >= N THEN <<One(i, N)>>
                      ELSE <<One(i, end(i))>> \o f[end(i)]
      <4> HIDE DEF One, end, N, Dom, S
      <4> QED BY <3>2
    <3>4. i # N /\ ~(i + size >= N) => end(i) = i + cut(i)
      OBVIOUS
    <3> HIDE DEF One, end, N, Dom, S, step, ends, base
    <3> QED BY <3>1, <3>2, <3>3, <3>4
  <2> HIDE DEF One, Dom, N, S
  <2> QED BY <1>8, <2>1
<1>10. from = Taken(from)
  <2> HIDE DEF Taken
  <2> QED BY <1>9
<1>11. \A i \in Dom : from[i] = IF i = N THEN <<>>
               ELSE IF i + size >= N THEN <<One(i, N)>>
               ELSE <<One(i, i + cut(i))>> \o from[i + cut(i)]
  <2> HIDE DEF from, One, Dom, N
  <2> QED BY <1>10
<1>12. PICK g : g = from
  OBVIOUS
<1> HIDE DEF from
<1>13. g[N] = <<>> /\ \A i \in Dom : i # N => g[i] = <<One(i, end(i))>> \o g[end(i)]
  <2>1. N \in Dom
    <3> HIDE DEF N
    <3> QED BY <1>1
  <2>2. g[N] = <<>>
    <3> HIDE DEF One, Dom, N
    <3> QED BY <1>11, <1>12, <2>1
  <2>3. ASSUME NEW i \in Dom, i # N PROVE g[i] = <<One(i, end(i))>> \o g[end(i)]
    <3>1. CASE i + size >= N
      <4>1. g[i] = <<One(i, N)>> /\ end(i) = N
        <5> HIDE DEF One, Dom, N
        <5> QED BY <1>11, <1>12, <2>3, <3>1
      <4>2. One(i, N) \in Seq(X)
        <5>1. i <= N
          <6> HIDE DEF N
          <6> QED BY <1>1
        <5> HIDE DEF One, Dom, N
        <5> QED BY <1>4, <2>1, <5>1
      <4>3. <<One(i, N)>> \o <<>> = <<One(i, N)>>
        <5>1. <<One(i, N)>> \in Seq(Seq(X))
          <6> HIDE DEF One
          <6> QED BY <4>2
        <5> HIDE DEF One
        <5> QED BY <5>1, ConcatEmptySeq
      <4> HIDE DEF One, end, Dom, N
      <4> QED BY <2>2, <4>1, <4>3
    <3>2. CASE ~(i + size >= N)
      <4>1. end(i) = i + cut(i)
        <5> HIDE DEF N
        <5> QED BY <2>3, <3>2
      <4> HIDE DEF One, Dom, N, end
      <4> QED BY <1>11, <1>12, <2>3, <3>2, <4>1
    <3> QED BY <3>1, <3>2
  <2> QED BY <2>2, <2>3
<1> DEFINE P == {i \in Dom : g[i] \in S}
<1>14. P = Dom
  <2>1. ASSUME NEW i \in Dom, i \in stop \/ ends[i] \in P PROVE g[i] \in S
    <3>1. CASE i = N
      <4>1. <<>> \in S
        BY EmptySeq
      <4> HIDE DEF S, One, Dom, N
      <4> QED BY <1>13, <3>1, <4>1
    <3>2. CASE i # N
      <4>1. ends[i] = end(i) /\ g[end(i)] \in S /\ i <= end(i) /\ end(i) \in Dom
        <5>1. i \in Int /\ end(i) \in Int
          <6>1. end(i) \in Dom
            <7> HIDE DEF end, Dom
            <7> QED BY <1>3
          <6> HIDE DEF end, N
          <6> QED BY <1>1, <6>1
        <5> HIDE DEF end, Dom, S, N
        <5> QED BY <1>3, <2>1, <3>2, <5>1
      <4>2. One(i, end(i)) \in Seq(X)
        <5> HIDE DEF One, end, Dom
        <5> QED BY <1>4, <4>1
      <4>3. <<One(i, end(i))>> \o g[end(i)] \in S
        <5> HIDE DEF One, end
        <5> QED BY <4>1, <4>2, OneMoreText
      <4> HIDE DEF S, One, end, Dom, N
      <4> QED BY <1>13, <3>2, <4>3
    <3> QED BY <3>1, <3>2
  <2>2. Inherited(Dom, stop, ends, P)
    <3> HIDE DEF Dom, stop, ends, S
    <3> QED BY <2>1 DEF Inherited
  <2> HIDE DEF Dom, stop, ends, P, N, rank
  <2> QED BY <1>5, <2>2, ByRank
<1>15. g \in [Dom -> S]
  <2>1. \A i \in Dom : g[i] \in S
    <3> HIDE DEF Dom, S
    <3> QED BY <1>14
  <2>2. g = Taken(g)
    BY <1>10, <1>12
  <2> HIDE DEF S, One, N, Dom
  <2> QED BY <2>1, <2>2
<1>16. Splits(t, size, ends, g)
  <2>1. ends \in [Dom -> Dom]
    <3> HIDE DEF end, Dom
    <3> QED BY <1>3
  <2>2. N \in Dom /\ end(N) = N
    <3> HIDE DEF N
    <3> QED BY <1>1
  <2>3. ASSUME NEW i \in Dom, i # N
        PROVE  /\ i < ends[i] /\ ends[i] - i <= size
               /\ g[i] = <<TrimSpace(Piece(t, i, ends[i]))>> \o g[ends[i]]
    <3>1. ends[i] = end(i) /\ i < end(i) /\ end(i) - i <= size
      <4> HIDE DEF end, Dom, N
      <4> QED BY <1>3, <2>3
    <3>2. g[i] = <<One(i, end(i))>> \o g[end(i)]
      <4> HIDE DEF end, One, Dom, N
      <4> QED BY <1>13, <2>3
    <3>3. One(i, end(i)) = TrimSpace(Piece(t, i, end(i)))
      <4> HIDE DEF end
      <4> QED BY DEF Piece
    <3> HIDE DEF end, One, ends
    <3> QED BY <3>1, <3>2, <3>3
  <2>4. ends[N] = N
    <3> HIDE DEF end, Dom, N
    <3> QED BY <2>2
  <2>5. g[N] = <<>>
    <3> HIDE DEF end, One, Dom, N
    <3> QED BY <1>13
  <2> HIDE DEF ends
  <2> QED BY <2>1, <2>3, <2>4, <2>5 DEF Splits
<1>17. splitChunks(text, size) = g[0]
  BY <1>0, <1>12
<1> HIDE DEF ends
<1>18. \E e, h : Splits(t, size, e, h) /\ splitChunks(text, size) = h[0]
                /\ h \in [0..Len(t) -> Seq(Seq(X))]
  BY <1>15, <1>16, <1>17
<1> QED BY <1>18 DEF t

\* A sequence begins with the first of the two it consists of.
Begins(a, b) == a = SubSeq(a \o b, 1, Len(a))

LEMMA BeginsWith ==
    ASSUME NEW X, NEW a \in Seq(X), NEW b \in Seq(X) PROVE Begins(a, b)
<1>1. CASE Len(a) = 0
  <2>1. a = <<>>
    BY <1>1, EmptySeq
  <2>2. SubSeq(a \o b, 1, Len(a)) = <<>>
    BY <1>1, SubSeqEmpty
  <2> QED BY <2>1, <2>2 DEF Begins
<1>2. CASE Len(a) # 0
  <2>1. 1 \in 1..Len(a) /\ Len(a) \in 1..Len(a)
    BY <1>2
  <2>2. SubSeq(a \o b, 1, Len(a)) = SubSeq(a, 1, Len(a))
    BY <2>1, SubSeqOfConcat1
  <2>3. SubSeq(a, 1, Len(a)) = a
    BY SubSeqFull
  <2> QED BY <2>2, <2>3 DEF Begins
<1> QED BY <1>1, <1>2

\* One more piece in front of the chunks of the rest.
LEMMA OneMorePiece ==
    ASSUME NEW X, NEW t \in Seq(X), NEW i \in 0..Len(t), NEW e \in i..Len(t), NEW rest \in Seq(Seq(X)),
           Squeeze(Joined(rest)) = Squeeze(Piece(t, e, Len(t)))
    PROVE  Squeeze(Joined(<<TrimSpace(Piece(t, i, e))>> \o rest)) = Squeeze(Piece(t, i, Len(t)))
<1> DEFINE c == TrimSpace(Piece(t, i, e))
<1>1. c \in Seq(X) /\ Squeeze(c) = Squeeze(Piece(t, i, e))
  BY PieceTyped, TrimKeeps
<1>2. e \in 0..Len(t) /\ Len(t) \in e..Len(t)
  OBVIOUS
<1>3. Squeeze(Piece(t, i, Len(t))) = Squeeze(Piece(t, i, e)) \o Squeeze(Piece(t, e, Len(t)))
  BY <1>2, SqueezePieces
<1> HIDE DEF c
<1>4. Joined(<<c>> \o rest) = Joined(<<c>>) \o Joined(rest)
  <2>1. <<c>> \in Seq(Seq(X))
    BY <1>1
  <2>2. JoinsBoth(<<c>>, rest)
    BY <2>1, JoinedConcat
  <2> QED BY <2>2 DEF JoinsBoth
<1>5. Joined(<<c>>) = c /\ Joined(rest) \in Seq(X)
  BY <1>1, JoinedOne, JoinedTyped
<1>6. Squeeze(c \o Joined(rest)) = Squeeze(c) \o Squeeze(Joined(rest))
  <2>1. KeepsBoth(c, Joined(rest), {" "})
    BY <1>1, <1>5, WithoutConcat
  <2> QED BY <2>1 DEF KeepsBoth, Squeeze
<1>7. Squeeze(Joined(<<c>> \o rest)) = Squeeze(Piece(t, i, Len(t)))
  BY <1>1, <1>3, <1>4, <1>5, <1>6
<1> QED BY <1>7 DEF c

LEMMA OneMoreFits ==
    ASSUME NEW X, NEW c \in Seq(X), NEW rest \in Seq(Seq(X)), NEW size, Len(c) <= size,
           \A k \in 1..Len(rest) : Len(rest[k]) <= size
    PROVE  \A k \in 1..Len(<<c>> \o rest) : Len((<<c>> \o rest)[k]) <= size
<1> DEFINE one == <<c>>
           all == one \o rest
<1>1. one \in Seq(Seq(X)) /\ Len(one) = 1 /\ one[1] = c /\ Len(rest) \in Nat
  OBVIOUS
<1> HIDE DEF one
<1>2. /\ Len(all) = Len(one) + Len(rest)
      /\ \A k \in 1..Len(all) : all[k] = IF k <= Len(one) THEN one[k] ELSE rest[k - Len(one)]
  BY <1>1, ConcatProperties
<1> SUFFICES ASSUME NEW k \in 1..Len(all) PROVE Len(all[k]) <= size
  BY DEF one
<1> HIDE DEF all
<1>3. CASE k = 1
  BY <1>1, <1>2, <1>3
<1>4. CASE k # 1
  <2>1. k - 1 \in 1..Len(rest) /\ ~(k <= 1)
    BY <1>1, <1>2, <1>4
  <2>2. all[k] = rest[k - 1]
    BY <1>1, <1>2, <2>1
  <2> QED BY <2>1, <2>2
<1> QED BY <1>3, <1>4

LEMMA SplitCovers ==
    ASSUME NEW X, NEW t \in Seq(X), NEW size \in Nat, NEW ends, NEW g \in [0..Len(t) -> Seq(Seq(X))],
           Splits(t, size, ends, g)
    PROVE  \A i \in 0..Len(t) : /\ Squeeze(Joined(g[i])) = Squeeze(Piece(t, i, Len(t)))
                                /\ \A k \in 1..Len(g[i]) : Len(g[i][k]) <= size
<1> DEFINE N == Len(t)
           Dom == 0..N
           stop == {N}
           rank == [i \in Dom |-> N - i]
           Fits(cs) == \A k \in 1..Len(cs) : Len(cs[k]) <= size
           P == {i \in Dom : Squeeze(Joined(g[i])) = Squeeze(Piece(t, i, N)) /\ Fits(g[i])}
<1>0. N \in Nat /\ N \in Dom
  OBVIOUS
<1>s. /\ ends \in [Dom -> Dom] /\ ends[N] = N /\ g[N] = <<>>
      /\ \A i \in Dom : i # N =>
           /\ i < ends[i] /\ ends[i] - i <= size
           /\ g[i] = <<TrimSpace(Piece(t, i, ends[i]))>> \o g[ends[i]]
  BY DEF Splits
<1>1. Ranked(Dom, stop, N, rank, ends)
  <2>1. stop \in SUBSET Dom
    BY <1>0
  <2>2. rank \in [Dom -> 0..N]
    <3> HIDE DEF N
    <3> QED BY <1>0
  <2>3. ASSUME NEW i \in Dom \ stop PROVE rank[ends[i]] < rank[i]
    <3>1. ends[i] \in Dom /\ i < ends[i] /\ i \in Dom
      <4> HIDE DEF Dom, N
      <4> QED BY <1>s
    <3> HIDE DEF N
    <3> QED BY <1>0, <3>1
  <2> HIDE DEF N, Dom, stop, rank
  <2> QED BY <1>0, <1>s, <2>1, <2>2, <2>3 DEF Ranked
<1>2. Inherited(Dom, stop, ends, P)
  <2>1. ASSUME NEW i \in Dom, i \in stop \/ ends[i] \in P PROVE i \in P
    <3>1. CASE i = N
      <4>1. g[N] = <<>> /\ Piece(t, N, N) = <<>>
        BY <1>s, PieceWhole
      <4>2. Fits(<<>>)
        OBVIOUS
      <4> HIDE DEF Dom, N, Fits
      <4> QED BY <1>0, <3>1, <4>1, <4>2, JoinedNone
    <3>2. CASE i # N
      <4> DEFINE e == ends[i]
                 c == TrimSpace(Piece(t, i, e))
      <4>1. e \in P /\ e \in Dom /\ i < e /\ e - i <= size /\ g[i] = <<c>> \o g[e]
        <5>1. ends[i] \in P
          BY <2>1, <3>2
        <5> HIDE DEF Dom, N
        <5> QED BY <1>s, <3>2, <5>1
      <4>2. g[e] \in Seq(Seq(X)) /\ Squeeze(Joined(g[e])) = Squeeze(Piece(t, e, N)) /\ Fits(g[e])
        <5> HIDE DEF Fits, e
        <5> QED BY <4>1
      <4> HIDE DEF e
      <4>3. i \in 0..N /\ e \in i..N
        <5> HIDE DEF N
        <5> QED BY <1>0, <4>1
      <4>4. Squeeze(Joined(g[i])) = Squeeze(Piece(t, i, N))
        BY <4>1, <4>2, <4>3, OneMorePiece
      <4>5. c \in Seq(X) /\ Len(c) <= size
        <5>1. Piece(t, i, e) \in Seq(X) /\ Len(Piece(t, i, e)) = e - i
          BY <4>3, PieceTyped
        <5>2. c \in Seq(X) /\ Len(c) <= Len(Piece(t, i, e))
          BY <5>1, TrimKeeps
        <5>3. Len(c) \in Int /\ e - i \in Int
          <6> HIDE DEF c, N
          <6> QED BY <1>0, <4>3, <5>2
        <5> HIDE DEF c
        <5> QED BY <4>1, <5>1, <5>2, <5>3
      <4>6. Fits(<<c>> \o g[e])
        <5> HIDE DEF c
        <5> QED BY <4>2, <4>5, OneMoreFits
      <4> HIDE DEF c, Fits, N
      <4> QED BY <4>1, <4>4, <4>6
    <3> QED BY <3>1, <3>2
  <2> HIDE DEF Dom, stop, Fits
  <2> QED BY <2>1 DEF Inherited
<1>3. P = Dom
  <2> HIDE DEF Dom, stop, rank, P, N
  <2> QED BY <1>1, <1>2, ByRank
<1> HIDE DEF Dom, N
<1>4. \A i \in Dom : Squeeze(Joined(g[i])) = Squeeze(Piece(t, i, N)) /\ Fits(g[i])
  <2> HIDE DEF Fits
  <2> QED BY <1>3
<1> QED BY <1>4 DEF Dom, N

LEMMA SplitWhole ==
    ASSUME NEW X, NEW text \in Seq(X), NEW size \in Nat \ {0}
    PROVE  /\ splitChunks(text, size) \in Seq(Seq(X))
           /\ Squeeze(Joined(splitChunks(text, size))) = Squeeze(text)
           /\ \A k \in 1..Len(splitChunks(text, size)) : Len(splitChunks(text, size)[k]) <= size
<1> DEFINE t == TrimSpace(text)
<1>1. PICK ends, g : /\ Splits(t, size, ends, g) /\ splitChunks(text, size) = g[0]
                     /\ g \in [0..Len(t) -> Seq(Seq(X))]
  BY SplitSplits
<1>2. t \in Seq(X) /\ Squeeze(t) = Squeeze(text)
  BY TrimKeeps
<1> HIDE DEF t
<1>3. 0 \in 0..Len(t) /\ size \in Nat
  BY <1>2
<1>4. \A i \in 0..Len(t) : /\ Squeeze(Joined(g[i])) = Squeeze(Piece(t, i, Len(t)))
                           /\ \A k \in 1..Len(g[i]) : Len(g[i][k]) <= size
  BY <1>1, <1>2, <1>3, SplitCovers
<1>5. Piece(t, 0, Len(t)) = t
  BY <1>2, PieceWhole
<1>6. g[0] \in Seq(Seq(X))
  BY <1>1, <1>3
<1>7. Squeeze(Joined(g[0])) = Squeeze(text)
  BY <1>2, <1>3, <1>4, <1>5
<1>8. \A k \in 1..Len(g[0]) : Len(g[0][k]) <= size
  BY <1>3, <1>4
<1> QED BY <1>1, <1>6, <1>7, <1>8

\* What the code summarises of a text: the chunks it makes, up to the cap.
LEMMA FirstCover ==
    ASSUME NEW X, NEW text \in Seq(X), NEW size \in Nat \ {0}
    PROVE  /\ FirstChunks(splitChunks(text, size)) \in Seq(Seq(X))
           /\ Len(FirstChunks(splitChunks(text, size))) <= MaxChunksPerDoc
           /\ Chunked(FirstChunks(splitChunks(text, size)), text, size)
<1>1. PICK cs : cs = splitChunks(text, size)
  OBVIOUS
<1>2. /\ cs \in Seq(Seq(X)) /\ Squeeze(Joined(cs)) = Squeeze(text)
      /\ \A k \in 1..Len(cs) : Len(cs[k]) <= size
  BY <1>1, SplitWhole
<1>3. PICK m : m = IF Len(cs) < MaxChunksPerDoc THEN Len(cs) ELSE MaxChunksPerDoc
  OBVIOUS
<1>4. /\ m \in 0..Len(cs) /\ m <= MaxChunksPerDoc /\ m \in Nat
      /\ m < MaxChunksPerDoc => m = Len(cs)
  <2>1. Len(cs) \in Nat
    BY <1>2
  <2>2. MaxChunksPerDoc \in Nat
    BY DocumentAssumption
  <2> QED BY <1>3, <2>1, <2>2
<1> DEFINE a == Piece(cs, 0, m)
           b == Piece(cs, m, Len(cs))
<1>5. FirstChunks(cs) = a
  <2>1. 0 + 1 = 1
    OBVIOUS
  <2> QED BY <1>3, <2>1 DEF FirstChunks, Piece
<1>6. /\ a \in Seq(Seq(X)) /\ Len(a) = m /\ \A k \in 1..m : a[k] = cs[k]
      /\ b \in Seq(Seq(X)) /\ cs = a \o b
  <2>1. 0 \in 0..Len(cs) /\ m \in 0..Len(cs) /\ Len(cs) \in m..Len(cs) /\ Len(cs) \in Nat
    BY <1>2, <1>4
  <2>2. /\ Piece(cs, 0, m) \in Seq(Seq(X)) /\ Len(Piece(cs, 0, m)) = m - 0
        /\ \A k \in 1..(m - 0) : Piece(cs, 0, m)[k] = cs[0 + k]
    BY <1>2, <2>1, PieceTyped
  <2>3. Piece(cs, m, Len(cs)) \in Seq(Seq(X))
    BY <1>2, <2>1, PieceTyped
  <2>4. PiecesMeet(cs, 0, m, Len(cs))
    BY <1>2, <2>1, PieceMeet
  <2>5. Piece(cs, 0, Len(cs)) = cs
    BY <1>2, PieceWhole
  <2>6. m - 0 = m /\ \A k \in 1..m : 0 + k = k
    BY <1>4
  <2>7. cs = a \o b
    BY <2>4, <2>5 DEF PiecesMeet
  <2>8. \A k \in 1..m : a[k] = cs[k]
    BY <2>2, <2>6
  <2> QED BY <2>2, <2>3, <2>6, <2>7, <2>8
<1> HIDE DEF a, b
<1> DEFINE part == Squeeze(Joined(a))
           rest == Squeeze(Joined(b))
<1>7. Joined(a) \in Seq(X) /\ Joined(b) \in Seq(X) /\ part \in Seq(X) /\ rest \in Seq(X)
  BY <1>6, JoinedTyped, SqueezeTyped
<1>8. Squeeze(text) = part \o rest
  <2>1. JoinsBoth(a, b)
    BY <1>6, JoinedConcat
  <2>2. KeepsBoth(Joined(a), Joined(b), {" "})
    BY <1>7, WithoutConcat
  <2>3. Squeeze(Joined(a) \o Joined(b)) = part \o rest
    BY <2>2 DEF KeepsBoth, Squeeze
  <2>4. Joined(cs) = Joined(a) \o Joined(b)
    BY <1>6, <2>1 DEF JoinsBoth
  <2> QED BY <1>2, <2>3, <2>4
<1>9. part = SubSeq(Squeeze(text), 1, Len(part))
  <2>1. Begins(part, rest)
    <3> HIDE DEF part, rest
    <3> QED BY <1>7, BeginsWith
  <2> HIDE DEF part, rest
  <2> QED BY <1>8, <2>1 DEF Begins
<1>10. Len(a) < MaxChunksPerDoc => part = Squeeze(text)
  <2> SUFFICES ASSUME Len(a) < MaxChunksPerDoc PROVE part = Squeeze(text)
    OBVIOUS
  <2>1. m = Len(cs)
    BY <1>4, <1>6
  <2>2. Piece(cs, 0, Len(cs)) = cs
    BY <1>2, PieceWhole
  <2>3. a = cs
    BY <2>1, <2>2 DEF a
  <2> QED BY <1>2, <2>3
<1>11. \A k \in 1..Len(a) : Len(a[k]) <= size
  <2> SUFFICES ASSUME NEW k \in 1..Len(a) PROVE Len(a[k]) <= size
    OBVIOUS
  <2>1. k \in 1..m /\ k \in 1..Len(cs)
    <3>1. Len(cs) \in Nat
      BY <1>2
    <3> QED BY <1>4, <1>6, <3>1
  <2> QED BY <1>2, <1>6, <2>1
<1>12. Chunked(a, text, size)
  BY <1>9, <1>10, <1>11 DEF Chunked
<1>13. Len(a) <= MaxChunksPerDoc
  BY <1>4, <1>6
<1> QED BY <1>1, <1>5, <1>6, <1>12, <1>13

-----------------------------------------------------------------------------
(* The stage of documents.                                                 *)

Byte == {"x", ".", " "}

\* What does not change with a summary: the chunks are those of the document
\* whose turn it is.
DocumentInv ==
    /\ documents \in Seq(Seq(Byte)) /\ Len(documents) <= MaxDocuments
    /\ chunkSize \in Nat
    /\ documents # <<>> => chunkSize # 0 /\ where = "documents"
    /\ chunks = ChunksOf(documents, chunkSize)
    /\ chunk \in 0..Len(chunks)
    /\ stageLate \in BOOLEAN /\ grounded \in BOOLEAN
    /\ grounded => where # "documents"

LEMMA DocumentSizes ==
    MaxDocuments \in Nat \ {0} /\ DefaultChunkSize \in Nat \ {0} /\ MaxChunksPerDoc \in Nat \ {0}
  BY DocumentAssumption

LEMMA NothingToDo ==
    /\ <<>> \in Seq(Seq(Byte)) /\ Len(<<>>) <= MaxDocuments /\ 0 \in 0..Len(<<>>)
    /\ \A size : ChunksOf(<<>>, size) = <<>>
<1>1. <<>> \in Seq(Seq(Byte))
  BY EmptySeq
<1>2. Len(<<>>) = 0 /\ MaxDocuments \in Nat
  BY DocumentSizes
<1>3. ASSUME NEW size PROVE ChunksOf(<<>>, size) = <<>>
  BY DEF ChunksOf
<1> QED BY <1>1, <1>2, <1>3

\* trimDocuments leaves texts, no more than were asked for.
LEMMA Trimmed ==
    ASSUME NEW X, NEW docs \in Seq(Seq(X)), NEW max \in Nat
    PROVE  trimDocuments(docs, max) \in Seq(Seq(X)) /\ Len(trimDocuments(docs, max)) <= max
<1> DEFINE n == IF Len(docs) < max THEN Len(docs) ELSE max
           first == SubSeq(docs, 1, n)
           bad == {first[i] : i \in {j \in 1..Len(first) : TrimSpace(first[j]) = <<>>}}
<1>1. n \in 0..Len(docs) /\ n <= max /\ n \in Nat
  <2>1. Len(docs) \in Nat
    OBVIOUS
  <2> QED BY <2>1
<1> HIDE DEF n
<1>2. first \in Seq(Seq(X)) /\ Len(first) = n
  <2>1. Piece(docs, 0, n) \in Seq(Seq(X)) /\ Len(Piece(docs, 0, n)) = n - 0
    <3>1. 0 \in 0..Len(docs) /\ n \in 0..Len(docs)
      BY <1>1
    <3> QED BY <3>1, PieceTyped
  <2>2. Piece(docs, 0, n) = first
    <3>1. 0 + 1 = 1
      OBVIOUS
    <3> QED BY <3>1 DEF Piece
  <2> QED BY <1>1, <2>1, <2>2
<1>3. trimDocuments(docs, max) = Without(first, bad)
  BY DEF trimDocuments, n
<1> HIDE DEF first, bad
<1>4. Without(first, bad) \in Seq(Seq(X)) /\ Len(Without(first, bad)) <= Len(first)
  BY <1>2, WithoutShortens
<1>5. Len(Without(first, bad)) \in Nat
  BY <1>4
<1> QED BY <1>1, <1>2, <1>3, <1>4, <1>5

LEMMA Limited ==
    ASSUME NEW asks \in Nat
    PROVE  /\ resolveMaxDocuments(asks) \in Nat /\ resolveMaxDocuments(asks) <= MaxDocuments
           /\ resolveChunkSize(asks) \in Nat \ {0}
<1>1. MaxDocuments \in Nat /\ DefaultChunkSize \in Nat \ {0}
  BY DocumentSizes
<1> QED BY <1>1 DEF resolveMaxDocuments, resolveChunkSize

\* The chunks of the document whose turn it is.
LEMMA ChunksTyped ==
    ASSUME NEW X, NEW docs \in Seq(Seq(X)), NEW size \in Nat, docs # <<>> => size # 0
    PROVE  /\ ChunksOf(docs, size) \in Seq(Seq(X)) /\ Len(ChunksOf(docs, size)) <= MaxChunksPerDoc
           /\ Len(ChunksOf(docs, size)) \in Nat
           /\ docs # <<>> => Chunked(ChunksOf(docs, size), Head(docs), size)
<1>1. CASE docs = <<>>
  <2>1. ChunksOf(docs, size) = <<>>
    BY <1>1 DEF ChunksOf
  <2>2. <<>> \in Seq(Seq(X)) /\ Len(<<>>) <= MaxChunksPerDoc /\ Len(<<>>) \in Nat
    <3>1. <<>> \in Seq(Seq(X))
      BY EmptySeq
    <3>2. Len(<<>>) = 0 /\ MaxChunksPerDoc \in Nat
      BY DocumentSizes
    <3> QED BY <3>1, <3>2
  <2> QED BY <1>1, <2>1, <2>2, Zenon
<1>2. CASE docs # <<>>
  <2>1. Head(docs) \in Seq(X)
    BY <1>2, HeadTailProperties
  <2>2. PICK cs : cs = FirstChunks(splitChunks(Head(docs), size))
    OBVIOUS
  <2>3. cs \in Seq(Seq(X)) /\ Len(cs) <= MaxChunksPerDoc /\ Chunked(cs, Head(docs), size)
    <3>1. size \in Nat \ {0}
      BY <1>2
    <3> QED BY <2>1, <2>2, <3>1, FirstCover
  <2>4. ChunksOf(docs, size) = cs /\ Len(cs) \in Nat
    BY <1>2, <2>2, <2>3 DEF ChunksOf
  <2> QED BY <2>3, <2>4
<1> QED BY <1>1, <1>2

LEMMA DocumentsBegin == Init => DocumentInv
<1> SUFFICES ASSUME Init PROVE DocumentInv
  OBVIOUS
<1>1. CASE Aside
  <2>1. /\ documents = <<>> /\ chunkSize = 0 /\ chunks = <<>> /\ chunk = 0
        /\ stageLate = FALSE /\ grounded = FALSE
    BY <1>1 DEF Aside
  <2>2. 0 \in Nat
    OBVIOUS
  <2> QED BY <2>1, <2>2, NothingToDo, Zenon DEF DocumentInv
<1>2. CASE ExchangeInit
  <2>1. PICK docs \in Inputs, max \in AskedLimits :
          documents = trimDocuments(docs, resolveMaxDocuments(max))
    BY <1>2 DEF ExchangeInit, DocumentsInit
  <2>2. PICK size \in AskedSizes : chunkSize = resolveChunkSize(size)
    BY <1>2 DEF ExchangeInit, DocumentsInit
  <2>3. docs \in Seq(Seq(Byte)) /\ max \in Nat /\ size \in Nat
    BY DocumentAssumption DEF Byte
  <2>4. /\ resolveMaxDocuments(max) \in Nat /\ resolveMaxDocuments(max) <= MaxDocuments
        /\ chunkSize \in Nat \ {0}
    BY <2>2, <2>3, Limited
  <2>5. documents \in Seq(Seq(Byte)) /\ Len(documents) <= resolveMaxDocuments(max)
    BY <2>1, <2>3, <2>4, Trimmed
  <2>6. Len(documents) <= MaxDocuments
    <3>1. Len(documents) \in Nat /\ MaxDocuments \in Nat
      BY <2>5, DocumentSizes
    <3> QED BY <2>4, <2>5, <3>1
  <2>7. 0 \in 0..Len(ChunksOf(documents, chunkSize))
    <3>1. Len(ChunksOf(documents, chunkSize)) \in Nat
      BY <2>4, <2>5, ChunksTyped
    <3> QED BY <3>1
  <2>8. /\ where = "documents" /\ chunks = ChunksOf(documents, chunkSize) /\ chunk = 0
        /\ stageLate = FALSE /\ grounded = FALSE
    BY <1>2 DEF ExchangeInit, DocumentsInit
  <2>9. chunkSize \in Nat /\ chunkSize # 0 /\ FALSE \in BOOLEAN
    BY <2>4
  <2> QED BY <2>5, <2>6, <2>7, <2>8, <2>9, Zenon DEF DocumentInv
<1> QED BY <1>1, <1>2 DEF Init

LEMMA DocumentsLeft ==
    ASSUME NEW applied \in BOOLEAN, LeaveStage(applied) PROVE DocumentInv'
<1>1. /\ documents' = <<>> /\ chunkSize' = 0 /\ chunks' = <<>> /\ chunk' = 0
      /\ stageLate' = FALSE /\ grounded' = applied /\ where' = "prepare"
  BY DEF LeaveStage
<1>2. 0 \in Nat /\ "prepare" # "documents"
  OBVIOUS
<1> QED BY <1>1, <1>2, NothingToDo, Zenon DEF DocumentInv

LEMMA DocumentStep == DocumentInv /\ [Next]_vars => DocumentInv'
<1> SUFFICES ASSUME DocumentInv, [Next]_vars PROVE DocumentInv'
  OBVIOUS
<1>0. ASSUME UNCHANGED documentVars, where = "documents" => where' = "documents",
             where' = "documents" => where = "documents"
      PROVE  DocumentInv'
  BY <1>0 DEF DocumentInv, documentVars, ChunksOf
<1>1. CASE UNCHANGED exchangeVars
  BY <1>0, <1>1 DEF exchangeVars
<1>2. CASE Leave /\ UNCHANGED <<documentVars, toolVars>>
  BY <1>0, <1>2 DEF Leave
<1>3. CASE DocumentsStep /\ UNCHANGED toolVars
  <2>1. CASE NoDocuments \/ SummaryFails
    BY <2>1, DocumentsLeft DEF NoDocuments, SummaryFails
  <2>2. CASE summarizeChunk
    <3>1. /\ UNCHANGED <<where, documents, chunkSize, chunks, stageLate, grounded>>
          /\ chunk' = chunk + 1 /\ chunk < Len(chunks)
      BY <2>2 DEF summarizeChunk
    <3>2. Len(chunks) \in Nat /\ chunk \in 0..Len(chunks)
      <4>1. Len(ChunksOf(documents, chunkSize)) \in Nat
        BY ChunksTyped DEF DocumentInv
      <4> QED BY <4>1 DEF DocumentInv
    <3>3. chunk' \in 0..Len(chunks')
      BY <3>1, <3>2
    <3> QED BY <3>1, <3>3 DEF DocumentInv, ChunksOf
  <2>3. CASE summarizeDocument
    <3>1. CASE \E applied \in {TRUE} : LeaveStage(applied)
      BY <3>1, DocumentsLeft
    <3>2. CASE /\ documents' = Tail(documents) /\ chunks' = ChunksOf(Tail(documents), chunkSize)
               /\ chunk' = 0 /\ UNCHANGED <<where, chunkSize, stageLate, grounded>>
      <4>1. documents \in Seq(Seq(Byte)) /\ documents # <<>> /\ chunkSize \in Nat /\ chunkSize # 0
            /\ where = "documents"
        BY <2>3 DEF summarizeDocument, DocumentInv
      <4>2. documents' \in Seq(Seq(Byte)) /\ Len(documents') = Len(documents) - 1
        BY <3>2, <4>1, HeadTailProperties
      <4>3. Len(documents') <= MaxDocuments
        <5>1. MaxDocuments \in Nat /\ Len(documents) \in Nat
          BY <4>1, DocumentSizes
        <5> QED BY <4>2, <5>1 DEF DocumentInv
      <4>4. PICK docs \in Seq(Seq(Byte)) : docs = documents'
        BY <4>2
      <4>5. Len(ChunksOf(docs, chunkSize)) \in Nat
        BY <4>1, ChunksTyped
      <4>6. chunks' = ChunksOf(documents', chunkSize') /\ chunk' \in 0..Len(chunks')
        BY <3>2, <4>4, <4>5
      <4>7. chunkSize' \in Nat /\ chunkSize' # 0 /\ where' = "documents" /\ stageLate' \in BOOLEAN
            /\ grounded' \in BOOLEAN /\ ~grounded'
        BY <3>2, <4>1 DEF DocumentInv
      <4> QED BY <4>2, <4>3, <4>6, <4>7 DEF DocumentInv
    <3> QED BY <2>3, <3>1, <3>2 DEF summarizeDocument
  <2>4. CASE SummaryRepeats
    BY <1>0, <2>4 DEF SummaryRepeats
  <2>5. CASE StageExpires
    <3>1. UNCHANGED <<where, documents, chunkSize, chunks, chunk, grounded>> /\ stageLate' = TRUE
      BY <2>5 DEF StageExpires
    <3> QED BY <3>1 DEF DocumentInv, ChunksOf
  <2> QED BY <1>3, <2>1, <2>2, <2>3, <2>4, <2>5 DEF DocumentsStep
<1>4. CASE ToolsStep /\ UNCHANGED documentVars
  <2>1. \/ where \in {"prepare", "fetch", "plain", "ask", "tools"} /\ where' # "documents"
        \/ where' = where
    BY <1>4 DEF ToolsStep, prepareTools, fetchToolDefinitions, CacheChanges, ModelRepeats, ModelFails,
                ModelAnswers, ModelCallsTools, UnsupportedTool, ToolAnswers, ToolFails, ToolsDone,
                Asking, Loop, LoopFails
  <2> QED BY <1>0, <1>4, <2>1
<1> QED BY <1>1, <1>2, <1>3, <1>4, ExchangeCases

\* The chunks of the document that is being summarised hold all its text in
\* order, up to the cap on their number, and none is longer than was asked for:
\* for any text, any chunk size and any configuration (splitChunks).
THEOREM ChunksHoldText == Spec => []ChunksCover
<1>1. DocumentInv => ChunksCover
  BY ChunksTyped DEF DocumentInv, ChunksCover
<1> QED
  BY <1>1, DocumentsBegin, DocumentStep, PTL DEF Spec

-----------------------------------------------------------------------------
(* The requests of a stage, and types.                                     *)

\* The calls for summaries that have been answered, counted as if every
\* document before the present one had had all the chunks it may have.
Summarised == (MaxDocuments - Len(documents)) * (MaxChunksPerDoc + 1) + chunk

\* The requests that were sent are those of the calls that were answered, each
\* tried as often as may be, and those of the call that is under way.
CountInv ==
    /\ attempt \in 0..RetryMax /\ requests \in Nat /\ iter \in 0..MaxIterations
    /\ where \in {"documents", "prepare", "fetch"} => iter = 0
    /\ where = "documents" =>
         /\ requests <= (RetryMax + 1) * Summarised + attempt
         /\ documents = <<>> => attempt = 0
    /\ where \in {"prepare", "fetch"} => requests = 0 /\ attempt = 0
    /\ where \in {"plain", "ask"} => iter < MaxIterations /\ requests <= (RetryMax + 1) * iter + attempt
    /\ where = "tools" => requests <= (RetryMax + 1) * iter /\ attempt = 0
    /\ where \in {"answered", "failed", "aside"} => requests <= (RetryMax + 1) * MaxIterations

ToolTypes ==
    /\ where \in {"documents", "prepare", "fetch", "plain", "ask", "tools", "answered", "failed",
              "aside"}
    /\ late \in BOOLEAN
    /\ tools \in {"none", "own", "auto"} /\ enabled \in BOOLEAN /\ cache \in {"empty", "fresh", "stale"}
    /\ fallback \in BOOLEAN /\ loop \in {1, 2} /\ failures \in 0..MaxFailures
    /\ mode # "none" <=> where = "aside"

LEMMA ExchangeSizes ==
    RetryMax \in Nat /\ MaxIterations \in Nat \ {0} /\ MaxFailures \in Nat
  BY RetryAssumption, ToolAssumption

\* One more try, and one more call, of calls that are tried R + 1 times at most.
LEMMA OneMoreTry ==
    ASSUME NEW R \in Nat, NEW n \in Nat, NEW a \in 0..R, NEW r \in Nat, r <= (R + 1) * n + a
    PROVE  /\ a < R => r <= (R + 1) * n + (a + 1) /\ r + 1 <= (R + 1) * n + (a + 1)
           /\ r + 1 <= (R + 1) * (n + 1) /\ r <= (R + 1) * (n + 1)
<1>1. PICK p \in Nat : p = (R + 1) * n
  OBVIOUS
<1>2. (R + 1) * (n + 1) = p + R + 1
  <2>1. (R + 1) * (n + 1) = (R + 1) * n + (R + 1)
    OBVIOUS
  <2> QED BY <1>1, <2>1
<1> QED BY <1>1, <1>2

LEMMA MoreCalls ==
    ASSUME NEW R \in Nat, NEW m \in Nat, NEW n \in Nat, m <= n
    PROVE  (R + 1) * m <= (R + 1) * n
<1>1. PICK d \in Nat : n = m + d
  <2>1. n - m \in Nat /\ n = m + (n - m)
    OBVIOUS
  <2> QED BY <2>1
<1>2. (R + 1) * (m + d) = (R + 1) * m + (R + 1) * d
  OBVIOUS
<1>3. (R + 1) * d \in Nat /\ (R + 1) * m \in Nat
  OBVIOUS
<1> QED BY <1>1, <1>2, <1>3

\* The next document counts for all its chunks and its own summary, or more.
LEMMA NextDocument ==
    ASSUME NEW N \in Nat, NEW C \in Nat, NEW n \in 1..N, NEW k \in 0..C
    PROVE  /\ (N - n) * (C + 1) + k \in Nat
           /\ ((N - n) * (C + 1) + k) + 1 <= (N - (n - 1)) * (C + 1)
           /\ (N - (n - 1)) * (C + 1) \in Nat
           /\ ((N - n) * (C + 1) + k) + 1 <= N * (C + 1)
<1>1. PICK e \in Nat : N = n + e
  <2>1. N - n \in Nat /\ N = n + (N - n)
    OBVIOUS
  <2> QED BY <2>1
<1>2. PICK p \in Nat : p = e * (C + 1)
  OBVIOUS
<1>3. (e + 1) * (C + 1) = p + C + 1
  <2>1. (e + 1) * (C + 1) = e * (C + 1) + (C + 1)
    OBVIOUS
  <2> QED BY <1>2, <2>1
<1>4. N - n = e /\ N - (n - 1) = e + 1
  BY <1>1
<1>5. (e + 1) * (C + 1) <= N * (C + 1)
  <2>1. PICK f \in Nat : N = (e + 1) + f
    <3>1. n - 1 \in Nat /\ N = (e + 1) + (n - 1)
      BY <1>1
    <3> QED BY <3>1
  <2>2. ((e + 1) + f) * (C + 1) = (e + 1) * (C + 1) + f * (C + 1)
    OBVIOUS
  <2>3. f * (C + 1) \in Nat /\ (e + 1) * (C + 1) \in Nat
    OBVIOUS
  <2> QED BY <2>1, <2>2, <2>3
<1>6. (N - n) * (C + 1) = p /\ (N - (n - 1)) * (C + 1) = p + C + 1
  BY <1>2, <1>3, <1>4
<1>7. p + C + 1 <= N * (C + 1)
  BY <1>3, <1>5
<1>8. N * (C + 1) \in Nat
  OBVIOUS
<1> QED BY <1>6, <1>7, <1>8

LEMMA CountRests ==
    ASSUME CountInv, UNCHANGED <<where, attempt, requests, iter, documents, chunk>>
    PROVE  CountInv'
  BY DEF CountInv, Summarised

\* The stage or the loop is left, and what follows starts counting.
LEMMA CountFresh ==
    ASSUME requests' = 0, attempt' = 0, iter' = 0, where' \in {"prepare", "fetch", "failed"}
    PROVE  CountInv'
<1>1. RetryMax \in Nat /\ MaxIterations \in Nat /\ 0 \in Nat
  BY ExchangeSizes
<1>2. (RetryMax + 1) * MaxIterations \in Nat
  BY <1>1
<1>3. 0 \in 0..RetryMax /\ 0 \in 0..MaxIterations /\ 0 <= (RetryMax + 1) * MaxIterations
  BY <1>1, <1>2
<1> QED BY <1>1, <1>3 DEF CountInv

\* What is known while documents are summarised.
LEMMA Summarising ==
    ASSUME DocumentInv, CountInv, where = "documents", documents # <<>>
    PROVE  /\ Summarised \in Nat /\ Len(documents) \in 1..MaxDocuments
           /\ chunk \in 0..MaxChunksPerDoc /\ Len(chunks) \in 0..MaxChunksPerDoc
           /\ Summarised + 1 <= (MaxDocuments - (Len(documents) - 1)) * (MaxChunksPerDoc + 1)
           /\ (MaxDocuments - (Len(documents) - 1)) * (MaxChunksPerDoc + 1) \in Nat
           /\ Summarised + 1 <= MaxDocuments * (MaxChunksPerDoc + 1)
           /\ iter = 0
<1>1. MaxDocuments \in Nat /\ MaxChunksPerDoc \in Nat
  BY DocumentSizes
<1>2. Len(documents) \in 1..MaxDocuments
  <2>1. documents \in Seq(Seq(Byte)) /\ Len(documents) <= MaxDocuments
    BY DEF DocumentInv
  <2>2. Len(documents) \in Nat /\ Len(documents) # 0
    BY <2>1, EmptySeq
  <2> QED BY <1>1, <2>1, <2>2
<1>3. chunks = ChunksOf(documents, chunkSize) /\ chunk \in 0..Len(chunks)
  BY DEF DocumentInv
<1>4. Len(chunks) \in Nat /\ Len(chunks) <= MaxChunksPerDoc
  BY <1>3, ChunksTyped DEF DocumentInv
<1>5. chunk \in 0..MaxChunksPerDoc /\ Len(chunks) \in 0..MaxChunksPerDoc
  BY <1>1, <1>3, <1>4
<1>6. iter = 0
  BY DEF CountInv
<1> QED BY <1>1, <1>2, <1>5, <1>6, NextDocument DEF Summarised

LEMMA CountDocuments ==
    ASSUME DocumentInv, CountInv, DocumentsStep, UNCHANGED toolVars PROVE CountInv'
<1>0. where = "documents" /\ iter' = iter /\ iter = 0
  BY DEF DocumentsStep, NoDocuments, summarizeChunk, summarizeDocument, SummaryRepeats, SummaryFails,
         StageExpires, toolVars, CountInv
<1>r. RetryMax \in Nat /\ MaxIterations \in Nat /\ 0 \in 0..RetryMax /\ 0 \in 0..MaxIterations
  BY ExchangeSizes
<1>n. requests \in Nat /\ attempt \in 0..RetryMax /\ requests <= (RetryMax + 1) * Summarised + attempt
  BY <1>0 DEF CountInv
<1>1. CASE NoDocuments \/ SummaryFails
  <2>1. requests' = 0 /\ attempt' = 0 /\ where' = "prepare"
    BY <1>1 DEF NoDocuments, SummaryFails, LeaveStage
  <2> QED BY <1>0, <2>1, CountFresh
<1>2. CASE summarizeChunk
  <2>1. /\ where' = "documents" /\ documents' = documents /\ chunk' = chunk + 1
        /\ attempt' = 0 /\ requests' = requests + 1 /\ chunk < Len(chunks)
    BY <1>0, <1>2 DEF summarizeChunk, ChatAnswers
  <2>2. documents # <<>>
    <3> SUFFICES ASSUME documents = <<>> PROVE FALSE
      OBVIOUS
    <3>1. chunks = <<>> /\ chunk \in 0..Len(chunks)
      BY NothingToDo DEF DocumentInv
    <3>2. Len(<<>>) = 0
      OBVIOUS
    <3> QED BY <2>1, <3>1, <3>2
  <2>3. Summarised \in Nat /\ chunk \in Nat /\ Len(documents) \in Nat
    BY <1>0, <2>2, Summarising
  <2>4. Summarised' = Summarised + 1
    <3>1. PICK q \in Int : q = (MaxDocuments - Len(documents)) * (MaxChunksPerDoc + 1)
      BY <2>3, DocumentSizes
    <3> QED BY <2>1, <2>3, <3>1 DEF Summarised
  <2>5. requests + 1 <= (RetryMax + 1) * (Summarised + 1)
    BY <1>r, <1>n, <2>3, OneMoreTry
  <2>6. requests' <= (RetryMax + 1) * Summarised' + attempt'
    <3>1. PICK q \in Nat : q = (RetryMax + 1) * (Summarised + 1)
      BY <1>r, <2>3
    <3> QED BY <2>1, <2>4, <2>5, <3>1
  <2>7. requests' \in Nat
    BY <1>n, <2>1
  <2> QED BY <1>0, <1>r, <2>1, <2>6, <2>7 DEF CountInv
<1>3. CASE summarizeDocument
  <2>1. CASE \E applied \in {TRUE} : LeaveStage(applied)
    <3>1. requests' = 0 /\ attempt' = 0 /\ where' = "prepare"
      BY <2>1 DEF LeaveStage
    <3> QED BY <1>0, <3>1, CountFresh
  <2>2. CASE /\ ChatAnswers(late \/ stageLate) /\ documents' = Tail(documents) /\ chunk' = 0
             /\ where' = where
    <3>1. documents # <<>> /\ documents \in Seq(Seq(Byte))
      BY <1>3 DEF summarizeDocument, DocumentInv
    <3>2. Len(documents') = Len(documents) - 1
      BY <2>2, <3>1, HeadTailProperties
    <3>3. /\ Summarised \in Nat
          /\ Summarised + 1 <= (MaxDocuments - (Len(documents) - 1)) * (MaxChunksPerDoc + 1)
      BY <1>0, <3>1, Summarising
    <3>4. PICK n \in Nat : n = (MaxDocuments - (Len(documents) - 1)) * (MaxChunksPerDoc + 1)
      BY <1>0, <3>1, Summarising
    <3>5. Summarised' = n
      BY <2>2, <3>2, <3>4 DEF Summarised
    <3>6. requests + 1 <= (RetryMax + 1) * (Summarised + 1)
      BY <1>r, <1>n, <3>3, OneMoreTry
    <3>7. (RetryMax + 1) * (Summarised + 1) <= (RetryMax + 1) * n
      <4>1. Summarised + 1 \in Nat /\ Summarised + 1 <= n
        BY <3>3, <3>4
      <4> QED BY <1>r, <4>1, MoreCalls
    <3>8. requests' = requests + 1 /\ attempt' = 0
      BY <2>2 DEF ChatAnswers
    <3>9. requests' <= (RetryMax + 1) * Summarised' + attempt'
      <4>1. PICK q \in Nat : q = (RetryMax + 1) * n
        BY <1>r
      <4>2. PICK u \in Nat : u = (RetryMax + 1) * (Summarised + 1)
        BY <1>r, <3>3
      <4> QED BY <1>n, <3>5, <3>6, <3>7, <3>8, <4>1, <4>2
    <3> QED BY <1>0, <1>r, <1>n, <2>2, <3>8, <3>9 DEF CountInv
  <2> QED BY <1>3, <2>1, <2>2 DEF summarizeDocument
<1>4. CASE SummaryRepeats
  <2>1. /\ UNCHANGED <<where, documents, chunk>> /\ documents # <<>>
        /\ attempt < RetryMax /\ attempt' = attempt + 1 /\ requests' \in {requests, requests + 1}
    BY <1>4 DEF SummaryRepeats, ChatRepeats, documentVars
  <2>2. Summarised \in Nat /\ Summarised' = Summarised
    BY <1>0, <2>1, Summarising DEF Summarised
  <2>3. /\ requests <= (RetryMax + 1) * Summarised + (attempt + 1)
        /\ requests + 1 <= (RetryMax + 1) * Summarised + (attempt + 1)
    BY <1>r, <1>n, <2>1, <2>2, OneMoreTry
  <2>4. requests' <= (RetryMax + 1) * Summarised' + attempt'
    BY <2>1, <2>2, <2>3
  <2>5. attempt' \in 0..RetryMax /\ requests' \in Nat
    BY <1>r, <1>n, <2>1
  <2> QED BY <1>0, <1>r, <2>1, <2>4, <2>5 DEF CountInv
<1>5. CASE StageExpires
  BY <1>0, <1>5, CountRests DEF StageExpires, callVars
<1> QED BY <1>1, <1>2, <1>3, <1>4, <1>5 DEF DocumentsStep

LEMMA CountTools ==
    ASSUME CountInv, ToolsStep, UNCHANGED documentVars PROVE CountInv'
<1>r. RetryMax \in Nat /\ MaxIterations \in Nat \ {0} /\ 0 \in 0..RetryMax /\ 0 \in 0..MaxIterations
  BY ExchangeSizes
<1>n. requests \in Nat /\ attempt \in 0..RetryMax /\ iter \in 0..MaxIterations
  BY DEF CountInv
<1>d. documents' = documents /\ chunk' = chunk
  BY DEF documentVars
<1>b. PICK bound \in Nat : bound = (RetryMax + 1) * MaxIterations
  BY <1>r
<1>1. CASE LoopFails
  <2>1. requests' = 0 /\ attempt' = 0 /\ iter' = 0 /\ where' \in {"prepare", "failed"}
    BY <1>1 DEF LoopFails
  <2> QED BY <2>1, CountFresh
<1>2. CASE (prepareTools \/ fetchToolDefinitions) /\ ~LoopFails
  <2>1. /\ where \in {"prepare", "fetch"} /\ where' \in {"plain", "ask", "fetch"}
        /\ UNCHANGED <<attempt, requests, iter>>
    BY <1>2 DEF prepareTools, fetchToolDefinitions, Loop, callVars
  <2>2. requests = 0 /\ attempt = 0 /\ iter = 0
    BY <2>1 DEF CountInv
  <2>3. 0 <= (RetryMax + 1) * 0 + 0 /\ 0 < MaxIterations
    BY <1>r
  <2> QED BY <1>r, <2>1, <2>2, <2>3 DEF CountInv
<1>3. CASE CacheChanges
  <2>1. UNCHANGED <<where, attempt, requests, iter>>
    BY <1>3 DEF CacheChanges, Loop, callVars
  <2> QED BY <1>d, <2>1, CountRests
<1>4. CASE ModelRepeats
  <2>1. /\ where \in {"plain", "ask"} /\ where' = where /\ iter' = iter
        /\ attempt < RetryMax /\ attempt' = attempt + 1 /\ requests' \in {requests, requests + 1}
    BY <1>4 DEF ModelRepeats, Asking, ChatRepeats, Loop
  <2>2. iter < MaxIterations /\ requests <= (RetryMax + 1) * iter + attempt
    BY <2>1 DEF CountInv
  <2>3. iter \in Nat
    BY <1>r, <1>n
  <2>4. /\ requests <= (RetryMax + 1) * iter + (attempt + 1)
        /\ requests + 1 <= (RetryMax + 1) * iter + (attempt + 1)
    BY <1>r, <1>n, <2>1, <2>2, <2>3, OneMoreTry
  <2>5. requests' <= (RetryMax + 1) * iter' + attempt'
    BY <2>1, <2>4
  <2>6. attempt' \in 0..RetryMax /\ requests' \in Nat
    BY <1>r, <1>n, <2>1
  <2> QED BY <1>n, <2>1, <2>2, <2>5, <2>6 DEF CountInv
<1>5. CASE ModelAnswers \/ ModelCallsTools
  <2>1. where \in {"plain", "ask"} /\ attempt' = 0 /\ requests' = requests + 1
    BY <1>5 DEF ModelAnswers, ModelCallsTools, Asking, ChatAnswers
  <2>2. iter < MaxIterations /\ requests <= (RetryMax + 1) * iter + attempt
    BY <2>1 DEF CountInv
  <2>3. iter \in Nat /\ iter + 1 \in 0..MaxIterations /\ iter + 1 <= MaxIterations
    BY <1>r, <1>n, <2>2
  <2>4. requests + 1 <= (RetryMax + 1) * (iter + 1)
    BY <1>r, <1>n, <2>2, <2>3, OneMoreTry
  <2>5. (RetryMax + 1) * (iter + 1) <= (RetryMax + 1) * MaxIterations
    <3>1. iter + 1 \in Nat /\ MaxIterations \in Nat
      BY <1>r, <2>3
    <3> QED BY <1>r, <2>3, <3>1, MoreCalls
  <2>6. requests' \in Nat
    BY <1>n, <2>1
  <2>7. CASE ModelAnswers
    <3>1. where' = "answered" /\ iter' = iter
      BY <2>7 DEF ModelAnswers, Loop
    <3>2. PICK q \in Nat : q = (RetryMax + 1) * (iter + 1)
      BY <1>r, <2>3
    <3>3. requests' <= (RetryMax + 1) * MaxIterations
      BY <1>n, <1>b, <2>1, <2>4, <2>5, <3>2
    <3> QED BY <1>r, <1>n, <2>1, <2>6, <3>1, <3>3 DEF CountInv
  <2>8. CASE ModelCallsTools
    <3>1. where' = "tools" /\ iter' = iter + 1
      BY <2>8 DEF ModelCallsTools
    <3>2. requests' <= (RetryMax + 1) * iter'
      BY <2>1, <2>4, <3>1
    <3> QED BY <1>r, <2>1, <2>3, <2>6, <3>1, <3>2 DEF CountInv
  <2> QED BY <1>5, <2>7, <2>8
<1>6. CASE UnsupportedTool \/ ToolAnswers \/ ToolFails
  <2>1. UNCHANGED <<where, attempt, requests, iter>>
    BY <1>6 DEF UnsupportedTool, ToolAnswers, ToolFails, callVars
  <2> QED BY <1>d, <2>1, CountRests
<1>7. CASE ToolsDone /\ ~LoopFails
  <2>1. /\ where = "tools" /\ where' = "ask" /\ iter < MaxIterations
        /\ UNCHANGED <<attempt, requests, iter>>
    BY <1>7 DEF ToolsDone, Loop, callVars
  <2>2. requests <= (RetryMax + 1) * iter /\ attempt = 0
    BY <2>1 DEF CountInv
  <2>3. PICK q \in Nat : q = (RetryMax + 1) * iter
    BY <1>r, <1>n
  <2>4. requests' <= (RetryMax + 1) * iter' + attempt'
    BY <1>n, <2>1, <2>2, <2>3
  <2> QED BY <1>n, <2>1, <2>4 DEF CountInv
<1>8. CASE ModelFails
  BY <1>1, <1>8 DEF ModelFails
<1> QED
  BY <1>1, <1>2, <1>3, <1>4, <1>5, <1>6, <1>7, <1>8 DEF ToolsStep

LEMMA CountBegin == Init => CountInv
<1> SUFFICES ASSUME Init PROVE CountInv
  OBVIOUS
<1>1. /\ where \in {"documents", "aside"} /\ attempt = 0 /\ requests = 0 /\ iter = 0
      /\ where = "documents" => chunk = 0
  BY DEF Init, Aside, ExchangeInit, DocumentsInit, ToolsInit
<1>2. RetryMax \in Nat /\ MaxIterations \in Nat /\ 0 \in Nat
  BY ExchangeSizes
<1>3. 0 \in 0..RetryMax /\ 0 \in 0..MaxIterations /\ 0 <= (RetryMax + 1) * MaxIterations
  <2>1. (RetryMax + 1) * MaxIterations \in Nat
    BY <1>2
  <2> QED BY <1>2, <2>1
<1>4. where = "documents" => 0 <= (RetryMax + 1) * Summarised + 0
  <2> SUFFICES ASSUME where = "documents" PROVE 0 <= (RetryMax + 1) * Summarised
    <3>1. Summarised \in Int
      <4>1. Len(documents) \in Nat /\ chunk \in Int
        BY <1>1, DocumentsBegin DEF DocumentInv
      <4> QED BY <4>1, DocumentSizes DEF Summarised
    <3> QED BY <1>2, <3>1
  <2>1. Len(documents) \in Nat /\ Len(documents) <= MaxDocuments
    BY DocumentsBegin DEF DocumentInv
  <2>2. PICK left \in Nat : left = MaxDocuments - Len(documents)
    <3>1. MaxDocuments \in Nat
      BY DocumentSizes
    <3> QED BY <2>1, <3>1
  <2>3. MaxChunksPerDoc \in Nat
    BY DocumentSizes
  <2>4. left * (MaxChunksPerDoc + 1) \in Nat
    BY <2>3
  <2>5. Summarised \in Nat
    BY <1>1, <2>2, <2>4 DEF Summarised
  <2> QED BY <1>2, <2>5
<1> QED BY <1>1, <1>2, <1>3, <1>4 DEF CountInv

LEMMA CountStep == DocumentInv /\ CountInv /\ [Next]_vars => CountInv'
<1> SUFFICES ASSUME DocumentInv, CountInv, [Next]_vars PROVE CountInv'
  OBVIOUS
<1>1. CASE UNCHANGED exchangeVars
  BY <1>1, CountRests DEF exchangeVars, callVars, documentVars, toolVars
<1>2. CASE Leave /\ UNCHANGED <<documentVars, toolVars>>
  BY <1>2, CountRests DEF Leave, documentVars, toolVars
<1> QED
  BY <1>1, <1>2, CountDocuments, CountTools, ExchangeCases

LEMMA TypesBegin == Init => ToolTypes
<1> SUFFICES ASSUME Init PROVE ToolTypes
  OBVIOUS
<1>1. 0 \in 0..MaxFailures
  BY ExchangeSizes
<1>2. CASE Aside
  BY <1>1, <1>2 DEF Init, Aside, ToolTypes, ShouldExecute, ExchangeInit
<1>3. CASE ExchangeInit
  BY <1>1, <1>3 DEF Init, Aside, ExchangeInit, ToolsInit, ToolTypes, ShouldExecute
<1> QED BY <1>2, <1>3 DEF Init

LEMMA TypesStep == ToolTypes /\ [Next]_vars => ToolTypes'
<1> SUFFICES ASSUME ToolTypes, [Next]_vars PROVE ToolTypes'
  OBVIOUS
<1>m. mode' = mode
  BY ModeKept
<1>1. CASE UNCHANGED exchangeVars
  BY <1>m, <1>1 DEF exchangeVars, toolVars, ToolTypes
<1>2. CASE Leave /\ UNCHANGED <<documentVars, toolVars>>
  BY <1>m, <1>2 DEF Leave, toolVars, ToolTypes
<1>3. CASE DocumentsStep /\ UNCHANGED toolVars
  <2>1. where = "documents" /\ where' \in {"documents", "prepare"} /\ late' = late
    BY <1>3 DEF DocumentsStep, NoDocuments, summarizeChunk, summarizeDocument, SummaryRepeats,
                SummaryFails, StageExpires, LeaveStage
  <2> QED BY <1>m, <1>3, <2>1 DEF toolVars, ToolTypes
<1>4. CASE ToolsStep
  <2>1. CASE LoopFails
    <3>1. /\ where' \in {"prepare", "failed"} /\ loop' \in {loop, 2} /\ failures' = 0
          /\ UNCHANGED <<late, tools, enabled, cache, fallback>>
      BY <2>1 DEF LoopFails
    <3>2. where # "aside"
      BY <1>4, <2>1 DEF ToolsStep, prepareTools, fetchToolDefinitions, CacheChanges, ModelRepeats,
             ModelFails, ModelAnswers, ModelCallsTools, UnsupportedTool, ToolAnswers, ToolFails,
             ToolsDone, Asking, Calling
    <3>3. 0 \in 0..MaxFailures
      BY ExchangeSizes
    <3> QED BY <1>m, <3>1, <3>2, <3>3 DEF ToolTypes
  <2>2. CASE ~LoopFails
    <3>1. /\ where \in {"documents", "prepare", "fetch", "plain", "ask", "tools"}
          /\ where' \in {where, "plain", "ask", "fetch", "tools", "answered"}
          /\ cache' \in {cache, "fresh", "stale"}
          /\ UNCHANGED <<late, tools, enabled, fallback, loop>>
      BY <1>4, <2>2 DEF ToolsStep, prepareTools, fetchToolDefinitions, CacheChanges, ModelRepeats,
             ModelFails, ModelAnswers, ModelCallsTools, UnsupportedTool, ToolAnswers, ToolFails,
             ToolsDone, Asking, Calling, Loop
    <3>2. failures' \in 0..MaxFailures
      <4>0. failures \in 0..MaxFailures /\ MaxFailures \in Nat /\ late \in BOOLEAN
        BY ExchangeSizes DEF ToolTypes
      <4>1. CASE ToolFails
        <5>1. /\ failures < MaxFailures \/ late
              /\ failures' = IF late THEN failures ELSE failures + 1
          BY <4>1 DEF ToolFails
        <5> QED BY <4>0, <5>1
      <4>2. CASE ~ToolFails
        <5>1. failures' = failures
          BY <1>4, <2>2, <4>2 DEF ToolsStep, prepareTools, fetchToolDefinitions, CacheChanges,
             ModelRepeats, ModelFails, ModelAnswers, ModelCallsTools, UnsupportedTool, ToolAnswers,
             ToolsDone, Loop
        <5> QED BY <4>0, <5>1
      <4> QED BY <4>1, <4>2
    <3> QED BY <1>m, <3>1, <3>2 DEF ToolTypes
  <2> QED BY <2>1, <2>2
<1> QED BY <1>1, <1>2, <1>3, <1>4, ExchangeCases

\* The requests that a stage can cause at the upstream are bounded by the
\* server's configuration, whatever a request asks for and however the model
\* answers (resolveMaxDocuments, MaxChunksPerDoc, maxIters, retryMax).
THEOREM RequestsWithin == Spec => []ExchangeBounded
<1>1. ToolTypes /\ DocumentInv /\ CountInv => ExchangeBounded
  <2> SUFFICES ASSUME ToolTypes, DocumentInv, CountInv PROVE ExchangeBounded
    OBVIOUS
  <2>r. RetryMax \in Nat /\ MaxIterations \in Nat /\ requests \in Nat /\ attempt \in 0..RetryMax
    BY ExchangeSizes DEF CountInv
  <2>1. CASE where = "documents"
    <3>0. PICK all \in Nat : all = MaxDocuments * (MaxChunksPerDoc + 1)
      BY DocumentSizes
    <3>1. requests <= (RetryMax + 1) * all
      <4>n. requests <= (RetryMax + 1) * Summarised + attempt
        BY <2>1 DEF CountInv
      <4>1. CASE documents = <<>>
        <5>1. attempt = 0 /\ Summarised = all
          <6>1. chunk = 0
            <7>1. chunks = <<>> /\ chunk \in 0..Len(chunks)
              BY <4>1, NothingToDo DEF DocumentInv
            <7>2. Len(<<>>) = 0
              OBVIOUS
            <7> QED BY <7>1, <7>2
          <6>2. Len(documents) = 0
            BY <4>1
          <6>3. attempt = 0
            BY <2>1, <4>1 DEF CountInv
          <6> QED BY <3>0, <6>1, <6>2, <6>3, DocumentSizes DEF Summarised
        <5>2. PICK q \in Nat : q = (RetryMax + 1) * all
          BY <2>r
        <5> QED BY <2>r, <4>n, <5>1, <5>2
      <4>2. CASE documents # <<>>
        <5>1. Summarised \in Nat /\ Summarised + 1 <= all
          BY <2>1, <3>0, <4>2, Summarising
        <5>2. requests <= (RetryMax + 1) * (Summarised + 1)
          BY <2>r, <4>n, <5>1, OneMoreTry
        <5>3. (RetryMax + 1) * (Summarised + 1) <= (RetryMax + 1) * all
          <6>1. Summarised + 1 \in Nat
            BY <5>1
          <6> QED BY <2>r, <5>1, <6>1, MoreCalls
        <5>4. PICK q \in Nat : q = (RetryMax + 1) * (Summarised + 1)
          BY <2>r, <5>1
        <5>5. PICK u \in Nat : u = (RetryMax + 1) * all
          BY <2>r
        <5> QED BY <2>r, <5>2, <5>3, <5>4, <5>5
      <4> QED BY <4>1, <4>2
    <3> QED BY <2>1, <3>0, <3>1 DEF ExchangeBounded
  <2>2. CASE where # "documents"
    <3>1. requests <= (RetryMax + 1) * MaxIterations
      <4>i. iter \in Nat /\ iter <= MaxIterations
        BY <2>r DEF CountInv
      <4>b. PICK bound \in Nat : bound = (RetryMax + 1) * MaxIterations
        BY <2>r
      <4>1. CASE where \in {"plain", "ask"}
        <5>1. iter < MaxIterations /\ requests <= (RetryMax + 1) * iter + attempt
          BY <4>1 DEF CountInv
        <5>2. requests <= (RetryMax + 1) * (iter + 1)
          BY <2>r, <4>i, <5>1, OneMoreTry
        <5>3. iter + 1 \in Nat /\ iter + 1 <= MaxIterations
          BY <2>r, <4>i, <5>1
        <5>4. (RetryMax + 1) * (iter + 1) <= bound
          BY <2>r, <4>b, <5>3, MoreCalls
        <5>5. PICK q \in Nat : q = (RetryMax + 1) * (iter + 1)
          BY <2>r, <5>3
        <5> QED BY <2>r, <4>b, <5>2, <5>4, <5>5
      <4>2. CASE where = "tools"
        <5>1. requests <= (RetryMax + 1) * iter
          BY <4>2 DEF CountInv
        <5>2. (RetryMax + 1) * iter <= bound
          BY <2>r, <4>b, <4>i, MoreCalls
        <5>3. PICK q \in Nat : q = (RetryMax + 1) * iter
          BY <2>r, <4>i
        <5> QED BY <2>r, <4>b, <5>1, <5>2, <5>3
      <4>3. CASE where \in {"prepare", "fetch"}
        BY <2>r, <4>3, <4>b DEF CountInv
      <4>4. CASE where \in {"answered", "failed", "aside"}
        BY <4>4 DEF CountInv
      <4> QED BY <2>2, <4>1, <4>2, <4>3, <4>4 DEF ToolTypes
    <3> QED BY <2>2, <3>1 DEF ExchangeBounded
  <2> QED BY <2>1, <2>2
<1> QED
  BY <1>1, TypesBegin, TypesStep, DocumentsBegin, DocumentStep, CountBegin, CountStep, PTL DEF Spec

\* Every variable of a run of the reasoner and of a request's subcalls keeps to
\* its type, whatever is configured and asked for.
THEOREM CompletionTyped == Spec => []TypeOK
<1>1. RunInv /\ CallInv /\ ToolInv /\ ToolTypes /\ DocumentInv /\ CountInv => TypeOK
  <2> SUFFICES ASSUME RunInv, CallInv, ToolInv, ToolTypes, DocumentInv, CountInv PROVE TypeOK
    OBVIOUS
  <2>1. ReasonTypeOK
    BY ReasonTyped
  <2>2. DocumentsTypeOK
    BY DEF DocumentInv, DocumentsTypeOK
  <2>3. try \in 0..2
    <3>1. CASE try > 0
      <4>1. policyFor(asked[Turn]) \in 0..2 /\ try <= policyFor(asked[Turn]) /\ try \in Nat
        BY <3>1, Policies DEF ToolInv
      <4> QED BY <4>1
    <3>2. CASE ~(try > 0)
      BY <3>2 DEF ToolInv
    <3> QED BY <3>1, <3>2
  <2>4. DOMAIN served = DOMAIN asked
    <3>1. asked \in Seq(ToolNames) /\ served \in [1..Len(asked) -> Nat]
      BY DEF ToolInv
    <3>2. DOMAIN asked = 1..Len(asked)
      BY <3>1
    <3> QED BY <3>1, <3>2
  <2>5. ToolsTypeOK
    BY <2>3, <2>4 DEF ToolsTypeOK, ToolInv, ToolTypes, CountInv
  <2>6. ExchangeTypeOK
    BY <2>2, <2>5 DEF ExchangeTypeOK, ToolTypes, CountInv
  <2> QED BY <2>1, <2>6 DEF TypeOK, ToolTypes, ShouldExecute
<1> QED
  BY <1>1, RunInvariant, ToolInit, ToolStep, TypesBegin, TypesStep, DocumentsBegin, DocumentStep,
     CountBegin, CountStep, PTL DEF Spec

=============================================================================
