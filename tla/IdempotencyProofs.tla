-------------------------- MODULE IdempotencyProofs --------------------------
(***************************************************************************)
(* Safety of Idempotency for every set of requests, keys, payloads and     *)
(* sessions, either store and every kind of fault.                         *)
(***************************************************************************)
EXTENDS Idempotency, TLAPS

\* A request is answered when it is done, and only then.
AnswersAtEnd ==
    \A r \in Request :
        /\ call[r].status # "none" => call[r].pc = "done"
        /\ call[r].resp # NoItem => call[r].pc = "done"

\* The cache and the records hold responses of requests of their key.
Sound ==
    /\ \A k \in Key : cache[k] # NoItem => key(cache[k]) = k /\ Executed(cache[k])
    /\ \A o \in records : Executed(o)

\* What a request saw when it began still stands between its lookup and its
\* save: no response a client already had is in the cache.
Unanswered ==
    \A r \in Request :
        /\ call[r].before \subseteq Answered
        /\ call[r].pc \in {"durable", "execute", "save"} /\ key(r) # NoKey
              => cache[key(r)] \notin call[r].before
        /\ call[r].pc \in {"cache", "durable", "save", "persist"} => key(r) # NoKey

IInv == Types /\ AnswersAtEnd /\ Sound /\ Unanswered /\ ReplayFaithful /\ ConflictJustified

LEMMA CallFields ==
    ASSUME Types, NEW r \in Request
    PROVE  /\ call \in [Request -> CallState]
           /\ call[r] \in CallState
  BY DEF Types

\* The updates of several fields.
LEMMA AnsweredType ==
    ASSUME NEW x \in CallState, NEW c \in PC, NEW st \in Status,
           NEW v \in Request \cup {NoItem}
    PROVE  [x EXCEPT !.pc = c, !.status = st, !.resp = v] \in CallState
  BY DEF CallState

LEMMA BlindedType ==
    ASSUME NEW x \in CallState, NEW c \in PC
    PROVE  [x EXCEPT !.pc = c, !.blind = TRUE] \in CallState
  BY DEF CallState

LEMMA FeltType ==
    ASSUME NEW x \in CallState, NEW c \in PC, NEW m \in Nat
    PROVE  [x EXCEPT !.pc = c, !.felt = m] \in CallState
  BY DEF CallState

LEMMA PreparedType ==
    ASSUME NEW x \in CallState, NEW c \in PC, NEW given \in Context,
           NEW b \in SUBSET Request
    PROVE  [x EXCEPT !.pc = c, !.context = given, !.before = b] \in CallState
  BY DEF CallState

LEMMA NewCallType ==
    ASSUME NEW c \in PC PROVE [NewCall EXCEPT !.pc = c] \in CallState
  BY DEF NewCall, CallState, Status

LEMMA KeyType ==
    ASSUME Types, NEW r \in Request PROVE key(r) \in Key \cup {NoKey}
  BY DEF Types, key

LEMMA MovedType ==
    ASSUME NEW x \in CallState, NEW c \in PC PROVE [x EXCEPT !.pc = c] \in CallState
  BY DEF CallState

LEMMA GotoType ==
    ASSUME Types, NEW r \in Request, NEW c \in PC, Goto(r, c)
    PROVE  call' \in [Request -> CallState]
<1>1. call' = [call EXCEPT ![r] = [call[r] EXCEPT !.pc = c]]
  BY DEF Goto
<1>2. [call[r] EXCEPT !.pc = c] \in CallState
  BY CallFields, MovedType
<1> QED
  BY <1>1, <1>2, CallFields

LEMMA BlindType ==
    ASSUME Types, NEW r \in Request, GoBlind(r)
    PROVE  call' \in [Request -> CallState]
<1> DEFINE t == [call[r] EXCEPT !.pc = "execute", !.blind = TRUE]
<1>1. t \in CallState
  <2>1. "execute" \in PC
    BY DEF PC
  <2> QED
    BY <2>1, CallFields, BlindedType
<1>2. call' = [call EXCEPT ![r] = t]
  BY DEF GoBlind
<1> QED
  BY <1>1, <1>2, CallFields

LEMMA AnswerType ==
    ASSUME Types, NEW r \in Request, NEW st \in Status, NEW v \in Request \cup {NoItem},
           Answer(r, st, v)
    PROVE  call' \in [Request -> CallState]
<1> DEFINE t == [call[r] EXCEPT !.pc = "done", !.status = st, !.resp = v]
<1>1. t \in CallState
  <2>1. "done" \in PC
    BY DEF PC
  <2> QED
    BY <2>1, CallFields, AnsweredType
<1>2. call' = [call EXCEPT ![r] = t]
  BY DEF Answer
<1> QED
  BY <1>1, <1>2, CallFields

-----------------------------------------------------------------------------
LEMMA InitIInv == Init => IInv
<1> SUFFICES ASSUME Init PROVE IInv
  OBVIOUS
<1>1. call \in [Request -> CallState]
  BY DEF Init, NewCall, CallState, PC, Status
<1>1a. Types
  BY <1>1 DEF Init, Types
<1>2. AnswersAtEnd /\ Sound /\ Unanswered
  BY DEF Init, NewCall, AnswersAtEnd, Sound, Unanswered
<1>3. ReplayFaithful /\ ConflictJustified
  BY DEF Init, NewCall, ReplayFaithful, ConflictJustified, Ok
<1> QED
  BY <1>1a, <1>2, <1>3 DEF IInv

LEMMA TypeStep == Types /\ Unanswered /\ [Next]_vars => Types'
<1> SUFFICES ASSUME Types, Unanswered, [Next]_vars PROVE Types'
  OBVIOUS
<1> USE DEF contextVars
<1>1. CASE UNCHANGED vars
  BY <1>1 DEF vars, Types
<1>2. ASSUME NEW r \in Request, RecordUserInput(r) PROVE Types'
  <2> DEFINE s == ask[r].session
  <2>1. s \in Session /\ mood[s] \in Nat
    BY DEF Types
  <2>2. PICK m \in mood[s]..mood[s] + 1 :
           /\ mood' = [mood EXCEPT ![s] = m]
           /\ call' = [call EXCEPT ![r].pc = "prepare", ![r].felt = m]
    BY <1>2 DEF RecordUserInput
  <2>3. m \in Nat
    BY <2>1, <2>2
  <2>4. mood' \in [Session -> Nat]
    BY <2>2, <2>3 DEF Types
  <2>5. call' \in [Request -> CallState]
    <3> DEFINE t == [call[r] EXCEPT !.pc = "prepare", !.felt = m]
    <3>1. "prepare" \in PC
      BY DEF PC
    <3>2. t \in CallState
      BY <2>3, <3>1, CallFields, FeltType
    <3>3. call' = [call EXCEPT ![r] = t]
      BY <2>2
    <3> QED
      BY <3>2, <3>3, CallFields
  <2> QED
    BY <1>2, <2>4, <2>5 DEF RecordUserInput, Types
<1>2a. ASSUME NEW r \in Request, Prepare(r) PROVE Types'
  <2> DEFINE s == ask[r].session
  <2>1. s \in Session /\ memory[s] \in Nat /\ call[r].felt \in Nat
    BY CallFields DEF Types, CallState
  <2>2. PICK prepared \in Preparation, recalled \in Recalled(s) :
           call' = [call EXCEPT ![r].pc = IF key(r) = NoKey THEN "execute" ELSE "cache",
                                ![r].context = <<call[r].felt, prepared, recalled>>,
                                ![r].before = Answered]
    BY <1>2a DEF Prepare
  <2>3. recalled \in Nat
    BY <2>1, <2>2 DEF Recalled
  <2>4. Answered \in SUBSET Request
    BY DEF Answered
  <2>5. call' \in [Request -> CallState]
    <3> DEFINE given == <<call[r].felt, prepared, recalled>>
               t == [call[r] EXCEPT !.pc = IF key(r) = NoKey THEN "execute" ELSE "cache",
                                    !.context = given, !.before = Answered]
    <3>1. given \in Context
      BY <2>1, <2>3 DEF Context
    <3>2. t \in CallState
      <4>1. (IF key(r) = NoKey THEN "execute" ELSE "cache") \in PC
        BY DEF PC
      <4> HIDE DEF given
      <4> QED
        BY <2>4, <3>1, <4>1, CallFields, PreparedType
    <3>3. call' = [call EXCEPT ![r] = t]
      BY <2>2
    <3> QED
      BY <3>2, <3>3, CallFields
  <2> QED
    BY <1>2a, <2>5 DEF Prepare, Types
<1>2b. ASSUME NEW r \in Request, Refuse(r) PROVE Types'
  <2>1. call' \in [Request -> CallState]
    BY <1>2b, AnswerType DEF Refuse, Status
  <2> QED
    BY <1>2b, <2>1 DEF Refuse, Types
<1>3. ASSUME NEW r \in Request, LookupCache(r) PROVE Types'
  <2>1. cache[key(r)] \in Request \cup {NoItem}
    BY <1>3, KeyType DEF LookupCache, Unanswered, Types
  <2>2. \/ Goto(r, "durable")
        \/ Answer(r, "ok", cache[key(r)])
        \/ Answer(r, "conflict", NoItem)
    BY <1>3 DEF LookupCache
  <2>3. "durable" \in PC /\ {"ok", "conflict"} \subseteq Status
    BY DEF PC, Status
  <2>4. call' \in [Request -> CallState]
    BY <2>1, <2>2, <2>3, GotoType, AnswerType
  <2> QED
    BY <1>3, <2>4 DEF LookupCache, Types
<1>4. ASSUME NEW r \in Request, LookupDurable(r) PROVE Types'
  <2>1. call' \in [Request -> CallState]
    BY <1>4, GotoType, BlindType, AnswerType DEF LookupDurable, PC, Status
  <2> QED
    BY <1>4, <2>1 DEF LookupDurable, Types
<1>6. ASSUME NEW r \in Request, ExecuteFails(r) PROVE Types'
  <2>1. call' \in [Request -> CallState]
    BY <1>6, AnswerType DEF ExecuteFails, Status
  <2> QED
    BY <1>6, <2>1 DEF ExecuteFails, Types
<1>7. ASSUME NEW r \in Request, UpdateFromTurn(r) PROVE Types'
  <2>1. call' \in [Request -> CallState]
    BY <1>7, GotoType DEF UpdateFromTurn, PC
  <2>2. memory' \in [Session -> Nat]
    BY <1>7 DEF UpdateFromTurn, Remember, Types
  <2> QED
    BY <1>7, <2>1, <2>2 DEF UpdateFromTurn, Types
<1>8. ASSUME NEW r \in Request, SaveCache(r) PROVE Types'
  <2>1. call' \in [Request -> CallState]
    BY <1>8, GotoType DEF SaveCache, PC
  <2> QED
    BY <1>8, <2>1 DEF SaveCache, Types
<1>9. ASSUME NEW r \in Request, SaveDurable(r) PROVE Types'
  <2>1. call' \in [Request -> CallState]
    BY <1>9, GotoType DEF SaveDurable, PC
  <2> QED
    BY <1>9, <2>1 DEF SaveDurable, Stored, Types
<1>10. ASSUME NEW r \in Request, Reply(r) PROVE Types'
  <2>1. call' \in [Request -> CallState]
    BY <1>10, AnswerType DEF Reply, Status
  <2> QED
    BY <1>10, <2>1 DEF Reply, Types
<1>11. ASSUME NEW k \in Key, Expire(k) PROVE Types'
  BY <1>11 DEF Expire, Types
<1>12. CASE Crash
  <2>1. call' \in [Request -> CallState]
    <3> DEFINE t(r) == IF call[r].pc \in {"new", "done"} THEN call[r]
                       ELSE IF call[r].pc \in {"persist", "reply", "lost"}
                       THEN [call[r] EXCEPT !.pc = "lost"]
                       ELSE [NewCall EXCEPT !.pc = "dropped"]
    <3>1. \A r \in Request : t(r) \in CallState
      <4>1. {"lost", "dropped"} \subseteq PC
        BY DEF PC
      <4> QED
        BY <4>1, CallFields, MovedType, NewCallType
    <3>2. call' = [r \in Request |-> t(r)]
      BY <1>12 DEF Crash
    <3> HIDE DEF t
    <3> QED
      BY <3>1, <3>2
  <2>2. ask' = ask /\ cache' \in [Key -> Request \cup {NoItem}] /\ mood' \in [Session -> Nat]
    BY <1>12 DEF Crash
  <2>3. records' \in SUBSET Request /\ memory' \in [Session -> Nat]
    <3>1. CASE Durable
      BY <1>12, <3>1 DEF Crash, Types
    <3>2. CASE ~Durable
      BY <1>12, <3>2 DEF Crash
    <3> QED
      BY <3>1, <3>2
  <2> QED
    BY <2>1, <2>2, <2>3 DEF Types
<1> QED
  BY <1>1, <1>2, <1>2a, <1>2b, <1>3, <1>4, <1>6, <1>7, <1>8, <1>9, <1>10, <1>11, <1>12
     DEF Next, Step

-----------------------------------------------------------------------------
\* A request has been given its context.
Prepared(x) == call[x].pc \notin {"new", "prepare"}

\* What no step does: change an answer, take back an execution or change what
\* a request was given, unless it dies before anyone has seen its response.
Kept(o) ==
    /\ Prepared(o) => \/ call'[o].pc = "dropped"
                      \/ /\ Prepared(o)'
                         /\ call'[o].context = call[o].context
                         /\ call'[o].before = call[o].before
    /\ call[o].pc = "done" => call'[o] = call[o]
    /\ Executed(o) => Executed(o)' /\ call'[o].pc # "dropped"

\* A step of r changes only r's own state.
LEMMA GotoEffect ==
    ASSUME Types, NEW r \in Request, NEW c, Goto(r, c)
    PROVE  /\ \A o \in Request : o # r => call'[o] = call[o]
           /\ call'[r].pc = c
           /\ call'[r].context = call[r].context /\ call'[r].before = call[r].before
           /\ call'[r].status = call[r].status /\ call'[r].resp = call[r].resp
<1>1. call[r] \in CallState /\ call \in [Request -> CallState]
  BY CallFields
<1>2. call' = [call EXCEPT ![r] = [call[r] EXCEPT !.pc = c]]
  BY DEF Goto
<1> QED
  BY <1>1, <1>2 DEF CallState

LEMMA BlindEffect ==
    ASSUME Types, NEW r \in Request, GoBlind(r)
    PROVE  /\ \A o \in Request : o # r => call'[o] = call[o]
           /\ call'[r].pc = "execute"
           /\ call'[r].context = call[r].context /\ call'[r].before = call[r].before
           /\ call'[r].status = call[r].status /\ call'[r].resp = call[r].resp
<1>1. call[r] \in CallState /\ call \in [Request -> CallState]
  BY CallFields
<1>2. call' = [call EXCEPT ![r] = [call[r] EXCEPT !.pc = "execute", !.blind = TRUE]]
  BY DEF GoBlind
<1> QED
  BY <1>1, <1>2 DEF CallState

LEMMA AnswerEffect ==
    ASSUME Types, NEW r \in Request, NEW st, NEW v, Answer(r, st, v)
    PROVE  /\ \A o \in Request : o # r => call'[o] = call[o]
           /\ call'[r].pc = "done"
           /\ call'[r].context = call[r].context /\ call'[r].before = call[r].before
           /\ call'[r].status = st /\ call'[r].resp = v
<1>1. call[r] \in CallState /\ call \in [Request -> CallState]
  BY CallFields
<1>2. call' = [call EXCEPT ![r] = [call[r] EXCEPT !.pc = "done", !.status = st, !.resp = v]]
  BY DEF Answer
<1> QED
  BY <1>1, <1>2 DEF CallState

LEMMA FeltEffect ==
    ASSUME Types, NEW r \in Request, RecordUserInput(r)
    PROVE  /\ \A o \in Request : o # r => call'[o] = call[o]
           /\ call'[r].pc = "prepare"
           /\ call'[r].context = call[r].context /\ call'[r].before = call[r].before
           /\ call'[r].status = call[r].status /\ call'[r].resp = call[r].resp
           /\ call'[r].blind = call[r].blind
<1>1. call[r] \in CallState /\ call \in [Request -> CallState]
  BY CallFields
<1>2. PICK m : call' = [call EXCEPT ![r].pc = "prepare", ![r].felt = m]
  BY DEF RecordUserInput
<1> QED
  BY <1>1, <1>2 DEF CallState

LEMMA PrepareEffect ==
    ASSUME Types, NEW r \in Request, Prepare(r)
    PROVE  /\ \A o \in Request : o # r => call'[o] = call[o]
           /\ call'[r].pc = IF key(r) = NoKey THEN "execute" ELSE "cache"
           /\ call'[r].before = Answered
           /\ call'[r].status = call[r].status /\ call'[r].resp = call[r].resp
           /\ call'[r].blind = call[r].blind
<1>1. call[r] \in CallState /\ call \in [Request -> CallState]
  BY CallFields
<1>2. PICK given :
        call' = [call EXCEPT ![r].pc = IF key(r) = NoKey THEN "execute" ELSE "cache",
                             ![r].context = given,
                             ![r].before = Answered]
  BY DEF Prepare
<1> QED
  BY <1>1, <1>2 DEF CallState

LEMMA CrashEffect ==
    ASSUME Types, NEW o \in Request, Crash
    PROVE  \/ call'[o] = call[o] /\ call[o].pc \in {"new", "done"}
           \/ /\ call'[o].pc = "lost" /\ call[o].pc \in {"persist", "reply", "lost"}
              /\ call'[o].context = call[o].context /\ call'[o].before = call[o].before
              /\ call'[o].status = call[o].status /\ call'[o].resp = call[o].resp
              /\ call'[o].blind = call[o].blind
           \/ /\ call'[o].pc = "dropped"
              /\ call[o].pc \notin {"new", "done", "persist", "reply", "lost"}
              /\ call'[o].before = {} /\ call'[o].status = "none" /\ call'[o].resp = NoItem
<1>1. call[o] \in CallState
  BY CallFields
<1>2. call'[o] = IF call[o].pc \in {"new", "done"} THEN call[o]
                 ELSE IF call[o].pc \in {"persist", "reply", "lost"}
                 THEN [call[o] EXCEPT !.pc = "lost"]
                 ELSE [NewCall EXCEPT !.pc = "dropped"]
  BY DEF Crash
<1> QED
  BY <1>1, <1>2 DEF CallState, NewCall

LEMMA StepKeeps ==
    ASSUME Types, AnswersAtEnd, [Next]_vars
    PROVE  ask' = ask /\ \A o \in Request : Kept(o)
<1>0. \A o \in Request : Executed(o) => call[o].pc \in {"persist", "reply", "lost", "done"}
  BY NamesAssumption DEF Executed, AnswersAtEnd
<1>1. CASE UNCHANGED vars
  BY <1>0, <1>1 DEF vars, Kept, Prepared, Executed
<1>2. CASE Crash
  <2>1. ask' = ask
    BY <1>2 DEF Crash
  <2>2. ASSUME NEW o \in Request PROVE Kept(o)
    BY <1>0, <1>2, CrashEffect DEF Kept, Prepared, Executed
  <2> QED
    BY <2>1, <2>2
<1>3. CASE \E k \in Key : Expire(k)
  BY <1>0, <1>3 DEF Expire, Kept, Prepared, Executed
<1>4. ASSUME NEW r \in Request, Step(r) PROVE ask' = ask /\ \A o \in Request : Kept(o)
  <2>1. ask' = ask
    BY <1>4 DEF Step, RecordUserInput, Prepare, Refuse, LookupCache, LookupDurable, ExecuteFails,
                UpdateFromTurn, SaveCache, SaveDurable, Reply
  <2>2. ASSUME NEW o \in Request, o # r PROVE Kept(o)
    <3>1. call'[o] = call[o]
      BY <1>4, <2>2, GotoEffect, BlindEffect, AnswerEffect, FeltEffect, PrepareEffect
         DEF Step, Refuse, LookupCache, LookupDurable, ExecuteFails,
             UpdateFromTurn, SaveCache, SaveDurable, Reply
    <3> QED
      BY <1>0, <3>1 DEF Kept, Prepared, Executed
  <2>3. Kept(r)
    <3>1. CASE RecordUserInput(r) \/ Prepare(r)
      <4>1. ~Prepared(r) /\ ~Executed(r)
        BY <3>1, NamesAssumption DEF RecordUserInput, Prepare, Prepared, Executed, AnswersAtEnd
      <4> QED
        BY <3>1, <4>1 DEF RecordUserInput, Prepare, Kept
    <3>1a. CASE Refuse(r)
      <4>1. ~Prepared(r) /\ ~Executed(r)
        BY <3>1a, NamesAssumption DEF Refuse, Prepared, Executed, AnswersAtEnd
      <4> QED
        BY <3>1a, <4>1 DEF Refuse, Kept
    <3>2. CASE LookupCache(r)
      <4>1. call[r].pc = "cache" /\ ~Executed(r)
        BY <3>2, NamesAssumption DEF LookupCache, Executed, AnswersAtEnd
      <4> QED
        BY <3>2, <4>1, GotoEffect, AnswerEffect DEF LookupCache, Kept, Prepared, Executed
    <3>3. CASE LookupDurable(r)
      <4>1. call[r].pc = "durable" /\ ~Executed(r)
        BY <3>3, NamesAssumption DEF LookupDurable, Executed, AnswersAtEnd
      <4> QED
        BY <3>3, <4>1, GotoEffect, BlindEffect, AnswerEffect DEF LookupDurable, Kept, Prepared, Executed
    <3>4. CASE UpdateFromTurn(r)
      <4>1. call[r].pc = "execute" /\ ~Executed(r)
        BY <3>4, NamesAssumption DEF UpdateFromTurn, Executed, AnswersAtEnd
      <4> QED
        BY <3>4, <4>1, GotoEffect DEF UpdateFromTurn, Kept, Prepared, Executed
    <3>5. CASE ExecuteFails(r)
      <4>1. call[r].pc = "execute" /\ ~Executed(r)
        BY <3>5, NamesAssumption DEF ExecuteFails, Executed, AnswersAtEnd
      <4> QED
        BY <3>5, <4>1, AnswerEffect DEF ExecuteFails, Kept, Prepared, Executed
    <3>6. CASE SaveCache(r)
      BY <3>6, GotoEffect DEF SaveCache, Kept, Prepared, Executed
    <3>7. CASE SaveDurable(r)
      BY <3>7, GotoEffect DEF SaveDurable, Kept, Prepared, Executed
    <3>8. CASE Reply(r)
      BY <3>8, AnswerEffect DEF Reply, Kept, Prepared, Executed
    <3> QED
      BY <1>4, <3>1, <3>1a, <3>2, <3>3, <3>4, <3>5, <3>6, <3>7, <3>8 DEF Step
  <2> QED
    BY <2>1, <2>2, <2>3
<1> QED
  BY <1>1, <1>2, <1>3, <1>4 DEF Next

LEMMA AnswersStep == Types /\ AnswersAtEnd /\ [Next]_vars => AnswersAtEnd'
<1> SUFFICES ASSUME Types, AnswersAtEnd, [Next]_vars, NEW o \in Request
             PROVE  /\ call'[o].status # "none" => call'[o].pc = "done"
                    /\ call'[o].resp # NoItem => call'[o].pc = "done"
  BY DEF AnswersAtEnd
<1>1. CASE UNCHANGED call
  BY <1>1 DEF AnswersAtEnd
<1>2. CASE Crash
  BY <1>2, CrashEffect DEF AnswersAtEnd
<1>3. ASSUME NEW r \in Request, Step(r)
      PROVE  /\ call'[o].status # "none" => call'[o].pc = "done"
             /\ call'[o].resp # NoItem => call'[o].pc = "done"
  <2>1. \/ call'[r].pc = "done"
        \/ call[r].pc # "done" /\ call'[r].status = call[r].status /\ call'[r].resp = call[r].resp
    BY <1>3, GotoEffect, BlindEffect, AnswerEffect, FeltEffect, PrepareEffect
       DEF Step, RecordUserInput, Prepare, Refuse, LookupCache, LookupDurable, ExecuteFails,
           UpdateFromTurn, SaveCache, SaveDurable, Reply
  <2>2. o # r => call'[o] = call[o]
    BY <1>3, GotoEffect, BlindEffect, AnswerEffect, FeltEffect, PrepareEffect
       DEF Step, Refuse, LookupCache, LookupDurable, ExecuteFails,
           UpdateFromTurn, SaveCache, SaveDurable, Reply
  <2> QED
    BY <2>1, <2>2 DEF AnswersAtEnd
<1> QED
  BY <1>1, <1>2, <1>3 DEF Next, Expire, vars

LEMMA SoundStep == Types /\ AnswersAtEnd /\ Sound /\ Unanswered /\ [Next]_vars => Sound'
<1> SUFFICES ASSUME Types, AnswersAtEnd, Sound, Unanswered, [Next]_vars PROVE Sound'
  OBVIOUS
<1>a. ask' = ask /\ \A o \in Request : Kept(o)
  BY StepKeeps
<1>b. \A r \in Request : key(r)' = key(r)
  BY <1>a DEF key
<1>c. \A k \in Key : cache[k] # NoItem => cache[k] \in Request
  BY DEF Types
<1>d. records \subseteq Request
  BY DEF Types
<1>1. ASSUME NEW k \in Key, cache'[k] # NoItem
      PROVE  (key(cache[k]) = k /\ Executed(cache[k]))'
  <2>1. CASE cache'[k] = cache[k]
    BY <1>1, <2>1, <1>a, <1>b, <1>c DEF Sound, Kept, key, Executed
  <2>2. ASSUME NEW r \in Request, SaveCache(r)
        PROVE  (key(cache[k]) = k /\ Executed(cache[k]))'
    <3>1. k # key(r) => cache'[k] = cache[k]
      BY <2>2 DEF SaveCache, Types
    <3>2. k = key(r) => cache'[k] = r
      BY <2>2 DEF SaveCache, Types
    <3>3. call'[r].pc = "persist"
      BY <2>2, GotoEffect DEF SaveCache
    <3> QED
      BY <2>1, <3>1, <3>2, <3>3, <1>b DEF Executed
  <2>3. CASE \E x \in Key : Expire(x)
    <3>1. cache'[k] = cache[k] \/ cache'[k] = NoItem
      BY <2>3 DEF Expire, Types
    <3> QED
      BY <1>1, <2>1, <3>1
  <2>4. CASE Crash
    BY <1>1, <2>4 DEF Crash
  <2> QED
    BY <2>1, <2>2, <2>3, <2>4
       DEF Next, Step, RecordUserInput, Prepare, Refuse, LookupCache, LookupDurable, ExecuteFails,
           UpdateFromTurn, SaveDurable, Reply, vars
<1>2. ASSUME NEW o \in records' PROVE Executed(o)'
  <2>1. CASE o \in records
    BY <2>1, <1>a, <1>d DEF Sound, Kept
  <2>2. ASSUME NEW r \in Request, SaveDurable(r), o \notin records PROVE Executed(o)'
    <3>1. o = r
      BY <1>2, <2>2 DEF SaveDurable, Stored
    <3>2. call'[r].pc = "reply"
      BY <2>2, GotoEffect DEF SaveDurable
    <3> QED
      BY <3>1, <3>2 DEF Executed
  <2> QED
    BY <1>2, <2>1, <2>2
       DEF Next, Step, RecordUserInput, Prepare, Refuse, LookupCache, LookupDurable, ExecuteFails,
           UpdateFromTurn, SaveCache, Reply, Expire, Crash, vars
<1> QED
  BY <1>1, <1>2 DEF Sound

\* Where a step of r leaves r and the cache.
LEMMA UnansweredStep == Types /\ AnswersAtEnd /\ Unanswered /\ [Next]_vars => Unanswered'
<1> SUFFICES ASSUME Types, AnswersAtEnd, Unanswered, [Next]_vars PROVE Unanswered'
  OBVIOUS
<1>k. ask' = ask
  BY StepKeeps
<1> SUFFICES ASSUME NEW o \in Request
             PROVE  /\ call'[o].before \subseteq Answered'
                    /\ call'[o].pc \in {"durable", "execute", "save"} /\ key(o) # NoKey
                          => cache'[key(o)] \notin call'[o].before
                    /\ call'[o].pc \in {"cache", "durable", "save", "persist"} => key(o) # NoKey
  BY <1>k DEF Unanswered, key
<1>a. \A q \in Request : Kept(q)
  BY StepKeeps
<1>b. Answered \subseteq Answered'
  BY <1>a DEF Answered, Kept
<1>c. call[o].before \subseteq Answered
  BY DEF Unanswered
<1>d. key(o) \in Key \cup {NoKey}
  BY KeyType
<1>e. NoItem \notin Answered
  BY NamesAssumption DEF Answered
<1>1. call'[o].before \subseteq Answered'
  <2>1. CASE call'[o].before = call[o].before
    BY <2>1, <1>b, <1>c
  <2>2. CASE Prepare(o)
    BY <2>2, <1>b, PrepareEffect
  <2>3. CASE Crash
    BY <2>1, <2>3, CrashEffect
  <2>4. ASSUME NEW r \in Request, Step(r), ~Prepare(o) PROVE call'[o].before = call[o].before
    BY <2>4, GotoEffect, BlindEffect, AnswerEffect, FeltEffect, PrepareEffect
       DEF Step, Refuse, LookupCache, LookupDurable, ExecuteFails,
           UpdateFromTurn, SaveCache, SaveDurable, Reply
  <2> QED
    BY <2>1, <2>2, <2>3, <2>4 DEF Next, Expire, vars
<1>2. CASE UNCHANGED call /\ (UNCHANGED cache \/ \E k \in Key : Expire(k))
  <2>1. cache'[key(o)] = cache[key(o)] \/ key(o) = NoKey \/ cache'[key(o)] = NoItem
    BY <1>2, <1>d DEF Expire, Types
  <2> QED
    BY <1>1, <1>2, <1>c, <1>e, <2>1 DEF Unanswered
<1>3. CASE Crash
  BY <1>1, <1>3, CrashEffect DEF Unanswered
<1>4. ASSUME NEW r \in Request, Step(r), r # o
      PROVE  call'[o] = call[o]
  BY <1>4, GotoEffect, BlindEffect, AnswerEffect, FeltEffect, PrepareEffect
     DEF Step, Refuse, LookupCache, LookupDurable, ExecuteFails,
         UpdateFromTurn, SaveCache, SaveDurable, Reply
<1>5. ASSUME NEW r \in Request, Step(r), r # o
      PROVE  /\ call'[o].pc \in {"durable", "execute", "save"} /\ key(o) # NoKey
                   => cache'[key(o)] \notin call'[o].before
             /\ call'[o].pc \in {"cache", "durable", "save", "persist"} => key(o) # NoKey
  <2>1. CASE SaveCache(r)
    <3>1. call[r].pc = "save" /\ r \notin Answered
      BY <2>1 DEF SaveCache, Answered
    <3>2. key(o) \in Key => cache'[key(o)] \in {r, cache[key(o)]}
      BY <2>1 DEF SaveCache, Types
    <3> QED
      BY <1>4, <1>5, <1>c, <1>d, <3>1, <3>2 DEF Unanswered
  <2>2. CASE UNCHANGED cache
    BY <1>4, <1>5, <2>2 DEF Unanswered
  <2> QED
    BY <1>5, <2>1, <2>2
       DEF Step, RecordUserInput, Prepare, Refuse, LookupCache, LookupDurable, ExecuteFails,
           UpdateFromTurn, SaveDurable, Reply
<1>6. ASSUME Step(o)
      PROVE  /\ call'[o].pc \in {"durable", "execute", "save"} /\ key(o) # NoKey
                   => cache'[key(o)] \notin call'[o].before
             /\ call'[o].pc \in {"cache", "durable", "save", "persist"} => key(o) # NoKey
  <2>1. CASE RecordUserInput(o) \/ Prepare(o)
    BY <2>1, FeltEffect, PrepareEffect
  <2>2. CASE LookupCache(o)
    <3>1. call'[o].pc = "durable" => cache[key(o)] = NoItem
      BY <2>2, GotoEffect, AnswerEffect DEF LookupCache
    <3>2. call'[o].pc \in {"durable", "done"} /\ call'[o].before = call[o].before
      BY <2>2, GotoEffect, AnswerEffect DEF LookupCache
    <3> QED
      BY <2>2, <3>1, <3>2, <1>c, <1>e DEF LookupCache, Unanswered
  <2>3. CASE LookupDurable(o)
    <3>1. call'[o].pc \in {"execute", "done"} /\ call'[o].before = call[o].before
      BY <2>3, GotoEffect, BlindEffect, AnswerEffect DEF LookupDurable
    <3> QED
      BY <2>3, <3>1 DEF LookupDurable, Unanswered
  <2>4. CASE Refuse(o)
    BY <2>4, AnswerEffect DEF Refuse
  <2>5. CASE UpdateFromTurn(o)
    <3>1. /\ call'[o].pc = IF key(o) = NoKey THEN "reply" ELSE "save"
          /\ call'[o].before = call[o].before
      BY <2>5, GotoEffect DEF UpdateFromTurn
    <3> QED
      BY <2>5, <3>1 DEF UpdateFromTurn, Unanswered
  <2>6. CASE SaveCache(o)
    BY <2>6, GotoEffect DEF SaveCache, Unanswered
  <2>7. CASE SaveDurable(o)
    BY <2>7, GotoEffect DEF SaveDurable
  <2>8. CASE ExecuteFails(o) \/ Reply(o)
    BY <2>8, AnswerEffect DEF ExecuteFails, Reply
  <2> QED
    BY <1>6, <2>1, <2>2, <2>3, <2>4, <2>5, <2>6, <2>7, <2>8 DEF Step
<1> QED
  BY <1>1, <1>2, <1>3, <1>5, <1>6 DEF Next, Expire, vars

\* A witness of an answer stays one: executions and hashes are kept.
LEMMA WitnessKept ==
    ASSUME Types, AnswersAtEnd, [Next]_vars, NEW r \in Request, NEW o \in Request,
           Prepared(r), call'[r].pc # "dropped", Executed(o)
    PROVE  /\ Executed(o)'
           /\ key(r)' = key(r) /\ key(o)' = key(o)
           /\ RequestHash(r)' = RequestHash(r) /\ RequestHash(o)' = RequestHash(o)
<1>1. ask' = ask /\ Kept(r) /\ Kept(o)
  BY StepKeeps
<1>2. Prepared(o)
  BY NamesAssumption DEF Executed, AnswersAtEnd, Prepared
<1> QED
  BY <1>1, <1>2 DEF Kept, key, RequestHash

\* An answer is given by LookupCache, LookupDurable, ExecuteFails or Reply.
LEMMA NewAnswer ==
    ASSUME Types, AnswersAtEnd, Sound, Unanswered, [Next]_vars, NEW r \in Request,
           call'[r].status # "none", call[r].pc # "done"
    PROVE  \/ call'[r].status = "failed"
           \/ call'[r].status = "ok" /\ call'[r].resp = r
           \/ \E o \in Request :
                /\ Prepared(r)
                /\ key(o) = key(r) /\ Executed(o)
                /\ \/ /\ call'[r].status = "ok" /\ call'[r].resp = o
                      /\ RequestHash(o) = RequestHash(r)
                   \/ call'[r].status = "conflict" /\ RequestHash(o) # RequestHash(r)
<1>a. call[r].status = "none"
  BY DEF AnswersAtEnd
<1>1. CASE Crash
  BY <1>1, <1>a, CrashEffect
<1>2. CASE UNCHANGED call
  BY <1>2, <1>a
<1>3. ASSUME NEW q \in Request, Step(q), q # r PROVE FALSE
  <2>1. call'[r] = call[r]
    BY <1>3, GotoEffect, BlindEffect, AnswerEffect, FeltEffect, PrepareEffect
       DEF Step, Refuse, LookupCache, LookupDurable, ExecuteFails,
           UpdateFromTurn, SaveCache, SaveDurable, Reply
  <2> QED
    BY <1>a, <2>1
<1>4. CASE RecordUserInput(r) \/ Prepare(r) \/ UpdateFromTurn(r) \/ SaveCache(r) \/ SaveDurable(r)
  BY <1>4, <1>a, FeltEffect, PrepareEffect, GotoEffect
     DEF UpdateFromTurn, SaveCache, SaveDurable
<1>5. CASE Refuse(r) \/ ExecuteFails(r) \/ Reply(r)
  BY <1>5, AnswerEffect DEF Refuse, ExecuteFails, Reply
<1>6. CASE LookupCache(r)
  <2>1. key(r) \in Key
    BY <1>6, KeyType DEF LookupCache, Unanswered
  <2>2. PICK o : o = cache[key(r)]
    OBVIOUS
  <2>3. o # NoItem => o \in Request /\ key(o) = key(r) /\ Executed(o)
    BY <2>1, <2>2 DEF Sound, Types
  <2>4. CASE o = NoItem
    BY <1>6, <1>a, <2>2, <2>4, GotoEffect DEF LookupCache
  <2>5. CASE o # NoItem /\ RequestHash(o) = RequestHash(r)
    <3>1. Answer(r, "ok", o)
      BY <1>6, <2>2, <2>5 DEF LookupCache
    <3> QED
      BY <1>6, <2>3, <2>5, <3>1, AnswerEffect DEF LookupCache, Prepared
  <2>6. CASE o # NoItem /\ RequestHash(o) # RequestHash(r)
    <3>1. Answer(r, "conflict", NoItem)
      BY <1>6, <2>2, <2>6 DEF LookupCache
    <3> QED
      BY <1>6, <2>3, <2>6, <3>1, AnswerEffect DEF LookupCache, Prepared
  <2> QED
    BY <2>4, <2>5, <2>6
<1>7. CASE LookupDurable(r)
  <2>1. ~Goto(r, "execute") /\ ~GoBlind(r)
    BY <1>a, GotoEffect, BlindEffect
  <2>2. PICK o \in Recorded(key(r)) :
           RequestHash(o) # RequestHash(r) /\ Answer(r, "conflict", NoItem)
    BY <1>7, <2>1 DEF LookupDurable
  <2>3. o \in Request /\ key(o) = key(r) /\ Executed(o)
    BY <2>2 DEF Recorded, Sound, Types
  <2> QED
    BY <1>7, <2>2, <2>3, AnswerEffect DEF LookupDurable, Prepared
<1> QED
  BY <1>1, <1>2, <1>3, <1>4, <1>5, <1>6, <1>7 DEF Next, Step, Expire, vars

LEMMA ReplayStep ==
    Types /\ AnswersAtEnd /\ Sound /\ Unanswered /\ ReplayFaithful /\ [Next]_vars => ReplayFaithful'
<1> SUFFICES ASSUME Types, AnswersAtEnd, Sound, Unanswered, ReplayFaithful, [Next]_vars,
                    NEW r \in Request, Ok(r)', NEW o, o = call'[r].resp, o # r
             PROVE  /\ o \in Request
                    /\ key(o)' = key(r)' /\ RequestHash(o)' = RequestHash(r)' /\ Executed(o)'
  BY DEF ReplayFaithful
<1>a. call'[r].pc = "done"
  BY AnswersStep DEF Ok, AnswersAtEnd
<1>1. CASE call[r].pc = "done"
  <2>1. call'[r] = call[r] /\ Prepared(r)
    BY <1>1, StepKeeps DEF Kept, Prepared
  <2>2. /\ call[r].resp \in Request
        /\ key(call[r].resp) = key(r)
        /\ RequestHash(call[r].resp) = RequestHash(r)
        /\ Executed(call[r].resp)
    BY <2>1 DEF ReplayFaithful, Ok
  <2> QED
    BY <1>1, <1>a, <2>1, <2>2, WitnessKept
<1>2. CASE call[r].pc # "done"
  <2>1. PICK w \in Request :
          /\ Prepared(r)
          /\ key(w) = key(r) /\ Executed(w)
          /\ call'[r].resp = w /\ RequestHash(w) = RequestHash(r)
    BY <1>2, NewAnswer DEF Ok
  <2> QED
    BY <1>a, <2>1, WitnessKept
<1> QED
  BY <1>1, <1>2

LEMMA ConflictStep ==
    Types /\ AnswersAtEnd /\ Sound /\ Unanswered /\ ConflictJustified /\ [Next]_vars
        => ConflictJustified'
<1> SUFFICES ASSUME Types, AnswersAtEnd, Sound, Unanswered, ConflictJustified, [Next]_vars,
                    NEW r \in Request, call'[r].status = "conflict"
             PROVE  \E o \in Request :
                        (key(o) = key(r) /\ RequestHash(o) # RequestHash(r) /\ Executed(o))'
  BY DEF ConflictJustified
<1>a. call'[r].pc = "done"
  BY AnswersStep DEF AnswersAtEnd
<1>1. \E o \in Request : /\ key(o) = key(r) /\ RequestHash(o) # RequestHash(r) /\ Executed(o)
                         /\ Prepared(r)
  <2>1. CASE call[r].pc = "done"
    <3>1. call[r].status = "conflict"
      BY <2>1, StepKeeps DEF Kept
    <3> QED
      BY <2>1, <3>1 DEF ConflictJustified, Prepared
  <2>2. CASE call[r].pc # "done"
    BY <2>2, NewAnswer
  <2> QED
    BY <2>1, <2>2
<1>2. PICK o \in Request : /\ key(o) = key(r) /\ RequestHash(o) # RequestHash(r) /\ Executed(o)
                           /\ Prepared(r)
  BY <1>1
<1> QED
  BY <1>a, <1>2, WitnessKept

-----------------------------------------------------------------------------
(* The theorems.                                                           *)

THEOREM Inductive == Spec => []IInv
<1>1. Init => IInv
  BY InitIInv
<1>2. IInv /\ [Next]_vars => IInv'
  BY TypeStep, AnswersStep, SoundStep, UnansweredStep, ReplayStep, ConflictStep DEF IInv
<1> QED
  BY <1>1, <1>2, PTL DEF Spec

\* Every request, cache slot and record keeps to its type.
THEOREM TypeCorrect == Spec => []TypeOK
<1>1. IInv => TypeOK
  BY DEF IInv, TypeOK, Unanswered, Keyed
<1> QED
  BY <1>1, Inductive, PTL

\* A replay is the response of an execution of the same request under the
\* same key, and a conflict names an execution of another one.
THEOREM AnswersJustified == Spec => [](ReplayFaithful /\ ConflictJustified)
<1>1. IInv => ReplayFaithful /\ ConflictJustified
  BY DEF IInv
<1> QED
  BY <1>1, Inductive, PTL

LEMMA OverwriteStep ==
    ASSUME IInv, [Next]_vars, NEW k \in Key,
           cache[k] # NoItem, cache'[k] # NoItem, cache[k] # cache'[k]
    PROVE  cache[k] \notin call[cache'[k]].before
<1>a. Types /\ Unanswered
  BY DEF IInv
<1>1. PICK r \in Request : SaveCache(r)
  <2>1. CASE \E x \in Key : Expire(x)
    BY <2>1, <1>a DEF Expire, Types
  <2>2. CASE Crash
    BY <2>2 DEF Crash
  <2> QED
    BY <2>1, <2>2 DEF Next, Step, RecordUserInput, Prepare, Refuse, LookupCache, LookupDurable, ExecuteFails,
                      UpdateFromTurn, SaveDurable, Reply, vars
<1>2. key(r) = k /\ cache'[k] = r
  BY <1>1, <1>a DEF SaveCache, Types
<1> QED
  BY <1>1, <1>2, <1>a DEF SaveCache, Unanswered

\* A conflict always has a cause: a request with the same key and another hash
\* was executed (chatCompletions, idempotency.Get).
THEOREM ConflictsJustified == Spec => []ConflictJustified
<1>1. IInv => ConflictJustified
  BY DEF IInv
<1> QED
  BY <1>1, Inductive, PTL

\* Once a client has its answer no later request replaces it in the cache.
THEOREM AnswersStay == Spec => NoStaleOverwrite
<1>1. IInv /\ [Next]_vars =>
        [\A k \in Key : LET a == cache[k]
                            b == cache'[k]
                        IN a # NoItem /\ b # NoItem /\ a # b => a \notin call[b].before]_vars
  BY OverwriteStep
<1> QED
  BY <1>1, Inductive, PTL DEF Spec, NoStaleOverwrite

-----------------------------------------------------------------------------
(* What binds a key.                                                       *)

\* Past its look at the durable record, or answered.
Bound(x) ==
    \/ call[x].pc \in {"execute", "save", "persist", "reply"}
    \/ x \in records
    \/ Ok(x)

\* What the cache holds has been executed to the end, and what is recorded was
\* sent with a key.
Saved ==
    /\ \A k \in Key : cache[k] # NoItem =>
         call[cache[k]].pc \in {"persist", "reply"} \/ Ok(cache[k])
    /\ \A o \in records : key(o) # NoKey

\* l made it possible that x is not held to o's hash.
Unbinds(l, x, o) ==
    /\ key(l) = key(x) /\ RequestHash(l) = RequestHash(x)
    /\ o \notin call[l].before \/ call[l].blind
    /\ Executed(l)

\* x is held to the hash of o.
Held(x, o) ==
    /\ Bound(x) /\ ~call[x].blind
    /\ o \in call[x].before /\ o \in records
    /\ key(o) = key(x) /\ RequestHash(o) # RequestHash(x)

\* OnlyOverlapUnbindsKey, of every request that the property's witness may be
\* taken from: also of those not answered yet.
OverlapInv == \A x, o \in Request : Held(x, o) => \E l \in Request \ {x, o} : Unbinds(l, x, o)

BindInv == Saved /\ OverlapInv

\* Who could not look does not look again.
LEMMA BlindKept ==
    ASSUME IInv, [Next]_vars, NEW x \in Request
    PROVE  call[x].blind => call'[x].blind \/ call'[x].pc = "dropped"
<1>a. Types /\ call \in [Request -> CallState]
  BY DEF IInv, Types
<1>1. CASE UNCHANGED call
  BY <1>1
<1>2. CASE Crash
  BY <1>2, <1>a, CrashEffect
<1>3. ASSUME NEW r \in Request, Step(r) PROVE call[x].blind => call'[x].blind
  <2>1. CASE RecordUserInput(r) \/ Prepare(r)
    BY <2>1, <1>a, FeltEffect, PrepareEffect
  <2>2. ASSUME NEW c, Goto(r, c) PROVE call[x].blind => call'[x].blind
    BY <2>2, <1>a DEF Goto, CallState
  <2>3. ASSUME NEW st, NEW v, Answer(r, st, v) PROVE call[x].blind => call'[x].blind
    BY <2>3, <1>a DEF Answer, CallState
  <2>4. CASE GoBlind(r)
    BY <2>4, <1>a DEF GoBlind, CallState
  <2> QED
    BY <1>3, <2>1, <2>2, <2>3, <2>4
       DEF Step, Refuse, LookupCache, LookupDurable, ExecuteFails, UpdateFromTurn, SaveCache,
           SaveDurable, Reply
<1> QED
  BY <1>1, <1>2, <1>3 DEF Next, Expire, vars

\* Nobody else's step touches a request.
LEMMA OwnStep ==
    ASSUME IInv, NEW r \in Request, Step(r), NEW o \in Request, o # r
    PROVE  call'[o] = call[o]
  BY GotoEffect, BlindEffect, AnswerEffect, FeltEffect, PrepareEffect
     DEF IInv, Step, Refuse, LookupCache, LookupDurable, ExecuteFails,
         UpdateFromTurn, SaveCache, SaveDurable, Reply

\* A record appears only when it is saved, after the look at the records.
LEMMA RecordsBy ==
    ASSUME IInv, [Next]_vars, NEW o \in records', o \notin records
    PROVE  o \in Request /\ SaveDurable(o)
<1>1. CASE \E r \in Request : SaveDurable(r)
  BY <1>1 DEF SaveDurable, Stored
<1>2. CASE ~\E r \in Request : SaveDurable(r)
  BY <1>2 DEF Next, Step, RecordUserInput, Prepare, Refuse, LookupCache, LookupDurable, ExecuteFails,
              UpdateFromTurn, SaveCache, Reply, Expire, Crash, vars
<1> QED
  BY <1>1, <1>2

\* How a request comes past the look.
LEMMA BecomesBound ==
    ASSUME IInv, [Next]_vars, NEW x \in Request, ~Bound(x), Bound(x)'
    PROVE  Prepare(x) \/ LookupCache(x) \/ LookupDurable(x)
<1>1. CASE Crash
  BY <1>1, CrashEffect DEF IInv, Crash, Bound, Ok
<1>2. CASE UNCHANGED <<call, records>>
  BY <1>2 DEF Bound, Ok
<1>3. ASSUME NEW r \in Request, Step(r), r # x PROVE FALSE
  <2>1. call'[x] = call[x]
    BY <1>3, OwnStep
  <2>2. x \in records' => x \in records \/ SaveDurable(x)
    BY RecordsBy
  <2>3. ~SaveDurable(x)
    BY DEF SaveDurable, Bound
  <2> QED
    BY <2>1, <2>2, <2>3 DEF Bound, Ok
<1>4. CASE UpdateFromTurn(x) \/ SaveCache(x) \/ SaveDurable(x) \/ Reply(x)
  BY <1>4 DEF UpdateFromTurn, SaveCache, SaveDurable, Reply, Bound
<1>5. CASE ExecuteFails(x)
  BY <1>5 DEF ExecuteFails, Bound
<1>6. CASE RecordUserInput(x)
  BY <1>6, FeltEffect DEF IInv, RecordUserInput, Bound, Ok
<1>7. CASE Refuse(x)
  <2>1. call'[x].pc = "done" /\ call'[x].status = "failed" /\ records' = records
    BY <1>7, AnswerEffect DEF IInv, Refuse
  <2> QED
    BY <2>1 DEF Bound, Ok
<1> QED
  BY <1>1, <1>2, <1>3, <1>4, <1>5, <1>6, <1>7 DEF Next, Step, Expire, vars

LEMMA SavedStep ==
    ASSUME IInv, Saved, [Next]_vars PROVE Saved'
<1>a. Types /\ ask' = ask /\ call \in [Request -> CallState]
  BY StepKeeps DEF IInv, Types
<1>1. ASSUME NEW k \in Key, cache'[k] # NoItem
      PROVE  (call[cache[k]].pc \in {"persist", "reply"} \/ Ok(cache[k]))'
  <2>1. CASE cache'[k] = cache[k] /\ ~Crash
    <3>1. PICK x \in Request : x = cache[k]
      BY <1>a, <1>1, <2>1 DEF Types
    <3>2. call[x].pc \in {"persist", "reply"} \/ (Ok(x) /\ call[x].pc = "done")
      BY <1>1, <2>1, <3>1 DEF Saved, IInv, AnswersAtEnd, Ok
    <3>3. CASE call'[x] = call[x]
      BY <2>1, <3>1, <3>2, <3>3 DEF Ok
    <3>4. CASE Step(x)
      <4>1. SaveDurable(x) \/ Reply(x)
        BY <3>2, <3>4 DEF Step, RecordUserInput, Prepare, Refuse, LookupCache, LookupDurable, ExecuteFails,
                          UpdateFromTurn, SaveCache
      <4>2. call'[x].pc = "reply" \/ call'[x].status = "ok"
        BY <1>a, <4>1, GotoEffect, AnswerEffect DEF SaveDurable, Reply
      <4> QED
        BY <2>1, <3>1, <4>2 DEF Ok
    <3>5. CASE \E r \in Request : Step(r) /\ r # x
      BY <3>3, <3>5, OwnStep
    <3> QED
      BY <2>1, <3>3, <3>4, <3>5 DEF Next, Expire, vars
  <2>2. ASSUME NEW r \in Request, SaveCache(r), cache'[k] # cache[k]
        PROVE  (call[cache[k]].pc \in {"persist", "reply"} \/ Ok(cache[k]))'
    <3>1. cache'[k] = r
      BY <1>a, <2>2 DEF SaveCache, Types
    <3>2. call'[r].pc = "persist"
      BY <1>a, <2>2, GotoEffect DEF SaveCache
    <3> QED
      BY <3>1, <3>2
  <2>3. CASE \E x \in Key : Expire(x)
    <3>1. cache'[k] = cache[k] /\ ~Crash
      <4>1. cache'[k] = cache[k]
        BY <1>a, <1>1, <2>3 DEF Expire, Types
      <4>2. ~Crash
        BY <1>1 DEF Crash
      <4> QED
        BY <4>1, <4>2
    <3> QED
      BY <2>1, <3>1
  <2>4. CASE Crash
    BY <1>1, <2>4 DEF Crash
  <2> QED
    BY <2>1, <2>2, <2>3, <2>4
       DEF Next, Step, RecordUserInput, Prepare, Refuse, LookupCache, LookupDurable, ExecuteFails,
           UpdateFromTurn, SaveDurable, Reply, vars
<1>2. ASSUME NEW o \in records' PROVE key(o)' # NoKey
  <2>1. CASE o \in records
    BY <1>a, <2>1 DEF Saved, key
  <2>2. CASE o \notin records
    BY <1>2, <1>a, <2>2, RecordsBy DEF IInv, Unanswered, SaveDurable, key
  <2> QED
    BY <2>1, <2>2
<1> QED
  BY <1>1, <1>2 DEF Saved

\* A request that another one lets past its look, by the cache or by a record,
\* is let past by an execution of its own hash: that one had overlapped o or not
\* seen it, or was let past by such a one itself.
LEMMA LetPast ==
    ASSUME IInv, Saved, OverlapInv, NEW x \in Request, NEW o \in Request, NEW w \in Request,
           ~Executed(x), o \in records, key(o) = key(x), RequestHash(o) # RequestHash(x),
           Bound(w), Executed(w), key(w) = key(x), RequestHash(w) = RequestHash(x)
    PROVE  \E l \in Request \ {x, o} : Unbinds(l, x, o)
<1>1. CASE o \notin call[w].before \/ call[w].blind
  BY <1>1 DEF Unbinds
<1>2. CASE o \in call[w].before /\ ~call[w].blind
  <2>1. Held(w, o)
    BY <1>2 DEF Held
  <2>2. PICK l \in Request \ {w, o} : Unbinds(l, w, o)
    BY <2>1 DEF OverlapInv
  <2> QED
    BY <2>2 DEF Unbinds
<1> QED
  BY <1>1, <1>2

LEMMA OverlapStep ==
    ASSUME IInv, BindInv, [Next]_vars PROVE OverlapInv'
<1> SUFFICES ASSUME NEW x \in Request, NEW o \in Request, Held(x, o)'
             PROVE  (\E l \in Request \ {x, o} : Unbinds(l, x, o))'
  BY DEF OverlapInv
<1>a. Types /\ AnswersAtEnd /\ Saved /\ OverlapInv /\ Sound
  BY DEF IInv, BindInv
<1>b. ask' = ask /\ Kept(x) /\ Kept(o) /\ key(x)' = key(x) /\ key(o)' = key(o)
  BY <1>a, StepKeeps DEF key
<1>0. call'[x].pc # "dropped"
  <2>1. AnswersAtEnd' /\ Sound'
    BY <1>a, AnswersStep, SoundStep DEF IInv
  <2> QED
    BY <2>1, NamesAssumption DEF Held, Bound, Ok, Sound, Executed, AnswersAtEnd
<1>c. ~call[x].blind /\ ~call'[x].blind
  BY <1>0, BlindKept DEF Held
<1>d. Prepared(x) => /\ call'[x].before = call[x].before
                     /\ RequestHash(x)' = RequestHash(x)
  BY <1>0, <1>b DEF Kept, RequestHash
<1>e. key(o) = key(x)
  BY <1>b DEF Held
<1>1. o \in records /\ Prepared(o) /\ RequestHash(o)' = RequestHash(o)
  <2>1. o \in records
    <3>1. CASE SaveDurable(o)
      <4>1. o \notin Answered
        BY <3>1 DEF SaveDurable, Answered
      <4>2. call'[x].before = call[x].before
        <5>1. CASE x = o
          BY <1>d, <3>1, <5>1 DEF SaveDurable, Prepared
        <5>2. CASE x # o
          BY <3>1, <5>2, OwnStep DEF Step
        <5> QED
          BY <5>1, <5>2
      <4> QED
        BY <4>1, <4>2 DEF Held, IInv, Unanswered
    <3> QED
      BY <3>1, RecordsBy DEF Held
  <2>2. Executed(o)
    BY <1>a, <2>1 DEF Sound
  <2>3. Prepared(o)
    BY <1>a, <2>2, NamesAssumption DEF Executed, AnswersAtEnd, Prepared
  <2> QED
    BY <1>b, <2>1, <2>2, <2>3 DEF Kept, RequestHash
<1>2. ASSUME NEW l \in Request \ {x, o}, Unbinds(l, x, o), Prepared(x)
      PROVE  (\E m \in Request \ {x, o} : Unbinds(m, x, o))'
  <2>1. Executed(l)' /\ key(l)' = key(l) /\ RequestHash(l)' = RequestHash(l)
    BY <1>0, <1>2, <1>a, WitnessKept DEF Unbinds
  <2>2. call'[l].before = call[l].before /\ call'[l].pc # "dropped"
    <3>1. Prepared(l) /\ Executed(l)
      BY <1>2, <1>a, NamesAssumption DEF Unbinds, Executed, AnswersAtEnd, Prepared
    <3> QED
      BY <1>a, <3>1, StepKeeps DEF Kept
  <2>3. call[l].blind => call'[l].blind
    BY <2>2, BlindKept
  <2>4. Unbinds(l, x, o)'
    BY <1>2, <1>b, <1>d, <2>1, <2>2, <2>3 DEF Unbinds
  <2> QED
    BY <2>4
<1>3. CASE Bound(x)
  <2>1. Prepared(x)
    BY <1>3, <1>a, NamesAssumption DEF Bound, Ok, Sound, Executed, AnswersAtEnd, Prepared
  <2>2. Held(x, o)
    BY <1>3, <1>1, <1>b, <1>c, <1>d, <1>e, <2>1 DEF Held
  <2> QED
    BY <1>2, <1>a, <2>1, <2>2 DEF OverlapInv
<1>4. CASE ~Bound(x)
  <2>1. Prepare(x) \/ LookupCache(x) \/ LookupDurable(x)
    BY <1>4, BecomesBound DEF Held
  <2>2. ~Prepare(x)
    <3>1. SUFFICES ASSUME Prepare(x) PROVE FALSE
      OBVIOUS
    <3>2. key(x) # NoKey
      BY <1>a, <1>1, <1>e DEF Saved
    <3>3. call'[x].pc = "cache" /\ call'[x].status = call[x].status /\ x \notin records'
      BY <1>a, <1>4, <3>1, <3>2, PrepareEffect DEF Prepare, Bound
    <3> QED
      BY <1>4, <3>3 DEF Held, Bound, Ok
  <2>3. /\ Prepared(x) /\ ~Executed(x) /\ o \in call[x].before
        /\ RequestHash(o) # RequestHash(x)
    <3>1. call[x].pc \in {"cache", "durable"}
      BY <2>1, <2>2 DEF LookupCache, LookupDurable
    <3>2. ~Executed(x)
      BY <1>a, <3>1, NamesAssumption DEF Executed, AnswersAtEnd
    <3> QED
      BY <1>1, <1>d, <3>1, <3>2 DEF Held, Prepared
  <2>4. CASE LookupCache(x)
    <3>1. key(x) \in Key
      BY <1>a, <2>4, KeyType DEF IInv, LookupCache, Unanswered
    <3>2. PICK w : w = cache[key(x)]
      OBVIOUS
    <3>3. w # NoItem /\ RequestHash(w) = RequestHash(x)
      <4>1. ~Goto(x, "durable") /\ ~Answer(x, "conflict", NoItem)
        BY <1>4, <1>a, <2>4, GotoEffect, AnswerEffect DEF LookupCache, Held, Bound, Ok
      <4> QED
        BY <2>4, <3>2, <4>1 DEF LookupCache
    <3>4. w \in Request /\ key(w) = key(x) /\ Executed(w) /\ Bound(w)
      BY <1>a, <3>1, <3>2, <3>3 DEF Types, Sound, Saved, Bound
    <3>5. \E l \in Request \ {x, o} : Unbinds(l, x, o)
      BY <1>1, <1>a, <1>e, <2>3, <3>3, <3>4, LetPast
    <3> QED
      BY <1>2, <2>3, <3>5
  <2>5. CASE LookupDurable(x)
    <3>1. o \in Recorded(key(x)) /\ ~GoBlind(x) /\ ~Answer(x, "conflict", NoItem)
      <4>1. ~Answer(x, "conflict", NoItem)
        BY <1>4, <1>a, <2>5, AnswerEffect DEF LookupDurable, Held, Bound, Ok
      <4>2. ~GoBlind(x)
        <5>1. SUFFICES ASSUME GoBlind(x) PROVE FALSE
          OBVIOUS
        <5>2. call'[x].blind = TRUE
          BY <1>a, <5>1 DEF GoBlind, Types, CallState
        <5> QED
          BY <1>c, <5>2
      <4> QED
        BY <1>1, <1>e, <4>1, <4>2 DEF Recorded
    <3>2. PICK w \in Recorded(key(x)) : RequestHash(w) = RequestHash(x)
      BY <2>5, <3>1 DEF LookupDurable
    <3>3. w \in Request /\ key(w) = key(x) /\ Executed(w) /\ Bound(w)
      BY <1>a, <3>2 DEF Types, Sound, Recorded, Bound
    <3>4. \E l \in Request \ {x, o} : Unbinds(l, x, o)
      BY <1>1, <1>a, <1>e, <2>3, <3>2, <3>3, LetPast
    <3> QED
      BY <1>2, <2>3, <3>4
  <2> QED
    BY <2>1, <2>2, <2>4, <2>5
<1> QED
  BY <1>3, <1>4

\* A stored record binds its key, across expiry, crashes and restarts and for
\* any number of requests: a later request with another hash that looked and yet
\* was answered owes it to an execution of its own hash that had overlapped the
\* recorded one or could not look (GetDurable, Save, and the hash they compare).
THEOREM KeyStaysBound == Spec => []OnlyOverlapUnbindsKey
<1>1. IInv /\ BindInv => OnlyOverlapUnbindsKey
  BY DEF BindInv, OverlapInv, OnlyOverlapUnbindsKey, Held, Unbinds, Bound
<1>2. Init => BindInv
  <2> SUFFICES ASSUME Init PROVE BindInv
    OBVIOUS
  <2> QED
    BY DEF Init, NewCall, BindInv, Saved, OverlapInv, Held
<1>3. IInv /\ BindInv /\ [Next]_vars => BindInv'
  BY SavedStep, OverlapStep DEF BindInv
<1> QED
  BY <1>1, <1>2, <1>3, Inductive, PTL DEF Spec

=============================================================================
