-------------------------- MODULE StoreClientProofs --------------------------
(***************************************************************************)
(* What holds of the shared client for any callers, operations, profiles,  *)
(* attempts and revocations.                                               *)
(*                                                                         *)
(* Callers that hold the mutex, the phases of an operation and who ended   *)
(* before whom are one inductive invariant (Shape, with TypeOK).  On it    *)
(* rest what an upsert that writes knows of the rows (Single) and what an  *)
(* acknowledged one can rely on (AcknowledgedStays, which is inductive     *)
(* over Shape).                                                            *)
(***************************************************************************)
EXTENDS StoreClient, SequenceTheorems, TLAPS

Steps == Ended \cup {"begin", "ensure", "refresh", "auth", "scope", "send", "flight", "rejected"}

-----------------------------------------------------------------------------
(* Types and phases.                                                       *)

\* A request is under way in the phase of a call only, a Get never writes, and
\* those that ended before an operation began have ended, which it has not.
Shape ==
    \A c \in Callers :
      /\ pc[c] \in {"send", "flight", "rejected"} => phase[c] # "check"
      /\ pc[c] = "begin" => phase[c] = "check"
      /\ kind[c] = "get" => phase[c] # "write"
      /\ c \notin before[c]
      /\ \A d \in before[c] : pc[d] \in Ended

Base == TypeOK /\ Shape

LEMMA BaseInit == Init => Base
<1> SUFFICES ASSUME Init PROVE Base
  OBVIOUS
<1>1. rows \in Seq(Callers) /\ Len(rows) = 0
  BY DEF Init
<1>2. 0 \in 0..Attempts - 1 /\ 0 \in 0..MaxRevocations /\ 0 \in 0..Len(rows)
  BY <1>1, StoreAssumption
<1>3. kind \in [Callers -> Kinds]
  BY StoreAssumption DEF Init
<1>4. \A c \in Callers : pc[c] = "begin" /\ mu # c
  BY StoreAssumption DEF Init
<1>5. TypeOK
  BY <1>1, <1>2, <1>3, <1>4 DEF Init, TypeOK, Token
<1>6. Shape
  BY <1>4 DEF Init, Shape
<1> QED
  BY <1>5, <1>6 DEF Base

\* A caller goes to another step; the mutex follows it.
LEMMA Going ==
    ASSUME Base, NEW c \in Callers, NEW step \in Steps \ {"begin"}, Goto(c, step),
           pc[c] \notin Ended,
           \/ mu' = mu /\ (step \in {"refresh", "auth"} <=> pc[c] \in {"refresh", "auth"})
           \/ mu = None /\ mu' = c /\ step \in {"refresh", "auth"}
           \/ mu = c /\ mu' = None /\ step \notin {"refresh", "auth"}
    PROVE  /\ pc' \in [Callers -> Steps]
           /\ pc'[c] = step
           /\ \A d \in Callers : d # c => pc'[d] = pc[d]
           /\ mu' \in Callers \cup {None}
           /\ \A d \in Callers : mu' = d <=> pc'[d] \in {"refresh", "auth"}
<1>1. pc \in [Callers -> Steps]
  BY DEF Base, TypeOK, Steps
<1>2. pc' = [pc EXCEPT ![c] = step]
  BY DEF Goto
<1>3. \A d \in Callers : mu = d <=> pc[d] \in {"refresh", "auth"}
  BY DEF Base, TypeOK
<1>4. None \notin Callers /\ mu \in Callers \cup {None}
  BY StoreAssumption DEF Base, TypeOK
<1> QED
  BY <1>1, <1>2, <1>3, <1>4

\* The rest of the types, of a step of one caller.
Others ==
    /\ token \in Token
    /\ aged \in BOOLEAN
    /\ account \subseteq Scope
    /\ profile \in Profiles
    /\ revocations \in 0..MaxRevocations
    /\ rows \in Seq(Callers)
    /\ kind \in [Callers -> Kinds]
    /\ phase \in [Callers -> {"check", "read", "write"}]
    /\ sent \in [Callers -> Token]
    /\ attempt \in [Callers -> 0..Attempts - 1]
    /\ seen \in [Callers -> 0..Len(rows)]
    /\ before \in [Callers -> SUBSET Callers]
    /\ doubtful \in [Callers -> BOOLEAN]

LEMMA TypeParts ==
    ASSUME pc \in [Callers -> Steps], mu \in Callers \cup {None}, Others,
           \A d \in Callers : mu = d <=> pc[d] \in {"refresh", "auth"}
    PROVE  TypeOK
  BY DEF TypeOK, Others, Steps

LEMMA OthersHold == Base => Others
  BY DEF Base, TypeOK, Others

\* A step of one caller that goes to another step and leaves Shape as it was.
LEMMA Onwards ==
    ASSUME Base, NEW c \in Callers, NEW step \in Steps \ {"begin"}, Goto(c, step),
           pc[c] \notin Ended,
           \/ mu' = mu /\ (step \in {"refresh", "auth"} <=> pc[c] \in {"refresh", "auth"})
           \/ mu = None /\ mu' = c /\ step \in {"refresh", "auth"}
           \/ mu = c /\ mu' = None /\ step \notin {"refresh", "auth"},
           Others', UNCHANGED <<kind, before>>,
           \A d \in Callers : d # c => phase'[d] = phase[d],
           step \in {"send", "flight", "rejected"} => phase'[c] # "check",
           kind[c] = "get" => phase'[c] # "write"
    PROVE  Base'
<1>1. /\ pc' \in [Callers -> Steps]
      /\ pc'[c] = step
      /\ \A d \in Callers : d # c => pc'[d] = pc[d]
      /\ mu' \in Callers \cup {None}
      /\ \A d \in Callers : mu' = d <=> pc'[d] \in {"refresh", "auth"}
  BY Going
<1>2. TypeOK'
  BY <1>1 DEF TypeOK, Others, Steps
<1>3. Shape'
  <2> SUFFICES ASSUME NEW d \in Callers
               PROVE  /\ pc'[d] \in {"send", "flight", "rejected"} => phase'[d] # "check"
                      /\ pc'[d] = "begin" => phase'[d] = "check"
                      /\ kind'[d] = "get" => phase'[d] # "write"
                      /\ d \notin before'[d]
                      /\ \A e \in before'[d] : pc'[e] \in Ended
    BY DEF Shape
  <2>1. \A e \in before[d] : e \in Callers /\ pc[e] \in Ended /\ e # c
    BY DEF Base, Shape, TypeOK
  <2>2. \A e \in before'[d] : pc'[e] \in Ended
    BY <1>1, <2>1
  <2> QED
    BY <1>1, <2>2 DEF Base, Shape
<1> QED
  BY <1>2, <1>3 DEF Base

\* What the server does with a call keeps the rows rows, and changes none for a
\* Get or in the phases before "write".
LEMMA CarriedRows ==
    ASSUME Base, NEW c \in Callers, Carried(c)
    PROVE  /\ rows' \in Seq(Callers)
           /\ Len(rows') >= Len(rows)
           /\ phase[c] = "read" => rows' = rows
           /\ phase[c] = "write" =>
                \/ /\ kind[c] = "upsert" /\ seen[c] # 0
                   /\ seen[c] \in 1..Len(rows) /\ rows' = [rows EXCEPT ![seen[c]] = c]
                   /\ Len(rows') = Len(rows)
                \/ /\ ~(kind[c] = "upsert" /\ seen[c] # 0)
                   /\ rows' = Append(rows, c) /\ Len(rows') = Len(rows) + 1
<1>1. rows \in Seq(Callers) /\ seen[c] \in 0..Len(rows) /\ Len(rows) \in Nat
  BY DEF Base, TypeOK
<1>2. pc[c] = "flight" /\ phase[c] \in {"read", "write"}
  BY DEF Carried, Base, TypeOK, Shape
<1>3. CASE phase[c] = "read"
  BY <1>1, <1>3 DEF Carried
<1>4. CASE phase[c] = "write" /\ kind[c] = "upsert" /\ seen[c] # 0
  <2>1. rows' = [rows EXCEPT ![seen[c]] = c]
    BY <1>4 DEF Carried
  <2>2. seen[c] \in 1..Len(rows)
    BY <1>1, <1>4
  <2>3. rows' \in Seq(Callers) /\ Len(rows') = Len(rows)
    BY <1>1, <2>1, <2>2, ExceptSeq
  <2>4. Len(rows') >= Len(rows)
    BY <1>1, <2>3
  <2> QED
    BY <1>4, <2>1, <2>2, <2>3, <2>4
<1>5. CASE phase[c] = "write" /\ ~(kind[c] = "upsert" /\ seen[c] # 0)
  <2>1. rows' = Append(rows, c)
    BY <1>5 DEF Carried
  <2> QED
    BY <1>1, <1>5, <2>1, AppendProperties
<1> QED
  BY <1>2, <1>3, <1>4, <1>5

\* The types of what a step does not touch.
LEMMA OthersStay ==
    ASSUME Others, UNCHANGED <<token, aged, account, profile, revocations, rows, kind, phase,
                               sent, attempt, seen, before, doubtful>>
    PROVE  Others'
  BY DEF Others

LEMMA BaseBegin ==
    ASSUME Base, NEW c \in Callers, Begin(c) PROVE Base'
<1>1. /\ pc[c] = "begin" /\ pc' = [pc EXCEPT ![c] = "ensure"]
      /\ before' = [before EXCEPT ![c] = {d \in Callers : pc[d] \in Ended}]
      /\ UNCHANGED <<storeVars, serverVars, kind, phase, sent, attempt, seen, doubtful>>
  BY DEF Begin, Goto
<1>2. pc \in [Callers -> Steps] /\ before \in [Callers -> SUBSET Callers]
  BY DEF Base, TypeOK, Steps
<1>3. c \notin {d \in Callers : pc[d] \in Ended}
  BY <1>1 DEF Ended
<1>4. /\ before'[c] = {d \in Callers : pc[d] \in Ended}
      /\ \A d \in Callers : d # c => before'[d] = before[d] /\ pc'[d] = pc[d]
      /\ pc'[c] = "ensure"
  BY <1>1, <1>2
<1>5. TypeOK'
  BY <1>1, <1>2, <1>4 DEF Base, TypeOK, storeVars, serverVars, Ended
<1>6. Shape'
  <2> SUFFICES ASSUME NEW d \in Callers
               PROVE  /\ pc'[d] \in {"send", "flight", "rejected"} => phase'[d] # "check"
                      /\ pc'[d] = "begin" => phase'[d] = "check"
                      /\ kind'[d] = "get" => phase'[d] # "write"
                      /\ d \notin before'[d]
                      /\ \A e \in before'[d] : pc'[e] \in Ended
    BY DEF Shape
  <2>1. \A e \in before'[d] : e \in Callers /\ pc[e] \in Ended
    BY <1>2, <1>4 DEF Base, Shape
  <2>2. \A e \in before'[d] : pc'[e] \in Ended
    BY <1>1, <1>4, <2>1 DEF Ended
  <2> QED
    BY <1>1, <1>3, <1>4, <2>2 DEF Base, Shape
<1> QED
  BY <1>5, <1>6 DEF Base

LEMMA BaseEnsure ==
    ASSUME Base, NEW c \in Callers, ensureToken(c) PROVE Base'
<1>1. PICK step \in Steps \ {"begin"} :
        /\ Goto(c, step)
        /\ \/ step = "auth" /\ mu' = c
           \/ step = "refresh" /\ mu' = c
           \/ step = Ensured(c) /\ mu' = mu
  BY DEF ensureToken, Ensured, Steps
<1>2. /\ pc[c] = "ensure" /\ mu = None
      /\ UNCHANGED <<token, aged, account, serverVars, kind, phase, sent, attempt, seen, before, doubtful>>
  BY DEF ensureToken
<1>3. Others'
  BY <1>2, OthersHold, OthersStay DEF serverVars
<1> QED
  BY <1>1, <1>2, <1>3, Onwards DEF Base, Shape, Ensured, Ended

LEMMA BaseAuth ==
    ASSUME Base, NEW c \in Callers, authWithPasswordLocked(c) \/ authRefreshLocked(c) PROVE Base'
<1>1. /\ pc[c] \in {"auth", "refresh"} /\ Goto(c, Ensured(c)) /\ mu' = None
      /\ token' = "live" /\ aged' = FALSE /\ account' = profile.scopes
      /\ UNCHANGED <<serverVars, kind, phase, sent, attempt, seen, before, doubtful>>
  BY DEF authWithPasswordLocked, authRefreshLocked, Authenticated
<1>2. mu = c
  BY <1>1 DEF Base, TypeOK
<1>3. profile.scopes \subseteq Scope
  BY StoreAssumption DEF Base, TypeOK, Profile
<1>4. Others'
  BY <1>1, <1>3, OthersHold DEF Others, serverVars, Token
<1>5. Ensured(c) \in {"scope", "send"}
  BY DEF Ensured
<1> QED
  BY <1>1, <1>2, <1>4, <1>5, Onwards DEF Base, Shape, Ensured, Ended, Steps

LEMMA BaseAuthFails ==
    ASSUME Base, NEW c \in Callers, RefreshFails(c) \/ AuthFails(c) PROVE Base'
<1>1. CASE RefreshFails(c)
  <2>1. Others'
    BY <1>1, OthersHold DEF RefreshFails, Others, serverVars, Token
  <2> QED
    BY <1>1, <2>1, Onwards DEF RefreshFails, Base, Shape, Ended, Steps
<1>2. CASE AuthFails(c)
  <2>1. Others'
    BY <1>2, OthersHold DEF AuthFails, Others, serverVars
  <2>2. mu = c
    BY <1>2 DEF AuthFails, Base, TypeOK
  <2> QED
    BY <1>2, <2>1, <2>2, Onwards DEF AuthFails, Base, Shape, Ended, Steps
<1> QED
  BY <1>1, <1>2

LEMMA BaseScope ==
    ASSUME Base, NEW c \in Callers, requireAnyScope(c) PROVE Base'
<1>1. /\ pc[c] = "scope" /\ UNCHANGED <<storeVars, serverVars, kind, sent, attempt, seen, before, doubtful>>
      /\ \/ Goto(c, "ensure") /\ phase' = [phase EXCEPT ![c] = IF kind[c] = "create" THEN "write" ELSE "read"]
         \/ Goto(c, "failed") /\ phase' = phase
  BY DEF requireAnyScope
<1>2. phase \in [Callers -> {"check", "read", "write"}]
  BY DEF Base, TypeOK
<1>3. /\ phase' \in [Callers -> {"check", "read", "write"}]
      /\ \A d \in Callers : d # c => phase'[d] = phase[d]
      /\ kind[c] = "get" => phase'[c] # "write"
  BY <1>1, <1>2 DEF Base, Shape
<1>4. Others'
  BY <1>1, <1>3, OthersHold DEF Others, storeVars, serverVars
<1> QED
  BY <1>1, <1>3, <1>4, Onwards DEF storeVars, Ended, Steps

LEMMA BaseSend ==
    ASSUME Base, NEW c \in Callers, Send(c) \/ Unauthorized(c) \/ ClearToken(c) PROVE Base'
<1>1. /\ pc[c] \in {"send", "flight", "rejected"}
      /\ UNCHANGED <<aged, account, mu, serverVars, kind, phase, attempt, seen, before, doubtful>>
  BY DEF Send, Unauthorized, ClearToken, storeVars
<1>2. \E step \in {"flight", "rejected", "ensure"} : Goto(c, step)
  BY DEF Send, Unauthorized, ClearToken
<1>3. token' \in Token
  BY DEF Send, Unauthorized, ClearToken, storeVars, Base, TypeOK, Token
<1>4. sent' \in [Callers -> Token]
  <2>1. sent \in [Callers -> Token] /\ token \in Token
    BY DEF Base, TypeOK
  <2>2. sent' = sent \/ \E t \in Token : sent' = [sent EXCEPT ![c] = t]
    BY <2>1 DEF Send, Unauthorized, ClearToken, Received, Token
  <2> QED
    BY <2>1, <2>2
<1>5. Others'
  BY <1>1, <1>3, <1>4, OthersHold DEF Others, serverVars
<1> QED
  BY <1>1, <1>2, <1>5, Onwards DEF Base, Shape, Ended, Steps

LEMMA BaseAnswered ==
    ASSUME Base, NEW c \in Callers, Answered(c) PROVE Base'
<1>1. /\ pc[c] = "flight" /\ Carried(c) /\ Received(c)
      /\ attempt' = [attempt EXCEPT ![c] = 0]
      /\ UNCHANGED <<storeVars, profile, revocations, kind, before, doubtful>>
  BY DEF Answered, Carried
<1>2. rows' \in Seq(Callers) /\ Len(rows') >= Len(rows) /\ (phase[c] = "read" => rows' = rows)
  BY <1>1, CarriedRows
<1>3. /\ phase \in [Callers -> {"check", "read", "write"}] /\ sent \in [Callers -> Token]
      /\ attempt \in [Callers -> 0..Attempts - 1] /\ seen \in [Callers -> 0..Len(rows)]
      /\ rows \in Seq(Callers)
  BY DEF Base, TypeOK
<1>4. 0..Len(rows) \subseteq 0..Len(rows')
  BY <1>2, <1>3
<1>5. seen' \in [Callers -> 0..Len(rows')]
  <2>1. CASE phase[c] = "read"
    <3>1. PICK id \in IF rows = <<>> THEN {0} ELSE 1..Len(rows) : seen' = [seen EXCEPT ![c] = id]
      BY <2>1 DEF Answered
    <3>2. id \in 0..Len(rows')
      BY <1>2, <1>3, <2>1
    <3> QED
      BY <1>3, <1>4, <3>1, <3>2
  <2>2. CASE phase[c] # "read"
    BY <1>3, <1>4, <2>2 DEF Answered
  <2> QED
    BY <2>1, <2>2
<1>6. PICK step \in {"ensure", "notFound", "ok"} : Goto(c, step)
  BY DEF Answered
<1>7. /\ phase' \in [Callers -> {"check", "read", "write"}]
      /\ \A d \in Callers : d # c => phase'[d] = phase[d]
      /\ kind[c] = "get" => phase'[c] # "write"
  BY <1>3 DEF Answered, Base, Shape
<1>8. sent' \in [Callers -> Token] /\ attempt' \in [Callers -> 0..Attempts - 1]
  BY <1>1, <1>3, StoreAssumption DEF Received, Token
<1>9. Others'
  BY <1>1, <1>2, <1>5, <1>7, <1>8, OthersHold DEF Others, storeVars
<1> QED
  BY <1>1, <1>6, <1>7, <1>9, Onwards DEF storeVars, Ended, Steps

LEMMA BaseLost ==
    ASSUME Base, NEW c \in Callers, Lost(c) \/ Repeated(c) PROVE Base'
<1>1. /\ pc[c] = "flight" /\ (Carried(c) \/ UNCHANGED rows) /\ Received(c)
      /\ UNCHANGED <<storeVars, profile, revocations, kind, phase, seen, before>>
  BY DEF Lost, Repeated
<1>2. rows' \in Seq(Callers) /\ Len(rows') >= Len(rows)
  BY <1>1, CarriedRows DEF Base, TypeOK
<1>3. /\ sent \in [Callers -> Token] /\ doubtful \in [Callers -> BOOLEAN]
      /\ attempt \in [Callers -> 0..Attempts - 1] /\ seen \in [Callers -> 0..Len(rows)]
      /\ rows \in Seq(Callers)
  BY DEF Base, TypeOK
<1>4. seen' \in [Callers -> 0..Len(rows')]
  BY <1>1, <1>2, <1>3
<1>5. attempt' \in [Callers -> 0..Attempts - 1]
  <2>1. CASE attempt' = attempt
    BY <1>3, <2>1
  <2>2. CASE attempt[c] + 1 < Attempts /\ attempt' = [attempt EXCEPT ![c] = attempt[c] + 1]
    <3>1. attempt[c] + 1 \in 0..Attempts - 1
      BY <1>3, <2>2, StoreAssumption
    <3> QED
      BY <1>3, <2>2, <3>1
  <2>3. CASE Lost(c)
    BY <2>1, <2>3 DEF Lost
  <2>4. CASE Repeated(c)
    BY <2>1, <2>2, <2>4 DEF Repeated
  <2> QED
    BY <2>3, <2>4
<1>6. doubtful' \in [Callers -> BOOLEAN]
  <2>1. CASE Lost(c)
    BY <1>3, <2>1 DEF Lost
  <2>2. CASE Repeated(c)
    <3>1. doubtful' = [doubtful EXCEPT ![c] = doubtful[c] \/ rows' # rows]
      BY <2>2 DEF Repeated
    <3>2. (doubtful[c] \/ rows' # rows) \in BOOLEAN
      OBVIOUS
    <3> QED
      BY <1>3, <3>1, <3>2
  <2> QED
    BY <2>1, <2>2
<1>7. sent' \in [Callers -> Token]
  BY <1>1, <1>3 DEF Received, Token
<1>8. PICK step \in {"send", "failed"} : Goto(c, step)
  BY DEF Lost, Repeated
<1>9. Others'
  BY <1>1, <1>2, <1>4, <1>5, <1>6, <1>7, OthersHold DEF Others, storeVars
<1> QED
  BY <1>1, <1>8, <1>9, Onwards DEF storeVars, Base, Shape, Ended, Steps

LEMMA BaseNoSuchPath ==
    ASSUME Base, NEW c \in Callers, NoSuchPath(c) PROVE Base'
<1>1. /\ pc[c] = "flight" /\ Received(c)
      /\ doubtful' = [doubtful EXCEPT ![c] = TRUE]
      /\ attempt' = [attempt EXCEPT ![c] = 0]
      /\ UNCHANGED <<storeVars, serverVars, kind, seen, before>>
  BY DEF NoSuchPath
<1>2. /\ phase \in [Callers -> {"check", "read", "write"}] /\ sent \in [Callers -> Token]
      /\ attempt \in [Callers -> 0..Attempts - 1] /\ doubtful \in [Callers -> BOOLEAN]
  BY DEF Base, TypeOK
<1>3. /\ sent' \in [Callers -> Token] /\ attempt' \in [Callers -> 0..Attempts - 1]
      /\ doubtful' \in [Callers -> BOOLEAN]
  BY <1>1, <1>2, StoreAssumption DEF Received, Token
<1>4. /\ phase' \in [Callers -> {"check", "read", "write"}]
      /\ \A d \in Callers : d # c => phase'[d] = phase[d]
      /\ kind[c] = "get" => phase'[c] # "write"
  BY <1>2 DEF NoSuchPath, Base, Shape
<1>5. PICK step \in {"ensure", "notFound", "failed"} : Goto(c, step)
  BY DEF NoSuchPath
<1>6. Others'
  BY <1>1, <1>3, <1>4, OthersHold DEF Others, storeVars, serverVars
<1> QED
  BY <1>1, <1>4, <1>5, <1>6, Onwards DEF storeVars, Ended, Steps

LEMMA BaseSurroundings ==
    ASSUME Base, Age \/ ChangeAccount \/ Revoke \/ UNCHANGED vars PROVE Base'
<1>1. UNCHANGED <<mu, rows, kind, pc, phase, attempt, seen, before, doubtful>>
  BY DEF Age, ChangeAccount, Revoke, vars, storeVars, serverVars, callVars
<1>2. token' \in Token /\ aged' \in BOOLEAN /\ account' \subseteq Scope /\ profile' \in Profiles
  BY DEF Age, ChangeAccount, Revoke, vars, storeVars, serverVars, callVars, Base, TypeOK, Token
<1>3. revocations' \in 0..MaxRevocations
  BY StoreAssumption DEF Age, ChangeAccount, Revoke, vars, storeVars, serverVars, callVars, Base, TypeOK
<1>4. sent' \in [Callers -> Token]
  BY DEF Age, ChangeAccount, Revoke, vars, storeVars, serverVars, callVars, Base, TypeOK, Token
<1>5. TypeOK'
  BY <1>1, <1>2, <1>3, <1>4 DEF Base, TypeOK
<1> QED
  BY <1>1, <1>5 DEF Base, Shape

LEMMA BaseStep == Base /\ [Next]_vars => Base'
  BY BaseBegin, BaseEnsure, BaseAuth, BaseAuthFails, BaseScope, BaseSend, BaseAnswered, BaseLost,
     BaseNoSuchPath, BaseSurroundings DEF Next, CallerStep

\* The mutex is held by who authenticates and by nobody else, and every variable
\* keeps its type, whatever the server does to the account and its tokens.
THEOREM TypeCorrect == Spec => []TypeOK
<1>1. Base => TypeOK
  BY DEF Base
<1> QED
  BY <1>1, BaseInit, BaseStep, PTL DEF Spec

-----------------------------------------------------------------------------
(* Who does what to the rows.                                              *)

\* A caller's step is its own.
LEMMA OneCaller ==
    ASSUME Base, NEW c \in Callers, CallerStep(c), NEW d \in Callers, d # c
    PROVE  /\ pc'[d] = pc[d] /\ phase'[d] = phase[d] /\ seen'[d] = seen[d]
           /\ before'[d] = before[d] /\ doubtful'[d] = doubtful[d]
<1>1. /\ DOMAIN pc = Callers /\ DOMAIN phase = Callers /\ DOMAIN seen = Callers
      /\ DOMAIN before = Callers /\ DOMAIN doubtful = Callers
  BY DEF Base, TypeOK
<1>2. pc'[d] = pc[d]
  BY <1>1 DEF CallerStep, Goto, Begin, ensureToken, authWithPasswordLocked, authRefreshLocked,
              Authenticated, RefreshFails, AuthFails, requireAnyScope, Send, Unauthorized,
              ClearToken, Answered, Lost, Repeated, NoSuchPath
<1>3. phase'[d] = phase[d] /\ seen'[d] = seen[d]
  BY <1>1 DEF CallerStep, Begin, ensureToken, authWithPasswordLocked, authRefreshLocked,
              Authenticated, RefreshFails, AuthFails, requireAnyScope, Send, Unauthorized,
              ClearToken, Answered, Lost, Repeated, NoSuchPath
<1>4. before'[d] = before[d] /\ doubtful'[d] = doubtful[d]
  BY <1>1 DEF CallerStep, Begin, ensureToken, authWithPasswordLocked, authRefreshLocked,
              Authenticated, RefreshFails, AuthFails, requireAnyScope, Send, Unauthorized,
              ClearToken, Answered, Lost, Repeated, NoSuchPath
<1> QED
  BY <1>2, <1>3, <1>4

\* What is never undone: an operation's beginning, whom it came after, a doubt.
LEMMA Persists ==
    ASSUME Base, [Next]_vars, NEW c \in Callers
    PROVE  /\ kind'[c] = kind[c]
           /\ doubtful[c] => doubtful'[c]
           /\ Begun(c) => pc'[c] # "begin" /\ before'[c] = before[c]
<1>1. CASE Age \/ ChangeAccount \/ Revoke \/ UNCHANGED vars
  BY <1>1 DEF Age, ChangeAccount, Revoke, vars, callVars, Begun
<1>2. ASSUME NEW d \in Callers, CallerStep(d), d # c
      PROVE  /\ doubtful[c] => doubtful'[c]
             /\ Begun(c) => pc'[c] # "begin" /\ before'[c] = before[c]
  BY <1>2, OneCaller DEF Begun
<1>3. ASSUME CallerStep(c)
      PROVE  /\ doubtful[c] => doubtful'[c]
             /\ Begun(c) => pc'[c] # "begin" /\ before'[c] = before[c]
  <2>1. /\ pc \in [Callers -> Steps] /\ doubtful \in [Callers -> BOOLEAN]
    BY DEF Base, TypeOK, Steps
  <2>2. doubtful[c] => doubtful'[c]
    BY <1>3, <2>1 DEF CallerStep, Begin, ensureToken, authWithPasswordLocked, authRefreshLocked,
                Authenticated, RefreshFails, AuthFails, requireAnyScope, Send, Unauthorized,
                ClearToken, Answered, Lost, Repeated, NoSuchPath
  <2>3. Begun(c) => before'[c] = before[c]
    BY <1>3 DEF CallerStep, Begin, ensureToken, authWithPasswordLocked, authRefreshLocked,
                Authenticated, RefreshFails, AuthFails, requireAnyScope, Send, Unauthorized,
                ClearToken, Answered, Lost, Repeated, NoSuchPath, Begun
  <2>4. pc'[c] # "begin"
    BY <1>3, <2>1 DEF CallerStep, Goto, Begin, ensureToken, authWithPasswordLocked, authRefreshLocked,
                Authenticated, RefreshFails, AuthFails, requireAnyScope, Send, Unauthorized,
                ClearToken, Answered, Lost, Repeated, NoSuchPath, Ensured
  <2> QED
    BY <2>2, <2>3, <2>4
<1>4. kind' = kind
  BY DEF Next, vars, CallerStep, Begin, ensureToken, authWithPasswordLocked, authRefreshLocked,
         Authenticated, RefreshFails, AuthFails, requireAnyScope, Send, Unauthorized, ClearToken,
         Answered, Lost, Repeated, NoSuchPath, Age, ChangeAccount, Revoke, callVars
<1> QED
  BY <1>1, <1>2, <1>3, <1>4 DEF Next

\* Rows change when a call is carried out, in whatever way its answer goes.
LEMMA RowsBy ==
    ASSUME [Next]_vars, rows' # rows
    PROVE  \E c \in Callers : Carried(c) /\ (Answered(c) \/ Lost(c) \/ Repeated(c))
  BY DEF Next, vars, CallerStep, Begin, ensureToken, authWithPasswordLocked, authRefreshLocked,
         Authenticated, RefreshFails, AuthFails, requireAnyScope, Send, Unauthorized, ClearToken,
         Answered, Lost, Repeated, NoSuchPath, Age, ChangeAccount, Revoke, serverVars

-----------------------------------------------------------------------------
(* One row.                                                                *)

\* None of the three reasons for a second row.
NoReason ==
    /\ \A c \in Callers : kind[c] # "create"
    /\ \A c \in Upserts : ~doubtful[c]
    /\ \A c, d \in Upserts : ~Overlapped(c, d)

\* An upsert that is about to create knows that there is no row.
Single ==
    NoReason =>
      /\ Len(rows) <= 1
      /\ \A c \in Upserts : phase[c] = "write" /\ pc[c] \notin Ended /\ seen[c] = 0 => Len(rows) = 0

LEMMA ReasonsStay ==
    ASSUME Base, [Next]_vars, NoReason' PROVE NoReason
<1>1. \A c \in Callers : kind'[c] = kind[c] /\ (doubtful[c] => doubtful'[c])
  BY Persists
<1>2. ASSUME NEW c \in Upserts, NEW d \in Upserts, Overlapped(c, d) PROVE Overlapped(c, d)'
  <2>1. c \in Callers /\ d \in Callers /\ Begun(c) /\ Begun(d)
    BY <1>2 DEF Upserts, Overlapped
  <2>2. /\ pc'[c] # "begin" /\ before'[c] = before[c]
        /\ pc'[d] # "begin" /\ before'[d] = before[d]
    BY <2>1, Persists
  <2> QED
    BY <1>2, <2>2 DEF Overlapped, Begun
<1>3. \A c \in Upserts : c \in Callers /\ c \in Upserts'
  BY <1>1 DEF Upserts
<1> QED
  BY <1>1, <1>2, <1>3 DEF NoReason

\* Two upserts in the middle of their work overlap.
LEMMA BusyOverlap ==
    ASSUME Base, NEW c \in Upserts, NEW d \in Upserts, c # d, Begun(c), Begun(d),
           pc[c] \notin Ended, pc[d] \notin Ended
    PROVE  Overlapped(c, d)
  BY DEF Base, Shape, Overlapped, Upserts

\* An upsert comes to its write by reading, or by a 404.
LEMMA ToWrite ==
    ASSUME Base, NEW c \in Callers, CallerStep(c), kind[c] = "upsert", ~doubtful'[c],
           phase'[c] = "write", seen'[c] = 0, pc'[c] \notin Ended, rows' = rows
    PROVE  rows = <<>> \/ (phase[c] = "write" /\ seen[c] = 0 /\ pc[c] \notin Ended)
<1>1. /\ pc \in [Callers -> Steps] /\ phase \in [Callers -> {"check", "read", "write"}]
      /\ seen \in [Callers -> 0..Len(rows)] /\ doubtful \in [Callers -> BOOLEAN]
  BY DEF Base, TypeOK, Steps
<1>2. CASE Answered(c)
  <2>1. CASE phase[c] = "read"
    <3>1. PICK id \in IF rows = <<>> THEN {0} ELSE 1..Len(rows) : seen' = [seen EXCEPT ![c] = id]
      BY <1>2, <2>1 DEF Answered
    <3> QED
      BY <1>1, <3>1
  <2>2. CASE phase[c] # "read"
    BY <1>1, <1>2, <2>2 DEF Answered, Goto, Ended
  <2> QED
    BY <2>1, <2>2
<1>3. CASE NoSuchPath(c)
  BY <1>1, <1>3 DEF NoSuchPath
<1>4. CASE requireAnyScope(c)
  BY <1>1, <1>4 DEF requireAnyScope, Ended
<1>5. CASE ~(Answered(c) \/ NoSuchPath(c) \/ requireAnyScope(c))
  BY <1>5 DEF CallerStep, Begin, ensureToken, authWithPasswordLocked, authRefreshLocked,
              Authenticated, RefreshFails, AuthFails, Send, Unauthorized, ClearToken, Lost,
              Repeated, Ended
<1> QED
  BY <1>2, <1>3, <1>4, <1>5

LEMMA SingleInit == Init => Single
<1> SUFFICES ASSUME Init PROVE Single
  OBVIOUS
<1>1. Len(rows) = 0
  BY DEF Init
<1> QED
  BY <1>1 DEF Single

LEMMA SingleRest ==
    ASSUME Base, Single, [Next]_vars, NoReason, NoReason', rows' = rows PROVE Single'
<1> SUFFICES ASSUME NEW c \in Upserts', phase'[c] = "write", pc'[c] \notin Ended, seen'[c] = 0
             PROVE  Len(rows) = 0
  BY DEF Single
<1>1. c \in Callers /\ kind[c] = "upsert" /\ c \in Upserts
  BY Persists DEF Upserts
<1>2. ~doubtful'[c]
  BY DEF NoReason
<1>3. CASE phase[c] = "write" /\ seen[c] = 0 /\ pc[c] \notin Ended
  BY <1>1, <1>3 DEF Single
<1>4. CASE ~(phase[c] = "write" /\ seen[c] = 0 /\ pc[c] \notin Ended)
  <2>1. CallerStep(c)
    <3>1. \/ UNCHANGED <<phase, seen, pc>>
          \/ \E d \in Callers : CallerStep(d)
      BY DEF Next, vars, callVars, Age, ChangeAccount, Revoke
    <3> QED
      BY <1>1, <1>4, <3>1, OneCaller
  <2>2. rows = <<>>
    BY <1>1, <1>2, <1>4, <2>1, ToWrite
  <2> QED
    BY <2>2
<1> QED
  BY <1>3, <1>4

LEMMA SingleWrite ==
    ASSUME Base, Single, [Next]_vars, NoReason, NoReason', rows' # rows PROVE Single'
<1>1. PICK d \in Callers : Carried(d) /\ (Answered(d) \/ Lost(d) \/ Repeated(d))
  BY RowsBy
<1>2. pc[d] = "flight" /\ phase[d] = "write" /\ CallerStep(d)
  BY <1>1, CarriedRows DEF Carried, Base, TypeOK, Shape, CallerStep
<1>3. kind[d] = "upsert" /\ d \in Upserts /\ pc[d] \notin Ended /\ Begun(d)
  BY <1>2 DEF NoReason, Base, TypeOK, Shape, Kinds, Upserts, Ended, Begun
<1>4. Len(rows') <= 1 /\ (seen[d] # 0 \/ Len(rows) = 0)
  BY <1>1, <1>2, <1>3, CarriedRows DEF Single
<1>5. pc'[d] \in Ended \/ seen'[d] # 0
  <2>1. seen' = seen /\ pc \in [Callers -> Steps] /\ doubtful \in [Callers -> BOOLEAN]
    BY <1>1, <1>2 DEF Answered, Lost, Repeated, Base, TypeOK, Steps
  <2>2. CASE Repeated(d)
    <3>1. doubtful'[d]
      BY <2>1, <2>2 DEF Repeated
    <3>2. d \in Upserts'
      BY <1>2, <1>3, Persists DEF Upserts
    <3> QED
      BY <3>1, <3>2 DEF NoReason
  <2>3. CASE Answered(d)
    BY <1>2, <1>3, <2>1, <2>3 DEF Answered, Goto, Ended
  <2>4. CASE Lost(d)
    BY <2>1, <2>4 DEF Lost, Goto, Ended
  <2> QED
    BY <1>1, <2>2, <2>3, <2>4
<1>6. ASSUME NEW c \in Upserts', phase'[c] = "write", pc'[c] \notin Ended, c # d PROVE FALSE
  <2>1. c \in Upserts /\ c \in Callers
    BY Persists DEF Upserts
  <2>2. phase[c] = "write" /\ pc[c] \notin Ended
    BY <1>2, <1>6, <2>1, OneCaller
  <2>3. Begun(c)
    BY <2>1, <2>2 DEF Base, Shape, Begun
  <2>4. Overlapped(c, d)
    BY <1>3, <1>6, <2>1, <2>2, <2>3, BusyOverlap
  <2> QED
    BY <1>3, <2>1, <2>4 DEF NoReason
<1> QED
  BY <1>4, <1>5, <1>6 DEF Single

LEMMA SingleStep == Base /\ Single /\ [Next]_vars => Single'
<1> SUFFICES ASSUME Base, Single, [Next]_vars, NoReason' PROVE Single'
  BY DEF Single
<1>1. NoReason
  BY ReasonsStay
<1> QED
  BY <1>1, SingleRest, SingleWrite

\* A tenant that is only upserted has one row, for any number of upserts, unless
\* two overlapped or an answer misled one of them (UpsertModelPolicy,
\* UpsertCognitivePolicy, UpsertQuota).
THEOREM OneRow == Spec => []OneRowEach
<1>1. Base /\ Single => OneRowEach
  <2> SUFFICES ASSUME Base, Single, ~OneRowEach PROVE FALSE
    OBVIOUS
  <2>1. Len(rows) > 1 /\ NoReason
    BY DEF OneRowEach, NoReason
  <2>2. Len(rows) \in Nat
    BY DEF Base, TypeOK
  <2> QED
    BY <2>1, <2>2 DEF Single
<1>2. Init => Base /\ Single
  BY BaseInit, SingleInit
<1>3. Base /\ Single /\ [Next]_vars => (Base /\ Single)'
  BY BaseStep, SingleStep
<1> QED
  BY <1>1, <1>2, <1>3, PTL DEF Spec

-----------------------------------------------------------------------------
(* What was acknowledged.                                                  *)

\* An upsert is acknowledged by the answer to its write.
LEMMA OkBy ==
    ASSUME Base, [Next]_vars, NEW u \in Upserts, pc[u] # "ok", pc'[u] = "ok"
    PROVE  Answered(u) /\ phase[u] = "write"
<1>1. u \in Callers /\ kind[u] = "upsert" /\ pc \in [Callers -> Steps]
  BY DEF Upserts, Base, TypeOK, Steps
<1>2. CallerStep(u)
  <2>1. \/ UNCHANGED pc
        \/ \E d \in Callers : CallerStep(d)
    BY DEF Next, vars, callVars, Age, ChangeAccount, Revoke
  <2> QED
    BY <1>1, <2>1, OneCaller
<1>3. Answered(u)
  BY <1>1, <1>2 DEF CallerStep, Goto, Begin, ensureToken, authWithPasswordLocked, authRefreshLocked,
              Authenticated, RefreshFails, AuthFails, requireAnyScope, Send, Unauthorized,
              ClearToken, Lost, Repeated, NoSuchPath, Ensured
<1>4. pc[u] = "flight" /\ phase[u] \in {"read", "write"}
  BY <1>1, <1>3 DEF Answered, Carried, Base, TypeOK, Shape
<1>5. phase[u] # "read"
  BY <1>1, <1>3 DEF Answered, Goto
<1> QED
  BY <1>3, <1>4, <1>5

\* The one row after a write is the writer's.
LEMMA LastWritten ==
    ASSUME Base, NEW c \in Callers, Carried(c), phase[c] = "write", Len(rows') <= 1
    PROVE  rows' # <<>> /\ rows'[1] = c
<1>1. rows \in Seq(Callers) /\ Len(rows) \in Nat
  BY DEF Base, TypeOK
<1>2. CASE /\ seen[c] \in 1..Len(rows) /\ rows' = [rows EXCEPT ![seen[c]] = c]
           /\ Len(rows') = Len(rows)
  <2>1. seen[c] = 1 /\ Len(rows) = 1
    BY <1>1, <1>2
  <2>2. rows' = [rows EXCEPT ![1] = c] /\ 1 \in DOMAIN rows
    BY <1>1, <1>2, <2>1
  <2>3. rows'[1] = c
    BY <2>2
  <2>4. Len(rows') = 1
    BY <1>2, <2>1
  <2>5. rows' # <<>>
    BY <2>4
  <2> QED
    BY <2>3, <2>5
<1>3. CASE rows' = Append(rows, c) /\ Len(rows') = Len(rows) + 1
  <2>1. Len(rows) = 0 /\ rows' # <<>>
    BY <1>1, <1>3
  <2>2. rows'[Len(rows) + 1] = c
    BY <1>1, <1>3, AppendProperties
  <2> QED
    BY <2>1, <2>2
<1> QED
  BY <1>2, <1>3, CarriedRows

LEMMA AcknowledgedInit == Init => AcknowledgedStays
  BY DEF Init, AcknowledgedStays, Upserts

LEMMA AcknowledgedStep == Base /\ AcknowledgedStays /\ [Next]_vars => AcknowledgedStays'
<1> SUFFICES ASSUME Base, AcknowledgedStays, [Next]_vars,
                    NEW u \in Upserts', pc'[u] = "ok", Len(rows') <= 1
             PROVE  rows' # <<>> /\ rows'[1] \notin before'[u]
  BY DEF AcknowledgedStays
<1>1. u \in Callers /\ u \in Upserts
  BY Persists DEF Upserts
<1>2. rows \in Seq(Callers) /\ Len(rows) \in Nat
  BY DEF Base, TypeOK
<1>3. CASE pc[u] # "ok"
  <2>1. Answered(u) /\ Carried(u) /\ phase[u] = "write"
    BY <1>1, <1>3, OkBy DEF Answered
  <2>2. rows' # <<>> /\ rows'[1] = u
    BY <1>1, <2>1, LastWritten
  <2>3. u \notin before'[u]
    BY <1>1, BaseStep DEF Base, Shape
  <2> QED
    BY <2>2, <2>3
<1>4. CASE pc[u] = "ok" /\ rows' = rows
  <2>1. before'[u] = before[u]
    BY <1>1, <1>4, Persists DEF Begun
  <2> QED
    BY <1>1, <1>4, <2>1 DEF AcknowledgedStays
<1>5. CASE pc[u] = "ok" /\ rows' # rows
  <2>1. PICK d \in Callers : Carried(d) /\ (Answered(d) \/ Lost(d) \/ Repeated(d))
    BY <1>5, RowsBy
  <2>2. pc[d] = "flight" /\ phase[d] = "write"
    BY <1>5, <2>1, CarriedRows DEF Carried, Base, TypeOK, Shape
  <2>3. rows' # <<>> /\ rows'[1] = d
    BY <2>1, <2>2, LastWritten
  <2>4. d \notin before[u] /\ before'[u] = before[u]
    BY <1>1, <1>5, <2>2, Persists DEF Base, Shape, Ended, Begun
  <2> QED
    BY <2>3, <2>4
<1> QED
  BY <1>3, <1>4, <1>5

\* An acknowledged upsert is not undone: for any number of callers, however
\* their calls were repeated, the one row of its tenant is never missing again
\* and never goes back to what was written before it (do, doOnce, Upsert...).
THEOREM WritesStay == Spec => []AcknowledgedStays
<1>1. Init => Base /\ AcknowledgedStays
  BY BaseInit, AcknowledgedInit
<1>2. Base /\ AcknowledgedStays /\ [Next]_vars => (Base /\ AcknowledgedStays)'
  BY BaseStep, AcknowledgedStep
<1> QED
  BY <1>1, <1>2, PTL DEF Spec

=============================================================================
