--------------------------- MODULE RateLimitProofs ---------------------------
(***************************************************************************)
(* The token bucket's bound for every rate, every set of keys, any number  *)
(* of restarts and any passage of time.                                    *)
(***************************************************************************)
EXTENDS RateLimit, TLAPS

\* Times lie in the past and no bucket is over-full.
Sane ==
    /\ start <= now
    /\ \A k \in Key : last[k] <= now /\ granted[k] <= now /\ tokens[k] <= Full

\* What was admitted and what is still in the bucket, together, are what the
\* window began with and what has flowed in.
Conserved(k) == Token * grants[k] + Level(k) <= Full * (boots + 1) + Rpm * (now - start)

\* A bucket has filled up since its key was last admitted, or is full.
Patient(k) == Rpm * (now - granted[k]) <= Level(k) \/ Level(k) = Full

IInv == TypeOK /\ Sane /\ \A k \in Key : Conserved(k) /\ Patient(k)

LEMMA Constants ==
    /\ Rpm \in Nat /\ Rpm >= 1
    /\ Burst \in Nat /\ Burst >= 1
    /\ Full \in Nat /\ Full >= Token
    /\ Token = 60
<1>1. Rpm \in Nat /\ Rpm >= 1
  BY RateAssumption DEF Rpm
<1>2. Half(RateLimitRPM) \in Int /\ Half(Rpm) \in Int
  BY <1>1, RateAssumption DEF Half
<1>3. Burst \in Nat /\ Burst >= 1
  BY <1>2 DEF Burst
<1> QED
  BY <1>1, <1>3 DEF Full, Token

\* The products of the model are naturals and distribute over time.
LEMMA Flow ==
    ASSUME NEW x \in Nat, NEW y \in Nat, NEW r \in Nat
    PROVE  /\ x * r \in Nat
           /\ (x + y) * r = x * r + y * r
           /\ r * (x + y) = x * r + y * r
  OBVIOUS

LEMMA LevelType ==
    ASSUME TypeOK, Sane, NEW k \in Key
    PROVE  /\ Refilled(k) \in Nat /\ Refilled(k) <= Full
           /\ Level(k) \in Nat /\ Level(k) <= Full
<1>1. now - last[k] \in Nat /\ tokens[k] \in Nat
  BY DEF TypeOK, Sane
<1>2. (now - last[k]) * Rpm \in Nat
  BY <1>1, Constants, Flow
<1> QED
  BY <1>1, <1>2, Constants DEF Refilled, Level

\* The same, before and after a step.
LEMMA LevelNow ==
    (TypeOK /\ Sane) => \A k \in Key : Level(k) \in Nat /\ Level(k) <= Full
  BY LevelType

LEMMA LevelNext ==
    (TypeOK /\ Sane)' => (\A k \in Key : Level(k) \in Nat /\ Level(k) <= Full)'
  BY LevelNow, PTL

\* The bucket's ceiling and rate are constants.
LEMMA Fixed == Full' = Full /\ Rpm' = Rpm
  BY DEF Full, Token, Burst, Half, Rpm

-----------------------------------------------------------------------------
LEMMA InitIInv == Init => IInv
<1> SUFFICES ASSUME Init PROVE IInv
  OBVIOUS
<1>1. TypeOK
  BY DEF Init, TypeOK, NoQuota
<1>2. Sane
  BY Constants DEF Init, Sane
<1>3. \A k \in Key : Level(k) = Full
  BY DEF Init, Level
<1>4. ASSUME NEW k \in Key PROVE Conserved(k) /\ Patient(k)
  <2>1. Level(k) = Full /\ grants[k] = 0 /\ boots = 0 /\ now - start = 0
    BY <1>3 DEF Init
  <2>2. Full * (0 + 1) = Full /\ Rpm * 0 = 0 /\ Token * 0 = 0
    BY Constants
  <2> QED
    BY <2>1, <2>2, Constants DEF Conserved, Patient
<1> QED
  BY <1>1, <1>2, <1>4 DEF IInv

LEMMA QuotaType ==
    ASSUME NEW rpm \in QuotaRPM, NEW burst \in QuotaBurst,
           UpsertQuota(rpm, burst)
    PROVE  quota' \in [rpm : Int, burst : Int]
<1> DEFINE limit == IF rpm <= 0 THEN RateLimitRPM ELSE rpm
<1>1. rpm \in Int /\ burst \in Int
  BY BoundsAssumption
<1>2. limit \in Int
  BY <1>1, RateAssumption
<1>3. Half(limit) \in Int
  BY <1>2 DEF Half
<1>4. (IF burst <= 0 THEN Half(limit) ELSE burst) \in Int
  BY <1>1, <1>3
<1>5. quota' = [rpm |-> limit, burst |-> IF burst <= 0 THEN Half(limit) ELSE burst]
  BY DEF UpsertQuota
<1> QED
  BY <1>2, <1>4, <1>5

LEMMA TypeStep == TypeOK /\ Sane /\ [Next]_vars => (TypeOK /\ Sane)'
<1> SUFFICES ASSUME TypeOK, Sane, [Next]_vars PROVE (TypeOK /\ Sane)'
  OBVIOUS
<1> USE DEF limiterVars, windowVars
<1>1. CASE UNCHANGED vars
  BY <1>1 DEF vars, TypeOK, Sane, Full, Burst
<1>2. ASSUME NEW k \in Key, AllowFirst(k) PROVE (TypeOK /\ Sane)'
  <2>1. Full - Token \in Nat
    BY Constants
  <2>2. TypeOK'
    BY <1>2, <2>1 DEF AllowFirst, Admit, TypeOK
  <2>3. Sane'
    BY <1>2, <2>1, Constants DEF AllowFirst, Admit, TypeOK, Sane
  <2> QED
    BY <2>2, <2>3
<1>3. ASSUME NEW k \in Key, Allow(k) PROVE (TypeOK /\ Sane)'
  <2>1. Refilled(k) \in Nat /\ Refilled(k) <= Full
    BY LevelType
  <2>2. CASE Refilled(k) < Token
    BY <1>3, <2>1, <2>2 DEF Allow, TypeOK, Sane
  <2>3. CASE ~(Refilled(k) < Token)
    <3>1. Refilled(k) - Token \in Nat /\ Refilled(k) - Token <= Full
      BY <2>1, <2>3, Constants
    <3>2. tokens' = [tokens EXCEPT ![k] = Refilled(k) - Token] /\ Admit(k)
      BY <1>3, <2>3 DEF Allow
    <3>3. TypeOK'
      BY <1>3, <3>1, <3>2 DEF Allow, Admit, TypeOK
    <3>4. Sane'
      BY <1>3, <3>1, <3>2 DEF Allow, Admit, TypeOK, Sane
    <3> QED
      BY <3>3, <3>4
  <2> QED
    BY <2>2, <2>3
<1>4. ASSUME NEW rpm \in QuotaRPM, NEW burst \in QuotaBurst, UpsertQuota(rpm, burst)
      PROVE  (TypeOK /\ Sane)'
  BY <1>4, QuotaType DEF UpsertQuota, TypeOK, Sane
<1>5. CASE Restart
  BY <1>5, Constants DEF Restart, TypeOK, Sane
<1>6. ASSUME NEW d \in Delay, Tick(d) PROVE (TypeOK /\ Sane)'
  <2>1. d \in Nat
    BY BoundsAssumption
  <2> QED
    BY <1>6, <2>1 DEF Tick, TypeOK, Sane
<1>7. CASE OpenWindow
  BY <1>7 DEF OpenWindow, TypeOK, Sane
<1> QED
  BY <1>1, <1>2, <1>3, <1>4, <1>5, <1>6, <1>7 DEF Next

-----------------------------------------------------------------------------
\* A key whose bucket and window are untouched keeps both facts.
LEMMA Untouched ==
    ASSUME NEW k \in Key, now' = now, Level(k)' = Level(k), grants'[k] = grants[k],
           boots' = boots, start' = start, granted'[k] = granted[k],
           Conserved(k), Patient(k)
    PROVE  Conserved(k)' /\ Patient(k)'
  BY DEF Conserved, Patient

LEMMA FlowStep ==
    TypeOK /\ Sane /\ (\A k \in Key : Conserved(k) /\ Patient(k)) /\ [Next]_vars
        => \A k \in Key : Conserved(k)' /\ Patient(k)'
<1> SUFFICES ASSUME TypeOK, Sane, \A k \in Key : Conserved(k) /\ Patient(k), [Next]_vars,
                    NEW k \in Key
             PROVE  Conserved(k)' /\ Patient(k)'
  OBVIOUS
<1> USE DEF limiterVars, windowVars
<1>a. Level(k) \in Nat /\ Level(k) <= Full /\ Level(k)' \in Nat /\ Level(k)' <= Full
  <2>1. (TypeOK /\ Sane)'
    BY TypeStep
  <2>2. (\A j \in Key : Level(j) \in Nat /\ Level(j) <= Full)'
    BY <2>1, LevelNext
  <2> QED
    BY <2>2, LevelNow, Fixed
<1>b. Conserved(k) /\ Patient(k)
  OBVIOUS
<1>1. CASE UNCHANGED vars
  BY <1>1, <1>b, Untouched DEF vars, Level, Refilled
<1>2. ASSUME NEW j \in Key, AllowFirst(j) \/ Allow(j), j # k PROVE Conserved(k)' /\ Patient(k)'
  <2>1. /\ now' = now /\ tokens'[k] = tokens[k] /\ last'[k] = last[k]
        /\ (k \in known') = (k \in known)
        /\ grants'[k] = grants[k] /\ granted'[k] = granted[k]
        /\ boots' = boots /\ start' = start
    BY <1>2 DEF AllowFirst, Allow, Admit, TypeOK
  <2>2. Level(k)' = Level(k)
    BY <2>1 DEF Level, Refilled
  <2> QED
    BY <2>1, <2>2, <1>b, Untouched
<1>3. CASE AllowFirst(k)
  <2>1. /\ now' = now /\ tokens'[k] = Full - Token /\ last'[k] = now /\ k \in known'
        /\ grants'[k] = grants[k] + 1 /\ granted'[k] = now
        /\ boots' = boots /\ start' = start
    BY <1>3 DEF AllowFirst, Admit, TypeOK
  <2>2. Level(k) = Full
    BY <1>3 DEF AllowFirst, Level
  <2>3. Level(k)' = Full - Token
    BY <2>1, Constants DEF Level, Refilled, TypeOK
  <2>4. Rpm * (now - start) \in Nat /\ Full * (boots + 1) \in Nat /\ grants[k] \in Nat
    BY Constants, Flow DEF TypeOK, Sane
  <2>5. Conserved(k)'
    BY <2>1, <2>2, <2>3, <2>4, <1>b, Constants DEF Conserved
  <2>6. Patient(k)'
    BY <2>1, <2>3, Constants DEF Patient, TypeOK
  <2> QED
    BY <2>5, <2>6
<1>4. CASE Allow(k)
  <2>1. now' = now /\ last'[k] = now /\ k \in known' /\ k \in known
    BY <1>4 DEF Allow, TypeOK
  <2>2. Level(k) = Refilled(k) /\ Refilled(k) \in Nat /\ Refilled(k) <= Full
    BY <2>1, LevelType DEF Level
  <2>3. tokens'[k] \in Nat /\ tokens'[k] <= Full => Level(k)' = tokens'[k]
    BY <2>1, Constants DEF Level, Refilled, TypeOK
  <2>4. CASE Refilled(k) < Token
    <3>1. tokens'[k] = Refilled(k) /\ UNCHANGED windowVars
      BY <1>4, <2>4 DEF Allow, TypeOK
    <3> QED
      BY <2>1, <2>2, <2>3, <3>1, <1>b, Untouched
  <2>5. CASE ~(Refilled(k) < Token)
    <3>1. /\ tokens'[k] = Refilled(k) - Token
          /\ grants'[k] = grants[k] + 1 /\ granted'[k] = now
          /\ boots' = boots /\ start' = start
      BY <1>4, <2>5 DEF Allow, Admit, TypeOK
    <3>2. Level(k)' = Level(k) - Token
      BY <2>2, <2>3, <2>5, <3>1, Constants
    <3>3. Rpm * (now - start) \in Nat /\ Full * (boots + 1) \in Nat /\ grants[k] \in Nat
      BY Constants, Flow DEF TypeOK, Sane
    <3>4. Conserved(k)'
      BY <2>1, <3>1, <3>2, <3>3, <1>a, <1>b, Constants DEF Conserved
    <3>5. Patient(k)'
      BY <2>1, <3>1, <1>a, Constants DEF Patient, TypeOK
    <3> QED
      BY <3>4, <3>5
  <2> QED
    BY <2>4, <2>5
<1>5. ASSUME NEW rpm \in QuotaRPM, NEW burst \in QuotaBurst, UpsertQuota(rpm, burst)
      PROVE  Conserved(k)' /\ Patient(k)'
  BY <1>5, <1>b, Untouched DEF UpsertQuota, Level, Refilled
<1>6. CASE Restart
  <2>1. /\ now' = now /\ start' = start /\ grants' = grants /\ granted' = granted
        /\ boots' = boots + 1 /\ Level(k)' = Full
    BY <1>6 DEF Restart, Level, Full, Token, Burst, Half, Rpm
  <2>2. boots + 1 \in Nat /\ Full * (boots' + 1) = Full * (boots + 1) + Full
    BY <2>1, Constants, Flow DEF TypeOK
  <2>3. Rpm * (now - start) \in Nat /\ Full * (boots + 1) \in Nat /\ grants[k] \in Nat
    BY Constants, Flow DEF TypeOK, Sane
  <2> QED
    BY <2>1, <2>2, <2>3, <1>a, <1>b, Constants DEF Conserved, Patient
<1>7. ASSUME NEW d \in Delay, Tick(d) PROVE Conserved(k)' /\ Patient(k)'
  <2> DEFINE inflow == Rpm * d
  <2>1. d \in Nat /\ inflow \in Nat
    BY BoundsAssumption, Constants, Flow
  <2>2. /\ now' = now + d /\ UNCHANGED <<limiterVars, windowVars>>
    BY <1>7 DEF Tick
  <2>3. /\ Rpm * (now' - start) = Rpm * (now - start) + inflow
        /\ Rpm * (now' - granted[k]) = Rpm * (now - granted[k]) + inflow
        /\ (now' - last[k]) * Rpm = (now - last[k]) * Rpm + inflow
    <3>1. now - start \in Nat /\ now - granted[k] \in Nat /\ now - last[k] \in Nat
      BY DEF TypeOK, Sane
    <3>2. /\ now' - start = (now - start) + d
          /\ now' - granted[k] = (now - granted[k]) + d
          /\ now' - last[k] = (now - last[k]) + d
      BY <2>1, <2>2 DEF TypeOK
    <3> QED
      BY <2>1, <3>1, <3>2, Constants, Flow
  <2>4. \/ Level(k)' = Full
        \/ Level(k)' = Level(k) + inflow
    <3>1. (now - last[k]) * Rpm \in Nat /\ tokens[k] \in Nat
      BY Constants, Flow DEF TypeOK, Sane
    <3>2. Refilled(k)' = IF tokens[k] + (now - last[k]) * Rpm + inflow > Full THEN Full
                         ELSE tokens[k] + (now - last[k]) * Rpm + inflow
      <4>1. /\ tokens'[k] = tokens[k] /\ last'[k] = last[k]
            /\ (now' - last[k]) * Rpm = (now - last[k]) * Rpm + inflow
        BY <2>2, <2>3
      <4> HIDE DEF inflow
      <4>2. tokens[k] + ((now - last[k]) * Rpm + inflow)
              = tokens[k] + (now - last[k]) * Rpm + inflow
        BY <2>1, <3>1
      <4> QED
        BY <4>1, <4>2, Fixed DEF Refilled
    <3> QED
      BY <2>1, <2>2, <3>1, <3>2, Constants DEF Level, Refilled
  <2>5. Level(k)' <= Level(k) + inflow
    <3>1. (now - last[k]) * Rpm \in Nat /\ tokens[k] \in Nat
      BY Constants, Flow DEF TypeOK, Sane
    <3>2. Refilled(k)' = IF tokens[k] + (now - last[k]) * Rpm + inflow > Full THEN Full
                         ELSE tokens[k] + (now - last[k]) * Rpm + inflow
      <4>1. /\ tokens'[k] = tokens[k] /\ last'[k] = last[k]
            /\ (now' - last[k]) * Rpm = (now - last[k]) * Rpm + inflow
        BY <2>2, <2>3
      <4> HIDE DEF inflow
      <4>2. tokens[k] + ((now - last[k]) * Rpm + inflow)
              = tokens[k] + (now - last[k]) * Rpm + inflow
        BY <2>1, <3>1
      <4> QED
        BY <4>1, <4>2, Fixed DEF Refilled
    <3> QED
      BY <2>1, <2>2, <3>1, <3>2, Constants DEF Level, Refilled
  <2>6. /\ Rpm * (now - start) \in Nat /\ Rpm * (now - granted[k]) \in Nat
        /\ Full * (boots + 1) \in Nat /\ grants[k] \in Nat
    BY Constants, Flow DEF TypeOK, Sane
  <2> HIDE DEF inflow
  <2>7. Conserved(k)'
    BY <2>1, <2>2, <2>3, <2>5, <2>6, <1>a, <1>b, Constants DEF Conserved
  <2>8. Patient(k)'
    BY <2>1, <2>2, <2>3, <2>4, <2>6, <1>a, <1>b, Constants DEF Patient
  <2> QED
    BY <2>7, <2>8
<1>8. CASE OpenWindow
  <2>1. /\ now' = now /\ start' = now /\ grants'[k] = 0 /\ boots' = 0
        /\ granted' = granted /\ Level(k)' = Level(k)
    BY <1>8 DEF OpenWindow, Level, Refilled
  <2>2. now - now = 0 /\ Rpm * 0 = 0 /\ Full * (0 + 1) = Full
    BY Constants DEF TypeOK
  <2>3. Conserved(k)'
    BY <2>1, <2>2, <1>a, Constants DEF Conserved
  <2>4. Patient(k)'
    BY <2>1, <1>b DEF Patient
  <2> QED
    BY <2>3, <2>4
<1> QED
  BY <1>1, <1>2, <1>3, <1>4, <1>5, <1>6, <1>7, <1>8 DEF Next

-----------------------------------------------------------------------------
(* The theorems.                                                           *)

THEOREM Inductive == Spec => []IInv
<1>1. Init => IInv
  BY InitIInv
<1>2. IInv /\ [Next]_vars => IInv'
  BY TypeStep, FlowStep DEF IInv
<1> QED
  BY <1>1, <1>2, PTL DEF Spec

\* Every variable of the limiter keeps its type: no bucket goes below zero, and
\* no clock backwards (ratelimit.go).
THEOREM TypeCorrect == Spec => []TypeOK
<1>1. IInv => TypeOK
  BY DEF IInv
<1> QED
  BY <1>1, Inductive, PTL

\* No window of any length admits more than the rate and the bursts allow.
THEOREM RateKept == Spec => [](TypeOK /\ WindowBound)
<1>1. IInv => TypeOK /\ WindowBound
  <2> SUFFICES ASSUME IInv, NEW k \in Key
               PROVE  Token * grants[k] <= Full * (boots + 1) + Rpm * (now - start)
    BY DEF IInv, WindowBound
  <2>1. Level(k) \in Nat
    BY LevelType DEF IInv
  <2>2. /\ Rpm * (now - start) \in Nat /\ Full * (boots + 1) \in Nat
        /\ Token * grants[k] \in Nat
    BY Constants, Flow DEF IInv, TypeOK, Sane
  <2> QED
    BY <2>1, <2>2, Constants DEF IInv, Conserved
<1> QED
  BY <1>1, Inductive, PTL

\* A key is never kept out longer than the time of one token.
THEOREM NoStarvation == Spec => []RefusalsAreFree
<1>1. IInv => RefusalsAreFree
  <2> SUFFICES ASSUME IInv, NEW k \in Key, Rpm * (now - granted[k]) >= Token
               PROVE  Level(k) >= Token
    BY DEF RefusalsAreFree
  <2>1. Level(k) \in Nat
    BY LevelType DEF IInv
  <2>2. Rpm * (now - granted[k]) \in Nat
    BY Constants, Flow DEF IInv, TypeOK, Sane
  <2> QED
    BY <2>1, <2>2, Constants DEF IInv, Patient
<1> QED
  BY <1>1, Inductive, PTL

=============================================================================
