------------------------------ MODULE RateLimit ------------------------------
(***************************************************************************)
(* Admission of chat requests: the token buckets of                        *)
(* internal/ratelimit/ratelimit.go, one per API key, as NewServer sets     *)
(* them up and chatCompletions asks them, and the quota of the keys'       *)
(* tenant that the admin endpoint stores.                                  *)
(*                                                                         *)
(* Allow runs under one mutex, so a call is one step.  Time is in seconds  *)
(* and a token is 60 units, which makes the refill of a second Rpm units   *)
(* and keeps every level an integer (the code's float64 rounding is left   *)
(* out).  now - start and grants describe a window of observation opened   *)
(* at any moment; they are not the program's.                              *)
(***************************************************************************)
EXTENDS Integers

CONSTANTS
    Key,           \* API keys, all of one tenant
    RateLimitRPM,  \* GLM_RATE_LIMIT_RPM
    QuotaRPM,      \* rpm_limit values sent to the quotas endpoint
    QuotaBurst,    \* burst values sent with them
    Delay,         \* how many seconds may pass at once
    MaxTime,       \* bound on the clock
    MaxBoots       \* bound on restarts within a window

ASSUME RateAssumption == RateLimitRPM \in Int
ASSUME BoundsAssumption ==
    /\ QuotaRPM \subseteq Int
    /\ QuotaBurst \subseteq Int
    /\ Delay \subseteq Nat
    /\ MaxTime \in Nat
    /\ MaxBoots \in Nat

\* New(rpm, rpm / 2): a rate of nothing becomes 60, a burst of nothing half
\* the rate, and at least 1.
Half(n) == IF n >= 0 THEN n \div 2 ELSE 0 - ((0 - n) \div 2)
Rpm == IF RateLimitRPM <= 0 THEN 60 ELSE RateLimitRPM
Burst == IF Half(RateLimitRPM) > 0 THEN Half(RateLimitRPM)
         ELSE IF Half(Rpm) >= 1 THEN Half(Rpm) ELSE 1
Token == 60
Full == Token * Burst

VARIABLES
    now,       \* the clock
    known,     \* the keys that have a bucket
    tokens,    \* bucket.tokens
    last,      \* bucket.lastRefill
    quota,     \* the tenant's row in quotas: [rpm, burst], or none
    start,     \* when the window was opened
    grants,    \* calls admitted in the window, by key
    boots,     \* restarts in the window
    granted    \* when each key was last admitted (or when it was first seen)

limiterVars == <<known, tokens, last>>
windowVars == <<start, grants, boots, granted>>
vars == <<now, limiterVars, quota, windowVars>>

NoQuota == [rpm |-> 0, burst |-> 0]

TypeOK ==
    /\ now \in Nat
    /\ known \in SUBSET Key
    /\ tokens \in [Key -> Nat]
    /\ last \in [Key -> Nat]
    /\ quota \in [rpm : Int, burst : Int]
    /\ start \in Nat
    /\ grants \in [Key -> Nat]
    /\ boots \in Nat
    /\ granted \in [Key -> Nat]

Init ==
    /\ now = 0
    /\ known = {}
    /\ tokens = [k \in Key |-> 0]
    /\ last = [k \in Key |-> 0]
    /\ quota = NoQuota
    /\ start = 0
    /\ grants = [k \in Key |-> 0]
    /\ boots = 0
    /\ granted = [k \in Key |-> 0]

-----------------------------------------------------------------------------
\* Mutant of Refilled: the bucket has no ceiling.
RefilledUncapped(k) == tokens[k] + (now - last[k]) * Rpm

\* The bucket after the refill of a call made now.
Refilled(k) ==
    LET refill == tokens[k] + (now - last[k]) * Rpm IN
    IF refill > Full THEN Full ELSE refill

Admit(k) ==
    /\ grants' = [grants EXCEPT ![k] = @ + 1]
    /\ granted' = [granted EXCEPT ![k] = now]
    /\ UNCHANGED <<start, boots>>

\* The key's first call: a full bucket, less the token it takes.
AllowFirst(k) ==
    /\ k \notin known
    /\ known' = known \cup {k}
    /\ tokens' = [tokens EXCEPT ![k] = Full - Token]
    /\ last' = [last EXCEPT ![k] = now]
    /\ Admit(k)
    /\ UNCHANGED <<now, quota>>

\* Mutant of Allow: a refused call keeps the new time and drops the refill.
AllowForgetful(k) ==
    /\ k \in known
    /\ last' = [last EXCEPT ![k] = now]
    /\ IF Refilled(k) < Token
       THEN UNCHANGED <<tokens, windowVars>>
       ELSE tokens' = [tokens EXCEPT ![k] = Refilled(k) - Token] /\ Admit(k)
    /\ UNCHANGED <<now, known, quota>>

\* Mutant of Allow: a call is admitted while anything is left.
AllowEager(k) ==
    /\ k \in known
    /\ last' = [last EXCEPT ![k] = now]
    /\ IF Refilled(k) = 0
       THEN tokens' = [tokens EXCEPT ![k] = 0] /\ UNCHANGED windowVars
       ELSE tokens' = [tokens EXCEPT ![k] = Refilled(k) - Token] /\ Admit(k)
    /\ UNCHANGED <<now, known, quota>>

\* Later calls: refill, then take a token or refuse.
Allow(k) ==
    /\ k \in known
    /\ last' = [last EXCEPT ![k] = now]
    /\ IF Refilled(k) < Token
       THEN tokens' = [tokens EXCEPT ![k] = Refilled(k)] /\ UNCHANGED windowVars
       ELSE tokens' = [tokens EXCEPT ![k] = Refilled(k) - Token] /\ Admit(k)
    /\ UNCHANGED <<now, known, quota>>

\* upsertQuota: what was not sent is filled in and the row stored; nothing
\* reads it.
UpsertQuota(rpm, burst) ==
    /\ LET limit == IF rpm <= 0 THEN RateLimitRPM ELSE rpm IN
        quota' = [rpm |-> limit, burst |-> IF burst <= 0 THEN Half(limit) ELSE burst]
    /\ UNCHANGED <<now, limiterVars, windowVars>>

\* The process starts again with no bucket.
Restart ==
    /\ boots < MaxBoots
    /\ boots' = boots + 1
    /\ known' = {}
    /\ tokens' = [k \in Key |-> 0]
    /\ last' = [k \in Key |-> 0]
    /\ UNCHANGED <<now, quota, start, grants, granted>>

Tick(d) ==
    /\ now + d <= MaxTime
    /\ now' = now + d
    /\ UNCHANGED <<limiterVars, quota, windowVars>>

\* Start counting afresh.
OpenWindow ==
    /\ start' = now
    /\ grants' = [k \in Key |-> 0]
    /\ boots' = 0
    /\ UNCHANGED <<now, limiterVars, quota, granted>>

Next ==
    \/ \E k \in Key : AllowFirst(k) \/ Allow(k)
    \/ \E rpm \in QuotaRPM, burst \in QuotaBurst : UpsertQuota(rpm, burst)
    \/ Restart
    \/ \E d \in Delay : Tick(d)
    \/ OpenWindow

Spec == Init /\ [][Next]_vars

-----------------------------------------------------------------------------
(* Properties.                                                             *)

\* What a call made now would find in the bucket.
Level(k) == IF k \in known THEN Refilled(k) ELSE Full

\* In any window, whenever it is opened, a key is admitted at most Burst times
\* more than the rate allows, and once more Burst for every restart.
WindowBound ==
    \A k \in Key :
        Token * grants[k] <= Full * (boots + 1) + Rpm * (now - start)

\* Calling while refused costs nothing: a key that has not been admitted for
\* the time one token takes would be admitted now.
RefusalsAreFree ==
    \A k \in Key : Rpm * (now - granted[k]) >= Token => Level(k) >= Token

=============================================================================
