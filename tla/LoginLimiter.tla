------------------------------ MODULE LoginLimiter ------------------------------
(***************************************************************************)
(* How Login (internal/api/admin/account/auth.go) counts the attempts on   *)
(* one user name: FixedWindowLimiter (pkg/xlimiter) adds before the        *)
(* password is checked and is reset by a success.  What a login hands out  *)
(* is Session.  Names, passwords and the login log are left out:           *)
(* Authenticate says yes, no, or fails.  Redis is external: its script is  *)
(* one step, and a DEL may take effect after its caller was told it        *)
(* failed.                                                                 *)
(***************************************************************************)
EXTENDS Naturals, FiniteSets

CONSTANTS
  Logins,               \* login requests in flight
  MaxFails, Window      \* attempts, and the window in ticks of the clock

ASSUME LimiterAssumption == MaxFails \in Nat \ {0} /\ Window \in Nat \ {0}

VARIABLES
  fails, ttl,           \* the key in Redis, both 0 when there is none
  lateReset,            \* a DEL of the key is still on its way
  login,                \* each request's place
  under, wrong          \* history, of the present key: attempts admitted and not
                        \* yet judged, and passwords judged wrong

counterVars == <<fails, ttl, under, wrong>>
limiterVars == <<counterVars, lateReset, login>>

LimiterInit ==
  /\ fails = 0 /\ ttl = 0 /\ lateReset = FALSE
  /\ login = [r \in Logins |-> "idle"]
  /\ under = {} /\ wrong = 0

LoginGoes(r, from, to) == login[r] = from /\ login' = [login EXCEPT ![r] = to]

NoCounter == fails' = 0 /\ ttl' = 0 /\ under' = {} /\ wrong' = 0

(* The script: INCR, and EXPIRE of a key that has no time to live.  The    *)
(* count stops at MaxFails + 1, past which nothing depends on it.          *)
CountRearming ==                       \* faulty variant: EXPIRE at every attempt
  /\ fails' = IF fails > MaxFails THEN fails ELSE fails + 1
  /\ ttl' = Window
Count ==
  /\ fails' = IF fails > MaxFails THEN fails ELSE fails + 1
  /\ ttl' = IF ttl = 0 THEN Window ELSE ttl

(* limiter.Add allows the attempt. *)
AddsUncounted(r) ==                    \* faulty variant: an attempt is counted once it failed
  /\ fails < MaxFails
  /\ LoginGoes(r, "idle", "admitted") /\ under' = under \cup {r}
  /\ UNCHANGED <<fails, ttl, wrong, lateReset>>
Adds(r) ==
  /\ Count /\ fails' <= MaxFails
  /\ LoginGoes(r, "idle", "admitted") /\ under' = under \cup {r}
  /\ UNCHANGED <<wrong, lateReset>>

(* LoginLocked, or the answer of the script is lost. *)
Locked(r) ==
  /\ login[r] = "idle" /\ Count
  /\ UNCHANGED <<login, under, wrong, lateReset>>

(* Authenticate: no such user, wrong password, disabled; or no database.   *)
AuthFails(r) ==
  /\ LoginGoes(r, "admitted", "idle")
  /\ under' = under \ {r}
  /\ wrong' = wrong + Cardinality(under \cap {r})
  /\ UNCHANGED <<fails, ttl, lateReset>>

AuthSucceeds(r) ==
  /\ LoginGoes(r, "admitted", "authentic")
  /\ under' = under \ {r}
  /\ UNCHANGED <<fails, ttl, wrong, lateReset>>

(* limiter.Reset, whose error is dropped. *)
Resets(r) ==
  /\ LoginGoes(r, "authentic", "idle")
  /\ \/ NoCounter /\ UNCHANGED lateReset
     \/ lateReset' = TRUE /\ UNCHANGED counterVars
     \/ UNCHANGED <<counterVars, lateReset>>

(* The request dies. *)
Dies(r) ==
  /\ login[r] # "idle" /\ LoginGoes(r, login[r], "idle")
  /\ under' = under \ {r}
  /\ UNCHANGED <<fails, ttl, wrong, lateReset>>

LateReset ==
  /\ lateReset /\ lateReset' = FALSE /\ NoCounter
  /\ UNCHANGED login

(* External: time passes for the key. *)
CounterTick ==
  /\ ttl > 0
  /\ IF ttl = 1 THEN NoCounter ELSE ttl' = ttl - 1 /\ UNCHANGED <<fails, under, wrong>>
  /\ UNCHANGED <<lateReset, login>>

LimiterNext ==
  \/ \E r \in Logins : Adds(r) \/ Locked(r) \/ AuthFails(r) \/ AuthSucceeds(r)
                    \/ Resets(r) \/ Dies(r)
  \/ LateReset \/ CounterTick

(* The clock goes on; no request need ever come or finish. *)
LimiterFairness == WF_limiterVars(CounterTick)
LimiterSpec == LimiterInit /\ [][LimiterNext]_limiterVars /\ LimiterFairness

-----------------------------------------------------------------------------
LimiterTypeOK ==
  /\ fails \in 0..MaxFails + 1 /\ ttl \in 0..Window /\ (fails = 0 <=> ttl = 0)
  /\ lateReset \in BOOLEAN /\ login \in [Logins -> {"idle", "admitted", "authentic"}]
  /\ under \subseteq {r \in Logins : login[r] = "admitted"} /\ wrong \in Nat

(* Of one counter ("3分钟内，最多失败5次", auth.go:33) no more than        *)
(* MaxFails attempts are judged wrong, however many requests are between   *)
(* Add and the password check at once.                                     *)
WrongWithinLimit == wrong + Cardinality(under) <= MaxFails

(* A name that is locked out opens again, however often it is tried        *)
(* meanwhile: a refused attempt does not lengthen the lock.                *)
LockoutEnds == fails > MaxFails ~> fails = 0
===============================================================================
