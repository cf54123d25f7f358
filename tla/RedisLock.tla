------------------------------- MODULE RedisLock -------------------------------
(***************************************************************************)
(* The lock on one key of pkg/xlock/redis_lock.go: LockWithTries, TryLock, *)
(* LockWithTriesTime and ReTryLock run the caller's fn with the lock held  *)
(* (or tell it that it is not), and fn may Extend or Unlock.               *)
(*                                                                         *)
(* redsync and Redis are external: the key holds the value its taker drew  *)
(* and lives for Lease ticks; releasing and extending compare the value.   *)
(* Time is the same for all, and a worker counts its lease from before it  *)
(* asked.  Where a command fails it may still have taken effect.           *)
(***************************************************************************)
EXTENDS Naturals

CONSTANTS
  Holders,              \* callers of the lock, in any process
  Draws,                \* values redsync draws, one for each attempt
  Lease,                \* expireSecond, in ticks
  NoValue

ASSUME LeaseAssumption == Lease \in Nat \ {0} /\ NoValue \notin Draws

VARIABLES
  lock, lease,          \* the key's value and time to live
  work,                 \* each worker's place
  value,                \* the value of its attempt
  left                  \* what is left of its own count of the lease

lockVars == <<lock, lease, work, value, left>>

LockInit ==
  /\ lock = NoValue /\ lease = 0
  /\ work  = [w \in Holders |-> "idle"]
  /\ value = [w \in Holders |-> NoValue]
  /\ left  = [w \in Holders |-> 0]

WorkGoes(w, from, to) == work[w] \in from /\ work' = [work EXCEPT ![w] = to]

Acquires(w) == lock = NoValue /\ lock' = value[w] /\ lease' = Lease
Frees(w) == lock = value[w] /\ lock' = NoValue /\ lease' = 0

(* One attempt: LockWithTries makes tries + 1 of them, LockWithTriesTime   *)
(* as many as fit in its time, ReTryLock goes on until its context ends.   *)
Ask(w) ==
  /\ WorkGoes(w, {"idle", "again"}, "asking")
  /\ \E v \in Draws \ ({lock} \cup {value[x] : x \in Holders}) :
       value' = [value EXCEPT ![w] = v]
  /\ left' = [left EXCEPT ![w] = Lease]
  /\ UNCHANGED <<lock, lease>>

(* SET NX, seen or not by the one who asked. *)
Granted(w) ==
  /\ Acquires(w) /\ WorkGoes(w, {"asking"}, "granted")
  /\ UNCHANGED <<value, left>>

Denied(w) ==
  /\ WorkGoes(w, {"asking"}, "failed")
  /\ Acquires(w) \/ UNCHANGED <<lock, lease>>
  /\ UNCHANGED <<value, left>>

(* An answer that took longer than the lease is a failed attempt. *)
Enters(w) ==
  /\ WorkGoes(w, {"granted"}, IF left[w] > 0 THEN "inside" ELSE "failed")
  /\ UNCHANGED <<lock, lease, value, left>>

(* After a failed attempt redsync releases what it may have taken. *)
Clears(w) ==
  /\ WorkGoes(w, {"failed"}, "again")
  /\ Frees(w) \/ UNCHANGED <<lock, lease>>
  /\ left' = [left EXCEPT ![w] = 0]
  /\ value' = [value EXCEPT ![w] = NoValue]

(* No attempt or time is left: fn(false), or the error of the context.     *)
GivesUp(w) ==
  /\ WorkGoes(w, {"again"}, "idle")
  /\ UNCHANGED <<lock, lease, value, left>>

(* LockContext.Extend, from fn: touches the key if it still has the value. *)
Extends(w) ==
  /\ work[w] = "inside" /\ lock = value[w]
  /\ lease' = Lease /\ left' \in {left, [left EXCEPT ![w] = Lease]}
  /\ UNCHANGED <<lock, work, value>>

(* LockContext.Unlock, from fn, which goes on without the lock. *)
Unlocks(w) ==
  /\ work[w] = "inside" /\ Frees(w)
  /\ left' = [left EXCEPT ![w] = 0]
  /\ UNCHANGED <<work, value>>

(* fn returns or panics: the deferred unlockWithTimeout.  Its failure is   *)
(* only logged.                                                            *)
ReleasesAny(w) ==                        \* faulty variant: deletes the key whoever has it
  /\ WorkGoes(w, {"inside"}, "idle")
  /\ lock' = NoValue /\ lease' = 0
  /\ left' = [left EXCEPT ![w] = 0] /\ value' = [value EXCEPT ![w] = NoValue]
Releases(w) ==
  /\ WorkGoes(w, {"inside"}, "idle")
  /\ Frees(w) \/ UNCHANGED <<lock, lease>>
  /\ left' = [left EXCEPT ![w] = 0] /\ value' = [value EXCEPT ![w] = NoValue]

(* The worker's process dies. *)
Vanishes(w) ==
  /\ work[w] # "idle" /\ WorkGoes(w, {work[w]}, "idle")
  /\ left' = [left EXCEPT ![w] = 0] /\ value' = [value EXCEPT ![w] = NoValue]
  /\ UNCHANGED <<lock, lease>>

(* Time passes; the key is gone when its time is up. *)
LockTick ==
  /\ lease > 0 \/ \E w \in Holders : left[w] > 0
  /\ lease' = IF lease > 0 THEN lease - 1 ELSE 0
  /\ lock'  = IF lease > 1 THEN lock ELSE NoValue
  /\ left'  = [w \in Holders |-> IF left[w] > 0 THEN left[w] - 1 ELSE 0]
  /\ UNCHANGED <<work, value>>

LockNext ==
  \/ \E w \in Holders : Ask(w) \/ Granted(w) \/ Denied(w) \/ Enters(w) \/ Clears(w)
                     \/ GivesUp(w) \/ Extends(w) \/ Unlocks(w) \/ Releases(w) \/ Vanishes(w)
  \/ LockTick

LockSpec == LockInit /\ [][LockNext]_lockVars

-----------------------------------------------------------------------------
LockPlaces == {"idle", "asking", "granted", "failed", "again", "inside"}
LockTypeOK ==
  /\ lock \in Draws \cup {NoValue} /\ lease \in 0..Lease /\ (lease = 0 <=> lock = NoValue)
  /\ work \in [Holders -> LockPlaces]
  /\ value \in [Holders -> Draws \cup {NoValue}] /\ left \in [Holders -> 0..Lease]

(* A worker inside fn, by whose own count the lease still runs. *)
Safe(w) == work[w] = "inside" /\ left[w] > 0

(* fn runs alone for as long as its lease lasts, extensions included: no   *)
(* other worker is inside within its own lease, although one that stayed   *)
(* too long may still be there, unlock late or try to extend.              *)
LeaseIsExclusive ==
  \A w, v \in Holders : Safe(w) /\ Safe(v) => w = v
===============================================================================
