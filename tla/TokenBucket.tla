------------------------------ MODULE TokenBucket ------------------------------
(***************************************************************************)
(* The in-memory limiters of pkg/xlimiter/token_bucket_limiter.go under    *)
(* one key: requests look the bucket up (KeyLimiter) or keep it from the   *)
(* start (AccessLimiter), take a token and note the time, while the        *)
(* cleanup goroutine drops a bucket that was idle too long.                *)
(*                                                                         *)
(* rate.Limiter is external: a bucket of Burst tokens that gains one with  *)
(* every tick.  Reserve, SetLimit and SetBurst, which nothing calls, are   *)
(* left out.                                                               *)
(***************************************************************************)
EXTENDS Integers, FiniteSets

CONSTANTS
  Takers,               \* requests with this key
  Buckets,              \* instances NewTokenBucket can make
  Burst, IdleThreshold, \* in tokens, and in ticks: one tick is the time of a token
  MaxStray,             \* bound: requests overtaken by the cleanup
  NoBucket

(* A bucket is full again before it counts as idle; KeyLimiter's callers   *)
(* choose rate and burst, nothing in the code ensures it.                  *)
ASSUME BucketAssumption ==
  /\ Burst \in Nat \ {0} /\ IdleThreshold \in Nat /\ Burst <= IdleThreshold
  /\ MaxStray \in Nat /\ NoBucket \notin Buckets /\ IsFiniteSet(Takers)

VARIABLES
  registered,           \* limiterMap's entry
  tokens, idle,         \* of each bucket: tokens, and ticks since lastGetTime
  held,                 \* the bucket each request has looked up
  taken,                \* requests that took a token and have yet to note the time
  ideal,                \* history: a bucket that is never dropped, filled the same way
  stray                 \* history: requests that had a bucket in hand when it was dropped

bucketVars == <<registered, tokens, idle, held, taken, ideal, stray>>

BucketInit ==
  /\ registered = NoBucket
  /\ tokens = [b \in Buckets |-> Burst] /\ idle = [b \in Buckets |-> 0]
  /\ held = [r \in Takers |-> NoBucket] /\ taken = {}
  /\ ideal = Burst /\ stray = 0

Unused == {b \in Buckets : b # registered /\ \A r \in Takers : held[r] # b}

(* NewTokenBucket: LoadOrStore.  Of a new instance the one stored first    *)
(* is used by all.                                                         *)
LooksUp(r) ==
  /\ held[r] = NoBucket
  /\ \/ /\ registered # NoBucket
        /\ held' = [held EXCEPT ![r] = registered]
        /\ UNCHANGED <<registered, tokens, idle>>
     \/ /\ registered = NoBucket
        /\ \E b \in Unused :
             /\ registered' = b /\ held' = [held EXCEPT ![r] = b]
             /\ tokens' = [tokens EXCEPT ![b] = Burst] /\ idle' = [idle EXCEPT ![b] = 0]
  /\ UNCHANGED <<taken, ideal, stray>>

(* Allow, and a Wait that is served: the token first ...                   *)
Admit(r) ==
  /\ held[r] # NoBucket /\ r \notin taken
  /\ tokens[held[r]] > 0
  /\ tokens' = [tokens EXCEPT ![held[r]] = @ - 1]
  /\ ideal' = ideal - 1
  /\ taken' = taken \cup {r}
  /\ UNCHANGED <<registered, idle, held, stray>>

(* ... and then lastGetTime. *)
Note(r) ==
  /\ r \in taken
  /\ taken' = taken \ {r}
  /\ idle' = [idle EXCEPT ![held[r]] = 0]
  /\ held' = [held EXCEPT ![r] = NoBucket]
  /\ UNCHANGED <<registered, tokens, ideal, stray>>

(* 429, or Wait runs out of time. *)
TurnAway(r) ==
  /\ held[r] # NoBucket /\ r \notin taken
  /\ held' = [held EXCEPT ![r] = NoBucket]
  /\ UNCHANGED <<registered, tokens, idle, taken, ideal, stray>>

(* The cleanup's round finds the entry idle and deletes the key. *)
DropsAny ==                            \* faulty variant: drops the entry whatever its age
  /\ registered # NoBucket /\ stray < MaxStray
  /\ registered' = NoBucket
  /\ stray' = stray + Cardinality({r \in Takers : held[r] = registered})
  /\ UNCHANGED <<tokens, idle, held, taken, ideal>>
Drops ==
  /\ registered # NoBucket /\ stray < MaxStray
  /\ idle[registered] > IdleThreshold
  /\ registered' = NoBucket
  /\ stray' = stray + Cardinality({r \in Takers : held[r] = registered})
  /\ UNCHANGED <<tokens, idle, held, taken, ideal>>

(* Time passes; ages past the threshold are all alike, and what a bucket   *)
(* nobody has in hand holds is forgotten.                                  *)
BucketTick ==
  /\ tokens' = [b \in Buckets |-> IF b \in Unused \/ tokens[b] = Burst THEN Burst
                                                                    ELSE tokens[b] + 1]
  /\ idle'   = [b \in Buckets |-> IF b \in Unused THEN 0
                                  ELSE IF idle[b] > IdleThreshold THEN idle[b] ELSE idle[b] + 1]
  /\ ideal'  = IF ideal < Burst THEN ideal + 1 ELSE Burst
  /\ UNCHANGED <<registered, held, taken, stray>>

BucketNext ==
  \/ \E r \in Takers : LooksUp(r) \/ Admit(r) \/ Note(r) \/ TurnAway(r)
  \/ Drops \/ BucketTick

BucketSpec == BucketInit /\ [][BucketNext]_bucketVars

-----------------------------------------------------------------------------
BucketTypeOK ==
  /\ registered \in Buckets \cup {NoBucket}
  /\ tokens \in [Buckets -> 0..Burst] /\ idle \in [Buckets -> 0..IdleThreshold + 1]
  /\ held \in [Takers -> Buckets \cup {NoBucket}]
  /\ taken \subseteq {r \in Takers : held[r] # NoBucket}
  /\ ideal \in Int /\ ideal <= Burst /\ stray \in Nat

(* Dropping idle buckets and making them anew costs the limit nothing:     *)
(* the requests let through are those one bucket, never dropped, would let *)
(* through, and at most one more for each request that the cleanup         *)
(* overtook between its lookup and its note of the time.                   *)
RateKept == ideal + stray >= 0
===============================================================================
