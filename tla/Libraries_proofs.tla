---------------------------- MODULE Libraries_proofs ----------------------------
(* The components that keep their state to themselves: for each the inductive *)
(* invariant and what follows from it.                                        *)
EXTENDS LoginLimiter, RedisLock, TokenBucket, HttpRetry, Lifecycle, MessageAssembly,
        Topology, FiniteSetTheorems, SequenceTheorems, TLAPS

-----------------------------------------------------------------------------
(* LoginLimiter: what was admitted was counted.                               *)
LimiterInv ==
  /\ LimiterTypeOK /\ IsFiniteSet(under)
  /\ wrong + Cardinality(under) <= fails
  /\ WrongWithinLimit

(* An attempt is counted before it is judged, and counts once. *)
LEMMA LimiterGoesOn ==
  ASSUME LimiterInv, [LimiterNext]_limiterVars
  PROVE  LimiterInv'
<1> USE LimiterAssumption DEF LimiterInv, LimiterTypeOK, WrongWithinLimit, LoginGoes,
                              limiterVars, counterVars
<1>0. Cardinality(under) \in Nat
  BY FS_CardinalityType
<1>1. ASSUME NEW r
      PROVE  /\ IsFiniteSet(under \ {r}) /\ Cardinality(under \ {r}) \in Nat
             /\ Cardinality(under \cap {r}) \in Nat
             /\ Cardinality(under \ {r}) + Cardinality(under \cap {r}) = Cardinality(under)
  <2>1. IsFiniteSet(under \cap {r}) /\ IsFiniteSet(under \ {r})
    BY FS_Intersection, FS_Difference
  <2>2. Cardinality(under \cap {r}) \in Nat /\ Cardinality(under \ {r}) \in Nat
    BY <2>1, FS_CardinalityType
  <2>3. Cardinality(under \ {r}) = Cardinality(under) - Cardinality(under \cap {r})
    BY FS_Difference
  <2> QED
    BY <1>0, <2>1, <2>2, <2>3
<1>2. NoCounter => under' = {} /\ Cardinality(under') = 0 /\ IsFiniteSet(under')
  BY FS_EmptySet DEF NoCounter
<1>3. ASSUME NEW r \in Logins, Adds(r)  PROVE LimiterInv'
  <2>1. r \notin under
    BY <1>3 DEF Adds
  <2>2. IsFiniteSet(under') /\ Cardinality(under') = Cardinality(under) + 1
    BY <1>3, <2>1, FS_AddElement DEF Adds
  <2> QED
    BY <1>0, <1>3, <2>2 DEF Adds, Count
<1>4. ASSUME NEW r \in Logins, Locked(r)  PROVE LimiterInv'
  BY <1>0, <1>4 DEF Locked, Count
<1>5. ASSUME NEW r \in Logins, AuthFails(r) \/ AuthSucceeds(r) \/ Dies(r)  PROVE LimiterInv'
  <2>1. /\ under' = under \ {r} /\ UNCHANGED <<fails, ttl, lateReset>>
        /\ wrong' \in {wrong, wrong + Cardinality(under \cap {r})}
    BY <1>5 DEF AuthFails, AuthSucceeds, Dies
  <2> DEFINE rest == Cardinality(under \ {r})
             hit == Cardinality(under \cap {r})
  <2>2. IsFiniteSet(under \ {r}) /\ rest \in Nat /\ hit \in Nat /\ rest + hit = Cardinality(under)
    BY <1>1
  <2>3. Cardinality(under') = rest /\ wrong' \in {wrong, wrong + hit} /\ IsFiniteSet(under')
    BY <2>1, <2>2
  <2>4. /\ IsFiniteSet(under') /\ wrong' \in Nat
        /\ wrong' + Cardinality(under') <= wrong + Cardinality(under)
    <3> HIDE DEF rest, hit
    <3> QED
      BY <1>0, <2>2, <2>3
  <2>5. Cardinality(under') \in Nat
    BY <2>4, FS_CardinalityType
  <2>6. /\ login' \in [Logins -> {"idle", "admitted", "authentic"}]
        /\ under' \subseteq {q \in Logins : login'[q] = "admitted"}
    BY <1>5, <2>1 DEF AuthFails, AuthSucceeds, Dies
  <2> QED
    BY <1>0, <2>1, <2>4, <2>5, <2>6
<1>6. ASSUME NoCounter, login' \in [Logins -> {"idle", "admitted", "authentic"}],
             lateReset' \in BOOLEAN
      PROVE  LimiterInv'
  BY <1>2, <1>6 DEF NoCounter
<1>7. ASSUME NEW r \in Logins, Resets(r)  PROVE LimiterInv'
  <2>1. lateReset' \in BOOLEAN
    BY <1>7 DEF Resets
  <2>2. login' \in [Logins -> {"idle", "admitted", "authentic"}]
    BY <1>7 DEF Resets
  <2>3. CASE NoCounter
    BY <1>6, <2>1, <2>2, <2>3
  <2>4. CASE UNCHANGED counterVars
    BY <1>7, <2>1, <2>2, <2>4 DEF Resets
  <2> QED
    BY <1>7, <2>3, <2>4 DEF Resets
<1>8. CASE LateReset
  <2>1. lateReset' \in BOOLEAN
    BY <1>8 DEF LateReset
  <2> QED
    BY <1>6, <1>8, <2>1 DEF LateReset
<1>9. CASE CounterTick
  BY <1>0, <1>6, <1>9 DEF CounterTick
<1>10. CASE UNCHANGED limiterVars
  BY <1>10
<1> QED
  BY <1>3, <1>4, <1>5, <1>7, <1>8, <1>9, <1>10 DEF LimiterNext

LEMMA LimiterInvariant == LimiterSpec => []LimiterInv
<1>1. LimiterInit => LimiterInv
  <2>1. LimiterInit => IsFiniteSet(under) /\ Cardinality(under) = 0 /\ lateReset \in BOOLEAN
    BY FS_EmptySet DEF LimiterInit
  <2> QED
    BY <2>1, LimiterAssumption DEF LimiterInit, LimiterInv, LimiterTypeOK, WrongWithinLimit
<1>2. LimiterInv /\ [LimiterNext]_limiterVars => LimiterInv'
  BY LimiterGoesOn
<1> QED
  BY <1>1, <1>2, PTL DEF LimiterSpec

(* Under one counter no more than MaxFails passwords are judged wrong, however *)
(* many requests are between the count and the check (auth.go:42-85).         *)
THEOREM WrongIsLimited == LimiterSpec => []WrongWithinLimit
<1>1. LimiterInv => WrongWithinLimit
  BY DEF LimiterInv
<1> QED
  BY <1>1, LimiterInvariant, PTL

(* While a name is counted against, nothing moves the end of its window away  *)
(* and nothing but a reset or that end takes failures back; a tick brings the *)
(* end nearer.  So a refused attempt never lengthens a lock (the safe half of *)
(* LockoutEnds; fixedWindowScript, fixed_window_limiter.go).                   *)
THEOREM WindowIsFixed ==
  LimiterSpec => [][fails > 0 => \/ fails' = 0 /\ ttl' = 0
                                 \/ fails' >= fails /\ ttl' <= ttl
                                    /\ (CounterTick => ttl' < ttl)]_limiterVars
<1> DEFINE Fixed == fails > 0 => \/ fails' = 0 /\ ttl' = 0
                                 \/ fails' >= fails /\ ttl' <= ttl /\ (CounterTick => ttl' < ttl)
<1>1. ASSUME LimiterInv, LimiterNext PROVE Fixed
  <2>0. fails \in 0..MaxFails + 1 /\ ttl \in 0..Window /\ (fails = 0 <=> ttl = 0)
        /\ MaxFails \in Nat /\ Window \in Nat
    BY <1>1, LimiterAssumption DEF LimiterInv, LimiterTypeOK
  <2>1. ASSUME CounterTick PROVE Fixed
    BY <2>0, <2>1 DEF CounterTick, NoCounter
  <2>2. ASSUME NEW r \in Logins, Adds(r) \/ Locked(r) PROVE Fixed
    <3>1. ~CounterTick
      BY <2>0, <2>2, LimiterAssumption DEF Adds, Locked, Count, CounterTick, NoCounter
    <3> QED BY <2>0, <2>2, <3>1 DEF Adds, Locked, Count
  <2>3. ASSUME NEW r \in Logins, AuthFails(r) \/ AuthSucceeds(r) \/ Resets(r) \/ Dies(r) PROVE Fixed
    <3>1. UNCHANGED <<fails, ttl>> \/ NoCounter
      BY <2>3 DEF AuthFails, AuthSucceeds, Resets, Dies, counterVars
    <3>2. CounterTick => NoCounter \/ ttl' < ttl
      BY <2>0 DEF CounterTick
    <3> QED BY <2>0, <3>1, <3>2 DEF NoCounter
  <2>4. ASSUME LateReset PROVE Fixed
    BY <2>4 DEF LateReset, NoCounter
  <2> QED
    BY <1>1, <2>1, <2>2, <2>3, <2>4 DEF LimiterNext
<1>2. LimiterInv /\ [LimiterNext]_limiterVars => [Fixed]_limiterVars
  BY <1>1
<1> QED
  BY <1>2, LimiterInvariant, PTL DEF LimiterSpec

-----------------------------------------------------------------------------
(* RedisLock: whoever still counts on its lease has its value in the key, for *)
(* at least as long, and values differ.                                       *)
Valued ==
  /\ \A w \in Holders : work[w] \in {"asking", "granted", "failed", "inside"} => value[w] # NoValue
  /\ \A w, v \in Holders : value[w] = value[v] => w = v \/ value[w] = NoValue

Covered ==
  \A w \in Holders :
    work[w] \in {"granted", "inside"} /\ left[w] > 0 => lock = value[w] /\ left[w] <= lease

LeaseInv == LockTypeOK /\ Valued /\ Covered

(* A lease that is counted on is in the key. *)
LEMMA LeaseGoesOn ==
  ASSUME LeaseInv, [LockNext]_lockVars
  PROVE  LeaseInv'
<1> USE LeaseAssumption DEF LeaseInv, LockTypeOK, LockPlaces, Valued, Covered, lockVars
<1>1. ASSUME NEW w \in Holders, Ask(w)  PROVE LeaseInv'
  BY <1>1 DEF Ask, WorkGoes
<1>2. ASSUME NEW w \in Holders, Granted(w)  PROVE LeaseInv'
  BY <1>2 DEF Granted, WorkGoes, Acquires
<1>3. ASSUME NEW w \in Holders, Denied(w)  PROVE LeaseInv'
  BY <1>3 DEF Denied, WorkGoes, Acquires
<1>4. ASSUME NEW w \in Holders, Enters(w)  PROVE LeaseInv'
  BY <1>4 DEF Enters, WorkGoes
<1>5. ASSUME NEW w \in Holders, Clears(w)  PROVE LeaseInv'
  BY <1>5 DEF Clears, WorkGoes, Frees
<1>6. ASSUME NEW w \in Holders, GivesUp(w)  PROVE LeaseInv'
  BY <1>6 DEF GivesUp, WorkGoes
<1>7. ASSUME NEW w \in Holders, Extends(w)  PROVE LeaseInv'
  BY <1>7 DEF Extends
<1>8. ASSUME NEW w \in Holders, Unlocks(w)  PROVE LeaseInv'
  BY <1>8 DEF Unlocks, Frees
<1>9. ASSUME NEW w \in Holders, Releases(w)  PROVE LeaseInv'
  BY <1>9 DEF Releases, WorkGoes, Frees
<1>10. ASSUME NEW w \in Holders, Vanishes(w)  PROVE LeaseInv'
  BY <1>10 DEF Vanishes, WorkGoes
<1>11. CASE LockTick
  BY <1>11 DEF LockTick
<1>12. CASE UNCHANGED lockVars
  BY <1>12
<1> QED
  BY <1>1, <1>2, <1>3, <1>4, <1>5, <1>6, <1>7, <1>8, <1>9, <1>10, <1>11, <1>12 DEF LockNext

LEMMA LeaseInvariant == LockSpec => []LeaseInv
<1>1. LockInit => LeaseInv
  BY LeaseAssumption DEF LockInit, LeaseInv, LockTypeOK, LockPlaces, Valued, Covered
<1>2. LeaseInv /\ [LockNext]_lockVars => LeaseInv'
  BY LeaseGoesOn
<1> QED
  BY <1>1, <1>2, PTL DEF LockSpec

(* Two workers are never inside within their leases, whatever was lost, came  *)
(* late, or was released by one that stayed too long (redis_lock.go).         *)
THEOREM LockIsExclusive == LockSpec => []LeaseIsExclusive
<1>1. LeaseInv => LeaseIsExclusive
  BY DEF LeaseInv, LockTypeOK, Valued, Covered, LeaseIsExclusive, Safe
<1> QED
  BY <1>1, LeaseInvariant, PTL

(* What a worker still counts on is in Redis under its own value and for no   *)
(* shorter: no late SET, stale DEL or release of another worker takes it away *)
(* (the compare-and-delete of redsync; Unlock and Extend, redis_lock.go).     *)
THEOREM LeaseIsBacked ==
  LockSpec => [](\A w \in Holders : Safe(w) => lock = value[w] /\ left[w] <= lease)
<1>1. LeaseInv => \A w \in Holders : Safe(w) => lock = value[w] /\ left[w] <= lease
  BY DEF LeaseInv, Covered, Safe
<1> QED
  BY <1>1, LeaseInvariant, PTL

-----------------------------------------------------------------------------
(* TokenBucket: requests that hold a bucket that was dropped, and have not    *)
(* taken from it yet; and those that took from bucket b and have to note it.  *)
Strays    == {r \in Takers \ taken : held[r] \notin {registered, NoBucket}}
TakenOf(b) == {r \in taken : held[r] = b}

AtMost(m, n) == IF m <= n THEN m ELSE n

(* A bucket lacks no more than what time has not yet brought back, and what   *)
(* was taken since the last note of the time.                                 *)
Refilled ==
  \A b \in Buckets : tokens[b] + Cardinality(TakenOf(b)) >= AtMost(Burst, idle[b])

(* The bucket that is never dropped is behind by one for each stray request.  *)
Budget ==
  /\ stray >= Cardinality(Strays)
  /\ ideal + stray >= Cardinality(Strays)
                      + (IF registered = NoBucket THEN Burst ELSE tokens[registered])

BucketInv == BucketTypeOK /\ Refilled /\ Budget

(* The sets that the invariant counts are finite. *)
LEMMA CountsAreNat ==
  ASSUME BucketTypeOK
  PROVE  /\ IsFiniteSet(Strays) /\ Cardinality(Strays) \in Nat
         /\ \A b : IsFiniteSet(TakenOf(b)) /\ Cardinality(TakenOf(b)) \in Nat
<1>1. Strays \subseteq Takers /\ \A b : TakenOf(b) \subseteq Takers
  BY DEF Strays, TakenOf, BucketTypeOK
<1> QED
  BY <1>1, BucketAssumption, FS_Subset, FS_CardinalityType

(* The types of the buckets. *)
LEMMA BucketTypes ==
  ASSUME BucketTypeOK, [BucketNext]_bucketVars
  PROVE  BucketTypeOK'
<1> USE BucketAssumption DEF BucketTypeOK, bucketVars
<1>1. ASSUME NEW r \in Takers, LooksUp(r)  PROVE BucketTypeOK'
  BY <1>1 DEF LooksUp, Unused
<1>2. ASSUME NEW r \in Takers, Admit(r)  PROVE BucketTypeOK'
  BY <1>2 DEF Admit
<1>3. ASSUME NEW r \in Takers, Note(r)  PROVE BucketTypeOK'
  BY <1>3 DEF Note
<1>4. ASSUME NEW r \in Takers, TurnAway(r)  PROVE BucketTypeOK'
  BY <1>4 DEF TurnAway
<1>5. CASE Drops
  <2>1. {r \in Takers : held[r] = registered} \subseteq Takers
    OBVIOUS
  <2>2. Cardinality({r \in Takers : held[r] = registered}) \in Nat
    BY <2>1, FS_Subset, FS_CardinalityType
  <2> QED
    BY <1>5, <2>2 DEF Drops
<1>6. CASE BucketTick
  BY <1>6 DEF BucketTick
<1>7. CASE UNCHANGED bucketVars
  BY <1>7
<1> QED
  BY <1>1, <1>2, <1>3, <1>4, <1>5, <1>6, <1>7 DEF BucketNext

(* A request takes what its bucket has, and a dropped bucket was full. *)
LEMMA BucketGoesOn ==
  ASSUME BucketInv, [BucketNext]_bucketVars
  PROVE  BucketInv'
<1> USE BucketAssumption DEF BucketInv, Refilled, Budget, AtMost
<1>0. BucketTypeOK'
  BY BucketTypes
<1>1. /\ IsFiniteSet(Strays) /\ Cardinality(Strays) \in Nat
      /\ \A b : IsFiniteSet(TakenOf(b)) /\ Cardinality(TakenOf(b)) \in Nat
  BY CountsAreNat
<1> USE DEF BucketTypeOK
<1>2. ASSUME NEW r \in Takers, LooksUp(r)  PROVE (Refilled /\ Budget)'
  <2>1. \A b \in Buckets : TakenOf(b)' = TakenOf(b)
    BY <1>2 DEF LooksUp, TakenOf
  <2>2. Strays' = Strays
    BY <1>2 DEF LooksUp, Strays, Unused
  <2> QED
    BY <1>0, <1>1, <1>2, <2>1, <2>2 DEF LooksUp, Unused
<1>3. ASSUME NEW r \in Takers, Admit(r)  PROVE (Refilled /\ Budget)'
  <2>1. TakenOf(held[r])' = TakenOf(held[r]) \cup {r} /\ r \notin TakenOf(held[r])
    BY <1>3 DEF Admit, TakenOf
  <2>2. Cardinality(TakenOf(held[r])') = Cardinality(TakenOf(held[r])) + 1
    BY <1>1, <2>1, FS_AddElement
  <2>3. \A b \in Buckets \ {held[r]} : TakenOf(b)' = TakenOf(b)
    BY <1>3 DEF Admit, TakenOf
  <2>4. Refilled'
    BY <1>0, <1>1, <1>3, <2>2, <2>3 DEF Admit
  <2>5. Strays' = Strays \ {r} /\ (r \in Strays <=> held[r] # registered)
    BY <1>3 DEF Admit, Strays
  <2>6. Cardinality(Strays') = IF held[r] # registered THEN Cardinality(Strays) - 1
                                                      ELSE Cardinality(Strays)
    BY <1>1, <2>5, FS_RemoveElement
  <2> QED
    BY <1>0, <1>1, <1>3, <2>4, <2>6 DEF Admit
<1>4. ASSUME NEW r \in Takers, Note(r)  PROVE (Refilled /\ Budget)'
  <2>1. PICK k \in Buckets : held[r] = k
    BY <1>4 DEF Note
  <2>2. \A b \in Buckets \ {k} : TakenOf(b)' = TakenOf(b)
    BY <1>4, <2>1 DEF Note, TakenOf
  <2>3. TakenOf(k)' = TakenOf(k) \ {r}
    BY <1>4, <2>1 DEF Note, TakenOf
  <2>4. Cardinality(TakenOf(k)') \in Nat
    BY <1>1, <2>3, FS_RemoveElement, FS_CardinalityType
  <2>5. Strays' = Strays
    BY <1>4 DEF Note, Strays
  <2>6. tokens' = tokens /\ idle' = [idle EXCEPT ![k] = 0]
    BY <1>4, <2>1 DEF Note
  <2>7. Refilled'
    BY <1>0, <1>1, <2>2, <2>4, <2>6
  <2> QED
    BY <1>0, <1>1, <1>4, <2>5, <2>7 DEF Note
<1>5. ASSUME NEW r \in Takers, TurnAway(r)  PROVE (Refilled /\ Budget)'
  <2>1. \A b \in Buckets : TakenOf(b)' = TakenOf(b)
    BY <1>5 DEF TurnAway, TakenOf
  <2>2. Strays' = Strays \ {r}
    BY <1>5 DEF TurnAway, Strays
  <2>3. IsFiniteSet(Strays') /\ Cardinality(Strays') <= Cardinality(Strays)
    BY <1>1, <2>2, FS_Subset
  <2>4. Cardinality(Strays') \in Nat
    BY <2>3, FS_CardinalityType
  <2> QED
    BY <1>0, <1>1, <1>5, <2>1, <2>3, <2>4 DEF TurnAway
<1>6. CASE Drops
  <2> DEFINE holders == {r \in Takers : held[r] = registered}
  <2>1. \A b \in Buckets : TakenOf(b)' = TakenOf(b)
    BY <1>6 DEF Drops, TakenOf
  <2>2. IsFiniteSet(holders) /\ holders \cap taken = TakenOf(registered)
    BY FS_Subset DEF TakenOf
  <2>3. /\ IsFiniteSet(holders \ taken)
        /\ Cardinality(holders \ taken) = Cardinality(holders) - Cardinality(TakenOf(registered))
    BY <2>2, FS_Difference
  <2>4. Strays' = Strays \cup (holders \ taken) /\ Strays \cap (holders \ taken) = {}
    BY <1>6 DEF Drops, Strays
  <2>5. Cardinality(Strays') = Cardinality(Strays) + Cardinality(holders \ taken)
    <3>1. Cardinality(Strays') = Cardinality(Strays) + Cardinality(holders \ taken) - 0
      BY <1>1, <2>3, <2>4, FS_Union, FS_EmptySet
    <3>2. Cardinality(holders \ taken) \in Nat
      BY <2>3, FS_CardinalityType
    <3> QED
      BY <1>1, <3>1, <3>2
  <2>6. tokens[registered] + Cardinality(TakenOf(registered)) >= Burst
    BY <1>1, <1>6 DEF Drops
  <2>7. Cardinality(holders \ taken) \in Nat /\ Cardinality(holders) \in Nat
    BY <2>2, <2>3, FS_CardinalityType
  <2> QED
    BY <1>0, <1>1, <1>6, <2>1, <2>3, <2>5, <2>6, <2>7 DEF Drops
<1>7. CASE BucketTick
  <2>1. Strays' = Strays /\ \A b \in Buckets : TakenOf(b)' = TakenOf(b)
    BY <1>7 DEF BucketTick, Strays, TakenOf
  <2>2. Refilled'
    BY <1>0, <1>1, <1>7, <2>1 DEF BucketTick
  <2>3. registered # NoBucket =>
          tokens[registered]' = IF tokens[registered] = Burst THEN Burst ELSE tokens[registered] + 1
    BY <1>7 DEF BucketTick, Unused
  <2> QED
    BY <1>0, <1>1, <1>7, <2>1, <2>2, <2>3 DEF BucketTick
<1>8. CASE UNCHANGED bucketVars
  BY <1>8 DEF bucketVars, Strays, TakenOf
<1> QED
  BY <1>0, <1>2, <1>3, <1>4, <1>5, <1>6, <1>7, <1>8 DEF BucketNext

(* Nothing is taken at first. *)
LEMMA BucketStarts == BucketInit => BucketInv
<1> SUFFICES ASSUME BucketInit  PROVE BucketInv
  OBVIOUS
<1>1. BucketTypeOK
  BY BucketAssumption DEF BucketInit, BucketTypeOK
<1>2. Strays = {} /\ \A b \in Buckets : TakenOf(b) = {}
  BY DEF BucketInit, Strays, TakenOf
<1> QED
  BY <1>1, <1>2, BucketAssumption, FS_EmptySet
     DEF BucketInit, BucketInv, Refilled, Budget, AtMost

(* The cleanup of idle buckets lets through at most one request more for each *)
(* that it overtook (token_bucket_limiter.go:108-132).                        *)
THEOREM RateIsKept == BucketSpec => []RateKept
<1>1. BucketInv /\ [BucketNext]_bucketVars => BucketInv'
  BY BucketGoesOn
<1>2. BucketInv => RateKept
  BY CountsAreNat, BucketAssumption DEF BucketInv, BucketTypeOK, Budget, RateKept
<1> QED
  BY <1>1, <1>2, BucketStarts, PTL DEF BucketSpec

-----------------------------------------------------------------------------
(* HttpRetry: how the call got past each attempt.                             *)
RetryInv ==
  /\ round \in Attempts
  /\ fate \in [Attempts -> {"unsent", "afloat", "executed", "lost"}]
  /\ seen \in [Attempts -> {"nothing", "error", "answer"}]
  /\ \A j \in Attempts : fate[j] # "unsent" => j <= round
  /\ call = "backoff" => round < MaxRetries
  /\ ~idempotent => /\ \A i \in Attempts : i < round => seen[i] = "error"
                    /\ call = "backoff" => seen[round] = "error"

(* Every attempt but the last ended in an error, or was idempotent. *)
LEMMA RetryGoesOn ==
  ASSUME RetryInv, [RetryNext]_retryVars
  PROVE  RetryInv'
<1> USE RetriesAssumption DEF RetryInv, Attempts, retryVars
<1>1. CASE Sends
  BY <1>1 DEF Sends, CallGoes
<1>2. CASE Abandons
  BY <1>2 DEF Abandons, CallGoes
<1>3. ASSUME NEW i \in Attempts, Settles(i)  PROVE RetryInv'
  BY <1>3 DEF Settles
<1>4. CASE Responds
  BY <1>4 DEF Responds, CallGoes, Sees
<1>5. CASE TransportFails
  BY <1>5 DEF TransportFails, CallGoes, Sees, AfterFailure
<1>6. CASE ReadFails
  BY <1>6 DEF ReadFails, CallGoes, AfterFailure
<1>7. CASE ReadsAll
  BY <1>7 DEF ReadsAll, CallGoes
<1>8. CASE WakesUp
  BY <1>8 DEF WakesUp, CallGoes
<1>9. CASE Cancels
  BY <1>9 DEF Cancels
<1>10. CASE UNCHANGED retryVars
  BY <1>10
<1> QED
  BY <1>1, <1>2, <1>3, <1>4, <1>5, <1>6, <1>7, <1>8, <1>9, <1>10 DEF RetryNext

(* A request that is not idempotent is carried out a second time only if the  *)
(* client saw the earlier attempt fail in transport (requests.go:279-297).    *)
THEOREM RepeatsAreBroken == RetrySpec => []RepeatsOnlyBroken
<1>1. RetryInit => RetryInv
  BY RetriesAssumption DEF RetryInit, RetryInv, Attempts
<1>2. RetryInv /\ [RetryNext]_retryVars => RetryInv'
  BY RetryGoesOn
<1>3. RetryInv => RepeatsOnlyBroken
  BY RetriesAssumption DEF RetryInv, RepeatsOnlyBroken, Executions, Attempts
<1> QED
  BY <1>1, <1>2, <1>3, PTL DEF RetrySpec

-----------------------------------------------------------------------------
(* Lifecycle: as long as the server serves everything is open; CloseAll has   *)
(* closed what is above its turn and has not touched what is below.           *)
LifeInv ==
  /\ LifeTypeOK
  /\ life \in {"serving", "draining"} => \A i \in 1..Resources : resource[i] = "open"
  /\ Running # {} /\ ~overran => life \in {"serving", "draining"}
  /\ life \in {"init", "failed"} => \A i \in 1..Resources : resource[i] \in {"unopened", "open"}
  /\ life = "closing" /\ turn > 0 =>
       \A i \in 1..Resources : /\ i > turn => resource[i] = "closed"
                               /\ i < turn => resource[i] = "open"
  /\ LaterClosedFirst

(* What serves is open, and closing goes from the last to the first. *)
LEMMA LifeGoesOn ==
  ASSUME LifeInv, [LifeNext]_lifeVars
  PROVE  LifeInv'
<1> USE ResourcesAssumption DEF LifeInv, LifeTypeOK, Running, LaterClosedFirst, lifeVars
<1>1. ASSUME NEW i \in 1..Resources, Opens(i)  PROVE LifeInv'
  BY <1>1 DEF Opens, Put
<1>2. CASE InitFails
  BY <1>2 DEF InitFails, LifeGoes
<1>3. CASE StartHttpServer
  BY <1>3 DEF StartHttpServer, LifeGoes
<1>4. CASE Signal
  BY <1>4 DEF Signal, LifeGoes
<1>5. ASSUME NEW h \in Handlers, Accept(h)  PROVE LifeInv'
  BY <1>5 DEF Accept
<1>6. ASSUME NEW h \in Handlers, Answers(h)  PROVE LifeInv'
  BY <1>6 DEF Answers
<1>7. CASE Drains
  BY <1>7 DEF Drains, LifeGoes
<1>8. CASE DrainTimesOut
  BY <1>8 DEF DrainTimesOut, LifeGoes
<1>9. CASE StartsCloser
  BY <1>9 DEF StartsCloser, Put
<1>10. ASSUME NEW i \in 1..Resources, CloserReturns(i)  PROVE LifeInv'
  BY <1>10 DEF CloserReturns, Put
<1>11. ASSUME NEW i \in 1..Resources, CloserPanics(i)  PROVE LifeInv'
  BY <1>11 DEF CloserPanics, LifeGoes
<1>12. CASE BreaksOff
  BY <1>12 DEF BreaksOff
<1>13. CASE CloseTimesOut
  BY <1>13 DEF CloseTimesOut
<1>14. CASE CloseWithContextReturns
  BY <1>14 DEF CloseWithContextReturns, LifeGoes
<1>15. CASE UNCHANGED lifeVars
  BY <1>15
<1> QED
  BY <1>1, <1>2, <1>3, <1>4, <1>5, <1>6, <1>7, <1>8, <1>9, <1>10, <1>11, <1>12,
     <1>13, <1>14, <1>15 DEF LifeNext

(* At first nothing is open. *)
LEMMA LifeStarts == LifeInit => LifeInv
<1> SUFFICES ASSUME LifeInit  PROVE LifeInv
  OBVIOUS
<1>1. LifeTypeOK
  <2>1. turn \in 0..Resources
    BY ResourcesAssumption DEF LifeInit
  <2>2. timeUp \in BOOLEAN /\ overran \in BOOLEAN
    BY DEF LifeInit
  <2> QED
    BY <2>1, <2>2 DEF LifeInit, LifeTypeOK
<1>2. Running = {}
  BY DEF LifeInit, Running
<1>3. LaterClosedFirst
  BY DEF LifeInit, LaterClosedFirst
<1> QED
  BY <1>1, <1>2, <1>3 DEF LifeInit, LifeInv

(* The invariant of the process from start to exit. *)
LEMMA LifeInvariant == LifeSpec => []LifeInv
<1>1. LifeInv /\ [LifeNext]_lifeVars => LifeInv'
  BY LifeGoesOn
<1> QED
  BY <1>1, LifeStarts, PTL DEF LifeSpec

(* Unless the drain ran out of time, no request runs while something it uses  *)
(* is not open (http_server.go:62-71, main.go).                               *)
THEOREM RequestsAreServed == LifeSpec => []RequestsKeepResources
<1>1. LifeInv => RequestsKeepResources
  BY DEF LifeInv, RequestsKeepResources
<1> QED
  BY <1>1, LifeInvariant, PTL

(* "后注册先关闭" (builder.go:124), also when closers hang, panic or are left *)
(* out because the time is up.                                                *)
THEOREM ClosingOrder == LifeSpec => []LaterClosedFirst
<1>1. LifeInv => LaterClosedFirst
  BY DEF LifeInv
<1> QED
  BY <1>1, LifeInvariant, PTL

(* CloseAll that got to its end in time has closed everything. *)
ClosesAll ==
  life \in {"closing", "ended"} /\ ~timeUp /\ (life = "closing" => turn = 0) =>
    \A i \in 1..Resources : resource[i] = "closed"

LEMMA ClosesAllGoesOn ==
  ASSUME LifeInv, ClosesAll, [LifeNext]_lifeVars
  PROVE  ClosesAll'
<1> USE ResourcesAssumption DEF ClosesAll
<1>0. turn \in 0..Resources /\ resource \in [1..Resources -> {"unopened", "open", "closing", "closed"}]
  BY DEF LifeInv, LifeTypeOK
<1>1. ASSUME NEW i \in 1..Resources, Opens(i)  PROVE ClosesAll'
  BY <1>1 DEF Opens
<1>2. CASE InitFails \/ StartHttpServer \/ Signal
  BY <1>2 DEF InitFails, StartHttpServer, Signal, LifeGoes
<1>3. ASSUME NEW h \in Handlers, Accept(h) \/ Answers(h)  PROVE ClosesAll'
  BY <1>3 DEF Accept, Answers
<1>4. CASE Drains \/ DrainTimesOut
  BY <1>4 DEF Drains, DrainTimesOut, LifeGoes
<1>5. CASE StartsCloser
  BY <1>0, <1>5 DEF StartsCloser
<1>6. ASSUME NEW i \in 1..Resources, CloserReturns(i)  PROVE ClosesAll'
  <2>1. resource[i] = "closing" /\ resource' = [resource EXCEPT ![i] = "closed"]
        /\ turn' = (IF turn = i THEN i - 1 ELSE turn) /\ life' = "closing" /\ timeUp' = timeUp
    BY <1>6 DEF CloserReturns, Put
  <2>2. turn' = 0 /\ ~timeUp => turn = i /\ i = 1
    BY <1>0, <1>6, <2>1 DEF CloserReturns
  <2>3. turn = 1 => \A j \in 1..Resources : j > 1 => resource[j] = "closed"
    BY <1>6 DEF CloserReturns, LifeInv
  <2> QED
    BY <1>0, <2>1, <2>2, <2>3
<1>7. ASSUME NEW i \in 1..Resources, CloserPanics(i)  PROVE ClosesAll'
  BY <1>7 DEF CloserPanics, LifeGoes
<1>8. CASE BreaksOff \/ CloseTimesOut
  BY <1>8 DEF BreaksOff, CloseTimesOut
<1>9. CASE CloseWithContextReturns
  BY <1>9 DEF CloseWithContextReturns, LifeGoes
<1>10. CASE UNCHANGED lifeVars
  BY <1>10 DEF lifeVars
<1> QED
  BY <1>1, <1>2, <1>3, <1>4, <1>5, <1>6, <1>7, <1>8, <1>9, <1>10 DEF LifeNext

(* A CloseWithContext that returns before its time is up leaves no resource   *)
(* open and no closer running (container.go, CloseAll in builder.go).         *)
THEOREM TimelyEndClosesAll ==
  LifeSpec => [](life = "ended" /\ ~timeUp => \A i \in 1..Resources : resource[i] = "closed")
<1>1. LifeInit => ClosesAll
  BY DEF LifeInit, ClosesAll
<1>2. LifeInv /\ ClosesAll /\ [LifeNext]_lifeVars => ClosesAll'
  BY ClosesAllGoesOn
<1>3. ClosesAll => (life = "ended" /\ ~timeUp => \A i \in 1..Resources : resource[i] = "closed")
  BY DEF ClosesAll
<1> QED
  BY <1>1, <1>2, <1>3, LifeInvariant, PTL DEF LifeSpec

-----------------------------------------------------------------------------
(* MessageAssembly: a publisher's message, maps and id at each stage.         *)
Calling(p) == stage[p] # "idle"

AssemblyTypes ==
  /\ headers \in [Msgs -> Maps] /\ messageId \in [Msgs -> Ids \cup {NoId}]
  /\ xDelay \in [Maps -> Delays \cup {NoDelay}]
  /\ Base \in made /\ shared \subseteq Msgs
  /\ stage \in [Publishers -> {"idle", "assigning", "stamping", "naming", "building", "sending"}]
  /\ DOMAIN pub = Publishers /\ DOMAIN out = Publishers
  /\ firstId \in [Msgs -> Ids \cup {NoId}]
  /\ \A p \in Publishers : Calling(p) =>
       pub[p] \in [msg : Msgs, asked : Delays \cup {NoDelay}, map : Maps, id : Ids \cup {NoId}]

(* A message in one call at a time is in no other's hands.                    *)
OneCall ==
  \A p, q \in Publishers :
    Calling(p) /\ Calling(q) /\ pub[p].msg = pub[q].msg => p = q \/ pub[p].msg \in shared

(* A delay is in the map of the call that asked for it, and so is in the      *)
(* message's headers from the assignment on.                                  *)
DelayInPlace ==
  /\ \A m \in Msgs : headers[m] \in made
  /\ \A p \in Publishers : stage[p] = "assigning" => pub[p].asked # NoDelay
  /\ \A p \in Publishers : Calling(p) /\ pub[p].asked # NoDelay =>
       /\ stage[p] \in {"assigning", "sending"} => pub[p].map \in made
       /\ stage[p] = "assigning" => xDelay[pub[p].map] = pub[p].asked
       /\ stage[p] = "sending" /\ pub[p].msg \notin shared => xDelay[pub[p].map] = pub[p].asked
       /\ stage[p] \in {"stamping", "naming", "building"} /\ pub[p].msg \notin shared =>
            xDelay[headers[pub[p].msg]] = pub[p].asked

(* A message once named keeps its id, and is sent with it.                    *)
IdInPlace ==
  /\ \A p \in Publishers : Calling(p) =>
       LET m == pub[p].msg IN
       /\ stage[p] = "naming" => m \in shared \/ messageId[m] = NoId
       /\ stage[p] \in {"building", "sending"} => messageId[m] # NoId
       /\ stage[p] = "sending" => pub[p].id # NoId /\ (m \in shared \/ pub[p].id = messageId[m])
  /\ \A m \in Msgs \ shared : firstId[m] \in {NoId, messageId[m]}

(* What went out, of a message that was in one call at a time.                *)
SentSound ==
  \A p \in Publishers : out[p] # Nothing =>
    /\ out[p].msg \in Msgs /\ firstId[out[p].msg] # NoId
    /\ out[p].msg \notin shared => OwnDelay(out[p]) /\ SameId(out[p])

AssemblyInv == AssemblyTypes /\ OneCall /\ DelayInPlace /\ IdInPlace /\ SentSound

(* No call disturbs what another is doing with a message of its own. *)
LEMMA AssemblyGoesOn ==
  ASSUME AssemblyInv, [AssemblyNext]_assemblyVars
  PROVE  AssemblyInv'
<1> USE BaseAssumption, AbsentAssumption DEF AssemblyInv, AssemblyTypes, Calling, To
<1>1. ASSUME NEW p \in Publishers, StartsPlain(p)  PROVE AssemblyInv'
  <2>1. AssemblyTypes'
    BY <1>1 DEF StartsPlain, Takes
  <2>2. OneCall'
    BY <1>1, <2>1 DEF StartsPlain, Takes, OneCall
  <2>3. DelayInPlace'
    BY <1>1, <2>1 DEF StartsPlain, Takes, DelayInPlace
  <2>4. IdInPlace'
    BY <1>1, <2>1 DEF StartsPlain, Takes, IdInPlace
  <2>5. SentSound'
    BY <1>1, <2>1 DEF StartsPlain, Takes, SentSound, OwnDelay, SameId
  <2> QED
    BY <2>1, <2>2, <2>3, <2>4, <2>5
<1>2. ASSUME NEW p \in Publishers, StartsDelayed(p)  PROVE AssemblyInv'
  <2>1. AssemblyTypes'
    BY <1>2 DEF StartsDelayed, Takes
  <2>2. OneCall'
    BY <1>2, <2>1 DEF StartsDelayed, Takes, OneCall
  <2>3. DelayInPlace'
    BY <1>2, <2>1 DEF StartsDelayed, Takes, DelayInPlace
  <2>4. IdInPlace'
    BY <1>2, <2>1 DEF StartsDelayed, Takes, IdInPlace
  <2>5. SentSound'
    BY <1>2, <2>1 DEF StartsDelayed, Takes, SentSound, OwnDelay, SameId
  <2> QED
    BY <2>1, <2>2, <2>3, <2>4, <2>5
<1>3. ASSUME NEW p \in Publishers, AssignsHeaders(p)  PROVE AssemblyInv'
  <2>1. AssemblyTypes'
    BY <1>3 DEF AssignsHeaders
  <2>2. OneCall'
    BY <1>3, <2>1 DEF AssignsHeaders, OneCall
  <2>3. DelayInPlace'
    BY <1>3, <2>1 DEF AssignsHeaders, DelayInPlace, OneCall
  <2>4. IdInPlace'
    BY <1>3, <2>1 DEF AssignsHeaders, IdInPlace
  <2>5. SentSound'
    BY <1>3, <2>1 DEF AssignsHeaders, SentSound, OwnDelay, SameId
  <2> QED
    BY <2>1, <2>2, <2>3, <2>4, <2>5
<1>4. ASSUME NEW p \in Publishers, HasId(p)  PROVE AssemblyInv'
  <2>1. AssemblyTypes'
    BY <1>4 DEF HasId
  <2>2. OneCall'
    BY <1>4, <2>1 DEF HasId, OneCall
  <2>3. DelayInPlace'
    BY <1>4, <2>1 DEF HasId, DelayInPlace
  <2>4. IdInPlace'
    BY <1>4, <2>1 DEF HasId, IdInPlace
  <2>5. SentSound'
    BY <1>4, <2>1 DEF HasId, SentSound, OwnDelay, SameId
  <2> QED
    BY <2>1, <2>2, <2>3, <2>4, <2>5
<1>5. ASSUME NEW p \in Publishers, LacksId(p)  PROVE AssemblyInv'
  <2>1. AssemblyTypes'
    BY <1>5 DEF LacksId
  <2>2. OneCall'
    BY <1>5, <2>1 DEF LacksId, OneCall
  <2>3. DelayInPlace'
    BY <1>5, <2>1 DEF LacksId, DelayInPlace
  <2>4. IdInPlace'
    BY <1>5, <2>1 DEF LacksId, IdInPlace
  <2>5. SentSound'
    BY <1>5, <2>1 DEF LacksId, SentSound, OwnDelay, SameId
  <2> QED
    BY <2>1, <2>2, <2>3, <2>4, <2>5
<1>6. ASSUME NEW p \in Publishers, Names(p)  PROVE AssemblyInv'
  <2>1. AssemblyTypes'
    BY <1>6 DEF Names
  <2>2. OneCall'
    BY <1>6, <2>1 DEF Names, OneCall
  <2>3. DelayInPlace'
    BY <1>6, <2>1 DEF Names, DelayInPlace
  <2>4. IdInPlace'
    BY <1>6, <2>1 DEF Names, IdInPlace, OneCall
  <2>5. SentSound'
    BY <1>6, <2>1 DEF Names, SentSound, OwnDelay, SameId
  <2> QED
    BY <2>1, <2>2, <2>3, <2>4, <2>5
<1>7. ASSUME NEW p \in Publishers, Builds(p)  PROVE AssemblyInv'
  <2>1. AssemblyTypes'
    BY <1>7 DEF Builds
  <2>2. OneCall'
    BY <1>7, <2>1 DEF Builds, OneCall
  <2>3. DelayInPlace'
    BY <1>7, <2>1 DEF Builds, DelayInPlace
  <2>4. IdInPlace'
    BY <1>7, <2>1 DEF Builds, IdInPlace
  <2>5. SentSound'
    BY <1>7, <2>1 DEF Builds, SentSound, OwnDelay, SameId
  <2> QED
    BY <2>1, <2>2, <2>3, <2>4, <2>5
<1>8. ASSUME NEW p \in Publishers, Emits(p)  PROVE AssemblyInv'
  <2>1. AssemblyTypes'
    BY <1>8 DEF Emits
  <2>2. OneCall'
    BY <1>8, <2>1 DEF Emits, OneCall
  <2>3. DelayInPlace'
    BY <1>8, <2>1 DEF Emits, DelayInPlace
  <2>4. IdInPlace'
    BY <1>8, <2>1 DEF Emits, IdInPlace
  <2>5. SentSound'
    BY <1>8, <2>1 DEF Emits, SentSound, OwnDelay, SameId, DelayInPlace, IdInPlace
  <2> QED
    BY <2>1, <2>2, <2>3, <2>4, <2>5
<1>9. CASE UNCHANGED assemblyVars
  BY <1>9 DEF assemblyVars, OneCall, DelayInPlace, IdInPlace, SentSound, OwnDelay, SameId
<1> QED
  BY <1>1, <1>2, <1>3, <1>4, <1>5, <1>6, <1>7, <1>8, <1>9 DEF AssemblyNext

(* A message that no two calls had at a time goes out with the delay its call *)
(* asked for and with one id, whatever other calls do (producer.go:72-140).   *)
THEOREM MessagesAreSentAsAsked == AssemblySpec => []SentAsAsked
<1>1. AssemblyInit => AssemblyInv
  BY BaseAssumption, AbsentAssumption
     DEF AssemblyInit, AssemblyInv, AssemblyTypes, OneCall, DelayInPlace, IdInPlace, SentSound,
         Calling
<1>2. AssemblyInv /\ [AssemblyNext]_assemblyVars => AssemblyInv'
  BY AssemblyGoesOn
<1>3. AssemblyInv => SentAsAsked
  BY DEF AssemblyInv, SentSound, SentAsAsked, Sent
<1> QED
  BY <1>1, <1>2, <1>3, PTL DEF AssemblySpec

-----------------------------------------------------------------------------
(* Topology: the steps a declarer has behind it are in place.                 *)
TopologyInv ==
  /\ TopologyTypeOK
  /\ \A d \in Declarers :
       /\ place[d] \in {"opening", "waiting"} => nextStep[d] = 1
       /\ place[d] = "declaring" => \A i \in 1..(nextStep[d] - 1) : InPlace(d, Plan[i])
       /\ place[d] = "declared"  => \A i \in 1..Len(Plan) : InPlace(d, Plan[i])

(* The plan has six steps, and what it declares are Things. *)
LEMMA PlanSteps ==
  /\ Len(Plan) = 6 /\ DOMAIN Plan = 1..6
  /\ \A i \in 1..6 : IsDeclare(Plan[i]) => Plan[i].declare \in Things
<1> DEFINE first  == Loop("NormalExchange", "NormalQueue")
           second == Loop("DelayedExchange", "DelayedQueue")
           S == {first[1], first[2], first[3], second[1], second[2], second[3]}
<1>1. /\ first = <<first[1], first[2], first[3]>> /\ second = <<second[1], second[2], second[3]>>
  BY DEF Loop
<1>2. /\ first[1].declare \in Things /\ first[2].declare \in Things /\ ~IsDeclare(first[3])
      /\ second[1].declare \in Things /\ second[2].declare \in Things /\ ~IsDeclare(second[3])
  BY DEF Loop, Things, IsDeclare
<1>3. Plan = first \o second
  BY DEF Plan
<1> HIDE DEF first, second
<1>4. /\ Len(Plan) = 6 /\ DOMAIN Plan = 1..6
      /\ Plan[1] = first[1] /\ Plan[2] = first[2] /\ Plan[3] = first[3]
      /\ Plan[4] = second[1] /\ Plan[5] = second[2] /\ Plan[6] = second[3]
  <2>1. /\ <<first[1], first[2], first[3]>> \in Seq(S)
        /\ <<second[1], second[2], second[3]>> \in Seq(S)
    OBVIOUS
  <2>2. first \in Seq(S) /\ second \in Seq(S) /\ Len(first) = 3 /\ Len(second) = 3
    BY <1>1, <2>1
  <2> HIDE DEF S
  <2>3. /\ Plan \in Seq(S) /\ Len(Plan) = 3 + 3
        /\ \A i \in 1..(3 + 3) : Plan[i] = IF i <= 3 THEN first[i] ELSE second[i - 3]
    <3>1. /\ first \o second \in Seq(S) /\ Len(first \o second) = Len(first) + Len(second)
          /\ \A i \in 1..(Len(first) + Len(second)) :
               (first \o second)[i] = IF i <= Len(first) THEN first[i] ELSE second[i - Len(first)]
      BY <2>2, ConcatProperties, Zenon
    <3> QED
      BY <1>3, <2>2, <3>1, Zenon
  <2> QED
    BY <2>3
<1>5. \A i \in 1..6 : i \in {1, 2, 4, 5} \/ i = 3 \/ i = 6
  OBVIOUS
<1> QED
  BY <1>2, <1>4, <1>5

(* Nothing that is in place is taken away or replaced. *)
LEMMA TopologyStays ==
  ASSUME TopologyTypeOK, NEW e \in Declarers, NEW i \in 1..6,
         Accepts(e, Plan[i]), TakesEffect(e, Plan[i])
  PROVE  /\ form' \in [Things -> {"absent", "old", "new"}]
         /\ InPlace(e, Plan[i])'
         /\ \A d \in Declarers, j \in 1..6 : InPlace(d, Plan[j]) => InPlace(d, Plan[j])'
<1>1. IsDeclare(Plan[i]) => Plan[i].declare \in Things
  BY PlanSteps
<1>2. \A d \in Declarers, thing \in Things : Form(d, thing) \in {"old", "new"}
  BY DEF Form
<1>3. CASE IsDeclare(Plan[i])
  BY <1>1, <1>2, <1>3, PlanSteps DEF TopologyTypeOK, Accepts, TakesEffect, InPlace
<1>4. CASE ~IsDeclare(Plan[i])
  BY <1>4 DEF TopologyTypeOK, TakesEffect, InPlace
<1> QED
  BY <1>3, <1>4

LEMMA TopologyGoesOn ==
  ASSUME TopologyInv, [TopologyNext]_topologyVars
  PROVE  TopologyInv'
<1> USE PlanSteps
<1>1. ASSUME UNCHANGED topologyVars  PROVE TopologyInv'
  BY <1>1 DEF topologyVars, declarerVars, TopologyInv, TopologyTypeOK, InPlace
<1>2. ASSUME NEW e \in Declarers, TryFails(e, "opening") \/ TryFails(e, "declaring"),
             \/ UNCHANGED <<form, bound>>
             \/ Accepts(e, Plan[nextStep[e]]) /\ TakesEffect(e, Plan[nextStep[e]])
      PROVE  TopologyInv'
  <2>1. /\ form' \in [Things -> {"absent", "old", "new"}]
        /\ \A d \in Declarers, j \in 1..6 : InPlace(d, Plan[j]) => InPlace(d, Plan[j])'
    <3>1. CASE UNCHANGED <<form, bound>>
      BY <3>1 DEF TopologyInv, TopologyTypeOK, InPlace
    <3>2. CASE Accepts(e, Plan[nextStep[e]]) /\ TakesEffect(e, Plan[nextStep[e]])
      <4>1. PICK i \in 1..6 : i = nextStep[e]
        BY DEF TopologyInv, TopologyTypeOK
      <4>2. TopologyTypeOK /\ Accepts(e, Plan[i]) /\ TakesEffect(e, Plan[i])
        BY <3>2, <4>1 DEF TopologyInv
      <4> QED
        BY <4>2, TopologyStays
    <3> QED
      BY <1>2, <3>1, <3>2
  <2>2. /\ place' = [place EXCEPT ![e] = "waiting"] /\ nextStep' = [nextStep EXCEPT ![e] = 1]
        /\ tries' = [tries EXCEPT ![e] = @ + 1]
    BY <1>2 DEF TryFails, PlaceGoes
  <2>3. TopologyTypeOK'
    BY <2>1, <2>2 DEF TopologyInv, TopologyTypeOK
  <2> QED
    BY <2>1, <2>2, <2>3 DEF TopologyInv, TopologyTypeOK
<1>3. ASSUME NEW e \in Declarers, StepDone(e)  PROVE TopologyInv'
  <2>1. /\ form' \in [Things -> {"absent", "old", "new"}]
        /\ \A i \in 1..6 : i = nextStep[e] => InPlace(e, Plan[i])'
        /\ \A d \in Declarers, j \in 1..6 : InPlace(d, Plan[j]) => InPlace(d, Plan[j])'
    <3>1. PICK i \in 1..6 : i = nextStep[e]
      BY DEF TopologyInv, TopologyTypeOK
    <3>2. TopologyTypeOK /\ Accepts(e, Plan[i]) /\ TakesEffect(e, Plan[i])
      BY <1>3, <3>1 DEF StepDone, TopologyInv
    <3> QED
      BY <3>1, <3>2, TopologyStays
  <2>2. CASE nextStep[e] = 6
    <3>1. place' = [place EXCEPT ![e] = "declared"] /\ UNCHANGED <<nextStep, tries>>
      BY <1>3, <2>2 DEF StepDone, PlaceGoes
    <3>2. TopologyTypeOK'
      BY <2>1, <3>1 DEF TopologyInv, TopologyTypeOK
    <3>3. \A i \in 1..6 : InPlace(e, Plan[i])'
      BY <1>3, <2>1, <2>2 DEF StepDone, TopologyInv
    <3> QED
      BY <2>1, <3>1, <3>2, <3>3 DEF TopologyInv, TopologyTypeOK
  <2>3. CASE nextStep[e] # 6
    <3>1. nextStep' = [nextStep EXCEPT ![e] = @ + 1] /\ UNCHANGED <<place, tries>>
      BY <1>3, <2>3 DEF StepDone
    <3>2. TopologyTypeOK'
      BY <2>1, <2>3, <3>1 DEF TopologyInv, TopologyTypeOK
    <3>3. place[e] = "declaring" /\ nextStep[e] \in 1..5 /\ nextStep'[e] = nextStep[e] + 1
      BY <1>3, <2>3, <3>1 DEF StepDone, TopologyInv, TopologyTypeOK
    <3>4. \A i \in 1..(nextStep'[e] - 1) : InPlace(e, Plan[i])'
      BY <2>1, <3>3 DEF TopologyInv
    <3>5. ASSUME NEW d \in Declarers, d # e
          PROVE  /\ place'[d] = place[d] /\ nextStep'[d] = nextStep[d]
                 /\ \A j \in 1..6 : InPlace(d, Plan[j]) => InPlace(d, Plan[j])'
                 /\ nextStep[d] \in 1..6
      BY <2>1, <3>1, <3>5 DEF TopologyInv, TopologyTypeOK
    <3> QED
      BY <3>1, <3>2, <3>3, <3>4, <3>5 DEF TopologyInv
  <2> QED
    BY <2>2, <2>3
<1>4. ASSUME NEW e \in Declarers, OpensChannel(e) \/ TriesAgain(e) \/ StopsTrying(e) \/ TimeIsUp(e)
      PROVE  TopologyInv'
  <2>1. /\ UNCHANGED <<form, bound, nextStep, tries>>
        /\ \/ place[e] = "opening" /\ place' = [place EXCEPT ![e] = "declaring"]
           \/ place[e] = "waiting" /\ place' = [place EXCEPT ![e] = "opening"]
           \/ place[e] = "waiting" /\ place' = [place EXCEPT ![e] = "failed"]
           \/ UNCHANGED place
    BY <1>4 DEF OpensChannel, TriesAgain, StopsTrying, TimeIsUp, PlaceGoes
  <2> QED
    BY <2>1 DEF TopologyInv, TopologyTypeOK, InPlace
<1> QED
  BY <1>1, <1>2, <1>3, <1>4 DEF TopologyNext, ChannelFails, StepRefused, StepBreaks

(* A declarer that reports success leaves everything it declares in place and *)
(* the way it declares it (main.go:101), for any number of declarers of both  *)
(* versions, whatever changed between them and however calls fail.            *)
THEOREM DeclaredIsInPlace == TopologySpec => []SuccessMeansInPlace
<1>1. TopologyInit => TopologyInv
  BY PlanSteps DEF TopologyInit, TopologyInv, TopologyTypeOK
<1>2. TopologyInv /\ [TopologyNext]_topologyVars => TopologyInv'
  BY TopologyGoesOn
<1>3. TopologyInv => SuccessMeansInPlace
  BY PlanSteps DEF TopologyInv, SuccessMeansInPlace
<1> QED
  BY <1>1, <1>2, <1>3, PTL DEF TopologySpec
===============================================================================
