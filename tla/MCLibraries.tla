------------------------------ MODULE MCLibraries ------------------------------
(* The components that keep their state to themselves: the login limiter, the *)
(* distributed lock, the token bucket, the retries of outgoing requests, the  *)
(* life of the HTTP server, the assembly of messages, the audit log and the   *)
(* declaration of the topology.  They share no state, so that each behaviour  *)
(* is one of the part that part names, while the others stay where they begin.*)
EXTENDS LoginLimiter, RedisLock, TokenBucket, HttpRetry, Lifecycle,
        MessageAssembly, AuditLog, Topology

(* Credentials as password and access_token, and other fields beside them.    *)
Credentials == {<<2>>, <<2, 3>>}
OtherNames  == {<<3>>, <<3, 2>>}

VARIABLE part

vars == <<limiterVars, lockVars, bucketVars, retryVars, lifeVars, assemblyVars, auditVars,
          topologyVars, part>>

Parts == {"limiter", "lock", "bucket", "retry", "life", "assembly", "audit", "topology"}

(* While another part moves, the outgoing call is of one of its two methods.  *)
Start ==
  /\ LimiterInit /\ LockInit /\ BucketInit /\ RetryInit /\ LifeInit /\ AssemblyInit /\ AuditInit
  /\ TopologyInit
  /\ part \in Parts /\ (part # "retry" => ~idempotent)

Moves(name) == part = name /\ UNCHANGED part

LimiterSteps  == Moves("limiter") /\ LimiterNext
  /\ UNCHANGED <<lockVars, bucketVars, retryVars, lifeVars, assemblyVars, auditVars, topologyVars>>
LockSteps     == Moves("lock") /\ LockNext
  /\ UNCHANGED <<limiterVars, bucketVars, retryVars, lifeVars, assemblyVars, auditVars, topologyVars>>
BucketSteps   == Moves("bucket") /\ BucketNext
  /\ UNCHANGED <<limiterVars, lockVars, retryVars, lifeVars, assemblyVars, auditVars, topologyVars>>
RetrySteps    == Moves("retry") /\ RetryNext
  /\ UNCHANGED <<limiterVars, lockVars, bucketVars, lifeVars, assemblyVars, auditVars, topologyVars>>
LifeSteps     == Moves("life") /\ LifeNext
  /\ UNCHANGED <<limiterVars, lockVars, bucketVars, retryVars, assemblyVars, auditVars, topologyVars>>
AssemblySteps == Moves("assembly") /\ AssemblyNext
  /\ UNCHANGED <<limiterVars, lockVars, bucketVars, retryVars, lifeVars, auditVars, topologyVars>>
AuditSteps    == Moves("audit") /\ CreateOperationLog
  /\ UNCHANGED <<limiterVars, lockVars, bucketVars, retryVars, lifeVars, assemblyVars, topologyVars>>
TopologySteps == Moves("topology") /\ TopologyNext
  /\ UNCHANGED <<limiterVars, lockVars, bucketVars, retryVars, lifeVars, assemblyVars, auditVars>>

Steps == LimiterSteps \/ LockSteps \/ BucketSteps \/ RetrySteps \/ LifeSteps
      \/ AssemblySteps \/ AuditSteps \/ TopologySteps

LibrariesSpec ==
  Start /\ [][Steps]_vars /\ LimiterFairness /\ LifeFairness
===============================================================================
