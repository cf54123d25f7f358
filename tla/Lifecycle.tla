------------------------------- MODULE Lifecycle -------------------------------
(***************************************************************************)
(* From NewContainer to the end of main (cmd/http/main.go, internal/server *)
(* and internal/di): the resources are opened in order, requests use them, *)
(* and after a signal the server drains for a while and CloseManager       *)
(* closes what it was given, last first, also for a while.                 *)
(*                                                                         *)
(* Resources are numbered in the order they are opened (MySQL, Redis, the  *)
(* producer); what is opened is registered at once.  The parts of the      *)
(* container that hold nothing to close are left out, but building one may *)
(* fail like opening a resource.                                           *)
(***************************************************************************)
EXTENDS Naturals

CONSTANTS
  Resources,            \* how many
  Guarded,              \* those closed within recover (RegisterCtx, RegisterFunc)
  Handlers              \* requests

ASSUME ResourcesAssumption == Resources \in Nat \ {0} /\ Guarded \subseteq 1..Resources

VARIABLES
  life,                 \* where main is
  resource,             \* each resource's state
  turn,                 \* the closer CloseAll has come to, 0 when it has returned
  timeUp,               \* the context of CloseWithContext is done
  handler,              \* each request's state
  overran               \* history: the drain ended with requests running

lifeVars == <<life, resource, turn, timeUp, handler, overran>>

LifeInit ==
  /\ life = "init"
  /\ resource = [i \in 1..Resources |-> "unopened"]
  /\ turn = 0 /\ timeUp = FALSE
  /\ handler = [h \in Handlers |-> "idle"] /\ overran = FALSE

LifeGoes(from, to) == life = from /\ life' = to
Put(i, state) == resource' = [resource EXCEPT ![i] = state]

(* NewContainer. *)
Opens(i) ==
  /\ life = "init" /\ resource[i] = "unopened"
  /\ \A j \in 1..i - 1 : resource[j] = "open"
  /\ Put(i, "open")
  /\ UNCHANGED <<life, turn, timeUp, handler, overran>>

(* "return nil, err" also sets the named result container, which the       *)
(* deferred cleanup then finds nil: it closes nothing.                     *)
InitFails ==
  /\ LifeGoes("init", "failed")
  /\ UNCHANGED <<resource, turn, timeUp, handler, overran>>

StartHttpServer ==
  /\ LifeGoes("init", "serving")
  /\ \A i \in 1..Resources : resource[i] = "open"
  /\ UNCHANGED <<resource, turn, timeUp, handler, overran>>

Accept(h) ==
  /\ life = "serving" /\ handler[h] = "idle"
  /\ handler' = [handler EXCEPT ![h] = "running"]
  /\ UNCHANGED <<life, resource, turn, timeUp, overran>>

Answers(h) ==
  /\ handler[h] = "running"
  /\ handler' = [handler EXCEPT ![h] = "idle"]
  /\ UNCHANGED <<life, resource, turn, timeUp, overran>>

Signal ==
  /\ LifeGoes("serving", "draining")
  /\ UNCHANGED <<resource, turn, timeUp, handler, overran>>

Running == {h \in Handlers : handler[h] = "running"}

(* StopHttpServer: Shutdown returns when no request runs, or after 6 s;    *)
(* main then closes the container.                                         *)
DrainsUnasked ==                       \* faulty variant: Close without Shutdown
  /\ LifeGoes("draining", "closing")
  /\ turn' = Resources
  /\ UNCHANGED <<resource, timeUp, handler, overran>>
Drains ==
  /\ LifeGoes("draining", "closing") /\ Running = {}
  /\ turn' = Resources
  /\ UNCHANGED <<resource, timeUp, handler, overran>>

DrainTimesOut ==
  /\ LifeGoes("draining", "closing") /\ Running # {}
  /\ turn' = Resources /\ overran' = TRUE
  /\ UNCHANGED <<resource, timeUp, handler>>

(* CloseAll's loop, in a goroutine of its own. *)
StartsCloser ==
  /\ life = "closing" /\ turn > 0 /\ ~timeUp
  /\ resource[turn] = "open"
  /\ Put(turn, "closing")
  /\ UNCHANGED <<life, turn, timeUp, handler, overran>>

(* It returns, with an error or not; or it panics where recover catches it. *)
CloserReturns(i) ==
  /\ life = "closing" /\ resource[i] = "closing"
  /\ Put(i, "closed")
  /\ turn' = IF turn = i THEN i - 1 ELSE turn
  /\ UNCHANGED <<life, timeUp, handler, overran>>

(* Register runs Close in a goroutine, out of reach of recover. *)
CloserPanics(i) ==
  /\ LifeGoes("closing", "crashed")
  /\ resource[i] = "closing" /\ i \notin Guarded
  /\ UNCHANGED <<resource, turn, timeUp, handler, overran>>

(* With its time up the loop waits for Register's closers no more, and     *)
(* starts no other.                                                        *)
BreaksOff ==
  /\ life = "closing" /\ turn > 0 /\ timeUp
  /\ resource[turn] = "open" \/ turn \notin Guarded
  /\ turn' = 0
  /\ UNCHANGED <<life, resource, timeUp, handler, overran>>

CloseTimesOut ==
  /\ life = "closing" /\ ~timeUp
  /\ timeUp' = TRUE
  /\ UNCHANGED <<life, resource, turn, handler, overran>>

(* CloseWithContext returns, and main with it. *)
CloseReturnsJoined ==                  \* faulty variant: waits for CloseAll, however long
  /\ LifeGoes("closing", "ended")
  /\ turn = 0
  /\ UNCHANGED <<resource, turn, timeUp, handler, overran>>
CloseWithContextReturns ==
  /\ LifeGoes("closing", "ended")
  /\ turn = 0 \/ timeUp
  /\ UNCHANGED <<resource, turn, timeUp, handler, overran>>

LifeNext ==
  \/ \E i \in 1..Resources : Opens(i) \/ CloserReturns(i) \/ CloserPanics(i)
  \/ InitFails \/ StartHttpServer \/ Signal
  \/ \E h \in Handlers : Accept(h) \/ Answers(h)
  \/ Drains \/ DrainTimesOut
  \/ StartsCloser \/ BreaksOff \/ CloseTimesOut \/ CloseWithContextReturns

(* The timers fire and main goes on; a request or a closer may hang.       *)
LifeFairness ==
  /\ WF_lifeVars(Drains \/ DrainTimesOut)
  /\ WF_lifeVars(CloseTimesOut)
  /\ WF_lifeVars(CloseWithContextReturns)

LifeSpec == LifeInit /\ [][LifeNext]_lifeVars /\ LifeFairness

-----------------------------------------------------------------------------
LifeTypeOK ==
  /\ life \in {"init", "failed", "serving", "draining", "closing", "ended", "crashed"}
  /\ resource \in [1..Resources -> {"unopened", "open", "closing", "closed"}]
  /\ turn \in 0..Resources /\ timeUp \in BOOLEAN
  /\ handler \in [Handlers -> {"idle", "running"}] /\ overran \in BOOLEAN

(* What a running request uses is open, unless the drain ran out of time   *)
(* ("将未处理完的请求处理完再关闭服务", http_server.go:65).                *)
RequestsKeepResources ==
  Running # {} /\ ~overran => \A i \in 1..Resources : resource[i] = "open"

(* A resource is closed only after those opened later, and so possibly     *)
(* using it, have been: "后注册先关闭", builder.go:124.                    *)
LaterClosedFirst ==
  \A i, j \in 1..Resources : i < j /\ resource[i] \in {"closing", "closed"} => resource[j] = "closed"

(* After the signal main comes to its end, although requests and closers   *)
(* may hang or panic.                                                      *)
ShutdownEnds == life = "draining" ~> life \in {"ended", "crashed"}
===============================================================================
