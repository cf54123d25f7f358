-------------------------------- MODULE Topology --------------------------------
(***************************************************************************)
(* The exchanges, queues and bindings that publishers and consumers take   *)
(* for granted: DeclareTopology of cmd/mq-declarer/main.go over            *)
(* RegisterAll of pkg/xmq/rabbitmq/register.go, run by several instances   *)
(* of the program, some of a newer version.                                *)
(*                                                                         *)
(* The broker is external.  What is there as it is asked for is declared   *)
(* without a change, what is there otherwise is refused, and an answer can *)
(* be lost after the call took effect.  Nothing is deleted.                *)
(***************************************************************************)
EXTENDS Integers, Sequences

CONSTANTS
  Declarers, Newer,     \* runs of the program, those of the newer version
  Changed,              \* what that version declares with another type or arguments
  MaxTries              \* the length of backoffList

Things == {"NormalExchange", "NormalQueue", "DelayedExchange", "DelayedQueue"}

ASSUME VersionsAssumption == Newer \subseteq Declarers /\ Changed \subseteq Things
ASSUME TriesAssumption    == MaxTries \in Nat \ {0}

VARIABLES
  form,                 \* external: how each thing was declared, if it was
  bound,                \* external: the bindings, a queue and its exchange
  place, nextStep,       \* where each declarer is, and the step of RegisterAll it is at
  tries,                \* its failed calls of RegisterAll
  connected,            \* its connection, which is dialled once
  overdue               \* its context is over

declarerVars == <<place, nextStep, tries, connected, overdue>>
topologyVars == <<form, bound, declarerVars>>

Form(d, thing) == IF d \in Newer /\ thing \in Changed THEN "new" ELSE "old"

(* An exchange, then its queue, then the routing key of the queue. *)
Loop(exchange, queue) ==
  <<[declare |-> exchange], [declare |-> queue], [bind |-> <<queue, exchange>>]>>

Plan == Loop("NormalExchange", "NormalQueue") \o Loop("DelayedExchange", "DelayedQueue")

TopologyInit ==
  /\ form = [thing \in Things |-> "absent"] /\ bound = {}
  /\ place = [d \in Declarers |-> "opening"] /\ nextStep = [d \in Declarers |-> 1]
  /\ tries = [d \in Declarers |-> 0]
  /\ connected = [d \in Declarers |-> TRUE] /\ overdue = [d \in Declarers |-> FALSE]

-----------------------------------------------------------------------------
PlaceGoes(d, from, to) == place[d] = from /\ place' = [place EXCEPT ![d] = to]

IsDeclare(step) == "declare" \in DOMAIN step

(* The broker does not refuse the step, and carries it out. *)
Accepts(d, step) ==
  IsDeclare(step) => form[step.declare] \in {"absent", Form(d, step.declare)}

TakesEffect(d, step) ==
  IF IsDeclare(step)
    THEN form' = [form EXCEPT ![step.declare] = Form(d, step.declare)] /\ UNCHANGED bound
    ELSE bound' = bound \cup {step.bind} /\ UNCHANGED form

(* RegisterAll returns an error, and is tried again from its first step. *)
TryFails(d, from) ==
  /\ PlaceGoes(d, from, "waiting")
  /\ tries' = [tries EXCEPT ![d] = @ + 1]
  /\ nextStep' = [nextStep EXCEPT ![d] = 1]
  /\ UNCHANGED overdue

OpensChannel(d) ==
  /\ PlaceGoes(d, "opening", "declaring")
  /\ connected[d]
  /\ UNCHANGED <<form, bound, nextStep, tries, connected, overdue>>

ChannelFails(d) ==
  /\ TryFails(d, "opening")
  /\ \E up \in {connected[d], FALSE} : connected' = [connected EXCEPT ![d] = up]
  /\ UNCHANGED <<form, bound>>

StepDone(d) ==
  /\ place[d] = "declaring" /\ Accepts(d, Plan[nextStep[d]])
  /\ TakesEffect(d, Plan[nextStep[d]])
  /\ IF nextStep[d] = Len(Plan)
       THEN PlaceGoes(d, "declaring", "declared") /\ UNCHANGED nextStep
       ELSE nextStep' = [nextStep EXCEPT ![d] = @ + 1] /\ UNCHANGED place
  /\ UNCHANGED <<tries, connected, overdue>>

(* PRECONDITION_FAILED, which closes the channel. *)
StepRefusedGoesOn(d) ==                \* faulty variant: the error is passed over
  /\ place[d] = "declaring" /\ ~Accepts(d, Plan[nextStep[d]])
  /\ nextStep' = [nextStep EXCEPT ![d] = @ + 1]
  /\ UNCHANGED <<form, bound, place, tries, connected, overdue>>
StepRefused(d) ==
  /\ ~Accepts(d, Plan[nextStep[d]])
  /\ TryFails(d, "declaring")
  /\ UNCHANGED <<form, bound, connected>>

(* The channel or the connection breaks, before the step or after it. *)
StepBreaks(d) ==
  /\ TryFails(d, "declaring")
  /\ \/ UNCHANGED <<form, bound>>
     \/ Accepts(d, Plan[nextStep[d]]) /\ TakesEffect(d, Plan[nextStep[d]])
  /\ \E up \in {connected[d], FALSE} : connected' = [connected EXCEPT ![d] = up]

(* The wait after each failure, the last one too. *)
TriesAgain(d) ==
  /\ IF tries[d] < MaxTries THEN PlaceGoes(d, "waiting", "opening")
                            ELSE PlaceGoes(d, "waiting", "failed")
  /\ UNCHANGED <<form, bound, nextStep, tries, connected, overdue>>

StopsTrying(d) ==
  /\ PlaceGoes(d, "waiting", "failed")
  /\ overdue[d]
  /\ UNCHANGED <<form, bound, nextStep, tries, connected, overdue>>

(* The 30 s of main: RegisterAll itself does not look at them. *)
TimeIsUp(d) ==
  /\ ~overdue[d]
  /\ overdue' = [overdue EXCEPT ![d] = TRUE]
  /\ UNCHANGED <<form, bound, place, nextStep, tries, connected>>

TopologyNext == \E d \in Declarers :
  \/ OpensChannel(d) \/ ChannelFails(d) \/ StepDone(d) \/ StepRefused(d) \/ StepBreaks(d)
  \/ TriesAgain(d) \/ StopsTrying(d) \/ TimeIsUp(d)

TopologySpec == TopologyInit /\ [][TopologyNext]_topologyVars

-----------------------------------------------------------------------------
(* The forms are known, and a declarer that is at work is at a step of the *)
(* plan.                                                                   *)
TopologyTypeOK ==
  /\ form \in [Things -> {"absent", "old", "new"}]
  /\ place \in [Declarers -> {"opening", "declaring", "waiting", "declared", "failed"}]
  /\ nextStep \in [Declarers -> 1..Len(Plan)]
  /\ tries \in [Declarers -> Nat]

InPlace(d, step) ==
  IF IsDeclare(step) THEN form[step.declare] = Form(d, step.declare) ELSE step.bind \in bound

(* A declarer that reports success leaves everything it declares in place  *)
(* and the way it declares it, whatever failed, was refused or was half    *)
(* done before, by itself or by a declarer of another version: two that    *)
(* differ never both succeed ("declare topology success", main.go:101).    *)
SuccessMeansInPlace ==
  \A d \in Declarers : place[d] = "declared" =>
    \A i \in DOMAIN Plan : InPlace(d, Plan[i])
===============================================================================
