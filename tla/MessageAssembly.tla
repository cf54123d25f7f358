----------------------------- MODULE MessageAssembly -----------------------------
(***************************************************************************)
(* Publish and PublishDelayed of pkg/xmq/rabbitmq/producer.go up to the    *)
(* channel: what they make of the caller's *Message, which the caller may  *)
(* publish again, or from another goroutine at the same time.  Messages    *)
(* may have been built with one headers map.  Body and timestamp are left  *)
(* out, and so is whether the broker confirms (ConfirmChannel): a caller   *)
(* may publish again after either answer.                                  *)
(***************************************************************************)
CONSTANTS
  Publishers,           \* goroutines
  Msgs,                 \* the callers' messages
  Maps, Base,           \* header maps of a run, the one all messages are built with
  Delays, NoDelay,      \* values of x-delay, and its absence
  Ids, NoId,            \* what GenerateID can make, and ""
  Nothing               \* no call

ASSUME BaseAssumption    == Base \in Maps /\ Maps \cap Ids = {}
ASSUME AbsentAssumption  == NoDelay \notin Delays /\ NoId \notin Ids
ASSUME NothingAssumption ==
  Nothing \notin [msg : Msgs, asked : Delays \cup {NoDelay}, map : Maps, id : Ids \cup {NoId}]

VARIABLES
  headers, messageId,   \* of each message
  xDelay,               \* the x-delay entry of each map
  made,                 \* maps and ids made so far
  stage, pub,           \* each publisher's place, and its message, delay, map and id
  out,                  \* history: of the last message it sent, with the delay it carried
  firstId,              \* history: the id each message was first sent with
  shared                \* history: messages that two calls had at a time

assemblyVars == <<headers, messageId, xDelay, made, stage, pub, out, firstId, shared>>

AssemblyInit ==
  /\ headers = [m \in Msgs |-> Base] /\ messageId = [m \in Msgs |-> NoId]
  /\ xDelay = [k \in Maps |-> NoDelay]
  /\ made = {Base}
  /\ stage = [p \in Publishers |-> "idle"] /\ pub = [p \in Publishers |-> Nothing]
  /\ out = [p \in Publishers |-> Nothing]
  /\ firstId = [m \in Msgs |-> NoId] /\ shared = {}

To(p, from, to) == stage[p] = from /\ stage' = [stage EXCEPT ![p] = to]

Takes(p, m, d, k) ==
  /\ pub' = [pub EXCEPT ![p] = [msg |-> m, asked |-> d, map |-> k, id |-> NoId]]
  /\ out' = [out EXCEPT ![p] = Nothing]
  /\ shared' = IF \E q \in Publishers \ {p} : stage[q] # "idle" /\ pub[q].msg = m
                 THEN shared \cup {m} ELSE shared

StartsPlain(p) ==
  /\ To(p, "idle", "stamping")
  /\ \E m \in Msgs : Takes(p, m, NoDelay, Base)
  /\ UNCHANGED <<headers, messageId, xDelay, made, firstId>>

(* The headers are cloned, and the clone gets the delay ... *)
StartsDelayedInPlace(p) ==             \* faulty variant: without the clone
  /\ To(p, "idle", "assigning")
  /\ \E m \in Msgs, d \in Delays :
       /\ Takes(p, m, d, headers[m])
       /\ xDelay' = [xDelay EXCEPT ![headers[m]] = d]
  /\ UNCHANGED <<headers, messageId, made, firstId>>
StartsDelayed(p) ==
  /\ To(p, "idle", "assigning")
  /\ \E m \in Msgs, d \in Delays, k \in Maps \ made :
       /\ Takes(p, m, d, k)
       /\ xDelay' = [xDelay EXCEPT ![k] = d]
       /\ made' = made \cup {k}
  /\ UNCHANGED <<headers, messageId, firstId>>

(* ... and becomes the message's own. *)
AssignsHeaders(p) ==
  /\ To(p, "assigning", "stamping")
  /\ headers' = [headers EXCEPT ![pub[p].msg] = pub[p].map]
  /\ UNCHANGED <<messageId, xDelay, made, pub, out, firstId, shared>>

HasId(p) ==
  /\ To(p, "stamping", "building")
  /\ messageId[pub[p].msg] # NoId
  /\ UNCHANGED <<headers, messageId, xDelay, made, pub, out, firstId, shared>>

LacksId(p) ==
  /\ To(p, "stamping", "naming")
  /\ messageId[pub[p].msg] = NoId
  /\ UNCHANGED <<headers, messageId, xDelay, made, pub, out, firstId, shared>>

Names(p) ==
  /\ To(p, "naming", "building")
  /\ \E i \in Ids \ made :
       /\ messageId' = [messageId EXCEPT ![pub[p].msg] = i]
       /\ made' = made \cup {i}
  /\ UNCHANGED <<headers, xDelay, pub, out, firstId, shared>>

(* amqp.Publishing takes the map itself, whatever it is by now. *)
Builds(p) ==
  /\ To(p, "building", "sending")
  /\ LET m == pub[p].msg IN
       pub' = [pub EXCEPT ![p].map = headers[m], ![p].id = messageId[m]]
  /\ UNCHANGED <<headers, messageId, xDelay, made, out, firstId, shared>>

(* cm.Publish encodes the message, and answers ok or an error. *)
Emits(p) ==
  /\ To(p, "sending", "idle")
  /\ LET m == pub[p].msg IN
       /\ out' = [out EXCEPT ![p] = [msg |-> m, asked |-> pub[p].asked, id |-> pub[p].id,
                                     delay |-> xDelay[pub[p].map]]]
       /\ firstId' = IF firstId[m] = NoId THEN [firstId EXCEPT ![m] = pub[p].id] ELSE firstId
  /\ pub' = [pub EXCEPT ![p] = Nothing]
  /\ UNCHANGED <<headers, messageId, xDelay, made, shared>>

AssemblyNext == \E p \in Publishers :
  \/ StartsPlain(p) \/ StartsDelayed(p) \/ AssignsHeaders(p)
  \/ HasId(p) \/ LacksId(p) \/ Names(p) \/ Builds(p) \/ Emits(p)

AssemblySpec == AssemblyInit /\ [][AssemblyNext]_assemblyVars

-----------------------------------------------------------------------------
Sent == {out[p] : p \in Publishers} \ {Nothing}
OwnDelay(s) == s.asked # NoDelay => s.delay = s.asked
SameId(s)   == s.id = firstId[s.msg]

(* A message that no two calls had at a time goes out with the delay its   *)
(* call asked for, though others were built with the same headers map, and *)
(* with the same id every time: a consumer recognises what is published    *)
(* again after an error (mq.go:53, "用于幂等/追踪").                       *)
SentAsAsked == \A s \in Sent : s.msg \notin shared => OwnDelay(s) /\ SameId(s)
===============================================================================
