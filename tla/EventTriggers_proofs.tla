------------------------ MODULE EventTriggers_proofs ------------------------
(***************************************************************************)
(* Proofs about EventTriggers, for any triggers, repeat count and number   *)
(* of events that the bus fails to send: subscribers know the state, and   *)
(* the events of a vehicle's or a boot's life come in order.               *)
(***************************************************************************)
EXTENDS EventTriggers, TLAPS

(* The states of the two latching triggers.                                *)
CommunicationStates == {"established", "disconnected", "inactive"}
EngineStates == {"running", "stopped", "not_running"}

(* Types of what the rest depends on.                                      *)
ShapeInv ==
  /\ kind \in AllKinds
  /\ DOMAIN ctx = {"state", "data", "count", "last", "sent"}
  /\ failed \in Nat
  /\ kind = "communication" => reported.state \in CommunicationStates \union {""}
  /\ kind = "engine" => reported.state \in EngineStates \union {""}
  /\ kind \notin Latching => reported.state \notin CommunicationStates \union EngineStates

(* A trigger knows of the positive state exactly when it has reported it.  *)
LatchInv ==
  failed = 0 =>
    /\ kind = "communication" =>
         ("established" \in seen <=> ctx.state \in {"established", "disconnected"})
    /\ kind = "engine" =>
         ("running" \in seen <=> ctx.state \in {"running", "stopped"})

(* A boot's status is looked at after its recovery was reported only.      *)
RecoverInv ==
  kind = "heartbeat_recovery" /\ (ctx.sent = TRUE \/ ctx.state # "") => "recover" \in seen

TriggersInv == ShapeInv /\ ReportedIsState /\ LatchInv /\ RecoverInv

-----------------------------------------------------------------------------
LEMMA TriggersInvInit == TriggersInit => TriggersInv
<1> SUFFICES ASSUME TriggersInit PROVE TriggersInv
  OBVIOUS
<1>1. /\ kind \in AllKinds /\ failed = 0 /\ seen = {} /\ reported = Nothing
      /\ ctx = [state |-> "", data |-> "none", count |-> 0, last |-> Nothing, sent |-> FALSE]
  BY TriggerAssumption DEF TriggersInit
<1>2. Nothing.state = "" /\ Nothing = [state |-> ctx.state, data |-> ctx.data]
  BY <1>1 DEF Nothing
<1>3. ctx.state = "" /\ ctx.sent = FALSE /\ DOMAIN ctx = {"state", "data", "count", "last", "sent"}
  BY <1>1
<1>4. ShapeInv
  BY <1>1, <1>2, <1>3 DEF ShapeInv, CommunicationStates, EngineStates
<1>5. ReportedIsState
  BY <1>1, <1>2, <1>3 DEF ReportedIsState
<1>6. LatchInv /\ RecoverInv
  BY <1>1, <1>3 DEF LatchInv, RecoverInv
<1>7. QED
  BY <1>4, <1>5, <1>6 DEF TriggersInv

(* What a reading may be.                                                  *)
LEMMA ReadingStates ==
  ASSUME NEW k \in AllKinds \ Latching, NEW r \in Readings(k)
  PROVE  r.state \notin CommunicationStates \union EngineStates \union {""}
<1>1. CASE k = "position"
  BY <1>1 DEF Readings, Plain, CommunicationStates, EngineStates
<1>2. CASE k = "motion"
  BY <1>2 DEF Readings, Plain, CommunicationStates, EngineStates
<1>3. CASE k = "geofence"
  BY <1>3 DEF Readings, Plain, CommunicationStates, EngineStates
<1>4. CASE k \in Heartbeats
  BY <1>4 DEF Readings, Plain, CommunicationStates, EngineStates, Heartbeats
<1>5. CASE k = "temperature"
  BY <1>5 DEF Readings, Plain, CommunicationStates, EngineStates, Heartbeats
<1>6. CASE k \in {"battery", "hook_battery"}
  BY <1>6 DEF Readings, Plain, CommunicationStates, EngineStates, Heartbeats
<1>7. QED
  BY <1>1, <1>2, <1>3, <1>4, <1>5, <1>6 DEF AllKinds, Latching, Repeating

(* An event that was sent is the last one; one that was not sent counts as *)
(* failed.                                                                 *)
LEMMA Sending ==
  ASSUME failed \in Nat, NEW e, Send(e)
  PROVE  /\ failed' \in Nat
         /\ \/ failed' = failed /\ reported' = e /\ seen' = seen \union {e.state}
            \/ failed' # failed /\ failed' # 0 /\ reported' = reported /\ seen' = seen
  BY DEF Send

(* A state that changes is reported, one that stays has been.              *)
LEMMA Changing ==
  ASSUME ShapeInv, NEW state, NEW data, ChangeTo(state, data)
  PROVE  /\ DOMAIN ctx' = {"state", "data", "count", "last", "sent"}
         /\ ctx'.state = state /\ ctx'.data = data /\ ctx'.sent = ctx.sent
         /\ failed' \in Nat
         /\ \/ ctx' = ctx /\ failed' = failed /\ reported' = reported /\ seen' = seen
            \/ /\ failed' = failed /\ reported' = [state |-> state, data |-> data]
               /\ seen' = seen \union {state}
            \/ failed' # 0 /\ reported' = reported /\ seen' = seen
<1>0. DOMAIN ctx = {"state", "data", "count", "last", "sent"} /\ failed \in Nat
  BY DEF ShapeInv
<1>1. ctx' = [ctx EXCEPT !.state = state, !.data = data]
  BY DEF ChangeTo
<1>2. /\ DOMAIN ctx' = {"state", "data", "count", "last", "sent"}
      /\ ctx'.state = state /\ ctx'.data = data /\ ctx'.sent = ctx.sent
  BY <1>0, <1>1
<1>3. CASE ctx' = ctx
  BY <1>0, <1>2, <1>3 DEF ChangeTo, NoEvent
<1>4. CASE ctx' # ctx
  <2>1. Send([state |-> state, data |-> data])
    BY <1>4 DEF ChangeTo
  <2>2. QED
    BY <1>0, <1>2, <2>1, Sending
<1>5. QED
  BY <1>3, <1>4

(* The parts of the invariant that say nothing of a kind hold of it.       *)
LEMMA OtherKinds ==
  /\ kind \in Repeating => ReportedIsState
  /\ kind \notin Latching => LatchInv
  /\ kind # "heartbeat_recovery" => RecoverInv
<1>1. kind \in Repeating => ReportedIsState
  BY DEF ReportedIsState, Repeating, Latching
<1>2. kind \notin Latching => LatchInv
  BY DEF LatchInv, Latching
<1>3. QED
  BY <1>1, <1>2 DEF RecoverInv

-----------------------------------------------------------------------------
(* The triggers step by step.                                              *)

LEMMA CommunicationKeeps ==
  ASSUME TriggersInv, NEW r, Communication(r)
  PROVE  TriggersInv'
<1> DEFINE state == Latch("established", "disconnected", "inactive", r.state = "ok")
<1>0. ShapeInv /\ ReportedIsState /\ LatchInv
  BY DEF TriggersInv
<1>1. kind = "communication" /\ kind' = kind /\ ChangeTo(state, "none")
  BY DEF Communication, Receive
<1>2. state \in CommunicationStates
  BY DEF Latch, CommunicationStates
<1>3. /\ state = "disconnected" => ctx.state \in {"established", "disconnected"}
      /\ state = "inactive" => ctx.state \notin {"established", "disconnected"}
  BY DEF Latch
<1> HIDE DEF state
<1>4. /\ DOMAIN ctx' = {"state", "data", "count", "last", "sent"}
      /\ ctx'.state = state
      /\ failed' \in Nat
      /\ \/ ctx' = ctx /\ failed' = failed /\ reported' = reported /\ seen' = seen
         \/ /\ failed' = failed /\ reported' = [state |-> state, data |-> "none"]
            /\ seen' = seen \union {state}
         \/ failed' # 0 /\ reported' = reported /\ seen' = seen
  BY <1>0, <1>1, Changing
<1>5. ShapeInv'
  <2>1. reported.state \in CommunicationStates \union {""}
    BY <1>0, <1>1 DEF ShapeInv
  <2>2. [state |-> state, data |-> "none"].state = state
    OBVIOUS
  <2>3. reported'.state \in CommunicationStates \union {""}
    BY <1>2, <1>4, <2>1, <2>2
  <2>4. kind' = "communication" /\ kind' \in AllKinds /\ kind' \in Latching
    BY <1>1 DEF AllKinds, Latching
  <2>5. QED
    BY <1>4, <2>3, <2>4 DEF ShapeInv
<1>6. ReportedIsState'
  <2>1. failed' = 0 => reported'.state = ctx'.state
    BY <1>0, <1>1, <1>4 DEF ReportedIsState, Latching
  <2>2. QED
    BY <1>1, <2>1 DEF ReportedIsState, Latching
<1>7. LatchInv'
  <2>1. failed' = 0 => ("established" \in seen' <=> ctx'.state \in {"established", "disconnected"})
    BY <1>0, <1>1, <1>2, <1>3, <1>4 DEF LatchInv, CommunicationStates
  <2>2. QED
    BY <1>1, <2>1 DEF LatchInv
<1>8. QED
  BY <1>1, <1>5, <1>6, <1>7 DEF TriggersInv, RecoverInv

LEMMA EngineKeeps ==
  ASSUME TriggersInv, NEW r, Engine(r)
  PROVE  TriggersInv'
<1> DEFINE state == Latch("running", "stopped", "not_running", r.state = "turning")
<1>0. ShapeInv /\ ReportedIsState /\ LatchInv
  BY DEF TriggersInv
<1>1. kind = "engine" /\ kind' = kind /\ ChangeTo(state, "none")
  BY DEF Engine, Receive
<1>2. state \in EngineStates
  BY DEF Latch, EngineStates
<1>3. /\ state = "stopped" => ctx.state \in {"running", "stopped"}
      /\ state = "not_running" => ctx.state \notin {"running", "stopped"}
  BY DEF Latch
<1> HIDE DEF state
<1>4. /\ DOMAIN ctx' = {"state", "data", "count", "last", "sent"}
      /\ ctx'.state = state
      /\ failed' \in Nat
      /\ \/ ctx' = ctx /\ failed' = failed /\ reported' = reported /\ seen' = seen
         \/ /\ failed' = failed /\ reported' = [state |-> state, data |-> "none"]
            /\ seen' = seen \union {state}
         \/ failed' # 0 /\ reported' = reported /\ seen' = seen
  BY <1>0, <1>1, Changing
<1>5. ShapeInv'
  <2>1. reported.state \in EngineStates \union {""}
    BY <1>0, <1>1 DEF ShapeInv
  <2>2. [state |-> state, data |-> "none"].state = state
    OBVIOUS
  <2>3. reported'.state \in EngineStates \union {""}
    BY <1>2, <1>4, <2>1, <2>2
  <2>4. kind' = "engine" /\ kind' \in AllKinds /\ kind' \in Latching
    BY <1>1 DEF AllKinds, Latching
  <2>5. QED
    BY <1>4, <2>3, <2>4 DEF ShapeInv
<1>6. ReportedIsState'
  <2>1. failed' = 0 => reported'.state = ctx'.state
    BY <1>0, <1>1, <1>4 DEF ReportedIsState, Latching
  <2>2. QED
    BY <1>1, <2>1 DEF ReportedIsState, Latching
<1>7. LatchInv'
  <2>1. failed' = 0 => ("running" \in seen' <=> ctx'.state \in {"running", "stopped"})
    BY <1>0, <1>1, <1>2, <1>3, <1>4 DEF LatchInv, EngineStates
  <2>2. QED
    BY <1>1, <2>1 DEF LatchInv
<1>8. QED
  BY <1>1, <1>5, <1>6, <1>7 DEF TriggersInv, RecoverInv

LEMMA PositionKeeps ==
  ASSUME TriggersInv, NEW r \in Readings(kind), Position(r)
  PROVE  TriggersInv'
<1>0. ShapeInv /\ ReportedIsState
  BY DEF TriggersInv
<1>1. kind = "position" /\ kind' = kind /\ ChangeTo(r.state, r.data)
  BY DEF Position, Receive
<1>2. kind \notin Latching /\ kind \in AllKinds
  BY <1>1 DEF Latching, AllKinds
<1>3. r.state \notin CommunicationStates \union EngineStates
  BY <1>2, ReadingStates
<1>4. /\ DOMAIN ctx' = {"state", "data", "count", "last", "sent"}
      /\ ctx'.state = r.state /\ ctx'.data = r.data
      /\ failed' \in Nat
      /\ \/ ctx' = ctx /\ failed' = failed /\ reported' = reported /\ seen' = seen
         \/ failed' = failed /\ reported' = [state |-> r.state, data |-> r.data]
         \/ failed' # 0 /\ reported' = reported /\ seen' = seen
  BY <1>0, <1>1, Changing
<1>5. ShapeInv'
  BY <1>0, <1>1, <1>2, <1>3, <1>4 DEF ShapeInv
<1>6. ReportedIsState'
  <2>1. failed = 0 => reported = [state |-> ctx.state, data |-> ctx.data]
    BY <1>0, <1>1 DEF ReportedIsState, Latching
  <2>2. failed' = 0 => reported' = [state |-> ctx'.state, data |-> ctx'.data]
    BY <1>4, <2>1
  <2>3. QED
    BY <1>1, <2>2 DEF ReportedIsState, Latching
<1>7. QED
  BY <1>1, <1>2, <1>5, <1>6, OtherKinds DEF TriggersInv, RecoverInv, LatchInv, Latching

(* The triggers that report each change of a reading's state.              *)
LEMMA ChangeKeeps ==
  ASSUME TriggersInv, NEW r \in Readings(kind), kind \in {"motion", "heartbeat"},
         kind' = kind, ChangeTo(r.state, "none")
  PROVE  TriggersInv'
<1>0. ShapeInv /\ ReportedIsState
  BY DEF TriggersInv
<1>2. kind \notin Latching /\ kind \in AllKinds
  BY DEF Latching, AllKinds, Heartbeats
<1>3. r.state \notin CommunicationStates \union EngineStates
  BY <1>2, ReadingStates
<1>4. /\ DOMAIN ctx' = {"state", "data", "count", "last", "sent"}
      /\ ctx'.state = r.state
      /\ failed' \in Nat
      /\ \/ ctx' = ctx /\ failed' = failed /\ reported' = reported /\ seen' = seen
         \/ failed' = failed /\ reported' = [state |-> r.state, data |-> "none"]
         \/ failed' # 0 /\ reported' = reported /\ seen' = seen
  BY <1>0, Changing
<1>5. ShapeInv'
  <2>1. reported.state \notin CommunicationStates \union EngineStates
    BY <1>0, <1>2 DEF ShapeInv
  <2>2. [state |-> r.state, data |-> "none"].state = r.state
    OBVIOUS
  <2>3. reported'.state \notin CommunicationStates \union EngineStates
    BY <1>3, <1>4, <2>1, <2>2
  <2>4. QED
    BY <1>2, <1>4, <2>3 DEF ShapeInv, Latching
<1>6. ReportedIsState'
  <2>1. failed = 0 => reported.state = ctx.state
    BY <1>0 DEF ReportedIsState
  <2>2. [state |-> r.state, data |-> "none"].state = r.state
    OBVIOUS
  <2>3. failed' = 0 => reported'.state = ctx'.state
    BY <1>4, <2>1, <2>2
  <2>4. QED
    BY <2>3 DEF ReportedIsState, Latching
<1>7. LatchInv' /\ RecoverInv'
  BY <1>2 DEF LatchInv, RecoverInv, Latching
<1>8. QED
  BY <1>5, <1>6, <1>7 DEF TriggersInv

(* A step that sends nothing and keeps what was reported of the context.   *)
LEMMA SilentKeeps ==
  ASSUME TriggersInv, kind' = kind, NoEvent,
         DOMAIN ctx' = {"state", "data", "count", "last", "sent"},
         kind \in Repeating
           \/ (ctx'.state = ctx.state /\ ctx'.sent = ctx.sent /\ ctx'.data = ctx.data)
  PROVE  TriggersInv'
<1>0. ShapeInv /\ ReportedIsState /\ LatchInv /\ RecoverInv
  BY DEF TriggersInv
<1>1. reported' = reported /\ seen' = seen /\ failed' = failed
  BY DEF NoEvent
<1>2. ShapeInv'
  BY <1>0, <1>1 DEF ShapeInv
<1>3. CASE kind \in Repeating
  <2>1. kind \notin Latching /\ kind # "heartbeat_recovery"
    BY <1>3 DEF Repeating, Latching
  <2>2. ReportedIsState' /\ LatchInv' /\ RecoverInv'
    BY <1>3, <2>1 DEF ReportedIsState, LatchInv, RecoverInv, Repeating, Latching
  <2>3. QED
    BY <1>2, <2>2 DEF TriggersInv
<1>4. CASE ctx'.state = ctx.state /\ ctx'.sent = ctx.sent /\ ctx'.data = ctx.data
  <2>1. ReportedIsState'
    BY <1>0, <1>1, <1>4 DEF ReportedIsState
  <2>2. LatchInv' /\ RecoverInv'
    BY <1>0, <1>1, <1>4 DEF LatchInv, RecoverInv
  <2>3. QED
    BY <1>2, <2>1, <2>2 DEF TriggersInv
<1>5. QED
  BY <1>3, <1>4

LEMMA MotionKeeps ==
  ASSUME TriggersInv, NEW r \in Readings(kind), Motion(r)
  PROVE  TriggersInv'
<1>1. kind = "motion" /\ kind' = kind
  BY DEF Motion, Receive
<1>2. CASE ctx.state # r.state /\ due
  BY <1>1, <1>2, ChangeKeeps DEF Motion
<1>3. CASE ~(ctx.state # r.state /\ due)
  <2>1. NoEvent /\ ctx' = ctx
    BY <1>3 DEF Motion
  <2>2. QED
    BY <1>1, <2>1, SilentKeeps DEF TriggersInv, ShapeInv
<1>4. QED
  BY <1>2, <1>3

(* The triggers that wait send what they read, or nothing.                 *)
LEMMA RepeatingKeeps ==
  ASSUME TriggersInv, NEW r \in Readings(kind),
         (\E k \in Repeating : Unsettled(k, r)) \/ Battery(r) \/ HookBattery(r) \/ Temperature(r)
  PROVE  TriggersInv'
<1>0. ShapeInv /\ DOMAIN ctx = {"state", "data", "count", "last", "sent"} /\ failed \in Nat
  BY DEF TriggersInv, ShapeInv
<1>1. kind \in Repeating /\ kind' = kind
  BY DEF Unsettled, Battery, HookBattery, Temperature, Receive, Repeating
<1>2. DOMAIN ctx' = {"state", "data", "count", "last", "sent"}
  <2>1. ASSUME NEW k \in Repeating, Unsettled(k, r)
        PROVE  DOMAIN ctx' = {"state", "data", "count", "last", "sent"}
    <3>1. DOMAIN ctx' = DOMAIN ctx
      <4>1. CASE ctx.state # r.state
        BY <2>1, <4>1 DEF Unsettled, Observe
      <4>2. CASE ctx.state = r.state
        BY <2>1, <4>2 DEF Unsettled, Observe
      <4>3. QED
        BY <4>1, <4>2
    <3>2. QED
      BY <1>0, <3>1
  <2>2. CASE Battery(r)
    BY <1>0, <2>2 DEF Battery
  <2>3. CASE HookBattery(r)
    BY <1>0, <2>3 DEF HookBattery
  <2>4. CASE Temperature(r)
    BY <1>0, <2>4 DEF Temperature
  <2>5. QED
    BY <2>1, <2>2, <2>3, <2>4
<1>3. CASE NoEvent
  BY <1>1, <1>2, <1>3, SilentKeeps
<1>4. CASE Send(r)
  <2>1. kind \in AllKinds \ Latching /\ kind # "heartbeat_recovery"
    BY <1>1 DEF AllKinds, Repeating, Latching
  <2>2. r.state \notin CommunicationStates \union EngineStates
    BY <2>1, ReadingStates
  <2>3. reported' = r \/ reported' = reported
    BY <1>0, <1>4, Sending
  <2>4. failed' \in Nat
    BY <1>0, <1>4, Sending
  <2>5. reported'.state \notin CommunicationStates \union EngineStates
    BY <1>0, <2>1, <2>2, <2>3 DEF ShapeInv
  <2>6. ShapeInv'
    BY <1>1, <1>2, <2>1, <2>4, <2>5 DEF ShapeInv, Latching
  <2>7. ReportedIsState' /\ LatchInv' /\ RecoverInv'
    BY <1>1, <2>1 DEF ReportedIsState, LatchInv, RecoverInv, Repeating, Latching
  <2>8. QED
    BY <2>6, <2>7 DEF TriggersInv
<1>5. NoEvent \/ Send(r)
  BY DEF Unsettled, Battery, HookBattery, Temperature
<1>6. QED
  BY <1>3, <1>4, <1>5

(* A fence tells its state, first as such and then by entering or leaving. *)
LEMMA GeofenceKeeps ==
  ASSUME TriggersInv, NEW r \in Readings(kind),
         GeofenceFirst(r) \/ GeofenceAgain(r) \/ GeofenceOther(r)
  PROVE  TriggersInv'
<1>0. ShapeInv /\ DOMAIN ctx = {"state", "data", "count", "last", "sent"} /\ failed \in Nat
  BY DEF TriggersInv, ShapeInv
<1>1. kind = "geofence" /\ kind' = kind
  BY DEF GeofenceFirst, GeofenceAgain, GeofenceOther, Receive
<1>2. ASSUME NEW e, Send(e), e.state \in {r.state, GeofenceEvent(r.state)},
             ctx'.state = r.state, DOMAIN ctx' = {"state", "data", "count", "last", "sent"}
      PROVE  TriggersInv'
  <2>1. kind \in AllKinds \ Latching /\ kind # "heartbeat_recovery"
    BY <1>1 DEF AllKinds, Latching
  <2>2. e.state \notin CommunicationStates \union EngineStates
    BY <1>2, <2>1, ReadingStates DEF GeofenceEvent, CommunicationStates, EngineStates
  <2>3. /\ failed' \in Nat
        /\ \/ failed' = failed /\ reported' = e
           \/ failed' # 0 /\ reported' = reported
    BY <1>0, <1>2, Sending
  <2>4. reported'.state \notin CommunicationStates \union EngineStates
    BY <1>0, <2>1, <2>2, <2>3 DEF ShapeInv
  <2>5. ShapeInv'
    BY <1>1, <1>2, <2>1, <2>3, <2>4 DEF ShapeInv, Latching
  <2>6. failed' = 0 => reported'.state \in {ctx'.state, GeofenceEvent(ctx'.state)}
    BY <1>2, <2>3
  <2>7. ReportedIsState'
    BY <1>1, <2>6 DEF ReportedIsState, Latching, GeofenceEvent
  <2>8. QED
    BY <1>1, <2>1, <2>5, <2>7 DEF TriggersInv, LatchInv, RecoverInv, Latching
<1>3. CASE GeofenceFirst(r)
  <2>1. ctx'.state = r.state /\ DOMAIN ctx' = {"state", "data", "count", "last", "sent"} /\ Send(r)
    BY <1>0, <1>3 DEF GeofenceFirst
  <2>2. QED
    BY <1>2, <2>1
<1>4. CASE GeofenceAgain(r)
  <2>1. CASE ctx.count + 1 >= RepeatCount /\ ctx.state # r.state
    <3>1. /\ ctx'.state = r.state /\ DOMAIN ctx' = {"state", "data", "count", "last", "sent"}
          /\ Send([state |-> GeofenceEvent(r.state), data |-> "none"])
      BY <1>0, <1>4, <2>1 DEF GeofenceAgain
    <3>2. [state |-> GeofenceEvent(r.state), data |-> "none"].state = GeofenceEvent(r.state)
      OBVIOUS
    <3>3. QED
      BY <1>2, <3>1, <3>2
  <2>2. CASE ~(ctx.count + 1 >= RepeatCount /\ ctx.state # r.state)
    <3>1. ctx' = [ctx EXCEPT !.count = Plus(@)] /\ NoEvent
      BY <1>4, <2>2 DEF GeofenceAgain
    <3>2. QED
      BY <1>0, <1>1, <3>1, SilentKeeps
  <2>3. QED
    BY <2>1, <2>2
<1>5. CASE GeofenceOther(r)
  <2>1. ctx' = [ctx EXCEPT !.last = r, !.count = 0] /\ NoEvent
    BY <1>5 DEF GeofenceOther
  <2>2. QED
    BY <1>0, <1>1, <2>1, SilentKeeps
<1>6. QED
  BY <1>3, <1>4, <1>5

(* A status stored means that the recovery was reported.                   *)
LEMMA RecoverKeeps ==
  ASSUME TriggersInv, NEW r, Recover(r)
  PROVE  TriggersInv'
<1>0. ShapeInv /\ DOMAIN ctx = {"state", "data", "count", "last", "sent"} /\ failed \in Nat
  BY DEF TriggersInv, ShapeInv
<1>1. kind = "heartbeat_recovery" /\ kind' = kind /\ ctx.state = ""
  BY DEF Recover, Receive
<1>2. Send([state |-> "recover", data |-> "none"]) /\ ctx' = [ctx EXCEPT !.sent = (failed' = failed)]
  BY DEF Recover
<1>3. [state |-> "recover", data |-> "none"].state = "recover"
  OBVIOUS
<1>4. /\ failed' \in Nat
      /\ \/ failed' = failed /\ reported'.state = "recover" /\ "recover" \in seen'
         \/ failed' # failed /\ failed' # 0 /\ reported' = reported
  BY <1>0, <1>2, <1>3, Sending
<1>5. /\ DOMAIN ctx' = {"state", "data", "count", "last", "sent"}
      /\ ctx'.state = "" /\ (ctx'.sent = (failed' = failed))
  BY <1>0, <1>1, <1>2
<1>6. kind \in AllKinds /\ kind \notin Latching /\ "recover" \notin CommunicationStates \union EngineStates
  BY <1>1 DEF AllKinds, Heartbeats, Latching, CommunicationStates, EngineStates
<1>7. ShapeInv'
  <2>1. reported.state \notin CommunicationStates \union EngineStates
    BY <1>0, <1>6 DEF ShapeInv
  <2>2. reported'.state \notin CommunicationStates \union EngineStates
    BY <1>4, <1>6, <2>1
  <2>3. QED
    BY <1>1, <1>4, <1>5, <1>6, <2>2 DEF ShapeInv, Latching
<1>8. ReportedIsState'
  <2>1. failed' = 0 => ctx'.sent /\ reported'.state = "recover"
    BY <1>4, <1>5
  <2>2. QED
    BY <1>1, <1>5, <2>1 DEF ReportedIsState, Latching
<1>9. RecoverInv'
  BY <1>4, <1>5 DEF RecoverInv
<1>10. QED
  BY <1>1, <1>6, <1>7, <1>8, <1>9 DEF TriggersInv, LatchInv, Latching

LEMMA HeartbeatKeeps ==
  ASSUME TriggersInv, NEW r \in Readings(kind), NEW k \in Heartbeats, Heartbeat(k, r)
  PROVE  TriggersInv'
<1>0. ShapeInv /\ ReportedIsState /\ RecoverInv
  BY DEF TriggersInv
<1>1. kind = k /\ kind' = kind /\ ChangeTo(r.state, "none")
  BY DEF Heartbeat, Receive
<1>2. CASE k = "heartbeat"
  BY <1>1, <1>2, ChangeKeeps
<1>3. CASE k = "heartbeat_recovery"
  <2>1. kind \in AllKinds \ Latching
    BY <1>1, <1>3 DEF AllKinds, Heartbeats, Latching
  <2>2. r.state \notin CommunicationStates \union EngineStates \union {""}
    BY <2>1, ReadingStates
  <2>3. "recover" \in seen
    <3>1. ctx.state = "" => ctx.sent
      BY <1>3 DEF Heartbeat
    <3>2. QED
      BY <1>0, <1>1, <1>3, <3>1 DEF RecoverInv
  <2>4. [state |-> r.state, data |-> "none"].state = r.state
    OBVIOUS
  <2>5. /\ DOMAIN ctx' = {"state", "data", "count", "last", "sent"}
        /\ ctx'.state = r.state
        /\ failed' \in Nat
        /\ seen \subseteq seen'
        /\ \/ ctx' = ctx /\ failed' = failed /\ reported' = reported
           \/ failed' = failed /\ reported'.state = r.state
           \/ failed' # 0 /\ reported' = reported
    BY <1>0, <1>1, <2>4, Changing
  <2>6. ShapeInv'
    <3>1. reported.state \notin CommunicationStates \union EngineStates
      BY <1>0, <2>1 DEF ShapeInv
    <3>2. reported'.state \notin CommunicationStates \union EngineStates
      BY <2>2, <2>5, <3>1
    <3>3. QED
      BY <1>1, <2>1, <2>5, <3>2 DEF ShapeInv, Latching
  <2>7. ReportedIsState'
    <3>1. failed = 0 /\ ctx.state # "" => reported.state = ctx.state
      BY <1>0, <1>1, <1>3 DEF ReportedIsState, Latching
    <3>2. failed' = 0 => reported'.state = ctx'.state /\ ctx'.state # ""
      BY <2>2, <2>5, <3>1
    <3>3. QED
      BY <1>1, <1>3, <3>2 DEF ReportedIsState, Latching
  <2>8. RecoverInv'
    BY <2>3, <2>5 DEF RecoverInv
  <2>9. QED
    BY <1>1, <1>3, <2>6, <2>7, <2>8 DEF TriggersInv, LatchInv, Latching
<1>4. QED
  BY <1>2, <1>3 DEF Heartbeats

LEMMA TriggersStep == TriggersInv /\ [TriggersNext]_triggerVars => TriggersInv'
<1> SUFFICES ASSUME TriggersInv, [TriggersNext]_triggerVars PROVE TriggersInv'
  OBVIOUS
<1>1. ASSUME NEW r \in Readings(kind), Trigger(r)
      PROVE  TriggersInv'
  BY <1>1, CommunicationKeeps, EngineKeeps, PositionKeeps, MotionKeeps, RepeatingKeeps,
     GeofenceKeeps, RecoverKeeps, HeartbeatKeeps DEF Trigger
<1>2. CASE HeartbeatOnly \/ Tick \/ UNCHANGED triggerVars
  <2>1. UNCHANGED <<kind, ctx, reported, seen, failed>>
    BY <1>2 DEF HeartbeatOnly, Tick, triggerVars
  <2>2. QED
    BY <2>1 DEF TriggersInv, ShapeInv, ReportedIsState, LatchInv, RecoverInv
<1>3. QED
  BY <1>1, <1>2 DEF TriggersNext, ReadingComes

LEMMA TriggersInvHolds == TriggersSpec => []TriggersInv
  BY TriggersInvInit, TriggersStep, PTL DEF TriggersSpec

-----------------------------------------------------------------------------
(* Subscribers know the state: the last event says what the trigger's      *)
(* context says, however the readings come, unless the bus failed.         *)
THEOREM SubscribersKnow == TriggersSpec => []ReportedIsState
<1>1. TriggersInv => ReportedIsState
  BY DEF TriggersInv
<1>2. QED
  BY TriggersInvHolds, <1>1, PTL

(* Lifecycle events come in order: never "stopped" before "running" nor    *)
(* "not_running" after it, and a boot's recovery before its status.        *)
THEOREM LifeInOrder == TriggersSpec => []LifecycleOrder
<1>1. TriggersInv => LifecycleOrder
  <2> SUFFICES ASSUME ShapeInv, ReportedIsState, LatchInv, RecoverInv PROVE LifecycleOrder
    BY DEF TriggersInv
  <2>1. CASE kind = "communication"
    <3>1. reported.state \in {"established", "disconnected", "inactive", ""}
      BY <2>1 DEF ShapeInv, CommunicationStates
    <3>2. failed = 0 => reported.state = ctx.state
      BY <2>1 DEF ReportedIsState, Latching
    <3>3. QED
      BY <2>1, <3>1, <3>2 DEF LifecycleOrder, LatchInv
  <2>2. CASE kind = "engine"
    <3>1. reported.state \in {"running", "stopped", "not_running", ""}
      BY <2>2 DEF ShapeInv, EngineStates
    <3>2. failed = 0 => reported.state = ctx.state
      BY <2>2 DEF ReportedIsState, Latching
    <3>3. QED
      BY <2>2, <3>1, <3>2 DEF LifecycleOrder, LatchInv
  <2>3. CASE kind \notin Latching
    <3>1. reported.state \notin {"disconnected", "inactive", "stopped", "not_running"}
      BY <2>3 DEF ShapeInv, CommunicationStates, EngineStates
    <3>2. QED
      BY <3>1 DEF LifecycleOrder, RecoverInv
  <2>4. QED
    BY <2>1, <2>2, <2>3 DEF Latching
<1>2. QED
  BY TriggersInvHolds, <1>1, PTL
-----------------------------------------------------------------------------
(* No event is repeated.                                                   *)

(* What tells a trigger that an event would be the last one again.  The    *)
(* triggers that compare states only have no data, a fence has reported    *)
(* nothing as long as it has no state, and the battery's filter has the    *)
(* last event.                                                             *)
MemoryInv ==
  /\ ctx = [field \in DOMAIN ctx |-> ctx[field]]
  /\ kind \in Latching \union Heartbeats \union {"motion"} => ctx.data = "none"
  /\ kind = "geofence" =>
       /\ ctx.state \in {"", "inside", "outside"}
       /\ ctx.state = "" => reported = Nothing
  /\ kind = "battery" => reported = ctx.last

NewsInv == TriggersInv /\ MemoryInv /\ NoRepeatedEvent

LEMMA NewsInit == TriggersInit => NewsInv
<1> SUFFICES ASSUME TriggersInit PROVE NewsInv
  OBVIOUS
<1>1. ctx = [state |-> "", data |-> "none", count |-> 0, last |-> Nothing, sent |-> FALSE]
  BY DEF TriggersInit
<1>2. reported = Nothing /\ repeated = FALSE
  BY DEF TriggersInit
<1>3. /\ ctx.state = "" /\ ctx.data = "none" /\ ctx.last = Nothing
      /\ ctx = [field \in DOMAIN ctx |-> ctx[field]]
  BY <1>1
<1>4. MemoryInv
  BY <1>2, <1>3 DEF MemoryInv
<1>5. NoRepeatedEvent
  BY <1>2 DEF NoRepeatedEvent
<1>6. QED
  BY <1>4, <1>5, TriggersInvInit DEF NewsInv

(* An event that is not the last one again, or comes after a failure, is   *)
(* allowed.                                                                *)
LEMMA NewsIsNoRepeat ==
  ASSUME NoRepeatedEvent, failed \in Nat, kind' = kind, NEW e, Send(e),
         e # reported \/ kind \in {"hook_battery", "temperature"} \/ (kind # "battery" /\ failed # 0)
  PROVE  NoRepeatedEvent'
<1>1. failed' = failed \/ failed' = failed + 1
  BY DEF Send
<1>2. repeated' => repeated \/ e = reported
  BY DEF Send
<1>3. repeated' => \/ kind \in {"hook_battery", "temperature"}
                   \/ kind # "battery" /\ failed' > 0
  BY <1>1, <1>2 DEF NoRepeatedEvent
<1>4. QED
  BY <1>3 DEF NoRepeatedEvent

LEMMA SilenceIsNoRepeat ==
  ASSUME NoRepeatedEvent, kind' = kind, NoEvent
  PROVE  NoRepeatedEvent'
  BY DEF NoRepeatedEvent, NoEvent

(* A state that changed is news.                                           *)
LEMMA ChangeIsNews ==
  ASSUME NewsInv, kind' = kind, NEW state, ChangeTo(state, "none"),
         kind \in Latching \union Heartbeats \union {"motion"},
         kind = "heartbeat_recovery" /\ ctx.state = "" => state # "recover"
  PROVE  NoRepeatedEvent' /\ ctx'.data = "none" /\ ctx' = [field \in DOMAIN ctx' |-> ctx'[field]]
<1>0. /\ ShapeInv /\ ReportedIsState /\ NoRepeatedEvent /\ failed \in Nat
      /\ ctx.data = "none" /\ DOMAIN ctx = {"state", "data", "count", "last", "sent"}
      /\ ctx = [field \in DOMAIN ctx |-> ctx[field]]
  BY DEF NewsInv, TriggersInv, ShapeInv, MemoryInv
<1>1. ctx'.data = "none" /\ ctx' = [field \in DOMAIN ctx' |-> ctx'[field]]
  <2>1. ctx' = [ctx EXCEPT !.state = state, !.data = "none"]
    BY DEF ChangeTo
  <2>2. QED
    BY <1>0, <2>1
<1>2. CASE ctx' = ctx
  <2>1. NoEvent
    BY <1>2 DEF ChangeTo
  <2>2. QED
    BY <1>0, <1>1, <2>1, SilenceIsNoRepeat
<1>3. CASE ctx' # ctx
  <2>1. Send([state |-> state, data |-> "none"])
    BY <1>3 DEF ChangeTo
  <2>2. ctx.state # state
    <3>1. SUFFICES ASSUME ctx.state = state PROVE FALSE
      OBVIOUS
    <3>2. ctx' = [ctx EXCEPT !.state = ctx.state, !.data = ctx.data]
      BY <1>0, <3>1 DEF ChangeTo
    <3>3. [ctx EXCEPT !.state = ctx.state, !.data = ctx.data] = ctx
      BY <1>0
    <3>4. QED
      BY <1>3, <3>2, <3>3
  <2>3. failed = 0 => reported.state # state
    <3>1. CASE kind \in Latching \union {"motion", "heartbeat"}
      <4>1. failed = 0 => reported.state = ctx.state
        BY <1>0, <3>1 DEF ReportedIsState, Latching
      <4>2. QED
        BY <2>2, <4>1
    <3>2. CASE kind = "heartbeat_recovery"
      <4>1. failed = 0 =>
              reported.state = IF ctx.sent /\ ctx.state = "" THEN "recover" ELSE ctx.state
        BY <1>0, <3>2 DEF ReportedIsState, Latching
      <4>2. QED
        BY <2>2, <3>2, <4>1
    <3>3. QED
      BY <3>1, <3>2 DEF Heartbeats
  <2>4. [state |-> state, data |-> "none"].state = state
    OBVIOUS
  <2>5. kind # "battery"
    BY DEF Latching, Heartbeats
  <2>6. QED
    BY <1>0, <1>1, <2>1, <2>3, <2>4, <2>5, NewsIsNoRepeat
<1>4. QED
  BY <1>2, <1>3

(* The part of the memory that a kind does not use.                        *)
LEMMA MemoryOfChange ==
  ASSUME kind \in Latching \union Heartbeats \union {"motion"}, kind' = kind, ctx'.data = "none",
         ctx' = [field \in DOMAIN ctx' |-> ctx'[field]]
  PROVE  MemoryInv'
  BY DEF MemoryInv, Latching, Heartbeats

LEMMA NewsOfChanges ==
  ASSUME NewsInv, NEW r \in Readings(kind),
         Communication(r) \/ Engine(r) \/ Motion(r) \/ \E k \in Heartbeats : Heartbeat(k, r)
  PROVE  MemoryInv' /\ NoRepeatedEvent'
<1>0. MemoryInv /\ NoRepeatedEvent
  BY DEF NewsInv
<1>1. kind' = kind /\ kind \in Latching \union Heartbeats \union {"motion"}
  BY DEF Communication, Engine, Motion, Heartbeat, Receive, Latching
<1>2. ASSUME NEW state, ChangeTo(state, "none"),
             kind = "heartbeat_recovery" => state # "recover"
      PROVE  MemoryInv' /\ NoRepeatedEvent'
  BY <1>1, <1>2, ChangeIsNews, MemoryOfChange
<1>3. CASE Communication(r)
  BY <1>2, <1>3 DEF Communication, Receive
<1>4. CASE Engine(r)
  BY <1>2, <1>4 DEF Engine, Receive
<1>5. CASE Motion(r)
  <2>1. CASE ctx.state # r.state /\ due
    BY <1>2, <1>5, <2>1 DEF Motion, Receive
  <2>2. CASE ~(ctx.state # r.state /\ due)
    <3>1. NoEvent /\ ctx' = ctx
      BY <1>5, <2>2 DEF Motion
    <3>2. MemoryInv'
      BY <1>0, <1>1, <3>1 DEF MemoryInv, NoEvent
    <3>3. QED
      BY <1>0, <1>1, <3>1, <3>2, SilenceIsNoRepeat
  <2>3. QED
    BY <2>1, <2>2
<1>6. ASSUME NEW k \in Heartbeats, Heartbeat(k, r)
      PROVE  MemoryInv' /\ NoRepeatedEvent'
  <2>1. kind = k /\ ChangeTo(r.state, "none")
    BY <1>6 DEF Heartbeat, Receive
  <2>2. r.state \in {"booting", "on"}
    BY <2>1 DEF Readings, Plain, Heartbeats
  <2>3. QED
    BY <1>2, <2>1, <2>2
<1>7. QED
  BY <1>3, <1>4, <1>5, <1>6

LEMMA NewsOfPosition ==
  ASSUME NewsInv, NEW r \in Readings(kind), Position(r)
  PROVE  MemoryInv' /\ NoRepeatedEvent'
<1>0. /\ ShapeInv /\ ReportedIsState /\ NoRepeatedEvent /\ failed \in Nat
      /\ DOMAIN ctx = {"state", "data", "count", "last", "sent"}
      /\ ctx = [field \in DOMAIN ctx |-> ctx[field]]
  BY DEF NewsInv, TriggersInv, ShapeInv, MemoryInv
<1>1. kind = "position" /\ kind' = kind /\ ChangeTo(r.state, r.data)
  BY DEF Position, Receive
<1>2. ctx' = [ctx EXCEPT !.state = r.state, !.data = r.data]
  BY <1>1 DEF ChangeTo
<1>3. MemoryInv'
  <2>1. ctx' = [field \in DOMAIN ctx' |-> ctx'[field]]
    BY <1>0, <1>2
  <2>2. QED
    BY <1>1, <2>1 DEF MemoryInv, Latching, Heartbeats
<1>4. CASE ctx' = ctx
  <2>1. NoEvent
    BY <1>1, <1>4 DEF ChangeTo
  <2>2. QED
    BY <1>0, <1>1, <1>3, <2>1, SilenceIsNoRepeat
<1>5. CASE ctx' # ctx
  <2> DEFINE e == [state |-> r.state, data |-> r.data]
  <2>1. Send(e)
    BY <1>1, <1>5 DEF ChangeTo
  <2>2. ctx.state # r.state \/ ctx.data # r.data
    <3>1. [ctx EXCEPT !.state = ctx.state, !.data = ctx.data] = ctx
      BY <1>0
    <3>2. QED
      BY <1>2, <1>5, <3>1
  <2>3. failed = 0 => reported = [state |-> ctx.state, data |-> ctx.data]
    BY <1>0, <1>1 DEF ReportedIsState, Latching
  <2>4. e.state = r.state /\ e.data = r.data
    OBVIOUS
  <2>5. [state |-> ctx.state, data |-> ctx.data].state = ctx.state
          /\ [state |-> ctx.state, data |-> ctx.data].data = ctx.data
    OBVIOUS
  <2> HIDE DEF e
  <2>6. failed = 0 => e # reported
    BY <2>2, <2>3, <2>4, <2>5
  <2>7. QED
    BY <1>0, <1>1, <1>3, <2>1, <2>6, NewsIsNoRepeat
<1>6. QED
  BY <1>4, <1>5

LEMMA EmptyNothing == Nothing.state = ""
  BY DEF Nothing

LEMMA NewsOfGeofence ==
  ASSUME NewsInv, NEW r \in Readings(kind),
         GeofenceFirst(r) \/ GeofenceAgain(r) \/ GeofenceOther(r)
  PROVE  MemoryInv' /\ NoRepeatedEvent'
<1>1. kind = "geofence" /\ kind' = kind
  BY DEF GeofenceFirst, GeofenceAgain, GeofenceOther, Receive
<1>0. /\ ReportedIsState /\ NoRepeatedEvent /\ failed \in Nat
      /\ DOMAIN ctx = {"state", "data", "count", "last", "sent"}
      /\ ctx = [field \in DOMAIN ctx |-> ctx[field]]
      /\ ctx.state \in {"", "inside", "outside"} /\ (ctx.state = "" => reported = Nothing)
  BY <1>1 DEF NewsInv, TriggersInv, ShapeInv, MemoryInv
<1>2. r.state \in {"inside", "outside"}
  BY <1>1 DEF Readings, Plain, Heartbeats
<1>3. ASSUME ctx'.state \in {"inside", "outside"}, ctx' = [field \in DOMAIN ctx' |-> ctx'[field]]
      PROVE  MemoryInv'
  BY <1>1, <1>3 DEF MemoryInv, Latching, Heartbeats
<1>4. ASSUME ctx'.state = ctx.state, ctx.state # "", NoEvent,
             ctx' = [field \in DOMAIN ctx' |-> ctx'[field]]
      PROVE  MemoryInv' /\ NoRepeatedEvent'
  BY <1>0, <1>1, <1>3, <1>4, SilenceIsNoRepeat
<1>5. CASE GeofenceFirst(r)
  <2>1. ctx' = [ctx EXCEPT !.state = r.state] /\ ctx.state = "" /\ Send(r)
    BY <1>5 DEF GeofenceFirst
  <2>2. ctx'.state = r.state /\ ctx' = [field \in DOMAIN ctx' |-> ctx'[field]]
    BY <1>0, <2>1
  <2>3. r # reported
    BY <1>0, <1>2, <2>1, EmptyNothing
  <2>4. QED
    BY <1>0, <1>1, <1>2, <1>3, <2>1, <2>2, <2>3, NewsIsNoRepeat
<1>6. CASE GeofenceAgain(r)
  <2>1. CASE ctx.count + 1 >= RepeatCount /\ ctx.state # r.state
    <3> DEFINE e == [state |-> GeofenceEvent(r.state), data |-> "none"]
    <3>1. /\ ctx' = [ctx EXCEPT !.count = Plus(@), !.state = r.state] /\ ctx.state # ""
          /\ Send(e)
      BY <1>6, <2>1 DEF GeofenceAgain
    <3>2. ctx'.state = r.state /\ ctx' = [field \in DOMAIN ctx' |-> ctx'[field]]
      BY <1>0, <3>1
    <3>3. e.state = GeofenceEvent(r.state)
      OBVIOUS
    <3> HIDE DEF e
    <3>4. failed = 0 => reported.state \in {ctx.state, GeofenceEvent(ctx.state)}
      BY <1>0, <1>1, <3>1 DEF ReportedIsState, Latching
    <3>5. failed = 0 => e # reported
      BY <1>0, <1>2, <2>1, <3>1, <3>3, <3>4 DEF GeofenceEvent
    <3>6. QED
      BY <1>0, <1>1, <1>2, <1>3, <3>1, <3>2, <3>5, NewsIsNoRepeat
  <2>2. CASE ~(ctx.count + 1 >= RepeatCount /\ ctx.state # r.state)
    <3>1. ctx' = [ctx EXCEPT !.count = Plus(@)] /\ NoEvent /\ ctx.state # ""
      BY <1>6, <2>2 DEF GeofenceAgain
    <3>2. ctx'.state = ctx.state /\ ctx' = [field \in DOMAIN ctx' |-> ctx'[field]]
      BY <1>0, <3>1
    <3>3. QED
      BY <1>4, <3>1, <3>2
  <2>3. QED
    BY <2>1, <2>2
<1>7. CASE GeofenceOther(r)
  <2>1. ctx' = [ctx EXCEPT !.last = r, !.count = 0] /\ NoEvent /\ ctx.state # ""
    BY <1>7 DEF GeofenceOther
  <2>2. ctx'.state = ctx.state /\ ctx' = [field \in DOMAIN ctx' |-> ctx'[field]]
    BY <1>0, <2>1
  <2>3. QED
    BY <1>4, <2>1, <2>2
<1>8. QED
  BY <1>5, <1>6, <1>7

LEMMA NewsOfRecovery ==
  ASSUME NewsInv, NEW r, Recover(r)
  PROVE  MemoryInv' /\ NoRepeatedEvent'
<1>1. kind = "heartbeat_recovery" /\ kind' = kind
  BY DEF Recover, Receive
<1>0. /\ ReportedIsState /\ NoRepeatedEvent /\ failed \in Nat /\ ctx.data = "none"
      /\ DOMAIN ctx = {"state", "data", "count", "last", "sent"}
      /\ ctx = [field \in DOMAIN ctx |-> ctx[field]]
  BY <1>1 DEF NewsInv, TriggersInv, ShapeInv, MemoryInv, Heartbeats
<1> DEFINE e == [state |-> "recover", data |-> "none"]
<1>2. Send(e) /\ ctx.state = "" /\ ~ctx.sent /\ ctx' = [ctx EXCEPT !.sent = (failed' = failed)]
  BY DEF Recover
<1>3. ctx'.data = "none" /\ ctx' = [field \in DOMAIN ctx' |-> ctx'[field]]
  BY <1>0, <1>2
<1>4. failed = 0 => reported.state = ""
  BY <1>0, <1>1, <1>2 DEF ReportedIsState, Latching
<1>5. e.state = "recover"
  OBVIOUS
<1> HIDE DEF e
<1>6. failed = 0 => e # reported
  BY <1>4, <1>5
<1>7. NoRepeatedEvent'
  BY <1>0, <1>1, <1>2, <1>6, NewsIsNoRepeat
<1>8. QED
  BY <1>1, <1>3, <1>7, MemoryOfChange DEF Heartbeats

(* The battery's filter lets only news through; the triggers of hooklib    *)
(* are allowed to repeat.                                                  *)
LEMMA NewsOfRepeating ==
  ASSUME NewsInv, NEW r \in Readings(kind),
         (\E k \in Repeating : Unsettled(k, r)) \/ Battery(r) \/ HookBattery(r) \/ Temperature(r)
  PROVE  MemoryInv' /\ NoRepeatedEvent'
<1>1. kind \in Repeating /\ kind' = kind
  BY DEF Unsettled, Battery, HookBattery, Temperature, Receive, Repeating
<1>0. /\ NoRepeatedEvent /\ failed \in Nat /\ (kind = "battery" => reported = ctx.last)
      /\ DOMAIN ctx = {"state", "data", "count", "last", "sent"}
      /\ ctx = [field \in DOMAIN ctx |-> ctx[field]]
  BY DEF NewsInv, TriggersInv, ShapeInv, MemoryInv
<1>2. ASSUME ctx' = [field \in DOMAIN ctx' |-> ctx'[field]],
             kind = "battery" => reported' = ctx'.last
      PROVE  MemoryInv'
  BY <1>1, <1>2 DEF MemoryInv, Repeating, Latching, Heartbeats
<1>3. ASSUME NEW k \in Repeating, Unsettled(k, r)
      PROVE  MemoryInv' /\ NoRepeatedEvent'
  <2>1. ctx' = [field \in DOMAIN ctx' |-> ctx'[field]] /\ ctx'.last = ctx.last
    <3>1. CASE ctx.state # r.state
      BY <1>0, <1>3, <3>1 DEF Unsettled, Observe
    <3>2. CASE ctx.state = r.state
      BY <1>0, <1>3, <3>2 DEF Unsettled, Observe
    <3>3. QED
      BY <3>1, <3>2
  <2>2. NoEvent /\ reported' = reported
    BY <1>3 DEF Unsettled, NoEvent
  <2>3. QED
    BY <1>0, <1>1, <1>2, <2>1, <2>2, SilenceIsNoRepeat
<1>4. CASE Battery(r)
  <2>1. CASE ctx.last = r /\ NoEvent /\ ctx' = [ctx EXCEPT !.count = Plus(@)]
    <3>1. ctx' = [field \in DOMAIN ctx' |-> ctx'[field]] /\ ctx'.last = ctx.last
      BY <1>0, <2>1
    <3>2. reported' = reported
      BY <2>1 DEF NoEvent
    <3>3. QED
      BY <1>0, <1>1, <1>2, <2>1, <3>1, <3>2, SilenceIsNoRepeat
  <2>2. CASE /\ ctx.last # r /\ Send(r)
             /\ ctx' = [ctx EXCEPT !.count = Plus(@), !.last = IF failed' = failed THEN r ELSE @]
    <3>1. kind = "battery"
      BY <1>4 DEF Battery, Receive
    <3>2. /\ ctx' = [field \in DOMAIN ctx' |-> ctx'[field]]
          /\ ctx'.last = IF failed' = failed THEN r ELSE ctx.last
      BY <1>0, <2>2
    <3>3. reported' = ctx'.last
      BY <1>0, <2>2, <3>1, <3>2, Sending
    <3>4. NoRepeatedEvent'
      BY <1>0, <1>1, <2>2, <3>1, NewsIsNoRepeat
    <3>5. QED
      BY <1>2, <3>2, <3>3, <3>4
  <2>3. QED
    BY <1>4, <2>1, <2>2 DEF Battery
<1>5. CASE HookBattery(r) \/ Temperature(r)
  <2>1. kind \in {"hook_battery", "temperature"}
    BY <1>5 DEF HookBattery, Temperature, Receive
  <2>2. ctx' = [field \in DOMAIN ctx' |-> ctx'[field]]
    <3>1. CASE HookBattery(r)
      BY <1>0, <3>1 DEF HookBattery
    <3>2. CASE Temperature(r)
      BY <1>0, <3>2 DEF Temperature
    <3>3. QED
      BY <1>5, <3>1, <3>2
  <2>3. NoRepeatedEvent'
    BY <1>1, <2>1 DEF NoRepeatedEvent
  <2>4. QED
    BY <1>2, <2>1, <2>2, <2>3
<1>6. QED
  BY <1>3, <1>4, <1>5

LEMMA NewsStep == NewsInv /\ [TriggersNext]_triggerVars => NewsInv'
<1> SUFFICES ASSUME NewsInv, [TriggersNext]_triggerVars PROVE MemoryInv' /\ NoRepeatedEvent'
  BY TriggersStep DEF NewsInv
<1>1. ASSUME NEW r \in Readings(kind), Trigger(r)
      PROVE  MemoryInv' /\ NoRepeatedEvent'
  BY <1>1, NewsOfChanges, NewsOfPosition, NewsOfRepeating, NewsOfGeofence, NewsOfRecovery
     DEF Trigger
<1>2. CASE HeartbeatOnly \/ Tick \/ UNCHANGED triggerVars
  <2>1. UNCHANGED <<kind, ctx, reported, repeated, failed>>
    BY <1>2 DEF HeartbeatOnly, Tick, triggerVars
  <2>2. QED
    BY <2>1 DEF NewsInv, MemoryInv, NoRepeatedEvent
<1>3. QED
  BY <1>1, <1>2 DEF TriggersNext, ReadingComes

(* An event is never sent twice in a row, except by the triggers that      *)
(* start over when a state comes back, or after the bus has failed; and by *)
(* the battery trigger not even then.                                      *)
THEOREM NeverTwice == TriggersSpec => []NoRepeatedEvent
<1>1. NewsInv => NoRepeatedEvent
  BY DEF NewsInv
<1>2. QED
  BY NewsInit, NewsStep, <1>1, PTL DEF TriggersSpec

-----------------------------------------------------------------------------
(* Types.                                                                  *)

Datas == {"none", "full", "low", "e1", "e2"}

(* The state of a context that has seen nothing, and of no event.          *)
NoState == ""

Events == [state : EventStates \union {NoState}, data : Datas]

ContextOK(c) ==
  /\ DOMAIN c = {"state", "data", "count", "last", "sent"}
  /\ c.state \in EventStates \union {NoState}
  /\ c.count \in 0..Cap
  /\ c.sent \in BOOLEAN

SentOK == reported' \in Events /\ seen' \subseteq EventStates

StateOK ==
  /\ kind \in Kinds /\ ContextOK(ctx) /\ due \in BOOLEAN /\ streak \in 0..Cap
  /\ reported \in Events /\ seen \subseteq EventStates
  /\ kind = "position" => (ctx.data # "none" <=> ctx.state = "unknown")

LEMMA TypesAreState == TriggersTypeOK <=> StateOK
  BY Zenon DEF TriggersTypeOK, StateOK, ContextOK, Events, Event, Datas, NoState

LEMMA ReadingTypes ==
  ASSUME NEW k \in AllKinds, NEW r \in Readings(k)
  PROVE  r \in Events /\ r.state \in EventStates /\ r.data \in Datas
<1>1. r.state \in EventStates
  BY DEF EventStates
<1>2. r \in [state : {r.state}, data : Datas]
  <2>1. CASE k \in Latching
    BY <2>1 DEF Readings, Plain, Latching, Datas
  <2>2. CASE k \in {"position", "motion", "geofence"}
    BY <2>2 DEF Readings, Plain, Datas
  <2>3. CASE k \in Heartbeats
    BY <2>3 DEF Readings, Plain, Heartbeats, Datas
  <2>4. CASE k \in Repeating
    BY <2>4 DEF Readings, Plain, Repeating, Heartbeats, Datas
  <2>5. QED
    BY <2>1, <2>2, <2>3, <2>4 DEF AllKinds
<1>3. QED
  BY <1>1, <1>2 DEF Events

LEMMA CountTypes ==
  /\ Cap \in Nat /\ Cap > 2
  /\ 0 \in 0..Cap /\ 1 \in 0..Cap
  /\ \A n \in 0..Cap : Plus(n) \in 0..Cap
<1>1. Cap \in Nat /\ Cap > 2
  BY TriggerAssumption DEF Cap
<1>2. QED
  BY <1>1 DEF Plus

LEMMA SendTypes ==
  ASSUME StateOK, NEW e, (Send(e) /\ e \in Events /\ e.state # NoState) \/ NoEvent
  PROVE  SentOK
<1>1. reported \in Events /\ seen \subseteq EventStates
  BY DEF StateOK
<1>2. CASE NoEvent
  BY <1>1, <1>2 DEF NoEvent, SentOK
<1>3. CASE Send(e) /\ e \in Events /\ e.state # NoState
  <2>1. e.state \in EventStates
    BY <1>3 DEF Events
  <2>2. QED
    BY <1>1, <1>3, <2>1 DEF Send, SentOK
<1>4. QED
  BY <1>2, <1>3

LEMMA ChangeTypes ==
  ASSUME StateOK, NEW state \in EventStates \ {NoState}, NEW data \in Datas, ChangeTo(state, data)
  PROVE  ContextOK(ctx') /\ SentOK /\ ctx'.state = state /\ ctx'.data = data
<1>1. ContextOK(ctx)
  BY DEF StateOK
<1>2. ctx' = [ctx EXCEPT !.state = state, !.data = data]
  BY DEF ChangeTo
<1>3. ContextOK(ctx') /\ ctx'.state = state /\ ctx'.data = data
  BY <1>1, <1>2 DEF ContextOK
<1> DEFINE e == [state |-> state, data |-> data]
<1>4. e \in Events /\ e.state # NoState
  BY DEF Events
<1>5. Send(e) \/ NoEvent
  BY DEF ChangeTo
<1> HIDE DEF e
<1>6. QED
  BY <1>3, <1>4, <1>5, SendTypes

LEMMA LatchStates ==
  /\ CommunicationStates \union EngineStates \union {"enter", "exit", "recover"} \subseteq EventStates
  /\ NoState \notin CommunicationStates \union EngineStates \union {"enter", "exit", "recover"}
<1>1. CommunicationStates \union EngineStates \union {"enter", "exit", "recover"} \subseteq EventStates
  BY DEF EventStates, CommunicationStates, EngineStates
<1>2. NoState \notin CommunicationStates \union EngineStates \union {"enter", "exit", "recover"}
  BY Zenon DEF NoState, CommunicationStates, EngineStates
<1>3. QED
  BY <1>1, <1>2

LEMMA PositionData ==
  ASSUME NEW r \in Readings("position")
  PROVE  r.data # "none" <=> r.state = "unknown"
  BY DEF Readings, Plain

(* A reading is no empty state. *)
LEMMA ReadingNamed ==
  ASSUME NEW k \in AllKinds, NEW r \in Readings(k)
  PROVE  r.state # NoState
<1>1. CASE k \in Latching
  <2>1. r.state \in {"ok", "error", "turning", "zero"}
    <3>1. CASE k = "communication"
      BY <3>1 DEF Readings, Plain, Heartbeats
    <3>2. CASE k = "engine"
      BY <3>2 DEF Readings, Plain, Heartbeats
    <3>3. QED
      BY <1>1, <3>1, <3>2 DEF Latching
  <2>2. QED
    BY <2>1, Zenon DEF NoState
<1>2. CASE k \notin Latching
  BY <1>2, ReadingStates, Zenon DEF NoState
<1>3. QED
  BY <1>1, <1>2

(* Each trigger leaves its context, its timer and the last event typed. *)
LEMMA TriggerTypes ==
  ASSUME StateOK, NEW r \in Readings(kind), Trigger(r)
  PROVE  /\ ContextOK(ctx') /\ SentOK /\ due' \in BOOLEAN /\ streak' \in 0..Cap /\ kind' = kind
         /\ kind = "position" => (ctx'.data # "none" <=> ctx'.state = "unknown")
<1>1. /\ kind \in AllKinds /\ ContextOK(ctx) /\ due \in BOOLEAN /\ streak \in 0..Cap
      /\ kind = "position" => (ctx.data # "none" <=> ctx.state = "unknown")
  BY TriggerAssumption DEF StateOK
<1>2. r \in Events /\ r.state \in EventStates /\ r.state # NoState /\ r.data \in Datas /\ "none" \in Datas
  BY <1>1, ReadingTypes, ReadingNamed DEF Datas
<1>3. ASSUME NEW k, Receive(k, r)
      PROVE  kind = k /\ kind' = kind /\ streak' \in 0..Cap
  BY <1>1, <1>3, CountTypes DEF Receive
<1>4. CASE Communication(r) \/ Engine(r)
  <2>1. \E state \in CommunicationStates \union EngineStates : ChangeTo(state, "none")
    BY <1>4 DEF Communication, Engine, Latch, CommunicationStates, EngineStates
  <2>2. ContextOK(ctx') /\ SentOK
    BY <1>2, <2>1, LatchStates, ChangeTypes
  <2>3. QED
    BY <1>1, <1>3, <1>4, <2>2 DEF Communication, Engine
<1>5. CASE Position(r)
  <2>1. ContextOK(ctx') /\ SentOK /\ ctx'.state = r.state /\ ctx'.data = r.data
    BY <1>2, <1>5, ChangeTypes DEF Position
  <2>2. kind = "position"
    BY <1>3, <1>5 DEF Position
  <2>3. QED
    BY <1>1, <1>3, <1>5, <2>1, <2>2, PositionData DEF Position
<1>6. CASE Motion(r)
  <2>1. ContextOK(ctx') /\ SentOK
    <3>1. CASE ctx.state # r.state /\ due
      BY <1>2, <1>6, <3>1, ChangeTypes DEF Motion
    <3>2. CASE ~(ctx.state # r.state /\ due)
      BY <1>1, <1>6, <3>2, SendTypes DEF Motion
    <3>3. QED
      BY <3>1, <3>2
  <2>2. due' \in BOOLEAN /\ Receive("motion", r)
    BY <1>1, <1>6 DEF Motion
  <2>3. QED
    BY <1>3, <2>1, <2>2
<1>7. ASSUME NEW k \in Repeating, Unsettled(k, r)
      PROVE  ContextOK(ctx') /\ SentOK /\ due' \in BOOLEAN /\ Receive(k, r)
  <2>1. Observe(r) /\ NoEvent /\ Receive(k, r)
    BY <1>7 DEF Unsettled
  <2> DEFINE n == Plus(ctx.count)
  <2>2. ContextOK(ctx')
    <3>1. n \in 0..Cap /\ 1 \in 0..Cap
      BY <1>1, CountTypes DEF ContextOK
    <3>2. \/ ctx' = [ctx EXCEPT !.state = r.state, !.count = 1, !.data = "unsent", !.sent = FALSE]
          \/ ctx' = [ctx EXCEPT !.count = n]
      BY <2>1 DEF Observe
    <3> HIDE DEF n
    <3>3. QED
      BY <1>1, <1>2, <3>1, <3>2 DEF ContextOK
  <2>3. due' \in BOOLEAN
    BY <1>1, <2>1 DEF Observe
  <2>4. QED
    BY <2>1, <2>2, <2>3, SendTypes
<1>8. ASSUME Battery(r) \/ HookBattery(r) \/ Temperature(r)
      PROVE  ContextOK(ctx') /\ SentOK /\ due' \in BOOLEAN /\ \E k \in Repeating : Receive(k, r)
  <2>1. ContextOK(ctx')
    <3>1. CASE Battery(r)
      BY <1>1, <3>1, CountTypes DEF Battery, ContextOK
    <3>2. CASE HookBattery(r)
      BY <1>1, <3>2, CountTypes DEF HookBattery, ContextOK
    <3>3. CASE Temperature(r)
      BY <1>1, <3>3, CountTypes DEF Temperature, ContextOK
    <3>4. QED
      BY <1>8, <3>1, <3>2, <3>3
  <2>2. Send(r) \/ NoEvent
    BY <1>8 DEF Battery, HookBattery, Temperature
  <2>3. due' \in BOOLEAN /\ \E k \in Repeating : Receive(k, r)
    BY <1>1, <1>8 DEF Battery, HookBattery, Temperature, Repeating
  <2>4. QED
    BY <1>2, <2>1, <2>2, <2>3, SendTypes
<1>9. ASSUME GeofenceFirst(r) \/ GeofenceAgain(r) \/ GeofenceOther(r)
      PROVE  ContextOK(ctx') /\ SentOK /\ due' = due /\ Receive("geofence", r)
  <2> DEFINE e == [state |-> GeofenceEvent(r.state), data |-> "none"]
             n == Plus(ctx.count)
  <2>0. \/ ctx' = [ctx EXCEPT !.state = r.state]
        \/ ctx' = [ctx EXCEPT !.count = n, !.state = r.state]
        \/ ctx' = [ctx EXCEPT !.count = n]
        \/ ctx' = [ctx EXCEPT !.last = r, !.count = 0]
    <3>1. CASE GeofenceFirst(r)
      BY <3>1, Zenon DEF GeofenceFirst
    <3>2. CASE GeofenceAgain(r)
      BY <3>2, Zenon DEF GeofenceAgain
    <3>3. CASE GeofenceOther(r)
      BY <3>3, Zenon DEF GeofenceOther
    <3>4. QED
      BY <1>9, <3>1, <3>2, <3>3
  <2>1. ContextOK(ctx')
    <3>1. n \in 0..Cap /\ 0 \in 0..Cap
      BY <1>1, CountTypes DEF ContextOK
    <3> HIDE DEF n
    <3>2. QED
      BY <1>1, <1>2, <2>0, <3>1 DEF ContextOK
  <2>2. e \in Events /\ e.state # NoState
    BY <1>2, LatchStates DEF GeofenceEvent, Events
  <2>3. Send(r) \/ Send(e) \/ NoEvent
    BY <1>9, Zenon DEF GeofenceFirst, GeofenceAgain, GeofenceOther
  <2> HIDE DEF e
  <2>4. SentOK
    BY <1>2, <2>2, <2>3, SendTypes
  <2>5. due' = due /\ Receive("geofence", r)
    BY <1>9, Zenon DEF GeofenceFirst, GeofenceAgain, GeofenceOther
  <2>6. QED
    BY <2>1, <2>4, <2>5
<1>10. ASSUME Recover(r)
       PROVE  ContextOK(ctx') /\ SentOK /\ due' = due /\ Receive("heartbeat_recovery", r)
  <2> DEFINE e == [state |-> "recover", data |-> "none"]
  <2>0. /\ Receive("heartbeat_recovery", r) /\ Send(e) /\ due' = due
        /\ ctx' = [ctx EXCEPT !.sent = (failed' = failed)]
    BY <1>10, Zenon DEF Recover
  <2>1. ContextOK(ctx')
    BY <1>1, <2>0 DEF ContextOK
  <2>2. e \in Events /\ e.state # NoState
    BY <1>2, LatchStates DEF Events
  <2> HIDE DEF e
  <2>4. QED
    BY <2>0, <2>1, <2>2, SendTypes
<1>11. ASSUME NEW k \in Heartbeats, Heartbeat(k, r)
       PROVE  ContextOK(ctx') /\ SentOK /\ due' = due /\ Receive(k, r)
  <2>1. Receive(k, r) /\ ChangeTo(r.state, "none") /\ due' = due
    BY <1>11, Zenon DEF Heartbeat
  <2>2. QED
    BY <1>2, <2>1, ChangeTypes
<1>12. CASE kind # "position"
  BY <1>1, <1>3, <1>4, <1>6, <1>7, <1>8, <1>9, <1>10, <1>11, <1>12, <1>5 DEF Trigger
<1>13. CASE kind = "position"
  <2>1. ~(Communication(r) \/ Engine(r) \/ Motion(r))
    BY <1>3, <1>13 DEF Communication, Engine, Motion
  <2>2. /\ \A k \in Repeating : ~Unsettled(k, r)
        /\ ~(Battery(r) \/ HookBattery(r) \/ Temperature(r))
        /\ \A k \in Heartbeats : ~Heartbeat(k, r)
    BY <1>3, <1>13, <1>7, <1>8, <1>11 DEF Repeating, Heartbeats
  <2>3. ~(GeofenceFirst(r) \/ GeofenceAgain(r) \/ GeofenceOther(r)) /\ ~Recover(r)
    BY <1>3, <1>13, <1>9, <1>10
  <2>4. Position(r)
    BY <2>1, <2>2, <2>3 DEF Trigger
  <2>5. QED
    BY <1>5, <2>4
<1>14. QED
  BY <1>12, <1>13

LEMMA TriggersTypesInit == TriggersInit => StateOK
<1> SUFFICES ASSUME TriggersInit
             PROVE  StateOK
  OBVIOUS
<1> DEFINE state == NoState
<1>1. /\ kind \in Kinds /\ due = TRUE /\ streak = 0 /\ seen = {}
      /\ reported = [state |-> state, data |-> "none"]
      /\ ctx = [state |-> state, data |-> "none", count |-> 0,
                last |-> [state |-> state, data |-> "none"], sent |-> FALSE]
  BY Zenon DEF TriggersInit, Nothing, NoState
<1>2. state # "unknown" /\ state \in EventStates \union {NoState}
  BY Zenon DEF NoState
<1> HIDE DEF state
<1>3. reported \in Events
  BY <1>1, <1>2 DEF Events, Datas
<1>4. /\ DOMAIN ctx = {"state", "data", "count", "last", "sent"}
      /\ ctx.state = state /\ ctx.data = "none" /\ ctx.count = 0 /\ ctx.sent = FALSE
  BY <1>1
<1>5. 0 \in 0..Cap
  BY CountTypes
<1>6. ContextOK(ctx)
  BY <1>2, <1>4, <1>5 DEF ContextOK
<1>7. QED
  BY <1>1, <1>2, <1>3, <1>4, <1>5, <1>6 DEF StateOK

LEMMA TriggersTypesStep == StateOK /\ [TriggersNext]_triggerVars => StateOK'
<1> SUFFICES ASSUME StateOK, [TriggersNext]_triggerVars
             PROVE  StateOK'
  OBVIOUS
<1>1. CASE ReadingComes
  <2>1. PICK r \in Readings(kind) : Trigger(r)
    BY <1>1 DEF ReadingComes
  <2>2. /\ ContextOK(ctx') /\ SentOK /\ due' \in BOOLEAN /\ streak' \in 0..Cap /\ kind' = kind
        /\ kind = "position" => (ctx'.data # "none" <=> ctx'.state = "unknown")
    BY <2>1, TriggerTypes
  <2>3. QED
    BY <2>2 DEF StateOK, SentOK
<1>2. CASE HeartbeatOnly \/ UNCHANGED triggerVars
  BY <1>2 DEF HeartbeatOnly, triggerVars, StateOK
<1>3. CASE Tick
  BY <1>3 DEF Tick, StateOK
<1>4. QED
  BY <1>1, <1>2, <1>3 DEF TriggersNext

(* The contexts and the events keep their types: every event that is sent  *)
(* has a name and data of the program's, whatever is read, and a position  *)
(* carries an error exactly when it is unknown (obd_manager.py,            *)
(* tracking_manager.py, acc_manager.py, spm_manager.py, hooklib.py).       *)
THEOREM TriggersKeepTypes == TriggersSpec => []TriggersTypeOK
  BY TypesAreState, TriggersTypesInit, TriggersTypesStep, PTL DEF TriggersSpec

-----------------------------------------------------------------------------
(* Events are debounced.                                                   *)

(* The count of a trigger is that of the readings in a row: the battery    *)
(* and temperature triggers know the last reading, and a fence remembers   *)
(* the reading that it has counted since it came first.                    *)
RowInv ==
  /\ reading.state # NoState => streak >= 1
  /\ kind \in Repeating => reading.state = ctx.state
  /\ kind = "geofence" =>
       /\ ctx.state = NoState => reported = Nothing /\ ctx.last = Nothing
       /\ ctx.last # Nothing => reading = ctx.last /\ (streak >= ctx.count + 1 \/ streak = Cap)

LEMMA PlusCounts ==
  ASSUME NEW n \in 0..Cap
  PROVE  /\ Plus(n) \in Nat /\ n \in Nat /\ Cap \in Nat /\ RepeatCount \in Nat /\ Cap = RepeatCount + 2
         /\ Plus(n) >= 1 /\ Plus(n) <= n + 1
         /\ n >= 1 => Plus(n) >= 2
         /\ \A m \in 0..Cap : n >= m + 1 \/ n = Cap =>
              /\ Plus(n) >= Plus(m) + 1 \/ Plus(n) = Cap
              /\ m + 1 >= RepeatCount => Plus(n) >= RepeatCount + 1
<1>1. RepeatCount \in Nat /\ RepeatCount >= 1 /\ Cap \in Nat /\ Cap = RepeatCount + 2
  BY TriggerAssumption DEF Cap
<1>2. QED
  BY <1>1 DEF Plus

LEMMA RowOfReading ==
  ASSUME StateOK, RowInv, NEW k, NEW r \in Readings(kind), Receive(k, r)
  PROVE  /\ kind = k /\ kind' = kind /\ reading' = r /\ r.state # NoState /\ r # Nothing
         /\ streak' \in Nat /\ streak' >= 1
         /\ r.state = reading.state => streak' = Plus(streak) /\ streak' >= 2
<1>1. kind \in AllKinds /\ streak \in 0..Cap
  BY TriggerAssumption DEF StateOK
<1>2. kind = k /\ kind' = kind /\ reading' = r
      /\ streak' = IF r.state = reading.state THEN Plus(streak) ELSE 1
  BY DEF Receive
<1>3. r.state # NoState
  BY <1>1, ReadingNamed
<1>4. r # Nothing
  BY <1>3, EmptyNothing, Zenon DEF NoState
<1>5. r.state = reading.state => streak' = Plus(streak) /\ streak >= 1
  BY <1>2, <1>3 DEF RowInv
<1>6. r.state = reading.state => streak' >= 2 /\ streak' \in Nat
  BY <1>1, <1>5, PlusCounts
<1>7. r.state # reading.state => streak' = 1
  BY <1>2
<1>8. streak' \in Nat /\ streak' >= 1
  BY <1>6, <1>7
<1>9. QED
  BY <1>2, <1>3, <1>4, <1>5, <1>6, <1>8

(* The kinds that report whatever they read.                               *)
LEMMA RowOfOthers ==
  ASSUME StateOK, RowInv, NEW r \in Readings(kind),
         \/ Communication(r) \/ Engine(r) \/ Position(r) \/ Motion(r) \/ Recover(r)
         \/ \E k \in Heartbeats : Heartbeat(k, r)
  PROVE  RowInv' /\ streak' >= 1 /\ kind \notin Repeating /\ kind # "geofence"
<1>1. PICK k \in AllKinds : Receive(k, r) /\ k \notin Repeating /\ k # "geofence"
  <2>1. CASE Communication(r) \/ Engine(r) \/ Position(r) \/ Motion(r)
    BY <2>1 DEF Communication, Engine, Position, Motion, AllKinds, Latching, Repeating
  <2>2. CASE Recover(r) \/ \E k \in Heartbeats : Heartbeat(k, r)
    <3>1. \E k \in Heartbeats : Receive(k, r)
      BY <2>2, Zenon DEF Recover, Heartbeat, Heartbeats
    <3>2. QED
      BY <3>1 DEF Heartbeats, AllKinds, Repeating
  <2>3. QED
    BY <2>1, <2>2
<1>2. kind = k /\ kind' = kind /\ streak' >= 1
  BY <1>1, RowOfReading
<1>3. QED
  BY <1>1, <1>2 DEF RowInv

(* A reading that settles comes the second time in a row.                  *)
LEMMA RowOfRepeating ==
  ASSUME StateOK, RowInv, NEW r \in Readings(kind),
         \/ \E k \in Repeating : Unsettled(k, r)
         \/ Battery(r) \/ HookBattery(r) \/ Temperature(r)
  PROVE  RowInv' /\ kind \in Repeating /\ (reported' # reported => streak' >= 2)
<1>0. DOMAIN ctx = {"state", "data", "count", "last", "sent"}
  BY DEF StateOK, ContextOK
<1>1. PICK k \in Repeating : Receive(k, r)
  BY DEF Unsettled, Battery, HookBattery, Temperature, Repeating
<1>2. /\ kind = k /\ kind' = kind /\ reading' = r /\ streak' \in Nat /\ streak' >= 1
      /\ r.state = reading.state => streak' >= 2
  BY <1>1, RowOfReading
<1>3. reading.state = ctx.state
  BY <1>1, <1>2 DEF RowInv
<1>4. ctx'.state = r.state /\ (reported' # reported => r.state = ctx.state)
  <2>1. CASE \E j \in Repeating : Unsettled(j, r)
    BY <1>0, <2>1 DEF Unsettled, Observe, NoEvent
  <2>2. CASE Battery(r) \/ HookBattery(r) \/ Temperature(r)
    <3>1. ctx.state = r.state
      BY <2>2 DEF Battery, HookBattery, Temperature, Settled
    <3>2. ctx'.state = ctx.state
      BY <1>0, <2>2 DEF Battery, HookBattery, Temperature
    <3>3. QED
      BY <3>1, <3>2
  <2>3. QED
    BY <2>1, <2>2
<1>5. kind # "geofence"
  BY <1>1, <1>2 DEF Repeating
<1>6. QED
  BY <1>1, <1>2, <1>3, <1>4, <1>5 DEF RowInv

(* A fence changes when the same reading was counted often enough.         *)
LEMMA RowOfGeofence ==
  ASSUME StateOK, RowInv, NEW r \in Readings(kind),
         GeofenceFirst(r) \/ GeofenceAgain(r) \/ GeofenceOther(r)
  PROVE  /\ RowInv' /\ kind = "geofence" /\ streak' >= 1
         /\ reported' # reported /\ reported # Nothing => streak' >= RepeatCount + 1
<1>0. /\ DOMAIN ctx = {"state", "data", "count", "last", "sent"} /\ ctx.count \in 0..Cap
      /\ streak \in 0..Cap
  BY DEF StateOK, ContextOK
<1>1. Receive("geofence", r)
  BY Zenon DEF GeofenceFirst, GeofenceAgain, GeofenceOther
<1>2. /\ kind = "geofence" /\ kind' = kind /\ reading' = r /\ r.state # NoState /\ r # Nothing
      /\ streak' \in Nat /\ streak' >= 1 /\ (r.state = reading.state => streak' = Plus(streak))
  BY <1>1, RowOfReading
<1>3. /\ ctx.state = NoState => reported = Nothing /\ ctx.last = Nothing
      /\ ctx.last # Nothing => reading = ctx.last /\ (streak >= ctx.count + 1 \/ streak = Cap)
  BY <1>2 DEF RowInv
<1>4. ASSUME ctx'.state # NoState,
             ctx'.last # Nothing => ctx'.last = r /\ (streak' >= ctx'.count + 1 \/ streak' = Cap)
      PROVE  RowInv'
  <2>1. kind' \notin Repeating
    BY <1>2 DEF Repeating
  <2>2. QED
    BY <1>2, <1>4, <2>1 DEF RowInv
<1>5. CASE GeofenceFirst(r)
  <2>1. ctx.state = NoState /\ ctx' = [ctx EXCEPT !.state = r.state]
    BY <1>5, Zenon DEF GeofenceFirst, NoState
  <2>2. ctx'.state = r.state /\ ctx'.last = ctx.last
    BY <1>0, <2>1
  <2>3. ctx.last = Nothing /\ reported = Nothing
    BY <1>3, <2>1
  <2>4. QED
    BY <1>2, <1>4, <2>2, <2>3
<1>6. CASE GeofenceAgain(r)
  <2> DEFINE n == Plus(ctx.count)
  <2>1. ctx.state # NoState /\ ctx.last = r
    BY <1>6, Zenon DEF GeofenceAgain, NoState
  <2>2. \/ ctx' = [ctx EXCEPT !.count = n, !.state = r.state] /\ ctx.count + 1 >= RepeatCount
        \/ ctx' = [ctx EXCEPT !.count = n] /\ reported' = reported
    BY <1>6, Zenon DEF GeofenceAgain, NoEvent
  <2> HIDE DEF n
  <2>3. ctx'.state # NoState /\ ctx'.last = r /\ ctx'.count = n
    BY <1>0, <1>2, <2>1, <2>2
  <2>4. streak' = Plus(streak) /\ (streak >= ctx.count + 1 \/ streak = Cap)
    BY <1>2, <1>3, <2>1
  <2> DEFINE c == ctx.count
             s == streak
  <2>5. c \in 0..Cap /\ s \in 0..Cap /\ (s >= c + 1 \/ s = Cap)
    BY <1>0, <2>4
  <2> HIDE DEF c, s
  <2>6. /\ Plus(s) >= Plus(c) + 1 \/ Plus(s) = Cap
        /\ c + 1 >= RepeatCount => Plus(s) >= RepeatCount + 1
    BY <2>5, PlusCounts
  <2>7. streak' >= n + 1 \/ streak' = Cap
    BY <2>4, <2>6 DEF c, s, n
  <2>8. reported' # reported => streak' >= RepeatCount + 1
    BY <2>2, <2>4, <2>6 DEF c, s
  <2>9. QED
    BY <1>2, <1>4, <2>3, <2>7, <2>8
<1>7. CASE GeofenceOther(r)
  <2>1. ctx.state # NoState /\ ctx' = [ctx EXCEPT !.last = r, !.count = 0] /\ reported' = reported
    BY <1>7, Zenon DEF GeofenceOther, NoState, NoEvent
  <2>2. ctx'.state = ctx.state /\ ctx'.last = r /\ ctx'.count = 0
    BY <1>0, <2>1
  <2>3. QED
    BY <1>2, <1>4, <2>1, <2>2
<1>8. QED
  BY <1>5, <1>6, <1>7

LEMMA RowStep ==
  ASSUME StateOK, RowInv, [TriggersNext]_triggerVars
  PROVE  RowInv' /\ (reported' # reported => streak' >= Needed)
<1>0. RepeatCount \in Nat
  BY TriggerAssumption
<1>1. ASSUME NEW r \in Readings(kind), Trigger(r)
      PROVE  RowInv' /\ (reported' # reported => streak' >= Needed)
  <2>1. \/ RowInv' /\ streak' >= 1 /\ kind \notin Repeating /\ kind # "geofence"
        \/ RowInv' /\ kind \in Repeating /\ (reported' # reported => streak' >= 2)
        \/ /\ RowInv' /\ kind = "geofence" /\ streak' >= 1
           /\ reported' # reported /\ reported # Nothing => streak' >= RepeatCount + 1
    BY <1>1, RowOfOthers, RowOfRepeating, RowOfGeofence DEF Trigger
  <2>2. /\ kind \notin Repeating /\ kind # "geofence" => Needed = 1
        /\ kind \in Repeating => Needed = 2
        /\ kind = "geofence" => Needed = IF reported # Nothing THEN RepeatCount + 1 ELSE 1
    BY DEF Needed, Repeating
  <2>3. QED
    BY <2>1, <2>2
<1>2. CASE HeartbeatOnly \/ Tick \/ UNCHANGED triggerVars
  <2>1. UNCHANGED <<kind, ctx, reading, streak, reported>>
    BY <1>2 DEF HeartbeatOnly, Tick, triggerVars
  <2>2. QED
    BY <2>1 DEF RowInv
<1>3. QED
  BY <1>1, <1>2 DEF TriggersNext, ReadingComes

(* A fence is reported to be entered or left only when the same result was *)
(* read often enough in a row, and a voltage or a temperature only when it *)
(* was read twice, whatever the bus failed to send (hooklib.py,            *)
(* obd_manager.py).                                                        *)
THEOREM ChangesAreDebounced == TriggersSpec => Debounced
<1>1. TriggersInit => RowInv
  <2> SUFFICES ASSUME TriggersInit
               PROVE  RowInv
    OBVIOUS
  <2>1. /\ reading.state = NoState /\ reported = Nothing
        /\ ctx = [state |-> NoState, data |-> "none", count |-> 0, last |-> Nothing, sent |-> FALSE]
    BY Zenon, EmptyNothing DEF TriggersInit, NoState
  <2>2. ctx.state = NoState /\ ctx.last = Nothing
    BY <2>1
  <2>3. QED
    BY <2>1, <2>2 DEF RowInv
<1>2. StateOK /\ RowInv /\ [TriggersNext]_triggerVars =>
        RowInv' /\ [reported' # reported => streak' >= Needed]_triggerVars
  BY RowStep
<1>3. QED
  BY <1>1, <1>2, TriggersTypesInit, TriggersTypesStep, PTL DEF TriggersSpec, Debounced
=============================================================================
