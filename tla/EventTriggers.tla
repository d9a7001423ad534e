--------------------------- MODULE EventTriggers ---------------------------
(***************************************************************************)
(* The triggers that turn readings into events on the minion's event bus:  *)
(* communication, engine and battery (_engines/obd_manager.py), position   *)
(* (_engines/tracking_manager.py), motion (_engines/acc_manager.py),       *)
(* battery, temperature and geofence (_modules/hooklib.py), and the        *)
(* heartbeat of the power supervisor (_engines/spm_manager.py), once for a *)
(* boot after which it has something to recover from.                      *)
(*                                                                         *)
(* Each trigger remembers in a context of its own what it saw last, and    *)
(* one worker calls it reading by reading, so a behaviour follows a single *)
(* trigger.  A reading is what the converters before the trigger make of   *)
(* it: a state, and the data that the event would carry.                   *)
(***************************************************************************)
EXTENDS Naturals, FiniteSets

CONSTANTS
  Kinds,        \* the triggers that are followed
  RepeatCount,  \* geofence: repeat_count_to_trigger_change
  MaxFailures   \* bound: events that the bus fails to send

Latching  == {"communication", "engine"}
Repeating == {"battery", "hook_battery", "temperature"}
Heartbeats == {"heartbeat", "heartbeat_recovery"}
AllKinds  == Latching \union Repeating \union Heartbeats \union {"position", "motion", "geofence"}

ASSUME TriggerAssumption ==
  /\ Kinds \subseteq AllKinds
  /\ RepeatCount \in Nat \ {0}
  /\ MaxFailures \in Nat

VARIABLES
  kind,      \* the trigger
  ctx,       \* its context
  due,       \* has its time threshold or debounce delay passed?
  reading,   \* history: the last reading that was not skipped
  streak,    \* history: how many readings of its state came in a row
  reported,  \* history: the last event sent
  seen,      \* history: the states of the events sent
  repeated,  \* history: was an event sent twice in a row?
  failed     \* number of events the bus failed to send

triggerVars == <<kind, ctx, due, reading, streak, reported, seen, repeated, failed>>

Nothing == [state |-> "", data |-> "none"]
Plain(states) == [state : states, data : {"none"}]

(* What the converters hand to each trigger.  Left out is what a trigger   *)
(* skips before it looks at its context: a warning for communication, a    *)
(* value that is no rpm for engine, an error for geofence and motion.      *)
Readings(k) ==
  CASE k = "communication" -> Plain({"ok", "error"})
    [] k = "engine"        -> Plain({"turning", "zero", "error"})
    [] k = "position"      -> Plain({"moving", "standstill"}) \union [state : {"unknown"}, data : {"e1", "e2"}]
    [] k = "motion"        -> Plain({"jolting", "shaking", "steady"})
    [] k = "geofence"      -> Plain({"inside", "outside"})
    [] k \in Heartbeats    -> Plain({"booting", "on"})
    [] k = "temperature"   -> Plain({"cold", "warm"}) \union [state : {"unknown"}, data : {"e1"}]
    [] k \in {"battery", "hook_battery"} ->
         Plain({"charging"}) \union [state : {"discharging"}, data : {"full", "low"}]
                             \union [state : {"unknown"}, data : {"e1"}]

Cap == RepeatCount + 2
Plus(n) == IF n < Cap THEN n + 1 ELSE n

TriggersInit ==
  /\ kind \in Kinds
  /\ ctx = [state |-> "", data |-> "none", count |-> 0, last |-> Nothing, sent |-> FALSE]
  /\ due = TRUE
  /\ reading = Nothing
  /\ streak = 0
  /\ reported = Nothing
  /\ seen = {}
  /\ repeated = FALSE
  /\ failed = 0
-----------------------------------------------------------------------------
(* edmp.trigger_event raises when the bus fails, minionutil.trigger_event  *)
(* returns False, which the triggers do not look at.                       *)
Send(e) ==
  \/ /\ reported' = e
     /\ seen' = seen \union {e.state}
     /\ repeated' = (repeated \/ e = reported)
     /\ UNCHANGED failed
  \/ /\ failed < MaxFailures
     /\ failed' = failed + 1
     /\ UNCHANGED <<reported, seen, repeated>>

NoEvent == UNCHANGED <<reported, seen, repeated, failed>>

(* A reading comes in; the trigger's own action says what it does with it. *)
Receive(k, r) ==
  /\ kind = k
  /\ reading' = r
  /\ streak' = IF r.state = reading.state THEN Plus(streak) ELSE 1
  /\ UNCHANGED kind
-----------------------------------------------------------------------------
(* communication_event_trigger and rpm_engine_event_trigger: the positive  *)
(* state, or the negative one, which has a name of its own as long as the  *)
(* positive one has not been seen.                                         *)

(* Mutant: only the positive state is remembered. *)
LatchForgets(on, off, never, positive) ==
  IF positive THEN on ELSE IF ctx.state = on THEN off ELSE never

Latch(on, off, never, positive) ==
  IF positive THEN on ELSE IF ctx.state \in {on, off} THEN off ELSE never

(* The context is changed before the event is sent. *)
ChangeTo(state, data) ==
  /\ ctx' = [ctx EXCEPT !.state = state, !.data = data]
  /\ IF ctx' # ctx THEN Send([state |-> state, data |-> data]) ELSE NoEvent

Communication(r) ==
  /\ Receive("communication", r)
  /\ ChangeTo(Latch("established", "disconnected", "inactive", r.state = "ok"), "none")
  /\ UNCHANGED due

Engine(r) ==
  /\ Receive("engine", r)
  /\ ChangeTo(Latch("running", "stopped", "not_running", r.state = "turning"), "none")
  /\ UNCHANGED due

(* Mutant: the error of an unknown position stays in the context. *)
PositionKeepsError(r) ==
  /\ Receive("position", r)
  /\ ChangeTo(r.state, IF r.data = "none" THEN ctx.data ELSE r.data)
  /\ UNCHANGED due

(* position_event_trigger: another error is a change, too. *)
Position(r) ==
  /\ Receive("position", r)
  /\ ChangeTo(r.state, r.data)
  /\ UNCHANGED due

(* Mutant: the suppressed state is stored. *)
MotionStoresSuppressed(r) ==
  /\ Receive("motion", r)
  /\ IF ctx.state # r.state
     THEN /\ ctx' = [ctx EXCEPT !.state = r.state]
          /\ due' = FALSE
          /\ IF due THEN Send(r) ELSE NoEvent
     ELSE NoEvent /\ UNCHANGED <<ctx, due>>

(* motion_event_trigger: within the debounce delay a change is ignored. *)
Motion(r) ==
  /\ Receive("motion", r)
  /\ IF ctx.state # r.state /\ due
     THEN ChangeTo(r.state, "none") /\ due' = FALSE
     ELSE NoEvent /\ UNCHANGED <<ctx, due>>
-----------------------------------------------------------------------------
(* The triggers that wait until a state has been read twice and for some   *)
(* time.                                                                   *)

(* A new state starts the timer and the count; its threshold is zero when  *)
(* it is unknown.                                                          *)
Observe(r) ==
  IF ctx.state # r.state
  THEN /\ ctx' = [ctx EXCEPT !.state = r.state, !.count = 1, !.data = "unsent", !.sent = FALSE]
       /\ due' = (r.state = "unknown")
  ELSE ctx' = [ctx EXCEPT !.count = Plus(@)] /\ UNCHANGED due

(* The reading that reaches count and threshold. *)
Settled(r) == ctx.state = r.state /\ ctx.count >= 1 /\ due

Unsettled(k, r) ==
  /\ Receive(k, r)
  /\ ~Settled(r)
  /\ Observe(r)
  /\ NoEvent

(* Mutants: there is no filter, and it registers what the bus failed to    *)
(* send.                                                                   *)
BatteryUnfiltered(r) ==
  /\ Receive("battery", r)
  /\ Settled(r)
  /\ due' = (r.state = "unknown")
  /\ Send(r)
  /\ ctx' = [ctx EXCEPT !.count = Plus(@), !.last = r]

BatteryRegistersFirst(r) ==
  /\ Receive("battery", r)
  /\ Settled(r)
  /\ due' = (r.state = "unknown")
  /\ ctx' = [ctx EXCEPT !.count = Plus(@), !.last = r]
  /\ IF ctx.last = r THEN NoEvent ELSE Send(r)

(* obd_manager: the event goes through the duplicate filter of             *)
(* edmp.trigger_event, which registers it once it is sent.                 *)
Battery(r) ==
  /\ Receive("battery", r)
  /\ Settled(r)
  /\ due' = (r.state = "unknown")
  /\ \/ ctx.last = r /\ NoEvent /\ ctx' = [ctx EXCEPT !.count = Plus(@)]
     \/ /\ ctx.last # r
        /\ Send(r)
        /\ ctx' = [ctx EXCEPT !.count = Plus(@), !.last = IF failed' = failed THEN r ELSE @]

(* hooklib: compares the data with what it sent for this state. *)
HookBattery(r) ==
  /\ Receive("hook_battery", r)
  /\ Settled(r)
  /\ due' = (r.state = "unknown")
  /\ ctx' = [ctx EXCEPT !.count = Plus(@), !.data = r.data]
  /\ IF ctx.data # r.data THEN Send(r) ELSE NoEvent

(* hooklib: one event for each time the state is reached. *)
Temperature(r) ==
  /\ Receive("temperature", r)
  /\ Settled(r)
  /\ ctx' = [ctx EXCEPT !.count = Plus(@), !.sent = TRUE]
  /\ IF ctx.sent THEN NoEvent ELSE Send(r)
  /\ UNCHANGED due
-----------------------------------------------------------------------------
(* geofence_event_trigger, for one fence. *)

GeofenceFirst(r) ==
  /\ Receive("geofence", r)
  /\ ctx.state = ""
  /\ ctx' = [ctx EXCEPT !.state = r.state]
  /\ Send(r)
  /\ UNCHANGED due

GeofenceEvent(state) == IF state = "inside" THEN "enter" ELSE "exit"

(* The same reading again: often enough in a row, it changes the state.    *)
GeofenceAgain(r) ==
  /\ Receive("geofence", r)
  /\ ctx.state # ""
  /\ ctx.last = r
  /\ IF ctx.count + 1 >= RepeatCount /\ ctx.state # r.state
     THEN /\ ctx' = [ctx EXCEPT !.count = Plus(@), !.state = r.state]
          /\ Send([state |-> GeofenceEvent(r.state), data |-> "none"])
     ELSE ctx' = [ctx EXCEPT !.count = Plus(@)] /\ NoEvent
  /\ UNCHANGED due

(* Mutant: the count is not reset. *)
GeofenceOtherKeepsCount(r) ==
  /\ Receive("geofence", r)
  /\ ctx.state # ""
  /\ ctx.last # r
  /\ ctx' = [ctx EXCEPT !.last = r]
  /\ NoEvent
  /\ UNCHANGED due

GeofenceOther(r) ==
  /\ Receive("geofence", r)
  /\ ctx.state # ""
  /\ ctx.last # r
  /\ ctx' = [ctx EXCEPT !.last = r, !.count = 0]
  /\ NoEvent
  /\ UNCHANGED due
-----------------------------------------------------------------------------
(* heartbeat_handler: the first status after boot may tell of a recovery,  *)
(* whose event comes before the state is stored, so that it is sent again  *)
(* when the bus failed; the state's own event comes after.                 *)
Recover(r) ==
  /\ Receive("heartbeat_recovery", r)
  /\ ctx.state = "" /\ ~ctx.sent
  /\ Send([state |-> "recover", data |-> "none"])
  /\ ctx' = [ctx EXCEPT !.sent = (failed' = failed)]
  /\ UNCHANGED due

Heartbeat(k, r) ==
  /\ Receive(k, r)
  /\ ctx.state # "on"
  /\ k = "heartbeat_recovery" /\ ctx.state = "" => ctx.sent /\ r = reading
  /\ ChangeTo(r.state, "none")
  /\ UNCHANGED due

(* Once the state is on, the status is not read any more. *)
HeartbeatOnly ==
  /\ kind \in Heartbeats
  /\ ctx.state = "on"
  /\ UNCHANGED triggerVars
-----------------------------------------------------------------------------
(* The threshold passes since the timer was set. *)
Tick ==
  /\ ~due
  /\ due' = TRUE
  /\ UNCHANGED <<kind, ctx, reading, streak, reported, seen, repeated, failed>>

Trigger(r) ==
  \/ Communication(r) \/ Engine(r) \/ Position(r) \/ Motion(r)
  \/ (\E k \in Repeating : Unsettled(k, r))
  \/ Battery(r) \/ HookBattery(r) \/ Temperature(r)
  \/ GeofenceFirst(r) \/ GeofenceAgain(r) \/ GeofenceOther(r)
  \/ Recover(r) \/ (\E k \in Heartbeats : Heartbeat(k, r))

ReadingComes == \E r \in Readings(kind) : Trigger(r)

TriggersNext ==
  \/ ReadingComes
  \/ HeartbeatOnly
  \/ Tick

TriggersSpec == TriggersInit /\ [][TriggersNext]_triggerVars
-----------------------------------------------------------------------------
EventStates ==
  {"established", "disconnected", "inactive", "running", "stopped", "not_running",
   "enter", "exit", "recover"} \union UNION {{r.state : r \in Readings(k)} : k \in AllKinds}
Event == [state : EventStates \union {""}, data : {"none", "full", "low", "e1", "e2"}]

(* Type correctness.  A context carries the error of an unknown position   *)
(* and of no other.                                                        *)
TriggersTypeOK ==
  /\ kind \in Kinds
  /\ DOMAIN ctx = {"state", "data", "count", "last", "sent"}
  /\ ctx.state \in EventStates \union {""}
  /\ ctx.count \in 0..Cap
  /\ ctx.sent \in BOOLEAN
  /\ due \in BOOLEAN
  /\ streak \in 0..Cap
  /\ reported \in Event
  /\ seen \subseteq EventStates
  /\ kind = "position" => (ctx.data # "none" <=> ctx.state = "unknown")

(* Subscribers know the state: as long as the bus sends everything, the    *)
(* last event says what the trigger's context says, however the readings   *)
(* come.                                                                   *)
ReportedIsState ==
  failed = 0 =>
    CASE kind \in Latching \union {"motion", "heartbeat"} -> reported.state = ctx.state
      [] kind = "heartbeat_recovery" ->
           reported.state = IF ctx.sent /\ ctx.state = "" THEN "recover" ELSE ctx.state
      [] kind = "position" -> reported = [state |-> ctx.state, data |-> ctx.data]
      [] kind = "geofence" -> reported.state \in {ctx.state, GeofenceEvent(ctx.state)}
                                \/ (ctx.state = "" /\ reported = Nothing)
      [] OTHER -> TRUE

(* "Check if state has changed since last known state": an event is never  *)
(* sent twice in a row, except by the two triggers of hooklib that start   *)
(* over when a state comes back; "trigger only event if battery state      *)
(* and/or level has changed" even when the bus fails to send some.         *)
NoRepeatedEvent ==
  repeated => \/ kind \in {"hook_battery", "temperature"}
              \/ kind # "battery" /\ failed > 0

(* The vehicle's life: it is "inactive" or "not_running" only before it    *)
(* was connected or running, "disconnected" or "stopped" only afterwards.  *)
(* And a device that had to recover says so before it says that it is on,  *)
(* whatever event the bus fails to send (heartbeat_handler).               *)
LifecycleOrder ==
  /\ failed = 0 =>
       /\ reported.state = "inactive"     => "established" \notin seen
       /\ reported.state = "disconnected" => "established" \in seen
       /\ reported.state = "not_running"  => "running" \notin seen
       /\ reported.state = "stopped"      => "running" \in seen
  /\ kind = "heartbeat_recovery" /\ ctx.state # "" => "recover" \in seen

(* How many readings of a state in a row a new event takes. *)
Needed ==
  CASE kind = "geofence" /\ reported # Nothing -> RepeatCount + 1
    [] kind \in Repeating -> 2
    [] OTHER -> 1

(* "Change happens when the same result is repeated": a fence that seems   *)
(* to be entered or left, or a voltage or temperature that is met, for     *)
(* fewer readings is not reported, whatever was read before and whatever   *)
(* event the bus failed to send.                                           *)
Debounced ==
  [][reported' # reported => streak' >= Needed]_triggerVars

(* The last event tells the reading. *)
Told(r) ==
  CASE kind \in Latching ->
         (reported.state \in {"established", "running"} <=> r.state \in {"ok", "turning"})
           /\ reported # Nothing
    [] kind = "geofence" -> reported.state \in {r.state, GeofenceEvent(r.state)}
    [] OTHER -> reported = r

(* A reading that stays is reported in the end, however it was reached.    *)
(* After the bus has failed this still holds of the battery trigger, which *)
(* tries again; the others have stored the state whose event was lost.     *)
SteadyReported ==
  \A r \in UNION {Readings(k) : k \in AllKinds} :
    <>[](reading = r /\ (failed = 0 \/ kind = "battery")) => <>[]Told(r)
=============================================================================
