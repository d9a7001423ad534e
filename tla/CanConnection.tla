--------------------------- MODULE CanConnection ---------------------------
(***************************************************************************)
(* The connection to the CAN bus (_utils/can_conn.py, CANConn), which the  *)
(* handlers of _engines/can_manager.py call one at a time.  It is opened   *)
(* on demand and again after errors, its filters are kept across buses,    *)
(* and a monitor may keep listening between its calls.                     *)
(*                                                                         *)
(* The bus, its driver and the interface may fail at any moment.  Frames   *)
(* and their formats are left out.                                         *)
(***************************************************************************)
EXTENDS Naturals, FiniteSetsExt

CONSTANTS
  Settings,   \* settings of the interface: channel and bitrate
  Filters,    \* the filters that OBD queries ask for
  MaxErrors   \* consecutive errors after which the bus is given up (5)

ASSUME CanAssumption ==
  /\ MaxErrors \in Nat \ {0}
  /\ "none" \notin Settings

VARIABLES
  can,         \* _bus, with its filters, stats and notifier
  settings,    \* _settings
  autodetect,  \* is _settings["autodetect"] there?
  filters,     \* _filters
  dirty,       \* _is_filters_dirty
  listening,   \* is there a _monitor_listener, and has the notifier got it?
  call,        \* the call that is served
  streak       \* history: calls in a row that failed on this bus, and whether
               \* is_open was asked more than once for one of them

canVars == <<can, settings, autodetect, filters, dirty, listening, call, streak>>

NoBus == [bus |-> FALSE, with |-> "none", notifier |-> FALSE, applied |-> {}, error |-> FALSE,
          consecutive |-> 0]
NoCall == [op |-> "none", pc |-> "idle", filter |-> "none"]
NoStreak == [calls |-> 0, asked |-> FALSE]
NotListening == [listener |-> FALSE, attached |-> FALSE]

CanInit ==
  /\ can = NoBus
  /\ settings \in Settings
  /\ autodetect \in BOOLEAN
  /\ filters = {}
  /\ dirty = FALSE
  /\ listening = NotListening
  /\ call = NoCall
  /\ streak = NoStreak

GoOn(pc) == call' = [call EXCEPT !.pc = pc]

(* A call ends; when a CanError ends it, it becomes the bus's last error.  *)
Return == call' = NoCall /\ streak' = NoStreak
FailOn(c) ==
  /\ call' = NoCall
  /\ can' = [c EXCEPT !.error = TRUE]
  /\ streak' = [streak EXCEPT !.calls = Min({@ + 1, MaxErrors + 1})]
-----------------------------------------------------------------------------
(* is_open.  It takes the last error away and counts it, and forgets the   *)
(* count when there is none; after an error the interface must be up.      *)

(* Mutant: errors are not added up. *)
CountedOnce(c) ==
  IF c.error THEN [c EXCEPT !.error = FALSE, !.consecutive = 1] ELSE [c EXCEPT !.consecutive = 0]

Counted(c) ==
  IF c.error THEN [c EXCEPT !.error = FALSE, !.consecutive = @ + 1]
             ELSE [c EXCEPT !.consecutive = 0]

MayBeOpen   == can.bus /\ Counted(can).consecutive < MaxErrors
MayBeClosed == ~can.bus \/ can.error

(* open: the filters are set again, and the monitor's listener is left     *)
(* behind with the old notifier.                                           *)

(* Mutant: the filters are not. *)
OpenedUnfiltered == [NoBus EXCEPT !.bus = TRUE, !.with = settings, !.notifier = TRUE]

Opened == [NoBus EXCEPT !.bus = TRUE, !.with = settings, !.notifier = TRUE, !.applied = filters]

(* A new bus: bringing it up may fail; an autodetection that fails leaves  *)
(* none and does not raise; when the filters cannot be set the bus stays   *)
(* without a notifier.  A failure here is not counted as the bus's error,  *)
(* except by a call around this one.                                       *)
Open(then, nested) ==
  /\ listening' = [listening EXCEPT !.attached = FALSE]
  /\ autodetect' = FALSE
  /\ \/ /\ can' = NoBus
        /\ Return
        /\ UNCHANGED dirty
     \/ /\ autodetect
        /\ can' = NoBus
        /\ GoOn(then)
        /\ streak' = NoStreak
        /\ UNCHANGED dirty
     \/ /\ can' = Opened
        /\ dirty' = (dirty /\ filters = {})
        /\ GoOn(then)
        /\ streak' = NoStreak
     \/ /\ filters # {}
        /\ can' = [Opened EXCEPT !.notifier = FALSE, !.applied = {}, !.error = nested]
        /\ Return
        /\ UNCHANGED dirty
  /\ UNCHANGED <<settings, filters>>

EnsureOpen(then, nested) ==
  \/ /\ MayBeOpen
     /\ can' = Counted(can)
     /\ GoOn(then)
     /\ streak' = [streak EXCEPT !.asked = @ \/ nested]
     /\ UNCHANGED <<settings, autodetect, filters, dirty, listening>>
  \/ MayBeClosed /\ Open(then, nested)

BeginCall ==
  /\ call = NoCall
  /\ \/ \E op \in {"send", "query", "monitor"} : call' = [NoCall EXCEPT !.op = op, !.pc = "open"]
     \/ \E f \in Filters : call' = [op |-> "obd_query", pc |-> "open", filter |-> f]
  /\ UNCHANGED <<can, settings, autodetect, filters, dirty, listening, streak>>

EnterCall ==
  /\ call.pc = "open"
  /\ EnsureOpen(CASE call.op = "obd_query" -> "filter" [] call.op = "monitor" -> "listen"
                  [] OTHER -> "run", FALSE)
-----------------------------------------------------------------------------
(* obd_query: ensure_filter(clear=True) makes its filter the only one, and *)
(* apply_filters, which ensures an open bus again, sets it.                *)
EnsureFilter ==
  /\ call.pc = "filter"
  /\ IF filters = {call.filter} THEN UNCHANGED <<filters, dirty>>
                                ELSE filters' = {call.filter} /\ dirty' = TRUE
  /\ GoOn(IF dirty' THEN "reopen" ELSE "run")
  /\ UNCHANGED <<can, settings, autodetect, listening, streak>>

EnsureOpenAgain ==
  /\ call.pc = "reopen"
  /\ EnsureOpen("apply", TRUE)

ApplyFilters ==
  /\ call.pc = "apply"
  /\ \/ /\ ~can.bus
        /\ Return
        /\ UNCHANGED <<can, dirty>>
     \/ /\ can.bus
        /\ can' = [can EXCEPT !.applied = filters]
        /\ dirty' = FALSE
        /\ GoOn("run")
        /\ UNCHANGED streak
     \/ /\ can.bus
        /\ FailOn(can)
        /\ UNCHANGED dirty
  /\ UNCHANGED <<settings, autodetect, filters, listening>>

(* The call's own sends, without another decorator around them; a query    *)
(* then waits for replies, which the notifier hands to it.  Without a bus  *)
(* or a notifier the call raises, but no CanError.                         *)
RunCall ==
  /\ call.pc = "run"
  /\ \/ /\ call.op = "send" \/ ~can.notifier
        /\ Return
        /\ UNCHANGED can
     \/ /\ can.bus /\ (call.op = "send" \/ can.notifier)
        /\ FailOn(can)
     \/ /\ call.op # "send" /\ can.notifier
        /\ GoOn("replies")
        /\ UNCHANGED <<can, streak>>
  /\ UNCHANGED <<settings, autodetect, filters, dirty, listening>>

(* await_replies: the replies come, or time runs out.                      *)
AwaitReplies ==
  /\ call.pc = "replies"
  /\ Return
  /\ UNCHANGED <<can, settings, autodetect, filters, dirty, listening>>

(* A first frame is answered by a flow control frame, with the decorated   *)
(* send: it ensures an open bus in the middle of the query.  The query's   *)
(* listener stays behind with the notifier of a bus that is replaced, and  *)
(* with it the frames it still holds.                                      *)
FlowControl ==
  /\ call.pc = "replies"
  /\ EnsureOpen("flow", TRUE)

SendFlowControl ==
  /\ call.pc = "flow"
  /\ \/ ~can.bus /\ Return /\ UNCHANGED can
     \/ can.bus /\ FailOn(can)
     \/ can.bus /\ GoOn("replies") /\ UNCHANGED <<can, streak>>
  /\ UNCHANGED <<settings, autodetect, filters, dirty, listening>>
-----------------------------------------------------------------------------
(* monitor_until: the listener of the last call is added again if the bus  *)
(* was opened again, and replaced if its size changes.  A call that finds  *)
(* no notifier raises when it has its listener already.                    *)

(* Mutant: it is not added again. *)
ListenOnce ==
  /\ call.pc = "listen"
  /\ IF can.notifier
     THEN /\ listening' = IF listening.listener THEN listening
                                                ELSE [listener |-> TRUE, attached |-> TRUE]
          /\ GoOn("read") /\ UNCHANGED streak
     ELSE Return /\ listening' = [listening EXCEPT !.listener = TRUE]
  /\ UNCHANGED <<can, settings, autodetect, filters, dirty>>

Listen ==
  /\ call.pc = "listen"
  /\ IF can.notifier
     THEN /\ listening' = [listener |-> TRUE, attached |-> TRUE]
          /\ GoOn("read") /\ UNCHANGED streak
     ELSE Return /\ listening' = [listening EXCEPT !.listener = TRUE]
  /\ UNCHANGED <<can, settings, autodetect, filters, dirty>>

EndMonitor ==
  /\ call.pc = "read"
  /\ Return
  /\ listening' \in {listening, NotListening}
  /\ UNCHANGED <<can, settings, autodetect, filters, dirty>>
-----------------------------------------------------------------------------
(* connection_handler, which asks is_open, too.                            *)
QueryStatus ==
  /\ call = NoCall /\ can.bus
  /\ can' = Counted(can)
  /\ streak' = [streak EXCEPT !.asked = TRUE]
  /\ UNCHANGED <<settings, autodetect, filters, dirty, listening, call>>

(* setup: changed settings close the bus if it is open.                    *)
Setup ==
  /\ call = NoCall
  /\ settings' \in Settings \ {settings}
  /\ autodetect' \in BOOLEAN
  /\ \/ /\ can.bus /\ MayBeOpen
        /\ can' = NoBus
        /\ listening' = [listening EXCEPT !.attached = FALSE]
     \/ /\ MayBeClosed
        /\ can' = IF can.bus THEN Counted(can) ELSE can
        /\ UNCHANGED listening
  /\ streak' = NoStreak
  /\ UNCHANGED <<filters, dirty, call>>

CanNext ==
  \/ BeginCall \/ EnterCall \/ EnsureFilter \/ EnsureOpenAgain \/ ApplyFilters \/ RunCall
  \/ AwaitReplies \/ FlowControl \/ SendFlowControl
  \/ Listen \/ EndMonitor \/ QueryStatus \/ Setup

CanSpec == CanInit /\ [][CanNext]_canVars
-----------------------------------------------------------------------------
(* A call and its places; an OBD query asks for a filter.                  *)
QueryPlaces == {"open", "run", "replies", "flow"}

Calls ==
  {NoCall}
  \union [op : {"send"}, pc : {"open", "run"}, filter : {"none"}]
  \union [op : {"monitor"}, pc : {"open", "listen", "read"}, filter : {"none"}]
  \union [op : {"query"}, pc : QueryPlaces, filter : {"none"}]
  \union [op : {"obd_query"}, pc : QueryPlaces \union {"filter", "reopen", "apply"},
          filter : Filters]

CanTypeOK ==
  /\ can \in [bus : BOOLEAN, with : Settings \union {"none"}, notifier : BOOLEAN,
              applied : SUBSET Filters, error : BOOLEAN, consecutive : 0..MaxErrors]
  /\ settings \in Settings
  /\ {autodetect, dirty} \subseteq BOOLEAN
  /\ filters \subseteq Filters
  /\ listening \in [listener : BOOLEAN, attached : BOOLEAN]
  /\ call \in Calls
  /\ streak \in [calls : 0..(MaxErrors + 1), asked : BOOLEAN]
  /\ can.bus = (can.with # "none") /\ (can.notifier => can.bus)

(* The call works on the bus.                                              *)
OnBus == call.pc \in {"run", "replies", "flow"} /\ can.bus

(* An OBD query only sees frames that match the filter it asked for: the   *)
(* bus it sends and waits on has that filter and no other, though setting  *)
(* filters may have failed before and the bus may have been opened again   *)
(* since, even in the middle of the query (_is_filters_dirty).             *)
FiltersInForce ==
  call.op = "obd_query" /\ OnBus /\ can.notifier
    => filters = {call.filter} /\ can.applied = filters

(* "The CAN connection is no longer considered open due to 5 consecutive   *)
(* CAN errors": no more calls in a row fail on the same bus (is_open).     *)
GivesUpAfterErrors == streak.calls <= MaxErrors

(* As above, as long as is_open is asked once for each of these calls.     *)
(* Asking takes the error away, and asking again then forgets the count,   *)
(* so a bus that keeps failing is kept when a client asks for its status   *)
(* between two calls (connection_handler), when a query applies filters    *)
(* (apply_filters) and when it answers first frames: a bus on which only   *)
(* the flow control frames fail is never given up (await_replies).         *)
GivesUpUnlessAsked == streak.asked \/ GivesUpAfterErrors

(* While a monitor reads, the bus's notifier has its listener, though the  *)
(* bus was opened again since its last call (monitor_until).               *)
MonitorListens == call.pc = "read" => can.notifier /\ listening.attached

(* What outlives a bus is in force on the next one: the filters and the    *)
(* monitor's listener (is_open, open, apply_filters, monitor_until).       *)
OutlivesBus == FiltersInForce /\ MonitorListens

(* "Ensure closed before updating settings": a call that works on a bus    *)
(* works with the current settings (setup).                                *)
SettingsInForce == OnBus => can.with = settings
=============================================================================
