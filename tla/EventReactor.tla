---------------------------- MODULE EventReactor ----------------------------
(***************************************************************************)
(* The reactors of a message processor (EventDrivenMessageProcessor of     *)
(* _utils/messaging.py), as the event reactor (_engines/event_reactor.py)  *)
(* uses them: each event of the bus is offered to every reactor in turn,   *)
(* which may run a list of actions.  One action keeps the event in a cache *)
(* and hands it to a returner only if it differs from the last one.        *)
(*                                                                         *)
(* Events are served one after the other by the main thread.  Whether a    *)
(* condition is met is left open; that a list of conditions grows like     *)
(* that of the actions changes nothing but their cost.                     *)
(***************************************************************************)
EXTENDS Naturals, Sequences, SequencesExt

CONSTANTS
  NumReactors,   \* reactors that are configured
  Keys,          \* keys of the cache
  Contents,      \* what an event says, without its stamps
  MaxEvents,     \* bound: events on the bus
  MaxRaises      \* bound: conditions, actions and returners that raise

ASSUME ReactorAssumption ==
  /\ {NumReactors, MaxEvents, MaxRaises} \subseteq Nat
  /\ "none" \notin Contents

VARIABLES
  reactor,    \* the configuration of each reactor
  listed,     \* the list under its key "actions", which on_event extends
  debug,      \* DEBUG: is the log level that low?
  event,      \* the event that is served, or NoBusEvent
  at,         \* the reactor it is offered to
  todo,       \* the actions that are left of that reactor's
  cache,      \* context["cache"]: the last event of each key and its _count
  forwarded,  \* history: the last event of each key that was returned, and was
              \* it returned twice in a row?
  lost,       \* history: did the returner fail on the cached event of a key?
  ran,        \* history: the actions each reactor began for this event
  events,     \* number of events
  raises      \* number of failures

reactorVars ==
  <<reactor, listed, debug, event, at, todo, cache, forwarded, lost, ran, events, raises>>
config == <<reactor, debug>>
served == <<cache, forwarded, lost>>

Reactors == 1..NumReactors
Actions  == {"cache", "other"}
NoBusEvent  == [key |-> "none", says |-> "none"]

(* A reactor has its actions in a list, or one action alone, or both; they *)
(* may be chained.                                                         *)
Lists == {<<>>, <<"other", "cache">>}
Configurations == [actions : Lists, action : Actions \union {"none"}, chained : BOOLEAN]
HasList(r) == reactor[r].actions # <<>>
Single(r)  == IF reactor[r].action = "none" THEN <<>> ELSE <<reactor[r].action>>
Configured(r) == reactor[r].actions \o Single(r)

ReactorInit ==
  /\ reactor \in [Reactors -> Configurations]
  /\ debug \in BOOLEAN
  /\ listed = [r \in Reactors |-> reactor[r].actions]
  /\ event = NoBusEvent
  /\ at = 0
  /\ todo = <<>>
  /\ cache = [k \in Keys |-> [says |-> "none", count |-> 0]]
  /\ forwarded = [k \in Keys |-> [says |-> "none", again |-> FALSE]]
  /\ lost = [k \in Keys |-> FALSE]
  /\ ran = [r \in Reactors |-> <<>>]
  /\ events = 0
  /\ raises = 0
-----------------------------------------------------------------------------
(* run takes the next event. *)
ReceiveEvent ==
  /\ at = 0 /\ events < MaxEvents
  /\ events' = events + 1
  /\ event' \in [key : Keys, says : Contents]
  /\ at' = 1
  /\ ran' = [r \in Reactors |-> <<>>]
  /\ UNCHANGED <<config, listed, todo, served, raises>>

Offered == at \in Reactors /\ ran[at] = <<>> /\ todo = <<>>

(* The event does not match, a condition is not met, or there is nothing   *)
(* to do.                                                                  *)
Pass ==
  /\ Offered
  /\ at' = at + 1
  /\ UNCHANGED <<config, listed, event, todo, served, ran, events, raises>>

(* The actions of a reactor: its list, to which a single action is added   *)
(* each time; without a list there is a new one each time.                 *)

(* Mutant: the new list is kept in the reactor. *)
ReactRemembers ==
  /\ Offered
  /\ listed' = [listed EXCEPT ![at] = @ \o Single(at)]
  /\ todo' = listed'[at]
  /\ todo' # <<>>
  /\ UNCHANGED <<config, event, at, served, ran, events, raises>>

React ==
  /\ Offered
  /\ todo' = listed[at] \o Single(at)
  /\ todo' # <<>>
  /\ listed' = IF HasList(at) THEN [listed EXCEPT ![at] = todo'] ELSE listed
  /\ UNCHANGED <<config, event, at, served, ran, events, raises>>

(* Whatever raises ends the event: the reactors after it do not hear of it *)
(* (_match_event, run).                                                    *)
Abandon ==
  /\ event' = NoBusEvent
  /\ at' = 0
  /\ todo' = <<>>

ConditionRaises ==
  /\ Offered
  /\ raises < MaxRaises
  /\ raises' = raises + 1
  /\ Abandon
  /\ UNCHANGED <<config, listed, served, ran, events>>

(* An action is done with or without a result.  Without one a chain ends,  *)
(* and with debug logging that raises (NameError: `result`).               *)
AfterAction(result) ==
  IF ~result /\ reactor[at].chained /\ Len(todo) > 1
  THEN IF debug THEN Abandon
                ELSE at' = at + 1 /\ todo' = <<>> /\ UNCHANGED event
  ELSE /\ todo' = Tail(todo)
       /\ at' = IF Len(todo) = 1 THEN at + 1 ELSE at
       /\ UNCHANGED event

BeginAction(action) ==
  /\ todo # <<>> /\ Head(todo) = action
  /\ ran' = [ran EXCEPT ![at] = Append(@, action)]
  /\ UNCHANGED <<config, listed, events>>

(* It raises before it is done, or before it is begun (keyword_resolve).   *)
ActionRaises ==
  /\ todo # <<>> /\ BeginAction(Head(todo))
  /\ raises < MaxRaises
  /\ raises' = raises + 1
  /\ Abandon
  /\ UNCHANGED served

RunOther ==
  /\ BeginAction("other")
  /\ \E result \in BOOLEAN : AfterAction(result)
  /\ UNCHANGED <<served, raises>>

(* cache_handler with alternating_cache_event_filter and a returner.       *)

(* Mutant: an event of another content goes on with the count. *)
CountedOn(k, says) == [says |-> says, count |-> cache[k].count + 1]

Cached(k, says) ==
  [says |-> says, count |-> IF cache[k].says = says THEN cache[k].count + 1 ELSE 1]

RunCache ==
  LET k == event.key IN
  /\ BeginAction("cache")
  /\ cache' = [cache EXCEPT ![k] = Cached(k, event.says)]
  /\ \/ /\ cache'[k].count # 1
        /\ AfterAction(FALSE)
        /\ UNCHANGED <<forwarded, lost, raises>>
     \/ /\ cache'[k].count = 1
        /\ forwarded' = [forwarded EXCEPT ![k] =
             [says |-> event.says, again |-> @.again \/ (@.says = event.says /\ ~lost[k])]]
        /\ lost' = [lost EXCEPT ![k] = FALSE]
        /\ AfterAction(TRUE)
        /\ UNCHANGED raises
     \/ /\ cache'[k].count = 1
        /\ raises < MaxRaises
        /\ raises' = raises + 1
        /\ lost' = [lost EXCEPT ![k] = TRUE]
        /\ Abandon
        /\ UNCHANGED forwarded

(* Every reactor has heard of the event. *)
EndEvent ==
  /\ at = NumReactors + 1
  /\ Abandon
  /\ UNCHANGED <<config, listed, served, ran, events, raises>>

ReactorNext ==
  \/ ReceiveEvent \/ Pass \/ React \/ ConditionRaises \/ ActionRaises \/ RunOther \/ RunCache \/ EndEvent

ReactorSpec == ReactorInit /\ [][ReactorNext]_reactorVars
-----------------------------------------------------------------------------
ReactorTypeOK ==
  /\ reactor \in [Reactors -> Configurations]
  /\ listed \in [Reactors -> Seq(Actions)]
  /\ debug \in BOOLEAN
  /\ event \in [key : Keys, says : Contents] \union {NoBusEvent}
  /\ at \in 0..(NumReactors + 1)
  /\ todo \in Seq(Actions)
  /\ cache \in [Keys -> [says : Contents \union {"none"}, count : Nat]]
  /\ forwarded \in [Keys -> [says : Contents \union {"none"}, again : BOOLEAN]]
  /\ lost \in [Keys -> BOOLEAN]
  /\ ran \in [Reactors -> Seq(Actions)]
  /\ events \in 0..MaxEvents
  /\ raises \in 0..MaxRaises

(* A reactor runs its actions for an event in their order and each only    *)
(* once, however many events came before (on_event).  Not one that has     *)
(* both `actions` and `action`: its list grows with each event.            *)
ReactsOnce ==
  \A r \in Reactors :
    (HasList(r) /\ Single(r) # <<>>) \/ IsPrefix(ran[r], Configured(r))

(* "Filter that only returns alternating/changed events from cache": the   *)
(* event of a key that was returned last is the one in the cache, unless   *)
(* the returner failed on that one, and none is returned twice in a row,   *)
(* whatever runs an action again or breaks its chain.                      *)
ForwardedIsCached ==
  \A k \in Keys :
    /\ lost[k] \/ forwarded[k].says = cache[k].says
    /\ ~forwarded[k].again
=============================================================================
