---------------------------- MODULE WorkerThread ----------------------------
(***************************************************************************)
(* Worker threads (_utils/threading_more.py, WorkerThread) and the calls   *)
(* that start, pause, resume and kill them through a ThreadRegistry.       *)
(*                                                                         *)
(* A step is one access to an Event or to a flag that another thread uses. *)
(* Calls through the registry hold its lock, so that one is in progress at *)
(* a time; the worker itself runs beside them, and so does the kill() by   *)
(* which a worker ends itself.                                             *)
(***************************************************************************)
EXTENDS Integers, FiniteSets

CONSTANTS
  Workers,       \* the threads of one registry
  Endless, Loop, \* loop: -1, or how many times the target is run
  Delay,         \* delay: does the worker wait before it starts and resumes?
  Interval,      \* interval: does it sleep between two runs?
  Operations,    \* the calls made
  KillsItself,   \* kill_upon_success: may a run end with kill()?
  EarlyResume    \* may a worker be resumed before it has begun?

AllOperations == {"start", "pause", "resume", "start_or_resume", "kill", "kill_run"}

ASSUME WorkerAssumption ==
  /\ Endless \in BOOLEAN /\ Loop \in Nat
  /\ Delay \in BOOLEAN /\ Interval \in BOOLEAN
  /\ Operations \subseteq AllOperations
  /\ KillsItself \in BOOLEAN /\ EarlyResume \in BOOLEAN

VARIABLES
  pc,          \* where each worker is
  proceed,     \* proceed_event
  wake,        \* wake_event
  terminate,   \* terminate
  runLast,     \* run_on_terminate
  loop,        \* loop, counted down
  registry,    \* ThreadRegistry._threads
  call,        \* the call that holds the registry's lock
  runs         \* history: targets begun since proceed_event was last cleared

vars == <<pc, proceed, wake, terminate, runLast, loop, registry, call, runs>>
events == <<proceed, wake, terminate, runLast>>

Manager == "manager"
NoCall == [op |-> "none", by |-> Manager, todo |-> {}, on |-> Manager, step |-> "next"]

(* A worker that has not set proceed_event itself yet. *)
Early(w) == pc[w] \in {"created", "delay", "delayed", "born", "go"}

Init ==
  /\ pc = [w \in Workers |-> "created"]
  /\ proceed = [w \in Workers |-> FALSE]
  /\ wake = [w \in Workers |-> FALSE]
  /\ terminate = [w \in Workers |-> FALSE]
  /\ runLast = [w \in Workers |-> FALSE]
  /\ loop = [w \in Workers |-> IF Endless THEN -1 ELSE Loop]
  /\ registry = Workers
  /\ call = NoCall
  /\ runs = [w \in Workers |-> 0]
-----------------------------------------------------------------------------
(* Events.  Setting one also releases the thread that waits for it: it     *)
(* goes on even if the event is cleared again before it runs.              *)

AfterWait(p) ==
  CASE p = "delayed"   -> "born"
    [] p = "redelayed" -> "check"
    [] p = "asleep"    -> "gate"
    [] p = "paused"    -> "resumed"

SetWake(w) ==
  /\ wake' = [wake EXCEPT ![w] = TRUE]
  /\ pc' = [pc EXCEPT ![w] = IF @ \in {"delayed", "redelayed", "asleep"}
                             THEN AfterWait(@) ELSE @]

SetProceed(w) ==
  /\ proceed' = [proceed EXCEPT ![w] = TRUE]
  /\ pc' = [pc EXCEPT ![w] = IF @ = "paused" THEN AfterWait(@) ELSE @]
  /\ runs' = [runs EXCEPT ![w] = 0]
-----------------------------------------------------------------------------
(* The worker. *)

Goto(w, p) == pc' = [pc EXCEPT ![w] = p]
unchangedByWorker == <<proceed, wake, terminate, runLast, registry, call>>

(* wake_event.wait(seconds) begins: it returns at once when it is set. *)
BeginWait(w) ==
  /\ \/ pc[w] = "delay"   /\ Goto(w, IF Delay /\ ~wake[w] THEN "delayed" ELSE "born")
     \/ pc[w] = "redelay" /\ Goto(w, IF Delay /\ ~wake[w] THEN "redelayed" ELSE "check")
     \/ pc[w] = "sleep"   /\ Goto(w, IF ~wake[w] THEN "asleep" ELSE "gate")
  /\ UNCHANGED <<unchangedByWorker, loop, runs>>

WaitTimesOut(w) ==
  /\ pc[w] \in {"delayed", "redelayed", "asleep"}
  /\ Goto(w, AfterWait(pc[w]))
  /\ UNCHANGED <<unchangedByWorker, loop, runs>>

(* A worker that was killed before it began ends without a run. *)
Begin(w) ==
  /\ pc[w] = "born"
  /\ Goto(w, IF terminate[w] THEN "end" ELSE "go")
  /\ UNCHANGED <<unchangedByWorker, loop, runs>>

Go(w) ==
  /\ pc[w] = "go"
  /\ proceed' = [proceed EXCEPT ![w] = TRUE]
  /\ runs' = [runs EXCEPT ![w] = 0]
  /\ Goto(w, "gate")
  /\ UNCHANGED <<wake, terminate, runLast, loop, registry, call>>

(* Mutant: the worker only looks whether it is to terminate. *)
GateOpen(w) ==
  /\ pc[w] = "gate"
  /\ Goto(w, "check")
  /\ UNCHANGED <<unchangedByWorker, loop, runs>>

(* __proceed: is the worker paused? *)
Gate(w) ==
  /\ pc[w] = "gate"
  /\ Goto(w, IF proceed[w] THEN "check" ELSE "stop")
  /\ UNCHANGED <<unchangedByWorker, loop, runs>>

(* __proceed: proceed_event.wait() *)
Stop(w) ==
  /\ pc[w] = "stop"
  /\ Goto(w, IF proceed[w] THEN "resumed" ELSE "paused")
  /\ UNCHANGED <<unchangedByWorker, loop, runs>>

Resumed(w) ==
  /\ pc[w] = "resumed"
  /\ Goto(w, IF terminate[w] THEN "end" ELSE "redelay")
  /\ UNCHANGED <<unchangedByWorker, loop, runs>>

(* Mutant: only the termination flag ends the loop. *)
CheckForgetsLoop(w) ==
  /\ pc[w] = "check"
  /\ IF terminate[w]
     THEN Goto(w, "end") /\ UNCHANGED <<loop, runs>>
     ELSE /\ Goto(w, "run")
          /\ loop' = [loop EXCEPT ![w] = @ - 1]
          /\ runs' = [runs EXCEPT ![w] = IF @ < 2 THEN @ + 1 ELSE @]
  /\ UNCHANGED unchangedByWorker

(* Mutant: a worker that is not paused does not see that it was killed. *)
CheckForgetsKill(w) ==
  /\ pc[w] = "check"
  /\ IF loop[w] = 0
     THEN Goto(w, "end") /\ UNCHANGED <<loop, runs>>
     ELSE /\ Goto(w, "run")
          /\ loop' = [loop EXCEPT ![w] = IF @ > 0 THEN @ - 1 ELSE @]
          /\ runs' = [runs EXCEPT ![w] = IF @ < 2 THEN @ + 1 ELSE @]
  /\ UNCHANGED unchangedByWorker

(* The last check before a run. *)
Check(w) ==
  /\ pc[w] = "check"
  /\ IF terminate[w] \/ loop[w] = 0
     THEN Goto(w, "end") /\ UNCHANGED <<loop, runs>>
     ELSE /\ Goto(w, "run")
          /\ loop' = [loop EXCEPT ![w] = IF @ > 0 THEN @ - 1 ELSE @]
          /\ runs' = [runs EXCEPT ![w] = IF @ < 2 THEN @ + 1 ELSE @]
  /\ UNCHANGED unchangedByWorker

(* The target returns, or raises. *)
RunEnds(w) ==
  /\ pc[w] = "run"
  /\ call.by # w
  /\ Goto(w, IF Interval THEN "sleep" ELSE "gate") \/ Goto(w, "end")
  /\ UNCHANGED <<unchangedByWorker, loop, runs>>

(* kill_upon_success: the worker kills itself, without the registry's lock. *)
KillSelf(w) ==
  /\ KillsItself
  /\ pc[w] = "run"
  /\ call.by # w
  /\ IF terminate[w]
     THEN Goto(w, IF Interval THEN "sleep" ELSE "gate") /\ UNCHANGED <<terminate, runLast>>
     ELSE /\ Goto(w, "kill proceed")
          /\ terminate' = [terminate EXCEPT ![w] = TRUE]
          /\ runLast' = [runLast EXCEPT ![w] = FALSE]
  /\ UNCHANGED <<proceed, wake, loop, registry, call, runs>>

KillSelfProceed(w) ==
  /\ pc[w] = "kill proceed"
  /\ proceed' = [proceed EXCEPT ![w] = TRUE]
  /\ runs' = [runs EXCEPT ![w] = 0]
  /\ Goto(w, "kill wake")
  /\ UNCHANGED <<wake, terminate, runLast, loop, registry, call>>

KillSelfWake(w) ==
  /\ pc[w] = "kill wake"
  /\ wake' = [wake EXCEPT ![w] = TRUE]
  /\ Goto(w, IF Interval THEN "sleep" ELSE "gate")
  /\ UNCHANGED <<proceed, terminate, runLast, loop, registry, call, runs>>

(* The finally clause: one last run if so asked, then out of the registry. *)
End(w) ==
  /\ pc[w] = "end"
  /\ Goto(w, IF runLast[w] THEN "last run" ELSE "remove")
  /\ UNCHANGED <<unchangedByWorker, loop, runs>>

LastRunEnds(w) ==
  /\ pc[w] = "last run"
  /\ call.by # w
  /\ Goto(w, "remove")
  /\ UNCHANGED <<unchangedByWorker, loop, runs>>

Remove(w) ==
  /\ pc[w] = "remove"
  /\ call = NoCall
  /\ registry' = registry \ {w}
  /\ Goto(w, "gone")
  /\ UNCHANGED <<events, loop, call, runs>>
-----------------------------------------------------------------------------
(* Calls through the registry: do_for_all_by(name, operation). *)
unchangedByCall == <<loop, registry>>

(* The manager's thread calls any operation on some workers; a target that *)
(* closes the OBD connection pauses all workers, its own one too.          *)
BeginCall(op, by, found) ==
  /\ call = NoCall
  /\ op \in Operations
  /\ found # {}
  /\ found \subseteq registry
  /\ \/ by = Manager
     \/ op = "pause" /\ found = registry /\ by \in Workers /\ pc[by] \in {"run", "last run"}
  /\ \A w \in found :
       Early(w) => EarlyResume \/ op \notin {"resume", "start_or_resume"}
                 \/ (op = "start_or_resume" /\ pc[w] = "created")
  /\ call' = [NoCall EXCEPT !.op = op, !.by = by, !.todo = found]
  /\ UNCHANGED <<pc, events, unchangedByCall, runs>>

(* Goes on with the next worker that was found: step names what is done    *)
(* to worker call.on next.                                                 *)
Step(w, s) ==
  /\ call.step = s
  /\ call.on = w
  /\ UNCHANGED unchangedByCall
Then(s) == call' = [call EXCEPT !.step = s]
Return  == call' = [call EXCEPT !.on = Manager, !.step = "next"]

CallNext ==
  /\ call.op # "none"
  /\ call.step = "next"
  /\ \/ call.todo = {} /\ call' = NoCall
     \/ \E w \in call.todo :
          call' = [call EXCEPT !.todo = @ \ {w}, !.on = w, !.step = call.op]
  /\ UNCHANGED <<pc, events, unchangedByCall, runs>>

(* start(): a thread can be started once; the exception ends the call.     *)
Start(w) ==
  /\ Step(w, "start")
  /\ \/ pc[w] = "created" /\ Goto(w, "delay") /\ Return
     \/ pc[w] # "created" /\ UNCHANGED pc /\ call' = NoCall
  /\ UNCHANGED <<events, runs>>

StartOrResume(w) ==
  /\ Step(w, "start_or_resume")
  /\ IF terminate[w] THEN Return ELSE Then(IF pc[w] = "created" THEN "start" ELSE "resume")
  /\ UNCHANGED <<pc, events, runs>>

Pause(w) ==
  /\ Step(w, "pause")
  /\ IF proceed[w] THEN Then("pause: clear") ELSE Return
  /\ UNCHANGED <<pc, events, runs>>

PauseClear(w) ==
  /\ Step(w, "pause: clear")
  /\ proceed' = [proceed EXCEPT ![w] = FALSE]
  /\ runs' = [runs EXCEPT ![w] = 0]
  /\ Then("pause: wake")
  /\ UNCHANGED <<pc, wake, terminate, runLast>>

PauseWake(w) ==
  /\ Step(w, "pause: wake")
  /\ SetWake(w)
  /\ Return
  /\ UNCHANGED <<proceed, terminate, runLast, runs>>

(* Mutant: the wake event stays set. *)
ResumeKeepsWake(w) ==
  /\ Step(w, "resume")
  /\ IF proceed[w] THEN Return ELSE Then("resume: set")
  /\ UNCHANGED <<pc, events, runs>>

Resume(w) ==
  /\ Step(w, "resume")
  /\ IF proceed[w] THEN Return ELSE Then("resume: clear")
  /\ UNCHANGED <<pc, events, runs>>

ResumeClear(w) ==
  /\ Step(w, "resume: clear")
  /\ wake' = [wake EXCEPT ![w] = FALSE]
  /\ Then("resume: set")
  /\ UNCHANGED <<pc, proceed, terminate, runLast, runs>>

ResumeSet(w) ==
  /\ Step(w, "resume: set")
  /\ SetProceed(w)
  /\ Return
  /\ UNCHANGED <<wake, terminate, runLast>>

(* kill(run): the flag run is for one last run. *)
Kill(w) ==
  /\ Step(w, "kill") \/ Step(w, "kill_run")
  /\ IF terminate[w]
     THEN Return /\ UNCHANGED runLast
     ELSE runLast' = [runLast EXCEPT ![w] = call.op = "kill_run"] /\ Then("kill: terminate")
  /\ UNCHANGED <<pc, proceed, wake, terminate, runs>>

KillTerminate(w) ==
  /\ Step(w, "kill: terminate")
  /\ terminate' = [terminate EXCEPT ![w] = TRUE]
  /\ Then("kill: proceed")
  /\ UNCHANGED <<pc, proceed, wake, runLast, runs>>

KillProceed(w) ==
  /\ Step(w, "kill: proceed")
  /\ SetProceed(w)
  /\ Then("kill: wake")
  /\ UNCHANGED <<wake, terminate, runLast>>

KillWake(w) ==
  /\ Step(w, "kill: wake")
  /\ SetWake(w)
  /\ Return
  /\ UNCHANGED <<proceed, terminate, runLast, runs>>
-----------------------------------------------------------------------------
Work(w) ==
  \/ BeginWait(w) \/ Begin(w) \/ Go(w) \/ Gate(w) \/ Stop(w) \/ Resumed(w)
  \/ Check(w) \/ RunEnds(w) \/ KillSelf(w) \/ KillSelfProceed(w) \/ KillSelfWake(w)
  \/ WaitTimesOut(w) \/ End(w) \/ LastRunEnds(w) \/ Remove(w)

Operate(w) ==
  \/ Start(w) \/ StartOrResume(w)
  \/ Pause(w) \/ PauseClear(w) \/ PauseWake(w)
  \/ Resume(w) \/ ResumeClear(w) \/ ResumeSet(w)
  \/ Kill(w) \/ KillTerminate(w) \/ KillProceed(w) \/ KillWake(w)

Next ==
  \/ \E op \in Operations, by \in Workers \union {Manager}, found \in SUBSET Workers :
        BeginCall(op, by, found)
  \/ CallNext
  \/ \E w \in Workers : Work(w) \/ Operate(w)

Spec == Init /\ [][Next]_vars

(* A worker goes on, its target returns, a call that has begun ends, and a *)
(* worker gets the registry's lock although others use it again and again. *)
Fairness ==
  /\ WF_vars(CallNext)
  /\ \A w \in Workers : WF_vars(Work(w)) /\ WF_vars(Operate(w)) /\ SF_vars(Remove(w))

FairSpec == Spec /\ Fairness
-----------------------------------------------------------------------------
Waiting == {"delayed", "redelayed", "asleep", "paused"}
Alive   == {"delay", "born", "go", "gate", "stop", "resumed", "redelay", "check", "run",
            "sleep", "kill proceed", "kill wake", "end", "last run", "remove"} \union Waiting
Steps   == AllOperations \union
           {"next", "pause: clear", "pause: wake", "resume: clear", "resume: set",
            "kill: terminate", "kill: proceed", "kill: wake"}

TypeOK ==
  /\ pc \in [Workers -> Alive \union {"created", "gone"}]
  /\ proceed \in [Workers -> BOOLEAN]
  /\ wake \in [Workers -> BOOLEAN]
  /\ terminate \in [Workers -> BOOLEAN]
  /\ runLast \in [Workers -> BOOLEAN]
  /\ loop \in [Workers -> Nat \union {-1}]
  /\ registry \subseteq Workers
  /\ call \in [op : AllOperations \union {"none"}, by : Workers \union {Manager},
               todo : SUBSET Workers, on : Workers \union {Manager}, step : Steps]
  /\ runs \in [Workers -> 0..2]

(* "Disallow wake to enforce sleep interval again": a worker that is       *)
(* neither paused nor killed has its wake event cleared, so that it sleeps *)
(* for its whole interval between two runs.                                *)
IntervalEnforced == \A w \in Workers : wake[w] /\ proceed[w] => terminate[w]

(* A worker is paused at the latest after the run it is in or about to     *)
(* begin: pausing it lets at most one more run of the target begin.        *)
PauseHolds == \A w \in Workers : ~proceed[w] => runs[w] <= 1

(* A worker that was started and killed ends, unless it is paused again.   *)
KilledEndsUnlessPaused ==
  \A w \in Workers :
    terminate[w] /\ pc[w] # "created" ~> pc[w] = "gone" \/ ~proceed[w]
=============================================================================
