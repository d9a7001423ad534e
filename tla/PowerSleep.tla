----------------------------- MODULE PowerSleep -----------------------------
(***************************************************************************)
(* The device goes to sleep (_modules/power.py): sleep timers are added    *)
(* and cleared as the engine stops and starts, a timer that expires starts *)
(* power.sleep, and so may commands.  Each is a job of its own, and jobs   *)
(* run at the same time.                                                   *)
(*                                                                         *)
(* Time is left out: a timer may expire, and a planned shutdown or a sleep *)
(* of the STN may come, at any moment.                                     *)
(***************************************************************************)
EXTENDS Naturals, FiniteSets

CONSTANTS
  Timers,      \* names of sleep timers
  Commands,    \* subset of {"power.sleep", "power.hibernate"}: commands a user runs
  MaxFaults    \* bound: shutdowns that cannot be planned

ASSUME PowerAssumption ==
  /\ Commands \subseteq {"power.sleep", "power.hibernate"}
  /\ Timers \intersect Commands = {}
  /\ MaxFaults \in Nat

VARIABLES
  spm3,       \* is the SPM of version 3 or later?
  timers,     \* the scheduled sleep timers
  sleepJob,   \* what the job of each timer and command is doing
  planned,    \* the jobs whose system shutdown is planned
  stn,        \* is the STN about to sleep (and to cut the power)?
  device,     \* "on" or "off"
  announced,  \* history: was a sleep or hibernate event triggered since power on?
  cancelled,  \* history: was any pending shutdown cancelled since power on?
  cleared,    \* history: the jobs that were running then
  faults      \* number of shutdowns that could not be planned

powerVars == <<spm3, timers, sleepJob, planned, stn, device, announced, cancelled, cleared, faults>>
outcome == <<spm3, stn, device, announced, cancelled, faults>>

SleepJobs == Timers \union Commands

(* The name saltutil.is_running knows a job by.                            *)
FunctionOf(j) == IF j = "power.hibernate" THEN j ELSE "power.sleep"
Running(j) == sleepJob[j] # "none"

PowerInit ==
  /\ spm3 \in BOOLEAN
  /\ timers = {}
  /\ sleepJob = [j \in SleepJobs |-> "none"]
  /\ planned = {}
  /\ stn = FALSE
  /\ device = "on"
  /\ announced = FALSE
  /\ cancelled = FALSE
  /\ cleared = {}
  /\ faults = 0
-----------------------------------------------------------------------------
(* sleep_timer.  Adding replaces the timer; one that is cleared does not   *)
(* stop the job it has started.  Clearing "*" cancels a planned shutdown,  *)
(* clearing by name or by the deprecated enable = False does not.          *)
AddTimer(t) ==
  /\ device = "on"
  /\ timers' = timers \union {t}
  /\ UNCHANGED <<sleepJob, planned, cleared, outcome>>

ClearTimers(names) ==
  /\ device = "on"
  /\ timers' = timers \ names
  /\ UNCHANGED <<sleepJob, planned, cleared, outcome>>

ClearAllTimers ==
  /\ device = "on"
  /\ timers' = {}
  /\ planned' = {}
  /\ cancelled' = TRUE
  /\ cleared' = cleared \union {j \in SleepJobs : Running(j)}
  /\ UNCHANGED <<spm3, sleepJob, stn, device, announced, faults>>

(* The scheduler runs one job of a timer at a time, and starts it again    *)
(* each period until the timer is cleared.                                 *)
StartSleep(j) ==
  /\ device = "on"
  /\ j \in timers \union Commands
  /\ ~Running(j)
  /\ sleepJob' = [sleepJob EXCEPT ![j] = "check"]
  /\ cleared' = cleared \ {j}
  /\ UNCHANGED <<timers, planned, outcome>>
-----------------------------------------------------------------------------
(* sleep, and hibernate, which calls it.                                   *)
At(j, pc) == device = "on" /\ sleepJob[j] = pc
Goto(j, pc) == sleepJob' = [sleepJob EXCEPT ![j] = pc]

(* Mutant: the job counts itself, and one other is let through. *)
AnotherSleepsTwice(j) ==
  Cardinality({k \in SleepJobs \ {j} : FunctionOf(k) = "power.sleep" /\ Running(k)}) > 1

AnotherSleeps(j) ==
  \E k \in SleepJobs \ {j} : FunctionOf(k) = "power.sleep" /\ Running(k)

(* A job is known as running from its start, so that of two that check at  *)
(* once both give up.  A timer may be bypassed by the pillar.              *)
CheckSleep(j) ==
  /\ At(j, "check")
  /\ \/ AnotherSleeps(j) /\ Goto(j, "none")
     \/ ~AnotherSleeps(j) /\ Goto(j, "prepare")
     \/ j \in Timers /\ Goto(j, "none")
  /\ UNCHANGED <<timers, planned, cleared, outcome>>

(* Mutant: no shutdown is planned in case the STN never sleeps. *)
PrepareSleepUnplanned(j) ==
  /\ At(j, "prepare")
  /\ Goto(j, IF spm3 THEN "announce" ELSE "stn")
  /\ UNCHANGED <<timers, planned, cleared, outcome>>

(* The sleep interval, the shutdown state (which may take ten minutes),    *)
(* the modem and the accelerometer: each failure is logged and passed over.*)
PrepareSleep(j) ==
  /\ At(j, "prepare")
  /\ Goto(j, IF spm3 THEN "announce" ELSE "plan")
  /\ UNCHANGED <<timers, planned, cleared, outcome>>

(* Before version 3: a shutdown is planned in case the STN never sleeps.   *)
PlanShutdown(j) ==
  /\ At(j, "plan")
  /\ \/ /\ planned' = {j}
        /\ Goto(j, IF spm3 THEN "none" ELSE "stn")
        /\ UNCHANGED faults
     \/ /\ faults < MaxFaults
        /\ faults' = faults + 1
        /\ Goto(j, IF spm3 THEN "none" ELSE "stn")
        /\ UNCHANGED planned
  /\ UNCHANGED <<spm3, timers, stn, device, announced, cancelled, cleared>>

SleepStn(j) ==
  /\ At(j, "stn")
  /\ stn' \in {stn, TRUE}
  /\ Goto(j, "announce")
  /\ UNCHANGED <<spm3, timers, planned, device, announced, cancelled, cleared, faults>>

(* The event is triggered whether or not the STN obeyed.  From version 3   *)
(* on, the shutdown is planned after it, or waited for if it is less than  *)
(* a minute away.                                                          *)
AnnounceSleep(j) ==
  /\ At(j, "announce")
  /\ announced' = TRUE
  /\ IF spm3 THEN Goto(j, "plan") \/ Goto(j, "delay") ELSE Goto(j, "none")
  /\ UNCHANGED <<spm3, timers, planned, stn, device, cancelled, cleared, faults>>
-----------------------------------------------------------------------------
(* The power goes; a shutdown at once follows a delay.                     *)
PowerOff ==
  /\ device' = "off"
  /\ UNCHANGED <<spm3, timers, sleepJob, planned, stn, announced, cancelled, cleared, faults>>

ShutdownComes == device = "on" /\ planned # {} /\ PowerOff
ShutdownNow(j) == At(j, "delay") /\ PowerOff
StnSleeps == device = "on" /\ stn /\ PowerOff

(* Another wake trigger interrupts the sleep of the STN.                   *)
StnInterrupted ==
  /\ device = "on" /\ stn
  /\ stn' = FALSE
  /\ UNCHANGED <<spm3, timers, sleepJob, planned, device, announced, cancelled, cleared, faults>>

(* Timers are transient: none survives.                                    *)
WakeUp ==
  /\ device = "off"
  /\ device' = "on"
  /\ timers' = {}
  /\ sleepJob' = [j \in SleepJobs |-> "none"]
  /\ planned' = {}
  /\ stn' = FALSE
  /\ announced' = FALSE
  /\ cancelled' = FALSE
  /\ cleared' = {}
  /\ UNCHANGED <<spm3, faults>>

SleepStep(j) ==
  \/ CheckSleep(j) \/ PrepareSleep(j) \/ PlanShutdown(j) \/ SleepStn(j) \/ AnnounceSleep(j)
  \/ ShutdownNow(j)

PowerNext ==
  \/ \E t \in Timers : AddTimer(t) \/ ClearTimers({t})
  \/ ClearTimers(Timers) \/ ClearAllTimers
  \/ \E j \in SleepJobs : StartSleep(j) \/ SleepStep(j)
  \/ ShutdownComes \/ StnSleeps \/ StnInterrupted \/ WakeUp

PowerSpec == PowerInit /\ [][PowerNext]_powerVars

(* Jobs go on, and what is planned comes.                                  *)
PowerFairness ==
  /\ \A j \in SleepJobs : WF_powerVars(SleepStep(j))
  /\ WF_powerVars(ShutdownComes)
-----------------------------------------------------------------------------
PowerTypeOK ==
  /\ {spm3, stn, announced, cancelled} \subseteq BOOLEAN
  /\ timers \subseteq Timers
  /\ sleepJob \in [SleepJobs -> {"none", "check", "prepare", "plan", "stn", "announce", "delay"}]
  /\ {planned, cleared} \subseteq SUBSET SleepJobs
  /\ device \in {"on", "off"}
  /\ faults \in 0..MaxFaults

(* "Sleep is already running": no two jobs set the sleep interval, announce *)
(* and plan at the same time, however timers and commands start together   *)
(* (sleep's check).                                                        *)
OneSleepAtATime ==
  \A j, k \in SleepJobs :
    j # k => sleepJob[j] \in {"none", "check"} \/ sleepJob[k] \in {"none", "check"}

(* "Plan a system shutdown in case STN never sleeps": a device that has    *)
(* announced its sleep does power off, though the STN command fails or is  *)
(* interrupted, unless the shutdown is cancelled or cannot be planned.     *)
AnnouncedSleepHappens == announced ~> device = "off" \/ cancelled \/ faults > 0

(* "Cancel any pending shutdown": no shutdown of a job that was running    *)
(* when the timers were cleared is pending afterwards.                     *)
ClearedIsCancelled == planned \intersect cleared = {}
=============================================================================
