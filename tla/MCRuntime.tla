----------------------------- MODULE MCRuntime -----------------------------
(***************************************************************************)
(* Parts of the minion that run beside each other and share no state: the  *)
(* writer of its log files, the triggers of its events, the reactors that  *)
(* hear them, the readout of the accelerometer and its way to sleep.       *)
(* Their steps do not depend on each other, so a behaviour follows one     *)
(* part while the others stand still.                                      *)
(***************************************************************************)
EXTENDS JsonlWriter, EventTriggers, EventReactor, Accelerometer, PowerSleep

VARIABLE part   \* the part that is followed

runtimeVars == <<part, jsonlVars, triggerVars, reactorVars, accVars, powerVars>>

(* A part that is not followed begins in one of its initial states.        *)
Init ==
  /\ part \in {"writer", "triggers", "reactor", "acc", "power"}
  /\ JsonlInit /\ TriggersInit /\ ReactorInit /\ AccInit /\ PowerInit
  /\ part # "triggers" => kind = "motion"
  /\ part # "reactor" =>
       debug /\ \A r \in Reactors : Configured(r) = <<>> /\ reactor[r].chained
  /\ part # "acc" => fifo
  /\ part # "power" => spm3

Next ==
  /\ UNCHANGED part
  /\ \/ /\ part = "writer"
        /\ JsonlNext \/ UNCHANGED jsonlVars   \* all entries may be logged
        /\ UNCHANGED <<triggerVars, reactorVars, accVars, powerVars>>
     \/ /\ part = "triggers" /\ TriggersNext
        /\ UNCHANGED <<jsonlVars, reactorVars, accVars, powerVars>>
     \/ /\ part = "reactor"
        /\ ReactorNext \/ UNCHANGED reactorVars   \* the bus may be quiet
        /\ UNCHANGED <<jsonlVars, triggerVars, accVars, powerVars>>
     \/ /\ part = "acc" /\ AccNext
        /\ UNCHANGED <<jsonlVars, triggerVars, reactorVars, powerVars>>
     \/ /\ part = "power" /\ PowerNext
        /\ UNCHANGED <<jsonlVars, triggerVars, reactorVars, accVars>>

(* Threads and jobs go on, readings keep coming, and time passes.  Of the   *)
(* parts that are not followed only the triggers could begin by a step     *)
(* that fairness is asked of.                                              *)
Spec ==
  /\ Init /\ [][Next]_runtimeVars
  /\ JsonlFairness
  /\ WF_triggerVars(part = "triggers" /\ ReadingComes)
  /\ WF_triggerVars(Tick)
  /\ PowerFairness

(* The parts are in states of their types.                                 *)
TypeOK == JsonlTypeOK /\ TriggersTypeOK /\ ReactorTypeOK /\ AccTypeOK /\ PowerTypeOK
=============================================================================
