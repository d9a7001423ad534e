----------------------------- MODULE MCServices -----------------------------
(***************************************************************************)
(* The message processor that every service runs, and what the handlers of *)
(* three services do when it calls them: the import of the OBD manager's   *)
(* logs, the CAN manager's connection and the modem's serial line.  They   *)
(* are different processes that share no state here, so a behaviour        *)
(* follows one of them while the others stand still.                       *)
(***************************************************************************)
EXTENDS MessageProcessor, ObdLogs, CanConnection, ModemLine

VARIABLE part   \* the part that is followed

servicesVars == <<part, processorVars, logVars, canVars, modemVars>>

(* A part that is not followed begins in one of its initial states.        *)
Init ==
  /\ part \in {"processor", "logs", "can", "modem"}
  /\ ProcessorInit /\ LogsInit /\ CanInit /\ ModemInit
  /\ part # "processor" => transactional /\ suppress
  /\ part # "can" => autodetect /\ settings = CHOOSE s \in Settings : TRUE

Next ==
  /\ UNCHANGED part
  /\ \/ part = "processor" /\ ProcessorNext /\ UNCHANGED <<logVars, canVars, modemVars>>
     \/ part = "logs"      /\ LogsNext      /\ UNCHANGED <<processorVars, canVars, modemVars>>
     \/ part = "can"       /\ CanNext       /\ UNCHANGED <<processorVars, logVars, modemVars>>
     \/ part = "modem"     /\ ModemNext     /\ UNCHANGED <<processorVars, logVars, canVars>>

(* The processor's two threads go on, and get the lock although the other  *)
(* takes it again and again; a caller's timeout comes, and minutes pass.   *)
(* Nothing is asked of the other parts.                                    *)
Spec ==
  /\ Init /\ [][Next]_servicesVars
  /\ SF_processorVars(part = "processor" /\ Work)
  /\ SF_processorVars(part = "processor" /\ Serve)
  /\ WF_processorVars(part = "processor" /\ TimeOut(Main))
  /\ \A k \in Failures : WF_processorVars(part = "processor" /\ MinutePasses(k))

(* The four parts are in states of their types.                            *)
TypeOK == ProcessorTypeOK /\ LogsTypeOK /\ CanTypeOK /\ ModemTypeOK
=============================================================================
