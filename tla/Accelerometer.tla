--------------------------- MODULE Accelerometer ---------------------------
(***************************************************************************)
(* Interrupt-driven readout of the accelerometer (_engines/acc_manager.py):*)
(* the chip signals that samples wait, a callback sets a TimedEvent, and   *)
(* two users wait for it: a worker that calls interrupt_query_handler      *)
(* again and again, and dump_handler.  Both read under the hook lock, but  *)
(* the worker waits without it.                                            *)
(*                                                                         *)
(* The chip collects samples in a FIFO and signals a watermark, or holds   *)
(* one sample and signals that it is new.                                  *)
(***************************************************************************)
EXTENDS Naturals, FiniteSetsExt

CONSTANTS
  Depth,       \* samples the FIFO holds (32)
  Watermark,   \* fifo_watermark
  ReadLimit,   \* limit: samples that one readout takes at most (128)
  MaxErrors    \* bound: readouts that fail

ASSUME AccAssumption ==
  /\ {Depth, ReadLimit} \subseteq Nat \ {0}
  /\ Watermark \in 1..Depth
  /\ MaxErrors \in Nat

VARIABLES
  fifo,      \* fifo_mode: is the FIFO enabled?
  samples,   \* samples that wait in the chip
  line,      \* is the interrupt line asserted?
  edge,      \* a falling edge of the line that the GPIO thread has not handled
  callback,  \* that thread, in TimedEvent.set
  interrupt, \* interrupt_event: its flag, and has it a timestamp?
  user,      \* the worker and the dump: where they are
  count,     \* samples the worker's readout has read
  unheard,   \* history: was the line asserted while a readout failed, or while
             \* the dump took the event of the FIFO, which it does not reset?
  errors     \* number of readouts that failed

accVars == <<fifo, samples, line, edge, callback, interrupt, user, count, unheard, errors>>
chip == <<samples, line, edge>>

Users == {"worker", "dump"}
Capacity == IF fifo THEN Depth ELSE 1

AccInit ==
  /\ fifo \in BOOLEAN
  /\ samples = 0
  /\ line = FALSE
  /\ edge = FALSE
  /\ callback = "idle"
  /\ interrupt = [set |-> FALSE, stamped |-> FALSE]
  /\ user = [u \in Users |-> "idle"]
  /\ count = 0
  /\ unheard = FALSE
  /\ errors = 0

Go(u, pc) == user' = [user EXCEPT ![u] = pc]
-----------------------------------------------------------------------------
(* The chip measures; a full FIFO loses its oldest sample.                 *)
Sample ==
  /\ samples' = Min({samples + 1, Capacity})
  /\ line' = (line \/ ~fifo \/ samples' >= Watermark)
  /\ edge' = (edge \/ (line' /\ ~line))
  /\ UNCHANGED <<fifo, callback, interrupt, user, count, unheard, errors>>

(* TimedEvent.set: the timestamp first, then the flag. *)
CallbackStamps ==
  /\ callback = "idle" /\ edge
  /\ edge' = FALSE
  /\ callback' = "set"
  /\ interrupt' = [interrupt EXCEPT !.stamped = TRUE]
  /\ UNCHANGED <<fifo, samples, line, user, count, unheard, errors>>

CallbackSets ==
  /\ callback = "set"
  /\ callback' = "idle"
  /\ interrupt' = [interrupt EXCEPT !.set = TRUE]
  /\ UNCHANGED <<fifo, chip, user, count, unheard, errors>>
-----------------------------------------------------------------------------
(* Only a dump holds the hook lock for more than a readout. *)
DumpRuns == user["dump"] # "idle"
Reading  == {"read", "drain"}

BeginWait(u) ==
  /\ user[u] = "idle"
  /\ u = "dump" => user["worker"] \notin Reading
  /\ Go(u, "wait")
  /\ UNCHANGED <<fifo, chip, callback, interrupt, count, unheard, errors>>

(* The event is set, or the timeout comes. *)
EndWait(u) ==
  /\ user[u] = "wait"
  /\ Go(u, "clear")
  /\ UNCHANGED <<fifo, chip, callback, interrupt, count, unheard, errors>>

(* TimedEvent.clear: the timestamp first, then the flag. *)
ClearStamp(u) ==
  /\ user[u] = "clear"
  /\ interrupt' = [interrupt EXCEPT !.stamped = FALSE]
  /\ Go(u, "unset")
  /\ UNCHANGED <<fifo, chip, callback, count, unheard, errors>>

ClearFlag(u) ==
  /\ user[u] = "unset"
  /\ interrupt' = [interrupt EXCEPT !.set = FALSE]
  /\ unheard' = (unheard \/ (line /\ fifo /\ u = "dump"))
  /\ Go(u, "query")
  /\ UNCHANGED <<fifo, chip, callback, count, errors>>

(* Only now the readout begins: query_handler takes the hook lock. *)
Query(u) ==
  /\ user[u] = "query"
  /\ u = "worker" => ~DumpRuns
  /\ Go(u, "read")
  /\ UNCHANGED <<fifo, chip, callback, interrupt, count, unheard, errors>>

(* The sample of the chip is read (xyz), which resets the line. *)
ReadSample(u) ==
  /\ user[u] = "read" /\ ~fifo
  /\ samples' = 0
  /\ line' = FALSE
  /\ unheard' = FALSE
  /\ Go(u, IF u = "dump" THEN "more" ELSE "idle")
  /\ UNCHANGED <<fifo, edge, callback, interrupt, count, errors>>

(* Mutant: the status is not read. *)
ReadStatusNot ==
  /\ user["worker"] = "read" /\ fifo
  /\ count' = 0
  /\ Go("worker", "drain")
  /\ UNCHANGED <<fifo, chip, callback, interrupt, unheard, errors>>

(* xyz_buffer: "Get FIFO status in order to reset interrupt". *)
ReadStatus ==
  /\ user["worker"] = "read" /\ fifo
  /\ line' = FALSE
  /\ unheard' = FALSE
  /\ count' = 0
  /\ Go("worker", "drain")
  /\ UNCHANGED <<fifo, samples, edge, callback, interrupt, errors>>

(* It then takes samples until there is none, or the limit is reached. *)
Drain ==
  /\ user["worker"] = "drain"
  /\ IF samples = 0 THEN Go("worker", "idle") /\ UNCHANGED <<samples, count>>
     ELSE /\ samples' = samples - 1
          /\ count' = count + 1
          /\ Go("worker", IF count' >= ReadLimit THEN "idle" ELSE "drain")
  /\ UNCHANGED <<fifo, line, edge, callback, interrupt, unheard, errors>>

(* A dump takes one sample of the FIFO (xyz), and the line stays. *)
TakeSample ==
  /\ user["dump"] = "read" /\ fifo
  /\ samples' = IF samples > 0 THEN samples - 1 ELSE 0
  /\ Go("dump", "more")
  /\ UNCHANGED <<fifo, line, edge, callback, interrupt, count, unheard, errors>>

(* The bus to the chip fails: the handler raises. *)
ReadFails(u) ==
  /\ user[u] \in Reading
  /\ errors < MaxErrors
  /\ errors' = errors + 1
  /\ unheard' = (unheard \/ (line /\ user[u] = "read"))
  /\ Go(u, "idle")
  /\ UNCHANGED <<fifo, chip, callback, interrupt, count>>

(* A dump goes on for its duration. *)
DumpGoesOn ==
  /\ user["dump"] = "more"
  /\ Go("dump", "wait")
  /\ UNCHANGED <<fifo, chip, callback, interrupt, count, unheard, errors>>

DumpEnds ==
  /\ user["dump"] = "more"
  /\ Go("dump", "idle")
  /\ UNCHANGED <<fifo, chip, callback, interrupt, count, unheard, errors>>

AccNext ==
  \/ Sample \/ CallbackStamps \/ CallbackSets
  \/ \E u \in Users :
       \/ BeginWait(u) \/ EndWait(u) \/ ClearStamp(u) \/ ClearFlag(u) \/ Query(u)
       \/ ReadSample(u) \/ ReadFails(u)
  \/ ReadStatus \/ Drain \/ TakeSample \/ DumpGoesOn \/ DumpEnds

AccSpec == AccInit /\ [][AccNext]_accVars
-----------------------------------------------------------------------------
AccTypeOK ==
  /\ {fifo, line, edge, unheard} \subseteq BOOLEAN
  /\ samples \in 0..Depth
  /\ callback \in {"idle", "set"}
  /\ interrupt \in [set : BOOLEAN, stamped : BOOLEAN]
  /\ user \in [Users -> {"idle", "wait", "clear", "unset", "query", "read", "drain", "more"}]
  /\ count \in 0..ReadLimit
  /\ errors \in 0..MaxErrors

(* "Wait for data ready interrupt if not already set": a line that stays   *)
(* asserted sends no edge, so samples that wait must be announced: the     *)
(* event is set or about to be, or a user that cleared it has yet to read. *)
(* Otherwise nothing but timeouts would go on.  Excepted are failed        *)
(* readouts and a dump beside the FIFO.                                    *)
WaitingIsAnnounced ==
  line /\ ~unheard =>
    \/ interrupt.set \/ edge \/ callback = "set"
    \/ \E u \in Users : user[u] \in {"query", "read"} /\ (u = "dump" => ~fifo)
=============================================================================
