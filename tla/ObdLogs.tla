------------------------------ MODULE ObdLogs ------------------------------
(***************************************************************************)
(* The fast export and import of bus messages (_engines/obd_manager.py):   *)
(* stn-dump appends the messages of a bus to log files, and a worker, or   *)
(* several, import the lines with the progress kept in a metadata file.    *)
(*                                                                         *)
(* A log is measured in halves of a line, so that an odd size ends with a  *)
(* line that is not written to its end.                                    *)
(***************************************************************************)
EXTENDS Naturals, FiniteSetsExt

CONSTANTS
  Importers,     \* callers of import_handler, which takes no lock
  NumLogs,       \* bound: log files the exporter creates
  LogSize,       \* bound: halves of a line written to one file
  Limit,         \* limit: lines one call reads at most
  MaxCrashes     \* bound: crashes of the process

ASSUME LogAssumption ==
  /\ IsFiniteSet(Importers)
  /\ {NumLogs, LogSize, MaxCrashes} \subseteq Nat
  /\ Limit \in Nat \ {0}

VARIABLES
  logs,       \* the log files in the folder, named by their age
  size,       \* how much was written to each
  exporter,   \* export_subprocess: none, running or exited
  output,     \* the file it has open (0: none so far)
  metadata,   \* the metadata file: progress by file (no entry is NoProgress)
  job,        \* each importer's call
  delivered,  \* history: the lines returned to a caller
  doubled,    \* history: the lines returned twice
  dropped,    \* history: the lines whose import raised or crashed
  torn,       \* history: did a crash leave the metadata file truncated?
  crashes     \* number of crashes

logVars == <<logs, size, exporter, output, metadata, job,
             delivered, doubled, dropped, torn, crashes>>
dump == <<size, exporter, output>>
returned == <<delivered, doubled, dropped, torn, crashes>>

LogFiles == 1..NumLogs
LinesOf(f, n) == {f} \X (1..n)
LinesIn(f) == size[f] \div 2

(* offset is in lines, size in halves, stamped once lines were looked at.  *)
NoProgress == [offset |-> 0, size |-> 0, stamped |-> FALSE]
Forgotten == [f \in LogFiles |-> NoProgress]
NoJob == [pc |-> "idle", progress |-> Forgotten, todo |-> {}, file |-> 0,
          count |-> 0, values |-> {}, raised |-> FALSE]

LogsInit ==
  /\ logs = {}
  /\ size = [f \in LogFiles |-> 0]
  /\ exporter = "none"
  /\ output = 0
  /\ metadata = Forgotten
  /\ job = [i \in Importers |-> NoJob]
  /\ delivered = {}
  /\ doubled = {}
  /\ dropped = {}
  /\ torn = FALSE
  /\ crashes = 0
-----------------------------------------------------------------------------
(* The export.  A call spawns stn-dump when none is known and run is set;  *)
(* the file is named by the minute, so a file may be appended to again.    *)
(* stn-dump opens it with the first line and keeps it open; what it writes *)
(* reaches the file block by block.                                        *)
StartExport ==
  /\ exporter = "none"
  /\ exporter' = "running"
  /\ \E f \in {output, output + 1} \intersect LogFiles :
       /\ f = output => f \in logs
       /\ output' = f
       /\ logs' = logs \union {f}
  /\ UNCHANGED <<size, metadata, job, returned>>

(* It appends halves of lines, and may end by itself.  A file deleted      *)
(* under it is written on, out of everybody's sight.                       *)
WriteLog ==
  /\ exporter = "running"
  /\ size[output] < LogSize
  /\ size' = [size EXCEPT ![output] = @ + 1]
  /\ UNCHANGED <<logs, exporter, output, metadata, job, returned>>

ExporterEnds ==
  /\ exporter = "running"
  /\ exporter' = "exited"
  /\ UNCHANGED <<logs, size, output, metadata, job, returned>>

(* The poll of a call reports a dump that runs, or that none is known, and *)
(* leaves it alone; one that ended, or that run = False interrupts, is     *)
(* waited for and forgotten.                                               *)
ReapExport ==
  /\ exporter # "none"
  /\ exporter' = "none"
  /\ UNCHANGED <<logs, size, output, metadata, job, returned>>
-----------------------------------------------------------------------------
(* The import.  A call loads the progress and lists the folder; the        *)
(* progress of files that are gone is forgotten.                           *)
StartImport(i) ==
  /\ job[i].pc = "idle" /\ output # 0
  /\ job' = [job EXCEPT ![i] =
       [NoJob EXCEPT !.pc = "scan", !.todo = logs,
          !.progress = [f \in LogFiles |-> IF f \in logs THEN metadata[f] ELSE NoProgress]]]
  /\ UNCHANGED <<logs, dump, metadata, returned>>

(* What reading f from its offset makes of the job: whole lines up to the  *)
(* limit, and, only when the limit is not met, the size of a last line     *)
(* that is still incomplete.                                               *)
Taken(j, f) == Min({LinesIn(f) - j.progress[f].offset, Limit - j.count})
Upto(j, f) == j.progress[f].offset + Taken(j, f)

(* Mutants: the last line up to the limit is read again; an incomplete     *)
(* line counts as read; the whole file counts as looked at.                *)
NextTimeAgain(j, f) ==
  [offset |-> IF j.count + Taken(j, f) = Limit THEN Upto(j, f) - 1 ELSE Upto(j, f),
   size |-> 2 * Upto(j, f), stamped |-> TRUE]
NextTimeSkips(j, f) ==
  [offset |-> Upto(j, f) + (size[f] % 2), size |-> size[f], stamped |-> TRUE]
NextTimeNothing(j, f) == [offset |-> Upto(j, f), size |-> size[f], stamped |-> TRUE]

NextTime(j, f) ==
  LET partly == j.count + Taken(j, f) < Limit /\ size[f] % 2 = 1
      seen   == IF partly THEN size[f] ELSE j.progress[f].size
  IN  [offset |-> Upto(j, f), size |-> Max({seen, 2 * Upto(j, f)}), stamped |-> TRUE]

Read(j, f) ==
  [j EXCEPT !.count = @ + Taken(j, f),
            !.values = @ \union {<<f, n>> : n \in (j.progress[f].offset + 1)..Upto(j, f)},
            !.progress[f] = NextTime(j, f),
            !.todo = @ \ {f}]

HasMore(j, f) == j.progress[f].size < size[f]

(* The oldest file comes first.  One that is gone, or that cannot be read, *)
(* ends the pass, and the progress is saved on the way out.                *)
ImportLog(i) ==
  LET j == job[i]  f == Min(j.todo)
      skipped == [j EXCEPT !.todo = @ \ {f}]
  IN /\ j.pc = "scan" /\ j.todo # {}
     /\ \/ job' = [job EXCEPT ![i] = [j EXCEPT !.pc = "truncate", !.raised = TRUE]]
        \/ /\ f \in logs /\ HasMore(j, f) /\ j.count < Limit
           /\ job' = [job EXCEPT ![i] = Read(j, f)]
        \/ /\ f \in logs /\ HasMore(j, f) /\ j.count >= Limit
           /\ job' = [job EXCEPT ![i] = skipped]
        \/ /\ f \in logs /\ ~HasMore(j, f)
           /\ \/ /\ j.progress[f].stamped       \* the grace period is not over
                 /\ job' = [job EXCEPT ![i] = skipped]
              \/ job' = [job EXCEPT ![i] = [skipped EXCEPT !.pc = "remove", !.file = f]]
     /\ UNCHANGED <<logs, dump, metadata, returned>>

(* A file that another importer removed raises; that is logged, and the    *)
(* progress stays.                                                         *)
RemoveLog(i) ==
  LET j == job[i] IN
  /\ j.pc = "remove"
  /\ logs' = logs \ {j.file}
  /\ job' = [job EXCEPT ![i] =
       [j EXCEPT !.pc = "scan", !.file = 0,
                 !.progress[j.file] = IF j.file \in logs THEN NoProgress ELSE @]]
  /\ UNCHANGED <<dump, metadata, returned>>

EndScan(i) ==
  /\ job[i].pc = "scan" /\ job[i].todo = {}
  /\ job' = [job EXCEPT ![i].pc = "truncate"]
  /\ UNCHANGED <<logs, dump, metadata, returned>>

(* The progress is saved in two steps: truncate, then dump.                *)
TruncateMetadata(i) ==
  /\ job[i].pc = "truncate"
  /\ metadata' = Forgotten
  /\ job' = [job EXCEPT ![i].pc = "dump"]
  /\ UNCHANGED <<logs, dump, returned>>

DumpMetadata(i) ==
  /\ job[i].pc = "dump"
  /\ metadata' = job[i].progress
  /\ job' = [job EXCEPT ![i].pc = "return"]
  /\ UNCHANGED <<logs, dump, returned>>

(* Only then the lines are returned, unless the pass raised.               *)
ReturnImport(i) ==
  LET j == job[i] IN
  /\ j.pc = "return"
  /\ IF j.raised
       THEN /\ dropped' = dropped \union j.values
            /\ UNCHANGED <<delivered, doubled>>
       ELSE /\ delivered' = delivered \union j.values
            /\ doubled' = doubled \union (j.values \intersect delivered)
            /\ UNCHANGED dropped
  /\ job' = [job EXCEPT ![i] = NoJob]
  /\ UNCHANGED <<logs, dump, metadata, torn, crashes>>

(* The minion dies, and stn-dump with it.                                  *)
CrashImport ==
  /\ crashes < MaxCrashes
  /\ crashes' = crashes + 1
  /\ torn' = (torn \/ \E i \in Importers : job[i].pc = "dump")
  /\ dropped' = dropped \union UNION {job[i].values : i \in Importers}
  /\ job' = [i \in Importers |-> NoJob]
  /\ exporter' = "none"
  /\ UNCHANGED <<logs, size, output, metadata, delivered, doubled>>

LogsNext ==
  \/ StartExport \/ WriteLog \/ ExporterEnds \/ ReapExport
  \/ \E i \in Importers :
       \/ StartImport(i) \/ ImportLog(i) \/ RemoveLog(i) \/ EndScan(i)
       \/ TruncateMetadata(i) \/ DumpMetadata(i) \/ ReturnImport(i)
  \/ CrashImport

LogsSpec == LogsInit /\ [][LogsNext]_logVars
-----------------------------------------------------------------------------
ProgressType == [offset : Nat, size : Nat, stamped : BOOLEAN]

LogsTypeOK ==
  /\ logs \subseteq LogFiles
  /\ size \in [LogFiles -> 0..LogSize]
  /\ exporter \in {"none", "running", "exited"}
  /\ output \in 0..NumLogs
  /\ metadata \in [LogFiles -> ProgressType]
  /\ job \in [Importers ->
       [pc : {"idle", "scan", "remove", "truncate", "dump", "return"},
        progress : [LogFiles -> ProgressType], todo : SUBSET LogFiles, file : 0..NumLogs,
        count : 0..Limit, values : SUBSET (LogFiles \X Nat), raised : BOOLEAN]]
  /\ {delivered, doubled, dropped} \subseteq SUBSET (LogFiles \X Nat)
  /\ torn \in BOOLEAN
  /\ crashes \in 0..MaxCrashes

(* No message of the bus is imported twice, whatever the limit, the        *)
(* incomplete lines and the files that grow meanwhile, unless a crash tore *)
(* the metadata file (import_handler, one importer).                       *)
EachLineOnce == ~torn => doubled = {}

(* The progress on disk never runs ahead of what was returned by more than *)
(* the lines of the call that saved it, or of one that raised or crashed:  *)
(* an import skips no line (import_handler, one importer).                 *)
ProgressIsDelivered ==
  \A f \in LogFiles :
    LinesOf(f, metadata[f].offset)
      \subseteq delivered \union dropped \union UNION {job[i].values : i \in Importers}

(* Both: each line is imported once (import_handler, one importer).        *)
ImportedOnce == EachLineOnce /\ ProgressIsDelivered

(* "Before a fully imported log file is deleted": of a file that is gone   *)
(* every whole line was imported (import_handler's cleanup).  The code     *)
(* deletes a file that the exporter has open, and at once if nothing was   *)
(* read from it yet.                                                       *)
DeletedWhenImported ==
  \A f \in (1..output) \ logs :
    LinesOf(f, LinesIn(f)) \subseteq delivered \union dropped
      \union UNION {job[i].values : i \in Importers}

(* What does hold: when a file is chosen to be deleted, every whole line   *)
(* that it has at that moment was imported (one importer).                 *)
ChosenWhenImported ==
  [][\A i \in Importers : job[i].pc # "remove" /\ job'[i].pc = "remove" =>
       LET f == job'[i].file IN
         LinesOf(f, LinesIn(f)) \subseteq delivered \union dropped \union job[i].values]_logVars
=============================================================================
