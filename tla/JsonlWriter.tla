---------------------------- MODULE JsonlWriter ----------------------------
(***************************************************************************)
(* The JSONL returner (_returners/cloud_jsonl_returner.py): threads hand   *)
(* entries to a shared AsyncWriterThread (_utils/threading_more.py), whose *)
(* background thread moves them from a buffer to a RotatingTextFile, and   *)
(* writers are closed when the returner expires.                           *)
(*                                                                         *)
(* A step is what happens between two accesses to state that another       *)
(* thread may change: a critical section, a flag, an event, a file write.  *)
(* Entries are numbered as they enter a buffer.  Rotation is left out.     *)
(***************************************************************************)
EXTENDS Naturals, Sequences, FiniteSets, SequencesExt

CONSTANTS
  Threads,         \* threads that log data
  FlushThreshold,  \* flush_threshold, in entries
  BufferSize,      \* buffer_size, in entries
  Expires,         \* may the returner expire, and its expiration be cleared?
  MaxEntries       \* bound: none arrives once so many have entered a buffer

ASSUME JsonlAssumption ==
  /\ FlushThreshold \in Nat \ {0}
  /\ FlushThreshold * 2 <= BufferSize
  /\ Expires \in BOOLEAN
  /\ MaxEntries \in Nat

VARIABLES
  writers,   \* the writers created so far, the last one is in __context__
  tlocal,    \* each thread's own writer, or 0
  expired,   \* is_expired()
  tlock,     \* the returner's lock is held by the manager's call
  act,       \* what each thread and the manager are doing
  logged,    \* number of entries that have entered a buffer
  kept,      \* history: entries whose write returned to the caller
  file       \* history: the entries written to files, in order

jsonlVars == <<writers, tlocal, expired, tlock, act, logged, kept, file>>

Manager == "manager"
Actors  == Threads \union {Manager}
Shared  == Len(writers)

(* AsyncWriterThread.__init__; pc to buf are of its background thread.     *)
NewWriter ==
  [stop |-> FALSE, event |-> FALSE, buffer |-> <<>>, lock |-> FALSE,
   file |-> "unopened", pc |-> "loop", force |-> FALSE, buf |-> <<>>]

Idle == [pc |-> "idle", on |-> 0, buf |-> <<>>]

(* A file that was never opened does not count as closed. *)
Usable(g) == g # 0 /\ writers[g].file # "closed"

JsonlInit ==
  /\ writers = <<>>
  /\ tlocal = [t \in Threads |-> 0]
  /\ expired = FALSE
  /\ tlock = FALSE
  /\ act = [a \in Actors |-> Idle]
  /\ logged = 0
  /\ kept = {}
  /\ file = <<>>

Do(a, r)     == act' = [act EXCEPT ![a] = r]
Update(g, w) == writers' = [writers EXCEPT ![g] = w]
-----------------------------------------------------------------------------
(* returner_data. *)

(* An entry arrives.  When the returner has expired it is skipped, and the *)
(* thread closes the writer it has used.                                   *)
Arrive(t) ==
  /\ act[t].pc = "idle"
  /\ logged < MaxEntries
  /\ ~tlock
  /\ \/ ~expired /\ Do(t, [Idle EXCEPT !.pc = "get"])
     \/ expired /\ Usable(tlocal[t]) /\ Do(t, [Idle EXCEPT !.pc = "stop?", !.on = tlocal[t]])
     \/ expired /\ ~Usable(tlocal[t]) /\ UNCHANGED act
  /\ UNCHANGED <<writers, tlocal, expired, tlock, logged, kept, file>>

(* Mutants: a new writer is not stored, and the shared one is not looked   *)
(* for.                                                                    *)
GetWriterNotStored(t) ==
  /\ act[t].pc = "get"
  /\ tlocal' = IF Usable(tlocal[t]) THEN tlocal ELSE [tlocal EXCEPT ![t] = Shared + 1]
  /\ Do(t, [act[t] EXCEPT !.pc = "write", !.on = tlocal'[t]])
  /\ UNCHANGED <<writers, expired, tlock, logged, kept, file>>

GetWriterOfItsOwn(t) ==
  /\ act[t].pc = "get"
  /\ writers' = IF Usable(tlocal[t]) THEN writers ELSE Append(writers, NewWriter)
  /\ tlocal' = IF Usable(tlocal[t]) THEN tlocal ELSE [tlocal EXCEPT ![t] = Len(writers')]
  /\ Do(t, [act[t] EXCEPT !.pc = "write", !.on = tlocal'[t]])
  /\ UNCHANGED <<expired, tlock, logged, kept, file>>

(* _get_writer_for: the thread's own writer, the shared one, or a new one. *)
GetWriter(t) ==
  /\ act[t].pc = "get"
  /\ \/ /\ Usable(tlocal[t])
        /\ UNCHANGED <<writers, tlocal>>
     \/ /\ ~Usable(tlocal[t])
        /\ ~tlock
        /\ writers' = IF Usable(Shared) THEN writers ELSE Append(writers, NewWriter)
        /\ tlocal' = [tlocal EXCEPT ![t] = Len(writers')]
  /\ Do(t, [act[t] EXCEPT !.pc = "write", !.on = tlocal'[t]])
  /\ UNCHANGED <<expired, tlock, logged, kept, file>>

(* write(): the critical section.  A full buffer raises; a stopped writer  *)
(* keeps the lock and writes the buffer itself.                            *)
Write(t) ==
  LET g == act[t].on
      w == writers[g]
      entry == logged + 1
      buffer == Append(w.buffer, entry)
  IN  /\ act[t].pc = "write"
      /\ ~w.lock
      /\ \/ /\ Len(buffer) > BufferSize
            /\ Do(t, Idle)
            /\ UNCHANGED <<writers, logged, kept>>
         \/ /\ Len(buffer) <= BufferSize
            /\ ~w.stop
            /\ Update(g, [w EXCEPT !.buffer = buffer,
                                   !.event = @ \/ Len(buffer) >= FlushThreshold])
            /\ kept' = kept \union {entry}
            /\ logged' = entry
            /\ Do(t, Idle)
         \/ /\ Len(buffer) <= BufferSize
            /\ w.stop
            /\ Update(g, [w EXCEPT !.buffer = <<>>, !.event = FALSE, !.lock = TRUE])
            /\ Do(t, [act[t] EXCEPT !.pc = "sync", !.buf = buffer])
            /\ logged' = entry
            /\ UNCHANGED kept
      /\ UNCHANGED <<tlocal, expired, tlock, file>>

(* The file write of a stopped writer: a closed file raises, and what was  *)
(* taken from the buffer is gone.                                          *)
WriteSync(t) ==
  LET g == act[t].on
      w == writers[g]
  IN  /\ act[t].pc = "sync"
      /\ IF w.file = "closed"
         THEN Update(g, [w EXCEPT !.lock = FALSE]) /\ UNCHANGED <<kept, file>>
         ELSE /\ Update(g, [w EXCEPT !.lock = FALSE, !.file = "open"])
              /\ kept' = kept \union {Last(act[t].buf)}
              /\ file' = file \o act[t].buf
      /\ Do(t, Idle)
      /\ UNCHANGED <<tlocal, expired, tlock, logged>>
-----------------------------------------------------------------------------
(* The background thread of writer g. *)
unchangedByWriter == <<tlocal, expired, tlock, act, logged, kept>>

Loop(g) ==
  /\ writers[g].pc = "loop"
  /\ Update(g, [writers[g] EXCEPT !.pc = IF writers[g].stop THEN "ended" ELSE "wait"])
  /\ UNCHANGED <<unchangedByWriter, file>>

(* Mutant: a timeout does not force the flush. *)
WakeUnforced(g) ==
  LET w == writers[g]
  IN  /\ w.pc = "wait"
      /\ Update(g, [w EXCEPT !.pc = "flush", !.force = w.stop])
      /\ UNCHANGED <<unchangedByWriter, file>>

(* The event is set, or the flush timeout passes. *)
Wake(g) ==
  LET w == writers[g]
  IN  /\ w.pc = "wait"
      /\ Update(g, [w EXCEPT !.pc = "flush", !.force = IF w.event THEN w.stop ELSE TRUE])
      /\ UNCHANGED <<unchangedByWriter, file>>

(* Mutant: the buffer is written but not cleared. *)
TakeBufferKeepsIt(g) ==
  LET w == writers[g]
  IN  /\ w.pc = "flush"
      /\ ~w.lock
      /\ Update(g, IF w.buffer # <<>>
                   THEN [w EXCEPT !.event = FALSE, !.pc = "file", !.buf = w.buffer]
                   ELSE [w EXCEPT !.event = FALSE, !.pc = "loop"])
      /\ UNCHANGED <<unchangedByWriter, file>>

(* Mutant: the buffer is cleared before the timeout is looked at. *)
TakeBufferClearsFirst(g) ==
  LET w == writers[g]
  IN  /\ w.pc = "flush"
      /\ ~w.lock
      /\ \/ /\ w.buffer # <<>>
            /\ Update(g, [w EXCEPT !.event = FALSE, !.pc = "file", !.buf = w.buffer, !.buffer = <<>>])
         \/ /\ w.buffer = <<>> \/ ~w.force
            /\ Update(g, [w EXCEPT !.event = FALSE, !.pc = "loop", !.buffer = <<>>])
      /\ UNCHANGED <<unchangedByWriter, file>>

(* _write_buffer: the critical section.  Unless it is forced it is left    *)
(* alone when the last flush is not old enough.                            *)
TakeBuffer(g) ==
  LET w == writers[g]
  IN  /\ w.pc = "flush"
      /\ ~w.lock
      /\ \/ /\ w.buffer # <<>>
            /\ Update(g, [w EXCEPT !.event = FALSE, !.pc = "file", !.buf = w.buffer, !.buffer = <<>>])
         \/ /\ w.buffer = <<>> \/ ~w.force
            /\ Update(g, [w EXCEPT !.event = FALSE, !.pc = "loop"])
      /\ UNCHANGED <<unchangedByWriter, file>>

(* The file write, outside the critical section.  A closed file raises and *)
(* ends the thread.                                                        *)
WriteFile(g) ==
  LET w == writers[g]
  IN  /\ w.pc = "file"
      /\ IF w.file = "closed"
         THEN Update(g, [w EXCEPT !.stop = TRUE, !.pc = "ended", !.buf = <<>>]) /\ UNCHANGED file
         ELSE /\ Update(g, [w EXCEPT !.file = "open", !.pc = "loop", !.buf = <<>>])
              /\ file' = file \o w.buf
      /\ UNCHANGED unchangedByWriter
-----------------------------------------------------------------------------
(* close(), by a thread that met the expiration or by close_writers.       *)
unchangedByClose == <<tlocal, expired, tlock, logged, kept, file>>

StopCheck(a) ==
  /\ act[a].pc = "stop?"
  /\ Do(a, [act[a] EXCEPT !.pc = IF writers[act[a].on].stop THEN "close" ELSE "stop"])
  /\ UNCHANGED <<unchangedByClose, writers>>

(* Mutant: the flag is not raised. *)
StopRaiseForgets(a) ==
  /\ act[a].pc = "stop"
  /\ Do(a, [act[a] EXCEPT !.pc = "signal"])
  /\ UNCHANGED <<unchangedByClose, writers>>

StopRaise(a) ==
  /\ act[a].pc = "stop"
  /\ Update(act[a].on, [writers[act[a].on] EXCEPT !.stop = TRUE])
  /\ Do(a, [act[a] EXCEPT !.pc = "signal"])
  /\ UNCHANGED unchangedByClose

StopSignal(a) ==
  /\ act[a].pc = "signal"
  /\ Update(act[a].on, [writers[act[a].on] EXCEPT !.event = TRUE])
  /\ Do(a, [act[a] EXCEPT !.pc = "join"])
  /\ UNCHANGED unchangedByClose

StopJoin(a) ==
  /\ act[a].pc = "join"
  /\ writers[act[a].on].pc = "ended"
  /\ Do(a, [act[a] EXCEPT !.pc = "close"])
  /\ UNCHANGED <<unchangedByClose, writers>>

CloseFile(a) ==
  LET w == writers[act[a].on]
  IN  /\ act[a].pc = "close"
      /\ Update(act[a].on, [w EXCEPT !.file = IF @ = "open" THEN "closed" ELSE @])
      /\ Do(a, IF a = Manager THEN [Idle EXCEPT !.pc = "clear"] ELSE Idle)
      /\ UNCHANGED unchangedByClose

(* set_expiration with a negative delay, when the returner has expired:    *)
(* the writer in __context__ is closed under the lock first.               *)
BeginClear ==
  /\ act[Manager].pc = "idle"
  /\ expired
  /\ ~tlock
  /\ tlock' = TRUE
  /\ Do(Manager, IF Usable(Shared) THEN [Idle EXCEPT !.pc = "stop?", !.on = Shared]
                                   ELSE [Idle EXCEPT !.pc = "clear"])
  /\ UNCHANGED <<writers, tlocal, expired, logged, kept, file>>

Clear ==
  /\ act[Manager].pc = "clear"
  /\ expired' = FALSE
  /\ tlock' = FALSE
  /\ Do(Manager, Idle)
  /\ UNCHANGED <<writers, tlocal, logged, kept, file>>

(* The expiration time comes, or set_expiration sets it to now. *)
Expire ==
  /\ Expires
  /\ ~expired
  /\ expired' = TRUE
  /\ UNCHANGED <<writers, tlocal, tlock, act, logged, kept, file>>
-----------------------------------------------------------------------------
Log(t)     == GetWriter(t) \/ Write(t) \/ WriteSync(t)
Flush(g)   == Loop(g) \/ Wake(g) \/ TakeBuffer(g) \/ WriteFile(g)
Closing(a) == StopCheck(a) \/ StopRaise(a) \/ StopSignal(a) \/ StopJoin(a) \/ CloseFile(a)

JsonlNext ==
  \/ \E t \in Threads : Arrive(t) \/ Log(t)
  \/ \E g \in DOMAIN writers : Flush(g)
  \/ \E a \in Actors : Closing(a)
  \/ BeginClear \/ Clear \/ Expire

JsonlSpec == JsonlInit /\ [][JsonlNext]_jsonlVars

(* Every thread that has something to do goes on. *)
JsonlFairness ==
  /\ \A t \in Threads : WF_jsonlVars(Log(t))
  /\ \A g \in 1..(2 * MaxEntries) : WF_jsonlVars(g \in DOMAIN writers /\ Flush(g))
  /\ \A a \in Actors : WF_jsonlVars(Closing(a))
  /\ WF_jsonlVars(Clear)

JsonlFairSpec == JsonlSpec /\ JsonlFairness
-----------------------------------------------------------------------------
Entries == 1..logged
Writer ==
  [stop : BOOLEAN, event : BOOLEAN, buffer : Seq(Entries), lock : BOOLEAN,
   file : {"unopened", "open", "closed"}, pc : {"loop", "wait", "flush", "file", "ended"},
   force : BOOLEAN, buf : Seq(Entries)]

JsonlTypeOK ==
  /\ writers \in Seq(Writer)
  /\ tlocal \in [Threads -> 0..Shared]
  /\ expired \in BOOLEAN
  /\ tlock \in BOOLEAN
  /\ act \in [Actors -> [pc : {"idle", "get", "write", "sync", "stop?", "stop", "signal",
                               "join", "close", "clear"},
                         on : 0..Shared, buf : Seq(Entries)]]
  /\ logged \in Nat
  /\ kept \subseteq Entries
  /\ file \in Seq(Entries)

(* What is on its way to a file. *)
Buffered ==
  (UNION {ToSet(writers[g].buffer) \union ToSet(writers[g].buf) : g \in DOMAIN writers})
    \union (UNION {ToSet(act[t].buf) : t \in Threads})

(* An entry whose write returned is in a file or on its way to one:        *)
(* "Force write out if stopped".                                           *)
NothingLost == kept \subseteq ToSet(file) \union Buffered

Stopped == \E g \in DOMAIN writers : writers[g].stop

(* Until a writer is stopped nothing that was kept is lost, although the   *)
(* buffer is taken under the lock and written outside of it.               *)
NothingLostUntilStopped == Stopped \/ NothingLost

(* No entry is written twice, whoever writes the buffer out, and until a   *)
(* writer is stopped entries reach the file in the order in which they     *)
(* entered the buffer, whichever thread's writer they were handed to.      *)
FileInOrder ==
  \A i, j \in DOMAIN file : i < j => file[i] # file[j] /\ (Stopped \/ file[i] < file[j])

(* Every entry that was kept is in a file in the end, the last ones by the *)
(* flush timeout, unless a writer is stopped meanwhile.                    *)
KeptIsWritten == \A e \in 1..MaxEntries : e \in kept ~> e \in ToSet(file) \/ Stopped

(* Whoever closes a writer, and whoever waits for the lock meanwhile, gets *)
(* done: closing never waits for a thread that waits for the closer.       *)
ClosingEnds == \A a \in Actors : act[a].pc \in {"stop?", "join"} ~> act[a].pc = "idle"
=============================================================================
