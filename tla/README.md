# Verification models of AutoPi core

AutoPi core is the software of a vehicle dongle: Salt engines ("managers", `src/src/salt/base/ext/_engines`)
that talk to hardware through connections (`_utils/*_conn.py`), a message processor that runs their work in
worker threads (`_utils/messaging.py`, `_utils/threading_more.py`), triggers that turn readings into events on
the minion's event bus, and returners that hand results to a Redis-backed cache whose content is uploaded to a
cloud server (`_utils/cloud_cache.py`, `_engines/cloud_manager.py`). These modules model the parts that carry
the program's own logic, TLC checks them on small instances, and TLAPS proves theorems about them.

Run `tlc -config <cfg> <module>`, and `tlapm <module>` for the modules whose name ends in `_proofs` (section 4), in
this directory. `PROJECT.json` lists the runs, the code lines each definition stands for, the findings, and for each
property a mutated definition that breaks it (the operators commented "Mutant" in the modules exist only for that and
no specification uses them).

## 1. Inventory

| Component | State | Operations | Hard behaviours |
|---|---|---|---|
| Cloud cache and upload | Redis lists `pend`, `retr_<time>_#<attempt>`, `fail_<day>`; `upload_cache` in memory; Redis snapshots | `enqueue`, `upload_handler` = `upload_failing`, `upload_retrying`, `upload_pending`; `clear_*`; queries | batches removed by count, lost answers, retries by renaming, power loss to the last snapshot, refused `BGSAVE`, commands beside the handler |
| Worker threads | `proceed_event`, `wake_event`, `terminate`, `loop`, `run_on_terminate`; the registry and its lock | `start`, `start_or_resume`, `pause`, `resume`, `kill`, the loop of `work()` | two events set and cleared by one thread while another reads them one after the other |
| Asynchronous writer, JSONL returners | buffer, flags and event of `AsyncWriterThread`; shared and thread-local writers, expiry | `write`, `_write_buffer`, `stop`, `close`, `returner_data`, `set_expiration` | buffer taken under the lock and written outside of it, stop racing with flush, two closers |
| Message processor | the worker's messages, failure counts and log timers; `_hook_lock`; requests on the bus | `do_work`, `dedicated_worker` (enqueue, dequeue), `process_event`, `send_sync`, `send_reply_event_for` | one serving thread, the lock between workers and requests, timeouts against late answers, recurring failures |
| Vehicle event triggers | a context per trigger: state, counts, timers; the duplicate filter | communication, engine, battery (two), position, motion, temperature, geofence | debouncing, latching, state stored before the event is sent |
| Accelerometer | `TimedEvent` (a flag and a timestamp), the chip's FIFO and interrupt line | `interrupt_query_handler`, `dump_handler`, `xyz_buffer` | an interrupt between wait and clear, two users of one event, a line that sends no second edge |
| OBD log import and export | log files, metadata file, `stn-dump` subprocess | `import_handler`, `export_handler` | incomplete last lines, a limit in mid-file, files that grow or are deleted meanwhile, a crash around the metadata file |
| Power management | scheduled sleep timers, jobs of `power.sleep`, planned shutdown, supervisor state | `sleep`, `hibernate`, `sleep_timer`, `request_reboot`, `heartbeat_handler` | jobs that run at the same time, timers that outlive their reason, boot events sent once |
| Time and SMS | clock, messages stored in the modem | `sync_time`, `read_sms_handler` | the clock jumps; deletion after reading, indexes that are used again |
| Serial and OBD connections, ELM327 proxy | an open port shared by threads | open, close, `write_line`, `read_until`, proxy threads | late answers, a port closed by another thread, pause of all workers around a proxy client |
| Event reactor | table of matchers, cache of events | `on_event`, `cache_handler` | lists that grow with each event, what is left undone when an action raises |
| CAN bus | settings, bus, filters, notifier, error count | `open`, `is_open`, `ensure_filter`, `query`, `monitor_until` | what a bus that is opened again must get back, errors counted by a query that changes them |
| Modem drivers, audio, BLE, RFID, key fob, crypto, other returners, administration modules, Salt states | little or none of their own | wrappers of commands | hardware timing, pure I/O |

Interaction: returners call `enqueue` of the cloud cache (Redis is the meeting point), or write to the shared
asynchronous writer. Every manager owns an `EventDrivenMessageProcessor`: its main thread serves requests that other
processes send over the event bus, its dedicated workers call hooks periodically; both take `_hook_lock` for each hook
that is not registered with `synchronize=False` or added without `lock`. Triggers are hooks of those workers and
answer with events on the same bus, to which reactors subscribe. Handlers reach the hardware through connections
(serial line, CAN bus, I2C) that reopen on demand. The ELM327 proxy and the managers pause, resume and kill workers
through the registry.

What makes each component correct: nothing that was accepted is lost and nothing acknowledged is sent again
(cloud); a pause, a resume and a kill take effect whatever the worker is doing (workers); what was kept is in
the file, once and in order (writer); synchronized hooks exclude each other, every request
is served and every message of a worker is run (processor); the last
event tells the state (triggers); a changed event is forwarded once (reactor); each log line is imported once
(logs); one job puts the device to sleep, and an announced sleep happens (power); samples that wait are announced
(accelerometer); what was set on a connection survives its reopening (CAN); each answer belongs to its command
and no message is deleted unread (modem). The hazards that threaten this, each at its line, are in `PROJECT.json`.

## 2. Modules

### CloudDelivery and CloudUpload

`CloudDelivery` is what the cache promises: an accepted entry is held until the server has accepted it, or it is
discarded on purpose (cleared, expired), or the power fails before it was ever saved; a power loss restores a
saved set. `CloudUpload` is `NextCloudCache` as `cloud_manager` drives it. `lists` are the pending queue (0) and
the fail queue of each day, head first as LRANGE returns them; `retr` are the retry queues with the attempt that
is part of their name; `cache` is `upload_cache`. A step is one Redis call, one MULTI/EXEC pipeline or one POST,
and the local variables of a call in progress are in `th[t]`, where `pc` names the next step: `fetch`, `post`,
`trim` and `transfer` are `_upload_batch`, the steps that begin with `r` are `upload_retrying`, `fnext` is the
loop of `upload_failing`. A POST is accepted, rejected (RequestException) or unanswered, and an unanswered one
may have been accepted. `saving` and `disk` are Redis's background save and last snapshot; `BgsaveBusy` says
whether a `BGSAVE` may be refused because one is in progress, which raises although the rest of the pipeline
was applied. `PowerLoss` returns to `disk`, `Restart` forgets the memory of the service only. `durable`,
`delivered`, `acked` and `discarded` are history variables.

`ImplementsDelivery` checks that `CloudUpload` implements `CloudDelivery` with `held` mapped to the entries that
are in any Redis list.

### WorkerThread

A step is one access to an event or to a flag another thread uses. `pc[w]` is the worker's place in `work()`
and `__proceed()`; `call` is the registry call in progress (calls hold the registry's lock and are serialized),
`call.step` the place inside `pause()`, `resume()` or `kill()`. `Event.set` releases a waiting thread even if the
event is cleared before that thread runs (`AfterWait`). `KillSelf` is `kill_upon_success`, which calls `kill()`
without the lock. A call may be made from within a worker's run (`by`), as a target that closes the OBD
connection does when it pauses all workers. `EarlyResume` says whether a worker may be resumed before it has
passed its first delay.

### JsonlWriter

Threads that log (`act`), the shared table of writers and each thread's own (`tlocal`), and the background thread
of each writer (`writers[g].pc`). A step is a critical section, an access to the flag or the event, or a file
write. `Expire`, `BeginClear` and `Clear` are the returner's expiry and `set_expiration`.

### MessageProcessor

`work` is `do_work` of one dedicated worker: the list is copied at the start of a pass, a message succeeds or
fails with a warning or an error, `errors` counts failures up to `RecurLimit` (3 in the code) and `quiet` says
whether one was logged less than a minute ago (one timer per kind for all messages). `transactional` and `suppress`
are the worker's settings. Messages are numbered as the pillar lists them, and `Unlocked` are those whose hooks
take no lock. `request` is what the main thread serves: a `query` runs a hook under the lock, a `free_query` one
that was registered with `synchronize=False`; either may send a request to its own service (`RequestItself`) and
then waits until the timeout. `enqueue` and `dequeue` change the worker's list without the lock. `waiting` is the
request each caller waits for; an answer that comes later is dropped. A workflow's hooks are one step
`Handle`..`HandleDone`: the code takes the lock for each of its hooks anew.

### EventTriggers

One behaviour follows one trigger (`kind`), which one worker calls reading by reading. A reading is what the
converters hand over: a state and the data an event would carry. `due` says that a threshold or a debounce delay
has passed, so time is free to pass between any two readings. `Send` may fail, up to `MaxFailures` times. The
heartbeat of the power supervisor is among the triggers: once with and once without a recovery to report
(`heartbeat_recovery`, `heartbeat`), whose event is sent before the status is stored.

### EventReactor

`on_event` for each configured reactor in turn. `listed` is the list under the key `actions`, to which the code
appends the single `action` at each event. `todo` are the actions left for this event; an action is
`cache_handler` with the filter for changed events and a returner, or any other. A condition, an action or a
returner may raise (`MaxRaises`), which ends the loop over the reactors; whether a chain goes on depends on the
result before. `debug` is the log level that decides whether a broken chain's log line is formatted.

### ObdLogs

Log files are named by their age and measured in halves of a line, so that an odd size ends in an incomplete
line. `StartExport`, `WriteLog`, `ExporterEnds` and `ReapExport` are the subprocess and the poll of
`export_handler`. `job[i]` is a call of `import_handler`: it loads the progress, reads the oldest files first
(`ImportLog`, whose `NextTime` is what the metadata says of a file then), removes a file (`RemoveLog`), saves the
progress by truncating and dumping, and returns the lines. `CrashImport` may come between any two of these steps.
`delivered`, `doubled`, `dropped` and `torn` are history variables.

### PowerSleep

`timers` are the scheduled jobs, `sleepJob[j]` is where the job of a timer or command is inside `sleep`:
the check of `saltutil.is_running`, the preparation, the planned shutdown, the command to the STN and the event,
whose order depends on the version of the supervisor (`spm3`). `FunctionOf` is the name the check knows a job
by: a hibernate has another. A wake-up clears everything but the bound on faults.

### Accelerometer

The chip (`samples`, `line`, `edge`), the GPIO callback (`CallbackStamps`, `CallbackSets`: `TimedEvent.set` is
two assignments) and two users that wait for the event, clear it (`ClearStamp`, `ClearFlag`) and read: the worker
of `interrupt_query_handler`, which takes the hook lock only then, and `dump_handler`, which holds it throughout.
Reading the FIFO's status or a single sample resets the line; taking a sample of the FIFO does not.

### CanConnection

`can` is the bus with the settings it was opened with, its notifier, its filters, its pending error and the
count of consecutive ones. `call` is the handler that is served and where it is: `open` is the decorator's
`ensure_open`, `filter`, `reopen` and `apply` are `ensure_filter`, `run` sends the query and `replies` waits for
what comes, `flow` answers a first frame with the decorated `send`, which ensures an open bus once more
(`FlowControl`), `listen` and `read` are `monitor_until`.
`Counted` is what `is_open` does to the count (a query with an effect). The steps that use hardware may fail,
and the error then becomes the bus's last one (`FailOn`). `streak` is history.

### ModemLine

`stored` are the modem's text messages by index (the lowest free one is used again), `asked` and `line` what is
on its way in each direction, `port` whether the port is open; `handler` is the handler that is served
(`exec` or `read_sms`: list, tell each message, delete it). A read may time out, the port may be closed by
another thread or be lost, and it is opened again on demand with a command that turns the echo on first. `late`,
`told` and `unread` are history.

### MCRuntime and MCServices

Components that share no state are checked side by side: `part` says which of them the behaviour follows, the
others stand still in an initial state, and the state space is the sum of theirs, not the product. `MCRuntime`
has what the minion runs beside its services (writer, triggers, reactor, accelerometer, power), `MCServices` the
message processor and three services whose handlers it calls (logs, CAN, modem). The components keep their own
names (`JsonlInit`, `TriggersNext`, `CanTypeOK` ...), and `TypeOK` is the conjunction of their types. The lock and
the queue through which handlers really reach each other are those of `MessageProcessor`; the services' modules
say what happens inside one handler call and where other threads interfere with it.

## 3. Runs

| Run | Instance | What it shows |
|---|---|---|
| `upload` | handler alone, 3 entries, batches of 2, 2 attempts, 2 retry queues, 2 days, 1 restart | `NoLoss`, retry queues bounded and ordered by attempts, no needless resend, payloads in order, the delivery promise (`ImplementsDelivery`), LTRIM removes only what was uploaded |
| `upload_live` | batches of 1, refused saves | no entry waits for ever (`PendingSettled`) |
| `upload_commands` | `upload_failing`, `upload_retrying` and the clear commands beside the handler, 2 entries, 1 attempt, 1 retry queue, 1 restart | what is posted from the pending queue and the retry queues stays chronological (`FreshChronological`) |
| `upload_beside_command` (violation) | `upload_pending` beside the handler | LTRIM removes entries that were never uploaded |
| `upload_busy_save` (violation) | refused saves | one retry queue more than the limit |
| `worker_calls` | 2 endless workers, all calls | `IntervalEnforced`, `PauseHolds`, `KilledEndsUnlessPaused` |
| `worker_early_resume` (violation) | 1 worker resumed before its start | it never sleeps its interval again |
| `runtime`: writer | 2 threads, 2 entries, expiry | nothing lost until a writer is stopped (`NothingLostUntilStopped`), nothing overtaken until then and nothing written twice (`FileInOrder`), what is kept is written (`KeptIsWritten`), closing ends (`ClosingEnds`) |
| `runtime`: triggers | all 10 triggers, repeat count 3, 1 failure | `ReportedIsState`, `NoRepeatedEvent`, `LifecycleOrder`, `Debounced`, `SteadyReported` |
| `runtime`: reactor | 1 reactor in each configuration, 1 key, 2 contents, 3 events, 1 failure | actions run once and in order (`ReactsOnce`), the last event forwarded is the one cached (`ForwardedIsCached`) |
| `runtime`: accelerometer | FIFO of 3, watermark 2, 1 failed readout | samples that wait are announced (`WaitingIsAnnounced`) |
| `runtime`: power | 2 timers, 1 sleep command, both versions of the supervisor | `OneSleepAtATime`, `AnnouncedSleepHappens` |
| `services`: processor | 1 client, 3 messages, the second without a lock, 2 requests | `TransactionUndisturbed`, `RequestServed`, `MessageRuns` |
| `services`: logs | 2 files of 2 lines, 1 line a call, 1 crash, 1 importer | no line twice and none skipped (`ImportedOnce`), a file chosen to be deleted was imported (`ChosenWhenImported`) |
| `services`: CAN | 2 settings, 2 filters, 2 errors | filters and listener survive a new bus (`OutlivesBus`), a failing bus is given up unless `is_open` is asked more than once a call (`GivesUpUnlessAsked`) |
| `services`: modem | 2 indexes, 3 messages, 2 timeouts, 1 close | `AnswerIsForCommand`, `DeletedWasTold` |
| `jsonl_lost` (violation) | 1 thread, 3 entries | a stop loses what entered the buffer meanwhile |
| `messaging_skips` (violation) | 1 client, 2 messages, 1 request | a recurring failure ends the pass |
| `logs_deleted` (violation) | 2 files, no crash | a log is deleted while the exporter has it open |

`runtime` and `services` are one run each; the table lists what they show part by part.

Bounds. Three entries with batches of two make full batches, partial batches and an entry that arrives while a
batch is on its way; two attempts make a first, a last and (through a restart) an interrupted retry; two retry
queues are needed for the order of attempts; one restart is enough because a restart leaves nothing in memory,
and the retained state it meets is any reachable one. In `worker_calls` the workers' initial delay is left out
(`worker_early_resume` has it) and the calls are `start`, `start_or_resume` (start or resume), `pause` and
`kill(run=True)`; two workers are what a call over several workers and the lock need. The processor's `RecurLimit`
is 0, so that a failure recurs from the first one on: the count only delays what the limit does. Its three messages
are one that runs, one that keeps failing before it and a third that makes the two starve it, which `MessageRuns`
excludes; one of them takes no lock, so that both kinds of hook meet both kinds of request. In `upload_commands`
one attempt and one restart are what brings a batch to a fail queue and posts it from there. Two log files
make the limit fall between and inside files, four halves of a line make complete and incomplete ends, and one
crash is enough because nothing but the files survives it. A limit of two CAN errors tells the first from the
last; two filters make one that is replaced and one that is asked for again. Three messages on two indexes make
an index used again, and `DeletedWasTold` needs as many timeouts and closes as it excludes to be reached. A FIFO of
three with a watermark of two has samples below, at and above the watermark and overflows. Three events of two
contents make an event that is repeated and one that alternates. A history counter that is not needed beyond a
value is capped (`Cap`, `runs`).

Deadlock is not checked where a system really stops: the workers (all ended or never started), the services (all
requests sent and the worker ended, all messages read, all crashes spent) and the violation runs of the writer
and the logs. In `runtime` it is checked of the triggers, the accelerometer and the power jobs; the writer and the
reactor, which may have nothing left to do, may stutter there. It is checked of the upload handler.

Fairness. `CloudUpload`: the worker calls the handler again and again and a run that began goes on (weak);
a server asked again and again accepts in the end (strong on the accepted POST). Nothing is assumed of saves,
restarts are bounded. `WorkerThread`: threads go on and a call that began ends (weak); a worker gets the
registry's lock in the end although others use it (strong on `Remove`). `JsonlWriter`: every thread goes on.
`MessageProcessor`: strong fairness of the two threads, because Python's lock does not keep a queue and both take
it again and again; the timeout of the service's own calls comes; minutes pass. `EventTriggers`: readings come and
thresholds pass. `PowerSleep`: a job of the scheduler goes on, and a shutdown that is planned comes. Nothing is
assumed of the reactor, the accelerometer, the logs, the CAN bus and the modem: their properties are safety.

## 4. Proofs

TLAPS proves every invariant that a passing run checks, five action properties and the refinement, each for every
value of the constants that the module's assumption admits:

| Module | About | Theorems (property) | Hypothesis |
|---|---|---|---|
| `CloudUpload_proofs` | CloudUpload | `TypeCorrect` (`TypeOK`) | |
| `CloudUploadNoLoss_proofs` | CloudUpload | `HandlerLosesNothing` (`NoLoss`), `HandlerTrimsItsBatch` (`TrimRemovesOnlyBatch`) | `Alone` |
| `CloudUploadOrder_proofs` | CloudUpload | `PostsAreChronological` (`PayloadsChronological`), `PostsAreNew` (`NoNeedlessResend`), `RetriesInTurn` (`AttemptsOrdered`), `HandlerDelivers` (`ImplementsDelivery`) | `Alone` |
| | | `RetriesBounded` (`RetryQueuesBounded`) | `Alone`, `~BgsaveBusy` |
| | | `FreshPostsAreChronological` (`FreshChronological`) | |
| `WorkerThread_proofs` | WorkerThread | `WorkerTypes` (`TypeOK`), `PauseLetsOneRunBegin` (`PauseHolds`) | |
| | | `IntervalIsEnforced` (`IntervalEnforced`) | `~EarlyResume` |
| `JsonlWriter_proofs` | JsonlWriter | `JsonlTypes`, `NothingIsLostUntilStopped` (`NothingLostUntilStopped`), `FilesAreInOrder` (`FileInOrder`) | |
| `EventTriggers_proofs` | EventTriggers | `TriggersKeepTypes`, `SubscribersKnow` (`ReportedIsState`), `LifeInOrder` (`LifecycleOrder`), `NeverTwice` (`NoRepeatedEvent`), `ChangesAreDebounced` (`Debounced`) | |
| `Runtime_proofs` | EventReactor | `ReactorKeepsTypes`, `ActionsRunOnce` (`ReactsOnce`), `ChangesAreForwarded` (`ForwardedIsCached`) | |
| | Accelerometer | `AccTypes`, `WaitingAlwaysAnnounced` (`WaitingIsAnnounced`) | |
| | PowerSleep | `PowerTypes`, `OnlyOneSleeps` (`OneSleepAtATime`) | no job by the name `power.hibernate` |
| | MCRuntime | `PartsAreIndependent`, `RuntimeKeepsTypes` (`TypeOK`) | |
| `Services_proofs` | MessageProcessor | `ProcessorTypes`, `HooksExcludeEachOther` (`TransactionUndisturbed`) | |
| | ObdLogs | `LogsKeepTypes`, `NoLineIsSkipped` | |
| | | `LinesAreImportedOnce` (`ImportedOnce`), `OnlyImportedIsChosen` (`ChosenWhenImported`) | `Single` |
| | CanConnection | `CanTypes`, `KeptAcrossBuses` (`OutlivesBus`), `GivesUp` (`GivesUpUnlessAsked`) | |
| | ModemLine | `ModemTypes`, `AnswersInTurn` (`AnswerIsForCommand`), `OnlyToldIsDeleted` (`DeletedWasTold`) | |
| | MCServices | `ServicesAreIndependent`, `ServicesKeepTypes` (`TypeOK`) | |

The hypotheses are those of the runs. `Alone`: one thread and no commands, which is the upload handler as
`cloud_manager` schedules it; with a command beside it `TrimRemovesOnlyBatch` fails (section 5). `~BgsaveBusy`: Redis
refuses no `BGSAVE`; otherwise the limit of retry queues is exceeded. `~EarlyResume`: no worker is resumed before it
has begun; otherwise it never sleeps again. `Single`: one importer, since two may return the same lines, as the
handler takes no lock. A hibernate has a name that the check for running jobs does not know. `PartsAreIndependent`
and `ServicesAreIndependent` say that in the compositions each part behaves as its own specification says, so that
what is proved of a part holds of the model that the runs check.

Most of these properties are not inductive. What each proof adds, and why:

**Upload handler, types.** `TypeOK` is inductive as it stands, because it contains what the steps rely on: batches
and caches are sequences of entries, snapshots are snapshots, and the set of retry queues is finite (its cardinality
is a local variable of `upload_retrying`). There are lemmas for the Redis operators (`Lrange`, `Ltrim`, `Lpush`),
for the functions that say where a thread goes next, and one for each action.

**Upload handler, no loss.** `NoLoss` does not say why what LTRIM and DEL remove was delivered, nor what comes back
after a power loss. `NoLossInv` adds both.

- `Structure`: the batch on its way is the *end* of its list (or the list, a fail queue, has expired), and so is
  the batch in the upload cache of the pending queue (`BatchInv`, `CacheInv`: LPUSH adds at the other end, and the
  caches of fail queues are empty whenever they are read, because `upload_failing` runs only first); retry queues
  have timestamps of their own, so that the batch being retried is what its queue holds (`DistinctInv`,
  `RetryInv`); before LTRIM or DEL the batch was delivered (`AckInv`).
- `SafeInv`: the same promise as `NoLoss` for the entries that were ever saved, of the state, of the snapshot on
  disk and of the snapshot being written, whose completion makes its entries durable.

**Upload handler, order.** `OrderInv` states where every entry is, of Redis and of both snapshots alike (a power
loss may bring any of them back): the lists follow each other in time, fail queues by their day, then retry queues
by their timestamps, then the pending queue, and each list is in order (`DataInv`); older retry queues have had at
least as many attempts, and during a pass exactly those that were not seen to yet have had one less (`PassInv`); a
batch keeps its order when its list expires (`BatchOrder`); what was acknowledged is on the device only as the batch
about to be removed (`AckedInv`). From this follow chronological payloads, the order of attempts, that nothing is
resent, and, with `NoLossInv`, that every step is one of `CloudDelivery` or a stutter. `BoundInv` bounds the retry
queues: a pass counts what is left, and `upload_pending` begins only below the limit. `FreshInv` needs no `Alone`: it
speaks of the pending queue, the retry queues and the batches read from them only, each of which keeps its order
whatever is removed from it or restored. Batches in fail queues it leaves out, for good reason (section 5).

**Workers.** A paused worker that has begun a run is in `Through`, from where it does not reach the check again
(`PauseInv`). `IntervalInv` follows an event from the call that sets it to the call that clears it: a worker that has
not begun has no event set unless it was killed, and what each step of a call relies on is `Follows`.

**Writer.** `LineInv` puts the entries on one line until a writer is stopped: the file, what the background thread
took out of the buffer, and the buffer; the line only grows at its end. After a stop several threads may write, and
`UniqueInv` says instead that an entry is in one place of all files, buffers and hands only. `StopInv` says who may
hold what before and after a stop.

**Triggers.** The invariant adds which states each trigger can have reported (`ShapeInv`), that a latching trigger
remembers the positive state exactly when it has reported it (`LatchInv`), that a boot's status is stored only after
its recovery was reported (`RecoverInv`), for `NoRepeatedEvent` that the trigger's memory tells what the last event
was (`MemoryInv`), and for `Debounced` that its count is that of the readings in a row (`RowInv`).

**Reactors.** For a reactor with actions under one key, what it ran and what is left make the configured list
(`OnceInv`); a cached event has a count (`CountedInv`).

**Accelerometer, power.** A readout that goes on is below its limit (`BelowLimit`); `WaitingIsAnnounced` and
`OneSleepAtATime` are inductive given the types.

**Message processor.** `LockInv` says where the holder of the lock is (a query that is synchronized, a message that
locks or a transactional pass), which needs that requests on the bus have not been read yet (`ShapeInv`); the types
need that the list holds no more than was enqueued (`ListBounded`).

**Logs.** Progress stays within its file (`FitInv`), what it counts as read belongs to lines that were returned, are
held by a call or were dropped (`ProgressInv`), and, with one importer, what was returned is behind the progress on
disk and of the call, whose own values are new (`Once`). `NoLineIsSkipped` is stronger than the run's property: it
holds of any number of importers.

**CAN.** Filters that are not dirty are those of the bus, and a query past `ensure_filter` has made its own the only
one (`FiltersInv`); an error is pending only while the limit is not reached, and a call past its own `is_open` runs
on a bus without one (`CountInv`); the bus has counted each failed call but the last (`StreakInv`).

**Modem.** For `AnswerIsForCommand`: unless an answer was given up, nothing is on its way, or one command is
unanswered, or its answer is in the buffer, and the handler waits for it (`InTurn`). `DeletedWasTold` needs to know
how far answers can be out of step. `OrderInv` counts what is on its way, one answer more than is waited for with
each timeout and each closed port (`ComingBounded`), and what the last two commands were (`LastSent`). With no more
than two given up it follows that no command to delete comes after a list that may still be parsed (`NoneBehind`:
`Turns` is the number of reads until then), so that such a list is one of what is stored (`AnswersInv`), the index of
each command to delete holds a message that was told of, and no index is to be emptied twice (`DeletesOK`,
`HandlerDeletes`). The bound is exact: with three, in the instance of
the run, a message may be deleted unread.

Model-checked only: liveness, which the prover cannot reason about (`PendingSettled`, `KilledEndsUnlessPaused`,
`KeptIsWritten`, `ClosingEnds`, `SteadyReported`, `AnnouncedSleepHappens`, `RequestServed`, `MessageRuns`).

## 5. Findings

Six runs end in a violation; each states what a comment, a doc string or a log message of the code says.

1. `upload_beside_command`: `cache_handler` takes no lock; `upload_pending` beside `upload_handler` trims twice
   (`cloud_cache.py:482`).
2. `upload_busy_save`: a refused `BGSAVE` skips the check of the retry queue limit (`cloud_manager.py:89`).
3. `worker_early_resume`: `work()` sets `proceed_event` whatever happened before (`threading_more.py:141`).
4. `jsonl_lost`: the background thread ends without writing the buffer out (`threading_more.py:564`).
5. `messaging_skips`: the early return that limits logging leaves the pass (`messaging.py:206`).
6. `logs_deleted`: `cleanup_grace` is documented as the time "before a fully imported log file is deleted"
   (`obd_manager.py:779`), but the cleanup (`:895-907`) never asks whether the exporter has the file open, and a
   file that nothing was read from has no timestamp and is deleted at once.

Observations made while modelling, without a run of their own:

- With commands beside the handler more breaks: `clear_queue` and then new entries make the LTRIM remove entries
  never uploaded; an `upload_*` command resends what was acknowledged; `upload_retrying` or `upload_pending`
  exceed the retry queue limit. Two passes over the retry queues at the same time may both push a rejected batch to
  the fail queue, and a payload posted from it then repeats entries: `PayloadsChronological` holds of the handler
  alone, and beside commands only `FreshChronological` does, which leaves the fail queues out.
- Fail queues are uploaded only by the first run after a service restart.
- A worker that is killed and then paused does not end (`KilledEndsUnlessPaused` says so).
- Two messages of a worker that keep failing starve the messages after them, even once a minute has passed: the
  first is logged and restarts the timer, which is one for all texts, and the second returns. `MessageRuns`
  therefore admits one that fails beside the message it speaks of, and no message twice in the list.
- "All hook functions registered using the hook decorator are synchronized" (`messaging.py:40`) is the default only:
  the import of logs, the modem's connection, the accelerometer's interrupts, the cloud cache and the triggers
  register hooks with `synchronize=False`, and hooks of the pillar take the lock only if they ask for it
  (`lock`). They run beside a worker's hook and within a transactional pass; `TransactionUndisturbed` speaks of
  the others.
- `dequeue` in a message's own worker URL can never remove anything: the message is compared with `==`, and it
  carries the tag of its own event and another URL than the message that was enqueued (`messaging.py:133`).
- Most triggers store the new state before its event is sent and do not look at whether it was: an event that the
  bus fails to send is not sent again (`SteadyReported` excludes it, `Battery` is the exception).
- Reactor: a reactor with both `actions` and `action` runs the single one once more with each event, because it is
  appended to the configured list (`messaging.py:740`; `ReactsOnce` excludes it). An action or a condition that
  raises withholds the event from the reactors after it. When a chain breaks and the log level
  is DEBUG, the log line names a variable `result` that does not exist. A returner that fails loses the changed event,
  because the filter compares with the cache, which was updated before (`lost`).
- Logs: progress is saved before the lines are returned, so a crash or an exception in between loses them
  (`dropped`), and a crash between truncate and dump makes everything be imported again (`torn`). Two importers at
  the same time return lines twice: the handler takes no lock.
- Power: a job that a cleared timer has started goes on; clearing by name or with `enable=False` does not cancel a
  planned shutdown, and clearing `"*"` cancels it but not the job that plans the next (`ClearedIsCancelled` is
  stated and does not hold); a hibernate is not seen by the check for a running sleep.
- CAN: `GivesUpAfterErrors` and `SettingsInForce` are stated and do not hold: `is_open` asked between two calls, or
  once more when filters are applied or a first frame is answered, takes the pending error away and starts the count
  again (a bus on which only the flow control frames fail is never given up), and an error that is
  pending when settings change lets `is_open` report a bus with the old ones. A failing autodetection leaves no bus;
  a failing `set_filters` leaves a bus without notifier.
- Modem: one answer that comes after its timeout shifts every later answer by one until the port is opened again;
  with three late answers or closed ports a message is deleted unread, because its index was used again.
- Accelerometer: `TimedEvent` sets and clears its two fields one after the other, so that a set event may have no
  timestamp. Trailing commas in `fifo_status` make one-element tuples, which are always true: each interrupt counts
  an overflow. A failed readout, or a dump beside the FIFO, leaves the line asserted with the event cleared, and
  only timeouts go on from there (`unheard`).

## 6. Not modelled

The map stays far below a third of the implementation lines, and most of the rest holds nothing to check: about
15,000 of 42,000 lines are vendored libraries of the secure elements, others are Salt states and patches, register
maps and AT command tables, command line wrappers and returners that hand a value to a client library. What could
still be modelled:

- the legacy `CloudCache` with its `.work` queues, queries and status; rotation of the JSONL files;
- workflows hook by hook, hook URLs, converters and filters around the triggers, the motion window of the
  accelerometer; recording and playing of logs;
- `obd_conn` and the ELM327 proxy with the workers it pauses; reboot requests and sleep hooks; clock synchronization;
- CAN filters set by hand and autodetection step by step.

## 7. Plan

1. `LegacyCloudCache`: `.work` queues against `CloudDelivery`, like `CloudUpload`.
2. `SerialProxy`: the ELM327 proxy with the workers of `WorkerThread`.
3. `SleepSuppress`: reboot requests, sleep hooks and the supervisor beside `PowerSleep`.
4. `TimeSync`: the clock that jumps under timers and timestamps.

Theorems: `NoneBehind` for any number of answers that were
given up (it then says how many may be between a list and what deletes by it), and what the modules above will state.
