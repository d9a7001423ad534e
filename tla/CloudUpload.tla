---------------------------- MODULE CloudUpload ----------------------------
(***************************************************************************)
(* The cloud cache (_utils/cloud_cache.py, NextCloudCache) as the cloud    *)
(* manager (_engines/cloud_manager.py) drives it: Redis lists of entries,  *)
(* the upload handler that moves them to the server one POST at a time,    *)
(* cache commands that run beside it, and the faults it must survive.      *)
(*                                                                         *)
(* A step is one Redis call, one MULTI/EXEC pipeline or one POST.  Entries *)
(* are numbered in the order the returner enqueued them.  Lists are        *)
(* written head first, as LRANGE returns them: LPUSH puts the newest entry *)
(* at the head, and the oldest entry of the pending queue is the last.     *)
(***************************************************************************)
EXTENDS Integers, FiniteSets, Sequences, SequencesExt

CONSTANTS
  Threads,          \* threads of the cloud service that call the cache
  Handler,          \* the one that runs upload_handler (under the hook lock)
  Commands,         \* cache commands the other threads may call
  MaxBatch,         \* option max_batch_size
  MaxRetry,         \* option max_retry
  RetryQueueLimit,  \* option retry_queue_limit
  BgsaveBusy,       \* may BGSAVE be refused because a save is in progress?
  MaxEntries,       \* bound: entries enqueued
  MaxDay,           \* bound: days, each with a fail queue of its own
  MaxRestarts       \* bound: service restarts and power losses together

UploadCommands == {"upload_failing", "upload_retrying", "upload_pending"}
ClearCommands  == {"clear_queue", "clear_everything"}

ASSUME ConstantsAssumption ==
  /\ Handler \in Threads
  /\ Commands \subseteq UploadCommands \union ClearCommands
  /\ MaxBatch \in Nat \ {0}
  /\ MaxRetry \in Nat
  /\ RetryQueueLimit \in Nat
  /\ BgsaveBusy \in BOOLEAN
  /\ MaxEntries \in Nat
  /\ MaxDay \in Nat \ {0}
  /\ MaxRestarts \in Nat

VARIABLES
  lists,      \* Redis: the pending queue (0) and the fail queue of each day
  retr,       \* Redis: the retry queues, a set of [ts, attempt, entries]
  saving,     \* Redis: the snapshot a background save is writing, or NoSave
  disk,       \* the last completed snapshot
  durable,    \* history: the entries that have been in a completed snapshot
  cache,      \* NextCloudCache.upload_cache: queue -> batch, empty if none
  first,      \* context["upload"]["count"] == 0
  th,         \* what each thread is doing
  accepted,   \* number of entries enqueued
  clock,      \* number of retry queue timestamps handed out
  day,        \* today
  delivered,  \* history: the entries the server has accepted
  acked,      \* history: delivered entries whose acceptance the device knows of
  discarded,  \* history: cleared, expired or unsaved at a power loss
  restarts    \* number of restarts so far

vars == <<lists, retr, saving, disk, durable, cache, first, th, accepted,
          clock, day, delivered, acked, discarded, restarts>>

PENDING_QUEUE == 0
FailQueues    == 1..MaxDay
Queues        == {PENDING_QUEUE} \union FailQueues

Entries == 1..accepted

(* The entries that a Redis data set holds. *)
HeldIn(l, r) ==
  (UNION {ToSet(l[q]) : q \in Queues}) \union (UNION {ToSet(x.entries) : x \in r})
Held == HeldIn(lists, retr)

RetryQueue == [ts : Nat, attempt : Nat, entries : Seq(Nat)]
Snapshot == [lists : [Queues -> Seq(Nat)], retr : SUBSET RetryQueue]
NoSave   == [lists |-> <<>>, retr |-> {}]

(* Mutant: reads the head of the list, the newest entries. *)
LrangeHead(l, n) == IF Len(l) <= n THEN l ELSE SubSeq(l, 1, n)

(* LRANGE l -n -1: the last n entries, the oldest ones. *)
Lrange(l, n) == IF Len(l) <= n THEN l ELSE SubSeq(l, Len(l) - n + 1, Len(l))

(* Mutants: LTRIM l 0 -(n+2), which removes one entry too many, and        *)
(* LTRIM l 0 -n, which leaves one entry of the batch behind.               *)
LtrimTooMany(l, n) == IF Len(l) <= n + 1 THEN <<>> ELSE SubSeq(l, 1, Len(l) - n - 1)
LtrimTooFew(l, n)  == IF Len(l) < n THEN <<>> ELSE SubSeq(l, 1, Len(l) - n + 1)

(* LTRIM l 0 -(n+1): the list without its last n entries. *)
Ltrim(l, n) == IF Len(l) <= n THEN <<>> ELSE SubSeq(l, 1, Len(l) - n)

(* Mutant: the values are pushed in one go instead of one after the other. *)
LpushTogether(l, s) == s \o l

(* LPUSH l *s: the entries of s one after the other, each at the head. *)
Lpush(l, s) == Reverse(s) \o l

(* What the server reads: '[' + ','.join(reversed(batch_reversed)) + ']'. *)
Payload(batch) == Reverse(batch)

-----------------------------------------------------------------------------
(* The state of a thread.  Everything but pc is a local variable of the    *)
(* functions the thread is in.                                             *)
NoName == [ts |-> 0, attempt |-> 0]
Idle ==
  [pc |-> "idle",             \* the next step the thread takes
   op |-> "none",             \* "upload" for upload_handler, or the command
   queue |-> PENDING_QUEUE,   \* _upload_batch: queue
   batch |-> <<>>,            \* _upload_batch: batch_reversed; upload_retrying: entries
   cached |-> FALSE,          \* _upload_batch: ret["continue"]
   queues |-> {},             \* upload_failing: the queues still to visit
   names |-> {},              \* upload_retrying: the queues still to visit
   name |-> NoName,           \* upload_retrying: the queue being retried
   remaining |-> 0]           \* upload_retrying: remaining_count

(* upload_handler counts its run in a finally clause, however it ends. *)
Proceed(t, r) ==
  /\ th' = [th EXCEPT ![t] = r]
  /\ first' = (first /\ ~(th[t].op = "upload" /\ r.pc = "idle"))

(* Continues _upload_batch_continuing with a further batch. *)
NextBatch(r) == [r EXCEPT !.pc = "fetch", !.batch = <<>>, !.cached = FALSE]

(* Leaves upload_failing: upload_handler goes on to upload_retrying. *)
LeaveFailing(r) ==
  IF r.op = "upload"
  THEN [Idle EXCEPT !.pc = "rlist", !.op = r.op]
  ELSE Idle

(* Goes on with the next fail queue, if there is one. *)
NextFailing(r) ==
  IF r.queues = {}
  THEN LeaveFailing(r)
  ELSE [NextBatch(r) EXCEPT !.pc = "fnext"]

(* Begins upload_pending. *)
EnterPending(r) == [NextBatch(Idle) EXCEPT !.op = r.op]

(* Leaves _upload_batch_continuing without an error, or with one: a fail   *)
(* queue that fails ends upload_failing, a pending batch ends the handler. *)
BatchesDone(r)   == IF r.queue = PENDING_QUEUE THEN Idle ELSE NextFailing(r)
BatchesFailed(r) == IF r.queue = PENDING_QUEUE THEN Idle ELSE LeaveFailing(r)

(* Mutants: the limit itself is let through, and one queue less is enough  *)
(* to postpone.                                                            *)
LeaveRetryingAtLimit(r) ==
  IF r.op # "upload" \/ r.remaining > RetryQueueLimit THEN Idle ELSE EnterPending(r)
LeaveRetryingBelowLimit(r) ==
  IF r.op # "upload" \/ r.remaining + 1 >= RetryQueueLimit THEN Idle ELSE EnterPending(r)

(* Leaves upload_retrying by its return: at the limit of retry queues, by  *)
(* the count it kept, pending entries are postponed.                       *)
LeaveRetrying(r) ==
  IF r.op # "upload" \/ r.remaining >= RetryQueueLimit
  THEN Idle
  ELSE EnterPending(r)

(* Leaves upload_retrying by an exception other than RequestException: the *)
(* handler logs it and goes on to upload_pending.                          *)
AbortRetrying(r) == IF r.op = "upload" THEN EnterPending(r) ELSE Idle

(* Goes on with the next retry queue of the list taken at the start. *)
NextRetry(r) ==
  IF r.names = {}
  THEN LeaveRetrying(r)
  ELSE [r EXCEPT !.pc = "rfetch", !.name = NoName, !.batch = <<>>]

(* A pipeline that ends in BGSAVE.  When a save is already in progress,    *)
(* Redis has applied the pipeline's other commands but answers BGSAVE with *)
(* an error, and execute() raises it: the thread goes on at "error".       *)
PersistThen(t, ok, error) ==
  \/ /\ saving = NoSave
     /\ saving' = [lists |-> lists', retr |-> retr']
     /\ Proceed(t, ok)
  \/ /\ saving # NoSave
     /\ BgsaveBusy
     /\ UNCHANGED saving
     /\ Proceed(t, error)
-----------------------------------------------------------------------------
Init ==
  /\ lists = [q \in Queues |-> <<>>]
  /\ retr = {}
  /\ saving = NoSave
  /\ disk = [lists |-> [q \in Queues |-> <<>>], retr |-> {}]
  /\ durable = {}
  /\ cache = [q \in Queues |-> <<>>]
  /\ first = TRUE
  /\ th = [t \in Threads |-> Idle]
  /\ accepted = 0
  /\ clock = 0
  /\ day = 1
  /\ delivered = {}
  /\ acked = {}
  /\ discarded = {}
  /\ restarts = 0

(* cloud_returner: enqueue. *)
Enqueue ==
  /\ accepted < MaxEntries
  /\ accepted' = accepted + 1
  /\ lists' = [lists EXCEPT ![PENDING_QUEUE] = Lpush(@, <<accepted + 1>>)]
  /\ UNCHANGED <<retr, saving, disk, durable, cache, first, th, clock, day,
                 delivered, acked, discarded, restarts>>
-----------------------------------------------------------------------------
(* upload_handler and the upload commands begin. *)
unchangedByControl == <<lists, retr, saving, disk, durable, accepted, clock, day,
                        delivered, acked, discarded, restarts>>

(* KEYS fail_*: only non-empty lists are keys. *)
ListFailing(r) ==
  NextFailing([r EXCEPT !.queues = {q \in FailQueues : lists[q] # <<>>}])

StartUpload(t) ==
  /\ t = Handler
  /\ th[t].pc = "idle"
  /\ LET r == [Idle EXCEPT !.op = "upload"]
     IN  Proceed(t, IF first THEN ListFailing(r) ELSE LeaveFailing(r))
  /\ UNCHANGED <<unchangedByControl, cache>>

StartCommand(t, c) ==
  /\ t # Handler
  /\ c \in Commands \intersect UploadCommands
  /\ th[t].pc = "idle"
  /\ LET r == [Idle EXCEPT !.op = c]
     IN  Proceed(t, CASE c = "upload_failing"  -> ListFailing(r)
                      [] c = "upload_retrying" -> [r EXCEPT !.pc = "rlist"]
                      [] c = "upload_pending"  -> EnterPending(r))
  /\ UNCHANGED <<unchangedByControl, cache>>

(* upload_failing: the next queue by name, that is by date. *)
NextFailQueue(t) ==
  LET r == th[t]
  IN  /\ r.pc = "fnext"
      /\ \E q \in r.queues :
           /\ \A p \in r.queues : q <= p
           /\ Proceed(t, [r EXCEPT !.pc = "fetch", !.queue = q, !.queues = @ \ {q}])
      /\ UNCHANGED <<unchangedByControl, cache>>
-----------------------------------------------------------------------------
(* _upload_batch on the pending queue or a fail queue. *)

(* Takes the batch a temporary failure left behind, else reads a new one. *)
FetchBatch(t) ==
  LET r == th[t]
      q == r.queue
      new == Lrange(lists[q], MaxBatch)
  IN  /\ r.pc = "fetch"
      /\ cache' = [cache EXCEPT ![q] = <<>>]
      /\ \/ /\ cache[q] # <<>>
            /\ Proceed(t, [r EXCEPT !.pc = "post", !.batch = cache[q], !.cached = TRUE])
         \/ /\ cache[q] = <<>>
            /\ new # <<>>
            /\ Proceed(t, [r EXCEPT !.pc = "post", !.batch = new])
         \/ /\ cache[q] = <<>>
            /\ new = <<>>
            /\ Proceed(t, BatchesDone(r))
      /\ UNCHANGED unchangedByControl

ServerAccepts(batch) == delivered' = delivered \union ToSet(batch)

unchangedByPost == <<lists, retr, saving, disk, durable, accepted, clock, day,
                     discarded, restarts>>

(* The server answers 2xx. *)
PostBatchOk(t) ==
  /\ th[t].pc = "post"
  /\ ServerAccepts(th[t].batch)
  /\ acked' = acked \union ToSet(th[t].batch)
  /\ Proceed(t, [th[t] EXCEPT !.pc = "trim"])
  /\ UNCHANGED <<unchangedByPost, cache>>

(* Mutant: a request that raises counts as answered. *)
PostBatchUnansweredTrims(t) ==
  /\ th[t].pc = "post"
  /\ ServerAccepts(th[t].batch) \/ UNCHANGED delivered
  /\ acked' = acked \union ToSet(th[t].batch)
  /\ Proceed(t, [th[t] EXCEPT !.pc = "trim"])
  /\ UNCHANGED <<unchangedByPost, cache>>

(* requests.post raises: the request or the answer is lost.  The batch is  *)
(* kept in memory for the next time.                                       *)
PostBatchUnanswered(t) ==
  LET r == th[t]
  IN  /\ r.pc = "post"
      /\ ServerAccepts(r.batch) \/ UNCHANGED delivered
      /\ cache' = [cache EXCEPT ![r.queue] = r.batch]
      /\ Proceed(t, BatchesFailed(r))
      /\ UNCHANGED <<unchangedByPost, acked>>

(* The server answers anything else: RequestException. *)
PostBatchRejected(t) ==
  LET r == th[t]
  IN  /\ r.pc = "post"
      /\ Proceed(t, IF r.queue = PENDING_QUEUE /\ MaxRetry > 0
                    THEN [r EXCEPT !.pc = "transfer"]
                    ELSE BatchesFailed(r))
      /\ UNCHANGED <<unchangedByPost, cache, delivered, acked>>

(* An accepted batch is removed, and a full or a cached one is followed by *)
(* another.                                                                *)
TrimBatch(t) ==
  LET r == th[t]
  IN  /\ r.pc = "trim"
      /\ lists' = [lists EXCEPT ![r.queue] = Ltrim(@, Len(r.batch))]
      /\ UNCHANGED retr
      /\ PersistThen(t, IF Len(r.batch) = MaxBatch \/ r.cached
                        THEN NextBatch(r)
                        ELSE BatchesDone(r),
                     BatchesFailed(r))
      /\ UNCHANGED <<disk, durable, cache, accepted, clock, day, delivered,
                     acked, discarded, restarts>>

(* A rejected pending batch moves to a retry queue of its own.  Either way *)
(* an exception ends the loop.                                             *)
TransferBatch(t) ==
  LET r == th[t]
  IN  /\ r.pc = "transfer"
      /\ clock' = clock + 1
      /\ retr' = retr \union {[ts |-> clock + 1, attempt |-> 0,
                               entries |-> Lpush(<<>>, r.batch)]}
      /\ lists' = [lists EXCEPT ![PENDING_QUEUE] = Ltrim(@, Len(r.batch))]
      /\ PersistThen(t, BatchesFailed(r), BatchesFailed(r))
      /\ UNCHANGED <<disk, durable, cache, accepted, day, delivered, acked,
                     discarded, restarts>>
-----------------------------------------------------------------------------
(* upload_retrying. *)

Named(n) == {x \in retr : x.ts = n.ts /\ x.attempt = n.attempt}

(* KEYS retr_*, sorted by name, that is by timestamp. *)
ListRetrying(t) ==
  /\ th[t].pc = "rlist"
  /\ Proceed(t, NextRetry([th[t] EXCEPT
                  !.names = {[ts |-> x.ts, attempt |-> x.attempt] : x \in retr},
                  !.remaining = Cardinality(retr)]))
  /\ UNCHANGED <<unchangedByControl, cache>>

(* LRANGE 0 -1 of the oldest queue left: nothing when the key is gone. *)
FetchRetry(t) ==
  LET r == th[t]
  IN  /\ r.pc = "rfetch"
      /\ \E n \in r.names :
           LET next == [r EXCEPT !.pc = "rpost", !.name = n, !.names = @ \ {n}]
           IN  /\ \A m \in r.names : n.ts <= m.ts
               /\ \/ \E x \in Named(n) : Proceed(t, [next EXCEPT !.batch = x.entries])
                  \/ Named(n) = {} /\ Proceed(t, next)
      /\ UNCHANGED <<unchangedByControl, cache>>

PostRetryOk(t) ==
  /\ th[t].pc = "rpost"
  /\ ServerAccepts(th[t].batch)
  /\ acked' = acked \union ToSet(th[t].batch)
  /\ Proceed(t, [th[t] EXCEPT !.pc = "rdelete"])
  /\ UNCHANGED <<unchangedByPost, cache>>

(* Mutant: goes on with the next retry queue after a temporary failure. *)
PostRetryUnansweredGoesOn(t) ==
  /\ th[t].pc = "rpost"
  /\ ServerAccepts(th[t].batch) \/ UNCHANGED delivered
  /\ Proceed(t, NextRetry(th[t]))
  /\ UNCHANGED <<unchangedByPost, cache, acked>>

(* No reason to continue trying: the remaining retry queues are skipped. *)
PostRetryUnanswered(t) ==
  /\ th[t].pc = "rpost"
  /\ ServerAccepts(th[t].batch) \/ UNCHANGED delivered
  /\ Proceed(t, LeaveRetrying(th[t]))
  /\ UNCHANGED <<unchangedByPost, cache, acked>>

PostRetryRejected(t) ==
  LET r == th[t]
  IN  /\ r.pc = "rpost"
      /\ Proceed(t, [r EXCEPT !.pc = IF r.name.attempt + 1 >= MaxRetry
                                     THEN "rfail" ELSE "rbump"])
      /\ UNCHANGED <<unchangedByPost, cache, delivered, acked>>

unchangedByRetry == <<disk, durable, cache, accepted, clock, day, delivered,
                      acked, discarded, restarts>>

(* An accepted retry queue is deleted. *)
DeleteRetry(t) ==
  LET r == th[t]
  IN  /\ r.pc = "rdelete"
      /\ retr' = retr \ Named(r.name)
      /\ UNCHANGED lists
      /\ PersistThen(t, NextRetry([r EXCEPT !.remaining = @ - 1]), AbortRetrying(r))
      /\ UNCHANGED unchangedByRetry

(* Mutant: today's fail queue is replaced instead of extended. *)
FailRetryReplaces(t) ==
  LET r == th[t]
  IN  /\ r.pc = "rfail"
      /\ r.batch # <<>>
      /\ lists' = [lists EXCEPT ![day] = Lpush(<<>>, r.batch)]
      /\ retr' = retr \ Named(r.name)
      /\ PersistThen(t, NextRetry(r), AbortRetrying(r))
      /\ UNCHANGED unchangedByRetry

(* The last attempt was rejected: the entries move to today's fail queue.  *)
(* The local count of remaining queues is left alone.  LPUSH without       *)
(* values is refused, and with it the whole transaction.                   *)
FailRetry(t) ==
  LET r == th[t]
  IN  /\ r.pc = "rfail"
      /\ \/ /\ r.batch # <<>>
            /\ lists' = [lists EXCEPT ![day] = Lpush(@, r.batch)]
            /\ retr' = retr \ Named(r.name)
            /\ PersistThen(t, NextRetry(r), AbortRetrying(r))
         \/ /\ r.batch = <<>>
            /\ Proceed(t, AbortRetrying(r))
            /\ UNCHANGED <<lists, retr, saving>>
      /\ UNCHANGED unchangedByRetry

(* RENAMENX to the next attempt; it raises when the key is gone. *)
BumpRetry(t) ==
  LET r == th[t]
      renamed == {[x EXCEPT !.attempt = @ + 1] : x \in Named(r.name)}
  IN  /\ r.pc = "rbump"
      /\ retr' = (retr \ Named(r.name)) \union renamed
      /\ UNCHANGED lists
      /\ PersistThen(t, IF Named(r.name) # {} THEN NextRetry(r) ELSE AbortRetrying(r),
                     AbortRetrying(r))
      /\ UNCHANGED unchangedByRetry
-----------------------------------------------------------------------------
(* cache_handler runs beside the handler: it takes no lock. *)
ClearQueue(q) ==
  /\ "clear_queue" \in Commands
  /\ lists[q] # <<>>
  /\ lists' = [lists EXCEPT ![q] = <<>>]
  /\ discarded' = discarded \union ToSet(lists[q])
  /\ UNCHANGED <<retr, saving, disk, durable, cache, first, th, accepted, clock,
                 day, delivered, acked, restarts>>

ClearRetryQueue(x) ==
  /\ "clear_queue" \in Commands
  /\ retr' = retr \ {x}
  /\ discarded' = discarded \union ToSet(x.entries)
  /\ UNCHANGED <<lists, saving, disk, durable, cache, first, th, accepted, clock,
                 day, delivered, acked, restarts>>

ClearEverything ==
  /\ "clear_everything" \in Commands
  /\ Held # {}
  /\ lists' = [q \in Queues |-> <<>>]
  /\ retr' = {}
  /\ discarded' = discarded \union Held
  /\ UNCHANGED <<saving, disk, durable, cache, first, th, accepted, clock, day,
                 delivered, acked, restarts>>
-----------------------------------------------------------------------------
(* The environment: Redis, the calendar, the power supply. *)

(* fail_ttl runs out on a day's fail queue. *)
Expire(q) ==
  /\ lists[q] # <<>>
  /\ lists' = [lists EXCEPT ![q] = <<>>]
  /\ discarded' = discarded \union ToSet(lists[q])
  /\ UNCHANGED <<retr, saving, disk, durable, cache, first, th, accepted, clock,
                 day, delivered, acked, restarts>>

NewDay ==
  /\ day < MaxDay
  /\ day' = day + 1
  /\ UNCHANGED <<lists, retr, saving, disk, durable, cache, first, th, accepted,
                 clock, delivered, acked, discarded, restarts>>

(* Redis saves on its own. *)
AutoSave ==
  /\ saving = NoSave
  /\ saving' = [lists |-> lists, retr |-> retr]
  /\ UNCHANGED <<lists, retr, disk, durable, cache, first, th, accepted, clock,
                 day, delivered, acked, discarded, restarts>>

SaveDone ==
  /\ saving # NoSave
  /\ disk' = saving
  /\ durable' = durable \union HeldIn(saving.lists, saving.retr)
  /\ saving' = NoSave
  /\ UNCHANGED <<lists, retr, cache, first, th, accepted, clock, day, delivered,
                 acked, discarded, restarts>>

(* What the service had in memory is gone: the threads, the upload cache,  *)
(* the run count, and the knowledge of what the server has accepted.       *)
ServiceGone ==
  /\ restarts < MaxRestarts
  /\ restarts' = restarts + 1
  /\ th' = [t \in Threads |-> Idle]
  /\ cache' = [q \in Queues |-> <<>>]
  /\ first' = TRUE
  /\ acked' = acked \ HeldIn(lists', retr')

Restart ==
  /\ UNCHANGED <<lists, retr, saving, disk, durable, accepted, clock, day,
                 delivered, discarded>>
  /\ ServiceGone

(* Redis comes back with its last completed snapshot. *)
PowerLoss ==
  /\ lists' = disk.lists
  /\ retr' = disk.retr
  /\ saving' = NoSave
  /\ discarded' = discarded \union (Entries \ durable)
  /\ ServiceGone
  /\ UNCHANGED <<disk, durable, accepted, clock, day, delivered>>
-----------------------------------------------------------------------------
(* The steps a thread takes by itself once it has begun. *)
Run(t) ==
  \/ NextFailQueue(t)
  \/ FetchBatch(t)
  \/ PostBatchOk(t)
  \/ PostBatchUnanswered(t)
  \/ PostBatchRejected(t)
  \/ TrimBatch(t)
  \/ TransferBatch(t)
  \/ ListRetrying(t)
  \/ FetchRetry(t)
  \/ PostRetryOk(t)
  \/ PostRetryUnanswered(t)
  \/ PostRetryRejected(t)
  \/ DeleteRetry(t)
  \/ FailRetry(t)
  \/ BumpRetry(t)

Environment ==
  \/ Enqueue
  \/ \E q \in Queues : ClearQueue(q)
  \/ \E x \in retr : ClearRetryQueue(x)
  \/ ClearEverything
  \/ \E q \in FailQueues : Expire(q)
  \/ NewDay
  \/ AutoSave
  \/ SaveDone
  \/ Restart
  \/ PowerLoss

Next ==
  \/ \E t \in Threads : StartUpload(t) \/ (\E c \in Commands : StartCommand(t, c)) \/ Run(t)
  \/ Environment

Spec == Init /\ [][Next]_vars
-----------------------------------------------------------------------------
Name == [ts : Nat, attempt : Nat]

ThreadState ==
  [pc : {"idle", "fnext", "fetch", "post", "trim", "transfer", "rlist",
         "rfetch", "rpost", "rdelete", "rfail", "rbump"},
   op : {"none", "upload"} \union UploadCommands,
   queue : Queues,
   batch : Seq(Nat),
   cached : BOOLEAN,
   queues : SUBSET FailQueues,
   names : SUBSET Name,
   name : Name,
   remaining : Int]

ThreadsOK ==
  /\ th \in [Threads -> ThreadState]
  /\ first \in BOOLEAN
  /\ cache \in [Queues -> Seq(Nat)]

RedisOK ==
  /\ lists \in [Queues -> Seq(Nat)]
  /\ retr \subseteq RetryQueue
  /\ saving \in Snapshot \union {NoSave}
  /\ disk \in Snapshot
  /\ \A r \in {retr, saving.retr, disk.retr} : IsFiniteSet(r)

HistoryOK ==
  /\ accepted \in Nat
  /\ clock \in Nat
  /\ day \in FailQueues
  /\ restarts \in Nat
  /\ durable \subseteq Nat
  /\ delivered \subseteq Nat
  /\ acked \subseteq delivered
  /\ discarded \subseteq Nat

(* Type correctness.  The device never counts an entry as acknowledged     *)
(* that the server has not accepted.                                       *)
TypeOK == ThreadsOK /\ RedisOK /\ HistoryOK

(* No entry is lost: whatever the returner enqueued is still in a queue,   *)
(* or the server has it, or it was discarded on purpose (cleared, expired) *)
(* or had never been saved when the power failed.                          *)
NoLoss == Entries \subseteq Held \union delivered \union discarded

Increasing(s) == \A i, j \in DOMAIN s : i < j => s[i] < s[j]

(* The entries of every payload that the handler posts are in the order    *)
(* they were logged, on their way through the retry and the fail queues    *)
(* too, although each move between lists reverses them.  (Of the handler   *)
(* without commands beside it.)                                            *)
PayloadsChronological ==
  \A t \in Threads :
    /\ th[t].pc = "post" => Increasing(Payload(th[t].batch))
    /\ th[t].pc = "rpost" => Increasing(th[t].batch)

(* A payload that comes from the pending queue or a retry queue lists its  *)
(* entries in the order they were logged, whatever commands run beside the *)
(* handler, what they clear and what both of them fetch and trim twice.    *)
(* Fail queues are different: two passes over the retry queues that run    *)
(* at once may both push a batch onto one of them, and what is posted from *)
(* it then lists entries again (upload_retrying).                          *)
FreshChronological ==
  \A t \in Threads :
    /\ th[t].pc = "post" /\ th[t].queue = PENDING_QUEUE => Increasing(Payload(th[t].batch))
    /\ th[t].pc = "rpost" => Increasing(th[t].batch)

(* The device never posts again what it knows the server has accepted: a   *)
(* batch is sent twice only after a lost answer or a restart.              *)
NoNeedlessResend ==
  \A t \in Threads :
    th[t].pc \in {"post", "rpost"} => ToSet(th[t].batch) \intersect acked = {}

(* No more than retry_queue_limit retry queues exist at a time, whatever   *)
(* upload_pending meets (is_overrun postpones it).                         *)
RetryQueuesBounded == Cardinality(retr) <= RetryQueueLimit

(* A retry queue fails before it is retried max_retry times, and an older  *)
(* queue has had at least as many attempts as a newer one.                 *)
AttemptsOrdered ==
  /\ \A x \in retr : x.attempt < MaxRetry
  /\ \A x, y \in retr : x.ts < y.ts => x.attempt >= y.attempt

(* "Remove batch entries from queue": the entries that LTRIM removes after *)
(* an upload are entries of the batch that was uploaded.                   *)
TrimRemovesOnlyBatch ==
  [][\A t \in Threads :
       th[t].pc = "trim" /\ th'[t].pc # "trim" /\ restarts' = restarts
         => ToSet(lists[th[t].queue]) \ ToSet(lists'[th[t].queue]) \subseteq ToSet(th[t].batch)]_vars

(* The queues, the upload cache and the retry passes together implement    *)
(* the delivery promise of CloudDelivery.                                  *)
Delivery == INSTANCE CloudDelivery WITH held <- Held
ImplementsDelivery == Delivery!DSpec
-----------------------------------------------------------------------------
(* The worker calls upload_handler again and again and a run that began    *)
(* goes on; a server that is asked again and again accepts in the end.     *)
Fairness ==
  /\ WF_vars(StartUpload(Handler))
  /\ WF_vars(Run(Handler))
  /\ SF_vars(PostBatchOk(Handler))
  /\ SF_vars(PostRetryOk(Handler))

FairSpec == Spec /\ Fairness

(* The entries that wait for the server: pending, or in a retry queue.     *)
Waiting == ToSet(lists[PENDING_QUEUE]) \union (UNION {ToSet(x.entries) : x \in retr})

(* No entry waits for ever: it is delivered in the end, or it runs out of  *)
(* attempts or is discarded, whatever commands run beside the handler and  *)
(* whatever Redis refuses (that it is not lost instead is NoLoss).         *)
PendingSettled == \A e \in 1..MaxEntries : e \in Waiting ~> e \notin Waiting
=============================================================================
