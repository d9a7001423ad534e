-------------------------- MODULE MessageProcessor --------------------------
(***************************************************************************)
(* The message processor of a service (_utils/messaging.py): a main thread *)
(* that serves the requests of clients one after the other, and a          *)
(* dedicated worker that runs its messages again and again.  Both call     *)
(* hooks under the processor's lock, unless a hook was registered without  *)
(* synchronization or added without a lock.                                *)
(*                                                                         *)
(* Clients wait for their answer until a timeout.  The main thread is a    *)
(* client, too, when a handler calls a command of its own service.         *)
(***************************************************************************)
EXTENDS Naturals, Sequences, FiniteSets, SequencesExt

CONSTANTS
  Clients,       \* threads of other processes that send requests
  NumMessages,   \* number of messages that the dedicated worker is given
  Unlocked,      \* those of them whose hooks take no lock
  RecurLimit,    \* how often an error is logged before it is recurring
  MaxRequests    \* bound: requests

(* The messages are numbered in the order in which the pillar lists them.  *)
Messages  == 1..NumMessages
NullMessage == 0

ASSUME ProcessorAssumption ==
  /\ NumMessages \in Nat
  /\ Unlocked \subseteq Messages
  /\ RecurLimit \in Nat
  /\ MaxRequests \in Nat

Main   == "main"
Worker == "worker"
Nobody == "nobody"
Callers == Clients \union {Main}
Failures == {"warning", "error"}

VARIABLES
  transactional,  \* setting of the worker: a pass holds the lock throughout
  suppress,       \* setting of the worker: suppress_exceptions
  messages,       \* thread.context["messages"]
  work,           \* the worker: [pc, todo, message, success]
  errors,         \* distinct_warnings and distinct_errors: count, up to RecurLimit
  quiet,          \* was one of them logged less than a minute ago?
  lock,           \* who holds _hook_lock
  queue,          \* requests on the event bus that the main thread has not read
  request,        \* the request it serves, or NoRequest
  waiting,        \* the request each caller waits for, or 0
  sent            \* number of requests sent

workerVars  == <<transactional, suppress, work, errors, quiet>>
requestVars == <<queue, request, waiting, sent>>
processorVars == <<workerVars, messages, lock, requestVars>>

NoRequest == [id |-> 0, from |-> Nobody, op |-> "none", message |-> NullMessage, pc |-> "none"]
NoWork == [pc |-> "idle", todo |-> <<>>, message |-> NullMessage, success |-> TRUE]
NoErrors == [k \in Failures |-> [m \in Messages |-> 0]]

ProcessorInit ==
  /\ transactional \in BOOLEAN
  /\ suppress \in BOOLEAN
  /\ messages = [m \in Messages |-> m]
  /\ work = NoWork
  /\ errors = NoErrors
  /\ quiet = [k \in Failures |-> FALSE]
  /\ lock = Nobody
  /\ queue = <<>>
  /\ request = NoRequest
  /\ waiting = [c \in Callers |-> 0]
  /\ sent = 0
-----------------------------------------------------------------------------
(* The dedicated worker: do_work. *)
Locks(m) == m \notin Unlocked
Release == lock' = IF transactional \/ ~Locks(work.message) THEN lock ELSE Nobody

(* Mutant: a transactional pass takes the lock for each message only. *)
BeginPassUnlocked ==
  /\ work.pc = "idle"
  /\ lock # Worker
  /\ work' = [NoWork EXCEPT !.pc = "next", !.todo = messages]
  /\ UNCHANGED <<transactional, suppress, errors, quiet, messages, lock, requestVars>>

(* The worker's list is copied: changes take effect with the next pass. *)
BeginPass ==
  /\ work.pc = "idle"
  /\ IF transactional THEN lock = Nobody /\ lock' = Worker ELSE UNCHANGED lock
  /\ work' = [NoWork EXCEPT !.pc = "next", !.todo = messages]
  /\ UNCHANGED <<transactional, suppress, errors, quiet, messages, requestVars>>

RunMessage ==
  /\ work.pc = "next"
  /\ work.todo # <<>>
  /\ IF transactional \/ ~Locks(Head(work.todo)) THEN UNCHANGED lock
                                                  ELSE lock = Nobody /\ lock' = Worker
  /\ work' = [work EXCEPT !.pc = "run", !.todo = Tail(@), !.message = Head(work.todo)]
  /\ UNCHANGED <<transactional, suppress, errors, quiet, messages, requestVars>>

MessageDone ==
  /\ work.pc = "run"
  /\ Release
  /\ work' = [work EXCEPT !.pc = "next", !.message = NullMessage]
  /\ UNCHANGED <<transactional, suppress, errors, quiet, messages, requestVars>>

(* Mutant: the log timer is not looked at. *)
RecurringForEver(k, n) == n > RecurLimit /\ (k = "warning" \/ suppress)

(* A recurring failure within a minute of the last one logged.  Failures   *)
(* are told apart by their text: each message has one of its own here.     *)
Recurring(k, n) == n > RecurLimit /\ quiet[k] /\ (k = "warning" \/ suppress)

(* The pass ends at once when the failure is recurring, or when it is an   *)
(* error of a transaction; an error that is not suppressed ends the thread.*)
MessageFails(k) ==
  LET n == errors[k][work.message] + 1
      stop == Recurring(k, n) \/ (k = "error" /\ (transactional \/ ~suppress))
  IN  /\ work.pc = "run"
      /\ errors' = [errors EXCEPT ![k][work.message] = IF @ = RecurLimit THEN @ ELSE n]
      /\ quiet' = [quiet EXCEPT ![k] = TRUE]
      /\ IF stop
         THEN /\ lock' = IF lock = Worker THEN Nobody ELSE lock
              /\ work' = [NoWork EXCEPT !.pc = IF k = "error" /\ ~suppress THEN "ended" ELSE "idle"]
         ELSE /\ Release
              /\ work' = [work EXCEPT !.pc = "next", !.message = NullMessage, !.success = FALSE]
      /\ UNCHANGED <<transactional, suppress, messages, requestVars>>

(* Counts are kept until a pass succeeds as a whole. *)
EndPass ==
  /\ work.pc = "next"
  /\ work.todo = <<>>
  /\ work' = NoWork
  /\ errors' = IF work.success THEN NoErrors ELSE errors
  /\ lock' = IF transactional THEN Nobody ELSE lock
  /\ UNCHANGED <<transactional, suppress, quiet, messages, requestVars>>

MinutePasses(k) ==
  /\ quiet[k]
  /\ quiet' = [quiet EXCEPT ![k] = FALSE]
  /\ UNCHANGED <<transactional, suppress, work, errors, messages, lock, requestVars>>
-----------------------------------------------------------------------------
(* Requests. *)
(* A query calls a hook that is synchronized, a free query one that is not.*)
Queries    == {"query", "free_query"}
Operations == Queries \union {"enqueue", "dequeue"}

(* send_sync *)
Ask(c, op, m) ==
  /\ sent < MaxRequests
  /\ waiting[c] = 0
  /\ sent' = sent + 1
  /\ queue' = Append(queue, [id |-> sent + 1, from |-> c, op |-> op, message |-> m, pc |-> "read"])
  /\ waiting' = [waiting EXCEPT ![c] = sent + 1]
  /\ UNCHANGED <<workerVars, messages, lock, request>>

Request(c) ==
  \/ \E op \in Queries : Ask(c, op, NullMessage)
  \/ \E op \in {"enqueue", "dequeue"}, m \in Messages : Ask(c, op, m)

(* A handler calls a command of its own service. *)
RequestItself ==
  /\ request.pc = "handle"
  /\ \E op \in Queries : Ask(Main, op, NullMessage)

(* Mutant: a call within the service waits without a timeout. *)
TimeOutBetweenServices(c) ==
  /\ c # Main
  /\ waiting[c] # 0
  /\ waiting' = [waiting EXCEPT ![c] = 0]
  /\ UNCHANGED <<workerVars, messages, lock, queue, request, sent>>

(* "No reply message received within timeout" *)
TimeOut(c) ==
  /\ waiting[c] # 0
  /\ waiting' = [waiting EXCEPT ![c] = 0]
  /\ UNCHANGED <<workerVars, messages, lock, queue, request, sent>>

ReadRequest ==
  /\ request = NoRequest
  /\ queue # <<>>
  /\ request' = Head(queue)
  /\ queue' = Tail(queue)
  /\ UNCHANGED <<workerVars, messages, lock, waiting, sent>>

(* Mutant: a synchronized hook takes no lock. *)
HandleUnsynchronized ==
  /\ request.pc = "read"
  /\ request.op \in Queries
  /\ request' = [request EXCEPT !.pc = "handle"]
  /\ UNCHANGED <<workerVars, messages, lock, queue, waiting, sent>>

(* A hook that is synchronized is called under the lock. *)
Handle ==
  /\ request.pc = "read"
  /\ \/ request.op = "query" /\ lock = Nobody /\ lock' = Main
     \/ request.op = "free_query" /\ UNCHANGED lock
  /\ request' = [request EXCEPT !.pc = "handle"]
  /\ UNCHANGED <<workerVars, messages, queue, waiting, sent>>

HandleDone ==
  /\ request.pc = "handle"
  /\ waiting[Main] = 0
  /\ lock' = IF request.op = "query" THEN Nobody ELSE lock
  /\ \E result \in {"reply", "no_reply"} : request' = [request EXCEPT !.pc = result]
  /\ UNCHANGED <<workerVars, messages, queue, waiting, sent>>

(* A worker that has ended is not in the registry any more. *)
Registered == work.pc # "ended"

(* dedicated_worker, called with enqueue through the manage workflow: no   *)
(* lock is taken.                                                          *)
Enqueue ==
  /\ request.pc = "read"
  /\ request.op = "enqueue"
  /\ messages' = IF Registered THEN Append(messages, request.message) ELSE messages
  /\ request' = [request EXCEPT !.pc = "reply"]
  /\ UNCHANGED <<workerVars, lock, queue, waiting, sent>>

(* dedicated_worker, called with dequeue: list.remove takes the first one  *)
(* that is equal; it raises when there is none, and the reply is an error. *)
(* (A message with dequeue in its own worker URL is never equal to one     *)
(* that was enqueued, and carries the tag of its own request besides.)     *)
Dequeue ==
  /\ request.pc = "read"
  /\ request.op = "dequeue"
  /\ messages' = IF Registered THEN RemoveFirst(messages, request.message) ELSE messages
  /\ request' = [request EXCEPT !.pc = "reply"]
  /\ UNCHANGED <<workerVars, lock, queue, waiting, sent>>

(* The reply, a value or an error, goes to the caller that waits for this  *)
(* very request; later it is dropped.  Without a result there is none.     *)
Reply ==
  LET r == request
      due == r.pc = "reply" /\ waiting[r.from] = r.id
  IN  /\ r.pc \in {"reply", "no_reply"}
      /\ waiting' = IF due THEN [waiting EXCEPT ![r.from] = 0] ELSE waiting
      /\ request' = NoRequest
      /\ UNCHANGED <<workerVars, messages, lock, queue, sent>>
-----------------------------------------------------------------------------
Work ==
  \/ BeginPass \/ RunMessage \/ MessageDone \/ EndPass
  \/ \E k \in Failures : MessageFails(k)

Serve == ReadRequest \/ Handle \/ HandleDone \/ Enqueue \/ Dequeue \/ Reply

ProcessorNext ==
  \/ Work
  \/ Serve
  \/ RequestItself
  \/ \E c \in Clients : Request(c)
  \/ \E c \in Callers : TimeOut(c)
  \/ \E k \in Failures : MinutePasses(k)

ProcessorSpec == ProcessorInit /\ [][ProcessorNext]_processorVars
-----------------------------------------------------------------------------
Requests == [id : 1..sent, from : Callers, op : Operations,
             message : Messages \union {NullMessage}, pc : {"read", "handle", "reply", "no_reply"}]

ProcessorTypeOK ==
  /\ messages \in Seq(Messages) /\ Len(messages) <= NumMessages + sent
  /\ work \in [pc : {"idle", "next", "run", "ended"}, todo : Seq(Messages),
               message : Messages \union {NullMessage}, success : BOOLEAN]
  /\ errors \in [Failures -> [Messages -> 0..RecurLimit]]
  /\ quiet \in [Failures -> BOOLEAN]
  /\ lock \in {Nobody, Main, Worker}
  /\ queue \in Seq(Requests)
  /\ request \in Requests \union {NoRequest}
  /\ waiting \in [Callers -> 0..sent]
  /\ (lock = Main) <=> (request.pc = "handle" /\ request.op = "query")

(* "All hook functions are synchronized", and a transactional pass is one  *)
(* transaction.  Hooks that are registered with synchronize=False, or added*)
(* without lock, are neither: of the others none is called for a request   *)
(* while the worker runs one of its own, nor from the beginning to the end *)
(* of a transactional pass.                                                *)
TransactionUndisturbed ==
  request.pc = "handle" /\ request.op = "query" =>
    /\ ~(work.pc = "run" /\ Locks(work.message))
    /\ ~(transactional /\ work.pc \in {"next", "run"})

(* Requests that wait are all served in the end, although the worker takes *)
(* the lock again and again and handlers wait for their own service.       *)
(* (There are MaxRequests at most, so this is said of all of them at once.)*)
AllServed == request = NoRequest /\ queue = <<>>
RequestServed == []<>AllServed

(* A message that stays in the list of a worker is run again and again,    *)
(* although another one before it keeps failing, unless the worker is      *)
(* transactional, an error ended it, or a message was enqueued twice.  (Two*)
(* others that keep failing starve those after them: the first is logged   *)
(* and restarts the timer, the second then ends the pass.)                 *)
MessageRuns ==
  \A m, x \in Messages :
       /\ m # x
       /\ <>[](/\ Contains(messages, m) /\ IsInjective(messages)
               /\ ~transactional /\ work.pc # "ended")
       /\ <>[][\A k \in Failures : MessageFails(k) => work.message \in {m, x}]_processorVars
    => []<>(work.pc = "run" /\ work.message = m)

(* "continues as normal": a pass of a worker that is not transactional     *)
(* ends when all its messages were run, although some failed.              *)
PassIsComplete ==
  [][work.pc = "run" /\ work'.pc = "idle" => transactional \/ work.todo = <<>>]_processorVars
=============================================================================
