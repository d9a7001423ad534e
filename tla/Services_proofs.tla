-------------------------- MODULE Services_proofs ---------------------------
(***************************************************************************)
(* Proofs about the parts of MCServices: the message processor, for all    *)
(* clients, messages and limits; the import of the OBD manager's logs, for *)
(* every number of logs, of lines, of lines read by one call and of        *)
(* crashes; the CAN manager's connection, for every set of settings and    *)
(* filters and every number of errors after which a bus is given up; and   *)
(* the modem's serial line, for every storage, every number of messages,   *)
(* of timeouts and of times the port is closed.  The last section puts     *)
(* the types of all parts together.                                        *)
(***************************************************************************)
EXTENDS MCServices, WellFoundedInduction, TLAPS

(* The least of some numbers is one of them.                               *)
LEMMA LeastIsMember ==
  ASSUME NEW T \in SUBSET Nat, T # {}
  PROVE  Min(T) \in T
<1> DEFINE R == {ss \in Nat \X Nat : ss[1] < ss[2]}
<1>1. IsWellFoundedOn(R, Nat)
  BY NatLessThanWellFounded DEF OpToRel
<1>2. T \subseteq Nat
  OBVIOUS
<1>3. \E x \in T : \A y \in T : <<y, x>> \notin R
  <2> HIDE DEF R
  <2>1. QED
    BY <1>1, <1>2, WFMin
<1>4. \E x \in T : \A y \in T : x <= y
  <2>1. PICK x \in T : \A y \in T : <<y, x>> \notin R
    BY <1>3
  <2>2. ASSUME NEW y \in T
        PROVE  x <= y
    <3>1. ~(y < x) /\ x \in Nat /\ y \in Nat
      BY <1>2, <2>1
    <3>2. QED
      BY <3>1
  <2>3. QED
    BY <2>2
<1>5. QED
  BY <1>4 DEF Min

-----------------------------------------------------------------------------
(* Message processor. *)

AnyRequest == [id : Nat, from : Callers, op : Operations, message : Messages \union {NullMessage},
               pc : {"read", "handle", "reply", "no_reply"}]

(* What arrives on the bus has yet to be read.                             *)
Unread == [id : Nat, from : Callers, op : Operations, message : Messages \union {NullMessage},
           pc : {"read"}]

(* The lock tells where its holder is: the main thread handles a query,    *)
(* the worker runs a message that locks or is in a transactional pass.     *)
Querying == request.pc = "handle" /\ request.op = "query"
LockInv ==
  /\ lock = Main <=> Querying
  /\ work.pc = "run" /\ Locks(work.message) => lock = Worker
  /\ transactional /\ work.pc \in {"next", "run"} => lock = Worker

(* Types of what the lock depends on.                                      *)
ShapeInv ==
  /\ transactional \in BOOLEAN
  /\ queue \in Seq(Unread)
  /\ request \in AnyRequest \union {NoRequest}
  /\ sent \in Nat
  /\ DOMAIN work = {"pc", "todo", "message", "success"}

ProcessorInv == ShapeInv /\ LockInv

-----------------------------------------------------------------------------
(* Types.                                                                  *)

LEMMA InvInit == ProcessorInit => ProcessorInv
<1> SUFFICES ASSUME ProcessorInit PROVE ProcessorInv
  OBVIOUS
<1>1. /\ transactional \in BOOLEAN /\ queue = <<>> /\ request = NoRequest /\ sent = 0
      /\ work = NoWork /\ lock = Nobody
  BY DEF ProcessorInit
<1>2. <<>> \in Seq(Unread)
  OBVIOUS
<1>3. DOMAIN work = {"pc", "todo", "message", "success"} /\ work.pc = "idle"
  BY <1>1 DEF NoWork
<1>4. ShapeInv
  BY <1>1, <1>2, <1>3 DEF ShapeInv
<1>5. LockInv
  BY <1>1, <1>3 DEF LockInv, Querying, NoRequest, Nobody, Main
<1>6. QED
  BY <1>4, <1>5 DEF ProcessorInv

LEMMA AskKeepsShape ==
  ASSUME ShapeInv, NEW c \in Callers, NEW op \in Operations,
         NEW m \in Messages \union {NullMessage}, Ask(c, op, m)
  PROVE  ShapeInv'
<1>1. /\ transactional' = transactional /\ request' = request
      /\ work' = work /\ sent' = sent + 1
      /\ queue' = Append(queue, [id |-> sent + 1, from |-> c, op |-> op, message |-> m,
                                 pc |-> "read"])
  BY DEF Ask, workerVars
<1>2. sent \in Nat /\ sent + 1 \in Nat
  BY DEF ShapeInv
<1>3. [id |-> sent + 1, from |-> c, op |-> op, message |-> m, pc |-> "read"] \in Unread
  BY <1>2 DEF Unread
<1>4. queue \in Seq(Unread)
  BY DEF ShapeInv
<1>5. queue' \in Seq(Unread)
  BY <1>1, <1>3, <1>4
<1>6. QED
  BY <1>1, <1>2, <1>5 DEF ShapeInv

LEMMA ReadKeepsShape ==
  ASSUME ShapeInv, ReadRequest
  PROVE  ShapeInv' /\ request'.pc = "read"
<1>1. queue \in Seq(Unread) /\ queue # <<>> /\ request' = Head(queue) /\ queue' = Tail(queue)
  BY DEF ShapeInv, ReadRequest
<1>2. Head(queue) \in Unread /\ Tail(queue) \in Seq(Unread)
  BY <1>1
<1>3. request' \in AnyRequest /\ request'.pc = "read"
  BY <1>1, <1>2 DEF Unread, AnyRequest
<1>4. UNCHANGED <<transactional, sent, work>>
  BY DEF ReadRequest, workerVars
<1>5. QED
  BY <1>1, <1>2, <1>3, <1>4 DEF ShapeInv

LEMMA NoneServed == NoRequest.pc = "none"
  BY DEF NoRequest

(* A request that is served changes its place only.                        *)
LEMMA ServingKeepsShape ==
  ASSUME ShapeInv, NEW pc \in {"handle", "reply", "no_reply"},
         request.pc # "none", request' = [request EXCEPT !.pc = pc],
         UNCHANGED <<transactional, queue, sent, work>>
  PROVE  ShapeInv' /\ request'.pc = pc /\ request'.op = request.op
<1>1. request \in AnyRequest
  BY NoneServed DEF ShapeInv
<1>2. request' \in AnyRequest /\ request'.pc = pc /\ request'.op = request.op
  BY <1>1 DEF AnyRequest
<1>3. QED
  BY <1>2 DEF ShapeInv

LEMMA ReplyKeepsShape ==
  ASSUME ShapeInv, Reply
  PROVE  ShapeInv' /\ request' = NoRequest /\ UNCHANGED <<work, lock, transactional>>
<1>1. request' = NoRequest /\ UNCHANGED <<transactional, queue, sent, work, lock>>
  BY DEF Reply, workerVars
<1>2. QED
  BY <1>1 DEF ShapeInv

(* The worker changes its own state only.                                  *)
LEMMA WorkKeepsShape ==
  ASSUME ShapeInv, Work
  PROVE  ShapeInv'
<1>1. UNCHANGED <<transactional, queue, request, sent>>
  BY DEF Work, BeginPass, RunMessage, MessageDone, EndPass, MessageFails, requestVars
<1>2. DOMAIN work' = {"pc", "todo", "message", "success"}
  <2>1. DOMAIN work = {"pc", "todo", "message", "success"}
    BY DEF ShapeInv
  <2>2. CASE BeginPass \/ EndPass
    BY <2>2 DEF BeginPass, EndPass, NoWork
  <2>3. CASE RunMessage \/ MessageDone
    BY <2>1, <2>3 DEF RunMessage, MessageDone
  <2>4. ASSUME NEW k \in Failures, MessageFails(k)
        PROVE  DOMAIN work' = {"pc", "todo", "message", "success"}
    <3>1. CASE work' = [work EXCEPT !.pc = "next", !.message = NullMessage, !.success = FALSE]
      BY <2>1, <3>1
    <3>2. CASE work' = [NoWork EXCEPT !.pc = IF k = "error" /\ ~suppress THEN "ended" ELSE "idle"]
      BY <3>2 DEF NoWork
    <3>3. QED
      BY <2>4, <3>1, <3>2 DEF MessageFails
  <2>5. QED
    BY <2>2, <2>3, <2>4 DEF Work
<1>3. QED
  BY <1>1, <1>2 DEF ShapeInv

LEMMA ShapeStep == ProcessorInv /\ [ProcessorNext]_processorVars => ShapeInv'
<1> SUFFICES ASSUME ShapeInv, LockInv, [ProcessorNext]_processorVars PROVE ShapeInv'
  BY DEF ProcessorInv
<1>1. CASE Work
  BY <1>1, WorkKeepsShape
<1>2. CASE ReadRequest
  BY <1>2, ReadKeepsShape
<1>3. CASE Handle
  <2>1. /\ request.pc # "none" /\ request' = [request EXCEPT !.pc = "handle"]
        /\ UNCHANGED <<transactional, queue, sent, work>>
    BY <1>3 DEF Handle, workerVars
  <2>2. QED
    BY <2>1, ServingKeepsShape
<1>4. CASE HandleDone
  <2>1. PICK result \in {"reply", "no_reply"} : request' = [request EXCEPT !.pc = result]
    BY <1>4 DEF HandleDone
  <2>2. request.pc # "none" /\ UNCHANGED <<transactional, queue, sent, work>>
    BY <1>4 DEF HandleDone, workerVars
  <2>3. QED
    BY <2>1, <2>2, ServingKeepsShape
<1>5. CASE Enqueue \/ Dequeue
  <2>1. /\ request.pc # "none" /\ request' = [request EXCEPT !.pc = "reply"]
        /\ UNCHANGED <<transactional, queue, sent, work>>
    BY <1>5 DEF Enqueue, Dequeue, workerVars
  <2>2. QED
    BY <2>1, ServingKeepsShape
<1>6. CASE Reply
  BY <1>6, ReplyKeepsShape
<1>7. CASE RequestItself \/ \E c \in Clients : Request(c)
  <2>1. \E c \in Callers, op \in Operations, m \in Messages \union {NullMessage} : Ask(c, op, m)
    BY <1>7 DEF RequestItself, Request, Callers, Operations, Queries
  <2>2. QED
    BY <2>1, AskKeepsShape
<1>8. CASE (\E c \in Callers : TimeOut(c)) \/ (\E k \in Failures : MinutePasses(k))
  <2>1. UNCHANGED <<transactional, queue, request, sent, work>>
    BY <1>8 DEF TimeOut, MinutePasses, workerVars, requestVars
  <2>2. QED
    BY <2>1 DEF ShapeInv
<1>9. CASE UNCHANGED processorVars
  BY <1>9 DEF processorVars, workerVars, requestVars, ShapeInv
<1>10. QED
  BY <1>1, <1>2, <1>3, <1>4, <1>5, <1>6, <1>7, <1>8, <1>9 DEF ProcessorNext, Serve

-----------------------------------------------------------------------------
(* The lock.                                                               *)

LEMMA WorkKeepsLock ==
  ASSUME ShapeInv, LockInv, Work
  PROVE  LockInv'
<1>0. /\ DOMAIN work = {"pc", "todo", "message", "success"}
      /\ Main # Worker /\ Main # Nobody /\ Worker # Nobody
  BY DEF ShapeInv, Main, Worker, Nobody
<1>1. request' = request /\ transactional' = transactional
  BY DEF Work, BeginPass, RunMessage, MessageDone, EndPass, MessageFails, requestVars
<1>2. ASSUME transactional /\ work'.pc \in {"next", "run"} => lock' = Worker,
             work'.pc = "run" /\ Locks(work'.message) => lock' = Worker,
             lock' = lock \/ (lock # Main /\ lock' # Main)
      PROVE  LockInv'
  BY <1>0, <1>1, <1>2 DEF LockInv, Querying, Locks
<1>3. CASE BeginPass
  <2>1. work'.pc = "next" /\ work.pc = "idle"
    BY <1>3 DEF BeginPass, NoWork
  <2>2. QED
    BY <1>0, <1>2, <1>3, <2>1 DEF BeginPass
<1>4. CASE RunMessage
  <2>1. work'.pc = "run" /\ work'.message = Head(work.todo) /\ work.pc = "next"
    BY <1>0, <1>4 DEF RunMessage
  <2>2. CASE transactional
    BY <1>0, <1>2, <1>4, <2>1, <2>2 DEF RunMessage, LockInv
  <2>3. CASE ~transactional
    BY <1>0, <1>2, <1>4, <2>1, <2>3 DEF RunMessage
  <2>4. QED
    BY <2>2, <2>3
<1>5. ASSUME Release, work.pc = "run", work'.pc = "next"
      PROVE  LockInv'
  BY <1>0, <1>2, <1>5 DEF LockInv, Release
<1>6. CASE MessageDone
  <2>1. work'.pc = "next"
    BY <1>0, <1>6 DEF MessageDone
  <2>2. QED
    BY <1>5, <1>6, <2>1 DEF MessageDone
<1>7. CASE EndPass
  <2>1. work'.pc = "idle" /\ work.pc = "next"
        /\ lock' = IF transactional THEN Nobody ELSE lock
    BY <1>7 DEF EndPass, NoWork
  <2>2. QED
    BY <1>0, <1>2, <2>1 DEF LockInv
<1>8. ASSUME NEW k \in Failures, MessageFails(k)
      PROVE  LockInv'
  <2>1. work.pc = "run"
    BY <1>8 DEF MessageFails
  <2>2. CASE /\ lock' = IF lock = Worker THEN Nobody ELSE lock
             /\ work' = [NoWork EXCEPT !.pc = IF k = "error" /\ ~suppress THEN "ended" ELSE "idle"]
    <3>1. work'.pc \in {"ended", "idle"}
      BY <2>2 DEF NoWork
    <3>2. QED
      BY <1>0, <1>2, <2>2, <3>1
  <2>3. CASE Release /\ work' = [work EXCEPT !.pc = "next", !.message = NullMessage, !.success = FALSE]
    <3>1. work'.pc = "next"
      BY <1>0, <2>3
    <3>2. QED
      BY <1>5, <2>1, <2>3, <3>1
  <2>4. QED
    BY <1>8, <2>2, <2>3 DEF MessageFails
<1>9. QED
  BY <1>3, <1>4, <1>6, <1>7, <1>8 DEF Work

LEMMA LockStep == ProcessorInv /\ [ProcessorNext]_processorVars => LockInv'
<1> SUFFICES ASSUME ShapeInv, LockInv, [ProcessorNext]_processorVars PROVE LockInv'
  BY DEF ProcessorInv
<1>0. Main # Worker /\ Main # Nobody /\ Worker # Nobody
  BY DEF Main, Worker, Nobody
<1>1. CASE Work
  BY <1>1, WorkKeepsLock
<1>2. CASE ReadRequest
  <2>1. request'.pc = "read" /\ request.pc = "none"
    BY <1>2, ReadKeepsShape, NoneServed DEF ReadRequest
  <2>2. UNCHANGED <<transactional, work, lock>>
    BY <1>2 DEF ReadRequest, workerVars
  <2>3. QED
    BY <2>1, <2>2 DEF LockInv, Querying
<1>3. CASE Handle
  <2>1. /\ request.pc = "read" /\ request' = [request EXCEPT !.pc = "handle"]
        /\ UNCHANGED <<transactional, queue, sent, work>>
        /\ \/ request.op = "query" /\ lock = Nobody /\ lock' = Main
           \/ request.op = "free_query" /\ lock' = lock
    BY <1>3 DEF Handle, workerVars
  <2>2. request'.pc = "handle" /\ request'.op = request.op
    BY <2>1, ServingKeepsShape
  <2>3. QED
    BY <1>0, <2>1, <2>2 DEF LockInv, Querying
<1>4. CASE HandleDone
  <2>1. PICK result \in {"reply", "no_reply"} : request' = [request EXCEPT !.pc = result]
    BY <1>4 DEF HandleDone
  <2>2. /\ request.pc = "handle" /\ UNCHANGED <<transactional, queue, sent, work>>
        /\ lock' = IF request.op = "query" THEN Nobody ELSE lock
    BY <1>4 DEF HandleDone, workerVars
  <2>3. request'.pc = result
    BY <2>1, <2>2, ServingKeepsShape
  <2>4. QED
    BY <1>0, <2>2, <2>3 DEF LockInv, Querying
<1>5. CASE Enqueue \/ Dequeue
  <2>1. /\ request.pc = "read" /\ request' = [request EXCEPT !.pc = "reply"]
        /\ UNCHANGED <<transactional, queue, sent, work, lock>>
    BY <1>5 DEF Enqueue, Dequeue, workerVars
  <2>2. request'.pc = "reply"
    BY <2>1, ServingKeepsShape
  <2>3. QED
    BY <2>1, <2>2 DEF LockInv, Querying
<1>6. CASE Reply
  <2>1. request.pc # "handle" /\ request'.pc = "none"
    BY <1>6, ReplyKeepsShape, NoneServed DEF Reply
  <2>2. QED
    BY <1>6, <2>1, ReplyKeepsShape DEF LockInv, Querying
<1>7. CASE RequestItself \/ \E c \in Clients : Request(c)
  <2>1. \E c \in Callers, op \in Operations, m \in Messages \union {NullMessage} : Ask(c, op, m)
    BY <1>7 DEF RequestItself, Request, Callers, Operations, Queries
  <2>2. UNCHANGED <<transactional, request, work, lock>>
    BY <2>1 DEF Ask, workerVars
  <2>3. QED
    BY <2>2 DEF LockInv, Querying
<1>8. CASE (\E c \in Callers : TimeOut(c)) \/ (\E k \in Failures : MinutePasses(k))
  <2>1. UNCHANGED <<transactional, request, work, lock>>
    BY <1>8 DEF TimeOut, MinutePasses, workerVars, requestVars
  <2>2. QED
    BY <2>1 DEF LockInv, Querying
<1>9. CASE UNCHANGED processorVars
  BY <1>9 DEF processorVars, workerVars, requestVars, LockInv, Querying
<1>10. QED
  BY <1>1, <1>2, <1>3, <1>4, <1>5, <1>6, <1>7, <1>8, <1>9 DEF ProcessorNext, Serve

LEMMA ProcessorInvHolds == ProcessorSpec => []ProcessorInv
<1>1. ProcessorInv /\ [ProcessorNext]_processorVars => ProcessorInv'
  BY ShapeStep, LockStep DEF ProcessorInv
<1>2. QED
  BY InvInit, <1>1, PTL DEF ProcessorSpec

-----------------------------------------------------------------------------
(* A synchronized hook is called for a request neither while the worker    *)
(* runs a hook under the lock, nor within a transactional pass.            *)
THEOREM HooksExcludeEachOther == ProcessorSpec => []TransactionUndisturbed
<1>1. ProcessorInv => TransactionUndisturbed
  BY DEF ProcessorInv, LockInv, Querying, TransactionUndisturbed, Main, Worker
<1>2. QED
  BY ProcessorInvHolds, <1>1, PTL

-----------------------------------------------------------------------------
(* Message processor: types.                                               *)

(* The requests among the first n, with the message that an operation on   *)
(* the worker's list needs.                                                *)
RequestsUpTo(n) ==
  {r \in [id : 1..n, from : Callers, op : Operations, message : Messages \union {NullMessage},
          pc : {"read", "handle", "reply", "no_reply"}] : r.op \notin Queries => r.message \in Messages}
Works == [pc : {"idle", "next", "run", "ended"}, todo : Seq(Messages),
          message : Messages \union {NullMessage}, success : BOOLEAN]

WorkTypes ==
  /\ work \in Works
  /\ work.pc = "run" => work.message \in Messages
  /\ messages \in Seq(Messages)
  /\ errors \in [Failures -> [Messages -> 0..RecurLimit]]
  /\ quiet \in [Failures -> BOOLEAN]
  /\ lock \in {Nobody, Main, Worker}

RequestTypes ==
  /\ sent \in 0..MaxRequests
  /\ queue \in Seq(RequestsUpTo(sent))
  /\ request \in RequestsUpTo(sent) \union {NoRequest}
  /\ waiting \in [Callers -> 0..sent]

(* Messages beyond the pillar's came with requests that are not pending.   *)
Pending == Len(queue) + (IF request.pc = "read" THEN 1 ELSE 0)
ListBounded == Len(messages) + Pending <= NumMessages + sent

LEMMA RemovalShortens ==
  ASSUME NEW S, NEW s \in Seq(S), NEW e
  PROVE  RemoveFirst(s, e) \in Seq(S) /\ Len(RemoveFirst(s, e)) <= Len(s)
<1>1. CASE ~ \E i \in 1..Len(s) : s[i] = e
  BY <1>1 DEF RemoveFirst
<1>2. CASE \E i \in 1..Len(s) : s[i] = e
  <2> DEFINE I == {i \in 1..Len(s) : s[i] = e}
             first == Min(I)
  <2>1. I \in SUBSET Nat /\ I # {}
    BY <1>2
  <2>2. first \in 1..Len(s)
    BY <2>1, LeastIsMember
  <2>3. RemoveFirst(s, e) = SubSeq(s, 1, first - 1) \o SubSeq(s, first + 1, Len(s))
    BY <1>2 DEF RemoveFirst, RemoveAt, SelectInSeq
  <2> HIDE DEF first
  <2> DEFINE a == SubSeq(s, 1, first - 1)
             b == SubSeq(s, first + 1, Len(s))
  <2>4. a \in Seq(S) /\ Len(a) = first - 1 /\ b \in Seq(S) /\ Len(b) = Len(s) - first
    BY <2>2
  <2>5. RemoveFirst(s, e) = a \o b
    BY <2>3
  <2> HIDE DEF a, b
  <2>6. a \o b \in Seq(S) /\ Len(a \o b) = Len(a) + Len(b)
    BY <2>4
  <2>7. QED
    BY <2>2, <2>4, <2>5, <2>6
<1>3. QED
  BY <1>1, <1>2

LEMMA ProcessorTypesInit == ProcessorInit => WorkTypes /\ RequestTypes /\ ListBounded
<1> SUFFICES ASSUME ProcessorInit PROVE WorkTypes /\ RequestTypes /\ ListBounded
  OBVIOUS
<1>1. RecurLimit \in Nat /\ MaxRequests \in Nat
  BY ProcessorAssumption
<1>2. messages = [m \in 1..NumMessages |-> m] /\ NumMessages \in Nat /\ Messages = 1..NumMessages
  BY ProcessorAssumption DEF ProcessorInit, Messages
<1>3. messages \in Seq(Messages) /\ Len(messages) = NumMessages
  BY <1>2
<1>4. <<>> \in Seq(Messages)
  OBVIOUS
<1>5. NoWork \in Works /\ NoWork.pc = "idle"
  BY <1>4 DEF NoWork, Works
<1>6. NoErrors \in [Failures -> [Messages -> 0..RecurLimit]]
  BY <1>1 DEF NoErrors
<1>7. WorkTypes
  BY <1>3, <1>5, <1>6 DEF ProcessorInit, WorkTypes
<1>8. RequestTypes
  BY <1>1 DEF ProcessorInit, RequestTypes
<1>9. Pending = 0 /\ sent = 0
  BY NoneServed DEF ProcessorInit, Pending
<1>10. QED
  BY <1>2, <1>3, <1>7, <1>8, <1>9 DEF ListBounded

LEMMA WorkKeepsTypes ==
  ASSUME WorkTypes, Work
  PROVE  WorkTypes' /\ UNCHANGED <<messages, requestVars>>
<1>0. /\ work \in Works /\ messages \in Seq(Messages)
      /\ lock \in {Nobody, Main, Worker} /\ quiet \in [Failures -> BOOLEAN]
      /\ errors \in [Failures -> [Messages -> 0..RecurLimit]] /\ RecurLimit \in Nat
  BY ProcessorAssumption DEF WorkTypes
<1>1. UNCHANGED <<messages, requestVars>>
  BY DEF Work, BeginPass, RunMessage, MessageDone, EndPass, MessageFails
<1>2. ASSUME lock' = lock \/ lock' = Nobody \/ lock' = Worker,
             work' \in Works, work'.pc = "run" => work'.message \in Messages,
             errors' \in [Failures -> [Messages -> 0..RecurLimit]],
             quiet' \in [Failures -> BOOLEAN]
      PROVE  WorkTypes'
  BY <1>0, <1>1, <1>2 DEF WorkTypes
<1>3. NoErrors \in [Failures -> [Messages -> 0..RecurLimit]]
  BY <1>0 DEF NoErrors
<1>4. CASE BeginPass
  <2>1. work' \in Works /\ work'.pc = "next"
    BY <1>0, <1>4 DEF BeginPass, NoWork, Works
  <2>2. QED
    BY <1>0, <1>2, <1>4, <2>1 DEF BeginPass
<1>5. CASE RunMessage
  <2>1. work.todo \in Seq(Messages) /\ work.todo # <<>>
    BY <1>0, <1>5 DEF RunMessage, Works
  <2>2. Head(work.todo) \in Messages /\ Tail(work.todo) \in Seq(Messages)
    BY <2>1
  <2>3. work' = [work EXCEPT !.pc = "run", !.todo = Tail(work.todo), !.message = Head(work.todo)]
    BY <1>5 DEF RunMessage
  <2>4. work' \in Works /\ work'.message \in Messages
    BY <1>0, <2>2, <2>3 DEF Works
  <2>5. QED
    BY <1>0, <1>2, <1>5, <2>4 DEF RunMessage
<1>6. CASE MessageDone
  <2>1. work' \in Works /\ work'.pc = "next"
    BY <1>0, <1>6 DEF MessageDone, Works
  <2>2. QED
    BY <1>0, <1>2, <1>6, <2>1 DEF MessageDone, Release
<1>7. CASE EndPass
  <2>1. <<>> \in Seq(Messages)
    OBVIOUS
  <2>2. work' \in Works /\ work'.pc = "idle"
    BY <1>7, <2>1 DEF EndPass, NoWork, Works
  <2>3. QED
    BY <1>0, <1>2, <1>3, <1>7, <2>2 DEF EndPass
<1>8. ASSUME NEW k \in Failures, MessageFails(k)
      PROVE  WorkTypes'
  <2> DEFINE m == work.message
             count == IF errors[k][m] = RecurLimit THEN RecurLimit ELSE errors[k][m] + 1
  <2>1. m \in Messages
    BY <1>8 DEF MessageFails, WorkTypes
  <2>2. errors[k] \in [Messages -> 0..RecurLimit] /\ errors[k][m] \in 0..RecurLimit
    BY <1>0, <2>1
  <2>3. count \in 0..RecurLimit
    BY <1>0, <2>2
  <2>4. errors' = [errors EXCEPT ![k] = [errors[k] EXCEPT ![m] = count]]
    BY <1>8 DEF MessageFails
  <2> HIDE DEF m, count
  <2>5. [errors[k] EXCEPT ![m] = count] \in [Messages -> 0..RecurLimit]
    BY <2>2, <2>3
  <2>6. errors' \in [Failures -> [Messages -> 0..RecurLimit]]
    BY <1>0, <2>4, <2>5
  <2>7. quiet' = [quiet EXCEPT ![k] = TRUE]
    BY <1>8 DEF MessageFails
  <2>8. quiet' \in [Failures -> BOOLEAN]
    BY <1>0, <2>7
  <2>l. lock' = lock \/ lock' = Nobody
    BY <1>8 DEF MessageFails, Release
  <2>9. CASE work' = [NoWork EXCEPT !.pc = IF k = "error" /\ ~suppress THEN "ended" ELSE "idle"]
    <3>1. <<>> \in Seq(Messages)
      OBVIOUS
    <3>2. work' \in Works /\ work'.pc # "run"
      BY <2>9, <3>1 DEF NoWork, Works
    <3>3. QED
      BY <1>0, <1>2, <2>l, <2>6, <2>8, <3>2
  <2>10. CASE work' = [work EXCEPT !.pc = "next", !.message = NullMessage, !.success = FALSE]
    <3>1. work' \in Works /\ work'.pc = "next"
      BY <1>0, <2>10 DEF Works
    <3>2. QED
      BY <1>0, <1>2, <2>l, <2>6, <2>8, <3>1
  <2>11. QED
    BY <1>8, <2>9, <2>10 DEF MessageFails
<1>9. QED
  BY <1>1, <1>4, <1>5, <1>6, <1>7, <1>8 DEF Work

LEMMA MoreRequests ==
  ASSUME NEW n \in Nat
  PROVE  /\ RequestsUpTo(n) \subseteq RequestsUpTo(n + 1)
         /\ \A w \in [Callers -> 0..n] : w \in [Callers -> 0..(n + 1)]
<1>1. 1..n \subseteq 1..(n + 1) /\ 0..n \subseteq 0..(n + 1)
  OBVIOUS
<1>2. QED
  BY <1>1 DEF RequestsUpTo

LEMMA AskKeepsTypes ==
  ASSUME RequestTypes, NEW c \in Callers, NEW op \in Operations,
         NEW m \in Messages \union {NullMessage}, op \notin Queries => m \in Messages, Ask(c, op, m)
  PROVE  /\ RequestTypes' /\ UNCHANGED <<workerVars, messages, lock>>
         /\ ListBounded /\ WorkTypes => ListBounded'
<1> DEFINE n == sent
           new == [id |-> n + 1, from |-> c, op |-> op, message |-> m, pc |-> "read"]
<1>1. n \in Nat /\ n < MaxRequests /\ MaxRequests \in Nat /\ sent' = n + 1
  BY ProcessorAssumption DEF RequestTypes, Ask
<1>2. /\ queue' = Append(queue, new) /\ request' = request
      /\ waiting' = [waiting EXCEPT ![c] = n + 1]
      /\ UNCHANGED <<workerVars, messages, lock>>
  BY DEF Ask
<1>3. new \in RequestsUpTo(n + 1)
  BY <1>1 DEF RequestsUpTo
<1>4. /\ queue \in Seq(RequestsUpTo(n)) /\ request \in RequestsUpTo(n) \union {NoRequest}
      /\ waiting \in [Callers -> 0..n]
  BY DEF RequestTypes
<1> HIDE DEF n, new
<1> DEFINE Now == RequestsUpTo(n)
           Then == RequestsUpTo(n + 1)
<1>5. Now \subseteq Then /\ queue \in Seq(Now) /\ new \in Then
  BY <1>1, <1>3, <1>4, MoreRequests
<1> HIDE DEF Now, Then
<1>6. queue' \in Seq(Then) /\ Len(queue') = Len(queue) + 1
  BY <1>2, <1>5
<1>7. request' \in Then \union {NoRequest}
  BY <1>2, <1>4, <1>5 DEF Now
<1>8. waiting' \in [Callers -> 0..(n + 1)]
  BY <1>1, <1>2, <1>4, MoreRequests
<1>9. RequestTypes'
  BY <1>1, <1>6, <1>7, <1>8 DEF RequestTypes, Then
<1>10. ASSUME ListBounded, WorkTypes PROVE ListBounded'
  <2>1. Len(messages) \in Nat /\ Len(queue) \in Nat
    BY <1>5, <1>10 DEF WorkTypes
  <2>2. QED
    BY <1>1, <1>2, <1>6, <1>10, <2>1, ProcessorAssumption DEF ListBounded, Pending, n
<1>11. QED
  BY <1>2, <1>9, <1>10

LEMMA ServingKeepsTypes ==
  ASSUME RequestTypes, NEW pc \in {"handle", "reply", "no_reply"},
         request.pc # "none", request' = [request EXCEPT !.pc = pc],
         UNCHANGED <<queue, sent, waiting>>
  PROVE  RequestTypes' /\ request'.pc = pc /\ request \in RequestsUpTo(sent)
<1>1. request \in RequestsUpTo(sent)
  BY NoneServed DEF RequestTypes
<1>2. request' \in RequestsUpTo(sent) /\ request'.pc = pc
  BY <1>1 DEF RequestsUpTo
<1>3. QED
  BY <1>1, <1>2 DEF RequestTypes

(* The main thread leaves the lock to itself or to nobody, and the list of *)
(* the worker grows by the message of a request only.                      *)
LEMMA ServeKeepsTypes ==
  ASSUME WorkTypes, RequestTypes, ListBounded, Serve
  PROVE  WorkTypes' /\ RequestTypes' /\ ListBounded'
<1>0. /\ Len(messages) \in Nat /\ sent \in Nat /\ Len(queue) \in Nat
      /\ NumMessages \in Nat /\ Len(messages) + Pending <= NumMessages + sent
  BY ProcessorAssumption DEF WorkTypes, RequestTypes, ListBounded
<1>1. CASE ReadRequest
  <2> DEFINE Now == RequestsUpTo(sent)
  <2>1. /\ queue \in Seq(Now) /\ queue # <<>> /\ request' = Head(queue) /\ queue' = Tail(queue)
        /\ request.pc = "none" /\ UNCHANGED <<workerVars, messages, lock, waiting, sent>>
    BY <1>1, NoneServed DEF ReadRequest, RequestTypes
  <2> HIDE DEF Now
  <2>2. request' \in Now /\ queue' \in Seq(Now) /\ Len(queue') = Len(queue) - 1
    BY <2>1
  <2>3. RequestTypes'
    BY <2>1, <2>2 DEF RequestTypes, Now
  <2>4. WorkTypes'
    BY <2>1 DEF WorkTypes, workerVars
  <2>5. ListBounded'
    BY <1>0, <2>1, <2>2 DEF ListBounded, Pending
  <2>6. QED
    BY <2>3, <2>4, <2>5
<1>2. ASSUME NEW pc, pc = "handle" \/ pc = "reply" \/ pc = "no_reply",
             request.pc \in {"read", "handle"}, request' = [request EXCEPT !.pc = pc],
             UNCHANGED <<workerVars, messages, queue, sent, waiting>>,
             lock' \in {lock, Nobody, Main}
      PROVE  WorkTypes' /\ RequestTypes' /\ ListBounded'
  <2>1. RequestTypes' /\ request'.pc = pc
    BY <1>2, ServingKeepsTypes
  <2>2. WorkTypes'
    BY <1>2 DEF WorkTypes, workerVars
  <2>3. request'.pc # "read" /\ queue' = queue /\ messages' = messages /\ sent' = sent
    BY <1>2, <2>1
  <2>4. Pending' = Len(queue) /\ Pending >= Len(queue) /\ Pending \in Nat
    BY <1>0, <2>3 DEF Pending
  <2>5. ListBounded'
    BY <1>0, <2>3, <2>4 DEF ListBounded
  <2>6. QED
    BY <2>1, <2>2, <2>5
<1>3. CASE Handle
  BY <1>2, <1>3 DEF Handle
<1>4. CASE HandleDone
  <2>1. PICK result \in {"reply", "no_reply"} : request' = [request EXCEPT !.pc = result]
    BY <1>4 DEF HandleDone
  <2>2. QED
    BY <1>2, <1>4, <2>1 DEF HandleDone
<1>5. CASE Enqueue \/ Dequeue
  <2>1. /\ request.pc = "read" /\ request.op \in {"enqueue", "dequeue"}
        /\ request' = [request EXCEPT !.pc = "reply"]
        /\ UNCHANGED <<workerVars, lock, queue, waiting, sent>>
    BY <1>5 DEF Enqueue, Dequeue
  <2>2. RequestTypes' /\ request'.pc = "reply" /\ request \in RequestsUpTo(sent)
    BY <2>1, ServingKeepsTypes
  <2>3. request.message \in Messages
    BY <2>1, <2>2 DEF RequestsUpTo, Queries
  <2>4. \/ messages' = messages
        \/ messages' = Append(messages, request.message)
        \/ messages' = RemoveFirst(messages, request.message)
    BY <1>5 DEF Enqueue, Dequeue
  <2>5. messages' \in Seq(Messages) /\ Len(messages') <= Len(messages) + 1
    <3>1. CASE messages' = messages
      BY <1>0, <3>1 DEF WorkTypes
    <3>2. CASE messages' = Append(messages, request.message)
      BY <2>3, <3>2 DEF WorkTypes
    <3>3. CASE messages' = RemoveFirst(messages, request.message)
      <4>1. messages' \in Seq(Messages) /\ Len(messages') <= Len(messages)
        BY <3>3, RemovalShortens DEF WorkTypes
      <4>2. Len(messages') \in Nat
        BY <4>1
      <4>3. QED
        BY <1>0, <4>1, <4>2
    <3>4. QED
      BY <2>4, <3>1, <3>2, <3>3
  <2>6. WorkTypes'
    BY <2>1, <2>5 DEF WorkTypes, workerVars
  <2>7. Len(messages') \in Nat /\ Pending = Len(queue) + 1 /\ Pending' = Len(queue)
    BY <2>1, <2>2, <2>5, <1>0 DEF Pending
  <2>8. ListBounded'
    BY <1>0, <2>1, <2>5, <2>7 DEF ListBounded
  <2>9. QED
    BY <2>2, <2>6, <2>8
<1>6. CASE Reply
  <2> DEFINE r == request
  <2>1. /\ r.pc \in {"reply", "no_reply"} /\ request' = NoRequest
        /\ UNCHANGED <<workerVars, messages, lock, queue, sent>>
        /\ waiting' = waiting \/ waiting' = [waiting EXCEPT ![r.from] = 0]
    BY <1>6 DEF Reply
  <2>2. r \in RequestsUpTo(sent)
    BY <2>1, NoneServed DEF RequestTypes
  <2>3. r.from \in Callers /\ r.id \in 1..sent
    BY <2>2 DEF RequestsUpTo
  <2>4. request.pc # "read" /\ request'.pc # "read"
    BY <2>1, NoneServed
  <2> HIDE DEF r
  <2> DEFINE values == 0..sent
  <2>5. waiting \in [Callers -> values] /\ 0 \in values
    BY <1>0, <2>3 DEF RequestTypes
  <2> HIDE DEF values
  <2>6. waiting' \in [Callers -> values]
    BY <2>1, <2>3, <2>5
  <2>7. RequestTypes'
    BY <2>1, <2>6 DEF RequestTypes, values
  <2>8. WorkTypes'
    BY <2>1 DEF WorkTypes, workerVars
  <2>9. UNCHANGED <<messages, queue, sent>>
    BY <2>1
  <2>10. ListBounded'
    BY <1>0, <2>4, <2>9 DEF ListBounded, Pending
  <2>11. QED
    BY <2>7, <2>8, <2>10
<1>7. QED
  BY <1>1, <1>3, <1>4, <1>5, <1>6 DEF Serve

LEMMA ProcessorTypesStep ==
  WorkTypes /\ RequestTypes /\ ListBounded /\ [ProcessorNext]_processorVars
    => WorkTypes' /\ RequestTypes' /\ ListBounded'
<1> SUFFICES ASSUME WorkTypes, RequestTypes, ListBounded, [ProcessorNext]_processorVars
             PROVE  WorkTypes' /\ RequestTypes' /\ ListBounded'
  OBVIOUS
<1>1. CASE Work
  <2>1. WorkTypes' /\ UNCHANGED <<messages, requestVars>>
    BY <1>1, WorkKeepsTypes
  <2>2. QED
    BY <2>1 DEF requestVars, RequestTypes, ListBounded, Pending
<1>2. CASE Serve
  BY <1>2, ServeKeepsTypes
<1>3. CASE RequestItself \/ \E c \in Clients : Request(c)
  <2>1. PICK c \in Callers, op \in Operations, m \in Messages \union {NullMessage} :
          Ask(c, op, m) /\ (op \notin Queries => m \in Messages)
    BY <1>3 DEF RequestItself, Request, Callers, Operations, Queries
  <2>2. RequestTypes' /\ ListBounded' /\ UNCHANGED <<workerVars, messages, lock>>
    BY <2>1, AskKeepsTypes
  <2>3. QED
    BY <2>2 DEF WorkTypes, workerVars
<1>4. ASSUME NEW c \in Callers, TimeOut(c)
      PROVE  WorkTypes' /\ RequestTypes' /\ ListBounded'
  <2>1. /\ waiting' = [waiting EXCEPT ![c] = 0]
        /\ UNCHANGED <<workerVars, messages, lock, queue, request, sent>>
    BY <1>4 DEF TimeOut
  <2>2. sent \in Nat /\ waiting \in [Callers -> 0..sent]
    BY ProcessorAssumption DEF RequestTypes
  <2>3. waiting' \in [Callers -> 0..sent]
    BY <2>1, <2>2
  <2>4. QED
    BY <2>1, <2>3 DEF workerVars, WorkTypes, RequestTypes, ListBounded, Pending
<1>5. ASSUME NEW k \in Failures, MinutePasses(k)
      PROVE  WorkTypes' /\ RequestTypes' /\ ListBounded'
  <2>1. /\ quiet' = [quiet EXCEPT ![k] = FALSE]
        /\ UNCHANGED <<work, errors, messages, lock, requestVars>>
    BY <1>5 DEF MinutePasses
  <2>2. quiet' \in [Failures -> BOOLEAN]
    BY <2>1 DEF WorkTypes
  <2>3. QED
    BY <2>1, <2>2 DEF requestVars, WorkTypes, RequestTypes, ListBounded, Pending
<1>6. CASE UNCHANGED processorVars
  BY <1>6 DEF processorVars, workerVars, requestVars, WorkTypes, RequestTypes, ListBounded, Pending
<1>7. QED
  BY <1>1, <1>2, <1>3, <1>4, <1>5, <1>6 DEF ProcessorNext

(* The processor keeps its types.  In particular the worker's list holds   *)
(* no more messages than the pillar lists and requests enqueue, whatever   *)
(* is dequeued, and the lock is the main thread's exactly while it calls a *)
(* synchronized hook.                                                      *)
THEOREM ProcessorTypes == ProcessorSpec => []ProcessorTypeOK
<1>1. WorkTypes /\ RequestTypes /\ ListBounded /\ ProcessorInv => ProcessorTypeOK
  <2> SUFFICES ASSUME WorkTypes, RequestTypes, ListBounded, ProcessorInv PROVE ProcessorTypeOK
    OBVIOUS
  <2> DEFINE Now == RequestsUpTo(sent)
  <2>1. Now \subseteq Requests
    BY DEF RequestsUpTo, Requests
  <2>2. queue \in Seq(Now) /\ request \in Now \union {NoRequest}
    BY DEF RequestTypes
  <2> HIDE DEF Now
  <2>3. queue \in Seq(Requests) /\ request \in Requests \union {NoRequest}
    BY <2>1, <2>2
  <2>4. Len(messages) <= NumMessages + sent
    <3>1. /\ Len(messages) \in Nat /\ Len(queue) \in Nat /\ sent \in Nat /\ NumMessages \in Nat
      BY <2>2, ProcessorAssumption DEF WorkTypes, RequestTypes
    <3>2. QED
      BY <3>1 DEF ListBounded, Pending
  <2>5. QED
    BY <2>3, <2>4 DEF WorkTypes, RequestTypes, ProcessorInv, LockInv, Querying, ProcessorTypeOK, Works
<1>2. QED
  BY <1>1, ProcessorInvHolds, ProcessorTypesInit, ProcessorTypesStep, PTL DEF ProcessorSpec

-----------------------------------------------------------------------------
(* OBD logs. *)

Steps == {"idle", "scan", "remove", "truncate", "dump", "return"}
Progresses == [LogFiles -> ProgressType]
LogLines == LogFiles \X Nat
Jobs == [pc : Steps, progress : Progresses, todo : SUBSET LogFiles, file : 0..NumLogs,
         count : 0..Limit, values : SUBSET LogLines, raised : BOOLEAN]

(* A log that is written to has a file, and one that is removed a name.    *)
FilesInv ==
  /\ logs \subseteq 1..output
  /\ exporter = "running" => output # 0
  /\ \A i \in Importers : job[i].pc = "remove" => job[i].file # 0

(* The progress of a file stays within it, and the size looked at ends     *)
(* within the first line that was not read.                                *)
Fits(p, sizes) ==
  \A f \in LogFiles : p[f].offset <= sizes[f] \div 2 /\ p[f].size <= 2 * p[f].offset + 1

FitInv == Fits(metadata, size) /\ \A i \in Importers : Fits(job[i].progress, size)

LogsInv == LogsTypeOK /\ FilesInv /\ FitInv

-----------------------------------------------------------------------------
(* Halves and files.                                                       *)

LEMMA Halves ==
  ASSUME NEW n \in Nat
  PROVE  /\ n \div 2 \in Nat /\ n % 2 \in {0, 1}
         /\ n = 2 * (n \div 2) + (n % 2)
  BY SMT

LEMMA MinOfLines ==
  ASSUME NEW a \in Nat, NEW b \in Nat
  PROVE  Min({a, b}) \in {a, b} /\ Min({a, b}) <= a /\ Min({a, b}) <= b
<1>1. \E x \in {a, b} : \A y \in {a, b} : x <= y
  OBVIOUS
<1>2. Min({a, b}) \in {a, b} /\ \A y \in {a, b} : Min({a, b}) <= y
  BY <1>1 DEF Min
<1>3. QED
  BY <1>2

LEMMA MaxOfSizes ==
  ASSUME NEW a \in Nat, NEW b \in Nat
  PROVE  Max({a, b}) \in {a, b} /\ Max({a, b}) >= a /\ Max({a, b}) >= b
<1>1. \E x \in {a, b} : \A y \in {a, b} : x >= y
  OBVIOUS
<1>2. Max({a, b}) \in {a, b} /\ \A y \in {a, b} : Max({a, b}) >= y
  BY <1>1 DEF Max
<1>3. QED
  BY <1>2

(* Of the files that are left there is an oldest one. *)
-----------------------------------------------------------------------------
(* The jobs of the importers.                                              *)

LEMMA Constants == NumLogs \in Nat /\ LogSize \in Nat /\ Limit \in Nat \ {0} /\ MaxCrashes \in Nat
  BY LogAssumption

LEMMA NoProgressType == NoProgress \in ProgressType /\ NoProgress.offset = 0 /\ NoProgress.size = 0
  BY DEF NoProgress, ProgressType

LEMMA ForgottenType ==
  /\ Forgotten \in Progresses
  /\ \A f \in LogFiles : Forgotten[f] = NoProgress
  BY NoProgressType DEF Forgotten, Progresses

LEMMA NoJobType ==
  /\ NoJob \in Jobs /\ NoJob.pc = "idle" /\ NoJob.progress = Forgotten /\ NoJob.todo = {}
  /\ NoJob.values = {} /\ NoJob.count = 0 /\ ~NoJob.raised
<1> DEFINE p == Forgotten
<1>1. p \in Progresses
  BY ForgottenType
<1>2. NoJob = [pc |-> "idle", progress |-> p, todo |-> {}, file |-> 0, count |-> 0,
               values |-> {}, raised |-> FALSE]
  BY DEF NoJob
<1> HIDE DEF p
<1>3. QED
  BY <1>1, <1>2, Constants DEF Jobs, Steps, p

(* One importer's job changes and the others' do not. *)
LEMMA JobChanges ==
  ASSUME job \in [Importers -> Jobs], NEW i \in Importers, NEW r \in Jobs,
         job' = [job EXCEPT ![i] = r]
  PROVE  /\ job' \in [Importers -> Jobs]
         /\ job'[i] = r
         /\ \A k \in Importers \ {i} : job'[k] = job[k]
  OBVIOUS

(* What fits a log fits it when it has grown. *)
LEMMA FitsGrown ==
  ASSUME NEW p \in Progresses, NEW s \in [LogFiles -> Nat], NEW t \in [LogFiles -> Nat],
         \A f \in LogFiles : s[f] <= t[f], Fits(p, s)
  PROVE  Fits(p, t)
<1> SUFFICES ASSUME NEW f \in LogFiles
             PROVE  p[f].offset <= t[f] \div 2 /\ p[f].size <= 2 * p[f].offset + 1
  BY DEF Fits
<1>1. p[f].offset \in Nat /\ p[f].offset <= s[f] \div 2 /\ p[f].size <= 2 * p[f].offset + 1
  BY DEF Fits, Progresses, ProgressType
<1>2. s[f] \in Nat /\ t[f] \in Nat /\ s[f] <= t[f]
  OBVIOUS
<1>3. s[f] \div 2 <= t[f] \div 2
  BY <1>2, Halves
<1>4. s[f] \div 2 \in Nat /\ t[f] \div 2 \in Nat
  BY <1>2, Halves
<1>5. QED
  BY <1>1, <1>3, <1>4

(* So does progress of which some was forgotten. *)
LEMMA FitsForgotten ==
  ASSUME NEW p, NEW q, NEW s \in [LogFiles -> Nat], Fits(p, s),
         \A f \in LogFiles : q[f] = p[f] \/ q[f] = NoProgress
  PROVE  Fits(q, s)
<1> SUFFICES ASSUME NEW f \in LogFiles, q[f] = NoProgress
             PROVE  q[f].offset <= s[f] \div 2 /\ q[f].size <= 2 * q[f].offset + 1
  BY DEF Fits
<1>1. q[f].offset = 0 /\ q[f].size = 0
  BY NoProgressType
<1>2. s[f] \div 2 \in Nat
  BY Halves
<1>3. QED
  BY <1>1, <1>2

LEMMA NothingFits ==
  ASSUME NEW s \in [LogFiles -> Nat]
  PROVE  Fits(Forgotten, s)
<1> SUFFICES ASSUME NEW f \in LogFiles
             PROVE  Forgotten[f].offset <= s[f] \div 2 /\ Forgotten[f].size <= 2 * Forgotten[f].offset + 1
  BY DEF Fits
<1>1. Forgotten[f].offset = 0 /\ Forgotten[f].size = 0
  BY ForgottenType, NoProgressType
<1>2. s[f] \div 2 \in Nat
  BY Halves
<1>3. QED
  BY <1>1, <1>2

-----------------------------------------------------------------------------
(* What one read makes of a job.                                           *)

(* The lines that are taken of f, and what the next time will begin with. *)
LinesTaken(j, f) == {<<f, n>> : n \in (j.progress[f].offset + 1)..Upto(j, f)}

LEMMA ReadIsWhole ==
  ASSUME NEW j \in Jobs, NEW f \in LogFiles, size \in [LogFiles -> 0..LogSize],
         Fits(j.progress, size)
  PROVE  /\ Upto(j, f) \in Nat
         /\ j.progress[f].offset <= Upto(j, f) /\ Upto(j, f) <= LinesIn(f)
         /\ j.count + Taken(j, f) \in 0..Limit
         /\ j.count + Taken(j, f) < Limit => Upto(j, f) = LinesIn(f)
<1> DEFINE o == j.progress[f].offset
<1>1. o \in Nat /\ j.count \in 0..Limit
  BY DEF Jobs, Progresses, ProgressType
<1>2. size[f] \in Nat /\ LinesIn(f) \in Nat
  BY Halves, Constants DEF LinesIn
<1>3. o <= LinesIn(f)
  BY DEF Fits, LinesIn
<1> DEFINE a == LinesIn(f) - o  b == Limit - j.count
<1>4. a \in Nat /\ b \in Nat
  BY <1>1, <1>2, <1>3, Constants
<1> HIDE DEF a, b
<1>5. Min({a, b}) \in {a, b} /\ Min({a, b}) <= a /\ Min({a, b}) <= b
  BY <1>4, MinOfLines
<1>6. Taken(j, f) = Min({a, b})
  BY DEF Taken, a, b
<1> HIDE DEF o
<1>7. Upto(j, f) = o + Taken(j, f)
  BY DEF Upto, o
<1>8. QED
  BY <1>1, <1>2, <1>3, <1>4, <1>5, <1>6, <1>7, Constants DEF a, b, o

LEMMA NextTimeFits ==
  ASSUME NEW j \in Jobs, NEW f \in LogFiles, size \in [LogFiles -> 0..LogSize],
         Fits(j.progress, size)
  PROVE  /\ NextTime(j, f) \in ProgressType
         /\ NextTime(j, f).offset = Upto(j, f)
         /\ NextTime(j, f).size <= 2 * Upto(j, f) + 1
<1> DEFINE partly == j.count + Taken(j, f) < Limit /\ size[f] % 2 = 1
           seen == IF partly THEN size[f] ELSE j.progress[f].size
           u == Upto(j, f)
<1>1. u \in Nat /\ j.progress[f].offset <= u /\ (partly => u = LinesIn(f))
  BY ReadIsWhole
<1>2. NextTime(j, f) = [offset |-> u, size |-> Max({seen, 2 * u}), stamped |-> TRUE]
  BY DEF NextTime
<1>3. /\ j.progress[f].size \in Nat /\ j.progress[f].offset \in Nat
      /\ j.progress[f].size <= 2 * j.progress[f].offset + 1
  BY DEF Jobs, Progresses, ProgressType, Fits
<1>4. size[f] \in Nat
  BY Constants
<1> HIDE DEF u
<1>5. seen \in Nat /\ seen <= 2 * u + 1
  <2>1. CASE partly
    <3>1. size[f] = 2 * u + 1
      BY <1>1, <1>4, <2>1, Halves DEF LinesIn
    <3>2. QED
      BY <1>4, <2>1, <3>1
  <2>2. CASE ~partly
    BY <1>1, <1>3, <2>2
  <2>3. QED
    BY <2>1, <2>2
<1> HIDE DEF seen
<1>6. 2 * u \in Nat
  BY <1>1
<1>7. Max({seen, 2 * u}) \in {seen, 2 * u}
  BY <1>5, <1>6, MaxOfSizes
<1>8. Max({seen, 2 * u}) \in Nat /\ Max({seen, 2 * u}) <= 2 * u + 1
  BY <1>1, <1>5, <1>6, <1>7
<1>9. QED
  BY <1>1, <1>2, <1>8 DEF ProgressType, u

LEMMA ReadKeepsTypes ==
  ASSUME NEW j \in Jobs, NEW f \in LogFiles, size \in [LogFiles -> 0..LogSize],
         Fits(j.progress, size)
  PROVE  /\ Read(j, f) \in Jobs
         /\ Read(j, f).pc = j.pc /\ Read(j, f).todo = j.todo \ {f} /\ Read(j, f).file = j.file
         /\ Read(j, f).values = j.values \union LinesTaken(j, f)
         /\ Read(j, f).progress[f] = NextTime(j, f)
         /\ \A g \in LogFiles \ {f} : Read(j, f).progress[g] = j.progress[g]
         /\ Fits(Read(j, f).progress, size)
<1> DEFINE n == NextTime(j, f)  c == j.count + Taken(j, f)  v == j.values \union LinesTaken(j, f)
           p == [j.progress EXCEPT ![f] = n]
<1>1. n \in ProgressType /\ n.offset = Upto(j, f) /\ n.size <= 2 * Upto(j, f) + 1
  BY NextTimeFits
<1>2. c \in 0..Limit
  BY ReadIsWhole
<1>3. v \in SUBSET LogLines
  <2>1. \A m \in (j.progress[f].offset + 1)..Upto(j, f) : m \in Nat
    BY ReadIsWhole DEF Jobs, Progresses, ProgressType
  <2>2. j.values \in SUBSET LogLines
    BY DEF Jobs
  <2>3. QED
    BY <2>1, <2>2 DEF LinesTaken, LogLines
<1>4. j.progress \in Progresses
  BY DEF Jobs
<1> HIDE DEF n
<1>5. p \in Progresses /\ p[f] = n /\ \A g \in LogFiles \ {f} : p[g] = j.progress[g]
  BY <1>1, <1>4 DEF Progresses
<1>6. Read(j, f) = [j EXCEPT !.count = c, !.values = v, !.progress = p, !.todo = @ \ {f}]
  BY DEF Read, LinesTaken, n, Jobs
<1> HIDE DEF c, v, p
<1>7. /\ Read(j, f) \in Jobs
      /\ Read(j, f).pc = j.pc /\ Read(j, f).todo = j.todo \ {f} /\ Read(j, f).file = j.file
      /\ Read(j, f).values = v /\ Read(j, f).progress = p
  BY <1>2, <1>3, <1>5, <1>6 DEF Jobs
<1>8. Fits(p, size)
  <2>1. Upto(j, f) <= size[f] \div 2
    BY ReadIsWhole DEF LinesIn
  <2>2. QED
    BY <1>1, <1>5, <2>1 DEF Fits
<1>9. QED
  BY <1>5, <1>7, <1>8 DEF v, n

-----------------------------------------------------------------------------
(* Types.                                                                  *)

LEMMA LogsTypes ==
  ASSUME LogsTypeOK
  PROVE  /\ logs \subseteq LogFiles /\ size \in [LogFiles -> 0..LogSize] /\ size \in [LogFiles -> Nat]
         /\ exporter \in {"none", "running", "exited"} /\ output \in 0..NumLogs
         /\ metadata \in Progresses /\ job \in [Importers -> Jobs]
         /\ delivered \subseteq LogLines /\ doubled \subseteq LogLines /\ dropped \subseteq LogLines
         /\ torn \in BOOLEAN /\ crashes \in 0..MaxCrashes
<1>1. size \in [LogFiles -> Nat]
  BY Constants DEF LogsTypeOK
<1>2. QED
  BY <1>1 DEF LogsTypeOK, Progresses, Jobs, Steps, LogLines

(* The steps of an importer: its job becomes another one, files may be     *)
(* removed and the progress saved, and lines are returned or dropped.      *)
JobBecomes(i, r) ==
  /\ r \in Jobs /\ Fits(r.progress, size)
  /\ r.pc = "remove" => r.file # 0
  /\ job' = [job EXCEPT ![i] = r]

LEMMA ImportKeepsInv ==
  ASSUME LogsInv, NEW i \in Importers, NEW r, JobBecomes(i, r),
         logs' \subseteq logs, UNCHANGED <<size, exporter, output, torn, crashes>>,
         metadata' \in Progresses, Fits(metadata', size),
         delivered' \subseteq LogLines, doubled' \subseteq LogLines, dropped' \subseteq LogLines
  PROVE  LogsInv'
<1>1. job \in [Importers -> Jobs]
  BY LogsTypes DEF LogsInv
<1>2. /\ job' \in [Importers -> Jobs] /\ job'[i] = r
      /\ \A k \in Importers \ {i} : job'[k] = job[k]
  BY <1>1, JobChanges DEF JobBecomes
<1>3. LogsTypeOK'
  BY <1>2, LogsTypes DEF LogsInv, LogsTypeOK, Progresses, Jobs, Steps, LogLines
<1>4. FilesInv'
  BY <1>2 DEF LogsInv, FilesInv, JobBecomes
<1>5. FitInv'
  BY <1>2 DEF LogsInv, FitInv, JobBecomes
<1>6. QED
  BY <1>3, <1>4, <1>5 DEF LogsInv

LEMMA LogsInvInit == LogsInit => LogsInv
<1> SUFFICES ASSUME LogsInit
             PROVE  LogsInv
  OBVIOUS
<1>1. size \in [LogFiles -> 0..LogSize] /\ size \in [LogFiles -> Nat]
  BY Constants DEF LogsInit
<1>2. metadata \in Progresses /\ job \in [Importers -> Jobs]
  BY ForgottenType, NoJobType DEF LogsInit
<1>3. LogsTypeOK
  <2>1. output \in 0..NumLogs /\ crashes \in 0..MaxCrashes
    BY Constants DEF LogsInit
  <2>2. logs \subseteq LogFiles /\ exporter \in {"none", "running", "exited"} /\ torn \in BOOLEAN
        /\ {delivered, doubled, dropped} \subseteq SUBSET LogLines
    BY DEF LogsInit
  <2>3. QED
    BY <1>1, <1>2, <2>1, <2>2 DEF LogsTypeOK, Progresses, Jobs, Steps, LogLines
<1>4. FilesInv
  BY NoJobType DEF LogsInit, FilesInv
<1>5. Fits(metadata, size) /\ \A i \in Importers : Fits(job[i].progress, size)
  <2>1. Fits(Forgotten, size)
    BY <1>1, NothingFits
  <2>2. QED
    BY <2>1, NoJobType DEF LogsInit
<1>6. QED
  BY <1>3, <1>4, <1>5 DEF LogsInv, FitInv

(* stn-dump, whose logs only grow. *)
LEMMA ExportKeepsInv ==
  ASSUME LogsInv, StartExport \/ WriteLog \/ ExporterEnds \/ ReapExport
  PROVE  LogsInv'
<1>1. /\ logs \subseteq LogFiles /\ size \in [LogFiles -> 0..LogSize] /\ size \in [LogFiles -> Nat]
      /\ output \in 0..NumLogs /\ metadata \in Progresses /\ job \in [Importers -> Jobs]
      /\ exporter = "running" => output # 0
  BY LogsTypes DEF LogsInv, FilesInv
<1>2. CASE WriteLog
  <2>1. output \in LogFiles /\ size[output] < LogSize /\ size[output] \in Nat
    BY <1>1, <1>2, Constants DEF WriteLog, LogFiles
  <2>2. size' = [size EXCEPT ![output] = size[output] + 1]
    BY <1>2 DEF WriteLog
  <2>3. size' \in [LogFiles -> 0..LogSize]
    BY <1>1, <2>1, <2>2, Constants
  <2>4. size' \in [LogFiles -> Nat] /\ \A f \in LogFiles : size[f] <= size'[f]
    BY <1>1, <2>1, <2>2, Constants
  <2>5. LogsTypeOK'
    BY <1>2, <2>3 DEF WriteLog, LogsInv, LogsTypeOK, returned
  <2>6. FilesInv'
    BY <1>2 DEF WriteLog, LogsInv, FilesInv, returned
  <2>7. Fits(metadata, size') /\ \A i \in Importers : Fits(job[i].progress, size')
    <3>1. Fits(metadata, size) /\ \A i \in Importers : Fits(job[i].progress, size)
      BY DEF LogsInv, FitInv
    <3>2. \A i \in Importers : job[i].progress \in Progresses
      BY <1>1 DEF Jobs
    <3>3. QED
      BY <1>1, <2>4, <3>1, <3>2, FitsGrown
  <2>8. QED
    BY <1>2, <2>5, <2>6, <2>7 DEF WriteLog, LogsInv, FitInv, returned
<1>3. CASE StartExport
  <2>1. PICK f \in {output, output + 1} \intersect LogFiles :
          output' = f /\ logs' = logs \union {f}
    BY <1>3 DEF StartExport
  <2>2. /\ output' \in 1..NumLogs /\ exporter' = "running" /\ logs' \subseteq LogFiles
        /\ UNCHANGED <<size, metadata, job, returned>>
    BY <1>1, <1>3, <2>1 DEF StartExport, LogFiles
  <2>3. logs' \subseteq 1..output'
    <3>1. logs \subseteq 1..output
      BY DEF LogsInv, FilesInv
    <3>2. QED
      BY <1>1, <2>1, <2>2, <3>1, Constants
  <2>4. LogsTypeOK'
    BY <2>2, Constants DEF LogsInv, LogsTypeOK, returned
  <2>5. FilesInv' /\ FitInv'
    BY <2>2, <2>3, Constants DEF LogsInv, FilesInv, FitInv
  <2>6. QED
    BY <2>4, <2>5 DEF LogsInv
<1>4. CASE ExporterEnds \/ ReapExport
  <2>1. exporter' \in {"none", "exited"} /\ UNCHANGED <<logs, size, output, metadata, job, returned>>
    BY <1>4 DEF ExporterEnds, ReapExport
  <2>2. LogsTypeOK'
    BY <2>1 DEF LogsInv, LogsTypeOK, returned
  <2>3. FilesInv' /\ FitInv'
    BY <2>1 DEF LogsInv, FilesInv, FitInv
  <2>4. QED
    BY <2>2, <2>3 DEF LogsInv
<1>5. QED
  BY <1>2, <1>3, <1>4

(* What the steps of an importer make of its job. *)
LEMMA StartBecomes ==
  ASSUME LogsInv, NEW i \in Importers, StartImport(i)
  PROVE  \E r : /\ JobBecomes(i, r) /\ r.pc = "scan" /\ r.values = {} /\ r.todo = logs
                /\ \A f \in LogFiles : r.progress[f] = metadata[f] \/ r.progress[f] = NoProgress
                /\ \A f \in logs : r.progress[f] = metadata[f]
<1> DEFINE p == [f \in LogFiles |-> IF f \in logs THEN metadata[f] ELSE NoProgress]
           r == [NoJob EXCEPT !.pc = "scan", !.todo = logs, !.progress = p]
<1>1. /\ logs \subseteq LogFiles /\ metadata \in Progresses /\ size \in [LogFiles -> Nat]
      /\ Fits(metadata, size)
  BY LogsTypes DEF LogsInv, FitInv
<1>2. /\ p \in Progresses
      /\ \A f \in LogFiles : p[f] = metadata[f] \/ p[f] = NoProgress
      /\ \A f \in logs : p[f] = metadata[f]
  BY <1>1, NoProgressType DEF Progresses
<1> HIDE DEF p
<1>3. /\ r \in Jobs /\ r.pc = "scan" /\ r.values = {} /\ r.todo = logs /\ r.progress = p
  BY <1>1, <1>2, NoJobType DEF Jobs, Steps
<1>4. Fits(p, size)
  BY <1>1, <1>2, FitsForgotten
<1>5. job' = [job EXCEPT ![i] = r]
  BY DEF StartImport, p
<1> HIDE DEF r
<1>6. JobBecomes(i, r)
  BY <1>3, <1>4, <1>5 DEF JobBecomes
<1>7. QED
  BY <1>2, <1>3, <1>6

(* A step of the pass over the files reads lines, chooses a file that has  *)
(* no more, or leaves the values and the progress alone.                   *)
Reads(i, r, f) ==
  /\ f \in logs /\ f \in job[i].todo
  /\ r = Read(job[i], f)

Chooses(i, r, f) ==
  /\ f \in logs /\ f \in job[i].todo /\ ~HasMore(job[i], f)
  /\ r.pc = "remove" /\ r.file = f
  /\ r.progress = job[i].progress /\ r.values = job[i].values

Passes(i, r) ==
  /\ r.pc \in {"scan", "truncate"}
  /\ r.progress = job[i].progress /\ r.values = job[i].values

LEMMA PassBecomes ==
  ASSUME LogsInv, NEW i \in Importers, ImportLog(i)
  PROVE  /\ job[i].pc = "scan"
         /\ \E r : /\ JobBecomes(i, r)
                   /\ Passes(i, r) \/ \E f \in LogFiles : Reads(i, r, f) \/ Chooses(i, r, f)
<1> DEFINE j == job[i]  f == Min(j.todo)  skipped == [j EXCEPT !.todo = @ \ {f}]
<1>1. /\ j \in Jobs /\ Fits(j.progress, size) /\ size \in [LogFiles -> 0..LogSize]
      /\ j.pc = "scan" /\ j.todo # {}
  BY LogsTypes DEF LogsInv, FitInv, ImportLog
<1>2. f \in j.todo /\ f \in LogFiles
  BY <1>1, LeastIsMember, LogAssumption DEF Jobs, LogFiles
<1> HIDE DEF j, f
<1>3. /\ skipped \in Jobs /\ skipped.pc = "scan"
      /\ skipped.progress = j.progress /\ skipped.values = j.values
  BY <1>1 DEF Jobs
<1>4. f \in 0..NumLogs /\ f # 0
  BY <1>2, Constants DEF LogFiles
<1> DEFINE raises == [j EXCEPT !.pc = "truncate", !.raised = TRUE]
           chosen == [skipped EXCEPT !.pc = "remove", !.file = f]
<1>5. \/ job' = [job EXCEPT ![i] = raises]
      \/ f \in logs /\ job' = [job EXCEPT ![i] = Read(j, f)]
      \/ job' = [job EXCEPT ![i] = skipped]
      \/ f \in logs /\ ~HasMore(j, f) /\ job' = [job EXCEPT ![i] = chosen]
  BY DEF ImportLog, j, f
<1>6. /\ raises \in Jobs /\ raises.pc = "truncate"
      /\ raises.progress = j.progress /\ raises.values = j.values
  BY <1>1 DEF Jobs, Steps
<1> HIDE DEF skipped
<1>7. /\ chosen \in Jobs /\ chosen.pc = "remove" /\ chosen.file = f
      /\ chosen.progress = j.progress /\ chosen.values = j.values
  BY <1>3, <1>4 DEF Jobs, Steps
<1> HIDE DEF raises, chosen
<1>8. CASE job' = [job EXCEPT ![i] = raises]
  BY <1>1, <1>6, <1>8 DEF JobBecomes, Passes, j
<1>9. CASE f \in logs /\ job' = [job EXCEPT ![i] = Read(j, f)]
  <2>1. JobBecomes(i, Read(j, f))
    BY <1>1, <1>2, <1>9, ReadKeepsTypes DEF JobBecomes
  <2>2. Reads(i, Read(j, f), f)
    BY <1>2, <1>9 DEF Reads, j
  <2>3. QED
    BY <1>1, <1>2, <2>1, <2>2 DEF j
<1>10. CASE job' = [job EXCEPT ![i] = skipped]
  BY <1>1, <1>3, <1>10 DEF JobBecomes, Passes, j
<1>11. CASE f \in logs /\ ~HasMore(j, f) /\ job' = [job EXCEPT ![i] = chosen]
  <2>1. JobBecomes(i, chosen)
    BY <1>1, <1>4, <1>7, <1>11 DEF JobBecomes
  <2>2. Chooses(i, chosen, f)
    BY <1>2, <1>7, <1>11 DEF Chooses, j
  <2>3. QED
    BY <1>1, <1>2, <2>1, <2>2 DEF j
<1>12. QED
  BY <1>5, <1>8, <1>9, <1>10, <1>11

LEMMA RemoveBecomes ==
  ASSUME LogsInv, NEW i \in Importers, RemoveLog(i)
  PROVE  /\ job[i].pc = "remove"
         /\ \E r : /\ JobBecomes(i, r) /\ r.pc = "scan" /\ r.values = job[i].values
                   /\ \A f \in LogFiles : r.progress[f] = job[i].progress[f] \/ r.progress[f] = NoProgress
                   /\ \A f \in logs' : r.progress[f] = job[i].progress[f]
<1> DEFINE j == job[i]
           p == [j.progress EXCEPT ![j.file] = IF j.file \in logs THEN NoProgress ELSE @]
           r == [j EXCEPT !.pc = "scan", !.file = 0, !.progress = p]
<1>1. /\ j \in Jobs /\ Fits(j.progress, size) /\ size \in [LogFiles -> Nat]
      /\ j.pc = "remove" /\ j.file # 0 /\ logs' = logs \ {j.file} /\ logs \subseteq LogFiles
  BY LogsTypes DEF LogsInv, FitInv, FilesInv, RemoveLog
<1>2. j.file \in LogFiles /\ j.progress \in Progresses
  BY <1>1, Constants DEF Jobs, LogFiles
<1>3. job' = [job EXCEPT ![i] = r]
  BY DEF RemoveLog
<1> HIDE DEF j
<1>4. /\ p \in Progresses
      /\ \A f \in LogFiles : p[f] = j.progress[f] \/ p[f] = NoProgress
      /\ \A f \in logs' : p[f] = j.progress[f]
  BY <1>1, <1>2, NoProgressType DEF Progresses
<1> HIDE DEF p
<1>5. r \in Jobs /\ r.pc = "scan" /\ r.values = j.values /\ r.progress = p
  <2>1. 0 \in 0..NumLogs /\ "scan" \in Steps /\ p \in Progresses /\ j \in Jobs
    BY <1>1, <1>4, Constants DEF Steps
  <2>2. QED
    BY <2>1 DEF Jobs
<1>6. Fits(p, size)
  BY <1>1, <1>4, FitsForgotten
<1> HIDE DEF r
<1>7. JobBecomes(i, r)
  BY <1>3, <1>5, <1>6 DEF JobBecomes
<1>8. QED
  BY <1>1, <1>4, <1>5, <1>7 DEF j

LEMMA SaveBecomes ==
  ASSUME LogsInv, NEW i \in Importers, EndScan(i) \/ TruncateMetadata(i) \/ DumpMetadata(i)
  PROVE  \E r : /\ JobBecomes(i, r)
                /\ r.values = job[i].values /\ r.progress = job[i].progress
                /\ \/ job[i].pc = "scan" /\ r.pc = "truncate" /\ UNCHANGED metadata
                   \/ job[i].pc = "truncate" /\ r.pc = "dump" /\ metadata' = Forgotten
                   \/ job[i].pc = "dump" /\ r.pc = "return" /\ metadata' = job[i].progress
<1>1. /\ job[i] \in Jobs /\ Fits(job[i].progress, size)
  BY LogsTypes DEF LogsInv, FitInv
<1>2. ASSUME NEW to \in Steps \ {"remove"}
      PROVE  /\ [job[i] EXCEPT !.pc = to] \in Jobs
             /\ [job[i] EXCEPT !.pc = to].pc = to
             /\ [job[i] EXCEPT !.pc = to].values = job[i].values
             /\ [job[i] EXCEPT !.pc = to].progress = job[i].progress
  BY <1>1 DEF Jobs
<1>3. ASSUME NEW to \in Steps \ {"remove"}, job' = [job EXCEPT ![i].pc = to]
      PROVE  JobBecomes(i, [job[i] EXCEPT !.pc = to])
  BY <1>1, <1>2, <1>3 DEF JobBecomes
<1>4. {"truncate", "dump", "return"} \subseteq Steps \ {"remove"}
  BY DEF Steps
<1>5. CASE EndScan(i)
  BY <1>2, <1>3, <1>4, <1>5 DEF EndScan
<1>6. CASE TruncateMetadata(i)
  BY <1>2, <1>3, <1>4, <1>6 DEF TruncateMetadata
<1>7. CASE DumpMetadata(i)
  BY <1>2, <1>3, <1>4, <1>7 DEF DumpMetadata
<1>8. QED
  BY <1>5, <1>6, <1>7

LEMMA ReturnBecomes ==
  ASSUME LogsInv, NEW i \in Importers, ReturnImport(i)
  PROVE  /\ JobBecomes(i, NoJob)
         /\ job[i].values \subseteq LogLines /\ job[i].pc = "return"
         /\ UNCHANGED <<logs, dump, metadata, torn, crashes>>
         /\ job[i].values \subseteq delivered' \union dropped'
         /\ delivered' = delivered \/ delivered' = delivered \union job[i].values
         /\ doubled' = doubled \/ doubled' = doubled \union (job[i].values \intersect delivered)
         /\ dropped' = dropped \/ dropped' = dropped \union job[i].values
<1>1. /\ job[i] \in Jobs /\ size \in [LogFiles -> Nat]
  BY LogsTypes DEF LogsInv
<1>2. job[i].values \subseteq LogLines
  BY <1>1 DEF Jobs
<1>3. Fits(NoJob.progress, size)
  BY <1>1, NothingFits, NoJobType
<1>4. JobBecomes(i, NoJob)
  BY <1>3, NoJobType DEF ReturnImport, JobBecomes
<1>5. QED
  BY <1>2, <1>4 DEF ReturnImport

(* Whatever step is taken, of the jobs at most one changes, unless the     *)
(* minion dies.                                                            *)
LEMMA LogsInvStep ==
  ASSUME LogsInv, [LogsNext]_logVars
  PROVE  LogsInv'
<1>1. /\ delivered \subseteq LogLines /\ doubled \subseteq LogLines /\ dropped \subseteq LogLines
      /\ metadata \in Progresses /\ Fits(metadata, size) /\ size \in [LogFiles -> Nat]
      /\ job \in [Importers -> Jobs] /\ \A i \in Importers : Fits(job[i].progress, size)
  BY LogsTypes DEF LogsInv, FitInv
<1>2. CASE StartExport \/ WriteLog \/ ExporterEnds \/ ReapExport
  BY <1>2, ExportKeepsInv
<1>3. ASSUME NEW i \in Importers,
             StartImport(i) \/ ImportLog(i) \/ RemoveLog(i) \/ EndScan(i)
               \/ TruncateMetadata(i) \/ DumpMetadata(i) \/ ReturnImport(i)
      PROVE  LogsInv'
  <2>1. \E r : JobBecomes(i, r)
    BY <1>3, StartBecomes, PassBecomes, RemoveBecomes, SaveBecomes, ReturnBecomes
  <2>2. logs' \subseteq logs /\ UNCHANGED <<size, exporter, output, torn, crashes>>
    BY <1>3 DEF StartImport, ImportLog, RemoveLog, EndScan, TruncateMetadata, DumpMetadata,
                ReturnImport, dump, returned
  <2>3. metadata' \in Progresses /\ Fits(metadata', size)
    <3>1. CASE EndScan(i) \/ TruncateMetadata(i) \/ DumpMetadata(i)
      <4>1. metadata' = metadata \/ metadata' = Forgotten \/ metadata' = job[i].progress
        BY <3>1, SaveBecomes
      <4>2. Fits(Forgotten, size) /\ Forgotten \in Progresses
        BY <1>1, NothingFits, ForgottenType
      <4>3. job[i].progress \in Progresses /\ Fits(job[i].progress, size)
        BY <1>1 DEF Jobs
      <4>4. QED
        BY <1>1, <4>1, <4>2, <4>3
    <3>2. CASE StartImport(i) \/ ImportLog(i) \/ RemoveLog(i) \/ ReturnImport(i)
      BY <1>1, <3>2 DEF StartImport, ImportLog, RemoveLog, ReturnImport
    <3>3. QED
      BY <1>3, <3>1, <3>2
  <2>4. delivered' \subseteq LogLines /\ doubled' \subseteq LogLines /\ dropped' \subseteq LogLines
    <3>1. CASE ReturnImport(i)
      BY <1>1, <3>1, ReturnBecomes
    <3>2. CASE ~ReturnImport(i)
      BY <1>1, <1>3, <3>2 DEF StartImport, ImportLog, RemoveLog, EndScan, TruncateMetadata,
                              DumpMetadata, returned
    <3>3. QED
      BY <3>1, <3>2
  <2>5. QED
    BY <2>1, <2>2, <2>3, <2>4, ImportKeepsInv
<1>4. CASE CrashImport
  <2>1. /\ UNCHANGED <<logs, size, output, metadata, delivered, doubled>>
        /\ exporter' = "none" /\ job' = [i \in Importers |-> NoJob]
        /\ crashes < MaxCrashes /\ crashes' = crashes + 1 /\ torn' \in BOOLEAN
        /\ dropped' = dropped \union UNION {job[i].values : i \in Importers}
    BY <1>4, LogsTypes DEF CrashImport, LogsInv
  <2>2. job' \in [Importers -> Jobs] /\ \A i \in Importers : job'[i] = NoJob
    BY <2>1, NoJobType
  <2>3. dropped' \subseteq LogLines
    <3>1. \A i \in Importers : job[i].values \subseteq LogLines
      BY <1>1 DEF Jobs
    <3>2. QED
      BY <1>1, <2>1, <3>1
  <2>4. crashes' \in 0..MaxCrashes
    BY <2>1, LogsTypes, Constants DEF LogsInv
  <2>5. LogsTypeOK'
    BY <2>1, <2>2, <2>3, <2>4, LogsTypes DEF LogsInv, LogsTypeOK, Progresses, Jobs, Steps, LogLines
  <2>6. FilesInv'
    BY <2>1, <2>2, NoJobType DEF LogsInv, FilesInv
  <2>7. FitInv'
    BY <1>1, <2>1, <2>2, NoJobType, NothingFits DEF FitInv
  <2>8. QED
    BY <2>5, <2>6, <2>7 DEF LogsInv
<1>5. CASE UNCHANGED logVars
  BY <1>5 DEF logVars, LogsInv, LogsTypeOK, FilesInv, FitInv
<1>6. QED
  BY <1>2, <1>3, <1>4, <1>5 DEF LogsNext

(* The folder, the dump, the metadata and every import keep their types,   *)
(* and no progress runs ahead of its file (obd_manager.py).                *)
THEOREM LogsKeepTypes == LogsSpec => []LogsTypeOK
<1>1. LogsInv /\ [LogsNext]_logVars => LogsInv'
  BY LogsInvStep
<1>2. LogsInv => LogsTypeOK
  BY DEF LogsInv
<1>3. QED
  BY <1>1, <1>2, LogsInvInit, PTL DEF LogsSpec

-----------------------------------------------------------------------------
(* No line is skipped, by any number of importers.                         *)

ValuesOf(w) == UNION {w[i].values : i \in Importers}
Imported == delivered \union dropped \union ValuesOf(job)

(* What a progress counts as read belongs to some lines. *)
Accounted(p, lines) == \A f \in LogFiles : LinesOf(f, p[f].offset) \subseteq lines

ProgressInv ==
  /\ \A i \in Importers : job[i].pc = "idle" => job[i].values = {}
  /\ Accounted(metadata, Imported)
  /\ \A i \in Importers : Accounted(job[i].progress, Imported)

LEMMA AccountedGrows ==
  ASSUME NEW p, NEW L, NEW M, Accounted(p, L), L \subseteq M
  PROVE  Accounted(p, M)
  BY DEF Accounted

LEMMA AccountedForgotten ==
  ASSUME NEW p, NEW q, NEW L, Accounted(p, L),
         \A f \in LogFiles : q[f] = p[f] \/ q[f] = NoProgress
  PROVE  Accounted(q, L)
<1>1. \A f : LinesOf(f, 0) = {}
  BY DEF LinesOf
<1>2. QED
  BY <1>1, NoProgressType DEF Accounted

LEMMA NothingAccounted ==
  ASSUME NEW L
  PROVE  Accounted(Forgotten, L)
<1>1. \A f : LinesOf(f, 0) = {}
  BY DEF LinesOf
<1>2. QED
  BY <1>1, ForgottenType, NoProgressType DEF Accounted

(* What was read belongs to the values of the job. *)
LEMMA AccountedRead ==
  ASSUME NEW j \in Jobs, NEW f \in LogFiles, size \in [LogFiles -> 0..LogSize],
         Fits(j.progress, size), NEW L, Accounted(j.progress, L), Read(j, f).values \subseteq L
  PROVE  Accounted(Read(j, f).progress, L)
<1> DEFINE q == Read(j, f).progress
<1>1. /\ q[f].offset = Upto(j, f) /\ \A g \in LogFiles \ {f} : q[g] = j.progress[g]
      /\ LinesTaken(j, f) \subseteq L
  BY ReadKeepsTypes, NextTimeFits
<1>2. j.progress[f].offset \in Nat /\ Upto(j, f) \in Nat
  BY ReadIsWhole DEF Jobs, Progresses, ProgressType
<1>3. LinesOf(f, j.progress[f].offset) \subseteq L
  BY DEF Accounted
<1> HIDE DEF q
<1>4. LinesOf(f, Upto(j, f)) \subseteq L
  <2> SUFFICES ASSUME NEW n \in 1..Upto(j, f)
               PROVE  <<f, n>> \in L
    BY DEF LinesOf
  <2>1. CASE n <= j.progress[f].offset
    BY <1>2, <1>3, <2>1 DEF LinesOf
  <2>2. CASE n > j.progress[f].offset
    <3>1. n \in (j.progress[f].offset + 1)..Upto(j, f)
      BY <1>2, <2>2
    <3>2. <<f, n>> \in LinesTaken(j, f)
      BY <3>1 DEF LinesTaken
    <3>3. QED
      BY <1>1, <3>2
  <2>3. QED
    BY <1>2, <2>1, <2>2
<1>5. \A g \in LogFiles : LinesOf(g, q[g].offset) \subseteq L
  BY <1>1, <1>4 DEF Accounted
<1>6. QED
  BY <1>5 DEF Accounted, q

(* The step of one importer keeps all lines, if its own are kept. *)
LEMMA ImportedKept ==
  ASSUME LogsInv, NEW i \in Importers, NEW r, JobBecomes(i, r),
         delivered \subseteq delivered', dropped \subseteq dropped',
         job[i].values \subseteq r.values \union delivered' \union dropped'
  PROVE  Imported \subseteq Imported' /\ r.values \subseteq Imported'
<1>1. /\ job'[i] = r /\ \A k \in Importers \ {i} : job'[k] = job[k]
  BY JobChanges, LogsTypes DEF LogsInv, JobBecomes
<1> DEFINE new == ValuesOf(job')
<1>2. r.values \subseteq new /\ \A k \in Importers \ {i} : job[k].values \subseteq new
  BY <1>1 DEF ValuesOf
<1>3. ValuesOf(job) \subseteq new \union delivered' \union dropped'
  <2> HIDE DEF new
  <2>1. \A k \in Importers : job[k].values \subseteq new \union delivered' \union dropped'
    BY <1>2
  <2>2. QED
    BY <2>1 DEF ValuesOf
<1>4. Imported' = delivered' \union dropped' \union new
  BY DEF Imported
<1> HIDE DEF new
<1>5. QED
  BY <1>2, <1>3, <1>4 DEF Imported

(* If all lines are kept, one importer's progress and the metadata are     *)
(* what is left to account for.                                            *)
LEMMA ProgressOfStep ==
  ASSUME LogsInv, ProgressInv, NEW i \in Importers, NEW r, JobBecomes(i, r),
         Imported \subseteq Imported',
         r.pc = "idle" => r.values = {},
         Accounted(r.progress, Imported'), Accounted(metadata', Imported')
  PROVE  ProgressInv'
<1> DEFINE new == Imported'
<1>1. /\ job'[i] = r /\ \A k \in Importers \ {i} : job'[k] = job[k]
  BY JobChanges, LogsTypes DEF LogsInv, JobBecomes
<1>2. \A k \in Importers : job'[k].pc = "idle" => job'[k].values = {}
  BY <1>1 DEF ProgressInv
<1> HIDE DEF new
<1>3. Accounted(r.progress, new) /\ Accounted(metadata', new)
  BY DEF new
<1>4. \A k \in Importers : Accounted(job[k].progress, new)
  BY AccountedGrows DEF ProgressInv, new
<1>5. \A k \in Importers : Accounted(job'[k].progress, new)
  BY <1>1, <1>3, <1>4
<1>6. QED
  BY <1>2, <1>3, <1>5 DEF ProgressInv, new

LEMMA ProgressOfImport ==
  ASSUME LogsInv, ProgressInv, NEW i \in Importers,
         StartImport(i) \/ ImportLog(i) \/ RemoveLog(i) \/ EndScan(i)
           \/ TruncateMetadata(i) \/ DumpMetadata(i) \/ ReturnImport(i)
  PROVE  ProgressInv' /\ Imported \subseteq Imported'
<1>1. /\ job[i] \in Jobs /\ Fits(job[i].progress, size) /\ size \in [LogFiles -> 0..LogSize]
      /\ Accounted(metadata, Imported) /\ Accounted(job[i].progress, Imported)
      /\ job[i].pc = "idle" => job[i].values = {}
  BY LogsTypes DEF LogsInv, FitInv, ProgressInv
<1>2. delivered \subseteq delivered' /\ dropped \subseteq dropped'
  BY ReturnBecomes DEF StartImport, ImportLog, RemoveLog, EndScan, TruncateMetadata, DumpMetadata, returned
<1>3. ASSUME NEW r, JobBecomes(i, r), r.pc = "idle" => r.values = {},
             job[i].values \subseteq r.values \union delivered' \union dropped',
             Accounted(r.progress, Imported') \/ Accounted(r.progress, Imported),
             metadata' \in {metadata, Forgotten, job[i].progress}
      PROVE  ProgressInv' /\ Imported \subseteq Imported'
  <2>1. Imported \subseteq Imported'
    BY <1>2, <1>3, ImportedKept
  <2>2. Accounted(r.progress, Imported') /\ Accounted(metadata', Imported')
    BY <1>1, <1>3, <2>1, AccountedGrows, NothingAccounted
  <2>3. QED
    BY <1>3, <2>1, <2>2, ProgressOfStep
<1>4. CASE StartImport(i)
  <2>1. PICK r : /\ JobBecomes(i, r) /\ r.pc = "scan"
                 /\ \A f \in LogFiles : r.progress[f] = metadata[f] \/ r.progress[f] = NoProgress
    BY <1>4, StartBecomes
  <2>2. job[i].values = {} /\ metadata' = metadata
    BY <1>1, <1>4 DEF StartImport
  <2>3. Accounted(r.progress, Imported)
    BY <1>1, <2>1, AccountedForgotten
  <2>4. QED
    BY <1>3, <2>1, <2>2, <2>3
<1>5. CASE ImportLog(i)
  <2>1. PICK r : /\ JobBecomes(i, r)
                 /\ Passes(i, r) \/ \E f \in LogFiles : Reads(i, r, f) \/ Chooses(i, r, f)
    BY <1>5, PassBecomes
  <2>2. metadata' = metadata /\ job[i].pc = "scan"
    BY <1>5 DEF ImportLog
  <2>3. CASE \E f \in LogFiles : Reads(i, r, f)
    <3>1. PICK f \in LogFiles : r = Read(job[i], f)
      BY <2>3 DEF Reads
    <3>2. r.pc = "scan" /\ job[i].values \subseteq r.values
      BY <1>1, <2>2, <3>1, ReadKeepsTypes
    <3>3. Imported \subseteq Imported' /\ r.values \subseteq Imported'
      BY <1>2, <2>1, <3>2, ImportedKept
    <3>4. Accounted(job[i].progress, Imported')
      BY <1>1, <3>3, AccountedGrows
    <3>5. Accounted(r.progress, Imported')
      BY <1>1, <3>1, <3>3, <3>4, AccountedRead
    <3>6. QED
      BY <1>3, <2>1, <2>2, <3>2, <3>5
  <2>4. CASE ~\E f \in LogFiles : Reads(i, r, f)
    <3>1. r.pc # "idle" /\ r.progress = job[i].progress /\ r.values = job[i].values
      BY <2>1, <2>4 DEF Passes, Chooses
    <3>2. QED
      BY <1>1, <1>3, <2>1, <2>2, <3>1
  <2>5. QED
    BY <2>3, <2>4
<1>6. CASE RemoveLog(i)
  <2>1. PICK r : /\ JobBecomes(i, r) /\ r.pc = "scan" /\ r.values = job[i].values
                 /\ \A f \in LogFiles : r.progress[f] = job[i].progress[f] \/ r.progress[f] = NoProgress
    BY <1>6, RemoveBecomes
  <2>2. Accounted(r.progress, Imported)
    BY <1>1, <2>1, AccountedForgotten
  <2>3. metadata' = metadata
    BY <1>6 DEF RemoveLog
  <2>4. QED
    BY <1>3, <2>1, <2>2, <2>3
<1>7. CASE EndScan(i) \/ TruncateMetadata(i) \/ DumpMetadata(i)
  <2>1. PICK r : /\ JobBecomes(i, r) /\ r.pc # "idle"
                 /\ r.values = job[i].values /\ r.progress = job[i].progress
                 /\ metadata' \in {metadata, Forgotten, job[i].progress}
    BY <1>7, SaveBecomes
  <2>2. QED
    BY <1>1, <1>3, <2>1
<1>8. CASE ReturnImport(i)
  <2>1. /\ JobBecomes(i, NoJob) /\ job[i].values \subseteq delivered' \union dropped'
        /\ metadata' = metadata
    BY <1>8, ReturnBecomes
  <2>2. Accounted(NoJob.progress, Imported) /\ NoJob.values = {}
    BY NothingAccounted, NoJobType
  <2>3. QED
    BY <1>3, <2>1, <2>2
<1>9. QED
  BY <1>4, <1>5, <1>6, <1>7, <1>8

LEMMA ProgressInvInit == LogsInit => ProgressInv
<1> SUFFICES ASSUME LogsInit
             PROVE  ProgressInv
  OBVIOUS
<1>1. metadata = Forgotten /\ \A i \in Importers : job[i] = NoJob
  BY DEF LogsInit
<1>2. QED
  BY <1>1, NothingAccounted, NoJobType DEF ProgressInv

LEMMA ProgressInvStep ==
  ASSUME LogsInv, ProgressInv, [LogsNext]_logVars
  PROVE  ProgressInv'
<1>1. CASE \E i \in Importers :
             StartImport(i) \/ ImportLog(i) \/ RemoveLog(i) \/ EndScan(i)
               \/ TruncateMetadata(i) \/ DumpMetadata(i) \/ ReturnImport(i)
  BY <1>1, ProgressOfImport
<1>2. CASE CrashImport
  <2>1. /\ UNCHANGED <<metadata, delivered>> /\ job' = [i \in Importers |-> NoJob]
        /\ dropped' = dropped \union ValuesOf(job)
    BY <1>2 DEF CrashImport, ValuesOf
  <2>2. Imported \subseteq Imported'
    BY <2>1 DEF Imported
  <2>3. \A i \in Importers : job'[i] = NoJob
    BY <2>1
  <2>4. Accounted(metadata', Imported')
    BY <2>1, <2>2, AccountedGrows DEF ProgressInv
  <2>5. QED
    BY <2>3, <2>4, NoJobType, NothingAccounted DEF ProgressInv
<1>3. CASE StartExport \/ WriteLog \/ ExporterEnds \/ ReapExport \/ UNCHANGED logVars
  <2>1. UNCHANGED <<metadata, job, delivered, dropped>>
    BY <1>3 DEF StartExport, WriteLog, ExporterEnds, ReapExport, logVars, returned
  <2>2. Imported' = Imported
    BY <2>1 DEF Imported, ValuesOf
  <2>3. QED
    BY <2>1, <2>2 DEF ProgressInv
<1>4. QED
  BY <1>1, <1>2, <1>3 DEF LogsNext

(* Whatever the limit, the incomplete lines and the crashes, and however   *)
(* many callers import at once: the progress on disk counts no line as     *)
(* read that was not returned, or is held by a call, or belonged to a call *)
(* that raised or crashed (obd_manager.py, import_handler).                *)
THEOREM NoLineIsSkipped == LogsSpec => []ProgressIsDelivered
<1>1. LogsInv /\ ProgressInv /\ [LogsNext]_logVars => (LogsInv /\ ProgressInv)'
  BY LogsInvStep, ProgressInvStep
<1>2. ProgressInv => ProgressIsDelivered
  BY DEF ProgressInv, ProgressIsDelivered, Accounted, Imported, ValuesOf
<1>3. QED
  BY <1>1, <1>2, LogsInvInit, ProgressInvInit, PTL DEF LogsSpec

-----------------------------------------------------------------------------
(* No line is imported twice, by one importer.                             *)

Single == \A i, k \in Importers : i = k

(* Of the files that are still there, the progress counts the lines.       *)
Behind(lines, p, files) == \A x \in lines : x[1] \in files => x[2] <= p[x[1]].offset

(* What was returned is behind the progress on disk, except while that is  *)
(* written, and behind the progress of the call; the values of the call    *)
(* are behind its own progress and were not returned before.               *)
Once(files, newest, done, saved, j) ==
  /\ \A x \in done \union j.values : x[1] <= newest
  /\ j.pc # "dump" => Behind(done, saved, files)
  /\ j.pc # "idle" => Behind(done, j.progress, files)
  /\ j.pc = "return" => saved = j.progress
  /\ Behind(j.values, j.progress, files)
  /\ j.values \intersect done = {}

OnceInv ==
  ~torn => /\ doubled = {}
           /\ \A i \in Importers : Once(logs, output, delivered, metadata, job[i])

LEMMA OnceOfStart ==
  ASSUME NEW F, NEW o, NEW D, NEW m, NEW j, NEW r, Once(F, o, D, m, j),
         j.pc = "idle", r.pc = "scan", r.values = {}, \A f \in F : r.progress[f] = m[f]
  PROVE  Once(F, o, D, m, r)
  BY DEF Once, Behind

LEMMA OnceOfRead ==
  ASSUME NEW F \in SUBSET LogFiles, NEW o \in Nat, F \subseteq 1..o, NEW D \in SUBSET LogLines, NEW m,
         NEW j \in Jobs, NEW f \in F, size \in [LogFiles -> 0..LogSize], Fits(j.progress, size),
         Once(F, o, D, m, j), j.pc = "scan"
  PROVE  Once(F, o, D, m, Read(j, f))
<1> DEFINE r == Read(j, f)  from == j.progress[f].offset  to == Upto(j, f)
<1>1. /\ r.pc = "scan" /\ r.values = j.values \union LinesTaken(j, f)
      /\ r.progress[f].offset = to
      /\ \A g \in LogFiles \ {f} : r.progress[g] = j.progress[g]
  BY ReadKeepsTypes, NextTimeFits
<1>2. from \in Nat /\ to \in Nat /\ from <= to
  BY ReadIsWhole DEF Jobs, Progresses, ProgressType
<1>3. j.values \in SUBSET LogLines
  BY DEF Jobs
<1>4. /\ \A x \in D \union j.values : x[1] <= o
      /\ Behind(D, m, F) /\ Behind(D, j.progress, F) /\ Behind(j.values, j.progress, F)
      /\ j.values \intersect D = {}
  BY DEF Once
<1>5. \A x \in LinesTaken(j, f) : x[1] = f /\ x[2] \in Nat /\ from < x[2] /\ x[2] <= to
  BY <1>2 DEF LinesTaken
<1> HIDE DEF r, to
<1>6. ASSUME NEW L \in SUBSET LogLines, Behind(L, j.progress, F)
      PROVE  Behind(L, r.progress, F)
  <2> SUFFICES ASSUME NEW x \in L, x[1] \in F
               PROVE  x[2] <= r.progress[x[1]].offset
    BY DEF Behind
  <2>1. x[2] \in Nat /\ x[2] <= j.progress[x[1]].offset
    BY <1>6 DEF Behind, LogLines
  <2>2. CASE x[1] = f
    BY <1>1, <1>2, <2>1, <2>2
  <2>3. CASE x[1] # f
    <3>1. r.progress[x[1]] = j.progress[x[1]]
      BY <1>1, <2>3
    <3>2. QED
      BY <2>1, <3>1
  <2>4. QED
    BY <2>2, <2>3
<1>7. Behind(LinesTaken(j, f), r.progress, F)
  BY <1>1, <1>5 DEF Behind
<1>8. LinesTaken(j, f) \intersect D = {}
  <2> SUFFICES ASSUME NEW x \in LinesTaken(j, f), x \in D
               PROVE  FALSE
    OBVIOUS
  <2>1. x[1] = f /\ x[2] \in Nat /\ from < x[2]
    BY <1>5
  <2>2. x[2] <= from
    BY <1>4, <2>1 DEF Behind
  <2>3. QED
    BY <1>2, <2>1, <2>2
<1>9. f <= o
  OBVIOUS
<1>10. Behind(D, r.progress, F)
  BY <1>4, <1>6
<1>11. Behind(j.values, r.progress, F)
  BY <1>3, <1>4, <1>6
<1>12. Behind(r.values, r.progress, F)
  BY <1>1, <1>7, <1>11 DEF Behind
<1>13. \A x \in D \union r.values : x[1] <= o
  BY <1>1, <1>4, <1>5, <1>9
<1>14. r.values \intersect D = {}
  BY <1>1, <1>4, <1>8
<1>15. QED
  BY <1>1, <1>4, <1>10, <1>12, <1>13, <1>14 DEF Once, r

(* Of fewer files, or with a step towards the metadata file. *)
LEMMA OnceOfRemoval ==
  ASSUME NEW F, NEW G \in SUBSET F, NEW o, NEW D, NEW m, NEW j, NEW r, Once(F, o, D, m, j),
         j.pc = "remove", r.pc = "scan", r.values = j.values, \A f \in G : r.progress[f] = j.progress[f]
  PROVE  Once(G, o, D, m, r)
  BY DEF Once, Behind

LEMMA OnceOfSave ==
  ASSUME NEW F, NEW o, NEW D, NEW m, NEW n, NEW j, NEW r, Once(F, o, D, m, j),
         r.values = j.values, r.progress = j.progress,
         \/ j.pc = "scan" /\ r.pc \in {"scan", "remove", "truncate"} /\ n = m
         \/ j.pc = "truncate" /\ r.pc = "dump"
         \/ j.pc = "dump" /\ r.pc = "return" /\ n = j.progress
  PROVE  Once(F, o, D, n, r)
  BY DEF Once

LEMMA OnceOfReturn ==
  ASSUME NEW F, NEW o, NEW D, NEW m, NEW j, Once(F, o, D, m, j), j.pc = "return",
         NEW C, C = D \/ C = D \union j.values
  PROVE  Once(F, o, C, m, NoJob) /\ j.values \intersect D = {}
<1>1. Behind(C, m, F)
  BY DEF Once, Behind
<1>2. QED
  BY <1>1, NoJobType DEF Once, Behind

LEMMA OnceOfCrash ==
  ASSUME NEW F, NEW o, NEW D, NEW m, NEW j, Once(F, o, D, m, j), j.pc # "dump"
  PROVE  Once(F, o, D, m, NoJob)
  BY NoJobType DEF Once, Behind

(* A new file is the newest one, and nothing was read from it. *)
LEMMA OnceOfExport ==
  ASSUME NEW F, NEW o \in Nat, NEW D \in SUBSET LogLines, NEW m, NEW j \in Jobs, Once(F, o, D, m, j),
         NEW f, (f = o /\ f \in F) \/ f = o + 1
  PROVE  Once(F \union {f}, f, D, m, j)
<1>1. \A x \in D \union j.values : x[1] \in Nat /\ x[1] <= o
  BY DEF Once, LogLines, Jobs, LogFiles
<1>2. \A x \in D \union j.values : x[1] \in F \union {f} => x[1] \in F
  BY <1>1
<1>3. ASSUME NEW L, L \subseteq D \union j.values, NEW p, Behind(L, p, F)
      PROVE  Behind(L, p, F \union {f})
  BY <1>2, <1>3 DEF Behind
<1>4. \A x \in D \union j.values : x[1] <= f
  BY <1>1
<1>5. QED
  BY <1>3, <1>4 DEF Once

LEMMA OnceOfImport ==
  ASSUME Single, LogsInv, OnceInv, ~torn, NEW i \in Importers,
         StartImport(i) \/ ImportLog(i) \/ RemoveLog(i) \/ EndScan(i)
           \/ TruncateMetadata(i) \/ DumpMetadata(i) \/ ReturnImport(i)
  PROVE  doubled' = {} /\ Once(logs', output', delivered', metadata', job'[i])
<1>1. /\ job[i] \in Jobs /\ Fits(job[i].progress, size) /\ size \in [LogFiles -> 0..LogSize]
      /\ logs \subseteq LogFiles /\ logs \subseteq 1..output /\ output \in Nat
      /\ delivered \subseteq LogLines /\ job \in [Importers -> Jobs]
  BY LogsTypes, Constants DEF LogsInv, FitInv, FilesInv
<1>2. doubled = {} /\ Once(logs, output, delivered, metadata, job[i])
  BY DEF OnceInv
<1>3. \A r : JobBecomes(i, r) => job'[i] = r
  BY <1>1, JobChanges DEF JobBecomes
<1>4. CASE StartImport(i)
  <2>1. UNCHANGED <<logs, output, delivered, metadata, doubled>> /\ job[i].pc = "idle"
    BY <1>4 DEF StartImport, dump, returned
  <2>2. job'[i].pc = "scan" /\ job'[i].values = {} /\ \A f \in logs : job'[i].progress[f] = metadata[f]
    BY <1>3, <1>4, StartBecomes
  <2>3. QED
    BY <1>2, <2>1, <2>2, OnceOfStart
<1>5. CASE ImportLog(i)
  <2>1. UNCHANGED <<logs, output, delivered, metadata, doubled>> /\ job[i].pc = "scan"
    BY <1>5 DEF ImportLog, dump, returned
  <2>2. PICK r : /\ job'[i] = r
                 /\ Passes(i, r) \/ \E f \in LogFiles : Reads(i, r, f) \/ Chooses(i, r, f)
    BY <1>3, <1>5, PassBecomes
  <2>3. CASE \E f \in LogFiles : Reads(i, r, f)
    <3>1. PICK f \in logs : r = Read(job[i], f)
      BY <2>3 DEF Reads
    <3>2. Once(logs, output, delivered, metadata, Read(job[i], f))
      BY <1>1, <1>2, <2>1, OnceOfRead
    <3>3. QED
      BY <1>2, <2>1, <2>2, <3>1, <3>2
  <2>4. CASE ~\E f \in LogFiles : Reads(i, r, f)
    <3>1. /\ r.pc \in {"scan", "remove", "truncate"}
          /\ r.progress = job[i].progress /\ r.values = job[i].values
      BY <2>2, <2>4 DEF Passes, Chooses
    <3>2. QED
      BY <1>2, <2>1, <2>2, <3>1, OnceOfSave
  <2>5. QED
    BY <2>3, <2>4
<1>6. CASE RemoveLog(i)
  <2>1. UNCHANGED <<output, delivered, metadata, doubled>> /\ job[i].pc = "remove" /\ logs' \subseteq logs
    BY <1>6 DEF RemoveLog, dump, returned
  <2>2. /\ job'[i].pc = "scan" /\ job'[i].values = job[i].values
        /\ \A f \in logs' : job'[i].progress[f] = job[i].progress[f]
    BY <1>3, <1>6, RemoveBecomes
  <2>3. QED
    BY <1>2, <2>1, <2>2, OnceOfRemoval
<1>7. CASE EndScan(i) \/ TruncateMetadata(i) \/ DumpMetadata(i)
  <2>1. UNCHANGED <<logs, output, delivered, doubled>>
    BY <1>7 DEF EndScan, TruncateMetadata, DumpMetadata, dump, returned
  <2>2. PICK r : /\ job'[i] = r
                 /\ r.values = job[i].values /\ r.progress = job[i].progress
                 /\ \/ job[i].pc = "scan" /\ r.pc = "truncate" /\ UNCHANGED metadata
                    \/ job[i].pc = "truncate" /\ r.pc = "dump" /\ metadata' = Forgotten
                    \/ job[i].pc = "dump" /\ r.pc = "return" /\ metadata' = job[i].progress
    BY <1>3, <1>7, SaveBecomes
  <2> DEFINE n == metadata'
  <2>3. \/ job[i].pc = "scan" /\ r.pc \in {"scan", "remove", "truncate"} /\ n = metadata
        \/ job[i].pc = "truncate" /\ r.pc = "dump"
        \/ job[i].pc = "dump" /\ r.pc = "return" /\ n = job[i].progress
    BY <2>2
  <2> HIDE DEF n
  <2>4. Once(logs, output, delivered, n, r)
    BY <1>2, <2>2, <2>3, OnceOfSave
  <2>5. QED
    BY <1>2, <2>1, <2>2, <2>4 DEF n
<1>8. CASE ReturnImport(i)
  <2>1. /\ job'[i] = NoJob /\ job[i].pc = "return" /\ UNCHANGED <<logs, output, metadata>>
        /\ delivered' = delivered \/ delivered' = delivered \union job[i].values
        /\ doubled' = doubled \/ doubled' = doubled \union (job[i].values \intersect delivered)
    BY <1>3, <1>8, ReturnBecomes DEF dump
  <2> DEFINE c == delivered'
  <2>2. c = delivered \/ c = delivered \union job[i].values
    BY <2>1
  <2> HIDE DEF c
  <2>3. Once(logs, output, c, metadata, NoJob) /\ job[i].values \intersect delivered = {}
    BY <1>2, <2>1, <2>2, OnceOfReturn
  <2>4. doubled' = {}
    BY <1>2, <2>1, <2>3
  <2>5. QED
    BY <2>1, <2>3, <2>4 DEF c
<1>9. QED
  BY <1>4, <1>5, <1>6, <1>7, <1>8

LEMMA OnceInvInit == LogsInit => OnceInv
<1> SUFFICES ASSUME LogsInit
             PROVE  OnceInv
  OBVIOUS
<1>1. logs = {} /\ delivered = {} /\ doubled = {} /\ \A i \in Importers : job[i] = NoJob
  BY DEF LogsInit
<1>2. QED
  BY <1>1, NoJobType DEF OnceInv, Once, Behind

LEMMA OnceInvStep ==
  ASSUME Single, LogsInv, OnceInv, [LogsNext]_logVars
  PROVE  OnceInv'
<1>1. CASE torn'
  BY <1>1 DEF OnceInv
<1>2. CASE ~torn'
  <2>1. ~torn /\ doubled = {} /\ \A i \in Importers : Once(logs, output, delivered, metadata, job[i])
    <3>1. ~torn
      BY <1>2 DEF LogsNext, StartExport, WriteLog, ExporterEnds, ReapExport, StartImport, ImportLog, RemoveLog,
                  EndScan, TruncateMetadata, DumpMetadata, ReturnImport, CrashImport, returned, logVars
    <3>2. QED
      BY <3>1 DEF OnceInv
  <2>2. CASE \E k \in Importers :
               StartImport(k) \/ ImportLog(k) \/ RemoveLog(k) \/ EndScan(k)
                 \/ TruncateMetadata(k) \/ DumpMetadata(k) \/ ReturnImport(k)
    <3>1. ASSUME NEW i \in Importers
          PROVE  doubled' = {} /\ Once(logs', output', delivered', metadata', job'[i])
      <4>1. StartImport(i) \/ ImportLog(i) \/ RemoveLog(i) \/ EndScan(i)
              \/ TruncateMetadata(i) \/ DumpMetadata(i) \/ ReturnImport(i)
        BY <2>2 DEF Single
      <4>2. QED
        BY <2>1, <4>1, OnceOfImport
    <3>2. doubled' = {}
      BY <2>2, <3>1
    <3>3. QED
      BY <3>1, <3>2 DEF OnceInv
  <2>3. CASE CrashImport
    <3>1. UNCHANGED <<logs, output, delivered, metadata, doubled>> /\ \A i \in Importers : job'[i] = NoJob
      BY <2>3 DEF CrashImport
    <3>2. \A i \in Importers : job[i].pc # "dump"
      BY <1>2, <2>3 DEF CrashImport
    <3>3. \A i \in Importers : Once(logs, output, delivered, metadata, NoJob)
      BY <2>1, <3>2, OnceOfCrash
    <3>4. QED
      BY <2>1, <3>1, <3>3 DEF OnceInv
  <2>4. CASE StartExport
    <3>1. PICK f \in {output, output + 1} \intersect LogFiles :
            (f = output => f \in logs) /\ output' = f /\ logs' = logs \union {f}
      BY <2>4 DEF StartExport
    <3>2. UNCHANGED <<delivered, metadata, doubled, job>>
      BY <2>4 DEF StartExport, returned
    <3>3. output \in Nat /\ delivered \in SUBSET LogLines /\ \A i \in Importers : job[i] \in Jobs
      BY LogsTypes, Constants DEF LogsInv
    <3>4. ASSUME NEW i \in Importers
          PROVE  Once(logs \union {f}, f, delivered, metadata, job[i])
      <4> DEFINE j == job[i]
      <4>1. j \in Jobs /\ Once(logs, output, delivered, metadata, j)
        BY <2>1, <3>3
      <4>2. (f = output /\ f \in logs) \/ f = output + 1
        BY <3>1
      <4> HIDE DEF j
      <4>3. Once(logs \union {f}, f, delivered, metadata, j)
        BY <3>3, <4>1, <4>2, OnceOfExport
      <4>4. QED
        BY <4>3 DEF j
    <3>5. QED
      BY <2>1, <3>1, <3>2, <3>4 DEF OnceInv
  <2>5. CASE WriteLog \/ ExporterEnds \/ ReapExport \/ UNCHANGED logVars
    <3>1. UNCHANGED <<logs, output, delivered, metadata, doubled, job>>
      BY <2>5 DEF WriteLog, ExporterEnds, ReapExport, logVars, returned
    <3>2. QED
      BY <2>1, <3>1 DEF OnceInv
  <2>6. QED
    BY <2>2, <2>3, <2>4, <2>5 DEF LogsNext
<1>3. QED
  BY <1>1, <1>2

(* With one importer each line of the bus is imported once, whatever the   *)
(* limit and the files that grow meanwhile: none is skipped, and none is   *)
(* returned twice unless a crash tore the metadata file (obd_manager.py,   *)
(* import_handler).                                                        *)
THEOREM LinesAreImportedOnce ==
  ASSUME Single
  PROVE  LogsSpec => []ImportedOnce
<1>1. LogsInv /\ OnceInv /\ [LogsNext]_logVars => (LogsInv /\ OnceInv)'
  BY LogsInvStep, OnceInvStep
<1>2. OnceInv => EachLineOnce
  BY DEF OnceInv, EachLineOnce
<1>3. EachLineOnce /\ ProgressIsDelivered => ImportedOnce
  BY DEF ImportedOnce
<1>4. QED
  BY <1>1, <1>2, <1>3, LogsInvInit, OnceInvInit, NoLineIsSkipped, PTL DEF LogsSpec

-----------------------------------------------------------------------------
(* A file that is chosen to be removed has nothing that was not imported.  *)

LEMMA ChosenHasNoMore ==
  ASSUME Single, LogsInv, ProgressInv, [LogsNext]_logVars, NEW i \in Importers,
         job[i].pc # "remove", job'[i].pc = "remove"
  PROVE  LinesOf(job'[i].file, LinesIn(job'[i].file))
           \subseteq delivered \union dropped \union job[i].values
<1>1. job \in [Importers -> Jobs]
  BY LogsTypes DEF LogsInv
<1>2. \A r : JobBecomes(i, r) => job'[i] = r
  BY <1>1, JobChanges DEF JobBecomes
<1>3. job'[i] # job[i] /\ job'[i] # NoJob
  BY NoJobType
<1>4. ImportLog(i)
  <2>1. ~CrashImport
    BY <1>3 DEF CrashImport
  <2>2. ~(StartExport \/ WriteLog \/ ExporterEnds \/ ReapExport \/ UNCHANGED logVars)
    BY <1>3 DEF StartExport, WriteLog, ExporterEnds, ReapExport, logVars
  <2>3. PICK k \in Importers :
               StartImport(k) \/ ImportLog(k) \/ RemoveLog(k) \/ EndScan(k)
                 \/ TruncateMetadata(k) \/ DumpMetadata(k) \/ ReturnImport(k)
    BY <2>1, <2>2 DEF LogsNext
  <2>4. k = i
    BY DEF Single
  <2>5. ~StartImport(i) /\ ~RemoveLog(i)
    BY <1>2, StartBecomes, RemoveBecomes
  <2>6. ~(EndScan(i) \/ TruncateMetadata(i) \/ DumpMetadata(i)) /\ ~ReturnImport(i)
    BY <1>2, <1>3, SaveBecomes, ReturnBecomes
  <2>7. QED
    BY <2>3, <2>4, <2>5, <2>6
<1>5. PICK f \in LogFiles : job'[i].file = f /\ ~HasMore(job[i], f)
  <2>1. PICK r : /\ job'[i] = r
                 /\ Passes(i, r) \/ \E f \in LogFiles : Reads(i, r, f) \/ Chooses(i, r, f)
    BY <1>2, <1>4, PassBecomes
  <2>2. ~\E f \in LogFiles : Reads(i, r, f)
    <3>1. job[i] \in Jobs /\ Fits(job[i].progress, size) /\ size \in [LogFiles -> 0..LogSize]
      BY LogsTypes DEF LogsInv, FitInv
    <3>2. \A f \in LogFiles : Read(job[i], f).pc = job[i].pc
      BY <3>1, ReadKeepsTypes
    <3>3. QED
      BY <2>1, <3>2 DEF Reads
  <2>3. QED
    BY <2>1, <2>2 DEF Passes, Chooses
<1> DEFINE o == job[i].progress[f].offset
<1>6. o \in Nat /\ LinesIn(f) \in Nat /\ LinesIn(f) <= o
  <2>1. job[i].progress[f] \in ProgressType /\ size[f] \in Nat
    BY <1>1, LogsTypes DEF LogsInv, Jobs, Progresses
  <2>2. size[f] <= job[i].progress[f].size /\ job[i].progress[f].size <= 2 * o + 1
    BY <1>5, <2>1 DEF HasMore, LogsInv, FitInv, Fits, ProgressType
  <2>3. o \in Nat /\ job[i].progress[f].size \in Nat
    BY <2>1 DEF ProgressType
  <2> HIDE DEF o
  <2>4. QED
    BY <2>1, <2>2, <2>3, Halves DEF LinesIn
<1>7. LinesOf(f, o) \subseteq Imported
  BY DEF ProgressInv, Accounted
<1> HIDE DEF o
<1>8. LinesOf(f, LinesIn(f)) \subseteq LinesOf(f, o)
  BY <1>6 DEF LinesOf
<1>9. Imported = delivered \union dropped \union job[i].values
  BY DEF Imported, ValuesOf, Single
<1>10. QED
  BY <1>5, <1>7, <1>8, <1>9

(* When the one importer chooses a file to be deleted, every whole line    *)
(* that it has at that moment was imported (import_handler's cleanup).     *)
THEOREM OnlyImportedIsChosen ==
  ASSUME Single
  PROVE  LogsSpec => ChosenWhenImported
<1>1. LogsInv /\ ProgressInv /\ [LogsNext]_logVars => (LogsInv /\ ProgressInv)'
  BY LogsInvStep, ProgressInvStep
<1>2. LogsInv /\ ProgressInv /\ [LogsNext]_logVars =>
        [\A i \in Importers : job[i].pc # "remove" /\ job'[i].pc = "remove" =>
           LET f == job'[i].file IN
             LinesOf(f, LinesIn(f)) \subseteq delivered \union dropped \union job[i].values]_logVars
  BY ChosenHasNoMore
<1>3. QED
  BY <1>1, <1>2, LogsInvInit, ProgressInvInit, PTL DEF LogsSpec, ChosenWhenImported

-----------------------------------------------------------------------------
(* CAN connection. *)

Buses == [bus : BOOLEAN, with : Settings \union {"none"}, notifier : BOOLEAN,
          applied : SUBSET Filters, error : BOOLEAN, consecutive : 0..MaxErrors]
Streaks == [calls : 0..(MaxErrors + 1), asked : BOOLEAN]
(* Where a call goes on once the bus is open. *)
Thens == {"filter", "listen", "run", "apply", "flow"}

(* A bus has settings, and only a bus has a notifier.                      *)
Proper(c) == c.bus = (c.with # "none") /\ (c.notifier => c.bus)

-----------------------------------------------------------------------------
(* Buses.                                                                  *)

LEMMA NoBusType == NoBus \in Buses /\ Proper(NoBus) /\ ~NoBus.bus /\ ~NoBus.notifier
<1>1. 0 \in 0..MaxErrors /\ {} \in SUBSET Filters
  BY CanAssumption
<1>2. NoBus \in Buses
  BY <1>1 DEF NoBus, Buses
<1>3. QED
  BY <1>2 DEF NoBus, Proper

(* open makes a bus with the filters that are wanted, and no errors yet.   *)
LEMMA OpenedType ==
  ASSUME settings \in Settings, filters \in SUBSET Filters
  PROVE  /\ Opened \in Buses /\ Proper(Opened)
         /\ Opened.bus /\ Opened.notifier /\ Opened.with = settings /\ Opened.applied = filters
         /\ ~Opened.error /\ Opened.consecutive = 0
  BY NoBusType, CanAssumption DEF Opened, Buses, Proper, NoBus

(* is_open changes nothing but the errors it counts.  The last one is      *)
(* taken away before the count may pass the limit.                         *)
LEMMA CountedType ==
  ASSUME NEW c \in Buses, Proper(c), c.error => c.consecutive < MaxErrors
  PROVE  /\ Counted(c) \in Buses /\ Proper(Counted(c))
         /\ ~Counted(c).error
         /\ Counted(c).bus = c.bus /\ Counted(c).with = c.with
         /\ Counted(c).notifier = c.notifier /\ Counted(c).applied = c.applied
         /\ Counted(c).consecutive = IF c.error THEN c.consecutive + 1 ELSE 0
<1>1. CASE c.error
  <2>1. Counted(c) = [c EXCEPT !.error = FALSE, !.consecutive = @ + 1]
    BY <1>1 DEF Counted
  <2>2. c.consecutive + 1 \in 0..MaxErrors
    BY <1>1, CanAssumption DEF Buses
  <2>3. QED
    BY <1>1, <2>1, <2>2 DEF Buses, Proper
<1>2. CASE ~c.error
  <2>1. Counted(c) = [c EXCEPT !.error = FALSE, !.consecutive = 0]
    BY <1>2 DEF Counted, Buses
  <2>2. 0 \in 0..MaxErrors
    BY CanAssumption
  <2>3. QED
    BY <1>2, <2>1, <2>2 DEF Buses, Proper
<1>3. QED
  BY <1>1, <1>2

-----------------------------------------------------------------------------
(* The inductive invariants.                                               *)

(* Errors are counted only as long as the bus is not given up, and a call  *)
(* that is past its own is_open runs on a bus without a pending error.     *)
CountInv ==
  /\ can.error => can.consecutive < MaxErrors
  /\ call.pc \notin {"idle", "open"} => ~can.error /\ can.consecutive < MaxErrors

(* Filters that are not dirty are those of the bus, and an OBD query has   *)
(* made its own the only one.                                              *)
Working == {"run", "replies", "flow"}
FiltersInv ==
  /\ ~dirty /\ can.notifier => can.applied = filters
  /\ call.op = "obd_query" /\ call.pc \in {"reopen", "apply"} \union Working
       => filters = {call.filter}
  /\ call.op = "obd_query" /\ call.pc \in Working => ~dirty

(* The bus has counted each call that failed, save the last.               *)
StreakInv ==
  ~streak.asked =>
    /\ streak.calls <= can.consecutive + (IF can.error THEN 1 ELSE 0)
    /\ call.pc \in {"idle", "open"} /\ ~can.error => streak.calls = 0

CanInv == CanTypeOK /\ CountInv /\ FiltersInv /\ MonitorListens /\ StreakInv

LEMMA CanParts ==
  ASSUME CanTypeOK
  PROVE  /\ can \in Buses /\ Proper(can) /\ call \in Calls /\ streak \in Streaks
         /\ settings \in Settings /\ filters \in SUBSET Filters
         /\ autodetect \in BOOLEAN /\ dirty \in BOOLEAN
         /\ listening \in [listener : BOOLEAN, attached : BOOLEAN]
  BY DEF CanTypeOK, Buses, Proper, Calls, QueryPlaces, NoCall, Streaks

LEMMA CanWhole ==
  ASSUME can' \in Buses, Proper(can'), call' \in Calls, streak' \in Streaks,
         settings' \in Settings, filters' \in SUBSET Filters,
         autodetect' \in BOOLEAN, dirty' \in BOOLEAN,
         listening' \in [listener : BOOLEAN, attached : BOOLEAN]
  PROVE  CanTypeOK'
  BY DEF CanTypeOK, Buses, Proper, Calls, QueryPlaces, NoCall, Streaks

LEMMA IdleTypes == NoCall \in Calls /\ NoCall.pc = "idle" /\ NoCall.op = "none"
                     /\ NoStreak \in Streaks /\ ~NoStreak.asked /\ NoStreak.calls = 0
<1>1. 0 \in 0..(MaxErrors + 1)
  BY CanAssumption
<1>2. QED
  BY <1>1 DEF NoCall, NoStreak, Calls, QueryPlaces, NoCall, Streaks

LEMMA CanInvInit == CanInit => CanInv
<1> SUFFICES ASSUME CanInit PROVE CanInv
  OBVIOUS
<1>1. can = NoBus /\ call = NoCall /\ streak = NoStreak
  BY DEF CanInit
<1>2. CanTypeOK
  BY <1>1, NoBusType, IdleTypes DEF CanInit, CanTypeOK, Buses, Proper, Calls, QueryPlaces, NoCall, Streaks, NotListening
<1>3. QED
  BY <1>1, <1>2, NoBusType, IdleTypes
     DEF CanInv, CountInv, FiltersInv, Working, MonitorListens, StreakInv, NoBus

-----------------------------------------------------------------------------
(* Opening.                                                                *)

(* What ensure_open leaves: no bus and no call, or a call that goes on     *)
(* with a bus whose errors are counted.                                    *)
LEMMA EnsureOpenStep ==
  ASSUME CanInv, NEW then \in Thens, NEW nested \in BOOLEAN, EnsureOpen(then, nested)
  PROVE  /\ can' \in Buses /\ Proper(can')
         /\ call' = NoCall \/ (call' = [call EXCEPT !.pc = then] /\ ~can'.error)
         /\ can'.consecutive < MaxErrors
         /\ UNCHANGED <<settings, filters>>
         /\ autodetect' \in BOOLEAN /\ dirty' \in BOOLEAN /\ streak' \in Streaks
         /\ listening' \in [listener : BOOLEAN, attached : BOOLEAN]
         /\ dirty' => dirty
         /\ ~dirty' /\ can'.notifier => can'.applied = filters
         /\ \/ streak' = NoStreak
            \/ /\ call' # NoCall
               /\ streak' = [streak EXCEPT !.asked = @ \/ nested]
               /\ can'.consecutive = IF can.error THEN can.consecutive + 1 ELSE 0
<1>0. /\ can \in Buses /\ Proper(can) /\ call \in Calls /\ streak \in Streaks
      /\ settings \in Settings /\ filters \in SUBSET Filters
      /\ autodetect \in BOOLEAN /\ dirty \in BOOLEAN
      /\ listening \in [listener : BOOLEAN, attached : BOOLEAN]
  BY CanParts DEF CanInv
<1>n. [call EXCEPT !.pc = then] # NoCall
  BY <1>0 DEF Calls, QueryPlaces, NoCall, Thens
<1>1. CASE /\ MayBeOpen
           /\ can' = Counted(can)
           /\ GoOn(then)
           /\ streak' = [streak EXCEPT !.asked = @ \/ nested]
           /\ UNCHANGED <<settings, autodetect, filters, dirty, listening>>
  <2>1. can.error => can.consecutive < MaxErrors
    BY DEF CanInv, CountInv
  <2>2. /\ Counted(can) \in Buses /\ Proper(Counted(can)) /\ ~Counted(can).error
        /\ Counted(can).notifier = can.notifier /\ Counted(can).applied = can.applied
        /\ Counted(can).consecutive = IF can.error THEN can.consecutive + 1 ELSE 0
    BY <1>0, <2>1, CountedType
  <2>3. Counted(can).consecutive < MaxErrors
    BY <1>1 DEF MayBeOpen
  <2>4. streak' \in Streaks
    BY <1>0, <1>1 DEF Streaks
  <2>5. ~dirty /\ can.notifier => can.applied = filters
    BY DEF CanInv, FiltersInv, Working
  <2>6. call' = [call EXCEPT !.pc = then]
    BY <1>1 DEF GoOn
  <2>7. QED
    BY <1>0, <1>1, <1>n, <2>2, <2>3, <2>4, <2>5, <2>6
<1>2. CASE Open(then, nested)
  <2>0. UNCHANGED <<settings, filters>> /\ autodetect' = FALSE
          /\ listening' = [listening EXCEPT !.attached = FALSE]
    BY <1>2 DEF Open
  <2>1. listening' \in [listener : BOOLEAN, attached : BOOLEAN]
    BY <1>0, <2>0
  <2>2. /\ Opened \in Buses /\ Proper(Opened)
        /\ Opened.bus /\ Opened.notifier /\ Opened.applied = filters
        /\ ~Opened.error /\ Opened.consecutive = 0
    BY <1>0, OpenedType
  <2>3. /\ NoBus \in Buses /\ Proper(NoBus) /\ ~NoBus.notifier /\ ~NoBus.error
        /\ NoBus.consecutive = 0
    BY NoBusType DEF NoBus
  <2>4. 0 < MaxErrors
    BY CanAssumption
  <2>5. streak' = NoStreak
    BY <1>2 DEF Open, Return
  <2>6. CASE can' = NoBus /\ Return /\ UNCHANGED dirty
    BY <1>0, <2>0, <2>1, <2>3, <2>4, <2>5, <2>6, IdleTypes DEF Return
  <2>7. CASE can' = NoBus /\ GoOn(then) /\ UNCHANGED dirty
    BY <1>0, <2>0, <2>1, <2>3, <2>4, <2>5, <2>7, IdleTypes DEF GoOn
  <2>8. CASE can' = Opened /\ dirty' = (dirty /\ filters = {}) /\ GoOn(then)
    <3>1. dirty' \in BOOLEAN
      BY <2>8
    <3>2. QED
      BY <2>0, <2>1, <2>2, <2>4, <2>5, <2>8, <3>1, IdleTypes DEF GoOn
  <2>9. CASE /\ can' = [Opened EXCEPT !.notifier = FALSE, !.applied = {}, !.error = nested]
             /\ Return /\ UNCHANGED dirty
    <3>1. can' \in Buses /\ Proper(can') /\ ~can'.notifier /\ can'.consecutive = 0
      BY <2>2, <2>9 DEF Buses, Proper
    <3>2. QED
      BY <1>0, <2>0, <2>1, <2>4, <2>5, <2>9, <3>1, IdleTypes DEF Return
  <2>10. QED
    BY <1>2, <2>6, <2>7, <2>8, <2>9 DEF Open
<1>3. QED
  BY <1>1, <1>2 DEF EnsureOpen

-----------------------------------------------------------------------------
(* Each step keeps the invariants.                                         *)

LEMMA EnterCallStep ==
  ASSUME CanInv, EnterCall
  PROVE  CanInv'
<1> DEFINE then == CASE call.op = "obd_query" -> "filter" [] call.op = "monitor" -> "listen"
                     [] OTHER -> "run"
<1>0. call \in Calls /\ can \in Buses /\ streak \in Streaks /\ settings \in Settings
        /\ filters \in SUBSET Filters /\ call.pc = "open"
  BY CanParts DEF CanInv, EnterCall
<1>1. /\ then \in Thens /\ then \in {"filter", "listen", "run"}
      /\ call.op = "obd_query" <=> then = "filter"
      /\ call.op = "monitor" <=> then = "listen"
  BY <1>0 DEF Calls, QueryPlaces, NoCall, Thens
<1>2. EnsureOpen(then, FALSE)
  BY DEF EnterCall
<1> HIDE DEF then
<1>3. /\ can' \in Buses /\ Proper(can')
      /\ call' = NoCall \/ (call' = [call EXCEPT !.pc = then] /\ ~can'.error)
      /\ can'.consecutive < MaxErrors
      /\ UNCHANGED <<settings, filters>>
      /\ autodetect' \in BOOLEAN /\ dirty' \in BOOLEAN /\ streak' \in Streaks
      /\ listening' \in [listener : BOOLEAN, attached : BOOLEAN]
      /\ ~dirty' /\ can'.notifier => can'.applied = filters
      /\ \/ streak' = NoStreak
         \/ /\ call' # NoCall
            /\ streak' = [streak EXCEPT !.asked = @ \/ FALSE]
            /\ can'.consecutive = IF can.error THEN can.consecutive + 1 ELSE 0
  BY <1>1, <1>2, EnsureOpenStep
<1>4. call' \in Calls
  BY <1>0, <1>1, <1>3, IdleTypes DEF Calls, QueryPlaces, NoCall, Thens
<1>5. CanTypeOK'
  BY <1>0, <1>3, <1>4, CanWhole
<1>6. CountInv'
  BY <1>3, IdleTypes DEF CountInv
<1>7. call'.op = "obd_query" => call'.pc = "filter"
  BY <1>0, <1>1, <1>3, IdleTypes DEF Calls, QueryPlaces, NoCall
<1>8. FiltersInv'
  BY <1>3, <1>7 DEF FiltersInv, Working
<1>9. MonitorListens'
  <2>1. call'.pc # "read"
    BY <1>0, <1>1, <1>3, IdleTypes DEF Calls, QueryPlaces, NoCall, Thens
  <2>2. QED
    BY <2>1 DEF MonitorListens
<1>10. StreakInv'
  <2>1. CASE streak' = NoStreak
    <3>1. can'.consecutive \in Nat /\ can'.error \in BOOLEAN
      BY <1>3 DEF Buses
    <3>2. QED
      BY <2>1, <3>1, IdleTypes DEF StreakInv
  <2>2. CASE /\ call' # NoCall
             /\ streak' = [streak EXCEPT !.asked = @ \/ FALSE]
             /\ can'.consecutive = IF can.error THEN can.consecutive + 1 ELSE 0
    <3>1. call'.pc \notin {"idle", "open"} /\ ~can'.error
      BY <1>0, <1>1, <1>3, <2>2 DEF Calls, QueryPlaces, NoCall, Thens
    <3>2. streak'.calls = streak.calls /\ streak'.asked = streak.asked
      BY <1>0, <2>2 DEF Streaks
    <3>3. ~streak.asked => streak.calls <= can'.consecutive
      <4>1. can.consecutive \in Nat /\ streak.calls \in Nat
        BY <1>0 DEF Buses, Streaks
      <4>2. QED
        BY <1>0, <2>2, <4>1 DEF CanInv, StreakInv
    <3>4. can'.consecutive + 0 = can'.consecutive
      BY <1>3 DEF Buses
    <3>5. QED
      BY <3>1, <3>2, <3>3, <3>4 DEF StreakInv
  <2>3. QED
    BY <1>3, <2>1, <2>2
<1>11. QED
  BY <1>5, <1>6, <1>8, <1>9, <1>10 DEF CanInv

(* An open bus is ensured for the second time, to apply filters or to send *)
(* a flow control frame.                                                   *)
LEMMA EnsureOpenAgainStep ==
  ASSUME CanInv, EnsureOpenAgain \/ FlowControl
  PROVE  CanInv'
<1> DEFINE then == IF call.pc = "reopen" THEN "apply" ELSE "flow"
<1>0. call \in Calls /\ can \in Buses /\ streak \in Streaks /\ settings \in Settings
        /\ filters \in SUBSET Filters /\ call.pc \in {"reopen", "replies"}
  BY CanParts DEF CanInv, EnsureOpenAgain, FlowControl
<1>1. then \in Thens /\ TRUE \in BOOLEAN
  BY DEF Thens
<1>2. EnsureOpen(then, TRUE)
  BY DEF EnsureOpenAgain, FlowControl
<1>t. (call.pc = "reopen" /\ then = "apply") \/ (call.pc = "replies" /\ then = "flow")
  BY <1>0
<1> HIDE DEF then
<1>3. /\ can' \in Buses /\ Proper(can')
      /\ call' = NoCall \/ (call' = [call EXCEPT !.pc = then] /\ ~can'.error)
      /\ can'.consecutive < MaxErrors
      /\ UNCHANGED <<settings, filters>>
      /\ autodetect' \in BOOLEAN /\ dirty' \in BOOLEAN /\ streak' \in Streaks
      /\ listening' \in [listener : BOOLEAN, attached : BOOLEAN]
      /\ dirty' => dirty
      /\ ~dirty' /\ can'.notifier => can'.applied = filters
      /\ \/ streak' = NoStreak
         \/ /\ call' # NoCall
            /\ streak' = [streak EXCEPT !.asked = @ \/ TRUE]
            /\ can'.consecutive = IF can.error THEN can.consecutive + 1 ELSE 0
  BY <1>1, <1>2, EnsureOpenStep
<1>4. call' \in Calls /\ call'.pc \in {"idle", then}
  BY <1>0, <1>3, <1>t, IdleTypes DEF Calls, QueryPlaces, NoCall
<1>5. CanTypeOK'
  BY <1>0, <1>3, <1>4, CanWhole
<1>6. CountInv'
  BY <1>3, IdleTypes DEF CountInv
<1>7. FiltersInv'
  <2>1. call.op = "obd_query" => filters = {call.filter}
    BY <1>0 DEF CanInv, FiltersInv, Working
  <2>2. call'.op = "obd_query" => call'.filter = call.filter /\ call.op = "obd_query"
    BY <1>0, <1>3, IdleTypes DEF Calls, QueryPlaces, NoCall
  <2>3. call'.op = "obd_query" /\ call'.pc \in Working => ~dirty'
    <3>1. call.op = "obd_query" /\ call.pc = "replies" => ~dirty
      BY DEF CanInv, FiltersInv, Working
    <3>2. call'.pc \in Working => call.pc = "replies"
      BY <1>4, <1>t DEF Working
    <3>3. QED
      BY <1>3, <2>2, <3>1, <3>2
  <2>4. QED
    BY <1>3, <2>1, <2>2, <2>3 DEF FiltersInv
<1>8. MonitorListens'
  BY <1>4, <1>t DEF MonitorListens
<1>9. StreakInv'
  <2>1. CASE streak' = NoStreak
    <3>1. can'.consecutive \in Nat /\ can'.error \in BOOLEAN
      BY <1>3 DEF Buses
    <3>2. QED
      BY <2>1, <3>1, IdleTypes DEF StreakInv
  <2>2. CASE streak' = [streak EXCEPT !.asked = @ \/ TRUE]
    BY <1>0, <2>2 DEF StreakInv, Streaks
  <2>3. QED
    BY <1>3, <2>1, <2>2
<1>10. QED
  BY <1>5, <1>6, <1>7, <1>8, <1>9 DEF CanInv

(* A call that fails on its bus counts one more, and so will the bus.      *)
LEMMA FailOnStep ==
  ASSUME CanInv, call.pc \notin {"idle", "open"}, FailOn(can),
         UNCHANGED <<settings, autodetect, filters, dirty, listening>>
  PROVE  CanInv'
<1>0. /\ can \in Buses /\ Proper(can) /\ call \in Calls /\ streak \in Streaks
      /\ settings \in Settings /\ filters \in SUBSET Filters
      /\ autodetect \in BOOLEAN /\ dirty \in BOOLEAN
      /\ listening \in [listener : BOOLEAN, attached : BOOLEAN]
  BY CanParts DEF CanInv
<1>1. can' = [can EXCEPT !.error = TRUE] /\ call' = NoCall
  BY DEF FailOn
<1>2. /\ can' \in Buses /\ Proper(can') /\ can'.error
      /\ can'.consecutive = can.consecutive /\ can'.notifier = can.notifier
      /\ can'.applied = can.applied
  BY <1>0, <1>1 DEF Buses, Proper
<1>3. ~can.error /\ can.consecutive < MaxErrors
  BY DEF CanInv, CountInv
<1>4. streak.calls \in 0..(MaxErrors + 1) /\ can.consecutive \in Nat /\ MaxErrors \in Nat
  BY <1>0, CanAssumption DEF Streaks, Buses
<1>5. /\ streak' \in Streaks /\ streak'.asked = streak.asked
      /\ streak'.calls <= streak.calls + 1
  <2>1. streak' = [streak EXCEPT !.calls = Min({@ + 1, MaxErrors + 1})]
    BY DEF FailOn
  <2>2. /\ Min({streak.calls + 1, MaxErrors + 1}) \in 0..(MaxErrors + 1)
        /\ Min({streak.calls + 1, MaxErrors + 1}) <= streak.calls + 1
    <3>1. \E x \in {streak.calls + 1, MaxErrors + 1} :
            \A y \in {streak.calls + 1, MaxErrors + 1} : x <= y
      BY <1>4
    <3>2. /\ Min({streak.calls + 1, MaxErrors + 1}) \in {streak.calls + 1, MaxErrors + 1}
          /\ \A y \in {streak.calls + 1, MaxErrors + 1} :
                Min({streak.calls + 1, MaxErrors + 1}) <= y
      BY <3>1 DEF Min
    <3>3. QED
      BY <1>4, <3>2
  <2>3. QED
    BY <1>0, <2>1, <2>2 DEF Streaks
<1>6. CanTypeOK'
  BY <1>0, <1>1, <1>2, <1>5, IdleTypes, CanWhole
<1>7. CountInv'
  BY <1>1, <1>2, <1>3, IdleTypes DEF CountInv
<1>8. FiltersInv'
  BY <1>1, <1>2, IdleTypes DEF CanInv, FiltersInv, Working
<1>9. MonitorListens'
  BY <1>1, IdleTypes DEF MonitorListens
<1>10. StreakInv'
  <2>1. ~streak.asked => streak.calls <= can.consecutive
    BY <1>3, <1>4 DEF CanInv, StreakInv
  <2>2. streak'.calls \in Nat
    BY <1>5 DEF Streaks
  <2>3. ~streak'.asked => streak'.calls <= can'.consecutive + 1
    BY <1>2, <1>4, <1>5, <2>1, <2>2
  <2>4. QED
    BY <1>2, <2>3 DEF StreakInv
<1>11. QED
  BY <1>6, <1>7, <1>8, <1>9, <1>10 DEF CanInv

(* A call that ends well leaves no errors in a row behind.                 *)
LEMMA ReturnStep ==
  ASSUME CanInv, call.pc \notin {"idle", "open"}, Return,
         UNCHANGED <<can, settings, autodetect, filters, dirty>>,
         listening' \in [listener : BOOLEAN, attached : BOOLEAN]
  PROVE  CanInv'
<1>0. /\ can \in Buses /\ Proper(can) /\ settings \in Settings /\ filters \in SUBSET Filters
      /\ autodetect \in BOOLEAN /\ dirty \in BOOLEAN
  BY CanParts DEF CanInv
<1>1. call' = NoCall /\ streak' = NoStreak
  BY DEF Return
<1>2. CanTypeOK'
  BY <1>0, <1>1, IdleTypes, CanWhole
<1>3. CountInv' /\ FiltersInv' /\ MonitorListens'
  BY <1>1, IdleTypes DEF CanInv, CountInv, FiltersInv, Working, MonitorListens
<1>4. StreakInv'
  <2>1. can.consecutive \in Nat
    BY <1>0 DEF Buses
  <2>2. QED
    BY <1>1, <2>1, IdleTypes DEF StreakInv
<1>5. QED
  BY <1>2, <1>3, <1>4 DEF CanInv

(* A step that only changes the call, the filters or the listener.         *)
LEMMA CallStep ==
  ASSUME CanInv, UNCHANGED <<can, settings, autodetect, streak>>,
         call' \in Calls, dirty' \in BOOLEAN, filters' \in SUBSET Filters,
         listening' \in [listener : BOOLEAN, attached : BOOLEAN],
         call'.pc \in {"idle", "open"} => call.pc \in {"idle", "open"},
         call'.pc \notin {"idle", "open"} => call.pc \notin {"idle", "open"},
         FiltersInv', MonitorListens'
  PROVE  CanInv'
<1>0. /\ can \in Buses /\ Proper(can) /\ settings \in Settings /\ autodetect \in BOOLEAN
      /\ streak \in Streaks
  BY CanParts DEF CanInv
<1>1. CanTypeOK'
  BY <1>0, CanWhole
<1>2. CountInv' /\ StreakInv'
  BY DEF CanInv, CountInv, StreakInv
<1>3. QED
  BY <1>1, <1>2 DEF CanInv

LEMMA BeginCallStep ==
  ASSUME CanInv, BeginCall
  PROVE  CanInv'
<1>0. /\ filters \in SUBSET Filters /\ dirty \in BOOLEAN
      /\ listening \in [listener : BOOLEAN, attached : BOOLEAN]
  BY CanParts DEF CanInv
<1>1. UNCHANGED <<can, settings, autodetect, filters, dirty, listening, streak>> /\ call.pc = "idle"
  BY IdleTypes DEF BeginCall
<1>2. call' \in Calls /\ call'.pc = "open"
  <2>1. CASE \E op \in {"send", "query", "monitor"} :
                call' = [NoCall EXCEPT !.op = op, !.pc = "open"]
    <3>1. PICK op \in {"send", "query", "monitor"} :
             call' = [NoCall EXCEPT !.op = op, !.pc = "open"]
      BY <2>1
    <3>2. call' = [op |-> op, pc |-> "open", filter |-> "none"]
      BY <3>1 DEF NoCall
    <3>3. QED
      BY <3>2 DEF Calls, QueryPlaces, NoCall
  <2>2. CASE \E f \in Filters : call' = [op |-> "obd_query", pc |-> "open", filter |-> f]
    BY <2>2 DEF Calls, QueryPlaces, NoCall
  <2>3. QED
    BY <2>1, <2>2 DEF BeginCall
<1>3. FiltersInv' /\ MonitorListens'
  BY <1>1, <1>2 DEF CanInv, FiltersInv, Working, MonitorListens
<1>4. QED
  BY <1>0, <1>1, <1>2, <1>3, CallStep

LEMMA EnsureFilterStep ==
  ASSUME CanInv, EnsureFilter
  PROVE  CanInv'
<1>0. /\ filters \in SUBSET Filters /\ dirty \in BOOLEAN /\ call \in Calls
      /\ listening \in [listener : BOOLEAN, attached : BOOLEAN]
  BY CanParts DEF CanInv
<1>1. call.pc = "filter" /\ UNCHANGED <<can, settings, autodetect, listening, streak>>
  BY DEF EnsureFilter
<1>2. CASE filters = {call.filter}
  <2>1. UNCHANGED <<filters, dirty>>
    BY <1>2 DEF EnsureFilter
  <2>2. call' = [call EXCEPT !.pc = IF dirty THEN "reopen" ELSE "run"]
    BY <2>1 DEF EnsureFilter, GoOn
  <2>3. call' \in Calls /\ call'.pc \in {"reopen", "run"} /\ (call'.pc = "run" => ~dirty)
          /\ call'.filter = call.filter
    BY <1>0, <1>1, <2>2 DEF Calls, QueryPlaces, NoCall
  <2>4. FiltersInv' /\ MonitorListens'
    BY <1>1, <1>2, <2>1, <2>3 DEF CanInv, FiltersInv, Working, MonitorListens
  <2>5. QED
    BY <1>0, <1>1, <2>1, <2>3, <2>4, CallStep
<1>3. CASE filters # {call.filter}
  <2>1. filters' = {call.filter} /\ dirty' = TRUE
    BY <1>3 DEF EnsureFilter
  <2>2. call' = [call EXCEPT !.pc = "reopen"]
    BY <2>1 DEF EnsureFilter, GoOn
  <2>3. call' \in Calls /\ call'.pc = "reopen" /\ call'.filter = call.filter
    BY <1>0, <1>1, <2>2 DEF Calls, QueryPlaces, NoCall
  <2>4. FiltersInv' /\ MonitorListens'
    BY <2>1, <2>3 DEF FiltersInv, Working, MonitorListens
  <2>5. filters' \in SUBSET Filters
    BY <1>0, <1>1, <2>1 DEF Calls, QueryPlaces, NoCall
  <2>6. QED
    BY <1>0, <1>1, <2>1, <2>3, <2>4, <2>5, CallStep
<1>4. QED
  BY <1>2, <1>3

LEMMA ApplyFiltersStep ==
  ASSUME CanInv, ApplyFilters
  PROVE  CanInv'
<1>0. /\ can \in Buses /\ Proper(can) /\ call \in Calls /\ streak \in Streaks
      /\ settings \in Settings /\ filters \in SUBSET Filters
      /\ autodetect \in BOOLEAN /\ dirty \in BOOLEAN
      /\ listening \in [listener : BOOLEAN, attached : BOOLEAN]
  BY CanParts DEF CanInv
<1>1. call.pc = "apply" /\ UNCHANGED <<settings, autodetect, filters, listening>>
  BY DEF ApplyFilters
<1>2. CASE ~can.bus /\ Return /\ UNCHANGED <<can, dirty>>
  BY <1>0, <1>1, <1>2, ReturnStep
<1>3. CASE /\ can.bus
           /\ can' = [can EXCEPT !.applied = filters]
           /\ dirty' = FALSE /\ GoOn("run") /\ UNCHANGED streak
  <2>1. /\ can' \in Buses /\ Proper(can') /\ can'.error = can.error
        /\ can'.consecutive = can.consecutive /\ can'.applied = filters
    BY <1>0, <1>3 DEF Buses, Proper
  <2>2. call' = [call EXCEPT !.pc = "run"]
    BY <1>3 DEF GoOn
  <2>3. call' \in Calls /\ call'.pc = "run" /\ call'.op = call.op /\ call'.filter = call.filter
    BY <1>0, <1>1, <2>2 DEF Calls, QueryPlaces, NoCall
  <2>4. CanTypeOK'
    BY <1>0, <1>1, <1>3, <2>1, <2>3, CanWhole
  <2>5. CountInv' /\ MonitorListens'
    BY <1>1, <2>1, <2>3 DEF CanInv, CountInv, MonitorListens
  <2>6. FiltersInv'
    BY <1>1, <1>3, <2>1, <2>3 DEF CanInv, FiltersInv, Working
  <2>7. StreakInv'
    BY <1>1, <1>3, <2>1, <2>3 DEF CanInv, StreakInv
  <2>8. QED
    BY <2>4, <2>5, <2>6, <2>7 DEF CanInv
<1>4. CASE FailOn(can) /\ UNCHANGED dirty
  BY <1>1, <1>4, FailOnStep
<1>5. QED
  BY <1>2, <1>3, <1>4 DEF ApplyFilters

(* A call's own work on the bus, with or without flow control.             *)
LEMMA WorkingStep ==
  ASSUME CanInv, RunCall \/ AwaitReplies \/ SendFlowControl
  PROVE  CanInv'
<1>0. /\ filters \in SUBSET Filters /\ dirty \in BOOLEAN /\ call \in Calls
      /\ listening \in [listener : BOOLEAN, attached : BOOLEAN]
  BY CanParts DEF CanInv
<1>1. /\ call.pc \in Working
      /\ UNCHANGED <<settings, autodetect, filters, dirty, listening>>
  BY DEF RunCall, AwaitReplies, SendFlowControl, Working
<1>2. CASE Return /\ UNCHANGED can
  BY <1>0, <1>1, <1>2, ReturnStep DEF Working
<1>3. CASE FailOn(can)
  BY <1>1, <1>3, FailOnStep DEF Working
<1>4. CASE call.op \notin {"send", "none", "monitor"} /\ GoOn("replies") /\ UNCHANGED <<can, streak>>
  <2>1. call' = [call EXCEPT !.pc = "replies"]
    BY <1>4 DEF GoOn
  <2>2. call' \in Calls /\ call'.pc = "replies" /\ call'.op = call.op /\ call'.filter = call.filter
    BY <1>0, <1>4, <2>1 DEF Calls, QueryPlaces, NoCall
  <2>3. FiltersInv' /\ MonitorListens'
    BY <1>1, <1>4, <2>2 DEF CanInv, FiltersInv, Working, MonitorListens
  <2>4. QED
    BY <1>0, <1>1, <1>4, <2>2, <2>3, CallStep DEF Working
<1>5. CASE RunCall
  <2>1. call.op \in {"send", "query", "obd_query"}
    BY <1>0, <1>5 DEF RunCall, Calls, QueryPlaces, NoCall
  <2>2. QED
    BY <1>2, <1>3, <1>4, <1>5, <2>1 DEF RunCall
<1>6. CASE AwaitReplies
  BY <1>2, <1>6 DEF AwaitReplies
<1>7. CASE SendFlowControl
  <2>1. call.op \in {"query", "obd_query"}
    BY <1>0, <1>7 DEF SendFlowControl, Calls, QueryPlaces, NoCall
  <2>2. QED
    BY <1>2, <1>3, <1>4, <1>7, <2>1 DEF SendFlowControl
<1>8. QED
  BY <1>5, <1>6, <1>7

LEMMA ListenStep ==
  ASSUME CanInv, Listen
  PROVE  CanInv'
<1>0. /\ filters \in SUBSET Filters /\ dirty \in BOOLEAN /\ call \in Calls
      /\ listening \in [listener : BOOLEAN, attached : BOOLEAN]
  BY CanParts DEF CanInv
<1>1. call.pc = "listen" /\ UNCHANGED <<can, settings, autodetect, filters, dirty>>
  BY DEF Listen
<1>2. CASE can.notifier
  <2>1. listening' = [listener |-> TRUE, attached |-> TRUE] /\ UNCHANGED streak
    BY <1>2 DEF Listen
  <2>2. call' = [call EXCEPT !.pc = "read"]
    BY <1>2 DEF Listen, GoOn
  <2>3. call' \in Calls /\ call'.pc = "read" /\ call'.op = call.op /\ call.op # "obd_query"
    BY <1>0, <1>1, <2>2 DEF Calls, QueryPlaces, NoCall
  <2>4. FiltersInv' /\ MonitorListens'
    BY <1>1, <1>2, <2>1, <2>3 DEF CanInv, FiltersInv, Working, MonitorListens
  <2>5. QED
    BY <1>0, <1>1, <2>1, <2>3, <2>4, CallStep
<1>3. CASE ~can.notifier
  BY <1>0, <1>1, <1>3, ReturnStep DEF Listen
<1>4. QED
  BY <1>2, <1>3

LEMMA EndMonitorStep ==
  ASSUME CanInv, EndMonitor
  PROVE  CanInv'
<1>1. listening \in [listener : BOOLEAN, attached : BOOLEAN]
        /\ NotListening \in [listener : BOOLEAN, attached : BOOLEAN]
  BY CanParts DEF CanInv, NotListening
<1>2. listening' \in [listener : BOOLEAN, attached : BOOLEAN]
  BY <1>1 DEF EndMonitor
<1>3. QED
  BY <1>2, ReturnStep DEF EndMonitor

(* Who only asks takes a pending error, too.                               *)
LEMMA QueryStatusStep ==
  ASSUME CanInv, QueryStatus
  PROVE  CanInv'
<1>0. /\ can \in Buses /\ Proper(can) /\ call \in Calls /\ streak \in Streaks
      /\ settings \in Settings /\ filters \in SUBSET Filters
      /\ autodetect \in BOOLEAN /\ dirty \in BOOLEAN
      /\ listening \in [listener : BOOLEAN, attached : BOOLEAN]
  BY CanParts DEF CanInv
<1>1. /\ can' = Counted(can) /\ streak' = [streak EXCEPT !.asked = TRUE] /\ call = NoCall
      /\ UNCHANGED <<settings, autodetect, filters, dirty, listening, call>>
  BY DEF QueryStatus
<1>2. /\ can' \in Buses /\ Proper(can') /\ ~can'.error
      /\ can'.notifier = can.notifier /\ can'.applied = can.applied
  BY <1>0, <1>1, CountedType DEF CanInv, CountInv
<1>3. streak' \in Streaks /\ streak'.asked
  BY <1>0, <1>1 DEF Streaks
<1>4. CanTypeOK'
  BY <1>0, <1>1, <1>2, <1>3, CanWhole
<1>5. CountInv' /\ FiltersInv' /\ MonitorListens' /\ StreakInv'
  BY <1>1, <1>2, <1>3, IdleTypes
     DEF CanInv, CountInv, FiltersInv, Working, MonitorListens, StreakInv
<1>6. QED
  BY <1>4, <1>5 DEF CanInv

LEMMA SetupStep ==
  ASSUME CanInv, Setup
  PROVE  CanInv'
<1>0. /\ can \in Buses /\ Proper(can) /\ call \in Calls
      /\ filters \in SUBSET Filters /\ dirty \in BOOLEAN
      /\ listening \in [listener : BOOLEAN, attached : BOOLEAN]
  BY CanParts DEF CanInv
<1>1. /\ streak' = NoStreak /\ call = NoCall /\ settings' \in Settings
      /\ autodetect' \in BOOLEAN /\ UNCHANGED <<filters, dirty, call>>
  BY DEF Setup
<1>2. /\ can' \in Buses /\ Proper(can') /\ (~can'.error \/ can' = can)
      /\ can'.notifier => can.notifier /\ can'.applied = can.applied
      /\ listening' \in [listener : BOOLEAN, attached : BOOLEAN]
  <2>1. CASE can' = NoBus /\ listening' = [listening EXCEPT !.attached = FALSE]
    <3>1. ~NoBus.error
      BY DEF NoBus
    <3>2. QED
      BY <1>0, <2>1, <3>1, NoBusType
  <2>2. CASE can' = (IF can.bus THEN Counted(can) ELSE can) /\ UNCHANGED listening
    <3>1. can.error => can.consecutive < MaxErrors
      BY DEF CanInv, CountInv
    <3>2. /\ Counted(can) \in Buses /\ Proper(Counted(can)) /\ ~Counted(can).error
          /\ Counted(can).notifier = can.notifier /\ Counted(can).applied = can.applied
      BY <1>0, <3>1, CountedType
    <3>3. QED
      BY <1>0, <2>2, <3>2
  <2>3. QED
    BY <2>1, <2>2 DEF Setup
<1>3. CanTypeOK'
  BY <1>0, <1>1, <1>2, IdleTypes, CanWhole
<1>4. CountInv' /\ FiltersInv' /\ MonitorListens'
  BY <1>1, <1>2, IdleTypes DEF CanInv, CountInv, FiltersInv, Working, MonitorListens
<1>5. StreakInv'
  <2>1. can'.consecutive \in Nat
    BY <1>2 DEF Buses
  <2>2. QED
    BY <1>1, <2>1, IdleTypes DEF StreakInv
<1>6. QED
  BY <1>3, <1>4, <1>5 DEF CanInv

LEMMA CanInvStep == CanInv /\ [CanNext]_canVars => CanInv'
<1> SUFFICES ASSUME CanInv, [CanNext]_canVars PROVE CanInv'
  OBVIOUS
<1>1. CASE CanNext
  BY <1>1, BeginCallStep, EnterCallStep, EnsureFilterStep, EnsureOpenAgainStep,
     ApplyFiltersStep, WorkingStep, ListenStep, EndMonitorStep, QueryStatusStep, SetupStep
     DEF CanNext
<1>2. CASE UNCHANGED canVars
  <2>1. CanTypeOK' = CanTypeOK /\ CountInv' = CountInv /\ FiltersInv' = FiltersInv
    BY <1>2 DEF canVars, CanTypeOK, CountInv, FiltersInv, Working
  <2>2. MonitorListens' = MonitorListens /\ StreakInv' = StreakInv
    BY <1>2 DEF canVars, MonitorListens, StreakInv
  <2>3. QED
    BY <2>1, <2>2 DEF CanInv
<1>3. QED
  BY <1>1, <1>2

LEMMA CanInvariant == CanSpec => []CanInv
  BY CanInvInit, CanInvStep, PTL DEF CanSpec

-----------------------------------------------------------------------------
(* What follows.                                                           *)

(* The variables of CANConn keep their types; in particular no error is    *)
(* counted beyond the limit.                                               *)
THEOREM CanTypes == CanSpec => []CanTypeOK
<1>1. CanInv => CanTypeOK
  BY DEF CanInv
<1>2. QED
  BY <1>1, CanInvariant, PTL

(* What outlives a bus is in force on the next one.  An OBD query runs     *)
(* with the filter it asked for and no other, whatever failed or was       *)
(* opened again, even in its middle (_is_filters_dirty), and a monitor that reads is    *)
(* heard of by the notifier (monitor_until).                               *)
THEOREM KeptAcrossBuses == CanSpec => []OutlivesBus
<1>1. CanInv => FiltersInForce
  BY DEF CanInv, FiltersInv, Working, FiltersInForce, OnBus
<1>2. CanInv => MonitorListens
  BY DEF CanInv
<1>3. CanInv => OutlivesBus
  BY <1>1, <1>2 DEF OutlivesBus
<1>4. QED
  BY <1>3, CanInvariant, PTL

(* A bus is given up after MaxErrors calls in a row that failed, when each *)
(* of them asks once whether it is open and nobody else does (is_open):    *)
(* no status is queried, no filter applied and no flow control frame sent. *)
THEOREM GivesUp == CanSpec => []GivesUpUnlessAsked
<1>1. CanInv => GivesUpUnlessAsked
  <2> SUFFICES ASSUME CanInv, ~streak.asked PROVE streak.calls <= MaxErrors
    BY DEF GivesUpUnlessAsked, GivesUpAfterErrors
  <2>1. can \in Buses /\ streak \in Streaks
    BY CanParts DEF CanInv
  <2>2. can.consecutive \in 0..MaxErrors /\ streak.calls \in 0..(MaxErrors + 1)
    BY <2>1 DEF Buses, Streaks
  <2>3. can.error => can.consecutive < MaxErrors
    BY DEF CanInv, CountInv
  <2>4. streak.calls <= can.consecutive + (IF can.error THEN 1 ELSE 0)
    BY DEF CanInv, StreakInv
  <2>5. QED
    BY <2>2, <2>3, <2>4, CanAssumption
<1>2. QED
  BY <1>1, CanInvariant, PTL

-----------------------------------------------------------------------------
(* Modem line. *)

Places == {"idle", "write", "read", "echo, write", "echo, read", "tell"}
Nexts == {"idle", "list", "parse", "next"}
Handlers == [pc : Places, cmd : ModemCommands, then : Nexts, todo : SUBSET (Slots \X MessageIds)]

-----------------------------------------------------------------------------
(* Types.                                                                  *)

LEMMA CommandTypes ==
  /\ \A name \in CommandNames \ {"delete"} : Command(name, 0) \in ModemCommands
  /\ \A slot \in Slots : Command("delete", slot) \in ModemCommands
  BY DEF Command, ModemCommands

LEMMA NoHandlerType == NoHandler \in Handlers
  BY CommandTypes DEF NoHandler, Handlers, Places, Nexts, CommandNames

LEMMA ExecTypes ==
  ASSUME NEW cmd \in ModemCommands, NEW then \in Nexts, NEW todo \in SUBSET (Slots \X MessageIds),
         Exec(cmd, then, todo)
  PROVE  handler' \in Handlers /\ handler'.pc = "write"
  BY DEF Exec, Handlers, Places

(* Whatever answer comes, the handler goes on to write or to read again,   *)
(* to tell of a message, or it is done.                                    *)
LEMMA ReceivedTypes ==
  ASSUME handler \in Handlers, Using, handler.pc # "write", NEW a, a.messages \in SUBSET (Slots \X MessageIds)
  PROVE  /\ Received(a) \in Handlers
         /\ handler.pc \in {"echo, write", "read"} => Received(a).pc \in {"idle", "write", "tell"}
         /\ handler.pc = "echo, read" => Received(a).pc = "read" /\ Received(a).cmd = handler.cmd
<1> USE DEF Handlers, Places, Nexts
<1>1. \A todo \in SUBSET (Slots \X MessageIds) :
        NextMessage(todo) \in Handlers /\ NextMessage(todo).pc \in {"idle", "tell"}
  BY NoHandlerType DEF NextMessage, NoHandler
<1>2. CASE handler.pc # "read"
  <2>1. Received(a) = [handler EXCEPT !.pc = IF @ = "echo, write" THEN "write" ELSE "read"]
    BY <1>2 DEF Received
  <2>2. handler.pc \in {"echo, write", "echo, read"}
    BY <1>2 DEF Using
  <2>3. QED
    BY <2>1, <2>2
<1>3. CASE handler.pc = "read" /\ handler.then = "list"
  <2>1. Received(a) = [NoHandler EXCEPT !.pc = "write", !.cmd = Command("list", 0), !.then = "parse"]
    BY <1>3 DEF Received
  <2>2. Command("list", 0) \in ModemCommands
    BY CommandTypes DEF CommandNames
  <2>3. QED
    BY <1>3, <2>1, <2>2, NoHandlerType
<1>4. CASE handler.pc = "read" /\ handler.then = "parse"
  <2>1. Received(a) = NextMessage(a.messages)
    BY <1>4 DEF Received
  <2>2. QED
    BY <1>1, <1>4, <2>1
<1>5. CASE handler.pc = "read" /\ handler.then \in {"idle", "next"}
  <2>1. Received(a) = NextMessage(handler.todo)
    BY <1>5 DEF Received
  <2>2. QED
    BY <1>1, <1>5, <2>1
<1>6. QED
  BY <1>2, <1>3, <1>4, <1>5

(* The modem, its line and the handler keep their types (serial_conn.py    *)
(* and ec2x_manager.py).                                                   *)
THEOREM ModemTypes == ModemSpec => []ModemTypeOK
<1>1. ModemInit => ModemTypeOK
  <2> SUFFICES ASSUME ModemInit PROVE ModemTypeOK
    OBVIOUS
  <2> USE DEF ModemInit
  <2>1. stored \in [Slots -> MessageIds \union {NoMessage}]
    OBVIOUS
  <2>2. arrived \in 0..MaxMessages /\ timeouts \in 0..MaxTimeouts /\ closes \in 0..MaxCloses
    BY ModemAssumption
  <2>3. asked \in Seq(ModemCommands) /\ line \in Seq(Answers)
    OBVIOUS
  <2>4. handler \in Handlers
    BY NoHandlerType
  <2>5. {port, late} \subseteq BOOLEAN /\ {told, unread} \subseteq SUBSET MessageIds
    OBVIOUS
  <2>6. QED
    BY <2>1, <2>2, <2>3, <2>4, <2>5 DEF ModemTypeOK, Handlers, Places, Nexts
<1>2. ModemTypeOK /\ [ModemNext]_modemVars => ModemTypeOK'
  <2> SUFFICES ASSUME ModemTypeOK, [ModemNext]_modemVars
               PROVE  ModemTypeOK'
    OBVIOUS
  <2>0. handler \in Handlers
    BY DEF ModemTypeOK, Handlers, Places, Nexts
  <2>a. stored \in [Slots -> MessageIds \union {NoMessage}] /\ told \subseteq MessageIds
          /\ unread \subseteq MessageIds
    BY DEF ModemTypeOK
  <2>b. asked \in Seq(ModemCommands) /\ line \in Seq(Answers)
    BY DEF ModemTypeOK
  <2>c. arrived \in 0..MaxMessages /\ timeouts \in 0..MaxTimeouts /\ closes \in 0..MaxCloses
    BY DEF ModemTypeOK
  <2>d. port \in BOOLEAN /\ late \in BOOLEAN
    BY DEF ModemTypeOK
  <2>e. MaxMessages \in Nat /\ MaxTimeouts \in Nat /\ MaxCloses \in Nat
    BY ModemAssumption
  <2>f. ASSUME stored' \in [Slots -> MessageIds \union {NoMessage}], told' \subseteq MessageIds,
               unread' \subseteq MessageIds, asked' \in Seq(ModemCommands), line' \in Seq(Answers),
               arrived' \in 0..MaxMessages, timeouts' \in 0..MaxTimeouts,
               closes' \in 0..MaxCloses, port' \in BOOLEAN, late' \in BOOLEAN,
               handler' \in Handlers
        PROVE  ModemTypeOK'
    BY <2>f DEF ModemTypeOK, Handlers, Places, Nexts
  <2>h. ASSUME handler' \in Handlers, UNCHANGED <<stored, arrived, unread>>,
               asked' \in Seq(ModemCommands), line' \in Seq(Answers),
               port' \in BOOLEAN, late' \in BOOLEAN, timeouts' \in 0..MaxTimeouts,
               closes' \in 0..MaxCloses, told' \subseteq MessageIds
        PROVE  ModemTypeOK'
    BY <2>a, <2>c, <2>f, <2>h
  <2>1. CASE MessageArrives
    <3>1. arrived + 1 \in MessageIds
      BY <2>1, <2>c, <2>e DEF MessageArrives, MessageIds
    <3>2. arrived' \in 0..MaxMessages
      BY <2>1, <2>c, <2>e DEF MessageArrives
    <3>3. stored' \in [Slots -> MessageIds \union {NoMessage}]
      BY <2>1, <3>1, <2>a DEF MessageArrives
    <3>4. QED
      BY <2>0, <2>1, <2>a, <2>b, <2>c, <2>d, <2>f, <3>2, <3>3 DEF MessageArrives
  <2>2. CASE ModemAnswers
    <3> DEFINE c == Head(asked)
               a == Answer(c.name, IF c.name = "list" THEN Listed ELSE {})
    <3>1. c \in ModemCommands /\ Tail(asked) \in Seq(ModemCommands)
      BY <2>2, <2>b DEF ModemAnswers
    <3>2. Listed \subseteq Slots \X MessageIds
      BY <2>a DEF Listed
    <3>3. a \in Answers
      <4>1. c.name \in CommandNames
        BY <3>1 DEF ModemCommands, CommandNames
      <4>2. (IF c.name = "list" THEN Listed ELSE {}) \in SUBSET (Slots \X MessageIds)
        BY <3>2
      <4>3. QED
        BY <4>1, <4>2 DEF Answer, Answers
    <3>4. line' \in Seq(Answers)
      <4> HIDE DEF a
      <4>1. line' = IF port THEN Append(line, a) ELSE line
        BY <2>2 DEF ModemAnswers, a
      <4>2. QED
        BY <2>b, <3>3, <4>1
    <3>5. stored' \in [Slots -> MessageIds \union {NoMessage}] /\ unread' \subseteq MessageIds
      <4>1. CASE c.name = "delete" /\ stored[c.slot] # NoMessage
        <5>1. stored' = [stored EXCEPT ![c.slot] = NoMessage]
              /\ unread' = unread \union ({stored[c.slot]} \ told)
          BY <2>2, <4>1 DEF ModemAnswers
        <5>2. c.slot \in Slots
          BY <3>1, <4>1 DEF ModemCommands
        <5>3. QED
          BY <2>a, <4>1, <5>1, <5>2
      <4>2. CASE ~(c.name = "delete" /\ stored[c.slot] # NoMessage)
        BY <2>2, <2>a, <4>2 DEF ModemAnswers
      <4>3. QED
        BY <4>1, <4>2
    <3>6. asked' = Tail(asked) /\ UNCHANGED <<arrived, port, handler, timeouts, closes, late, told>>
      BY <2>2 DEF ModemAnswers
    <3>7. QED
      BY <2>0, <2>a, <2>c, <2>d, <2>f, <3>1, <3>4, <3>5, <3>6
  <2>3. CASE OpenPort
    <3>1. handler' \in Handlers
      BY <2>0, <2>3 DEF OpenPort, Handlers, Places
    <3>2. asked' \in Seq(ModemCommands)
      <4>1. Command("echo", 0) \in ModemCommands
        BY CommandTypes DEF CommandNames
      <4>2. asked' = Append(asked, Command("echo", 0))
        BY <2>3 DEF OpenPort
      <4>3. QED
        BY <2>b, <4>1, <4>2
    <3>3. line' \in Seq(Answers) /\ port' \in BOOLEAN /\ late' \in BOOLEAN
      <4>1. line' = <<>> /\ port' = TRUE
        BY <2>3 DEF OpenPort
      <4>2. late' = (asked # <<>>)
        BY <2>3 DEF OpenPort
      <4>3. QED
        BY <4>1, <4>2
    <3>4. QED
      BY <2>3, <3>1, <3>2, <3>3, <2>a, <2>b, <2>c, <2>d, <2>h DEF OpenPort
  <2>4. CASE PortFails \/ RestartModemService
    <3>1. handler' = NoHandler
      BY <2>4 DEF PortFails, RestartModemService
    <3>2. closes' \in 0..MaxCloses /\ port' \in BOOLEAN /\ late' \in BOOLEAN
      <4>1. closes' \in {closes, closes + 1} /\ (closes' # closes => closes < MaxCloses)
        BY <2>4 DEF PortFails, RestartModemService
      <4>2. closes' \in 0..MaxCloses
        BY <2>c, <2>e, <4>1
      <4>3. port' \in {FALSE, port} /\ late' \in {late, late \/ Outstanding}
        BY <2>4 DEF PortFails, RestartModemService
      <4>4. QED
        BY <2>d, <4>2, <4>3
    <3>3. QED
      BY <2>4, <3>1, <3>2, <2>a, <2>b, <2>c, <2>d, <2>h, NoHandlerType DEF PortFails, RestartModemService
  <2>5. CASE WriteLine
    <3>1. asked' \in Seq(ModemCommands)
      BY <2>0, <2>5, <2>b DEF WriteLine, Handlers
    <3>2. handler' \in Handlers
      BY <2>0, <2>5 DEF WriteLine, Handlers, Places
    <3>3. QED
      BY <2>5, <3>1, <3>2, <2>a, <2>b, <2>c, <2>d, <2>h DEF WriteLine
  <2>6. CASE ReadUntil
    <3>1. Head(line) \in Answers /\ line' \in Seq(Answers)
      BY <2>6, <2>b DEF ReadUntil
    <3>2. handler' \in Handlers
      BY <2>0, <2>6, <3>1, ReceivedTypes DEF ReadUntil, Awaiting, Using, Answers
    <3>3. QED
      BY <2>6, <3>1, <3>2, <2>a, <2>b, <2>c, <2>d, <2>h DEF ReadUntil
  <2>7. CASE ReadTimesOut
    <3>1. Answer("none", {}).messages \in SUBSET (Slots \X MessageIds)
      BY DEF Answer
    <3>2. handler' \in Handlers
      BY <2>0, <2>7, <3>1, ReceivedTypes DEF ReadTimesOut, Awaiting, Using
    <3>3. timeouts' \in 0..MaxTimeouts /\ late' = TRUE
      BY <2>7, <2>c, <2>d, <2>e DEF ReadTimesOut
    <3>4. QED
      BY <2>7, <3>2, <3>3, <2>a, <2>b, <2>c, <2>d, <2>h DEF ReadTimesOut
  <2>8. CASE StartReadSms \/ StartExec
    <3>1. Command("format", 0) \in ModemCommands /\ Command("other", 0) \in ModemCommands
      BY CommandTypes DEF CommandNames
    <3>2. handler' \in Handlers
      BY <2>8, <3>1, ExecTypes DEF StartReadSms, StartExec, Nexts
    <3>3. QED
      BY <2>8, <3>2, <2>a, <2>b, <2>c, <2>d, <2>h DEF StartReadSms, StartExec
  <2>9. CASE TellMessage
    <3>1. PICK m \in handler.todo :
            /\ told' = told \union {m[2]}
            /\ Exec(Command("delete", m[1]), "next", handler.todo \ {m})
      BY <2>9 DEF TellMessage
    <3>2. handler.todo \in SUBSET (Slots \X MessageIds)
      BY <2>0 DEF Handlers
    <3>3. m[1] \in Slots /\ m[2] \in MessageIds
      BY <3>1, <3>2
    <3>4. Command("delete", m[1]) \in ModemCommands
      BY <3>3, CommandTypes DEF CommandNames
    <3>5. handler' \in Handlers
      BY <3>1, <3>2, <3>4, ExecTypes DEF Nexts
    <3>6. told' \in SUBSET MessageIds
      BY <2>a, <3>1, <3>3
    <3>7. QED
      BY <2>9, <3>5, <3>6, <2>a, <2>b, <2>c, <2>d, <2>h DEF TellMessage
  <2>10. CASE ClosePort
    <3>1. closes' \in 0..MaxCloses /\ port' \in BOOLEAN /\ late' \in BOOLEAN
      <4>1. closes' \in {closes, closes + 1} /\ (closes' # closes => closes < MaxCloses)
        BY <2>10 DEF ClosePort
      <4>2. closes' \in 0..MaxCloses
        BY <2>c, <2>e, <4>1
      <4>3. port' \in {FALSE, port} /\ late' \in {late, late \/ Outstanding}
        BY <2>10 DEF ClosePort
      <4>4. QED
        BY <2>d, <4>2, <4>3
    <3>2. QED
      BY <2>0, <2>10, <3>1, <2>a, <2>b, <2>c, <2>d, <2>h DEF ClosePort
  <2>11. CASE UNCHANGED modemVars
    BY <2>11 DEF modemVars, ModemTypeOK
  <2>12. QED
    BY <2>1, <2>2, <2>3, <2>4, <2>5, <2>6, <2>7, <2>8, <2>9, <2>10, <2>11 DEF ModemNext
<1>3. QED
  BY <1>1, <1>2, PTL DEF ModemSpec

-----------------------------------------------------------------------------
(* Answers come in turn.                                                   *)

Quiet == line = <<>> /\ asked = <<>>
Coming == Awaiting /\ line = <<>> /\ \E c \in ModemCommands : asked = <<c>> /\ c.name = Awaited
Come == Awaiting /\ asked = <<>> /\ \E a \in Answers : line = <<a>> /\ a.to = Awaited

(* The inductive invariant: unless an answer was given up, nothing is on   *)
(* its way, or one answer is, and the handler waits for it.                *)
InTurn == late \/ Quiet \/ Coming \/ Come

LEMMA InTurnInit == ModemInit => InTurn
  BY DEF ModemInit, InTurn, Quiet

(* The handler that is served leaves the line alone, or asks once.         *)
LEMMA InTurnHandler ==
  ASSUME ModemTypeOK, InTurn, PortFails \/ WriteLine \/ StartReadSms \/ StartExec \/ TellMessage
  PROVE  InTurn'
<1>1. UNCHANGED <<line, late, port>> /\ (port => ~Awaiting)
  <2>1. UNCHANGED <<line, late, port>>
    BY DEF PortFails, WriteLine, StartReadSms, StartExec, TellMessage
  <2>2. ~port \/ handler.pc \in {"write", "idle", "tell"}
    BY DEF PortFails, WriteLine, StartReadSms, StartExec, TellMessage, NoHandler
  <2>3. QED
    BY <2>1, <2>2 DEF Awaiting
<1>2. CASE late \/ port
  <2>1. CASE late
    BY <1>1, <2>1 DEF InTurn
  <2>2. CASE port /\ ~late
    <3>1. Quiet
      BY <1>1, <2>2 DEF InTurn, Coming, Come
    <3>2. CASE WriteLine
      <4>1. handler.cmd \in ModemCommands
        BY DEF ModemTypeOK
      <4>2. asked' = <<handler.cmd>>
        BY <3>1, <3>2 DEF WriteLine, Quiet
      <4>3. handler'.pc = "read" /\ handler'.cmd = handler.cmd
        BY <3>2 DEF WriteLine, ModemTypeOK
      <4>4. Awaiting' /\ Awaited' = handler.cmd.name
        BY <1>1, <2>2, <4>3 DEF Awaiting, Awaited
      <4>5. line' = <<>>
        BY <1>1, <3>1 DEF Quiet
      <4>6. Coming'
        BY <4>1, <4>2, <4>4, <4>5 DEF Coming
      <4>7. QED
        BY <4>6 DEF InTurn
    <3>3. CASE ~WriteLine
      BY <1>1, <3>1, <3>3 DEF InTurn, Quiet, PortFails, StartReadSms, StartExec, TellMessage
    <3>4. QED
      BY <3>2, <3>3
  <2>3. QED
    BY <1>2, <2>1, <2>2
<1>3. CASE ~late /\ ~port
  <2>1. Quiet
    BY <1>3 DEF InTurn, Coming, Come, Awaiting
  <2>2. UNCHANGED <<line, asked>>
    BY <1>3 DEF PortFails, WriteLine, StartReadSms, StartExec, TellMessage
  <2>3. QED
    BY <2>1, <2>2 DEF InTurn, Quiet
<1>4. QED
  BY <1>2, <1>3

(* The port that is opened has no answers, and one command is asked.       *)
LEMMA InTurnOpen ==
  ASSUME ModemTypeOK, InTurn, OpenPort
  PROVE  InTurn'
<1>1. line' = <<>> /\ port' = TRUE /\ late' = (asked # <<>>)
        /\ asked' = Append(asked, Command("echo", 0))
  BY DEF OpenPort
<1>2. CASE asked # <<>>
  BY <1>1, <1>2 DEF InTurn
<1>3. CASE asked = <<>>
  <2>1. asked' = <<Command("echo", 0)>> /\ Command("echo", 0) \in ModemCommands
    BY <1>1, <1>3, CommandTypes DEF CommandNames
  <2>2. handler'.pc \in {"echo, write", "echo, read"}
    BY DEF OpenPort, Using, ModemTypeOK
  <2>3. Awaiting' /\ Awaited' = "echo"
    BY <1>1, <2>2 DEF Awaiting, Awaited
  <2>4. Coming'
    BY <1>1, <2>1, <2>3 DEF Coming, Command
  <2>5. QED
    BY <2>4 DEF InTurn
<1>4. QED
  BY <1>2, <1>3

(* The modem answers what is asked; with the port closed nothing is.       *)
LEMMA InTurnAnswer ==
  ASSUME ModemTypeOK, InTurn, ModemAnswers
  PROVE  InTurn'
<1>1. CASE late
  BY <1>1 DEF ModemAnswers, InTurn
<1>2. CASE ~late
  <2>1. Coming
    BY <1>2 DEF InTurn, Quiet, Come, ModemAnswers
  <2>2. PICK c \in ModemCommands : asked = <<c>> /\ c.name = Awaited
    BY <2>1 DEF Coming
  <2> DEFINE a == Answer(c.name, IF c.name = "list" THEN Listed ELSE {})
  <2>3. a \in Answers /\ a.to = Awaited
    <3>1. c.name \in CommandNames
      BY <2>2 DEF ModemCommands, CommandNames
    <3>2. Listed \subseteq Slots \X MessageIds
      <4>1. stored \in [Slots -> MessageIds \union {NoMessage}]
        BY DEF ModemTypeOK
      <4>2. QED
        BY <4>1 DEF Listed
    <3>3. QED
      BY <2>2, <3>1, <3>2 DEF Answer, Answers
  <2>4. line' = <<a>>
    <3>0. port /\ Head(asked) = c
      <4>1. port
        BY <2>1 DEF Coming, Awaiting
      <4>2. Head(asked) = c
        BY <2>2
      <4>3. QED
        BY <4>1, <4>2
    <3>1. line' = Append(line, a)
      BY <3>0 DEF ModemAnswers
    <3> HIDE DEF a
    <3>2. QED
      BY <2>1, <3>1 DEF Coming
  <2>5. asked' = <<>>
    BY <2>2 DEF ModemAnswers
  <2>6. Awaiting' /\ Awaited' = Awaited
    BY <2>1 DEF ModemAnswers, Coming, Awaiting, Awaited
  <2> HIDE DEF a
  <2>7. Come'
    BY <2>3, <2>4, <2>5, <2>6 DEF Come
  <2>8. QED
    BY <2>7 DEF InTurn
<1>3. QED
  BY <1>1, <1>2

(* A read takes the one answer there is.                                   *)
LEMMA InTurnRead ==
  ASSUME ModemTypeOK, InTurn, ReadUntil
  PROVE  InTurn' /\ (~late => Head(line).to = Awaited)
<1>1. CASE late
  BY <1>1 DEF ReadUntil, InTurn
<1>2. CASE ~late
  <2>1. Come
    BY <1>2 DEF InTurn, Quiet, Coming, ReadUntil
  <2>2. PICK a \in Answers : line = <<a>> /\ a.to = Awaited
    BY <2>1 DEF Come
  <2>3. line' = <<>> /\ asked' = <<>> /\ Head(line) = a
    BY <2>1, <2>2 DEF ReadUntil, Come
  <2>4. QED
    BY <2>2, <2>3 DEF InTurn, Quiet
<1>3. QED
  BY <1>1, <1>2

LEMMA InTurnStep ==
  ASSUME ModemTypeOK, InTurn, [ModemNext]_modemVars
  PROVE  InTurn'
<1>1. CASE MessageArrives \/ UNCHANGED modemVars
  BY <1>1 DEF MessageArrives, modemVars, InTurn, Quiet, Coming, Come, Awaiting, Awaited
<1>2. CASE ReadTimesOut
  BY <1>2 DEF ReadTimesOut, InTurn
<1>3. CASE ClosePort \/ RestartModemService
  <2>1. late' = (late \/ Outstanding) /\ UNCHANGED <<line, asked>>
    BY <1>3 DEF ClosePort, RestartModemService
  <2>2. QED
    BY <2>1 DEF InTurn, Quiet, Outstanding
<1>4. QED
  BY <1>1, <1>2, <1>3, InTurnHandler, InTurnOpen, InTurnAnswer, InTurnRead DEF ModemNext

(* Whoever closes and opens the port, and whatever was read before: as     *)
(* long as no answer was given up since it was opened, each read returns   *)
(* the answer to the command it waits for (serial_conn.py, read_until).    *)
THEOREM AnswersInTurn == ModemSpec => AnswerIsForCommand
<1>1. ModemTypeOK /\ InTurn /\ [ModemNext]_modemVars => InTurn'
  BY InTurnStep
<1>2. ModemTypeOK /\ InTurn /\ [ModemNext]_modemVars =>
        [line # <<>> /\ line' = Tail(line) /\ Awaiting /\ ~late => Head(line).to = Awaited]_modemVars
  <2> SUFFICES ASSUME InTurn, line # <<>>, Awaiting, ~late
               PROVE  Head(line).to = Awaited
    OBVIOUS
  <2>1. PICK a \in Answers : line = <<a>> /\ a.to = Awaited
    BY DEF InTurn, Quiet, Coming, Come
  <2>2. QED
    BY <2>1
<1>3. QED
  BY <1>1, <1>2, InTurnInit, ModemTypes, PTL DEF ModemSpec, AnswerIsForCommand

-----------------------------------------------------------------------------
(* Messages are told of before they are deleted.                           *)

(* What is on its way to the handler: the answers that can still be read,  *)
(* and the commands whose answers come after them.                         *)
Buffer == IF port THEN line ELSE <<>>
Item(l, a, p) == IF p <= Len(l) THEN l[p].to ELSE a[p - Len(l)].name
Items(l, a) == [p \in 1..(Len(l) + Len(a)) |-> Item(l, a, p)]
Count == Len(Buffer) + Len(asked)

(* Each read that timed out and each time that the port was closed leaves  *)
(* one answer more on its way than the handler waits for.                  *)
GivenUp == timeouts + closes
ComingBounded == Count <= GivenUp + (IF Awaiting THEN 1 ELSE 0)

(* What the handler does next, and what it has left to do.                 *)
HandlerOK(h) ==
  /\ h \in Handlers
  /\ \/ (h.pc = "idle" \/ h.pc = "tell") /\ h.cmd.name = "none"
     \/ /\ ~(h.pc = "idle" \/ h.pc = "tell")
        /\ \/ h.cmd.name = "format" /\ h.then = "list" /\ h.todo = {}
           \/ h.cmd.name = "list"   /\ h.then = "parse" /\ h.todo = {}
           \/ h.cmd.name = "other"  /\ h.then = "idle" /\ h.todo = {}
           \/ h.cmd.name = "delete" /\ h.then = "next"
  /\ h.pc = "idle" => h.todo = {}

(* Which commands were the last: the handler asks for the format before it *)
(* asks for a list, and ATE1 is sent whenever the port is opened.          *)
LastIs(h, x) ==
  /\ h.pc = "write" /\ h.cmd.name = "list" => x = "format" \/ x = "echo"
  /\ h.pc = "read" => x = h.cmd.name \/ x = "echo"
  /\ h.pc = "echo, write" \/ h.pc = "echo, read" => x = "echo"
LastAre(h, x, y) ==
  (h.pc = "read" \/ h.pc = "echo, read") /\ h.cmd.name = "list" =>
    /\ y = "list" => x = "format" \/ x = "echo"
    /\ y = "echo" => x = "list" \/ x = "echo"
LastSent(h, f, n) == (n > 0 => LastIs(h, f[n])) /\ (n > 1 => LastAre(h, f[n - 1], f[n]))

(* The read, counted from the next one, that is parsed as a list, at the   *)
(* earliest.                                                               *)
Opening(h) == h.pc = "echo, write" \/ h.pc = "echo, read"
Ahead(h) ==
  IF h.pc = "tell" THEN 3
  ELSE IF h.pc = "idle" \/ h.cmd.name = "format" THEN 2
  ELSE IF h.cmd.name = "list" THEN 1
  ELSE IF h.todo = {} THEN 3 ELSE 4
Turns(h) == IF Opening(h) THEN Ahead(h) + 1 ELSE Ahead(h)

(* The slots of the commands to delete that the modem has not carried out, *)
(* and the one that the handler is about to write.                         *)
Claimed(a, slot) == \E q \in 1..Len(a) : a[q].name = "delete" /\ a[q].slot = slot
Unwritten(h) == (h.pc = "write" \/ h.pc = "echo, write") /\ h.cmd.name = "delete"

(* An answer that may be parsed lists what is stored; what is deleted was  *)
(* told of; and no slot is to be emptied twice.                            *)
Holds(s, list) == \A m \in list : s[m[1]] = m[2]
AnswersInv ==
  \A p \in 1..Len(line) :
    /\ line[p].to # "list" => line[p].messages = {}
    /\ port /\ p >= Turns(handler) => Holds(stored, line[p].messages)
DeletesOK(a, s, t) ==
  \A q \in 1..Len(a) : a[q].name = "delete" =>
    /\ s[a[q].slot] \in t
    /\ \A r \in 1..Len(a) : a[r].name = "delete" /\ a[r].slot = a[q].slot => r = q
HandlerDeletes(h, a, s, t) ==
  /\ Unwritten(h) => s[h.cmd.slot] \in t /\ ~Claimed(a, h.cmd.slot)
  /\ Holds(s, h.todo)
  /\ \A m \in h.todo : ~Claimed(a, m[1]) /\ (Unwritten(h) => m[1] # h.cmd.slot)

SafeInv ==
  /\ AnswersInv
  /\ DeletesOK(asked, stored, told)
  /\ HandlerDeletes(handler, asked, stored, told)
  /\ unread = {}

OrderInv == HandlerOK(handler) /\ ComingBounded /\ LastSent(handler, Items(Buffer, asked), Count)
ModemInv == OrderInv /\ (GivenUp <= 2 => SafeInv)

LEMMA ModemParts ==
  ASSUME ModemTypeOK
  PROVE  /\ stored \in [Slots -> MessageIds \union {NoMessage}]
         /\ asked \in Seq(ModemCommands) /\ line \in Seq(Answers) /\ Buffer \in Seq(Answers)
         /\ Len(asked) \in Nat /\ Len(line) \in Nat /\ Len(Buffer) \in Nat /\ Count \in Nat
         /\ port \in BOOLEAN /\ handler \in Handlers /\ told \subseteq MessageIds
         /\ timeouts \in Nat /\ closes \in Nat /\ GivenUp \in Nat /\ arrived \in Nat
<1>1. /\ stored \in [Slots -> MessageIds \union {NoMessage}]
      /\ asked \in Seq(ModemCommands) /\ line \in Seq(Answers)
      /\ port \in BOOLEAN /\ handler \in Handlers /\ told \subseteq MessageIds
  BY DEF ModemTypeOK, Handlers, Places, Nexts
<1>2. timeouts \in Nat /\ closes \in Nat /\ arrived \in Nat
  <2>1. timeouts \in 0..MaxTimeouts /\ closes \in 0..MaxCloses /\ arrived \in 0..MaxMessages
    BY DEF ModemTypeOK
  <2>2. QED
    BY <2>1, ModemAssumption
<1>3. Buffer \in Seq(Answers)
  BY <1>1 DEF Buffer
<1>4. Len(asked) \in Nat /\ Len(line) \in Nat /\ Len(Buffer) \in Nat
  BY <1>1, <1>3
<1>5. QED
  BY <1>1, <1>2, <1>3, <1>4 DEF Count, GivenUp

-----------------------------------------------------------------------------
(* What is on its way.                                                     *)

(* The last m of n.                                                        *)
Suffix(g, m, f, n) == m <= n /\ \A p \in 1..m : g[p] = f[p + (n - m)]

LEMMA LastOfSuffix ==
  ASSUME NEW h, NEW f, NEW n \in Nat, NEW g, NEW m \in Nat, Suffix(g, m, f, n), LastSent(h, f, n)
  PROVE  LastSent(h, g, m)
<1>1. m > 0 => g[m] = f[n] /\ n > 0
  <2>1. m > 0 => m \in 1..m /\ m + (n - m) = n
    OBVIOUS
  <2>2. QED
    BY <2>1 DEF Suffix
<1>2. m > 1 => g[m - 1] = f[n - 1] /\ n > 1
  <2>1. m > 1 => m - 1 \in 1..m /\ (m - 1) + (n - m) = n - 1
    OBVIOUS
  <2>2. QED
    BY <2>1 DEF Suffix
<1>3. QED
  BY <1>1, <1>2 DEF LastSent

LEMMA ItemsAppended ==
  ASSUME NEW l \in Seq(Answers), NEW a \in Seq(ModemCommands), NEW c \in ModemCommands
  PROVE  /\ Len(Append(a, c)) = Len(a) + 1
         /\ \A p \in 1..(Len(l) + Len(a)) : Items(l, Append(a, c))[p] = Items(l, a)[p]
         /\ Items(l, Append(a, c))[Len(l) + Len(a) + 1] = c.name
<1> DEFINE b == Append(a, c)
<1>1. Len(b) = Len(a) + 1 /\ Len(l) \in Nat /\ Len(a) \in Nat
  OBVIOUS
<1>2. (\A k \in 1..Len(a) : b[k] = a[k]) /\ b[Len(a) + 1] = c
  OBVIOUS
<1> HIDE DEF b
<1>3. ASSUME NEW p \in 1..(Len(l) + Len(a)) PROVE Items(l, b)[p] = Items(l, a)[p]
  <2>1. p \in 1..(Len(l) + Len(b))
    BY <1>1
  <2>2. p <= Len(l) \/ p - Len(l) \in 1..Len(a)
    BY <1>1
  <2>3. QED
    BY <1>2, <2>1, <2>2 DEF Items, Item
<1>4. Items(l, b)[Len(l) + Len(a) + 1] = c.name
  <2> DEFINE p == Len(l) + Len(a) + 1
  <2>1. p \in 1..(Len(l) + Len(b)) /\ ~(p <= Len(l)) /\ p - Len(l) = Len(a) + 1
    BY <1>1
  <2>2. QED
    BY <1>2, <2>1 DEF Items, Item
<1>5. QED
  BY <1>1, <1>3, <1>4 DEF b

LEMMA ItemsAnswered ==
  ASSUME NEW l \in Seq(Answers), NEW a \in Seq(ModemCommands), a # <<>>,
         NEW x \in Answers, x.to = Head(a).name
  PROVE  /\ Len(Append(l, x)) + Len(Tail(a)) = Len(l) + Len(a)
         /\ \A p \in 1..(Len(l) + Len(a)) : Items(Append(l, x), Tail(a))[p] = Items(l, a)[p]
<1> DEFINE k == Append(l, x)
           b == Tail(a)
<1>1. /\ Len(k) = Len(l) + 1 /\ Len(b) = Len(a) - 1 /\ Len(l) \in Nat /\ Len(a) \in Nat \ {0}
      /\ b \in Seq(ModemCommands)
  OBVIOUS
<1>2. /\ \A i \in 1..Len(l) : k[i] = l[i]
      /\ k[Len(l) + 1] = x /\ Head(a) = a[1]
      /\ \A i \in 1..(Len(a) - 1) : b[i] = a[i + 1]
  OBVIOUS
<1> HIDE DEF k, b
<1>3. ASSUME NEW p \in 1..(Len(l) + Len(a)) PROVE Items(k, b)[p] = Items(l, a)[p]
  <2>0. p \in 1..(Len(k) + Len(b)) /\ p \in Nat
    BY <1>1
  <2>1. CASE p <= Len(l)
    <3>1. p \in 1..Len(l) /\ p <= Len(k)
      BY <1>1, <2>1
    <3>2. QED
      BY <1>2, <2>0, <2>1, <3>1 DEF Items, Item
  <2>2. CASE p = Len(l) + 1
    <3>1. p <= Len(k) /\ ~(p <= Len(l)) /\ p - Len(l) = 1
      BY <1>1, <2>2
    <3>2. QED
      BY <1>2, <2>0, <2>2, <3>1 DEF Items, Item
  <2>3. CASE p > Len(l) + 1
    <3> DEFINE i == p - Len(k)
    <3>1. /\ ~(p <= Len(k)) /\ ~(p <= Len(l)) /\ i \in 1..(Len(a) - 1) /\ p - Len(l) = i + 1
      BY <1>1, <2>3
    <3>2. Items(k, b)[p] = b[i].name
      BY <2>0, <3>1 DEF Items, Item
    <3>3. Items(l, a)[p] = a[i + 1].name
      BY <2>0, <3>1 DEF Items, Item
    <3>4. QED
      BY <1>2, <3>1, <3>2, <3>3
  <2>4. QED
    BY <1>1, <2>1, <2>2, <2>3
<1>4. QED
  BY <1>1, <1>3 DEF k, b

LEMMA ItemsRead ==
  ASSUME NEW l \in Seq(Answers), NEW a \in Seq(ModemCommands), l # <<>>
  PROVE  Suffix(Items(Tail(l), a), Len(Tail(l)) + Len(a), Items(l, a), Len(l) + Len(a))
<1> DEFINE k == Tail(l)
<1>1. Len(k) = Len(l) - 1 /\ Len(l) \in Nat \ {0} /\ Len(a) \in Nat
  OBVIOUS
<1>2. \A i \in 1..(Len(l) - 1) : k[i] = l[i + 1]
  OBVIOUS
<1> HIDE DEF k
<1>3. ASSUME NEW p \in 1..(Len(k) + Len(a)) PROVE Items(k, a)[p] = Items(l, a)[p + 1]
  <2>1. p + 1 \in 1..(Len(l) + Len(a)) /\ p \in Nat
    BY <1>1
  <2>2. CASE p <= Len(k)
    <3>1. p \in 1..(Len(l) - 1) /\ p + 1 <= Len(l)
      BY <1>1, <2>2
    <3>2. QED
      BY <1>2, <2>1, <2>2, <3>1 DEF Items, Item
  <2>3. CASE ~(p <= Len(k))
    <3>1. ~(p + 1 <= Len(l)) /\ p - Len(k) = p + 1 - Len(l)
      BY <1>1, <2>1, <2>3
    <3>2. QED
      BY <2>1, <2>3, <3>1 DEF Items, Item
  <2>4. QED
    BY <2>2, <2>3
<1>4. (Len(l) + Len(a)) - (Len(k) + Len(a)) = 1 /\ Len(k) + Len(a) <= Len(l) + Len(a)
  BY <1>1
<1>5. QED
  BY <1>3, <1>4 DEF Suffix, k

LEMMA ItemsLost ==
  ASSUME NEW l \in Seq(Answers), NEW a \in Seq(ModemCommands)
  PROVE  Suffix(Items(<<>>, a), Len(a), Items(l, a), Len(l) + Len(a))
<1>1. Len(l) \in Nat /\ Len(a) \in Nat
  OBVIOUS
<1> DEFINE none == <<>>
<1>2. Len(none) = 0
  OBVIOUS
<1> HIDE DEF none
<1>3. ASSUME NEW p \in 1..Len(a) PROVE Items(none, a)[p] = Items(l, a)[p + Len(l)]
  <2>1. /\ p + Len(l) \in 1..(Len(l) + Len(a)) /\ p \in 1..(Len(none) + Len(a)) /\ p \in Nat
        /\ ~(p <= Len(none)) /\ ~(p + Len(l) <= Len(l))
        /\ p - Len(none) = p /\ p + Len(l) - Len(l) = p
    BY <1>1, <1>2
  <2>2. QED
    BY <2>1 DEF Items, Item
<1>4. (Len(l) + Len(a)) - Len(a) = Len(l) /\ Len(a) <= Len(l) + Len(a)
  BY <1>1
<1>5. QED
  BY <1>3, <1>4 DEF Suffix, none

LEMMA ItemsDropped ==
  ASSUME NEW a \in Seq(ModemCommands), a # <<>>
  PROVE  Suffix(Items(<<>>, Tail(a)), Len(Tail(a)), Items(<<>>, a), Len(a))
<1> DEFINE b == Tail(a)
           none == <<>>
<1>1. Len(b) = Len(a) - 1 /\ Len(a) \in Nat \ {0} /\ Len(none) = 0
  OBVIOUS
<1>2. \A i \in 1..(Len(a) - 1) : b[i] = a[i + 1]
  OBVIOUS
<1> HIDE DEF b, none
<1>3. ASSUME NEW p \in 1..Len(b) PROVE Items(none, b)[p] = Items(none, a)[p + 1]
  <2>1. /\ p \in 1..(Len(none) + Len(b)) /\ p + 1 \in 1..(Len(none) + Len(a)) /\ p \in Nat
        /\ ~(p <= Len(none)) /\ ~(p + 1 <= Len(none)) /\ p - Len(none) = p
        /\ (p + 1) - Len(none) = p + 1 /\ p \in 1..(Len(a) - 1)
    BY <1>1
  <2>2. QED
    BY <1>2, <2>1 DEF Items, Item
<1>4. Len(a) - Len(b) = 1 /\ Len(b) <= Len(a)
  BY <1>1
<1>5. QED
  BY <1>3, <1>4 DEF Suffix, b, none

-----------------------------------------------------------------------------
(* What the handler does with an answer.                                   *)

Reading(h) == h.pc = "read" \/ h.pc = "echo, write" \/ h.pc = "echo, read"
Same(g, h) == g.cmd = h.cmd /\ g.then = h.then /\ g.todo = h.todo
Done(g) == (g.pc = "idle" \/ g.pc = "tell") /\ g.cmd.name = "none"

(* The handler g after h has read an answer with these messages.           *)
Goes(g, h, list) ==
  \/ h.pc = "echo, write" /\ g.pc = "write" /\ Same(g, h)
  \/ h.pc = "echo, read" /\ g.pc = "read" /\ Same(g, h)
  \/ h.pc = "read" /\ h.cmd.name = "format" /\ g.pc = "write" /\ g.cmd.name = "list" /\ g.todo = {}
  \/ h.pc = "read" /\ h.cmd.name = "list" /\ Done(g) /\ g.todo = list
  \/ h.pc = "read" /\ h.cmd.name = "delete" /\ Done(g) /\ g.todo = h.todo
  \/ h.pc = "read" /\ h.cmd.name = "other" /\ Done(g) /\ g.todo = {}

LEMMA NextMessageGoes ==
  ASSUME NEW todo \in SUBSET (Slots \X MessageIds)
  PROVE  HandlerOK(NextMessage(todo)) /\ Done(NextMessage(todo)) /\ NextMessage(todo).todo = todo
<1>1. NoHandler.cmd.name = "none" /\ NoHandler.pc = "idle" /\ NoHandler.todo = {}
  BY DEF NoHandler, Command
<1>2. CASE todo = {}
  BY <1>1, <1>2, NoHandlerType DEF NextMessage, HandlerOK, Done
<1>3. CASE todo # {}
  <2> DEFINE g == [NoHandler EXCEPT !.pc = "tell", !.todo = todo]
  <2>1. g \in Handlers /\ g.pc = "tell" /\ g.todo = todo /\ g.cmd = NoHandler.cmd
    BY NoHandlerType DEF Handlers, Places
  <2>2. NextMessage(todo) = g
    BY <1>3 DEF NextMessage
  <2> HIDE DEF g
  <2>3. QED
    BY <1>1, <2>1, <2>2 DEF HandlerOK, Done
<1>4. QED
  BY <1>2, <1>3

LEMMA HandlerGoes ==
  ASSUME HandlerOK(handler), Reading(handler), NEW a, a.messages \in SUBSET (Slots \X MessageIds)
  PROVE  HandlerOK(Received(a)) /\ Goes(Received(a), handler, a.messages)
<1>0. handler \in Handlers
  BY DEF HandlerOK
<1>1. CASE handler.pc = "echo, write"
  <2> DEFINE g == [handler EXCEPT !.pc = "write"]
  <2>1. Received(a) = g
    BY <1>1 DEF Received
  <2>2. g \in Handlers /\ g.pc = "write" /\ Same(g, handler)
    BY <1>0 DEF Handlers, Places, Same
  <2> HIDE DEF g
  <2>3. QED
    BY <1>1, <2>1, <2>2 DEF Goes, HandlerOK, Same
<1>2. CASE handler.pc = "echo, read"
  <2> DEFINE g == [handler EXCEPT !.pc = "read"]
  <2>1. Received(a) = g
    BY <1>2 DEF Received
  <2>2. g \in Handlers /\ g.pc = "read" /\ Same(g, handler)
    BY <1>0 DEF Handlers, Places, Same
  <2> HIDE DEF g
  <2>3. QED
    BY <1>2, <2>1, <2>2 DEF Goes, HandlerOK, Same
<1>3. CASE handler.pc = "read" /\ handler.cmd.name = "format"
  <2> DEFINE g == [NoHandler EXCEPT !.pc = "write", !.cmd = Command("list", 0), !.then = "parse"]
  <2>1. Received(a) = g
    BY <1>3 DEF Received, HandlerOK
  <2>2. Command("list", 0) \in ModemCommands /\ Command("list", 0).name = "list"
    BY CommandTypes DEF Command, CommandNames
  <2>3. /\ g \in Handlers /\ g.pc = "write" /\ g.cmd = Command("list", 0)
        /\ g.then = "parse" /\ g.todo = NoHandler.todo
    BY <2>2, NoHandlerType DEF Handlers, Places, Nexts
  <2>4. NoHandler.todo = {}
    BY DEF NoHandler
  <2> HIDE DEF g
  <2>5. QED
    BY <1>3, <2>1, <2>2, <2>3, <2>4 DEF Goes, HandlerOK
<1>4. CASE handler.pc = "read" /\ handler.cmd.name = "list"
  <2>1. Received(a) = NextMessage(a.messages)
    BY <1>4 DEF Received, HandlerOK
  <2>2. QED
    BY <1>4, <2>1, NextMessageGoes DEF Goes
<1>5. CASE handler.pc = "read" /\ (handler.cmd.name = "delete" \/ handler.cmd.name = "other")
  <2>1. Received(a) = NextMessage(handler.todo)
    BY <1>5 DEF Received, HandlerOK
  <2>2. handler.todo \in SUBSET (Slots \X MessageIds)
    BY <1>0 DEF Handlers
  <2>3. handler.cmd.name = "other" => handler.todo = {}
    BY <1>5 DEF HandlerOK
  <2>4. QED
    BY <1>5, <2>1, <2>2, <2>3, NextMessageGoes DEF Goes
<1>6. QED
  BY <1>1, <1>2, <1>3, <1>4, <1>5 DEF HandlerOK, Reading

(* The list is asked for after an answer to the format or an echo.         *)
LEMMA LastOfRead ==
  ASSUME NEW g, NEW h, NEW list, Goes(g, h, list), NEW f, NEW n, LastSent(h, f, n)
  PROVE  LastSent(g, f, n)
<1>1. ASSUME NEW x, LastIs(h, x) PROVE LastIs(g, x)
  BY <1>1 DEF LastIs, Goes, Same, Done
<1>2. ASSUME NEW x, NEW y, LastAre(h, x, y) PROVE LastAre(g, x, y)
  BY <1>2 DEF LastAre, Goes, Same, Done
<1>3. QED
  BY <1>1, <1>2 DEF LastSent

LEMMA AheadIs ==
  ASSUME NEW h, HandlerOK(h)
  PROVE  \/ h.pc = "tell" /\ Ahead(h) = 3
         \/ h.pc = "idle" /\ Ahead(h) = 2
         \/ /\ h.pc # "tell" /\ h.pc # "idle"
            /\ \/ h.cmd.name = "format" /\ Ahead(h) = 2
               \/ h.cmd.name = "list" /\ Ahead(h) = 1
               \/ (h.cmd.name = "delete" \/ h.cmd.name = "other") /\ h.todo = {} /\ Ahead(h) = 3
               \/ h.cmd.name = "delete" /\ h.todo # {} /\ Ahead(h) = 4
BY DEF Ahead, HandlerOK

(* After a read the next list is parsed one read sooner, at the earliest.  *)
LEMMA TurnsOfRead ==
  ASSUME NEW g, NEW h, HandlerOK(h), HandlerOK(g), NEW list, Goes(g, h, list)
  PROVE  Turns(g) \in Nat /\ Turns(h) \in Nat /\ Turns(g) >= Turns(h) - 1
<1> DEFINE k == Ahead(h)
           i == Ahead(g)
           t == Turns(h)
           u == Turns(g)
<1>1. CASE (h.pc = "echo, write" \/ h.pc = "echo, read") /\ (g.pc = "write" \/ g.pc = "read") /\ Same(g, h)
  <2>1. i = k
    BY <1>1 DEF Same, Ahead
  <2>2. k \in Nat
    BY AheadIs
  <2>3. u = i /\ t = k + 1
    BY <1>1 DEF Turns, Opening
  <2> HIDE DEF i, k, t, u
  <2>4. u \in Nat /\ t \in Nat /\ u >= t - 1
    BY <2>1, <2>2, <2>3
  <2>5. QED
    BY <2>4 DEF t, u
<1>2. CASE h.pc = "read" /\ (g.pc = "write" \/ Done(g))
  <2>1. u = i /\ t = k
    BY <1>2 DEF Turns, Opening, Done
  <2>2. \/ g.pc = "tell" /\ i = 3
        \/ g.pc = "idle" /\ i = 2
        \/ g.pc # "tell" /\ g.pc # "idle" /\ (i = 1 \/ i = 2 \/ i = 3 \/ i = 4)
    BY AheadIs
  <2>3. \/ h.cmd.name = "format" /\ k = 2
        \/ h.cmd.name = "list" /\ k = 1
        \/ h.cmd.name = "other" /\ k = 3
        \/ h.cmd.name = "delete" /\ h.todo = {} /\ k = 3
        \/ h.cmd.name = "delete" /\ h.todo # {} /\ k = 4
    BY <1>2, AheadIs
  <2>4. h.cmd.name = "delete" => g.todo = h.todo /\ Done(g)
    BY <1>2 DEF Goes
  <2>5. h.cmd.name = "other" => Done(g)
    BY <1>2 DEF Goes
  <2> HIDE DEF i, k, t, u
  <2>6. Done(g) => i >= 2
    BY <2>2 DEF Done
  <2>7. h.cmd.name = "delete" /\ h.todo # {} => i = 3
    BY <2>2, <2>4 DEF Done, HandlerOK
  <2>8. i >= 1 /\ i \in Nat /\ k \in Nat
    BY <2>2, <2>3
  <2>9. i >= k - 1
    BY <2>3, <2>4, <2>5, <2>6, <2>7, <2>8
  <2>10. u \in Nat /\ t \in Nat /\ u >= t - 1
    BY <2>1, <2>8, <2>9
  <2>11. QED
    BY <2>10 DEF t, u
<1>3. QED
  BY <1>1, <1>2 DEF Goes

-----------------------------------------------------------------------------
(* What may be parsed.                                                     *)

(* With two answers given up, at most, no command to delete comes after a  *)
(* list that may be parsed, nor is the handler to send one.                *)
LEMMA NoneBehind ==
  ASSUME NEW h, HandlerOK(h), NEW f, NEW n \in Nat, LastSent(h, f, n),
         n <= 3, n = 3 => Reading(h),
         NEW p \in 1..n, p >= Turns(h), f[p] = "list"
  PROVE  /\ \A q \in 1..n : q > p => f[q] # "delete"
         /\ ~Unwritten(h) /\ h.todo = {}
<1> DEFINE t == Turns(h)
           k == Ahead(h)
<1>0. p \in Nat /\ 1 <= p /\ p <= n /\ n <= 3 /\ (n = 3 => Reading(h))
  OBVIOUS
<1>a. p >= t /\ (t = k \/ t = k + 1) /\ (Opening(h) => t = k + 1)
  BY DEF Turns
<1>b. \/ h.pc = "tell" /\ k = 3
      \/ h.pc = "idle" /\ k = 2
      \/ /\ h.pc # "tell" /\ h.pc # "idle"
         /\ \/ h.cmd.name = "format" /\ k = 2
            \/ h.cmd.name = "list" /\ k = 1
            \/ (h.cmd.name = "delete" \/ h.cmd.name = "other") /\ h.todo = {} /\ k = 3
            \/ h.cmd.name = "delete" /\ h.todo # {} /\ k = 4
  BY AheadIs
<1> HIDE DEF t, k
<1>c. k \in Nat /\ k >= 1 /\ t >= k /\ t \in Nat
  BY <1>a, <1>b
<1>d. h.todo # {} => h.pc = "tell" \/ h.cmd.name = "delete"
  BY DEF HandlerOK
<1>1. ~Unwritten(h)
  <2>1. CASE Unwritten(h)
    <3>1. h.pc # "tell" /\ h.pc # "idle" /\ h.cmd.name = "delete"
      BY <2>1 DEF Unwritten
    <3>2. k = 3 \/ k = 4
      BY <1>b, <3>1
    <3>3. CASE h.pc = "write"
      <4>1. n < 3
        BY <1>0, <3>3 DEF Reading
      <4>2. QED
        BY <1>0, <1>a, <1>c, <3>2, <4>1
    <3>4. CASE h.pc = "echo, write"
      <4>1. t = k + 1
        BY <1>a, <3>4 DEF Opening
      <4>2. QED
        BY <1>0, <1>a, <1>c, <3>2, <4>1
    <3>5. QED
      BY <2>1, <3>3, <3>4 DEF Unwritten
  <2>2. QED
    BY <2>1
<1>2. h.todo = {}
  <2>1. CASE h.pc = "tell"
    <3>1. n < 3
      BY <1>0, <2>1 DEF Reading
    <3>2. k = 3
      BY <1>b, <2>1
    <3>3. QED
      BY <1>0, <1>a, <1>c, <3>1, <3>2
  <2>2. CASE h.pc # "tell" /\ h.todo # {}
    <3>1. k = 4
      BY <1>b, <1>d, <2>2 DEF HandlerOK
    <3>2. QED
      BY <1>0, <1>a, <1>c, <3>1
  <2>3. QED
    BY <2>1, <2>2
<1>3. ASSUME NEW q \in 1..n, q > p
      PROVE  f[q] # "delete"
  <2>1. q = n \/ q = n - 1
    BY <1>0, <1>3
  <2>2. n > 0 /\ n > 1
    BY <1>0, <1>3
  <2>3. LastIs(h, f[n]) /\ LastAre(h, f[n - 1], f[n])
    BY <2>2 DEF LastSent
  <2>4. CASE h.cmd.name = "list" /\ h.pc = "read"
    <3>1. f[n] # "delete" /\ f[n - 1] # "delete"
      BY <2>3, <2>4 DEF LastIs, LastAre
    <3>2. QED
      BY <2>1, <3>1
  <2>5. CASE p = 1
    <3>1. k = 1 /\ t = 1
      BY <1>a, <1>c, <2>5
    <3>2. h.pc # "tell" /\ h.pc # "idle" /\ h.cmd.name = "list"
      BY <1>b, <3>1
    <3>3. h.pc # "echo, write" /\ h.pc # "echo, read"
      <4>1. ~Opening(h)
        BY <1>a, <3>1
      <4>2. QED
        BY <4>1 DEF Opening
    <3>4. CASE h.pc = "write"
      <4>1. n < 3
        BY <1>0, <3>4 DEF Reading
      <4>2. q = n
        BY <1>0, <1>3, <2>5, <4>1
      <4>3. QED
        BY <2>3, <3>2, <3>4, <4>2 DEF LastIs
    <3>5. h.pc = "write" \/ h.pc = "read"
      BY <3>2, <3>3 DEF HandlerOK, Handlers, Places
    <3>6. QED
      BY <2>4, <3>2, <3>4, <3>5
  <2>6. CASE p = 2
    <3>1. q = n /\ n = 3
      BY <1>0, <1>3, <2>6
    <3>2. Reading(h)
      BY <1>0, <3>1
    <3>3. CASE h.pc = "echo, write" \/ h.pc = "echo, read"
      BY <2>3, <3>1, <3>3 DEF LastIs
    <3>4. CASE h.pc = "read"
      <4>1. k <= 2
        BY <1>a, <1>c, <2>6
      <4>2. h.cmd.name = "format" \/ h.cmd.name = "list"
        BY <1>b, <3>4, <4>1
      <4>3. f[n] # "delete"
        BY <2>3, <3>4, <4>2 DEF LastIs
      <4>4. QED
        BY <3>1, <4>3
    <3>5. QED
      BY <3>2, <3>3, <3>4 DEF Reading
  <2>7. QED
    BY <1>0, <1>3, <2>5, <2>6
<1>4. QED
  BY <1>1, <1>2, <1>3

LEMMA NoDeleteBehind ==
  ASSUME ModemTypeOK, OrderInv, GivenUp <= 2, port, NEW p \in 1..Count, p >= Turns(handler),
         Items(Buffer, asked)[p] = "list"
  PROVE  \A q \in 1..Count : q > p => Items(Buffer, asked)[q] # "delete"
<1> DEFINE f == Items(Buffer, asked)
           n == Count
<1>1. HandlerOK(handler) /\ LastSent(handler, f, n) /\ n \in Nat /\ GivenUp \in Nat
  BY ModemParts DEF OrderInv
<1>2. n <= GivenUp + (IF Awaiting THEN 1 ELSE 0) /\ (Awaiting => Reading(handler))
  BY DEF OrderInv, ComingBounded, Awaiting, Reading
<1> HIDE DEF f, n
<1>3. n <= 3 /\ (n = 3 => Reading(handler))
  BY <1>1, <1>2
<1>4. f[p] = "list" /\ p \in 1..n
  BY DEF f, n
<1>5. \A q \in 1..n : q > p => f[q] # "delete"
  BY <1>1, <1>3, <1>4, NoneBehind
<1>6. QED
  BY <1>5 DEF f, n

-----------------------------------------------------------------------------
(* What is deleted.                                                        *)

(* Nothing that is stored changes.                                         *)
Kept(s, r) == \A x \in Slots : s[x] \in MessageIds => r[x] = s[x]

LEMMA HoldsKept ==
  ASSUME NEW s, NEW r, Kept(s, r), NEW list \in SUBSET (Slots \X MessageIds), Holds(s, list)
  PROVE  Holds(r, list)
<1>1. ASSUME NEW m \in list PROVE r[m[1]] = m[2]
  <2>1. m[1] \in Slots /\ m[2] \in MessageIds /\ s[m[1]] = m[2]
    BY <1>1 DEF Holds
  <2>2. QED
    BY <2>1 DEF Kept
<1>2. QED
  BY <1>1 DEF Holds

LEMMA DeletesKept ==
  ASSUME NEW s, NEW r, Kept(s, r), NEW t \in SUBSET MessageIds, NEW u, t \subseteq u,
         NEW a \in Seq(ModemCommands), DeletesOK(a, s, t)
  PROVE  DeletesOK(a, r, u)
<1>1. ASSUME NEW q \in 1..Len(a), a[q].name = "delete" PROVE r[a[q].slot] \in u
  <2>1. a[q] \in ModemCommands
    OBVIOUS
  <2>2. a[q].slot \in Slots
    BY <1>1, <2>1 DEF ModemCommands
  <2>3. s[a[q].slot] \in t
    BY <1>1 DEF DeletesOK
  <2>4. QED
    BY <2>2, <2>3 DEF Kept
<1>2. QED
  BY <1>1 DEF DeletesOK

LEMMA HandlerDeletesKept ==
  ASSUME NEW s, NEW r, Kept(s, r), NEW t \in SUBSET MessageIds, NEW u, t \subseteq u,
         NEW a, NEW h \in Handlers, HandlerDeletes(h, a, s, t)
  PROVE  HandlerDeletes(h, a, r, u)
<1>1. Unwritten(h) => r[h.cmd.slot] \in u
  <2>1. CASE Unwritten(h)
    <3>1. h.cmd \in ModemCommands /\ h.cmd.name = "delete"
      BY <2>1 DEF Handlers, Unwritten
    <3>2. h.cmd.slot \in Slots
      BY <3>1 DEF ModemCommands
    <3>3. s[h.cmd.slot] \in t
      BY <2>1 DEF HandlerDeletes
    <3>4. QED
      BY <3>2, <3>3 DEF Kept
  <2>2. QED
    BY <2>1
<1>2. h.todo \in SUBSET (Slots \X MessageIds)
  BY DEF Handlers
<1>3. Holds(r, h.todo)
  BY <1>2, HoldsKept DEF HandlerDeletes
<1>4. QED
  BY <1>1, <1>3 DEF HandlerDeletes

(* A command that is appended claims its slot only.                        *)
LEMMA ClaimedAppended ==
  ASSUME NEW a \in Seq(ModemCommands), NEW c \in ModemCommands, NEW x, Claimed(Append(a, c), x)
  PROVE  Claimed(a, x) \/ (c.name = "delete" /\ c.slot = x)
<1> DEFINE b == Append(a, c)
<1>1. /\ Len(b) = Len(a) + 1 /\ Len(a) \in Nat
      /\ b[Len(a) + 1] = c /\ \A q \in 1..Len(a) : b[q] = a[q]
  OBVIOUS
<1>2. Claimed(b, x)
  OBVIOUS
<1> HIDE DEF b
<1>3. PICK q \in 1..Len(b) : b[q].name = "delete" /\ b[q].slot = x
  BY <1>2 DEF Claimed
<1>4. q \in 1..Len(a) \/ q = Len(a) + 1
  BY <1>1
<1>5. QED
  BY <1>1, <1>3, <1>4 DEF Claimed

LEMMA DeletesAppended ==
  ASSUME NEW a \in Seq(ModemCommands), NEW c \in ModemCommands, NEW s, NEW t, DeletesOK(a, s, t),
         c.name = "delete" => s[c.slot] \in t /\ ~Claimed(a, c.slot)
  PROVE  DeletesOK(Append(a, c), s, t)
<1> DEFINE b == Append(a, c)
<1>1. /\ Len(b) = Len(a) + 1 /\ Len(a) \in Nat
      /\ b[Len(a) + 1] = c /\ \A q \in 1..Len(a) : b[q] = a[q]
  OBVIOUS
<1> HIDE DEF b
<1>2. ASSUME NEW q \in 1..Len(b), b[q].name = "delete"
      PROVE  /\ s[b[q].slot] \in t
             /\ \A r \in 1..Len(b) : b[r].name = "delete" /\ b[r].slot = b[q].slot => r = q
  <2>1. q \in 1..Len(a) \/ q = Len(a) + 1
    BY <1>1
  <2>2. s[b[q].slot] \in t
    BY <1>1, <1>2, <2>1 DEF DeletesOK
  <2>3. ASSUME NEW r \in 1..Len(b), b[r].name = "delete", b[r].slot = b[q].slot
        PROVE  r = q
    <3>1. r \in 1..Len(a) \/ r = Len(a) + 1
      BY <1>1
    <3>2. CASE q \in 1..Len(a) /\ r \in 1..Len(a)
      BY <1>1, <1>2, <2>3, <3>2 DEF DeletesOK
    <3>3. CASE q \in 1..Len(a) /\ r = Len(a) + 1
      <4>1. c.name = "delete" /\ Claimed(a, c.slot)
        BY <1>1, <1>2, <2>3, <3>3 DEF Claimed
      <4>2. QED
        BY <4>1
    <3>4. CASE q = Len(a) + 1 /\ r \in 1..Len(a)
      <4>1. c.name = "delete" /\ Claimed(a, c.slot)
        BY <1>1, <1>2, <2>3, <3>4 DEF Claimed
      <4>2. QED
        BY <4>1
    <3>5. QED
      BY <2>1, <3>1, <3>2, <3>3, <3>4
  <2>4. QED
    BY <2>2, <2>3
<1>3. DeletesOK(b, s, t)
  BY <1>2 DEF DeletesOK
<1>4. QED
  BY <1>3 DEF b

(* The command that is carried out releases its slot.                      *)
LEMMA DeletesCarriedOut ==
  ASSUME NEW a \in Seq(ModemCommands), a # <<>>, NEW s, NEW r, NEW t, DeletesOK(a, s, t),
         \A x \in Slots : (x = Head(a).slot /\ Head(a).name = "delete") \/ r[x] = s[x]
  PROVE  /\ DeletesOK(Tail(a), r, t)
         /\ \A x : Claimed(Tail(a), x) => Claimed(a, x)
         /\ Head(a).name = "delete" => Claimed(a, Head(a).slot)
<1> DEFINE b == Tail(a)
           c == Head(a)
<1>1. /\ Len(b) = Len(a) - 1 /\ Len(a) \in Nat \ {0} /\ c = a[1]
      /\ \A q \in 1..(Len(a) - 1) : b[q] = a[q + 1]
  OBVIOUS
<1> HIDE DEF b, c
<1>2. ASSUME NEW q \in 1..Len(b), b[q].name = "delete"
      PROVE  /\ r[b[q].slot] \in t
             /\ \A k \in 1..Len(b) : b[k].name = "delete" /\ b[k].slot = b[q].slot => k = q
  <2>1. q + 1 \in 1..Len(a) /\ b[q] = a[q + 1] /\ 1 \in 1..Len(a)
    BY <1>1
  <2>2. a[q + 1] \in ModemCommands
    BY <2>1
  <2>3. b[q].slot \in Slots /\ s[b[q].slot] \in t
    BY <1>2, <2>1, <2>2 DEF ModemCommands, DeletesOK
  <2>4. c.name = "delete" => c.slot # b[q].slot
    <3>1. CASE c.name = "delete" /\ c.slot = b[q].slot
      <4>1. 1 = q + 1
        BY <1>1, <1>2, <2>1, <3>1 DEF DeletesOK
      <4>2. QED
        BY <4>1
    <3>2. QED
      BY <3>1
  <2>5. r[b[q].slot] = s[b[q].slot]
    BY <2>3, <2>4 DEF c
  <2>6. ASSUME NEW k \in 1..Len(b), b[k].name = "delete", b[k].slot = b[q].slot
        PROVE  k = q
    <3>1. k + 1 \in 1..Len(a) /\ b[k] = a[k + 1]
      BY <1>1
    <3>2. k + 1 = q + 1
      BY <1>2, <2>1, <2>6, <3>1 DEF DeletesOK
    <3>3. QED
      BY <3>2
  <2>7. QED
    BY <2>3, <2>5, <2>6
<1>3. ASSUME NEW x, Claimed(b, x) PROVE Claimed(a, x)
  <2>1. PICK q \in 1..Len(b) : b[q].name = "delete" /\ b[q].slot = x
    BY <1>3 DEF Claimed
  <2>2. q + 1 \in 1..Len(a) /\ b[q] = a[q + 1]
    BY <1>1
  <2>3. QED
    BY <2>1, <2>2 DEF Claimed
<1>4. c.name = "delete" => Claimed(a, c.slot)
  <2>1. 1 \in 1..Len(a)
    BY <1>1
  <2>2. QED
    BY <1>1, <2>1 DEF Claimed
<1>5. DeletesOK(b, r, t)
  BY <1>2 DEF DeletesOK
<1>6. QED
  BY <1>3, <1>4, <1>5 DEF b, c

(* A handler that reads an answer has no more to delete, unless it lists   *)
(* messages.                                                               *)
LEMMA DeletesOfRead ==
  ASSUME NEW g, NEW h, NEW list, Goes(g, h, list), NEW a, NEW s, NEW t, HandlerDeletes(h, a, s, t),
         h.pc = "read" /\ h.cmd.name = "list" => Holds(s, list) /\ \A m \in list : ~Claimed(a, m[1])
  PROVE  HandlerDeletes(g, a, s, t)
<1>1. CASE (h.pc = "echo, write" \/ h.pc = "echo, read") /\ Same(g, h)
             /\ (g.pc = "write" <=> h.pc = "echo, write") /\ g.pc # "echo, write"
  <2>1. Unwritten(g) => Unwritten(h)
    BY <1>1 DEF Unwritten, Same
  <2>2. QED
    BY <1>1, <2>1 DEF HandlerDeletes, Same, Unwritten
<1>2. CASE h.pc = "read" /\ h.cmd.name = "list" /\ Done(g) /\ g.todo = list
  <2>1. ~Unwritten(g)
    BY <1>2 DEF Done, Unwritten
  <2>2. QED
    BY <1>2, <2>1 DEF HandlerDeletes
<1>3. CASE ~Unwritten(g) /\ (g.todo = h.todo \/ g.todo = {})
  BY <1>3 DEF HandlerDeletes, Holds
<1>4. CASE h.pc = "read" /\ h.cmd.name # "list"
  <2>1. ~Unwritten(g) /\ (g.todo = h.todo \/ g.todo = {})
    BY <1>4 DEF Goes, Unwritten, Done
  <2>2. QED
    BY <1>3, <2>1
<1>5. QED
  BY <1>1, <1>2, <1>4 DEF Goes

-----------------------------------------------------------------------------
(* Each step keeps the order of what is on its way.                        *)

LEMMA OrderIs ==
  ASSUME NEW l, Buffer' = l, NEW n, Count' = n, HandlerOK(handler'),
         LastSent(handler', Items(l, asked'), n), n <= GivenUp' + (IF Awaiting' THEN 1 ELSE 0)
  PROVE  OrderInv'
  BY DEF OrderInv, ComingBounded

LEMMA SafeIs ==
  ASSUME AnswersInv', DeletesOK(asked', stored', told'), HandlerDeletes(handler', asked', stored', told'),
         unread' = {}
  PROVE  SafeInv'
  BY DEF SafeInv

LEMMA OrderWhenQuiet ==
  ASSUME ModemTypeOK, OrderInv, MessageArrives \/ StartReadSms \/ StartExec \/ TellMessage
  PROVE  OrderInv'
<1> DEFINE n == Count
           l == Buffer
<1>1. /\ HandlerOK(handler) /\ LastSent(handler, Items(l, asked), n) /\ n \in Nat /\ GivenUp \in Nat
      /\ n <= GivenUp + (IF Awaiting THEN 1 ELSE 0)
  BY ModemParts DEF OrderInv, ComingBounded
<1>2. /\ UNCHANGED <<asked, line, port, timeouts, closes>>
  BY DEF MessageArrives, StartReadSms, StartExec, TellMessage
<1>3. Buffer' = l /\ Count' = n /\ GivenUp' = GivenUp /\ asked' = asked
  BY <1>2 DEF Buffer, Count, GivenUp
<1>4. CASE MessageArrives
  <2>1. handler' = handler /\ (Awaiting' <=> Awaiting)
    BY <1>2, <1>4 DEF MessageArrives, Awaiting
  <2> HIDE DEF n, l
  <2>2. n <= GivenUp' + (IF Awaiting' THEN 1 ELSE 0)
    BY <1>1, <1>3, <2>1
  <2>3. HandlerOK(handler') /\ LastSent(handler', Items(l, asked'), n)
    BY <1>1, <1>3, <2>1
  <2>4. QED
    BY <1>3, <2>2, <2>3, OrderIs
<1>5. CASE StartReadSms \/ StartExec \/ TellMessage
  <2>0. handler.pc = "idle" \/ handler.pc = "tell"
    BY <1>5 DEF StartReadSms, StartExec, TellMessage, NoHandler
  <2>1. ~Awaiting
    BY <2>0 DEF Awaiting
  <2>2. HandlerOK(handler') /\ handler'.pc = "write" /\ handler'.cmd.name # "list"
    <3>1. CASE StartReadSms
      <4>1. Command("format", 0) \in ModemCommands /\ Command("format", 0).name = "format"
        BY CommandTypes DEF CommandNames, Command
      <4>2. /\ handler' \in Handlers /\ handler'.pc = "write" /\ handler'.cmd = Command("format", 0)
            /\ handler'.then = "list" /\ handler'.todo = {}
        BY <3>1, <4>1 DEF StartReadSms, Exec, Handlers, Places, Nexts
      <4>3. QED
        BY <4>1, <4>2 DEF HandlerOK
    <3>2. CASE StartExec
      <4>1. Command("other", 0) \in ModemCommands /\ Command("other", 0).name = "other"
        BY CommandTypes DEF CommandNames, Command
      <4>2. /\ handler' \in Handlers /\ handler'.pc = "write" /\ handler'.cmd = Command("other", 0)
            /\ handler'.then = "idle" /\ handler'.todo = {}
        BY <3>2, <4>1 DEF StartExec, Exec, Handlers, Places, Nexts
      <4>3. QED
        BY <4>1, <4>2 DEF HandlerOK
    <3>3. CASE TellMessage
      <4>1. PICK m \in handler.todo : Exec(Command("delete", m[1]), "next", handler.todo \ {m})
        BY <3>3 DEF TellMessage
      <4>2. handler.todo \in SUBSET (Slots \X MessageIds)
        BY <1>1 DEF HandlerOK, Handlers
      <4>3. m[1] \in Slots
        BY <4>2
      <4>4. Command("delete", m[1]) \in ModemCommands /\ Command("delete", m[1]).name = "delete"
        BY <4>3, CommandTypes DEF Command
      <4>5. /\ handler' \in Handlers /\ handler'.pc = "write" /\ handler'.cmd = Command("delete", m[1])
            /\ handler'.then = "next"
        BY <4>1, <4>2, <4>4 DEF Exec, Handlers, Places, Nexts
      <4>6. QED
        BY <4>4, <4>5 DEF HandlerOK
    <3>4. QED
      BY <1>5, <3>1, <3>2, <3>3
  <2>3. LastSent(handler', Items(l, asked'), n)
    BY <2>2 DEF LastSent, LastIs, LastAre
  <2> HIDE DEF n, l
  <2>4. n <= GivenUp' + (IF Awaiting' THEN 1 ELSE 0)
    BY <1>1, <1>3, <2>1
  <2>5. QED
    BY <1>3, <2>2, <2>3, <2>4, OrderIs
<1>6. QED
  BY <1>4, <1>5

LEMMA OrderAnswered ==
  ASSUME ModemTypeOK, OrderInv, ModemAnswers
  PROVE  OrderInv'
<1> DEFINE n == Count
           f == Items(Buffer, asked)
<1>1. /\ HandlerOK(handler) /\ LastSent(handler, f, n) /\ n \in Nat /\ GivenUp \in Nat
      /\ n <= GivenUp + (IF Awaiting THEN 1 ELSE 0)
      /\ asked \in Seq(ModemCommands) /\ line \in Seq(Answers)
  BY ModemParts DEF OrderInv, ComingBounded
<1> DEFINE c == Head(asked)
           x == Answer(c.name, IF c.name = "list" THEN Listed ELSE {})
<1>2. /\ asked # <<>> /\ asked' = Tail(asked) /\ line' = IF port THEN Append(line, x) ELSE line
      /\ UNCHANGED <<port, handler, timeouts, closes>>
  BY DEF ModemAnswers
<1>3. GivenUp' = GivenUp /\ (Awaiting' <=> Awaiting) /\ handler' = handler
  BY <1>2 DEF GivenUp, Awaiting
<1>4. CASE port
  <2>1. x \in Answers /\ x.to = c.name
    <3>1. c \in ModemCommands
      BY <1>1, <1>2
    <3>2. c.name \in CommandNames
      BY <3>1 DEF ModemCommands, CommandNames
    <3>3. Listed \subseteq Slots \X MessageIds
      BY ModemParts DEF Listed
    <3>4. (IF c.name = "list" THEN Listed ELSE {}) \in SUBSET (Slots \X MessageIds)
      BY <3>3
    <3>5. QED
      BY <3>2, <3>4 DEF Answer, Answers
  <2> DEFINE m == Append(line, x)
             g == Items(m, Tail(asked))
  <2>2. Buffer = line /\ Buffer' = m /\ Count' = Len(m) + Len(Tail(asked))
    BY <1>2, <1>4 DEF Buffer, Count
  <2> HIDE DEF x
  <2>3. Len(m) + Len(Tail(asked)) = Len(line) + Len(asked)
        /\ \A p \in 1..(Len(line) + Len(asked)) : g[p] = Items(line, asked)[p]
    BY <1>1, <1>2, <2>1, ItemsAnswered DEF c
  <2>4. Count' = n /\ n = Len(line) + Len(asked) /\ f = Items(line, asked)
    BY <2>2, <2>3 DEF Count
  <2> HIDE DEF m, g, n, f, c
  <2>5. Suffix(g, n, f, n)
    <3>1. n <= n /\ n - n = 0 /\ \A p \in 1..n : p + 0 = p
      BY <1>1
    <3>2. \A p \in 1..n : g[p] = f[p]
      BY <2>3, <2>4
    <3>3. QED
      BY <3>1, <3>2 DEF Suffix
  <2>6. LastSent(handler, g, n)
    BY <1>1, <2>5, LastOfSuffix
  <2>7. n <= GivenUp' + (IF Awaiting' THEN 1 ELSE 0)
    BY <1>1, <1>3
  <2>8. Items(m, asked') = g
    BY <1>2 DEF g
  <2>9. QED
    BY <1>1, <1>3, <2>2, <2>4, <2>6, <2>7, <2>8, OrderIs
<1>5. CASE ~port
  <2> DEFINE m == Len(Tail(asked))
             g == Items(<<>>, Tail(asked))
             none == <<>>
  <2>1. Buffer = none /\ Buffer' = none /\ Len(none) = 0
    BY <1>2, <1>5 DEF Buffer
  <2>2. Count' = m /\ m = Len(asked) - 1 /\ n = Len(asked) /\ f = Items(<<>>, asked) /\ m \in Nat
    BY <1>1, <1>2, <2>1 DEF Count
  <2>3. Suffix(g, m, f, n)
    BY <1>1, <1>2, <2>2, ItemsDropped
  <2> HIDE DEF m, g, n, f, c
  <2>4. LastSent(handler, g, m)
    BY <1>1, <2>2, <2>3, LastOfSuffix
  <2>5. m <= GivenUp' + (IF Awaiting' THEN 1 ELSE 0)
    BY <1>1, <1>3, <2>2
  <2>6. Items(none, asked') = g
    BY <1>2 DEF g
  <2> HIDE DEF none
  <2>7. QED
    BY <1>1, <1>3, <2>1, <2>2, <2>4, <2>5, <2>6, OrderIs
<1>6. QED
  BY <1>4, <1>5

LEMMA OrderAppended ==
  ASSUME ModemTypeOK, OrderInv, OpenPort \/ WriteLine
  PROVE  OrderInv'
<1> DEFINE n == Count
           l == Buffer
           f == Items(l, asked)
           c == IF port THEN handler.cmd ELSE Command("echo", 0)
           g == Items(l, Append(asked, c))
<1>1. /\ HandlerOK(handler) /\ LastSent(handler, f, n) /\ n \in Nat /\ GivenUp \in Nat
      /\ n <= GivenUp + (IF Awaiting THEN 1 ELSE 0) /\ l \in Seq(Answers)
      /\ asked \in Seq(ModemCommands) /\ line \in Seq(Answers) /\ n = Len(l) + Len(asked)
  BY ModemParts DEF OrderInv, ComingBounded, Count
<1>2. /\ asked' = Append(asked, c) /\ Buffer' = l /\ Awaiting' /\ ~Awaiting
      /\ UNCHANGED <<timeouts, closes>>
  <2>1. CASE OpenPort
    <3>1. ~port /\ port' = TRUE /\ line' = <<>> /\ asked' = Append(asked, Command("echo", 0))
          /\ UNCHANGED <<timeouts, closes>>
      BY <2>1 DEF OpenPort
    <3>2. handler'.pc = "echo, write" \/ handler'.pc = "echo, read"
      BY <1>1, <2>1 DEF OpenPort, Using, HandlerOK, Handlers
    <3>3. QED
      BY <3>1, <3>2 DEF Buffer, Awaiting
  <2>2. CASE WriteLine
    <3>1. port /\ handler.pc = "write" /\ handler' = [handler EXCEPT !.pc = "read"]
          /\ asked' = Append(asked, handler.cmd) /\ UNCHANGED <<timeouts, closes, port, line>>
      BY <2>2 DEF WriteLine
    <3>2. handler'.pc = "read"
      BY <1>1, <3>1 DEF HandlerOK, Handlers
    <3>3. QED
      BY <3>1, <3>2 DEF Buffer, Awaiting
  <2>3. QED
    BY <2>1, <2>2
<1>3. c \in ModemCommands
  BY <1>1, CommandTypes DEF CommandNames, HandlerOK, Handlers
<1>4. GivenUp' = GivenUp
  BY <1>2 DEF GivenUp
<1>5. HandlerOK(handler') /\ LastIs(handler', c.name) /\ (n > 0 => LastAre(handler', f[n], c.name))
  <2>1. CASE OpenPort
    <3>1. c.name = "echo"
      BY <2>1 DEF OpenPort, Command
    <3>2. /\ handler' \in Handlers /\ Same(handler', handler)
          /\ \/ handler.pc = "write" /\ handler'.pc = "echo, write"
             \/ handler.pc = "read" /\ handler'.pc = "echo, read"
             \/ (handler.pc = "echo, write" \/ handler.pc = "echo, read") /\ handler'.pc = handler.pc
      BY <1>1, <2>1 DEF OpenPort, Using, HandlerOK, Handlers, Places, Same
    <3>3. HandlerOK(handler')
      BY <1>1, <3>2 DEF HandlerOK, Same
    <3>4. LastIs(handler', c.name)
      BY <3>1, <3>2 DEF LastIs
    <3>5. ASSUME n > 0 PROVE LastAre(handler', f[n], c.name)
      <4>1. LastIs(handler, f[n])
        BY <1>1, <3>5 DEF LastSent
      <4>2. QED
        BY <3>1, <3>2, <4>1 DEF LastIs, LastAre, Same
    <3>6. QED
      BY <3>3, <3>4, <3>5
  <2>2. CASE WriteLine
    <3>1. c = handler.cmd /\ handler.pc = "write"
      BY <2>2 DEF WriteLine
    <3>2. handler' \in Handlers /\ Same(handler', handler) /\ handler'.pc = "read"
      BY <1>1, <2>2 DEF WriteLine, HandlerOK, Handlers, Places, Same
    <3>3. HandlerOK(handler')
      BY <1>1, <3>1, <3>2 DEF HandlerOK, Same
    <3>4. LastIs(handler', c.name)
      BY <3>1, <3>2 DEF LastIs, Same
    <3>5. ASSUME n > 0 PROVE LastAre(handler', f[n], c.name)
      <4>1. LastIs(handler, f[n])
        BY <1>1, <3>5 DEF LastSent
      <4>2. QED
        BY <3>1, <3>2, <4>1 DEF LastIs, LastAre, Same
    <3>6. QED
      BY <3>3, <3>4, <3>5
  <2>3. QED
    BY <2>1, <2>2
<1> HIDE DEF c
<1>6. /\ Len(Append(asked, c)) = Len(asked) + 1
      /\ \A p \in 1..n : g[p] = f[p]
      /\ g[n + 1] = c.name
  BY <1>1, <1>3, ItemsAppended
<1>7. Count' = n + 1
  <2>1. Count' = Len(l) + Len(Append(asked, c))
    BY <1>2 DEF Count
  <2> HIDE DEF l, n, f, g
  <2>2. Len(l) \in Nat /\ Len(asked) \in Nat
    BY <1>1
  <2>3. QED
    BY <1>1, <1>6, <2>1, <2>2
<1>8. Items(l, asked') = g
  BY <1>2
<1> HIDE DEF l, n, f, g
<1>9. LastSent(handler', g, n + 1)
  <2>1. n + 1 > 0 /\ (n + 1) - 1 = n
    BY <1>1
  <2>2. n + 1 > 1 => n > 0 /\ g[n] = f[n]
    BY <1>1, <1>6
  <2>3. QED
    BY <1>5, <1>6, <2>1, <2>2 DEF LastSent
<1>10. n + 1 <= GivenUp' + (IF Awaiting' THEN 1 ELSE 0)
  BY <1>1, <1>2, <1>4
<1>11. QED
  BY <1>2, <1>5, <1>7, <1>8, <1>9, <1>10, OrderIs

LEMMA OrderGivenUp ==
  ASSUME ModemTypeOK, OrderInv, PortFails \/ RestartModemService \/ ClosePort
  PROVE  OrderInv'
<1> DEFINE n == Count
           m == Len(asked)
           none == <<>>
<1>1. /\ HandlerOK(handler) /\ LastSent(handler, Items(Buffer, asked), n) /\ n \in Nat /\ GivenUp \in Nat
      /\ n <= GivenUp + (IF Awaiting THEN 1 ELSE 0) /\ Buffer \in Seq(Answers)
      /\ asked \in Seq(ModemCommands) /\ n = Len(Buffer) + m /\ m \in Nat /\ Len(Buffer) \in Nat
      /\ timeouts \in Nat /\ closes \in Nat
  BY ModemParts DEF OrderInv, ComingBounded, Count
<1>2. ~port' /\ asked' = asked /\ timeouts' = timeouts
  BY DEF PortFails, RestartModemService, ClosePort
<1>3. Buffer' = none /\ Len(none) = 0
  BY <1>2 DEF Buffer
<1>4. Count' = Len(none) + m
  BY <1>2, <1>3 DEF Count
<1>5. HandlerOK(handler') /\ LastSent(handler', Items(none, asked'), m)
  <2>1. CASE PortFails \/ RestartModemService
    <3>1. handler' = NoHandler
      BY <2>1 DEF PortFails, RestartModemService
    <3>2. NoHandler.cmd.name = "none" /\ NoHandler.pc = "idle" /\ NoHandler.todo = {}
      BY DEF NoHandler, Command
    <3>3. HandlerOK(NoHandler)
      BY <3>2, NoHandlerType DEF HandlerOK
    <3>4. LastSent(NoHandler, Items(none, asked'), m)
      BY <3>2 DEF LastSent, LastIs, LastAre
    <3>5. QED
      BY <3>1, <3>3, <3>4
  <2>2. CASE ClosePort
    <3>1. handler' = handler
      BY <2>2 DEF ClosePort
    <3>2. Suffix(Items(none, asked), m, Items(Buffer, asked), n)
      BY <1>1, ItemsLost
    <3>3. LastSent(handler, Items(none, asked), m)
      BY <1>1, <3>2, LastOfSuffix
    <3>4. QED
      BY <1>1, <1>2, <3>1, <3>3
  <2>3. QED
    BY <2>1, <2>2
<1>6. n <= GivenUp + 1 /\ (~port => n <= GivenUp)
  <2> HIDE DEF n
  <2>1. ~port => ~Awaiting
    BY DEF Awaiting
  <2>2. QED
    BY <1>1, <2>1
<1>7. GivenUp' = GivenUp + 1 \/ (~port /\ GivenUp' = GivenUp)
  <2>1. (closes' = closes + 1) \/ (~port /\ closes' = closes)
    BY DEF PortFails, RestartModemService, ClosePort
  <2>2. QED
    BY <1>1, <1>2, <2>1 DEF GivenUp
<1> HIDE DEF n, m, none
<1>8. Count' = m /\ m <= n
  BY <1>1, <1>3, <1>4
<1>9. m <= GivenUp' + (IF Awaiting' THEN 1 ELSE 0)
  BY <1>1, <1>6, <1>7, <1>8
<1>10. QED
  BY <1>3, <1>5, <1>8, <1>9, OrderIs

LEMMA OrderRead ==
  ASSUME ModemTypeOK, OrderInv, ReadUntil \/ ReadTimesOut
  PROVE  /\ OrderInv'
         /\ LET a == IF ReadUntil THEN Head(line) ELSE Answer("none", {}) IN
              a.messages \in SUBSET (Slots \X MessageIds) /\ Goes(handler', handler, a.messages)
<1> DEFINE n == Count
           l == Buffer
           f == Items(l, asked)
           k == IF ReadUntil THEN Tail(line) ELSE line
           m == Len(k) + Len(asked)
           g == Items(k, asked)
           a == IF ReadUntil THEN Head(line) ELSE Answer("none", {})
<1>1. /\ HandlerOK(handler) /\ LastSent(handler, f, n) /\ n \in Nat /\ GivenUp \in Nat
      /\ n <= GivenUp + (IF Awaiting THEN 1 ELSE 0)
      /\ asked \in Seq(ModemCommands) /\ line \in Seq(Answers) /\ timeouts \in Nat /\ closes \in Nat
  BY ModemParts DEF OrderInv, ComingBounded
<1>2. /\ Awaiting /\ port /\ line' = k /\ handler' = Received(a) /\ UNCHANGED <<asked, port, closes>>
      /\ Reading(handler) /\ l = line
  BY DEF ReadUntil, ReadTimesOut, Awaiting, Reading, Buffer
<1>3. a.messages \in SUBSET (Slots \X MessageIds)
  <2>1. CASE ReadUntil
    <3>1. Head(line) \in Answers
      BY <1>1, <2>1 DEF ReadUntil
    <3>2. QED
      BY <2>1, <3>1 DEF Answers
  <2>2. CASE ~ReadUntil
    BY <2>2 DEF Answer
  <2>3. QED
    BY <2>1, <2>2
<1> HIDE DEF a
<1>4. HandlerOK(handler') /\ Goes(handler', handler, a.messages)
  BY <1>1, <1>2, <1>3, HandlerGoes
<1>5. k \in Seq(Answers) /\ Suffix(g, m, f, n) /\ n = Len(line) + Len(asked) /\ m \in Nat
      /\ (ReadUntil => m = n - 1) /\ (~ReadUntil => m = n)
  <2>1. n = Len(line) + Len(asked) /\ f = Items(line, asked)
    BY <1>2 DEF Count
  <2>2. CASE ReadUntil
    <3>1. line # <<>> /\ k = Tail(line)
      BY <2>2 DEF ReadUntil
    <3>2. Suffix(g, m, f, n)
      BY <1>1, <2>1, <3>1, ItemsRead
    <3>3. k \in Seq(Answers) /\ Len(k) = Len(line) - 1 /\ Len(line) \in Nat \ {0} /\ Len(asked) \in Nat
      BY <1>1, <3>1
    <3> HIDE DEF k, g, f, n
    <3>4. m = n - 1 /\ m \in Nat
      BY <2>1, <3>3
    <3>5. QED
      BY <2>1, <2>2, <3>2, <3>3, <3>4
  <2>3. CASE ~ReadUntil
    <3>1. k = line
      BY <2>3
    <3>2. m = n /\ g = f
      BY <2>1, <3>1
    <3> HIDE DEF n, m, g, f
    <3>3. Suffix(g, m, f, n)
      <4>1. m <= n /\ n - m = 0 /\ \A p \in 1..m : p + 0 = p
        BY <1>1, <3>2
      <4>2. QED
        BY <3>2, <4>1 DEF Suffix
    <3>4. QED
      BY <1>1, <2>1, <2>3, <3>1, <3>2, <3>3
  <2>4. QED
    BY <2>2, <2>3
<1>6. Buffer' = k /\ Count' = m /\ Items(k, asked') = g
  BY <1>2 DEF Buffer, Count
<1>7. GivenUp' = GivenUp \/ GivenUp' = GivenUp + 1
  <2>1. timeouts' = timeouts \/ timeouts' = timeouts + 1
    BY DEF ReadUntil, ReadTimesOut
  <2>2. QED
    BY <1>1, <1>2, <2>1 DEF GivenUp
<1>8. ~ReadUntil => GivenUp' = GivenUp + 1
  <2>1. ~ReadUntil => timeouts' = timeouts + 1
    BY DEF ReadTimesOut
  <2>2. QED
    BY <1>1, <1>2, <2>1 DEF GivenUp
<1> HIDE DEF n, l, f, k, m, g
<1>9. LastSent(handler', g, m)
  <2>1. LastSent(handler, g, m)
    BY <1>1, <1>5, LastOfSuffix
  <2>2. QED
    BY <1>4, <2>1, LastOfRead
<1>10. m <= GivenUp' + (IF Awaiting' THEN 1 ELSE 0)
  <2>1. CASE ReadUntil
    BY <1>1, <1>2, <1>5, <1>7, <2>1
  <2>2. CASE ~ReadUntil
    BY <1>1, <1>2, <1>5, <1>8, <2>2
  <2>3. QED
    BY <2>1, <2>2
<1>11. OrderInv'
  BY <1>4, <1>6, <1>9, <1>10, OrderIs
<1>12. QED
  BY <1>3, <1>4, <1>11 DEF a

-----------------------------------------------------------------------------
(* Each step keeps what is told of before it is deleted.                   *)

LEMMA SafeParts ==
  ASSUME ModemTypeOK, OrderInv, SafeInv
  PROVE  /\ AnswersInv /\ DeletesOK(asked, stored, told) /\ HandlerDeletes(handler, asked, stored, told)
         /\ unread = {} /\ HandlerOK(handler) /\ Turns(handler) \in Nat
<1>1. /\ AnswersInv /\ DeletesOK(asked, stored, told) /\ HandlerDeletes(handler, asked, stored, told)
      /\ unread = {} /\ HandlerOK(handler)
  BY DEF SafeInv, OrderInv
<1> DEFINE i == Ahead(handler)
<1>2. i \in Nat
  BY <1>1, AheadIs
<1>3. Turns(handler) = i + 1 \/ Turns(handler) = i
  BY DEF Turns
<1> HIDE DEF i
<1>4. Turns(handler) \in Nat
  BY <1>2, <1>3
<1>5. QED
  BY <1>1, <1>4

LEMMA SafeArrives ==
  ASSUME ModemTypeOK, OrderInv, SafeInv, MessageArrives
  PROVE  SafeInv'
<1>0. /\ AnswersInv /\ DeletesOK(asked, stored, told) /\ HandlerDeletes(handler, asked, stored, told)
      /\ unread = {}
  BY SafeParts
<1> DEFINE free == {s \in Slots : stored[s] = NoMessage}
           r == [stored EXCEPT ![Min(free)] = arrived + 1]
<1>1. stored' = r /\ free # {} /\ UNCHANGED <<asked, line, port, handler, told, unread>>
  BY DEF MessageArrives
<1>2. Min(free) \in free
  BY <1>1, ModemAssumption, LeastIsMember
<1>3. Kept(stored, r)
  <2>1. stored[Min(free)] \notin MessageIds
    BY <1>2 DEF NoMessage, MessageIds
  <2>2. QED
    BY <2>1, ModemParts DEF Kept
<1> HIDE DEF free, r
<1>4. AnswersInv'
  <2>1. ASSUME NEW p \in 1..Len(line), port, p >= Turns(handler)
        PROVE  Holds(r, line[p].messages)
    <3>1. line[p].messages \in SUBSET (Slots \X MessageIds)
      <4>1. line[p] \in Answers
        BY ModemParts
      <4>2. QED
        BY <4>1 DEF Answers
    <3>2. QED
      BY <1>0, <1>3, <2>1, <3>1, HoldsKept DEF AnswersInv
  <2>2. QED
    BY <1>0, <1>1, <2>1 DEF AnswersInv
<1>5. DeletesOK(asked, r, told) /\ HandlerDeletes(handler, asked, r, told)
  BY <1>0, <1>3, ModemParts, DeletesKept, HandlerDeletesKept
<1>6. QED
  BY <1>0, <1>1, <1>4, <1>5, SafeIs

(* A command to delete removes a message that was told of, and no list     *)
(* that may be parsed has it.                                              *)
LEMMA SafeAnswers ==
  ASSUME ModemTypeOK, OrderInv, SafeInv, GivenUp <= 2, ModemAnswers
  PROVE  SafeInv'
<1>0. /\ AnswersInv /\ DeletesOK(asked, stored, told) /\ HandlerDeletes(handler, asked, stored, told)
      /\ unread = {} /\ HandlerOK(handler) /\ Turns(handler) \in Nat
  BY SafeParts
<1>a. asked \in Seq(ModemCommands) /\ line \in Seq(Answers) /\ handler \in Handlers
      /\ stored \in [Slots -> MessageIds \union {NoMessage}] /\ Len(line) \in Nat /\ Len(asked) \in Nat
      /\ told \in SUBSET MessageIds
  BY ModemParts
<1> DEFINE c == Head(asked)
           x == Answer(c.name, IF c.name = "list" THEN Listed ELSE {})
           r == stored'
<1>1. /\ asked # <<>> /\ asked' = Tail(asked) /\ line' = IF port THEN Append(line, x) ELSE line
      /\ UNCHANGED <<port, handler, told>>
  BY DEF ModemAnswers
<1>2. c \in ModemCommands /\ (c.name = "delete" => c.slot \in Slots)
  <2>1. c \in ModemCommands
    BY <1>1, <1>a
  <2>2. QED
    BY <2>1 DEF ModemCommands
<1>3. \A s \in Slots : (s = c.slot /\ c.name = "delete") \/ r[s] = stored[s]
  BY <1>a, <1>2 DEF ModemAnswers
<1>3a. c.name # "delete" => r = stored
  BY DEF ModemAnswers
<1>4. /\ DeletesOK(Tail(asked), r, told)
      /\ \A s : Claimed(Tail(asked), s) => Claimed(asked, s)
      /\ c.name = "delete" => Claimed(asked, c.slot)
  <2> HIDE DEF r
  <2>1. QED
    BY <1>0, <1>1, <1>3, <1>a, DeletesCarriedOut
<1>5. unread' = {}
  <2>1. CASE c.name = "delete" /\ stored[c.slot] # NoMessage
    <3>1. unread' = unread \union ({stored[c.slot]} \ told)
      BY <2>1 DEF ModemAnswers
    <3>2. PICK q \in 1..Len(asked) : asked[q].name = "delete" /\ asked[q].slot = c.slot
      BY <1>4, <2>1 DEF Claimed
    <3>3. stored[c.slot] \in told
      BY <1>0, <3>2 DEF DeletesOK
    <3>4. QED
      BY <1>0, <3>1, <3>3
  <2>2. CASE ~(c.name = "delete" /\ stored[c.slot] # NoMessage)
    BY <1>0, <2>2 DEF ModemAnswers
  <2>3. QED
    BY <2>1, <2>2
<1>6. HandlerDeletes(handler, Tail(asked), r, told)
  <2> HIDE DEF r
  <2>1. Unwritten(handler) => r[handler.cmd.slot] \in told /\ ~Claimed(Tail(asked), handler.cmd.slot)
    <3>1. CASE Unwritten(handler)
      <4>1. stored[handler.cmd.slot] \in told /\ ~Claimed(asked, handler.cmd.slot)
        BY <1>0, <3>1 DEF HandlerDeletes
      <4>2. handler.cmd.slot \in Slots
        <5>1. handler.cmd \in ModemCommands /\ handler.cmd.name = "delete"
          BY <1>a, <3>1 DEF Handlers, Unwritten
        <5>2. QED
          BY <5>1 DEF ModemCommands
      <4>3. r[handler.cmd.slot] = stored[handler.cmd.slot]
        BY <1>3, <1>4, <4>1, <4>2
      <4>4. QED
        BY <1>4, <4>1, <4>3
    <3>2. QED
      BY <3>1
  <2>2. ASSUME NEW m \in handler.todo
        PROVE  /\ r[m[1]] = m[2] /\ ~Claimed(Tail(asked), m[1])
               /\ Unwritten(handler) => m[1] # handler.cmd.slot
    <3>1. handler.todo \in SUBSET (Slots \X MessageIds)
      BY <1>a DEF Handlers
    <3>2. m[1] \in Slots
      BY <3>1
    <3>3. /\ stored[m[1]] = m[2] /\ ~Claimed(asked, m[1])
          /\ Unwritten(handler) => m[1] # handler.cmd.slot
      BY <1>0, <2>2 DEF HandlerDeletes, Holds
    <3>4. r[m[1]] = stored[m[1]]
      BY <1>3, <1>4, <3>2, <3>3
    <3>5. QED
      BY <1>4, <3>3, <3>4
  <2>3. QED
    BY <2>1, <2>2 DEF HandlerDeletes, Holds
<1>7. AnswersInv'
  <2>1. CASE ~port
    BY <1>0, <1>1, <2>1 DEF AnswersInv
  <2>2. CASE port
    <3>1. line' = Append(line, x)
      BY <1>1, <2>2
    <3>2. x.to = c.name /\ (x.to # "list" => x.messages = {}) /\ (x.to = "list" => Holds(r, x.messages))
      <4>1. x.to = c.name /\ x.messages = IF c.name = "list" THEN Listed ELSE {}
        BY DEF Answer
      <4>2. Holds(stored, Listed)
        BY DEF Holds, Listed
      <4> HIDE DEF x, r
      <4>3. QED
        BY <1>3a, <4>1, <4>2
    <3> HIDE DEF x, r
    <3>3. Len(line') = Len(line) + 1 /\ (\A p \in 1..Len(line) : line'[p] = line[p])
          /\ line'[Len(line) + 1] = x
      BY <1>a, <3>1
    <3>4. ASSUME NEW p \in 1..Len(line), p >= Turns(handler)
          PROVE  Holds(r, line[p].messages)
      <4>1. Holds(stored, line[p].messages) /\ (line[p].to # "list" => line[p].messages = {})
        BY <1>0, <2>2, <3>4 DEF AnswersInv
      <4>2. CASE c.name # "delete"
        BY <1>3a, <4>1, <4>2
      <4>3. CASE line[p].to # "list"
        BY <4>1, <4>3 DEF Holds
      <4>4. CASE c.name = "delete" /\ line[p].to = "list"
        <5> DEFINE f == Items(Buffer, asked)
                   q == Len(line) + 1
        <5>1. Buffer = line /\ Count = Len(line) + Len(asked) /\ Len(asked) > 0 /\ c = asked[1]
          BY <1>1, <1>a, <2>2 DEF Buffer, Count
        <5>2. p \in 1..Count /\ q \in 1..Count /\ q > p /\ p <= Len(line) /\ ~(q <= Len(line)) /\ q - Len(line) = 1
          BY <1>a, <5>1
        <5>3. f[p] = "list" /\ f[q] = "delete"
          <6>1. p \in 1..(Len(line) + Len(asked)) /\ q \in 1..(Len(line) + Len(asked))
            BY <5>1, <5>2
          <6>2. f[p] = line[p].to
            BY <5>1, <5>2, <6>1 DEF Items, Item
          <6>3. f[q] = asked[1].name
            BY <5>1, <5>2, <6>1 DEF Items, Item
          <6>4. QED
            BY <4>4, <5>1, <6>2, <6>3
        <5> HIDE DEF f, q
        <5>4. f[q] # "delete"
          BY <2>2, <3>4, <5>2, <5>3, NoDeleteBehind DEF f
        <5>5. QED
          BY <5>3, <5>4
      <4>5. QED
        BY <4>2, <4>3, <4>4
    <3>5. ASSUME NEW p \in 1..Len(line')
          PROVE  /\ line'[p].to # "list" => line'[p].messages = {}
                 /\ p >= Turns(handler) => Holds(r, line'[p].messages)
      <4>1. CASE p \in 1..Len(line)
        BY <1>0, <3>3, <3>4, <4>1 DEF AnswersInv
      <4>2. CASE p = Len(line) + 1
        BY <3>2, <3>3, <4>2 DEF Holds
      <4>3. QED
        BY <1>a, <3>3, <4>1, <4>2
    <3>6. QED
      BY <1>1, <3>5 DEF AnswersInv, r
  <2>3. QED
    BY <2>1, <2>2
<1>8. QED
  BY <1>1, <1>4, <1>5, <1>6, <1>7, SafeIs

LEMMA SafeAppended ==
  ASSUME ModemTypeOK, OrderInv, SafeInv, OpenPort \/ WriteLine
  PROVE  SafeInv'
<1> DEFINE c == IF port THEN handler.cmd ELSE Command("echo", 0)
           b == Append(asked, c)
<1>0. /\ AnswersInv /\ DeletesOK(asked, stored, told) /\ HandlerDeletes(handler, asked, stored, told)
      /\ unread = {} /\ HandlerOK(handler) /\ handler \in Handlers /\ asked \in Seq(ModemCommands)
  BY SafeParts, ModemParts
<1>1. asked' = b /\ UNCHANGED <<stored, told, unread>>
  BY DEF OpenPort, WriteLine
<1>2. c \in ModemCommands
  BY <1>0, CommandTypes DEF CommandNames, Handlers
<1>3. c.name = "delete" => Unwritten(handler) /\ c = handler.cmd
  BY DEF OpenPort, WriteLine, Unwritten, Command
<1>4. Same(handler', handler) /\ (Unwritten(handler') => Unwritten(handler) /\ c.name # "delete")
  <2>1. CASE OpenPort
    <3>1. /\ Same(handler', handler) /\ c.name # "delete"
          /\ \/ handler.pc = "write" /\ handler'.pc = "echo, write"
             \/ handler.pc = "read" /\ handler'.pc = "echo, read"
             \/ handler'.pc = handler.pc
      BY <1>0, <2>1 DEF OpenPort, Using, Handlers, Places, Same, Command
    <3>2. QED
      BY <3>1 DEF Unwritten, Same
  <2>2. CASE WriteLine
    <3>1. Same(handler', handler) /\ handler'.pc = "read"
      BY <1>0, <2>2 DEF WriteLine, Handlers, Same
    <3>2. QED
      BY <3>1 DEF Unwritten
  <2>3. QED
    BY <2>1, <2>2
<1> HIDE DEF c
<1>5. DeletesOK(b, stored, told)
  <2>1. c.name = "delete" => stored[c.slot] \in told /\ ~Claimed(asked, c.slot)
    BY <1>0, <1>3 DEF HandlerDeletes
  <2>2. QED
    BY <1>0, <1>2, <2>1, DeletesAppended
<1>6. HandlerDeletes(handler', b, stored, told)
  <2>0. \A s : Claimed(b, s) => Claimed(asked, s) \/ (c.name = "delete" /\ c.slot = s)
    BY <1>0, <1>2, ClaimedAppended
  <2> HIDE DEF b
  <2>1. Unwritten(handler') => stored[handler'.cmd.slot] \in told /\ ~Claimed(b, handler'.cmd.slot)
    BY <1>0, <1>4, <2>0 DEF HandlerDeletes, Same
  <2>2. handler'.todo = handler.todo /\ handler'.cmd = handler.cmd
    BY <1>4 DEF Same
  <2>3. ASSUME NEW m \in handler.todo
        PROVE  ~Claimed(b, m[1]) /\ (Unwritten(handler') => m[1] # handler'.cmd.slot)
    BY <1>0, <1>3, <1>4, <2>0, <2>2 DEF HandlerDeletes
  <2>4. Holds(stored, handler'.todo)
    BY <1>0, <2>2 DEF HandlerDeletes
  <2>5. QED
    BY <2>1, <2>2, <2>3, <2>4 DEF HandlerDeletes
<1>7. AnswersInv'
  <2>1. CASE OpenPort
    <3>1. line' = <<>>
      BY <2>1 DEF OpenPort
    <3>2. QED
      BY <3>1 DEF AnswersInv
  <2>2. CASE WriteLine
    <3>1. UNCHANGED <<line, port, stored>> /\ handler.pc = "write" /\ handler'.pc = "read"
      BY <1>0, <2>2 DEF WriteLine, Handlers
    <3>2. Turns(handler') = Turns(handler)
      BY <1>4, <3>1 DEF Turns, Opening, Ahead, Same
    <3>3. QED
      BY <1>0, <3>1, <3>2 DEF AnswersInv
  <2>3. QED
    BY <2>1, <2>2
<1>8. QED
  BY <1>0, <1>1, <1>5, <1>6, <1>7, SafeIs

LEMMA SafeGivenUp ==
  ASSUME ModemTypeOK, OrderInv, SafeInv, PortFails \/ RestartModemService \/ ClosePort
  PROVE  SafeInv'
<1>0. /\ AnswersInv /\ DeletesOK(asked, stored, told) /\ HandlerDeletes(handler, asked, stored, told)
      /\ unread = {}
  BY SafeParts
<1>1. ~port' /\ UNCHANGED <<asked, line, stored, told, unread>>
  BY DEF PortFails, RestartModemService, ClosePort
<1>2. AnswersInv'
  BY <1>0, <1>1 DEF AnswersInv
<1>3. HandlerDeletes(handler', asked, stored, told)
  <2>1. CASE PortFails \/ RestartModemService
    <3>1. handler' = NoHandler
      BY <2>1 DEF PortFails, RestartModemService
    <3>2. NoHandler.pc = "idle" /\ NoHandler.todo = {}
      BY DEF NoHandler
    <3>3. QED
      BY <3>1, <3>2 DEF HandlerDeletes, Unwritten, Holds
  <2>2. CASE ClosePort
    BY <1>0, <2>2 DEF ClosePort
  <2>3. QED
    BY <2>1, <2>2
<1>4. QED
  BY <1>0, <1>1, <1>2, <1>3, SafeIs

(* The handler that starts, or tells of a message, has something to write, *)
(* and parses no list any sooner.                                          *)
LEMMA SafeStarts ==
  ASSUME ModemTypeOK, OrderInv, SafeInv, StartReadSms \/ StartExec \/ TellMessage
  PROVE  SafeInv'
<1>0. /\ AnswersInv /\ DeletesOK(asked, stored, told) /\ HandlerDeletes(handler, asked, stored, told)
      /\ unread = {} /\ HandlerOK(handler) /\ handler \in Handlers /\ asked \in Seq(ModemCommands)
      /\ told \in SUBSET MessageIds /\ Turns(handler) \in Nat
  BY SafeParts, ModemParts
<1>1. UNCHANGED <<asked, line, port, stored, unread>>
  BY DEF StartReadSms, StartExec, TellMessage
<1>2. CASE StartReadSms \/ StartExec
  <2>1. handler = NoHandler /\ told' = told
    BY <1>2 DEF StartReadSms, StartExec
  <2>2. /\ handler'.pc = "write" /\ handler'.todo = {}
        /\ handler'.cmd.name = "format" \/ handler'.cmd.name = "other"
    BY <1>2 DEF StartReadSms, StartExec, Exec, Command
  <2>3. HandlerDeletes(handler', asked, stored, told)
    BY <2>2 DEF HandlerDeletes, Unwritten, Holds
  <2>4. Turns(handler) = 2
    BY <2>1 DEF Turns, Opening, Ahead, NoHandler
  <2>5. Turns(handler') = 2 \/ Turns(handler') = 3
    BY <2>2 DEF Turns, Opening, Ahead
  <2>6. AnswersInv'
    <3>1. ASSUME NEW p \in 1..Len(line), p >= Turns(handler') PROVE p >= Turns(handler)
      BY <2>4, <2>5, <3>1
    <3>2. QED
      BY <1>0, <1>1, <3>1 DEF AnswersInv
  <2>7. QED
    BY <1>0, <1>1, <2>1, <2>3, <2>6, SafeIs
<1>3. CASE TellMessage
  <2>1. PICK m \in handler.todo :
          told' = told \union {m[2]} /\ Exec(Command("delete", m[1]), "next", handler.todo \ {m})
    BY <1>3 DEF TellMessage
  <2>2. handler.todo \in SUBSET (Slots \X MessageIds)
    BY <1>0 DEF Handlers
  <2>3. /\ handler'.pc = "write" /\ handler'.todo = handler.todo \ {m}
        /\ handler'.cmd.name = "delete" /\ handler'.cmd.slot = m[1]
    BY <2>1 DEF Exec, Command
  <2>4. DeletesOK(asked, stored, told')
    <3>1. Kept(stored, stored)
      BY DEF Kept
    <3>2. told \subseteq told'
      BY <2>1
    <3>3. QED
      BY <1>0, <3>1, <3>2, DeletesKept
  <2>5. HandlerDeletes(handler', asked, stored, told')
    <3>1. stored[m[1]] = m[2] /\ ~Claimed(asked, m[1]) /\ m[2] \in told'
      BY <1>0, <2>1 DEF HandlerDeletes, Holds
    <3>2. ASSUME NEW k \in handler'.todo
          PROVE  stored[k[1]] = k[2] /\ ~Claimed(asked, k[1]) /\ k[1] # m[1]
      <4>1. k \in handler.todo /\ k # m
        BY <2>3
      <4>2. stored[k[1]] = k[2] /\ ~Claimed(asked, k[1])
        BY <1>0, <4>1 DEF HandlerDeletes, Holds
      <4>3. k = <<k[1], k[2]>> /\ m = <<m[1], m[2]>>
        BY <2>2, <4>1
      <4>4. QED
        BY <3>1, <4>1, <4>2, <4>3
    <3>3. QED
      BY <2>3, <3>1, <3>2 DEF HandlerDeletes, Holds
  <2>6. Turns(handler) = 3
    <3>1. handler.pc = "tell"
      BY <1>3 DEF TellMessage
    <3>2. QED
      BY <3>1 DEF Turns, Opening, Ahead
  <2>7. Turns(handler') = 3 \/ Turns(handler') = 4
    BY <2>3 DEF Turns, Opening, Ahead
  <2>8. AnswersInv'
    <3>1. ASSUME NEW p \in 1..Len(line), p >= Turns(handler') PROVE p >= Turns(handler)
      BY <2>6, <2>7, <3>1
    <3>2. QED
      BY <1>0, <1>1, <3>1 DEF AnswersInv
  <2>9. QED
    BY <1>0, <1>1, <2>4, <2>5, <2>8, SafeIs
<1>4. QED
  BY <1>2, <1>3

(* A list that is parsed is one of what is stored, and none of it is to be *)
(* deleted by a command that was written before.                           *)
LEMMA SafeRead ==
  ASSUME ModemTypeOK, OrderInv, SafeInv, GivenUp <= 2, ReadUntil \/ ReadTimesOut
  PROVE  SafeInv'
<1> DEFINE a == IF ReadUntil THEN Head(line) ELSE Answer("none", {})
<1>0. /\ AnswersInv /\ DeletesOK(asked, stored, told) /\ HandlerDeletes(handler, asked, stored, told)
      /\ unread = {} /\ HandlerOK(handler) /\ handler \in Handlers /\ asked \in Seq(ModemCommands)
      /\ line \in Seq(Answers) /\ Len(line) \in Nat /\ Len(asked) \in Nat
  BY SafeParts, ModemParts
<1>1. UNCHANGED <<asked, port, stored, told, unread>> /\ Awaiting /\ port
  BY DEF ReadUntil, ReadTimesOut, Awaiting
<1>2. Goes(handler', handler, a.messages)
  BY OrderRead
<1>2a. HandlerOK(handler')
  <2>1. OrderInv'
    BY OrderRead
  <2>2. QED
    BY <2>1 DEF OrderInv
<1>3. CASE ReadUntil
  <2>1. /\ a = line[1] /\ line # <<>> /\ line' = Tail(line)
        /\ Len(line') = Len(line) - 1 /\ Len(line) > 0 /\ \A p \in 1..Len(line') : line'[p] = line[p + 1]
    BY <1>0, <1>3 DEF ReadUntil
  <2>2. 1 \in 1..Len(line)
    BY <1>0, <2>1
  <2> HIDE DEF a
  <2>3. ASSUME handler.pc = "read", handler.cmd.name = "list"
        PROVE  Holds(stored, a.messages) /\ \A m \in a.messages : ~Claimed(asked, m[1])
    <3>1. Turns(handler) = 1
      BY <2>3 DEF Turns, Opening, Ahead
    <3>2. Holds(stored, a.messages)
      BY <1>0, <1>1, <2>1, <2>2, <3>1 DEF AnswersInv
    <3>3. ASSUME NEW m \in a.messages, Claimed(asked, m[1]) PROVE FALSE
      <4>1. a.to = "list"
        BY <1>0, <2>1, <2>2, <3>3 DEF AnswersInv
      <4>2. PICK j \in 1..Len(asked) : asked[j].name = "delete"
        BY <3>3 DEF Claimed
      <4> DEFINE f == Items(Buffer, asked)
                 q == Len(line) + j
      <4>3. Buffer = line /\ Count = Len(line) + Len(asked)
        BY <1>1 DEF Buffer, Count
      <4>4. /\ 1 \in 1..(Len(line) + Len(asked)) /\ q \in 1..(Len(line) + Len(asked)) /\ q > 1
            /\ 1 <= Len(line) /\ ~(q <= Len(line)) /\ q - Len(line) = j
        BY <1>0, <2>1
      <4>5. f[1] = line[1].to
        BY <4>3, <4>4 DEF Items, Item
      <4>6. f[q] = asked[j].name
        BY <4>3, <4>4 DEF Items, Item
      <4> HIDE DEF f, q
      <4>7. 1 \in 1..Count /\ q \in 1..Count /\ 1 >= Turns(handler)
        BY <3>1, <4>3, <4>4
      <4>8. f[1] = "list"
        BY <2>1, <4>1, <4>5
      <4>9. f[q] # "delete"
        BY <1>1, <4>4, <4>7, <4>8, NoDeleteBehind DEF f
      <4>10. QED
        BY <4>2, <4>6, <4>9
    <3>4. QED
      BY <3>2, <3>3
  <2>4. HandlerDeletes(handler', asked, stored, told)
    BY <1>0, <1>2, <2>3, DeletesOfRead
  <2>5. Turns(handler') \in Nat /\ Turns(handler) \in Nat /\ Turns(handler') >= Turns(handler) - 1
    BY <1>0, <1>2, <1>2a, TurnsOfRead
  <2>6. AnswersInv'
    <3>1. ASSUME NEW p \in 1..Len(line')
          PROVE  /\ p + 1 \in 1..Len(line) /\ line'[p] = line[p + 1]
                 /\ p >= Turns(handler') => p + 1 >= Turns(handler)
      BY <1>0, <2>1, <2>5
    <3>2. ASSUME NEW p \in 1..Len(line')
          PROVE  /\ line'[p].to # "list" => line'[p].messages = {}
                 /\ p >= Turns(handler') => Holds(stored, line'[p].messages)
      BY <1>0, <1>1, <3>1 DEF AnswersInv
    <3>3. QED
      BY <1>1, <3>2 DEF AnswersInv
  <2>7. QED
    BY <1>0, <1>1, <2>4, <2>6, SafeIs
<1>4. CASE ~ReadUntil
  <2>1. line = <<>> /\ line' = line /\ a.messages = {}
    BY <1>4 DEF ReadTimesOut, Answer
  <2>2. AnswersInv'
    BY <2>1 DEF AnswersInv
  <2> HIDE DEF a
  <2>3. Holds(stored, a.messages) /\ \A m \in a.messages : ~Claimed(asked, m[1])
    BY <2>1 DEF Holds
  <2>4. HandlerDeletes(handler', asked, stored, told)
    BY <1>0, <1>2, <2>3, DeletesOfRead
  <2>5. QED
    BY <1>0, <1>1, <2>2, <2>4, SafeIs
<1>5. QED
  BY <1>3, <1>4

LEMMA GivenUpGrows ==
  ASSUME ModemTypeOK, [ModemNext]_modemVars
  PROVE  GivenUp' <= 2 => GivenUp <= 2
<1>1. timeouts \in Nat /\ closes \in Nat
  BY ModemParts
<1>2. timeouts' = timeouts \/ timeouts' = timeouts + 1
  BY DEF ModemNext, modemVars, MessageArrives, ModemAnswers, OpenPort, PortFails, WriteLine,
         ReadUntil, ReadTimesOut, StartReadSms, StartExec, TellMessage, ClosePort, RestartModemService
<1>3. closes' = closes \/ closes' = closes + 1
  BY DEF ModemNext, modemVars, MessageArrives, ModemAnswers, OpenPort, PortFails, WriteLine,
         ReadUntil, ReadTimesOut, StartReadSms, StartExec, TellMessage, ClosePort, RestartModemService
<1>4. QED
  BY <1>1, <1>2, <1>3 DEF GivenUp

LEMMA ModemInvStep ==
  ASSUME ModemTypeOK, ModemInv, [ModemNext]_modemVars
  PROVE  ModemInv'
<1>1. CASE UNCHANGED modemVars
  <2>1. OrderInv' = OrderInv /\ GivenUp' = GivenUp /\ SafeInv' = SafeInv
    <3>1. UNCHANGED <<Buffer, Count, GivenUp>> /\ (Awaiting' <=> Awaiting)
      BY <1>1 DEF modemVars, Buffer, Count, GivenUp, Awaiting
    <3>2. UNCHANGED <<stored, asked, line, port, handler, told, unread>>
      BY <1>1 DEF modemVars
    <3>3. (OrderInv' <=> OrderInv) /\ (SafeInv' <=> SafeInv)
      BY <3>1, <3>2 DEF OrderInv, ComingBounded, SafeInv, AnswersInv
    <3>4. QED
      BY <3>1, <3>3 DEF OrderInv, SafeInv
  <2>2. QED
    BY <2>1 DEF ModemInv
<1>2. CASE ModemNext
  <2>1. OrderInv
    BY DEF ModemInv
  <2>2. OrderInv'
    BY <1>2, <2>1, OrderWhenQuiet, OrderAnswered, OrderAppended, OrderGivenUp, OrderRead DEF ModemNext
  <2>3. ASSUME GivenUp' <= 2 PROVE SafeInv'
    <3>1. GivenUp <= 2
      BY <2>3, GivenUpGrows
    <3>2. SafeInv
      BY <3>1 DEF ModemInv
    <3>3. QED
      BY <1>2, <2>1, <3>1, <3>2, SafeArrives, SafeAnswers, SafeAppended, SafeGivenUp, SafeStarts,
         SafeRead DEF ModemNext
  <2>4. QED
    BY <2>2, <2>3 DEF ModemInv
<1>3. QED
  BY <1>1, <1>2

(* No message that was not told of is deleted, unless more than two        *)
(* answers were given up, though its index may have belonged to another    *)
(* message (read_sms_handler).                                             *)
THEOREM OnlyToldIsDeleted == ModemSpec => []DeletedWasTold
<1>1. ModemInit => ModemInv
  <2> SUFFICES ASSUME ModemInit PROVE ModemInv
    OBVIOUS
  <2>1. /\ NoHandler.cmd.name = "none" /\ NoHandler.pc = "idle" /\ NoHandler.todo = {}
    BY DEF NoHandler, Command
  <2>2. handler = NoHandler /\ asked = <<>> /\ line = <<>> /\ unread = {} /\ ~port
        /\ timeouts = 0 /\ closes = 0
    BY DEF ModemInit
  <2>3. Count = 0 /\ GivenUp = 0
    BY <2>2 DEF Count, Buffer, GivenUp
  <2>4. HandlerOK(handler) /\ ~Awaiting
    BY <2>1, <2>2, NoHandlerType DEF HandlerOK, Awaiting
  <2>5. ComingBounded
    BY <2>3, <2>4 DEF ComingBounded
  <2>6. LastSent(handler, Items(Buffer, asked), Count)
    BY <2>3 DEF LastSent
  <2>7. AnswersInv
    BY <2>2 DEF AnswersInv
  <2>8. DeletesOK(asked, stored, told)
    BY <2>2 DEF DeletesOK
  <2>9. HandlerDeletes(handler, asked, stored, told)
    BY <2>1, <2>2 DEF HandlerDeletes, Unwritten, Holds
  <2>10. QED
    BY <2>2, <2>4, <2>5, <2>6, <2>7, <2>8, <2>9 DEF ModemInv, OrderInv, SafeInv
<1>2. ModemTypeOK /\ ModemInv /\ [ModemNext]_modemVars => ModemInv'
  BY ModemInvStep
<1>3. ModemTypeOK /\ ModemInv => DeletedWasTold
  <2> SUFFICES ASSUME ModemTypeOK, ModemInv, ~(timeouts + closes > 2) PROVE unread = {}
    BY DEF DeletedWasTold
  <2>1. GivenUp <= 2
    BY ModemParts DEF GivenUp
  <2>2. QED
    BY <2>1 DEF ModemInv, SafeInv
<1>4. QED
  BY <1>1, <1>2, <1>3, ModemTypes, PTL DEF ModemSpec

-----------------------------------------------------------------------------
(* All parts.                                                              *)

(* Whichever part is followed, each of them behaves as specified for it    *)
(* alone, so that what is proved of a part holds beside the others.        *)
THEOREM ServicesAreIndependent ==
  Spec => ProcessorSpec /\ LogsSpec /\ CanSpec /\ ModemSpec
<1>1. Init => ProcessorInit /\ LogsInit /\ CanInit /\ ModemInit
  BY DEF Init
<1>2. [Next]_servicesVars =>
        /\ [ProcessorNext]_processorVars /\ [LogsNext]_logVars
        /\ [CanNext]_canVars /\ [ModemNext]_modemVars
  BY DEF Next, servicesVars
<1>3. QED
  BY <1>1, <1>2, PTL DEF Spec, ProcessorSpec, LogsSpec, CanSpec, ModemSpec

(* All of them keep their types.                                           *)
THEOREM ServicesKeepTypes == Spec => []TypeOK
<1>1. ProcessorTypeOK /\ LogsTypeOK /\ CanTypeOK /\ ModemTypeOK => TypeOK
  BY DEF TypeOK
<1>2. QED
  BY <1>1, ServicesAreIndependent, ProcessorTypes, LogsKeepTypes, CanTypes, ModemTypes, PTL
=============================================================================
