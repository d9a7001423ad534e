------------------------- MODULE CloudUpload_proofs -------------------------
(***************************************************************************)
(* Proofs about CloudUpload, for every value of its constants.             *)
(***************************************************************************)
EXTENDS CloudUpload, FiniteSetTheorems, TLAPS

-----------------------------------------------------------------------------
(* Lists.                                                                  *)

(* The list helpers return lists of the same kind of entries. *)
LEMMA ListTypes ==
  ASSUME NEW l \in Seq(Nat), NEW s \in Seq(Nat), NEW n \in Nat
  PROVE  /\ Lrange(l, n) \in Seq(Nat)
         /\ Ltrim(l, n) \in Seq(Nat)
         /\ Lpush(l, s) \in Seq(Nat)
         /\ Reverse(s) \in Seq(Nat)
<1>1. Lrange(l, n) \in Seq(Nat)
  BY DEF Lrange
<1>2. Ltrim(l, n) \in Seq(Nat)
  BY DEF Ltrim
<1>3. Reverse(s) \in Seq(Nat)
  <2>1. \A i \in 1 .. Len(s) : s[(Len(s) - i) + 1] \in Nat
    OBVIOUS
  <2>2. QED
    BY <2>1 DEF Reverse
<1>4. Lpush(l, s) \in Seq(Nat)
  BY <1>3 DEF Lpush
<1>5. QED
  BY <1>1, <1>2, <1>3, <1>4

(* LTRIM and LPUSH on one of the lists leave lists. *)
LEMMA UpdateTypes ==
  ASSUME NEW l \in [Queues -> Seq(Nat)], NEW q \in Queues, NEW s \in Seq(Nat)
  PROVE  /\ [l EXCEPT ![q] = Ltrim(@, Len(s))] \in [Queues -> Seq(Nat)]
         /\ [l EXCEPT ![q] = Lpush(@, s)] \in [Queues -> Seq(Nat)]
         /\ [l EXCEPT ![q] = <<>>] \in [Queues -> Seq(Nat)]
<1>1. Ltrim(l[q], Len(s)) \in Seq(Nat) /\ Lpush(l[q], s) \in Seq(Nat)
  <2>1. l[q] \in Seq(Nat) /\ Len(s) \in Nat
    OBVIOUS
  <2>2. QED
    BY <2>1, ListTypes
<1>2. <<>> \in Seq(Nat)
  OBVIOUS
<1>3. QED
  BY <1>1, <1>2

-----------------------------------------------------------------------------
(* Control: where a thread goes next.                                      *)

LEMMA QueueTypes == PENDING_QUEUE \in Queues /\ FailQueues \subseteq Queues
  BY DEF Queues

LEMMA EmptyList == <<>> \in Seq(Nat)
  OBVIOUS

LEMMA IdleType == Idle \in ThreadState
  BY QueueTypes, EmptyList DEF Idle, ThreadState, NoName, Name

(* Every way a thread goes on is to a thread state. *)
LEMMA ControlTypes ==
  ASSUME NEW r \in ThreadState
  PROVE  /\ NextBatch(r) \in ThreadState
         /\ LeaveFailing(r) \in ThreadState
         /\ NextFailing(r) \in ThreadState
         /\ EnterPending(r) \in ThreadState
         /\ BatchesDone(r) \in ThreadState
         /\ BatchesFailed(r) \in ThreadState
         /\ LeaveRetrying(r) \in ThreadState
         /\ AbortRetrying(r) \in ThreadState
         /\ NextRetry(r) \in ThreadState
<1>1. \A x \in ThreadState : NextBatch(x) \in ThreadState
  BY EmptyList DEF NextBatch, ThreadState
<1>2. LeaveFailing(r) \in ThreadState
  BY IdleType DEF LeaveFailing, ThreadState
<1>3. NextFailing(r) \in ThreadState
  BY <1>1, <1>2 DEF NextFailing, ThreadState
<1>4. EnterPending(r) \in ThreadState
  BY <1>1, IdleType DEF EnterPending, ThreadState
<1>5. BatchesDone(r) \in ThreadState /\ BatchesFailed(r) \in ThreadState
  BY <1>2, <1>3, IdleType DEF BatchesDone, BatchesFailed
<1>6. LeaveRetrying(r) \in ThreadState /\ AbortRetrying(r) \in ThreadState
  BY <1>4, IdleType DEF LeaveRetrying, AbortRetrying
<1>7. NextRetry(r) \in ThreadState
  BY <1>6, EmptyList DEF NextRetry, ThreadState, NoName, Name
<1>8. QED
  BY <1>1, <1>2, <1>3, <1>4, <1>5, <1>6, <1>7

LEMMA ProceedType ==
  ASSUME ThreadsOK, NEW t \in Threads, NEW r \in ThreadState, Proceed(t, r),
         cache' \in [Queues -> Seq(Nat)]
  PROVE  ThreadsOK'
  BY DEF ThreadsOK, Proceed

LEMMA PersistType ==
  ASSUME ThreadsOK, RedisOK, UNCHANGED <<disk, cache>>,
         lists' \in [Queues -> Seq(Nat)], retr' \subseteq RetryQueue, IsFiniteSet(retr'),
         NEW t \in Threads, NEW ok \in ThreadState, NEW error \in ThreadState,
         PersistThen(t, ok, error)
  PROVE  ThreadsOK' /\ RedisOK'
<1>1. ThreadsOK'
  BY ProceedType DEF PersistThen, ThreadsOK
<1>2. saving' \in Snapshot \union {NoSave} /\ IsFiniteSet(saving'.retr)
  BY DEF PersistThen, RedisOK, Snapshot
<1>3. QED
  BY <1>1, <1>2 DEF RedisOK

-----------------------------------------------------------------------------
(* Type correctness.                                                       *)

LEMMA InitType == Init => TypeOK
<1> SUFFICES ASSUME Init PROVE TypeOK
  OBVIOUS
<1>1. [q \in Queues |-> <<>>] \in [Queues -> Seq(Nat)]
  BY EmptyList
<1>2. ThreadsOK
  BY <1>1, IdleType DEF Init, ThreadsOK
<1>3. RedisOK
  BY <1>1, FS_EmptySet DEF Init, RedisOK, Snapshot, NoSave
<1>4. HistoryOK
  BY ConstantsAssumption DEF Init, HistoryOK, FailQueues
<1>5. QED
  BY <1>2, <1>3, <1>4 DEF TypeOK

(* An entry is held if it is in some list or in some retry queue. *)
LEMMA HeldMember ==
  ASSUME NEW l, NEW r, NEW e
  PROVE  e \in HeldIn(l, r) <=> \/ \E q \in Queues : e \in ToSet(l[q])
                                \/ \E x \in r : e \in ToSet(x.entries)
<1>1. e \in UNION {ToSet(l[q]) : q \in Queues} <=> \E q \in Queues : e \in ToSet(l[q])
  OBVIOUS
<1>2. e \in UNION {ToSet(x.entries) : x \in r} <=> \E x \in r : e \in ToSet(x.entries)
  OBVIOUS
<1>3. QED
  BY <1>1, <1>2 DEF HeldIn

(* The entries of a list or of a data set are numbers. *)
LEMMA EntryTypes ==
  /\ \A s \in Seq(Nat) : ToSet(s) \subseteq Nat
  /\ \A l \in [Queues -> Seq(Nat)], r \in SUBSET RetryQueue : HeldIn(l, r) \subseteq Nat
<1>1. \A s \in Seq(Nat) : ToSet(s) \subseteq Nat
  BY DEF ToSet
<1>2. ASSUME NEW l \in [Queues -> Seq(Nat)], NEW r \in SUBSET RetryQueue
      PROVE  HeldIn(l, r) \subseteq Nat
  <2>1. \A q \in Queues : ToSet(l[q]) \subseteq Nat
    BY <1>1
  <2>2. \A x \in r : ToSet(x.entries) \subseteq Nat
    BY <1>1 DEF RetryQueue
  <2>3. QED
    BY <2>1, <2>2, HeldMember
<1>3. QED
  BY <1>1, <1>2

(* What the parts of TypeOK depend on. *)
LEMMA TypeFrames ==
  /\ RedisOK /\ UNCHANGED <<lists, retr, saving, disk>> => RedisOK'
  /\ HistoryOK /\ UNCHANGED <<accepted, clock, day, restarts, durable, delivered, acked, discarded>>
       => HistoryOK'
  /\ ThreadsOK /\ UNCHANGED <<th, first, cache>> => ThreadsOK'
  BY DEF RedisOK, HistoryOK, ThreadsOK

(* A POST only adds to what the server and the device know. *)
LEMMA PostType ==
  ASSUME HistoryOK, NEW b \in Seq(Nat), UNCHANGED <<accepted, clock, day, restarts, durable, discarded>>,
         ServerAccepts(b) \/ UNCHANGED delivered,
         \/ UNCHANGED acked
         \/ ServerAccepts(b) /\ acked' = acked \union ToSet(b)
  PROVE  HistoryOK'
  BY EntryTypes DEF HistoryOK, ServerAccepts

(* A step of a thread that has begun preserves the types. *)
LEMMA RunType ==
  ASSUME TypeOK, NEW t \in Threads, Run(t)
  PROVE  TypeOK'
<1> USE DEF unchangedByControl, unchangedByPost, unchangedByRetry
<1>t. ThreadsOK /\ RedisOK /\ HistoryOK
  BY DEF TypeOK
<1>r. th[t] \in ThreadState /\ th[t].batch \in Seq(Nat) /\ th[t].queue \in Queues
  BY <1>t DEF ThreadsOK, ThreadState
<1>c. cache \in [Queues -> Seq(Nat)]
  BY <1>t DEF ThreadsOK
<1>1. CASE NextFailQueue(t)
  <2>1. PICK q \in th[t].queues :
          Proceed(t, [th[t] EXCEPT !.pc = "fetch", !.queue = q, !.queues = @ \ {q}])
    BY <1>1 DEF NextFailQueue
  <2>2. [th[t] EXCEPT !.pc = "fetch", !.queue = q, !.queues = @ \ {q}] \in ThreadState
    BY <1>r, QueueTypes DEF ThreadState
  <2>3. ThreadsOK'
    BY <1>1, <1>t, <1>c, <2>1, <2>2, ProceedType DEF NextFailQueue
  <2>4. QED
    BY <1>1, <1>t, <2>3, TypeFrames DEF NextFailQueue, TypeOK
<1>2. CASE FetchBatch(t)
  <2>1. cache' \in [Queues -> Seq(Nat)]
    BY <1>2, <1>c, EmptyList DEF FetchBatch
  <2>2. Lrange(lists[th[t].queue], MaxBatch) \in Seq(Nat) /\ cache[th[t].queue] \in Seq(Nat)
    BY <1>r, <1>t, <1>c, ListTypes, EmptyList, ConstantsAssumption DEF RedisOK
  <2>3. \A s \in Seq(Nat) : /\ [th[t] EXCEPT !.pc = "post", !.batch = s] \in ThreadState
                            /\ [th[t] EXCEPT !.pc = "post", !.batch = s, !.cached = TRUE] \in ThreadState
    BY <1>r DEF ThreadState
  <2>4. PICK r \in ThreadState : Proceed(t, r)
    BY <1>2, <1>r, <2>2, <2>3, ControlTypes DEF FetchBatch
  <2>5. ThreadsOK'
    BY <1>t, <2>1, <2>4, ProceedType
  <2>6. QED
    BY <1>2, <1>t, <2>5, TypeFrames DEF FetchBatch, TypeOK
<1>3. CASE PostBatchOk(t)
  <2>1. [th[t] EXCEPT !.pc = "trim"] \in ThreadState
    BY <1>r DEF ThreadState
  <2>2. ThreadsOK'
    BY <1>3, <1>t, <1>c, <2>1, ProceedType DEF PostBatchOk
  <2>3. QED
    BY <1>3, <1>r, <1>t, <2>2, PostType, TypeFrames DEF PostBatchOk, TypeOK
<1>4. CASE PostBatchUnanswered(t)
  <2>1. cache' \in [Queues -> Seq(Nat)]
    BY <1>4, <1>r, <1>c DEF PostBatchUnanswered
  <2>2. ThreadsOK'
    BY <1>4, <1>r, <1>t, <2>1, ControlTypes, ProceedType DEF PostBatchUnanswered
  <2>3. QED
    BY <1>4, <1>r, <1>t, <2>2, PostType, TypeFrames DEF PostBatchUnanswered, TypeOK
<1>5. CASE PostBatchRejected(t)
  <2>1. [th[t] EXCEPT !.pc = "transfer"] \in ThreadState
    BY <1>r DEF ThreadState
  <2>2. ThreadsOK'
    BY <1>5, <1>r, <1>t, <1>c, <2>1, ControlTypes, ProceedType DEF PostBatchRejected
  <2>3. QED
    BY <1>5, <1>t, <2>2, TypeFrames DEF PostBatchRejected, TypeOK
<1>6. CASE TrimBatch(t)
  <2>1. lists' \in [Queues -> Seq(Nat)] /\ retr' \subseteq RetryQueue /\ IsFiniteSet(retr')
    BY <1>6, <1>r, <1>t, UpdateTypes DEF TrimBatch, RedisOK
  <2>2. PICK ok \in ThreadState, error \in ThreadState : PersistThen(t, ok, error)
    BY <1>6, <1>r, ControlTypes DEF TrimBatch
  <2>3. ThreadsOK' /\ RedisOK'
    BY <1>6, <1>t, <2>1, <2>2, PersistType DEF TrimBatch
  <2>4. QED
    BY <1>6, <1>t, <2>3, TypeFrames DEF TrimBatch, TypeOK
<1>7. CASE TransferBatch(t)
  <2>1. lists' \in [Queues -> Seq(Nat)]
    BY <1>7, <1>r, <1>t, UpdateTypes, QueueTypes DEF TransferBatch, RedisOK
  <2>2. Lpush(<<>>, th[t].batch) \in Seq(Nat)
    BY <1>r, ListTypes, EmptyList
  <2>3. retr' \subseteq RetryQueue /\ IsFiniteSet(retr') /\ clock' \in Nat
    <3> DEFINE x == [ts |-> clock + 1, attempt |-> 0, entries |-> Lpush(<<>>, th[t].batch)]
    <3>1. clock' = clock + 1 /\ retr' = retr \union {x}
      BY <1>7 DEF TransferBatch
    <3>2. clock + 1 \in Nat /\ x \in RetryQueue
      BY <1>t, <2>2 DEF HistoryOK, RetryQueue
    <3> HIDE DEF x
    <3>3. IsFiniteSet(retr \union {x})
      BY <1>t, FS_AddElement DEF RedisOK
    <3>4. QED
      BY <1>t, <3>1, <3>2, <3>3 DEF RedisOK
  <2>4. ThreadsOK' /\ RedisOK'
    BY <1>7, <1>r, <1>t, <2>1, <2>3, ControlTypes, PersistType DEF TransferBatch
  <2>5. HistoryOK'
    BY <1>7, <1>t, <2>3 DEF TransferBatch, HistoryOK
  <2>6. QED
    BY <2>4, <2>5 DEF TypeOK
<1>8. CASE ListRetrying(t)
  <2> DEFINE names == {[ts |-> x.ts, attempt |-> x.attempt] : x \in retr}
             r == [th[t] EXCEPT !.names = names, !.remaining = Cardinality(retr)]
  <2>1. names \subseteq Name
    BY <1>t DEF RedisOK, RetryQueue, Name
  <2>2. Proceed(t, NextRetry(r))
    BY <1>8 DEF ListRetrying
  <2>3. Cardinality(retr) \in Int
    BY <1>t, FS_CardinalityType DEF RedisOK
  <2> HIDE DEF names
  <2>4. r \in ThreadState
    BY <1>r, <2>1, <2>3 DEF ThreadState
  <2> HIDE DEF r
  <2>5. ThreadsOK'
    BY <1>8, <1>t, <1>c, <2>2, <2>4, ControlTypes, ProceedType DEF ListRetrying
  <2>6. QED
    BY <1>8, <1>t, <2>5, TypeFrames DEF ListRetrying, TypeOK
<1>9. CASE FetchRetry(t)
  <2>1. PICK n \in th[t].names :
          LET next == [th[t] EXCEPT !.pc = "rpost", !.name = n, !.names = @ \ {n}]
          IN  \/ \E x \in Named(n) : Proceed(t, [next EXCEPT !.batch = x.entries])
              \/ Named(n) = {} /\ Proceed(t, next)
    BY <1>9 DEF FetchRetry
  <2> DEFINE next == [th[t] EXCEPT !.pc = "rpost", !.name = n, !.names = @ \ {n}]
  <2>2. next \in ThreadState
    BY <1>r DEF ThreadState
  <2>3. \A x \in Named(n) : x.entries \in Seq(Nat)
    BY <1>t DEF Named, RedisOK, RetryQueue
  <2>4. \E r \in ThreadState : Proceed(t, r)
    <3> HIDE DEF next
    <3>1. \A s \in Seq(Nat) : [next EXCEPT !.batch = s] \in ThreadState
      BY <2>2 DEF ThreadState
    <3>2. (\E x \in Named(n) : Proceed(t, [next EXCEPT !.batch = x.entries])) \/ Proceed(t, next)
      BY <2>1 DEF next
    <3>3. QED
      BY <2>2, <2>3, <3>1, <3>2
  <2>5. ThreadsOK'
    BY <1>9, <1>t, <1>c, <2>4, ProceedType DEF FetchRetry
  <2>6. QED
    BY <1>9, <1>t, <2>5, TypeFrames DEF FetchRetry, TypeOK
<1>10. CASE PostRetryOk(t)
  <2>1. [th[t] EXCEPT !.pc = "rdelete"] \in ThreadState
    BY <1>r DEF ThreadState
  <2>2. ThreadsOK'
    BY <1>10, <1>t, <1>c, <2>1, ProceedType DEF PostRetryOk
  <2>3. QED
    BY <1>10, <1>r, <1>t, <2>2, PostType, TypeFrames DEF PostRetryOk, TypeOK
<1>11. CASE PostRetryUnanswered(t)
  <2>1. ThreadsOK'
    BY <1>11, <1>r, <1>t, <1>c, ControlTypes, ProceedType DEF PostRetryUnanswered
  <2>2. QED
    BY <1>11, <1>r, <1>t, <2>1, PostType, TypeFrames DEF PostRetryUnanswered, TypeOK
<1>12. CASE PostRetryRejected(t)
  <2>1. \A p \in {"rfail", "rbump"} : [th[t] EXCEPT !.pc = p] \in ThreadState
    BY <1>r DEF ThreadState
  <2>2. ThreadsOK'
    BY <1>12, <1>t, <1>c, <2>1, ProceedType DEF PostRetryRejected
  <2>3. QED
    BY <1>12, <1>t, <2>2, TypeFrames DEF PostRetryRejected, TypeOK
<1>n. Named(th[t].name) \subseteq retr /\ IsFiniteSet(retr)
  BY <1>t DEF Named, RedisOK
<1>13. CASE DeleteRetry(t)
  <2>1. lists' \in [Queues -> Seq(Nat)] /\ retr' \subseteq RetryQueue
    BY <1>13, <1>t DEF DeleteRetry, RedisOK
  <2>2. IsFiniteSet(retr')
    BY <1>13, <1>n, FS_Subset DEF DeleteRetry
  <2>3. [th[t] EXCEPT !.remaining = @ - 1] \in ThreadState
    BY <1>r DEF ThreadState
  <2>4. ThreadsOK' /\ RedisOK'
    BY <1>13, <1>r, <1>t, <2>1, <2>2, <2>3, ControlTypes, PersistType DEF DeleteRetry
  <2>5. QED
    BY <1>13, <1>t, <2>4, TypeFrames DEF DeleteRetry, TypeOK
<1>14. CASE FailRetry(t)
  <2>1. day \in Queues
    BY <1>t, QueueTypes DEF HistoryOK
  <2>2. lists' \in [Queues -> Seq(Nat)]
    <3>1. lists' = [lists EXCEPT ![day] = Lpush(@, th[t].batch)] \/ lists' = lists
      <4>1. CASE th[t].batch # <<>>
        BY <1>14, <4>1 DEF FailRetry
      <4>2. CASE th[t].batch = <<>>
        BY <1>14, <4>2 DEF FailRetry
      <4>3. QED
        BY <4>1, <4>2
    <3>2. lists \in [Queues -> Seq(Nat)]
      BY <1>t DEF RedisOK
    <3>3. [lists EXCEPT ![day] = Lpush(@, th[t].batch)] \in [Queues -> Seq(Nat)]
      BY <1>r, <2>1, <3>2, UpdateTypes
    <3>4. QED
      BY <3>1, <3>2, <3>3
  <2>3. retr' \subseteq RetryQueue /\ IsFiniteSet(retr')
    BY <1>14, <1>n, <1>t, FS_Subset DEF FailRetry, RedisOK
  <2>4. ThreadsOK' /\ RedisOK'
    <3>1. CASE th[t].batch # <<>>
      BY <1>14, <1>r, <1>t, <2>2, <2>3, <3>1, ControlTypes, PersistType DEF FailRetry
    <3>2. CASE th[t].batch = <<>>
      BY <1>14, <1>r, <1>t, <1>c, <3>2, ControlTypes, ProceedType, TypeFrames DEF FailRetry
    <3>3. QED
      BY <3>1, <3>2
  <2>5. QED
    BY <1>14, <1>t, <2>4, TypeFrames DEF FailRetry, TypeOK
<1>15. CASE BumpRetry(t)
  <2> DEFINE S == Named(th[t].name)
             T == {[x EXCEPT !.attempt = @ + 1] : x \in S}
             f == [x \in S |-> [x EXCEPT !.attempt = @ + 1]]
  <2>1. IsFiniteSet(S)
    BY <1>n, FS_Subset
  <2>2. f \in Surjection(S, T)
    BY DEF Surjection
  <2>3. IsFiniteSet(T)
    BY <2>1, <2>2, FS_Surjection
  <2>4. T \subseteq RetryQueue
    BY <1>n, <1>t DEF RedisOK, RetryQueue
  <2>5. retr' = (retr \ S) \union T
    BY <1>15 DEF BumpRetry
  <2>6. retr' \subseteq RetryQueue /\ IsFiniteSet(retr')
    BY <1>t, <1>n, <2>3, <2>4, <2>5, FS_Subset, FS_Union DEF RedisOK
  <2>7. lists' \in [Queues -> Seq(Nat)]
    BY <1>15, <1>t DEF BumpRetry, RedisOK
  <2>8. ThreadsOK' /\ RedisOK'
    BY <1>15, <1>r, <1>t, <2>6, <2>7, ControlTypes, PersistType DEF BumpRetry
  <2>9. QED
    BY <1>15, <1>t, <2>8, TypeFrames DEF BumpRetry, TypeOK
<1>20. QED
  BY <1>1, <1>2, <1>3, <1>4, <1>5, <1>6, <1>7, <1>8, <1>9, <1>10, <1>11, <1>12,
     <1>13, <1>14, <1>15 DEF Run

(* A step of the environment preserves the types. *)
LEMMA EnvironmentType ==
  ASSUME TypeOK, Environment
  PROVE  TypeOK'
<1>t. ThreadsOK /\ RedisOK /\ HistoryOK
  BY DEF TypeOK
<1>l. lists \in [Queues -> Seq(Nat)] /\ retr \subseteq RetryQueue /\ IsFiniteSet(retr)
  BY <1>t DEF RedisOK
<1>e. \A q \in Queues : ToSet(lists[q]) \subseteq Nat
  BY <1>l, EntryTypes
<1>s. [lists |-> lists, retr |-> retr] \in Snapshot
  BY <1>l DEF Snapshot
<1>1. CASE Enqueue
  <2>1. <<accepted + 1>> \in Seq(Nat)
    BY <1>t DEF HistoryOK
  <2>2. lists' \in [Queues -> Seq(Nat)]
    BY <1>1, <1>l, <2>1, UpdateTypes, QueueTypes DEF Enqueue
  <2>3. RedisOK' /\ HistoryOK'
    BY <1>1, <1>t, <2>2 DEF Enqueue, RedisOK, HistoryOK
  <2>4. QED
    BY <1>1, <1>t, <2>3, TypeFrames DEF Enqueue, TypeOK
<1>2. ASSUME NEW q \in Queues, ClearQueue(q) \/ Expire(q)
      PROVE  TypeOK'
  <2>1. lists' \in [Queues -> Seq(Nat)]
    BY <1>2, <1>l, UpdateTypes, EmptyList DEF ClearQueue, Expire
  <2>2. RedisOK'
    BY <1>2, <1>t, <2>1 DEF ClearQueue, Expire, RedisOK
  <2>3. HistoryOK'
    BY <1>2, <1>e, <1>t DEF ClearQueue, Expire, HistoryOK
  <2>4. QED
    BY <1>2, <1>t, <2>2, <2>3, TypeFrames DEF ClearQueue, Expire, TypeOK
<1>3. ASSUME NEW x \in retr, ClearRetryQueue(x)
      PROVE  TypeOK'
  <2>1. IsFiniteSet(retr')
    BY <1>3, <1>l, FS_RemoveElement DEF ClearRetryQueue
  <2>2. RedisOK'
    BY <1>3, <1>t, <2>1 DEF ClearRetryQueue, RedisOK
  <2>3. x.entries \in Seq(Nat)
    BY <1>l DEF RetryQueue
  <2>4. HistoryOK'
    BY <1>3, <1>t, <2>3, EntryTypes DEF ClearRetryQueue, HistoryOK
  <2>5. QED
    BY <1>3, <1>t, <2>2, <2>4, TypeFrames DEF ClearRetryQueue, TypeOK
<1>4. CASE ClearEverything
  <2>1. [q \in Queues |-> <<>>] \in [Queues -> Seq(Nat)]
    BY EmptyList
  <2>2. RedisOK'
    BY <1>4, <1>t, <2>1, FS_EmptySet DEF ClearEverything, RedisOK
  <2>3. HistoryOK'
    BY <1>4, <1>l, <1>t, EntryTypes DEF ClearEverything, Held, HistoryOK
  <2>4. QED
    BY <1>4, <1>t, <2>2, <2>3, TypeFrames DEF ClearEverything, TypeOK
<1>5. CASE NewDay
  <2>1. day' \in FailQueues
    BY <1>5, <1>t, ConstantsAssumption DEF NewDay, HistoryOK, FailQueues
  <2>2. HistoryOK'
    BY <1>5, <1>t, <2>1 DEF NewDay, HistoryOK
  <2>3. QED
    BY <1>5, <1>t, <2>2, TypeFrames DEF NewDay, TypeOK
<1>6. CASE AutoSave
  <2>1. RedisOK'
    BY <1>6, <1>l, <1>s, <1>t DEF AutoSave, RedisOK
  <2>2. QED
    BY <1>6, <1>t, <2>1, TypeFrames DEF AutoSave, TypeOK
<1>7. CASE SaveDone
  <2>1. saving \in Snapshot /\ IsFiniteSet(saving.retr)
    BY <1>7, <1>t DEF SaveDone, RedisOK
  <2>2. RedisOK'
    BY <1>7, <1>t, <2>1, FS_EmptySet DEF SaveDone, RedisOK, NoSave
  <2>3. HeldIn(saving.lists, saving.retr) \subseteq Nat
    BY <2>1, EntryTypes DEF Snapshot
  <2>4. HistoryOK'
    BY <1>7, <1>t, <2>3 DEF SaveDone, HistoryOK
  <2>5. QED
    BY <1>7, <1>t, <2>2, <2>4, TypeFrames DEF SaveDone, TypeOK
<1>r. ASSUME ServiceGone
      PROVE  ThreadsOK' /\ restarts' \in Nat /\ acked' \subseteq acked
  BY <1>r, <1>t, IdleType, EmptyList DEF ServiceGone, ThreadsOK, HistoryOK
<1>8. CASE Restart
  <2>1. HistoryOK'
    BY <1>8, <1>r, <1>t DEF Restart, HistoryOK
  <2>2. QED
    BY <1>8, <1>r, <1>t, <2>1, TypeFrames DEF Restart, TypeOK
<1>9. CASE PowerLoss
  <2>1. RedisOK'
    BY <1>9, <1>t, FS_EmptySet DEF PowerLoss, RedisOK, Snapshot, NoSave
  <2>2. Entries \subseteq Nat
    BY <1>t DEF Entries, HistoryOK
  <2>3. HistoryOK'
    BY <1>9, <1>r, <1>t, <2>2 DEF PowerLoss, HistoryOK
  <2>4. QED
    BY <1>9, <1>r, <2>1, <2>3 DEF PowerLoss, TypeOK
<1>20. QED
  BY <1>1, <1>2, <1>3, <1>4, <1>5, <1>6, <1>7, <1>8, <1>9, QueueTypes DEF Environment

(* The beginning of a handler run or of a command preserves the types. *)
LEMMA StartType ==
  ASSUME TypeOK, NEW t \in Threads, StartUpload(t) \/ \E c \in Commands : StartCommand(t, c)
  PROVE  TypeOK'
<1> USE DEF unchangedByControl
<1>t. ThreadsOK /\ RedisOK /\ HistoryOK
  BY DEF TypeOK
<1>1. \A r \in ThreadState : ListFailing(r) \in ThreadState
  <2>1. \A r \in ThreadState : [r EXCEPT !.queues = {q \in FailQueues : lists[q] # <<>>}] \in ThreadState
    BY DEF ThreadState
  <2>2. QED
    BY <2>1, ControlTypes DEF ListFailing
<1>2. \A op \in {"upload"} \union UploadCommands : [Idle EXCEPT !.op = op] \in ThreadState
  BY IdleType DEF ThreadState
<1>3. \A r \in ThreadState : [r EXCEPT !.pc = "rlist"] \in ThreadState
  BY DEF ThreadState
<1>4. \E r \in ThreadState : Proceed(t, r)
  <2>1. CASE StartUpload(t)
    BY <1>1, <1>2, <2>1, ControlTypes DEF StartUpload
  <2>2. CASE \E c \in Commands : StartCommand(t, c)
    BY <1>1, <1>2, <1>3, <2>2, ControlTypes DEF StartCommand, UploadCommands
  <2>3. QED
    BY <2>1, <2>2
<1>5. UNCHANGED <<unchangedByControl, cache>>
  BY DEF StartUpload, StartCommand
<1>6. ThreadsOK'
  BY <1>t, <1>4, <1>5, ProceedType DEF ThreadsOK
<1>7. QED
  BY <1>t, <1>5, <1>6, TypeFrames DEF TypeOK

(* Every reachable state is type correct, whatever threads and commands    *)
(* there are.                                                              *)
THEOREM TypeCorrect == Spec => []TypeOK
<1>1. TypeOK /\ [Next]_vars => TypeOK'
  <2> SUFFICES ASSUME TypeOK, [Next]_vars PROVE TypeOK'
    OBVIOUS
  <2>1. CASE UNCHANGED vars
    BY <2>1, TypeFrames DEF vars, TypeOK
  <2>2. CASE Next
    BY <2>2, RunType, StartType, EnvironmentType DEF Next
  <2>3. QED
    BY <2>1, <2>2
<1>2. QED
  BY <1>1, InitType, PTL DEF Spec
=============================================================================
