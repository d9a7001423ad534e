----------------------- MODULE CloudUploadNoLoss_proofs -----------------------
(***************************************************************************)
(* Proof that the upload handler loses no entry when no command runs       *)
(* beside it, for every batch size, limit and number of attempts, however  *)
(* often the service restarts or the power fails.                          *)
(***************************************************************************)
EXTENDS CloudUpload_proofs, SequenceTheorems

(* The inductive invariant.                                                *)

(* s is the end of l: its oldest entries. *)
EndOf(s, l) ==
  /\ Len(s) <= Len(l)
  /\ \A i \in 1..Len(s) : s[i] = l[Len(l) - Len(s) + i]

self == th[Handler]

(* In upload_failing.  Settled: at a step that goes on without a batch.    *)
Failing(r) == r.pc = "fnext" \/ (r.pc \in {"fetch", "post", "trim"} /\ r.queue # PENDING_QUEUE)
Settled(r) == r.pc \in {"idle", "fnext", "fetch", "rlist", "rfetch"}

ControlInv ==
  /\ self.pc # "idle" => self.op = "upload"
  /\ self.pc = "transfer" => self.queue = PENDING_QUEUE

(* The batch that is on its way is the end of its list, unless a fail      *)
(* queue has expired meanwhile, and so is a batch that waits in the upload *)
(* cache of the pending queue.  The caches of the fail queues are empty    *)
(* whenever they are looked at: upload_failing runs only first.            *)
BatchInv ==
  self.pc \in {"post", "trim", "transfer"} =>
    \/ EndOf(self.batch, lists[self.queue])
    \/ self.queue # PENDING_QUEUE /\ lists[self.queue] = <<>>

CacheInv ==
  /\ EndOf(cache[PENDING_QUEUE], lists[PENDING_QUEUE])
  /\ self.pc \in {"post", "trim", "transfer"} => cache[self.queue] = <<>>
  /\ Failing(self) \/ (self.pc = "idle" /\ first) => \A q \in FailQueues : cache[q] = <<>>

(* Retry queues have timestamps of their own, in Redis and in snapshots,   *)
(* and the batch that is retried is what its queue holds.                  *)
Distinct(r) ==
  /\ \A x \in r : x.ts <= clock
  /\ \A x, y \in r : x.ts = y.ts => x = y

DistinctInv == Distinct(retr) /\ Distinct(saving.retr) /\ Distinct(disk.retr)

RetryInv ==
  self.pc \in {"rpost", "rdelete", "rfail", "rbump"} =>
    \A x \in Named(self.name) : x.entries = self.batch

(* What is about to be removed was delivered. *)
AckInv == self.pc \in {"trim", "rdelete"} => ToSet(self.batch) \subseteq delivered

Structure == ControlInv /\ BatchInv /\ CacheInv /\ DistinctInv /\ RetryInv /\ AckInv

(* What is not held any more was delivered or discarded: this holds of all *)
(* entries, and of those in a snapshot of which a later one may be the     *)
(* state again.                                                            *)
Covers(held, S) == S \subseteq held \union delivered \union discarded

SafeInv ==
  /\ Covers(Held, Entries)
  /\ Covers(Held, durable)
  /\ Covers(HeldIn(disk.lists, disk.retr), durable)
  /\ saving # NoSave =>
       /\ Covers(HeldIn(saving.lists, saving.retr), durable)
       /\ Covers(Held, HeldIn(saving.lists, saving.retr))

NoLossInv == Structure /\ SafeInv

(* The handler is the only thread, and no command is called. *)
Alone == Threads = {Handler} /\ Commands = {}

-----------------------------------------------------------------------------
(* The ends of lists.                                                      *)

(* The entries of a list, by their places. *)
LEMMA EntryIn ==
  ASSUME NEW s \in Seq(Nat)
  PROVE  /\ \A i \in 1..Len(s) : s[i] \in ToSet(s)
         /\ \A e \in ToSet(s) : \E i \in 1..Len(s) : e = s[i]
<1>1. DOMAIN s = 1..Len(s)
  OBVIOUS
<1>2. QED
  BY <1>1 DEF ToSet

(* One list after another. *)
LEMMA ConcatLists ==
  ASSUME NEW h \in Seq(Nat), NEW l \in Seq(Nat)
  PROVE  /\ h \o l \in Seq(Nat)
         /\ Len(h \o l) = Len(h) + Len(l)
         /\ \A i \in 1..Len(h) : (h \o l)[i] = h[i]
         /\ \A i \in 1..Len(l) : (h \o l)[Len(h) + i] = l[i]
<1>1. \A S : \A s1, s2 \in Seq(S) :
        /\ s1 \o s2 \in Seq(S)
        /\ Len(s1 \o s2) = Len(s1) + Len(s2)
        /\ \A i \in 1 .. Len(s1) + Len(s2) :
              (s1 \o s2)[i] = IF i <= Len(s1) THEN s1[i] ELSE s2[i - Len(s1)]
  BY ConcatProperties, Zenon
<1>2. /\ h \o l \in Seq(Nat)
      /\ Len(h \o l) = Len(h) + Len(l)
      /\ \A i \in 1 .. Len(h) + Len(l) :
            (h \o l)[i] = IF i <= Len(h) THEN h[i] ELSE l[i - Len(h)]
  BY <1>1, Zenon
<1>3. Len(h) \in Nat /\ Len(l) \in Nat
  OBVIOUS
<1>4. ASSUME NEW i \in 1..Len(h) PROVE (h \o l)[i] = h[i]
  BY <1>2, <1>3
<1>5. ASSUME NEW i \in 1..Len(l) PROVE (h \o l)[Len(h) + i] = l[i]
  <2>1. Len(h) + i \in 1..Len(h) + Len(l) /\ ~(Len(h) + i <= Len(h)) /\ (Len(h) + i) - Len(h) = i
    BY <1>3
  <2>2. (h \o l)[Len(h) + i] = l[(Len(h) + i) - Len(h)]
    BY <1>2, <2>1
  <2>3. QED
    BY <2>1, <2>2
<1>6. QED
  BY <1>2, <1>4, <1>5

(* LRANGE returns the end of a list, and the empty list is one. *)
LEMMA EndLrange ==
  ASSUME NEW l \in Seq(Nat), NEW n \in Nat
  PROVE  EndOf(Lrange(l, n), l) /\ EndOf(<<>>, l)
<1>1. EndOf(<<>>, l)
  BY DEF EndOf
<1>2. CASE Len(l) <= n
  BY <1>1, <1>2 DEF EndOf, Lrange
<1>3. CASE Len(l) > n
  <2>1. Lrange(l, n) = SubSeq(l, Len(l) - n + 1, Len(l))
    BY <1>3 DEF Lrange
  <2>2. Len(SubSeq(l, Len(l) - n + 1, Len(l))) = n
    BY <1>3
  <2>3. \A i \in 1..n : SubSeq(l, Len(l) - n + 1, Len(l))[i] = l[Len(l) - n + i]
    BY <1>3
  <2>4. QED
    BY <1>1, <1>3, <2>1, <2>2, <2>3 DEF EndOf
<1>4. QED
  BY <1>2, <1>3

(* The end stays the end when LPUSH adds to the head. *)
LEMMA EndPush ==
  ASSUME NEW l \in Seq(Nat), NEW s \in Seq(Nat), NEW e \in Nat, EndOf(s, l)
  PROVE  EndOf(s, Lpush(l, <<e>>))
<1>1. Reverse(<<e>>) \in Seq(Nat) /\ Len(Reverse(<<e>>)) = 1
  BY DEF Reverse
<1> DEFINE h == Reverse(<<e>>)
<1> HIDE DEF h
<1>2. h \in Seq(Nat) /\ Len(h) = 1
  BY <1>1 DEF h
<1>3. Lpush(l, <<e>>) = h \o l
  BY DEF Lpush, h
<1>4. Len(l) \in Nat /\ Len(s) \in Nat /\ Len(h \o l) = 1 + Len(l)
  <2>1. Len(h \o l) = Len(h) + Len(l)
    BY <1>2, ConcatLists, Zenon
  <2>2. QED
    BY <1>2, <2>1
<1>5. \A i \in 1..Len(l) : (h \o l)[i + 1] = l[i]
  <2>1. \A i \in 1..Len(l) : (h \o l)[Len(h) + i] = l[i]
    BY <1>2, ConcatLists, Zenon
  <2>2. \A i \in 1..Len(l) : Len(h) + i = i + 1
    BY <1>2, <1>4
  <2>3. QED
    BY <2>1, <2>2, Zenon
<1>6. ASSUME NEW i \in 1..Len(s)
      PROVE  s[i] = (h \o l)[Len(h \o l) - Len(s) + i]
  <2>1. Len(s) <= Len(l) /\ s[i] = l[Len(l) - Len(s) + i]
    BY DEF EndOf
  <2>2. \A m, n \in Nat : n <= m => \A k \in 1..n :
          m - n + k \in 1..m /\ 1 + m - n + k = (m - n + k) + 1
    OBVIOUS
  <2>3. /\ Len(l) - Len(s) + i \in 1..Len(l)
        /\ 1 + Len(l) - Len(s) + i = (Len(l) - Len(s) + i) + 1
    BY <1>4, <2>1, <2>2, Zenon
  <2>4. (h \o l)[(Len(l) - Len(s) + i) + 1] = l[Len(l) - Len(s) + i]
    BY <1>5, <2>3, Zenon
  <2>5. Len(h \o l) - Len(s) + i = (Len(l) - Len(s) + i) + 1
    <3>1. Len(h \o l) - Len(s) + i = 1 + Len(l) - Len(s) + i
      BY <1>4
    <3>2. QED
      BY <2>3, <3>1, Zenon
  <2>6. QED
    BY <2>1, <2>4, <2>5, Zenon
<1>7. Len(s) <= Len(h \o l)
  BY <1>4 DEF EndOf
<1>8. QED
  BY <1>3, <1>6, <1>7 DEF EndOf

(* LTRIM removes nothing but the end. *)
LEMMA EndLtrim ==
  ASSUME NEW l \in Seq(Nat), NEW s \in Seq(Nat), EndOf(s, l)
  PROVE  ToSet(l) \subseteq ToSet(Ltrim(l, Len(s))) \union ToSet(s)
<1> SUFFICES ASSUME NEW i \in 1..Len(l)
             PROVE  l[i] \in ToSet(Ltrim(l, Len(s))) \union ToSet(s)
  BY DEF ToSet
<1>1. CASE i > Len(l) - Len(s)
  <2>1. i - (Len(l) - Len(s)) \in 1..Len(s) /\ s[i - (Len(l) - Len(s))] = l[i]
    BY <1>1 DEF EndOf
  <2>2. QED
    BY <2>1 DEF ToSet
<1>2. CASE i <= Len(l) - Len(s)
  <2>1. Ltrim(l, Len(s)) = SubSeq(l, 1, Len(l) - Len(s))
    BY <1>2 DEF Ltrim
  <2>2. i \in 1..Len(SubSeq(l, 1, Len(l) - Len(s))) /\ SubSeq(l, 1, Len(l) - Len(s))[i] = l[i]
    BY <1>2
  <2>3. i \in DOMAIN SubSeq(l, 1, Len(l) - Len(s))
    BY <2>2
  <2>4. QED
    BY <2>1, <2>2, <2>3 DEF ToSet
<1>3. QED
  BY <1>1, <1>2

(* LPUSH adds what is pushed. *)
LEMMA PushSet ==
  ASSUME NEW l \in Seq(Nat), NEW s \in Seq(Nat)
  PROVE  ToSet(l) \union ToSet(s) \subseteq ToSet(Lpush(l, s))
<1> DEFINE h == Reverse(s)
<1>1. h \in Seq(Nat) /\ Len(h) = Len(s) /\ Len(s) \in Nat /\ Len(l) \in Nat
  <2>1. h \in Seq(Nat)
    BY ListTypes, 0 \in Nat, Zenon
  <2>2. DOMAIN h = 1..Len(s) /\ Len(s) \in Nat
    BY DEF Reverse
  <2>3. QED
    BY <2>1, <2>2
<1>2. \A i \in 1..Len(s) : Len(s) - i + 1 \in 1..Len(s) /\ h[Len(s) - i + 1] = s[i]
  BY DEF Reverse
<1>3. Lpush(l, s) = h \o l
  BY DEF Lpush
<1> HIDE DEF h
<1>4. h \o l \in Seq(Nat) /\ Len(h \o l) = Len(s) + Len(l)
  BY <1>1, ConcatLists
<1>5. ASSUME NEW i \in 1..Len(s)
      PROVE  s[i] \in ToSet(h \o l)
  <2> DEFINE j == Len(s) - i + 1
  <2>1. j \in 1..Len(s) /\ h[j] = s[i]
    BY <1>2
  <2> HIDE DEF j
  <2>2. (h \o l)[j] = h[j]
    BY <1>1, <2>1, ConcatLists
  <2>3. j \in 1..Len(h \o l)
    BY <1>1, <1>4, <2>1
  <2>4. QED
    BY <1>4, <2>1, <2>2, <2>3, EntryIn
<1>6. ASSUME NEW i \in 1..Len(l)
      PROVE  l[i] \in ToSet(h \o l)
  <2>1. (h \o l)[Len(h) + i] = l[i]
    BY <1>1, ConcatLists, Zenon
  <2>2. Len(h) + i \in 1..Len(h \o l)
    BY <1>1, <1>4
  <2>3. QED
    BY <1>4, <2>1, <2>2, EntryIn
<1>7. \A e \in ToSet(s) : e \in ToSet(h \o l)
  BY <1>5, EntryIn
<1>8. \A e \in ToSet(l) : e \in ToSet(h \o l)
  BY <1>6, EntryIn
<1>9. QED
  BY <1>3, <1>7, <1>8

-----------------------------------------------------------------------------
(* Control.                                                                *)

(* A thread goes on without a batch, in upload_handler or at its end. *)
GoesOn(r) == Settled(r) /\ (r.pc = "idle" \/ r.op = "upload")

(* Where the handler goes on, and when in upload_failing. *)
LEMMA IdleFields == Idle.pc = "idle" /\ Idle.queue = PENDING_QUEUE
  BY DEF Idle

LEMMA FailingControl ==
  ASSUME NEW r \in ThreadState, r.op = "upload"
  PROVE  /\ GoesOn(NextBatch(r)) /\ NextBatch(r).queue = r.queue
         /\ GoesOn(LeaveFailing(r)) /\ ~Failing(LeaveFailing(r))
         /\ GoesOn(NextFailing(r))
         /\ LeaveFailing(r).pc # "idle" /\ NextFailing(r).pc # "idle"
<1>1. /\ NextBatch(r).pc = "fetch" /\ NextBatch(r).op = "upload"
      /\ NextBatch(r).queue = r.queue
  BY DEF NextBatch, ThreadState
<1>2. LeaveFailing(r).pc = "rlist" /\ LeaveFailing(r).op = "upload"
  BY DEF LeaveFailing, Idle
<1>3. [NextBatch(r) EXCEPT !.pc = "fnext"].pc = "fnext" /\ [NextBatch(r) EXCEPT !.pc = "fnext"].op = "upload"
  BY <1>1, ControlTypes DEF ThreadState
<1>4. NextFailing(r).pc \in {"rlist", "fnext"} /\ NextFailing(r).op = "upload"
  BY <1>2, <1>3 DEF NextFailing
<1>5. QED
  BY <1>1, <1>2, <1>4 DEF GoesOn, Settled, Failing

LEMMA BatchesControl ==
  ASSUME NEW r \in ThreadState, r.op = "upload"
  PROVE  /\ GoesOn(BatchesDone(r)) /\ (Failing(BatchesDone(r)) => r.queue # PENDING_QUEUE)
         /\ GoesOn(BatchesFailed(r)) /\ ~Failing(BatchesFailed(r))
<1>1. GoesOn(Idle) /\ ~Failing(Idle)
  BY IdleFields DEF GoesOn, Settled, Failing
<1>2. QED
  BY <1>1, FailingControl DEF BatchesDone, BatchesFailed

LEMMA RetryingControl ==
  ASSUME NEW r \in ThreadState, r.op = "upload"
  PROVE  /\ GoesOn(LeaveRetrying(r)) /\ ~Failing(LeaveRetrying(r))
         /\ GoesOn(AbortRetrying(r)) /\ ~Failing(AbortRetrying(r))
         /\ GoesOn(NextRetry(r)) /\ ~Failing(NextRetry(r))
<1>1. GoesOn(Idle) /\ ~Failing(Idle)
  BY IdleFields DEF GoesOn, Settled, Failing
<1>2. /\ EnterPending(r).pc = "fetch" /\ EnterPending(r).op = "upload"
      /\ EnterPending(r).queue = PENDING_QUEUE
  BY IdleType, IdleFields DEF EnterPending, NextBatch, Idle
<1>3. GoesOn(EnterPending(r)) /\ ~Failing(EnterPending(r))
  BY <1>2 DEF GoesOn, Settled, Failing
<1>4. /\ GoesOn(LeaveRetrying(r)) /\ ~Failing(LeaveRetrying(r))
      /\ GoesOn(AbortRetrying(r)) /\ ~Failing(AbortRetrying(r))
  BY <1>1, <1>3 DEF LeaveRetrying, AbortRetrying
<1> DEFINE n == [r EXCEPT !.pc = "rfetch", !.name = NoName, !.batch = <<>>]
<1>5. n.pc = "rfetch" /\ n.op = "upload"
  BY DEF ThreadState
<1>6. GoesOn(n) /\ ~Failing(n)
  BY <1>5 DEF GoesOn, Settled, Failing
<1>7. QED
  BY <1>4, <1>6 DEF NextRetry

(* A step of the handler is a step of self. *)
LEMMA SelfProceed ==
  ASSUME ThreadsOK, NEW r, Proceed(Handler, r)
  PROVE  self' = r /\ first' = (first /\ ~(self.op = "upload" /\ r.pc = "idle"))
<1>1. Handler \in DOMAIN th
  BY ConstantsAssumption DEF ThreadsOK
<1>2. QED
  BY <1>1 DEF Proceed, self

(* The handler goes on without a batch. *)
LEMMA SettleStep ==
  ASSUME ThreadsOK, NEW r, Proceed(Handler, r), GoesOn(r),
         self.op = "upload" \/ r.pc # "idle",
         Failing(r) => \A q \in FailQueues : cache'[q] = <<>>,
         EndOf(cache'[PENDING_QUEUE], lists'[PENDING_QUEUE]),
         DistinctInv'
  PROVE  Structure'
<1>1. self' = r /\ (r.pc = "idle" => ~first')
  BY SelfProceed
<1>2. self'.pc \in {"idle", "fnext", "fetch", "rlist", "rfetch"}
  BY <1>1 DEF GoesOn, Settled
<1>3. ControlInv'
  BY <1>1, <1>2 DEF ControlInv, GoesOn
<1>4. BatchInv' /\ RetryInv' /\ AckInv'
  BY <1>2 DEF BatchInv, RetryInv, AckInv
<1>5. CacheInv'
  <2>1. ~(self'.pc \in {"post", "trim", "transfer"})
    BY <1>2
  <2>2. Failing(self)' <=> Failing(r)
    BY <1>1 DEF Failing
  <2>3. QED
    BY <1>1, <2>1, <2>2 DEF CacheInv
<1>6. QED
  BY <1>3, <1>4, <1>5 DEF Structure

-----------------------------------------------------------------------------
(* Steps of _upload_batch keep the structure.                              *)

(* What of the structure depends on Redis alone. *)
LEMMA DistinctUnchanged ==
  ASSUME DistinctInv, UNCHANGED <<retr, saving, disk, clock>>
  PROVE  DistinctInv'
  BY DEF DistinctInv, Distinct

(* The types the proofs use. *)
LEMMA SelfType ==
  ASSUME TypeOK
  PROVE  /\ self \in ThreadState
         /\ self.batch \in Seq(Nat) /\ self.queue \in Queues
         /\ cache \in [Queues -> Seq(Nat)] /\ lists \in [Queues -> Seq(Nat)]
         /\ \A q \in Queues : cache[q] \in Seq(Nat) /\ lists[q] \in Seq(Nat)
         /\ PENDING_QUEUE \in Queues /\ FailQueues \subseteq Queues
<1>1. self \in ThreadState
  BY ConstantsAssumption DEF TypeOK, ThreadsOK, self
<1>2. QED
  BY <1>1, QueueTypes DEF TypeOK, ThreadsOK, RedisOK, ThreadState

LEMMA FetchBatchStructure ==
  ASSUME TypeOK, Structure, FetchBatch(Handler)
  PROVE  Structure'
<1> DEFINE q == self.queue
           new == Lrange(lists[q], MaxBatch)
<1>1. /\ self.pc = "fetch" /\ self.op = "upload" /\ q \in Queues
      /\ cache' = [cache EXCEPT ![q] = <<>>]
      /\ UNCHANGED <<lists, retr, saving, disk, clock, delivered>>
      /\ DistinctInv'
  BY SelfType, DistinctUnchanged
     DEF FetchBatch, self, unchangedByControl, Structure, ControlInv
<1>2. /\ \A p \in Queues : cache'[p] = IF p = q THEN <<>> ELSE cache[p]
      /\ EndOf(cache'[PENDING_QUEUE], lists'[PENDING_QUEUE])
  <2>1. \A p \in Queues : cache'[p] = IF p = q THEN <<>> ELSE cache[p]
    BY <1>1, SelfType
  <2>2. QED
    BY <1>1, <2>1, SelfType, EndLrange, 0 \in Nat DEF Structure, CacheInv
<1>3. q # PENDING_QUEUE => \A p \in FailQueues : cache[p] = <<>> /\ cache'[p] = <<>>
  BY <1>1, <1>2, SelfType DEF Structure, CacheInv, Failing
<1>4. ASSUME NEW b \in Seq(Nat), NEW c \in BOOLEAN,
             Proceed(Handler, [self EXCEPT !.pc = "post", !.batch = b, !.cached = c]),
             EndOf(b, lists[q])
      PROVE  Structure'
  <2>1. /\ self'.pc = "post" /\ self'.op = "upload" /\ self'.queue = q /\ self'.batch = b
    <3> DEFINE r == [self EXCEPT !.pc = "post", !.batch = b, !.cached = c]
    <3>1. self' = r
      BY <1>4, SelfProceed DEF TypeOK
    <3>2. r.pc = "post" /\ r.op = "upload" /\ r.queue = q /\ r.batch = b
      BY <1>1, SelfType DEF ThreadState
    <3>3. QED
      BY <3>1, <3>2
  <2>2. ControlInv' /\ RetryInv' /\ AckInv'
    BY <2>1 DEF ControlInv, RetryInv, AckInv
  <2>3. BatchInv'
    BY <1>1, <1>4, <2>1 DEF BatchInv
  <2>4. cache'[self'.queue] = <<>>
    BY <1>1, <1>2, <2>1
  <2>5. Failing(self') => q # PENDING_QUEUE
    BY <2>1 DEF Failing
  <2>6. Failing(self)' <=> Failing(self')
    BY DEF Failing
  <2>7. CacheInv'
    BY <1>2, <1>3, <2>1, <2>4, <2>5, <2>6 DEF CacheInv
  <2>8. QED
    BY <1>1, <2>2, <2>3, <2>7 DEF Structure
<1>5. CASE cache[q] # <<>> /\ Proceed(Handler, [self EXCEPT !.pc = "post", !.batch = cache[q], !.cached = TRUE])
  <2>1. q = PENDING_QUEUE
    BY <1>1, <1>3, <1>5 DEF Queues
  <2>2. EndOf(cache[q], lists[q])
    BY <2>1 DEF Structure, CacheInv
  <2>3. cache[q] \in Seq(Nat)
    BY <1>1, SelfType
  <2>4. QED
    BY <1>4, <1>5, <2>2, <2>3
<1>6. CASE new # <<>> /\ Proceed(Handler, [self EXCEPT !.pc = "post", !.batch = new])
  <2>1. new \in Seq(Nat) /\ EndOf(new, lists[q])
    BY <1>1, SelfType, EndLrange, ListTypes, EmptyList, ConstantsAssumption
  <2>2. self.cached \in BOOLEAN
    BY SelfType DEF ThreadState
  <2>3. [self EXCEPT !.pc = "post", !.batch = new]
          = [self EXCEPT !.pc = "post", !.batch = new, !.cached = self.cached]
    BY SelfType DEF ThreadState
  <2>4. QED
    BY <1>4, <1>6, <2>1, <2>2, <2>3
<1>7. CASE Proceed(Handler, BatchesDone(self))
  <2>1. /\ GoesOn(BatchesDone(self)) /\ (Failing(BatchesDone(self)) => q # PENDING_QUEUE)
    BY <1>1, SelfType, BatchesControl
  <2>2. QED
    BY <1>1, <1>2, <1>3, <1>7, <2>1, SettleStep DEF TypeOK
<1>8. QED
  BY <1>5, <1>6, <1>7 DEF FetchBatch, self

(* A POST that is followed by another step with the same batch. *)
LEMMA SameBatchStructure ==
  ASSUME TypeOK, Structure, NEW p \in {"trim", "transfer"}, self.pc = "post",
         Proceed(Handler, [self EXCEPT !.pc = p]),
         UNCHANGED <<lists, retr, saving, disk, clock, cache>>,
         p = "transfer" => self.queue = PENDING_QUEUE,
         p = "trim" => ToSet(self.batch) \subseteq delivered'
  PROVE  Structure'
<1>1. /\ self'.pc = p /\ self'.op = "upload" /\ self'.queue = self.queue
      /\ self'.batch = self.batch /\ (Failing(self)' => Failing(self))
  <2>1. self.op = "upload"
    BY DEF Structure, ControlInv
  <2>2. /\ self'.pc = p /\ self'.op = "upload" /\ self'.queue = self.queue
        /\ self'.batch = self.batch
    BY <2>1, SelfProceed, SelfType DEF TypeOK, ThreadState
  <2>3. QED
    BY <2>2 DEF Failing
<1>2. ControlInv' /\ RetryInv' /\ AckInv'
  BY <1>1 DEF ControlInv, RetryInv, AckInv
<1>3. BatchInv'
  BY <1>1 DEF Structure, BatchInv
<1>4. CacheInv'
  BY <1>1 DEF Structure, CacheInv
<1>5. QED
  BY <1>2, <1>3, <1>4, DistinctUnchanged DEF Structure

LEMMA PostBatchStructure ==
  ASSUME TypeOK, Structure,
         PostBatchOk(Handler) \/ PostBatchUnanswered(Handler) \/ PostBatchRejected(Handler)
  PROVE  Structure'
<1>1. /\ self.pc = "post" /\ self.op = "upload"
      /\ UNCHANGED <<lists, retr, saving, disk, clock>>
      /\ DistinctInv'
  BY DistinctUnchanged
     DEF PostBatchOk, PostBatchUnanswered, PostBatchRejected, self, unchangedByPost,
         Structure, ControlInv
<1>2. GoesOn(BatchesFailed(self)) /\ ~Failing(BatchesFailed(self))
  BY <1>1, SelfType, BatchesControl
<1>3. CASE PostBatchOk(Handler)
  BY <1>1, <1>3, SameBatchStructure DEF PostBatchOk, self, ServerAccepts
<1>4. CASE PostBatchUnanswered(Handler)
  <2>1. cache' = [cache EXCEPT ![self.queue] = self.batch] /\ Proceed(Handler, BatchesFailed(self))
    BY <1>4 DEF PostBatchUnanswered, self
  <2>2. EndOf(cache'[PENDING_QUEUE], lists'[PENDING_QUEUE])
    BY <1>1, <2>1, SelfType DEF Structure, BatchInv, CacheInv
  <2>3. QED
    BY <1>1, <1>2, <2>1, <2>2, SettleStep DEF TypeOK
<1>5. CASE PostBatchRejected(Handler)
  <2>1. UNCHANGED cache
    BY <1>5 DEF PostBatchRejected
  <2>2. CASE self.queue = PENDING_QUEUE /\ Proceed(Handler, [self EXCEPT !.pc = "transfer"])
    BY <1>1, <2>1, <2>2, SameBatchStructure
  <2>3. CASE Proceed(Handler, BatchesFailed(self))
    <3>1. EndOf(cache'[PENDING_QUEUE], lists'[PENDING_QUEUE])
      BY <1>1, <2>1 DEF Structure, CacheInv
    <3>2. QED
      BY <1>1, <1>2, <2>1, <2>3, <3>1, SettleStep DEF TypeOK
  <2>4. QED
    BY <1>5, <2>2, <2>3 DEF PostBatchRejected, self
<1>6. QED
  BY <1>3, <1>4, <1>5

-----------------------------------------------------------------------------
(* Steps that end in BGSAVE keep the structure.                            *)

(* Handing out a timestamp leaves those of other data sets distinct. *)
LEMMA DistinctLater ==
  ASSUME NEW r \in SUBSET RetryQueue, Distinct(r), clock \in Nat,
         clock' \in {clock, clock + 1}
  PROVE  /\ \A x \in r : x.ts <= clock'
         /\ \A x, y \in r : x.ts = y.ts => x = y
<1>1. \A x \in r : x.ts \in Nat
  BY DEF RetryQueue
<1>2. QED
  BY <1>1 DEF Distinct

LEMMA SnapshotTypes ==
  ASSUME TypeOK
  PROVE  /\ retr \in SUBSET RetryQueue
         /\ saving.retr \in SUBSET RetryQueue
         /\ disk.retr \in SUBSET RetryQueue
         /\ clock \in Nat
  BY DEF TypeOK, RedisOK, HistoryOK, Snapshot, NoSave

LEMMA PersistStructure ==
  ASSUME TypeOK, Structure, NEW ok, NEW error, PersistThen(Handler, ok, error),
         self.op = "upload", GoesOn(ok), GoesOn(error),
         Failing(ok) => \A q \in FailQueues : cache[q] = <<>>, ~Failing(error),
         UNCHANGED <<disk, cache>>, clock' \in {clock, clock + 1},
         Distinct(retr)', EndOf(cache[PENDING_QUEUE], lists'[PENDING_QUEUE])
  PROVE  Structure'
<1>1. Distinct(saving.retr)' /\ Distinct(disk.retr)'
  <2>1. Distinct(disk.retr)'
    BY SnapshotTypes, DistinctLater DEF Structure, DistinctInv, Distinct
  <2>2. CASE saving' = [lists |-> lists', retr |-> retr']
    BY <2>1, <2>2 DEF Distinct
  <2>3. CASE saving' = saving
    BY <2>1, <2>3, SnapshotTypes, DistinctLater DEF Structure, DistinctInv, Distinct
  <2>4. QED
    BY <2>2, <2>3, <2>1 DEF PersistThen
<1>2. DistinctInv'
  BY <1>1 DEF DistinctInv
<1>3. CASE Proceed(Handler, ok)
  BY <1>2, <1>3, SettleStep DEF TypeOK
<1>4. CASE Proceed(Handler, error)
  BY <1>2, <1>4, SettleStep DEF TypeOK
<1>5. QED
  BY <1>3, <1>4 DEF PersistThen

(* The lists after LTRIM. *)
LEMMA TrimmedLists ==
  ASSUME TypeOK, NEW q \in Queues, lists' = [lists EXCEPT ![q] = Ltrim(@, Len(self.batch))]
  PROVE  /\ lists'[q] = Ltrim(lists[q], Len(self.batch)) /\ lists'[q] \in Seq(Nat)
         /\ EndOf(<<>>, lists'[q])
         /\ \A p \in Queues : p # q => lists'[p] = lists[p]
<1>1. lists[q] \in Seq(Nat) /\ Len(self.batch) \in Nat
  BY SelfType
<1>2. lists'[q] = Ltrim(lists[q], Len(self.batch)) /\ \A p \in Queues : p # q => lists'[p] = lists[p]
  BY SelfType
<1>3. lists'[q] \in Seq(Nat)
  BY <1>1, <1>2, ListTypes, EmptyList
<1>4. EndOf(<<>>, lists'[q])
  BY <1>3, EndLrange, 0 \in Nat
<1>5. QED
  BY <1>2, <1>3, <1>4

LEMMA TrimBatchStructure ==
  ASSUME TypeOK, Structure, TrimBatch(Handler)
  PROVE  Structure'
<1> DEFINE q  == self.queue
           ok == IF Len(self.batch) = MaxBatch \/ self.cached
                 THEN NextBatch(self) ELSE BatchesDone(self)
<1>1. /\ self.pc = "trim" /\ self.op = "upload" /\ q \in Queues
      /\ lists' = [lists EXCEPT ![q] = Ltrim(@, Len(self.batch))]
      /\ PersistThen(Handler, ok, BatchesFailed(self))
      /\ UNCHANGED <<retr, disk, cache, clock>>
  BY SelfType DEF TrimBatch, self, Structure, ControlInv
<1>2. /\ GoesOn(ok) /\ (Failing(ok) => q # PENDING_QUEUE)
      /\ GoesOn(BatchesFailed(self)) /\ ~Failing(BatchesFailed(self))
  <2>1. Failing(NextBatch(self)) => NextBatch(self).queue # PENDING_QUEUE
    BY <1>1, SelfType, FailingControl DEF Failing, NextBatch, ThreadState
  <2>2. QED
    BY <1>1, <2>1, SelfType, FailingControl, BatchesControl
<1>3. Failing(ok) => \A p \in FailQueues : cache[p] = <<>>
  BY <1>1, <1>2 DEF Structure, CacheInv, Failing
<1>4. EndOf(cache[PENDING_QUEUE], lists'[PENDING_QUEUE])
  <2>1. CASE q = PENDING_QUEUE
    <3>1. cache[PENDING_QUEUE] = <<>>
      BY <1>1, <2>1 DEF Structure, CacheInv
    <3>2. QED
      BY <1>1, <2>1, <3>1, TrimmedLists
  <2>2. CASE q # PENDING_QUEUE
    BY <1>1, <2>2, SelfType DEF Structure, CacheInv
  <2>3. QED
    BY <2>1, <2>2
<1>5. Distinct(retr)'
  BY <1>1 DEF Structure, DistinctInv, Distinct
<1> HIDE DEF q, ok
<1>6. QED
  BY <1>1, <1>2, <1>3, <1>4, <1>5, PersistStructure

LEMMA TransferBatchStructure ==
  ASSUME TypeOK, Structure, TransferBatch(Handler)
  PROVE  Structure'
<1> DEFINE new == [ts |-> clock + 1, attempt |-> 0, entries |-> Lpush(<<>>, self.batch)]
<1>1. /\ self.pc = "transfer" /\ self.op = "upload" /\ self.queue = PENDING_QUEUE
      /\ lists' = [lists EXCEPT ![PENDING_QUEUE] = Ltrim(@, Len(self.batch))]
      /\ retr' = retr \union {new} /\ clock' = clock + 1
      /\ PersistThen(Handler, BatchesFailed(self), BatchesFailed(self))
      /\ UNCHANGED <<disk, cache>>
  BY DEF TransferBatch, self, Structure, ControlInv
<1>2. GoesOn(BatchesFailed(self)) /\ ~Failing(BatchesFailed(self))
  BY <1>1, SelfType, BatchesControl
<1>3. EndOf(cache[PENDING_QUEUE], lists'[PENDING_QUEUE])
  <2>1. cache[PENDING_QUEUE] = <<>>
    BY <1>1 DEF Structure, CacheInv
  <2>2. QED
    BY <1>1, <2>1, TrimmedLists, QueueTypes
<1>4. Distinct(retr)'
  <2>1. \A x \in retr : x.ts \in Nat /\ x.ts <= clock
    BY SnapshotTypes DEF Structure, DistinctInv, Distinct, RetryQueue
  <2>2. new.ts = clock + 1
    OBVIOUS
  <2>3. \A x, y \in retr : x.ts = y.ts => x = y
    BY DEF Structure, DistinctInv, Distinct
  <2> HIDE DEF new
  <2>4. QED
    BY <1>1, <2>1, <2>2, <2>3, SnapshotTypes DEF Distinct
<1>5. QED
  BY <1>1, <1>2, <1>3, <1>4, PersistStructure

-----------------------------------------------------------------------------
(* Steps of upload_retrying keep the structure.                            *)

(* A step that goes on without a batch and leaves Redis alone. *)
LEMMA QuietStructure ==
  ASSUME TypeOK, Structure, NEW r, Proceed(Handler, r), GoesOn(r),
         self.op = "upload" \/ r.pc # "idle",
         Failing(r) => \A q \in FailQueues : cache[q] = <<>>,
         UNCHANGED <<lists, retr, saving, disk, clock, cache>>
  PROVE  Structure'
<1>1. EndOf(cache'[PENDING_QUEUE], lists'[PENDING_QUEUE]) /\ DistinctInv'
  BY DistinctUnchanged DEF Structure, CacheInv
<1>2. QED
  BY <1>1, SettleStep DEF TypeOK

(* A step of a retry: the batch is what the queue of this name holds. *)
LEMMA RetryStructure ==
  ASSUME TypeOK, Structure, NEW r \in ThreadState, Proceed(Handler, r),
         r.op = "upload", r.pc \in {"rpost", "rdelete", "rfail", "rbump"},
         \A x \in Named(r.name) : x.entries = r.batch,
         r.pc = "rdelete" => ToSet(r.batch) \subseteq delivered',
         UNCHANGED <<lists, retr, saving, disk, clock, cache>>
  PROVE  Structure'
<1>1. self' = r
  BY SelfProceed DEF TypeOK
<1>2. ControlInv' /\ BatchInv' /\ AckInv'
  BY <1>1 DEF ControlInv, BatchInv, AckInv
<1>3. RetryInv'
  BY <1>1 DEF RetryInv, Named
<1>4. Failing(self)' <=> Failing(r)
  BY <1>1 DEF Failing
<1>5. CacheInv'
  BY <1>1, <1>4 DEF Structure, CacheInv, Failing
<1>6. QED
  BY <1>2, <1>3, <1>5, DistinctUnchanged DEF Structure

LEMMA ListRetryingStructure ==
  ASSUME TypeOK, Structure, ListRetrying(Handler)
  PROVE  Structure'
<1> DEFINE n == {[ts |-> x.ts, attempt |-> x.attempt] : x \in retr}
           r == [self EXCEPT !.names = n, !.remaining = Cardinality(retr)]
<1>1. /\ self.pc = "rlist" /\ self.op = "upload" /\ Proceed(Handler, NextRetry(r))
      /\ UNCHANGED <<lists, retr, saving, disk, clock, cache>>
  BY DEF ListRetrying, self, unchangedByControl, Structure, ControlInv
<1>2. r \in ThreadState /\ r.op = "upload"
  <2>1. n \subseteq Name
    BY SnapshotTypes DEF RetryQueue, Name
  <2>2. Cardinality(retr) \in Int
    BY FS_CardinalityType DEF TypeOK, RedisOK
  <2> HIDE DEF n
  <2>3. QED
    BY <1>1, <2>1, <2>2, SelfType DEF ThreadState
<1>3. GoesOn(NextRetry(r)) /\ ~Failing(NextRetry(r))
  BY <1>2, RetryingControl
<1> HIDE DEF r
<1>4. QED
  BY <1>1, <1>3, QuietStructure

LEMMA FetchRetryStructure ==
  ASSUME TypeOK, Structure, FetchRetry(Handler)
  PROVE  Structure'
<1>1. /\ self.pc = "rfetch" /\ self.op = "upload"
      /\ UNCHANGED <<lists, retr, saving, disk, clock, cache>>
  BY DEF FetchRetry, self, unchangedByControl, Structure, ControlInv
<1>2. PICK n \in self.names :
        LET next == [self EXCEPT !.pc = "rpost", !.name = n, !.names = @ \ {n}]
        IN  \/ \E x \in Named(n) : Proceed(Handler, [next EXCEPT !.batch = x.entries])
            \/ Named(n) = {} /\ Proceed(Handler, next)
  BY DEF FetchRetry, self
<1> DEFINE next == [self EXCEPT !.pc = "rpost", !.name = n, !.names = @ \ {n}]
<1>3. /\ next \in ThreadState /\ next.op = "upload" /\ next.pc = "rpost" /\ next.name = n
  BY <1>1, SelfType DEF ThreadState
<1> HIDE DEF next
<1>4. CASE Named(n) = {} /\ Proceed(Handler, next)
  BY <1>1, <1>3, <1>4, RetryStructure
<1>5. ASSUME NEW x \in Named(n), Proceed(Handler, [next EXCEPT !.batch = x.entries])
      PROVE  Structure'
  <2> DEFINE r == [next EXCEPT !.batch = x.entries]
  <2>1. x.entries \in Seq(Nat)
    BY <1>5, SnapshotTypes DEF Named, RetryQueue
  <2>2. /\ r \in ThreadState /\ r.op = "upload" /\ r.pc = "rpost" /\ r.name = n
        /\ r.batch = x.entries
    BY <1>3, <2>1 DEF ThreadState
  <2>3. \A y \in Named(n) : y = x
    BY <1>5 DEF Named, Structure, DistinctInv, Distinct
  <2> HIDE DEF r
  <2>4. QED
    BY <1>1, <1>5, <2>2, <2>3, RetryStructure DEF r
<1>6. QED
  BY <1>2, <1>4, <1>5 DEF next

LEMMA PostRetryStructure ==
  ASSUME TypeOK, Structure,
         PostRetryOk(Handler) \/ PostRetryUnanswered(Handler) \/ PostRetryRejected(Handler)
  PROVE  Structure'
<1>1. /\ self.pc = "rpost" /\ self.op = "upload"
      /\ UNCHANGED <<lists, retr, saving, disk, clock, cache>>
  BY DEF PostRetryOk, PostRetryUnanswered, PostRetryRejected, self, unchangedByPost,
         Structure, ControlInv
<1>2. \A x \in Named(self.name) : x.entries = self.batch
  BY <1>1 DEF Structure, RetryInv
<1>3. CASE PostRetryUnanswered(Handler)
  <2>1. GoesOn(LeaveRetrying(self)) /\ ~Failing(LeaveRetrying(self))
    BY <1>1, SelfType, RetryingControl
  <2>2. Proceed(Handler, LeaveRetrying(self))
    BY <1>3 DEF PostRetryUnanswered, self
  <2>3. QED
    BY <1>1, <2>1, <2>2, QuietStructure
<1>4. ASSUME NEW p \in {"rdelete", "rfail", "rbump"}, Proceed(Handler, [self EXCEPT !.pc = p]),
             p = "rdelete" => ToSet(self.batch) \subseteq delivered'
      PROVE  Structure'
  <2> DEFINE r == [self EXCEPT !.pc = p]
  <2>1. /\ r \in ThreadState /\ r.op = "upload" /\ r.pc = p /\ r.name = self.name
        /\ r.batch = self.batch
    BY <1>1, SelfType DEF ThreadState
  <2> HIDE DEF r
  <2>2. QED
    BY <1>1, <1>2, <1>4, <2>1, RetryStructure DEF r
<1>5. CASE PostRetryOk(Handler)
  <2>1. Proceed(Handler, [self EXCEPT !.pc = "rdelete"]) /\ ToSet(self.batch) \subseteq delivered'
    BY <1>5 DEF PostRetryOk, self, ServerAccepts
  <2>2. QED
    BY <1>4, <2>1
<1>6. CASE PostRetryRejected(Handler)
  <2>1. \E p \in {"rfail", "rbump"} : Proceed(Handler, [self EXCEPT !.pc = p])
    BY <1>6 DEF PostRetryRejected, self
  <2>2. QED
    BY <1>4, <2>1
<1>7. QED
  BY <1>3, <1>5, <1>6

LEMMA DeleteRetryStructure ==
  ASSUME TypeOK, Structure, DeleteRetry(Handler)
  PROVE  Structure'
<1> DEFINE r == [self EXCEPT !.remaining = @ - 1]
<1>1. /\ self.pc = "rdelete" /\ self.op = "upload"
      /\ retr' = retr \ Named(self.name)
      /\ PersistThen(Handler, NextRetry(r), AbortRetrying(self))
      /\ UNCHANGED <<lists, disk, cache, clock>>
  BY DEF DeleteRetry, unchangedByRetry, self, Structure, ControlInv
<1>2. r \in ThreadState /\ r.op = "upload"
  <2>1. self.remaining - 1 \in Int
    BY SelfType DEF ThreadState
  <2>2. QED
    BY <1>1, <2>1, SelfType DEF ThreadState
<1> HIDE DEF r
<1>3. Distinct(retr)'
  BY <1>1 DEF Structure, DistinctInv, Distinct
<1>4. EndOf(cache[PENDING_QUEUE], lists'[PENDING_QUEUE])
  BY <1>1 DEF Structure, CacheInv
<1>5. QED
  BY <1>1, <1>2, <1>3, <1>4, SelfType, RetryingControl, PersistStructure

LEMMA FailRetryStructure ==
  ASSUME TypeOK, Structure, FailRetry(Handler)
  PROVE  Structure'
<1>1. self.pc = "rfail" /\ self.op = "upload" /\ UNCHANGED <<disk, cache, clock>>
  BY DEF FailRetry, unchangedByRetry, self, Structure, ControlInv
<1>2. /\ GoesOn(NextRetry(self)) /\ ~Failing(NextRetry(self))
      /\ GoesOn(AbortRetrying(self)) /\ ~Failing(AbortRetrying(self))
  BY <1>1, SelfType, RetryingControl
<1>3. CASE /\ lists' = [lists EXCEPT ![day] = Lpush(@, self.batch)]
           /\ retr' = retr \ Named(self.name)
           /\ PersistThen(Handler, NextRetry(self), AbortRetrying(self))
  <2>1. Distinct(retr)'
    BY <1>1, <1>3 DEF Structure, DistinctInv, Distinct
  <2>2. lists'[PENDING_QUEUE] = lists[PENDING_QUEUE]
    <3>1. day # PENDING_QUEUE
      BY DEF TypeOK, HistoryOK, FailQueues, PENDING_QUEUE
    <3>2. QED
      BY <1>3, <3>1, SelfType
  <2>3. EndOf(cache[PENDING_QUEUE], lists'[PENDING_QUEUE])
    BY <2>2 DEF Structure, CacheInv
  <2>4. QED
    BY <1>1, <1>2, <1>3, <2>1, <2>3, PersistStructure
<1>4. CASE Proceed(Handler, AbortRetrying(self)) /\ UNCHANGED <<lists, retr, saving>>
  BY <1>1, <1>2, <1>4, QuietStructure
<1>5. QED
  BY <1>3, <1>4 DEF FailRetry, self

LEMMA BumpRetryStructure ==
  ASSUME TypeOK, Structure, BumpRetry(Handler)
  PROVE  Structure'
<1> DEFINE ok == IF Named(self.name) # {} THEN NextRetry(self) ELSE AbortRetrying(self)
           renamed == {[x EXCEPT !.attempt = @ + 1] : x \in Named(self.name)}
<1>1. /\ self.pc = "rbump" /\ self.op = "upload"
      /\ retr' = (retr \ Named(self.name)) \union renamed
      /\ PersistThen(Handler, ok, AbortRetrying(self))
      /\ UNCHANGED <<lists, disk, cache, clock>>
  BY DEF BumpRetry, unchangedByRetry, self, Structure, ControlInv
<1>2. /\ GoesOn(ok) /\ ~Failing(ok)
      /\ GoesOn(AbortRetrying(self)) /\ ~Failing(AbortRetrying(self))
  BY <1>1, SelfType, RetryingControl
<1>3. Distinct(retr)'
  <2>1. ASSUME NEW y \in renamed
        PROVE  \E x \in Named(self.name) : y = [x EXCEPT !.attempt = @ + 1] /\ y.ts = x.ts
    BY SnapshotTypes DEF Named, RetryQueue
  <2>2. Named(self.name) \subseteq retr /\ \A x, y \in retr : x.ts = y.ts => x = y
    BY DEF Named, Structure, DistinctInv, Distinct
  <2>3. \A x \in retr : x.ts <= clock
    BY DEF Structure, DistinctInv, Distinct
  <2> HIDE DEF renamed
  <2>4. QED
    BY <1>1, <2>1, <2>2, <2>3 DEF Distinct
<1>4. EndOf(cache[PENDING_QUEUE], lists'[PENDING_QUEUE])
  BY <1>1 DEF Structure, CacheInv
<1> HIDE DEF ok, renamed
<1>5. QED
  BY <1>1, <1>2, <1>3, <1>4, PersistStructure

-----------------------------------------------------------------------------
(* The other steps keep the structure.                                     *)

(* A run begins: only the first one visits the fail queues. *)
LEMMA StartUploadStructure ==
  ASSUME TypeOK, Structure, StartUpload(Handler)
  PROVE  Structure'
<1> DEFINE r == [Idle EXCEPT !.op = "upload"]
           f == [r EXCEPT !.queues = {q \in FailQueues : lists[q] # <<>>}]
<1>1. /\ self.pc = "idle" /\ UNCHANGED <<lists, retr, saving, disk, clock, cache>>
      /\ Proceed(Handler, IF first THEN NextFailing(f) ELSE LeaveFailing(r))
  BY DEF StartUpload, ListFailing, self, unchangedByControl
<1>2. r \in ThreadState /\ r.op = "upload" /\ f \in ThreadState /\ f.op = "upload"
  BY IdleType DEF ThreadState
<1> HIDE DEF r, f
<1>3. /\ GoesOn(LeaveFailing(r)) /\ ~Failing(LeaveFailing(r)) /\ LeaveFailing(r).pc # "idle"
      /\ GoesOn(NextFailing(f)) /\ NextFailing(f).pc # "idle"
  BY <1>2, FailingControl
<1>4. CASE first
  BY <1>1, <1>3, <1>4, QuietStructure DEF Structure, CacheInv
<1>5. CASE ~first
  BY <1>1, <1>3, <1>5, QuietStructure
<1>6. QED
  BY <1>4, <1>5

LEMMA NextFailQueueStructure ==
  ASSUME TypeOK, Structure, NextFailQueue(Handler)
  PROVE  Structure'
<1>1. /\ self.pc = "fnext" /\ self.op = "upload" /\ self.queues \subseteq FailQueues
      /\ UNCHANGED <<lists, retr, saving, disk, clock, cache>>
  BY SelfType DEF NextFailQueue, self, unchangedByControl, Structure, ControlInv, ThreadState
<1>2. PICK q \in self.queues :
        Proceed(Handler, [self EXCEPT !.pc = "fetch", !.queue = q, !.queues = @ \ {q}])
  BY DEF NextFailQueue, self
<1> DEFINE r == [self EXCEPT !.pc = "fetch", !.queue = q, !.queues = @ \ {q}]
<1>3. r.pc = "fetch" /\ r.op = "upload"
  BY <1>1, SelfType DEF ThreadState
<1>4. GoesOn(r)
  BY <1>3 DEF GoesOn, Settled
<1>5. \A p \in FailQueues : cache[p] = <<>>
  BY <1>1 DEF Structure, CacheInv, Failing
<1> HIDE DEF r
<1>6. QED
  BY <1>1, <1>2, <1>3, <1>4, <1>5, QuietStructure DEF r

(* Entries arrive at the other end of the pending queue. *)
LEMMA EnqueueStructure ==
  ASSUME TypeOK, Structure, Enqueue
  PROVE  Structure'
<1>1. /\ UNCHANGED <<retr, saving, disk, cache, first, th, clock, delivered>>
      /\ lists' = [lists EXCEPT ![PENDING_QUEUE] = Lpush(@, <<accepted + 1>>)]
      /\ accepted + 1 \in Nat
  BY DEF Enqueue, TypeOK, HistoryOK
<1>2. /\ lists'[PENDING_QUEUE] = Lpush(lists[PENDING_QUEUE], <<accepted + 1>>)
      /\ \A q \in Queues : q # PENDING_QUEUE => lists'[q] = lists[q]
  BY <1>1, SelfType
<1>3. \A s \in Seq(Nat) : EndOf(s, lists[PENDING_QUEUE]) => EndOf(s, lists'[PENDING_QUEUE])
  BY <1>1, <1>2, SelfType, EndPush
<1>4. self' = self
  BY <1>1 DEF self
<1>5. BatchInv'
  BY <1>2, <1>3, <1>4, SelfType DEF Structure, BatchInv
<1>6. CacheInv'
  BY <1>1, <1>3, <1>4, SelfType DEF Structure, CacheInv, Failing
<1>7. ControlInv' /\ RetryInv' /\ AckInv'
  BY <1>1, <1>4 DEF Structure, ControlInv, RetryInv, AckInv, Named
<1>8. QED
  BY <1>1, <1>5, <1>6, <1>7, DistinctUnchanged DEF Structure

(* A fail queue that expires is empty. *)
LEMMA ExpireStructure ==
  ASSUME TypeOK, Structure, NEW q \in FailQueues, Expire(q)
  PROVE  Structure'
<1>1. /\ UNCHANGED <<retr, saving, disk, cache, first, th, clock, delivered>>
      /\ lists' = [lists EXCEPT ![q] = <<>>] /\ q \in Queues /\ q # PENDING_QUEUE
  BY QueueTypes DEF Expire, FailQueues, PENDING_QUEUE
<1>2. lists'[q] = <<>> /\ \A p \in Queues : p # q => lists'[p] = lists[p]
  BY <1>1, SelfType
<1>3. self' = self
  BY <1>1 DEF self
<1>4. BatchInv'
  BY <1>1, <1>2, <1>3, SelfType DEF Structure, BatchInv
<1>5. CacheInv'
  BY <1>1, <1>2, <1>3, SelfType DEF Structure, CacheInv, Failing
<1>6. ControlInv' /\ RetryInv' /\ AckInv'
  BY <1>1, <1>3 DEF Structure, ControlInv, RetryInv, AckInv, Named
<1>7. QED
  BY <1>1, <1>4, <1>5, <1>6, DistinctUnchanged DEF Structure

(* A save begins or ends, or the day changes, or nothing does. *)
LEMMA SaveStructure ==
  ASSUME TypeOK, Structure, AutoSave \/ SaveDone \/ NewDay \/ UNCHANGED vars
  PROVE  Structure'
<1>1. UNCHANGED <<lists, retr, cache, first, th, clock, delivered>>
  BY DEF AutoSave, SaveDone, NewDay, vars
<1>2. self' = self
  BY <1>1 DEF self
<1>3. saving'.retr \in {saving.retr, retr, {}} /\ disk'.retr \in {disk.retr, saving.retr}
  BY DEF AutoSave, SaveDone, NewDay, vars, NoSave
<1>4. DistinctInv'
  BY <1>1, <1>3 DEF Structure, DistinctInv, Distinct
<1>5. ControlInv' /\ BatchInv' /\ CacheInv' /\ RetryInv' /\ AckInv'
  BY <1>1, <1>2 DEF Structure, ControlInv, BatchInv, CacheInv, RetryInv, AckInv, Named, Failing
<1>6. QED
  BY <1>4, <1>5 DEF Structure

(* The service begins anew, on the lists it left or on a snapshot. *)
LEMMA ServiceGoneStructure ==
  ASSUME TypeOK, Structure, Restart \/ PowerLoss
  PROVE  Structure'
<1>1. /\ th' = [t \in Threads |-> Idle] /\ cache' = [q \in Queues |-> <<>>]
      /\ UNCHANGED <<clock, disk>>
      /\ lists' \in {lists, disk.lists} /\ retr' \in {retr, disk.retr}
      /\ saving' \in {saving, NoSave}
  BY DEF Restart, PowerLoss, ServiceGone
<1>2. self'.pc = "idle"
  BY <1>1, ConstantsAssumption, IdleFields DEF self
<1>3. ControlInv' /\ BatchInv' /\ RetryInv' /\ AckInv'
  BY <1>2 DEF ControlInv, BatchInv, RetryInv, AckInv
<1>4. lists'[PENDING_QUEUE] \in Seq(Nat)
  BY <1>1, QueueTypes DEF TypeOK, RedisOK, Snapshot
<1>5. /\ \A q \in Queues : cache'[q] = <<>>
      /\ EndOf(cache'[PENDING_QUEUE], lists'[PENDING_QUEUE])
  BY <1>1, <1>4, EndLrange, QueueTypes, 0 \in Nat
<1>6. CacheInv'
  BY <1>2, <1>5, QueueTypes DEF CacheInv
<1>7. DistinctInv'
  BY <1>1 DEF Structure, DistinctInv, Distinct, NoSave
<1>8. QED
  BY <1>3, <1>6, <1>7 DEF Structure

(* With the handler alone these are all the steps there are. *)
LEMMA AloneSteps ==
  ASSUME Alone, Next
  PROVE  \/ StartUpload(Handler) \/ Run(Handler)
         \/ Enqueue \/ (\E q \in FailQueues : Expire(q)) \/ NewDay
         \/ AutoSave \/ SaveDone \/ Restart \/ PowerLoss
<1>1. /\ \A q \in Queues : ~ClearQueue(q)
      /\ \A x \in retr : ~ClearRetryQueue(x)
      /\ ~ClearEverything
  BY DEF Alone, ClearQueue, ClearRetryQueue, ClearEverything
<1>2. QED
  BY <1>1 DEF Alone, Next, Environment

LEMMA StructureStep ==
  ASSUME Alone, TypeOK, Structure, [Next]_vars
  PROVE  Structure'
<1>1. CASE Run(Handler)
  BY <1>1, NextFailQueueStructure, FetchBatchStructure, PostBatchStructure,
     TrimBatchStructure, TransferBatchStructure, ListRetryingStructure,
     FetchRetryStructure, PostRetryStructure, DeleteRetryStructure,
     FailRetryStructure, BumpRetryStructure DEF Run
<1>2. QED
  BY <1>1, AloneSteps, StartUploadStructure, EnqueueStructure, ExpireStructure,
     SaveStructure, ServiceGoneStructure

-----------------------------------------------------------------------------
(* What a step removes from Redis was delivered or is discarded.           *)

Safe == Held \union delivered \union discarded

Keeps == Safe \subseteq Safe' /\ delivered \subseteq delivered' /\ discarded \subseteq discarded'

(* One list changes, and some retry queues. *)
LEMMA HeldUpdate ==
  ASSUME TypeOK, NEW q \in Queues, NEW s, NEW S,
         lists' = [lists EXCEPT ![q] = s],
         ToSet(lists[q]) \subseteq ToSet(s) \union S,
         \A x \in retr : ToSet(x.entries) \subseteq Held' \union S
  PROVE  Held \subseteq Held' \union S
<1>1. lists'[q] = s /\ \A p \in Queues : p # q => lists'[p] = lists[p]
  BY SelfType
<1>2. ASSUME NEW p \in Queues, NEW e \in ToSet(lists[p])
      PROVE  e \in Held' \union S
  <2>1. e \in ToSet(lists'[p]) \/ e \in S
    BY <1>1, <1>2
  <2>2. QED
    BY <2>1, HeldMember DEF Held
<1>3. QED
  BY <1>2, HeldMember DEF Held

(* The retry queues that stay are held as before. *)
LEMMA HeldRetry ==
  ASSUME NEW x \in retr'
  PROVE  ToSet(x.entries) \subseteq Held'
  BY HeldMember DEF Held

(* Some retry queues change, and no list. *)
LEMMA HeldRetries ==
  ASSUME UNCHANGED lists, NEW S,
         \A x \in retr : ToSet(x.entries) \subseteq Held' \union S
  PROVE  Held \subseteq Held' \union S
<1>1. ASSUME NEW p \in Queues, NEW e \in ToSet(lists[p])
      PROVE  e \in Held'
  BY <1>1, HeldMember DEF Held
<1>2. QED
  BY <1>1, HeldMember DEF Held

(* LTRIM removes entries of the batch: it is the end of the list still, or *)
(* the list has expired.                                                   *)
LEMMA TrimmedBatch ==
  ASSUME TypeOK, Structure, self.pc = "trim"
  PROVE  ToSet(lists[self.queue])
           \subseteq ToSet(Ltrim(lists[self.queue], Len(self.batch))) \union ToSet(self.batch)
<1> DEFINE l == lists[self.queue]
<1>1. CASE EndOf(self.batch, l)
  BY <1>1, SelfType, EndLtrim
<1>2. CASE l = <<>>
  <2>1. ToSet(l) = {}
    BY <1>2 DEF ToSet
  <2>2. QED
    BY <2>1
<1>3. QED
  BY <1>1, <1>2 DEF Structure, BatchInv

LEMMA TrimKeeps ==
  ASSUME TypeOK, Structure, TrimBatch(Handler)
  PROVE  Keeps /\ Held \subseteq Held' \union delivered
<1>1. /\ self.pc = "trim" /\ lists' = [lists EXCEPT ![self.queue] = Ltrim(@, Len(self.batch))]
      /\ UNCHANGED <<retr, delivered, discarded>>
      /\ self.queue \in Queues
  BY SelfType DEF TrimBatch, self
<1>2. ToSet(self.batch) \subseteq delivered
  BY <1>1 DEF Structure, AckInv
<1> DEFINE l == lists[self.queue]
<1>3. ToSet(l) \subseteq ToSet(Ltrim(l, Len(self.batch))) \union ToSet(self.batch)
  BY <1>1, TrimmedBatch
<1>4. Held \subseteq Held' \union ToSet(self.batch)
  BY <1>1, <1>3, HeldUpdate, HeldRetry
<1>5. QED
  BY <1>1, <1>2, <1>4 DEF Keeps, Safe

LEMMA TransferKeeps ==
  ASSUME TypeOK, Structure, TransferBatch(Handler)
  PROVE  Keeps /\ Held \subseteq Held' \union delivered
<1> DEFINE new == [ts |-> clock + 1, attempt |-> 0, entries |-> Lpush(<<>>, self.batch)]
           l == lists[PENDING_QUEUE]
<1>1. /\ self.pc = "transfer" /\ self.queue = PENDING_QUEUE
      /\ lists' = [lists EXCEPT ![PENDING_QUEUE] = Ltrim(@, Len(self.batch))]
      /\ retr' = retr \union {new}
      /\ UNCHANGED <<delivered, discarded>>
  BY DEF TransferBatch, self, Structure, ControlInv
<1>2. EndOf(self.batch, l)
  BY <1>1 DEF Structure, BatchInv
<1>3. ToSet(l) \subseteq ToSet(Ltrim(l, Len(self.batch))) \union ToSet(self.batch)
  BY <1>2, SelfType, EndLtrim
<1>4. ToSet(self.batch) \subseteq Held'
  <2>1. ToSet(self.batch) \subseteq ToSet(new.entries)
    BY SelfType, EmptyList, PushSet
  <2>2. new \in retr'
    BY <1>1
  <2>3. QED
    BY <2>1, <2>2, HeldRetry
<1>5. \A x \in retr : ToSet(x.entries) \subseteq Held'
  BY <1>1, HeldRetry
<1>6. Held \subseteq Held' \union ToSet(self.batch)
  BY <1>1, <1>3, <1>5, QueueTypes, HeldUpdate
<1>7. QED
  BY <1>1, <1>4, <1>6 DEF Keeps, Safe

LEMMA DeleteRetryKeeps ==
  ASSUME TypeOK, Structure, DeleteRetry(Handler)
  PROVE  Keeps /\ Held \subseteq Held' \union delivered
<1>1. /\ self.pc = "rdelete" /\ retr' = retr \ Named(self.name)
      /\ UNCHANGED <<lists, delivered, discarded>>
  BY DEF DeleteRetry, unchangedByRetry, self
<1>2. ToSet(self.batch) \subseteq delivered /\ \A x \in Named(self.name) : x.entries = self.batch
  BY <1>1 DEF Structure, AckInv, RetryInv
<1>3. \A x \in retr : ToSet(x.entries) \subseteq Held' \union ToSet(self.batch)
  BY <1>1, <1>2, HeldRetry
<1>4. Held \subseteq Held' \union ToSet(self.batch)
  BY <1>1, <1>3, HeldRetries
<1>5. QED
  BY <1>1, <1>2, <1>4 DEF Keeps, Safe

LEMMA FailRetryKeeps ==
  ASSUME TypeOK, Structure, FailRetry(Handler)
  PROVE  Keeps /\ Held \subseteq Held' \union delivered
<1>1. self.pc = "rfail" /\ UNCHANGED <<delivered, discarded>> /\ day \in Queues
  BY QueueTypes DEF FailRetry, unchangedByRetry, self, TypeOK, HistoryOK
<1>2. CASE UNCHANGED <<lists, retr>>
  BY <1>1, <1>2 DEF Keeps, Safe, Held
<1>3. CASE /\ lists' = [lists EXCEPT ![day] = Lpush(@, self.batch)]
           /\ retr' = retr \ Named(self.name)
  <2>1. \A x \in Named(self.name) : x.entries = self.batch
    BY <1>1 DEF Structure, RetryInv
  <2>2. ToSet(lists[day]) \union ToSet(self.batch) \subseteq ToSet(Lpush(lists[day], self.batch))
    BY <1>1, SelfType, PushSet
  <2>3. ToSet(self.batch) \subseteq Held'
    <3>1. lists'[day] = Lpush(lists[day], self.batch)
      BY <1>1, <1>3, SelfType
    <3>2. QED
      BY <1>1, <2>2, <3>1, HeldMember DEF Held
  <2>4. \A x \in retr : ToSet(x.entries) \subseteq Held'
    BY <1>3, <2>1, <2>3, HeldRetry
  <2>5. Held \subseteq Held' \union {}
    BY <1>1, <1>3, <2>2, <2>4, HeldUpdate
  <2>6. QED
    BY <1>1, <2>5 DEF Keeps, Safe
<1>4. QED
  BY <1>2, <1>3 DEF FailRetry, self

LEMMA BumpRetryKeeps ==
  ASSUME TypeOK, Structure, BumpRetry(Handler)
  PROVE  Keeps /\ Held \subseteq Held' \union delivered
<1> DEFINE renamed == {[x EXCEPT !.attempt = @ + 1] : x \in Named(self.name)}
<1>1. /\ retr' = (retr \ Named(self.name)) \union renamed
      /\ UNCHANGED <<lists, delivered, discarded>>
  BY DEF BumpRetry, unchangedByRetry, self
<1>2. ASSUME NEW x \in Named(self.name)
      PROVE  ToSet(x.entries) \subseteq Held'
  <2> DEFINE y == [x EXCEPT !.attempt = @ + 1]
  <2>1. y \in retr' /\ y.entries = x.entries
    BY <1>1, SnapshotTypes DEF Named, RetryQueue
  <2>2. QED
    BY <2>1, HeldRetry
<1> HIDE DEF renamed
<1>3. \A x \in retr : ToSet(x.entries) \subseteq Held' \union {}
  BY <1>1, <1>2, HeldRetry
<1>4. Held \subseteq Held' \union {}
  BY <1>1, <1>3, HeldRetries
<1>5. QED
  BY <1>1, <1>4 DEF Keeps, Safe

LEMMA EnqueueKeeps ==
  ASSUME TypeOK, Enqueue
  PROVE  Keeps /\ Entries' \subseteq Entries \union Held'
<1>1. /\ UNCHANGED <<retr, delivered, discarded>>
      /\ lists' = [lists EXCEPT ![PENDING_QUEUE] = Lpush(@, <<accepted + 1>>)]
      /\ accepted \in Nat /\ accepted' = accepted + 1
  BY DEF Enqueue, TypeOK, HistoryOK
<1>2. ToSet(lists[PENDING_QUEUE]) \union ToSet(<<accepted + 1>>)
        \subseteq ToSet(Lpush(lists[PENDING_QUEUE], <<accepted + 1>>))
  <2>1. <<accepted + 1>> \in Seq(Nat)
    BY <1>1
  <2>2. QED
    BY <2>1, SelfType, PushSet
<1>3. \A x \in retr : ToSet(x.entries) \subseteq Held' \union {}
  BY <1>1, HeldRetry
<1>4. Held \subseteq Held' \union {}
  BY <1>1, <1>2, <1>3, QueueTypes, HeldUpdate
<1>5. accepted + 1 \in Held'
  <2>1. accepted + 1 \in ToSet(<<accepted + 1>>)
    BY DEF ToSet
  <2>2. lists'[PENDING_QUEUE] = Lpush(lists[PENDING_QUEUE], <<accepted + 1>>)
    BY <1>1, SelfType
  <2>3. QED
    BY <1>2, <2>1, <2>2, QueueTypes, HeldMember DEF Held
<1>6. \A e \in Entries' : e \in Entries \/ e = accepted + 1
  BY <1>1 DEF Entries
<1>7. QED
  BY <1>1, <1>4, <1>5, <1>6 DEF Keeps, Safe

LEMMA ExpireKeeps ==
  ASSUME TypeOK, NEW q \in FailQueues, Expire(q)
  PROVE  Keeps
<1>1. /\ lists' = [lists EXCEPT ![q] = <<>>] /\ q \in Queues
      /\ discarded' = discarded \union ToSet(lists[q])
      /\ UNCHANGED <<retr, delivered>>
  BY QueueTypes DEF Expire
<1>2. \A x \in retr : ToSet(x.entries) \subseteq Held' \union ToSet(lists[q])
  BY <1>1, HeldRetry
<1>3. Held \subseteq Held' \union ToSet(lists[q])
  BY <1>1, <1>2, HeldUpdate
<1>4. QED
  BY <1>1, <1>3 DEF Keeps, Safe

(* Steps that leave the lists and the retry queues alone. *)
LEMMA RedisKeeps ==
  ASSUME UNCHANGED <<lists, retr, discarded>>, delivered \subseteq delivered'
  PROVE  Keeps
  BY DEF Keeps, Safe, Held

LEMMA RunKeeps ==
  ASSUME TypeOK, Structure, Run(Handler)
  PROVE  Keeps
<1>1. CASE NextFailQueue(Handler) \/ FetchBatch(Handler) \/ ListRetrying(Handler) \/ FetchRetry(Handler)
  BY <1>1, RedisKeeps
     DEF NextFailQueue, FetchBatch, ListRetrying, FetchRetry, unchangedByControl
<1>2. CASE PostBatchOk(Handler) \/ PostBatchUnanswered(Handler) \/ PostBatchRejected(Handler)
  BY <1>2, RedisKeeps
     DEF PostBatchOk, PostBatchUnanswered, PostBatchRejected, ServerAccepts, unchangedByPost
<1>3. CASE PostRetryOk(Handler) \/ PostRetryUnanswered(Handler) \/ PostRetryRejected(Handler)
  BY <1>3, RedisKeeps
     DEF PostRetryOk, PostRetryUnanswered, PostRetryRejected, ServerAccepts, unchangedByPost
<1>4. QED
  BY <1>1, <1>2, <1>3, TrimKeeps, TransferKeeps, DeleteRetryKeeps, FailRetryKeeps,
     BumpRetryKeeps DEF Run

-----------------------------------------------------------------------------
(* No entry is lost.                                                       *)

(* A step that keeps the entries keeps every promise, also those about a   *)
(* snapshot that begins with it.                                           *)
LEMMA SafeStep ==
  ASSUME SafeInv, Keeps, UNCHANGED <<disk, durable>>, Entries' \subseteq Entries \union Held',
         saving' = saving \/ saving' = [lists |-> lists', retr |-> retr']
  PROVE  SafeInv'
<1>1. Covers(Held, Entries)' /\ Covers(Held, durable)'
  BY DEF SafeInv, Covers, Keeps, Safe
<1>2. Covers(HeldIn(disk.lists, disk.retr), durable)'
  BY DEF SafeInv, Covers, Keeps, HeldIn
<1>3. CASE saving' = [lists |-> lists', retr |-> retr']
  <2>1. HeldIn(saving.lists, saving.retr)' = Held'
    BY <1>3 DEF HeldIn, Held
  <2>2. QED
    BY <1>1, <1>2, <2>1 DEF SafeInv, Covers
<1>4. CASE saving' = saving
  <2>1. HeldIn(saving.lists, saving.retr)' = HeldIn(saving.lists, saving.retr)
    BY <1>4 DEF HeldIn
  <2>2. saving # NoSave => Covers(HeldIn(saving.lists, saving.retr), durable)'
    BY <2>1 DEF SafeInv, Covers, Keeps
  <2>3. saving # NoSave => Covers(Held, HeldIn(saving.lists, saving.retr))'
    BY <2>1 DEF SafeInv, Covers, Keeps, Safe
  <2>4. QED
    BY <1>1, <1>2, <1>4, <2>2, <2>3 DEF SafeInv
<1>5. QED
  BY <1>3, <1>4

(* A save is completed: what it holds becomes durable. *)
LEMMA SaveDoneSafe ==
  ASSUME SafeInv, SaveDone
  PROVE  SafeInv'
<1>1. /\ UNCHANGED <<lists, retr, accepted, delivered, discarded>>
      /\ saving # NoSave /\ disk' = saving /\ saving' = NoSave
      /\ durable' = durable \union HeldIn(saving.lists, saving.retr)
  BY DEF SaveDone
<1>2. Held' = Held /\ Entries' = Entries /\ NoSave' = NoSave
  BY <1>1 DEF Held, HeldIn, Entries, NoSave
<1>3. HeldIn(disk.lists, disk.retr)' = HeldIn(saving.lists, saving.retr)
  BY <1>1 DEF HeldIn
<1>4. QED
  BY <1>1, <1>2, <1>3 DEF SafeInv, Covers

(* The power fails: every entry that had been saved is in the snapshot or  *)
(* was settled before.                                                     *)
LEMMA PowerLossSafe ==
  ASSUME SafeInv, PowerLoss
  PROVE  SafeInv'
<1>1. /\ lists' = disk.lists /\ retr' = disk.retr /\ saving' = NoSave
      /\ discarded' = discarded \union (Entries \ durable)
      /\ UNCHANGED <<disk, durable, accepted, delivered>>
  BY DEF PowerLoss
<1>2. /\ Held' = HeldIn(disk.lists, disk.retr) /\ Entries' = Entries /\ NoSave' = NoSave
      /\ HeldIn(disk.lists, disk.retr)' = HeldIn(disk.lists, disk.retr)
  BY <1>1 DEF Held, HeldIn, Entries, NoSave
<1>3. Covers(HeldIn(disk.lists, disk.retr), durable)
  BY DEF SafeInv
<1>4. QED
  BY <1>1, <1>2, <1>3 DEF SafeInv, Covers

LEMMA NoLossStep ==
  ASSUME Alone, TypeOK, NoLossInv, [Next]_vars
  PROVE  NoLossInv'
<1>1. Structure /\ SafeInv /\ Structure'
  BY StructureStep DEF NoLossInv
<1> SUFFICES SafeInv'
  BY <1>1 DEF NoLossInv
<1>2. ASSUME Keeps, UNCHANGED <<disk, durable, accepted>>,
             saving' = saving \/ saving' = [lists |-> lists', retr |-> retr']
      PROVE  SafeInv'
  BY <1>1, <1>2, SafeStep DEF Entries
<1>3. CASE Run(Handler)
  <2>1. UNCHANGED <<disk, durable, accepted>>
    BY <1>3 DEF Run, NextFailQueue, FetchBatch, PostBatchOk, PostBatchUnanswered,
       PostBatchRejected, TrimBatch, TransferBatch, ListRetrying, FetchRetry, PostRetryOk,
       PostRetryUnanswered, PostRetryRejected, DeleteRetry, FailRetry, BumpRetry,
       unchangedByControl, unchangedByPost, unchangedByRetry
  <2>2. saving' = saving \/ saving' = [lists |-> lists', retr |-> retr']
    BY <1>3 DEF Run, NextFailQueue, FetchBatch, PostBatchOk, PostBatchUnanswered,
       PostBatchRejected, TrimBatch, TransferBatch, ListRetrying, FetchRetry, PostRetryOk,
       PostRetryUnanswered, PostRetryRejected, DeleteRetry, FailRetry, BumpRetry,
       unchangedByControl, unchangedByPost, unchangedByRetry, PersistThen
  <2>3. QED
    BY <1>1, <1>2, <1>3, <2>1, <2>2, RunKeeps
<1>4. CASE StartUpload(Handler)
  BY <1>2, <1>4, RedisKeeps DEF StartUpload, unchangedByControl
<1>5. CASE Enqueue
  <2>1. UNCHANGED <<disk, durable, saving>>
    BY <1>5 DEF Enqueue
  <2>2. QED
    BY <1>1, <1>5, <2>1, EnqueueKeeps, SafeStep
<1>6. CASE \E q \in FailQueues : Expire(q)
  <2>1. UNCHANGED <<disk, durable, accepted, saving>>
    BY <1>6 DEF Expire
  <2>2. QED
    BY <1>2, <1>6, <2>1, ExpireKeeps
<1>7. CASE NewDay \/ AutoSave \/ Restart \/ UNCHANGED vars
  <2>1. UNCHANGED <<lists, retr, discarded, delivered, disk, durable, accepted>>
    BY <1>7 DEF NewDay, AutoSave, Restart, vars
  <2>2. saving' = saving \/ saving' = [lists |-> lists', retr |-> retr']
    BY <1>7 DEF NewDay, AutoSave, Restart, vars
  <2>3. QED
    BY <1>2, <2>1, <2>2, RedisKeeps
<1>8. QED
  BY <1>1, <1>3, <1>4, <1>5, <1>6, <1>7, AloneSteps, SaveDoneSafe, PowerLossSafe

LEMMA NoLossInit ==
  ASSUME Init
  PROVE  NoLossInv
<1>1. /\ lists = [q \in Queues |-> <<>>] /\ retr = {} /\ saving = NoSave
      /\ disk.retr = {} /\ durable = {} /\ cache = [q \in Queues |-> <<>>]
      /\ accepted = 0 /\ self.pc = "idle"
  BY ConstantsAssumption, IdleFields DEF Init, self
<1>2. Structure
  <2>1. CacheInv
    BY <1>1, EndLrange, EmptyList, 0 \in Nat, QueueTypes DEF CacheInv
  <2>2. QED
    BY <1>1, <2>1 DEF Structure, ControlInv, BatchInv, DistinctInv, Distinct, RetryInv,
       AckInv, NoSave
<1>3. SafeInv
  BY <1>1 DEF SafeInv, Covers, Entries
<1>4. QED
  BY <1>2, <1>3 DEF NoLossInv

(* Whatever the returner enqueued is in a queue, or was delivered, expired *)
(* or had never been saved when the power failed, however long the service *)
(* runs and however often it restarts in the middle of a step: nothing     *)
(* that upload_handler removes from Redis is removed by mistake.           *)
THEOREM HandlerLosesNothing ==
  ASSUME Alone
  PROVE  Spec => []NoLoss
<1>1. Init => NoLossInv
  BY NoLossInit
<1>2. TypeOK /\ NoLossInv /\ [Next]_vars => NoLossInv'
  BY NoLossStep
<1>3. NoLossInv => NoLoss
  BY DEF NoLossInv, SafeInv, Covers, NoLoss
<1>4. QED
  BY <1>1, <1>2, <1>3, TypeCorrect, PTL DEF Spec

(* "Remove batch entries from queue": what LTRIM removes after an upload   *)
(* is what was uploaded, although the queue has grown and may have expired *)
(* since the batch was read.                                               *)
THEOREM HandlerTrimsItsBatch ==
  ASSUME Alone
  PROVE  Spec => TrimRemovesOnlyBatch
<1> DEFINE Removed(t) ==
      th[t].pc = "trim" /\ th'[t].pc # "trim" /\ restarts' = restarts
        => ToSet(lists[th[t].queue]) \ ToSet(lists'[th[t].queue]) \subseteq ToSet(th[t].batch)
<1>1. Init => NoLossInv
  BY NoLossInit
<1>2. TypeOK /\ NoLossInv /\ [Next]_vars => NoLossInv'
  BY NoLossStep
<1>3. TypeOK /\ NoLossInv /\ [Next]_vars => [\A t \in Threads : Removed(t)]_vars
  <2> SUFFICES ASSUME TypeOK, NoLossInv, Next, self.pc = "trim", self'.pc # "trim",
                      restarts' = restarts
               PROVE  ToSet(lists[self.queue]) \ ToSet(lists'[self.queue]) \subseteq ToSet(self.batch)
    BY DEF Alone, self
  <2>1. TrimBatch(Handler)
    <3>1. restarts + 1 # restarts
      BY DEF TypeOK, HistoryOK
    <3>2. ~(Restart \/ PowerLoss)
      BY <3>1 DEF Restart, PowerLoss, ServiceGone
    <3>3. ~(Enqueue \/ (\E q \in FailQueues : Expire(q)) \/ NewDay \/ AutoSave \/ SaveDone)
      BY DEF Enqueue, Expire, NewDay, AutoSave, SaveDone, self
    <3>4. Run(Handler)
      BY <3>2, <3>3, AloneSteps DEF StartUpload, self
    <3>5. QED
      BY <3>4 DEF Run, NextFailQueue, FetchBatch, PostBatchOk, PostBatchUnanswered,
         PostBatchRejected, TransferBatch, ListRetrying, FetchRetry, PostRetryOk,
         PostRetryUnanswered, PostRetryRejected, DeleteRetry, FailRetry, BumpRetry, self
  <2>2. /\ lists' = [lists EXCEPT ![self.queue] = Ltrim(@, Len(self.batch))]
        /\ self.queue \in Queues
    BY <2>1, SelfType DEF TrimBatch, self
  <2>3. lists'[self.queue] = Ltrim(lists[self.queue], Len(self.batch))
    BY <2>2, TrimmedLists
  <2>4. QED
    BY <2>3, TrimmedBatch DEF NoLossInv
<1>4. QED
  BY <1>1, <1>2, <1>3, TypeCorrect, PTL DEF Spec, TrimRemovesOnlyBatch
=============================================================================
