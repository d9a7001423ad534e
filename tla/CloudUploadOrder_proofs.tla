----------------------- MODULE CloudUploadOrder_proofs -----------------------
(***************************************************************************)
(* Proofs about the order of entries and of retry queues when no command   *)
(* runs beside the upload handler, and that the handler then implements    *)
(* the promise of CloudDelivery: for every batch size, limit and number of *)
(* attempts, however often the service restarts or the power fails.        *)
(***************************************************************************)
EXTENDS CloudUploadNoLoss_proofs

(* The inductive invariant, beside TypeOK and NoLossInv.                   *)

Decreasing(s) == \A i, j \in DOMAIN s : i < j => s[j] < s[i]

(* All entries of s are older than those of t. *)
Older(s, t) == \A a \in ToSet(s), b \in ToSet(t) : a < b

(* The order of the entries 1..a of a data set on day d: fail queues, of   *)
(* the first day first, then retry queues by their timestamps, then the    *)
(* pending queue.  A list has its newest entry at the head, a retry queue  *)
(* at the end.                                                             *)
InLists(l, a, d) ==
  /\ \A q \in Queues : Decreasing(l[q]) /\ ToSet(l[q]) \subseteq 1..a
  /\ \A q \in FailQueues : Older(l[q], l[PENDING_QUEUE])
  /\ \A p, q \in FailQueues : p < q => Older(l[p], l[q])
  /\ \A q \in FailQueues : q > d => ToSet(l[q]) = {}

InRetries(r, a) ==
  /\ \A x \in r : Increasing(x.entries) /\ x.entries # <<>> /\ ToSet(x.entries) \subseteq 1..a
  /\ \A x, y \in r : x.ts < y.ts => Older(x.entries, y.entries)

Between(l, r) ==
  \A x \in r :
    /\ \A q \in FailQueues : Older(l[q], x.entries)
    /\ Older(x.entries, l[PENDING_QUEUE])

(* Older retry queues have had at least as many attempts. *)
Attempts(r) ==
  /\ \A x \in r : x.attempt < MaxRetry
  /\ \A x, y \in r : x.ts < y.ts => x.attempt >= y.attempt

Ordered(l, r, a, d) == InLists(l, a, d) /\ InRetries(r, a) /\ Between(l, r) /\ Attempts(r)

DataInv ==
  /\ Ordered(lists, retr, accepted, day)
  /\ Ordered(disk.lists, disk.retr, accepted, day)
  /\ saving # NoSave => Ordered(saving.lists, saving.retr, accepted, day)

(* A pass over the retry queues.  Those left are the one at hand and those *)
(* named; the others were seen to in this pass: they are older, and have   *)
(* had one attempt more.                                                   *)
InPass(r)  == r.pc \in {"rfetch", "rpost", "rdelete", "rfail", "rbump"}
AtHand(r)  == r.pc \in {"rpost", "rdelete", "rfail", "rbump"}
NameOf(x)  == [ts |-> x.ts, attempt |-> x.attempt]
Left(r)    == r.names \union (IF AtHand(r) THEN {r.name} ELSE {})

PassInv ==
  InPass(self) =>
    /\ \A n \in Left(self) : Named(n) # {}
    /\ \A x, y \in retr : NameOf(x) \notin Left(self) /\ NameOf(y) \in Left(self) =>
         x.ts < y.ts /\ x.attempt > y.attempt
    /\ AtHand(self) => \A n \in self.names : self.name.ts < n.ts
    /\ self.pc = "rbump" => self.name.attempt + 1 < MaxRetry
    /\ self.pc = "rfail" => self.name.attempt + 1 >= MaxRetry

(* The batch at hand, also after its fail queue has expired. *)
BatchOrder ==
  self.pc \in {"post", "trim", "transfer"} =>
    /\ Decreasing(self.batch)
    /\ ToSet(self.batch) \subseteq Entries
    /\ self.queue # PENDING_QUEUE /\ lists[self.queue] = <<>> =>
         ToSet(self.batch) \intersect Held = {}
    /\ self.pc = "transfer" => MaxRetry > 0
    /\ self.batch # <<>>

(* What is held is not known to be delivered, but for the batch that is    *)
(* about to be removed.                                                    *)
AckedInv ==
  /\ delivered \subseteq Entries
  /\ acked \intersect Held \subseteq
       (IF self.pc \in {"trim", "rdelete"} THEN ToSet(self.batch) ELSE {})
  /\ self.pc \in {"post", "rpost"} => ToSet(self.batch) \intersect acked = {}

OrderInv == DataInv /\ PassInv /\ BatchOrder /\ AckedInv

(* The number of retry queues, when no save is refused. *)
BoundInv ==
  /\ \A r \in {retr, disk.retr, saving.retr} : Cardinality(r) <= RetryQueueLimit
  /\ InPass(self) => Cardinality(retr) <= self.remaining
  /\ self.pc \in {"fetch", "post", "trim", "transfer"} /\ self.queue = PENDING_QUEUE =>
       Cardinality(retr) < RetryQueueLimit

-----------------------------------------------------------------------------
(* Lists and their order.                                                  *)

(* One list within another, by its places. *)
LEMMA PlacesWithin ==
  ASSUME NEW s \in Seq(Nat), NEW S, \A i \in 1..Len(s) : s[i] \in S
  PROVE  ToSet(s) \subseteq S
<1> SUFFICES ASSUME NEW e \in ToSet(s) PROVE e \in S
  OBVIOUS
<1>1. PICK i \in 1..Len(s) : e = s[i]
  BY EntryIn
<1>2. QED
  BY <1>1

LEMMA ConcatSet ==
  ASSUME NEW h \in Seq(Nat), NEW l \in Seq(Nat)
  PROVE  ToSet(h \o l) = ToSet(h) \union ToSet(l)
<1>0. /\ h \o l \in Seq(Nat) /\ Len(h) \in Nat /\ Len(l) \in Nat
      /\ Len(h \o l) = Len(h) + Len(l)
      /\ \A i \in 1..Len(h) : (h \o l)[i] = h[i]
      /\ \A i \in 1..Len(l) : (h \o l)[Len(h) + i] = l[i]
  BY ConcatLists
<1> DEFINE c == h \o l
<1> HIDE DEF c
<1>1. ASSUME NEW e \in ToSet(c) PROVE e \in ToSet(h) \union ToSet(l)
  <2>1. PICK i \in 1..Len(c) : e = c[i]
    BY <1>0, EntryIn DEF c
  <2>2. CASE i <= Len(h)
    <3>1. i \in 1..Len(h) /\ e = h[i]
      BY <1>0, <2>1, <2>2 DEF c
    <3>2. QED
      BY <3>1, EntryIn
  <2>3. CASE i > Len(h)
    <3> DEFINE j == i - Len(h)
    <3>1. j \in 1..Len(l) /\ i = Len(h) + j
      BY <1>0, <2>1, <2>3 DEF c
    <3> HIDE DEF j
    <3>2. e = l[j]
      BY <1>0, <2>1, <3>1 DEF c
    <3>3. QED
      BY <3>1, <3>2, EntryIn
  <2>4. QED
    BY <1>0, <2>1, <2>2, <2>3
<1>2. ASSUME NEW e \in ToSet(h) PROVE e \in ToSet(c)
  <2>1. PICK i \in 1..Len(h) : e = h[i]
    BY EntryIn
  <2>2. i \in 1..Len(c) /\ c[i] = e
    BY <1>0, <2>1 DEF c
  <2>3. QED
    BY <1>0, <2>2, EntryIn DEF c
<1>3. ASSUME NEW e \in ToSet(l) PROVE e \in ToSet(c)
  <2>1. PICK i \in 1..Len(l) : e = l[i]
    BY EntryIn
  <2>2. Len(h) + i \in 1..Len(c) /\ c[Len(h) + i] = e
    BY <1>0, <2>1 DEF c
  <2>3. QED
    BY <1>0, <2>2, EntryIn DEF c
<1>4. QED
  BY <1>1, <1>2, <1>3 DEF c

(* Reverse, by places. *)
LEMMA ReversePlaces ==
  ASSUME NEW s \in Seq(Nat)
  PROVE  /\ Reverse(s) \in Seq(Nat) /\ Len(s) \in Nat /\ Len(Reverse(s)) = Len(s)
         /\ \A i \in 1..Len(s) : Len(s) - i + 1 \in 1..Len(s) /\ Reverse(s)[i] = s[Len(s) - i + 1]
<1>1. Reverse(s) \in Seq(Nat)
  BY ListTypes, 0 \in Nat, Zenon
<1>2. DOMAIN Reverse(s) = 1..Len(s) /\ Len(s) \in Nat
  BY DEF Reverse
<1>3. \A i \in 1..Len(s) : Len(s) - i + 1 \in 1..Len(s) /\ Reverse(s)[i] = s[Len(s) - i + 1]
  BY DEF Reverse
<1> DEFINE r == Reverse(s)
<1> HIDE DEF r
<1>4. Len(r) = Len(s)
  BY <1>1, <1>2 DEF r
<1>5. QED
  BY <1>1, <1>2, <1>3, <1>4 DEF r

LEMMA ReverseSet ==
  ASSUME NEW s \in Seq(Nat)
  PROVE  ToSet(Reverse(s)) = ToSet(s)
<1> DEFINE r == Reverse(s)
<1>0. /\ r \in Seq(Nat) /\ Len(s) \in Nat /\ Len(r) = Len(s)
      /\ \A i \in 1..Len(s) : Len(s) - i + 1 \in 1..Len(s) /\ r[i] = s[Len(s) - i + 1]
  BY ReversePlaces
<1> HIDE DEF r
<1>1. ASSUME NEW e \in ToSet(r) PROVE e \in ToSet(s)
  <2>1. PICK i \in 1..Len(r) : e = r[i]
    BY <1>0, EntryIn
  <2>2. QED
    BY <1>0, <2>1, EntryIn
<1>2. ASSUME NEW e \in ToSet(s) PROVE e \in ToSet(r)
  <2>1. PICK i \in 1..Len(s) : e = s[i]
    BY EntryIn
  <2>2. Len(s) - (Len(s) - i + 1) + 1 = i /\ Len(s) - i + 1 \in 1..Len(r)
    BY <1>0
  <2>3. r[Len(s) - i + 1] = e
    BY <1>0, <2>1, <2>2
  <2>4. QED
    BY <1>0, <2>2, <2>3, EntryIn
<1>3. QED
  BY <1>1, <1>2 DEF r

(* Order, by places. *)
LEMMA OrderPlaces ==
  ASSUME NEW s \in Seq(Nat)
  PROVE  /\ Decreasing(s) <=> \A i, j \in 1..Len(s) : i < j => s[j] < s[i]
         /\ Increasing(s) <=> \A i, j \in 1..Len(s) : i < j => s[i] < s[j]
<1>1. DOMAIN s = 1..Len(s)
  OBVIOUS
<1>2. QED
  BY <1>1 DEF Decreasing, Increasing

LEMMA ReverseOrder ==
  ASSUME NEW s \in Seq(Nat)
  PROVE  /\ Decreasing(s) => Increasing(Reverse(s))
         /\ Increasing(s) => Decreasing(Reverse(s))
<1> DEFINE r == Reverse(s)
<1>0. /\ r \in Seq(Nat) /\ Len(s) \in Nat /\ Len(r) = Len(s)
      /\ \A i \in 1..Len(s) : Len(s) - i + 1 \in 1..Len(s) /\ r[i] = s[Len(s) - i + 1]
  BY ReversePlaces
<1> HIDE DEF r
<1>1. \A i, j \in 1..Len(s) : i < j => Len(s) - j + 1 < Len(s) - i + 1
  BY <1>0
<1>2. ASSUME Decreasing(s) PROVE Increasing(r)
  BY <1>0, <1>1, <1>2, OrderPlaces
<1>3. ASSUME Increasing(s) PROVE Decreasing(r)
  BY <1>0, <1>1, <1>3, OrderPlaces
<1>4. QED
  BY <1>2, <1>3 DEF r

LEMMA ConcatOrder ==
  ASSUME NEW h \in Seq(Nat), NEW l \in Seq(Nat), Decreasing(h), Decreasing(l), Older(l, h)
  PROVE  Decreasing(h \o l)
<1>0. /\ h \o l \in Seq(Nat) /\ Len(h) \in Nat /\ Len(l) \in Nat
      /\ Len(h \o l) = Len(h) + Len(l)
      /\ \A i \in 1..Len(h) : (h \o l)[i] = h[i]
      /\ \A i \in 1..Len(l) : (h \o l)[Len(h) + i] = l[i]
  BY ConcatLists
<1> DEFINE c == h \o l
<1> HIDE DEF c
<1> SUFFICES ASSUME NEW i \in 1..Len(c), NEW j \in 1..Len(c), i < j
             PROVE  c[j] < c[i]
  BY <1>0, OrderPlaces DEF c
<1> DEFINE k == i - Len(h)
           m == j - Len(h)
<1>1. CASE j <= Len(h)
  <2>1. i \in 1..Len(h) /\ j \in 1..Len(h)
    BY <1>0, <1>1
  <2>2. QED
    BY <1>0, <2>1, OrderPlaces DEF c
<1>2. CASE i <= Len(h) /\ j > Len(h)
  <2>1. i \in 1..Len(h) /\ m \in 1..Len(l) /\ j = Len(h) + m
    BY <1>0, <1>2 DEF c
  <2> HIDE DEF m
  <2>2. c[i] = h[i] /\ c[j] = l[m]
    BY <1>0, <2>1 DEF c
  <2>3. h[i] \in ToSet(h) /\ l[m] \in ToSet(l)
    BY <2>1, EntryIn
  <2>4. QED
    BY <2>2, <2>3 DEF Older
<1>3. CASE i > Len(h)
  <2>1. /\ k \in 1..Len(l) /\ m \in 1..Len(l) /\ k < m
        /\ i = Len(h) + k /\ j = Len(h) + m
    BY <1>0, <1>3 DEF c
  <2> HIDE DEF k, m
  <2>2. c[i] = l[k] /\ c[j] = l[m]
    BY <1>0, <2>1 DEF c
  <2>3. QED
    BY <2>1, <2>2, OrderPlaces
<1>4. QED
  BY <1>0, <1>1, <1>2, <1>3

(* LPUSH of newer entries keeps a list in its order; on an empty list it   *)
(* reverses a batch.                                                       *)
LEMMA PushedOrder ==
  ASSUME NEW l \in Seq(Nat), NEW s \in Seq(Nat)
  PROVE  /\ Lpush(l, s) \in Seq(Nat)
         /\ ToSet(Lpush(l, s)) = ToSet(l) \union ToSet(s)
         /\ Increasing(s) /\ Decreasing(l) /\ Older(l, s) => Decreasing(Lpush(l, s))
<1> DEFINE h == Reverse(s)
<1>1. h \in Seq(Nat) /\ ToSet(h) = ToSet(s) /\ (Increasing(s) => Decreasing(h))
  BY ReversePlaces, ReverseSet, ReverseOrder
<1>2. Lpush(l, s) = h \o l
  BY DEF Lpush
<1> HIDE DEF h
<1>3. Older(l, s) => Older(l, h)
  BY <1>1 DEF Older
<1>4. QED
  BY <1>1, <1>2, <1>3, ConcatSet, ConcatOrder, ConcatLists

LEMMA EmptySet == ToSet(<<>>) = {} /\ Decreasing(<<>>)
  BY DEF ToSet, Decreasing

LEMMA RetriedOrder ==
  ASSUME NEW s \in Seq(Nat), Decreasing(s), s # <<>>
  PROVE  /\ Lpush(<<>>, s) \in Seq(Nat) /\ Lpush(<<>>, s) # <<>>
         /\ ToSet(Lpush(<<>>, s)) = ToSet(s)
         /\ Increasing(Lpush(<<>>, s))
<1> DEFINE h == Reverse(s)
<1>1. h \in Seq(Nat) /\ ToSet(h) = ToSet(s) /\ Increasing(h)
  BY ReversePlaces, ReverseSet, ReverseOrder
<1>2. Lpush(<<>>, s) = h \o <<>>
  BY DEF Lpush
<1> HIDE DEF h
<1>3. h \o <<>> = h
  BY <1>1
<1>4. ToSet(s) # {}
  <2>1. 1 \in 1..Len(s)
    OBVIOUS
  <2>2. QED
    BY <2>1, EntryIn
<1>5. h # <<>>
  BY <1>1, <1>4, EmptySet
<1>6. QED
  BY <1>1, <1>2, <1>3, <1>5

(* The end of a list that is in order. *)
LEMMA EndOrder ==
  ASSUME NEW l \in Seq(Nat), NEW s \in Seq(Nat), EndOf(s, l)
  PROVE  /\ ToSet(s) \subseteq ToSet(l)
         /\ Decreasing(l) => Decreasing(s)
<1> DEFINE d == Len(l) - Len(s)
<1>1. d \in Nat /\ Len(s) \in Nat /\ Len(l) \in Nat
  BY DEF EndOf
<1>2. \A i \in 1..Len(s) : d + i \in 1..Len(l) /\ s[i] = l[d + i]
  BY <1>1 DEF EndOf
<1>3. ToSet(s) \subseteq ToSet(l)
  <2>1. \A i \in 1..Len(s) : s[i] \in ToSet(l)
    BY <1>2, EntryIn
  <2>2. QED
    BY <2>1, PlacesWithin
<1>4. \A i, j \in 1..Len(s) : i < j => d + i < d + j
  BY <1>1
<1> HIDE DEF d
<1>5. Decreasing(l) => Decreasing(s)
  BY <1>2, <1>4, OrderPlaces
<1>6. QED
  BY <1>3, <1>5

(* What LTRIM leaves is newer than what it removes. *)
LEMMA TrimmedOrder ==
  ASSUME NEW l \in Seq(Nat), NEW n \in Nat
  PROVE  /\ Ltrim(l, n) \in Seq(Nat)
         /\ ToSet(Ltrim(l, n)) \subseteq ToSet(l)
         /\ Decreasing(l) => Decreasing(Ltrim(l, n))
<1>1. CASE Len(l) <= n
  <2>1. Ltrim(l, n) = <<>>
    BY <1>1 DEF Ltrim
  <2>2. QED
    BY <2>1, EmptySet, EmptyList
<1>2. CASE Len(l) > n
  <2> DEFINE t == SubSeq(l, 1, Len(l) - n)
  <2>1. Ltrim(l, n) = t
    BY <1>2 DEF Ltrim
  <2>2. /\ t \in Seq(Nat) /\ Len(t) = Len(l) - n /\ Len(l) \in Nat
        /\ \A i \in 1..Len(t) : i \in 1..Len(l) /\ t[i] = l[i]
    BY <1>2
  <2> HIDE DEF t
  <2>3. ToSet(t) \subseteq ToSet(l)
    <3>1. \A i \in 1..Len(t) : t[i] \in ToSet(l)
      BY <2>2, EntryIn
    <3>2. QED
      BY <2>2, <3>1, PlacesWithin
  <2>4. Decreasing(l) => Decreasing(t)
    BY <2>2, OrderPlaces
  <2>5. QED
    BY <2>1, <2>2, <2>3, <2>4
<1>3. QED
  BY <1>1, <1>2

LEMMA TrimmedNewer ==
  ASSUME NEW l \in Seq(Nat), NEW s \in Seq(Nat), EndOf(s, l), Decreasing(l)
  PROVE  /\ Older(s, Ltrim(l, Len(s)))
         /\ ToSet(l) = ToSet(s) \union ToSet(Ltrim(l, Len(s)))
<1> DEFINE d == Len(l) - Len(s)
           t == Ltrim(l, Len(s))
<1>1. d \in Nat /\ Len(s) \in Nat /\ Len(l) \in Nat
  BY DEF EndOf
<1>2. \A i \in 1..Len(s) : d + i \in 1..Len(l) /\ s[i] = l[d + i]
  BY <1>1 DEF EndOf
<1>3. \A e \in ToSet(t) : \E i \in 1..d : i \in 1..Len(l) /\ e = l[i]
  <2>1. CASE Len(l) <= Len(s)
    <3>1. t = <<>>
      BY <2>1 DEF Ltrim
    <3>2. QED
      BY <3>1, EmptySet
  <2>2. CASE Len(l) > Len(s)
    <3> DEFINE u == SubSeq(l, 1, Len(l) - Len(s))
    <3>1. t = u
      BY <2>2 DEF Ltrim
    <3>2. /\ u \in Seq(Nat) /\ Len(u) = d
          /\ \A i \in 1..Len(u) : i \in 1..Len(l) /\ u[i] = l[i]
      BY <1>1, <2>2
    <3> HIDE DEF u
    <3>3. ASSUME NEW e \in ToSet(u) PROVE \E i \in 1..d : i \in 1..Len(l) /\ e = l[i]
      <4>1. PICK i \in 1..Len(u) : e = u[i]
        BY <3>2, EntryIn
      <4>2. QED
        BY <3>2, <4>1
    <3>4. QED
      BY <3>1, <3>3
  <2>3. QED
    BY <1>1, <2>1, <2>2
<1>4. ASSUME NEW a \in ToSet(s), NEW b \in ToSet(t) PROVE a < b
  <2>1. PICK i \in 1..Len(s) : a = s[i]
    BY EntryIn
  <2>2. PICK j \in 1..d : j \in 1..Len(l) /\ b = l[j]
    BY <1>3
  <2>3. j < d + i
    BY <1>1
  <2> HIDE DEF d
  <2>4. QED
    BY <1>2, <2>1, <2>2, <2>3, OrderPlaces
<1> HIDE DEF t, d
<1>5. Older(s, t)
  BY <1>4 DEF Older
<1>6. ToSet(l) = ToSet(s) \union ToSet(t)
  BY EndLtrim, EndOrder, TrimmedOrder, <1>1 DEF t
<1>7. QED
  BY <1>5, <1>6 DEF t

-----------------------------------------------------------------------------
(* Data sets and their order.                                              *)

(* Entries arrive and days pass. *)
LEMMA OrderedLater ==
  ASSUME NEW l, NEW r, NEW a \in Nat, NEW b \in Nat, NEW d \in Nat, NEW e \in Nat,
         a <= b, d <= e, Ordered(l, r, a, d)
  PROVE  Ordered(l, r, b, e)
<1>1. 1..a \subseteq 1..b
  OBVIOUS
<1>2. InRetries(r, b)
  BY <1>1 DEF Ordered, InRetries
<1>3. FailQueues \subseteq Nat
  BY ConstantsAssumption DEF FailQueues
<1>4. \A q \in FailQueues : q > e => q > d
  BY <1>3
<1>5. InLists(l, b, e)
  BY <1>1, <1>4 DEF Ordered, InLists
<1>6. QED
  BY <1>2, <1>5 DEF Ordered

(* Entries and retry queues are removed. *)
LEMMA OrderedLess ==
  ASSUME NEW l, NEW r, NEW a, NEW d, Ordered(l, r, a, d), NEW k, NEW t \in SUBSET r,
         \A q \in Queues : ToSet(k[q]) \subseteq ToSet(l[q]) /\ Decreasing(k[q])
  PROVE  Ordered(k, t, a, d)
<1>1. InLists(k, a, d)
  BY QueueTypes DEF Ordered, InLists, Older
<1>2. InRetries(t, a) /\ Attempts(t)
  BY DEF Ordered, InRetries, Attempts
<1>3. Between(k, t)
  BY QueueTypes DEF Ordered, Between, Older
<1>4. QED
  BY <1>1, <1>2, <1>3 DEF Ordered

(* An entry arrives. *)
LEMMA OrderedEnqueue ==
  ASSUME NEW l \in [Queues -> Seq(Nat)], NEW r, NEW a \in Nat, NEW d \in Nat, Ordered(l, r, a, d),
         NEW k, k = [l EXCEPT ![PENDING_QUEUE] = Lpush(@, <<a + 1>>)]
  PROVE  Ordered(k, r, a + 1, d)
<1> DEFINE p == Lpush(l[PENDING_QUEUE], <<a + 1>>)
<1>1. /\ k[PENDING_QUEUE] = p /\ \A q \in FailQueues : k[q] = l[q]
      /\ \A q \in Queues : q \in FailQueues \/ q = PENDING_QUEUE
      /\ l[PENDING_QUEUE] \in Seq(Nat)
  <2>1. PENDING_QUEUE \notin FailQueues
    BY DEF FailQueues, PENDING_QUEUE
  <2>2. QED
    BY <2>1, QueueTypes DEF Queues
<1>2. Ordered(l, r, a + 1, d)
  BY OrderedLater
<1>3. <<a + 1>> \in Seq(Nat) /\ ToSet(<<a + 1>>) = {a + 1} /\ Increasing(<<a + 1>>)
  <2>1. DOMAIN <<a + 1>> = {1} /\ <<a + 1>>[1] = a + 1
    OBVIOUS
  <2>2. QED
    BY <2>1 DEF ToSet, Increasing
<1>4. \A S \in SUBSET (1..a) : \A e \in S : e < a + 1
  OBVIOUS
<1>5. /\ \A q \in Queues : ToSet(l[q]) \subseteq 1..a
      /\ \A x \in r : ToSet(x.entries) \subseteq 1..a
  BY DEF Ordered, InLists, InRetries
<1>6. ToSet(p) = ToSet(l[PENDING_QUEUE]) \union {a + 1} /\ Decreasing(p)
  <2>1. Older(l[PENDING_QUEUE], <<a + 1>>) /\ Decreasing(l[PENDING_QUEUE])
    BY <1>3, <1>4, <1>5, QueueTypes DEF Older, Ordered, InLists
  <2> DEFINE s == <<a + 1>>
  <2> HIDE DEF s
  <2>2. s \in Seq(Nat) /\ ToSet(s) = {a + 1} /\ Increasing(s) /\ Older(l[PENDING_QUEUE], s)
    BY <1>3, <2>1 DEF s
  <2>3. p = Lpush(l[PENDING_QUEUE], s)
    BY DEF s
  <2> HIDE DEF p
  <2>4. QED
    BY <1>1, <2>1, <2>2, <2>3, PushedOrder
<1> HIDE DEF p
<1>7. InLists(k, a + 1, d)
  <2>1. ASSUME NEW q \in FailQueues PROVE Older(k[q], k[PENDING_QUEUE])
    <3>1. Older(l[q], l[PENDING_QUEUE]) /\ q \in Queues
      BY QueueTypes DEF Ordered, InLists
    <3>2. \A e \in ToSet(l[q]) : e < a + 1
      BY <1>4, <1>5, <3>1
    <3>3. k[q] = l[q] /\ ToSet(k[PENDING_QUEUE]) = ToSet(l[PENDING_QUEUE]) \union {a + 1}
      BY <1>1, <1>6
    <3>4. QED
      BY <3>1, <3>2, <3>3 DEF Older
  <2>2. \A q \in Queues : Decreasing(k[q]) /\ ToSet(k[q]) \subseteq 1..(a + 1)
    <3>1. a + 1 \in 1..(a + 1)
      OBVIOUS
    <3>2. \A q \in Queues : Decreasing(l[q]) /\ ToSet(l[q]) \subseteq 1..(a + 1)
      BY <1>2 DEF Ordered, InLists
    <3>3. PENDING_QUEUE \in Queues /\ \A q \in FailQueues : q \in Queues
      BY QueueTypes
    <3>4. QED
      BY <1>1, <1>6, <3>1, <3>2, <3>3
  <2>3. QED
    BY <1>1, <1>2, <2>1, <2>2 DEF Ordered, InLists
<1>8. Between(k, r)
  <2>1. \A x \in r : Older(x.entries, k[PENDING_QUEUE])
    BY <1>1, <1>2, <1>4, <1>5, <1>6 DEF Ordered, Between, Older
  <2>2. QED
    BY <1>1, <1>2, <2>1 DEF Ordered, Between
<1>9. QED
  BY <1>2, <1>7, <1>8 DEF Ordered

(* The end of the pending queue becomes the newest retry queue. *)
LEMMA OrderedTransfer ==
  ASSUME NEW l \in [Queues -> Seq(Nat)], NEW r \in SUBSET RetryQueue,
         NEW a \in Nat, NEW d \in Nat, Ordered(l, r, a, d),
         NEW s \in Seq(Nat), EndOf(s, l[PENDING_QUEUE]), s # <<>>,
         NEW c \in Nat, \A x \in r : x.ts <= c, MaxRetry > 0,
         NEW k, k = [l EXCEPT ![PENDING_QUEUE] = Ltrim(@, Len(s))],
         NEW t, t = r \union {[ts |-> c + 1, attempt |-> 0, entries |-> Lpush(<<>>, s)]}
  PROVE  Ordered(k, t, a, d)
<1> DEFINE p == Ltrim(l[PENDING_QUEUE], Len(s))
           b == Lpush(<<>>, s)
           new == [ts |-> c + 1, attempt |-> 0, entries |-> b]
<1>0. l[PENDING_QUEUE] \in Seq(Nat) /\ Decreasing(l[PENDING_QUEUE]) /\ Len(s) \in Nat
  BY QueueTypes DEF Ordered, InLists
<1>1. k[PENDING_QUEUE] = p /\ \A q \in Queues : q # PENDING_QUEUE => k[q] = l[q]
  BY QueueTypes
<1>2. \A q \in Queues : ToSet(k[q]) \subseteq ToSet(l[q]) /\ Decreasing(k[q])
  BY <1>0, <1>1, TrimmedOrder DEF Ordered, InLists
<1>3. /\ b # <<>> /\ ToSet(b) = ToSet(s) /\ Increasing(b)
      /\ ToSet(s) \subseteq ToSet(l[PENDING_QUEUE])
  BY <1>0, EndOrder, RetriedOrder
<1>4. Older(b, k[PENDING_QUEUE])
  BY <1>0, <1>1, <1>3, TrimmedNewer DEF Older
<1>5. Ordered(k, r, a, d)
  BY <1>2, OrderedLess
<1>6. /\ new.ts = c + 1 /\ new.attempt = 0 /\ new.entries = b /\ t = r \union {new}
  OBVIOUS
<1> HIDE DEF b, new, p
<1>7. \A x \in r : x.ts \in Nat /\ x.ts < new.ts /\ x.attempt \in Nat
  BY <1>6 DEF RetryQueue
<1>8. InRetries(t, a)
  <2>1. Increasing(new.entries) /\ new.entries # <<>> /\ ToSet(new.entries) \subseteq 1..a
    BY <1>3, <1>6, QueueTypes DEF Ordered, InLists
  <2>2. \A x \in r : Older(x.entries, new.entries)
    BY <1>3, <1>6 DEF Ordered, Between, Older
  <2>3. \A x, y \in t : x.ts < y.ts => Older(x.entries, y.entries)
    <3>1. \A x \in t : ~(new.ts < x.ts)
      BY <1>6, <1>7
    <3>2. QED
      BY <1>5, <1>6, <2>2, <3>1 DEF Ordered, InRetries
  <2>4. QED
    BY <1>5, <1>6, <2>1, <2>3 DEF Ordered, InRetries
<1>9. Between(k, t)
  <2>1. \A q \in FailQueues : Older(k[q], new.entries)
    <3>1. \A q \in FailQueues : k[q] = l[q]
      BY <1>1, QueueTypes DEF FailQueues, PENDING_QUEUE
    <3>2. QED
      BY <1>3, <1>6, <3>1 DEF Ordered, InLists, Older
  <2>2. QED
    BY <1>4, <1>5, <1>6, <2>1 DEF Ordered, Between
<1>10. Attempts(t)
  <2>1. \A x \in t : x.attempt < MaxRetry
    BY <1>5, <1>6, ConstantsAssumption DEF Ordered, Attempts
  <2>2. \A x, y \in t : x.ts < y.ts => x.attempt >= y.attempt
    <3>1. \A x \in t : ~(new.ts < x.ts)
      BY <1>6, <1>7
    <3>2. \A x \in r : x.attempt >= new.attempt
      BY <1>6, <1>7
    <3>3. QED
      BY <1>5, <1>6, <3>1, <3>2 DEF Ordered, Attempts
  <2>3. QED
    BY <2>1, <2>2 DEF Attempts
<1>11. QED
  BY <1>5, <1>8, <1>9, <1>10 DEF Ordered

(* The oldest retry queue moves to the fail queue of the day. *)
LEMMA OrderedFail ==
  ASSUME NEW l \in [Queues -> Seq(Nat)], NEW r \in SUBSET RetryQueue,
         NEW a \in Nat, NEW d \in FailQueues, Ordered(l, r, a, d),
         NEW x \in r, NEW t \in SUBSET r, \A y \in t : x.ts < y.ts,
         NEW k, k = [l EXCEPT ![d] = Lpush(@, x.entries)]
  PROVE  Ordered(k, t, a, d)
<1> DEFINE f == Lpush(l[d], x.entries)
<1>1. /\ d \in Queues /\ l[d] \in Seq(Nat) /\ x.entries \in Seq(Nat)
      /\ k[d] = f /\ \A q \in Queues : q # d => k[q] = l[q]
  BY QueueTypes DEF RetryQueue
<1>2. ToSet(f) = ToSet(l[d]) \union ToSet(x.entries) /\ Decreasing(f)
  <2>1. Increasing(x.entries) /\ Decreasing(l[d]) /\ Older(l[d], x.entries)
    BY <1>1 DEF Ordered, InRetries, InLists, Between
  <2>2. QED
    BY <1>1, <2>1, PushedOrder
<1> HIDE DEF f
<1>3. PENDING_QUEUE \in Queues /\ d # PENDING_QUEUE /\ k[PENDING_QUEUE] = l[PENDING_QUEUE]
  BY <1>1, QueueTypes DEF FailQueues, PENDING_QUEUE
<1>4. InLists(k, a, d)
  <2>1. \A q \in Queues : Decreasing(k[q]) /\ ToSet(k[q]) \subseteq 1..a
    BY <1>1, <1>2 DEF Ordered, InLists, InRetries
  <2>2. \A q \in FailQueues : Older(k[q], k[PENDING_QUEUE])
    BY <1>1, <1>2, <1>3, QueueTypes DEF Ordered, InLists, Between, Older
  <2>3. \A q \in FailQueues : q > d => ToSet(k[q]) = {}
    <3>1. \A q \in FailQueues : q > d => q # d
      BY DEF FailQueues
    <3>2. QED
      BY <1>1, <3>1, QueueTypes DEF Ordered, InLists
  <2>4. ASSUME NEW p \in FailQueues, NEW q \in FailQueues, p < q PROVE Older(k[p], k[q])
    <3>1. CASE p = d
      BY <2>3, <2>4, <3>1 DEF Older, FailQueues
    <3>2. CASE q = d
      <4>1. p # d
        BY <2>4, <3>2 DEF FailQueues
      <4>2. QED
        BY <1>1, <1>2, <2>4, <3>2, <4>1, QueueTypes DEF Ordered, InLists, Between, Older
    <3>3. CASE p # d /\ q # d
      BY <1>1, <2>4, <3>3, QueueTypes DEF Ordered, InLists
    <3>4. QED
      BY <3>1, <3>2, <3>3
  <2>5. QED
    BY <2>1, <2>2, <2>3, <2>4 DEF InLists
<1>5. Between(k, t)
  <2>1. \A y \in t : Older(x.entries, y.entries)
    BY DEF Ordered, InRetries
  <2>2. \A y \in t : \A q \in FailQueues : Older(k[q], y.entries)
    BY <1>1, <1>2, <2>1, QueueTypes DEF Ordered, Between, Older
  <2>3. QED
    BY <1>3, <2>2 DEF Ordered, Between
<1>6. InRetries(t, a) /\ Attempts(t)
  BY DEF Ordered, InRetries, Attempts
<1>7. QED
  BY <1>4, <1>5, <1>6 DEF Ordered

(* An entry is in one place only. *)
LEMMA OnePlace ==
  ASSUME NEW l \in [Queues -> Seq(Nat)], NEW r \in SUBSET RetryQueue, NEW a \in Nat, NEW d \in Nat,
         Ordered(l, r, a, d)
  PROVE  /\ \A p, q \in Queues : p # q => ToSet(l[p]) \intersect ToSet(l[q]) = {}
         /\ \A q \in Queues, x \in r : ToSet(l[q]) \intersect ToSet(x.entries) = {}
         /\ \A x, y \in r : x.ts # y.ts => ToSet(x.entries) \intersect ToSet(y.entries) = {}
<1>1. ASSUME NEW s, NEW t, Older(s, t), ToSet(s) \subseteq Nat
      PROVE  ToSet(s) \intersect ToSet(t) = {}
  BY <1>1 DEF Older
<1>2. \A q \in Queues : ToSet(l[q]) \subseteq Nat
  BY DEF Ordered, InLists
<1>3. \A x \in r : ToSet(x.entries) \subseteq Nat /\ x.ts \in Nat
  <2>1. \A x \in r : ToSet(x.entries) \subseteq 1..a
    BY DEF Ordered, InRetries
  <2>2. 1..a \subseteq Nat
    OBVIOUS
  <2>3. \A x \in r : x.ts \in Nat
    BY DEF RetryQueue
  <2>4. QED
    BY <2>1, <2>2, <2>3
<1>4. \A q \in Queues : q = PENDING_QUEUE \/ q \in FailQueues
  BY DEF Queues
<1>5. \A q \in FailQueues : q \in Nat
  BY DEF FailQueues
<1>6. ASSUME NEW p \in Queues, NEW q \in Queues, p # q
      PROVE  ToSet(l[p]) \intersect ToSet(l[q]) = {}
  <2>1. CASE p = PENDING_QUEUE
    BY <1>1, <1>2, <1>4, <1>6, <2>1 DEF Ordered, InLists
  <2>2. CASE q = PENDING_QUEUE
    BY <1>1, <1>2, <1>4, <1>6, <2>2 DEF Ordered, InLists
  <2>3. CASE p \in FailQueues /\ q \in FailQueues
    <3>1. p < q \/ q < p
      BY <1>5, <1>6, <2>3
    <3>2. Older(l[p], l[q]) \/ Older(l[q], l[p])
      BY <2>3, <3>1 DEF Ordered, InLists
    <3>3. QED
      BY <1>1, <1>2, <3>2
  <2>4. QED
    BY <1>4, <2>1, <2>2, <2>3
<1>7. ASSUME NEW q \in Queues, NEW x \in r
      PROVE  ToSet(l[q]) \intersect ToSet(x.entries) = {}
  BY <1>1, <1>2, <1>3, <1>4 DEF Ordered, Between
<1>8. ASSUME NEW x \in r, NEW y \in r, x.ts # y.ts
      PROVE  ToSet(x.entries) \intersect ToSet(y.entries) = {}
  <2>1. x.ts < y.ts \/ y.ts < x.ts
    BY <1>3, <1>8
  <2>2. Older(x.entries, y.entries) \/ Older(y.entries, x.entries)
    BY <2>1 DEF Ordered, InRetries
  <2>3. QED
    BY <1>1, <1>3, <2>2
<1>9. QED
  BY <1>6, <1>7, <1>8

(* The retry queue at hand has one attempt more; older ones had it before. *)
LEMMA OrderedBump ==
  ASSUME NEW l, NEW r \in SUBSET RetryQueue, NEW a, NEW d, Ordered(l, r, a, d),
         NEW x \in r, NEW y, y = [x EXCEPT !.attempt = @ + 1],
         y.attempt < MaxRetry, \A z \in r : z.ts = x.ts => z = x,
         \A z \in r : z.ts < x.ts => z.attempt > x.attempt,
         NEW t, t = (r \ {x}) \union {y}
  PROVE  Ordered(l, t, a, d)
<1>1. /\ y.ts = x.ts /\ y.entries = x.entries /\ y.attempt = x.attempt + 1
      /\ x.attempt \in Nat /\ x.ts \in Nat
      /\ \A z \in r : z.attempt \in Nat /\ z.ts \in Nat
  BY DEF RetryQueue
<1>2. \A z \in t : \E w \in r : z.ts = w.ts /\ z.entries = w.entries
  BY <1>1
<1>3. InRetries(t, a)
  BY <1>2 DEF Ordered, InRetries
<1>4. Between(l, t)
  BY <1>2 DEF Ordered, Between
<1>5. Attempts(t)
  <2>1. \A z \in t : z.attempt < MaxRetry
    BY <1>1 DEF Ordered, Attempts
  <2>2. ASSUME NEW v \in t, NEW w \in t, v.ts < w.ts
        PROVE  v.attempt >= w.attempt
    <3>0. v # w
      <4>1. v.ts \in Nat
        BY <1>1
      <4>2. QED
        BY <2>2, <4>1
    <3>1. CASE v = y
      <4>1. w \in r /\ x.ts < w.ts
        BY <1>1, <2>2, <3>0, <3>1
      <4>2. x.attempt >= w.attempt
        BY <4>1 DEF Ordered, Attempts
      <4>3. w.attempt \in Nat
        BY <1>1, <4>1
      <4>4. QED
        BY <1>1, <3>1, <4>2, <4>3
    <3>2. CASE w = y
      <4>1. v \in r /\ v.ts < x.ts
        BY <1>1, <2>2, <3>0, <3>2
      <4>2. v.attempt > x.attempt /\ v.attempt \in Nat
        BY <1>1, <4>1
      <4>3. QED
        BY <1>1, <3>2, <4>2
    <3>3. CASE v \in r /\ w \in r
      BY <2>2, <3>3 DEF Ordered, Attempts
    <3>4. QED
      BY <3>1, <3>2, <3>3
  <2>3. QED
    BY <2>1, <2>2 DEF Attempts
<1>6. QED
  BY <1>3, <1>4, <1>5 DEF Ordered

-----------------------------------------------------------------------------
(* What the steps have in common.                                          *)

(* The data of a step that leaves the last snapshot alone. *)
LEMMA DataStep ==
  ASSUME TypeOK, DataInv, accepted' \in Nat, day' \in FailQueues, accepted <= accepted', day <= day',
         Ordered(lists', retr', accepted', day'), UNCHANGED disk,
         saving' = saving \/ saving' = [lists |-> lists', retr |-> retr']
  PROVE  DataInv'
<1>1. accepted \in Nat /\ day \in Nat /\ day' \in Nat
  BY DEF TypeOK, HistoryOK, FailQueues
<1>2. Ordered(disk.lists, disk.retr, accepted', day')
  BY <1>1, OrderedLater DEF DataInv
<1>3. saving # NoSave => Ordered(saving.lists, saving.retr, accepted', day')
  BY <1>1, OrderedLater DEF DataInv
<1>4. saving' # NoSave => Ordered(saving'.lists, saving'.retr, accepted', day')
  BY <1>3 DEF NoSave
<1>5. QED
  BY <1>2, <1>4 DEF DataInv

(* The data of a step that leaves Redis alone. *)
LEMMA QuietData ==
  ASSUME TypeOK, DataInv, UNCHANGED <<lists, retr, saving, disk, accepted, day>>
  PROVE  DataInv'
<1>1. accepted \in Nat /\ day \in FailQueues /\ accepted <= accepted /\ day <= day
  BY DEF TypeOK, HistoryOK, FailQueues
<1>2. QED
  BY <1>1, DataStep DEF DataInv

(* No entry is held that was not enqueued. *)
LEMMA HeldEntries ==
  ASSUME NEW l, NEW r, NEW a, NEW d, Ordered(l, r, a, d)
  PROVE  HeldIn(l, r) \subseteq 1..a
<1>1. \A q \in Queues : ToSet(l[q]) \subseteq 1..a
  BY DEF Ordered, InLists
<1>2. \A x \in r : ToSet(x.entries) \subseteq 1..a
  BY DEF Ordered, InRetries
<1>3. QED
  BY <1>1, <1>2, HeldMember

(* Fewer entries in the lists, and in fewer retry queues. *)
LEMMA HeldLess ==
  ASSUME NEW l, NEW r, NEW k, NEW t, NEW S,
         \A q \in Queues : ToSet(k[q]) \subseteq ToSet(l[q]) \union S,
         \A x \in t : ToSet(x.entries) \subseteq HeldIn(l, r) \union S
  PROVE  HeldIn(k, t) \subseteq HeldIn(l, r) \union S
<1> SUFFICES ASSUME NEW e \in HeldIn(k, t), e \notin S PROVE e \in HeldIn(l, r)
  OBVIOUS
<1>1. CASE \E q \in Queues : e \in ToSet(k[q])
  BY <1>1, HeldMember
<1>2. CASE \E x \in t : e \in ToSet(x.entries)
  BY <1>2
<1>3. QED
  BY <1>1, <1>2, HeldMember

(* The pass over the retry queues that r is in, at its next queue. *)
PassGoesOn(r) ==
  /\ \A n \in r.names : \E x \in retr' : NameOf(x) = n
  /\ \A x, y \in retr' : NameOf(x) \notin r.names /\ NameOf(y) \in r.names =>
       x.ts < y.ts /\ x.attempt > y.attempt

(* The handler goes on without a batch, and nothing it holds was delivered *)
(* for all it knows.                                                       *)
LEMMA GoesOnOrder ==
  ASSUME TypeOK, NEW r, Proceed(Handler, r), GoesOn(r), InPass(r) => PassGoesOn(r),
         acked' \intersect Held' = {}, delivered' \subseteq Entries'
  PROVE  PassInv' /\ BatchOrder' /\ AckedInv'
<1>1. self' = r
  BY SelfProceed DEF TypeOK
<1>2. self'.pc \in {"idle", "fnext", "fetch", "rlist", "rfetch"}
  BY <1>1 DEF GoesOn, Settled
<1>3. BatchOrder' /\ AckedInv'
  BY <1>2 DEF BatchOrder, AckedInv
<1>4. CASE ~InPass(r)
  <2>1. ~InPass(self)'
    BY <1>1, <1>4 DEF InPass
  <2>2. QED
    BY <1>3, <2>1 DEF PassInv
<1>5. CASE InPass(r)
  <2>1. self'.pc = "rfetch" /\ ~AtHand(self)' /\ Left(self)' = r.names
    BY <1>1, <1>2, <1>5 DEF InPass, AtHand, Left
  <2>2. \A n \in r.names : Named(n)' # {}
    BY <1>5 DEF PassGoesOn, Named, NameOf
  <2>3. QED
    BY <1>3, <1>5, <2>1, <2>2 DEF PassInv, PassGoesOn, NameOf
<1>6. QED
  BY <1>4, <1>5

(* These ways on leave the pass, or do not enter one. *)
LEMMA NoPass ==
  ASSUME NEW r \in ThreadState, r.op = "upload"
  PROVE  /\ ~InPass(NextBatch(r)) /\ ~InPass(LeaveFailing(r)) /\ ~InPass(NextFailing(r))
         /\ ~InPass(BatchesDone(r)) /\ ~InPass(BatchesFailed(r))
         /\ ~InPass(LeaveRetrying(r)) /\ ~InPass(AbortRetrying(r))
<1>1. ~InPass(Idle)
  BY IdleFields DEF InPass
<1>2. NextBatch(r).pc = "fetch" /\ LeaveFailing(r).pc = "rlist" /\ EnterPending(r).pc = "fetch"
  BY IdleType DEF NextBatch, LeaveFailing, EnterPending, ThreadState, Idle
<1>3. [NextBatch(r) EXCEPT !.pc = "fnext"].pc = "fnext"
  BY ControlTypes DEF ThreadState
<1>4. ~InPass(NextBatch(r)) /\ ~InPass(LeaveFailing(r)) /\ ~InPass(EnterPending(r))
      /\ ~InPass([NextBatch(r) EXCEPT !.pc = "fnext"])
  BY <1>2, <1>3 DEF InPass
<1>5. ~InPass(NextFailing(r))
  BY <1>4 DEF NextFailing
<1>6. QED
  BY <1>1, <1>4, <1>5 DEF BatchesDone, BatchesFailed, LeaveRetrying, AbortRetrying

(* A pass that goes on keeps its names. *)
LEMMA NextRetryNames ==
  ASSUME NEW r \in ThreadState, r.op = "upload", InPass(NextRetry(r))
  PROVE  NextRetry(r).names = r.names
<1>1. r.names # {}
  BY NoPass DEF NextRetry
<1>2. QED
  BY <1>1 DEF NextRetry, ThreadState

-----------------------------------------------------------------------------
(* Steps of _upload_batch keep the order.                                  *)

(* A batch has entries, if it is the end of a list the list has too. *)
LEMMA EndNotEmpty ==
  ASSUME NEW l, NEW s \in Seq(Nat), EndOf(s, l), s # <<>>
  PROVE  l # <<>>
<1>1. Len(s) \in Nat /\ Len(s) # 0
  OBVIOUS
<1>2. Len(<<>>) = 0
  OBVIOUS
<1>3. QED
  BY <1>1, <1>2 DEF EndOf

(* The order of the lists, with their types. *)
LEMMA ListOrder ==
  ASSUME TypeOK, DataInv
  PROVE  \A q \in Queues : /\ lists[q] \in Seq(Nat) /\ Decreasing(lists[q])
                           /\ ToSet(lists[q]) \subseteq Entries /\ ToSet(lists[q]) \subseteq Held
  BY SelfType, HeldMember DEF DataInv, Ordered, InLists, Entries, Held

LEMMA FetchBatchOrder ==
  ASSUME TypeOK, Structure, OrderInv, FetchBatch(Handler)
  PROVE  OrderInv'
<1> DEFINE q == self.queue
           new == Lrange(lists[q], MaxBatch)
<1>1. /\ self.pc = "fetch" /\ self.op = "upload" /\ q \in Queues
      /\ UNCHANGED <<lists, retr, saving, disk, accepted, day, delivered, acked>>
      /\ Held' = Held /\ Entries' = Entries /\ acked \intersect Held = {}
  BY SelfType DEF FetchBatch, self, unchangedByControl, Structure, ControlInv, Held, Entries,
     OrderInv, AckedInv
<1>2. DataInv'
  BY <1>1, QuietData DEF OrderInv
<1>3. ASSUME NEW b \in Seq(Nat), NEW c \in BOOLEAN,
             Proceed(Handler, [self EXCEPT !.pc = "post", !.batch = b, !.cached = c]),
             EndOf(b, lists[q]), b # <<>>
      PROVE  OrderInv'
  <2>1. self'.pc = "post" /\ self'.queue = q /\ self'.batch = b
    <3> DEFINE r == [self EXCEPT !.pc = "post", !.batch = b, !.cached = c]
    <3>1. self' = r
      BY <1>3, SelfProceed DEF TypeOK
    <3>2. r.pc = "post" /\ r.queue = q /\ r.batch = b
      BY <1>1, SelfType DEF ThreadState
    <3>3. QED
      BY <3>1, <3>2
  <2>2. /\ ToSet(b) \subseteq Entries /\ ToSet(b) \subseteq Held /\ Decreasing(b)
        /\ lists[q] # <<>>
    BY <1>1, <1>3, ListOrder, EndOrder, EndNotEmpty DEF OrderInv
  <2>3. BatchOrder'
    BY <1>1, <1>3, <2>1, <2>2 DEF BatchOrder
  <2>4. AckedInv'
    BY <1>1, <2>1, <2>2 DEF AckedInv, OrderInv
  <2>5. PassInv'
    BY <2>1 DEF PassInv, InPass
  <2>6. QED
    BY <1>2, <2>3, <2>4, <2>5 DEF OrderInv
<1>4. CASE cache[q] # <<>> /\ Proceed(Handler, [self EXCEPT !.pc = "post", !.batch = cache[q], !.cached = TRUE])
  <2>1. q = PENDING_QUEUE
    BY <1>1, <1>4 DEF Queues, Structure, CacheInv, Failing
  <2>2. EndOf(cache[q], lists[q]) /\ cache[q] \in Seq(Nat)
    BY <1>1, <2>1, SelfType DEF Structure, CacheInv
  <2>3. QED
    BY <1>3, <1>4, <2>2
<1>5. CASE new # <<>> /\ Proceed(Handler, [self EXCEPT !.pc = "post", !.batch = new])
  <2>1. new \in Seq(Nat) /\ EndOf(new, lists[q])
    BY <1>1, SelfType, EndLrange, ListTypes, EmptyList, ConstantsAssumption
  <2>2. self.cached \in BOOLEAN
    BY SelfType DEF ThreadState
  <2>3. [self EXCEPT !.pc = "post", !.batch = new]
          = [self EXCEPT !.pc = "post", !.batch = new, !.cached = self.cached]
    BY SelfType DEF ThreadState
  <2>4. QED
    BY <1>3, <1>5, <2>1, <2>2, <2>3
<1>6. CASE Proceed(Handler, BatchesDone(self))
  BY <1>1, <1>2, <1>6, SelfType, BatchesControl, NoPass, GoesOnOrder DEF OrderInv, AckedInv
<1>7. QED
  BY <1>4, <1>5, <1>6 DEF FetchBatch, self

LEMMA PostBatchOrder ==
  ASSUME TypeOK, Structure, OrderInv,
         PostBatchOk(Handler) \/ PostBatchUnanswered(Handler) \/ PostBatchRejected(Handler)
  PROVE  OrderInv'
<1>1. /\ self.pc = "post" /\ self.op = "upload"
      /\ UNCHANGED <<lists, retr, saving, disk, accepted, day>>
      /\ Held' = Held /\ Entries' = Entries
      /\ acked \intersect Held = {} /\ ToSet(self.batch) \subseteq Entries
      /\ delivered \subseteq Entries
  BY DEF PostBatchOk, PostBatchUnanswered, PostBatchRejected, self, unchangedByPost,
     Structure, ControlInv, Held, Entries, OrderInv, BatchOrder, AckedInv
<1>2. DataInv'
  BY <1>1, QuietData DEF OrderInv
<1>3. delivered' \subseteq Entries'
  BY <1>1 DEF PostBatchOk, PostBatchUnanswered, PostBatchRejected, ServerAccepts, self
<1>4. /\ GoesOn(BatchesFailed(self)) /\ ~InPass(BatchesFailed(self))
  BY <1>1, SelfType, BatchesControl, NoPass
<1>5. ASSUME NEW p \in {"trim", "transfer"}, Proceed(Handler, [self EXCEPT !.pc = p]),
             p = "transfer" => MaxRetry > 0, acked' = IF p = "trim" THEN acked \union ToSet(self.batch) ELSE acked
      PROVE  OrderInv'
  <2>1. self'.pc = p /\ self'.queue = self.queue /\ self'.batch = self.batch
    <3>1. self' = [self EXCEPT !.pc = p]
      BY <1>5, SelfProceed DEF TypeOK
    <3>2. QED
      BY <3>1, SelfType DEF ThreadState
  <2>2. BatchOrder'
    BY <1>1, <1>5, <2>1 DEF OrderInv, BatchOrder
  <2>3. AckedInv'
    BY <1>1, <1>3, <1>5, <2>1 DEF AckedInv
  <2>4. PassInv'
    BY <2>1 DEF PassInv, InPass
  <2>5. QED
    BY <1>2, <2>2, <2>3, <2>4 DEF OrderInv
<1>6. ASSUME Proceed(Handler, BatchesFailed(self)), UNCHANGED acked
      PROVE  OrderInv'
  BY <1>1, <1>2, <1>3, <1>4, <1>6, GoesOnOrder DEF OrderInv
<1>7. CASE PostBatchOk(Handler)
  <2>1. Proceed(Handler, [self EXCEPT !.pc = "trim"]) /\ acked' = acked \union ToSet(self.batch)
    BY <1>7 DEF PostBatchOk, self
  <2>2. QED
    BY <1>5, <2>1
<1>8. CASE PostBatchUnanswered(Handler)
  BY <1>6, <1>8 DEF PostBatchUnanswered, self
<1>9. CASE PostBatchRejected(Handler)
  <2>1. UNCHANGED acked
    BY <1>9 DEF PostBatchRejected
  <2>2. CASE MaxRetry > 0 /\ Proceed(Handler, [self EXCEPT !.pc = "transfer"])
    BY <1>5, <2>1, <2>2
  <2>3. QED
    BY <1>6, <1>9, <2>1, <2>2 DEF PostBatchRejected, self
<1>10. QED
  BY <1>7, <1>8, <1>9

(* After LTRIM no entry of the batch is held, also when its fail queue had *)
(* expired.                                                                *)
LEMMA TrimmedHeld ==
  ASSUME TypeOK, Structure, OrderInv, self.pc = "trim", UNCHANGED retr,
         lists' = [lists EXCEPT ![self.queue] = Ltrim(@, Len(self.batch))]
  PROVE  /\ Held' \subseteq Held /\ ToSet(self.batch) \intersect Held' = {}
         /\ \A q \in Queues : ToSet(lists'[q]) \subseteq ToSet(lists[q]) /\ Decreasing(lists'[q])
<1> DEFINE q == self.queue
           b == self.batch
<1>1. /\ q \in Queues /\ b \in Seq(Nat) /\ Len(b) \in Nat /\ lists[q] \in Seq(Nat)
      /\ Decreasing(lists[q]) /\ lists \in [Queues -> Seq(Nat)]
  BY SelfType, ListOrder DEF OrderInv
<1>2. lists'[q] = Ltrim(lists[q], Len(b)) /\ \A p \in Queues : p # q => lists'[p] = lists[p]
  BY <1>1
<1>3. \A p \in Queues : ToSet(lists'[p]) \subseteq ToSet(lists[p]) /\ Decreasing(lists'[p])
  BY <1>1, <1>2, TrimmedOrder, ListOrder DEF OrderInv
<1>4. Held' \subseteq Held
  BY <1>3, HeldMember DEF Held
<1>5. CASE EndOf(b, lists[q])
  <2>1. Ordered(lists, retr, accepted, day) /\ accepted \in Nat /\ day \in Nat
    BY DEF OrderInv, DataInv, TypeOK, HistoryOK, FailQueues
  <2>2. ToSet(b) \subseteq ToSet(lists[q]) /\ ToSet(b) \subseteq Nat
    BY <1>1, <1>5, EndOrder, EntryTypes
  <2>3. ToSet(b) \intersect ToSet(lists'[q]) = {}
    <3>1. Older(b, lists'[q])
      BY <1>1, <1>2, <1>5, TrimmedNewer
    <3>2. QED
      BY <2>2, <3>1 DEF Older
  <2>4. \A p \in Queues : p # q => ToSet(b) \intersect ToSet(lists'[p]) = {}
    BY <1>1, <1>2, <2>1, <2>2, SnapshotTypes, OnePlace
  <2>5. \A x \in retr : ToSet(b) \intersect ToSet(x.entries) = {}
    BY <1>1, <2>1, <2>2, SnapshotTypes, OnePlace
  <2>6. ToSet(b) \intersect Held' = {}
    <3>1. HeldIn(lists', retr') = Held'
      BY DEF Held
    <3>2. ASSUME NEW e \in ToSet(b), e \in HeldIn(lists', retr')
          PROVE  FALSE
      <4>1. \A p \in Queues : e \notin ToSet(lists'[p])
        BY <2>3, <2>4, <3>2
      <4>2. \A x \in retr' : e \notin ToSet(x.entries)
        BY <2>5, <3>2
      <4> HIDE DEF b, q
      <4>3. QED
        BY <3>2, <4>1, <4>2, HeldMember
    <3>3. QED
      BY <3>1, <3>2
  <2>7. QED
    BY <1>3, <1>4, <2>6
<1>6. CASE q # PENDING_QUEUE /\ lists[q] = <<>>
  BY <1>3, <1>4, <1>6 DEF OrderInv, BatchOrder
<1>7. QED
  BY <1>5, <1>6 DEF Structure, BatchInv

LEMMA TrimBatchOrder ==
  ASSUME TypeOK, Structure, OrderInv, TrimBatch(Handler)
  PROVE  OrderInv' /\ Held' \subseteq Held
<1> DEFINE ok == IF Len(self.batch) = MaxBatch \/ self.cached
                 THEN NextBatch(self) ELSE BatchesDone(self)
<1>1. /\ self.pc = "trim" /\ self.op = "upload"
      /\ lists' = [lists EXCEPT ![self.queue] = Ltrim(@, Len(self.batch))]
      /\ PersistThen(Handler, ok, BatchesFailed(self))
      /\ UNCHANGED <<retr, disk, accepted, day, delivered, acked>>
      /\ accepted \in Nat /\ day \in FailQueues
      /\ accepted <= accepted /\ day <= day /\ Entries' = Entries
  BY DEF TrimBatch, self, Structure, ControlInv, TypeOK, HistoryOK, FailQueues, Entries
<1>2. /\ GoesOn(ok) /\ ~InPass(ok)
      /\ GoesOn(BatchesFailed(self)) /\ ~InPass(BatchesFailed(self))
  BY <1>1, SelfType, FailingControl, BatchesControl, NoPass
<1>3. acked' \intersect Held' = {} /\ delivered' \subseteq Entries'
  BY <1>1, TrimmedHeld DEF OrderInv, AckedInv
<1>4. DataInv'
  <2>1. Ordered(lists', retr', accepted', day')
    BY <1>1, TrimmedHeld, OrderedLess DEF OrderInv, DataInv
  <2>2. saving' = saving \/ saving' = [lists |-> lists', retr |-> retr']
    BY <1>1 DEF PersistThen
  <2>3. QED
    BY <1>1, <2>1, <2>2, DataStep DEF OrderInv
<1> HIDE DEF ok
<1>5. Proceed(Handler, ok) \/ Proceed(Handler, BatchesFailed(self))
  BY <1>1 DEF PersistThen
<1>6. QED
  BY <1>1, <1>2, <1>3, <1>4, <1>5, TrimmedHeld, GoesOnOrder DEF OrderInv

LEMMA TransferBatchOrder ==
  ASSUME TypeOK, Structure, OrderInv, TransferBatch(Handler)
  PROVE  OrderInv' /\ Held' \subseteq Held
<1> DEFINE b == self.batch
           new == [ts |-> clock + 1, attempt |-> 0, entries |-> Lpush(<<>>, b)]
<1>1. /\ self.pc = "transfer" /\ self.op = "upload" /\ self.queue = PENDING_QUEUE
      /\ lists' = [lists EXCEPT ![PENDING_QUEUE] = Ltrim(@, Len(b))]
      /\ retr' = retr \union {new}
      /\ PersistThen(Handler, BatchesFailed(self), BatchesFailed(self))
      /\ UNCHANGED <<disk, accepted, day, delivered, acked>>
      /\ accepted \in Nat /\ day \in FailQueues /\ day \in Nat
      /\ accepted <= accepted /\ day <= day /\ Entries' = Entries
  BY DEF TransferBatch, self, Structure, ControlInv, TypeOK, HistoryOK, FailQueues, Entries
<1>2. GoesOn(BatchesFailed(self)) /\ ~InPass(BatchesFailed(self))
  BY <1>1, SelfType, BatchesControl, NoPass
<1>3. /\ b \in Seq(Nat) /\ b # <<>> /\ EndOf(b, lists[PENDING_QUEUE]) /\ MaxRetry > 0
      /\ lists[PENDING_QUEUE] \in Seq(Nat) /\ Decreasing(lists[PENDING_QUEUE])
      /\ ToSet(lists[PENDING_QUEUE]) \subseteq Held
  BY <1>1, SelfType, ListOrder, QueueTypes DEF Structure, BatchInv, OrderInv, BatchOrder
<1>4. Ordered(lists', retr', accepted', day')
  <2>1. clock \in Nat /\ \A x \in retr : x.ts <= clock
    BY SnapshotTypes DEF Structure, DistinctInv, Distinct
  <2>2. Ordered(lists, retr, accepted, day)
    BY DEF OrderInv, DataInv
  <2>3. lists \in [Queues -> Seq(Nat)] /\ retr \in SUBSET RetryQueue
    BY SelfType, SnapshotTypes
  <2>4. QED
    BY <1>1, <1>3, <2>1, <2>2, <2>3, OrderedTransfer
<1>5. DataInv'
  <2>1. saving' = saving \/ saving' = [lists |-> lists', retr |-> retr']
    BY <1>1 DEF PersistThen
  <2>2. QED
    BY <1>1, <1>4, <2>1, DataStep DEF OrderInv
<1>6. Held' \subseteq Held
  <2>1. ToSet(new.entries) \subseteq Held
    BY <1>3, EndOrder, RetriedOrder
  <2>2. \A q \in Queues : ToSet(lists'[q]) \subseteq ToSet(lists[q]) \union {}
    <3>1. Len(b) \in Nat
      BY <1>3
    <3>2. \A q \in Queues : lists'[q] = IF q = PENDING_QUEUE THEN Ltrim(lists[q], Len(b)) ELSE lists[q]
      BY <1>1, SelfType
    <3>3. QED
      BY <1>3, <3>1, <3>2, TrimmedOrder
  <2>3. \A x \in retr' : ToSet(x.entries) \subseteq Held \union {}
    BY <1>1, <2>1, HeldMember DEF Held
  <2>4. QED
    BY <2>2, <2>3, HeldLess DEF Held
<1>7. acked' \intersect Held' = {} /\ delivered' \subseteq Entries'
  BY <1>1, <1>6 DEF OrderInv, AckedInv
<1>8. Proceed(Handler, BatchesFailed(self))
  BY <1>1 DEF PersistThen
<1>9. QED
  BY <1>2, <1>5, <1>6, <1>7, <1>8, GoesOnOrder DEF OrderInv

-----------------------------------------------------------------------------
(* Steps of upload_retrying keep the order.                                *)

LEMMA NamedBy ==
  ASSUME TypeOK, NEW n \in Name
  PROVE  Named(n) = {x \in retr : NameOf(x) = n}
<1>1. \A x \in retr : NameOf(x) = n <=> x.ts = n.ts /\ x.attempt = n.attempt
  BY DEF NameOf, Name
<1>2. QED
  BY <1>1 DEF Named

(* What a pass knows: every name left is that of one retry queue.          *)
LEMMA LeftNames ==
  ASSUME TypeOK, OrderInv, InPass(self)
  PROVE  /\ Left(self) \subseteq Name
         /\ \A n \in Left(self) : \E x \in retr : NameOf(x) = n
         /\ \A x, y \in retr : NameOf(x) \notin Left(self) /\ NameOf(y) \in Left(self) =>
              x.ts < y.ts /\ x.attempt > y.attempt
<1>1. self.names \subseteq Name /\ self.name \in Name
  BY SelfType DEF ThreadState
<1>2. Left(self) \subseteq Name
  BY <1>1 DEF Left
<1>3. \A n \in Left(self) : Named(n) # {}
  BY DEF OrderInv, PassInv
<1>4. \A n \in Left(self) : \E x \in retr : NameOf(x) = n
  BY <1>2, <1>3, NamedBy
<1>5. QED
  BY <1>2, <1>4 DEF OrderInv, PassInv

(* The retry queue at hand, and what the others are to it. *)
LEMMA RetryAtHand ==
  ASSUME TypeOK, Structure, OrderInv, AtHand(self)
  PROVE  \E x \in retr :
           /\ Named(self.name) = {x} /\ NameOf(x) = self.name /\ x.entries = self.batch
           /\ \A n \in self.names : n \in Name /\ n # self.name /\ self.name.ts < n.ts
           /\ \A n \in self.names : \E y \in retr \ {x} : NameOf(y) = n
           /\ \A y \in retr \ {x} :
                /\ y.ts # x.ts /\ NameOf(y) # self.name
                /\ NameOf(y) \in self.names => x.ts < y.ts
                /\ NameOf(y) \notin self.names => y.ts < x.ts /\ y.attempt > x.attempt
           /\ \A y, z \in retr \ {x} : NameOf(y) \notin self.names /\ NameOf(z) \in self.names =>
                y.ts < z.ts /\ y.attempt > z.attempt
<1>1. InPass(self) /\ Left(self) = self.names \union {self.name}
      /\ self.pc \in {"rpost", "rdelete", "rfail", "rbump"}
  BY DEF InPass, AtHand, Left
<1>2. PICK x \in retr : NameOf(x) = self.name
  BY <1>1, LeftNames
<1>3. \A y, z \in retr : y.ts = z.ts => y = z
  BY DEF Structure, DistinctInv, Distinct
<1>4. self.name \in Name /\ self.names \subseteq Name
  BY SelfType DEF ThreadState
<1>5. \A y \in retr : NameOf(y) = self.name => y = x
  BY <1>2, <1>3 DEF NameOf
<1>6. Named(self.name) = {x}
  BY <1>2, <1>4, <1>5, NamedBy
<1>7. x.entries = self.batch
  BY <1>1, <1>6 DEF Structure, RetryInv
<1>8. \A n \in self.names : n \in Name /\ self.name.ts < n.ts
  BY <1>1, <1>4 DEF OrderInv, PassInv
<1>9. \A n \in self.names : n # self.name
  <2>1. self.name.ts \in Nat
    BY <1>4 DEF Name
  <2>2. QED
    BY <1>8, <2>1
<1>10. \A n \in self.names : \E y \in retr \ {x} : NameOf(y) = n
  BY <1>1, <1>2, <1>9, LeftNames
<1>11. ASSUME NEW y \in retr, y # x
       PROVE  /\ y.ts # x.ts /\ NameOf(y) # self.name
              /\ NameOf(y) \in self.names => x.ts < y.ts
              /\ NameOf(y) \notin self.names => y.ts < x.ts /\ y.attempt > x.attempt
  <2>1. y.ts # x.ts /\ NameOf(y) # self.name
    BY <1>3, <1>5, <1>11
  <2>2. NameOf(y) \in self.names => x.ts < y.ts
    BY <1>2, <1>8 DEF NameOf
  <2>3. NameOf(y) \notin self.names => y.ts < x.ts /\ y.attempt > x.attempt
    BY <1>1, <1>2, <2>1, LeftNames
  <2>4. QED
    BY <2>1, <2>2, <2>3
<1>12. \A y, z \in retr \ {x} : NameOf(y) \notin self.names /\ NameOf(z) \in self.names =>
                y.ts < z.ts /\ y.attempt > z.attempt
  BY <1>1, <1>11, LeftNames
<1>13. QED
  BY <1>2, <1>6, <1>7, <1>8, <1>9, <1>10, <1>11, <1>12

(* A step of the pass that leaves Redis alone. *)
LEMMA PassQuiet ==
  ASSUME TypeOK, OrderInv, self.op = "upload",
         UNCHANGED <<lists, retr, saving, disk, accepted, day>>
  PROVE  DataInv' /\ Held' = Held /\ Entries' = Entries
  BY QuietData DEF OrderInv, Held, Entries

LEMMA ListRetryingOrder ==
  ASSUME TypeOK, Structure, OrderInv, ListRetrying(Handler)
  PROVE  OrderInv'
<1> DEFINE n == {[ts |-> x.ts, attempt |-> x.attempt] : x \in retr}
           r == [self EXCEPT !.names = n, !.remaining = Cardinality(retr)]
<1>1. /\ self.pc = "rlist" /\ self.op = "upload" /\ Proceed(Handler, NextRetry(r))
      /\ UNCHANGED <<lists, retr, saving, disk, accepted, day, delivered, acked>>
  BY DEF ListRetrying, self, unchangedByControl, Structure, ControlInv
<1>2. r \in ThreadState /\ r.op = "upload" /\ r.names = n
  <2>1. n \subseteq Name
    BY SnapshotTypes DEF RetryQueue, Name
  <2>2. Cardinality(retr) \in Int
    BY FS_CardinalityType DEF TypeOK, RedisOK
  <2> HIDE DEF n
  <2>3. QED
    BY <1>1, <2>1, <2>2, SelfType DEF ThreadState
<1>3. \A x \in retr : NameOf(x) \in n
  BY DEF NameOf
<1>4. \A m \in n : \E x \in retr' : NameOf(x) = m
  BY <1>1 DEF NameOf
<1> HIDE DEF r, n
<1>5. InPass(NextRetry(r)) => PassGoesOn(NextRetry(r))
  BY <1>1, <1>2, <1>3, <1>4, NextRetryNames DEF PassGoesOn
<1>6. acked' \intersect Held' = {} /\ delivered' \subseteq Entries' /\ DataInv'
  BY <1>1, PassQuiet DEF OrderInv, AckedInv
<1>7. QED
  BY <1>1, <1>2, <1>5, <1>6, RetryingControl, GoesOnOrder DEF OrderInv

(* A step within a retry, with the queue at hand. *)
LEMMA AtHandOrder ==
  ASSUME TypeOK, OrderInv, NEW r \in ThreadState, Proceed(Handler, r), AtHand(r),
         self.op = "upload", InPass(self), Left(r) = Left(self),
         UNCHANGED <<lists, retr, saving, disk, accepted, day>>,
         \A n \in r.names : r.name.ts < n.ts,
         r.pc = "rbump" => r.name.attempt + 1 < MaxRetry,
         r.pc = "rfail" => r.name.attempt + 1 >= MaxRetry,
         delivered' \subseteq Entries,
         acked' \intersect Held \subseteq (IF r.pc = "rdelete" THEN ToSet(r.batch) ELSE {}),
         r.pc = "rpost" => ToSet(r.batch) \intersect acked' = {}
  PROVE  OrderInv'
<1>1. self' = r
  BY SelfProceed DEF TypeOK
<1>2. r.pc \in {"rpost", "rdelete", "rfail", "rbump"}
  BY DEF AtHand
<1>3. BatchOrder'
  BY <1>1, <1>2 DEF BatchOrder
<1>4. AckedInv'
  BY <1>1, <1>2, PassQuiet DEF AckedInv
<1>5. PassInv'
  <2>1. Left(self)' = Left(r) /\ AtHand(self)'
    BY <1>1 DEF Left, AtHand
  <2>2. \A n \in Left(self) : Named(n)' # {}
    BY DEF OrderInv, PassInv, Named
  <2>3. \A x, y \in retr' : NameOf(x) \notin Left(r) /\ NameOf(y) \in Left(r) =>
          x.ts < y.ts /\ x.attempt > y.attempt
    BY DEF OrderInv, PassInv
  <2>4. QED
    BY <1>1, <2>1, <2>2, <2>3 DEF PassInv, NameOf
<1>6. QED
  BY <1>3, <1>4, <1>5, PassQuiet DEF OrderInv

LEMMA FetchRetryOrder ==
  ASSUME TypeOK, Structure, OrderInv, FetchRetry(Handler)
  PROVE  OrderInv'
<1>1. /\ self.pc = "rfetch" /\ self.op = "upload" /\ InPass(self) /\ Left(self) = self.names
      /\ UNCHANGED <<lists, retr, saving, disk, accepted, day, delivered, acked>>
  BY DEF FetchRetry, self, unchangedByControl, Structure, ControlInv, InPass, Left, AtHand
<1>2. PICK n \in self.names :
        LET next == [self EXCEPT !.pc = "rpost", !.name = n, !.names = @ \ {n}]
        IN  /\ \A m \in self.names : n.ts <= m.ts
            /\ \/ \E x \in Named(n) : Proceed(Handler, [next EXCEPT !.batch = x.entries])
               \/ Named(n) = {} /\ Proceed(Handler, next)
  BY DEF FetchRetry, self
<1> DEFINE next == [self EXCEPT !.pc = "rpost", !.name = n, !.names = @ \ {n}]
<1>3. PICK x \in Named(n) : Proceed(Handler, [next EXCEPT !.batch = x.entries])
  BY <1>1, <1>2 DEF OrderInv, PassInv
<1>4. x \in retr /\ x.entries \in Seq(Nat) /\ ToSet(x.entries) \subseteq Held
  BY <1>3, SnapshotTypes, HeldMember DEF Named, RetryQueue, Held
<1> DEFINE r == [next EXCEPT !.batch = x.entries]
<1>5. /\ r \in ThreadState /\ r.pc = "rpost" /\ r.name = n /\ r.names = self.names \ {n}
      /\ r.batch = x.entries
  BY <1>1, <1>4, SelfType DEF ThreadState
<1> HIDE DEF next, r
<1>6. AtHand(r) /\ Left(r) = Left(self)
  BY <1>1, <1>5 DEF AtHand, Left
<1>7. \A m \in r.names : r.name.ts < m.ts
  <2> SUFFICES ASSUME NEW m \in self.names, m # n PROVE n.ts < m.ts
    BY <1>5
  <2>1. PICK y \in retr, z \in retr : NameOf(y) = n /\ NameOf(z) = m
    BY <1>1, LeftNames
  <2>2. y.ts # z.ts
    BY <2>1 DEF Structure, DistinctInv, Distinct
  <2>3. n.ts = y.ts /\ m.ts = z.ts
    BY <2>1 DEF NameOf
  <2>4. n.ts <= m.ts /\ n.ts \in Nat /\ m.ts \in Nat
    <3>1. n.ts <= m.ts
      BY <1>2
    <3>2. n \in Name /\ m \in Name
      BY <1>1, LeftNames
    <3>3. QED
      BY <3>1, <3>2 DEF Name
  <2>5. QED
    BY <2>2, <2>3, <2>4
<1>8. acked' \intersect Held = {} /\ delivered' \subseteq Entries
  BY <1>1 DEF OrderInv, AckedInv
<1>9. QED
  BY <1>1, <1>3, <1>4, <1>5, <1>6, <1>7, <1>8, AtHandOrder DEF r

LEMMA PostRetryOrder ==
  ASSUME TypeOK, Structure, OrderInv,
         PostRetryOk(Handler) \/ PostRetryUnanswered(Handler) \/ PostRetryRejected(Handler)
  PROVE  OrderInv'
<1>1. /\ self.pc = "rpost" /\ self.op = "upload" /\ InPass(self) /\ AtHand(self)
      /\ UNCHANGED <<lists, retr, saving, disk, accepted, day>>
      /\ acked \intersect Held = {} /\ delivered \subseteq Entries
  BY DEF PostRetryOk, PostRetryUnanswered, PostRetryRejected, self, unchangedByPost,
         Structure, ControlInv, InPass, AtHand, OrderInv, AckedInv
<1>2. PICK x \in retr : x.entries = self.batch
  BY <1>1, RetryAtHand
<1>3. ToSet(self.batch) \subseteq Entries
  BY <1>2 DEF OrderInv, DataInv, Ordered, InRetries, Entries
<1>4. delivered' \subseteq Entries
  BY <1>1, <1>3 DEF PostRetryOk, PostRetryUnanswered, PostRetryRejected, ServerAccepts, self
<1>5. ASSUME NEW p \in {"rdelete", "rfail", "rbump"}, Proceed(Handler, [self EXCEPT !.pc = p]),
             p = "rbump" => self.name.attempt + 1 < MaxRetry,
             p = "rfail" => self.name.attempt + 1 >= MaxRetry,
             acked' = IF p = "rdelete" THEN acked \union ToSet(self.batch) ELSE acked
      PROVE  OrderInv'
  <2> DEFINE r == [self EXCEPT !.pc = p]
  <2>1. /\ r \in ThreadState /\ r.pc = p /\ r.name = self.name /\ r.names = self.names
        /\ r.batch = self.batch
    BY <1>1, SelfType DEF ThreadState
  <2> HIDE DEF r
  <2>2. AtHand(r) /\ Left(r) = Left(self)
    BY <1>1, <2>1 DEF AtHand, Left
  <2>3. \A n \in r.names : r.name.ts < n.ts
    BY <1>1, <2>1 DEF OrderInv, PassInv
  <2>4. acked' \intersect Held \subseteq (IF r.pc = "rdelete" THEN ToSet(r.batch) ELSE {})
    BY <1>1, <1>5, <2>1
  <2>5. QED
    BY <1>1, <1>4, <1>5, <2>1, <2>2, <2>3, <2>4, AtHandOrder DEF r
<1>6. CASE PostRetryOk(Handler)
  <2>1. Proceed(Handler, [self EXCEPT !.pc = "rdelete"]) /\ acked' = acked \union ToSet(self.batch)
    BY <1>6 DEF PostRetryOk, self
  <2>2. QED
    BY <1>5, <2>1
<1>7. CASE PostRetryUnanswered(Handler)
  <2>1. Proceed(Handler, LeaveRetrying(self)) /\ UNCHANGED acked
    BY <1>7 DEF PostRetryUnanswered, self
  <2>2. acked' \intersect Held' = {} /\ delivered' \subseteq Entries' /\ DataInv'
    BY <1>1, <1>4, <2>1, PassQuiet
  <2>3. QED
    BY <1>1, <2>1, <2>2, SelfType, RetryingControl, NoPass, GoesOnOrder DEF OrderInv
<1>8. CASE PostRetryRejected(Handler)
  <2>1. UNCHANGED acked
    BY <1>8 DEF PostRetryRejected
  <2>2. CASE self.name.attempt + 1 >= MaxRetry
    <3>1. Proceed(Handler, [self EXCEPT !.pc = "rfail"])
      BY <1>8, <2>2 DEF PostRetryRejected, self
    <3>2. QED
      BY <1>5, <2>1, <2>2, <3>1
  <2>3. CASE ~(self.name.attempt + 1 >= MaxRetry)
    <3>1. Proceed(Handler, [self EXCEPT !.pc = "rbump"])
      BY <1>8, <2>3 DEF PostRetryRejected, self
    <3>2. self.name.attempt \in Nat /\ MaxRetry \in Nat
      BY SelfType, ConstantsAssumption DEF ThreadState, Name
    <3>3. self.name.attempt + 1 < MaxRetry
      BY <2>3, <3>2
    <3>4. QED
      BY <1>5, <2>1, <3>1, <3>3
  <2>4. QED
    BY <2>2, <2>3
<1>9. QED
  BY <1>6, <1>7, <1>8

(* What the steps on a retry queue that end in BGSAVE have in common.      *)
LEMMA RetryPersist ==
  ASSUME TypeOK, OrderInv, NEW ok, NEW error, PersistThen(Handler, ok, error),
         self.op = "upload", UNCHANGED <<disk, accepted, day, delivered, acked>>,
         Ordered(lists', retr', accepted, day),
         GoesOn(ok), GoesOn(error), ~InPass(error), InPass(ok) => PassGoesOn(ok),
         acked' \intersect Held' = {}
  PROVE  OrderInv'
<1>1. /\ accepted \in Nat /\ day \in FailQueues /\ accepted <= accepted /\ day <= day
      /\ Entries' = Entries
  BY DEF TypeOK, HistoryOK, FailQueues, Entries
<1>2. saving' = saving \/ saving' = [lists |-> lists', retr |-> retr']
  BY DEF PersistThen
<1>3. DataInv'
  BY <1>1, <1>2, DataStep DEF OrderInv
<1>4. delivered' \subseteq Entries'
  BY <1>1 DEF OrderInv, AckedInv
<1>5. Proceed(Handler, ok) \/ Proceed(Handler, error)
  BY DEF PersistThen
<1>6. QED
  BY <1>3, <1>4, <1>5, GoesOnOrder DEF OrderInv

(* Without the queue at hand the pass goes on with the names that are left. *)
LEMMA PassWithout ==
  ASSUME TypeOK, Structure, OrderInv, AtHand(self), retr' = retr \ Named(self.name),
         NEW r, r.names = self.names
  PROVE  PassGoesOn(r)
<1>1. PICK x \in retr :
           /\ Named(self.name) = {x}
           /\ \A n \in self.names : \E y \in retr \ {x} : NameOf(y) = n
           /\ \A y, z \in retr \ {x} : NameOf(y) \notin self.names /\ NameOf(z) \in self.names =>
                y.ts < z.ts /\ y.attempt > z.attempt
  BY RetryAtHand
<1>2. retr' = retr \ {x}
  BY <1>1
<1>3. QED
  BY <1>1, <1>2 DEF PassGoesOn

LEMMA DeleteRetryOrder ==
  ASSUME TypeOK, Structure, OrderInv, DeleteRetry(Handler)
  PROVE  OrderInv' /\ Held' \subseteq Held
<1> DEFINE r == [self EXCEPT !.remaining = @ - 1]
<1>1. /\ self.pc = "rdelete" /\ self.op = "upload" /\ AtHand(self)
      /\ retr' = retr \ Named(self.name)
      /\ PersistThen(Handler, NextRetry(r), AbortRetrying(self))
      /\ UNCHANGED <<lists, disk, accepted, day, delivered, acked>>
  BY DEF DeleteRetry, unchangedByRetry, self, Structure, ControlInv, AtHand
<1>2. r \in ThreadState /\ r.op = "upload" /\ r.names = self.names
  <2>1. self.remaining - 1 \in Int
    BY SelfType DEF ThreadState
  <2>2. QED
    BY <1>1, <2>1, SelfType DEF ThreadState
<1> HIDE DEF r
<1>3. InPass(NextRetry(r)) => PassGoesOn(NextRetry(r))
  BY <1>1, <1>2, NextRetryNames, PassWithout
<1>4. /\ GoesOn(NextRetry(r)) /\ GoesOn(AbortRetrying(self)) /\ ~InPass(AbortRetrying(self))
  BY <1>1, <1>2, SelfType, RetryingControl, NoPass
<1>5. Ordered(lists, retr, accepted, day) /\ accepted \in Nat /\ day \in Nat
  BY DEF OrderInv, DataInv, TypeOK, HistoryOK, FailQueues
<1>6. Ordered(lists', retr', accepted, day)
  <2>1. \A q \in Queues : ToSet(lists'[q]) \subseteq ToSet(lists[q]) /\ Decreasing(lists'[q])
    BY <1>1, ListOrder DEF OrderInv
  <2>2. retr' \in SUBSET retr
    BY <1>1
  <2>3. QED
    BY <1>5, <2>1, <2>2, OrderedLess
<1>7. acked' \intersect Held' = {}
  <2>1. PICK x \in retr : Named(self.name) = {x} /\ x.entries = self.batch
                          /\ \A y \in retr \ {x} : y.ts # x.ts
    BY <1>1, RetryAtHand
  <2>2. ASSUME NEW e \in acked', e \in Held'
        PROVE  FALSE
    <3>1. e \in HeldIn(lists, retr \ {x})
      BY <1>1, <2>1, <2>2 DEF Held
    <3>2. e \in Held
      BY <3>1, HeldMember DEF Held
    <3>3. e \in ToSet(x.entries)
      BY <1>1, <2>1, <2>2, <3>2 DEF OrderInv, AckedInv
    <3>4. CASE \E q \in Queues : e \in ToSet(lists[q])
      BY <1>5, <3>3, <3>4, SelfType, SnapshotTypes, OnePlace
    <3>5. CASE \E y \in retr \ {x} : e \in ToSet(y.entries)
      BY <1>5, <2>1, <3>3, <3>5, SelfType, SnapshotTypes, OnePlace
    <3>6. QED
      BY <3>1, <3>4, <3>5, HeldMember
  <2>3. QED
    BY <2>2
<1>8. Held' \subseteq Held
  BY <1>1, HeldMember DEF Held
<1>9. QED
  BY <1>1, <1>3, <1>4, <1>6, <1>7, <1>8, RetryPersist

LEMMA FailRetryOrder ==
  ASSUME TypeOK, Structure, OrderInv, FailRetry(Handler)
  PROVE  OrderInv' /\ Held' \subseteq Held
<1>1. /\ self.pc = "rfail" /\ self.op = "upload" /\ AtHand(self) /\ InPass(self)
      /\ UNCHANGED <<disk, accepted, day, delivered, acked>>
      /\ self.name.attempt + 1 >= MaxRetry
  BY DEF FailRetry, unchangedByRetry, self, Structure, ControlInv, AtHand, InPass, OrderInv, PassInv
<1>2. PICK x \in retr :
           /\ Named(self.name) = {x} /\ NameOf(x) = self.name /\ x.entries = self.batch
           /\ \A y \in retr \ {x} :
                /\ NameOf(y) \in self.names => x.ts < y.ts
                /\ NameOf(y) \notin self.names => y.ts < x.ts /\ y.attempt > x.attempt
  BY <1>1, RetryAtHand
<1>3. /\ Ordered(lists, retr, accepted, day) /\ accepted \in Nat /\ day \in FailQueues
      /\ lists \in [Queues -> Seq(Nat)] /\ retr \in SUBSET RetryQueue
      /\ x.entries \in Seq(Nat) /\ day \in Queues
  BY <1>2, SelfType, SnapshotTypes DEF OrderInv, DataInv, TypeOK, HistoryOK, RetryQueue
<1>4. /\ lists' = [lists EXCEPT ![day] = Lpush(@, x.entries)]
      /\ retr' = retr \ Named(self.name)
      /\ PersistThen(Handler, NextRetry(self), AbortRetrying(self))
  <2>1. x.entries # <<>>
    BY <1>3 DEF Ordered, InRetries
  <2>2. QED
    BY <1>2, <2>1 DEF FailRetry, self
<1>5. retr' = retr \ {x}
  BY <1>2, <1>4
<1>6. \A y \in retr' : x.ts < y.ts
  <2> SUFFICES ASSUME NEW y \in retr \ {x}, NameOf(y) \notin self.names PROVE FALSE
    BY <1>2, <1>5
  <2>1. y.attempt > x.attempt /\ x.attempt = self.name.attempt
    BY <1>2 DEF NameOf
  <2>2. y.attempt < MaxRetry
    BY <1>3 DEF Ordered, Attempts
  <2>3. y.attempt \in Nat /\ x.attempt \in Nat /\ MaxRetry \in Nat
    BY <1>3, ConstantsAssumption DEF RetryQueue
  <2>4. QED
    BY <1>1, <2>1, <2>2, <2>3
<1>7. Ordered(lists', retr', accepted, day)
  BY <1>3, <1>4, <1>5, <1>6, OrderedFail
<1>8. Held' \subseteq Held
  <2>1. ToSet(x.entries) \subseteq Held /\ \A y \in retr : ToSet(y.entries) \subseteq Held
    BY HeldMember DEF Held
  <2>2. \A q \in Queues : ToSet(lists'[q]) \subseteq ToSet(lists[q]) \union ToSet(x.entries)
    <3>1. \A q \in Queues : lists'[q] = IF q = day THEN Lpush(lists[q], x.entries) ELSE lists[q]
      BY <1>3, <1>4
    <3>2. \A q \in Queues : lists[q] \in Seq(Nat)
      BY <1>3
    <3>3. QED
      BY <1>3, <3>1, <3>2, PushedOrder
  <2>3. \A y \in retr' : ToSet(y.entries) \subseteq HeldIn(lists, retr) \union ToSet(x.entries)
    BY <1>5, <2>1 DEF Held
  <2>4. HeldIn(lists', retr') \subseteq HeldIn(lists, retr) \union ToSet(x.entries)
    BY <2>2, <2>3, HeldLess
  <2>5. QED
    BY <2>1, <2>4 DEF Held
<1>9. acked' \intersect Held' = {}
  BY <1>1, <1>8 DEF OrderInv, AckedInv
<1>10. InPass(NextRetry(self)) => PassGoesOn(NextRetry(self))
  BY <1>1, <1>4, SelfType, NextRetryNames, PassWithout
<1>11. GoesOn(NextRetry(self)) /\ GoesOn(AbortRetrying(self)) /\ ~InPass(AbortRetrying(self))
  BY <1>1, SelfType, RetryingControl, NoPass
<1>12. QED
  BY <1>1, <1>4, <1>7, <1>8, <1>9, <1>10, <1>11, RetryPersist

LEMMA BumpRetryOrder ==
  ASSUME TypeOK, Structure, OrderInv, BumpRetry(Handler)
  PROVE  OrderInv' /\ Held' \subseteq Held
<1>1. /\ self.pc = "rbump" /\ self.op = "upload" /\ AtHand(self) /\ InPass(self)
      /\ UNCHANGED <<lists, disk, accepted, day, delivered, acked>>
      /\ self.name.attempt + 1 < MaxRetry
  BY DEF BumpRetry, unchangedByRetry, self, Structure, ControlInv, AtHand, InPass, OrderInv, PassInv
<1>2. PICK x \in retr :
           /\ Named(self.name) = {x} /\ NameOf(x) = self.name
           /\ \A n \in self.names : n \in Name /\ n # self.name /\ self.name.ts < n.ts
           /\ \A n \in self.names : \E y \in retr \ {x} : NameOf(y) = n
           /\ \A y \in retr \ {x} :
                /\ y.ts # x.ts /\ NameOf(y) # self.name
                /\ NameOf(y) \in self.names => x.ts < y.ts
                /\ NameOf(y) \notin self.names => y.ts < x.ts /\ y.attempt > x.attempt
           /\ \A y, z \in retr \ {x} : NameOf(y) \notin self.names /\ NameOf(z) \in self.names =>
                y.ts < z.ts /\ y.attempt > z.attempt
  BY <1>1, RetryAtHand
<1> DEFINE b == [x EXCEPT !.attempt = @ + 1]
<1>3. /\ retr' = (retr \ {x}) \union {b}
      /\ PersistThen(Handler, NextRetry(self), AbortRetrying(self))
  <2>1. {[z EXCEPT !.attempt = @ + 1] : z \in Named(self.name)} = {b}
    BY <1>2
  <2>2. retr' = (retr \ Named(self.name)) \union {[z EXCEPT !.attempt = @ + 1] : z \in Named(self.name)}
    BY DEF BumpRetry, self
  <2>3. PersistThen(Handler, NextRetry(self), AbortRetrying(self))
    <3>1. Named(self.name) # {}
      BY <1>2
    <3>2. QED
      BY <3>1 DEF BumpRetry, self
  <2>4. QED
    BY <1>2, <2>1, <2>2, <2>3
<1>4. /\ x \in RetryQueue /\ x.ts \in Nat /\ x.attempt \in Nat
      /\ b.ts = x.ts /\ b.attempt = x.attempt + 1 /\ b.entries = x.entries
      /\ x.ts = self.name.ts /\ x.attempt = self.name.attempt
  BY <1>2, SnapshotTypes DEF RetryQueue, NameOf
<1>5. /\ Ordered(lists, retr, accepted, day) /\ retr \in SUBSET RetryQueue
      /\ \A y \in retr : y.ts \in Nat /\ y.attempt \in Nat
  BY SnapshotTypes DEF OrderInv, DataInv, RetryQueue
<1>6. Ordered(lists', retr', accepted, day)
  <2>1. b.attempt < MaxRetry
    BY <1>1, <1>4
  <2>2. \A z \in retr : z.ts = x.ts => z = x
    BY <1>2
  <2>3. \A z \in retr : z.ts < x.ts => z.attempt > x.attempt
    <3> SUFFICES ASSUME NEW z \in retr, z.ts < x.ts, NameOf(z) \in self.names, z # x PROVE FALSE
      BY <1>2, <1>4
    <3>1. x.ts < z.ts /\ z.ts \in Nat
      BY <1>2, <1>5
    <3>2. QED
      BY <1>4, <3>1
  <2>4. Ordered(lists, retr', accepted, day)
    BY <1>3, <1>5, <2>1, <2>2, <2>3, OrderedBump
  <2>5. QED
    BY <1>1, <2>4
<1> HIDE DEF b
<1>7. Held' \subseteq Held
  <2>1. \A y \in retr' : \E z \in retr : y.entries = z.entries
    BY <1>3, <1>4
  <2>2. \A y \in retr' : ToSet(y.entries) \subseteq HeldIn(lists, retr) \union {}
    BY <2>1, HeldMember
  <2>3. \A q \in Queues : ToSet(lists'[q]) \subseteq ToSet(lists[q]) \union {}
    BY <1>1
  <2>4. HeldIn(lists', retr') \subseteq HeldIn(lists, retr) \union {}
    BY <2>2, <2>3, HeldLess
  <2>5. QED
    BY <2>4 DEF Held
<1>8. acked' \intersect Held' = {}
  BY <1>1, <1>7 DEF OrderInv, AckedInv
<1>9. InPass(NextRetry(self)) => PassGoesOn(NextRetry(self))
  <2> SUFFICES ASSUME InPass(NextRetry(self)) PROVE PassGoesOn(NextRetry(self))
    OBVIOUS
  <2>1. NextRetry(self).names = self.names
    BY <1>1, SelfType, NextRetryNames
  <2>2. \A n \in self.names : \E y \in retr' : NameOf(y) = n
    BY <1>2, <1>3
  <2>3. NameOf(b) \notin self.names
    BY <1>2, <1>4 DEF NameOf
  <2>4. ASSUME NEW y \in retr', NEW z \in retr', NameOf(y) \notin self.names, NameOf(z) \in self.names
        PROVE  y.ts < z.ts /\ y.attempt > z.attempt
    <3>1. z \in retr \ {x} /\ x.ts < z.ts
      BY <1>2, <1>3, <2>3, <2>4
    <3>2. CASE y = b
      <4>1. x.attempt >= z.attempt /\ z.attempt \in Nat
        BY <1>5, <3>1 DEF Ordered, Attempts
      <4>2. QED
        BY <1>4, <3>1, <3>2, <4>1
    <3>3. CASE y \in retr \ {x}
      BY <1>2, <2>4, <3>1, <3>3
    <3>4. QED
      BY <1>3, <3>2, <3>3
  <2>5. QED
    BY <2>1, <2>2, <2>4 DEF PassGoesOn
<1>10. GoesOn(NextRetry(self)) /\ GoesOn(AbortRetrying(self)) /\ ~InPass(AbortRetrying(self))
  BY <1>1, SelfType, RetryingControl, NoPass
<1>11. QED
  BY <1>1, <1>3, <1>6, <1>7, <1>8, <1>9, <1>10, RetryPersist

-----------------------------------------------------------------------------
(* The other steps keep the order.                                         *)

LEMMA BeginOrder ==
  ASSUME TypeOK, Structure, OrderInv, StartUpload(Handler) \/ NextFailQueue(Handler)
  PROVE  OrderInv'
<1>1. /\ self.pc \in {"idle", "fnext"} /\ (self.pc = "fnext" => self.op = "upload")
      /\ UNCHANGED <<lists, retr, saving, disk, accepted, day, delivered, acked>>
      /\ Held' = Held /\ Entries' = Entries /\ DataInv'
      /\ acked' \intersect Held' = {} /\ delivered' \subseteq Entries'
  BY QuietData DEF StartUpload, NextFailQueue, self, unchangedByControl, Structure, ControlInv,
     Held, Entries, OrderInv, AckedInv
<1>2. ASSUME NEW r, Proceed(Handler, r), GoesOn(r), ~InPass(r)
      PROVE  OrderInv'
  BY <1>1, <1>2, GoesOnOrder DEF OrderInv
<1>3. CASE StartUpload(Handler)
  <2> DEFINE r == [Idle EXCEPT !.op = "upload"]
             f == [r EXCEPT !.queues = {q \in FailQueues : lists[q] # <<>>}]
  <2>1. Proceed(Handler, IF first THEN NextFailing(f) ELSE LeaveFailing(r))
    BY <1>3 DEF StartUpload, ListFailing
  <2>2. r \in ThreadState /\ r.op = "upload" /\ f \in ThreadState /\ f.op = "upload"
    BY IdleType DEF ThreadState
  <2> HIDE DEF r, f
  <2>3. /\ GoesOn(LeaveFailing(r)) /\ GoesOn(NextFailing(f))
        /\ ~InPass(LeaveFailing(r)) /\ ~InPass(NextFailing(f))
    BY <2>2, FailingControl, NoPass
  <2>4. QED
    BY <1>2, <2>1, <2>3
<1>4. CASE NextFailQueue(Handler)
  <2>1. PICK q \in self.queues :
          Proceed(Handler, [self EXCEPT !.pc = "fetch", !.queue = q, !.queues = @ \ {q}])
    BY <1>4 DEF NextFailQueue, self
  <2> DEFINE r == [self EXCEPT !.pc = "fetch", !.queue = q, !.queues = @ \ {q}]
  <2>2. self.pc = "fnext" /\ self.op = "upload"
    BY <1>1, <1>4 DEF NextFailQueue, self
  <2>3. r.pc = "fetch" /\ r.op = "upload"
    BY <2>2, SelfType DEF ThreadState
  <2>4. GoesOn(r) /\ ~InPass(r)
    BY <2>3 DEF GoesOn, Settled, InPass
  <2> HIDE DEF r
  <2>5. QED
    BY <1>2, <2>1, <2>4 DEF r
<1>5. QED
  BY <1>3, <1>4

(* Steps of others, while the handler and its pass stay where they are. *)
LEMMA BesideOrder ==
  ASSUME TypeOK, OrderInv, DataInv', UNCHANGED <<th, retr, delivered, acked>>,
         accepted' \in Nat, accepted <= accepted',
         acked \intersect Held' \subseteq Held,
         self.pc \in {"post", "trim", "transfer"} /\ self.queue # PENDING_QUEUE
           /\ lists'[self.queue] = <<>> => ToSet(self.batch) \intersect Held' = {}
  PROVE  OrderInv'
<1>1. self' = self /\ Entries \subseteq Entries'
  BY DEF self, TypeOK, HistoryOK, Entries
<1>2. BatchOrder'
  BY <1>1 DEF OrderInv, BatchOrder
<1>3. AckedInv'
  BY <1>1 DEF OrderInv, AckedInv
<1>4. PassInv'
  BY <1>1 DEF OrderInv, PassInv, Named, NameOf, Left, InPass, AtHand
<1>5. QED
  BY <1>2, <1>3, <1>4 DEF OrderInv

LEMMA EnqueueOrder ==
  ASSUME TypeOK, Structure, OrderInv, Enqueue
  PROVE  OrderInv'
<1>1. /\ UNCHANGED <<retr, saving, disk, th, day, delivered, acked>>
      /\ lists' = [lists EXCEPT ![PENDING_QUEUE] = Lpush(@, <<accepted + 1>>)]
      /\ accepted' = accepted + 1 /\ accepted \in Nat /\ accepted' \in Nat
      /\ accepted <= accepted' /\ day \in FailQueues /\ day \in Nat /\ day <= day
  BY DEF Enqueue, TypeOK, HistoryOK, FailQueues
<1>2. Ordered(lists', retr', accepted', day')
  <2>1. Ordered(lists, retr, accepted, day)
    BY DEF OrderInv, DataInv
  <2>2. QED
    BY <1>1, <2>1, SelfType, OrderedEnqueue
<1>3. DataInv'
  BY <1>1, <1>2, DataStep DEF OrderInv
<1>4. Held' \subseteq Held \union {accepted + 1}
  <2>1. /\ \A q \in Queues : lists'[q] = IF q = PENDING_QUEUE THEN Lpush(lists[q], <<accepted + 1>>)
                                         ELSE lists[q]
        /\ \A q \in Queues : lists[q] \in Seq(Nat)
    BY <1>1, SelfType
  <2>2. <<accepted + 1>> \in Seq(Nat) /\ ToSet(<<accepted + 1>>) = {accepted + 1}
    <3>1. DOMAIN <<accepted + 1>> = {1} /\ <<accepted + 1>>[1] = accepted + 1
      OBVIOUS
    <3>2. QED
      BY <1>1, <3>1 DEF ToSet
  <2>3. \A q \in Queues : ToSet(lists'[q]) \subseteq ToSet(lists[q]) \union {accepted + 1}
    <3> DEFINE s == <<accepted + 1>>
    <3> HIDE DEF s
    <3>1. s \in Seq(Nat) /\ ToSet(s) = {accepted + 1}
      BY <2>2 DEF s
    <3>2. \A l \in Seq(Nat) : ToSet(Lpush(l, s)) = ToSet(l) \union {accepted + 1}
      BY <3>1, PushedOrder
    <3>3. \A q \in Queues : lists'[q] = IF q = PENDING_QUEUE THEN Lpush(lists[q], s) ELSE lists[q]
      BY <2>1 DEF s
    <3>4. QED
      BY <2>1, <3>2, <3>3
  <2>4. \A x \in retr' : ToSet(x.entries) \subseteq HeldIn(lists, retr) \union {accepted + 1}
    BY <1>1, HeldMember
  <2>5. HeldIn(lists', retr') \subseteq HeldIn(lists, retr) \union {accepted + 1}
    BY <2>3, <2>4, HeldLess
  <2>6. QED
    BY <2>5 DEF Held
<1>5. accepted + 1 \notin Entries
  BY <1>1 DEF Entries
<1>6. acked \intersect Held' \subseteq Held
  BY <1>4, <1>5 DEF OrderInv, AckedInv, TypeOK, HistoryOK
<1>7. self.pc \in {"post", "trim", "transfer"} /\ self.queue # PENDING_QUEUE
           /\ lists'[self.queue] = <<>> => ToSet(self.batch) \intersect Held' = {}
  <2>1. self.queue # PENDING_QUEUE => lists'[self.queue] = lists[self.queue]
    BY <1>1, SelfType
  <2>2. QED
    BY <1>4, <1>5, <2>1 DEF OrderInv, BatchOrder
<1>8. QED
  BY <1>1, <1>3, <1>6, <1>7, BesideOrder

LEMMA ExpireOrder ==
  ASSUME TypeOK, Structure, OrderInv, NEW q \in FailQueues, Expire(q)
  PROVE  OrderInv' /\ Held' = Held \ ToSet(lists[q])
<1>1. /\ UNCHANGED <<retr, saving, disk, th, accepted, day, delivered, acked>>
      /\ lists' = [lists EXCEPT ![q] = <<>>] /\ q \in Queues /\ q # PENDING_QUEUE
      /\ lists[q] # <<>>
      /\ accepted \in Nat /\ accepted <= accepted /\ day \in FailQueues /\ day \in Nat /\ day <= day
  BY QueueTypes DEF Expire, TypeOK, HistoryOK, FailQueues, PENDING_QUEUE
<1>2. lists'[q] = <<>> /\ \A p \in Queues : p # q => lists'[p] = lists[p]
  BY <1>1, SelfType
<1>3. \A p \in Queues : ToSet(lists'[p]) \subseteq ToSet(lists[p]) /\ Decreasing(lists'[p])
  BY <1>1, <1>2, EmptySet, ListOrder DEF OrderInv
<1>4. Ordered(lists, retr, accepted, day)
  BY DEF OrderInv, DataInv
<1>5. DataInv'
  <2>1. Ordered(lists', retr', accepted', day')
    BY <1>1, <1>3, <1>4, OrderedLess
  <2>2. QED
    BY <1>1, <2>1, DataStep DEF OrderInv
<1>6. Held' = Held \ ToSet(lists[q])
  <2>1. ASSUME NEW e \in Held, e \notin ToSet(lists[q])
        PROVE  e \in Held'
    <3>1. CASE \E p \in Queues : e \in ToSet(lists[p])
      <4>1. \E p \in Queues : e \in ToSet(lists'[p])
        BY <1>2, <2>1, <3>1
      <4>2. QED
        BY <4>1, HeldMember DEF Held
    <3>2. CASE \E x \in retr : e \in ToSet(x.entries)
      BY <1>1, <3>2, HeldMember DEF Held
    <3>3. QED
      BY <2>1, <3>1, <3>2, HeldMember DEF Held
  <2>2. ASSUME NEW e \in Held'
        PROVE  e \in Held /\ e \notin ToSet(lists[q])
    <3>1. e \in HeldIn(lists', retr')
      BY <2>2 DEF Held
    <3>2. CASE \E p \in Queues : e \in ToSet(lists'[p])
      <4>1. PICK p \in Queues : e \in ToSet(lists'[p])
        BY <3>2
      <4>2. p # q /\ e \in ToSet(lists[p])
        BY <1>2, <4>1, EmptySet
      <4>3. e \notin ToSet(lists[q])
        BY <1>1, <1>4, <4>2, SelfType, SnapshotTypes, OnePlace
      <4>4. QED
        BY <4>2, <4>3, HeldMember DEF Held
    <3>3. CASE \E x \in retr : e \in ToSet(x.entries)
      <4>1. e \notin ToSet(lists[q])
        BY <1>1, <1>4, <3>3, SelfType, SnapshotTypes, OnePlace
      <4>2. QED
        BY <3>3, <4>1, HeldMember DEF Held
    <3>4. QED
      BY <1>1, <3>1, <3>2, <3>3, HeldMember
  <2>3. QED
    BY <2>1, <2>2
<1>7. self.pc \in {"post", "trim", "transfer"} /\ self.queue # PENDING_QUEUE
           /\ lists'[self.queue] = <<>> => ToSet(self.batch) \intersect Held' = {}
  <2> SUFFICES ASSUME self.pc \in {"post", "trim", "transfer"}, self.queue # PENDING_QUEUE,
                      lists'[self.queue] = <<>>
               PROVE  ToSet(self.batch) \intersect Held' = {}
    OBVIOUS
  <2>1. CASE self.queue = q
    <3>1. EndOf(self.batch, lists[q])
      BY <1>1, <2>1 DEF Structure, BatchInv
    <3>2. ToSet(self.batch) \subseteq ToSet(lists[q])
      BY <1>1, <3>1, SelfType, EndOrder
    <3>3. QED
      BY <1>6, <3>2
  <2>2. CASE self.queue # q
    <3>1. lists[self.queue] = <<>>
      BY <1>2, <2>2, SelfType
    <3>2. QED
      BY <1>6, <3>1 DEF OrderInv, BatchOrder
  <2>3. QED
    BY <2>1, <2>2
<1>8. QED
  BY <1>1, <1>5, <1>6, <1>7, BesideOrder

LEMMA SaveOrder ==
  ASSUME TypeOK, OrderInv, AutoSave \/ SaveDone \/ NewDay \/ UNCHANGED vars
  PROVE  OrderInv'
<1>1. /\ UNCHANGED <<lists, retr, th, accepted, delivered, acked>>
      /\ accepted \in Nat /\ accepted <= accepted /\ Held' = Held
      /\ day \in FailQueues /\ day <= day
  BY DEF AutoSave, SaveDone, NewDay, vars, TypeOK, HistoryOK, FailQueues, Held
<1>2. DataInv'
  <2>1. CASE AutoSave \/ UNCHANGED vars
    <3>1. /\ saving' = saving \/ saving' = [lists |-> lists', retr |-> retr']
          /\ UNCHANGED <<disk, day>>
      BY <2>1 DEF AutoSave, vars
    <3>2. Ordered(lists', retr', accepted', day')
      BY <1>1, <3>1 DEF OrderInv, DataInv
    <3>3. QED
      BY <1>1, <3>1, <3>2, DataStep DEF OrderInv
  <2>2. CASE SaveDone
    <3>1. UNCHANGED day /\ disk' = saving /\ saving # NoSave /\ saving' = NoSave
      BY <2>2 DEF SaveDone
    <3>2. NoSave' = NoSave
      BY DEF NoSave
    <3>3. QED
      BY <1>1, <3>1, <3>2 DEF OrderInv, DataInv
  <2>3. CASE NewDay
    <3>1. day' = day + 1 /\ day < MaxDay /\ UNCHANGED <<saving, disk>>
      BY <2>3 DEF NewDay
    <3>2. day' \in FailQueues /\ day <= day' /\ day \in Nat /\ day' \in Nat
      BY <1>1, <3>1, ConstantsAssumption DEF FailQueues
    <3>3. Ordered(lists, retr, accepted, day')
      BY <1>1, <3>2, OrderedLater DEF OrderInv, DataInv
    <3>4. QED
      BY <1>1, <3>1, <3>2, <3>3, DataStep DEF OrderInv
  <2>4. QED
    BY <2>1, <2>2, <2>3
<1>3. self' = self
  BY <1>1 DEF self
<1>4. QED
  BY <1>1, <1>2, BesideOrder DEF OrderInv, BatchOrder

LEMMA ServiceGoneOrder ==
  ASSUME TypeOK, OrderInv, Restart \/ PowerLoss
  PROVE  OrderInv'
<1>1. /\ th' = [t \in Threads |-> Idle] /\ acked' = acked \ Held'
      /\ UNCHANGED <<disk, accepted, day, delivered>>
      /\ \/ UNCHANGED <<lists, retr, saving>>
         \/ lists' = disk.lists /\ retr' = disk.retr /\ saving' = NoSave
  BY DEF Restart, PowerLoss, ServiceGone, Held
<1>2. self'.pc = "idle"
  BY <1>1, ConstantsAssumption, IdleFields DEF self
<1>3. PassInv' /\ BatchOrder'
  BY <1>2 DEF PassInv, BatchOrder, InPass
<1>4. AckedInv'
  BY <1>1, <1>2 DEF OrderInv, AckedInv, Entries
<1>5. DataInv'
  <2>1. CASE UNCHANGED <<lists, retr, saving>>
    BY <1>1, <2>1, QuietData DEF OrderInv
  <2>2. CASE lists' = disk.lists /\ retr' = disk.retr /\ saving' = NoSave
    <3>1. NoSave' = NoSave
      BY DEF NoSave
    <3>2. QED
      BY <1>1, <2>2, <3>1 DEF OrderInv, DataInv
  <2>3. QED
    BY <1>1, <2>1, <2>2
<1>6. QED
  BY <1>3, <1>4, <1>5 DEF OrderInv

LEMMA OrderStep ==
  ASSUME Alone, TypeOK, Structure, OrderInv, [Next]_vars
  PROVE  OrderInv'
<1>1. CASE Run(Handler)
  BY <1>1, BeginOrder, FetchBatchOrder, PostBatchOrder, TrimBatchOrder, TransferBatchOrder,
     ListRetryingOrder, FetchRetryOrder, PostRetryOrder, DeleteRetryOrder, FailRetryOrder,
     BumpRetryOrder DEF Run
<1>2. QED
  BY <1>1, AloneSteps, BeginOrder, EnqueueOrder, ExpireOrder, SaveOrder, ServiceGoneOrder

LEMMA OrderInit ==
  ASSUME Init
  PROVE  OrderInv
<1>1. /\ lists = [q \in Queues |-> <<>>] /\ retr = {} /\ saving = NoSave
      /\ disk = [lists |-> [q \in Queues |-> <<>>], retr |-> {}]
      /\ delivered = {} /\ acked = {} /\ self.pc = "idle"
  BY ConstantsAssumption, IdleFields DEF Init, self
<1>2. ASSUME NEW l, l = [q \in Queues |-> <<>>] PROVE Ordered(l, {}, accepted, day)
  <2>1. \A q \in Queues : l[q] = <<>>
    BY <1>2
  <2>2. InLists(l, accepted, day)
    BY <2>1, EmptySet, QueueTypes DEF InLists, Older
  <2>3. QED
    BY <2>2 DEF Ordered, InRetries, Between, Attempts
<1>3. DataInv
  BY <1>1, <1>2 DEF DataInv
<1>4. PassInv /\ BatchOrder /\ AckedInv
  BY <1>1 DEF PassInv, BatchOrder, AckedInv, InPass
<1>5. QED
  BY <1>3, <1>4 DEF OrderInv

-----------------------------------------------------------------------------
(* What the order is for.                                                  *)

(* The invariant of the handler when it is alone. *)
LEMMA OrderAlways ==
  ASSUME Alone
  PROVE  Spec => [](TypeOK /\ NoLossInv /\ OrderInv)
<1>1. Init => NoLossInv /\ OrderInv
  BY NoLossInit, OrderInit
<1>2. TypeOK /\ NoLossInv /\ OrderInv /\ [Next]_vars => NoLossInv' /\ OrderInv'
  BY NoLossStep, OrderStep DEF NoLossInv
<1>3. QED
  BY <1>1, <1>2, TypeCorrect, PTL DEF Spec

(* Every payload lists its entries in the order they were logged, after    *)
(* any number of transfers, failures, restarts and restored snapshots.     *)
THEOREM PostsAreChronological ==
  ASSUME Alone
  PROVE  Spec => []PayloadsChronological
<1>1. TypeOK /\ NoLossInv /\ OrderInv => PayloadsChronological
  <2> SUFFICES ASSUME TypeOK, NoLossInv, OrderInv
               PROVE  /\ self.pc = "post" => Increasing(Payload(self.batch))
                      /\ self.pc = "rpost" => Increasing(self.batch)
    BY DEF PayloadsChronological, Alone, self
  <2>1. CASE self.pc = "post"
    BY <2>1, SelfType, ReverseOrder DEF OrderInv, BatchOrder, Payload
  <2>2. CASE self.pc = "rpost"
    <3>1. PICK x \in retr : x.entries = self.batch
      BY <2>2, RetryAtHand DEF AtHand, NoLossInv
    <3>2. QED
      BY <2>2, <3>1 DEF OrderInv, DataInv, Ordered, InRetries
  <2>3. QED
    BY <2>1, <2>2
<1>2. QED
  BY <1>1, OrderAlways, PTL

(* No batch is posted that the device knows to be delivered: what it knows *)
(* of is removed before the next POST, whatever became of its list.        *)
THEOREM PostsAreNew ==
  ASSUME Alone
  PROVE  Spec => []NoNeedlessResend
<1>1. OrderInv => NoNeedlessResend
  BY DEF OrderInv, AckedInv, NoNeedlessResend, Alone, self
<1>2. QED
  BY <1>1, OrderAlways, PTL

(* A retry queue fails before its last attempt is counted, and never is a  *)
(* newer one ahead of an older one, although a pass may end after any of   *)
(* them and a snapshot may bring back those of an earlier pass.            *)
THEOREM RetriesInTurn ==
  ASSUME Alone
  PROVE  Spec => []AttemptsOrdered
<1>1. OrderInv => AttemptsOrdered
  BY DEF OrderInv, DataInv, Ordered, Attempts, AttemptsOrdered
<1>2. QED
  BY <1>1, OrderAlways, PTL

-----------------------------------------------------------------------------
(* The number of retry queues.                                             *)

(* upload_pending is at work: is_overrun let it begin. *)
Pending(r) == r.pc \in {"fetch", "post", "trim", "transfer"} /\ r.queue = PENDING_QUEUE

LEMMA BoundStep ==
  ASSUME TypeOK, BoundInv, NEW r, Proceed(Handler, r), UNCHANGED disk,
         saving' = saving \/ saving' = [lists |-> lists', retr |-> retr'],
         Cardinality(retr') <= RetryQueueLimit,
         InPass(r) => Cardinality(retr') <= r.remaining,
         Pending(r) => Cardinality(retr') < RetryQueueLimit
  PROVE  BoundInv'
<1>1. self' = r
  BY SelfProceed DEF TypeOK
<1>2. saving'.retr \in {saving.retr, retr'}
  OBVIOUS
<1>3. \A s \in {retr, disk.retr, saving.retr}' : Cardinality(s) <= RetryQueueLimit
  BY <1>2 DEF BoundInv
<1>4. QED
  BY <1>1, <1>3 DEF BoundInv, InPass, Pending

(* The retry queues stay, and the handler enters neither phase. *)
LEMMA BoundQuiet ==
  ASSUME TypeOK, BoundInv, NEW r, Proceed(Handler, r), UNCHANGED <<retr, disk, saving>>,
         InPass(r) => InPass(self) /\ r.remaining = self.remaining,
         Pending(r) => Pending(self)
  PROVE  BoundInv'
  BY BoundStep DEF BoundInv, Pending

(* How a batch goes on, and a pass. *)
LEMMA BoundControl ==
  ASSUME NEW r \in ThreadState, r.op = "upload"
  PROVE  /\ Pending(NextBatch(r)) => r.queue = PENDING_QUEUE
         /\ ~Pending(LeaveFailing(r)) /\ ~Pending(NextFailing(r))
         /\ ~Pending(BatchesDone(r)) /\ ~Pending(BatchesFailed(r))
         /\ Pending(LeaveRetrying(r)) => r.remaining < RetryQueueLimit
         /\ Pending(NextRetry(r)) => r.remaining < RetryQueueLimit
         /\ InPass(NextRetry(r)) => NextRetry(r).remaining = r.remaining
<1>1. ~Pending(Idle)
  BY IdleFields DEF Pending
<1>2. /\ LeaveFailing(r).pc = "rlist" /\ NextBatch(r).queue = r.queue
      /\ [NextBatch(r) EXCEPT !.pc = "fnext"].pc = "fnext"
  <2>1. LeaveFailing(r).pc = "rlist"
    BY DEF LeaveFailing, Idle
  <2>2. NextBatch(r).queue = r.queue
    BY DEF NextBatch, ThreadState
  <2>3. NextBatch(r) \in ThreadState
    BY ControlTypes
  <2>4. [NextBatch(r) EXCEPT !.pc = "fnext"].pc = "fnext"
    BY <2>3 DEF ThreadState
  <2>5. QED
    BY <2>1, <2>2, <2>4
<1>3. ~Pending(NextFailing(r)) /\ ~Pending(LeaveFailing(r))
  <2>1. ~Pending(LeaveFailing(r)) /\ ~Pending([NextBatch(r) EXCEPT !.pc = "fnext"])
    BY <1>2 DEF Pending
  <2>2. NextFailing(r) \in {LeaveFailing(r), [NextBatch(r) EXCEPT !.pc = "fnext"]}
    BY DEF NextFailing
  <2>3. QED
    BY <2>1, <2>2
<1>4. Pending(LeaveRetrying(r)) => r.remaining < RetryQueueLimit
  <2>1. r.remaining \in Int /\ RetryQueueLimit \in Nat
    BY ConstantsAssumption DEF ThreadState
  <2>2. QED
    BY <1>1, <2>1 DEF LeaveRetrying
<1>5. [r EXCEPT !.pc = "rfetch", !.name = NoName, !.batch = <<>>].pc = "rfetch"
  BY DEF ThreadState
<1>6. Pending(NextRetry(r)) => r.remaining < RetryQueueLimit
  BY <1>4, <1>5 DEF NextRetry, Pending
<1>7. InPass(NextRetry(r)) => NextRetry(r).remaining = r.remaining
  BY NoPass DEF NextRetry, ThreadState
<1>8. QED
  BY <1>1, <1>2, <1>3, <1>4, <1>6, <1>7 DEF BatchesDone, BatchesFailed, Pending

(* The retry queues are finitely many, and without one they are one less.  *)
LEMMA RetryCount ==
  ASSUME TypeOK
  PROVE  /\ IsFiniteSet(retr) /\ Cardinality(retr) \in Nat
         /\ \A x \in retr : IsFiniteSet(retr \ {x}) /\ Cardinality(retr \ {x}) = Cardinality(retr) - 1
         /\ \A x : Cardinality(retr \union {x}) <= Cardinality(retr) + 1
<1>1. IsFiniteSet(retr)
  BY DEF TypeOK, RedisOK
<1>2. Cardinality(retr) \in Nat
  BY <1>1, FS_CardinalityType
<1>3. \A x \in retr : IsFiniteSet(retr \ {x}) /\ Cardinality(retr \ {x}) = Cardinality(retr) - 1
  BY <1>1, FS_RemoveElement
<1>4. \A x : Cardinality(retr \union {x}) <= Cardinality(retr) + 1
  BY <1>1, <1>2, FS_AddElement
<1>5. QED
  BY <1>1, <1>2, <1>3, <1>4

LEMMA BatchBound ==
  ASSUME TypeOK, Structure, OrderInv, BoundInv, ~BgsaveBusy,
         \/ FetchBatch(Handler) \/ PostBatchOk(Handler) \/ PostBatchUnanswered(Handler)
         \/ PostBatchRejected(Handler) \/ TrimBatch(Handler) \/ TransferBatch(Handler)
  PROVE  BoundInv'
<1>1. self.op = "upload" /\ self.pc \in {"fetch", "post", "trim", "transfer"} /\ self \in ThreadState
  BY SelfType DEF FetchBatch, PostBatchOk, PostBatchUnanswered, PostBatchRejected, TrimBatch,
     TransferBatch, self, Structure, ControlInv
<1>2. ASSUME NEW p \in {"post", "trim", "transfer"}, NEW b \in Seq(Nat), NEW c \in BOOLEAN,
             Proceed(Handler, [self EXCEPT !.pc = p, !.batch = b, !.cached = c]),
             UNCHANGED <<retr, disk, saving>>
      PROVE  BoundInv'
  <2> DEFINE r == [self EXCEPT !.pc = p, !.batch = b, !.cached = c]
  <2>1. r.pc = p /\ r.queue = self.queue
    BY <1>1 DEF ThreadState
  <2> HIDE DEF r
  <2>2. ~InPass(r) /\ (Pending(r) => Pending(self))
    BY <1>1, <2>1 DEF InPass, Pending
  <2>3. QED
    BY <1>2, <2>2, BoundQuiet DEF r
<1>3. CASE FetchBatch(Handler)
  <2> DEFINE new == Lrange(lists[self.queue], MaxBatch)
  <2>1. UNCHANGED <<retr, disk, saving>>
    BY <1>3 DEF FetchBatch, unchangedByControl
  <2>2. CASE Proceed(Handler, BatchesDone(self))
    BY <1>1, <2>1, <2>2, BoundControl, NoPass, BoundQuiet
  <2>3. CASE Proceed(Handler, [self EXCEPT !.pc = "post", !.batch = cache[self.queue], !.cached = TRUE])
    BY <1>2, <2>1, <2>3, SelfType
  <2>4. CASE Proceed(Handler, [self EXCEPT !.pc = "post", !.batch = new])
    <3>1. new \in Seq(Nat) /\ self.cached \in BOOLEAN
      BY <1>1, SelfType, ListTypes, ConstantsAssumption DEF ThreadState
    <3>2. [self EXCEPT !.pc = "post", !.batch = new]
            = [self EXCEPT !.pc = "post", !.batch = new, !.cached = self.cached]
      BY <1>1 DEF ThreadState
    <3>3. QED
      BY <1>2, <2>1, <2>4, <3>1, <3>2
  <2>5. QED
    BY <1>3, <2>2, <2>3, <2>4 DEF FetchBatch, self
<1>4. ASSUME NEW p \in {"trim", "transfer"}, Proceed(Handler, [self EXCEPT !.pc = p]),
             UNCHANGED <<retr, disk, saving>>
      PROVE  BoundInv'
  <2>1. self.batch \in Seq(Nat) /\ self.cached \in BOOLEAN
    BY SelfType DEF ThreadState
  <2>2. [self EXCEPT !.pc = p] = [self EXCEPT !.pc = p, !.batch = self.batch, !.cached = self.cached]
    BY <1>1 DEF ThreadState
  <2>3. QED
    BY <1>2, <1>4, <2>1, <2>2
<1>5. CASE PostBatchOk(Handler)
  BY <1>4, <1>5 DEF PostBatchOk, unchangedByPost, self
<1>6. CASE PostBatchUnanswered(Handler) \/ PostBatchRejected(Handler)
  <2>1. UNCHANGED <<retr, disk, saving>>
    BY <1>6 DEF PostBatchUnanswered, PostBatchRejected, unchangedByPost
  <2>2. Proceed(Handler, BatchesFailed(self)) \/ Proceed(Handler, [self EXCEPT !.pc = "transfer"])
    BY <1>6 DEF PostBatchUnanswered, PostBatchRejected, self
  <2>3. QED
    BY <1>1, <1>4, <2>1, <2>2, BoundControl, NoPass, BoundQuiet
<1>7. CASE TrimBatch(Handler)
  <2> DEFINE ok == IF Len(self.batch) = MaxBatch \/ self.cached
                   THEN NextBatch(self) ELSE BatchesDone(self)
  <2>1. /\ self.pc = "trim" /\ Proceed(Handler, ok) /\ UNCHANGED <<retr, disk>>
        /\ saving' = [lists |-> lists', retr |-> retr']
    BY <1>7 DEF TrimBatch, PersistThen, self
  <2>2. ~InPass(ok) /\ (Pending(ok) => Pending(self))
    BY <1>1, <2>1, BoundControl, NoPass DEF Pending
  <2> HIDE DEF ok
  <2>3. QED
    BY <2>1, <2>2, BoundStep DEF BoundInv, Pending
<1>8. CASE TransferBatch(Handler)
  <2>1. /\ self.pc = "transfer" /\ self.queue = PENDING_QUEUE
        /\ Proceed(Handler, BatchesFailed(self)) /\ UNCHANGED disk
        /\ saving' = [lists |-> lists', retr |-> retr']
        /\ \E x : retr' = retr \union {x}
    BY <1>8 DEF TransferBatch, PersistThen, self, Structure, ControlInv
  <2>2. Cardinality(retr) + 1 <= RetryQueueLimit /\ Cardinality(retr) \in Nat
    BY <2>1, RetryCount, ConstantsAssumption DEF BoundInv
  <2>3. Cardinality(retr') <= Cardinality(retr) + 1 /\ Cardinality(retr') \in Nat
    BY <2>1, RetryCount, FS_AddElement, FS_CardinalityType
  <2>4. Cardinality(retr') <= RetryQueueLimit
    BY <2>2, <2>3, ConstantsAssumption
  <2>5. QED
    BY <1>1, <2>1, <2>4, BoundControl, NoPass, BoundStep
<1>9. QED
  BY <1>3, <1>5, <1>6, <1>7, <1>8

LEMMA RetryBound ==
  ASSUME TypeOK, Structure, OrderInv, BoundInv, ~BgsaveBusy,
         \/ ListRetrying(Handler) \/ FetchRetry(Handler) \/ PostRetryOk(Handler)
         \/ PostRetryUnanswered(Handler) \/ PostRetryRejected(Handler)
         \/ DeleteRetry(Handler) \/ FailRetry(Handler) \/ BumpRetry(Handler)
  PROVE  BoundInv'
<1>1. self.op = "upload" /\ self \in ThreadState
  BY SelfType DEF ListRetrying, FetchRetry, PostRetryOk, PostRetryUnanswered, PostRetryRejected,
     DeleteRetry, FailRetry, BumpRetry, self, Structure, ControlInv
<1>2. Cardinality(retr) \in Nat /\ Cardinality(retr) <= RetryQueueLimit /\ RetryQueueLimit \in Nat
      /\ self.remaining \in Int
  BY <1>1, RetryCount, ConstantsAssumption DEF BoundInv, ThreadState
<1>3. ASSUME NEW r \in ThreadState, r.op = "upload", Proceed(Handler, NextRetry(r)), UNCHANGED disk,
             saving' = saving \/ saving' = [lists |-> lists', retr |-> retr'],
             Cardinality(retr') \in Nat, Cardinality(retr') <= RetryQueueLimit,
             Cardinality(retr') <= r.remaining
      PROVE  BoundInv'
  <2>1. r.remaining \in Int
    BY DEF ThreadState
  <2>2. Pending(NextRetry(r)) => Cardinality(retr') < RetryQueueLimit
    BY <1>2, <1>3, <2>1, BoundControl
  <2>3. InPass(NextRetry(r)) => Cardinality(retr') <= NextRetry(r).remaining
    BY <1>3, BoundControl
  <2>4. QED
    BY <1>3, <2>2, <2>3, BoundStep
<1>4. CASE ListRetrying(Handler)
  <2> DEFINE n == {[ts |-> x.ts, attempt |-> x.attempt] : x \in retr}
             r == [self EXCEPT !.names = n, !.remaining = Cardinality(retr)]
  <2>1. Proceed(Handler, NextRetry(r)) /\ UNCHANGED <<retr, saving, disk>>
    BY <1>4 DEF ListRetrying, self, unchangedByControl
  <2>2. r \in ThreadState /\ r.op = "upload" /\ r.remaining = Cardinality(retr)
    <3>1. n \subseteq Name
      BY SnapshotTypes DEF RetryQueue, Name
    <3>2. Cardinality(retr) \in Int
      BY <1>2
    <3> HIDE DEF n
    <3>3. QED
      BY <1>1, <3>1, <3>2 DEF ThreadState
  <2> HIDE DEF r
  <2>3. QED
    BY <1>2, <1>3, <2>1, <2>2
<1>5. CASE FetchRetry(Handler)
  <2>1. self.pc = "rfetch" /\ UNCHANGED <<retr, saving, disk>> /\ InPass(self)
    BY <1>5 DEF FetchRetry, self, unchangedByControl, InPass
  <2>2. PICK m \in self.names :
          LET next == [self EXCEPT !.pc = "rpost", !.name = m, !.names = @ \ {m}]
          IN  \/ \E x \in Named(m) : Proceed(Handler, [next EXCEPT !.batch = x.entries])
              \/ Proceed(Handler, next)
    BY <1>5 DEF FetchRetry, self
  <2> DEFINE next == [self EXCEPT !.pc = "rpost", !.name = m, !.names = @ \ {m}]
  <2>3. PICK r : Proceed(Handler, r) /\ r.pc = "rpost" /\ r.remaining = self.remaining
    <3>1. next.pc = "rpost" /\ next.remaining = self.remaining
      BY <1>1 DEF ThreadState
    <3>2. \A b : [next EXCEPT !.batch = b].pc = "rpost"
                 /\ [next EXCEPT !.batch = b].remaining = self.remaining
      BY <1>1 DEF ThreadState
    <3> HIDE DEF next
    <3>3. QED
      BY <2>2, <3>1, <3>2 DEF next
  <2>4. QED
    BY <2>1, <2>3, BoundQuiet DEF Pending
<1>6. CASE PostRetryOk(Handler) \/ PostRetryRejected(Handler)
  <2>1. self.pc = "rpost" /\ UNCHANGED <<retr, saving, disk>> /\ InPass(self)
    BY <1>6 DEF PostRetryOk, PostRetryRejected, self, unchangedByPost, InPass
  <2>2. PICK p \in {"rdelete", "rfail", "rbump"} : Proceed(Handler, [self EXCEPT !.pc = p])
    BY <1>6 DEF PostRetryOk, PostRetryRejected, self
  <2>3. [self EXCEPT !.pc = p].pc = p /\ [self EXCEPT !.pc = p].remaining = self.remaining
    BY <1>1 DEF ThreadState
  <2>4. QED
    BY <2>1, <2>2, <2>3, BoundQuiet DEF Pending
<1>7. CASE PostRetryUnanswered(Handler)
  <2>1. /\ UNCHANGED <<retr, saving, disk>> /\ InPass(self)
        /\ Proceed(Handler, LeaveRetrying(self))
    BY <1>7 DEF PostRetryUnanswered, self, unchangedByPost, InPass
  <2>2. Cardinality(retr) <= self.remaining
    BY <2>1 DEF BoundInv
  <2>3. Pending(LeaveRetrying(self)) => Cardinality(retr') < RetryQueueLimit
    BY <1>1, <1>2, <2>1, <2>2, BoundControl
  <2>4. QED
    BY <1>1, <1>2, <2>1, <2>3, NoPass, BoundStep
<1>8. CASE DeleteRetry(Handler) \/ FailRetry(Handler) \/ BumpRetry(Handler)
  <2>1. AtHand(self) /\ InPass(self) /\ UNCHANGED disk /\ Cardinality(retr) <= self.remaining
    BY <1>8 DEF DeleteRetry, FailRetry, BumpRetry, unchangedByRetry, self, AtHand, InPass, BoundInv
  <2>2. PICK x \in retr : Named(self.name) = {x} /\ x.entries = self.batch
    BY <2>1, RetryAtHand
  <2>3. /\ IsFiniteSet(retr \ {x}) /\ Cardinality(retr \ {x}) = Cardinality(retr) - 1
        /\ Cardinality(retr \ {x}) \in Nat
    BY <2>2, RetryCount, FS_CardinalityType
  <2>4. CASE DeleteRetry(Handler)
    <3> DEFINE r == [self EXCEPT !.remaining = @ - 1]
    <3>1. /\ Proceed(Handler, NextRetry(r)) /\ retr' = retr \ {x}
          /\ saving' = [lists |-> lists', retr |-> retr']
      BY <2>2, <2>4 DEF DeleteRetry, PersistThen, self
    <3>2. r \in ThreadState /\ r.op = "upload" /\ r.remaining = self.remaining - 1
      BY <1>1, <1>2 DEF ThreadState
    <3> HIDE DEF r
    <3>3. Cardinality(retr') <= RetryQueueLimit /\ Cardinality(retr') <= r.remaining
      BY <1>2, <2>1, <2>3, <3>1, <3>2
    <3>4. QED
      BY <1>3, <2>1, <2>3, <3>1, <3>2, <3>3
  <2>5. CASE FailRetry(Handler)
    <3>1. self.batch # <<>>
      BY <2>2 DEF OrderInv, DataInv, Ordered, InRetries
    <3>2. /\ Proceed(Handler, NextRetry(self)) /\ retr' = retr \ {x}
          /\ saving' = [lists |-> lists', retr |-> retr']
      BY <2>2, <2>5, <3>1 DEF FailRetry, PersistThen, self
    <3>3. Cardinality(retr') <= RetryQueueLimit /\ Cardinality(retr') <= self.remaining
      BY <1>2, <2>1, <2>3, <3>2
    <3>4. QED
      BY <1>1, <1>3, <2>1, <2>3, <3>2, <3>3
  <2>6. CASE BumpRetry(Handler)
    <3> DEFINE b == [x EXCEPT !.attempt = @ + 1]
    <3>1. retr' = (retr \ {x}) \union {b}
      <4>1. {[z EXCEPT !.attempt = @ + 1] : z \in Named(self.name)} = {b}
        BY <2>2
      <4>2. QED
        BY <2>2, <2>6, <4>1 DEF BumpRetry, self
    <3>2. /\ Proceed(Handler, NextRetry(self))
          /\ saving' = [lists |-> lists', retr |-> retr']
      BY <2>2, <2>6 DEF BumpRetry, PersistThen, self
    <3> HIDE DEF b
    <3>3. Cardinality(retr') \in Nat /\ Cardinality(retr') <= Cardinality(retr)
      <4>1. \/ Cardinality(retr') = Cardinality(retr \ {x})
            \/ Cardinality(retr') = Cardinality(retr \ {x}) + 1
        BY <2>3, <3>1, FS_AddElement
      <4>2. QED
        BY <1>2, <2>3, <4>1
    <3>4. Cardinality(retr') <= RetryQueueLimit /\ Cardinality(retr') <= self.remaining
      BY <1>2, <2>1, <3>3
    <3>5. QED
      BY <1>1, <1>3, <2>1, <3>2, <3>3, <3>4
  <2>7. QED
    BY <1>8, <2>4, <2>5, <2>6
<1>9. QED
  BY <1>4, <1>5, <1>6, <1>7, <1>8

LEMMA OtherBound ==
  ASSUME TypeOK, Structure, BoundInv,
         \/ StartUpload(Handler) \/ NextFailQueue(Handler)
         \/ Enqueue \/ (\E q \in FailQueues : Expire(q)) \/ NewDay
         \/ AutoSave \/ SaveDone \/ Restart \/ PowerLoss \/ UNCHANGED vars
  PROVE  BoundInv'
<1>1. CASE StartUpload(Handler)
  <2> DEFINE r == [Idle EXCEPT !.op = "upload"]
             f == [r EXCEPT !.queues = {q \in FailQueues : lists[q] # <<>>}]
  <2>1. /\ Proceed(Handler, IF first THEN NextFailing(f) ELSE LeaveFailing(r))
        /\ UNCHANGED <<retr, disk, saving>>
    BY <1>1 DEF StartUpload, ListFailing, unchangedByControl
  <2>2. r \in ThreadState /\ r.op = "upload" /\ f \in ThreadState /\ f.op = "upload"
    BY IdleType DEF ThreadState
  <2> HIDE DEF r, f
  <2>3. QED
    BY <2>1, <2>2, BoundControl, NoPass, BoundQuiet
<1>2. CASE NextFailQueue(Handler)
  <2>1. UNCHANGED <<retr, disk, saving>> /\ self.queues \subseteq FailQueues
    BY <1>2, SelfType DEF NextFailQueue, unchangedByControl, ThreadState
  <2>2. PICK q \in self.queues :
          Proceed(Handler, [self EXCEPT !.pc = "fetch", !.queue = q, !.queues = @ \ {q}])
    BY <1>2 DEF NextFailQueue, self
  <2> DEFINE r == [self EXCEPT !.pc = "fetch", !.queue = q, !.queues = @ \ {q}]
  <2>3. r.pc = "fetch" /\ r.queue = q /\ q # PENDING_QUEUE
    BY <2>1, SelfType DEF ThreadState, FailQueues, PENDING_QUEUE
  <2> HIDE DEF r
  <2>4. ~InPass(r) /\ ~Pending(r)
    BY <2>3 DEF InPass, Pending
  <2>5. QED
    BY <2>1, <2>2, <2>4, BoundQuiet DEF r
<1>3. CASE Enqueue \/ (\E q \in FailQueues : Expire(q)) \/ NewDay \/ AutoSave \/ SaveDone \/ UNCHANGED vars
  <2>1. UNCHANGED <<retr, th>> /\ disk'.retr \in {disk.retr, saving.retr}
        /\ saving'.retr \in {saving.retr, retr, {}}
    BY <1>3 DEF Enqueue, Expire, NewDay, AutoSave, SaveDone, vars, NoSave
  <2>2. Cardinality({}) <= RetryQueueLimit
    BY FS_EmptySet, ConstantsAssumption
  <2>3. \A s \in {retr, disk.retr, saving.retr}' : Cardinality(s) <= RetryQueueLimit
    BY <2>1, <2>2 DEF BoundInv
  <2>4. self' = self
    BY <2>1 DEF self
  <2>5. QED
    BY <2>1, <2>3, <2>4 DEF BoundInv, InPass
<1>4. CASE Restart \/ PowerLoss
  <2>1. /\ th' = [t \in Threads |-> Idle] /\ UNCHANGED disk
        /\ retr' \in {retr, disk.retr} /\ saving'.retr \in {saving.retr, {}}
    BY <1>4 DEF Restart, PowerLoss, ServiceGone, NoSave
  <2>2. self'.pc = "idle"
    BY <2>1, ConstantsAssumption, IdleFields DEF self
  <2>3. Cardinality({}) <= RetryQueueLimit
    BY FS_EmptySet, ConstantsAssumption
  <2>4. \A s \in {retr, disk.retr, saving.retr}' : Cardinality(s) <= RetryQueueLimit
    BY <2>1, <2>3 DEF BoundInv
  <2>5. QED
    BY <2>2, <2>4 DEF BoundInv, InPass
<1>5. QED
  BY <1>1, <1>2, <1>3, <1>4

(* While Redis never refuses a save, no more than retry_queue_limit retry  *)
(* queues exist: the count a pass keeps is never less than what is there   *)
(* when it lets upload_pending begin, and that adds one queue at most.     *)
THEOREM RetriesBounded ==
  ASSUME Alone, ~BgsaveBusy
  PROVE  Spec => []RetryQueuesBounded
<1>1. Init => BoundInv
  <2> SUFFICES ASSUME Init PROVE BoundInv
    OBVIOUS
  <2>1. retr = {} /\ disk.retr = {} /\ saving.retr = {} /\ self.pc = "idle"
    BY ConstantsAssumption, IdleFields DEF Init, NoSave, self
  <2>2. QED
    BY <2>1, FS_EmptySet, ConstantsAssumption DEF BoundInv, InPass
<1>2. TypeOK /\ NoLossInv /\ OrderInv /\ BoundInv /\ [Next]_vars => BoundInv'
  <2> SUFFICES ASSUME TypeOK, Structure, OrderInv, BoundInv, [Next]_vars PROVE BoundInv'
    BY DEF NoLossInv
  <2>1. CASE Run(Handler)
    BY <2>1, BatchBound, RetryBound, OtherBound DEF Run
  <2>2. QED
    BY <2>1, AloneSteps, OtherBound
<1>3. BoundInv => RetryQueuesBounded
  BY DEF BoundInv, RetryQueuesBounded
<1>4. QED
  BY <1>1, <1>2, <1>3, OrderAlways, PTL DEF Spec

-----------------------------------------------------------------------------
(* The promise of CloudDelivery.                                           *)

(* A step of the handler delivers some entries, or releases some that were *)
(* delivered, or changes nothing that the promise is about.                *)
LEMMA RunDelivers ==
  ASSUME TypeOK, Structure, OrderInv, Run(Handler)
  PROVE  [Delivery!DNext]_(Delivery!dvars)
<1>1. UNCHANGED <<accepted, discarded, durable>>
  BY DEF Run, NextFailQueue, FetchBatch, PostBatchOk, PostBatchUnanswered,
     PostBatchRejected, TrimBatch, TransferBatch, ListRetrying, FetchRetry, PostRetryOk,
     PostRetryUnanswered, PostRetryRejected, DeleteRetry, FailRetry, BumpRetry,
     unchangedByControl, unchangedByPost, unchangedByRetry
<1>2. Held \subseteq Entries /\ Delivery!Entries = Entries
  BY HeldEntries DEF OrderInv, DataInv, Held, Entries, Delivery!Entries
<1>3. ASSUME NEW S \in SUBSET Entries, UNCHANGED <<lists, retr>>,
             delivered' = delivered \union S
      PROVE  Delivery!DNext
  <2>1. Held' = Held
    BY <1>3 DEF Held
  <2>2. Delivery!Deliver(S)
    BY <1>1, <1>3, <2>1 DEF Delivery!Deliver
  <2>3. QED
    BY <1>2, <2>2 DEF Delivery!DNext
<1>4. ASSUME UNCHANGED delivered, Held' \subseteq Held, Held \subseteq Held' \union delivered
      PROVE  Delivery!DNext
  <2>1. Held \ Held' \in SUBSET Entries
    BY <1>2
  <2>2. Delivery!Release(Held \ Held')
    BY <1>1, <1>4 DEF Delivery!Release
  <2>3. QED
    BY <1>2, <2>1, <2>2 DEF Delivery!DNext
<1>5. CASE NextFailQueue(Handler) \/ FetchBatch(Handler) \/ ListRetrying(Handler)
           \/ FetchRetry(Handler) \/ PostBatchRejected(Handler) \/ PostRetryRejected(Handler)
  BY <1>1, <1>5 DEF NextFailQueue, FetchBatch, ListRetrying, FetchRetry, PostBatchRejected,
     PostRetryRejected, unchangedByControl, unchangedByPost, Delivery!dvars, Held
<1>6. CASE PostBatchOk(Handler) \/ PostBatchUnanswered(Handler)
  <2>1. /\ self.pc = "post" /\ UNCHANGED <<lists, retr>>
        /\ delivered' = delivered \union ToSet(self.batch) \/ delivered' = delivered \union {}
    BY <1>6 DEF PostBatchOk, PostBatchUnanswered, ServerAccepts, unchangedByPost, self
  <2>2. ToSet(self.batch) \in SUBSET Entries /\ {} \in SUBSET Entries
    BY <2>1 DEF OrderInv, BatchOrder
  <2>3. CASE delivered' = delivered \union {}
    BY <1>3, <2>1, <2>2, <2>3
  <2>4. CASE delivered' = delivered \union ToSet(self.batch)
    BY <1>3, <2>1, <2>2, <2>4
  <2>5. QED
    BY <2>1, <2>3, <2>4
<1>7. CASE PostRetryOk(Handler) \/ PostRetryUnanswered(Handler)
  <2>1. /\ AtHand(self) /\ UNCHANGED <<lists, retr>>
        /\ delivered' = delivered \union ToSet(self.batch) \/ delivered' = delivered \union {}
    BY <1>7 DEF PostRetryOk, PostRetryUnanswered, ServerAccepts, unchangedByPost, self, AtHand
  <2>2. PICK x \in retr : x.entries = self.batch
    BY <2>1, RetryAtHand
  <2>3. ToSet(self.batch) \in SUBSET Entries /\ {} \in SUBSET Entries
    BY <2>2 DEF OrderInv, DataInv, Ordered, InRetries, Entries
  <2>4. CASE delivered' = delivered \union {}
    BY <1>3, <2>1, <2>3, <2>4
  <2>5. CASE delivered' = delivered \union ToSet(self.batch)
    BY <1>3, <2>1, <2>3, <2>5
  <2>6. QED
    BY <2>1, <2>4, <2>5
<1>8. CASE \/ TrimBatch(Handler) \/ TransferBatch(Handler) \/ DeleteRetry(Handler)
           \/ FailRetry(Handler) \/ BumpRetry(Handler)
  <2>1. UNCHANGED delivered
    BY <1>8 DEF TrimBatch, TransferBatch, DeleteRetry, FailRetry, BumpRetry, unchangedByRetry
  <2>2. Held' \subseteq Held
    BY <1>8, TrimBatchOrder, TransferBatchOrder, DeleteRetryOrder, FailRetryOrder, BumpRetryOrder
  <2>3. Held \subseteq Held' \union delivered
    BY <1>8, TrimKeeps, TransferKeeps, DeleteRetryKeeps, FailRetryKeeps, BumpRetryKeeps
  <2>4. QED
    BY <1>4, <2>1, <2>2, <2>3
<1>9. QED
  BY <1>5, <1>6, <1>7, <1>8 DEF Run

(* The environment accepts, discards, saves and restores. *)
LEMMA EnvironmentDelivers ==
  ASSUME TypeOK, Structure, SafeInv, OrderInv,
         Enqueue \/ (\E q \in FailQueues : Expire(q)) \/ SaveDone \/ PowerLoss
  PROVE  Delivery!DNext
<1>1. Held \subseteq Entries /\ Delivery!Entries = Entries
  BY HeldEntries DEF OrderInv, DataInv, Held, Entries, Delivery!Entries
<1>2. CASE Enqueue
  <2>1. /\ accepted' = accepted + 1 /\ accepted \in Nat
        /\ UNCHANGED <<retr, delivered, discarded, durable>>
        /\ lists' = [lists EXCEPT ![PENDING_QUEUE] = Lpush(@, <<accepted + 1>>)]
    BY <1>2 DEF Enqueue, TypeOK, HistoryOK
  <2>2. \A q \in Queues : ToSet(lists'[q])
          = IF q = PENDING_QUEUE THEN ToSet(lists[q]) \union {accepted + 1} ELSE ToSet(lists[q])
    <3>1. \A q \in Queues : lists'[q] = IF q = PENDING_QUEUE THEN Lpush(lists[q], <<accepted + 1>>)
                                        ELSE lists[q]
      BY <2>1, SelfType
    <3>2. <<accepted + 1>> \in Seq(Nat) /\ ToSet(<<accepted + 1>>) = {accepted + 1}
      <4>1. DOMAIN <<accepted + 1>> = {1} /\ <<accepted + 1>>[1] = accepted + 1
        OBVIOUS
      <4>2. QED
        BY <2>1, <4>1 DEF ToSet
    <3> DEFINE s == <<accepted + 1>>
    <3> HIDE DEF s
    <3>3. \A l \in Seq(Nat) : ToSet(Lpush(l, s)) = ToSet(l) \union ToSet(s)
      <4> TAKE l \in Seq(Nat)
      <4>1. s \in Seq(Nat)
        BY <3>2 DEF s
      <4>2. QED
        BY <4>1, PushedOrder
    <3>4. \A q \in Queues : lists[q] \in Seq(Nat)
      BY SelfType
    <3>5. \A q \in Queues : lists'[q] = IF q = PENDING_QUEUE THEN Lpush(lists[q], s) ELSE lists[q]
      BY <3>1 DEF s
    <3>6. ToSet(s) = {accepted + 1}
      BY <3>2 DEF s
    <3>7. TAKE q \in Queues
    <3>8. CASE q = PENDING_QUEUE
      BY <3>3, <3>4, <3>5, <3>6, <3>8
    <3>9. CASE q # PENDING_QUEUE
      BY <3>5, <3>9
    <3>10. QED
      BY <3>8, <3>9
  <2>3. ASSUME NEW e PROVE e \in Held' <=> e \in Held \/ e = accepted + 1
    <3>1. e \in Held' <=> \/ \E q \in Queues : e \in ToSet(lists'[q])
                          \/ \E x \in retr' : e \in ToSet(x.entries)
      BY HeldMember DEF Held
    <3>2. e \in Held <=> \/ \E q \in Queues : e \in ToSet(lists[q])
                         \/ \E x \in retr : e \in ToSet(x.entries)
      BY HeldMember DEF Held
    <3>3. (\E q \in Queues : e \in ToSet(lists'[q]))
            <=> (\E q \in Queues : e \in ToSet(lists[q])) \/ e = accepted + 1
      BY <2>2, QueueTypes
    <3>4. QED
      BY <2>1, <3>1, <3>2, <3>3
  <2>4. Held' = Held \union {accepted + 1}
    BY <2>3
  <2>5. Delivery!Accept
    BY <2>1, <2>4 DEF Delivery!Accept
  <2>6. QED
    BY <2>5 DEF Delivery!DNext
<1>3. ASSUME NEW q \in FailQueues, Expire(q)
      PROVE  Delivery!DNext
  <2>1. Held' = Held \ ToSet(lists[q])
    BY <1>3, ExpireOrder
  <2>2. ToSet(lists[q]) \in SUBSET Entries
    BY ListOrder, QueueTypes DEF OrderInv
  <2>3. Delivery!Discard(ToSet(lists[q]))
    BY <1>3, <2>1 DEF Expire, Delivery!Discard
  <2>4. QED
    BY <1>1, <2>2, <2>3 DEF Delivery!DNext
<1>4. CASE SaveDone
  <2> DEFINE S == HeldIn(saving.lists, saving.retr)
  <2>1. S \in SUBSET Entries
    BY <1>4, HeldEntries DEF SaveDone, OrderInv, DataInv, Entries
  <2>2. Delivery!Save(S)
    BY <1>4 DEF SaveDone, Delivery!Save, Held
  <2>3. QED
    BY <1>1, <2>1, <2>2 DEF Delivery!DNext
<1>5. CASE PowerLoss
  <2> DEFINE H == HeldIn(disk.lists, disk.retr)
  <2>1. H \in SUBSET Entries
    BY HeldEntries DEF OrderInv, DataInv, Entries
  <2>2. durable \subseteq H \union delivered \union discarded
    BY DEF SafeInv, Covers
  <2>3. Held' = H
    BY <1>5 DEF PowerLoss, Held
  <2>4. Delivery!Restore(H)
    BY <1>1, <1>5, <2>2, <2>3 DEF PowerLoss, Delivery!Restore
  <2>5. QED
    BY <1>1, <2>1, <2>4 DEF Delivery!DNext
<1>6. QED
  BY <1>2, <1>3, <1>4, <1>5

(* Alone, the handler keeps the promise of CloudDelivery: entries leave    *)
(* the device only when the server has them or when they are given up on   *)
(* purpose, step by step.                                                  *)
THEOREM HandlerDelivers ==
  ASSUME Alone
  PROVE  Spec => ImplementsDelivery
<1>1. Init => Delivery!DInit
  <2> SUFFICES ASSUME Init PROVE Delivery!DInit
    OBVIOUS
  <2>1. lists = [q \in Queues |-> <<>>] /\ retr = {}
    BY DEF Init
  <2>2. Held = {}
    BY <2>1, EmptySet, HeldMember DEF Held
  <2>3. QED
    BY <2>2 DEF Init, Delivery!DInit
<1>2. TypeOK /\ NoLossInv /\ OrderInv /\ [Next]_vars => [Delivery!DNext]_(Delivery!dvars)
  <2> SUFFICES ASSUME TypeOK, Structure, SafeInv, OrderInv, [Next]_vars
               PROVE  [Delivery!DNext]_(Delivery!dvars)
    BY DEF NoLossInv
  <2>1. CASE StartUpload(Handler) \/ NewDay \/ AutoSave \/ Restart \/ UNCHANGED vars
    BY <2>1 DEF StartUpload, NewDay, AutoSave, Restart, vars, unchangedByControl, Delivery!dvars, Held
  <2>2. QED
    BY <2>1, AloneSteps, RunDelivers, EnvironmentDelivers
<1>3. QED
  BY <1>1, <1>2, OrderAlways, PTL DEF Spec, ImplementsDelivery, Delivery!DSpec
-----------------------------------------------------------------------------
(* The order of what is posted from the pending queue and from the retry   *)
(* queues, whatever commands run beside the handler.                       *)

(* The inductive invariant, beside TypeOK. *)
FreshData(l, r) ==
  /\ Decreasing(l[PENDING_QUEUE]) /\ ToSet(l[PENDING_QUEUE]) \subseteq Entries
  /\ \A x \in r : Increasing(x.entries)

FreshBatch(r) ==
  /\ r.pc \in {"post", "transfer"} /\ r.queue = PENDING_QUEUE => Decreasing(r.batch)
  /\ r.pc = "transfer" => r.queue = PENDING_QUEUE
  /\ r.pc \in {"rfetch", "rpost"} => Increasing(r.batch)

FreshInv ==
  /\ FreshData(lists, retr)
  /\ FreshData(disk.lists, disk.retr)
  /\ saving # NoSave => FreshData(saving.lists, saving.retr)
  /\ Decreasing(cache[PENDING_QUEUE])
  /\ \A t \in Threads : FreshBatch(th[t])

LEMMA FreshEmpty == Increasing(<<>>) /\ Decreasing(<<>>) /\ ToSet(<<>>) = {}
  BY DEF Increasing, Decreasing, ToSet

(* No way a thread goes on takes a batch along. *)
LEMMA FreshControl ==
  ASSUME NEW r \in ThreadState
  PROVE  /\ FreshBatch(Idle) /\ FreshBatch(NextBatch(r)) /\ FreshBatch(LeaveFailing(r))
         /\ FreshBatch(NextFailing(r)) /\ FreshBatch(EnterPending(r))
         /\ FreshBatch(BatchesDone(r)) /\ FreshBatch(BatchesFailed(r))
         /\ FreshBatch(LeaveRetrying(r)) /\ FreshBatch(AbortRetrying(r))
         /\ FreshBatch(NextRetry(r))
<1>1. FreshBatch(Idle)
  BY DEF Idle, FreshBatch
<1>2. \A x \in ThreadState : FreshBatch(NextBatch(x))
  BY DEF NextBatch, FreshBatch, ThreadState
<1>3. \A x \in ThreadState : FreshBatch(LeaveFailing(x))
  BY <1>1 DEF LeaveFailing, FreshBatch, Idle, ThreadState
<1>4. \A x \in ThreadState : FreshBatch(NextFailing(x))
  BY <1>3 DEF NextFailing, NextBatch, FreshBatch, ThreadState
<1>5. \A x \in ThreadState : FreshBatch(EnterPending(x))
  BY DEF EnterPending, NextBatch, Idle, FreshBatch
<1>6. FreshBatch(BatchesDone(r)) /\ FreshBatch(BatchesFailed(r))
  BY <1>1, <1>3, <1>4 DEF BatchesDone, BatchesFailed
<1>7. FreshBatch(LeaveRetrying(r)) /\ FreshBatch(AbortRetrying(r))
  BY <1>1, <1>5 DEF LeaveRetrying, AbortRetrying
<1>8. FreshBatch(NextRetry(r))
  <2>1. CASE r.names = {}
    BY <1>7, <2>1 DEF NextRetry
  <2>2. CASE r.names # {}
    BY <2>2, FreshEmpty DEF NextRetry, FreshBatch, ThreadState
  <2>3. QED
    BY <2>1, <2>2
<1>9. QED
  BY <1>1, <1>2, <1>3, <1>4, <1>5, <1>6, <1>7, <1>8

(* A thread goes on. *)
LEMMA FreshProceed ==
  ASSUME TypeOK, FreshInv, NEW t \in Threads, NEW r, FreshBatch(r), Proceed(t, r)
  PROVE  \A u \in Threads : FreshBatch(th'[u])
<1>1. th' = [th EXCEPT ![t] = r] /\ th \in [Threads -> ThreadState]
  BY DEF Proceed, TypeOK, ThreadsOK
<1>2. \A u \in Threads : th'[u] = IF u = t THEN r ELSE th[u]
  BY <1>1
<1>3. QED
  BY <1>2 DEF FreshInv

(* A step of a thread that leaves Redis and the cache alone. *)
LEMMA FreshQuiet ==
  ASSUME TypeOK, FreshInv, NEW t \in Threads, NEW r, FreshBatch(r), Proceed(t, r),
         UNCHANGED <<lists, retr, saving, disk, accepted>>, Decreasing(cache'[PENDING_QUEUE])
  PROVE  FreshInv'
<1>1. \A u \in Threads : FreshBatch(th'[u])
  BY FreshProceed
<1>2. QED
  BY <1>1 DEF FreshInv, FreshData, FreshBatch, Entries

(* A step of a thread that persists what it changed. *)
LEMMA FreshPersist ==
  ASSUME TypeOK, FreshInv, NEW t \in Threads, NEW ok, NEW error, FreshBatch(ok), FreshBatch(error),
         PersistThen(t, ok, error), FreshData(lists', retr'), UNCHANGED <<disk, cache, accepted>>
  PROVE  FreshInv'
<1>1. \A u \in Threads : FreshBatch(th'[u])
  BY FreshProceed DEF PersistThen
<1>2. saving' = saving \/ saving' = [lists |-> lists', retr |-> retr']
  BY DEF PersistThen
<1>3. Entries' = Entries
  BY DEF Entries
<1>4. saving' # NoSave => FreshData(saving.lists, saving.retr)'
  BY <1>2, <1>3 DEF FreshInv, FreshData
<1>5. QED
  BY <1>1, <1>3, <1>4 DEF FreshInv, FreshData, FreshBatch

(* What a data set loses leaves the rest in order. *)
LEMMA FreshLess ==
  ASSUME NEW l, NEW r, FreshData(l, r), NEW k, NEW s, s \subseteq r, UNCHANGED accepted,
         k[PENDING_QUEUE] = l[PENDING_QUEUE] \/ k[PENDING_QUEUE] = <<>>
  PROVE  FreshData(k, s) /\ FreshData(k, s)'
  BY FreshEmpty DEF FreshData, Entries

(* LTRIM leaves a queue in order. *)
LEMMA FreshTrimmed ==
  ASSUME NEW l \in [Queues -> Seq(Nat)], NEW r, FreshData(l, r), NEW q \in Queues, NEW n \in Nat
  PROVE  FreshData([l EXCEPT ![q] = Ltrim(@, n)], r)
<1>1. l[PENDING_QUEUE] \in Seq(Nat)
  BY QueueTypes
<1>2. [l EXCEPT ![q] = Ltrim(@, n)][PENDING_QUEUE]
        \in {l[PENDING_QUEUE], Ltrim(l[PENDING_QUEUE], n)}
  BY QueueTypes
<1>3. QED
  BY <1>1, <1>2, TrimmedOrder DEF FreshData

(* A step of a thread keeps the order. *)
LEMMA FreshRun ==
  ASSUME TypeOK, FreshInv, NEW t \in Threads, Run(t)
  PROVE  FreshInv'
<1> USE DEF unchangedByControl, unchangedByPost, unchangedByRetry
<1>r. th[t] \in ThreadState /\ th[t].batch \in Seq(Nat) /\ th[t].queue \in Queues
  BY DEF TypeOK, ThreadsOK, ThreadState
<1>t. FreshBatch(th[t])
  BY DEF FreshInv
<1>l. /\ lists \in [Queues -> Seq(Nat)] /\ retr \subseteq RetryQueue
      /\ cache \in [Queues -> Seq(Nat)] /\ PENDING_QUEUE \in Queues
      /\ lists[PENDING_QUEUE] \in Seq(Nat)
  BY QueueTypes DEF TypeOK, RedisOK, ThreadsOK
<1>d. FreshData(lists, retr) /\ Decreasing(cache[PENDING_QUEUE])
  BY DEF FreshInv
<1>1. CASE NextFailQueue(t)
  <2>1. PICK q \in th[t].queues :
          Proceed(t, [th[t] EXCEPT !.pc = "fetch", !.queue = q, !.queues = @ \ {q}])
    BY <1>1, Zenon DEF NextFailQueue
  <2> DEFINE r == [th[t] EXCEPT !.pc = "fetch", !.queue = q, !.queues = @ \ {q}]
  <2>2. FreshBatch(r)
    BY <1>r, <1>t DEF FreshBatch, ThreadState
  <2> HIDE DEF r
  <2>3. Proceed(t, r)
    BY <2>1 DEF r
  <2>4. QED
    BY <1>1, <1>d, <2>2, <2>3, FreshQuiet DEF NextFailQueue
<1>2. CASE FetchBatch(t)
  <2> DEFINE q == th[t].queue
             new == Lrange(lists[q], MaxBatch)
  <2>1. Decreasing(cache'[PENDING_QUEUE])
    BY <1>2, <1>l, <1>d, FreshEmpty DEF FetchBatch
  <2>2. q = PENDING_QUEUE => Decreasing(new)
    BY <1>l, <1>d, EndLrange, EndOrder, ListTypes, ConstantsAssumption DEF FreshData
  <2>3. q = PENDING_QUEUE => Decreasing(cache[q])
    BY <1>d
  <2> HIDE DEF new
  <2>4. /\ FreshBatch([th[t] EXCEPT !.pc = "post", !.batch = cache[q], !.cached = TRUE])
        /\ FreshBatch([th[t] EXCEPT !.pc = "post", !.batch = new])
    BY <1>r, <1>t, <2>2, <2>3 DEF FreshBatch, ThreadState
  <2>5. \E r : FreshBatch(r) /\ Proceed(t, r)
    <3>1. \/ Proceed(t, [th[t] EXCEPT !.pc = "post", !.batch = cache[q], !.cached = TRUE])
          \/ Proceed(t, [th[t] EXCEPT !.pc = "post", !.batch = new])
          \/ Proceed(t, BatchesDone(th[t]))
      BY <1>2 DEF FetchBatch, new
    <3>2. FreshBatch(BatchesDone(th[t]))
      BY <1>r, <1>t, FreshControl
    <3>3. QED
      BY <2>4, <3>1, <3>2
  <2>6. QED
    BY <1>2, <2>1, <2>5, FreshQuiet DEF FetchBatch
<1>3. CASE PostBatchOk(t)
  <2>1. FreshBatch([th[t] EXCEPT !.pc = "trim"])
    BY <1>r, <1>t DEF FreshBatch, ThreadState
  <2>2. QED
    BY <1>3, <1>d, <2>1, FreshQuiet DEF PostBatchOk
<1>4. CASE PostBatchUnanswered(t)
  <2>1. Decreasing(cache'[PENDING_QUEUE])
    BY <1>4, <1>r, <1>t, <1>l, <1>d DEF PostBatchUnanswered, FreshBatch
  <2>2. QED
    BY <1>4, <1>r, <1>t, <2>1, FreshControl, FreshQuiet DEF PostBatchUnanswered
<1>5. CASE PostBatchRejected(t)
  <2>1. th[t].queue = PENDING_QUEUE => FreshBatch([th[t] EXCEPT !.pc = "transfer"])
    <3>1. th[t].pc = "post"
      BY <1>5 DEF PostBatchRejected
    <3>2. QED
      BY <1>r, <1>t, <3>1 DEF FreshBatch, ThreadState
  <2>2. QED
    BY <1>5, <1>r, <1>t, <1>d, <2>1, FreshControl, FreshQuiet DEF PostBatchRejected
<1>6. CASE TrimBatch(t)
  <2>1. FreshData(lists', retr')
    <3>1. /\ lists' = [lists EXCEPT ![th[t].queue] = Ltrim(@, Len(th[t].batch))]
          /\ retr' = retr /\ Len(th[t].batch) \in Nat
      BY <1>6, <1>r, <1>t DEF TrimBatch
    <3>2. QED
      BY <1>r, <1>t, <1>l, <1>d, <3>1, FreshTrimmed
  <2>2. QED
    BY <1>6, <1>r, <1>t, <2>1, FreshControl, FreshPersist DEF TrimBatch
<1>7. CASE TransferBatch(t)
  <2> DEFINE x == [ts |-> clock + 1, attempt |-> 0, entries |-> Lpush(<<>>, th[t].batch)]
  <2>1. /\ PersistThen(t, BatchesFailed(th[t]), BatchesFailed(th[t]))
        /\ retr' = retr \union {x}
        /\ lists' = [lists EXCEPT ![PENDING_QUEUE] = Ltrim(@, Len(th[t].batch))]
        /\ Len(th[t].batch) \in Nat
    BY <1>7, <1>r, <1>t DEF TransferBatch
  <2>2. Decreasing(th[t].batch)
    BY <1>7, <1>r, <1>t DEF TransferBatch, FreshBatch
  <2>3. Increasing(x.entries)
    <3>1. CASE th[t].batch = <<>>
      <4>1. Lpush(<<>>, <<>>) = <<>>
        BY DEF Lpush, Reverse
      <4>2. QED
        BY <3>1, <4>1, FreshEmpty
    <3>2. CASE th[t].batch # <<>>
      BY <1>r, <1>t, <2>2, <3>2, RetriedOrder
    <3>3. QED
      BY <3>1, <3>2
  <2> HIDE DEF x
  <2>4. FreshData(lists', retr)
    BY <1>r, <1>t, <1>l, <1>d, <2>1, FreshTrimmed
  <2>5. FreshData(lists', retr')
    BY <2>1, <2>3, <2>4 DEF FreshData
  <2>6. QED
    BY <1>7, <1>r, <1>t, <2>1, <2>5, FreshControl, FreshPersist DEF TransferBatch
<1>8. CASE ListRetrying(t)
  <2> DEFINE names == {[ts |-> x.ts, attempt |-> x.attempt] : x \in retr}
             r == [th[t] EXCEPT !.names = names, !.remaining = Cardinality(retr)]
  <2>1. Proceed(t, NextRetry(r)) /\ UNCHANGED <<unchangedByControl, cache>>
    BY <1>8 DEF ListRetrying
  <2>2. r \in ThreadState
    <3>1. names \subseteq Name
      BY <1>l DEF RetryQueue, Name
    <3>2. Cardinality(retr) \in Int
      BY FS_CardinalityType DEF TypeOK, RedisOK
    <3> HIDE DEF names
    <3>3. QED
      BY <1>r, <3>1, <3>2 DEF ThreadState
  <2> HIDE DEF r
  <2>3. QED
    BY <1>d, <2>1, <2>2, FreshControl, FreshQuiet
<1>9. CASE FetchRetry(t)
  <2>1. th[t].pc = "rfetch" /\ UNCHANGED <<unchangedByControl, cache>>
    BY <1>9, Zenon DEF FetchRetry
  <2>2. PICK n \in th[t].names :
          LET next == [th[t] EXCEPT !.pc = "rpost", !.name = n, !.names = @ \ {n}]
          IN  \/ \E x \in Named(n) : Proceed(t, [next EXCEPT !.batch = x.entries])
              \/ Named(n) = {} /\ Proceed(t, next)
    BY <1>9, Zenon DEF FetchRetry
  <2> DEFINE next == [th[t] EXCEPT !.pc = "rpost", !.name = n, !.names = @ \ {n}]
             Retried(x) == [next EXCEPT !.batch = x.entries]
  <2>3. /\ next.pc = "rpost" /\ next.batch = th[t].batch
        /\ \A x : Retried(x).pc = "rpost" /\ Retried(x).batch = x.entries
    BY <1>r DEF ThreadState
  <2>4. (\E x \in Named(n) : Proceed(t, Retried(x))) \/ Proceed(t, next)
    BY <2>2, Zenon
  <2> HIDE DEF next, Retried
  <2>5. FreshBatch(next)
    BY <1>t, <2>1, <2>3 DEF FreshBatch
  <2>6. \A x \in Named(n) : FreshBatch(Retried(x))
    <3>1. \A x \in Named(n) : Increasing(x.entries)
      BY <1>d DEF Named, FreshData
    <3>2. QED
      BY <2>3, <3>1 DEF FreshBatch
  <2>7. PICK r : FreshBatch(r) /\ Proceed(t, r)
    BY <2>4, <2>5, <2>6, Zenon
  <2>8. QED
    BY <1>d, <2>1, <2>7, FreshQuiet
<1>10. CASE PostRetryOk(t)
  <2>1. FreshBatch([th[t] EXCEPT !.pc = "rdelete"])
    BY <1>r, <1>t DEF FreshBatch, ThreadState
  <2>2. QED
    BY <1>10, <1>d, <2>1, FreshQuiet DEF PostRetryOk
<1>11. CASE PostRetryUnanswered(t)
  BY <1>11, <1>r, <1>t, <1>d, FreshControl, FreshQuiet DEF PostRetryUnanswered
<1>12. CASE PostRetryRejected(t)
  <2>1. \A p \in {"rfail", "rbump"} : FreshBatch([th[t] EXCEPT !.pc = p])
    BY <1>r, <1>t DEF FreshBatch, ThreadState
  <2>2. QED
    BY <1>12, <1>d, <2>1, FreshQuiet DEF PostRetryRejected
<1>n. Named(th[t].name) \subseteq retr
  BY DEF Named
<1>13. CASE DeleteRetry(t)
  <2>1. FreshData(lists', retr')
    BY <1>13, <1>d, <1>n DEF DeleteRetry, FreshData
  <2>2. [th[t] EXCEPT !.remaining = @ - 1] \in ThreadState
    BY <1>r DEF ThreadState
  <2>3. QED
    BY <1>13, <1>r, <1>t, <2>1, <2>2, FreshControl, FreshPersist DEF DeleteRetry
<1>14. CASE FailRetry(t)
  <2>0. day # PENDING_QUEUE
    BY DEF TypeOK, HistoryOK, FailQueues, PENDING_QUEUE
  <2>1. CASE th[t].batch # <<>>
    <3>1. FreshData(lists', retr')
      BY <1>14, <1>d, <1>n, <1>l, <2>0, <2>1 DEF FailRetry, FreshData
    <3>2. QED
      BY <1>14, <1>r, <1>t, <2>1, <3>1, FreshControl, FreshPersist DEF FailRetry
  <2>2. CASE th[t].batch = <<>>
    BY <1>14, <1>r, <1>t, <1>d, <2>2, FreshControl, FreshQuiet DEF FailRetry
  <2>3. QED
    BY <2>1, <2>2
<1>15. CASE BumpRetry(t)
  <2> DEFINE renamed == {[x EXCEPT !.attempt = @ + 1] : x \in Named(th[t].name)}
  <2>1. \A x \in renamed : Increasing(x.entries)
    BY <1>d, <1>n, <1>l DEF FreshData, RetryQueue
  <2>2. retr' = (retr \ Named(th[t].name)) \union renamed /\ UNCHANGED lists
    BY <1>15 DEF BumpRetry
  <2> HIDE DEF renamed
  <2>3. FreshData(lists', retr')
    BY <1>d, <2>1, <2>2 DEF FreshData
  <2>4. PICK ok, error : PersistThen(t, ok, error) /\ FreshBatch(ok) /\ FreshBatch(error)
    <3>1. /\ FreshBatch(NextRetry(th[t])) /\ FreshBatch(AbortRetrying(th[t]))
      BY <1>r, FreshControl
    <3>2. \/ PersistThen(t, NextRetry(th[t]), AbortRetrying(th[t]))
          \/ PersistThen(t, AbortRetrying(th[t]), AbortRetrying(th[t]))
      BY <1>15 DEF BumpRetry
    <3>3. QED
      BY <3>1, <3>2
  <2>5. QED
    BY <1>15, <2>3, <2>4, FreshPersist DEF BumpRetry
<1>20. QED
  BY <1>1, <1>2, <1>3, <1>4, <1>5, <1>6, <1>7, <1>8, <1>9, <1>10, <1>11, <1>12,
     <1>13, <1>14, <1>15 DEF Run

(* The beginning of a run of the handler or of a command. *)
LEMMA FreshStart ==
  ASSUME TypeOK, FreshInv, NEW t \in Threads,
         StartUpload(t) \/ \E c \in Commands : StartCommand(t, c)
  PROVE  FreshInv'
<1> USE DEF unchangedByControl
<1>1. \A r \in ThreadState : FreshBatch(ListFailing(r))
  <2>1. \A r \in ThreadState : [r EXCEPT !.queues = {q \in FailQueues : lists[q] # <<>>}] \in ThreadState
    BY DEF ThreadState
  <2>2. QED
    BY <2>1, FreshControl DEF ListFailing
<1>2. \A r \in ThreadState : FreshBatch(LeaveFailing(r)) /\ FreshBatch(EnterPending(r))
  BY FreshControl
<1>3. \A r \in ThreadState : FreshBatch([r EXCEPT !.pc = "rlist"])
  BY DEF ThreadState, FreshBatch
<1>4. \A op \in {"upload"} \union UploadCommands : [Idle EXCEPT !.op = op] \in ThreadState
  BY IdleType DEF ThreadState
<1>5. \E r : FreshBatch(r) /\ Proceed(t, r)
  <2>1. CASE StartUpload(t)
    BY <1>1, <1>2, <1>4, <2>1 DEF StartUpload
  <2>2. CASE \E c \in Commands : StartCommand(t, c)
    <3>1. PICK c \in Commands : StartCommand(t, c)
      BY <2>2
    <3> DEFINE r == [Idle EXCEPT !.op = c]
    <3>2. c \in UploadCommands
      BY <3>1, Zenon DEF StartCommand
    <3>3. r \in ThreadState
      BY <1>4, <3>2
    <3> DEFINE next == CASE c = "upload_failing"  -> ListFailing(r)
                         [] c = "upload_retrying" -> [r EXCEPT !.pc = "rlist"]
                         [] c = "upload_pending"  -> EnterPending(r)
    <3>4. Proceed(t, next)
      BY <3>1, Zenon DEF StartCommand
    <3> HIDE DEF r
    <3>5. FreshBatch(next)
      BY <1>1, <1>2, <1>3, <3>2, <3>3 DEF UploadCommands
    <3> HIDE DEF next
    <3>6. QED
      BY <3>4, <3>5
  <2>3. QED
    BY <2>1, <2>2
<1>u. UNCHANGED <<unchangedByControl, cache>>
  BY Zenon DEF StartUpload, StartCommand
<1>6. UNCHANGED <<lists, retr, saving, disk, accepted, cache>>
  BY <1>u
<1>7. PICK r : FreshBatch(r) /\ Proceed(t, r)
  BY <1>5
<1>8. Decreasing(cache'[PENDING_QUEUE])
  BY <1>6 DEF FreshInv
<1>9. QED
  BY <1>6, <1>7, <1>8, FreshQuiet

(* The arrival of an entry, and what is cleared, expires, is saved, lost   *)
(* or restored.                                                            *)
LEMMA FreshEnvironment ==
  ASSUME TypeOK, FreshInv, Environment
  PROVE  FreshInv'
<1>d. FreshData(lists, retr) /\ FreshData(disk.lists, disk.retr)
  BY DEF FreshInv
<1>q. ASSUME UNCHANGED <<saving, disk, cache, th, accepted>>, FreshData(lists', retr')
      PROVE  FreshInv'
  BY <1>q DEF FreshInv, FreshData, FreshBatch, Entries
<1>1. CASE Enqueue
  <2> DEFINE s == <<accepted + 1>>
             p == lists[PENDING_QUEUE]
  <2>1. /\ UNCHANGED <<retr, saving, disk, cache, th>> /\ accepted' = accepted + 1
        /\ lists'[PENDING_QUEUE] = Lpush(p, s) /\ accepted \in Nat /\ p \in Seq(Nat)
    BY <1>1, QueueTypes DEF Enqueue, TypeOK, RedisOK, HistoryOK
  <2>2. s \in Seq(Nat) /\ ToSet(s) = {accepted + 1} /\ Increasing(s)
    <3>1. DOMAIN s = {1} /\ s[1] = accepted + 1
      OBVIOUS
    <3>2. QED
      BY <2>1, <3>1 DEF ToSet, Increasing
  <2>3. Entries \subseteq Entries' /\ accepted + 1 \in Entries' /\ \A e \in Entries : e < accepted + 1
    BY <2>1 DEF Entries
  <2> HIDE DEF s
  <2>4. Decreasing(p) /\ ToSet(p) \subseteq Entries
    BY <1>d DEF FreshData
  <2>5. Older(p, s)
    BY <2>2, <2>3, <2>4 DEF Older
  <2>6. Decreasing(Lpush(p, s)) /\ ToSet(Lpush(p, s)) \subseteq Entries'
    BY <2>1, <2>2, <2>3, <2>4, <2>5, PushedOrder
  <2> HIDE DEF p
  <2>7. FreshData(lists, retr)'
    BY <1>d, <2>1, <2>6 DEF FreshData
  <2>8. \A l, r : FreshData(l, r) =>
          Decreasing(l[PENDING_QUEUE]) /\ ToSet(l[PENDING_QUEUE]) \subseteq Entries'
            /\ \A x \in r : Increasing(x.entries)
    BY <2>3 DEF FreshData
  <2>9. FreshData(disk.lists, disk.retr)' /\ (saving # NoSave => FreshData(saving.lists, saving.retr))'
    BY <2>1, <2>8 DEF FreshInv, FreshData
  <2>10. QED
    BY <2>1, <2>7, <2>9 DEF FreshInv, FreshBatch
<1>2. ASSUME NEW q \in Queues, ClearQueue(q) \/ Expire(q)
      PROVE  FreshInv'
  <2>1. /\ UNCHANGED <<retr, saving, disk, cache, th, accepted>>
        /\ lists'[PENDING_QUEUE] \in {lists[PENDING_QUEUE], <<>>}
    BY <1>2, QueueTypes DEF ClearQueue, Expire, TypeOK, RedisOK
  <2>2. FreshData(lists', retr')
    BY <1>d, <2>1, FreshEmpty DEF FreshData
  <2>3. QED
    BY <1>q, <2>1, <2>2
<1>3. CASE (\E x \in retr : ClearRetryQueue(x)) \/ NewDay
  <2>1. UNCHANGED <<lists, saving, disk, cache, th, accepted>> /\ retr' \subseteq retr
    BY <1>3 DEF ClearRetryQueue, NewDay
  <2>2. QED
    BY <1>d, <1>q, <2>1 DEF FreshData
<1>4. CASE ClearEverything
  <2>1. /\ UNCHANGED <<saving, disk, cache, th, accepted>>
        /\ lists'[PENDING_QUEUE] = <<>> /\ retr' = {}
    BY <1>4, QueueTypes DEF ClearEverything
  <2>2. FreshData(lists', retr')
    BY <2>1, FreshEmpty DEF FreshData
  <2>3. QED
    BY <1>q, <2>1, <2>2
<1>5. CASE AutoSave
  <2>1. UNCHANGED <<lists, retr, disk, cache, th, accepted>>
        /\ saving'.lists = lists /\ saving'.retr = retr
    BY <1>5 DEF AutoSave
  <2>2. QED
    BY <2>1 DEF FreshInv, FreshData, FreshBatch, Entries
<1>6. CASE SaveDone
  <2>1. UNCHANGED <<lists, retr, cache, th, accepted>> /\ saving # NoSave
        /\ disk' = saving /\ saving' = NoSave
    BY <1>6 DEF SaveDone
  <2>2. QED
    BY <2>1 DEF FreshInv, FreshData, FreshBatch, Entries
<1>7. CASE Restart \/ PowerLoss
  <2>1. /\ UNCHANGED <<disk, accepted>> /\ (UNCHANGED saving \/ saving' = NoSave)
        /\ FreshData(lists', retr')
        /\ th' = [t \in Threads |-> Idle] /\ cache'[PENDING_QUEUE] = <<>>
    BY <1>7, <1>d, QueueTypes DEF Restart, PowerLoss, ServiceGone
  <2>2. FreshBatch(Idle)
    BY DEF FreshBatch, Idle
  <2>3. \A t \in Threads : FreshBatch(th'[t])
    BY <2>1, <2>2
  <2>4. QED
    BY <2>1, <2>3, FreshEmpty DEF FreshInv, FreshData, FreshBatch, Entries
<1>8. QED
  BY <1>1, <1>2, <1>3, <1>4, <1>5, <1>6, <1>7, QueueTypes DEF Environment

(* Whatever commands run beside the handler and clear queues, whatever     *)
(* Redis refuses, expires or restores: a payload from the pending queue or *)
(* from a retry queue lists its entries in the order they were logged.     *)
THEOREM FreshPostsAreChronological == Spec => []FreshChronological
<1>1. Init => FreshInv
  <2> SUFFICES ASSUME Init PROVE FreshInv
    OBVIOUS
  <2>1. /\ \A q \in Queues : lists[q] = <<>> /\ disk.lists[q] = <<>> /\ cache[q] = <<>>
        /\ retr = {} /\ disk.retr = {} /\ saving = NoSave /\ \A t \in Threads : th[t] = Idle
    BY DEF Init
  <2>2. FreshBatch(Idle)
    BY DEF FreshBatch, Idle
  <2>3. QED
    BY <2>1, <2>2, FreshEmpty, QueueTypes DEF FreshInv, FreshData
<1>2. TypeOK /\ FreshInv /\ [Next]_vars => FreshInv'
  <2> SUFFICES ASSUME TypeOK, FreshInv, [Next]_vars PROVE FreshInv'
    OBVIOUS
  <2>1. CASE UNCHANGED vars
    BY <2>1 DEF vars, FreshInv, FreshData, FreshBatch, Entries
  <2>2. CASE Next
    BY <2>2, FreshRun, FreshStart, FreshEnvironment DEF Next
  <2>3. QED
    BY <2>1, <2>2
<1>3. TypeOK /\ FreshInv => FreshChronological
  <2> SUFFICES ASSUME TypeOK, FreshInv, NEW t \in Threads
               PROVE  /\ th[t].pc = "post" /\ th[t].queue = PENDING_QUEUE
                           => Increasing(Payload(th[t].batch))
                      /\ th[t].pc = "rpost" => Increasing(th[t].batch)
    BY DEF FreshChronological
  <2>1. th[t].batch \in Seq(Nat)
    BY DEF TypeOK, ThreadsOK, ThreadState
  <2>2. FreshBatch(th[t])
    BY DEF FreshInv
  <2>3. QED
    BY <2>1, <2>2, ReverseOrder DEF FreshBatch, Payload
<1>4. QED
  BY <1>1, <1>2, <1>3, TypeCorrect, PTL DEF Spec
=============================================================================
