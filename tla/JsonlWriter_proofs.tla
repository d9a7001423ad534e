------------------------- MODULE JsonlWriter_proofs -------------------------
(***************************************************************************)
(* Proofs about JsonlWriter, for any threads, sizes and bounds, with and   *)
(* without expiration.                                                     *)
(***************************************************************************)
EXTENDS JsonlWriter, SequenceTheorems, TLAPS

-----------------------------------------------------------------------------
(* Type correctness.                                                       *)

Working == {"write", "sync", "stop?", "stop", "signal", "join", "close"}
Places  == Working \union {"idle", "get", "clear"}
Act     == [pc : Places, on : 0..Shared, buf : Seq(Entries)]

(* Who works on a writer works on one that exists, and a synchronous write *)
(* has at least its own entry to write.                                    *)
OnOK ==
  \A a \in Actors : /\ act[a].pc \in Working => act[a].on \in DOMAIN writers
                    /\ act[a].pc = "sync" => act[a].buf # <<>>

TypeInv == JsonlTypeOK /\ OnOK

LEMMA Typed ==
  JsonlTypeOK <=> /\ writers \in Seq(Writer)
                  /\ tlocal \in [Threads -> 0..Shared]
                  /\ expired \in BOOLEAN
                  /\ tlock \in BOOLEAN
                  /\ act \in [Actors -> Act]
                  /\ logged \in Nat
                  /\ kept \subseteq Entries
                  /\ file \in Seq(Entries)
<1>1. Places = {"idle", "get", "write", "sync", "stop?", "stop", "signal", "join", "close", "clear"}
  BY DEF Places, Working
<1>2. QED
  BY <1>1 DEF JsonlTypeOK, Act

(* Nothing falls out of its type when an entry is added. *)
LEMMA EntriesGrow ==
  ASSUME logged \in Nat, logged' \in {logged, logged + 1}
  PROVE  /\ Entries \subseteq Entries'
         /\ Seq(Entries) \subseteq Seq(Entries')
         /\ Writer \subseteq Writer'
<1>1. Entries \subseteq Entries'
  BY DEF Entries
<1>2. \A s \in Seq(Entries) : s \in Seq(Entries')
  BY <1>1, SeqMonotonic
<1>3. Writer \subseteq Writer'
  BY <1>2 DEF Writer
<1>4. QED
  BY <1>1, <1>2, <1>3

LEMMA WritersGrow ==
  ASSUME writers \in Seq(Writer), logged \in Nat, logged' \in {logged, logged + 1},
         \/ UNCHANGED writers
         \/ writers' = Append(writers, NewWriter)
         \/ \E g \in DOMAIN writers : \E w \in Writer' : Update(g, w)
  PROVE  /\ writers' \in Seq(Writer')
         /\ Shared \in Nat /\ Shared' \in Nat /\ Shared <= Shared'
         /\ DOMAIN writers \subseteq DOMAIN writers'
         /\ DOMAIN writers = 1..Shared /\ DOMAIN writers' = 1..Shared'
<1>1. writers \in Seq(Writer')
  BY EntriesGrow, SeqMonotonic
<1>2. NewWriter \in Writer'
  BY DEF NewWriter, Writer
<1>3. CASE UNCHANGED writers
  BY <1>1, <1>3 DEF Shared
<1>4. CASE writers' = Append(writers, NewWriter)
  BY <1>1, <1>2, <1>4 DEF Shared
<1>5. ASSUME NEW g \in DOMAIN writers, NEW w \in Writer', Update(g, w)
      PROVE  /\ writers' \in Seq(Writer') /\ Len(writers') = Len(writers)
             /\ DOMAIN writers' = DOMAIN writers
  BY <1>1, <1>5, ExceptSeq DEF Update
<1>6. QED
  BY <1>3, <1>4, <1>5 DEF Shared

LEMMA TypeStep ==
  ASSUME JsonlTypeOK, logged' \in {logged, logged + 1},
         \/ UNCHANGED writers
         \/ writers' = Append(writers, NewWriter)
         \/ \E g \in DOMAIN writers : \E w \in Writer' : Update(g, w),
         UNCHANGED act \/ \E a \in Actors : \E r \in Act' : Do(a, r),
         UNCHANGED tlocal \/ \E t \in Threads : tlocal' = [tlocal EXCEPT ![t] = Shared'],
         expired' \in BOOLEAN, tlock' \in BOOLEAN,
         UNCHANGED kept \/ kept' \subseteq Entries',
         UNCHANGED file \/ file' \in Seq(Entries')
  PROVE  JsonlTypeOK'
<1> USE Typed, EntriesGrow
<1>1. /\ writers' \in Seq(Writer') /\ Shared \in Nat /\ Shared' \in Nat /\ Shared <= Shared'
      /\ 0..Shared \subseteq 0..Shared'
  BY WritersGrow
<1>2. Act \subseteq Act'
  BY <1>1 DEF Act
<1>3. act' \in [Actors -> Act']
  BY <1>2 DEF Do
<1>4. tlocal' \in [Threads -> 0..Shared']
  <2>1. Shared' \in 0..Shared' /\ tlocal \in [Threads -> 0..Shared']
    BY <1>1
  <2>2. QED
    BY <2>1
<1>5. kept' \subseteq Entries' /\ file' \in Seq(Entries') /\ logged' \in Nat
  OBVIOUS
<1>6. Places = {"idle", "get", "write", "sync", "stop?", "stop", "signal", "join", "close", "clear"}
  BY DEF Places, Working
<1>7. QED
  BY <1>1, <1>3, <1>4, <1>5, <1>6 DEF JsonlTypeOK, Act

LEMMA TypeInvStep ==
  ASSUME TypeInv, logged' \in {logged, logged + 1},
         \/ UNCHANGED writers
         \/ writers' = Append(writers, NewWriter)
         \/ \E g \in DOMAIN writers : \E w \in Writer' : Update(g, w),
         \/ UNCHANGED act
         \/ \E a \in Actors : \E r \in Act' :
              /\ Do(a, r) /\ (r.pc \in Working => r.on \in DOMAIN writers')
              /\ r.pc = "sync" => r.buf # <<>>,
         UNCHANGED tlocal \/ \E t \in Threads : tlocal' = [tlocal EXCEPT ![t] = Shared'],
         expired' \in BOOLEAN, tlock' \in BOOLEAN,
         UNCHANGED kept \/ kept' \subseteq Entries',
         UNCHANGED file \/ file' \in Seq(Entries')
  PROVE  TypeInv'
<1>1. JsonlTypeOK'
  BY TypeStep DEF TypeInv
<1>2. DOMAIN writers \subseteq DOMAIN writers'
  BY WritersGrow, Typed DEF TypeInv
<1>3. act \in [Actors -> Act]
  BY Typed DEF TypeInv
<1>4. CASE UNCHANGED act
  BY <1>1, <1>2, <1>4 DEF TypeInv, OnOK
<1>5. ASSUME NEW a \in Actors, NEW r, Do(a, r), r.pc \in Working => r.on \in DOMAIN writers',
             r.pc = "sync" => r.buf # <<>>
      PROVE  OnOK'
  <2>1. act'[a] = r /\ \A b \in Actors \ {a} : act'[b] = act[b]
    BY <1>3, <1>5 DEF Do
  <2>2. QED
    BY <1>2, <1>5, <2>1 DEF TypeInv, OnOK
<1>6. QED
  BY <1>1, <1>4, <1>5 DEF TypeInv

(* What an actor that works on a writer may rely on. *)
LEMMA Actor ==
  ASSUME TypeInv, NEW a \in Actors
  PROVE  /\ act[a] \in Act /\ Idle \in Act
         /\ act[a].pc \in Working => /\ act[a].on \in DOMAIN writers
                                     /\ writers[act[a].on] \in Writer
         /\ act[a].pc = "sync" => act[a].buf # <<>>
<1>1. act[a] \in Act
  BY Typed DEF TypeInv
<1>2. Shared \in Nat
  BY Typed DEF TypeInv, Shared
<1>3. Idle \in Act
  BY <1>2 DEF Idle, Act, Places, Working
<1>4. \A g \in DOMAIN writers : writers[g] \in Writer
  BY Typed DEF TypeInv
<1>5. QED
  BY <1>1, <1>3, <1>4 DEF TypeInv, OnOK

LEMMA Activities ==
  ASSUME Shared \in Nat
  PROVE  /\ Idle \in Act /\ Idle.pc = "idle"
         /\ [Idle EXCEPT !.pc = "get"] \in Act /\ [Idle EXCEPT !.pc = "get"].pc = "get"
         /\ [Idle EXCEPT !.pc = "clear"] \in Act /\ [Idle EXCEPT !.pc = "clear"].pc = "clear"
         /\ \A o \in 0..Shared : /\ [Idle EXCEPT !.pc = "stop?", !.on = o] \in Act
                                 /\ [Idle EXCEPT !.pc = "stop?", !.on = o].pc = "stop?"
                                 /\ [Idle EXCEPT !.pc = "stop?", !.on = o].on = o
<1>1. <<>> \in Seq(Entries) /\ 0 \in 0..Shared /\ {"idle", "get", "clear", "stop?"} \subseteq Places
  BY DEF Places, Working
<1>2. QED
  BY <1>1 DEF Idle, Act

LEMMA LogType ==
  ASSUME TypeInv, NEW t \in Threads, Arrive(t) \/ Log(t)
  PROVE  TypeInv'
<1>0. /\ t \in Actors /\ act[t] \in Act /\ Shared \in Nat /\ DOMAIN writers = 1..Shared
      /\ tlocal[t] \in 0..Shared /\ expired \in BOOLEAN /\ tlock \in BOOLEAN /\ logged \in Nat
  BY Actor, Typed DEF TypeInv, Actors, Shared
<1>1. CASE Arrive(t)
  <2>1. UNCHANGED <<writers, tlocal, expired, tlock, logged, kept, file>> /\ Act' = Act
    BY <1>1 DEF Arrive, Act, Shared, Entries
  <2>2. UNCHANGED act \/ \E r \in Act : Do(t, r) /\ (r.pc \in Working => r.on \in DOMAIN writers)
                                       /\ r.pc # "sync"
    <3>1. [Idle EXCEPT !.pc = "get"] \in Act /\ [Idle EXCEPT !.pc = "get"].pc = "get"
      BY <1>0, Activities
    <3>2. Usable(tlocal[t]) => tlocal[t] \in DOMAIN writers
      BY <1>0 DEF Usable
    <3>3. CASE ~expired
      BY <1>1, <3>1, <3>3 DEF Arrive, Working
    <3>4. CASE expired /\ Usable(tlocal[t])
      <4>1. Do(t, [Idle EXCEPT !.pc = "stop?", !.on = tlocal[t]])
        BY <1>1, <3>4 DEF Arrive
      <4>2. QED
        BY <1>0, <3>2, <3>4, <4>1, Activities
    <3>5. CASE expired /\ ~Usable(tlocal[t])
      BY <1>1, <3>5 DEF Arrive
    <3>6. QED
      BY <3>3, <3>4, <3>5
  <2>3. QED
    BY <2>1, <2>2, <1>0, TypeInvStep
<1>2. CASE GetWriter(t)
  <2>1. UNCHANGED <<expired, tlock, logged, kept, file>> /\ Entries' = Entries
    BY <1>2 DEF GetWriter, Entries
  <2>2. UNCHANGED writers \/ writers' = Append(writers, NewWriter)
    BY <1>2 DEF GetWriter
  <2>3. \/ UNCHANGED <<writers, tlocal>> /\ Usable(tlocal[t])
        \/ /\ tlocal' = [tlocal EXCEPT ![t] = Shared']
           /\ \/ UNCHANGED writers /\ Usable(Shared)
              \/ writers' = Append(writers, NewWriter)
    BY <1>2 DEF GetWriter, Shared
  <2>4. tlocal'[t] \in 1..Shared' /\ DOMAIN writers' = 1..Shared'
    BY <2>3, <1>0, Typed DEF TypeInv, Shared, Usable
  <2>5. Do(t, [act[t] EXCEPT !.pc = "write", !.on = tlocal'[t]])
    BY <1>2 DEF GetWriter
  <2>6. [act[t] EXCEPT !.pc = "write", !.on = tlocal'[t]] \in Act'
    <3>1. tlocal'[t] \in 0..Shared'
      BY <2>4
    <3>2. act[t].buf \in Seq(Entries)
      BY <1>0 DEF Act
    <3>3. QED
      BY <1>0, <2>1, <3>1, <3>2 DEF Act, Places, Working
  <2>7. QED
    BY <2>1, <2>2, <2>3, <2>4, <2>5, <2>6, <1>0, TypeInvStep DEF Act
<1>3. CASE Write(t)
  <2> DEFINE g == act[t].on  w == writers[g]  entry == logged + 1  buffer == Append(w.buffer, entry)
  <2>1. g \in DOMAIN writers /\ w \in Writer /\ UNCHANGED <<tlocal, expired, tlock, file>>
    BY <1>0, <1>3, Actor DEF Write, Working
  <2>2. CASE Do(t, Idle) /\ UNCHANGED <<writers, logged, kept>>
    <3>1. Act' = Act /\ Idle \in Act /\ Idle.pc = "idle"
      BY <2>2, <1>0, Actor DEF Act, Shared, Entries, Idle
    <3>2. QED
      BY <2>1, <2>2, <3>1, <1>0, TypeInvStep DEF Working
  <2>3. ASSUME logged' = entry
        PROVE  /\ entry \in Entries' /\ w \in Writer' /\ buffer \in Seq(Entries') /\ buffer # <<>>
               /\ kept \union {entry} \subseteq Entries'
    <3>1. w \in Writer' /\ kept \subseteq Entries'
      BY <2>1, <2>3, <1>0, EntriesGrow, Typed DEF TypeInv
    <3>2. entry \in Entries'
      BY <2>3, <1>0 DEF Entries
    <3>3. w.buffer \in Seq(Entries')
      BY <3>1 DEF Writer
    <3>4. QED
      BY <3>1, <3>2, <3>3
  <2>4. CASE /\ Update(g, [w EXCEPT !.buffer = buffer, !.event = @ \/ Len(buffer) >= FlushThreshold])
             /\ kept' = kept \union {entry} /\ logged' = entry /\ Do(t, Idle)
    <3>1. [w EXCEPT !.buffer = buffer, !.event = @ \/ Len(buffer) >= FlushThreshold] \in Writer'
      BY <2>3, <2>4 DEF Writer
    <3>2. Shared' \in Nat
      BY <2>1, <2>4, <3>1, <1>0, WritersGrow, Typed DEF TypeInv
    <3>3. Idle \in Act' /\ Idle.pc \notin Working /\ Idle.pc # "sync"
      BY <3>2 DEF Idle, Act, Places, Working
    <3>4. QED
      BY <2>1, <2>3, <2>4, <3>1, <3>3, <1>0, TypeInvStep
  <2>5. CASE /\ Update(g, [w EXCEPT !.buffer = <<>>, !.event = FALSE, !.lock = TRUE])
             /\ Do(t, [act[t] EXCEPT !.pc = "sync", !.buf = buffer])
             /\ logged' = entry /\ UNCHANGED kept
    <3>0. <<>> \in Seq(Entries')
      OBVIOUS
    <3>1. [w EXCEPT !.buffer = <<>>, !.event = FALSE, !.lock = TRUE] \in Writer'
      BY <2>3, <2>5, <3>0 DEF Writer
    <3>2. g \in DOMAIN writers' /\ g \in 0..Shared'
      BY <2>1, <2>5, <3>1, <1>0, WritersGrow, Typed DEF TypeInv
    <3>3. [act[t] EXCEPT !.pc = "sync", !.buf = buffer] \in Act'
      BY <2>3, <2>5, <3>2, <1>0 DEF Act, Places, Working
    <3>4. /\ [act[t] EXCEPT !.pc = "sync", !.buf = buffer].on = g
          /\ [act[t] EXCEPT !.pc = "sync", !.buf = buffer].buf = buffer
      BY <1>0 DEF Act
    <3>5. QED
      BY <2>1, <2>3, <2>5, <3>1, <3>2, <3>3, <3>4, <1>0, TypeInvStep
  <2>6. QED
    BY <1>3, <2>2, <2>4, <2>5 DEF Write
<1>4. CASE WriteSync(t)
  <2> DEFINE g == act[t].on  w == writers[g]
  <2>1. /\ g \in DOMAIN writers /\ w \in Writer /\ UNCHANGED <<tlocal, expired, tlock, logged>>
        /\ Do(t, Idle) /\ act[t].buf \in Seq(Entries) /\ act[t].buf # <<>>
    BY <1>0, <1>4, Actor DEF WriteSync, Working, Act
  <2>2. Entries' = Entries /\ Writer' = Writer
    BY <2>1 DEF Entries, Writer
  <2>3. /\ [w EXCEPT !.lock = FALSE] \in Writer
        /\ [w EXCEPT !.lock = FALSE, !.file = "open"] \in Writer
    BY <2>1 DEF Writer
  <2>4. Update(g, [w EXCEPT !.lock = FALSE]) \/ Update(g, [w EXCEPT !.lock = FALSE, !.file = "open"])
    BY <1>4 DEF WriteSync
  <2>5. Shared' \in Nat
    BY <2>1, <2>2, <2>3, <2>4, <1>0, WritersGrow, Typed DEF TypeInv
  <2>6. Idle \in Act' /\ Idle.pc \notin Working /\ Idle.pc # "sync"
    BY <2>5 DEF Idle, Act, Places, Working
  <2>7. Last(act[t].buf) \in Entries
    BY <2>1, EmptySeq DEF Last
  <2>8. /\ UNCHANGED kept \/ kept' \subseteq Entries
        /\ UNCHANGED file \/ file' \in Seq(Entries)
    <3>1. kept \subseteq Entries /\ file \o act[t].buf \in Seq(Entries)
      BY <2>1, Typed, ConcatProperties DEF TypeInv
    <3>2. \/ UNCHANGED <<kept, file>>
          \/ kept' = kept \union {Last(act[t].buf)} /\ file' = file \o act[t].buf
      BY <1>4 DEF WriteSync
    <3>3. QED
      BY <2>7, <3>1, <3>2
  <2>9. QED
    BY <2>1, <2>2, <2>3, <2>4, <2>6, <2>8, <1>0, TypeInvStep
<1>5. QED
  BY <1>1, <1>2, <1>3, <1>4 DEF Log

LEMMA FlushType ==
  ASSUME TypeInv, NEW g \in DOMAIN writers, Flush(g)
  PROVE  TypeInv'
<1> DEFINE w == writers[g]
<1>0. w \in Writer /\ UNCHANGED unchangedByWriter
  BY Typed DEF TypeInv, Flush, Loop, Wake, TakeBuffer, WriteFile
<1>1. Writer' = Writer /\ Entries' = Entries
  BY <1>0 DEF Writer, Entries, unchangedByWriter
<1>2. (\E v \in Writer : Update(g, v)) /\ (UNCHANGED file \/ file' = file \o w.buf)
  <2>0. <<>> \in Seq(Entries)
    OBVIOUS
  <2>1. CASE Loop(g) \/ Wake(g)
    BY <1>0, <2>1 DEF Loop, Wake, Writer
  <2>2. CASE TakeBuffer(g)
    BY <1>0, <2>0, <2>2 DEF TakeBuffer, Writer
  <2>3. CASE WriteFile(g)
    BY <1>0, <2>0, <2>3 DEF WriteFile, Writer
  <2>4. QED
    BY <2>1, <2>2, <2>3 DEF Flush
<1>3. UNCHANGED file \/ file' \in Seq(Entries)
  <2>1. file \in Seq(Entries) /\ w.buf \in Seq(Entries)
    BY <1>0, Typed DEF TypeInv, Writer
  <2>2. QED
    BY <1>2, <2>1, ConcatProperties
<1>4. expired \in BOOLEAN /\ tlock \in BOOLEAN /\ logged \in Nat
  BY Typed DEF TypeInv
<1>5. QED
  BY <1>0, <1>1, <1>2, <1>3, <1>4, TypeInvStep DEF unchangedByWriter

LEMMA ClosingType ==
  ASSUME TypeInv, NEW a \in Actors, Closing(a)
  PROVE  TypeInv'
<1> DEFINE g == act[a].on  w == writers[g]
<1>0. /\ g \in DOMAIN writers /\ w \in Writer /\ act[a] \in Act /\ UNCHANGED unchangedByClose
  BY Actor DEF Closing, StopCheck, StopRaise, StopSignal, StopJoin, CloseFile, Working
<1>1. Writer' = Writer /\ Entries' = Entries
  BY <1>0 DEF Writer, Entries, unchangedByClose
<1>2. UNCHANGED writers \/ \E v \in Writer : Update(g, v)
  BY <1>0 DEF Closing, StopCheck, StopRaise, StopSignal, StopJoin, CloseFile, Writer
<1>3. expired \in BOOLEAN /\ tlock \in BOOLEAN /\ logged \in Nat /\ writers \in Seq(Writer)
  BY Typed DEF TypeInv
<1>4. DOMAIN writers' = DOMAIN writers /\ Shared' = Shared /\ Shared \in Nat
  BY <1>2, <1>3 DEF Update, Shared
<1>5. Act' = Act
  BY <1>1, <1>4 DEF Act
<1>6. \E r \in Act : Do(a, r) /\ r.pc # "sync" /\ (r.pc \in Working => r.on = g)
  <2>1. CASE StopCheck(a) \/ StopRaise(a) \/ StopSignal(a) \/ StopJoin(a)
    <3>1. \A p \in Places : [act[a] EXCEPT !.pc = p] \in Act /\ [act[a] EXCEPT !.pc = p].on = g
                           /\ [act[a] EXCEPT !.pc = p].pc = p
      BY <1>0 DEF Act
    <3>2. \E p \in {"close", "stop", "signal", "join"} : Do(a, [act[a] EXCEPT !.pc = p])
      BY <2>1 DEF StopCheck, StopRaise, StopSignal, StopJoin
    <3>3. QED
      BY <3>1, <3>2 DEF Places, Working
  <2>2. CASE CloseFile(a)
    <3>1. Do(a, [Idle EXCEPT !.pc = "clear"]) \/ Do(a, Idle)
      BY <2>2 DEF CloseFile
    <3>2. "clear" \notin Working /\ "idle" \notin Working
      BY DEF Working
    <3>3. QED
      BY <1>4, <3>1, <3>2, Activities
  <2>3. QED
    BY <2>1, <2>2 DEF Closing
<1>7. QED
  BY <1>0, <1>1, <1>2, <1>3, <1>4, <1>5, <1>6, TypeInvStep DEF unchangedByClose

LEMMA ManagerType ==
  ASSUME TypeInv, BeginClear \/ Clear \/ Expire
  PROVE  TypeInv'
<1>0. /\ Manager \in Actors /\ logged \in Nat /\ expired \in BOOLEAN /\ tlock \in BOOLEAN
      /\ Shared \in Nat /\ DOMAIN writers = 1..Shared
  BY Typed DEF TypeInv, Actors, Shared
<1>1. UNCHANGED <<writers, tlocal, logged, kept, file>> /\ expired' \in BOOLEAN /\ tlock' \in BOOLEAN
  BY <1>0 DEF BeginClear, Clear, Expire
<1>2. Act' = Act
  BY <1>1 DEF Act, Shared, Entries
<1>3. \/ UNCHANGED act
      \/ \E r \in Act : /\ Do(Manager, r)
                        /\ r.pc # "sync"
                        /\ (r.pc \in Working => r.on \in DOMAIN writers)
  <2>1. "clear" \notin Working /\ "idle" \notin Working
    BY DEF Working
  <2>2. UNCHANGED act \/ Do(Manager, Idle) \/ Do(Manager, [Idle EXCEPT !.pc = "clear"])
          \/ (Usable(Shared) /\ Do(Manager, [Idle EXCEPT !.pc = "stop?", !.on = Shared]))
    BY DEF BeginClear, Clear, Expire
  <2>3. Shared \in 0..Shared /\ (Usable(Shared) => Shared \in DOMAIN writers)
    BY <1>0 DEF Usable
  <2>4. /\ [Idle EXCEPT !.pc = "stop?", !.on = Shared] \in Act
        /\ [Idle EXCEPT !.pc = "stop?", !.on = Shared].pc = "stop?"
        /\ [Idle EXCEPT !.pc = "stop?", !.on = Shared].on = Shared
    BY <1>0, <2>3, Activities
  <2>5. CASE Usable(Shared) /\ Do(Manager, [Idle EXCEPT !.pc = "stop?", !.on = Shared])
    BY <2>3, <2>4, <2>5
  <2>6. CASE UNCHANGED act \/ Do(Manager, Idle) \/ Do(Manager, [Idle EXCEPT !.pc = "clear"])
    BY <1>0, <2>1, <2>6, Activities
  <2>7. QED
    BY <2>2, <2>5, <2>6
<1>4. QED
  BY <1>0, <1>1, <1>2, <1>3, TypeInvStep

LEMMA JsonlInitType == JsonlInit => TypeInv
<1> SUFFICES ASSUME JsonlInit PROVE TypeInv
  OBVIOUS
<1>1. writers = <<>> /\ Shared = 0 /\ Entries = {}
  BY DEF JsonlInit, Shared, Entries
<1>2. Idle \in Act /\ Idle.pc = "idle"
  BY <1>1, Activities
<1>3. JsonlTypeOK
  <2>1. <<>> \in Seq(Writer) /\ <<>> \in Seq(Entries) /\ 0 \in 0..Shared
    BY <1>1
  <2>2. QED
    BY <1>1, <1>2, <2>1, Typed DEF JsonlInit
<1>4. QED
  BY <1>2, <1>3 DEF JsonlInit, TypeInv, OnOK, Working

LEMMA JsonlNextType == TypeInv /\ [JsonlNext]_jsonlVars => TypeInv'
<1>1. TypeInv /\ UNCHANGED jsonlVars => TypeInv'
  BY DEF TypeInv, JsonlTypeOK, OnOK, jsonlVars, Entries, Writer, Shared
<1>2. QED
  BY <1>1, LogType, FlushType, ClosingType, ManagerType DEF JsonlNext

(* The state of the returner, its writers and their background threads is  *)
(* well-typed, for any threads and sizes.                                  *)
THEOREM JsonlTypes == JsonlSpec => []JsonlTypeOK
  BY JsonlInitType, JsonlNextType, PTL DEF JsonlSpec, TypeInv

-----------------------------------------------------------------------------
(* What stopping a writer leaves behind.                                   *)

(* A file is closed, and a buffer is written by its caller, only once the  *)
(* writer is stopped; what was taken out of a buffer is held only by who   *)
(* is about to write it.                                                   *)
StopInv ==
  /\ \A g \in DOMAIN writers : /\ writers[g].file = "closed" => writers[g].stop
                               /\ writers[g].pc # "file" => writers[g].buf = <<>>
  /\ \A a \in Actors :
       /\ act[a].pc \in {"sync", "signal", "join", "close"} => writers[act[a].on].stop
       /\ act[a].pc # "sync" => act[a].buf = <<>>

(* A writer v that may follow writer w, and a record r of an actor. *)
Follows(w, v) ==
  /\ w.stop => v.stop
  /\ v.file = "closed" => v.stop
  /\ v.pc # "file" => v.buf = <<>>

(* Once a writer is stopped one stays stopped. *)
StopNext == StopInv' /\ (Stopped => Stopped')

LEMMA StopStep ==
  ASSUME TypeInv, StopInv,
         \/ UNCHANGED writers
         \/ writers' = Append(writers, NewWriter)
         \/ \E g \in DOMAIN writers : \E v : Update(g, v) /\ Follows(writers[g], v),
         \/ UNCHANGED act
         \/ \E a \in Actors : \E r :
              /\ Do(a, r) /\ (r.pc \in {"sync", "signal", "join", "close"} => writers'[r.on].stop)
              /\ (r.pc # "sync" => r.buf = <<>>)
  PROVE  StopNext
<1>0. writers \in Seq(Writer) /\ act \in [Actors -> Act]
  BY Typed DEF TypeInv
<1>1. /\ \A g \in DOMAIN writers : /\ g \in DOMAIN writers'
                                   /\ writers[g].stop => writers'[g].stop
      /\ \A g \in DOMAIN writers' : /\ writers'[g].file = "closed" => writers'[g].stop
                                    /\ writers'[g].pc # "file" => writers'[g].buf = <<>>
  <2>1. CASE UNCHANGED writers
    BY <2>1 DEF StopInv
  <2>2. CASE writers' = Append(writers, NewWriter)
    <3>1. DOMAIN writers' = 1..(Len(writers) + 1) /\ DOMAIN writers = 1..Len(writers)
      BY <1>0, <2>2
    <3>2. writers'[Len(writers) + 1] = NewWriter /\ \A g \in DOMAIN writers : writers'[g] = writers[g]
      BY <1>0, <2>2
    <3>3. NewWriter.file = "unopened" /\ NewWriter.buf = <<>>
      BY DEF NewWriter
    <3>4. Len(writers) \in Nat
      BY <1>0
    <3>5. QED
      BY <3>1, <3>2, <3>3, <3>4 DEF StopInv
  <2>3. ASSUME NEW g \in DOMAIN writers, NEW v, Update(g, v), Follows(writers[g], v)
        PROVE  <1>1!:
    <3>1. DOMAIN writers' = DOMAIN writers /\ writers'[g] = v
          /\ \A h \in DOMAIN writers \ {g} : writers'[h] = writers[h]
      BY <1>0, <2>3 DEF Update
    <3>2. QED
      BY <2>3, <3>1 DEF StopInv, Follows
  <2>4. QED
    BY <2>1, <2>2, <2>3
<1>2. \A a \in Actors : act[a].pc \in {"sync", "signal", "join", "close"} =>
                         act[a].on \in DOMAIN writers /\ writers'[act[a].on].stop
  BY <1>1 DEF TypeInv, OnOK, Working, StopInv
<1>3. CASE UNCHANGED act
  BY <1>1, <1>2, <1>3 DEF StopInv, StopNext, Stopped
<1>4. ASSUME NEW a \in Actors, NEW r, Do(a, r), r.pc # "sync" => r.buf = <<>>,
             r.pc \in {"sync", "signal", "join", "close"} => writers'[r.on].stop
      PROVE  StopNext
  <2>1. act'[a] = r /\ \A b \in Actors \ {a} : act'[b] = act[b]
    BY <1>0, <1>4 DEF Do
  <2>2. \A b \in Actors : /\ act'[b].pc \in {"sync", "signal", "join", "close"} => writers'[act'[b].on].stop
                          /\ act'[b].pc # "sync" => act'[b].buf = <<>>
    BY <1>2, <1>4, <2>1 DEF StopInv
  <2>3. QED
    BY <1>1, <2>2 DEF StopInv, StopNext, Stopped
<1>5. QED
  BY <1>3, <1>4

(* What a step of the background thread of writer g does to its entries:   *)
(* nothing, or it takes the buffer, or it writes what it took, or, when    *)
(* the file was closed under it, it drops that.                            *)
FlushMoves(w, v) ==
  \/ v.buffer = w.buffer /\ v.buf = w.buf /\ UNCHANGED file
  \/ v.buffer = <<>> /\ v.buf = w.buffer /\ w.buf = <<>> /\ UNCHANGED file
  \/ v.buffer = w.buffer /\ v.buf = <<>> /\ file' = file \o w.buf
  \/ v.buffer = w.buffer /\ v.buf = <<>> /\ w.stop /\ UNCHANGED file

LEMMA FlushEffect ==
  ASSUME TypeInv, StopInv, NEW g \in DOMAIN writers, Flush(g)
  PROVE  \E v : /\ Update(g, v) /\ Follows(writers[g], v) /\ FlushMoves(writers[g], v)
                /\ UNCHANGED unchangedByWriter
<1> DEFINE w == writers[g]
<1>0. w \in Writer /\ (w.file = "closed" => w.stop) /\ (w.pc # "file" => w.buf = <<>>)
  BY Typed DEF TypeInv, StopInv
<1>1. CASE Loop(g)
  <2> DEFINE v == [w EXCEPT !.pc = IF w.stop THEN "ended" ELSE "wait"]
  <2>1. Update(g, v) /\ UNCHANGED <<unchangedByWriter, file>> /\ w.pc = "loop"
    BY <1>1 DEF Loop
  <2>2. Follows(w, v) /\ FlushMoves(w, v)
    BY <1>0, <2>1 DEF Writer, Follows, FlushMoves
  <2>3. QED
    BY <2>1, <2>2
<1>2. CASE Wake(g)
  <2> DEFINE v == [w EXCEPT !.pc = "flush", !.force = IF w.event THEN w.stop ELSE TRUE]
  <2>1. Update(g, v) /\ UNCHANGED <<unchangedByWriter, file>> /\ w.pc = "wait"
    BY <1>2 DEF Wake
  <2>2. Follows(w, v) /\ FlushMoves(w, v)
    BY <1>0, <2>1 DEF Writer, Follows, FlushMoves
  <2>3. QED
    BY <2>1, <2>2
<1>3. CASE TakeBuffer(g)
  <2> DEFINE v1 == [w EXCEPT !.event = FALSE, !.pc = "file", !.buf = w.buffer, !.buffer = <<>>]
             v2 == [w EXCEPT !.event = FALSE, !.pc = "loop"]
  <2>1. (Update(g, v1) \/ Update(g, v2)) /\ UNCHANGED <<unchangedByWriter, file>> /\ w.pc = "flush"
    BY <1>3 DEF TakeBuffer
  <2>2. Follows(w, v1) /\ FlushMoves(w, v1)
    BY <1>0, <2>1 DEF Writer, Follows, FlushMoves
  <2>3. Follows(w, v2) /\ FlushMoves(w, v2)
    BY <1>0, <2>1 DEF Writer, Follows, FlushMoves
  <2>4. QED
    BY <2>1, <2>2, <2>3
<1>4. CASE WriteFile(g)
  <2> DEFINE v1 == [w EXCEPT !.stop = TRUE, !.pc = "ended", !.buf = <<>>]
             v2 == [w EXCEPT !.file = "open", !.pc = "loop", !.buf = <<>>]
  <2>1. /\ \/ w.file = "closed" /\ Update(g, v1) /\ UNCHANGED file
           \/ w.file # "closed" /\ Update(g, v2) /\ file' = file \o w.buf
        /\ UNCHANGED unchangedByWriter
    BY <1>4 DEF WriteFile
  <2>2. w.file = "closed" /\ UNCHANGED file => Follows(w, v1) /\ FlushMoves(w, v1)
    BY <1>0 DEF Writer, Follows, FlushMoves
  <2>3. file' = file \o w.buf => Follows(w, v2) /\ FlushMoves(w, v2)
    BY <1>0 DEF Writer, Follows, FlushMoves
  <2>4. QED
    BY <2>1, <2>2, <2>3
<1>5. QED
  BY <1>1, <1>2, <1>3, <1>4 DEF Flush

LEMMA StopKept ==
  ASSUME TypeInv, StopInv, [JsonlNext]_jsonlVars
  PROVE  StopNext
<1>0. /\ \A g \in DOMAIN writers : writers[g] \in Writer
      /\ \A a \in Actors : /\ act[a] \in Act
                           /\ act[a].pc \in Working => act[a].on \in DOMAIN writers
      /\ Threads \subseteq Actors
  BY Actor, Typed DEF TypeInv, Actors
<1>1. ASSUME NEW t \in Threads, Arrive(t) PROVE StopNext
  <2>1. UNCHANGED writers /\ t \in Actors
    BY <1>0, <1>1 DEF Arrive
  <2>2. \/ UNCHANGED act \/ Do(t, [Idle EXCEPT !.pc = "get"])
        \/ Do(t, [Idle EXCEPT !.pc = "stop?", !.on = tlocal[t]])
    BY <1>1 DEF Arrive
  <2>3. /\ [Idle EXCEPT !.pc = "get"].pc = "get" /\ [Idle EXCEPT !.pc = "get"].buf = <<>>
        /\ [Idle EXCEPT !.pc = "stop?", !.on = tlocal[t]].pc = "stop?"
        /\ [Idle EXCEPT !.pc = "stop?", !.on = tlocal[t]].buf = <<>>
    BY DEF Idle
  <2>4. QED
    BY <2>1, <2>2, <2>3, StopStep
<1>2. ASSUME NEW t \in Threads, GetWriter(t) PROVE StopNext
  <2>1. UNCHANGED writers \/ writers' = Append(writers, NewWriter)
    BY <1>2 DEF GetWriter
  <2>2. /\ Do(t, [act[t] EXCEPT !.pc = "write", !.on = tlocal'[t]]) /\ act[t].buf = <<>> /\ act[t] \in Act
        /\ t \in Actors
    BY <1>0, <1>2 DEF GetWriter, StopInv
  <2>3. /\ [act[t] EXCEPT !.pc = "write", !.on = tlocal'[t]].pc = "write"
        /\ [act[t] EXCEPT !.pc = "write", !.on = tlocal'[t]].buf = <<>>
    BY <2>2 DEF Act
  <2>4. QED
    BY <2>1, <2>2, <2>3, StopStep
<1>3. ASSUME NEW t \in Threads, Write(t) PROVE StopNext
  <2> DEFINE g == act[t].on  w == writers[g]  buffer == Append(w.buffer, logged + 1)
             stopped == [act[t] EXCEPT !.pc = "sync", !.buf = buffer]
  <2>1. g \in DOMAIN writers /\ w \in Writer /\ t \in Actors /\ act[t] \in Act
    BY <1>0, <1>3 DEF Write, Working
  <2>2. /\ Follows(w, [w EXCEPT !.buffer = buffer, !.event = @ \/ Len(buffer) >= FlushThreshold])
        /\ Follows(w, [w EXCEPT !.buffer = <<>>, !.event = FALSE, !.lock = TRUE])
        /\ [w EXCEPT !.buffer = <<>>, !.event = FALSE, !.lock = TRUE].stop = w.stop
    BY <2>1 DEF StopInv, Follows, Writer
  <2>3. /\ stopped.pc = "sync" /\ stopped.on = g
        /\ Idle.pc = "idle" /\ Idle.buf = <<>>
    BY <2>1 DEF Act, Idle
  <2>4. CASE Do(t, Idle) /\ UNCHANGED writers
    BY <2>1, <2>3, <2>4, StopStep
  <2>5. CASE /\ Do(t, Idle)
             /\ Update(g, [w EXCEPT !.buffer = buffer, !.event = @ \/ Len(buffer) >= FlushThreshold])
    BY <2>1, <2>2, <2>3, <2>5, StopStep
  <2>6. CASE /\ w.stop /\ Update(g, [w EXCEPT !.buffer = <<>>, !.event = FALSE, !.lock = TRUE])
             /\ Do(t, stopped)
    <3>1. writers'[g].stop
      BY <2>1, <2>2, <2>6, Typed DEF Update, TypeInv
    <3>2. QED
      BY <2>1, <2>2, <2>3, <2>6, <3>1, StopStep
  <2>7. QED
    BY <1>3, <2>4, <2>5, <2>6 DEF Write
<1>4. ASSUME NEW t \in Threads, WriteSync(t) PROVE StopNext
  <2> DEFINE g == act[t].on  w == writers[g]
  <2>1. g \in DOMAIN writers /\ w \in Writer /\ t \in Actors /\ Do(t, Idle) /\ w.stop
    BY <1>0, <1>4 DEF WriteSync, Working, StopInv
  <2>2. Update(g, [w EXCEPT !.lock = FALSE]) \/ Update(g, [w EXCEPT !.lock = FALSE, !.file = "open"])
    BY <1>4 DEF WriteSync
  <2>3. /\ Follows(w, [w EXCEPT !.lock = FALSE])
        /\ Follows(w, [w EXCEPT !.lock = FALSE, !.file = "open"])
        /\ Idle.pc = "idle" /\ Idle.buf = <<>>
    BY <2>1 DEF StopInv, Follows, Writer, Idle
  <2>4. QED
    BY <2>1, <2>2, <2>3, StopStep
<1>5. ASSUME NEW g \in DOMAIN writers, Flush(g) PROVE StopNext
  BY <1>5, FlushEffect, StopStep DEF unchangedByWriter
<1>6. ASSUME NEW a \in Actors, Closing(a) PROVE StopNext
  <2> DEFINE g == act[a].on  w == writers[g]
  <2>1. g \in DOMAIN writers /\ w \in Writer /\ act[a] \in Act
    BY <1>0, <1>6 DEF Closing, StopCheck, StopRaise, StopSignal, StopJoin, CloseFile, Working
  <2>2. \A p \in {"close", "stop", "signal", "join"} :
          /\ [act[a] EXCEPT !.pc = p].pc = p /\ [act[a] EXCEPT !.pc = p].on = g
          /\ act[a].pc # "sync" => [act[a] EXCEPT !.pc = p].buf = <<>>
    BY <2>1 DEF Act, StopInv
  <2>3. CASE StopCheck(a)
    <3>1. \/ Do(a, [act[a] EXCEPT !.pc = "close"]) /\ w.stop
          \/ Do(a, [act[a] EXCEPT !.pc = "stop"])
      BY <2>3 DEF StopCheck
    <3>2. UNCHANGED writers /\ act[a].pc # "sync"
      BY <2>3 DEF StopCheck
    <3>3. QED
      BY <2>2, <3>1, <3>2, StopStep
  <2>4. CASE StopRaise(a)
    <3>1. /\ Update(g, [w EXCEPT !.stop = TRUE]) /\ Do(a, [act[a] EXCEPT !.pc = "signal"])
          /\ act[a].pc # "sync"
      BY <2>4 DEF StopRaise
    <3>2. Follows(w, [w EXCEPT !.stop = TRUE]) /\ [w EXCEPT !.stop = TRUE].stop
      BY <2>1 DEF Follows, Writer, StopInv
    <3>3. writers'[g].stop
      BY <2>1, <3>1, <3>2, Typed DEF Update, TypeInv
    <3>4. QED
      BY <2>1, <2>2, <3>1, <3>2, <3>3, StopStep
  <2>5. CASE StopSignal(a)
    <3>1. /\ Update(g, [w EXCEPT !.event = TRUE]) /\ Do(a, [act[a] EXCEPT !.pc = "join"])
          /\ act[a].pc # "sync" /\ w.stop
      BY <2>5 DEF StopSignal, StopInv
    <3>2. Follows(w, [w EXCEPT !.event = TRUE]) /\ [w EXCEPT !.event = TRUE].stop
      BY <2>1, <3>1 DEF Follows, Writer, StopInv
    <3>3. writers'[g].stop
      BY <2>1, <3>1, <3>2, Typed DEF Update, TypeInv
    <3>4. QED
      BY <2>1, <2>2, <3>1, <3>2, <3>3, StopStep
  <2>6. CASE StopJoin(a)
    BY <2>2, <2>6, StopStep DEF StopJoin, StopInv
  <2>7. CASE CloseFile(a)
    <3>1. Update(g, [w EXCEPT !.file = IF @ = "open" THEN "closed" ELSE @]) /\ w.stop
      BY <2>7 DEF CloseFile, StopInv
    <3>2. Follows(w, [w EXCEPT !.file = IF @ = "open" THEN "closed" ELSE @])
      BY <2>1, <3>1 DEF Follows, Writer, StopInv
    <3>3. Do(a, Idle) \/ Do(a, [Idle EXCEPT !.pc = "clear"])
      BY <2>7 DEF CloseFile
    <3>4. /\ Idle.pc = "idle" /\ Idle.buf = <<>>
          /\ [Idle EXCEPT !.pc = "clear"].pc = "clear" /\ [Idle EXCEPT !.pc = "clear"].buf = <<>>
      BY DEF Idle
    <3>5. QED
      BY <2>1, <3>1, <3>2, <3>3, <3>4, StopStep
  <2>8. QED
    BY <1>6, <2>3, <2>4, <2>5, <2>6, <2>7 DEF Closing
<1>7. CASE BeginClear \/ Clear \/ Expire
  <2>1. UNCHANGED writers /\ Manager \in Actors
    BY <1>7 DEF BeginClear, Clear, Expire, Actors
  <2>2. \/ UNCHANGED act \/ Do(Manager, Idle) \/ Do(Manager, [Idle EXCEPT !.pc = "clear"])
        \/ Do(Manager, [Idle EXCEPT !.pc = "stop?", !.on = Shared])
    BY <1>7 DEF BeginClear, Clear, Expire
  <2>3. /\ Idle.pc = "idle" /\ Idle.buf = <<>>
        /\ [Idle EXCEPT !.pc = "clear"].pc = "clear" /\ [Idle EXCEPT !.pc = "clear"].buf = <<>>
        /\ [Idle EXCEPT !.pc = "stop?", !.on = Shared].pc = "stop?"
        /\ [Idle EXCEPT !.pc = "stop?", !.on = Shared].buf = <<>>
    BY DEF Idle
  <2>4. QED
    BY <2>1, <2>2, <2>3, StopStep
<1>8. CASE UNCHANGED jsonlVars
  BY <1>8, StopStep DEF jsonlVars
<1>9. QED
  BY <1>1, <1>2, <1>3, <1>4, <1>5, <1>6, <1>7, <1>8 DEF JsonlNext, Log

LEMMA StopInit == JsonlInit => StopInv
  BY DEF JsonlInit, StopInv, Idle

-----------------------------------------------------------------------------
(* Nothing is lost, and order is kept, until a writer is stopped.          *)

(* The way of the entries, while there is one writer at most: what is in   *)
(* the file, what was taken to be written, and what is in the buffer.      *)
Line == IF writers = <<>> THEN file ELSE file \o (writers[1].buf \o writers[1].buffer)

LineInv ==
  ~Stopped => /\ Len(writers) <= 1
              /\ kept \subseteq ToSet(Line)
              /\ \A i, j \in DOMAIN Line : i < j => Line[i] < Line[j]

LEMMA AppendAtEnd ==
  ASSUME NEW f \in Seq(Nat), NEW b \in Seq(Nat), NEW c \in Seq(Nat), NEW e \in Nat
  PROVE  f \o (b \o Append(c, e)) = Append(f \o (b \o c), e)
<1>1. b \o Append(c, e) = Append(b \o c, e)
  OBVIOUS
<1>2. \A d \in Seq(Nat) : f \o Append(d, e) = Append(f \o d, e)
  OBVIOUS
<1>3. b \o c \in Seq(Nat)
  BY ConcatProperties
<1>4. QED
  BY <1>1, <1>2, <1>3

LEMMA ClosingEffect ==
  ASSUME TypeInv, StopInv, NEW a \in Actors, Closing(a)
  PROVE  /\ UNCHANGED unchangedByClose
         /\ \/ UNCHANGED writers
            \/ \E g \in DOMAIN writers : \E v :
                 /\ Update(g, v) /\ v.buffer = writers[g].buffer /\ v.buf = writers[g].buf
                 /\ (writers[g].stop => v.stop)
         /\ \E r : Do(a, r) /\ r.buf = act[a].buf
<1> DEFINE g == act[a].on  w == writers[g]
<1>0. /\ g \in DOMAIN writers /\ w \in Writer /\ act[a] \in Act /\ UNCHANGED unchangedByClose
      /\ act[a].buf = <<>>
  BY Actor DEF Closing, StopCheck, StopRaise, StopSignal, StopJoin, CloseFile, Working, StopInv
<1>1. \/ UNCHANGED writers
      \/ \E v : Update(g, v) /\ v.buffer = w.buffer /\ v.buf = w.buf /\ (w.stop => v.stop)
  BY <1>0 DEF Closing, StopCheck, StopRaise, StopSignal, StopJoin, CloseFile, Writer
<1>2. \E r : Do(a, r) /\ r.buf = act[a].buf
  <2>1. \/ \E p \in {"close", "stop", "signal", "join"} : Do(a, [act[a] EXCEPT !.pc = p])
        \/ Do(a, Idle) \/ Do(a, [Idle EXCEPT !.pc = "clear"])
    BY DEF Closing, StopCheck, StopRaise, StopSignal, StopJoin, CloseFile
  <2>2. /\ \A p : [act[a] EXCEPT !.pc = p].buf = act[a].buf
        /\ Idle.buf = <<>> /\ [Idle EXCEPT !.pc = "clear"].buf = <<>>
    BY <1>0 DEF Act, Idle
  <2>3. QED
    BY <1>0, <2>1, <2>2
<1>3. QED
  BY <1>0, <1>1, <1>2

(* The three outcomes of a write: refused, into the buffer, or out of it   *)
(* by the caller itself.                                                   *)
LEMMA WriteEffect ==
  ASSUME TypeInv, StopInv, NEW t \in Threads, Write(t)
  PROVE  /\ act[t].on \in DOMAIN writers /\ act[t].buf = <<>> /\ UNCHANGED file
         /\ \/ UNCHANGED <<writers, logged, kept>> /\ Do(t, Idle)
            \/ /\ logged' = logged + 1 /\ kept' = kept \union {logged + 1} /\ Do(t, Idle)
               /\ \E v : /\ Update(act[t].on, v) /\ v.buf = writers[act[t].on].buf
                         /\ v.buffer = Append(writers[act[t].on].buffer, logged + 1)
                         /\ v.stop = writers[act[t].on].stop
            \/ /\ logged' = logged + 1 /\ kept' = kept /\ writers[act[t].on].stop
               /\ \E v : /\ Update(act[t].on, v) /\ v.buf = writers[act[t].on].buf
                         /\ v.buffer = <<>> /\ v.stop = writers[act[t].on].stop
               /\ \E r : Do(t, r) /\ r.buf = Append(writers[act[t].on].buffer, logged + 1)
<1> DEFINE g == act[t].on  w == writers[g]  buffer == Append(w.buffer, logged + 1)
           v1 == [w EXCEPT !.buffer = buffer, !.event = @ \/ Len(buffer) >= FlushThreshold]
           v2 == [w EXCEPT !.buffer = <<>>, !.event = FALSE, !.lock = TRUE]
           r2 == [act[t] EXCEPT !.pc = "sync", !.buf = buffer]
<1>1. t \in Actors /\ act[t].pc = "write" /\ UNCHANGED file
  BY DEF Write, Actors
<1>2. g \in DOMAIN writers /\ w \in Writer /\ act[t] \in Act /\ act[t].buf = <<>>
  BY <1>1, Actor DEF Working, StopInv
<1>3. /\ v1.buffer = buffer /\ v1.buf = w.buf /\ v1.stop = w.stop
      /\ v2.buffer = <<>> /\ v2.buf = w.buf /\ v2.stop = w.stop
      /\ r2.buf = buffer
  BY <1>2 DEF Writer, Act
<1>4. \/ UNCHANGED <<writers, logged, kept>> /\ Do(t, Idle)
      \/ logged' = logged + 1 /\ kept' = kept \union {logged + 1} /\ Do(t, Idle) /\ Update(g, v1)
      \/ logged' = logged + 1 /\ kept' = kept /\ w.stop /\ Update(g, v2) /\ Do(t, r2)
  BY DEF Write
<1>5. QED
  BY <1>1, <1>2, <1>3, <1>4

LEMMA WriteSyncEffect ==
  ASSUME TypeInv, StopInv, NEW t \in Threads, WriteSync(t)
  PROVE  /\ act[t].on \in DOMAIN writers /\ writers[act[t].on].stop /\ Do(t, Idle)
         /\ UNCHANGED logged /\ (UNCHANGED file \/ file' = file \o act[t].buf)
         /\ \E v : /\ Update(act[t].on, v) /\ v.buf = writers[act[t].on].buf
                   /\ v.buffer = writers[act[t].on].buffer /\ v.stop = writers[act[t].on].stop
<1> DEFINE g == act[t].on  w == writers[g]
<1>1. t \in Actors /\ act[t].pc = "sync" /\ UNCHANGED logged /\ Do(t, Idle)
  BY DEF WriteSync, Actors
<1>2. g \in DOMAIN writers /\ w \in Writer /\ w.stop
  BY <1>1, Actor DEF Working, StopInv
<1>3. /\ [w EXCEPT !.lock = FALSE].buf = w.buf /\ [w EXCEPT !.lock = FALSE].buffer = w.buffer
      /\ [w EXCEPT !.lock = FALSE].stop = w.stop
      /\ [w EXCEPT !.lock = FALSE, !.file = "open"].buf = w.buf
      /\ [w EXCEPT !.lock = FALSE, !.file = "open"].buffer = w.buffer
      /\ [w EXCEPT !.lock = FALSE, !.file = "open"].stop = w.stop
  BY <1>2 DEF Writer
<1>4. \/ Update(g, [w EXCEPT !.lock = FALSE]) /\ UNCHANGED file
      \/ Update(g, [w EXCEPT !.lock = FALSE, !.file = "open"]) /\ file' = file \o act[t].buf
  BY DEF WriteSync
<1>5. QED
  BY <1>1, <1>2, <1>3, <1>4

(* While no writer is stopped a step leaves the line alone, or adds the    *)
(* entry that it keeps at its end.                                         *)
LineMoves ==
  /\ ~Stopped /\ Len(writers') <= 1
  /\ UNCHANGED <<Line, kept>> \/ (Line' = Append(Line, logged + 1) /\ kept' = kept \union {logged + 1})

LEMMA LineStep ==
  ASSUME TypeInv, StopInv, Len(writers) <= 1, [JsonlNext]_jsonlVars, ~Stopped'
  PROVE  LineMoves
<1>0. /\ writers \in Seq(Writer) /\ \A g \in DOMAIN writers : writers[g] \in Writer /\ g = 1
      /\ file \in Seq(Nat) /\ logged \in Nat /\ Threads \subseteq Actors
      /\ \A w \in Writer : w.buf \in Seq(Nat) /\ w.buffer \in Seq(Nat)
  <2>1. writers \in Seq(Writer) /\ file \in Seq(Entries) /\ logged \in Nat
    BY Typed DEF TypeInv
  <2>2. DOMAIN writers \subseteq {1} /\ \A g \in DOMAIN writers : writers[g] \in Writer
    BY <2>1
  <2>3. Entries \subseteq Nat
    BY <2>1 DEF Entries
  <2>4. file \in Seq(Nat) /\ \A w \in Writer : w.buf \in Seq(Nat) /\ w.buffer \in Seq(Nat)
    BY <2>1, <2>3, SeqMonotonic DEF Writer
  <2>5. QED
    BY <2>1, <2>2, <2>4 DEF Actors
<1>f. file \in Seq(Nat) /\ logged \in Nat
  BY <1>0
<1>1. CASE UNCHANGED <<writers, file, kept>>
  BY <1>1 DEF Stopped, Line, LineMoves
<1>2. ASSUME NEW g \in DOMAIN writers, NEW v, Update(g, v)
      PROVE  /\ g = 1 /\ writers # <<>> /\ writers' # <<>> /\ Len(writers') <= 1 /\ writers'[1] = v
             /\ (~Stopped \/ (writers[1].stop /\ ~v.stop))
  <2>1. g = 1 /\ DOMAIN writers = {1} /\ writers # <<>>
    <3>1. Len(writers) \in Nat /\ DOMAIN writers = 1..Len(writers) /\ (writers = <<>> => Len(writers) = 0)
      BY <1>0
    <3>2. Len(writers) = 1
      BY <1>2, <3>1
    <3>3. QED
      BY <1>2, <3>1, <3>2
  <2>2. writers' \in [{1} -> {v}] /\ Len(writers') = Len(writers) /\ writers' # <<>>
    BY <1>0, <1>2, <2>1 DEF Update
  <2>3. QED
    BY <2>1, <2>2 DEF Stopped
<1>3. ASSUME NEW t \in Threads, GetWriter(t) PROVE LineMoves
  <2>1. UNCHANGED <<file, kept>> /\ (UNCHANGED writers \/ (~Usable(Shared) /\ writers' = Append(writers, NewWriter)))
    BY <1>3 DEF GetWriter
  <2>2. CASE UNCHANGED writers
    BY <1>1, <2>1, <2>2
  <2>3. CASE ~Usable(Shared) /\ writers' = Append(writers, NewWriter)
    <3>1. Len(writers) \in Nat /\ (Len(writers) = 0 => writers = <<>>)
      BY <1>0
    <3>2. CASE writers = <<>>
      <4>1. /\ Len(writers') = 1 /\ writers'[1] = NewWriter /\ writers' # <<>>
            /\ NewWriter.buf = <<>> /\ NewWriter.buffer = <<>>
        BY <2>3, <3>2 DEF NewWriter
      <4>2. file \o (<<>> \o <<>>) = file
        BY <1>0
      <4>3. UNCHANGED <<Line, kept>>
        BY <2>1, <3>2, <4>1, <4>2 DEF Line
      <4>4. ~Stopped
        BY <3>2 DEF Stopped
      <4>5. QED
        BY <4>1, <4>3, <4>4 DEF LineMoves
    <3>3. CASE Len(writers) = 1
      <4>1. writers[1].file = "closed" /\ 1 \in DOMAIN writers
        BY <1>0, <2>3, <3>3 DEF Usable, Shared
      <4>2. writers[1].stop
        BY <4>1 DEF StopInv
      <4>3. 1 \in DOMAIN writers' /\ writers'[1] = writers[1]
        BY <1>0, <2>3, <3>3
      <4>4. QED
        BY <4>2, <4>3 DEF Stopped
    <3>4. Len(writers) = 0 \/ Len(writers) = 1
      <4> DEFINE n == Len(writers)
      <4>1. n \in Nat /\ n <= 1
        BY <3>1
      <4> HIDE DEF n
      <4>2. n = 0 \/ n = 1
        BY <4>1
      <4>3. QED
        BY <4>2 DEF n
    <3>5. QED
      BY <3>1, <3>2, <3>3, <3>4
  <2>4. QED
    BY <2>1, <2>2, <2>3
<1>4. ASSUME NEW t \in Threads, Write(t) PROVE LineMoves
  <2> DEFINE g == act[t].on  w == writers[g]
  <2>1. g \in DOMAIN writers /\ UNCHANGED file
    BY <1>4, WriteEffect
  <2>2. CASE UNCHANGED <<writers, logged, kept>>
    BY <1>1, <2>1, <2>2
  <2>3. ASSUME NEW v, Update(g, v), v.buf = w.buf, v.buffer = Append(w.buffer, logged + 1),
               v.stop = w.stop, kept' = kept \union {logged + 1}
        PROVE  LineMoves
    <3>1. /\ g = 1 /\ writers # <<>> /\ writers' # <<>> /\ Len(writers') <= 1 /\ writers'[1] = v
          /\ ~Stopped
      BY <1>2, <2>1, <2>3
    <3>2. writers[1].buf \in Seq(Nat) /\ writers[1].buffer \in Seq(Nat)
      BY <1>0, <2>1, <3>1
    <3>3. Line' = Append(Line, logged + 1)
      <4>1. file \o (writers[1].buf \o Append(writers[1].buffer, logged + 1))
              = Append(file \o (writers[1].buf \o writers[1].buffer), logged + 1)
        <5> DEFINE f == file  b == writers[1].buf  c == writers[1].buffer  e == logged + 1
        <5>1. f \in Seq(Nat) /\ b \in Seq(Nat) /\ c \in Seq(Nat) /\ e \in Nat
          BY <1>f, <3>2
        <5> HIDE DEF f, b, c, e
        <5>2. f \o (b \o Append(c, e)) = Append(f \o (b \o c), e)
          BY <5>1, AppendAtEnd
        <5>3. QED
          BY <5>2 DEF f, b, c, e
      <4>2. QED
        BY <2>1, <2>3, <3>1, <4>1 DEF Line
    <3>4. QED
      BY <2>3, <3>1, <3>3 DEF LineMoves
  <2>4. ASSUME NEW v, Update(g, v), v.stop = w.stop, w.stop PROVE FALSE
    BY <1>2, <2>1, <2>4 DEF Stopped
  <2>5. QED
    BY <1>4, <2>2, <2>3, <2>4, WriteEffect
<1>5. ASSUME NEW t \in Threads, WriteSync(t) PROVE FALSE
  <2>1. /\ act[t].on \in DOMAIN writers /\ writers[act[t].on].stop
        /\ \E v : Update(act[t].on, v) /\ v.stop = writers[act[t].on].stop
    BY <1>5, WriteSyncEffect
  <2>2. QED
    BY <1>2, <2>1 DEF Stopped
<1>6. ASSUME NEW g \in DOMAIN writers, Flush(g) PROVE LineMoves
  <2> DEFINE w == writers[g]
  <2>1. PICK v : Update(g, v) /\ Follows(w, v) /\ FlushMoves(w, v) /\ UNCHANGED unchangedByWriter
    BY <1>6, FlushEffect
  <2>2. /\ g = 1 /\ writers # <<>> /\ writers' # <<>> /\ Len(writers') <= 1 /\ writers'[1] = v
        /\ ~Stopped
    BY <1>2, <2>1 DEF Follows
  <2>3. ~w.stop
    BY <2>2 DEF Stopped
  <2>4. w.buf \in Seq(Nat) /\ w.buffer \in Seq(Nat)
    BY <1>0
  <2>5. /\ w.buf = <<>> => w.buf \o w.buffer = w.buffer \o <<>>
        /\ (file \o w.buf) \o (<<>> \o w.buffer) = file \o (w.buf \o w.buffer)
    <3>1. <<>> \o w.buffer = w.buffer /\ w.buffer \o <<>> = w.buffer
      BY <2>4, ConcatEmptySeq
    <3>2. (file \o w.buf) \o w.buffer = file \o (w.buf \o w.buffer)
      <4> DEFINE f == file  b == w.buf  c == w.buffer
      <4>1. f \in Seq(Nat) /\ b \in Seq(Nat) /\ c \in Seq(Nat)
        BY <1>f, <2>4
      <4> HIDE DEF f, b, c
      <4>2. (f \o b) \o c = f \o (b \o c)
        BY <4>1, ConcatAssociative
      <4>3. QED
        BY <4>2 DEF f, b, c
    <3>3. QED
      BY <3>1, <3>2
  <2>6. Line' = Line
    BY <2>1, <2>2, <2>3, <2>5 DEF FlushMoves, Line
  <2>7. QED
    BY <2>1, <2>2, <2>6 DEF unchangedByWriter, LineMoves
<1>7. ASSUME NEW a \in Actors, Closing(a) PROVE LineMoves
  <2>1. UNCHANGED unchangedByClose
    BY <1>7, ClosingEffect
  <2>2. CASE UNCHANGED writers
    BY <1>1, <2>1, <2>2 DEF unchangedByClose
  <2>3. ASSUME NEW g \in DOMAIN writers, NEW v, Update(g, v), v.buffer = writers[g].buffer,
               v.buf = writers[g].buf, writers[g].stop => v.stop
        PROVE  LineMoves
    <3>1. /\ g = 1 /\ writers # <<>> /\ writers' # <<>> /\ Len(writers') <= 1 /\ writers'[1] = v
          /\ ~Stopped
      BY <1>2, <2>3
    <3>2. QED
      BY <2>1, <2>3, <3>1 DEF Line, unchangedByClose, LineMoves
  <2>4. QED
    BY <1>7, <2>2, <2>3, ClosingEffect
<1>8. CASE \/ BeginClear \/ Clear \/ Expire \/ UNCHANGED jsonlVars
           \/ \E t \in Threads : Arrive(t)
  BY <1>1, <1>8 DEF BeginClear, Clear, Expire, jsonlVars, Arrive
<1>9. QED
  BY <1>3, <1>4, <1>5, <1>6, <1>7, <1>8 DEF JsonlNext, Log

LEMMA LineKept ==
  ASSUME TypeInv, StopInv, LineInv, [JsonlNext]_jsonlVars
  PROVE  LineInv'
<1> SUFFICES ASSUME ~Stopped' PROVE LineInv'
  BY DEF LineInv
<1>0. Line \in Seq(Entries) /\ logged \in Nat
  <2>1. /\ file \in Seq(Entries) /\ logged \in Nat
        /\ writers # <<>> => writers[1].buf \in Seq(Entries) /\ writers[1].buffer \in Seq(Entries)
    <3>1. writers \in Seq(Writer) /\ file \in Seq(Entries) /\ logged \in Nat
      BY Typed DEF TypeInv
    <3>2. ASSUME writers # <<>> PROVE writers[1] \in Writer
      BY <3>1, <3>2, EmptySeq, ElementOfSeq
    <3>3. ASSUME writers[1] \in Writer
          PROVE  writers[1].buf \in Seq(Entries) /\ writers[1].buffer \in Seq(Entries)
      BY <3>3 DEF Writer
    <3>4. QED
      BY <3>1, <3>2, <3>3
  <2>2. writers # <<>> => Line \in Seq(Entries)
    <3> DEFINE f == file  b == writers[1].buf  c == writers[1].buffer
    <3> SUFFICES ASSUME writers # <<>> PROVE f \o (b \o c) \in Seq(Entries)
      BY DEF Line
    <3>1. f \in Seq(Entries) /\ b \in Seq(Entries) /\ c \in Seq(Entries)
      BY <2>1
    <3> HIDE DEF f, b, c
    <3>2. QED
      BY <3>1, ConcatProperties
  <2>3. QED
    BY <2>1, <2>2 DEF Line
<1>1. Len(writers) <= 1
  <2>1. Stopped \/ Len(writers) <= 1
    BY DEF LineInv
  <2>2. Stopped => Stopped'
    BY StopKept DEF StopNext
  <2>3. QED
    BY <2>1, <2>2
<1>2. LineMoves
  BY <1>1, LineStep
<1>3. /\ ~Stopped /\ Len(writers') <= 1 /\ kept \subseteq ToSet(Line)
      /\ \A i, j \in DOMAIN Line : i < j => Line[i] < Line[j]
  BY <1>2 DEF LineInv, LineMoves
<1>4. CASE UNCHANGED <<Line, kept>>
  BY <1>3, <1>4 DEF LineInv
<1>5. CASE Line' = Append(Line, logged + 1) /\ kept' = kept \union {logged + 1}
  <2>1. /\ Line' \in Seq(Nat) /\ Len(Line') = Len(Line) + 1 /\ Line'[Len(Line) + 1] = logged + 1
        /\ \A i \in DOMAIN Line : Line'[i] = Line[i] /\ Line[i] \in Nat /\ Line[i] <= logged
        /\ DOMAIN Line = 1..Len(Line) /\ DOMAIN Line' = 1..(Len(Line) + 1) /\ Len(Line) \in Nat
    BY <1>0, <1>5 DEF Entries
  <2>2. kept' \subseteq ToSet(Line')
    BY <1>3, <1>5, <2>1 DEF ToSet
  <2>3. ASSUME NEW i \in DOMAIN Line', NEW j \in DOMAIN Line', i < j
        PROVE  Line'[i] < Line'[j]
    <3>1. i \in DOMAIN Line
      BY <2>1, <2>3
    <3>2. CASE j \in DOMAIN Line
      BY <1>3, <2>1, <2>3, <3>1, <3>2
    <3>3. CASE j = Len(Line) + 1
      BY <1>0, <2>1, <3>1, <3>3
    <3>4. QED
      BY <2>1, <3>2, <3>3
  <2>4. QED
    BY <1>3, <2>2, <2>3 DEF LineInv
<1>6. QED
  BY <1>2, <1>4, <1>5 DEF LineMoves

LEMMA LineInit == JsonlInit => LineInv
<1> SUFFICES ASSUME JsonlInit PROVE LineInv
  OBVIOUS
<1>1. writers = <<>> /\ kept = {} /\ Line = <<>> /\ Len(writers) = 0
  BY DEF JsonlInit, Line
<1>2. QED
  BY <1>1 DEF LineInv

(* The line begins with the file, and what it holds beyond that is in the  *)
(* hands of the one writer.                                                *)
LEMMA ThreeParts ==
  ASSUME NEW f \in Seq(Nat), NEW b \in Seq(Nat), NEW c \in Seq(Nat)
  PROVE  /\ \A i \in DOMAIN f : i \in DOMAIN (f \o (b \o c)) /\ (f \o (b \o c))[i] = f[i]
         /\ ToSet(f \o (b \o c)) \subseteq ToSet(f) \union ToSet(b) \union ToSet(c)
<1>1. \A s, r \in Seq(Nat) :
        /\ s \o r \in Seq(Nat)
        /\ \A i \in DOMAIN s : i \in DOMAIN (s \o r) /\ (s \o r)[i] = s[i]
        /\ ToSet(s \o r) \subseteq ToSet(s) \union ToSet(r)
  <2> TAKE s \in Seq(Nat), r \in Seq(Nat)
  <2>1. /\ s \o r \in Seq(Nat) /\ Len(s \o r) = Len(s) + Len(r)
        /\ \A i \in 1..Len(s) + Len(r) : (s \o r)[i] = IF i <= Len(s) THEN s[i] ELSE r[i - Len(s)]
    BY ConcatProperties
  <2>2. /\ DOMAIN s = 1..Len(s) /\ DOMAIN r = 1..Len(r) /\ DOMAIN (s \o r) = 1..(Len(s) + Len(r))
        /\ Len(s) \in Nat /\ Len(r) \in Nat
    BY <2>1
  <2>3. ASSUME NEW i \in DOMAIN (s \o r) PROVE (s \o r)[i] \in ToSet(s) \union ToSet(r)
    <3>1. CASE i <= Len(s)
      BY <2>1, <2>2, <3>1 DEF ToSet
    <3>2. CASE ~(i <= Len(s))
      <4>1. i - Len(s) \in DOMAIN r
        BY <2>2, <3>2
      <4>2. QED
        BY <2>1, <2>2, <3>2, <4>1 DEF ToSet
    <3>3. QED
      BY <3>1, <3>2
  <2>4. ToSet(s \o r) \subseteq ToSet(s) \union ToSet(r)
    <3>1. SUFFICES ASSUME NEW e \in ToSet(s \o r) PROVE e \in ToSet(s) \union ToSet(r)
      OBVIOUS
    <3>2. PICK i \in DOMAIN (s \o r) : e = (s \o r)[i]
      BY <3>1 DEF ToSet
    <3>3. QED
      BY <2>3, <3>2
  <2>5. ASSUME NEW i \in DOMAIN s PROVE i \in DOMAIN (s \o r) /\ (s \o r)[i] = s[i]
    <3>1. i \in 1..Len(s) /\ i \in 1..(Len(s) + Len(r))
      BY <2>2
    <3>2. QED
      BY <2>1, <2>2, <3>1
  <2>6. QED
    BY <2>1, <2>4, <2>5
<1>2. b \o c \in Seq(Nat)
  BY <1>1
<1>3. QED
  BY <1>1, <1>2

LEMMA FileIsFirst ==
  ASSUME TypeInv
  PROVE  /\ \A i \in DOMAIN file : i \in DOMAIN Line /\ Line[i] = file[i]
         /\ ToSet(Line) \subseteq ToSet(file) \union Buffered
<1>1. CASE writers = <<>>
  BY <1>1 DEF Line
<1>2. CASE writers # <<>>
  <2> DEFINE f == file  b == writers[1].buf  c == writers[1].buffer
  <2>1. writers[1] \in Writer /\ 1 \in DOMAIN writers /\ file \in Seq(Entries) /\ Entries \subseteq Nat
    BY <1>2, Typed, EmptySeq, ElementOfSeq DEF TypeInv, Entries
  <2>2. f \in Seq(Nat) /\ b \in Seq(Nat) /\ c \in Seq(Nat)
    BY <2>1, SeqMonotonic DEF Writer
  <2>3. ToSet(b) \subseteq Buffered /\ ToSet(c) \subseteq Buffered
    BY <2>1 DEF Buffered
  <2>4. Line = f \o (b \o c)
    BY <1>2 DEF Line
  <2> HIDE DEF f, b, c
  <2>5. /\ \A i \in DOMAIN f : i \in DOMAIN Line /\ Line[i] = f[i]
        /\ ToSet(Line) \subseteq ToSet(f) \union ToSet(b) \union ToSet(c)
    BY <2>2, <2>4, ThreeParts
  <2>6. QED
    BY <2>3, <2>5 DEF f
<1>3. QED
  BY <1>1, <1>2

LineInvariants == TypeInv /\ StopInv /\ LineInv

LEMMA JsonlLines == JsonlSpec => []LineInvariants
<1>1. JsonlInit => LineInvariants
  BY JsonlInitType, StopInit, LineInit DEF LineInvariants
<1>2. LineInvariants /\ [JsonlNext]_jsonlVars => LineInvariants'
  BY JsonlNextType, StopKept, LineKept DEF LineInvariants, StopNext
<1>3. QED
  BY <1>1, <1>2, PTL DEF JsonlSpec

(* Until a writer is stopped an entry whose write returned is in the file, *)
(* or in the buffer, or in the hands of the thread that writes it, however *)
(* the threads, the background thread and an expiration interleave.        *)
THEOREM NothingIsLostUntilStopped == JsonlSpec => []NothingLostUntilStopped
<1>1. LineInvariants => NothingLostUntilStopped
  BY FileIsFirst DEF LineInvariants, LineInv, NothingLostUntilStopped, NothingLost
<1>2. QED
  BY <1>1, JsonlLines, PTL

-----------------------------------------------------------------------------
(* No entry is written twice.                                              *)

(* Where an entry can be: in the file, in the buffer of a writer, taken    *)
(* out of it by the background thread, or taken out by the caller itself.  *)
AtFile      == <<"file", 0>>
InBuffer(n) == <<"buffer", n>>
InFlight(n) == <<"flight", n>>
InSync(a)   == <<"sync", a>>
Spots == {AtFile} \union {InBuffer(n) : n \in Nat} \union {InFlight(n) : n \in Nat}
           \union {InSync(a) : a \in Actors}

LaneOf(ws, as, fl) ==
  [p \in Spots |->
     CASE p[1] = "file" -> fl
       [] p[1] = "sync" -> as[p[2]].buf
       [] p[1] = "buffer" /\ p[2] \in DOMAIN ws -> ws[p[2]].buffer
       [] p[1] = "flight" /\ p[2] \in DOMAIN ws -> ws[p[2]].buf
       [] OTHER -> <<>>]

Lanes == [Spots -> Seq(Nat)]

(* An entry is in one place, once. *)
Apart(f) ==
  \A p, q \in Spots : \A i \in DOMAIN f[p], j \in DOMAIN f[q] :
    f[p][i] = f[q][j] => p = q /\ i = j

(* Emptying lanes keeps the others apart. *)
LEMMA Emptied ==
  ASSUME NEW f, NEW h, Apart(f), \A p \in Spots : h[p] = f[p] \/ h[p] = <<>>
  PROVE  Apart(h)
  BY DEF Apart

NotIn(f, e) == \A p \in Spots : \A i \in DOMAIN f[p] : f[p][i] # e

LEMMA Added ==
  ASSUME NEW f \in Lanes, NEW h, NEW q \in Spots, NEW e \in Nat, Apart(f), NotIn(f, e),
         h[q] = Append(f[q], e), \A p \in Spots \ {q} : h[p] = f[p]
  PROVE  Apart(h)
<1> USE DEF NotIn
<1>1. /\ f[q] \in Seq(Nat) /\ Len(f[q]) \in Nat /\ DOMAIN f[q] = 1..Len(f[q])
      /\ Len(h[q]) = Len(f[q]) + 1 /\ DOMAIN h[q] = 1..(Len(f[q]) + 1)
      /\ \A i \in 1..Len(f[q]) : h[q][i] = f[q][i]
      /\ h[q][Len(f[q]) + 1] = e
  <2> DEFINE s == f[q]
  <2>1. s \in Seq(Nat)
    BY DEF Lanes
  <2> HIDE DEF s
  <2>2. /\ Append(s, e) \in Seq(Nat) /\ Len(Append(s, e)) = Len(s) + 1 /\ Append(s, e)[Len(s) + 1] = e
        /\ \A i \in 1..Len(s) : Append(s, e)[i] = s[i]
    BY <2>1, AppendProperties
  <2>3. Len(s) \in Nat /\ DOMAIN s = 1..Len(s) /\ DOMAIN Append(s, e) = 1..(Len(s) + 1)
    BY <2>1, <2>2
  <2>4. QED
    BY <2>1, <2>2, <2>3 DEF s
<1>2. \A p \in Spots : \A i \in DOMAIN h[p] :
        \/ i \in DOMAIN f[p] /\ h[p][i] = f[p][i]
        \/ p = q /\ i = Len(f[q]) + 1 /\ h[p][i] = e
  <2> TAKE p \in Spots
  <2>1. CASE p = q
    <3>1. \A i \in DOMAIN h[q] : i \in 1..Len(f[q]) \/ i = Len(f[q]) + 1
      BY <1>1
    <3>2. QED
      BY <1>1, <2>1, <3>1
  <2>2. CASE p # q
    BY <2>2
  <2>3. QED
    BY <2>1, <2>2
<1>3. QED
  BY <1>2 DEF Apart

(* From f to h the n entries of q are followed by those of p. *)
Joins(f, h, p, q, n) ==
  /\ DOMAIN h[p] = {}
  /\ \A r \in Spots \ {p, q} : h[r] = f[r]
  /\ \A i \in DOMAIN h[q] :
       \/ i \in DOMAIN f[q] /\ i \in Nat /\ i <= n /\ h[q][i] = f[q][i]
       \/ i \in Nat /\ i > n /\ i - n \in DOMAIN f[p] /\ h[q][i] = f[p][i - n]

LEMMA Joined ==
  ASSUME NEW f, NEW h, NEW p \in Spots, NEW q \in Spots, NEW n \in Nat, p # q, Apart(f),
         Joins(f, h, p, q, n)
  PROVE  Apart(h)
<1> USE DEF Joins
<1>1. ASSUME NEW r \in Spots, NEW s \in Spots, NEW i \in DOMAIN f[r], NEW j \in DOMAIN f[s],
             f[r][i] = f[s][j]
      PROVE  r = s /\ i = j
  BY <1>1 DEF Apart
<1>2. ASSUME NEW i \in DOMAIN h[q], NEW j \in DOMAIN h[q], h[q][i] = h[q][j] PROVE i = j
  <2>1. CASE i <= n /\ j <= n
    BY <1>1, <1>2, <2>1
  <2>2. CASE i > n /\ j > n
    <3>1. i - n = j - n /\ i \in Nat /\ j \in Nat
      BY <1>1, <1>2, <2>2
    <3>2. QED
      BY <3>1
  <2>3. QED
    BY <1>1, <1>2, <2>1, <2>2
<1>3. ASSUME NEW r \in Spots, r # q, NEW i \in DOMAIN h[q], NEW j \in DOMAIN h[r]
      PROVE  h[q][i] # h[r][j]
  <2>1. r # p /\ h[r] = f[r]
    BY <1>3
  <2>2. \/ i \in DOMAIN f[q] /\ h[q][i] = f[q][i]
        \/ i - n \in DOMAIN f[p] /\ h[q][i] = f[p][i - n]
    OBVIOUS
  <2>3. QED
    BY <1>1, <1>3, <2>1, <2>2
<1>4. ASSUME NEW r \in Spots, NEW s \in Spots, r # q, s # q,
             NEW i \in DOMAIN h[r], NEW j \in DOMAIN h[s], h[r][i] = h[s][j]
      PROVE  r = s /\ i = j
  <2>1. r # p /\ s # p /\ h[r] = f[r] /\ h[s] = f[s]
    BY <1>4
  <2>2. QED
    BY <1>1, <1>4, <2>1
<1>5. ASSUME NEW r \in Spots, NEW s \in Spots, NEW i \in DOMAIN h[r], NEW j \in DOMAIN h[s],
             h[r][i] = h[s][j]
      PROVE  r = s /\ i = j
  <2>1. CASE r = q /\ s = q
    BY <1>2, <1>5, <2>1
  <2>2. CASE r # q /\ s # q
    BY <1>4, <1>5, <2>2
  <2>3. CASE r = q /\ s # q
    BY <1>3, <1>5, <2>3
  <2>4. CASE r # q /\ s = q
    BY <1>3, <1>5, <2>4
  <2>5. QED
    BY <2>1, <2>2, <2>3, <2>4
<1>6. QED
  BY <1>5 DEF Apart

MovesTo(f, h, p, q) ==
  p # q /\ h[q] = f[q] \o f[p] /\ h[p] = <<>> /\ \A r \in Spots \ {p, q} : h[r] = f[r]

LEMMA Moved ==
  ASSUME NEW f \in Lanes, NEW h, NEW p \in Spots, NEW q \in Spots, Apart(f), MovesTo(f, h, p, q)
  PROVE  Apart(h)
<1> USE DEF MovesTo
<1> DEFINE n == Len(f[q])
<1>1. /\ n \in Nat
      /\ \A i \in DOMAIN h[q] : \/ i \in DOMAIN f[q] /\ i \in Nat /\ i <= n /\ h[q][i] = f[q][i]
                                \/ i \in Nat /\ i > n /\ i - n \in DOMAIN f[p] /\ h[q][i] = f[p][i - n]
  <2> DEFINE s == f[q]  r == f[p]
  <2>1. s \in Seq(Nat) /\ r \in Seq(Nat)
    BY DEF Lanes
  <2> HIDE DEF s, r
  <2>2. /\ s \o r \in Seq(Nat) /\ Len(s \o r) = Len(s) + Len(r)
        /\ \A i \in 1..Len(s) + Len(r) : (s \o r)[i] = IF i <= Len(s) THEN s[i] ELSE r[i - Len(s)]
    BY <2>1, ConcatProperties
  <2>3. /\ DOMAIN s = 1..Len(s) /\ DOMAIN r = 1..Len(r) /\ DOMAIN (s \o r) = 1..(Len(s) + Len(r))
        /\ Len(s) \in Nat /\ Len(r) \in Nat
    BY <2>1, <2>2
  <2>4. ASSUME NEW i \in DOMAIN (s \o r)
        PROVE  \/ i \in DOMAIN s /\ i \in Nat /\ i <= Len(s) /\ (s \o r)[i] = s[i]
               \/ i \in Nat /\ i > Len(s) /\ i - Len(s) \in DOMAIN r /\ (s \o r)[i] = r[i - Len(s)]
    BY <2>2, <2>3
  <2>5. QED
    BY <2>3, <2>4 DEF s, r
<1>2. DOMAIN h[p] = {}
  OBVIOUS
<1> HIDE DEF n
<1>3. Joins(f, h, p, q, n)
  BY <1>1, <1>2 DEF Joins
<1>4. QED
  BY <1>1, <1>3, Joined

LEMMA SpotNames ==
  /\ AtFile \in Spots
  /\ \A n \in Nat : InBuffer(n) \in Spots /\ InFlight(n) \in Spots
  /\ \A a \in Actors : InSync(a) \in Spots
  /\ \A p \in Spots : \/ p = AtFile
                      \/ \E n \in Nat : p = InBuffer(n) \/ p = InFlight(n)
                      \/ \E a \in Actors : p = InSync(a)
  BY DEF Spots

LEMMA NamesDiffer ==
  /\ \A n, m : /\ InBuffer(n) = InBuffer(m) => n = m
               /\ InFlight(n) = InFlight(m) => n = m
               /\ InSync(n) = InSync(m) => n = m
               /\ AtFile # InBuffer(n) /\ AtFile # InFlight(n) /\ AtFile # InSync(n)
               /\ InBuffer(n) # InFlight(m) /\ InBuffer(n) # InSync(m) /\ InFlight(n) # InSync(m)
  BY DEF AtFile, InBuffer, InFlight, InSync

Reads(h, ws, as, fl) ==
  /\ h[AtFile] = fl
  /\ \A n \in Nat : /\ h[InBuffer(n)] = IF n \in DOMAIN ws THEN ws[n].buffer ELSE <<>>
                    /\ h[InFlight(n)] = IF n \in DOMAIN ws THEN ws[n].buf ELSE <<>>
  /\ \A a \in Actors : h[InSync(a)] = as[a].buf

LEMMA LaneAt ==
  ASSUME NEW ws, NEW as, NEW fl
  PROVE  Reads(LaneOf(ws, as, fl), ws, as, fl)
  BY SpotNames DEF Reads, LaneOf, AtFile, InBuffer, InFlight, InSync

(* What a change of a variable does to the lanes. *)
SameWriters(f, h, N) == \A n \in N : /\ h[InBuffer(n)] = f[InBuffer(n)]
                                     /\ h[InFlight(n)] = f[InFlight(n)]
SameActors(f, h, A)  == \A a \in A : h[InSync(a)] = f[InSync(a)]

LEMMA NoWriterMoves ==
  ASSUME TypeInv, NEW f, Reads(f, writers, act, file), NEW h, Reads(h, writers', act', file'),
         UNCHANGED writers \/ writers' = Append(writers, NewWriter)
  PROVE  SameWriters(f, h, Nat)
<1>1. CASE UNCHANGED writers
  BY <1>1 DEF Reads, SameWriters
<1>2. CASE writers' = Append(writers, NewWriter)
  <2>1. /\ Len(writers) \in Nat /\ DOMAIN writers = 1..Len(writers)
        /\ DOMAIN writers' = 1..(Len(writers) + 1) /\ writers'[Len(writers) + 1] = NewWriter
        /\ \A g \in DOMAIN writers : writers'[g] = writers[g]
    BY <1>2, Typed DEF TypeInv
  <2>2. NewWriter.buf = <<>> /\ NewWriter.buffer = <<>>
    BY DEF NewWriter
  <2>3. ASSUME NEW n \in Nat
        PROVE  h[InBuffer(n)] = f[InBuffer(n)] /\ h[InFlight(n)] = f[InFlight(n)]
    <3>1. CASE n \in DOMAIN writers
      BY <2>1, <3>1 DEF Reads
    <3>2. CASE n = Len(writers) + 1
      BY <2>1, <2>2, <3>2 DEF Reads
    <3>3. CASE n \notin DOMAIN writers /\ n # Len(writers) + 1
      <4>1. n \notin DOMAIN writers'
        BY <2>1, <3>3
      <4>2. QED
        BY <3>3, <4>1 DEF Reads
    <3>4. QED
      BY <3>1, <3>2, <3>3
  <2>4. QED
    BY <2>3 DEF SameWriters
<1>3. QED
  BY <1>1, <1>2

WriterLanes(f, h, g, w, v) ==
  /\ h[InBuffer(g)] = v.buffer /\ h[InFlight(g)] = v.buf
  /\ f[InBuffer(g)] = w.buffer /\ f[InFlight(g)] = w.buf
  /\ SameWriters(f, h, Nat \ {g})
  /\ g \in Nat

LEMMA WriterMoves ==
  ASSUME TypeInv, NEW f, Reads(f, writers, act, file), NEW h, Reads(h, writers', act', file'),
         NEW g \in DOMAIN writers, NEW v, Update(g, v)
  PROVE  WriterLanes(f, h, g, writers[g], v)
<1>1. /\ g \in Nat /\ DOMAIN writers' = DOMAIN writers /\ writers'[g] = v
      /\ \A n \in DOMAIN writers \ {g} : writers'[n] = writers[n]
  BY Typed DEF TypeInv, Update
<1>2. h[InBuffer(g)] = v.buffer /\ h[InFlight(g)] = v.buf
  BY <1>1 DEF Reads
<1>3. f[InBuffer(g)] = writers[g].buffer /\ f[InFlight(g)] = writers[g].buf
  BY <1>1 DEF Reads
<1>4. SameWriters(f, h, Nat \ {g})
  BY <1>1 DEF Reads, SameWriters
<1>5. QED
  BY <1>1, <1>2, <1>3, <1>4 DEF WriterLanes

LEMMA ActorMoves ==
  ASSUME TypeInv, NEW f, Reads(f, writers, act, file), NEW h, Reads(h, writers', act', file'),
         NEW a \in Actors, NEW r, Do(a, r)
  PROVE  /\ h[InSync(a)] = r.buf /\ f[InSync(a)] = act[a].buf
         /\ SameActors(f, h, Actors \ {a})
<1>1. act'[a] = r /\ \A b \in Actors \ {a} : act'[b] = act[b]
  BY Typed DEF TypeInv, Do
<1>2. QED
  BY <1>1 DEF Reads, SameActors

LEMMA NoActorMoves ==
  ASSUME NEW f, Reads(f, writers, act, file), NEW h, Reads(h, writers', act', file'), UNCHANGED act
  PROVE  SameActors(f, h, Actors)
  BY DEF Reads, SameActors

Lane == LaneOf(writers, act, file)

LEMMA LaneType ==
  ASSUME TypeInv
  PROVE  /\ Lane \in Lanes
         /\ NotIn(Lane, logged + 1)
<1>0. Reads(Lane, writers, act, file)
  BY LaneAt DEF Lane
<1>1. /\ \A g \in DOMAIN writers : writers[g].buffer \in Seq(Entries) /\ writers[g].buf \in Seq(Entries)
      /\ \A a \in Actors : act[a].buf \in Seq(Entries)
      /\ file \in Seq(Entries) /\ logged \in Nat
  <2>1. /\ \A w \in Writer : w.buffer \in Seq(Entries) /\ w.buf \in Seq(Entries)
        /\ \A r \in Act : r.buf \in Seq(Entries)
    BY DEF Writer, Act
  <2>2. QED
    BY <2>1, Typed DEF TypeInv
<1>2. \A p \in Spots : Lane[p] \in Seq(Entries)
  <2> TAKE p \in Spots
  <2>1. <<>> \in Seq(Entries)
    OBVIOUS
  <2>2. CASE p = AtFile
    BY <1>0, <1>1, <2>2 DEF Reads
  <2>3. ASSUME NEW n \in Nat, p = InBuffer(n) \/ p = InFlight(n) PROVE Lane[p] \in Seq(Entries)
    BY <1>0, <1>1, <2>1, <2>3 DEF Reads
  <2>4. ASSUME NEW a \in Actors, p = InSync(a) PROVE Lane[p] \in Seq(Entries)
    BY <1>0, <1>1, <2>4 DEF Reads
  <2>5. QED
    BY <2>2, <2>3, <2>4, SpotNames
<1>3. Entries \subseteq Nat /\ \A e \in Entries : e # logged + 1
  BY <1>1 DEF Entries
<1>4. \A p \in Spots : Lane[p] \in Seq(Nat)
  BY <1>2, <1>3, SeqMonotonic
<1>5. Lane \in Lanes
  BY <1>4 DEF Lanes, Lane, LaneOf
<1>6. \A s \in Seq(Entries) : \A i \in DOMAIN s : s[i] \in Entries
  BY ElementOfSeq
<1>7. QED
  BY <1>2, <1>3, <1>5, <1>6 DEF NotIn

UniqueInv == Apart(Lane)

(* No lane gets anything: what can happen is that one is emptied. *)
LEMMA NothingMoves ==
  ASSUME TypeInv, NEW f, Reads(f, writers, act, file), Apart(f),
         NEW h, Reads(h, writers', act', file'), UNCHANGED file,
         \/ UNCHANGED writers
         \/ writers' = Append(writers, NewWriter)
         \/ \E g \in DOMAIN writers : \E v :
              /\ Update(g, v) /\ v.buffer = writers[g].buffer
              /\ (v.buf = writers[g].buf \/ v.buf = <<>>),
         UNCHANGED act \/ \E a \in Actors : \E r : Do(a, r) /\ (r.buf = act[a].buf \/ r.buf = <<>>)
  PROVE  Apart(h)
<1>1. h[AtFile] = f[AtFile]
  BY DEF Reads
<1>2. \A n \in Nat : /\ h[InBuffer(n)] = f[InBuffer(n)] \/ h[InBuffer(n)] = <<>>
                     /\ h[InFlight(n)] = f[InFlight(n)] \/ h[InFlight(n)] = <<>>
  <2>1. CASE UNCHANGED writers \/ writers' = Append(writers, NewWriter)
    <3>1. SameWriters(f, h, Nat)
      BY <2>1, NoWriterMoves
    <3>2. QED
      BY <3>1 DEF SameWriters
  <2>2. ASSUME NEW g \in DOMAIN writers, NEW v, Update(g, v), v.buffer = writers[g].buffer,
               v.buf = writers[g].buf \/ v.buf = <<>>
        PROVE  <1>2!:
    <3>1. WriterLanes(f, h, g, writers[g], v)
      BY <2>2, WriterMoves
    <3>2. QED
      BY <2>2, <3>1 DEF SameWriters, WriterLanes
  <2>3. QED
    BY <2>1, <2>2
<1>3. \A a \in Actors : h[InSync(a)] = f[InSync(a)] \/ h[InSync(a)] = <<>>
  <2>1. CASE UNCHANGED act
    <3>1. SameActors(f, h, Actors)
      BY <2>1, NoActorMoves
    <3>2. QED
      BY <3>1 DEF SameActors
  <2>2. ASSUME NEW a \in Actors, NEW r, Do(a, r), r.buf = act[a].buf \/ r.buf = <<>>
        PROVE  <1>3!:
    <3>1. h[InSync(a)] = r.buf /\ f[InSync(a)] = act[a].buf /\ SameActors(f, h, Actors \ {a})
      BY <2>2, ActorMoves
    <3>2. QED
      BY <2>2, <3>1 DEF SameActors
  <2>3. QED
    BY <2>1, <2>2
<1>4. \A p \in Spots : h[p] = f[p] \/ h[p] = <<>>
  BY <1>1, <1>2, <1>3, SpotNames
<1>5. QED
  BY <1>4, Emptied

(* A step that changes one writer and one actor: the lanes of the others   *)
(* are as they were.                                                       *)
TwoLanes(f, h, g, w, v, a, s, r) ==
  /\ {InBuffer(g), InFlight(g), InSync(a)} \subseteq Spots
  /\ h[InBuffer(g)] = v.buffer /\ h[InFlight(g)] = v.buf /\ h[InSync(a)] = r.buf
  /\ f[InBuffer(g)] = w.buffer /\ f[InFlight(g)] = w.buf /\ f[InSync(a)] = s.buf
  /\ \A p \in Spots \ {AtFile, InBuffer(g), InFlight(g), InSync(a)} : h[p] = f[p]

LEMMA TwoMove ==
  ASSUME TypeInv, NEW f, Reads(f, writers, act, file), NEW h, Reads(h, writers', act', file'),
         NEW g \in DOMAIN writers, NEW v, Update(g, v),
         NEW a \in Actors, NEW r, Do(a, r)
  PROVE  TwoLanes(f, h, g, writers[g], v, a, act[a], r)
<1>1. /\ h[InBuffer(g)] = v.buffer /\ h[InFlight(g)] = v.buf
      /\ f[InBuffer(g)] = writers[g].buffer /\ f[InFlight(g)] = writers[g].buf
      /\ SameWriters(f, h, Nat \ {g}) /\ g \in Nat
  BY WriterMoves DEF WriterLanes
<1>2. h[InSync(a)] = r.buf /\ f[InSync(a)] = act[a].buf /\ SameActors(f, h, Actors \ {a})
  BY ActorMoves
<1>4. ASSUME NEW p \in Spots \ {AtFile, InBuffer(g), InFlight(g), InSync(a)} PROVE h[p] = f[p]
  <2>1. \/ \E n \in Nat \ {g} : p = InBuffer(n) \/ p = InFlight(n)
        \/ \E b \in Actors \ {a} : p = InSync(b)
    BY SpotNames
  <2>2. QED
    BY <1>1, <1>2, <2>1 DEF SameWriters, SameActors
<1>5. QED
  BY <1>1, <1>2, <1>4, SpotNames DEF TwoLanes

(* Entries handed to an empty lane, as they are or with one more. *)
HandsTo(f, h, p, q, s) ==
  /\ p # q /\ f[q] = <<>> /\ h[q] = s /\ h[p] = <<>>
  /\ \A r \in Spots \ {p, q} : h[r] = f[r]

LEMMA Handed ==
  ASSUME NEW f \in Lanes, NEW h, NEW p \in Spots, NEW q \in Spots, Apart(f), HandsTo(f, h, p, q, f[p])
  PROVE  Apart(h)
<1>1. f[p] \in Seq(Nat)
  BY DEF Lanes
<1>2. f[q] \o f[p] = f[p]
  <2> DEFINE s == f[p]
  <2> HIDE DEF s
  <2>1. s \in Seq(Nat) => <<>> \o s = s
    BY ConcatEmptySeq
  <2>2. QED
    BY <1>1, <2>1 DEF s, HandsTo
<1>3. MovesTo(f, h, p, q)
  BY <1>2 DEF MovesTo, HandsTo
<1>4. QED
  BY <1>3, Moved

LEMMA HandedWithOneMore ==
  ASSUME NEW f \in Lanes, NEW h, NEW p \in Spots, NEW q \in Spots, Apart(f),
         NEW e \in Nat, NotIn(f, e), HandsTo(f, h, p, q, Append(f[p], e))
  PROVE  Apart(h)
<1> DEFINE s == Append(f[p], e)  k == [f EXCEPT ![p] = s]
<1>1. s \in Seq(Nat)
  <2>1. f[p] \in Seq(Nat)
    BY DEF Lanes
  <2>2. QED
    BY <2>1, AppendProperties
<1>2. /\ k \in Lanes /\ k[p] = Append(f[p], e) /\ k[p] = h[q] /\ k[q] = <<>>
      /\ \A r \in Spots \ {p} : k[r] = f[r]
  BY <1>1 DEF Lanes, HandsTo
<1> HIDE DEF k
<1>3. Apart(k)
  BY <1>2, Added
<1>4. HandsTo(k, h, p, q, k[p])
  BY <1>2 DEF HandsTo
<1>5. QED
  BY <1>2, <1>3, <1>4, Handed

LEMMA UniqueKept ==
  ASSUME TypeInv, StopInv, UniqueInv, [JsonlNext]_jsonlVars
  PROVE  UniqueInv'
<1> SUFFICES ASSUME NEW f, f = Lane, NEW h, h = LaneOf(writers', act', file')
             PROVE  Apart(h)
  BY DEF UniqueInv, Lane
<1>0. /\ Reads(f, writers, act, file) /\ Reads(h, writers', act', file')
      /\ f \in Lanes /\ Apart(f) /\ NotIn(f, logged + 1)
      /\ logged + 1 \in Nat /\ Threads \subseteq Actors /\ Manager \in Actors
      /\ act \in [Actors -> Act] /\ Idle.buf = <<>>
      /\ h[AtFile] = file' /\ f[AtFile] = file
  <2>1. Reads(f, writers, act, file) /\ Reads(h, writers', act', file')
    BY LaneAt DEF Lane
  <2>2. f \in Lanes /\ Apart(f) /\ NotIn(f, logged + 1)
    BY LaneType DEF UniqueInv
  <2>3. logged + 1 \in Nat /\ act \in [Actors -> Act]
    BY Typed DEF TypeInv
  <2>4. QED
    BY <2>1, <2>2, <2>3 DEF Actors, Idle, Reads
<1>1. ASSUME UNCHANGED file,
             \/ UNCHANGED writers
             \/ writers' = Append(writers, NewWriter)
             \/ \E g \in DOMAIN writers : \E v :
                  /\ Update(g, v) /\ v.buffer = writers[g].buffer
                  /\ (v.buf = writers[g].buf \/ v.buf = <<>>),
             UNCHANGED act \/ \E a \in Actors : \E r : Do(a, r) /\ (r.buf = act[a].buf \/ r.buf = <<>>)
      PROVE  Apart(h)
  BY <1>0, <1>1, NothingMoves
<1>2. ASSUME NEW t \in Threads, Arrive(t) PROVE Apart(h)
  <2> DEFINE r1 == [Idle EXCEPT !.pc = "get"]  r2 == [Idle EXCEPT !.pc = "stop?", !.on = tlocal[t]]
  <2>1. UNCHANGED file /\ UNCHANGED writers /\ t \in Actors
    BY <1>0, <1>2 DEF Arrive
  <2>2. UNCHANGED act \/ Do(t, r1) \/ Do(t, r2)
    BY <1>2 DEF Arrive
  <2>3. r1.buf = <<>> /\ r2.buf = <<>>
    BY DEF Idle
  <2> HIDE DEF r1, r2
  <2>4. QED
    BY <1>1, <2>1, <2>2, <2>3
<1>9. CASE BeginClear \/ Clear \/ Expire \/ UNCHANGED jsonlVars
  <2> DEFINE r1 == [Idle EXCEPT !.pc = "clear"]  r2 == [Idle EXCEPT !.pc = "stop?", !.on = Shared]
  <2>1. UNCHANGED file /\ UNCHANGED writers
    BY <1>9 DEF BeginClear, Clear, Expire, jsonlVars
  <2>2. UNCHANGED act \/ Do(Manager, Idle) \/ Do(Manager, r1) \/ Do(Manager, r2)
    BY <1>9 DEF BeginClear, Clear, Expire, jsonlVars
  <2>3. r1.buf = <<>> /\ r2.buf = <<>>
    BY DEF Idle
  <2> HIDE DEF r1, r2
  <2>4. QED
    BY <1>0, <1>1, <2>1, <2>2, <2>3
<1>3. ASSUME NEW t \in Threads, GetWriter(t) PROVE Apart(h)
  <2> DEFINE r == [act[t] EXCEPT !.pc = "write", !.on = tlocal'[t]]
  <2>1. UNCHANGED file /\ (UNCHANGED writers \/ writers' = Append(writers, NewWriter)) /\ t \in Actors
    BY <1>0, <1>3 DEF GetWriter
  <2>2. Do(t, r)
    BY <1>3 DEF GetWriter
  <2>3. r.buf = act[t].buf
    BY <1>0, <2>1 DEF Act
  <2> HIDE DEF r
  <2>4. QED
    BY <1>1, <2>1, <2>2, <2>3
<1>4. ASSUME NEW a \in Actors, Closing(a) PROVE Apart(h)
  <2>1. /\ UNCHANGED file
        /\ \/ UNCHANGED writers
           \/ \E g \in DOMAIN writers : \E v :
                Update(g, v) /\ v.buffer = writers[g].buffer /\ v.buf = writers[g].buf
        /\ \E r : Do(a, r) /\ r.buf = act[a].buf
    BY <1>4, ClosingEffect DEF unchangedByClose
  <2>2. QED
    BY <1>1, <2>1
<1>5. ASSUME NEW g \in DOMAIN writers, Flush(g) PROVE Apart(h)
  <2> DEFINE w == writers[g]
  <2>1. PICK v : Update(g, v) /\ FlushMoves(w, v) /\ UNCHANGED unchangedByWriter
    BY <1>5, FlushEffect
  <2>2. UNCHANGED act /\ Do(Manager, act[Manager])
    BY <1>0, <2>1 DEF unchangedByWriter, Do
  <2>3. TwoLanes(f, h, g, w, v, Manager, act[Manager], act[Manager])
    BY <1>0, <2>1, <2>2, TwoMove
  <2>4. InBuffer(g) # InFlight(g) /\ AtFile # InFlight(g) /\ AtFile # InBuffer(g) /\ AtFile \in Spots
    BY NamesDiffer, SpotNames
  <2>5. CASE v.buffer = w.buffer /\ (v.buf = w.buf \/ v.buf = <<>>) /\ UNCHANGED file
    BY <1>1, <2>1, <2>2, <2>5
  <2>6. CASE v.buffer = <<>> /\ v.buf = w.buffer /\ w.buf = <<>> /\ UNCHANGED file
    <3>1. HandsTo(f, h, InBuffer(g), InFlight(g), f[InBuffer(g)])
      BY <1>0, <2>3, <2>4, <2>6 DEF TwoLanes, HandsTo
    <3>2. InBuffer(g) \in Spots /\ InFlight(g) \in Spots
      BY <2>3 DEF TwoLanes
    <3>3. QED
      BY <1>0, <3>1, <3>2, Handed
  <2>7. CASE v.buffer = w.buffer /\ v.buf = <<>> /\ file' = file \o w.buf
    <3>1. MovesTo(f, h, InFlight(g), AtFile)
      BY <1>0, <2>3, <2>4, <2>7 DEF TwoLanes, MovesTo
    <3>2. InFlight(g) \in Spots
      BY <2>3 DEF TwoLanes
    <3>3. QED
      BY <1>0, <2>4, <3>1, <3>2, Moved
  <2>8. QED
    BY <2>1, <2>5, <2>6, <2>7 DEF FlushMoves
<1>6. ASSUME NEW t \in Threads, Write(t) PROVE Apart(h)
  <2> DEFINE g == act[t].on  w == writers[g]  e == logged + 1
  <2>1. g \in DOMAIN writers /\ act[t].buf = <<>> /\ UNCHANGED file /\ t \in Actors
    BY <1>0, <1>6, WriteEffect
  <2>2. InBuffer(g) # InSync(t)
    BY NamesDiffer
  <2>3. CASE UNCHANGED writers /\ Do(t, Idle)
    BY <1>0, <1>1, <2>1, <2>3
  <2>4. ASSUME NEW v, Update(g, v), v.buf = w.buf, v.buffer = Append(w.buffer, e), Do(t, Idle)
        PROVE  Apart(h)
    <3>1. TwoLanes(f, h, g, w, v, t, act[t], Idle)
      BY <1>0, <2>1, <2>4, TwoMove
    <3>2. InBuffer(g) \in Spots /\ h[InBuffer(g)] = Append(f[InBuffer(g)], e)
          /\ \A p \in Spots \ {InBuffer(g)} : h[p] = f[p]
      BY <1>0, <2>1, <2>4, <3>1 DEF TwoLanes
    <3>3. QED
      BY <1>0, <3>2, Added
  <2>5. ASSUME NEW v, Update(g, v), v.buf = w.buf, v.buffer = <<>>,
               NEW r, Do(t, r), r.buf = Append(w.buffer, e)
        PROVE  Apart(h)
    <3>1. TwoLanes(f, h, g, w, v, t, act[t], r)
      BY <1>0, <2>1, <2>5, TwoMove
    <3>2. HandsTo(f, h, InBuffer(g), InSync(t), Append(f[InBuffer(g)], e))
      BY <1>0, <2>1, <2>2, <2>5, <3>1 DEF TwoLanes, HandsTo
    <3>3. InBuffer(g) \in Spots /\ InSync(t) \in Spots
      BY <3>1 DEF TwoLanes
    <3>4. QED
      BY <1>0, <3>2, <3>3, HandedWithOneMore
  <2>6. QED
    BY <1>6, <2>3, <2>4, <2>5, WriteEffect
<1>7. ASSUME NEW t \in Threads, WriteSync(t) PROVE Apart(h)
  <2> DEFINE g == act[t].on  w == writers[g]
  <2>1. g \in DOMAIN writers /\ Do(t, Idle) /\ t \in Actors /\ AtFile \in Spots /\ AtFile # InSync(t)
    BY <1>0, <1>7, WriteSyncEffect, NamesDiffer, SpotNames
  <2>2. PICK v : Update(g, v) /\ v.buf = w.buf /\ v.buffer = w.buffer
    BY <1>7, WriteSyncEffect
  <2>3. CASE UNCHANGED file
    BY <1>0, <1>1, <2>1, <2>2, <2>3
  <2>4. CASE file' = file \o act[t].buf
    <3>1. TwoLanes(f, h, g, w, v, t, act[t], Idle)
      BY <1>0, <2>1, <2>2, TwoMove
    <3>2. MovesTo(f, h, InSync(t), AtFile)
      BY <1>0, <2>1, <2>2, <2>4, <3>1 DEF TwoLanes, MovesTo
    <3>3. InSync(t) \in Spots
      BY <3>1 DEF TwoLanes
    <3>4. QED
      BY <1>0, <2>1, <3>2, <3>3, Moved
  <2>5. QED
    BY <1>7, <2>3, <2>4, WriteSyncEffect
<1>8. QED
  BY <1>2, <1>9, <1>3, <1>4, <1>5, <1>6, <1>7 DEF JsonlNext, Log

LEMMA UniqueInit == JsonlInit => UniqueInv
<1> SUFFICES ASSUME JsonlInit PROVE UniqueInv
  OBVIOUS
<1>1. Reads(Lane, writers, act, file)
  BY LaneAt DEF Lane
<1>2. /\ file = <<>> /\ \A a \in Actors : act[a].buf = <<>>
      /\ \A n \in Nat : n \notin DOMAIN writers
  BY DEF JsonlInit, Idle
<1>3. \A p \in Spots : Lane[p] = <<>>
  BY <1>1, <1>2, SpotNames DEF Reads
<1>4. QED
  BY <1>3 DEF UniqueInv, Apart

(* However the writers are stopped, no entry reaches the file twice, and   *)
(* until one is stopped entries reach it in the order in which they were   *)
(* taken.                                                                  *)
THEOREM FilesAreInOrder == JsonlSpec => []FileInOrder
<1>1. JsonlInit => LineInvariants /\ UniqueInv
  BY JsonlInitType, StopInit, LineInit, UniqueInit DEF LineInvariants
<1>2. LineInvariants /\ UniqueInv /\ [JsonlNext]_jsonlVars => (LineInvariants /\ UniqueInv)'
  BY JsonlNextType, StopKept, LineKept, UniqueKept DEF LineInvariants, StopNext
<1>3. LineInvariants /\ UniqueInv => FileInOrder
  <2> SUFFICES ASSUME LineInvariants, UniqueInv, NEW i \in DOMAIN file, NEW j \in DOMAIN file, i < j
               PROVE  file[i] # file[j] /\ (Stopped \/ file[i] < file[j])
    BY DEF FileInOrder
  <2>1. i # j
    BY Typed DEF LineInvariants, TypeInv
  <2>2. Lane[AtFile] = file /\ AtFile \in Spots
    BY LaneAt, SpotNames DEF Reads, Lane
  <2>3. file[i] # file[j]
    BY <2>1, <2>2 DEF UniqueInv, Apart
  <2>4. Stopped \/ file[i] < file[j]
    BY FileIsFirst DEF LineInvariants, LineInv
  <2>5. QED
    BY <2>3, <2>4
<1>4. QED
  BY <1>1, <1>2, <1>3, PTL DEF JsonlSpec
=============================================================================
