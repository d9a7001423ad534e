------------------------ MODULE WorkerThread_proofs ------------------------
(***************************************************************************)
(* Proofs about WorkerThread, for any number of workers, any loop, delay   *)
(* and interval, and any calls.                                            *)
(***************************************************************************)
EXTENDS WorkerThread, TLAPS

-----------------------------------------------------------------------------
(* Type correctness.                                                       *)

(* The fields of the call that holds the lock. *)
Calls == [op : AllOperations \union {"none"}, by : Workers \union {Manager},
          todo : SUBSET Workers, on : Workers \union {Manager}, step : Steps]

Places == Alive \union {"created", "gone"}

LEMMA ExceptType ==
  ASSUME NEW S, NEW f \in [Workers -> S], NEW w, NEW e \in S
  PROVE  [f EXCEPT ![w] = e] \in [Workers -> S]
  OBVIOUS

LEMMA TypedPlaces ==
  TypeOK <=> /\ pc \in [Workers -> Places] /\ proceed \in [Workers -> BOOLEAN]
             /\ wake \in [Workers -> BOOLEAN] /\ terminate \in [Workers -> BOOLEAN]
             /\ runLast \in [Workers -> BOOLEAN] /\ loop \in [Workers -> Nat \union {-1}]
             /\ registry \subseteq Workers /\ runs \in [Workers -> 0..2]
             /\ call \in Calls
  BY DEF TypeOK, Places, Calls

LEMMA WorkType ==
  ASSUME TypeOK, NEW w \in Workers, Work(w)
  PROVE  TypeOK'
<1>0. 0 \in 0..2 /\ runs[w] \in 0..2 /\ loop[w] \in Nat \union {-1}
  BY DEF TypeOK
<1>1. pc' \in [Workers -> Places]
  <2>1. \E p \in Places : pc' = [pc EXCEPT ![w] = p]
    <3> USE DEF Goto, Places, Alive, Waiting
    <3>1. CASE BeginWait(w) \/ WaitTimesOut(w)
      BY <3>1 DEF BeginWait, WaitTimesOut, AfterWait
    <3>2. CASE Begin(w) \/ Go(w) \/ Gate(w) \/ Stop(w) \/ Resumed(w) \/ Check(w) \/ RunEnds(w)
      BY <3>2 DEF Begin, Go, Gate, Stop, Resumed, Check, RunEnds
    <3>3. CASE KillSelf(w) \/ KillSelfProceed(w) \/ KillSelfWake(w) \/ End(w) \/ LastRunEnds(w)
               \/ Remove(w)
      BY <3>3 DEF KillSelf, KillSelfProceed, KillSelfWake, End, LastRunEnds, Remove
    <3>4. QED
      BY <3>1, <3>2, <3>3 DEF Work
  <2>2. QED
    BY <2>1, ExceptType, TypedPlaces
<1>2. runs' \in [Workers -> 0..2] /\ loop' \in [Workers -> Nat \union {-1}]
  <2>1. CASE Check(w)
    <3>1. /\ (IF loop[w] > 0 THEN loop[w] - 1 ELSE loop[w]) \in Nat \union {-1}
          /\ (IF runs[w] < 2 THEN runs[w] + 1 ELSE runs[w]) \in 0..2
      BY <1>0
    <3>2. QED
      BY <2>1, <3>1, ExceptType, TypedPlaces DEF Check
  <2>2. CASE Go(w) \/ KillSelfProceed(w)
    <3>1. [runs EXCEPT ![w] = 0] \in [Workers -> 0..2]
      BY <1>0, TypedPlaces
    <3>2. QED
      BY <2>2, <3>1, TypedPlaces DEF Go, KillSelfProceed
  <2>3. CASE UNCHANGED <<runs, loop>>
    BY <2>3, TypedPlaces
  <2>4. QED
    BY <2>1, <2>2, <2>3 DEF Work, BeginWait, WaitTimesOut, Begin, Gate, Stop, Resumed, RunEnds,
       KillSelf, KillSelfWake, End, LastRunEnds, Remove
<1>3. /\ proceed' \in [Workers -> BOOLEAN] /\ wake' \in [Workers -> BOOLEAN]
      /\ terminate' \in [Workers -> BOOLEAN] /\ runLast' \in [Workers -> BOOLEAN]
  <2>1. CASE Go(w) \/ KillSelfProceed(w) \/ KillSelfWake(w) \/ KillSelf(w)
    BY <2>1, ExceptType, TypedPlaces DEF Go, KillSelfProceed, KillSelfWake, KillSelf
  <2>2. CASE UNCHANGED events
    BY <2>2, TypedPlaces DEF events
  <2>3. QED
    BY <2>1, <2>2 DEF Work, BeginWait, WaitTimesOut, Begin, Gate, Stop, Resumed, Check, RunEnds,
       End, LastRunEnds, Remove, unchangedByWorker, events
<1>4. registry' \subseteq Workers /\ UNCHANGED call
  BY TypedPlaces DEF Work, BeginWait, WaitTimesOut, Begin, Go, Gate, Stop, Resumed, Check, RunEnds,
     KillSelf, KillSelfProceed, KillSelfWake, End, LastRunEnds, Remove, unchangedByWorker
<1>5. QED
  BY <1>1, <1>2, <1>3, <1>4 DEF TypeOK, Places

LEMMA CallSteps ==
  ASSUME call \in Calls
  PROVE  /\ Return => call' \in Calls
         /\ \A s \in Steps : Then(s) => call' \in Calls
         /\ NoCall \in Calls
<1>1. "next" \in Steps
  BY DEF Steps
<1>2. QED
  BY <1>1 DEF Calls, Return, Then, NoCall

LEMMA OperateType ==
  ASSUME TypeOK, NEW w \in Workers, Operate(w)
  PROVE  TypeOK'
<1>1. call \in Calls
  BY DEF TypeOK, Calls
<1>2. UNCHANGED <<loop, registry>>
  BY DEF Operate, Start, StartOrResume, Pause, PauseClear, PauseWake, Resume, ResumeClear,
     ResumeSet, Kill, KillTerminate, KillProceed, KillWake, Step, unchangedByCall
<1>3. call' \in Calls
  BY <1>1, CallSteps DEF Operate, Start, StartOrResume, Pause, PauseClear, PauseWake, Resume,
     ResumeClear, ResumeSet, Kill, KillTerminate, KillProceed, KillWake, Steps, AllOperations
<1>4. SetWake(w) => wake' \in [Workers -> BOOLEAN] /\ pc' \in [Workers -> Alive \union {"created", "gone"}]
  BY DEF SetWake, TypeOK, AfterWait, Alive, Waiting
<1>5. SetProceed(w) => /\ proceed' \in [Workers -> BOOLEAN] /\ runs' \in [Workers -> 0..2]
                       /\ pc' \in [Workers -> Alive \union {"created", "gone"}]
  <2>1. SetProceed(w) => pc' \in [Workers -> Alive \union {"created", "gone"}]
    <3>1. pc[w] = "paused" => AfterWait(pc[w]) = "resumed"
      BY DEF AfterWait
    <3>2. (IF pc[w] = "paused" THEN AfterWait(pc[w]) ELSE pc[w]) \in Places
      BY <3>1, TypedPlaces DEF Places, Alive
    <3>3. QED
      BY <3>2, TypedPlaces DEF SetProceed, Places
  <2>2. [runs EXCEPT ![w] = 0] \in [Workers -> 0..2]
    <3>1. 0 \in 0..2
      OBVIOUS
    <3>2. QED
      BY <3>1, TypedPlaces
  <2>3. SetProceed(w) => proceed' \in [Workers -> BOOLEAN] /\ runs' \in [Workers -> 0..2]
    BY <2>2, TypedPlaces DEF SetProceed
  <2>4. QED
    BY <2>1, <2>3
<1>6. pc' \in [Workers -> Alive \union {"created", "gone"}]
  BY <1>4, <1>5 DEF TypeOK, Operate, Start, StartOrResume, Pause, PauseClear, PauseWake, Resume,
     ResumeClear, ResumeSet, Kill, KillTerminate, KillProceed, KillWake, Goto, Alive
<1>7. /\ proceed' \in [Workers -> BOOLEAN] /\ wake' \in [Workers -> BOOLEAN]
      /\ terminate' \in [Workers -> BOOLEAN] /\ runs' \in [Workers -> 0..2]
  <2>1. CASE UNCHANGED <<proceed, wake, terminate, runs>>
    BY <2>1 DEF TypeOK
  <2>2. CASE PauseClear(w)
    <3>1. 0 \in 0..2
      OBVIOUS
    <3>2. QED
      BY <2>2, <3>1 DEF PauseClear, TypeOK
  <2>3. CASE PauseWake(w) \/ KillWake(w)
    BY <1>4, <2>3 DEF PauseWake, KillWake, TypeOK
  <2>4. CASE ResumeSet(w) \/ KillProceed(w)
    BY <1>5, <2>4 DEF ResumeSet, KillProceed, TypeOK
  <2>5. CASE ResumeClear(w)
    BY <2>5 DEF ResumeClear, TypeOK
  <2>6. CASE KillTerminate(w)
    BY <2>6 DEF KillTerminate, TypeOK
  <2>7. CASE Start(w) \/ StartOrResume(w) \/ Pause(w) \/ Resume(w) \/ Kill(w)
    BY <2>1, <2>7 DEF Start, StartOrResume, Pause, Resume, Kill, events
  <2>8. QED
    BY <2>2, <2>3, <2>4, <2>5, <2>6, <2>7 DEF Operate
<1>8. runLast' \in [Workers -> BOOLEAN]
  <2>1. CASE Kill(w)
    BY <2>1 DEF TypeOK, Kill
  <2>2. CASE UNCHANGED runLast
    BY <2>2 DEF TypeOK
  <2>3. QED
    BY <2>1, <2>2 DEF Operate, Start, StartOrResume, Pause, PauseClear, PauseWake, Resume,
       ResumeClear, ResumeSet, KillTerminate, KillProceed, KillWake, events
<1>9. QED
  BY <1>2, <1>3, <1>6, <1>7, <1>8 DEF TypeOK, Calls

LEMMA CallType ==
  ASSUME TypeOK,
         \/ \E op \in Operations, by \in Workers \union {Manager}, found \in SUBSET Workers :
              BeginCall(op, by, found)
         \/ CallNext
  PROVE  TypeOK'
<1>1. call \in Calls
  BY DEF TypeOK, Calls
<1>2. UNCHANGED <<pc, events, loop, registry, runs>>
  BY DEF BeginCall, CallNext, unchangedByCall
<1>3. CASE CallNext
  <2>1. CASE call' = NoCall
    BY <1>2, <2>1, CallSteps, <1>1 DEF TypeOK, Calls, events
  <2>2. CASE \E w \in call.todo : call' = [call EXCEPT !.todo = @ \ {w}, !.on = w, !.step = call.op]
    <3>1. call.op \in Steps
      BY <1>1, <1>3 DEF CallNext, Calls, Steps
    <3>2. call' \in Calls
      BY <1>1, <2>2, <3>1 DEF Calls
    <3>3. QED
      BY <1>2, <3>2 DEF TypeOK, Calls, events
  <2>3. QED
    BY <1>3, <2>1, <2>2 DEF CallNext
<1>4. ASSUME NEW op \in Operations, NEW by \in Workers \union {Manager}, NEW found \in SUBSET Workers,
             BeginCall(op, by, found)
      PROVE  TypeOK'
  <2>1. call' \in Calls
    BY <1>4, <1>1, CallSteps, WorkerAssumption DEF BeginCall, Calls
  <2>2. QED
    BY <1>2, <2>1 DEF TypeOK, Calls, events
<1>5. QED
  BY <1>3, <1>4

(* The state of the workers, their events and the call that is in progress *)
(* is well-typed, for any workers and calls.                               *)
THEOREM WorkerTypes == Spec => []TypeOK
<1>1. Init => TypeOK
  <2>1. "next" \in Steps
    BY DEF Steps
  <2>2. QED
    BY <2>1, WorkerAssumption DEF Init, TypeOK, NoCall
<1>2. TypeOK /\ [Next]_vars => TypeOK'
  <2>1. TypeOK /\ UNCHANGED vars => TypeOK'
    BY DEF TypeOK, vars
  <2>2. QED
    BY <2>1, WorkType, OperateType, CallType DEF Next
<1>3. QED
  BY <1>1, <1>2, PTL DEF Spec

-----------------------------------------------------------------------------
(* Pausing.                                                                *)

(* Where a paused worker that has begun a run since may be: it does not    *)
(* reach the check again before proceed_event is set.                      *)
Through == {"run", "kill proceed", "kill wake", "sleep", "asleep", "gate", "stop", "paused",
            "end", "last run", "remove", "gone"}

PauseInv ==
  \A w \in Workers : ~proceed[w] /\ runs[w] # 0 => runs[w] = 1 /\ pc[w] \in Through

(* A step that moves one worker and neither clears an event nor counts.    *)
LEMMA PauseMoves ==
  ASSUME TypeOK, PauseInv, NEW w \in Workers, UNCHANGED <<proceed, runs>>,
         NEW p, pc' = [pc EXCEPT ![w] = p],
         ~proceed[w] /\ pc[w] \in Through => p \in Through
  PROVE  PauseInv'
  BY DEF PauseInv, TypeOK

LEMMA PauseWork ==
  ASSUME TypeOK, PauseInv, NEW w \in Workers, Work(w)
  PROVE  PauseInv'
<1>1. CASE BeginWait(w) \/ WaitTimesOut(w)
  BY <1>1, PauseMoves DEF BeginWait, WaitTimesOut, AfterWait, Goto, Through, unchangedByWorker
<1>2. CASE Begin(w) \/ Gate(w) \/ Stop(w) \/ Resumed(w)
  BY <1>2, PauseMoves DEF Begin, Gate, Stop, Resumed, Goto, Through, unchangedByWorker
<1>3. CASE RunEnds(w) \/ KillSelf(w) \/ KillSelfWake(w)
  BY <1>3, PauseMoves DEF RunEnds, KillSelf, KillSelfWake, Goto, Through, unchangedByWorker
<1>4. CASE End(w) \/ LastRunEnds(w) \/ Remove(w)
  BY <1>4, PauseMoves DEF End, LastRunEnds, Remove, Goto, Through, unchangedByWorker, events
<1>5. CASE Go(w) \/ KillSelfProceed(w)
  BY <1>5 DEF Go, KillSelfProceed, Goto, PauseInv, TypeOK
<1>6. CASE Check(w)
  <2>1. ~proceed[w] => runs[w] = 0
    BY <1>6 DEF Check, PauseInv, Through
  <2>2. CASE terminate[w] \/ loop[w] = 0
    BY <1>6, <2>2, PauseMoves DEF Check, Goto, Through, unchangedByWorker
  <2>3. CASE ~(terminate[w] \/ loop[w] = 0)
    <3>1. /\ pc' = [pc EXCEPT ![w] = "run"] /\ UNCHANGED proceed
          /\ runs' = [runs EXCEPT ![w] = IF @ < 2 THEN @ + 1 ELSE @]
      BY <1>6, <2>3 DEF Check, Goto, unchangedByWorker
    <3>2. pc'[w] = "run" /\ (runs[w] = 0 => runs'[w] = 1)
      BY <3>1 DEF TypeOK
    <3>3. \A v \in Workers \ {w} : UNCHANGED <<pc[v], proceed[v], runs[v]>>
      BY <3>1 DEF TypeOK
    <3>4. QED
      BY <2>1, <3>1, <3>2, <3>3 DEF PauseInv, Through
  <2>4. QED
    BY <2>2, <2>3
<1>7. QED
  BY <1>1, <1>2, <1>3, <1>4, <1>5, <1>6 DEF Work

LEMMA PauseOperate ==
  ASSUME TypeOK, PauseInv, NEW w \in Workers, Operate(w)
  PROVE  PauseInv'
<1>1. CASE Start(w) \/ StartOrResume(w) \/ Pause(w) \/ Resume(w) \/ ResumeClear(w) \/ Kill(w)
           \/ KillTerminate(w)
  <2>1. UNCHANGED <<proceed, runs>>
    BY <1>1 DEF Start, StartOrResume, Pause, Resume, ResumeClear, Kill, KillTerminate, events
  <2>2. CASE UNCHANGED pc
    BY <2>1, <2>2 DEF PauseInv
  <2>3. CASE pc[w] = "created" /\ Goto(w, "delay")
    BY <2>1, <2>3, PauseMoves DEF Goto, Through
  <2>4. QED
    BY <1>1, <2>2, <2>3 DEF Start, StartOrResume, Pause, Resume, ResumeClear, Kill, KillTerminate
<1>2. CASE PauseWake(w) \/ KillWake(w)
  <2>1. UNCHANGED <<proceed, runs>> /\ SetWake(w)
    BY <1>2 DEF PauseWake, KillWake
  <2>2. QED
    BY <2>1, PauseMoves DEF SetWake, AfterWait, Through
<1>3. CASE PauseClear(w)
  BY <1>3 DEF PauseClear, PauseInv, TypeOK
<1>4. CASE ResumeSet(w) \/ KillProceed(w)
  BY <1>4 DEF ResumeSet, KillProceed, SetProceed, PauseInv, TypeOK
<1>5. QED
  BY <1>1, <1>2, <1>3, <1>4 DEF Operate

(* Once pause() has cleared proceed_event, at most one more run of the     *)
(* target begins, whatever else is called meanwhile and wherever the       *)
(* worker was.                                                             *)
THEOREM PauseLetsOneRunBegin == Spec => []PauseHolds
<1>1. Init => PauseInv
  BY DEF Init, PauseInv
<1>2. TypeOK /\ PauseInv /\ [Next]_vars => PauseInv'
  <2> SUFFICES ASSUME TypeOK, PauseInv, [Next]_vars PROVE PauseInv'
    OBVIOUS
  <2>1. CASE UNCHANGED <<pc, proceed, runs>>
    BY <2>1 DEF PauseInv
  <2>2. CASE UNCHANGED vars
    BY <2>1, <2>2 DEF vars
  <2>3. CASE CallNext
    BY <2>1, <2>3 DEF CallNext, events
  <2>4. ASSUME NEW op, NEW by, NEW found, BeginCall(op, by, found) PROVE PauseInv'
    <3>1. UNCHANGED <<pc, events, unchangedByCall, runs>>
      BY <2>4 DEF BeginCall
    <3>2. QED
      BY <2>1, <3>1 DEF events
  <2>5. QED
    BY <2>2, <2>3, <2>4, PauseWork, PauseOperate DEF Next
<1>3. TypeOK /\ PauseInv => PauseHolds
  BY DEF TypeOK, PauseInv, PauseHolds
<1>4. QED
  BY <1>1, <1>2, <1>3, WorkerTypes, PTL DEF Spec

-----------------------------------------------------------------------------
(* The interval.                                                           *)

(* A worker that has not begun has no event set, unless it was killed; one *)
(* that kills itself has set terminate first.                              *)
EarlyInv == \A w \in Workers : Early(w) /\ (wake[w] \/ proceed[w]) => terminate[w]
SelfInv  == \A w \in Workers : pc[w] \in {"kill proceed", "kill wake"} => terminate[w]

(* What step t of a call relies on.  Only a worker that has begun is       *)
(* resumed; a call sets and clears the events in the order that matters.   *)
Follows(w, t) ==
  /\ t = "start_or_resume" /\ Early(w) => pc[w] = "created"
  /\ t \in {"resume", "resume: clear", "resume: set"} => ~Early(w)
  /\ t = "pause: wake" /\ proceed[w] => terminate[w]
  /\ t = "resume: set" /\ wake[w] => terminate[w]
  /\ t \in {"pause: clear", "pause: wake"} /\ Early(w) => terminate[w]
  /\ t \in {"kill: proceed", "kill: wake"} => terminate[w]

CallInv ==
  /\ call.op \in {"resume", "start_or_resume"} =>
       \A w \in call.todo : Early(w) => call.op = "start_or_resume" /\ pc[w] = "created"
  /\ call.step # "next" =>
       call.on \notin call.todo /\ (call.on \in Workers => Follows(call.on, call.step))

IntervalInv == EarlyInv /\ SelfInv /\ CallInv /\ IntervalEnforced

(* No step of a worker makes it early again. *)
EarlyPlaces == {"created", "delay", "delayed", "born", "go"}

(* A worker moves, and sets an event only when it is killed or begins. *)
LEMMA IntervalMoves ==
  ASSUME TypeOK, IntervalInv, NEW w \in Workers, UNCHANGED call,
         NEW p, pc' = [pc EXCEPT ![w] = p], pc[w] # "created",
         p \in EarlyPlaces => pc[w] \in EarlyPlaces /\ p # "created",
         NEW s \in BOOLEAN, terminate' = [terminate EXCEPT ![w] = s], terminate[w] => s,
         NEW b \in BOOLEAN, proceed' = [proceed EXCEPT ![w] = b],
         b => proceed[w] \/ s \/ (pc[w] = "go" /\ p \notin EarlyPlaces),
         NEW c \in BOOLEAN, wake' = [wake EXCEPT ![w] = c], c => wake[w] \/ s,
         p \in {"kill proceed", "kill wake"} => s
  PROVE  IntervalInv'
<1> USE DEF TypeOK, IntervalInv
<1>1. \A v \in Workers : /\ Early(v)' => Early(v)
                         /\ v # w => UNCHANGED <<pc[v], terminate[v], proceed[v], wake[v]>>
  BY DEF Early, EarlyPlaces
<1>2. pc'[w] = p /\ terminate'[w] = s /\ proceed'[w] = b /\ wake'[w] = c
  OBVIOUS
<1>3. EarlyInv'
  BY <1>1, <1>2 DEF EarlyInv, Early, EarlyPlaces
<1>4. SelfInv'
  BY <1>1, <1>2 DEF SelfInv
<1>5. IntervalEnforced'
  BY <1>1, <1>2 DEF IntervalEnforced, EarlyInv, Early
<1>6. CallInv'
  <2>1. \A v \in Workers : terminate[v] => terminate'[v]
    BY <1>1, <1>2
  <2>2. \A v \in Workers : pc[v] = "created" => pc'[v] = "created"
    BY <1>1
  <2>3. \A v \in Workers : wake'[v] => wake[v] \/ terminate'[v]
    BY <1>1, <1>2
  <2>4. \A v \in Workers : proceed'[v] => proceed[v] \/ terminate'[v] \/ Early(v)
    BY <1>1, <1>2 DEF Early
  <2>5. QED
    BY <1>1, <2>1, <2>2, <2>3, <2>4 DEF CallInv, Follows
<1>7. QED
  BY <1>3, <1>4, <1>5, <1>6

LEMMA IntervalWork ==
  ASSUME TypeOK, IntervalInv, NEW w \in Workers, Work(w)
  PROVE  IntervalInv'
<1>1. /\ terminate' = [terminate EXCEPT ![w] = terminate'[w]] /\ terminate'[w] \in BOOLEAN
      /\ proceed' = [proceed EXCEPT ![w] = proceed'[w]] /\ proceed'[w] \in BOOLEAN
      /\ wake' = [wake EXCEPT ![w] = wake'[w]] /\ wake'[w] \in BOOLEAN
      /\ pc' = [pc EXCEPT ![w] = pc'[w]] /\ pc[w] # "created"
  BY DEF TypeOK, Work, BeginWait, WaitTimesOut, Begin, Go, Gate, Stop, Resumed, Check, RunEnds, KillSelf,
     KillSelfProceed, KillSelfWake, End, LastRunEnds, Remove, Goto, unchangedByWorker, events
<1>2. /\ terminate[w] => terminate'[w]
      /\ pc'[w] \in EarlyPlaces => pc[w] \in EarlyPlaces /\ pc'[w] # "created"
      /\ proceed'[w] => proceed[w] \/ terminate'[w] \/ (pc[w] = "go" /\ pc'[w] \notin EarlyPlaces)
      /\ wake'[w] => wake[w] \/ terminate'[w]
      /\ pc'[w] \in {"kill proceed", "kill wake"} => terminate'[w]
  <2>0. /\ pc \in [Workers -> Alive \union {"created", "gone"}]
        /\ proceed \in [Workers -> BOOLEAN] /\ wake \in [Workers -> BOOLEAN]
        /\ terminate \in [Workers -> BOOLEAN]
    BY DEF TypeOK
  <2> USE <2>0 DEF Goto, unchangedByWorker, events, EarlyPlaces
  <2>1. CASE BeginWait(w) \/ WaitTimesOut(w)
    BY <2>1 DEF BeginWait, WaitTimesOut, AfterWait
  <2>2. CASE Begin(w) \/ Go(w)
    BY <2>2 DEF Begin, Go
  <2>3. CASE Gate(w) \/ Stop(w) \/ Resumed(w)
    BY <2>3 DEF Gate, Stop, Resumed
  <2>4. CASE Check(w) \/ RunEnds(w)
    BY <2>4 DEF Check, RunEnds
  <2>5. CASE End(w) \/ LastRunEnds(w) \/ Remove(w)
    BY <2>5 DEF End, LastRunEnds, Remove
  <2>6. CASE KillSelf(w) \/ KillSelfProceed(w) \/ KillSelfWake(w)
    BY <2>6 DEF KillSelf, KillSelfProceed, KillSelfWake, IntervalInv, SelfInv
  <2>7. QED
    BY <2>1, <2>2, <2>3, <2>4, <2>5, <2>6 DEF Work
<1>3. CASE UNCHANGED call
  BY <1>1, <1>2, <1>3, IntervalMoves
<1>4. QED
  BY <1>3 DEF Work, BeginWait, WaitTimesOut, Begin, Go, Gate, Stop, Resumed, Check, RunEnds,
     KillSelf, KillSelfProceed, KillSelfWake, End, LastRunEnds, Remove, unchangedByWorker

(* What a step of a call does to worker w: it only moves that worker, and  *)
(* goes on with some step or returns.                                      *)
Moves(w) ==
  /\ pc'[w] \in EarlyPlaces => pc[w] \in EarlyPlaces
  /\ pc'[w] \in {"kill proceed", "kill wake"} => pc'[w] = pc[w]
  /\ terminate[w] => terminate'[w]
  /\ proceed'[w] /\ wake'[w] => terminate'[w]
  /\ pc'[w] \in EarlyPlaces /\ (proceed'[w] \/ wake'[w]) => terminate'[w]

Only(w) ==
  /\ pc' = [pc EXCEPT ![w] = pc'[w]]
  /\ terminate' = [terminate EXCEPT ![w] = terminate'[w]] /\ terminate'[w] \in BOOLEAN
  /\ proceed' = [proceed EXCEPT ![w] = proceed'[w]] /\ proceed'[w] \in BOOLEAN
  /\ wake' = [wake EXCEPT ![w] = wake'[w]] /\ wake'[w] \in BOOLEAN

Goes(w) == call' = NoCall \/ Return \/ \E t \in Steps : Then(t) /\ Follows(w, t)'

LEMMA IntervalSteps ==
  ASSUME TypeOK, IntervalInv, NEW w \in Workers, call.on = w, call.step # "next",
         Only(w), Moves(w), Goes(w)
  PROVE  IntervalInv'
<1> USE DEF TypeOK, IntervalInv
<1>1. \A v \in Workers : /\ Early(v)' => Early(v)
                         /\ v # w => UNCHANGED <<pc[v], terminate[v], proceed[v], wake[v]>>
  BY DEF Early, EarlyPlaces, Only, Moves
<1> USE DEF Moves
<1>3. EarlyInv' /\ SelfInv' /\ IntervalEnforced'
  <2>1. EarlyInv'
    <3>1. Early(w)' /\ (wake'[w] \/ proceed'[w]) => terminate'[w]
      BY DEF Early, EarlyPlaces
    <3>2. \A v \in Workers \ {w} : Early(v)' /\ (wake'[v] \/ proceed'[v]) => terminate'[v]
      BY <1>1 DEF EarlyInv
    <3>3. QED
      BY <3>1, <3>2 DEF EarlyInv
  <2>2. SelfInv'
    BY <1>1 DEF SelfInv
  <2>3. IntervalEnforced'
    BY <1>1 DEF IntervalEnforced
  <2>4. QED
    BY <2>1, <2>2, <2>3
<1>4. CallInv'
  <2>1. w \notin call.todo
    BY DEF CallInv
  <2>2. CASE call' = NoCall
    BY <2>2 DEF CallInv, NoCall
  <2>3. ASSUME call'.op = call.op, call'.todo = call.todo
        PROVE  call'.op \in {"resume", "start_or_resume"} =>
                 \A v \in call'.todo : Early(v)' => call'.op = "start_or_resume" /\ pc'[v] = "created"
    BY <1>1, <2>1, <2>3 DEF CallInv
  <2>4. CASE Return
    <3>1. call'.op = call.op /\ call'.todo = call.todo /\ call'.step = "next"
      BY <2>4 DEF Return
    <3>2. QED
      BY <2>3, <3>1 DEF CallInv
  <2>5. ASSUME NEW t \in Steps, Then(t), Follows(w, t)'
        PROVE  CallInv'
    <3>1. call'.op = call.op /\ call'.todo = call.todo /\ call'.on = w /\ call'.step = t
      BY <2>5 DEF Then
    <3>2. Follows(call.on, call.step)'
      BY <2>5, <3>1 DEF Follows, Early
    <3>3. QED
      BY <2>1, <2>3, <3>1, <3>2 DEF CallInv
  <2>6. QED
    BY <2>2, <2>4, <2>5 DEF Goes
<1>5. QED
  BY <1>3, <1>4

LEMMA IntervalOperate ==
  ASSUME TypeOK, IntervalInv, NEW w \in Workers, Operate(w)
  PROVE  IntervalInv'
<1>1. call.on = w /\ call.step # "next" /\ Follows(w, call.step)
  BY DEF IntervalInv, CallInv, Operate, Start, StartOrResume, Pause, PauseClear, PauseWake, Resume,
     ResumeClear, ResumeSet, Kill, KillTerminate, KillProceed, KillWake, Step
<1>2. /\ Early(w) <=> pc[w] \in EarlyPlaces
      /\ Early(w) /\ (wake[w] \/ proceed[w]) => terminate[w]
      /\ wake[w] /\ proceed[w] => terminate[w]
  BY DEF IntervalInv, EarlyInv, IntervalEnforced, Early, EarlyPlaces
<1>3. Only(w)
  BY DEF TypeOK, Operate, Start, StartOrResume, Pause, PauseClear, PauseWake, Resume, ResumeClear,
     ResumeSet, Kill, KillTerminate, KillProceed, KillWake, SetWake, SetProceed, Goto, events, Only
<1> USE DEF Moves, Goes, Only, Steps, AllOperations
<1>4. SetWake(w) => /\ wake'[w] = TRUE
                    /\ pc'[w] \in EarlyPlaces => pc[w] \in EarlyPlaces
                    /\ pc'[w] \in {"kill proceed", "kill wake"} => pc'[w] = pc[w]
  BY DEF SetWake, TypeOK, AfterWait, EarlyPlaces
<1>5. SetProceed(w) => /\ proceed'[w] = TRUE
                       /\ pc'[w] \in EarlyPlaces => pc[w] \in EarlyPlaces
                       /\ pc'[w] \in {"kill proceed", "kill wake"} => pc'[w] = pc[w]
  BY DEF SetProceed, TypeOK, AfterWait, EarlyPlaces
<1>6. Moves(w) /\ Goes(w)
  <2>1. CASE Start(w)
    <3>1. Moves(w)
      BY <2>1, <1>2, <1>3 DEF Start, Goto, events, EarlyPlaces, TypeOK
    <3>2. QED
      BY <2>1, <3>1 DEF Start
  <2>2. CASE StartOrResume(w)
    <3>1. UNCHANGED <<pc, events>>
      BY <2>2 DEF StartOrResume
    <3>2. Moves(w)
      BY <3>1, <1>2 DEF events
    <3>3. pc[w] # "created" => Follows(w, "resume")'
      BY <1>1, <3>1, <2>2 DEF StartOrResume, Step, Follows, Early, events
    <3>4. Follows(w, "start")'
      BY DEF Follows
    <3>5. QED
      BY <2>2, <3>2, <3>3, <3>4 DEF StartOrResume
  <2>3. CASE Pause(w)
    <3>1. UNCHANGED <<pc, events>>
      BY <2>3 DEF Pause
    <3>2. Moves(w)
      BY <3>1, <1>2 DEF events
    <3>3. proceed[w] => Follows(w, "pause: clear")'
      BY <1>2, <3>1 DEF Follows, Early, events
    <3>4. QED
      BY <2>3, <3>2, <3>3 DEF Pause
  <2>4. CASE PauseClear(w)
    <3>1. UNCHANGED <<pc, wake, terminate>> /\ proceed'[w] = FALSE /\ call.step = "pause: clear"
      BY <2>4 DEF PauseClear, TypeOK, Step
    <3>2. Moves(w)
      BY <3>1, <1>2
    <3>3. Follows(w, "pause: wake")'
      BY <1>1, <3>1 DEF Follows, Early
    <3>4. QED
      BY <2>4, <3>2, <3>3 DEF PauseClear
  <2>5. CASE PauseWake(w)
    <3>1. UNCHANGED <<proceed, terminate>> /\ SetWake(w) /\ call.step = "pause: wake"
      BY <2>5 DEF PauseWake, Step
    <3>2. Moves(w)
      BY <3>1, <1>1, <1>2, <1>4 DEF Follows
    <3>3. QED
      BY <2>5, <3>2 DEF PauseWake
  <2>6. CASE Resume(w)
    <3>1. UNCHANGED <<pc, events>> /\ call.step = "resume"
      BY <2>6 DEF Resume, Step
    <3>2. Moves(w)
      BY <3>1, <1>2 DEF events
    <3>3. Follows(w, "resume: clear")'
      BY <1>1, <3>1 DEF Follows, Early, events
    <3>4. QED
      BY <2>6, <3>2, <3>3 DEF Resume
  <2>7. CASE ResumeClear(w)
    <3>1. UNCHANGED <<pc, proceed, terminate>> /\ wake'[w] = FALSE /\ call.step = "resume: clear"
      BY <2>7 DEF ResumeClear, TypeOK, Step
    <3>2. Moves(w)
      BY <3>1, <1>2
    <3>3. Follows(w, "resume: set")'
      BY <1>1, <3>1 DEF Follows, Early
    <3>4. QED
      BY <2>7, <3>2, <3>3 DEF ResumeClear
  <2>8. CASE ResumeSet(w)
    <3>1. UNCHANGED <<wake, terminate>> /\ SetProceed(w) /\ call.step = "resume: set"
      BY <2>8 DEF ResumeSet, Step
    <3>2. Moves(w)
      BY <3>1, <1>1, <1>2, <1>5 DEF Follows
    <3>3. QED
      BY <2>8, <3>2 DEF ResumeSet
  <2>9. CASE Kill(w)
    <3>1. UNCHANGED <<pc, proceed, wake, terminate>>
      BY <2>9 DEF Kill
    <3>2. Moves(w)
      BY <3>1, <1>2
    <3>3. Follows(w, "kill: terminate")'
      BY DEF Follows
    <3>4. QED
      BY <2>9, <3>2, <3>3 DEF Kill
  <2>10. CASE KillTerminate(w)
    <3>1. UNCHANGED <<pc, proceed, wake>> /\ terminate'[w] = TRUE
      BY <2>10 DEF KillTerminate, TypeOK
    <3>2. Moves(w)
      BY <3>1, <1>2
    <3>3. Follows(w, "kill: proceed")'
      BY <3>1 DEF Follows
    <3>4. QED
      BY <2>10, <3>2, <3>3 DEF KillTerminate
  <2>11. CASE KillProceed(w)
    <3>1. UNCHANGED <<wake, terminate>> /\ SetProceed(w) /\ call.step = "kill: proceed"
      BY <2>11 DEF KillProceed, Step
    <3>2. Moves(w)
      BY <3>1, <1>1, <1>5 DEF Follows
    <3>3. Follows(w, "kill: wake")'
      BY <1>1, <3>1 DEF Follows
    <3>4. QED
      BY <2>11, <3>2, <3>3 DEF KillProceed
  <2>12. CASE KillWake(w)
    <3>1. UNCHANGED <<proceed, terminate>> /\ SetWake(w) /\ call.step = "kill: wake"
      BY <2>12 DEF KillWake, Step
    <3>2. Moves(w)
      BY <3>1, <1>1, <1>4 DEF Follows
    <3>3. QED
      BY <2>12, <3>2 DEF KillWake
  <2>13. QED
    BY <2>1, <2>2, <2>3, <2>4, <2>5, <2>6, <2>7, <2>8, <2>9, <2>10, <2>11, <2>12 DEF Operate
<1> HIDE DEF Moves, Goes, Only, Steps, AllOperations
<1>7. QED
  BY <1>1, <1>3, <1>6, IntervalSteps

LEMMA IntervalBegins ==
  ASSUME TypeOK, IntervalInv, ~EarlyResume, NEW op \in Operations,
         NEW by \in Workers \union {Manager}, NEW found \in SUBSET Workers, BeginCall(op, by, found)
  PROVE  IntervalInv'
<1>1. UNCHANGED <<pc, events>>
  BY DEF BeginCall
<1>2. call' = [NoCall EXCEPT !.op = op, !.by = by, !.todo = found]
  BY DEF BeginCall
<1>3. call'.op = op /\ call'.todo = found /\ call'.step = "next"
  BY <1>2 DEF NoCall
<1>4. \A w \in found :
        Early(w) => (op \notin {"resume", "start_or_resume"}
                     \/ (op = "start_or_resume" /\ pc[w] = "created"))
  BY DEF BeginCall
<1>5. CallInv'
  BY <1>1, <1>3, <1>4 DEF CallInv, Early
<1>6. QED
  BY <1>1, <1>5 DEF IntervalInv, EarlyInv, SelfInv, IntervalEnforced, Early, events

LEMMA IntervalCallNext ==
  ASSUME TypeOK, IntervalInv, CallNext
  PROVE  IntervalInv'
<1>1. UNCHANGED <<pc, events>>
  BY DEF CallNext
<1>2. CallInv'
  <2>1. CASE call' = NoCall
    BY <2>1 DEF CallInv, NoCall
  <2>2. ASSUME NEW w \in call.todo, call' = [call EXCEPT !.todo = @ \ {w}, !.on = w, !.step = call.op]
        PROVE  CallInv'
    <3>1. /\ call'.op = call.op /\ call'.todo = call.todo \ {w} /\ call'.on = w
          /\ call'.step = call.op
      BY <2>2 DEF TypeOK
    <3>2. call.op \in AllOperations \union {"none"}
      BY DEF TypeOK
    <3>3. Follows(w, call.op)
      BY <3>2 DEF IntervalInv, CallInv, Follows, AllOperations
    <3>4. Follows(w, call.op)'
      BY <1>1, <3>1, <3>3 DEF Follows, Early, events
    <3>5. QED
      BY <1>1, <3>1, <3>4 DEF IntervalInv, CallInv, Early
  <2>3. QED
    BY <2>1, <2>2 DEF CallNext
<1>3. QED
  BY <1>1, <1>2 DEF IntervalInv, EarlyInv, SelfInv, IntervalEnforced, Early, events

(* When no worker is resumed before it has begun, a worker that is neither *)
(* paused nor killed sleeps for its whole interval between two runs, under *)
(* any interleaving of the calls with the workers' own steps.              *)
THEOREM IntervalIsEnforced ==
  ASSUME ~EarlyResume
  PROVE  Spec => []IntervalEnforced
<1>1. Init => IntervalInv
  BY DEF Init, IntervalInv, EarlyInv, SelfInv, CallInv, IntervalEnforced, NoCall
<1>2. TypeOK /\ IntervalInv /\ [Next]_vars => IntervalInv'
  <2> SUFFICES ASSUME TypeOK, IntervalInv, [Next]_vars PROVE IntervalInv'
    OBVIOUS
  <2>1. CASE UNCHANGED vars
    BY <2>1 DEF vars, IntervalInv, EarlyInv, SelfInv, CallInv, Follows, IntervalEnforced, Early
  <2>2. QED
    BY <2>1, IntervalWork, IntervalOperate, IntervalBegins, IntervalCallNext DEF Next
<1>3. IntervalInv => IntervalEnforced
  BY DEF IntervalInv
<1>4. QED
  BY <1>1, <1>2, <1>3, WorkerTypes, PTL DEF Spec
=============================================================================
