--------------------------- MODULE Runtime_proofs ---------------------------
(***************************************************************************)
(* Proofs about the parts of the minion that MCRuntime lets run beside     *)
(* each other.  Those about the writer of its log files and the triggers   *)
(* of its events are in modules of their own; here are those about the     *)
(* reactors, for any reactors, events and failures, the readout of the     *)
(* accelerometer, for every size of the FIFO, watermark and limit, and the *)
(* way to sleep, for every set of timers and commands.  The last section   *)
(* puts the types of all parts together.                                   *)
(***************************************************************************)
EXTENDS MCRuntime, JsonlWriter_proofs, EventTriggers_proofs

(* Event reactor: types.                                                   *)

(* An event is served while it is offered, and only a reactor has actions  *)
(* left.                                                                   *)
ServingInv ==
  /\ at = 0 => todo = <<>>
  /\ at # 0 => event \in [key : Keys, says : Contents]
  /\ todo # <<>> => at \in Reactors

ReactorTypes == ReactorTypeOK /\ ServingInv

LEMMA ListTypes ==
  ASSUME ReactorTypeOK, NEW r \in Reactors
  PROVE  /\ reactor[r].actions \in Seq(Actions) /\ Single(r) \in Seq(Actions)
         /\ listed[r] \in Seq(Actions) /\ ran[r] \in Seq(Actions)
<1>1. reactor[r] \in Configurations /\ listed[r] \in Seq(Actions) /\ ran[r] \in Seq(Actions)
  BY DEF ReactorTypeOK
<1>2. <<"other", "cache">> \in Seq(Actions) /\ <<>> \in Seq(Actions)
  BY DEF Actions
<1>3. reactor[r].actions \in Seq(Actions)
  BY <1>1, <1>2 DEF Configurations, Lists
<1>4. reactor[r].action \in Actions \union {"none"}
  BY <1>1 DEF Configurations
<1>5. Single(r) \in Seq(Actions)
  BY <1>2, <1>4 DEF Single
<1>6. QED
  BY <1>1, <1>3, <1>5

LEMMA ReactorTypesInit == ReactorInit => ReactorTypes
<1> SUFFICES ASSUME ReactorInit PROVE ReactorTypes
  OBVIOUS
<1>1. NumReactors \in Nat /\ MaxEvents \in Nat /\ MaxRaises \in Nat
  BY ReactorAssumption
<1>2. ASSUME NEW r \in Reactors PROVE reactor[r].actions \in Seq(Actions)
  <2>1. reactor[r].actions \in Lists
    BY DEF ReactorInit, Configurations
  <2>2. <<"other", "cache">> \in Seq(Actions) /\ <<>> \in Seq(Actions)
    BY DEF Actions
  <2>3. QED
    BY <2>1, <2>2 DEF Lists
<1>3. <<>> \in Seq(Actions) /\ 0 \in Nat
  OBVIOUS
<1>4. ReactorTypeOK
  BY <1>1, <1>2, <1>3 DEF ReactorInit, ReactorTypeOK
<1>5. QED
  BY <1>4 DEF ReactorInit, ReactorTypes, ServingInv

(* What the end of an action leaves.                                       *)
LEMMA AfterActionTypes ==
  ASSUME ReactorTypes, NEW result \in BOOLEAN, todo # <<>>, AfterAction(result)
  PROVE  /\ todo' \in Seq(Actions) /\ at' \in 0..(NumReactors + 1)
         /\ event' \in [key : Keys, says : Contents] \union {NoBusEvent}
         /\ ServingInv'
         /\ \/ todo' = <<>> \/ (todo' = Tail(todo) /\ at' = at)
<1>1. at \in 1..NumReactors /\ todo \in Seq(Actions) /\ event \in [key : Keys, says : Contents]
  BY DEF ReactorTypes, ReactorTypeOK, ServingInv, Reactors
<1>2. NumReactors \in Nat
  BY ReactorAssumption
<1>3. /\ Tail(todo) \in Seq(Actions) /\ <<>> \in Seq(Actions)
      /\ Len(todo) = 1 => Tail(todo) = <<>>
  <2>1. Tail(todo) \in Seq(Actions) /\ Len(Tail(todo)) = Len(todo) - 1
    BY <1>1, HeadTailProperties
  <2>2. Tail(todo) # <<>> => Len(Tail(todo)) # 0
    BY <2>1, EmptySeq
  <2>3. Len(todo) = 1 => Tail(todo) = <<>>
    BY <2>1, <2>2
  <2>4. QED
    BY <2>1, <2>3
<1>4. CASE Abandon
  BY <1>1, <1>2, <1>3, <1>4 DEF Abandon, ServingInv
<1>5. CASE at' = at + 1 /\ todo' = <<>> /\ UNCHANGED event
  BY <1>1, <1>2, <1>3, <1>5 DEF ServingInv
<1>6. CASE todo' = Tail(todo) /\ at' = (IF Len(todo) = 1 THEN at + 1 ELSE at) /\ UNCHANGED event
  BY <1>1, <1>2, <1>3, <1>6 DEF ServingInv, Reactors
<1>7. QED
  BY <1>4, <1>5, <1>6 DEF AfterAction

LEMMA ReactorTypesStep == ReactorTypes /\ [ReactorNext]_reactorVars => ReactorTypes'
<1> SUFFICES ASSUME ReactorTypes, [ReactorNext]_reactorVars PROVE ReactorTypes'
  OBVIOUS
<1>0. /\ NumReactors \in Nat /\ MaxEvents \in Nat /\ MaxRaises \in Nat /\ ReactorTypeOK
      /\ at \in 0..(NumReactors + 1) /\ events \in 0..MaxEvents /\ raises \in 0..MaxRaises
      /\ <<>> \in Seq(Actions)
  BY ReactorAssumption DEF ReactorTypes, ReactorTypeOK
<1>1. CASE ReceiveEvent
  <2>1. at' = 1 /\ at' \in 0..(NumReactors + 1) /\ events' \in 0..MaxEvents /\ todo' = <<>>
    BY <1>0, <1>1 DEF ReceiveEvent, ReactorTypes, ServingInv
  <2>2. ReactorTypeOK'
    BY <1>0, <1>1, <2>1 DEF ReceiveEvent, ReactorTypeOK, config, served
  <2>3. QED
    BY <1>1, <2>1, <2>2 DEF ReceiveEvent, ReactorTypes, ServingInv
<1>2. CASE Pass
  <2>1. at' \in 0..(NumReactors + 1) /\ at \in Nat /\ at # 0 /\ todo' = <<>>
    BY <1>0, <1>2 DEF Pass, Offered, Reactors
  <2>2. ReactorTypeOK'
    BY <1>0, <1>2, <2>1 DEF Pass, ReactorTypeOK, config, served
  <2>3. QED
    BY <1>2, <2>1, <2>2 DEF Pass, ReactorTypes, ServingInv
<1>3. CASE React
  <2>1. at \in Reactors /\ at' = at /\ todo' = listed[at] \o Single(at)
    BY <1>3 DEF React, Offered
  <2>2. todo' \in Seq(Actions)
    BY <1>0, <2>1, ListTypes, ConcatProperties
  <2>3. listed' \in [Reactors -> Seq(Actions)]
    BY <1>0, <1>3, <2>2 DEF React, ReactorTypeOK
  <2>4. ReactorTypeOK'
    BY <1>0, <1>3, <2>2, <2>3 DEF React, ReactorTypeOK, config, served
  <2>5. QED
    BY <1>0, <1>3, <2>1, <2>4 DEF React, ReactorTypes, ServingInv, Reactors
<1>4. CASE EndEvent
  <2>1. ReactorTypeOK'
    BY <1>0, <1>4 DEF EndEvent, Abandon, ReactorTypeOK, config, served
  <2>2. QED
    BY <1>4, <2>1 DEF EndEvent, Abandon, ReactorTypes, ServingInv
<1>5. CASE ConditionRaises
  <2>1. ReactorTypeOK'
    BY <1>0, <1>5 DEF ConditionRaises, Abandon, ReactorTypeOK, config, served
  <2>2. QED
    BY <1>5, <2>1 DEF ConditionRaises, Abandon, ReactorTypes, ServingInv
<1>6. ASSUME NEW a \in Actions, BeginAction(a), raises' \in 0..MaxRaises,
             cache' \in [Keys -> [says : Contents \union {"none"}, count : Nat]],
             forwarded' \in [Keys -> [says : Contents \union {"none"}, again : BOOLEAN]],
             lost' \in [Keys -> BOOLEAN],
             Abandon \/ \E result \in BOOLEAN : AfterAction(result)
      PROVE  ReactorTypes'
  <2>1. ran' \in [Reactors -> Seq(Actions)]
    <3>1. at \in Reactors /\ ran[at] \in Seq(Actions)
      BY <1>0, <1>6, ListTypes DEF BeginAction, ReactorTypes, ServingInv
    <3>2. Append(ran[at], a) \in Seq(Actions)
      BY <3>1, <1>6, AppendProperties
    <3>3. QED
      BY <1>0, <1>6, <3>2 DEF BeginAction, ReactorTypeOK
  <2>2. /\ todo' \in Seq(Actions) /\ at' \in 0..(NumReactors + 1) /\ ServingInv'
        /\ event' \in [key : Keys, says : Contents] \union {NoBusEvent}
    <3>1. CASE Abandon
      BY <1>0, <3>1 DEF Abandon, ServingInv
    <3>2. ASSUME NEW result \in BOOLEAN, AfterAction(result) PROVE <2>2!:
      BY <1>6, <3>2, AfterActionTypes DEF BeginAction
    <3>3. QED
      BY <1>6, <3>1, <3>2
  <2>3. QED
    BY <1>0, <1>6, <2>1, <2>2 DEF BeginAction, ReactorTypes, ReactorTypeOK, config
<1>7. CASE ActionRaises
  <2>1. Head(todo) \in Actions
    BY <1>0, <1>7, HeadTailProperties DEF ActionRaises, ReactorTypeOK
  <2>2. raises' \in 0..MaxRaises
    BY <1>0, <1>7 DEF ActionRaises
  <2>3. QED
    BY <1>0, <1>6, <1>7, <2>1, <2>2 DEF ActionRaises, served, ReactorTypeOK
<1>8. CASE RunOther
  BY <1>0, <1>6, <1>8 DEF RunOther, served, ReactorTypeOK, Actions
<1>9. CASE RunCache
  <2> DEFINE k == event.key
  <2>1. k \in Keys /\ event.says \in Contents
    BY <1>9 DEF RunCache, BeginAction, ReactorTypes, ServingInv, Reactors
  <2>2. Cached(k, event.says) \in [says : Contents \union {"none"}, count : Nat]
    BY <1>0, <2>1 DEF Cached, ReactorTypeOK
  <2>3. cache' \in [Keys -> [says : Contents \union {"none"}, count : Nat]]
    BY <1>0, <1>9, <2>2 DEF RunCache, ReactorTypeOK
  <2> DEFINE again == forwarded[k].again \/ (forwarded[k].says = event.says /\ ~lost[k])
  <2>a. /\ forwarded \in [Keys -> [says : Contents \union {"none"}, again : BOOLEAN]]
        /\ lost \in [Keys -> BOOLEAN]
    BY <1>0 DEF ReactorTypeOK
  <2>b. \/ UNCHANGED forwarded
        \/ forwarded' = [forwarded EXCEPT ![k] = [says |-> event.says, again |-> again]]
    BY <1>9 DEF RunCache
  <2>c. UNCHANGED lost \/ lost' = [lost EXCEPT ![k] = FALSE] \/ lost' = [lost EXCEPT ![k] = TRUE]
    BY <1>9 DEF RunCache
  <2>d. UNCHANGED raises \/ (raises < MaxRaises /\ raises' = raises + 1)
    BY <1>9 DEF RunCache
  <2>e. again \in BOOLEAN
    OBVIOUS
  <2> HIDE DEF again
  <2>4. /\ forwarded' \in [Keys -> [says : Contents \union {"none"}, again : BOOLEAN]]
        /\ lost' \in [Keys -> BOOLEAN]
    <3> DEFINE R == [says : Contents \union {"none"}, again : BOOLEAN]
               r == [says |-> event.says, again |-> again]
    <3>1. r \in R
      BY <2>1, <2>e
    <3>2. forwarded \in [Keys -> R] /\ (UNCHANGED forwarded \/ forwarded' = [forwarded EXCEPT ![k] = r])
      BY <2>a, <2>b
    <3> HIDE DEF R, r
    <3>3. forwarded' \in [Keys -> R]
      BY <3>1, <3>2
    <3>4. lost' \in [Keys -> BOOLEAN]
      BY <2>a, <2>c
    <3>5. QED
      BY <3>3, <3>4 DEF R
  <2>5. raises' \in 0..MaxRaises
    BY <1>0, <2>d
  <2>6. Abandon \/ \E result \in BOOLEAN : AfterAction(result)
    BY <1>9 DEF RunCache
  <2>7. QED
    BY <1>6, <1>9, <2>3, <2>4, <2>5, <2>6 DEF RunCache, Actions
<1>10. CASE UNCHANGED reactorVars
  BY <1>0, <1>10 DEF reactorVars, ReactorTypes, ReactorTypeOK, ServingInv
<1>11. QED
  BY <1>1, <1>2, <1>3, <1>4, <1>5, <1>7, <1>8, <1>9, <1>10 DEF ReactorNext

(* The cache, the events and the actions of the reactor keep their types   *)
(* (messaging.py, event_reactor.py).                                       *)
THEOREM ReactorKeepsTypes == ReactorSpec => []ReactorTypeOK
<1>1. ReactorTypes => ReactorTypeOK
  BY DEF ReactorTypes
<1>2. QED
  BY <1>1, ReactorTypesInit, ReactorTypesStep, PTL DEF ReactorSpec

-----------------------------------------------------------------------------
(* Event reactor: each action once.                                        *)

(* A reactor with its actions in one place only. *)
OneSource(r) == ~(HasList(r) /\ Single(r) # <<>>)

(* What was run and what is left make the configured actions up, and the   *)
(* list of such a reactor has not grown.                                   *)
OnceInv ==
  \A r \in Reactors : OneSource(r) =>
    /\ listed[r] = reactor[r].actions
    /\ IsPrefix(ran[r], Configured(r))
    /\ at = r /\ todo # <<>> => ran[r] \o todo = Configured(r)

LEMMA PrefixOfConcat ==
  ASSUME NEW S, NEW s \in Seq(S), NEW t \in Seq(S)
  PROVE  IsPrefix(s, s \o t)
<1>1. /\ s \o t \in Seq(S) /\ Len(s \o t) = Len(s) + Len(t) /\ Len(s) \in Nat /\ Len(t) \in Nat
      /\ \A i \in 1..Len(s) + Len(t) : (s \o t)[i] = IF i <= Len(s) THEN s[i] ELSE t[i - Len(s)]
  BY ConcatProperties, LenProperties
<1>2. SubSeq(s, 1, Len(s)) = s
  BY <1>1, SubSeqFull
<1>3. SubSeq(s \o t, 1, Len(s)) = s
  BY SubSeqOfConcat1, <1>1, <1>2
<1>4. QED
  BY <1>1, <1>2, <1>3 DEF IsPrefix

LEMMA MoveOne ==
  ASSUME NEW S, NEW s \in Seq(S), NEW t \in Seq(S), t # <<>>
  PROVE  Append(s, Head(t)) \o Tail(t) = s \o t
<1>1. Head(t) \in S /\ Tail(t) \in Seq(S) /\ t = <<Head(t)>> \o Tail(t)
  BY HeadTailProperties
<1>2. Append(s, Head(t)) = s \o <<Head(t)>> /\ <<Head(t)>> \in Seq(S)
  BY <1>1, AppendIsConcat
<1>3. (s \o <<Head(t)>>) \o Tail(t) = s \o (<<Head(t)>> \o Tail(t))
  BY <1>1, <1>2, ConcatAssociative
<1>4. QED
  BY <1>1, <1>2, <1>3

LEMMA OnceInit == ReactorInit => OnceInv
<1> SUFFICES ASSUME ReactorInit, NEW r \in Reactors
             PROVE  /\ listed[r] = reactor[r].actions
                    /\ IsPrefix(ran[r], Configured(r))
                    /\ at = r /\ todo # <<>> => ran[r] \o todo = Configured(r)
  BY DEF OnceInv
<1>1. ReactorTypeOK /\ listed[r] = reactor[r].actions /\ ran[r] = <<>> /\ todo = <<>>
  BY ReactorTypesInit DEF ReactorTypes, ReactorInit
<1>2. Configured(r) \in Seq(Actions) /\ <<>> \in Seq(Actions) /\ <<>> \o Configured(r) = Configured(r)
  BY <1>1, ListTypes, ConcatProperties, ConcatEmptySeq DEF Configured
<1>3. IsPrefix(<<>>, <<>> \o Configured(r))
  BY <1>2, PrefixOfConcat
<1>4. QED
  BY <1>1, <1>2, <1>3

LEMMA OnceOfAction ==
  ASSUME ReactorTypes, OnceInv, NEW a, BeginAction(a), todo' = <<>> \/ (todo' = Tail(todo) /\ at' = at)
  PROVE  OnceInv'
<1> SUFFICES ASSUME NEW r \in Reactors, OneSource(r)'
             PROVE  (/\ listed[r] = reactor[r].actions
                     /\ IsPrefix(ran[r], Configured(r))
                     /\ at = r /\ todo # <<>> => ran[r] \o todo = Configured(r))'
  BY DEF OnceInv, Reactors
<1>1. /\ UNCHANGED <<reactor, listed>> /\ a = Head(todo) /\ todo # <<>> /\ at \in Reactors
      /\ ran' = [ran EXCEPT ![at] = Append(@, a)] /\ OneSource(r)
      /\ ran \in [Reactors -> Seq(Actions)] /\ todo \in Seq(Actions) /\ UNCHANGED Configured(r)
  BY DEF BeginAction, config, ReactorTypes, ReactorTypeOK, ServingInv, OneSource, HasList, Single, Configured
<1>2. CASE r # at
  <2>1. ran'[r] = ran[r] /\ (todo' # <<>> => at' # r)
    BY <1>1, <1>2
  <2>2. QED
    BY <1>1, <2>1 DEF OnceInv
<1>3. CASE r = at
  <2>1. ran[r] \in Seq(Actions) /\ ran'[r] = Append(ran[r], Head(todo)) /\ ran[r] \o todo = Configured(r)
    BY <1>1, <1>3 DEF OnceInv
  <2>2. Append(ran[r], Head(todo)) \o Tail(todo) = Configured(r)
    BY <1>1, <2>1, MoveOne
  <2>3. Append(ran[r], Head(todo)) \in Seq(Actions) /\ Tail(todo) \in Seq(Actions)
    BY <1>1, <2>1, HeadTailProperties, AppendProperties
  <2>4. IsPrefix(ran'[r], Configured(r))
    BY <2>1, <2>2, <2>3, PrefixOfConcat
  <2>5. at' = r /\ todo' # <<>> => ran'[r] \o todo' = Configured(r)
    BY <2>1, <2>2
  <2>6. QED
    BY <1>1, <2>4, <2>5 DEF OnceInv
<1>4. QED
  BY <1>2, <1>3

LEMMA OnceKept == ReactorTypes /\ OnceInv /\ [ReactorNext]_reactorVars => OnceInv'
<1> SUFFICES ASSUME ReactorTypes, OnceInv, [ReactorNext]_reactorVars PROVE OnceInv'
  OBVIOUS
<1>1. ASSUME UNCHANGED <<reactor, listed, ran>>, todo' = <<>> \/ UNCHANGED <<at, todo>> PROVE OnceInv'
  BY <1>1 DEF OnceInv, OneSource, HasList, Single, Configured
<1>2. CASE ReceiveEvent
  <2>1. todo' = <<>> /\ UNCHANGED <<reactor, listed>>
    BY <1>2 DEF ReceiveEvent, ReactorTypes, ServingInv, config
  <2>2. ASSUME NEW r \in Reactors, OneSource(r)
        PROVE  listed[r] = reactor[r].actions /\ IsPrefix(<<>>, Configured(r)) /\ ran'[r] = <<>>
    <3>1. ReactorTypeOK /\ ran'[r] = <<>> /\ listed[r] = reactor[r].actions
      BY <1>2, <2>2 DEF ReceiveEvent, ReactorTypes, OnceInv
    <3>2. Configured(r) \in Seq(Actions) /\ <<>> \in Seq(Actions) /\ <<>> \o Configured(r) = Configured(r)
      BY <3>1, ListTypes, ConcatProperties, ConcatEmptySeq DEF Configured
    <3>3. IsPrefix(<<>>, <<>> \o Configured(r))
      BY <3>2, PrefixOfConcat
    <3>4. QED
      BY <3>1, <3>2, <3>3
  <2>3. QED
    BY <2>1, <2>2 DEF OnceInv, OneSource, HasList, Single, Configured
<1>3. CASE Pass
  BY <1>1, <1>3 DEF Pass, Offered, config
<1>4. CASE React
  <2>1. /\ at \in Reactors /\ at' = at /\ ran[at] = <<>> /\ UNCHANGED <<reactor, ran>> /\ ReactorTypeOK
        /\ todo' = listed[at] \o Single(at)
        /\ listed' = IF HasList(at) THEN [listed EXCEPT ![at] = todo'] ELSE listed
    BY <1>4 DEF React, Offered, config, ReactorTypes
  <2> SUFFICES ASSUME NEW r \in Reactors, OneSource(r)
               PROVE  /\ listed'[r] = reactor[r].actions
                      /\ IsPrefix(ran[r], Configured(r))
                      /\ at = r => ran[r] \o todo' = Configured(r)
    BY <2>1 DEF OnceInv, OneSource, HasList, Single, Configured
  <2>2. listed[r] = reactor[r].actions /\ IsPrefix(ran[r], Configured(r))
    BY DEF OnceInv
  <2>3. CASE r # at
    BY <2>1, <2>2, <2>3 DEF ReactorTypeOK
  <2>4. CASE r = at
    <3>1. todo' = Configured(r)
      BY <2>1, <2>2, <2>4 DEF Configured
    <3>2. Configured(r) \in Seq(Actions) /\ reactor[r].actions \in Seq(Actions)
      BY <2>1, ListTypes, ConcatProperties DEF Configured
    <3>3. <<>> \o Configured(r) = Configured(r)
      BY <3>2, ConcatEmptySeq
    <3>4. HasList(r) => Configured(r) = reactor[r].actions
      BY <3>2, ConcatEmptySeq DEF OneSource, Configured
    <3>5. listed'[r] = reactor[r].actions
      BY <2>1, <2>2, <2>4, <3>1, <3>4 DEF ReactorTypeOK
    <3>6. QED
      BY <2>1, <2>2, <2>4, <3>1, <3>3, <3>5
  <2>5. QED
    BY <2>3, <2>4
<1>5. CASE ConditionRaises \/ EndEvent
  BY <1>1, <1>5 DEF ConditionRaises, EndEvent, Abandon, config
<1>6. ASSUME NEW a, BeginAction(a), Abandon \/ \E result \in BOOLEAN : AfterAction(result)
      PROVE  OnceInv'
  <2>1. todo # <<>>
    BY <1>6 DEF BeginAction
  <2>2. todo' = <<>> \/ (todo' = Tail(todo) /\ at' = at)
    BY <1>6, <2>1, AfterActionTypes DEF Abandon
  <2>3. QED
    BY <1>6, <2>2, OnceOfAction
<1>7. CASE ActionRaises
  BY <1>6, <1>7 DEF ActionRaises
<1>8. CASE RunOther
  BY <1>6, <1>8 DEF RunOther
<1>9. CASE RunCache
  BY <1>6, <1>9 DEF RunCache
<1>10. CASE UNCHANGED reactorVars
  BY <1>1, <1>10 DEF reactorVars
<1>11. QED
  BY <1>2, <1>3, <1>4, <1>5, <1>7, <1>8, <1>9, <1>10 DEF ReactorNext

(* A reactor runs its actions in their order and each of them once for an  *)
(* event, after any number of events and failures, unless it has actions   *)
(* under both keys.                                                        *)
THEOREM ActionsRunOnce == ReactorSpec => []ReactsOnce
<1>1. OnceInv => ReactsOnce
  BY DEF OnceInv, ReactsOnce, OneSource
<1>2. ReactorTypes /\ OnceInv /\ [ReactorNext]_reactorVars => (ReactorTypes /\ OnceInv)'
  BY ReactorTypesStep, OnceKept
<1>3. ReactorInit => ReactorTypes /\ OnceInv
  BY ReactorTypesInit, OnceInit
<1>4. QED
  BY <1>1, <1>2, <1>3, PTL DEF ReactorSpec

-----------------------------------------------------------------------------
(* Event reactor: what is forwarded.                                       *)

(* A key that was cached has been counted, so that only another content    *)
(* begins at one again.                                                    *)
CountedInv == \A k \in Keys : cache[k].says # "none" => cache[k].count # 0

LEMMA ForwardedKept ==
  ReactorTypes /\ CountedInv /\ ForwardedIsCached /\ [ReactorNext]_reactorVars =>
    (CountedInv /\ ForwardedIsCached)'
<1> SUFFICES ASSUME ReactorTypes, CountedInv, ForwardedIsCached, [ReactorNext]_reactorVars
             PROVE  (CountedInv /\ ForwardedIsCached)'
  OBVIOUS
<1>1. CASE RunCache
  <2> DEFINE k == event.key  c == Cached(k, event.says)
             again == forwarded[k].again \/ (forwarded[k].says = event.says /\ ~lost[k])
             f == [says |-> event.says, again |-> again]
  <2>1. k \in Keys /\ event.says \in Contents /\ "none" \notin Contents
    BY <1>1, ReactorAssumption DEF RunCache, BeginAction, ReactorTypes, ServingInv, Reactors
  <2>2. /\ cache \in [Keys -> [says : Contents \union {"none"}, count : Nat]]
        /\ forwarded \in [Keys -> [says : Contents \union {"none"}, again : BOOLEAN]]
        /\ lost \in [Keys -> BOOLEAN]
    BY DEF ReactorTypes, ReactorTypeOK
  <2>3. /\ cache' = [cache EXCEPT ![k] = c]
        /\ \/ cache'[k].count # 1 /\ UNCHANGED <<forwarded, lost>>
           \/ cache'[k].count = 1 /\ forwarded' = [forwarded EXCEPT ![k] = f] /\ lost' = [lost EXCEPT ![k] = FALSE]
           \/ cache'[k].count = 1 /\ lost' = [lost EXCEPT ![k] = TRUE] /\ UNCHANGED forwarded
    BY <1>1 DEF RunCache
  <2>4. /\ cache'[k] = c /\ c.says = event.says /\ c.count # 0
        /\ \A j \in Keys \ {k} : cache'[j] = cache[j]
    BY <2>1, <2>2, <2>3 DEF Cached
  <2>5. CountedInv'
    BY <2>4 DEF CountedInv
  <2>6. \A j \in Keys \ {k} : forwarded'[j] = forwarded[j] /\ lost'[j] = lost[j]
    BY <2>2, <2>3
  <2>7. c.count # 1 => cache[k].says = event.says
    BY <2>1, <2>2 DEF Cached
  <2>8. c.count = 1 => cache[k].says # event.says
    <3> SUFFICES ASSUME cache[k].says = event.says
                 PROVE  c.count # 1
      OBVIOUS
    <3>1. cache[k].count \in Nat
      BY <2>1, <2>2
    <3>2. cache[k].count # 0
      BY <2>1 DEF CountedInv
    <3>3. c.count = cache[k].count + 1
      BY <2>1, <2>2 DEF Cached
    <3> QED
      BY <3>1, <3>2, <3>3
  <2>9. /\ lost[k] \/ forwarded[k].says = cache[k].says
        /\ ~forwarded[k].again
    BY <2>1 DEF ForwardedIsCached
  <2>10. c.count = 1 => ~again
    BY <2>8, <2>9
  <2>11. f.says = event.says /\ f.again = again
    OBVIOUS
  <2> HIDE DEF f, c, again
  <2>12. (lost'[k] \/ forwarded'[k].says = event.says) /\ ~forwarded'[k].again
    <3>1. CASE c.count # 1 /\ UNCHANGED <<forwarded, lost>>
      BY <2>7, <2>9, <3>1
    <3>2. CASE c.count = 1 /\ forwarded' = [forwarded EXCEPT ![k] = f]
      <4>1. forwarded'[k] = f
        BY <2>1, <2>2, <3>2
      <4>2. QED
        BY <2>10, <2>11, <3>2, <4>1
    <3>3. CASE c.count = 1 /\ lost' = [lost EXCEPT ![k] = TRUE] /\ UNCHANGED forwarded
      <4>1. lost'[k]
        BY <2>1, <2>2, <3>3
      <4>2. QED
        BY <2>9, <3>3, <4>1
    <3>4. QED
      BY <2>3, <2>4, <3>1, <3>2, <3>3
  <2>13. QED
    BY <2>1, <2>4, <2>5, <2>6, <2>12 DEF ForwardedIsCached
<1>2. CASE ~RunCache
  <2>1. UNCHANGED <<cache, forwarded, lost>>
    BY <1>2 DEF ReactorNext, ReceiveEvent, Pass, React, ConditionRaises, ActionRaises, RunOther, EndEvent,
                served, reactorVars
  <2>2. QED
    BY <2>1 DEF CountedInv, ForwardedIsCached
<1>3. QED
  BY <1>1, <1>2

(* However the actions fail, an event is forwarded only if it differs from *)
(* the one that was forwarded last, and what was forwarded is what the     *)
(* cache holds.                                                            *)
THEOREM ChangesAreForwarded == ReactorSpec => []ForwardedIsCached
<1>1. ReactorInit => ReactorTypes /\ CountedInv /\ ForwardedIsCached
  <2>1. ReactorInit => CountedInv /\ ForwardedIsCached
    BY DEF ReactorInit, CountedInv, ForwardedIsCached
  <2>2. QED
    BY <2>1, ReactorTypesInit
<1>2. ReactorTypes /\ CountedInv /\ ForwardedIsCached /\ [ReactorNext]_reactorVars =>
        (ReactorTypes /\ CountedInv /\ ForwardedIsCached)'
  BY ReactorTypesStep, ForwardedKept
<1>3. QED
  BY <1>1, <1>2, PTL DEF ReactorSpec

-----------------------------------------------------------------------------
(* Accelerometer.                                                          *)

UserStates == {"idle", "wait", "clear", "unset", "query", "read", "drain", "more"}

(* A readout that goes on has not reached its limit.                       *)
BelowLimit == user["worker"] = "drain" => count < ReadLimit

AccInv == AccTypeOK /\ BelowLimit

(* A user that goes on is where it went, and the other where it was.       *)
LEMMA Going ==
  ASSUME user \in [Users -> UserStates], NEW u \in Users, NEW pc \in UserStates, Go(u, pc)
  PROVE  /\ user' \in [Users -> UserStates]
         /\ user'[u] = pc
         /\ \A v \in Users \ {u} : user'[v] = user[v]
  BY DEF Go, UserStates

LEMMA MinOfTwo ==
  ASSUME NEW a \in Nat, NEW b \in Nat
  PROVE  Min({a, b}) \in {a, b} /\ Min({a, b}) <= a /\ Min({a, b}) <= b
<1>1. \E x \in {a, b} : \A y \in {a, b} : x <= y
  OBVIOUS
<1>2. Min({a, b}) \in {a, b} /\ \A y \in {a, b} : Min({a, b}) <= y
  BY <1>1 DEF Min
<1>3. QED
  BY <1>2

-----------------------------------------------------------------------------
(* Types.                                                                  *)

LEMMA AccTypeInit == AccInit => AccInv
<1> SUFFICES ASSUME AccInit PROVE AccInv
  OBVIOUS
<1>1. 0 \in 0..Depth /\ 0 \in 0..ReadLimit /\ 0 \in 0..MaxErrors
  BY AccAssumption
<1>2. /\ fifo \in BOOLEAN /\ line \in BOOLEAN /\ edge \in BOOLEAN /\ unheard \in BOOLEAN
      /\ callback = "idle" /\ samples = 0 /\ count = 0 /\ errors = 0
  BY DEF AccInit
<1>3. interrupt \in [set : BOOLEAN, stamped : BOOLEAN]
  BY DEF AccInit
<1>4. user = [u \in Users |-> "idle"]
  BY DEF AccInit
<1>5. user \in [Users -> UserStates]
  BY <1>4 DEF UserStates
<1>6. AccTypeOK
  BY <1>1, <1>2, <1>3, <1>5 DEF AccTypeOK, UserStates
<1>7. user["worker"] # "drain"
  BY <1>4 DEF Users
<1>8. QED
  BY <1>6, <1>7 DEF AccInv, BelowLimit

LEMMA AccTypeStep == AccInv /\ [AccNext]_accVars => AccTypeOK'
<1> SUFFICES ASSUME AccTypeOK, BelowLimit, [AccNext]_accVars PROVE AccTypeOK'
  BY DEF AccInv
<1>0. /\ Depth \in Nat \ {0} /\ ReadLimit \in Nat \ {0} /\ Watermark \in 1..Depth
      /\ MaxErrors \in Nat
  BY AccAssumption
<1>t. /\ fifo \in BOOLEAN /\ line \in BOOLEAN /\ edge \in BOOLEAN /\ unheard \in BOOLEAN
      /\ samples \in 0..Depth /\ callback \in {"idle", "set"}
      /\ interrupt \in [set : BOOLEAN, stamped : BOOLEAN]
      /\ user \in [Users -> UserStates] /\ count \in 0..ReadLimit /\ errors \in 0..MaxErrors
  BY DEF AccTypeOK, UserStates
<1>1. CASE Sample
  <2>1. samples' \in 0..Depth
    <3>1. samples + 1 \in Nat /\ Capacity \in Nat /\ Capacity <= Depth
      BY <1>0, <1>t DEF Capacity
    <3>2. samples' \in Nat /\ samples' <= Capacity
      BY <1>1, <3>1, MinOfTwo DEF Sample
    <3>3. QED
      BY <1>0, <3>1, <3>2
  <2>2. line' = (line \/ ~fifo \/ samples' >= Watermark) /\ edge' = (edge \/ (line' /\ ~line))
    BY <1>1 DEF Sample
  <2>3. line' \in BOOLEAN /\ edge' \in BOOLEAN
    BY <2>2
  <2>4. UNCHANGED <<fifo, callback, interrupt, user, count, unheard, errors>>
    BY <1>1 DEF Sample
  <2>5. QED
    BY <1>t, <2>1, <2>3, <2>4 DEF AccTypeOK, UserStates
<1>2. CASE CallbackStamps \/ CallbackSets
  BY <1>t, <1>2 DEF CallbackStamps, CallbackSets, chip, AccTypeOK, UserStates
<1>3. ASSUME NEW u \in Users, BeginWait(u) \/ EndWait(u) \/ Query(u)
      PROVE  AccTypeOK'
  <2>1. PICK pc \in UserStates : Go(u, pc)
    BY <1>3 DEF BeginWait, EndWait, Query, UserStates
  <2>2. user' \in [Users -> UserStates]
    BY <1>t, <2>1, Going
  <2>3. UNCHANGED <<fifo, samples, line, edge, callback, interrupt, count, unheard, errors>>
    BY <1>3 DEF BeginWait, EndWait, Query, chip
  <2>4. QED
    BY <1>t, <2>2, <2>3 DEF AccTypeOK, UserStates
<1>4. ASSUME NEW u \in Users, ClearStamp(u) \/ ClearFlag(u)
      PROVE  AccTypeOK'
  <2>1. PICK pc \in UserStates : Go(u, pc)
    BY <1>4 DEF ClearStamp, ClearFlag, UserStates
  <2>2. user' \in [Users -> UserStates]
    BY <1>t, <2>1, Going
  <2>3. interrupt' \in [set : BOOLEAN, stamped : BOOLEAN]
    BY <1>t, <1>4 DEF ClearStamp, ClearFlag
  <2>4. unheard' \in BOOLEAN
    <3>1. CASE ClearStamp(u)
      BY <1>t, <3>1 DEF ClearStamp
    <3>2. CASE ClearFlag(u)
      <4>1. unheard' = (unheard \/ (line /\ fifo /\ u = "dump"))
        BY <3>2 DEF ClearFlag
      <4>2. QED
        BY <4>1
    <3>3. QED
      BY <1>4, <3>1, <3>2
  <2>5. UNCHANGED <<fifo, samples, line, edge, callback, count, errors>>
    BY <1>4 DEF ClearStamp, ClearFlag, chip
  <2>6. QED
    BY <1>t, <2>2, <2>3, <2>4, <2>5 DEF AccTypeOK, UserStates
<1>5. ASSUME NEW u \in Users, ReadSample(u)
      PROVE  AccTypeOK'
  <2>1. PICK pc \in UserStates : Go(u, pc)
    BY <1>5 DEF ReadSample, UserStates
  <2>2. user' \in [Users -> UserStates]
    BY <1>t, <2>1, Going
  <2>3. samples' \in 0..Depth /\ line' \in BOOLEAN /\ unheard' \in BOOLEAN
    <3>1. samples' = 0 /\ line' = FALSE /\ unheard' = FALSE
      BY <1>5 DEF ReadSample
    <3>2. 0 \in 0..Depth
      BY <1>0
    <3>3. QED
      BY <3>1, <3>2
  <2>4. UNCHANGED <<fifo, edge, callback, interrupt, count, errors>>
    BY <1>5 DEF ReadSample
  <2>5. QED
    BY <1>t, <2>2, <2>3, <2>4 DEF AccTypeOK, UserStates
<1>6. ASSUME NEW u \in Users, ReadFails(u)
      PROVE  AccTypeOK'
  <2>1. user' \in [Users -> UserStates]
    BY <1>t, <1>6, Going DEF ReadFails, UserStates
  <2>2. unheard' = (unheard \/ (line /\ user[u] = "read"))
    BY <1>6 DEF ReadFails
  <2>3. unheard' \in BOOLEAN
    BY <2>2
  <2>4. errors' \in 0..MaxErrors
    BY <1>0, <1>t, <1>6 DEF ReadFails
  <2>5. UNCHANGED <<fifo, samples, line, edge, callback, interrupt, count>>
    BY <1>6 DEF ReadFails, chip
  <2>6. QED
    BY <1>t, <2>1, <2>3, <2>4, <2>5 DEF AccTypeOK, UserStates
<1>7. CASE ReadStatus
  <2>1. user' \in [Users -> UserStates]
    BY <1>t, <1>7, Going DEF ReadStatus, UserStates, Users
  <2>2. 0 \in 0..ReadLimit
    BY <1>0
  <2>3. QED
    BY <1>t, <1>7, <2>1, <2>2 DEF ReadStatus, AccTypeOK, UserStates
<1>8. CASE Drain
  <2>0. UNCHANGED <<fifo, line, edge, callback, interrupt, unheard, errors>>
    BY <1>8 DEF Drain
  <2>1. CASE samples = 0
    <3>1. Go("worker", "idle") /\ UNCHANGED <<samples, count>>
      BY <1>8, <2>1 DEF Drain
    <3>2. user' \in [Users -> UserStates]
      BY <1>t, <3>1, Going DEF UserStates, Users
    <3>3. QED
      BY <1>t, <2>0, <3>1, <3>2 DEF AccTypeOK, UserStates
  <2>2. CASE samples # 0
    <3>1. samples' = samples - 1 /\ count' = count + 1
            /\ Go("worker", IF count' >= ReadLimit THEN "idle" ELSE "drain")
      BY <1>8, <2>2 DEF Drain
    <3>2. user' \in [Users -> UserStates]
      BY <1>t, <3>1, Going DEF UserStates, Users
    <3>3. samples' \in 0..Depth
      BY <1>0, <1>t, <2>2, <3>1
    <3>4. count' \in 0..ReadLimit
      <4>1. count < ReadLimit
        BY <1>8 DEF Drain, BelowLimit
      <4>2. QED
        BY <1>0, <1>t, <3>1, <4>1
    <3>5. QED
      BY <1>t, <2>0, <3>2, <3>3, <3>4 DEF AccTypeOK, UserStates
  <2>3. QED
    BY <2>1, <2>2
<1>9. CASE TakeSample \/ DumpGoesOn \/ DumpEnds
  <2>1. PICK pc \in UserStates : Go("dump", pc)
    BY <1>9 DEF TakeSample, DumpGoesOn, DumpEnds, UserStates
  <2>2. user' \in [Users -> UserStates]
    BY <1>t, <2>1, Going DEF Users
  <2>3. samples' \in 0..Depth
    BY <1>0, <1>t, <1>9 DEF TakeSample, DumpGoesOn, DumpEnds, chip
  <2>4. UNCHANGED <<fifo, line, edge, callback, interrupt, count, unheard, errors>>
    BY <1>9 DEF TakeSample, DumpGoesOn, DumpEnds, chip
  <2>5. QED
    BY <1>t, <2>2, <2>3, <2>4 DEF AccTypeOK, UserStates
<1>10. CASE UNCHANGED accVars
  BY <1>10 DEF accVars, AccTypeOK
<1>11. QED
  BY <1>1, <1>2, <1>3, <1>4, <1>5, <1>6, <1>7, <1>8, <1>9, <1>10 DEF AccNext

LEMMA BelowLimitStep == AccInv /\ [AccNext]_accVars => BelowLimit'
<1> SUFFICES ASSUME AccTypeOK, BelowLimit, [AccNext]_accVars PROVE BelowLimit'
  BY DEF AccInv
<1>0. ReadLimit \in Nat /\ ReadLimit > 0 /\ count \in Nat
  BY AccAssumption DEF AccTypeOK
<1>t. user \in [Users -> UserStates]
  BY DEF AccTypeOK, UserStates
<1>1. CASE ReadStatus
  BY <1>0, <1>1 DEF ReadStatus, BelowLimit
<1>2. CASE Drain
  <2>1. CASE samples = 0
    <3>1. user'["worker"] = "idle"
      BY <1>t, <1>2, <2>1, Going DEF Drain, UserStates, Users
    <3>2. QED
      BY <3>1 DEF BelowLimit
  <2>2. CASE samples # 0
    <3>1. count' = count + 1 /\ Go("worker", IF count' >= ReadLimit THEN "idle" ELSE "drain")
      BY <1>2, <2>2 DEF Drain
    <3>2. CASE count' >= ReadLimit
      <4>1. user'["worker"] = "idle"
        BY <1>t, <3>1, <3>2, Going DEF UserStates, Users
      <4>2. QED
        BY <4>1 DEF BelowLimit
    <3>3. CASE ~(count' >= ReadLimit)
      BY <1>0, <3>1, <3>3 DEF BelowLimit
    <3>4. QED
      BY <3>2, <3>3
  <2>3. QED
    BY <2>1, <2>2
<1>3. CASE Sample \/ CallbackStamps \/ CallbackSets \/ UNCHANGED accVars
  BY <1>3 DEF Sample, CallbackStamps, CallbackSets, accVars, BelowLimit
<1>4. ASSUME NEW u \in Users, NEW pc \in UserStates \ {"drain"}, Go(u, pc), count' = count
      PROVE  BelowLimit'
  <2>1. user'[u] = pc /\ \A v \in Users \ {u} : user'[v] = user[v]
    BY <1>t, <1>4, Going
  <2>2. CASE u = "worker"
    BY <2>1, <2>2, <1>4 DEF BelowLimit
  <2>3. CASE u # "worker"
    <3>1. user'["worker"] = user["worker"]
      BY <2>1, <2>3 DEF Users
    <3>2. QED
      BY <1>4, <3>1 DEF BelowLimit
  <2>4. QED
    BY <2>2, <2>3
<1>5. ASSUME NEW u \in Users,
             \/ BeginWait(u) \/ EndWait(u) \/ ClearStamp(u) \/ ClearFlag(u) \/ Query(u)
             \/ ReadSample(u) \/ ReadFails(u)
      PROVE  BelowLimit'
  <2>1. count' = count
    BY <1>5 DEF BeginWait, EndWait, ClearStamp, ClearFlag, Query, ReadSample, ReadFails, chip
  <2>2. \E pc \in UserStates \ {"drain"} : Go(u, pc)
    BY <1>5 DEF BeginWait, EndWait, ClearStamp, ClearFlag, Query, ReadSample, ReadFails, UserStates
  <2>3. QED
    BY <1>4, <2>1, <2>2
<1>6. CASE TakeSample \/ DumpGoesOn \/ DumpEnds
  <2>1. count' = count /\ \E pc \in UserStates \ {"drain"} : Go("dump", pc)
    BY <1>6 DEF TakeSample, DumpGoesOn, DumpEnds, UserStates
  <2>2. QED
    BY <1>4, <2>1 DEF Users
<1>7. QED
  BY <1>1, <1>2, <1>3, <1>5, <1>6 DEF AccNext

(* The types of the state hold always: a readout never exceeds its limit,  *)
(* the FIFO never its depth.                                               *)
THEOREM AccTypes == AccSpec => []AccTypeOK
<1>1. AccInv /\ [AccNext]_accVars => AccInv'
  BY AccTypeStep, BelowLimitStep DEF AccInv
<1>2. AccInv => AccTypeOK
  BY DEF AccInv
<1>3. QED
  BY AccTypeInit, <1>1, <1>2, PTL DEF AccSpec
-----------------------------------------------------------------------------
(* Samples that wait are announced.                                        *)

(* A user that has cleared the event and will read what resets the line.   *)
WillReset(u) == user[u] \in {"query", "read"} /\ (u = "dump" => ~fifo)

(* A step that takes no announcement away, and no such user, keeps them.   *)
LEMMA AnnouncedStays ==
  ASSUME WaitingIsAnnounced,
         UNCHANGED <<fifo, line, edge, callback>>,
         interrupt'.set = interrupt.set,
         unheard => unheard',
         \A u \in Users : WillReset(u) => WillReset(u)' \/ unheard'
  PROVE  WaitingIsAnnounced'
  BY DEF WaitingIsAnnounced, WillReset

LEMMA AnnouncedInit == AccInit => WaitingIsAnnounced
  BY DEF AccInit, WaitingIsAnnounced

LEMMA AnnouncedStep ==
  AccInv /\ WaitingIsAnnounced /\ [AccNext]_accVars => WaitingIsAnnounced'
<1> SUFFICES ASSUME AccTypeOK, WaitingIsAnnounced, [AccNext]_accVars
             PROVE  WaitingIsAnnounced'
  BY DEF AccInv
<1>t. /\ user \in [Users -> UserStates] /\ interrupt \in [set : BOOLEAN, stamped : BOOLEAN]
      /\ line \in BOOLEAN /\ edge \in BOOLEAN
  BY DEF AccTypeOK, UserStates
<1>1. CASE Sample
  <2>1. edge' = (edge \/ (line' /\ ~line))
    BY <1>1 DEF Sample
  <2>2. UNCHANGED <<fifo, callback, interrupt, user, unheard>>
    BY <1>1 DEF Sample
  <2>3. CASE line
    <3>1. edge => edge'
      BY <2>1
    <3>2. QED
      BY <2>2, <2>3, <3>1 DEF WaitingIsAnnounced
  <2>4. CASE ~line
    <3>1. line' => edge'
      BY <2>1, <2>4
    <3>2. QED
      BY <3>1 DEF WaitingIsAnnounced
  <2>5. QED
    BY <2>3, <2>4
<1>2. CASE CallbackStamps
  BY <1>2 DEF CallbackStamps, WaitingIsAnnounced
<1>3. CASE CallbackSets
  <2>1. interrupt'.set
    BY <1>t, <1>3 DEF CallbackSets
  <2>2. QED
    BY <2>1 DEF WaitingIsAnnounced
<1>4. ASSUME NEW u \in Users, NEW pc \in UserStates, Go(u, pc),
             ~WillReset(u) \/ pc = "read",
             UNCHANGED <<fifo, line, edge, callback>>,
             interrupt'.set = interrupt.set,
             unheard' = unheard
      PROVE  WaitingIsAnnounced'
  <2>1. user'[u] = pc /\ \A v \in Users \ {u} : user'[v] = user[v]
    BY <1>t, <1>4, Going
  <2>2. ASSUME NEW v \in Users, WillReset(v)
        PROVE  WillReset(v)'
    <3>1. CASE v = u
      BY <1>4, <2>1, <2>2, <3>1 DEF WillReset
    <3>2. CASE v # u
      BY <1>4, <2>1, <2>2, <3>2 DEF WillReset
    <3>3. QED
      BY <3>1, <3>2
  <2>3. QED
    BY <1>4, <2>2, AnnouncedStays
<1>5. ASSUME NEW u \in Users, BeginWait(u) \/ EndWait(u) \/ ClearStamp(u) \/ Query(u)
      PROVE  WaitingIsAnnounced'
  <2>1. /\ UNCHANGED <<fifo, line, edge, callback>>
        /\ unheard' = unheard
    BY <1>5 DEF BeginWait, EndWait, ClearStamp, Query, chip
  <2>2. interrupt'.set = interrupt.set
    BY <1>t, <1>5 DEF BeginWait, EndWait, ClearStamp, Query
  <2>3. \E pc \in UserStates : Go(u, pc) /\ (~WillReset(u) \/ pc = "read")
    BY <1>5 DEF BeginWait, EndWait, ClearStamp, Query, UserStates, WillReset
  <2>4. QED
    BY <1>4, <2>1, <2>2, <2>3
<1>6. ASSUME NEW u \in Users, ClearFlag(u)
      PROVE  WaitingIsAnnounced'
  <2>1. user'[u] = "query"
    BY <1>t, <1>6, Going DEF ClearFlag, UserStates
  <2>2. unheard' = (unheard \/ (line /\ fifo /\ u = "dump")) /\ line' = line /\ fifo' = fifo
    BY <1>6 DEF ClearFlag, chip
  <2>3. line' /\ ~unheard' => (u = "dump" => ~fifo')
    BY <2>2
  <2>4. QED
    BY <2>1, <2>3 DEF WaitingIsAnnounced
<1>7. ASSUME NEW u \in Users, ReadSample(u)
      PROVE  WaitingIsAnnounced'
  BY <1>7 DEF ReadSample, WaitingIsAnnounced
<1>8. CASE ReadStatus
  BY <1>8 DEF ReadStatus, WaitingIsAnnounced
<1>9. CASE Drain
  <2>1. \E pc \in UserStates : Go("worker", pc)
    <3>1. CASE samples = 0
      BY <1>9, <3>1 DEF Drain, UserStates
    <3>2. CASE samples # 0
      BY <1>9, <3>2 DEF Drain, UserStates
    <3>3. QED
      BY <3>1, <3>2
  <2>2. /\ UNCHANGED <<fifo, line, edge, callback, interrupt>>
        /\ unheard' = unheard /\ ~WillReset("worker")
    BY <1>9 DEF Drain, WillReset
  <2>3. QED
    BY <1>4, <2>1, <2>2 DEF Users
<1>10. CASE TakeSample \/ DumpGoesOn \/ DumpEnds
  <2>1. \E pc \in UserStates : Go("dump", pc)
    BY <1>10 DEF TakeSample, DumpGoesOn, DumpEnds, UserStates
  <2>2. /\ UNCHANGED <<fifo, line, edge, callback, interrupt>>
        /\ unheard' = unheard /\ ~WillReset("dump")
    BY <1>10 DEF TakeSample, DumpGoesOn, DumpEnds, chip, WillReset
  <2>3. QED
    BY <1>4, <2>1, <2>2 DEF Users
<1>11. ASSUME NEW u \in Users, ReadFails(u)
       PROVE  WaitingIsAnnounced'
  <2>1. user'[u] = "idle" /\ \A v \in Users \ {u} : user'[v] = user[v]
    BY <1>t, <1>11, Going DEF ReadFails, UserStates
  <2>2. unheard' = (unheard \/ (line /\ user[u] = "read"))
    BY <1>11 DEF ReadFails
  <2>3. UNCHANGED <<fifo, line, edge, callback, interrupt>>
    BY <1>11 DEF ReadFails, chip
  <2>4. CASE line /\ user[u] = "read"
    <3>1. unheard'
      BY <2>2, <2>4
    <3>2. QED
      BY <3>1 DEF WaitingIsAnnounced
  <2>5. CASE ~line
    BY <2>3, <2>5 DEF WaitingIsAnnounced
  <2>6. CASE user[u] # "read"
    <3>1. ~WillReset(u)
      BY <1>11, <2>6 DEF ReadFails, Reading, WillReset
    <3>2. unheard => unheard'
      BY <2>2
    <3>3. ASSUME NEW v \in Users, WillReset(v)
          PROVE  WillReset(v)'
      BY <2>1, <2>3, <3>1, <3>3 DEF WillReset
    <3>4. QED
      BY <2>3, <3>2, <3>3, AnnouncedStays
  <2>7. QED
    BY <2>4, <2>5, <2>6
<1>12. CASE UNCHANGED accVars
  BY <1>12 DEF accVars, WaitingIsAnnounced
<1>13. QED
  BY <1>1, <1>2, <1>3, <1>5, <1>6, <1>7, <1>8, <1>9, <1>10, <1>11, <1>12 DEF AccNext

(* Samples that wait are always announced: no interrupt between the wait   *)
(* of a user and its clearing of the event is lost for good.               *)
THEOREM WaitingAlwaysAnnounced == AccSpec => []WaitingIsAnnounced
<1>1. AccInv /\ [AccNext]_accVars => AccInv'
  BY AccTypeStep, BelowLimitStep DEF AccInv
<1>2. QED
  BY AccTypeInit, AnnouncedInit, AnnouncedStep, <1>1, PTL DEF AccSpec

-----------------------------------------------------------------------------
(* Power: types, and the one job that sleeps.                              *)

JobStates == {"none", "check", "prepare", "plan", "stn", "announce", "delay"}

(* A job's own step moves it and no other.                                 *)
LEMMA GotoTypes ==
  ASSUME sleepJob \in [SleepJobs -> JobStates], NEW j \in SleepJobs, NEW pc \in JobStates,
         Goto(j, pc)
  PROVE  /\ sleepJob' \in [SleepJobs -> JobStates]
         /\ sleepJob'[j] = pc
         /\ \A k \in SleepJobs \ {j} : sleepJob'[k] = sleepJob[k]
  BY DEF Goto

LEMMA PowerTypesInit == PowerInit => PowerTypeOK
<1> SUFFICES ASSUME PowerInit PROVE PowerTypeOK
  OBVIOUS
<1> USE DEF PowerInit
<1>1. sleepJob \in [SleepJobs -> JobStates]
  BY DEF JobStates
<1>2. {spm3, stn, announced, cancelled} \subseteq BOOLEAN
  OBVIOUS
<1>3. {planned, cleared} \subseteq SUBSET SleepJobs
  OBVIOUS
<1>4. faults \in 0..MaxFaults
  BY PowerAssumption
<1>5. QED
  BY <1>1, <1>2, <1>3, <1>4 DEF PowerTypeOK, JobStates

LEMMA PowerTypesStep == PowerTypeOK /\ [PowerNext]_powerVars => PowerTypeOK'
<1> SUFFICES ASSUME PowerTypeOK, [PowerNext]_powerVars
             PROVE  PowerTypeOK'
  OBVIOUS
<1> USE PowerAssumption DEF PowerTypeOK
<1>1. ASSUME NEW t \in Timers, AddTimer(t) \/ ClearTimers({t})
      PROVE  PowerTypeOK'
  BY <1>1 DEF AddTimer, ClearTimers, outcome
<1>2. CASE ClearTimers(Timers) \/ ClearAllTimers
  BY <1>2 DEF ClearTimers, ClearAllTimers, outcome
<1>3. ASSUME NEW j \in SleepJobs, StartSleep(j)
      PROVE  PowerTypeOK'
  BY <1>3 DEF StartSleep, outcome
<1>4. ASSUME NEW j \in SleepJobs, CheckSleep(j) \/ PrepareSleep(j)
      PROVE  PowerTypeOK'
  BY <1>4 DEF CheckSleep, PrepareSleep, Goto, outcome
<1>5. ASSUME NEW j \in SleepJobs, PlanShutdown(j)
      PROVE  PowerTypeOK'
  BY <1>5 DEF PlanShutdown, Goto
<1>6. ASSUME NEW j \in SleepJobs, SleepStn(j) \/ AnnounceSleep(j)
      PROVE  PowerTypeOK'
  BY <1>6 DEF SleepStn, AnnounceSleep, Goto
<1>7. ASSUME PowerOff
      PROVE  PowerTypeOK'
  BY <1>7 DEF PowerOff
<1>8. CASE StnInterrupted \/ WakeUp
  BY <1>8 DEF StnInterrupted, WakeUp
<1>9. CASE UNCHANGED powerVars
  BY <1>9 DEF powerVars
<1>10. QED
  BY <1>1, <1>2, <1>3, <1>4, <1>5, <1>6, <1>7, <1>8, <1>9
     DEF PowerNext, SleepStep, ShutdownNow, ShutdownComes, StnSleeps

(* The state of the power jobs keeps its type (sleep, hibernate and        *)
(* sleep_timer).                                                           *)
THEOREM PowerTypes == PowerSpec => []PowerTypeOK
  BY PowerTypesInit, PowerTypesStep, PTL DEF PowerSpec

(* However many timers and power.sleep commands there are, and however     *)
(* they start, at most one job is past the check of saltutil.is_running    *)
(* (power.py, sleep).  A hibernate command has another name there and is   *)
(* not seen by that check: with it the property does not hold.             *)
THEOREM OnlyOneSleeps ==
  ASSUME "power.hibernate" \notin SleepJobs
  PROVE  PowerSpec => []OneSleepAtATime
<1> DEFINE Past(j) == sleepJob[j] \notin {"none", "check"}
<1>1. PowerInit => OneSleepAtATime
  BY DEF PowerInit, OneSleepAtATime
<1>2. PowerTypeOK /\ OneSleepAtATime /\ [PowerNext]_powerVars => OneSleepAtATime'
  <2> SUFFICES ASSUME PowerTypeOK, OneSleepAtATime, [PowerNext]_powerVars
               PROVE  OneSleepAtATime'
    OBVIOUS
  <2>0. sleepJob \in [SleepJobs -> JobStates]
    BY DEF PowerTypeOK, JobStates
  <2>1. CASE UNCHANGED sleepJob
    BY <2>1 DEF OneSleepAtATime
  <2>2. ASSUME NEW j \in SleepJobs, NEW pc \in {"none", "check"}, Goto(j, pc)
        PROVE  OneSleepAtATime'
    BY <2>0, <2>2, GotoTypes DEF OneSleepAtATime, JobStates
  <2>3. ASSUME NEW j \in SleepJobs, NEW pc \in JobStates, Goto(j, pc), Past(j)
        PROVE  OneSleepAtATime'
    BY <2>0, <2>3, GotoTypes DEF OneSleepAtATime
  <2>4. ASSUME NEW j \in SleepJobs, ~AnotherSleeps(j), Goto(j, "prepare")
        PROVE  OneSleepAtATime'
    <3>1. \A k \in SleepJobs \ {j} : sleepJob[k] = "none"
      BY <2>4 DEF AnotherSleeps, FunctionOf, Running
    <3>2. \A k \in SleepJobs \ {j} : sleepJob'[k] = "none"
      BY <2>0, <2>4, <3>1, GotoTypes DEF JobStates
    <3>3. QED
      BY <3>2 DEF OneSleepAtATime
  <2>5. ASSUME NEW j \in SleepJobs, StartSleep(j)
        PROVE  OneSleepAtATime'
    BY <2>2, <2>5 DEF StartSleep, Goto
  <2>6. ASSUME NEW j \in SleepJobs, CheckSleep(j)
        PROVE  OneSleepAtATime'
    BY <2>2, <2>4, <2>6 DEF CheckSleep
  <2>7. ASSUME NEW j \in SleepJobs,
               PrepareSleep(j) \/ PlanShutdown(j) \/ SleepStn(j) \/ AnnounceSleep(j)
        PROVE  OneSleepAtATime'
    <3>1. Past(j)
      BY <2>7 DEF PrepareSleep, PlanShutdown, SleepStn, AnnounceSleep, At
    <3>2. \E pc \in JobStates : Goto(j, pc)
      BY <2>7 DEF PrepareSleep, PlanShutdown, SleepStn, AnnounceSleep, JobStates
    <3>3. QED
      BY <2>3, <3>1, <3>2
  <2>8. CASE WakeUp
    BY <2>8 DEF WakeUp, OneSleepAtATime
  <2>9. QED
    BY <2>1, <2>5, <2>6, <2>7, <2>8
       DEF PowerNext, SleepStep, ShutdownNow, ShutdownComes, StnSleeps, StnInterrupted, PowerOff,
           AddTimer, ClearTimers, ClearAllTimers, powerVars
<1>3. QED
  BY <1>1, <1>2, PowerTypes, PTL DEF PowerSpec

-----------------------------------------------------------------------------
(* All parts.                                                              *)

(* Whichever part is followed, each of them behaves as specified for it    *)
(* alone, so that what is proved of a part holds beside the others.        *)
THEOREM PartsAreIndependent ==
  Spec => JsonlSpec /\ TriggersSpec /\ ReactorSpec /\ AccSpec /\ PowerSpec
<1>1. Init => JsonlInit /\ TriggersInit /\ ReactorInit /\ AccInit /\ PowerInit
  BY DEF Init
<1>2. [Next]_runtimeVars =>
        /\ [JsonlNext]_jsonlVars /\ [TriggersNext]_triggerVars /\ [ReactorNext]_reactorVars
        /\ [AccNext]_accVars /\ [PowerNext]_powerVars
  BY DEF Next, runtimeVars
<1>3. QED
  BY <1>1, <1>2, PTL DEF Spec, JsonlSpec, TriggersSpec, ReactorSpec, AccSpec, PowerSpec

(* All of them keep their types.                                           *)
THEOREM RuntimeKeepsTypes == Spec => []TypeOK
<1>1. JsonlTypeOK /\ TriggersTypeOK /\ ReactorTypeOK /\ AccTypeOK /\ PowerTypeOK => TypeOK
  BY DEF TypeOK
<1>2. QED
  BY <1>1, PartsAreIndependent, JsonlTypes, TriggersKeepTypes, ReactorKeepsTypes, AccTypes,
     PowerTypes, PTL
=============================================================================
