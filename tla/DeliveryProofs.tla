--------------------------- MODULE DeliveryProofs ---------------------------
(* Proofs about Delivery, for any events, destinations, workers and bounds: *)
(* types, what happens to each delivery, the reasons of dead letters, how  *)
(* often a destination accepts, and the dead letter list against its rows. *)
EXTENDS Delivery, FiniteSetTheorems, TLAPS

LEMMA InitType == Init => TypeOK
<1> SUFFICES ASSUME Init PROVE TypeOK
  OBVIOUS
<1>1. StoresType
  BY DEF Init, StoresType
<1>2. WorkersType
  BY RetriesAssumption DEF Init, WorkersType, Phases, Stages, Outcomes
<1>3. WorkersBusy
  BY DEF Init, WorkersBusy
<1>4. ControlType
  BY DEF Init, ControlType
<1>5. HistoryType
  BY DEF Init, HistoryType
<1>6. BoundsType
  BY BoundsAssumption DEF Init, BoundsType
<1> QED
  BY <1>1, <1>2, <1>3, <1>4, <1>5, <1>6 DEF TypeOK

(* Updates of one goroutine's entry keep the type of a worker variable. *)
LEMMA UpdateType ==
  ASSUME NEW S, NEW f \in [Workers -> [Destinations -> S]],
         NEW w \in Workers, NEW d \in Destinations, NEW v \in S
  PROVE  [f EXCEPT ![w][d] = v] \in [Workers -> [Destinations -> S]]
  OBVIOUS

LEMMA PublishType == ASSUME TypeOK, NEW e \in Events, Publish(e) PROVE TypeOK'
<1>1. StoresType'
  BY DEF TypeOK, StoresType, Publish, Push
<1>2. WorkersType' /\ WorkersBusy' /\ ControlType' /\ BoundsType'
  BY DEF TypeOK, WorkersType, WorkersBusy, ControlType, BoundsType, Publish, workerState, bounds, apiBounds
<1>3. HistoryType'
  BY DEF TypeOK, HistoryType, Publish, Push
<1> QED
  BY <1>1, <1>2, <1>3 DEF TypeOK

LEMMA DequeueType == ASSUME TypeOK, NEW w \in Workers, Dequeue(w) PROVE TypeOK'
<1>1. Head(deliveryQ) \in Events /\ Tail(deliveryQ) \in Seq(Events)
  BY DEF TypeOK, StoresType, Dequeue
<1>2. StoresType'
  BY <1>1 DEF TypeOK, StoresType, Dequeue
<1>3. WorkersType'
  BY <1>1 DEF TypeOK, WorkersType, Dequeue, Phases
<1>4. WorkersBusy'
  BY <1>1 DEF TypeOK, WorkersType, WorkersBusy, Dequeue
<1>5. ControlType' /\ HistoryType' /\ BoundsType'
  BY DEF TypeOK, ControlType, HistoryType, BoundsType, Dequeue, history, bounds, apiBounds
<1> QED
  BY <1>2, <1>3, <1>4, <1>5 DEF TypeOK

LEMMA DequeueReplyLostType == ASSUME TypeOK, NEW w \in Workers, DequeueReplyLost(w) PROVE TypeOK'
<1>1. StoresType'
  BY DEF TypeOK, StoresType, DequeueReplyLost
<1>2. WorkersType' /\ WorkersBusy' /\ ControlType' /\ HistoryType'
  BY DEF TypeOK, WorkersType, WorkersBusy, ControlType, HistoryType, DequeueReplyLost, workerState, history
<1>3. BoundsType'
  BY BoundsAssumption DEF TypeOK, BoundsType, DequeueReplyLost, Fault, apiBounds
<1> QED
  BY <1>1, <1>2, <1>3 DEF TypeOK

LEMMA PollTimeoutType == ASSUME TypeOK, NEW w \in Workers, PollTimeout(w) PROVE TypeOK'
<1>1. WorkersType' /\ WorkersBusy'
  BY DEF TypeOK, WorkersType, WorkersBusy, Phases, PollTimeout, Return
<1>2. StoresType' /\ ControlType' /\ HistoryType' /\ BoundsType'
  BY DEF TypeOK, StoresType, ControlType, HistoryType, BoundsType, PollTimeout, stores, history, bounds, apiBounds
<1> QED
  BY <1>1, <1>2 DEF TypeOK

LEMMA StoreEventType == ASSUME TypeOK, NEW w \in Workers, StoreEvent(w) PROVE TypeOK'
<1>1. StoresType'
  BY DEF TypeOK, StoresType, WorkersType, WorkersBusy, StoreEvent
<1>2. WorkersType' /\ WorkersBusy'
  BY DEF TypeOK, WorkersType, WorkersBusy, Phases, StoreEvent
<1>3. ControlType' /\ HistoryType'
  BY DEF TypeOK, ControlType, HistoryType, StoreEvent, history
<1>4. BoundsType'
  BY BoundsAssumption DEF TypeOK, BoundsType, StoreEvent, Fault, apiBounds
<1> QED
  BY <1>1, <1>2, <1>3, <1>4 DEF TypeOK

LEMMA FanOutType == ASSUME TypeOK, NEW w \in Workers, FanOut(w) PROVE TypeOK'
<1>1. held[w] \in Events
  BY DEF TypeOK, WorkersBusy, FanOut
<1>2. WorkersType' /\ WorkersBusy'
  BY DEF TypeOK, WorkersType, WorkersBusy, Phases, Stages, FanOut
<1>3. owed' \subseteq Events \X Destinations
  BY <1>1, RoutesAssumption DEF TypeOK, HistoryType, FanOut
<1>4. HistoryType'
  BY <1>3 DEF TypeOK, HistoryType, FanOut
<1>5. StoresType' /\ ControlType' /\ BoundsType'
  BY DEF TypeOK, StoresType, ControlType, BoundsType, FanOut, CallSucceeds, stores, apiBounds
<1> QED
  BY <1>2, <1>4, <1>5 DEF TypeOK

LEMMA ResolveNoneType == ASSUME TypeOK, NEW w \in Workers, ResolveNone(w) PROVE TypeOK'
<1>1. WorkersType' /\ WorkersBusy'
  BY DEF TypeOK, WorkersType, WorkersBusy, Phases, ResolveNone, Return
<1>2. StoresType' /\ ControlType' /\ HistoryType'
  BY DEF TypeOK, StoresType, ControlType, HistoryType, ResolveNone, stores, history
<1>3. BoundsType'
  BY BoundsAssumption DEF TypeOK, BoundsType, ResolveNone, CallSucceeds, CallFails, Fault, apiBounds
<1> QED
  BY <1>1, <1>2, <1>3 DEF TypeOK

LEMMA FinishEventType == ASSUME TypeOK, NEW w \in Workers, FinishEvent(w) PROVE TypeOK'
<1>1. WorkersType' /\ WorkersBusy'
  BY RetriesAssumption DEF TypeOK, WorkersType, WorkersBusy, Phases, FinishEvent, Return
<1>2. StoresType' /\ ControlType' /\ HistoryType' /\ BoundsType'
  BY DEF TypeOK, StoresType, ControlType, HistoryType, BoundsType, FinishEvent, stores, history, bounds, apiBounds
<1> QED
  BY <1>1, <1>2 DEF TypeOK

(* A step of a goroutine that moves it to stage s and leaves its worker be. *)
LEMMA GoToType ==
  ASSUME TypeOK, NEW w \in Workers, NEW d \in Destinations, NEW s \in Stages,
         stage[w][d] # "done", GoTo(w, d, s), UNCHANGED <<worker, held>>
  PROVE  stage' \in [Workers -> [Destinations -> Stages]] /\ WorkersBusy' /\ held[w] \in Events
<1>1. stage' \in [Workers -> [Destinations -> Stages]]
  BY UpdateType DEF TypeOK, WorkersType, GoTo
<1>2. WorkersBusy' /\ held[w] \in Events
  BY DEF TypeOK, WorkersType, WorkersBusy, GoTo
<1> QED
  BY <1>1, <1>2

(* Only a 2xx that was heard is counted as accepted. *)
LEMMA SendOutcome ==
  ASSUME NEW w \in Workers, NEW d \in Destinations, Send(w, d)
  PROVE  \E o \in Outcomes :
           /\ status' = [status EXCEPT ![w][d] = o]
           /\ accepted' = IF o = "2xx" THEN [accepted EXCEPT ![held[w]][d] = @ + 1] ELSE accepted
  BY DEF Send, Outcomes

LEMMA SendType ==
  ASSUME TypeOK, NEW w \in Workers, NEW d \in Destinations, Send(w, d) PROVE TypeOK'
<1>1. stage' \in [Workers -> [Destinations -> Stages]] /\ WorkersBusy' /\ held[w] \in Events
  BY GoToType DEF Send, At, Stages
<1>2. WorkersType'
  <2>1. PICK o \in Outcomes : status' = [status EXCEPT ![w][d] = o]
    BY SendOutcome
  <2>2. status' \in [Workers -> [Destinations -> Outcomes]]
    BY <2>1, UpdateType DEF TypeOK, WorkersType
  <2> QED
    BY <1>1, <2>2 DEF TypeOK, WorkersType, Send
<1>3. HistoryType'
  <2>1. accepted' \in [Events -> [Destinations -> Nat]]
    <3>1. CASE accepted' = [accepted EXCEPT ![held[w]][d] = @ + 1]
      BY <1>1, <3>1 DEF TypeOK, HistoryType
    <3>2. CASE accepted' = accepted
      BY <3>2 DEF TypeOK, HistoryType
    <3> QED
      BY <3>1, <3>2, SendOutcome
  <2>2. unheard' \in [Events -> [Destinations -> Nat]]
    <3>1. CASE unheard' = [unheard EXCEPT ![held[w]][d] = @ + 1]
      BY <1>1, <3>1 DEF TypeOK, HistoryType
    <3>2. CASE unheard' = unheard
      BY <3>2 DEF TypeOK, HistoryType
    <3> QED
      BY <3>1, <3>2 DEF Send
  <2> QED
    BY <2>1, <2>2 DEF TypeOK, HistoryType, Send
<1>4. StoresType' /\ ControlType' /\ BoundsType'
  BY DEF TypeOK, StoresType, ControlType, BoundsType, Send, stores, bounds, apiBounds
<1> QED
  BY <1>1, <1>2, <1>3, <1>4 DEF TypeOK

(* The loop goes on only below MaxRetries, and from there to a known stage. *)
LEMMA VerdictType ==
  ASSUME NEW n \in 1..MaxRetries, NEW o \in Outcomes
  PROVE  /\ Verdict(n, o) \in {"done", "pushing", "backoff"}
         /\ Verdict(n, o) = "backoff" => n + 1 \in 1..MaxRetries
         /\ Verdict(n, o) = "done" <=> o = "2xx"
  BY RetriesAssumption DEF Verdict, Outcomes

LEMMA RecordType ==
  ASSUME TypeOK, NEW w \in Workers, NEW d \in Destinations, Record(w, d) PROVE TypeOK'
<1> DEFINE next == Verdict(attempt[w][d], status[w][d])
<1>1. attempt[w][d] \in 1..MaxRetries /\ status[w][d] \in Outcomes
  BY DEF TypeOK, WorkersType
<1>2. next \in Stages /\ (next = "backoff" => attempt[w][d] + 1 \in 1..MaxRetries)
  BY <1>1, VerdictType DEF Stages
<1>3. stage' \in [Workers -> [Destinations -> Stages]] /\ WorkersBusy' /\ held[w] \in Events
  BY <1>2, GoToType DEF Record, At
<1>4. attempt' \in [Workers -> [Destinations -> 1..MaxRetries]]
  BY <1>2 DEF TypeOK, WorkersType, Record
<1>5. status' \in [Workers -> [Destinations -> Outcomes]]
  BY UpdateType DEF TypeOK, WorkersType, Record, Outcomes
<1>6. WorkersType'
  BY <1>3, <1>4, <1>5 DEF TypeOK, WorkersType, Record
<1>7. StoresType'
  BY <1>1, <1>3 DEF TypeOK, StoresType, Record
<1>8. ControlType' /\ HistoryType'
  BY DEF TypeOK, ControlType, HistoryType, Record, history
<1>9. BoundsType'
  BY BoundsAssumption DEF TypeOK, BoundsType, Record, CallSucceeds, CallFails, Fault, apiBounds
<1> QED
  BY <1>3, <1>6, <1>7, <1>8, <1>9 DEF TypeOK

LEMMA BackoffType ==
  ASSUME TypeOK, NEW w \in Workers, NEW d \in Destinations, Backoff(w, d) PROVE TypeOK'
<1>1. stage' \in [Workers -> [Destinations -> Stages]] /\ WorkersBusy'
  <2>1. CASE GoTo(w, d, "sending")
    BY <2>1, GoToType DEF Backoff, At, Stages
  <2>2. CASE GoTo(w, d, "done")
    BY <2>2, GoToType DEF Backoff, At, Stages
  <2> QED
    BY <2>1, <2>2 DEF Backoff
<1>2. WorkersType'
  BY <1>1 DEF TypeOK, WorkersType, Backoff
<1>3. StoresType' /\ ControlType' /\ HistoryType' /\ BoundsType'
  BY DEF TypeOK, StoresType, ControlType, HistoryType, BoundsType, Backoff, stores, history, bounds, apiBounds
<1> QED
  BY <1>1, <1>2, <1>3 DEF TypeOK

LEMMA PushDLQType ==
  ASSUME TypeOK, NEW w \in Workers, NEW d \in Destinations, PushDLQ(w, d) PROVE TypeOK'
<1>1. stage' \in [Workers -> [Destinations -> Stages]] /\ WorkersBusy' /\ held[w] \in Events
  BY GoToType DEF PushDLQ, At, Stages
<1>2. WorkersType'
  BY <1>1 DEF TypeOK, WorkersType, PushDLQ
<1>3. StoresType'
  BY <1>1 DEF TypeOK, StoresType, PushDLQ
<1>4. ControlType' /\ HistoryType'
  BY DEF TypeOK, ControlType, HistoryType, PushDLQ, history
<1>5. BoundsType'
  BY BoundsAssumption DEF TypeOK, BoundsType, PushDLQ, CallSucceeds, CallFails, Fault, apiBounds
<1> QED
  BY <1>1, <1>2, <1>3, <1>4, <1>5 DEF TypeOK

LEMMA InsertDeadType ==
  ASSUME TypeOK, NEW w \in Workers, NEW d \in Destinations, InsertDead(w, d) PROVE TypeOK'
<1>1. stage' \in [Workers -> [Destinations -> Stages]] /\ WorkersBusy' /\ held[w] \in Events
  BY GoToType DEF InsertDead, At, Stages
<1>2. WorkersType'
  BY <1>1 DEF TypeOK, WorkersType, InsertDead
<1>3. StoresType'
  <2>1. [event |-> held[w], dest |-> d, resolved |-> FALSE]
            \in [event: Events, dest: Destinations, resolved: BOOLEAN]
    BY <1>1
  <2> QED
    BY <2>1 DEF TypeOK, StoresType, InsertDead
<1>4. ControlType' /\ HistoryType'
  BY DEF TypeOK, ControlType, HistoryType, InsertDead, history
<1>5. BoundsType'
  BY BoundsAssumption DEF TypeOK, BoundsType, InsertDead, CallSucceeds, CallFails, Fault, apiBounds
<1> QED
  BY <1>1, <1>2, <1>3, <1>4, <1>5 DEF TypeOK

LEMMA DieType == ASSUME TypeOK, Die, outages' \in Nat PROVE TypeOK'
<1>1. WorkersType' /\ WorkersBusy'
  BY RetriesAssumption DEF WorkersType, WorkersBusy, Phases, Stages, Outcomes, Die
<1>2. ControlType'
  BY DEF TypeOK, ControlType, Die
<1>3. StoresType' /\ HistoryType' /\ BoundsType'
  BY DEF TypeOK, StoresType, HistoryType, BoundsType, Die, stores, history, apiBounds
<1> QED
  BY <1>1, <1>2, <1>3 DEF TypeOK

LEMMA OutageType ==
  ASSUME TypeOK,
         Crash \/ Exit \/ \E w \in Workers, d \in Destinations : Panic(w, d)
  PROVE  TypeOK'
<1>1. Die /\ outages' \in Nat
  BY DEF TypeOK, BoundsType, Crash, Exit, Panic, Outage
<1> QED
  BY <1>1, DieType

LEMMA ShutdownType == ASSUME TypeOK, Shutdown PROVE TypeOK'
<1>1. ControlType'
  BY DEF TypeOK, ControlType, Shutdown
<1>2. BoundsType'
  BY DEF TypeOK, BoundsType, Shutdown, Outage, apiBounds
<1>3. StoresType' /\ WorkersType' /\ WorkersBusy' /\ HistoryType'
  BY DEF TypeOK, StoresType, WorkersType, WorkersBusy, HistoryType, Shutdown, stores, workerState, history
<1> QED
  BY <1>1, <1>2, <1>3 DEF TypeOK

LEMMA StartType == ASSUME TypeOK, Start PROVE TypeOK'
<1>1. IncompleteDeliveries \subseteq Events \X Destinations
  BY DEF IncompleteDeliveries
<1>2. ControlType'
  BY <1>1 DEF TypeOK, ControlType, Start
<1>3. BoundsType'
  BY BoundsAssumption DEF TypeOK, BoundsType, Start, Fault, apiBounds
<1>4. StoresType' /\ WorkersType' /\ WorkersBusy' /\ HistoryType'
  BY DEF TypeOK, StoresType, WorkersType, WorkersBusy, HistoryType, Start, stores, workerState, history
<1> QED
  BY <1>2, <1>3, <1>4 DEF TypeOK

LEMMA RecoverType == ASSUME TypeOK, Recover PROVE TypeOK'
<1>1. CASE EndRecovery
  BY <1>1 DEF TypeOK, StoresType, WorkersType, WorkersBusy, ControlType, HistoryType, BoundsType,
              EndRecovery, stores, workerState, history, bounds, apiBounds
<1>2. ASSUME NEW p \in incomplete, Requeue(p) PROVE TypeOK'
  <2>1. p[1] \in Events
    BY <1>2 DEF TypeOK, ControlType
  <2>2. StoresType'
    BY <1>2, <2>1 DEF TypeOK, StoresType, Requeue, Push
  <2>3. HistoryType'
    BY <1>2, <2>1 DEF TypeOK, HistoryType, Requeue, Push
  <2>4. WorkersType' /\ WorkersBusy' /\ ControlType' /\ BoundsType'
    BY <1>2 DEF TypeOK, WorkersType, WorkersBusy, ControlType, BoundsType, Requeue, workerState, bounds, apiBounds
  <2> QED
    BY <2>2, <2>3, <2>4 DEF TypeOK
<1>3. ASSUME NEW p \in incomplete, SkipRow(p) PROVE TypeOK'
  BY <1>3 DEF TypeOK, StoresType, WorkersType, WorkersBusy, ControlType, HistoryType, BoundsType,
              SkipRow, stores, workerState, history, bounds, apiBounds
<1> QED
  BY <1>1, <1>2, <1>3 DEF Recover

LEMMA BeginType ==
  ASSUME TypeOK, NEW c \in Clients, NEW e \in Events, FindForRetry(c, e) \/ FindForDiscard(c, e)
  PROVE  TypeOK'
<1>1. PICK s \in {"enqueue", "drop", "close"} : Begin(c, e, s)
  BY DEF FindForRetry, FindForDiscard
<1>2. ControlType'
  BY <1>1 DEF TypeOK, ControlType, Begin
<1>3. BoundsType'
  BY <1>1, BoundsAssumption DEF TypeOK, BoundsType, FindForRetry, FindForDiscard, Begin
<1>4. StoresType' /\ WorkersType' /\ WorkersBusy' /\ HistoryType'
  BY <1>1 DEF TypeOK, StoresType, WorkersType, WorkersBusy, HistoryType, Begin, stores, workerState, history
<1> QED
  BY <1>2, <1>3, <1>4 DEF TypeOK

(* A request that is being served has an event, and keeps it to its end. *)
LEMMA RequestType ==
  ASSUME TypeOK, NEW c \in Clients, request[c].step # "none", UNCHANGED <<proc, incomplete>>,
         End(c) \/ \E s \in {"enqueue", "remove", "resolve", "drop", "close"} : Continue(c, s)
  PROVE  request[c].event \in Events /\ ControlType'
<1>1. request[c] \in [step: {"enqueue", "remove", "resolve", "drop", "close"}, event: Events]
  BY DEF TypeOK, ControlType, Idle
<1> QED
  BY <1>1 DEF TypeOK, ControlType, End, Continue

LEMMA ServeType == ASSUME TypeOK, NEW c \in Clients, Serve(c) PROVE TypeOK'
<1>1. CASE RetryEnqueue(c)
  <2>1. request[c].event \in Events /\ ControlType'
    BY <1>1, RequestType DEF RetryEnqueue
  <2>2. StoresType' /\ HistoryType'
    <3>1. CASE Push(request[c].event)
      <4>1. StoresType'
        BY <1>1, <2>1, <3>1 DEF TypeOK, StoresType, RetryEnqueue, Push
      <4>2. HistoryType'
        BY <1>1, <2>1, <3>1 DEF TypeOK, HistoryType, RetryEnqueue, Push
      <4> QED
        BY <4>1, <4>2
    <3>2. CASE UNCHANGED <<deliveryQ, pushes>>
      BY <1>1, <3>2 DEF TypeOK, StoresType, HistoryType, RetryEnqueue
    <3> QED
      BY <1>1, <3>1, <3>2 DEF RetryEnqueue
  <2>4. BoundsType'
    BY <1>1, BoundsAssumption DEF TypeOK, BoundsType, RetryEnqueue, APIFault
  <2>5. WorkersType' /\ WorkersBusy'
    BY <1>1 DEF TypeOK, WorkersType, WorkersBusy, RetryEnqueue, workerState
  <2> QED
    BY <2>1, <2>2, <2>4, <2>5 DEF TypeOK
<1>2. CASE RemoveEntry(c)
  <2>1. request[c].event \in Events /\ ControlType'
    BY <1>2, RequestType DEF RemoveEntry
  <2>2. StoresType'
    <3>1. dlq' = dlq \/ \E n \in Nat : TakeOut(request[c].event, n)
      BY <1>2, BoundsAssumption DEF RemoveEntry
    <3>2. dlq' \in [Events -> Nat]
      BY <2>1, <3>1 DEF TypeOK, StoresType, TakeOut
    <3> QED
      BY <1>2, <3>2 DEF TypeOK, StoresType, RemoveEntry
  <2>3. BoundsType'
    BY <1>2, BoundsAssumption DEF TypeOK, BoundsType, RemoveEntry, APIFault
  <2>4. WorkersType' /\ WorkersBusy' /\ HistoryType'
    BY <1>2 DEF TypeOK, WorkersType, WorkersBusy, HistoryType, RemoveEntry, workerState, history
  <2> QED
    BY <2>1, <2>2, <2>3, <2>4 DEF TypeOK
<1>3. CASE ResolveRows(c)
  <2>1. request[c].event \in Events /\ ControlType'
    BY <1>3, RequestType DEF ResolveRows
  <2>2. deadRows' \subseteq [event: Events, dest: Destinations, resolved: BOOLEAN]
    <3>1. \A r \in deadRows :
             [r EXCEPT !.resolved = TRUE] \in [event: Events, dest: Destinations, resolved: BOOLEAN]
      BY DEF TypeOK, StoresType
    <3> QED
      BY <1>3, <3>1 DEF TypeOK, StoresType, ResolveRows
  <2>3. StoresType'
    BY <1>3, <2>2 DEF TypeOK, StoresType, ResolveRows
  <2>4. BoundsType'
    BY <1>3, BoundsAssumption DEF TypeOK, BoundsType, ResolveRows, APIFault
  <2>5. WorkersType' /\ WorkersBusy' /\ HistoryType'
    BY <1>3 DEF TypeOK, WorkersType, WorkersBusy, HistoryType, ResolveRows, workerState, history
  <2> QED
    BY <2>1, <2>3, <2>4, <2>5 DEF TypeOK
<1> QED
  BY <1>1, <1>2, <1>3 DEF Serve

LEMMA NextType == TypeOK /\ [Next]_vars => TypeOK'
<1> SUFFICES ASSUME TypeOK, [Next]_vars PROVE TypeOK'
  OBVIOUS
<1>1. CASE UNCHANGED vars
  BY <1>1 DEF TypeOK, StoresType, WorkersType, WorkersBusy, ControlType, HistoryType, BoundsType,
              vars, stores, workerState, history, bounds, apiBounds
<1>2. ASSUME NEW w \in Workers, Work(w) \/ DequeueReplyLost(w) PROVE TypeOK'
  BY <1>2, DequeueType, DequeueReplyLostType, PollTimeoutType, StoreEventType, FanOutType,
     ResolveNoneType, FinishEventType DEF Work
<1>3. ASSUME NEW w \in Workers, NEW d \in Destinations, Deliver(w, d) PROVE TypeOK'
  BY <1>3, SendType, RecordType, BackoffType, PushDLQType, InsertDeadType DEF Deliver
<1>4. ASSUME NEW c \in Clients, Serve(c) \/ \E e \in Events : FindForRetry(c, e) \/ FindForDiscard(c, e)
      PROVE  TypeOK'
  BY <1>4, ServeType, BeginType
<1> QED
  BY <1>1, <1>2, <1>3, <1>4, PublishType, OutageType, ShutdownType, StartType, RecoverType DEF Next

(* In every behaviour, with any number of faults, outages and overlapping  *)
(* requests, every variable has its type, a worker past Dequeue holds an   *)
(* event and only a worker in wg.Wait has delivery goroutines.             *)
THEOREM TypeCorrect == Spec => []TypeOK
  BY InitType, NextType, PTL DEF Spec

-----------------------------------------------------------------------------
(* Conservation of work *)

LEMMA InitConservation == Init => Conservation
<1> SUFFICES ASSUME Init PROVE Conservation
  OBVIOUS
<1>1. TypeOK
  BY InitType
<1>2. AnswersCounted /\ CancelledByOutage /\ NothingVanishes
  BY DEF Init, AnswersCounted, CancelledByOutage, NothingVanishes
<1> QED
  BY <1>1, <1>2 DEF Conservation

(* Faults and outages are only ever counted up. *)
LEMMA CountersGrow ==
  ASSUME TypeOK, [Next]_vars
  PROVE  faults <= faults' /\ outages <= outages'
<1> faults \in Nat /\ outages \in Nat
  BY BoundsAssumption DEF TypeOK, BoundsType
<1>1. CASE UNCHANGED vars
  BY <1>1 DEF vars, bounds
<1>2. ASSUME NEW e \in Events, Publish(e) PROVE faults <= faults' /\ outages <= outages'
  BY <1>2 DEF Publish, bounds
<1>3. ASSUME NEW w \in Workers, Work(w) \/ DequeueReplyLost(w) PROVE faults <= faults' /\ outages <= outages'
  BY <1>3 DEF Work, Dequeue, DequeueReplyLost, PollTimeout, StoreEvent, FanOut, ResolveNone, FinishEvent,
              CallSucceeds, CallFails, Fault, bounds
<1>4. ASSUME NEW w \in Workers, NEW d \in Destinations, Deliver(w, d) PROVE faults <= faults' /\ outages <= outages'
  BY <1>4 DEF Deliver, Send, Record, Backoff, PushDLQ, InsertDead, CallSucceeds, CallFails, Fault, bounds
<1>5. ASSUME Crash \/ Shutdown \/ Exit \/ \E w \in Workers, d \in Destinations : Panic(w, d)
      PROVE  faults <= faults' /\ outages <= outages'
  BY <1>5 DEF Crash, Shutdown, Exit, Panic, Outage, Die
<1>6. ASSUME Start \/ Recover PROVE faults <= faults' /\ outages <= outages'
  BY <1>6 DEF Start, Recover, EndRecovery, Requeue, SkipRow, Fault, bounds
<1>7. ASSUME NEW c \in Clients, Serve(c) \/ \E e \in Events : FindForRetry(c, e) \/ FindForDiscard(c, e)
      PROVE  faults <= faults' /\ outages <= outages'
  BY <1>7 DEF Serve, RetryEnqueue, RemoveEntry, ResolveRows, FindForRetry, FindForDiscard, Begin
<1> QED
  BY <1>1, <1>2, <1>3, <1>4, <1>5, <1>6, <1>7 DEF Next

LEMMA CancelledStep ==
  ASSUME TypeOK, CancelledByOutage, [Next]_vars PROVE CancelledByOutage'
<1>1. outages <= outages' /\ outages \in Nat /\ outages' \in Nat
  BY CountersGrow, NextType DEF TypeOK, BoundsType
<1>2. CASE Shutdown
  BY <1>1, <1>2 DEF Shutdown, Outage, CancelledByOutage
<1>3. CASE ~Shutdown
  <2>1. proc' = "stopping" => proc = "stopping"
    <3>1. ASSUME NEW w \in Workers, Work(w) \/ DequeueReplyLost(w) PROVE proc' = proc
      BY <3>1 DEF Work, Dequeue, DequeueReplyLost, PollTimeout, StoreEvent, FanOut, ResolveNone, FinishEvent
    <3>2. ASSUME NEW w \in Workers, NEW d \in Destinations, Deliver(w, d) PROVE proc' = proc
      BY <3>2 DEF Deliver, Send, Record, Backoff, PushDLQ, InsertDead
    <3>3. ASSUME NEW c \in Clients, Serve(c) \/ \E e \in Events : FindForRetry(c, e) \/ FindForDiscard(c, e)
          PROVE  proc' = proc
      BY <3>3 DEF Serve, RetryEnqueue, RemoveEntry, ResolveRows, FindForRetry, FindForDiscard, Begin
    <3>4. Crash \/ Exit \/ Start \/ Recover \/ (\E w \in Workers, d \in Destinations : Panic(w, d))
             => proc' # "stopping" \/ proc' = proc
      BY DEF Crash, Exit, Panic, Die, Start, Recover, EndRecovery, Requeue, SkipRow
    <3>5. (\E e \in Events : Publish(e)) \/ UNCHANGED vars => proc' = proc
      BY DEF Publish, vars
    <3> QED
      BY <1>3, <3>1, <3>2, <3>3, <3>4, <3>5 DEF Next
  <2> QED
    BY <1>1, <2>1 DEF CancelledByOutage
<1> QED
  BY <1>2, <1>3

(* Only Send turns a status into 2xx, and it counts the answer. *)
LEMMA AnswersStep ==
  ASSUME TypeOK, AnswersCounted, [Next]_vars PROVE AnswersCounted'
<1> SUFFICES ASSUME NEW v \in Workers, NEW k \in Destinations,
                    stage'[v][k] = "recording", status'[v][k] = "2xx"
             PROVE  accepted'[held'[v]][k] > 0
  BY DEF AnswersCounted
<1> USE DEF TypeOK, WorkersType, HistoryType
<1>1. CASE UNCHANGED <<held, stage, status, accepted>>
  BY <1>1 DEF AnswersCounted
<1>2. ASSUME NEW w \in Workers, Work(w) \/ DequeueReplyLost(w) PROVE accepted'[held'[v]][k] > 0
  <2>1. CASE UNCHANGED <<held, stage, status, accepted>>
    BY <2>1 DEF AnswersCounted
  <2>2. CASE Dequeue(w) \/ PollTimeout(w) \/ ResolveNone(w) \/ FinishEvent(w)
    <3>1. stage[w][k] = "done" /\ UNCHANGED <<stage, status, accepted>>
      BY <2>2 DEF WorkersBusy, Dequeue, PollTimeout, ResolveNone, FinishEvent, history
    <3>2. v # w /\ held'[v] = held[v]
      BY <2>2, <3>1 DEF Dequeue, PollTimeout, ResolveNone, FinishEvent, Return
    <3> QED
      BY <3>1, <3>2 DEF AnswersCounted
  <2>3. CASE FanOut(w)
    <3>1. v # w /\ stage'[v] = stage[v]
      BY <2>3 DEF FanOut
    <3> QED
      BY <2>3, <3>1 DEF AnswersCounted, FanOut
  <2> QED
    BY <1>2, <2>1, <2>2, <2>3 DEF Work, StoreEvent, DequeueReplyLost, workerState, history
<1>3. ASSUME NEW w \in Workers, NEW d \in Destinations, Deliver(w, d) PROVE accepted'[held'[v]][k] > 0
  <2>1. held' = held /\ (\A u \in Workers : held[u] \in Events \union {NoEvent})
    BY <1>3 DEF Deliver, Send, Record, Backoff, PushDLQ, InsertDead
  <2>2. held[w] \in Events
    BY <1>3 DEF WorkersBusy, Deliver, Send, Record, Backoff, PushDLQ, InsertDead, At
  <2>3. CASE v = w /\ k = d
    <3>1. Send(w, d)
      BY <1>3, <2>3, VerdictType DEF Deliver, Record, Backoff, PushDLQ, InsertDead, GoTo, Stages
    <3>2. accepted' = [accepted EXCEPT ![held[w]][d] = @ + 1]
      BY <2>3, <3>1 DEF Send
    <3> QED
      BY <2>1, <2>2, <2>3, <3>2
  <2>4. CASE ~(v = w /\ k = d)
    <3>1. stage[v][k] = "recording" /\ status[v][k] = "2xx"
      BY <1>3, <2>4 DEF Deliver, Send, Record, Backoff, PushDLQ, InsertDead, GoTo
    <3>2. accepted[held[v]][k] > 0 /\ held[v] \in Events
      BY <3>1 DEF AnswersCounted, WorkersBusy
    <3>3. accepted'[held[v]][k] >= accepted[held[v]][k]
      <4>1. CASE Send(w, d)
        <5>1. accepted' = [accepted EXCEPT ![held[w]][d] = @ + 1] \/ accepted' = accepted
          BY <4>1, SendOutcome
        <5>2. CASE accepted' = [accepted EXCEPT ![held[w]][d] = @ + 1]
          <6>1. accepted[held[v]][k] \in Nat
            BY <3>2
          <6> QED
            BY <2>2, <3>2, <5>2, <6>1
        <5>3. CASE accepted' = accepted
          BY <3>2, <5>3
        <5> QED
          BY <5>1, <5>2, <5>3
      <4>2. CASE UNCHANGED accepted
        BY <3>2, <4>2
      <4> QED
        BY <1>3, <4>1, <4>2 DEF Deliver, Record, Backoff, PushDLQ, InsertDead, history
    <3>4. accepted[held[v]][k] \in Nat /\ accepted'[held[v]][k] \in Nat
      BY <3>2, NextType
    <3> QED
      BY <2>1, <3>2, <3>3, <3>4
  <2> QED
    BY <2>3, <2>4
<1>4. ASSUME Die PROVE FALSE
  BY <1>4 DEF Die
<1> QED
  BY <1>1, <1>2, <1>3, <1>4
  DEF Next, vars, workerState, history, Publish, Panic, Crash, Exit, Shutdown, Start, Recover, EndRecovery,
      Requeue, SkipRow, Serve, RetryEnqueue, RemoveEntry, ResolveRows, FindForRetry, FindForDiscard, Begin

(* A pair that was settled or in flight stays so, and FanOut is the only   *)
(* step that owes more.                                                    *)
LEMMA WorkKeeps ==
  ASSUME Conservation, Undisturbed, NEW w \in Workers, Work(w), Undisturbed',
         NEW p \in owed'
  PROVE  Settled(p[1], p[2])' \/ InFlight(p[1], p[2])'
<1> DEFINE e == p[1]
           d == p[2]
<1> USE DEF Conservation, TypeOK, WorkersType
<1>1. CASE StoreEvent(w)
  BY <1>1 DEF NothingVanishes, Settled, Buried, InFlight, StoreEvent, history
<1>2. CASE Dequeue(w) \/ PollTimeout(w) \/ ResolveNone(w) \/ FinishEvent(w)
  <2>1. UNCHANGED <<stage, deadRows, history>> /\ \A v \in Workers \ {w} : held'[v] = held[v]
    BY <1>2 DEF Dequeue, PollTimeout, ResolveNone, FinishEvent, Return, stores
  <2>2. \A k \in Destinations : stage[w][k] = "done"
    BY <1>2 DEF WorkersBusy, Dequeue, PollTimeout, ResolveNone, FinishEvent
  <2>3. p \in owed /\ p[2] \in Destinations
    BY <2>1 DEF HistoryType, history
  <2>4. Settled(e, d) => Settled(e, d)'
    BY <2>1 DEF Settled, Buried, history
  <2>5. InFlight(e, d) => InFlight(e, d)'
    BY <2>1, <2>2, <2>3 DEF InFlight
  <2> QED
    BY <2>3, <2>4, <2>5 DEF NothingVanishes
<1>3. CASE FanOut(w)
  <2>1. PICK ds \in Routes :
          /\ stage' = [stage EXCEPT ![w] = [k \in Destinations |-> IF k \in ds THEN "sending" ELSE "done"]]
          /\ owed' = owed \union ({held[w]} \X ds)
    BY <1>3 DEF FanOut
  <2>2. UNCHANGED <<held, deadRows, accepted>>
    BY <1>3 DEF FanOut, stores
  <2>3. CASE p \in {held[w]} \X ds
    <3>1. held'[w] = e /\ stage'[w][d] # "done"
      BY <2>1, <2>2, <2>3, RoutesAssumption
    <3> QED
      BY <3>1 DEF InFlight
  <2>4. CASE p \in owed
    <3>1. \A k \in Destinations : stage[w][k] = "done"
      BY <1>3 DEF WorkersBusy, FanOut
    <3>2. Settled(e, d) => Settled(e, d)'
      BY <2>2 DEF Settled, Buried
    <3>3. InFlight(e, d) => InFlight(e, d)'
      BY <2>1, <2>2, <2>4, <3>1 DEF InFlight, HistoryType
    <3> QED
      BY <2>4, <3>2, <3>3 DEF NothingVanishes
  <2> QED
    BY <2>1, <2>3, <2>4
<1> QED
  BY <1>1, <1>2, <1>3 DEF Work

(* A goroutine ends only with an accepted answer or a dead letter row. *)
LEMMA DeliverKeeps ==
  ASSUME Conservation, Undisturbed, NEW w \in Workers, NEW k \in Destinations, Deliver(w, k), Undisturbed',
         NEW p \in owed'
  PROVE  Settled(p[1], p[2])' \/ InFlight(p[1], p[2])'
<1> DEFINE e == p[1]
           d == p[2]
<1> USE DEF Conservation, TypeOK, WorkersType
<1>1. owed' = owed /\ held' = held /\ e \in Events /\ d \in Destinations /\ held[w] \in Events
  BY DEF HistoryType, WorkersBusy, Deliver, Send, Record, Backoff, PushDLQ, InsertDead, At, history
<1>2. proc = "up" /\ faults = 0 /\ faults' = 0
  BY DEF Undisturbed, CancelledByOutage, Deliver, Send, Record, Backoff, PushDLQ, InsertDead, At, Running
<1>3. ASSUME Settled(e, d) PROVE Settled(e, d)'
  <2>1. Buried(e, d) => Buried(e, d)'
    BY DEF Buried, Deliver, Send, Record, Backoff, PushDLQ, InsertDead, stores
  <2>2. accepted[e][d] > 0 => accepted'[e][d] > 0
    <3>1. CASE Send(w, k)
      <4>1. accepted' = [accepted EXCEPT ![held[w]][k] = @ + 1] \/ accepted' = accepted
        BY <3>1, SendOutcome
      <4>2. CASE accepted' = [accepted EXCEPT ![held[w]][k] = @ + 1]
        BY <1>1, <4>2 DEF HistoryType
      <4>3. CASE accepted' = accepted
        BY <4>3
      <4> QED
        BY <4>1, <4>2, <4>3
    <3>2. CASE UNCHANGED accepted
      BY <3>2
    <3> QED
      BY <3>1, <3>2 DEF Deliver, Record, Backoff, PushDLQ, InsertDead, history
  <2> QED
    BY <1>3, <2>1, <2>2 DEF Settled
<1>4. ASSUME NEW v \in Workers, held[v] = e, stage[v][d] # "done", ~(v = w /\ d = k)
      PROVE  InFlight(e, d)'
  <2>1. stage'[v][d] = stage[v][d]
    <3>1. PICK s : GoTo(w, k, s)
      BY DEF Deliver, Send, Record, Backoff, PushDLQ, InsertDead
    <3> QED
      BY <1>1, <1>4, <3>1 DEF GoTo
  <2> QED
    BY <1>1, <1>4, <2>1 DEF InFlight
<1>5. ASSUME held[w] = e, d = k PROVE Settled(e, d)' \/ InFlight(e, d)'
  <2>1. CASE Send(w, k)
    BY <1>1, <1>5, <2>1 DEF Send, GoTo, InFlight
  <2>2. CASE Record(w, k)
    <3>1. stage'[w][k] = Verdict(attempt[w][k], status[w][k])
      BY <2>2 DEF Record, GoTo
    <3>2. stage'[w][k] = "done" => status[w][k] = "2xx"
      <4>1. attempt[w][k] \in 1..MaxRetries /\ status[w][k] \in Outcomes
        OBVIOUS
      <4> QED
        BY <3>1, <4>1, VerdictType
    <3>3. status[w][k] = "2xx" => accepted[e][d] > 0
      BY <1>5, <2>2 DEF AnswersCounted, Record, At
    <3>4. UNCHANGED accepted
      BY <2>2 DEF Record, history
    <3> QED
      BY <1>1, <1>5, <3>2, <3>3, <3>4 DEF Settled, InFlight
  <2>3. CASE Backoff(w, k)
    BY <1>1, <1>2, <1>5, <2>3 DEF Backoff, GoTo, InFlight
  <2>4. CASE PushDLQ(w, k)
    BY <1>1, <1>5, <2>4 DEF PushDLQ, GoTo, InFlight
  <2>5. CASE InsertDead(w, k)
    <3>1. [event |-> e, dest |-> d, resolved |-> FALSE] \in deadRows'
      BY <1>2, <1>5, <2>5 DEF InsertDead, CallFails, Fault
    <3> QED
      BY <3>1 DEF Settled, Buried
  <2> QED
    BY <2>1, <2>2, <2>3, <2>4, <2>5 DEF Deliver
<1> QED
  BY <1>1, <1>3, <1>4, <1>5 DEF NothingVanishes, InFlight

(* What is left of Next neither ends a goroutine nor drops a row. *)
LEMMA RestKeeps ==
  ASSUME Conservation, Undisturbed, Undisturbed', NEW p \in owed', [Next]_vars,
         ~(\E w \in Workers : Work(w)), ~(\E w \in Workers, k \in Destinations : Deliver(w, k))
  PROVE  Settled(p[1], p[2])' \/ InFlight(p[1], p[2])'
<1>1. UNCHANGED <<held, stage, accepted, owed>>
  <2>1. ~(Crash \/ Exit \/ \E w \in Workers, k \in Destinations : Panic(w, k))
    BY DEF Conservation, TypeOK, BoundsType, Undisturbed, CancelledByOutage, Crash, Exit, Panic, Outage
  <2> QED
    BY <2>1 DEF Next, vars, workerState, history, Publish, DequeueReplyLost, Shutdown, Start, Recover,
                EndRecovery, Requeue, SkipRow, Serve, RetryEnqueue, RemoveEntry, ResolveRows,
                FindForRetry, FindForDiscard, Begin
<1>2. Buried(p[1], p[2]) => Buried(p[1], p[2])'
  <2>1. CASE UNCHANGED deadRows
    BY <2>1 DEF Buried
  <2>2. ASSUME NEW c \in Clients, ResolveRows(c) PROVE Buried(p[1], p[2]) => Buried(p[1], p[2])'
    <3>1. \A r \in deadRows : \E q \in deadRows' : q.event = r.event /\ q.dest = r.dest
      <4>1. deadRows' = deadRows \/ \A r \in deadRows :
              (IF r.event = request[c].event THEN [r EXCEPT !.resolved = TRUE] ELSE r) \in deadRows'
        BY <2>2 DEF ResolveRows
      <4>2. \A r \in deadRows : LET q == [r EXCEPT !.resolved = TRUE]
                                IN q.event = r.event /\ q.dest = r.dest
        BY DEF Conservation, TypeOK, StoresType
      <4> QED
        BY <4>1, <4>2
    <3> QED
      BY <3>1 DEF Buried
  <2> QED
    BY <2>1, <2>2 DEF Next, vars, stores, Publish, DequeueReplyLost, Crash, Panic, Exit, Die, Shutdown, Start,
                Recover, EndRecovery, Requeue, SkipRow, Serve, RetryEnqueue, RemoveEntry, FindForRetry,
                FindForDiscard, Begin
<1> QED
  BY <1>1, <1>2 DEF Conservation, NothingVanishes, Settled, InFlight

LEMMA NextConservation == Conservation /\ [Next]_vars => Conservation'
<1> SUFFICES ASSUME Conservation, [Next]_vars PROVE Conservation'
  OBVIOUS
<1>1. TypeOK' /\ AnswersCounted' /\ CancelledByOutage'
  BY NextType, AnswersStep, CancelledStep DEF Conservation
<1>2. Undisturbed' => Undisturbed
  BY CountersGrow, <1>1, BoundsAssumption DEF Conservation, TypeOK, BoundsType, Undisturbed
<1>3. NothingVanishes'
  <2> SUFFICES ASSUME Undisturbed', NEW p \in owed'
               PROVE  Settled(p[1], p[2])' \/ InFlight(p[1], p[2])'
    BY DEF NothingVanishes
  <2> QED
    BY <1>2, WorkKeeps, DeliverKeeps, RestKeeps
<1> QED
  BY <1>1, <1>3 DEF Conservation

(* Without a failing store or an outage of the delivery process no fanned  *)
(* out delivery is lost: for any number of events, destinations, workers   *)
(* and requests, it is accepted, in the dead letter table or in flight.    *)
THEOREM WorkConserved == Spec => []NothingVanishes
<1>1. Spec => []Conservation
  BY InitConservation, NextConservation, PTL DEF Spec
<1>2. Conservation => NothingVanishes
  BY DEF Conservation
<1> QED
  BY <1>1, <1>2, PTL

-----------------------------------------------------------------------------
(* No burial before its time *)

LEMMA InitBurial == Init => Burial
<1> SUFFICES ASSUME Init PROVE Burial
  OBVIOUS
<1>1. TypeOK
  BY InitType
<1>2. BurialsJustified /\ NoPrematureBurial
  BY DEF Init, BurialsJustified, NoPrematureBurial
<1> QED
  BY <1>1, <1>2 DEF Burial

(* Attempt rows are never deleted. *)
LEMMA AttemptsGrow ==
  ASSUME [Next]_vars PROVE attempts \subseteq attempts'
<1>1. ASSUME NEW w \in Workers, NEW d \in Destinations, Deliver(w, d) PROVE attempts \subseteq attempts'
  BY <1>1 DEF Deliver, Send, Record, Backoff, PushDLQ, InsertDead, stores
<1>2. ASSUME NEW w \in Workers, Work(w) \/ DequeueReplyLost(w) PROVE attempts \subseteq attempts'
  BY <1>2 DEF Work, Dequeue, DequeueReplyLost, PollTimeout, StoreEvent, FanOut, ResolveNone, FinishEvent, stores
<1> QED
  BY <1>1, <1>2 DEF Next, vars, stores, Publish, Panic, Crash, Exit, Die, Shutdown, Start, Recover, EndRecovery,
     Requeue, SkipRow, Serve, RetryEnqueue, RemoveEntry, ResolveRows, FindForRetry, FindForDiscard, Begin

LEMMA GivenUpStays ==
  ASSUME [Next]_vars, NEW e, NEW d, GivenUp(e, d) PROVE GivenUp(e, d)'
  BY AttemptsGrow DEF GivenUp

(* Record puts down the reason before it sends a goroutine to moveToDLQ. *)
LEMMA RecordJustifies ==
  ASSUME TypeOK, NEW w \in Workers, NEW d \in Destinations, Record(w, d), CallSucceeds,
         stage'[w][d] = "pushing", NEW e, e = held[w]
  PROVE  GivenUp(e, d)'
<1> DEFINE a == [event |-> held[w], dest |-> d, number |-> attempt[w][d], outcome |-> status[w][d]]
<1>1. stage'[w][d] = Verdict(attempt[w][d], status[w][d])
  BY DEF TypeOK, WorkersType, Record, GoTo
<1>2. attempt[w][d] \in 1..MaxRetries /\ status[w][d] \in Outcomes
  BY DEF TypeOK, WorkersType
<1>3. status[w][d] = "4xx" \/ (status[w][d] = "other" /\ attempt[w][d] = MaxRetries)
  BY <1>1, <1>2, RetriesAssumption DEF Verdict, Outcomes
<1>4. a \in attempts'
  BY DEF Record, CallFails, CallSucceeds, Fault, TypeOK, BoundsType
<1> QED
  BY <1>3, <1>4 DEF GivenUp

LEMMA BurialsStep ==
  ASSUME Burial, [Next]_vars PROVE BurialsJustified'
<1> SUFFICES ASSUME faults' = 0, proc' # "stopping", NEW v \in Workers, NEW k \in Destinations,
                    stage'[v][k] \in {"pushing", "inserting"}, NEW e, e = held'[v]
             PROVE  GivenUp(e, k)'
  BY DEF BurialsJustified, GivenUp
<1> USE DEF Burial, TypeOK, WorkersType
<1>1. faults = 0
  BY CountersGrow, BoundsAssumption DEF BoundsType
<1>2. ASSUME stage[v][k] \in {"pushing", "inserting"}, held'[v] = held[v], proc # "stopping"
      PROVE  GivenUp(e, k)'
  <2>1. GivenUp(e, k)
    BY <1>1, <1>2 DEF BurialsJustified
  <2> QED
    BY <2>1, GivenUpStays
<1>3. CASE UNCHANGED <<held, stage>> /\ proc # "stopping"
  BY <1>2, <1>3
<1>4. ASSUME NEW w \in Workers, Work(w) PROVE GivenUp(e, k)'
  <2>1. CASE StoreEvent(w)
    BY <1>3, <2>1 DEF StoreEvent
  <2>2. CASE Dequeue(w) \/ PollTimeout(w) \/ ResolveNone(w) \/ FinishEvent(w)
    <3>1. stage[w][k] = "done" /\ UNCHANGED <<stage, proc>>
      BY <2>2 DEF WorkersBusy, Dequeue, PollTimeout, ResolveNone, FinishEvent
    <3>2. v # w /\ held'[v] = held[v]
      BY <2>2, <3>1 DEF Dequeue, PollTimeout, ResolveNone, FinishEvent, Return
    <3> QED
      BY <1>2, <3>1, <3>2
  <2>3. CASE FanOut(w)
    BY <1>2, <2>3 DEF FanOut
  <2> QED
    BY <1>4, <2>1, <2>2, <2>3 DEF Work
<1>5. ASSUME NEW w \in Workers, NEW d \in Destinations, Deliver(w, d) PROVE GivenUp(e, k)'
  <2>1. held' = held /\ proc' = proc /\ proc = "up"
    BY <1>5 DEF Deliver, Send, Record, Backoff, PushDLQ, InsertDead, At, Running
  <2>2. PICK s : GoTo(w, d, s)
    BY <1>5 DEF Deliver, Send, Record, Backoff, PushDLQ, InsertDead
  <2>3. CASE ~(v = w /\ k = d)
    BY <1>2, <2>1, <2>2, <2>3 DEF GoTo
  <2>4. CASE v = w /\ k = d /\ Record(w, d)
    <3>1. CallSucceeds
      BY <1>1, <2>1, <2>4 DEF Record, CallFails, Fault
    <3>2. stage'[w][d] = "pushing"
      <4>1. attempt[w][d] \in 1..MaxRetries /\ status[w][d] \in Outcomes
        OBVIOUS
      <4> QED
        BY <2>4, <4>1, VerdictType DEF Record, GoTo
    <3> QED
      BY <2>1, <2>4, <3>1, <3>2, RecordJustifies
  <2>5. CASE v = w /\ k = d /\ ~Record(w, d)
    <3>1. PushDLQ(w, d)
      BY <1>5, <2>5 DEF Deliver, Send, Backoff, InsertDead, GoTo, Stages
    <3> QED
      BY <1>2, <2>1, <2>5, <3>1 DEF PushDLQ, At
  <2> QED
    BY <2>3, <2>4, <2>5
<1>6. ASSUME Die PROVE FALSE
  BY <1>6 DEF Die
<1>7. ~(\E w \in Workers : Work(w)) /\ ~(\E w \in Workers, d \in Destinations : Deliver(w, d))
         => UNCHANGED <<held, stage>> /\ proc # "stopping"
  BY <1>6 DEF Next, vars, workerState, Publish, DequeueReplyLost, Panic, Crash, Exit, Shutdown, Start, Recover,
     EndRecovery, Requeue, SkipRow, Serve, RetryEnqueue, RemoveEntry, ResolveRows, FindForRetry,
     FindForDiscard, Begin
<1> QED
  BY <1>3, <1>4, <1>5, <1>7

LEMMA RowsStep ==
  ASSUME Burial, [Next]_vars PROVE NoPrematureBurial'
<1> SUFFICES ASSUME faults' = 0, NEW q \in deadRows' PROVE GivenUp(q.event, q.dest)'
  BY DEF NoPrematureBurial
<1> USE DEF Burial, TypeOK
<1>1. faults = 0
  BY CountersGrow, BoundsAssumption DEF BoundsType
<1>2. ASSUME NEW r \in deadRows, r.event = q.event, r.dest = q.dest PROVE GivenUp(q.event, q.dest)'
  <2>1. GivenUp(q.event, q.dest)
    BY <1>1, <1>2 DEF NoPrematureBurial
  <2> QED
    BY <2>1, GivenUpStays
<1>3. CASE deadRows' = deadRows
  BY <1>2, <1>3
<1>4. ASSUME NEW w \in Workers, NEW d \in Destinations, InsertDead(w, d) PROVE GivenUp(q.event, q.dest)'
  <2>1. CASE q = [event |-> held[w], dest |-> d, resolved |-> FALSE] /\ CallSucceeds
    <3>1. GivenUp(q.event, q.dest)
      BY <1>1, <1>4, <2>1 DEF BurialsJustified, InsertDead, At, CallSucceeds
    <3> QED
      BY <3>1, GivenUpStays
  <2> QED
    BY <1>2, <1>4, <2>1 DEF InsertDead
<1>5. ASSUME NEW c \in Clients, ResolveRows(c) PROVE GivenUp(q.event, q.dest)'
  <2>1. CASE deadRows' # deadRows
    <3>1. PICK r \in deadRows :
            q = IF r.event = request[c].event THEN [r EXCEPT !.resolved = TRUE] ELSE r
      BY <1>5, <2>1 DEF ResolveRows
    <3>2. q.event = r.event /\ q.dest = r.dest
      BY <3>1 DEF StoresType
    <3> QED
      BY <1>2, <3>2
  <2> QED
    BY <1>3, <2>1
<1>6. ~(\E w \in Workers, d \in Destinations : InsertDead(w, d)) /\ ~(\E c \in Clients : ResolveRows(c))
         => deadRows' = deadRows
  <2>1. \A w \in Workers : Work(w) \/ DequeueReplyLost(w) => deadRows' = deadRows
    BY DEF stores, Work, Dequeue, DequeueReplyLost, PollTimeout, StoreEvent, FanOut, ResolveNone, FinishEvent
  <2>2. \A w \in Workers, d \in Destinations : Deliver(w, d) /\ ~InsertDead(w, d) => deadRows' = deadRows
    BY DEF stores, Deliver, Send, Record, Backoff, PushDLQ
  <2> QED
    BY <2>1, <2>2 DEF Next, vars, stores, Publish, Panic, Crash, Exit, Die, Shutdown, Start, Recover, EndRecovery,
       Requeue, SkipRow, Serve, RetryEnqueue, RemoveEntry, FindForRetry, FindForDiscard, Begin
<1> QED
  BY <1>3, <1>4, <1>5, <1>6

(* Whatever crashes, shutdowns, recoveries and operator requests happen,   *)
(* as long as the stores answer, a dead letter row is preceded by a 4xx or *)
(* by a failed attempt number MaxRetries of the same pair.                 *)
THEOREM BurialsAreDue == Spec => []NoPrematureBurial
<1>1. Burial /\ [Next]_vars => Burial'
  BY NextType, BurialsStep, RowsStep DEF Burial
<1>2. Spec => []Burial
  BY InitBurial, <1>1, PTL DEF Spec
<1>3. Burial => NoPrematureBurial
  BY DEF Burial
<1> QED
  BY <1>2, <1>3, PTL

-----------------------------------------------------------------------------
(* Recovery *)

LEMMA SnapshotStep ==
  ASSUME TypeOK, SnapshotHolds, [Next]_vars PROVE SnapshotHolds'
<1> USE DEF SnapshotHolds
<1>1. CASE proc = "recovering"
  <2>1. ~(\E w \in Workers : Work(w) \/ DequeueReplyLost(w))
    BY <1>1 DEF Work, Dequeue, DequeueReplyLost, PollTimeout, StoreEvent, FanOut, ResolveNone, FinishEvent,
                Running, CallSucceeds, CallFails, Fault
  <2>2. ~(\E w \in Workers, d \in Destinations : Deliver(w, d) \/ Panic(w, d))
    BY <1>1 DEF Deliver, Send, Record, Backoff, PushDLQ, InsertDead, Panic, At, Running
  <2>3. UNCHANGED attempts
    BY <2>1, <2>2 DEF Next, vars, stores, Publish, Crash, Exit, Die, Shutdown, Start, Recover, EndRecovery,
       Requeue, SkipRow, Serve, RetryEnqueue, RemoveEntry, ResolveRows, FindForRetry, FindForDiscard, Begin
  <2>4. \A q \in deadRows' : \E r \in deadRows : r.event = q.event
    <3>1. ASSUME NEW c \in Clients, ResolveRows(c), NEW q \in deadRows' PROVE \E r \in deadRows : r.event = q.event
      <4>1. CASE q \in deadRows
        BY <4>1
      <4>2. CASE q \notin deadRows
        <5>1. PICK r \in deadRows :
                q = IF r.event = request[c].event THEN [r EXCEPT !.resolved = TRUE] ELSE r
          BY <3>1, <4>2 DEF ResolveRows
        <5> QED
          BY <5>1 DEF TypeOK, StoresType
      <4> QED
        BY <4>1, <4>2
    <3>2. CASE deadRows' = deadRows
      BY <3>2
    <3> QED
      BY <2>1, <2>2, <3>1, <3>2 DEF Next, vars, stores, Publish, Crash, Exit, Die, Shutdown, Start, Recover,
         EndRecovery, Requeue, SkipRow, Serve, RetryEnqueue, RemoveEntry, FindForRetry, FindForDiscard, Begin
  <2>5. \A e \in Events : Unsettled(e) => Unsettled(e)'
    BY <2>3, <2>4 DEF Unsettled
  <2>6. incomplete' \subseteq incomplete /\ (proc' # "recovering" => incomplete' = {})
    BY <1>1, <2>1, <2>2 DEF Next, vars, Publish, Crash, Exit, Die, Shutdown, Start, Recover, EndRecovery,
       Requeue, SkipRow, Serve, RetryEnqueue, RemoveEntry, ResolveRows, FindForRetry, FindForDiscard, Begin
  <2>7. \A p \in incomplete : p[1] \in Events
    BY DEF TypeOK, ControlType
  <2> QED
    BY <2>5, <2>6, <2>7
<1>2. CASE proc # "recovering" /\ Start
  <2>1. \A p \in incomplete' : Unsettled(p[1])
    BY <1>2 DEF Start, IncompleteDeliveries, Unsettled
  <2>2. UNCHANGED <<attempts, deadRows>>
    BY <1>2 DEF Start, stores
  <2> QED
    BY <1>2, <2>1, <2>2 DEF Start, Unsettled
<1>3. CASE proc # "recovering" /\ ~Start
  <2>1. ASSUME NEW w \in Workers, Work(w) \/ DequeueReplyLost(w) PROVE incomplete' = incomplete /\ proc' = proc
    BY <2>1 DEF Work, Dequeue, DequeueReplyLost, PollTimeout, StoreEvent, FanOut, ResolveNone, FinishEvent
  <2>2. ASSUME NEW w \in Workers, NEW d \in Destinations, Deliver(w, d)
        PROVE  incomplete' = incomplete /\ proc' = proc
    BY <2>2 DEF Deliver, Send, Record, Backoff, PushDLQ, InsertDead
  <2>3. incomplete' = {} /\ proc' # "recovering"
    BY <1>3, <2>1, <2>2 DEF Next, vars, Publish, Panic, Crash, Exit, Die, Shutdown, Recover, EndRecovery,
       Requeue, SkipRow, Serve, RetryEnqueue, RemoveEntry, ResolveRows, FindForRetry, FindForDiscard, Begin
  <2> QED
    BY <2>3
<1> QED
  BY <1>1, <1>2, <1>3

(* RecoverIncomplete never pushes back an event that was delivered or      *)
(* dead-lettered, whatever the API does between its query and its pushes.  *)
THEOREM RecoveryIsCareful == Spec => RecoveryLeavesSettledAlone
<1> DEFINE Push1 == proc = "recovering" /\ incomplete' # incomplete /\ deliveryQ' # deliveryQ
                      => Unsettled(deliveryQ'[Len(deliveryQ')])
<1>1. Init => SnapshotHolds
  BY DEF Init, SnapshotHolds
<1>2. TypeOK /\ SnapshotHolds /\ [Next]_vars => [Push1]_vars
  <2> SUFFICES ASSUME TypeOK, SnapshotHolds, Next, proc = "recovering",
                      incomplete' # incomplete, deliveryQ' # deliveryQ
               PROVE  Unsettled(deliveryQ'[Len(deliveryQ')])
    OBVIOUS
  <2>1. PICK p \in incomplete : Requeue(p)
    <3>1. ASSUME NEW w \in Workers, Work(w) \/ DequeueReplyLost(w) PROVE FALSE
      BY <3>1 DEF Work, Dequeue, DequeueReplyLost, PollTimeout, StoreEvent, FanOut, ResolveNone, FinishEvent
    <3>2. ASSUME NEW w \in Workers, NEW d \in Destinations, Deliver(w, d) PROVE FALSE
      BY <3>2 DEF Deliver, Send, Record, Backoff, PushDLQ, InsertDead
    <3> QED
      BY <3>1, <3>2 DEF Next, stores, Publish, Panic, Crash, Exit, Die, Shutdown, Start, Recover, EndRecovery,
         SkipRow, Serve, RetryEnqueue, RemoveEntry, ResolveRows, FindForRetry, FindForDiscard, Begin
  <2>2. p[1] \in Events /\ deliveryQ \in Seq(Events)
    BY DEF TypeOK, ControlType, StoresType
  <2>3. deliveryQ' = Append(deliveryQ, p[1])
    BY <2>1 DEF Requeue, Push
  <2>4. deliveryQ'[Len(deliveryQ')] = p[1]
    BY <2>2, <2>3
  <2> QED
    BY <2>4 DEF SnapshotHolds
<1>3. TypeOK /\ SnapshotHolds /\ [Next]_vars => SnapshotHolds'
  BY SnapshotStep
<1>4. Spec => [](TypeOK /\ SnapshotHolds)
  BY <1>1, <1>3, TypeCorrect, PTL DEF Spec
<1>5. RecoveryLeavesSettledAlone <=> [][Push1]_vars
  BY DEF RecoveryLeavesSettledAlone
<1> QED
  BY <1>2, <1>4, <1>5, PTL DEF Spec

-----------------------------------------------------------------------------
(* Counting *)

LEMMA OneMore ==
  ASSUME NEW S, IsFiniteSet(S), NEW x, NEW T \in SUBSET (S \union {x})
  PROVE  IsFiniteSet(T) /\ Cardinality(T) <= Cardinality(S) + 1
<1>1. IsFiniteSet(S \union {x}) /\ Cardinality(S \union {x}) <= Cardinality(S) + 1
  <2>1. Cardinality(S) \in Nat
    BY FS_CardinalityType
  <2> QED
    BY <2>1, FS_AddElement
<1> QED
  BY <1>1, FS_Subset, FS_CardinalityType

LEMMA OneLess ==
  ASSUME NEW S, IsFiniteSet(S), NEW x \in S, NEW T \in SUBSET (S \ {x})
  PROVE  IsFiniteSet(T) /\ Cardinality(T) + 1 <= Cardinality(S)
<1>1. IsFiniteSet(S \ {x}) /\ Cardinality(S \ {x}) = Cardinality(S) - 1
  BY FS_RemoveElement
<1> QED
  BY <1>1, FS_Subset, FS_CardinalityType

(* The positions of an event in a list. *)
Occurrences(q, e) == {i \in 1..Len(q) : q[i] = e}

LEMMA OccurrencesFinite ==
  ASSUME NEW q \in Seq(Events), NEW e
  PROVE  IsFiniteSet(Occurrences(q, e)) /\ Cardinality(Occurrences(q, e)) \in Nat
<1>1. IsFiniteSet(1..Len(q))
  BY FS_Interval
<1> QED
  BY <1>1, FS_Subset, FS_CardinalityType DEF Occurrences

LEMMA OccurrencesAppend ==
  ASSUME NEW q \in Seq(Events), NEW f \in Events, NEW e
  PROVE  Cardinality(Occurrences(Append(q, f), e)) =
           Cardinality(Occurrences(q, e)) + (IF f = e THEN 1 ELSE 0)
<1>1. Occurrences(Append(q, f), e) = Occurrences(q, e) \union (IF f = e THEN {Len(q) + 1} ELSE {})
  BY DEF Occurrences
<1>2. Len(q) + 1 \notin Occurrences(q, e)
  BY DEF Occurrences
<1>3. IsFiniteSet(Occurrences(q, e)) /\ Cardinality(Occurrences(q, e)) \in Nat
  BY OccurrencesFinite
<1>4. CASE f = e
  BY <1>1, <1>2, <1>3, <1>4, FS_AddElement
<1>5. CASE f # e
  BY <1>1, <1>3, <1>5
<1> QED
  BY <1>4, <1>5

LEMMA OccurrencesTail ==
  ASSUME NEW q \in Seq(Events), q # <<>>, NEW e
  PROVE  Cardinality(Occurrences(q, e)) =
           Cardinality(Occurrences(Tail(q), e)) + (IF Head(q) = e THEN 1 ELSE 0)
<1> DEFINE S == Occurrences(Tail(q), e)
           T == Occurrences(q, e) \ {1}
           f == [i \in S |-> i + 1]
           g == [i \in T |-> i - 1]
<1>1. Tail(q) \in Seq(Events) /\ Len(q) \in Nat /\ Len(Tail(q)) = Len(q) - 1
       /\ \A i \in 1..Len(Tail(q)) : Tail(q)[i] = q[i + 1]
  OBVIOUS
<1>2. f \in Injection(S, T)
  <2>1. \A i \in S : i \in Int /\ i + 1 \in T
    BY <1>1 DEF Occurrences
  <2> QED
    BY <2>1 DEF Injection, IsInjective
<1>3. g \in Injection(T, S)
  <2>1. \A i \in T : i \in Int /\ i - 1 \in S
    BY <1>1 DEF Occurrences
  <2> QED
    BY <2>1 DEF Injection, IsInjective
<1>4. IsFiniteSet(S) /\ IsFiniteSet(Occurrences(q, e)) /\ IsFiniteSet(T)
  BY <1>1, OccurrencesFinite, FS_RemoveElement
<1>5. Cardinality(S) <= Cardinality(T)
  BY <1>2, <1>4, FS_Injection
<1>6. Cardinality(T) <= Cardinality(S)
  BY <1>3, <1>4, FS_Injection
<1>7. Cardinality(S) = Cardinality(T)
  BY <1>4, <1>5, <1>6, FS_CardinalityType
<1>8. 1 \in Occurrences(q, e) <=> Head(q) = e
  BY DEF Occurrences
<1> QED
  BY <1>4, <1>7, <1>8, FS_RemoveElement, FS_CardinalityType

-----------------------------------------------------------------------------
(* Duplicates *)

(* Workers whose pass over event e may still end with a 2xx of d. *)
Expecting(e, d) ==
    {w \in Workers :
        /\ held[w] = e
        /\ \/ worker[w] \in {"storing", "routing"}
           \/ stage[w][d] \in {"sending", "backoff"}
           \/ stage[w][d] = "recording" /\ status[w][d] # "2xx"}

(* Every push is spent once: it is in the list, in such a pass or has been *)
(* answered.                                                               *)
Spent(e, d) ==
    accepted[e][d] + Cardinality(Occurrences(deliveryQ, e)) + Cardinality(Expecting(e, d)) <= pushes[e]

LEMMA ExpectingFinite ==
  ASSUME NEW e, NEW d
  PROVE  /\ IsFiniteSet(Expecting(e, d)) /\ Cardinality(Expecting(e, d)) \in Nat
         /\ Expecting(e, d) \subseteq Workers
<1>1. Expecting(e, d) \subseteq Workers
  BY DEF Expecting
<1> QED
  BY <1>1, FiniteAssumption, FS_Subset, FS_CardinalityType

(* A step that takes no answer and leaves the list alone begins no pass.   *)
LEMMA QuietStep ==
  ASSUME TypeOK, NEW e \in Events, NEW d \in Destinations, Spent(e, d),
         UNCHANGED <<deliveryQ, accepted, pushes>>, Expecting(e, d)' \subseteq Expecting(e, d)
  PROVE  Spent(e, d)'
<1>1. Cardinality(Expecting(e, d)') <= Cardinality(Expecting(e, d))
      /\ Cardinality(Expecting(e, d)) \in Nat /\ Cardinality(Expecting(e, d)') \in Nat
  BY ExpectingFinite, FS_Subset, FS_CardinalityType
<1>2. Cardinality(Occurrences(deliveryQ, e)) \in Nat
  BY OccurrencesFinite DEF TypeOK, StoresType
<1> QED
  BY <1>1, <1>2 DEF Spent, TypeOK, HistoryType

(* A push adds to both sides. *)
LEMMA PushStep ==
  ASSUME TypeOK, NEW e \in Events, NEW d \in Destinations, Spent(e, d),
         NEW f \in Events, Push(f), UNCHANGED <<accepted, workerState>>
  PROVE  Spent(e, d)'
<1>1. Expecting(e, d)' = Expecting(e, d)
  BY DEF Expecting, workerState
<1>2. Cardinality(Expecting(e, d)) \in Nat /\ Cardinality(Occurrences(deliveryQ, e)) \in Nat
  BY ExpectingFinite, OccurrencesFinite DEF TypeOK, StoresType
<1>3. Cardinality(Occurrences(deliveryQ', e)) =
        Cardinality(Occurrences(deliveryQ, e)) + (IF f = e THEN 1 ELSE 0)
  BY OccurrencesAppend DEF TypeOK, StoresType, Push
<1>4. pushes'[e] = pushes[e] + (IF f = e THEN 1 ELSE 0)
  BY DEF TypeOK, HistoryType, Push
<1> QED
  BY <1>1, <1>2, <1>3, <1>4 DEF Spent, TypeOK, HistoryType

(* BLPOP gives the first occurrence to a worker that had no pass, or the   *)
(* reply is lost.                                                          *)
LEMMA PopStep ==
  ASSUME TypeOK, NEW e \in Events, NEW d \in Destinations, Spent(e, d),
         NEW w \in Workers, Dequeue(w) \/ DequeueReplyLost(w)
  PROVE  Spent(e, d)'
<1> USE DEF TypeOK, StoresType, WorkersType, HistoryType
<1>1. Cardinality(Occurrences(deliveryQ, e)) =
        Cardinality(Occurrences(deliveryQ', e)) + (IF Head(deliveryQ) = e THEN 1 ELSE 0)
  BY OccurrencesTail DEF Dequeue, DequeueReplyLost
<1>2. deliveryQ' \in Seq(Events) /\ UNCHANGED <<accepted, pushes>>
  <2>1. deliveryQ # <<>> /\ deliveryQ' = Tail(deliveryQ)
    BY DEF Dequeue, DequeueReplyLost
  <2> QED
    BY <2>1 DEF Dequeue, DequeueReplyLost, history
<1>3. Cardinality(Occurrences(deliveryQ', e)) \in Nat
  BY <1>2, OccurrencesFinite
<1>4. Expecting(e, d)' \subseteq
        Expecting(e, d) \union (IF Head(deliveryQ) = e THEN {w} ELSE {})
  BY DEF Expecting, Dequeue, DequeueReplyLost, workerState
<1>5. Cardinality(Expecting(e, d)) \in Nat /\ Cardinality(Expecting(e, d)') \in Nat
  BY <1>4, ExpectingFinite, OneMore, FS_CardinalityType
<1>6. Cardinality(Expecting(e, d)') <= Cardinality(Expecting(e, d)) + (IF Head(deliveryQ) = e THEN 1 ELSE 0)
  <2>1. CASE Head(deliveryQ) = e
    BY <1>4, <2>1, ExpectingFinite, OneMore
  <2>2. CASE Head(deliveryQ) # e
    BY <1>4, <1>5, <2>2, ExpectingFinite, FS_Subset
  <2> QED
    BY <2>1, <2>2
<1> QED
  BY <1>1, <1>2, <1>3, <1>5, <1>6 DEF Spent

(* A 2xx ends what was expected of the pass. *)
LEMMA AnswerStep ==
  ASSUME TypeOK, NEW e \in Events, NEW d \in Destinations, Spent(e, d),
         NEW w \in Workers, NEW k \in Destinations, Send(w, k)
  PROVE  Spent(e, d)'
<1> USE DEF TypeOK, WorkersType, HistoryType
<1>1. UNCHANGED <<deliveryQ, pushes, held, worker>> /\ held[w] \in Events
  BY DEF Send, At, stores, WorkersBusy
<1>2. PICK o \in Outcomes :
        /\ status' = [status EXCEPT ![w][k] = o]
        /\ accepted' = IF o = "2xx" THEN [accepted EXCEPT ![held[w]][k] = @ + 1] ELSE accepted
  BY SendOutcome
<1>3. stage[w][k] = "sending" /\ stage' = [stage EXCEPT ![w][k] = "recording"]
  BY DEF Send, At, GoTo
<1>4. Expecting(e, d)' \subseteq Expecting(e, d)
  BY <1>1, <1>2, <1>3 DEF Expecting
<1>5. CASE o = "2xx" /\ held[w] = e /\ k = d
  <2>1. w \in Expecting(e, d) /\ w \notin Expecting(e, d)'
    BY <1>1, <1>2, <1>3, <1>5 DEF Expecting, WorkersBusy
  <2>2. Cardinality(Expecting(e, d)') + 1 <= Cardinality(Expecting(e, d))
    BY <1>4, <2>1, ExpectingFinite, OneLess
  <2>3. Cardinality(Expecting(e, d)') \in Nat /\ Cardinality(Expecting(e, d)) \in Nat
        /\ Cardinality(Occurrences(deliveryQ, e)) \in Nat
    BY <1>4, ExpectingFinite, OccurrencesFinite, FS_Subset, FS_CardinalityType DEF StoresType
  <2>4. accepted'[e][d] = accepted[e][d] + 1
    BY <1>2, <1>5
  <2> QED
    BY <1>1, <2>2, <2>3, <2>4 DEF Spent
<1>6. CASE ~(o = "2xx" /\ held[w] = e /\ k = d)
  <2>1. accepted'[e][d] = accepted[e][d]
    BY <1>1, <1>2, <1>6
  <2>2. Cardinality(Expecting(e, d)') <= Cardinality(Expecting(e, d))
        /\ Cardinality(Expecting(e, d)) \in Nat /\ Cardinality(Expecting(e, d)') \in Nat
    BY <1>4, ExpectingFinite, FS_Subset, FS_CardinalityType
  <2>3. Cardinality(Occurrences(deliveryQ, e)) \in Nat
    BY OccurrencesFinite DEF StoresType
  <2> QED
    BY <1>1, <2>1, <2>2, <2>3 DEF Spent
<1> QED
  BY <1>5, <1>6

LEMMA SpentStep ==
  ASSUME TypeOK, [Next]_vars, NEW e \in Events, NEW d \in Destinations, Spent(e, d)
  PROVE  Spent(e, d)'
<1> DEFINE Quiet == UNCHANGED <<deliveryQ, accepted, pushes>> /\ Expecting(e, d)' \subseteq Expecting(e, d)
<1> USE DEF TypeOK, WorkersType
<1>1. ASSUME NEW w \in Workers, Work(w), ~Dequeue(w) PROVE Quiet
  <2>1. UNCHANGED <<deliveryQ, accepted, pushes>>
    BY <1>1 DEF Work, PollTimeout, StoreEvent, FanOut, ResolveNone, FinishEvent, stores, history
  <2>2. CASE StoreEvent(w)
    BY <2>1, <2>2 DEF StoreEvent, Expecting
  <2>3. CASE FanOut(w)
    BY <2>1, <2>3 DEF FanOut, Expecting
  <2>4. CASE PollTimeout(w) \/ ResolveNone(w) \/ FinishEvent(w)
    BY <2>1, <2>4, NoEventAssumption DEF PollTimeout, ResolveNone, FinishEvent, Return, Expecting
  <2> QED
    BY <1>1, <2>2, <2>3, <2>4 DEF Work
<1>2. ASSUME NEW w \in Workers, NEW k \in Destinations, Deliver(w, k), ~Send(w, k) PROVE Quiet
  <2>1. UNCHANGED <<deliveryQ, accepted, pushes, held, worker>>
    BY <1>2 DEF Deliver, Record, Backoff, PushDLQ, InsertDead, stores, history
  <2>2. CASE Record(w, k)
    <3>1. attempt[w][k] \in 1..MaxRetries /\ status[w][k] \in Outcomes
      OBVIOUS
    <3>2. PICK next : /\ next = Verdict(attempt[w][k], status[w][k])
                      /\ stage' = [stage EXCEPT ![w][k] = next]
                      /\ status' = [status EXCEPT ![w][k] = "other"]
                      /\ stage[w][k] = "recording"
      BY <2>2 DEF Record, GoTo, At
    <3>3. next \in {"done", "backoff", "pushing"}
      BY <3>1, <3>2, VerdictType
    <3>4. status[w][k] = "2xx" => next = "done"
      BY <3>1, <3>2, VerdictType
    <3> QED
      BY <2>1, <3>2, <3>3, <3>4 DEF Expecting
  <2>3. CASE Backoff(w, k)
    BY <2>1, <2>3 DEF Backoff, GoTo, At, Expecting
  <2>4. CASE PushDLQ(w, k) \/ InsertDead(w, k)
    BY <2>1, <2>4 DEF PushDLQ, InsertDead, GoTo, At, Expecting
  <2> QED
    BY <1>2, <2>2, <2>3, <2>4 DEF Deliver
<1>3. ASSUME Die, UNCHANGED <<stores, history>> PROVE Quiet
  BY <1>3, NoEventAssumption DEF Die, Expecting, stores, history
<1>4. ASSUME Shutdown \/ Start \/ EndRecovery \/ UNCHANGED vars \/ \E p \in incomplete : SkipRow(p) PROVE Quiet
  BY <1>4 DEF Shutdown, Start, EndRecovery, SkipRow, vars, stores, history, workerState, Expecting
<1>5. ASSUME NEW f \in Events, Publish(f) PROVE Spent(e, d)'
  BY <1>5, PushStep DEF Publish
<1>6. ASSUME NEW p \in incomplete, Requeue(p) PROVE Spent(e, d)'
  BY <1>6, PushStep DEF Requeue, ControlType
<1>7. ASSUME NEW c \in Clients, Serve(c) \/ \E f \in Events : FindForRetry(c, f) \/ FindForDiscard(c, f)
      PROVE  Spent(e, d)'
  <2>1. UNCHANGED <<accepted, workerState>>
    BY <1>7 DEF Serve, RetryEnqueue, RemoveEntry, ResolveRows, FindForRetry, FindForDiscard, Begin, history
  <2>2. UNCHANGED <<deliveryQ, pushes>> \/ \E f \in Events : Push(f)
    BY <1>7 DEF Serve, RetryEnqueue, RemoveEntry, ResolveRows, FindForRetry, FindForDiscard, Begin, history,
                stores, ControlType, Idle
  <2>3. Expecting(e, d)' = Expecting(e, d)
    BY <2>1 DEF Expecting, workerState
  <2> QED
    BY <2>1, <2>2, <2>3, PushStep, QuietStep
<1>8. Quiet => Spent(e, d)'
  BY QuietStep
<1> QED
  BY <1>1, <1>2, <1>3, <1>4, <1>5, <1>6, <1>7, <1>8, PopStep, AnswerStep
  DEF Next, Crash, Exit, Panic, Recover, Deliver, Die

(* Requests that the passes over event e may still send to d. *)
Chances(e, d) ==
    {p \in Workers \X (1..MaxRetries) :
        /\ held[p[1]] = e
        /\ \/ worker[p[1]] \in {"storing", "routing"}
           \/ stage[p[1]][d] \in {"sending", "backoff"} /\ attempt[p[1]][d] <= p[2]
           \/ stage[p[1]][d] = "recording" /\ attempt[p[1]][d] < p[2]}

Copies(e, d) == accepted[e][d] + unheard[e][d]

(* Every push pays for MaxRetries requests. *)
Affordable(e, d) ==
    Copies(e, d) + MaxRetries * Cardinality(Occurrences(deliveryQ, e)) + Cardinality(Chances(e, d))
        <= MaxRetries * pushes[e]

LEMMA OneMoreTime ==
  ASSUME NEW n \in Nat
  PROVE  MaxRetries * n \in Nat /\ MaxRetries * (n + 1) = MaxRetries * n + MaxRetries
  BY RetriesAssumption

LEMMA ChancesFinite ==
  ASSUME NEW e, NEW d
  PROVE  /\ IsFiniteSet(Chances(e, d)) /\ Cardinality(Chances(e, d)) \in Nat
         /\ Chances(e, d) \subseteq Workers \X (1..MaxRetries)
<1>1. Chances(e, d) \subseteq Workers \X (1..MaxRetries)
  BY DEF Chances
<1>2. IsFiniteSet(Workers \X (1..MaxRetries))
  <2>1. IsFiniteSet(1..MaxRetries) /\ IsFiniteSet(Workers)
    BY FiniteAssumption, RetriesAssumption, FS_Interval
  <2> QED
    BY <2>1, FS_Product
<1> QED
  BY <1>1, <1>2, FS_Subset, FS_CardinalityType

LEMMA CopiesType ==
  ASSUME TypeOK, NEW e \in Events, NEW d \in Destinations
  PROVE  /\ Copies(e, d) \in Nat /\ pushes[e] \in Nat
         /\ Cardinality(Occurrences(deliveryQ, e)) \in Nat
         /\ MaxRetries * pushes[e] \in Nat
         /\ MaxRetries * Cardinality(Occurrences(deliveryQ, e)) \in Nat
<1>1. Copies(e, d) \in Nat /\ pushes[e] \in Nat /\ Cardinality(Occurrences(deliveryQ, e)) \in Nat
  BY OccurrencesFinite DEF Copies, TypeOK, HistoryType, StoresType
<1> QED
  BY <1>1, OneMoreTime

LEMMA AffordQuiet ==
  ASSUME TypeOK, NEW e \in Events, NEW d \in Destinations, Affordable(e, d),
         UNCHANGED <<deliveryQ, accepted, unheard, pushes>>, Chances(e, d)' \subseteq Chances(e, d)
  PROVE  Affordable(e, d)'
<1>1. Cardinality(Chances(e, d)') <= Cardinality(Chances(e, d))
      /\ Cardinality(Chances(e, d)) \in Nat /\ Cardinality(Chances(e, d)') \in Nat
  BY ChancesFinite, FS_Subset, FS_CardinalityType
<1>2. Copies(e, d)' = Copies(e, d)
  BY DEF Copies
<1> QED
  BY <1>1, <1>2, CopiesType DEF Affordable

LEMMA AffordPush ==
  ASSUME TypeOK, NEW e \in Events, NEW d \in Destinations, Affordable(e, d),
         NEW f \in Events, Push(f), UNCHANGED <<accepted, unheard, workerState>>
  PROVE  Affordable(e, d)'
<1>1. Chances(e, d)' = Chances(e, d) /\ Copies(e, d)' = Copies(e, d)
  BY DEF Chances, Copies, workerState
<1>2. Cardinality(Occurrences(deliveryQ', e)) =
        Cardinality(Occurrences(deliveryQ, e)) + (IF f = e THEN 1 ELSE 0)
  BY OccurrencesAppend DEF TypeOK, StoresType, Push
<1>3. pushes'[e] = pushes[e] + (IF f = e THEN 1 ELSE 0)
  BY DEF TypeOK, HistoryType, Push
<1>4. CASE f = e
  <2>1. /\ MaxRetries * Cardinality(Occurrences(deliveryQ', e)) =
             MaxRetries * Cardinality(Occurrences(deliveryQ, e)) + MaxRetries
        /\ MaxRetries * pushes'[e] = MaxRetries * pushes[e] + MaxRetries
    BY <1>2, <1>3, <1>4, CopiesType, OneMoreTime
  <2> QED
    BY <1>1, <2>1, CopiesType, ChancesFinite, RetriesAssumption DEF Affordable
<1>5. CASE f # e
  <2>1. pushes'[e] = pushes[e]
        /\ Cardinality(Occurrences(deliveryQ', e)) = Cardinality(Occurrences(deliveryQ, e))
    BY <1>2, <1>3, <1>5, CopiesType
  <2> QED
    BY <1>1, <2>1 DEF Affordable
<1> QED
  BY <1>4, <1>5

(* The event that is popped brings the requests it pays for. *)
LEMMA AffordPop ==
  ASSUME TypeOK, NEW e \in Events, NEW d \in Destinations, Affordable(e, d),
         NEW w \in Workers, Dequeue(w) \/ DequeueReplyLost(w)
  PROVE  Affordable(e, d)'
<1>0. /\ Copies(e, d) \in Nat /\ MaxRetries * pushes[e] \in Nat /\ MaxRetries \in Nat
      /\ MaxRetries * Cardinality(Occurrences(deliveryQ, e)) \in Nat
  BY CopiesType, RetriesAssumption
<1> USE DEF TypeOK, StoresType, WorkersType, HistoryType
<1>1. Cardinality(Occurrences(deliveryQ, e)) =
        Cardinality(Occurrences(deliveryQ', e)) + (IF Head(deliveryQ) = e THEN 1 ELSE 0)
  BY OccurrencesTail DEF Dequeue, DequeueReplyLost
<1>2. deliveryQ' \in Seq(Events) /\ UNCHANGED <<accepted, unheard, pushes>>
  <2>1. deliveryQ # <<>> /\ deliveryQ' = Tail(deliveryQ)
    BY DEF Dequeue, DequeueReplyLost
  <2> QED
    BY <2>1 DEF Dequeue, DequeueReplyLost, history
<1>3. Cardinality(Occurrences(deliveryQ', e)) \in Nat /\ Copies(e, d)' = Copies(e, d)
  BY <1>2, OccurrencesFinite DEF Copies
<1> DEFINE Brought == {w} \X (1..MaxRetries)
<1>4. Chances(e, d)' \subseteq Chances(e, d) \union (IF Head(deliveryQ) = e THEN Brought ELSE {})
  BY DEF Chances, Dequeue, DequeueReplyLost, workerState
<1>5. IsFiniteSet(Brought) /\ Cardinality(Brought) = MaxRetries
  <2>1. IsFiniteSet(1..MaxRetries) /\ Cardinality(1..MaxRetries) = MaxRetries
    BY FS_Interval, RetriesAssumption
  <2>2. IsFiniteSet({w}) /\ Cardinality({w}) = 1
    BY FS_Singleton
  <2>3. IsFiniteSet(Brought) /\ Cardinality(Brought) = Cardinality({w}) * Cardinality(1..MaxRetries)
    BY <2>1, <2>2, FS_Product
  <2> QED
    BY <2>1, <2>2, <2>3, RetriesAssumption
<1>6. Cardinality(Chances(e, d)') \in Nat /\ Cardinality(Chances(e, d)) \in Nat
  BY <1>4, <1>5, ChancesFinite, FS_Union, FS_Subset, FS_CardinalityType
<1>7. CASE Head(deliveryQ) = e
  <2> DEFINE Both == Chances(e, d) \union Brought
  <2>1. Cardinality(Both) = Cardinality(Chances(e, d)) + MaxRetries - Cardinality(Chances(e, d) \intersect Brought)
        /\ IsFiniteSet(Both)
    BY <1>5, ChancesFinite, FS_Union
  <2>2. Cardinality(Chances(e, d) \intersect Brought) \in Nat
    BY ChancesFinite, FS_Intersection, FS_CardinalityType
  <2>3. Cardinality(Chances(e, d)') <= Cardinality(Both) /\ Cardinality(Both) \in Nat
    BY <1>4, <1>7, <2>1, FS_Subset, FS_CardinalityType
  <2>4. MaxRetries * Cardinality(Occurrences(deliveryQ, e)) =
          MaxRetries * Cardinality(Occurrences(deliveryQ', e)) + MaxRetries
        /\ MaxRetries * Cardinality(Occurrences(deliveryQ', e)) \in Nat
    BY <1>1, <1>3, <1>7, OneMoreTime
  <2>5. Cardinality(Chances(e, d)') <= Cardinality(Chances(e, d)) + MaxRetries
    BY <1>6, <2>1, <2>2, <2>3, RetriesAssumption
  <2> DEFINE left == MaxRetries * Cardinality(Occurrences(deliveryQ', e))
  <2>6. Copies(e, d) + (left + MaxRetries) + Cardinality(Chances(e, d)) <= MaxRetries * pushes[e]
    BY <2>4 DEF Affordable
  <2>7. Copies(e, d) + left + Cardinality(Chances(e, d)') <= MaxRetries * pushes[e]
    <3> left \in Nat
      BY <2>4
    <3> HIDE DEF left
    <3> QED
      BY <1>0, <1>6, <2>5, <2>6
  <2> QED
    BY <1>2, <1>3, <2>7 DEF Affordable
<1>8. CASE Head(deliveryQ) # e
  <2>1. Cardinality(Chances(e, d)') <= Cardinality(Chances(e, d))
    BY <1>4, <1>8, ChancesFinite, FS_Subset
  <2>2. Cardinality(Occurrences(deliveryQ', e)) = Cardinality(Occurrences(deliveryQ, e))
    BY <1>1, <1>3, <1>8
  <2>3. Copies(e, d) + MaxRetries * Cardinality(Occurrences(deliveryQ, e)) + Cardinality(Chances(e, d)')
          <= MaxRetries * pushes[e]
    BY <1>0, <1>6, <2>1 DEF Affordable
  <2> QED
    BY <1>2, <1>3, <2>2, <2>3 DEF Affordable
<1> QED
  BY <1>7, <1>8

(* A request is one chance less, and at most one copy more. *)
LEMMA AffordSend ==
  ASSUME TypeOK, NEW e \in Events, NEW d \in Destinations, Affordable(e, d),
         NEW w \in Workers, NEW k \in Destinations, Send(w, k)
  PROVE  Affordable(e, d)'
<1> USE DEF TypeOK, WorkersType, HistoryType
<1>1. UNCHANGED <<deliveryQ, pushes, held, worker, attempt>> /\ held[w] \in Events
      /\ worker[w] = "delivering"
  BY DEF Send, At, stores, WorkersBusy
<1>2. stage[w][k] = "sending" /\ stage' = [stage EXCEPT ![w][k] = "recording"]
  BY DEF Send, At, GoTo
<1>3. Chances(e, d)' \subseteq Chances(e, d)
  BY <1>1, <1>2 DEF Chances
<1>4. Cardinality(Chances(e, d)) \in Nat /\ Cardinality(Chances(e, d)') \in Nat
      /\ Cardinality(Chances(e, d)') <= Cardinality(Chances(e, d))
  BY <1>3, ChancesFinite, FS_Subset, FS_CardinalityType
<1>5. \/ accepted' = accepted /\ unheard' = unheard
      \/ accepted' = [accepted EXCEPT ![held[w]][k] = @ + 1] /\ unheard' = unheard
      \/ accepted' = accepted /\ unheard' = [unheard EXCEPT ![held[w]][k] = @ + 1]
  BY DEF Send
<1>6. CASE held[w] = e /\ k = d
  <2>1. <<w, attempt[w][d]>> \in Chances(e, d) /\ <<w, attempt[w][d]>> \notin Chances(e, d)'
    BY <1>1, <1>2, <1>6 DEF Chances
  <2>2. Cardinality(Chances(e, d)') + 1 <= Cardinality(Chances(e, d))
    BY <1>3, <2>1, ChancesFinite, OneLess
  <2>3. accepted[e][d] \in Nat /\ unheard[e][d] \in Nat
    OBVIOUS
  <2>4. \/ accepted'[e][d] = accepted[e][d] /\ unheard'[e][d] = unheard[e][d]
        \/ accepted'[e][d] = accepted[e][d] + 1 /\ unheard'[e][d] = unheard[e][d]
        \/ accepted'[e][d] = accepted[e][d] /\ unheard'[e][d] = unheard[e][d] + 1
    BY <1>5, <1>6
  <2>5. Copies(e, d)' \in Nat /\ Copies(e, d)' <= Copies(e, d) + 1
    BY <2>3, <2>4 DEF Copies
  <2> QED
    BY <1>1, <1>4, <2>2, <2>5, CopiesType DEF Affordable
<1>7. CASE ~(held[w] = e /\ k = d)
  <2>1. accepted'[e][d] = accepted[e][d] /\ unheard'[e][d] = unheard[e][d]
    BY <1>1, <1>5, <1>7
  <2>2. Copies(e, d)' = Copies(e, d)
    BY <2>1 DEF Copies
  <2> QED
    BY <1>1, <1>4, <2>2, CopiesType DEF Affordable
<1> QED
  BY <1>6, <1>7

LEMMA AffordStep ==
  ASSUME TypeOK, [Next]_vars, NEW e \in Events, NEW d \in Destinations, Affordable(e, d)
  PROVE  Affordable(e, d)'
<1> DEFINE Quiet == UNCHANGED <<deliveryQ, accepted, unheard, pushes>> /\ Chances(e, d)' \subseteq Chances(e, d)
<1> USE DEF TypeOK, WorkersType
<1>1. ASSUME NEW w \in Workers, Work(w), ~Dequeue(w) PROVE Quiet
  <2>1. UNCHANGED <<deliveryQ, accepted, unheard, pushes>>
    BY <1>1 DEF Work, PollTimeout, StoreEvent, FanOut, ResolveNone, FinishEvent, stores, history
  <2>2. CASE StoreEvent(w)
    BY <2>1, <2>2 DEF StoreEvent, Chances
  <2>3. CASE FanOut(w)
    BY <2>1, <2>3 DEF FanOut, Chances
  <2>4. CASE PollTimeout(w) \/ ResolveNone(w) \/ FinishEvent(w)
    <3>1. held' = [held EXCEPT ![w] = NoEvent] /\ stage' = stage
          /\ (\A v \in Workers : v # w => worker'[v] = worker[v] /\ attempt'[v] = attempt[v])
      BY <2>4 DEF PollTimeout, ResolveNone, FinishEvent, Return
    <3> QED
      BY <2>1, <3>1, NoEventAssumption DEF Chances
  <2> QED
    BY <1>1, <2>2, <2>3, <2>4 DEF Work
<1>2. ASSUME NEW w \in Workers, NEW k \in Destinations, Deliver(w, k), ~Send(w, k) PROVE Quiet
  <2>1. UNCHANGED <<deliveryQ, accepted, unheard, pushes, held, worker>>
    BY <1>2 DEF Deliver, Record, Backoff, PushDLQ, InsertDead, stores, history
  <2>2. CASE Record(w, k)
    <3>1. attempt[w][k] \in 1..MaxRetries /\ status[w][k] \in Outcomes
      OBVIOUS
    <3>2. PICK next : /\ next = Verdict(attempt[w][k], status[w][k])
                      /\ stage' = [stage EXCEPT ![w][k] = next]
                      /\ attempt' = IF next = "backoff" THEN [attempt EXCEPT ![w][k] = @ + 1] ELSE attempt
                      /\ stage[w][k] = "recording"
      BY <2>2 DEF Record, GoTo, At
    <3>3. next \in {"done", "backoff", "pushing"}
      BY <3>1, <3>2, VerdictType
    <3>4. CASE next = "backoff"
      <4>1. attempt' = [attempt EXCEPT ![w][k] = @ + 1]
        BY <3>2, <3>4
      <4> QED
        BY <2>1, <3>1, <3>2, <3>4, <4>1, RetriesAssumption DEF Chances
    <3>5. CASE next # "backoff"
      <4>1. attempt' = attempt
        BY <3>2, <3>5
      <4> QED
        BY <2>1, <3>2, <3>3, <3>5, <4>1 DEF Chances
    <3> QED
      BY <3>4, <3>5
  <2>3. CASE Backoff(w, k) \/ PushDLQ(w, k) \/ InsertDead(w, k)
    <3>1. PICK next \in {"sending", "inserting", "done"} :
            /\ stage' = [stage EXCEPT ![w][k] = next]
            /\ next = "sending" => stage[w][k] = "backoff"
            /\ attempt' = attempt
      BY <2>3 DEF Backoff, PushDLQ, InsertDead, GoTo, At
    <3> QED
      BY <2>1, <3>1 DEF Chances
  <2> QED
    BY <1>2, <2>2, <2>3 DEF Deliver
<1>3. ASSUME Die, UNCHANGED <<stores, history>> PROVE Quiet
  BY <1>3, NoEventAssumption DEF Die, Chances, stores, history
<1>4. ASSUME Shutdown \/ Start \/ EndRecovery \/ UNCHANGED vars \/ \E p \in incomplete : SkipRow(p) PROVE Quiet
  BY <1>4 DEF Shutdown, Start, EndRecovery, SkipRow, vars, stores, history, workerState, Chances
<1>5. ASSUME NEW f \in Events, Publish(f) PROVE Affordable(e, d)'
  BY <1>5, AffordPush DEF Publish
<1>6. ASSUME NEW p \in incomplete, Requeue(p) PROVE Affordable(e, d)'
  BY <1>6, AffordPush DEF Requeue, ControlType
<1>7. ASSUME NEW c \in Clients, Serve(c) \/ \E f \in Events : FindForRetry(c, f) \/ FindForDiscard(c, f)
      PROVE  Affordable(e, d)'
  <2>1. UNCHANGED <<accepted, unheard, workerState>>
    BY <1>7 DEF Serve, RetryEnqueue, RemoveEntry, ResolveRows, FindForRetry, FindForDiscard, Begin, history
  <2>2. UNCHANGED <<deliveryQ, pushes>> \/ \E f \in Events : Push(f)
    BY <1>7 DEF Serve, RetryEnqueue, RemoveEntry, ResolveRows, FindForRetry, FindForDiscard, Begin, history,
                stores, ControlType, Idle
  <2>3. Chances(e, d)' = Chances(e, d)
    BY <2>1 DEF Chances, workerState
  <2> QED
    BY <2>1, <2>2, <2>3, AffordPush, AffordQuiet
<1>8. Quiet => Affordable(e, d)'
  BY AffordQuiet
<1> QED
  BY <1>1, <1>2, <1>3, <1>4, <1>5, <1>6, <1>7, <1>8, AffordPop, AffordSend
  DEF Next, Crash, Exit, Panic, Recover, Deliver, Die

(* For each push of an event, by its producer, a retry or a recovery, each  *)
(* destination is heard to accept it at most once, and takes at most        *)
(* MaxRetries copies when its answers are lost: for any number of workers,  *)
(* whatever crashes and requests come between.                              *)
THEOREM DuplicatesAreBounded == Spec => []DuplicatesBounded
<1> DEFINE Paid == \A e \in Events, d \in Destinations : Spent(e, d) /\ Affordable(e, d)
<1>1. Init => Paid
  <2> SUFFICES ASSUME Init, NEW e \in Events, NEW d \in Destinations
               PROVE  Spent(e, d) /\ Affordable(e, d)
    OBVIOUS
  <2>1. Expecting(e, d) = {} /\ Occurrences(deliveryQ, e) = {} /\ Chances(e, d) = {}
    BY NoEventAssumption DEF Init, Expecting, Occurrences, Chances
  <2>2. /\ Cardinality(Expecting(e, d)) = 0 /\ Cardinality(Occurrences(deliveryQ, e)) = 0
        /\ Cardinality(Chances(e, d)) = 0
    BY <2>1, FS_EmptySet
  <2>3. accepted[e][d] = 0 /\ unheard[e][d] = 0 /\ pushes[e] = 0
    BY DEF Init
  <2> QED
    BY <2>2, <2>3, RetriesAssumption DEF Spent, Affordable, Copies
<1>2. TypeOK /\ Paid /\ [Next]_vars => Paid'
  BY SpentStep, AffordStep
<1>3. TypeOK /\ Paid => DuplicatesBounded
  <2> SUFFICES ASSUME TypeOK, Paid, NEW e \in Events, NEW d \in Destinations
               PROVE  accepted[e][d] <= pushes[e] /\ Copies(e, d) <= MaxRetries * pushes[e]
    BY DEF DuplicatesBounded, Copies
  <2>1. Cardinality(Expecting(e, d)) \in Nat /\ Cardinality(Chances(e, d)) \in Nat
    BY ExpectingFinite, ChancesFinite
  <2>2. Spent(e, d) /\ Affordable(e, d)
    OBVIOUS
  <2>3. accepted[e][d] <= pushes[e]
    BY <2>1, <2>2, CopiesType DEF Spent, TypeOK, HistoryType
  <2>4. Copies(e, d) <= MaxRetries * pushes[e]
    BY <2>1, <2>2, CopiesType DEF Affordable
  <2> QED
    BY <2>3, <2>4
<1> QED
  BY <1>1, <1>2, <1>3, TypeCorrect, PTL DEF Spec

-----------------------------------------------------------------------------
(* Rows and the list *)

(* Goroutines between the two halves of moveToDLQ. *)
Inserting(e) ==
    {p \in Workers \X Destinations : held[p[1]] = e /\ stage[p[1]][p[2]] = "inserting"}

BuriedAt(e) == {d \in Destinations : Buried(e, d)}

(* Each row has its entry, and so has each row that is about to be         *)
(* inserted; under a cancelled context neither half succeeds.              *)
Listed(e) ==
    /\ Cardinality(BuriedAt(e)) <= dlq[e]
    /\ proc # "stopping" => Cardinality(BuriedAt(e)) + Cardinality(Inserting(e)) <= dlq[e]

Unattended == retries = 0 /\ discards = 0

RowsListed ==
    faults = 0 /\ Unattended => (\A c \in Clients : request[c] = Idle) /\ \A e \in Events : Listed(e)

LEMMA BuriedFinite ==
  ASSUME NEW e
  PROVE  IsFiniteSet(BuriedAt(e)) /\ Cardinality(BuriedAt(e)) \in Nat /\ BuriedAt(e) \subseteq Destinations
<1>1. BuriedAt(e) \subseteq Destinations
  BY DEF BuriedAt
<1> QED
  BY <1>1, FiniteAssumption, FS_Subset, FS_CardinalityType

LEMMA InsertingFinite ==
  ASSUME NEW e
  PROVE  IsFiniteSet(Inserting(e)) /\ Cardinality(Inserting(e)) \in Nat
<1>1. Inserting(e) \subseteq Workers \X Destinations
  BY DEF Inserting
<1>2. IsFiniteSet(Workers \X Destinations)
  BY FiniteAssumption, FS_Product
<1> QED
  BY <1>1, <1>2, FS_Subset, FS_CardinalityType

(* Requests are only ever counted up. *)
LEMMA RequestsGrow ==
  ASSUME TypeOK, [Next]_vars
  PROVE  retries <= retries' /\ discards <= discards' /\ surplus <= surplus'
<1> retries \in Nat /\ discards \in Nat /\ surplus \in Nat
  BY BoundsAssumption DEF TypeOK, BoundsType
<1>1. ASSUME NEW w \in Workers, Work(w) \/ DequeueReplyLost(w) PROVE UNCHANGED <<retries, discards, surplus>>
  BY <1>1 DEF Work, Dequeue, DequeueReplyLost, PollTimeout, StoreEvent, FanOut, ResolveNone, FinishEvent,
              bounds, apiBounds
<1>2. ASSUME NEW w \in Workers, NEW d \in Destinations, Deliver(w, d) PROVE UNCHANGED <<retries, discards, surplus>>
  BY <1>2 DEF Deliver, Send, Record, Backoff, PushDLQ, InsertDead, bounds, apiBounds
<1>3. ASSUME NEW c \in Clients, Serve(c) PROVE UNCHANGED <<retries, discards>> /\ surplus <= surplus'
  BY <1>3, BoundsAssumption DEF Serve, RetryEnqueue, RemoveEntry, ResolveRows
<1>4. ASSUME NEW c \in Clients, NEW e \in Events, FindForRetry(c, e) \/ FindForDiscard(c, e)
      PROVE  retries <= retries' /\ discards <= discards' /\ surplus' = surplus
  BY <1>4 DEF FindForRetry, FindForDiscard, Begin
<1> QED
  BY <1>1, <1>2, <1>3, <1>4 DEF Next, vars, bounds, apiBounds, Publish, Panic, Crash, Exit, Die, Shutdown,
     Start, Recover, EndRecovery, Requeue, SkipRow

(* Nobody asks the API for anything. *)
LEMMA NoRequest ==
  ASSUME TypeOK, RowsListed, [Next]_vars, faults = 0, Unattended, Unattended'
  PROVE  /\ ~\E c \in Clients : Serve(c)
         /\ ~\E c \in Clients, e \in Events : FindForRetry(c, e) \/ FindForDiscard(c, e)
         /\ request' = request
<1>1. ~\E c \in Clients : Serve(c)
  BY DEF RowsListed, Serve, RetryEnqueue, RemoveEntry, ResolveRows, Idle
<1>2. ~\E c \in Clients, e \in Events : FindForRetry(c, e) \/ FindForDiscard(c, e)
  BY DEF Unattended, FindForRetry, FindForDiscard
<1>3. ASSUME NEW w \in Workers, Work(w) \/ DequeueReplyLost(w) PROVE request' = request
  BY <1>3 DEF Work, Dequeue, DequeueReplyLost, PollTimeout, StoreEvent, FanOut, ResolveNone, FinishEvent
<1>4. ASSUME NEW w \in Workers, NEW d \in Destinations, Deliver(w, d) PROVE request' = request
  BY <1>4 DEF Deliver, Send, Record, Backoff, PushDLQ, InsertDead
<1> QED
  BY <1>1, <1>2, <1>3, <1>4 DEF Next, vars, Publish, Panic, Crash, Exit, Die, Shutdown,
     Start, Recover, EndRecovery, Requeue, SkipRow

LEMMA ListedQuiet ==
  ASSUME TypeOK, NEW e \in Events, Listed(e), UNCHANGED <<dlq, deadRows>>,
         Inserting(e)' = {} \/ (Inserting(e)' \subseteq Inserting(e) /\ (proc' # "stopping" => proc # "stopping"))
  PROVE  Listed(e)'
<1>1. BuriedAt(e)' = BuriedAt(e)
  BY DEF BuriedAt, Buried
<1>2. Cardinality(BuriedAt(e)) \in Nat /\ dlq[e] \in Nat
  BY BuriedFinite DEF TypeOK, StoresType
<1>3. CASE Inserting(e)' = {}
  <2>1. Cardinality(Inserting(e)') = 0
    BY <1>3, FS_EmptySet
  <2> QED
    BY <1>1, <1>2, <2>1 DEF Listed
<1>4. CASE Inserting(e)' \subseteq Inserting(e) /\ (proc' # "stopping" => proc # "stopping")
  <2>1. Cardinality(Inserting(e)') <= Cardinality(Inserting(e))
        /\ Cardinality(Inserting(e)) \in Nat /\ Cardinality(Inserting(e)') \in Nat
    BY <1>4, InsertingFinite, FS_Subset, FS_CardinalityType
  <2> QED
    BY <1>1, <1>2, <1>4, <2>1 DEF Listed
<1> QED
  BY <1>3, <1>4

(* First half: an entry for the row to come. *)
LEMMA ListedPush ==
  ASSUME TypeOK, NEW e \in Events, Listed(e), faults' = 0, faults = 0,
         NEW w \in Workers, NEW d \in Destinations, PushDLQ(w, d)
  PROVE  Listed(e)'
<1> USE DEF TypeOK, StoresType, WorkersType
<1>1. held[w] \in Events /\ UNCHANGED <<proc, deadRows, held>>
      /\ stage' = [stage EXCEPT ![w][d] = "inserting"]
  BY DEF PushDLQ, At, GoTo, WorkersBusy
<1>2. BuriedAt(e)' = BuriedAt(e)
  BY <1>1 DEF BuriedAt, Buried
<1>3. Inserting(e)' \subseteq Inserting(e) \union (IF held[w] = e THEN {<<w, d>>} ELSE {})
  BY <1>1 DEF Inserting
<1>4. Cardinality(Inserting(e)) \in Nat /\ Cardinality(Inserting(e)') \in Nat
      /\ Cardinality(BuriedAt(e)) \in Nat
  BY <1>3, InsertingFinite, BuriedFinite, OneMore, FS_CardinalityType
<1>5. Cardinality(Inserting(e)') <= Cardinality(Inserting(e)) + (IF held[w] = e THEN 1 ELSE 0)
  <2>1. CASE held[w] = e
    BY <1>3, <2>1, InsertingFinite, OneMore
  <2>2. CASE held[w] # e
    BY <1>3, <1>4, <2>2, InsertingFinite, FS_Subset
  <2> QED
    BY <2>1, <2>2
<1>6. CASE proc = "up" /\ dlq' = [dlq EXCEPT ![held[w]] = @ + 1]
  <2>1. dlq'[e] = dlq[e] + (IF held[w] = e THEN 1 ELSE 0) /\ dlq[e] \in Nat
    BY <1>1, <1>6
  <2> QED
    BY <1>1, <1>2, <1>4, <1>5, <1>6, <2>1 DEF Listed
<1>7. CASE proc = "stopping" /\ dlq' = dlq
  BY <1>1, <1>2, <1>7 DEF Listed
<1> QED
  BY <1>6, <1>7 DEF PushDLQ, CallSucceeds, CallFails, Fault

(* Second half: the row. *)
LEMMA ListedInsert ==
  ASSUME TypeOK, NEW e \in Events, Listed(e), faults' = 0, faults = 0,
         NEW w \in Workers, NEW d \in Destinations, InsertDead(w, d)
  PROVE  Listed(e)'
<1> USE DEF TypeOK, StoresType, WorkersType
<1>1. held[w] \in Events /\ UNCHANGED <<proc, dlq, held>>
      /\ stage[w][d] = "inserting" /\ stage' = [stage EXCEPT ![w][d] = "done"]
  BY DEF InsertDead, At, GoTo, WorkersBusy
<1>2. Inserting(e)' \subseteq Inserting(e) /\ <<w, d>> \notin Inserting(e)'
  BY <1>1 DEF Inserting
<1>3. Cardinality(Inserting(e)) \in Nat /\ Cardinality(Inserting(e)') \in Nat
      /\ Cardinality(BuriedAt(e)) \in Nat /\ dlq[e] \in Nat
      /\ Cardinality(Inserting(e)') <= Cardinality(Inserting(e))
  BY <1>2, InsertingFinite, BuriedFinite, FS_Subset, FS_CardinalityType
<1>4. CASE proc = "stopping" /\ deadRows' = deadRows
  <2>1. BuriedAt(e)' = BuriedAt(e)
    BY <1>4 DEF BuriedAt, Buried
  <2> QED
    BY <1>1, <1>4, <2>1 DEF Listed
<1>5. CASE /\ proc = "up"
           /\ deadRows' = deadRows \union {[event |-> held[w], dest |-> d, resolved |-> FALSE]}
  <2>1. BuriedAt(e)' \subseteq BuriedAt(e) \union (IF held[w] = e THEN {d} ELSE {})
    BY <1>5 DEF BuriedAt, Buried
  <2>2. CASE held[w] = e
    <3>1. Cardinality(BuriedAt(e)') <= Cardinality(BuriedAt(e)) + 1 /\ Cardinality(BuriedAt(e)') \in Nat
      BY <2>1, <2>2, BuriedFinite, OneMore, FS_CardinalityType
    <3>2. <<w, d>> \in Inserting(e)
      BY <1>1, <2>2 DEF Inserting
    <3>3. Cardinality(Inserting(e)') + 1 <= Cardinality(Inserting(e))
      BY <1>2, <3>2, InsertingFinite, OneLess
    <3> QED
      BY <1>1, <1>3, <1>5, <3>1, <3>3 DEF Listed
  <2>3. CASE held[w] # e
    <3>1. Cardinality(BuriedAt(e)') <= Cardinality(BuriedAt(e)) /\ Cardinality(BuriedAt(e)') \in Nat
      BY <2>1, <2>3, BuriedFinite, FS_Subset, FS_CardinalityType
    <3> QED
      BY <1>1, <1>3, <1>5, <3>1 DEF Listed
  <2> QED
    BY <2>2, <2>3
<1> QED
  BY <1>4, <1>5 DEF InsertDead, CallSucceeds, CallFails, Fault

LEMMA ListedStep ==
  ASSUME TypeOK, RowsListed, [Next]_vars, faults' = 0, Unattended', NEW e \in Events
  PROVE  Listed(e)'
<1> DEFINE Quiet == /\ UNCHANGED <<dlq, deadRows>>
                    /\ Inserting(e)' \subseteq Inserting(e)
                    /\ proc' # "stopping" => proc # "stopping"
<1> USE DEF TypeOK, WorkersType
<1>1. faults = 0 /\ Unattended
  BY CountersGrow, RequestsGrow, BoundsAssumption DEF BoundsType, Unattended
<1>2. Listed(e)
  BY <1>1 DEF RowsListed
<1>3. ASSUME NEW w \in Workers, Work(w) \/ DequeueReplyLost(w) PROVE Quiet
  <2>1. UNCHANGED <<dlq, deadRows, proc>>
    BY <1>3 DEF Work, Dequeue, DequeueReplyLost, PollTimeout, StoreEvent, FanOut, ResolveNone, FinishEvent, stores
  <2>2. CASE Dequeue(w) \/ PollTimeout(w) \/ ResolveNone(w) \/ FinishEvent(w)
    <3>1. UNCHANGED stage /\ (\A d \in Destinations : stage[w][d] = "done")
          /\ \A v \in Workers \ {w} : held'[v] = held[v]
      BY <2>2 DEF WorkersBusy, Dequeue, PollTimeout, ResolveNone, FinishEvent, Return
    <3> QED
      BY <2>1, <3>1 DEF Inserting
  <2>3. CASE StoreEvent(w) \/ DequeueReplyLost(w)
    BY <2>1, <2>3 DEF StoreEvent, DequeueReplyLost, workerState, Inserting
  <2>4. CASE FanOut(w)
    BY <2>1, <2>4 DEF FanOut, Inserting
  <2> QED
    BY <1>3, <2>2, <2>3, <2>4 DEF Work
<1>4. ASSUME NEW w \in Workers, NEW d \in Destinations, Send(w, d) \/ Record(w, d) \/ Backoff(w, d) PROVE Quiet
  <2>1. UNCHANGED <<dlq, deadRows, proc, held>>
    BY <1>4 DEF Send, Record, Backoff, stores
  <2>2. attempt[w][d] \in 1..MaxRetries /\ status[w][d] \in Outcomes
    OBVIOUS
  <2>3. PICK s \in Stages \ {"inserting"} : stage' = [stage EXCEPT ![w][d] = s]
    <3>1. CASE Record(w, d)
      BY <2>2, <3>1, VerdictType DEF Record, GoTo, Stages
    <3> QED
      BY <1>4, <3>1 DEF Send, Backoff, GoTo, Stages
  <2> QED
    BY <2>1, <2>3 DEF Inserting
<1>5. ASSUME Die, UNCHANGED stores PROVE UNCHANGED <<dlq, deadRows>> /\ Inserting(e)' = {}
  BY <1>5, NoEventAssumption DEF Die, Inserting, stores
<1>6. ASSUME Shutdown \/ Start \/ Recover \/ UNCHANGED vars \/ \E f \in Events : Publish(f) PROVE Quiet
  BY <1>6 DEF Shutdown, Start, Recover, EndRecovery, Requeue, SkipRow, Publish, vars, stores, workerState, Inserting
<1>7. Quiet => Listed(e)'
  BY <1>2, ListedQuiet
<1>8. Die => Listed(e)'
  BY <1>2, <1>5, ListedQuiet DEF Die
<1>9. ~(\E c \in Clients : Serve(c)) /\ ~\E c \in Clients, f \in Events : FindForRetry(c, f) \/ FindForDiscard(c, f)
  BY <1>1, NoRequest
<1> QED
  BY <1>1, <1>2, <1>3, <1>4, <1>6, <1>7, <1>8, <1>9, ListedPush, ListedInsert
  DEF Next, Crash, Exit, Panic, Deliver

(* Until an operator acts, the Redis list has an entry for every dead      *)
(* letter row, for any number of workers and destinations: no crash,       *)
(* shutdown or recovery parts the two halves of moveToDLQ the other way.   *)
THEOREM RowsHaveEntries == Spec => []RowBackedByList
<1>1. Init => RowsListed
  <2> SUFFICES ASSUME Init, NEW e \in Events PROVE Listed(e)
    BY DEF Init, RowsListed
  <2>1. Inserting(e) = {} /\ BuriedAt(e) = {}
    BY DEF Init, Inserting, BuriedAt, Buried
  <2>2. Cardinality(Inserting(e)) = 0 /\ Cardinality(BuriedAt(e)) = 0
    BY <2>1, FS_EmptySet
  <2> QED
    BY <2>2 DEF Init, Listed
<1>2. TypeOK /\ RowsListed /\ [Next]_vars => RowsListed'
  <2> SUFFICES ASSUME TypeOK, RowsListed, [Next]_vars, faults' = 0, Unattended'
               PROVE  (\A c \in Clients : request'[c] = Idle) /\ \A e \in Events : Listed(e)'
    BY DEF RowsListed
  <2>1. \A c \in Clients : request'[c] = Idle
    <3>1. faults = 0 /\ Unattended
      BY CountersGrow, RequestsGrow, BoundsAssumption DEF TypeOK, BoundsType, Unattended
    <3> QED
      BY <3>1, NoRequest DEF RowsListed
  <2> QED
    BY <2>1, ListedStep
<1>3. RowsListed => RowBackedByList
  BY DEF RowsListed, RowBackedByList, Unattended, Listed, BuriedAt
<1> QED
  BY <1>1, <1>2, <1>3, TypeCorrect, PTL DEF Spec

-----------------------------------------------------------------------------
(* Retried events *)

(* handleRetryDLQ pushed the event and has its entry still to remove. *)
Removing(e) == {c \in Clients : request[c].step = "remove" /\ request[c].event = e}

(* Workers whose pass over e has not come to the dead letter list for d. *)
Carriers(e, d) ==
    {w \in Workers :
        /\ held[w] = e
        /\ \/ worker[w] \in {"storing", "routing"}
           \/ stage[w][d] \in {"sending", "recording", "backoff", "pushing"}}

(* Entries that will be removed are fewer than the places an unaccepted    *)
(* delivery is kept in.                                                    *)
Kept(e, d) ==
    accepted[e][d] = 0 =>
        Cardinality(Removing(e)) < dlq[e] + Cardinality(Occurrences(deliveryQ, e)) + Cardinality(Carriers(e, d))

Asked(e, ds) == {e} \X ds \subseteq owed

(* An event that has come as far as a dead letter or a retry has been      *)
(* fanned out to all its destinations.                                     *)
FannedOut(ds) ==
    /\ owed \subseteq Events \X ds
    /\ \A c \in Clients : /\ request[c].step # "drop"
                          /\ request[c].step \in {"enqueue", "remove"} => Asked(request[c].event, ds)
    /\ \A w \in Workers : worker[w] = "delivering" => Asked(held[w], ds)
    /\ \A e \in Events : dlq[e] > 0 => Asked(e, ds)

Untouched == Undisturbed /\ discards = 0 /\ surplus = 0

RetriesCovered(ds) == Untouched => FannedOut(ds) /\ \A p \in owed : Kept(p[1], p[2])

LEMMA RemovingFinite ==
  ASSUME NEW e
  PROVE  IsFiniteSet(Removing(e)) /\ Cardinality(Removing(e)) \in Nat /\ Removing(e) \subseteq Clients
<1>1. Removing(e) \subseteq Clients
  BY DEF Removing
<1> QED
  BY <1>1, FiniteAssumption, FS_Subset, FS_CardinalityType

LEMMA CarriersFinite ==
  ASSUME NEW e, NEW d
  PROVE  IsFiniteSet(Carriers(e, d)) /\ Cardinality(Carriers(e, d)) \in Nat /\ Carriers(e, d) \subseteq Workers
<1>1. Carriers(e, d) \subseteq Workers
  BY DEF Carriers
<1> QED
  BY <1>1, FiniteAssumption, FS_Subset, FS_CardinalityType

(* Without a fault or an outage the process never stops. *)
LEMMA Untroubled ==
  ASSUME Conservation, [Next]_vars, Untouched'
  PROVE  /\ Untouched /\ proc # "stopping"
         /\ ~Crash /\ ~Shutdown /\ ~Exit /\ ~\E w \in Workers, d \in Destinations : Panic(w, d)
         /\ ~Fault
         /\ ~\E c \in Clients, e \in Events : FindForDiscard(c, e)
<1> USE DEF Conservation, TypeOK
<1>1. Untouched
  BY CountersGrow, RequestsGrow, BoundsAssumption DEF BoundsType, Untouched, Undisturbed
<1>2. proc # "stopping"
  BY <1>1 DEF CancelledByOutage, Untouched, Undisturbed
<1>3. ~Crash /\ ~Shutdown /\ ~\E w \in Workers, d \in Destinations : Panic(w, d)
  BY <1>1 DEF Crash, Shutdown, Outage, Panic, Untouched, Undisturbed
<1> QED
  BY <1>1, <1>2, <1>3 DEF Exit, Fault, FindForDiscard, Untouched, Undisturbed

LEMMA OwedGrows ==
  ASSUME [Next]_vars PROVE owed \subseteq owed'
<1>1. ASSUME NEW w \in Workers, Work(w) \/ DequeueReplyLost(w) PROVE owed \subseteq owed'
  <2>1. CASE FanOut(w)
    BY <2>1 DEF FanOut
  <2> QED
    BY <1>1, <2>1 DEF Work, Dequeue, DequeueReplyLost, PollTimeout, StoreEvent, ResolveNone, FinishEvent, history
<1>2. ASSUME NEW w \in Workers, NEW d \in Destinations, Deliver(w, d) PROVE owed \subseteq owed'
  BY <1>2 DEF Deliver, Send, Record, Backoff, PushDLQ, InsertDead, history
<1> QED
  BY <1>1, <1>2 DEF Next, vars, history, Publish, Panic, Crash, Exit, Die, Shutdown, Start, Recover,
     EndRecovery, Requeue, SkipRow, Serve, RetryEnqueue, RemoveEntry, ResolveRows, FindForRetry,
     FindForDiscard, Begin

(* Only FanOut sends a worker on, and only to the constant set. *)
LEMMA FannedOutStep ==
  ASSUME NEW ds, Routes = {ds}, Conservation, RetriesCovered(ds), [Next]_vars, Untouched'
  PROVE  FannedOut(ds)'
<1> USE DEF Conservation, TypeOK, WorkersType, ControlType, StoresType
<1>1. Untouched /\ FannedOut(ds)
  BY Untroubled DEF RetriesCovered
<1>2. \A e : Asked(e, ds) => Asked(e, ds)'
  BY OwedGrows DEF Asked
<1>3. ASSUME UNCHANGED <<request, worker, held, dlq, owed>> PROVE FannedOut(ds)'
  BY <1>1, <1>3 DEF FannedOut, Asked
<1>4. ASSUME NEW w \in Workers, Work(w) PROVE FannedOut(ds)'
  <2>1. UNCHANGED <<request, dlq>>
    BY <1>4 DEF Work, Dequeue, PollTimeout, StoreEvent, FanOut, ResolveNone, FinishEvent, stores
  <2>2. CASE FanOut(w)
    <3>1. owed' = owed \union ({held[w]} \X ds) /\ held' = held /\ held[w] \in Events
          /\ worker' = [worker EXCEPT ![w] = "delivering"]
      BY <2>2 DEF FanOut, WorkersBusy
    <3>2. owed' \subseteq Events \X ds
      BY <1>1, <3>1 DEF FannedOut
    <3>3. \A v \in Workers : worker'[v] = "delivering" => Asked(held[v], ds)'
      BY <1>1, <1>2, <3>1 DEF FannedOut, Asked
    <3> QED
      BY <1>1, <1>2, <2>1, <3>1, <3>2, <3>3 DEF FannedOut
  <2>3. CASE ~FanOut(w)
    <3>1. owed' = owed
      BY <1>4, <2>3 DEF Work, Dequeue, PollTimeout, StoreEvent, ResolveNone, FinishEvent, history
    <3>2. \A v \in Workers : worker'[v] = "delivering" => worker[v] = "delivering" /\ held'[v] = held[v]
      BY <1>4, <2>3 DEF Work, Dequeue, PollTimeout, StoreEvent, ResolveNone, FinishEvent, Return
    <3> QED
      BY <1>1, <1>2, <2>1, <3>1, <3>2 DEF FannedOut
  <2> QED
    BY <2>2, <2>3
<1>5. ASSUME NEW w \in Workers, NEW d \in Destinations, Deliver(w, d) PROVE FannedOut(ds)'
  <2>1. UNCHANGED <<request, worker, held, owed>>
    BY <1>5 DEF Deliver, Send, Record, Backoff, PushDLQ, InsertDead, history
  <2>2. CASE PushDLQ(w, d)
    <3>1. Asked(held[w], ds) /\ held[w] \in Events
      BY <1>1, <2>2 DEF PushDLQ, At, WorkersBusy, FannedOut
    <3>2. \A e \in Events : dlq'[e] > 0 => e = held[w] \/ dlq[e] > 0
      BY <2>2 DEF PushDLQ
    <3> QED
      BY <1>1, <1>2, <2>1, <3>1, <3>2 DEF FannedOut
  <2>3. CASE ~PushDLQ(w, d)
    BY <1>3, <1>5, <2>1, <2>3 DEF Deliver, Send, Record, Backoff, InsertDead, stores
  <2> QED
    BY <2>2, <2>3
<1>6. ASSUME NEW c \in Clients, Serve(c) PROVE FannedOut(ds)'
  <2>1. UNCHANGED <<worker, held, owed>>
    BY <1>6 DEF Serve, RetryEnqueue, RemoveEntry, ResolveRows, workerState, history
  <2>2. \A e \in Events : dlq'[e] > 0 => dlq[e] > 0
    <3>1. CASE \E n \in Nat : TakeOut(request[c].event, n)
      BY <3>1, <1>2 DEF TakeOut
    <3>2. CASE dlq' = dlq
      BY <3>2
    <3>3. RemoveEntry(c) => dlq' = dlq \/ \E n \in Nat : TakeOut(request[c].event, n)
      BY BoundsAssumption DEF RemoveEntry
    <3> QED
      BY <1>6, <3>1, <3>2, <3>3 DEF Serve, RetryEnqueue, ResolveRows
  <2>3. \A b \in Clients : /\ request'[b].step # "drop"
                           /\ request'[b].step \in {"enqueue", "remove"} => Asked(request'[b].event, ds)
    <3>1. CASE RetryEnqueue(c)
      <4>1. /\ request[c].step = "enqueue"
            /\ \/ request' = [request EXCEPT ![c].step = "remove"]
               \/ request' = [request EXCEPT ![c] = Idle]
        BY <3>1 DEF RetryEnqueue, Continue, End
      <4>2. /\ \A b \in Clients \ {c} : request'[b] = request[b]
            /\ \/ request'[c].step = "remove" /\ request'[c].event = request[c].event
               \/ request'[c].step = "none"
        BY <4>1 DEF Idle
      <4>3. PICK f : f = request[c].event /\ Asked(f, ds)
        <5>1. Asked(request[c].event, ds)
          BY <1>1, <4>1 DEF FannedOut
        <5> QED
          BY <5>1
      <4>4. Asked(f, ds)'
        BY <1>2, <4>3
      <4>5. ASSUME NEW b \in Clients \ {c}, request[b].step \in {"enqueue", "remove"}
            PROVE  {request[b].event} \X ds \subseteq owed'
        BY <1>1, <4>5, OwedGrows DEF FannedOut, Asked
      <4> QED
        BY <1>1, <4>2, <4>3, <4>4, <4>5 DEF FannedOut, Asked
    <3>2. CASE RemoveEntry(c)
      <4>1. PICK t \in {"resolve", "close"} : request' = [request EXCEPT ![c].step = t]
        BY <3>2 DEF RemoveEntry, Continue
      <4> QED
        BY <1>1, <1>2, <4>1 DEF FannedOut
    <3>3. CASE ResolveRows(c)
      BY <1>1, <1>2, <3>3 DEF ResolveRows, End, Idle, FannedOut
    <3> QED
      BY <1>6, <3>1, <3>2, <3>3 DEF Serve
  <2> QED
    BY <1>1, <1>2, <2>1, <2>2, <2>3 DEF FannedOut, Asked
<1>7. ASSUME NEW c \in Clients, NEW e \in Events, FindForRetry(c, e) PROVE FannedOut(ds)'
  <2>1. UNCHANGED <<worker, held, owed, dlq>>
        /\ request' = [request EXCEPT ![c] = [step |-> "enqueue", event |-> e]]
        /\ dlq[e] > 0
    BY <1>7 DEF FindForRetry, Begin, workerState, history, stores
  <2> QED
    BY <1>1, <1>2, <2>1 DEF FannedOut
<1>8. ASSUME (\E e \in Events : Publish(e)) \/ Start \/ Recover \/ UNCHANGED vars PROVE FannedOut(ds)'
  BY <1>3, <1>8 DEF Publish, Start, Recover, EndRecovery, Requeue, SkipRow, vars, stores, workerState, history
<1> QED
  BY <1>4, <1>5, <1>6, <1>7, <1>8, Untroubled DEF Next, DequeueReplyLost

(* Nothing that keeps the event goes. *)
LEMMA KeptQuiet ==
  ASSUME TypeOK, NEW e \in Events, NEW d \in Destinations, Kept(e, d),
         accepted'[e][d] = 0 => accepted[e][d] = 0,
         Removing(e)' \subseteq Removing(e), UNCHANGED deliveryQ,
         Carriers(e, d) \subseteq Carriers(e, d)', dlq'[e] \in Nat, dlq[e] <= dlq'[e]
  PROVE  Kept(e, d)'
<1>1. IsFiniteSet(Carriers(e, d)')
  <2>1. Carriers(e, d)' \subseteq Workers
    BY DEF Carriers
  <2> QED
    BY <2>1, FiniteAssumption, FS_Subset
<1>2. Cardinality(Carriers(e, d)) <= Cardinality(Carriers(e, d)')
      /\ Cardinality(Carriers(e, d)) \in Nat /\ Cardinality(Carriers(e, d)') \in Nat
  BY <1>1, FS_Subset, FS_CardinalityType
<1>3. Cardinality(Removing(e)') <= Cardinality(Removing(e))
      /\ Cardinality(Removing(e)) \in Nat /\ Cardinality(Removing(e)') \in Nat
  BY RemovingFinite, FS_Subset, FS_CardinalityType
<1>4. Cardinality(Occurrences(deliveryQ, e)) \in Nat /\ dlq[e] \in Nat
  BY OccurrencesFinite DEF TypeOK, StoresType
<1> QED
  BY <1>2, <1>3, <1>4 DEF Kept

(* A push puts the event in the list; a retry will then remove one entry.  *)
LEMMA KeptPush ==
  ASSUME TypeOK, NEW e \in Events, NEW d \in Destinations, Kept(e, d),
         NEW f \in Events, Push(f), UNCHANGED <<accepted, workerState, dlq>>,
         Removing(e)' \subseteq Removing(e) \/ (f = e /\ \E c \in Clients : Removing(e)' \subseteq Removing(e) \union {c})
  PROVE  Kept(e, d)'
<1>1. Carriers(e, d)' = Carriers(e, d)
  BY DEF Carriers, workerState
<1>2. Cardinality(Carriers(e, d)) \in Nat /\ Cardinality(Occurrences(deliveryQ, e)) \in Nat
      /\ dlq[e] \in Nat
  BY CarriersFinite, OccurrencesFinite DEF TypeOK, StoresType
<1>3. Cardinality(Occurrences(deliveryQ', e)) =
        Cardinality(Occurrences(deliveryQ, e)) + (IF f = e THEN 1 ELSE 0)
  BY OccurrencesAppend DEF TypeOK, StoresType, Push
<1>4. Cardinality(Removing(e)) \in Nat /\ Cardinality(Removing(e)') \in Nat
      /\ Cardinality(Removing(e)') <= Cardinality(Removing(e)) + (IF f = e THEN 1 ELSE 0)
  <2>1. CASE Removing(e)' \subseteq Removing(e)
    BY <2>1, RemovingFinite, FS_Subset, FS_CardinalityType
  <2>2. CASE f = e /\ \E c \in Clients : Removing(e)' \subseteq Removing(e) \union {c}
    BY <2>2, RemovingFinite, OneMore, FS_CardinalityType
  <2> QED
    BY <2>1, <2>2
<1> QED
  BY <1>1, <1>2, <1>3, <1>4 DEF Kept

(* A popped event is in the hands of the worker. *)
LEMMA KeptDequeue ==
  ASSUME TypeOK, NEW e \in Events, NEW d \in Destinations, Kept(e, d),
         NEW w \in Workers, Dequeue(w)
  PROVE  Kept(e, d)'
<1> USE DEF TypeOK, StoresType, WorkersType
<1>1. Cardinality(Occurrences(deliveryQ, e)) =
        Cardinality(Occurrences(deliveryQ', e)) + (IF Head(deliveryQ) = e THEN 1 ELSE 0)
  BY OccurrencesTail DEF Dequeue
<1>2. deliveryQ' \in Seq(Events) /\ UNCHANGED <<accepted, dlq, request>>
  BY DEF Dequeue, history
<1>3. Removing(e)' = Removing(e)
  BY <1>2 DEF Removing
<1>4. w \notin Carriers(e, d) /\ Carriers(e, d) \subseteq Carriers(e, d)'
      /\ (Head(deliveryQ) = e => w \in Carriers(e, d)')
  BY DEF Carriers, Dequeue, WorkersBusy
<1>5. IsFiniteSet(Carriers(e, d)') /\ Cardinality(Carriers(e, d)') \in Nat
  <2>1. Carriers(e, d)' \subseteq Workers
    BY DEF Carriers
  <2> QED
    BY <2>1, FiniteAssumption, FS_Subset, FS_CardinalityType
<1>6. Cardinality(Carriers(e, d)) + (IF Head(deliveryQ) = e THEN 1 ELSE 0) <= Cardinality(Carriers(e, d)')
  <2>1. CASE Head(deliveryQ) = e
    BY <1>4, <1>5, <2>1, OneLess
  <2>2. CASE Head(deliveryQ) # e
    BY <1>4, <1>5, <2>2, CarriersFinite, FS_Subset
  <2> QED
    BY <2>1, <2>2
<1>7. Cardinality(Carriers(e, d)) \in Nat /\ Cardinality(Occurrences(deliveryQ', e)) \in Nat
      /\ Cardinality(Removing(e)) \in Nat /\ dlq[e] \in Nat
  BY <1>2, CarriersFinite, RemovingFinite, OccurrencesFinite
<1> QED
  BY <1>1, <1>2, <1>3, <1>5, <1>6, <1>7 DEF Kept

(* A delivery that is given up gets an entry. *)
LEMMA KeptBury ==
  ASSUME TypeOK, NEW e \in Events, NEW d \in Destinations, Kept(e, d),
         NEW w \in Workers, NEW k \in Destinations, PushDLQ(w, k), CallSucceeds, ~Fault
  PROVE  Kept(e, d)'
<1> USE DEF TypeOK, StoresType, WorkersType
<1>1. held[w] \in Events /\ UNCHANGED <<accepted, deliveryQ, request, worker, held>>
      /\ stage' = [stage EXCEPT ![w][k] = "inserting"]
      /\ dlq' = [dlq EXCEPT ![held[w]] = @ + 1]
  BY DEF PushDLQ, At, GoTo, WorkersBusy, CallSucceeds, CallFails, history
<1>2. Removing(e)' = Removing(e)
  BY <1>1 DEF Removing
<1>3. CASE held[w] = e
  <2>1. Carriers(e, d) \subseteq Carriers(e, d)' \union {w}
    BY <1>1 DEF Carriers
  <2>2. IsFiniteSet(Carriers(e, d)')
    <3>1. Carriers(e, d)' \subseteq Workers
      BY DEF Carriers
    <3> QED
      BY <3>1, FiniteAssumption, FS_Subset
  <2>3. Cardinality(Carriers(e, d)) <= Cardinality(Carriers(e, d)') + 1
        /\ Cardinality(Carriers(e, d)) \in Nat /\ Cardinality(Carriers(e, d)') \in Nat
    BY <2>1, <2>2, OneMore, FS_CardinalityType
  <2>4. dlq'[e] = dlq[e] + 1 /\ dlq[e] \in Nat
    BY <1>1, <1>3
  <2>5. Cardinality(Removing(e)) \in Nat /\ Cardinality(Occurrences(deliveryQ, e)) \in Nat
    BY RemovingFinite, OccurrencesFinite
  <2> QED
    BY <1>1, <1>2, <2>3, <2>4, <2>5 DEF Kept
<1>4. CASE held[w] # e
  <2>1. dlq'[e] = dlq[e] /\ dlq[e] \in Nat
    BY <1>1, <1>4
  <2>2. Carriers(e, d) \subseteq Carriers(e, d)'
    BY <1>1, <1>4 DEF Carriers
  <2>3. Removing(e)' \subseteq Removing(e) /\ dlq'[e] \in Nat /\ dlq[e] <= dlq'[e]
        /\ accepted'[e][d] = accepted[e][d]
    BY <1>1, <1>2, <2>1
  <2> QED
    BY <1>1, <2>2, <2>3, KeptQuiet
<1> QED
  BY <1>3, <1>4

(* A retry takes out no more entries than it announced. *)
LEMMA KeptRemove ==
  ASSUME TypeOK, NEW e \in Events, NEW d \in Destinations, Kept(e, d),
         NEW c \in Clients, RemoveEntry(c), request[c].step # "drop", surplus = 0, surplus' = 0
  PROVE  Kept(e, d)'
<1> USE DEF TypeOK, StoresType, ControlType
<1>1. UNCHANGED <<accepted, deliveryQ, workerState>> /\ request[c].step = "remove"
      /\ request' = [request EXCEPT ![c].step = "resolve"]
  BY DEF RemoveEntry, Continue, history
<1>2. Carriers(e, d)' = Carriers(e, d)
  BY <1>1 DEF Carriers, workerState
<1>3. Removing(e)' \subseteq Removing(e)
  BY <1>1 DEF Removing
<1>4. dlq[e] \in Nat /\ dlq'[e] \in Nat
      /\ (request[c].event # e => dlq'[e] = dlq[e]) /\ dlq[e] <= dlq'[e] + 1
  <2>1. TakeOut(request[c].event, 1) \/ dlq' = dlq
    BY DEF RemoveEntry
  <2> QED
    BY <2>1 DEF TakeOut
<1>5. CASE request[c].event = e
  <2>1. c \in Removing(e) /\ c \notin Removing(e)'
    BY <1>1, <1>5 DEF Removing
  <2>2. Cardinality(Removing(e)') + 1 <= Cardinality(Removing(e))
        /\ Cardinality(Removing(e)) \in Nat /\ Cardinality(Removing(e)') \in Nat
    BY <1>3, <2>1, RemovingFinite, OneLess, FS_CardinalityType
  <2>3. Cardinality(Carriers(e, d)) \in Nat /\ Cardinality(Occurrences(deliveryQ, e)) \in Nat
    BY CarriersFinite, OccurrencesFinite
  <2> QED
    BY <1>1, <1>2, <1>4, <2>2, <2>3 DEF Kept
<1>6. CASE request[c].event # e
  BY <1>1, <1>2, <1>3, <1>4, <1>6, KeptQuiet
<1> QED
  BY <1>5, <1>6

LEMMA KeptWork ==
  ASSUME NEW ds, Routes = {ds}, Conservation, FannedOut(ds), Untouched, Untouched', [Next]_vars,
         NEW w \in Workers, Work(w),
         NEW e \in Events, NEW d \in ds, d \in Destinations, <<e, d>> \in owed, Kept(e, d)
  PROVE  Kept(e, d)'
<1> USE DEF Conservation, TypeOK, StoresType, WorkersType
<1>1. CASE Dequeue(w)
  BY <1>1, KeptDequeue
<1>2. CASE ~Dequeue(w)
  <2>1. UNCHANGED <<deliveryQ, dlq, request, accepted>>
    BY <1>2 DEF Work, PollTimeout, StoreEvent, FanOut, ResolveNone, FinishEvent, stores, history
  <2>2. Removing(e)' = Removing(e)
    BY <2>1 DEF Removing
  <2>3. Carriers(e, d) \subseteq Carriers(e, d)'
    <3>1. CASE StoreEvent(w)
      BY <3>1 DEF StoreEvent, Carriers
    <3>2. CASE FanOut(w)
      <4>1. /\ stage' = [stage EXCEPT ![w] = [k \in Destinations |-> IF k \in ds THEN "sending" ELSE "done"]]
            /\ held' = held /\ worker' = [worker EXCEPT ![w] = "delivering"]
        BY <3>2 DEF FanOut
      <4> QED
        BY <4>1 DEF Carriers
    <3>3. CASE PollTimeout(w) \/ FinishEvent(w)
      <4>1. worker[w] \in {"polling", "delivering"} /\ stage[w][d] = "done"
        BY <3>3 DEF PollTimeout, FinishEvent, WorkersBusy
      <4>2. w \notin Carriers(e, d)
        BY <4>1 DEF Carriers
      <4> QED
        BY <3>3, <4>2 DEF PollTimeout, FinishEvent, Return, Carriers
    <3>4. ~ResolveNone(w)
      BY Untroubled DEF ResolveNone, CallFails
    <3> QED
      BY <1>2, <3>1, <3>2, <3>3, <3>4 DEF Work
  <2>4. dlq'[e] \in Nat /\ dlq[e] <= dlq'[e] /\ accepted'[e][d] = accepted[e][d]
    BY <2>1
  <2>5. UNCHANGED deliveryQ /\ Removing(e)' \subseteq Removing(e)
    BY <2>1, <2>2
  <2> QED
    BY <2>3, <2>4, <2>5, KeptQuiet
<1> QED
  BY <1>1, <1>2

LEMMA KeptDeliver ==
  ASSUME Conservation, Untouched, Untouched', [Next]_vars,
         NEW w \in Workers, NEW k \in Destinations, Deliver(w, k),
         NEW e \in Events, NEW d \in Destinations, Kept(e, d)
  PROVE  Kept(e, d)'
<1> USE DEF Conservation, TypeOK, StoresType, WorkersType, HistoryType
<1>1. proc = "up" /\ ~Fault /\ ~CallFails
  BY Untroubled DEF Deliver, Send, Record, Backoff, PushDLQ, InsertDead, At, Running, CallFails
<1>2. CASE PushDLQ(w, k)
  BY <1>1, <1>2, KeptBury DEF PushDLQ
<1>3. CASE ~PushDLQ(w, k)
  <2>1. UNCHANGED <<deliveryQ, dlq, request, held, worker>>
    BY <1>3 DEF Deliver, Send, Record, Backoff, InsertDead, stores
  <2>2. Removing(e)' = Removing(e) /\ dlq[e] \in Nat /\ dlq'[e] = dlq[e]
    BY <2>1 DEF Removing
  <2>3. accepted'[e][d] = 0 => accepted[e][d] = 0
    <3>1. CASE Send(w, k)
      <4>1. accepted[e][d] \in Nat /\ held[w] \in Events
        BY <3>1 DEF Send, At, WorkersBusy
      <4>2. accepted' = [accepted EXCEPT ![held[w]][k] = @ + 1] \/ accepted' = accepted
        BY <3>1, SendOutcome
      <4>3. CASE accepted' = [accepted EXCEPT ![held[w]][k] = @ + 1]
        <5>1. accepted'[e][d] >= accepted[e][d]
          BY <4>1, <4>3
        <5> QED
          BY <4>1, <5>1
      <4>4. CASE accepted' = accepted
        BY <4>4
      <4> QED
        BY <4>2, <4>3, <4>4
    <3> QED
      BY <1>3, <3>1 DEF Deliver, Record, Backoff, InsertDead, history
  <2>4. ASSUME accepted[e][d] = 0 PROVE Carriers(e, d) \subseteq Carriers(e, d)'
    <3>1. CASE Send(w, k)
      BY <2>1, <3>1 DEF Send, GoTo, Carriers
    <3>2. CASE Record(w, k)
      <4>1. held[w] = e /\ k = d => status[w][k] # "2xx"
        BY <2>4, <3>2 DEF AnswersCounted, Record, At
      <4>2. attempt[w][k] \in 1..MaxRetries /\ status[w][k] \in Outcomes
        OBVIOUS
      <4>3. PICK next \in {"done", "backoff", "pushing"} :
              /\ stage' = [stage EXCEPT ![w][k] = next]
              /\ next = "done" => status[w][k] = "2xx"
        BY <3>2, <4>2, VerdictType DEF Record, GoTo
      <4> QED
        BY <2>1, <4>1, <4>3 DEF Carriers
    <3>3. CASE Backoff(w, k)
      <4>1. stage' = [stage EXCEPT ![w][k] = "sending"]
        BY <1>1, <3>3 DEF Backoff, GoTo
      <4> QED
        BY <2>1, <4>1 DEF Carriers
    <3>4. CASE InsertDead(w, k)
      BY <2>1, <3>4 DEF InsertDead, At, GoTo, Carriers
    <3> QED
      BY <1>3, <3>1, <3>2, <3>3, <3>4 DEF Deliver
  <2>5. CASE accepted[e][d] = 0
    <3>1. UNCHANGED deliveryQ /\ Removing(e)' \subseteq Removing(e) /\ dlq'[e] \in Nat /\ dlq[e] <= dlq'[e]
      BY <2>1, <2>2
    <3> QED
      BY <2>3, <2>4, <2>5, <3>1, KeptQuiet
  <2>6. CASE accepted[e][d] # 0
    BY <2>3, <2>6 DEF Kept
  <2> QED
    BY <2>5, <2>6
<1> QED
  BY <1>2, <1>3

LEMMA KeptServe ==
  ASSUME NEW ds, TypeOK, FannedOut(ds), NEW c \in Clients, NEW e \in Events, NEW d \in Destinations,
         Serve(c) \/ \E f \in Events : FindForRetry(c, f), Kept(e, d), surplus = 0, surplus' = 0
  PROVE  Kept(e, d)'
<1> USE DEF TypeOK, StoresType, ControlType
<1>1. UNCHANGED <<accepted, workerState>> /\ dlq[e] \in Nat
  BY DEF Serve, RetryEnqueue, RemoveEntry, ResolveRows, FindForRetry, Begin, history
<1>2. Carriers(e, d)' = Carriers(e, d)
  BY <1>1 DEF Carriers, workerState
<1>3. CASE RemoveEntry(c)
  BY <1>3, KeptRemove DEF FannedOut
<1>4. CASE RetryEnqueue(c)
  <2>1. dlq' = dlq /\ request[c].step = "enqueue"
    BY <1>4 DEF RetryEnqueue
  <2>2. CASE Push(request[c].event) /\ Continue(c, "remove")
    <3>1. request[c].event \in Events
      BY <2>1 DEF Idle
    <3>2. Removing(e)' \subseteq Removing(e) \/ (request[c].event = e /\ Removing(e)' \subseteq Removing(e) \union {c})
      BY <2>2 DEF Continue, Removing
    <3> QED
      BY <1>1, <2>1, <2>2, <3>1, <3>2, KeptPush
  <2>3. CASE End(c) /\ UNCHANGED deliveryQ
    <3>1. Removing(e)' \subseteq Removing(e)
      BY <2>3 DEF End, Idle, Removing
    <3> QED
      BY <1>1, <1>2, <2>1, <2>3, <3>1, KeptQuiet
  <2> QED
    BY <1>4, <2>2, <2>3 DEF RetryEnqueue
<1>5. CASE ResolveRows(c) \/ \E f \in Events : FindForRetry(c, f)
  <2>1. UNCHANGED <<dlq, deliveryQ>>
    BY <1>5 DEF ResolveRows, FindForRetry, Begin, stores
  <2>2. Removing(e)' \subseteq Removing(e)
    <3>1. PICK r : request' = [request EXCEPT ![c] = r] /\ r.step # "remove"
      BY <1>5 DEF ResolveRows, FindForRetry, Begin, End, Idle
    <3> QED
      BY <3>1 DEF Removing
  <2>3. dlq'[e] \in Nat /\ dlq[e] <= dlq'[e] /\ (accepted'[e][d] = 0 => accepted[e][d] = 0)
    BY <1>1, <2>1
  <2>4. UNCHANGED deliveryQ /\ Carriers(e, d) \subseteq Carriers(e, d)'
    BY <1>2, <2>1
  <2> QED
    BY <2>2, <2>3, <2>4, KeptQuiet
<1> QED
  BY <1>3, <1>4, <1>5 DEF Serve

LEMMA KeptStep ==
  ASSUME NEW ds, Routes = {ds}, Conservation, RetriesCovered(ds), [Next]_vars, Untouched',
         NEW e \in Events, NEW d \in Destinations, <<e, d>> \in owed
  PROVE  Kept(e, d)'
<1>1. Untouched /\ FannedOut(ds) /\ Kept(e, d) /\ d \in ds
  BY Untroubled DEF RetriesCovered, FannedOut
<1> USE DEF Conservation, TypeOK, StoresType
<1>2. ASSUME NEW f \in Events, Push(f), UNCHANGED <<accepted, workerState, dlq, request>> PROVE Kept(e, d)'
  <2>1. Removing(e)' = Removing(e)
    BY <1>2 DEF Removing
  <2> QED
    BY <1>1, <1>2, <2>1, KeptPush
<1>3. ASSUME UNCHANGED <<accepted, workerState, dlq, request, deliveryQ>> PROVE Kept(e, d)'
  <2>1. Removing(e)' = Removing(e) /\ Carriers(e, d)' = Carriers(e, d) /\ dlq[e] \in Nat
    BY <1>3 DEF Removing, Carriers, workerState
  <2> QED
    BY <1>1, <1>3, <2>1, KeptQuiet
<1>4. ASSUME NEW f \in Events, Publish(f) PROVE Kept(e, d)'
  BY <1>2, <1>4 DEF Publish
<1>5. ASSUME NEW p \in incomplete, Requeue(p) PROVE Kept(e, d)'
  BY <1>2, <1>5 DEF Requeue, ControlType
<1>6. ASSUME Start \/ EndRecovery \/ UNCHANGED vars \/ \E p \in incomplete : SkipRow(p) PROVE Kept(e, d)'
  BY <1>3, <1>6 DEF Start, EndRecovery, SkipRow, vars, stores, history
<1>7. ASSUME NEW w \in Workers, Work(w) PROVE Kept(e, d)'
  BY <1>1, <1>7, KeptWork
<1>8. ASSUME NEW w \in Workers, NEW k \in Destinations, Deliver(w, k) PROVE Kept(e, d)'
  BY <1>1, <1>8, KeptDeliver
<1>9. ASSUME NEW c \in Clients, Serve(c) \/ \E f \in Events : FindForRetry(c, f) PROVE Kept(e, d)'
  BY <1>1, <1>9, KeptServe DEF Untouched
<1> QED
  BY <1>4, <1>5, <1>6, <1>7, <1>8, <1>9, Untroubled DEF Next, Recover, DequeueReplyLost

(* The first fan-out of an event finds no retry of it under way. *)
LEMMA KeptNew ==
  ASSUME NEW ds, Routes = {ds}, Conservation, RetriesCovered(ds), [Next]_vars, Untouched',
         NEW e \in Events, NEW d \in Destinations, <<e, d>> \in owed', <<e, d>> \notin owed
  PROVE  Kept(e, d)'
<1>1. Untouched /\ FannedOut(ds)
  BY Untroubled DEF RetriesCovered
<1> USE DEF Conservation, TypeOK, StoresType, WorkersType
<1>2. PICK w \in Workers : FanOut(w)
  <2>1. ASSUME NEW w \in Workers, Work(w), ~FanOut(w) PROVE owed' = owed
    BY <2>1 DEF Work, Dequeue, PollTimeout, StoreEvent, ResolveNone, FinishEvent, history
  <2>2. ASSUME NEW w \in Workers, NEW k \in Destinations, Deliver(w, k) PROVE owed' = owed
    BY <2>2 DEF Deliver, Send, Record, Backoff, PushDLQ, InsertDead, history
  <2> QED
    BY <2>1, <2>2 DEF Next, vars, history, Publish, DequeueReplyLost, Panic, Crash, Exit, Die, Shutdown,
       Start, Recover, EndRecovery, Requeue, SkipRow, Serve, RetryEnqueue, RemoveEntry, ResolveRows,
       FindForRetry, FindForDiscard, Begin
<1>3. e = held[w] /\ d \in ds /\ UNCHANGED <<deliveryQ, dlq, request, held>>
      /\ stage'[w][d] = "sending"
  BY <1>2 DEF FanOut, stores
<1>4. ~Asked(e, ds)
  BY <1>3 DEF Asked
<1>5. Removing(e)' = {}
  BY <1>1, <1>3, <1>4 DEF Removing, FannedOut
<1>6. w \in Carriers(e, d)' /\ Carriers(e, d)' \subseteq Workers
  BY <1>3 DEF Carriers
<1>7. IsFiniteSet(Carriers(e, d)') /\ Cardinality(Carriers(e, d)') \in Nat
  BY <1>6, FiniteAssumption, FS_Subset, FS_CardinalityType
<1>8. Cardinality(Carriers(e, d)') > 0
  BY <1>6, <1>7, FS_EmptySet
<1>9. Cardinality(Removing(e)') = 0 /\ Cardinality(Occurrences(deliveryQ', e)) \in Nat /\ dlq'[e] \in Nat
  BY <1>3, <1>5, FS_EmptySet, OccurrencesFinite
<1> QED
  BY <1>7, <1>8, <1>9 DEF Kept

(* An operator's retry never loses an event: with a constant set of        *)
(* destinations, and while no store call of the process fails and no LREM  *)
(* takes out more than the one entry handleRetryDLQ asked for, overlapping *)
(* or failing retries leave what is not accepted in the queue, with a      *)
(* worker or in the dead letter list, for any number of requests.          *)
THEOREM RetriesKeepEvents ==
  ASSUME NEW ds, Routes = {ds} PROVE Spec => []RetryKeepsEvent
<1>1. Init => RetriesCovered(ds)
  BY DEF Init, RetriesCovered, FannedOut, Idle
<1>2. Conservation /\ RetriesCovered(ds) /\ [Next]_vars => RetriesCovered(ds)'
  <2> SUFFICES ASSUME Conservation, RetriesCovered(ds), [Next]_vars, Untouched'
               PROVE  FannedOut(ds)' /\ \A p \in owed' : Kept(p[1], p[2])'
    BY DEF RetriesCovered
  <2>1. FannedOut(ds)'
    BY FannedOutStep
  <2>2. ASSUME NEW p \in owed' PROVE Kept(p[1], p[2])'
    <3>1. p[1] \in Events /\ p[2] \in Destinations /\ p = <<p[1], p[2]>>
      BY NextConservation DEF Conservation, TypeOK, HistoryType
    <3> QED
      BY <2>2, <3>1, KeptStep, KeptNew
  <2> QED
    BY <2>1, <2>2
<1>3. Conservation /\ RetriesCovered(ds) => RetryKeepsEvent
  <2> SUFFICES ASSUME Conservation, RetriesCovered(ds), Untouched, NEW p \in owed,
                      ~(accepted[p[1]][p[2]] > 0), ~(dlq[p[1]] > 0), ~Queued(p[1])
               PROVE  Held(p[1])
    BY DEF RetryKeepsEvent, RetryLosesNothing, Untouched
  <2> DEFINE e == p[1]
             d == p[2]
  <2> USE DEF Conservation, TypeOK, StoresType, HistoryType
  <2>1. e \in Events /\ d \in Destinations /\ Kept(e, d)
    BY DEF RetriesCovered
  <2>2. accepted[e][d] = 0 /\ dlq[e] = 0
    BY <2>1
  <2>3. Cardinality(Occurrences(deliveryQ, e)) = 0
    BY FS_EmptySet DEF Occurrences, Queued
  <2>4. Cardinality(Removing(e)) \in Nat /\ Cardinality(Carriers(e, d)) \in Nat
    BY RemovingFinite, CarriersFinite
  <2>5. Cardinality(Carriers(e, d)) # 0
    BY <2>1, <2>2, <2>3, <2>4 DEF Kept
  <2>6. Carriers(e, d) # {}
    BY <2>5, FS_EmptySet
  <2> QED
    BY <2>6 DEF Carriers, Held
<1>4. Spec => []Conservation
  BY InitConservation, NextConservation, PTL DEF Spec
<1> QED
  BY <1>1, <1>2, <1>3, <1>4, PTL DEF Spec

=============================================================================
