------------------------------ MODULE Delivery ------------------------------
(***************************************************************************)
(* The delivery engine (internal/delivery/engine.go, cmd/delivery) with    *)
(* the stores it shares with the API's dead letter handlers                *)
(* (internal/api/handlers_dashboard.go): the Redis delivery queue and DLQ  *)
(* list, the Postgres tables delivery_attempts and dead_letter_queue, and  *)
(* the Scylla event store.                                                 *)
(*                                                                         *)
(* Every call on a store or a destination is one step, so that workers,    *)
(* API requests, a crash or a shutdown may come between any two of them.   *)
(***************************************************************************)
EXTENDS Naturals, Sequences, FiniteSets

CONSTANTS
    Events,        \* event ids
    NoEvent,       \* what an idle worker or request holds
    Destinations,
    Workers,       \* goroutines started by Engine.Run
    Clients,       \* API requests being served at the same time
    Routes,        \* the destination sets routing may resolve an event to
    MaxRetries,    \* DELIVERY_MAX_RETRIES
    NumDelays,     \* len(retryDelays)
    AttemptLimit,  \* the attempt_number bound GetIncompleteDeliveries hard-codes
    Repeats,       \* times go-redis sends a command again whose reply was lost
    MaxFaults,     \* bound: store calls of the delivery process that fail
    MaxAPIFaults,  \* bound: store calls of the API that fail
    MaxOutages,    \* bound: crashes and shutdowns of the delivery process
    MaxPushes,     \* bound: pushes of an event beyond which recovery passes it over
    MaxRequests    \* bound: API requests served

ASSUME NoEventAssumption  == NoEvent \notin Events
ASSUME RoutesAssumption   == Routes \subseteq SUBSET Destinations
ASSUME RetriesAssumption  == MaxRetries \in Nat \ {0} /\ NumDelays \in Nat /\ AttemptLimit \in Nat
ASSUME FiniteAssumption   == IsFiniteSet(Workers) /\ IsFiniteSet(Clients) /\ IsFiniteSet(Destinations)
ASSUME BoundsAssumption   == MaxFaults \in Nat /\ MaxAPIFaults \in Nat /\ MaxOutages \in Nat
                            /\ MaxPushes \in Nat /\ MaxRequests \in Nat /\ Repeats \in Nat

VARIABLES
    proc,        \* the delivery process: "down", "recovering", "up" or "stopping"
    deliveryQ,   \* Redis list webhookmind:queue:delivery
    dlq,         \* Redis list webhookmind:dlq, as a bag of events
    eventLog,    \* Scylla: events written for recovery
    attempts,    \* Postgres delivery_attempts
    deadRows,    \* Postgres dead_letter_queue
    worker,      \* where each worker is in the loop of Run and in deliverEvent
    held,        \* the event a worker popped
    stage,       \* where each goroutine of the fan-out is in deliverToDestination
    attempt,     \* its loop counter
    status,      \* the outcome of its last request
    incomplete,  \* rows RecoverIncomplete has still to look at
    request,     \* the next step of each API request, and its event
    pushes,      \* history: times an event was pushed on the delivery queue
    accepted,    \* history: 2xx answers of a destination to an event that were heard
    unheard,     \* history: copies a destination took although the request failed
    owed,        \* history: <<event, destination>> pairs that routing asked for
    faults, apiFaults, outages,
    surplus,            \* history: dead letter entries a repeated LREM took out
    retries, discards   \* requests served so far

stores      == <<deliveryQ, dlq, eventLog, attempts, deadRows>>
workerState == <<worker, held, stage, attempt, status>>
history     == <<pushes, accepted, unheard, owed>>
apiBounds   == <<apiFaults, surplus, retries, discards>>
bounds      == <<faults, outages, apiBounds>>
vars        == <<proc, stores, workerState, incomplete, request, history, bounds>>

Outcomes == {"2xx", "4xx", "other"}   \* "other": 5xx, a transport error, a timeout

Stages   == {"done", "backoff", "sending", "recording", "pushing", "inserting"}
Phases   == {"polling", "storing", "routing", "delivering", "stopped"}
Idle     == [step |-> "none", event |-> NoEvent]   \* no request

StoresType ==
    /\ deliveryQ \in Seq(Events)
    /\ dlq \in [Events -> Nat]
    /\ eventLog \subseteq Events
    /\ attempts \subseteq [event: Events, dest: Destinations, number: 1..MaxRetries, outcome: Outcomes]
    /\ deadRows \subseteq [event: Events, dest: Destinations, resolved: BOOLEAN]

WorkersType ==
    /\ worker  \in [Workers -> Phases]
    /\ held    \in [Workers -> Events \union {NoEvent}]
    /\ stage   \in [Workers -> [Destinations -> Stages]]
    /\ attempt \in [Workers -> [Destinations -> 1..MaxRetries]]
    /\ status  \in [Workers -> [Destinations -> Outcomes]]

(* A worker past Dequeue holds an event, and only a worker that waits for  *)
(* its fan-out has goroutines at work.                                     *)
WorkersBusy ==
    \A w \in Workers :
        /\ worker[w] \in {"storing", "routing", "delivering"} => held[w] \in Events
        /\ \A d \in Destinations : stage[w][d] # "done" => worker[w] = "delivering"

ControlType ==
    /\ proc \in {"down", "recovering", "up", "stopping"}
    /\ incomplete \subseteq Events \X Destinations
    /\ request \in [Clients -> {Idle} \union
           [step: {"enqueue", "remove", "resolve", "drop", "close"}, event: Events]]

HistoryType ==
    /\ pushes \in [Events -> Nat]
    /\ accepted \in [Events -> [Destinations -> Nat]]
    /\ unheard \in [Events -> [Destinations -> Nat]]
    /\ owed \subseteq Events \X Destinations

BoundsType ==
    /\ faults \in 0..MaxFaults /\ apiFaults \in 0..MaxAPIFaults /\ outages \in Nat
    /\ surplus \in Nat /\ retries \in 0..MaxRequests /\ discards \in 0..MaxRequests

TypeOK == StoresType /\ WorkersType /\ WorkersBusy /\ ControlType /\ HistoryType /\ BoundsType

-----------------------------------------------------------------------------
(* A store call of the delivery process fails on a transient fault, and    *)
(* always once the context is cancelled. *)

Fault == faults < MaxFaults /\ faults' = faults + 1

CallSucceeds == proc = "up" /\ UNCHANGED faults
CallFails    == \/ proc = "stopping" /\ UNCHANGED faults
                \/ proc = "up" /\ Fault

Push(e) == /\ deliveryQ' = Append(deliveryQ, e)
           /\ pushes' = [pushes EXCEPT ![e] = @ + 1]

(* Queue.Enqueue of the orchestrator or of the extractor bridge. *)
Publish(e) ==
    /\ pushes[e] = 0
    /\ Push(e)
    /\ UNCHANGED <<proc, dlq, eventLog, attempts, deadRows, workerState, incomplete, request,
                   accepted, unheard, owed, bounds>>

-----------------------------------------------------------------------------
(* Run and deliverEvent *)

(* Definitions that no action uses, such as DequeuePeeks, are variants one  *)
(* slip away from the definition they stand before.                        *)

Running == proc \in {"up", "stopping"}

(* A worker back at the top of its loop polls again unless the context is cancelled. *)
Return(w) ==
    /\ worker' = [worker EXCEPT ![w] = IF proc = "up" THEN "polling" ELSE "stopped"]
    /\ held' = [held EXCEPT ![w] = NoEvent]

DequeuePeeks(w) ==
    /\ Running /\ worker[w] = "polling" /\ deliveryQ # <<>>
    /\ held' = [held EXCEPT ![w] = Head(deliveryQ)]
    /\ worker' = [worker EXCEPT ![w] = "storing"]
    /\ UNCHANGED <<proc, stores, stage, attempt, status, incomplete, request, history, bounds>>

(* A worker that is blocked in BLPOP still gets an event that arrives after *)
(* the context is cancelled. *)
Dequeue(w) ==
    /\ Running /\ worker[w] = "polling" /\ deliveryQ # <<>>
    /\ deliveryQ' = Tail(deliveryQ)
    /\ held' = [held EXCEPT ![w] = Head(deliveryQ)]
    /\ worker' = [worker EXCEPT ![w] = "storing"]
    /\ UNCHANGED <<proc, dlq, eventLog, attempts, deadRows, stage, attempt, status, incomplete,
                   request, history, bounds>>

(* BLPOP removed the event but its reply was lost. *)
DequeueReplyLost(w) ==
    /\ proc = "up" /\ worker[w] = "polling" /\ deliveryQ # <<>>
    /\ Fault
    /\ deliveryQ' = Tail(deliveryQ)
    /\ UNCHANGED <<proc, dlq, eventLog, attempts, deadRows, workerState, incomplete, request,
                   history, outages, apiBounds>>

(* BLPOP timed out, or the worker saw the cancelled context at the top of its loop. *)
PollTimeout(w) ==
    /\ Running /\ worker[w] = "polling"
    /\ proc = "stopping" \/ deliveryQ = <<>>
    /\ Return(w)
    /\ UNCHANGED <<proc, stores, stage, attempt, status, incomplete, request, history, bounds>>

(* scylla.InsertEvent takes no context; its error is logged and tolerated. *)
StoreEvent(w) ==
    /\ Running /\ worker[w] = "storing"
    /\ \/ eventLog' = eventLog \union {held[w]} /\ UNCHANGED faults
       \/ Fault /\ UNCHANGED eventLog
    /\ worker' = [worker EXCEPT ![w] = "routing"]
    /\ UNCHANGED <<proc, deliveryQ, dlq, attempts, deadRows, held, stage, attempt, status,
                   incomplete, request, history, outages, apiBounds>>

(* ResolveDestinations, then one goroutine per destination. *)
FanOut(w) ==
    /\ worker[w] = "routing" /\ CallSucceeds
    /\ \E ds \in Routes \ {{}} :
          /\ stage' = [stage EXCEPT ![w] = [d \in Destinations |-> IF d \in ds THEN "sending" ELSE "done"]]
          /\ owed' = owed \union ({held[w]} \X ds)
    /\ worker' = [worker EXCEPT ![w] = "delivering"]
    /\ UNCHANGED <<proc, stores, held, attempt, status, incomplete, request, pushes, accepted,
                   unheard, outages, apiBounds>>

(* No active destination, or the lookup failed: deliverEvent returns. *)
ResolveNone(w) ==
    /\ worker[w] = "routing"
    /\ \/ CallSucceeds /\ {} \in Routes
       \/ CallFails
    /\ Return(w)
    /\ UNCHANGED <<proc, stores, stage, attempt, status, incomplete, request, history, outages, apiBounds>>

FinishEventNoWait(w) ==
    /\ Running /\ worker[w] = "delivering"
    /\ Return(w)
    /\ stage' = [stage EXCEPT ![w] = [d \in Destinations |-> "done"]]
    /\ UNCHANGED <<proc, stores, attempt, status, incomplete, request, history, bounds>>

(* wg.Wait: the worker goes on when every destination is done. *)
FinishEvent(w) ==
    /\ Running /\ worker[w] = "delivering"
    /\ \A d \in Destinations : stage[w][d] = "done"
    /\ Return(w)
    /\ attempt' = [attempt EXCEPT ![w] = [d \in Destinations |-> 1]]
    /\ UNCHANGED <<proc, stores, stage, status, incomplete, request, history, bounds>>

-----------------------------------------------------------------------------
(* deliverToDestination and moveToDLQ *)

At(w, d, s)   == Running /\ stage[w][d] = s
GoTo(w, d, s) == stage' = [stage EXCEPT ![w][d] = s]

(* attemptDelivery. The answer may be lost, late, or cut off by a cancelled *)
(* context: the request has failed, but the destination may have taken the  *)
(* event.                                                                   *)
Send(w, d) ==
    /\ At(w, d, "sending")
    /\ \/ /\ \E o \in IF proc = "up" THEN Outcomes ELSE {"other"} :
                /\ status' = [status EXCEPT ![w][d] = o]
                /\ accepted' = IF o = "2xx" THEN [accepted EXCEPT ![held[w]][d] = @ + 1] ELSE accepted
          /\ UNCHANGED unheard
       \/ /\ status' = [status EXCEPT ![w][d] = "other"]
          /\ unheard' = [unheard EXCEPT ![held[w]][d] = @ + 1]
          /\ UNCHANGED accepted
    /\ GoTo(w, d, "recording")
    /\ UNCHANGED <<proc, stores, worker, held, attempt, incomplete, request, pushes, owed, bounds>>

VerdictOneTooMany(n, o) == CASE o = "2xx" -> "done"
                             [] o = "4xx" -> "pushing"
                             [] OTHER     -> IF n <= MaxRetries THEN "backoff" ELSE "pushing"

VerdictOneTooFew(n, o) == CASE o = "2xx" -> "done"
                            [] o = "4xx" -> "pushing"
                            [] OTHER     -> IF n + 1 < MaxRetries THEN "backoff" ELSE "pushing"

VerdictTableOnly(n, o) == CASE o = "2xx"                     -> "done"
                            [] o = "4xx"                     -> "inserting"
                            [] o = "other" /\ n < MaxRetries -> "backoff"
                            [] OTHER                         -> "pushing"

VerdictForgets(n, o) == CASE o = "4xx"                     -> "pushing"
                          [] o = "other" /\ n < MaxRetries -> "backoff"
                          [] OTHER                         -> "done"

(* Where the loop goes after attempt n ended with outcome o. *)
Verdict(n, o) == CASE o = "2xx"                     -> "done"
                   [] o = "other" /\ n < MaxRetries -> "backoff"
                   [] OTHER                         -> "pushing"

(* InsertDeliveryAttempt, whose error is tolerated, then the verdict. *)
Record(w, d) ==
    /\ At(w, d, "recording")
    /\ \/ /\ CallSucceeds
          /\ attempts' = attempts \union {[event |-> held[w], dest |-> d,
                                           number |-> attempt[w][d], outcome |-> status[w][d]]}
       \/ CallFails /\ UNCHANGED attempts
    /\ LET next == Verdict(attempt[w][d], status[w][d])
       IN /\ GoTo(w, d, next)
          /\ attempt' = IF next = "backoff" THEN [attempt EXCEPT ![w][d] = @ + 1] ELSE attempt
          /\ status' = [status EXCEPT ![w][d] = "other"]
    /\ UNCHANGED <<proc, deliveryQ, dlq, eventLog, deadRows, worker, held, incomplete, request,
                   history, outages, apiBounds>>

BackoffOffByOne(w, d) ==
    /\ At(w, d, "backoff") /\ attempt[w][d] < NumDelays
    /\ GoTo(w, d, "sending")
    /\ UNCHANGED <<proc, stores, worker, held, attempt, status, incomplete, request, history, bounds>>

(* The delay of attempt n is retryDelays[n-1]. *)
Backoff(w, d) ==
    /\ At(w, d, "backoff") /\ attempt[w][d] <= NumDelays
    /\ \/ GoTo(w, d, "sending")
       \/ proc = "stopping" /\ GoTo(w, d, "done")
    /\ UNCHANGED <<proc, stores, worker, held, attempt, status, incomplete, request, history, bounds>>

(* moveToDLQ, first half: the Redis list. *)
PushDLQ(w, d) ==
    /\ At(w, d, "pushing")
    /\ \/ CallSucceeds /\ dlq' = [dlq EXCEPT ![held[w]] = @ + 1]
       \/ CallFails /\ UNCHANGED dlq
    /\ GoTo(w, d, "inserting")
    /\ UNCHANGED <<proc, deliveryQ, eventLog, attempts, deadRows, worker, held, attempt, status,
                   incomplete, request, history, outages, apiBounds>>

(* moveToDLQ, second half: the Postgres row. *)
InsertDead(w, d) ==
    /\ At(w, d, "inserting")
    /\ \/ /\ CallSucceeds
          /\ deadRows' = deadRows \union {[event |-> held[w], dest |-> d, resolved |-> FALSE]}
       \/ CallFails /\ UNCHANGED deadRows
    /\ GoTo(w, d, "done")
    /\ UNCHANGED <<proc, deliveryQ, dlq, eventLog, attempts, worker, held, attempt, status,
                   incomplete, request, history, outages, apiBounds>>

-----------------------------------------------------------------------------
(* Outages, restart and RecoverIncomplete *)

Outage == outages < MaxOutages /\ outages' = outages + 1

(* Everything the process had in memory is gone. *)
Die ==
    /\ proc' = "down"
    /\ worker' = [w \in Workers |-> "polling"]
    /\ held' = [w \in Workers |-> NoEvent]
    /\ stage' = [w \in Workers |-> [d \in Destinations |-> "done"]]
    /\ attempt' = [w \in Workers |-> [d \in Destinations |-> 1]]
    /\ status' = [w \in Workers |-> [d \in Destinations |-> "other"]]
    /\ incomplete' = {}
    /\ UNCHANGED <<stores, request, history, faults, apiBounds>>

Crash == proc # "down" /\ Outage /\ Die

(* retryDelays[attempt-1] is out of range: the panic ends the process. *)
Panic(w, d) ==
    /\ At(w, d, "backoff") /\ attempt[w][d] > NumDelays
    /\ outages' = outages + 1
    /\ Die

(* SIGTERM cancels the context of the running engine. *)
Shutdown ==
    /\ proc = "up" /\ Outage
    /\ proc' = "stopping"
    /\ UNCHANGED <<stores, workerState, incomplete, request, history, faults, apiBounds>>

(* main returns when every worker has. *)
Exit ==
    /\ proc = "stopping" /\ \A w \in Workers : worker[w] = "stopped"
    /\ UNCHANGED outages
    /\ Die

Success(a) == a.outcome = "2xx"

IncompleteIgnoringResolved ==
    { p \in Events \X Destinations :
        /\ \E a \in attempts : a.event = p[1] /\ a.dest = p[2] /\ ~Success(a) /\ a.number < AttemptLimit
        /\ ~\E a \in attempts : a.event = p[1] /\ Success(a)
        /\ ~\E r \in deadRows : r.event = p[1] /\ ~r.resolved }

(* The query of GetIncompleteDeliveries. *)
IncompleteDeliveries ==
    { p \in Events \X Destinations :
        /\ \E a \in attempts : a.event = p[1] /\ a.dest = p[2] /\ ~Success(a) /\ a.number < AttemptLimit
        /\ ~\E a \in attempts : a.event = p[1] /\ Success(a)
        /\ ~\E r \in deadRows : r.event = p[1] }

(* The process starts (again) and runs the query; if it fails, nothing is recovered. *)
Start ==
    /\ proc = "down"
    /\ proc' = "recovering"
    /\ \/ incomplete' = IncompleteDeliveries /\ UNCHANGED faults
       \/ incomplete' = {} /\ Fault
    /\ UNCHANGED <<stores, workerState, request, history, outages, apiBounds>>

(* One row: the whole event is pushed back, once for every such row. *)
Requeue(p) ==
    /\ proc = "recovering" /\ p \in incomplete
    /\ p[1] \in eventLog /\ pushes[p[1]] < MaxPushes
    /\ incomplete' = incomplete \ {p}
    /\ Push(p[1])
    /\ UNCHANGED <<proc, dlq, eventLog, attempts, deadRows, workerState, request, accepted,
                   unheard, owed, bounds>>

(* One row passed over: its backoff has not elapsed, or a store call failed. *)
SkipRow(p) ==
    /\ proc = "recovering" /\ p \in incomplete
    /\ incomplete' = incomplete \ {p}
    /\ UNCHANGED <<proc, stores, workerState, request, history, bounds>>

EndRecovery ==
    /\ proc = "recovering" /\ incomplete = {}
    /\ proc' = "up"
    /\ UNCHANGED <<stores, workerState, incomplete, request, history, bounds>>

-----------------------------------------------------------------------------
(* handleRetryDLQ and handleDiscardDLQ, in the API process *)

APIFault == apiFaults < MaxAPIFaults /\ apiFaults' = apiFaults + 1

Begin(c, e, s) ==
    /\ request[c] = Idle /\ retries + discards < MaxRequests
    /\ request' = [request EXCEPT ![c] = [step |-> s, event |-> e]]
    /\ UNCHANGED <<proc, stores, workerState, incomplete, history, faults, apiFaults, surplus,
                   outages>>

Continue(c, s) == request' = [request EXCEPT ![c].step = s]
End(c)         == request' = [request EXCEPT ![c] = Idle]

(* FindDLQEntry decides; a retry of an event that is not listed changes nothing. *)
FindForRetry(c, e) ==
    /\ dlq[e] > 0
    /\ Begin(c, e, "enqueue")
    /\ retries' = retries + 1 /\ UNCHANGED discards

FindForDiscard(c, e) ==
    /\ Begin(c, e, IF dlq[e] > 0 THEN "drop" ELSE "close")
    /\ discards' = discards + 1 /\ UNCHANGED retries

RetryEnqueue(c) ==
    /\ request[c].step = "enqueue"
    /\ \/ Push(request[c].event) /\ Continue(c, "remove") /\ UNCHANGED apiFaults
       \/ APIFault /\ End(c) /\ UNCHANGED <<deliveryQ, pushes>>
    /\ UNCHANGED <<proc, dlq, eventLog, attempts, deadRows, workerState, incomplete, accepted,
                   unheard, owed, faults, outages, surplus, retries, discards>>

TakeOut(e, n) == dlq' = [dlq EXCEPT ![e] = IF @ > n THEN @ - n ELSE 0]

RemoveEvery(c) ==
    /\ \/ request[c].step = "remove" /\ Continue(c, "resolve")
       \/ request[c].step = "drop" /\ Continue(c, "close")
    /\ \/ TakeOut(request[c].event, dlq[request[c].event]) /\ UNCHANGED apiFaults
       \/ APIFault /\ UNCHANGED dlq
    /\ UNCHANGED <<proc, deliveryQ, eventLog, attempts, deadRows, workerState, incomplete, history,
                   faults, outages, surplus, retries, discards>>

(* RemoveDLQEntry takes one occurrence out; its error is ignored. LREM has  *)
(* the entry's text: when its reply is lost, go-redis sends it again, and   *)
(* it takes out another entry of the event.                                 *)
RemoveEntry(c) ==
    /\ \/ request[c].step = "remove" /\ Continue(c, "resolve")
       \/ request[c].step = "drop" /\ Continue(c, "close")
    /\ \/ TakeOut(request[c].event, 1) /\ UNCHANGED <<apiFaults, surplus>>
       \/ APIFault /\ UNCHANGED <<dlq, surplus>>
       \/ \E n \in 1..Repeats :
             /\ APIFault
             /\ TakeOut(request[c].event, n + 1)
             /\ surplus' = surplus + n
    /\ UNCHANGED <<proc, deliveryQ, eventLog, attempts, deadRows, workerState, incomplete, history,
                   faults, outages, retries, discards>>

(* ResolveDLQEntry closes every open row of the event, whatever its destination. *)
ResolveRows(c) ==
    /\ request[c].step \in {"resolve", "close"}
    /\ \/ /\ deadRows' = { IF r.event = request[c].event THEN [r EXCEPT !.resolved = TRUE] ELSE r :
                           r \in deadRows }
          /\ UNCHANGED apiFaults
       \/ APIFault /\ UNCHANGED deadRows
    /\ End(c)
    /\ UNCHANGED <<proc, deliveryQ, dlq, eventLog, attempts, workerState, incomplete, history,
                   faults, outages, surplus, retries, discards>>

-----------------------------------------------------------------------------
Init ==
    /\ proc = "down"
    /\ deliveryQ = <<>>
    /\ dlq = [e \in Events |-> 0]
    /\ eventLog = {} /\ attempts = {} /\ deadRows = {}
    /\ worker = [w \in Workers |-> "polling"]
    /\ held = [w \in Workers |-> NoEvent]
    /\ stage = [w \in Workers |-> [d \in Destinations |-> "done"]]
    /\ attempt = [w \in Workers |-> [d \in Destinations |-> 1]]
    /\ status = [w \in Workers |-> [d \in Destinations |-> "other"]]
    /\ incomplete = {}
    /\ request = [c \in Clients |-> Idle]
    /\ pushes = [e \in Events |-> 0]
    /\ accepted = [e \in Events |-> [d \in Destinations |-> 0]]
    /\ unheard = [e \in Events |-> [d \in Destinations |-> 0]]
    /\ owed = {}
    /\ faults = 0 /\ apiFaults = 0 /\ outages = 0
    /\ surplus = 0 /\ retries = 0 /\ discards = 0

Deliver(w, d) == Send(w, d) \/ Record(w, d) \/ Backoff(w, d) \/ PushDLQ(w, d) \/ InsertDead(w, d)

Work(w) == Dequeue(w) \/ PollTimeout(w) \/ StoreEvent(w) \/ FanOut(w) \/ ResolveNone(w) \/ FinishEvent(w)

Recover == EndRecovery \/ \E p \in incomplete : Requeue(p) \/ SkipRow(p)

Serve(c) == RetryEnqueue(c) \/ RemoveEntry(c) \/ ResolveRows(c)

Next ==
    \/ \E e \in Events : Publish(e)
    \/ \E w \in Workers : Work(w) \/ DequeueReplyLost(w)
    \/ \E w \in Workers, d \in Destinations : Deliver(w, d) \/ Panic(w, d)
    \/ Crash \/ Shutdown \/ Exit \/ Start \/ Recover
    \/ \E c \in Clients : Serve(c) \/ \E e \in Events : FindForRetry(c, e) \/ FindForDiscard(c, e)

Spec == Init /\ [][Next]_vars

(* Goroutines and requests keep running, every HTTP request ends by its    *)
(* timeout, and docker-compose restarts a process that stopped.            *)
Fairness ==
    /\ \A w \in Workers : WF_vars(Work(w)) /\ \A d \in Destinations : WF_vars(Deliver(w, d))
    /\ \A c \in Clients : WF_vars(Serve(c))
    /\ WF_vars(Start) /\ WF_vars(Recover) /\ WF_vars(Exit)

FairSpec == Spec /\ Fairness

-----------------------------------------------------------------------------
(* Properties *)

(* No store call of the process failed, and it never stopped. *)
Undisturbed == faults = 0 /\ outages = 0

Queued(e)      == \E i \in 1..Len(deliveryQ) : deliveryQ[i] = e
Held(e)        == \E w \in Workers : held[w] = e
InFlight(e, d) == \E w \in Workers : held[w] = e /\ stage[w][d] # "done"
Buried(e, d)   == \E r \in deadRows : r.event = e /\ r.dest = d
Settled(e, d)  == accepted[e][d] > 0 \/ Buried(e, d)

(* Conservation of work: as long as nothing fails, every delivery that     *)
(* deliverEvent fanned out is accepted, has a dead_letter_queue row, or is *)
(* still in the hands of a goroutine of a worker that waits for it.        *)
NothingVanishes ==
    Undisturbed => \A p \in owed : Settled(p[1], p[2]) \/ InFlight(p[1], p[2])

(* deliverToDestination gives a delivery up only after a recorded 4xx or   *)
(* after a recorded failure of attempt MaxRetries, whatever crashes,       *)
(* shutdowns and recoveries came in between.                               *)
GivenUp(e, d) ==
    \E a \in attempts :
        /\ a.event = e /\ a.dest = d
        /\ a.outcome = "4xx" \/ (a.outcome = "other" /\ a.number = MaxRetries)

NoPrematureBurial == faults = 0 => \A r \in deadRows : GivenUp(r.event, r.dest)

(* moveToDLQ writes Redis first: until an operator acts, every destination *)
(* with a dead_letter_queue row has its own entry in the Redis list, which *)
(* is the only place handleRetryDLQ looks in; a crash cannot part them.    *)
RowBackedByList ==
    faults = 0 /\ retries = 0 /\ discards = 0 =>
        \A e \in Events : Cardinality({d \in Destinations : Buried(e, d)}) <= dlq[e]

(* Duplicates are bounded, whatever crashes, retries and recoveries come    *)
(* between: for each time an event was put on the delivery queue, by its    *)
(* producer, by a retry request or by RecoverIncomplete, a 2xx ends the     *)
(* deliveries to a destination that hears it, and a destination whose       *)
(* answers are lost takes MaxRetries copies at most.                        *)
DuplicatesBounded ==
    \A e \in Events, d \in Destinations :
        /\ accepted[e][d] <= pushes[e]
        /\ accepted[e][d] + unheard[e][d] <= MaxRetries * pushes[e]

(* What handlers_dashboard.go:135-136 says of a retry whose cleanup fails:  *)
(* the event is not lost, because it is back in the delivery queue. An      *)
(* unaccepted event is in the queue, with a worker, or in the DLQ list.     *)
(* (For a constant set of destinations: a routing rule changed between the  *)
(* push and the retry may drop one.)                                        *)
RetryLosesNothing ==
    Undisturbed /\ discards = 0 =>
        \A p \in owed : accepted[p[1]][p[2]] > 0 \/ dlq[p[1]] > 0 \/ Queued(p[1]) \/ Held(p[1])

(* handleRetryDLQ re-enqueues before it removes: however requests overlap   *)
(* or fail half way, the event is kept, as long as each LREM takes out one  *)
(* entry, for each had one pushed.                                          *)
RetryKeepsEvent == surplus = 0 => RetryLosesNothing

Unsettled(e) == ~(\E a \in attempts : a.event = e /\ Success(a)) /\ ~(\E r \in deadRows : r.event = e)

(* RecoverIncomplete works on a snapshot; what it pushes back never was    *)
(* delivered or dead-lettered, also when operators resolve rows meanwhile. *)
RecoveryLeavesSettledAlone ==
    [][ proc = "recovering" /\ incomplete' # incomplete /\ deliveryQ' # deliveryQ =>
            Unsettled(deliveryQ'[Len(deliveryQ')]) ]_vars

(* Every event that was pushed leaves the queue and its worker, however    *)
(* the process was stopped and restarted.                                  *)
EventsComeToRest == \A e \in Events : []<>(~Queued(e) /\ ~Held(e))

(* Without a fault every delivery that was fanned out ends by a 2xx or in  *)
(* the dead letter table.                                                  *)
OwedIsSettled ==
    \A e \in Events, d \in Destinations :
        <<e, d>> \in owed ~> (Settled(e, d) \/ ~Undisturbed)

(* What postgres.go:113-114 says of GetIncompleteDeliveries, per pair of   *)
(* event and destination: a pair whose attempts failed with retries        *)
(* remaining, and that is not dead-lettered, is found.                      *)
QueryFindsUnfinished ==
    proc = "down" => \A p \in Events \X Destinations :
        LET own == {a \in attempts : a.event = p[1] /\ a.dest = p[2]}
        IN own # {} /\ (\A a \in own : ~Success(a) /\ a.number < MaxRetries) /\ ~Buried(p[1], p[2])
               => p \in IncompleteDeliveries

-----------------------------------------------------------------------------
(* What the invariants above need to be inductive *)

(* A 2xx that is about to be recorded has been given. *)
AnswersCounted ==
    \A w \in Workers, d \in Destinations :
        stage[w][d] = "recording" /\ status[w][d] = "2xx" => accepted[held[w]][d] > 0

(* The context is cancelled only by an outage. *)
CancelledByOutage == proc = "stopping" => outages > 0

Conservation == TypeOK /\ AnswersCounted /\ CancelledByOutage /\ NothingVanishes

(* A goroutine in moveToDLQ has recorded why, unless stores fail it. *)
BurialsJustified ==
    faults = 0 /\ proc # "stopping" =>
        \A w \in Workers, d \in Destinations :
            stage[w][d] \in {"pushing", "inserting"} => GivenUp(held[w], d)

Burial == TypeOK /\ BurialsJustified /\ NoPrematureBurial

(* While RecoverIncomplete runs no worker does, so its snapshot stays true. *)
SnapshotHolds ==
    /\ \A p \in incomplete : Unsettled(p[1])
    /\ proc # "recovering" => incomplete = {}

=============================================================================
