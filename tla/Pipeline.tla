------------------------------ MODULE Pipeline ------------------------------
(***************************************************************************)
(* From the ingestion endpoint to the delivery queue: the handler of       *)
(* internal/ingestion, the worker pools of cmd/orchestrator and of         *)
(* cmd/extractor-bridge with their scalers, and the Redis lists between    *)
(* them. Between its pop and its push an event is only in the memory of    *)
(* one worker. Every call on a store or a server is one step. A definition *)
(* called a variant is not part of Next: it is a change of the one after   *)
(* it, there to show that a property notices.                              *)
(***************************************************************************)
EXTENDS Naturals, Sequences

CONSTANTS
    Events,       \* requests to the endpoint, one event each
    FileEvents,   \* those whose payload has a file_url
    Nothing,      \* what an idle worker holds
    InitialWorkers, MaxWorkers,   \* of each pool, from the configuration
    Batch,        \* workers a scaler adds at a time (10 in the code)
    Threshold,    \* queue depth above which it does
    MaxFaults,    \* bound: store calls that fail
    MaxOutages    \* bound: crashes and shutdowns

ASSUME EventsAssumption == FileEvents \subseteq Events
ASSUME PoolAssumption   == /\ InitialWorkers \in Nat /\ MaxWorkers \in Nat
                           /\ Batch \in Nat /\ Threshold \in Nat
ASSUME BoundsAssumption == MaxFaults \in Nat /\ MaxOutages \in Nat

(* An event in a queue or a worker, and whether its body has the key       *)
(* "extracted".                                                            *)
Items == [id : Events, extracted : BOOLEAN]

ASSUME NothingAssumption == Nothing \notin Items

VARIABLES
    list,       \* the Redis lists "incoming", "extraction" and "delivery"
    request,    \* the handler's progress, then its answer
    process,    \* "up", "stopping" or "down", of each pool's process
    pool,       \* number of workers each process started
    step, held, \* what each worker does, and with which item
    records,    \* Postgres extraction_records: <<event, success>>
    templates,  \* Postgres templates: their sample events
    faults, outages

vars == <<list, request, process, pool, step, held, records, templates, faults, outages>>

Lists == {"incoming", "extraction", "delivery"}
Pools == {"orchestrator", "bridge"}

(* The scaler never takes a pool past MaxWorkers. *)
Larger(m, n) == IF m > n THEN m ELSE n
PoolLimit    == Larger(InitialWorkers, MaxWorkers)
Ids          == 1..PoolLimit

Idle    == {"polling", "stopped"}
Steps   == Idle \union {"enqueueing", "downloading", "uploading", "extracting",
                        "failing", "recording", "templating"}
Answers == {"none", "enqueueing", "announcing", "accepted", "rejected", "unavailable", "aborted"}

(* A worker holds an item exactly while it is busy with it, and no pool    *)
(* outgrows its limit.                                                     *)
TypeOK ==
    /\ list \in [Lists -> Seq(Items)]
    /\ request \in [Events -> Answers]
    /\ process \in [Pools -> {"up", "stopping", "down"}]
    /\ pool \in [Pools -> 0..PoolLimit]
    /\ step \in [Pools -> [Ids -> Steps]]
    /\ held \in [Pools -> [Ids -> Items \union {Nothing}]]
    /\ \A p \in Pools, i \in Ids : held[p][i] = Nothing <=> step[p][i] \in Idle
    /\ records \subseteq FileEvents \X BOOLEAN
    /\ templates \subseteq FileEvents
    /\ faults \in 0..MaxFaults /\ outages \in 0..MaxOutages

-----------------------------------------------------------------------------
Fault  == faults < MaxFaults /\ faults' = faults + 1
Outage == outages < MaxOutages /\ outages' = outages + 1

(* A call of a pool's process may fail on a fault, and always fails once   *)
(* the context is cancelled: then it is not even sent.                     *)
Succeeds(p)  == process[p] = "up" /\ UNCHANGED faults
Breaks(p)    == process[p] = "up" /\ Fault
Cancelled(p) == process[p] = "stopping" /\ UNCHANGED faults

Push(l, m) == list' = [list EXCEPT ![l] = Append(@, m)]

(* RPUSH on a bad connection: the client repeats it when the reply is      *)
(* lost, so that nothing, one copy or two are pushed.                      *)
BrokenPush(l, m) ==
    \E copies \in {<<>>, <<m>>, <<m, m>>} : list' = [list EXCEPT ![l] = @ \o copies]

-----------------------------------------------------------------------------
(* handleWebhook *)

Answer(e, from, to) == request[e] = from /\ request' = [request EXCEPT ![e] = to]

(* Rate limit, body size, signature: the request is answered at once. *)
Reject(e) ==
    /\ Answer(e, "none", "rejected")
    /\ UNCHANGED <<list, process, pool, step, held, records, templates, faults, outages>>

(* EnsureSource is best effort: the request goes on to the queue. *)
Admit(e) ==
    /\ Answer(e, "none", "enqueueing")
    /\ UNCHANGED <<list, process, pool, step, held, records, templates, faults, outages>>

(* A push whose reply never came is answered 503 although it was made. *)
EnqueueIncoming(e) ==
    /\ LET m == [id |-> e, extracted |-> FALSE]
       IN  \/ /\ Push("incoming", m)
              /\ Answer(e, "enqueueing", "announcing")
              /\ UNCHANGED faults
           \/ /\ BrokenPush("incoming", m)
              /\ \/ Answer(e, "enqueueing", "announcing")
                    /\ list' # list
                 \/ Answer(e, "enqueueing", "unavailable")
              /\ Fault
    /\ UNCHANGED <<process, pool, step, held, records, templates, outages>>

(* Publish and RecordThroughput, whose errors are ignored, then 202. *)
Accept(e) ==
    /\ Answer(e, "announcing", "accepted")
    /\ UNCHANGED <<list, process, pool, step, held, records, templates, faults, outages>>

(* The ingestion process ends, and its requests with it. *)
IngestionCrash ==
    /\ Outage
    /\ request' = [e \in Events |-> IF request[e] \in {"enqueueing", "announcing"}
                                      THEN "aborted" ELSE request[e]]
    /\ UNCHANGED <<list, process, pool, step, held, records, templates, faults>>

-----------------------------------------------------------------------------
(* The worker loop, the same in both processes *)

Source(p) == IF p = "orchestrator" THEN "incoming" ELSE "extraction"

Target(p, m) == IF p = "orchestrator" /\ m.id \in FileEvents THEN "extraction" ELSE "delivery"

At(p, i, s)   == process[p] # "down" /\ step[p][i] = s
GoTo(p, i, s) == step' = [step EXCEPT ![p][i] = s]
Hold(p, i, m) == held' = [held EXCEPT ![p][i] = m]

(* A variant: the loop ends after an event. *)
ReturnForGood(p, i) ==
    /\ GoTo(p, i, "stopped")
    /\ Hold(p, i, Nothing)

(* The loop polls again unless the context is cancelled. *)
Return(p, i) ==
    /\ GoTo(p, i, IF process[p] = "up" THEN "polling" ELSE "stopped")
    /\ Hold(p, i, Nothing)

(* A variant: the item stays in the list until it is pushed on. *)
DequeuePeeks(p, i) ==
    /\ At(p, i, "polling") /\ list[Source(p)] # <<>>
    /\ Hold(p, i, Head(list[Source(p)]))
    /\ GoTo(p, i, IF p = "bridge" THEN "downloading" ELSE "enqueueing")
    /\ UNCHANGED <<list, request, process, pool, records, templates, faults, outages>>

(* A BLPOP that was sent before the context was cancelled still pops. *)
Dequeue(p, i) ==
    /\ At(p, i, "polling") /\ list[Source(p)] # <<>>
    /\ Hold(p, i, Head(list[Source(p)]))
    /\ list' = [list EXCEPT ![Source(p)] = Tail(@)]
    /\ GoTo(p, i, IF p = "bridge" THEN "downloading" ELSE "enqueueing")
    /\ UNCHANGED <<request, process, pool, records, templates, faults, outages>>

(* BLPOP removed the item, but its reply is lost and the worker polls again. *)
DequeueReplyLost(p, i) ==
    /\ At(p, i, "polling") /\ list[Source(p)] # <<>>
    /\ list' = [list EXCEPT ![Source(p)] = Tail(@)]
    /\ Fault
    /\ UNCHANGED <<request, process, pool, step, held, records, templates, outages>>

(* BLPOP timed out or was not sent, and the loop sees the cancelled context. *)
StopPolling(p, i) ==
    /\ process[p] = "stopping" /\ At(p, i, "polling")
    /\ Return(p, i)
    /\ UNCHANGED <<list, request, process, pool, records, templates, faults, outages>>

(* Enqueue to the target queue. An error is logged, and the worker goes on *)
(* without the event.                                                      *)
Enqueue(p, i) ==
    /\ At(p, i, "enqueueing")
    /\ LET m == held[p][i]
       IN  \/ Succeeds(p)  /\ Push(Target(p, m), m)
           \/ Breaks(p)    /\ BrokenPush(Target(p, m), m)
           \/ Cancelled(p) /\ UNCHANGED list
    /\ Return(p, i)
    /\ UNCHANGED <<request, process, pool, records, templates, outages>>

-----------------------------------------------------------------------------
(* processEvent of the bridge *)

Bridge(i, s) == At("bridge", i, s)

(* downloadFile and the file type: the file's server may refuse, the type  *)
(* may be unknown.                                                         *)
Download(i) ==
    /\ Bridge(i, "downloading")
    /\ \/ process["bridge"] = "up" /\ GoTo("bridge", i, "uploading")
       \/ GoTo("bridge", i, "failing")
    /\ UNCHANGED <<list, request, process, pool, held, records, templates, faults, outages>>

(* Upload to MinIO and the presigned URL: both fail the same way. *)
Upload(i) ==
    /\ Bridge(i, "uploading")
    /\ \/ process["bridge"] = "up" /\ GoTo("bridge", i, "extracting")
       \/ GoTo("bridge", i, "failing")
    /\ UNCHANGED <<list, request, process, pool, held, records, templates, faults, outages>>

(* A variant: data is merged before the answer's success is looked at. *)
ExtractMergesFailure(i) ==
    /\ Bridge(i, "extracting")
    /\ GoTo("bridge", i, IF process["bridge"] = "up" THEN "recording" ELSE "failing")
       \/ GoTo("bridge", i, "failing")
    /\ held' = [held EXCEPT !["bridge"][i].extracted = TRUE]
    /\ UNCHANGED <<list, request, process, pool, records, templates, faults, outages>>

(* Extract: an error, an unsuccessful answer, or data that is merged into  *)
(* the body.                                                               *)
Extract(i) ==
    /\ Bridge(i, "extracting")
    /\ \/ /\ process["bridge"] = "up"
          /\ GoTo("bridge", i, "recording")
          /\ held' = [held EXCEPT !["bridge"][i].extracted = TRUE]
       \/ /\ GoTo("bridge", i, "failing")
          /\ UNCHANGED held
    /\ UNCHANGED <<list, request, process, pool, records, templates, faults, outages>>

(* InsertExtractionRecord: an error is logged, the event goes on. *)
Insert(i, success) ==
    LET row == <<held["bridge"][i].id, success>>
    IN  \/ Succeeds("bridge")  /\ records' = records \union {row}
        \/ Breaks("bridge")    /\ (UNCHANGED records \/ records' = records \union {row})
        \/ Cancelled("bridge") /\ UNCHANGED records

(* A variant: the error paths forget the delivery. *)
RecordFailureReturns(i) ==
    /\ Bridge(i, "failing")
    /\ Insert(i, FALSE)
    /\ Return("bridge", i)
    /\ UNCHANGED <<list, request, process, pool, templates, outages>>

(* The error paths record the failure, then deliver the original payload. *)
RecordFailure(i) ==
    /\ Bridge(i, "failing")
    /\ Insert(i, FALSE)
    /\ GoTo("bridge", i, "enqueueing")
    /\ UNCHANGED <<list, request, process, pool, held, templates, outages>>

(* Only a backend that names a template has one stored. *)
RecordSuccess(i) ==
    /\ Bridge(i, "recording")
    /\ Insert(i, TRUE)
    /\ GoTo("bridge", i, "templating") \/ GoTo("bridge", i, "enqueueing")
    /\ UNCHANGED <<list, request, process, pool, held, templates, outages>>

(* A template that is known keeps its first sample. *)
UpsertTemplate(i) ==
    /\ Bridge(i, "templating")
    /\ LET known  == templates # {} /\ UNCHANGED templates
           stored == templates' = templates \union {held["bridge"][i].id}
       IN  \/ Succeeds("bridge")  /\ (known \/ stored)
           \/ Breaks("bridge")    /\ (UNCHANGED templates \/ stored)
           \/ Cancelled("bridge") /\ UNCHANGED templates
    /\ GoTo("bridge", i, "enqueueing")
    /\ UNCHANGED <<list, request, process, pool, held, records, outages>>

-----------------------------------------------------------------------------
(* The processes and their scalers *)

(* A variant without the bound. *)
AddedUnclamped(n) == Batch

(* How many workers the scaler adds: a batch, or what is left. *)
Added(n) == IF n + Batch > MaxWorkers THEN MaxWorkers - n ELSE Batch

ScaleUp(p) ==
    /\ process[p] = "up"
    /\ Len(list[Source(p)]) > Threshold /\ pool[p] < MaxWorkers
    /\ pool' = [pool EXCEPT ![p] = @ + Added(@)]
    /\ step' = [step EXCEPT ![p] =
                  [i \in Ids |-> IF i \in pool[p] + 1..pool'[p] THEN "polling" ELSE @[i]]]
    /\ UNCHANGED <<list, request, process, held, records, templates, faults, outages>>

(* SIGTERM cancels the context; main waits for the workers. *)
Shutdown(p) ==
    /\ process[p] = "up" /\ Outage
    /\ process' = [process EXCEPT ![p] = "stopping"]
    /\ UNCHANGED <<list, request, pool, step, held, records, templates, faults>>

(* The process is gone, and what its workers held. *)
Gone(p) ==
    /\ process' = [process EXCEPT ![p] = "down"]
    /\ pool' = [pool EXCEPT ![p] = 0]
    /\ step' = [step EXCEPT ![p] = [i \in Ids |-> "stopped"]]
    /\ held' = [held EXCEPT ![p] = [i \in Ids |-> Nothing]]
    /\ UNCHANGED <<list, request, records, templates, faults>>

Exit(p) ==
    /\ process[p] = "stopping"
    /\ \A i \in Ids : step[p][i] = "stopped"
    /\ Gone(p) /\ UNCHANGED outages

Crash(p) == process[p] # "down" /\ Gone(p) /\ Outage

(* The container's restart policy brings the process back. *)
Started(p) == [i \in Ids |-> IF i <= InitialWorkers THEN "polling" ELSE "stopped"]

Start(p) ==
    /\ process[p] = "down"
    /\ process' = [process EXCEPT ![p] = "up"]
    /\ pool' = [pool EXCEPT ![p] = InitialWorkers]
    /\ step' = [step EXCEPT ![p] = Started(p)]
    /\ UNCHANGED <<list, request, held, records, templates, faults, outages>>

-----------------------------------------------------------------------------
Init ==
    /\ list = [l \in Lists |-> <<>>]
    /\ request = [e \in Events |-> "none"]
    /\ process = [p \in Pools |-> "up"]
    /\ pool = [p \in Pools |-> InitialWorkers]
    /\ step = [p \in Pools |-> Started(p)]
    /\ held = [p \in Pools |-> [i \in Ids |-> Nothing]]
    /\ records = {} /\ templates = {}
    /\ faults = 0 /\ outages = 0

Worker(p, i) ==
    \/ Dequeue(p, i) \/ StopPolling(p, i) \/ Enqueue(p, i)
    \/ /\ p = "bridge"
       /\ \/ Download(i) \/ Upload(i) \/ Extract(i)
          \/ RecordFailure(i) \/ RecordSuccess(i) \/ UpsertTemplate(i)

Next ==
    \/ \E e \in Events : Reject(e) \/ Admit(e) \/ EnqueueIncoming(e) \/ Accept(e)
    \/ IngestionCrash
    \/ \E p \in Pools : \/ \E i \in Ids : Worker(p, i) \/ DequeueReplyLost(p, i)
                        \/ ScaleUp(p) \/ Shutdown(p) \/ Exit(p) \/ Crash(p) \/ Start(p)

Spec == Init /\ [][Next]_vars

(* Goroutines are scheduled, every call returns or times out, and a        *)
(* process that ended is started again. No request, fault, outage or       *)
(* scaling has to happen.                                                  *)
FairSpec ==
    /\ Spec
    /\ \A p \in Pools : /\ WF_vars(Exit(p)) /\ WF_vars(Start(p))
                        /\ \A i \in Ids : WF_vars(Worker(p, i))

-----------------------------------------------------------------------------
(* Where an event is: positions in the lists, and workers. *)
Positions(e) == UNION {{l} \X {k \in DOMAIN list[l] : list[l][k].id = e} : l \in Lists}
Holders(e)   == {w \in Pools \X Ids : LET m == held[w[1]][w[2]] IN m # Nothing /\ m.id = e}
Places(e)    == Positions(e) \union Holders(e)

Undisturbed == faults = 0 /\ outages = 0

(* However processes crash and shut down, no event is ever in two places:  *)
(* only a broken connection duplicates.                                    *)
NeverTwice == faults = 0 => \A e \in Events : \A x, y \in Places(e) : x = y

(* The delivery queue agrees with Postgres: while nothing fails, a file    *)
(* event reaches delivery with exactly one record, which says whether its  *)
(* body was extended; a template's sample is such an event.                *)
RecordMatchesEvent ==
    Undisturbed =>
        /\ \A k \in DOMAIN list["delivery"] : LET m == list["delivery"][k] IN
              IF m.id \in FileEvents
                THEN {b \in BOOLEAN : <<m.id, b>> \in records} = {m.extracted}
                ELSE ~m.extracted
        /\ \A e \in templates : <<e, TRUE>> \in records

(* Not so: the comment at cmd/extractor-bridge/main.go:203, "Still deliver *)
(* original payload without extraction", says that a worker that leaves    *)
(* the error path, with no store call failing and no crash, has delivered  *)
(* its event.                                                              *)
StillDelivered ==
    [][\A i \in Ids :
          LET m == held["bridge"][i] IN
          /\ step["bridge"][i] = "enqueueing" /\ ~m.extracted
          /\ faults' = faults /\ process'["bridge"] # "down"
          /\ step'["bridge"][i] # "enqueueing"
          => \E k \in DOMAIN list'["delivery"] : list'["delivery"][k] = m]_vars

-----------------------------------------------------------------------------
(* What the pipeline promises for each event. *)
State(e) ==
    CASE \E k \in DOMAIN list["delivery"] : list["delivery"][k].id = e -> "handedOver"
      [] Places(e) # {} /\ \A k \in DOMAIN list["delivery"] : list["delivery"][k].id # e
                         -> "taken"
      [] Places(e) = {} -> IF request[e] \in {"none", "rejected", "enqueueing"}
                             THEN "unknown" ELSE "lost"

Contract == INSTANCE Handover WITH
    state <- [e \in Events |-> State(e)], disturbed <- ~Undisturbed

(* Every step of the handler, the workers and the processes is a step of   *)
(* the contract: nothing is lost but by a failure, nothing is taken back.  *)
ImplementsHandover == Contract!Spec

(* An event the endpoint pushed is handed over or lost, whatever processes *)
(* stop while it is on its way: it is never stuck.                         *)
NothingIsStuck == Contract!Settles

=============================================================================
