# WebhookMind in TLA+

WebhookMind receives webhooks, optionally extracts structured data from attached
files, and delivers every event to the destinations that routing rules select,
with retries and a dead letter queue. Five Go processes share Redis, Postgres,
ScyllaDB and MinIO; a browser dashboard watches them.

    source --HTTP--> ingestion --incoming--> orchestrator --delivery--> delivery --HTTP--> destinations
                                                  |            ^           |
                                                  +-extraction-+           +--> DLQ list + dead_letter_queue
                                                 (extractor-bridge)        +--> pub/sub --> sse --> dashboard
                     api (REST, DLQ retry, replay) ---- Postgres / Scylla / Redis

## 1. Inventory

| Component (source) | State it keeps | Operations | What is hard | What makes it correct |
|---|---|---|---|---|
| Ingestion (`cmd/ingestion`, `internal/ingestion`, `internal/ratelimit`) | token buckets in Redis, nothing of its own | `handleWebhook`: rate limit, body limit, signature, source row, enqueue, publish | partial failure after a token is spent; the answer is sent after the enqueue | an accepted event is in the `incoming` list; a refused one is nowhere |
| Queue (`internal/queue`) | Redis lists `incoming`, `delivery`, `extraction`, `dlq` | `Enqueue`, `Dequeue` (BLPOP), `QueueLen`, `FindDLQEntry`, `RemoveDLQEntry` | a pop removes before the consumer has acted; a lost reply loses the event | no duplication by the list itself; removal of one occurrence |
| Orchestrator (`cmd/orchestrator`) | worker count, per-worker event in memory | worker loop, scaler | event in memory between pop and push; scaler bounds | workers stay within min..max; an event goes to exactly one list |
| Extractor bridge (`cmd/extractor-bridge`) | as above; the file's bytes while it is processed | `processEvent`: download, detect, extract, fall back, store, enqueue for delivery, scaler | every step may fail; the event must still be delivered | each popped event is pushed on `delivery` exactly once, with or without extraction, and the records say which |
| Extraction backends (`internal/extraction`) | none between calls | choice of backend, provider and key; provider call with retry; fallback; call of the container | retries, whose key is used, fallback order, SIGTERM in a wait | a key goes to its own provider only; only transient errors are retried; the fallback is asked after a failure and only then |
| C++ extractor (`cpp/`) | template cache in Redis, one language model context shared by all handler threads | `Extract`: download, blocks, fingerprint, cache, label | concurrent calls; what is cached under a fingerprint | an answer is about the document that was sent |
| Delivery engine (`internal/delivery`, `cmd/delivery`) | workers, one goroutine per destination, attempt counters; `delivery_attempts`, `dead_letter_queue`, the DLQ list, the Scylla event store | `Run`, `deliverEvent`, `deliverToDestination`, `attemptDelivery`, `moveToDLQ`, `RecoverIncomplete`, `computeDiffAsync` | crash between any two store calls; cancelled context during shutdown; recovery from a per-event query; a retry table indexed by a configured number | nothing vanishes undisturbed; nothing is dead-lettered before its time; duplicates are bounded by pushes, and by attempts where answers are lost |
| Routing (`internal/routing`) | rules in Postgres | `ResolveDestinations`, `EvaluateRule` | three reads while the API edits; fallbacks when rules match nothing | an answer is what the configuration selected, at one moment of the reads |
| Schema inference and drift (`internal/schema`) | one `payload_schemas` row per source | `UpdateSchema`, `CheckDrift`, `FlattenJSON` | read, modify, write without a transaction by many workers | a locked schema is fixed; sample counts |
| Replay (`internal/replay`, `internal/api/handlers.go`) | `replay_sessions` row, one goroutine per session | `StartReplay`, start, pause, resume, cancel | the goroutine and the handlers write one status column unconditionally; polling; API restarts | a cancelled session stops; progress counts what was sent; completed means all was sent |
| API (`internal/api`, `cmd/api`) | none | REST over the stores; DLQ retry and discard; rules | retry is three calls, and one of them may take effect twice | a retry never loses an event, as long as an LREM takes out one entry |
| Live stream (`internal/pubsub`, `internal/sse`, `cmd/sse`, `dashboard/src`) | clients and their buffers in the hub; lists in the browser | `Register`, `Unregister`, `Broadcast`, `Subscribe`; stores of the dashboard | full buffers, a dashboard that does not read, unregistering while broadcasting, events of one webhook published by different processes, or twice | a dashboard sees messages in order and once, over reconnections; what it misses is missed for its own reasons; a closed channel is never sent on; what left is unregistered |
| Stores (`internal/store`, `internal/filestore`) | the tables | SQL, CQL and object calls | several processes | modelled where they are used |
| Configuration (`internal/config`) | none | `Load` | numbers from the environment reach loops and table indexes | a backoff table that is too short costs a restart, nothing else (`delivery_recovery`) |

## 2. Modules

| Module | What it is |
|---|---|
| `Pipeline` | ingestion handler, orchestrator, extractor bridge, their pools and queues |
| `Handover` | abstract: what the way to the delivery queue promises per event |
| `MCPipeline`, `PipelineProofs` | instances for TLC; proofs, the refinement of `Handover` among them |
| `Delivery` | the delivery engine with its stores, outages, recovery, and the API's dead letter handlers |
| `MCDelivery`, `DeliveryProofs` | instances; proofs |
| `Replay` | replay sessions: goroutine and handlers |
| `MCReplay`, `ReplayProofs` | instances; proofs |
| `SchemaInference` | `UpdateSchema` and `CheckDrift` by several workers |
| `MCSchemaInference`, `SchemaProofs` | instances; proofs |
| `Extractor` | the C++ server: `Extract` on several threads over one cache, one model and the files in /tmp |
| `MCExtractor`, `ExtractorProofs` | instances; proofs |
| `Stream` | the live stream: publishers, Redis channel, hub, handlers with their buffers, and the dashboards with their lists |
| `MCStream`, `StreamProofs` | instances; proofs |
| `Routing` | `ResolveDestinations` read by read, under edits of rules and destinations |
| `MCRouting`, `RoutingProofs` | instances; proofs |
| `CloudExtraction` | what is behind `extractor.Extract`: backends, providers, keys, retries, fallback |
| `MCCloudExtraction`, `CloudProofs` | instances; proofs |

How they meet. `Handover` is what `Pipeline` implements, and its "handed over" is
`Publish` of `Delivery`. `Stream` takes its messages from the handler of `Pipeline`
(`Announce`) and from the attempts of `Delivery` (`Report`, in any number and order:
`Delivery` says when). `Routing` is the choice that `Delivery` makes from `Routes`,
`CloudExtraction` the choice that `Pipeline` makes in `Extract`, and `Extractor`
what answers `CloudExtraction`'s `Call`. Each of these modules allows the other any
answer the code can give, so that what it shows does not depend on the other.

In all of them a call on a store, a server or a destination is one step, so that
any other process, a crash or a shutdown may come before and after it. A call
fails on a *fault* (bounded by a constant), and, in a Go worker whose context
SIGTERM has cancelled, always.

**`Pipeline`.** `request[e]` follows `handleWebhook` (`Admit`, `EnqueueIncoming`,
`Accept`, or `Reject`). `pool[p]`, `step[p][i]` and `held[p][i]` are the goroutines of
the two mains: `Dequeue` to `Enqueue` is one turn of the loop, and in the bridge
`Download`, `Upload`, `Extract`, `RecordFailure`, `RecordSuccess` and
`UpsertTemplate` are `processEvent` between them. `ScaleUp` is the scaler's tick,
`Shutdown` to `Exit` is SIGTERM and `wg.Wait`, `Crash` and `Start` the container's
death and restart. An item carries whether its body has the key "extracted",
nothing else of it. A push on a broken connection puts in nothing, one copy or two
(the Redis client repeats a command whose reply it lost). Uploading and presigning
are one step: they fail the same way. An upsert of a known template keeps its
first sample.

**`Delivery`.** `worker` and `held` follow `Run` and `deliverEvent`, `stage`,
`attempt` and `status` each goroutine of `deliverToDestination`; `deliveryQ`,
`dlq`, `eventLog`, `attempts` and `deadRows` are the stores; `request` is a
`handleRetryDLQ` or `handleDiscardDLQ` at its next call. A destination may take an
event although the request fails (its answer is lost, late, or cut off by SIGTERM):
`accepted` counts the 2xx answers the engine heard, `unheard` the copies taken
without. An LREM whose reply is lost is sent again by go-redis, and takes out another
entry of the event: `surplus` counts these, `Repeats` bounds them per call.
Abstractions: the dead letter list is a bag (the handlers search it, entries of an
event have the same text); tables are sets of rows; backoff is a step that may take any time; `Publish` stands for
the processes before the queue, `Routes` for what routing may answer; MaxRetries
is at least 1 (with 0 the loop body is skipped); SIGTERM during recovery is a
`Crash`; an RPUSH that is sent twice is modelled in `Pipeline` only: here it would be
one more push, which the bounds on duplicates count.

**`Replay`.** `status`, `replayed`, `total`, `completed` are the row, `runner`,
`fetched`, `next` the goroutine. Sessions are independent but for the bounds.
The events are counted, not told apart: the loop sends them in list order.

**`SchemaInference`.** `row` is the source's `payload_schemas` row, `copy[w]`
what a worker read and merged; `observed` is the history of what was upserted, and
`overlapped` whether two workers ever had a webhook of the source at once: exactness
is claimed only while they have not. A payload is the output of `FlattenJSON` and
`DetectType`: which fields it has and their types. Examples and the version
column are left out; no decision depends on them.

**`Extractor`.** `step[h]` follows `extract_document` on thread `h`: `Download` and
`Write` are `download_file`, `Read` the parsers and the fingerprint, `Convert` and
`Transcribe` are `transcribe_audio` (up to and from the opening of the file it
transcribes, the copy that ffmpeg made or the recording itself), `LookUp` and
`Store` the template cache, `Clear`, `Prompt` and `Generate` are `LabelFields` (a
prompt batch or a token per step), `Remove` ends the call. Contents are represented
by where they are from: `answer[h]` is the set of documents the extracted JSON draws
on, `context` and `logits` those the model's state depends on, `cache[l]` those
of the stored answer. `LayoutOf` is what the fingerprint sees of a document; two
documents of a layout are the normal case. A half written file may parse as
anything. `file` and `copies` are what is in /tmp; `mingled` and `shared` record that
calls met in a model (the language model, or whisper) or in a file, `failed` the
recordings whose conversion or transcription failed. ffmpeg may fail and still leave
a piece of a copy.

**`Stream`.** `published` and `feed` are the Redis channel and the subscription's
buffer; `sending`, `todo` and `clients` a broadcast and the map under the hub's
lock, client by client (`Send`: `Skip`, `Put` or `Drop`); `Register`, `Take`, `Write`,
`Leave` and `Unregister` are `ServeHTTP`, `buffer` its channel, headed by the message
that is being written (`stage` "writing"). A write waits while the dashboard is
connected and does not read (`stalled`): `cmd/sse` sets no `WriteTimeout`. `Connect` and `Disconnect` are
the browser's EventSource, which reconnects by itself; `latest` and `online` its
current connection. `Write` shows a message to the dashboard of a connection that is
still there and applies it to `list` as the store does: an outcome goes to the first entry
of its event (`FirstOf`). A "received" may be published `Sendings` times, because
go-redis repeats a PUBLISH whose reply it lost. `published`, `seen` and
`missed` are histories. A message that carries no status for the list (`buried`)
is shown all the same. What the browser's own buffers lose counts as missed at the
disconnection.

**`Routing`.** `rules` and `dests` are the two tables, `step` the reads of
`ResolveDestinations` (rules, then all, matched or default destinations, then perhaps
the defaults once more), `targets` its `matchedDestIDs`. A value is the text `%v`
prints and the number it parses as, if any, since `EvaluateCondition` compares by
either; `contains` is a given relation on texts. Edits are the three rule handlers,
each one statement, and SQL on `destinations`, which no handler writes.
`moments` is the history of what the configuration selected while a resolution ran;
priorities only order the rules whose results are merged, so they are left out.

**`CloudExtraction`.** `server` and `request` are what the environment and the
webhook's headers say; `turn` is the backend asked, `stage` the line of
`callProvider`, `FallbackExtractor.Extract` or the container's call. An answer is
its class: what `isRetryableStatus`, `errors.Is` and `ParseResponse` tell apart. Texts
and models are left out; a wait may take any time. A timeout of `http.Client` is a
`DeadlineExceeded` to `errors.Is`, so `Answer` does not retry it.

Definitions named in a comment as variants are one slip away from the definition
they stand beside. No action uses them: they show that a property notices the slip.

## 3. Runs

| Run | What it shows | Instance |
|---|---|---|
| `pipeline` | `ImplementsHandover` (refinement of the contract `Handover`), `NothingIsStuck`, `NeverTwice`, `RecordMatchesEvent`, types and pool limits | a plain event and one with a file, pools of 1 to 2, 1 fault, 1 outage |
| `delivery_workers` | `RetryKeepsEvent`, `NothingVanishes`, types | 2 retries that may overlap (or discards, of which it claims nothing), 2 of their calls failing or repeated, 2 workers, 1 event, 1 destination |
| `delivery_recovery` | `RecoveryLeavesSettledAlone`, `RowBackedByList`, although the backoff table is too short and the engine panics; `NothingVanishes` with 2 destinations | MaxRetries 2, NumDelays 1, 2 destinations, 1 worker, 2 outages, 1 request |
| `delivery_live` | `EventsComeToRest`, `OwedIsSettled`, `DuplicatesBounded`, and `NoPrematureBurial` where attempts do run out | fair; any route (none included), 1 fault, 1 outage, 1 request |
| `delivery_query_finds` | the finding of section 5 | MaxRetries 4, as configured by default |
| `replay_control` | `StopTakesHold`, `CompletedMeansAll`, `GoroutineEnds` | fair; 1 session, 3 events, 4 commands, 2 faults, 1 restart |
| `schema_workers` | `InferenceIsExact`, `LockRestsOnSamples` | 2 workers, a field of 3 types, 5 webhooks, lock at 3, 1 fault |
| `extractor` | `NothingCarriedOver`, `FilesAreInUse` | 2 threads, 3 calls, 4 documents of 2 layouts, one of them a recording, 2 batches, 1 token, 1 restart |
| `stream` | `SeenInOrder`, `EveryMessageAccounted`, `ListMatchesSeen`, `NeverSendsOnClosed`, types | 1 dashboard with 2 connections, 3 messages about two events of its source and one of another, "received" up to twice, a buffer of 1, a list of 2, 1 restart |
| `stream_live` | `EveryMessageSettles`, `LeftIsUnregistered` | fair; 2 dashboards with a connection each, one of them unfiltered, either of which may stall, 2 messages, one of them lost or none, buffers of 1 |
| `routing` | `RuleEditsAreAtomic`, `SelectedAtSomeMoment` | 1 worker, 2 rules, 2 destinations and one of another source, 2 edits, every configuration to begin with |
| `cloud` | `KeysStayTheirOwn`, `OnlyTransientIsRetried`, `ReportIsTrue`, `ExtractionEnds` | fair; 1 event, every configuration, set of keys and type of file, 3 attempts as in the code, SIGTERM at any moment |

Why the bounds are enough. The actors that meet in these hazards are two at a
time: two workers on one queue or row, a worker and a request, a worker and a
recovery, a goroutine and a handler; the instances have both of each such pair.
Replay sessions share nothing (the theorems are about any number), so one is
enough, and its four commands pause, resume, pause again and cancel. One outage
can fall before and after every call. A panic counts as one but is not kept from
happening: with two of them in `delivery_recovery` a crash or shutdown may follow a
panic or another crash, also inside the recovery after it. Two requests of the API on
one event meet at each of their three calls, while a worker pops, delivers or buries
what they pushed; each of them may fail, or send its LREM twice. Events share nothing but the queues and the workers, and fields of
a schema nothing but the counter. Two attempts have a first, a last and a backoff
between them; the run that quotes the number 4 uses it. Three types of a field
(two real ones and null) and five webhooks reach every case of the merge before,
at and after the lock. Three calls of the extractor fill the cache, hit it and
overlap with one more; a document of another layout, and a recording that is never
cached, are what the others could be mistaken for. A scaler with a batch of 10 and a limit of 2 must clamp.
In the stream a buffer of one is full at once, two connections of one
dashboard are the old and the new one, and three messages make a gap between two
that are seen. A list of two holds an entry and the stale one behind it, or those of
two events; the third message updates one or pushes one out. Liveness needs a
dashboard that holds up and one that waits, and a connection that is left while its
handler is opening, taking, writing or blocked. What a stalled dashboard does, namely
nothing, cannot break safety, so only `stream_live` has such `Sleepers`. Outcomes
(`Reports`) are delivered and failed in `stream`, which write to the list, and failed
and buried in `stream_live`; a burial leaves the list alone. The theorems are about all. A
resolution of routing has at most three reads, so two edits fall anywhere between
them; rules that match, do not, have no condition or cannot be parsed, for bodies
that parse or do not, reach every fallback. Extractions share nothing but SIGTERM:
one event is enough, and the theorems are about any number.
`RetryKeepsEvent` is checked with a constant set of destinations, because a rule
edited between push and retry may drop one; `delivery_live` routes freely.

`CHECK_DEADLOCK FALSE` is set where the bounded inputs come to an end: the
sessions of `Replay` are over, the webhooks of `SchemaInference` processed, the
requests of `Pipeline` answered and its queues empty (BLPOP's timeout, after
which a worker polls again, changes nothing and is no step), the calls of
`Extractor` and the extractions of `CloudExtraction` returned, the messages of
`Stream` shown and its connections used up, the resolutions of `Routing` made.

## 4. Fairness

Weak fairness of a goroutine's own steps (Go schedules it, and every call of the
Go processes on a store, a destination or a provider has a timeout), of the end of a process whose workers have stopped,
and of `Start` and recovery (`restart: unless-stopped` in `docker-compose.yml`).
None for requests, faults, crashes, shutdowns or the scaler: they may or may
not happen. A replay goroutine is fair, an operator's resume is not.

In `Stream` the broadcast and a handler's loop are weakly fair. A handler that has
seen its context done, or that waits for the hub's lock, is strongly fair: Go's
`select` chooses at random among the cases that are ready, and its mutex hands
itself to a waiter that starves. A handler's write has no timeout (`cmd/sse/main.go:67`
sets `WriteTimeout` 0): `Write` is enabled only while the dashboard reads or once its
connection is lost, and nothing obliges a stalled dashboard to lose it. So
`EveryMessageSettles` says nothing of the messages of a dashboard that stalls, and
`LeftIsUnregistered` nothing of one that stays connected. In `CloudExtraction` an extraction goes on: both
clients have timeouts and every wait a timer. A Retry-After is taken as it comes
(`cloud.go:269` has no cap), so "in the end" may be hours away.

## 5. Findings

`delivery_query_finds` refutes a comment: `postgres.go:113` says that the pairs with
retries remaining are found; one success or dead letter of an event hides its
other destinations.

These are stated in the modules and refuted by TLC too; no run of the project
repeats it. Put the name in the place of the properties of the run named:

| In place of the properties of | Formula | What is said | What the code does |
|---|---|---|---|
| `delivery_workers` | `RetryLosesNothing` | `handlers_dashboard.go:135-136` a failing cleanup can be tolerated "because the event is already back in the delivery queue" | the LREM of line 137 has the text of an entry, and go-redis sends it again when its reply is lost; if the retried delivery was dead-lettered by then, it takes out the new entry, too: the event is in no list, and a further retry is answered 404. `RetryKeepsEvent` is what holds (`surplus = 0`) |
| `pipeline` | `StillDelivered` | `cmd/extractor-bridge/main.go:203` "Still deliver original payload without extraction." | SIGTERM cancels the download and the push alike; the popped event is dropped |
| `schema_workers` | `LockedIsFinal` | `inference.go:33` a locked schema is not updated | a worker that read it before the lock overwrites it |
| `extractor` | `HitReadsItsDocument` | `template_cache.h:11` the cache returns a FieldPositionMap | it returns the data of the first document of the layout, whichever was sent |
| `routing` | `NoRulesMeansDefaults` | `routing/engine.go:14` "Falls back to default destinations when no rules match or no rules exist." | without an active rule all active destinations are used, not the defaults |

Seen while modelling:

- `delivery/engine.go:433` says that recovery re-enqueues the events that were in
  progress when the process stopped; one whose worker died before its first attempt
  was recorded has no row, and is not found.
- Because of `routing/engine.go:17`, deleting or switching off the last rule of a
  source sends its events to all active destinations instead of the defaults; an
  error of the rules' read does so too. `PUT /rules/{id}` without `is_active`
  switches the rule off, and two administrators' edits overwrite each other.
- Two edits between the reads of a resolution may send an event to destinations that
  no configuration selected (see `SelectedAtSomeMoment`).
- `cloud.go:303` says that transport errors, timeouts among them, are generally
  retryable; the client's own timeout is a `DeadlineExceeded` and is not.
  `cloud.go:271` lists waits of 1, 2 and 4 seconds; with three attempts there are two.
- An event that a destination answers with 4xx publishes `dlq.added` but no
  `delivery.failed`, so its entry in the dashboard stays "received" or what another
  destination made it; with several destinations the last message wins.
- `postgres.go:120` filters attempts below 4 before it takes the latest one, so a
  pair whose last attempt failed without a dead letter row is recovered as well.
- `handlers_dashboard.go:138` resolves all rows of the event, also one that the
  retried delivery wrote after line 130 put it back in the queue and failed again.
- `audio_handler.cpp:81-102` returns without removing the recording's WAV copy when it
  holds no samples or whisper fails, and a failing ffmpeg may leave a piece of one
  (line 59 forgets its name): these stay in /tmp.
- A "received" that go-redis publishes twice is two entries in the dashboard, and the
  older one keeps its status (`webhooks.ts:31,42` update the first they find).
- `llm_labeler.cpp:114` and `audio_handler.cpp:99` use one context each on every
  gRPC thread without a lock (`ocr_handler.cpp:46` takes one for Tesseract): calls
  that meet there mix their documents, which is why `NothingCarriedOver` excludes
  them (`mingled`).
- `inference.go:22` takes every error of the read for a missing row: a transient
  one starts a new schema over the stored one (`Read` with `NoRow`).
- `types.go:8` calls a field nullable that was absent in any observed webhook; a
  lost update forgets the absence.
- `replay/engine.go:72` says a paused session waits until resumed or cancelled; a
  status read that fails once writes "cancelled" (`CancelPaused`), a status that
  `003_intelligence.sql:61` does not list.

## 6. Proofs

Proved by TLAPS for every value of the constants (under the ASSUMEs of each module):

| Theorem | Property | Inductive invariant and why it is needed |
|---|---|---|
| `DeliveryProofs!TypeCorrect` | `TypeOK` | inductive as it is, `WorkersBusy` included: a goroutine at work has a worker that waits for it, and an event |
| `DeliveryProofs!WorkConserved` | `NothingVanishes` | `Conservation`: a 2xx about to be recorded was given (`AnswersCounted`), else `Record` could finish a delivery nobody accepted; only an outage cancels the context (`CancelledByOutage`), else stores could fail undisturbed |
| `DeliveryProofs!BurialsAreDue` | `NoPrematureBurial` | `Burial`: a goroutine already in `moveToDLQ` has its reason recorded |
| `DeliveryProofs!RecoveryIsCareful` | `RecoveryLeavesSettledAlone` | `SnapshotHolds`: no worker runs during recovery, and operators delete no rows |
| `DeliveryProofs!DuplicatesAreBounded` | `DuplicatesBounded` | two balances for each event and destination. `PushesCover`: the 2xx answers heard, the passes of a worker that may still hear one (`Expecting`), and the event's occurrences in the queue are together no more than its pushes. `Affordable`: the copies taken, the requests that the passes under way may still send (`Chances`), and MaxRetries for each occurrence in the queue are no more than MaxRetries for each push. The bounds alone say nothing of the pushes not spent yet |
| `DeliveryProofs!RowsHaveEntries` | `RowBackedByList` | `RowsListed`: the rows of an event, and the goroutines that have pushed to the list and not written their row yet (`Inserting`), are together no more than its entries |
| `DeliveryProofs!RetriesKeepEvents` | `RetryKeepsEvent` | assumes `Routes = {ds}`, a constant set of destinations, as the property does: a rule changed between push and retry may drop one, and that is no fault of the retry, and `surplus = 0`, since a repeated LREM does lose one (section 5). `RetriesCovered`: the removals retry requests have still to make are fewer than the entries, the queued occurrences and the workers that carry the event (`Kept`); every event that left the queue was fanned out to all of `ds` (`FannedOut`) |
| `PipelineProofs!TypeInvariant` | `TypeOK` | `Typed`, which all four need: only file events are on the bridge's side, and workers that were not started do nothing (`Sorted`), a process that is not up was stopped (`StopsAreOutages`), and what has not been pushed is nowhere (`Unsent`) |
| `PipelineProofs!PipelineImplementsHandover` | `ImplementsHandover` | `Typed`, and per event what no step does (`Forward`): take back what was handed over, drop an event undisturbed, bring one up from nothing; so every action is a step or a stutter of `Handover` |
| `PipelineProofs!NoDuplicates` | `NeverTwice` | `Apart`: as long as no reply was lost, no two positions of the lists, no two workers, nor a position and a worker, are about one event |
| `PipelineProofs!RecordsAgree` | `RecordMatchesEvent` | `RecordsKept`: an item before the bridge has no record yet (`Fresh`), one in the bridge has it from its step on, one in the delivery queue has the one it tells of (`Told`); `Apart` is needed to know that nobody else writes a second |
| `ReplayProofs!TypeInvariant` | `TypeOK` | with `InLoop`: the counter is below the number fetched wherever an event is in hand |
| `ReplayProofs!StopsTakeHold` | `StopTakesHold` | `Stopping`: an event in hand after a stop is the first since |
| `ReplayProofs!ProgressIsTrue` | `CompletedMeansAll`, `ProgressIsReal` | `Progress`: counter, requests and row agree at every line of the loop |
| `SchemaProofs!TypeInvariant` | `TypeOK` | lemmas `MergeIsSchema`, `DriftsAreDrifts` about the operators |
| `ExtractorProofs!TypeInvariant` | `TypeOK` | `CallTyped`: a busy thread has a document and, from the fingerprint on, a layout |
| `ExtractorProofs!CallsStayApart` | `NothingCarriedOver` | `NothingMixed`: as long as no two calls met, they have no document and no turn of the model in common (`Apart`), cached answers are under their own layout (`CacheSorted`), and what a thread read, decoded and wrote is its own (`OwnWork`) |
| `ExtractorProofs!FilesHeldOrFailed` | `FilesAreInUse` | inductive with `TypeOK`: each step of a call keeps it the holder of its document's file, or removes the file (`GoingOnKeepsHolders`, `InsideKeepsHolders`, `FilesStep`); a copy has a thread that transcribes it or a failure that explains it, and no other thread's step parts them (`CopiesStep`) |
| `StreamProofs!TypeInvariant` | `TypeOK` | inductive as it is: a broadcast under way has clients left, an online dashboard a connection |
| `StreamProofs!LockHolds` | `NeverSendsOnClosed` | `Registered`: a handler is in the map exactly while it is at a stage between `Register` and `Unregister`, which a broadcast's lock keeps out |
| `StreamProofs!OrderKept` | `SeenInOrder` | `InLine`: what was seen comes before the current connection's buffer, this before the message being broadcast where it is still due, this before `feed`, each ascending; an old connection's handler shows nothing |
| `StreamProofs!MessagesAccounted` | `EveryMessageAccounted` | inductive for each dashboard (`Accounted`) with `InLine`, by which a message taken from the front of a channel is nowhere else (`TakenOnce`), and `LeftBehind`: a handler that leaves is no longer the connection of its dashboard, so what is in its channel is nobody's |
| `StreamProofs!ListFollows` | `ListMatchesSeen` | inductive with `TypeOK`; the work is in `ShowsReceived`, `ShowsOutcome` and `ShowsBuried`, one per branch of the dashboard's store: what one more message does to the list is what it does to the definition over all messages seen. `FirstIsNewest`: the entry that `findIndex` finds is the one of the event's newest "received", if it is in the list at all |
| `RoutingProofs!TypeInvariant` | `TypeOK` | inductive as it is |
| `RoutingProofs!RuleEditsKept`, `SelectionKept` | `RuleEditsAreAtomic`, `SelectedAtSomeMoment` | `Ready`: what a worker will answer if nothing changes any more (`Outcome`) is what was selected at a moment, if only rules were edited, and is made up of what was selected (`Covered`) after one edit; without an edit what it read still holds (`Fresh`) |
| `CloudProofs!TypeInvariant` | `TypeOK` | `AtBackend`: the turn stays in the chain; `SentSoFar`: no request without a key |
| `CloudProofs!KeysKept`, `RetriesKept` | `KeysStayTheirOwn`, `OnlyTransientIsRetried` | `SentSoFar`: all requests carry the provider and the key the event and the server determine, all but the last ended in an error that may pass, and none was sent before the cloud's turn |
| `CloudProofs!ReportKept` | `ReportIsTrue` | `ResultSoFar`: a success was found exactly when the extraction is done with one, and the container answered once its turn is over |
| `SchemaProofs!LocksAreEarned` | `LockRestsOnSamples` | `SamplesRestOnUpserts`: also a copy on its way to the row counts no more than was upserted |
| `SchemaProofs!InferenceExact` | `InferenceIsExact` | while nothing fails and webhooks come one at a time: only one worker is busy (`OneAtATime`), its copy is the row with its payload merged (`CopiesAreCurrent`), and a payload that went in was the last (`SampledIsLast`). `MergeIsExact` is the one step: `Merge` takes the schema of a sequence of payloads to the schema of one more. That each field seen with a type has a last such payload (`Lasting`) is kept in the invariant, which saves the induction over the sequence |

So every safety property that a passing run checks is proved: each invariant, the
action property and the refinement. Beside the `ASSUME`s about bounds, `Delivery` assumes
that its sets of workers, API clients and destinations are finite (`FiniteAssumption`):
the theorems that count need it, and a process has finitely many of each.

What the proofs found. The branches of `Verdict` in `Delivery` overlapped (a 2xx before
the last attempt matched two of them), which TLC hides by taking the first, while
a `CASE` may choose any: they are disjoint now, as the code's if and else. `NeverTwice`
is stated over places in lists and hands instead of a count of them.

Only model-checked, because fairness and ENABLED are out of the prover's reach, is
liveness: `EventsComeToRest` and `OwedIsSettled`, `LeftIsUnregistered` and
`EveryMessageSettles`, `GoroutineEnds`, `NothingIsStuck`, `ExtractionEnds`. That the
model of a call (`Verdict`, `Merge`, `Shown`, ...) is the code's is read, not proved.
`ProgressIsReal` of `Replay` is proved and in no run.

## 7. Not modelled, and what could follow

- A contract of delivery (each event to each destination: accepted, buried or
  lost to an outage) that `Delivery` refines, and its composition with `Handover`.
- `computeDiffAsync`, its two second delay and the "previous" event it picks: a diff
  is shown to a reader and feeds nothing else.
- The rate limiter's two scopes: `Pipeline` leaves admission and refusal open. That
  the limiter lets requests through when Redis fails is two lines of the code and
  would be restated, not checked.
- `FlattenJSON` and `DetectType` on nested payloads, file type detection and the
  cleanup of a model's answer: functions of one input without state.
- What whisper's one context makes of two recordings at once: `Extractor` records that
  they met (`mingled`) and claims nothing of their answers.
- The pings, the first "connected" message and the socket buffers of the event stream:
  a write goes through or waits as a whole, and a message in a socket's buffer counts
  as shown, or as missed when the connection is lost.

Left out for good: parsing of file formats, HTTP routing, rendering of the dashboard,
configuration parsing and migrations (no state over time), the metrics, and the
token arithmetic of the rate limit library. The number of runs is kept small on
purpose: a property joins an existing run where an instance can show it.
