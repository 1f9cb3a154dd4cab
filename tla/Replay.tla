------------------------------- MODULE Replay -------------------------------
(***************************************************************************)
(* Replay sessions: the goroutine of internal/replay/engine.go that sends  *)
(* the stored events of a source to a destination again, and the handlers  *)
(* of internal/api/handlers.go that start, pause, resume and cancel it.    *)
(* They share one row of replay_sessions, whose status column all of them  *)
(* write without looking. Every store call and every request is one step.  *)
(***************************************************************************)
EXTENDS Naturals

CONSTANTS
    Sessions,      \* replay_sessions ids
    MaxEvents,     \* bound: events Scylla holds for the source
    MaxCommands,   \* bound: pause, resume and cancel requests
    MaxFaults,     \* bound: store calls that fail
    MaxRestarts    \* bound: restarts of the API process

ASSUME BoundsAssumption == /\ MaxEvents \in Nat /\ MaxCommands \in Nat
                           /\ MaxFaults \in Nat /\ MaxRestarts \in Nat

VARIABLES
    status,      \* column status, "none" before the row exists
    replayed,    \* column events_replayed
    total,       \* column events_total
    completed,   \* column completed_at is set
    runner,      \* where the session's goroutine is, "none" without one
    fetched,     \* its number of events, from Scylla
    next,        \* its loop counter: events behind it
    stored,      \* events of the source in Scylla
    sent,        \* history: events the goroutine sent
    sentSince,   \* history: events sent since the status last changed
    commands, faults, restarts

row   == <<status, replayed, total, completed>>
local == <<runner, fetched, next>>
vars  == <<row, local, stored, sent, sentSince, commands, faults, restarts>>

Statuses == {"none", "running", "paused", "cancelled", "completed", "failed"}
Steps    == {"none", "loading", "fetching", "failing", "resetting", "checking", "waiting",
             "cancelling", "sending", "recording", "completing"}

(* A goroutine inside its loop has an event in hand. *)
InLoop ==
    \A s \in Sessions : runner[s] \in {"waiting", "sending", "recording"} => next[s] < fetched[s]

TypeOK ==
    /\ InLoop
    /\ status \in [Sessions -> Statuses]
    /\ replayed \in [Sessions -> Nat] /\ total \in [Sessions -> Nat]
    /\ completed \in [Sessions -> BOOLEAN]
    /\ runner \in [Sessions -> Steps]
    /\ fetched \in [Sessions -> 0..MaxEvents]
    /\ next \in [Sessions -> 0..MaxEvents]
    /\ stored \in 0..MaxEvents
    /\ sent \in [Sessions -> Nat] /\ sentSince \in [Sessions -> Nat]
    /\ commands \in 0..MaxCommands /\ faults \in 0..MaxFaults /\ restarts \in 0..MaxRestarts

-----------------------------------------------------------------------------
Fault == faults < MaxFaults /\ faults' = faults + 1

(* UpdateReplaySessionStatus: nothing is compared, completed_at is never cleared. *)
SetStatus(s, new) ==
    /\ status' = [status EXCEPT ![s] = new]
    /\ completed' = [completed EXCEPT ![s] = @ \/ new \in {"completed", "failed"}]
    /\ sentSince' = IF status[s] = new THEN sentSince ELSE [sentSince EXCEPT ![s] = 0]
    /\ UNCHANGED <<replayed, total>>

(* The engine ignores whether its status write succeeded. *)
TrySetStatus(s, new) ==
    \/ SetStatus(s, new) /\ UNCHANGED faults
    \/ Fault /\ UNCHANGED <<row, sentSince>>

(* UpdateReplaySessionProgress, ignored likewise. *)
TrySetProgress(s, n) ==
    /\ \/ /\ replayed' = [replayed EXCEPT ![s] = n]
          /\ total' = [total EXCEPT ![s] = fetched[s]]
          /\ UNCHANGED faults
       \/ Fault /\ UNCHANGED <<replayed, total>>
    /\ UNCHANGED <<status, completed, sentSince>>

GoTo(s, step) == runner' = [runner EXCEPT ![s] = step]

-----------------------------------------------------------------------------
(* Requests. An answer of the store that is an error changes nothing. *)

(* The delivery engine stores a new event of the source. *)
EventStored ==
    /\ stored < MaxEvents /\ stored' = stored + 1
    /\ UNCHANGED <<row, local, sent, sentSince, commands, faults, restarts>>

(* handleStartReplay *)
StartSession(s) ==
    /\ status[s] = "none"
    /\ SetStatus(s, "running")
    /\ GoTo(s, "loading")
    /\ UNCHANGED <<fetched, next, stored, sent, commands, faults, restarts>>

(* handlePauseReplay, handleResumeReplay, handleCancelReplay: at any time, *)
(* also when the goroutine is long gone.                                   *)
Command(s, new) ==
    /\ status[s] # "none" /\ commands < MaxCommands
    /\ commands' = commands + 1
    /\ SetStatus(s, new)
    /\ UNCHANGED <<local, stored, sent, faults, restarts>>

(* The API process ends and starts again: nothing restarts the goroutines. *)
Restart ==
    /\ restarts < MaxRestarts /\ restarts' = restarts + 1
    /\ runner' = [s \in Sessions |-> "none"]
    /\ fetched' = [s \in Sessions |-> 0]
    /\ next' = [s \in Sessions |-> 0]
    /\ UNCHANGED <<row, stored, sent, sentSince, commands, faults>>

-----------------------------------------------------------------------------
(* StartReplay *)

Load(s) ==
    /\ runner[s] = "loading"
    /\ \/ GoTo(s, "fetching") /\ UNCHANGED faults
       \/ GoTo(s, "none") /\ Fault
    /\ UNCHANGED <<row, fetched, next, stored, sent, sentSince, commands, restarts>>

Fetch(s) ==
    /\ runner[s] = "fetching"
    /\ \/ /\ GoTo(s, "resetting") /\ UNCHANGED faults
          /\ fetched' = [fetched EXCEPT ![s] = stored]
       \/ GoTo(s, "failing") /\ Fault /\ UNCHANGED fetched
    /\ UNCHANGED <<row, next, stored, sent, sentSince, commands, restarts>>

Fail(s) ==
    /\ runner[s] = "failing"
    /\ TrySetStatus(s, "failed")
    /\ GoTo(s, "none")
    /\ UNCHANGED <<fetched, next, stored, sent, commands, restarts>>

ResetProgress(s) ==
    /\ runner[s] = "resetting"
    /\ TrySetProgress(s, 0)
    /\ GoTo(s, "checking")
    /\ UNCHANGED <<fetched, next, stored, sent, commands, restarts>>

OnStatusIgnoringPause(st) == CASE st = "cancelled" -> "none" [] OTHER -> "sending"

(* What the loop does on the status it read at its top. *)
OnStatus(st) == CASE st = "paused"    -> "waiting"
                  [] st = "cancelled" -> "none"
                  [] OTHER            -> "sending"

CheckOneTooFew(s) ==
    /\ runner[s] = "checking"
    /\ IF next[s] + 1 < fetched[s]
         THEN \/ GoTo(s, OnStatus(status[s])) /\ UNCHANGED faults
              \/ GoTo(s, "completing") /\ Fault
         ELSE GoTo(s, "completing") /\ UNCHANGED faults
    /\ UNCHANGED <<row, fetched, next, stored, sent, sentSince, commands, restarts>>

CheckOneTooMany(s) ==
    /\ runner[s] = "checking"
    /\ IF next[s] <= fetched[s]
         THEN \/ GoTo(s, OnStatus(status[s])) /\ UNCHANGED faults
              \/ GoTo(s, "completing") /\ Fault
         ELSE GoTo(s, "completing") /\ UNCHANGED faults
    /\ UNCHANGED <<row, fetched, next, stored, sent, sentSince, commands, restarts>>

(* Top of the loop. When the status cannot be read the loop ends. *)
Check(s) ==
    /\ runner[s] = "checking"
    /\ IF next[s] < fetched[s]
         THEN \/ GoTo(s, OnStatus(status[s])) /\ UNCHANGED faults
              \/ GoTo(s, "completing") /\ Fault
         ELSE GoTo(s, "completing") /\ UNCHANGED faults
    /\ UNCHANGED <<row, fetched, next, stored, sent, sentSince, commands, restarts>>

OnPollUntilRunning(st) == IF st = "running" THEN "sending" ELSE "waiting"

(* The poll of a paused session; after it the status read before is used. *)
OnPoll(st) == CASE st = "cancelled" -> "cancelling"
                [] st = "running"   -> "sending"
                [] OTHER            -> "waiting"

Poll(s) ==
    /\ runner[s] = "waiting"
    /\ \/ GoTo(s, OnPoll(status[s])) /\ UNCHANGED faults
       \/ GoTo(s, "cancelling") /\ Fault
    /\ UNCHANGED <<row, fetched, next, stored, sent, sentSince, commands, restarts>>

CancelPaused(s) ==
    /\ runner[s] = "cancelling"
    /\ TrySetStatus(s, "cancelled")
    /\ GoTo(s, "none")
    /\ UNCHANGED <<fetched, next, stored, sent, commands, restarts>>

(* deliverReplayEvent; its error is logged and the next event follows. *)
SendEvent(s) ==
    /\ runner[s] = "sending"
    /\ sent' = [sent EXCEPT ![s] = @ + 1]
    /\ sentSince' = [sentSince EXCEPT ![s] = @ + 1]
    /\ GoTo(s, "recording")
    /\ UNCHANGED <<row, fetched, next, stored, commands, faults, restarts>>

RecordProgress(s) ==
    /\ runner[s] = "recording"
    /\ TrySetProgress(s, next[s] + 1)
    /\ next' = [next EXCEPT ![s] = @ + 1]
    /\ GoTo(s, "checking")
    /\ UNCHANGED <<fetched, stored, sent, commands, restarts>>

Complete(s) ==
    /\ runner[s] = "completing"
    /\ TrySetStatus(s, "completed")
    /\ GoTo(s, "none")
    /\ UNCHANGED <<fetched, next, stored, sent, commands, restarts>>

-----------------------------------------------------------------------------
Init ==
    /\ status = [s \in Sessions |-> "none"]
    /\ replayed = [s \in Sessions |-> 0] /\ total = [s \in Sessions |-> 0]
    /\ completed = [s \in Sessions |-> FALSE]
    /\ runner = [s \in Sessions |-> "none"]
    /\ fetched = [s \in Sessions |-> 0] /\ next = [s \in Sessions |-> 0]
    /\ stored = 0
    /\ sent = [s \in Sessions |-> 0] /\ sentSince = [s \in Sessions |-> 0]
    /\ commands = 0 /\ faults = 0 /\ restarts = 0

Run(s) ==
    \/ Load(s) \/ Fetch(s) \/ Fail(s) \/ ResetProgress(s) \/ Check(s) \/ Poll(s)
    \/ CancelPaused(s) \/ SendEvent(s) \/ RecordProgress(s) \/ Complete(s)

Next ==
    \/ EventStored \/ Restart
    \/ \E s \in Sessions :
          \/ StartSession(s) \/ Run(s)
          \/ \E new \in {"paused", "running", "cancelled"} : Command(s, new)

Spec == Init /\ [][Next]_vars

(* A goroutine keeps running: its client times out after 30 seconds, and   *)
(* it sleeps 2 seconds between polls.                                      *)
FairSpec == Spec /\ \A s \in Sessions : WF_vars(Run(s))

-----------------------------------------------------------------------------
(* Properties *)

(* A pause or a cancel holds although the goroutine looks at the status    *)
(* only between two events: it sends at most the one event it had in hand. *)
StopTakesHold ==
    \A s \in Sessions : status[s] \in {"paused", "cancelled"} => sentSince[s] <= 1

(* "completed" means that every event fetched was sent and counted, also   *)
(* when pauses, cancels and resumes raced with the end of the loop.        *)
CompletedMeansAll ==
    faults = 0 => \A s \in Sessions :
        status[s] = "completed" => sent[s] = total[s] /\ replayed[s] = total[s]

(* The progress the dashboard shows never runs ahead of what was sent.     *)
ProgressIsReal == \A s \in Sessions : replayed[s] <= sent[s]

(* A goroutine ends, unless its session stays paused; in particular a      *)
(* session cancelled while it is paused does not wait for a resume.        *)
GoroutineEnds ==
    \A s \in Sessions : runner[s] # "none" ~> (runner[s] = "none" \/ status[s] = "paused")

-----------------------------------------------------------------------------
(* What the invariants above need to be inductive *)

(* An event is in hand only if none was sent since the stop. *)
InHandIsFirst ==
    \A s \in Sessions :
        status[s] \in {"paused", "cancelled"} /\ runner[s] = "sending" => sentSince[s] = 0

Stopping == TypeOK /\ InHandIsFirst /\ StopTakesHold

Looping == {"checking", "waiting", "sending", "recording", "completing"}

(* The loop counter, the request count and the row follow each other. *)
Agree(s) ==
    /\ runner[s] \in {"loading", "fetching", "failing", "resetting"} =>
          next[s] = 0 /\ sent[s] = 0 /\ replayed[s] = 0
    /\ runner[s] \in Looping => sent[s] = next[s] + (IF runner[s] = "recording" THEN 1 ELSE 0)
    /\ faults = 0 /\ runner[s] \in Looping => replayed[s] = next[s] /\ total[s] = fetched[s]
    /\ faults = 0 /\ runner[s] = "completing" => next[s] = fetched[s]
    /\ faults = 0 /\ runner[s] = "checking" => next[s] <= fetched[s]
    /\ status[s] = "none" => sent[s] = 0 /\ replayed[s] = 0 /\ next[s] = 0 /\ runner[s] = "none"
    /\ status[s] = "completed" => runner[s] = "none"

CountsAgree == \A s \in Sessions : Agree(s)

Progress == TypeOK /\ CountsAgree /\ CompletedMeansAll /\ ProgressIsReal

=============================================================================
