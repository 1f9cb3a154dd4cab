---------------------------- MODULE ReplayProofs ----------------------------
(* The safety properties of Replay, proved for every number of sessions,   *)
(* events, commands, faults and restarts.                                  *)
EXTENDS Replay, TLAPS

(* A status write, done or failed, leaves the row well typed. *)
LEMMA StatusWritten ==
    ASSUME TypeOK, NEW s \in Sessions, NEW new \in Statuses, TrySetStatus(s, new)
    PROVE  /\ status' \in [Sessions -> Statuses]
           /\ completed' \in [Sessions -> BOOLEAN]
           /\ sentSince' \in [Sessions -> Nat]
           /\ UNCHANGED <<replayed, total>>
           /\ faults' \in 0..MaxFaults
<1>1. completed' \in [Sessions -> BOOLEAN]
  <2>1. CASE SetStatus(s, new)
    <3>1. completed' = [completed EXCEPT ![s] = completed[s] \/ new \in {"completed", "failed"}]
      BY <2>1 DEF SetStatus
    <3>2. (completed[s] \/ new \in {"completed", "failed"}) \in BOOLEAN
      OBVIOUS
    <3> QED
      BY <3>1, <3>2, Zenon DEF TypeOK
  <2>2. CASE UNCHANGED row
    BY <2>2 DEF TypeOK, row
  <2> QED
    BY <2>1, <2>2 DEF TrySetStatus
<1> QED
  BY <1>1, BoundsAssumption DEF TypeOK, TrySetStatus, SetStatus, Fault, row

(* The state is well typed, whatever the requests, faults and restarts.    *)
THEOREM TypeInvariant == Spec => []TypeOK
<1>1. Init => TypeOK
  BY BoundsAssumption DEF Init, TypeOK, InLoop, Statuses, Steps
<1>2. TypeOK /\ [Next]_vars => TypeOK'
  <2> SUFFICES ASSUME TypeOK, [Next]_vars PROVE TypeOK'
    OBVIOUS
  <2> USE BoundsAssumption DEF TypeOK, InLoop, Statuses, Steps
  <2>1. CASE UNCHANGED vars
    BY <2>1 DEF vars, row, local
  <2>2. CASE EventStored
    BY <2>2 DEF EventStored, row, local
  <2>3. CASE Restart
    BY <2>3 DEF Restart, row
  <2>4. ASSUME NEW s \in Sessions, StartSession(s) PROVE TypeOK'
    BY <2>4 DEF StartSession, SetStatus, GoTo
  <2>5. ASSUME NEW s \in Sessions, NEW new \in {"paused", "running", "cancelled"}, Command(s, new)
        PROVE TypeOK'
    BY <2>5 DEF Command, SetStatus, local
  <2>6. ASSUME NEW s \in Sessions, Load(s) PROVE TypeOK'
    BY <2>6 DEF Load, GoTo, Fault, row
  <2>7. ASSUME NEW s \in Sessions, Fetch(s) PROVE TypeOK'
    BY <2>7 DEF Fetch, GoTo, Fault, row
  <2>8. ASSUME NEW s \in Sessions, Fail(s) PROVE TypeOK'
    BY <2>8, StatusWritten DEF Fail, GoTo
  <2>9. ASSUME NEW s \in Sessions, ResetProgress(s) PROVE TypeOK'
    BY <2>9 DEF ResetProgress, TrySetProgress, GoTo, Fault
  <2>10. ASSUME NEW s \in Sessions, Check(s) PROVE TypeOK'
    <3>1. PICK step \in Steps :
            /\ runner' = [runner EXCEPT ![s] = step]
            /\ step \in {"waiting", "sending", "recording"} => next[s] < fetched[s]
      BY <2>10 DEF Check, OnStatus, GoTo
    <3>2. InLoop'
      BY <2>10, <3>1 DEF Check
    <3> QED
      BY <2>10, <3>1, <3>2 DEF Check, Fault, row
  <2>11. ASSUME NEW s \in Sessions, Poll(s) PROVE TypeOK'
    BY <2>11 DEF Poll, OnPoll, GoTo, Fault, row
  <2>12. ASSUME NEW s \in Sessions, CancelPaused(s) PROVE TypeOK'
    BY <2>12, StatusWritten DEF CancelPaused, GoTo
  <2>13. ASSUME NEW s \in Sessions, SendEvent(s) PROVE TypeOK'
    BY <2>13 DEF SendEvent, GoTo, row
  <2>14. ASSUME NEW s \in Sessions, RecordProgress(s) PROVE TypeOK'
    <3>1. next[s] + 1 \in 0..MaxEvents
      BY <2>14 DEF RecordProgress
    <3>2. InLoop'
      BY <2>14 DEF RecordProgress, GoTo
    <3> QED
      BY <2>14, <3>1, <3>2 DEF RecordProgress, TrySetProgress, GoTo, Fault
  <2>15. ASSUME NEW s \in Sessions, Complete(s) PROVE TypeOK'
    BY <2>15, StatusWritten DEF Complete, GoTo
  <2> QED
    BY <2>1, <2>2, <2>3, <2>4, <2>5, <2>6, <2>7, <2>8, <2>9, <2>10, <2>11, <2>12, <2>13, <2>14, <2>15
    DEF Next, Run
<1> QED
  BY <1>1, <1>2, PTL DEF Spec

(* A stopped session sends at most the event its goroutine has in hand:    *)
(* pauses and cancels take hold although the loop looks at the status      *)
(* before an event and sends after it.                                     *)
THEOREM StopsTakeHold == Spec => []StopTakesHold
<1>1. Init => Stopping
  BY BoundsAssumption
  DEF Init, Stopping, TypeOK, InLoop, InHandIsFirst, StopTakesHold, Statuses, Steps
<1> DEFINE Hold == InHandIsFirst /\ StopTakesHold
<1>2. TypeOK /\ Hold /\ [Next]_vars => Hold'
  <2> SUFFICES ASSUME TypeOK, Hold, [Next]_vars PROVE Hold'
    OBVIOUS
  <2> USE DEF InHandIsFirst, StopTakesHold, TypeOK
  <2>1. CASE UNCHANGED vars
    BY <2>1 DEF vars, row, local
  <2>2. CASE EventStored
    BY <2>2 DEF EventStored, row, local
  <2>3. CASE Restart
    BY <2>3 DEF Restart, row
  <2>4. ASSUME NEW s \in Sessions, StartSession(s) PROVE Hold'
    BY <2>4 DEF StartSession, SetStatus, GoTo
  <2>5. ASSUME NEW s \in Sessions, NEW new \in {"paused", "running", "cancelled"}, Command(s, new)
        PROVE Hold'
    BY <2>5 DEF Command, SetStatus, local
  <2>6. ASSUME NEW s \in Sessions, Load(s) \/ Fetch(s) PROVE Hold'
    BY <2>6 DEF Load, Fetch, GoTo, row
  <2>7. ASSUME NEW s \in Sessions, ResetProgress(s) \/ RecordProgress(s) PROVE Hold'
    BY <2>7 DEF ResetProgress, RecordProgress, TrySetProgress, GoTo
  <2>8. ASSUME NEW s \in Sessions, Fail(s) \/ CancelPaused(s) \/ Complete(s) PROVE Hold'
    <3>1. runner' = [runner EXCEPT ![s] = "none"]
      BY <2>8 DEF Fail, CancelPaused, Complete, GoTo
    <3>2. PICK new \in Statuses : TrySetStatus(s, new)
      BY <2>8 DEF Fail, CancelPaused, Complete, Statuses
    <3> QED
      BY <3>1, <3>2 DEF TrySetStatus, SetStatus, row
  <2>9. ASSUME NEW s \in Sessions, Check(s) \/ Poll(s) PROVE Hold'
    <3>1. PICK step : /\ runner' = [runner EXCEPT ![s] = step]
                      /\ step = "sending" => status[s] \notin {"paused", "cancelled"}
      <4>1. CASE Check(s)
        BY <4>1 DEF Check, OnStatus, GoTo
      <4>2. CASE Poll(s)
        BY <4>2 DEF Poll, OnPoll, GoTo
      <4> QED
        BY <2>9, <4>1, <4>2
    <3>2. UNCHANGED <<row, sentSince>>
      BY <2>9 DEF Check, Poll
    <3> QED
      BY <3>1, <3>2 DEF row
  <2>10. ASSUME NEW s \in Sessions, SendEvent(s) PROVE Hold'
    BY <2>10 DEF SendEvent, GoTo, row
  <2> QED
    BY <2>1, <2>2, <2>3, <2>4, <2>5, <2>6, <2>7, <2>8, <2>9, <2>10 DEF Next, Run
<1>3. Stopping => TypeOK /\ Hold
  BY DEF Stopping
<1>4. Hold => StopTakesHold
  OBVIOUS
<1> HIDE DEF Hold
<1> QED
  BY <1>1, <1>2, <1>3, <1>4, TypeInvariant, PTL DEF Spec

(* A completed session has sent and counted every event it fetched, and    *)
(* the progress column never runs ahead of the requests: the loop counter, *)
(* the row and the history move together, whatever the handlers write.     *)
THEOREM ProgressIsTrue == Spec => [](CompletedMeansAll /\ ProgressIsReal)
<1> DEFINE Counts == CountsAgree /\ CompletedMeansAll /\ ProgressIsReal
<1>1. Init => Counts
  BY DEF Init, CountsAgree, Agree, Looping, CompletedMeansAll, ProgressIsReal
<1>2. TypeOK /\ Counts /\ [Next]_vars => Counts'
  <2> SUFFICES ASSUME TypeOK, Counts, [Next]_vars PROVE Counts'
    OBVIOUS
  <2> USE BoundsAssumption
      DEF CountsAgree, Agree, Looping, CompletedMeansAll, ProgressIsReal, TypeOK, InLoop
  <2>1. CASE UNCHANGED vars
    BY <2>1 DEF vars, row, local
  <2>2. CASE EventStored
    BY <2>2 DEF EventStored, row, local
  <2>3. CASE Restart
    BY <2>3 DEF Restart, row
  <2>4. ASSUME NEW s \in Sessions, StartSession(s) PROVE Counts'
    BY <2>4 DEF StartSession, SetStatus, GoTo
  <2>5. ASSUME NEW s \in Sessions, \E new \in {"paused", "running", "cancelled"} : Command(s, new) PROVE Counts'
    BY <2>5 DEF Command, SetStatus, local
  <2>6. ASSUME NEW s \in Sessions, Load(s) \/ Fetch(s) PROVE Counts'
    BY <2>6 DEF Load, Fetch, GoTo, Fault, row
  <2>7. ASSUME NEW s \in Sessions, ResetProgress(s) PROVE Counts'
    BY <2>7 DEF ResetProgress, TrySetProgress, GoTo, Fault
  <2>8. ASSUME NEW s \in Sessions, RecordProgress(s) PROVE Counts'
    BY <2>8 DEF RecordProgress, TrySetProgress, GoTo, Fault
  <2>9. ASSUME NEW s \in Sessions, Fail(s) \/ CancelPaused(s) PROVE Counts'
    BY <2>9 DEF Fail, CancelPaused, TrySetStatus, SetStatus, GoTo, Fault, row
  <2>10. ASSUME NEW s \in Sessions, Complete(s) PROVE Counts'
    BY <2>10 DEF Complete, TrySetStatus, SetStatus, GoTo, Fault, row
  <2>11. ASSUME NEW s \in Sessions, Check(s) PROVE Counts'
    BY <2>11 DEF Check, OnStatus, GoTo, Fault, row
  <2>12. ASSUME NEW s \in Sessions, Poll(s) PROVE Counts'
    BY <2>12 DEF Poll, OnPoll, GoTo, Fault, row
  <2>13. ASSUME NEW s \in Sessions, SendEvent(s) PROVE Counts'
    BY <2>13 DEF SendEvent, GoTo, row
  <2> QED
    BY <2>1, <2>2, <2>3, <2>4, <2>5, <2>6, <2>7, <2>8, <2>9, <2>10, <2>11, <2>12, <2>13 DEF Next, Run
<1>3. Counts => CompletedMeansAll /\ ProgressIsReal
  OBVIOUS
<1> HIDE DEF Counts
<1> QED
  BY <1>1, <1>2, <1>3, TypeInvariant, PTL DEF Spec

=============================================================================
