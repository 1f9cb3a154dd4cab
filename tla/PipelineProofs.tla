--------------------------- MODULE PipelineProofs ---------------------------
(* Proofs about Pipeline, for any events, pool sizes and bounds: types, no *)
(* duplication, the records, and that it implements Handover.              *)
EXTENDS Pipeline, SequenceTheorems, TLAPS

-----------------------------------------------------------------------------
(* The strengthenings *)

(* What a list holds, without the order. *)
Contents(l) == {list[l][k] : k \in DOMAIN list[l]}

Busy(p, i) == held[p][i] # Nothing

(* A request the handler has not pushed. *)
Before(e) == request[e] \in {"none", "rejected", "enqueueing"}

(* Only file events are on the bridge's side, orchestrators only push, and *)
(* workers that were not started have nothing to do.                       *)
Sorted ==
    /\ \A m \in Contents("extraction") : m.id \in FileEvents
    /\ \A i \in Ids : Busy("bridge", i) => held["bridge"][i].id \in FileEvents
    /\ \A i \in Ids : step["orchestrator"][i] \in Idle \union {"enqueueing"}
    /\ \A p \in Pools, i \in Ids :
          i > pool[p] \/ process[p] = "down" => step[p][i] = "stopped"

(* A process that is not up was stopped. *)
StopsAreOutages == \A p \in Pools : process[p] # "up" => outages > 0

(* What has not been pushed is nowhere. *)
Unsent ==
    /\ \A l \in Lists : \A m \in Contents(l) : ~Before(m.id)
    /\ \A p \in Pools, i \in Ids : Busy(p, i) => ~Before(held[p][i].id)

Typed == TypeOK /\ Sorted /\ StopsAreOutages /\ Unsent

(* No two positions of the lists, nor two workers, nor a position and a    *)
(* worker, are about one event.                                            *)
Apart ==
    /\ \A l, m \in Lists : \A j \in DOMAIN list[l], k \in DOMAIN list[m] :
          list[l][j].id = list[m][k].id => l = m /\ j = k
    /\ \A p, q \in Pools, i, j \in Ids :
          Busy(p, i) /\ Busy(q, j) /\ held[p][i].id = held[q][j].id => p = q /\ i = j
    /\ \A l \in Lists, p \in Pools, i \in Ids : \A k \in DOMAIN list[l] :
          Busy(p, i) => list[l][k].id # held[p][i].id

(* What the records say of an item: nothing yet, or how it ended.          *)
Verdicts(e) == {b \in BOOLEAN : <<e, b>> \in records}
Fresh(m)    == ~m.extracted /\ Verdicts(m.id) = {}
Told(m)     == IF m.id \in FileEvents THEN Verdicts(m.id) = {m.extracted} ELSE ~m.extracted

(* What is true of the item of a worker of the bridge, from where it is.   *)
AtStep(m, s) ==
    /\ s \in {"downloading", "uploading", "extracting", "failing"} => Fresh(m)
    /\ s = "recording" => m.extracted /\ Verdicts(m.id) = {}
    /\ s \in {"templating", "enqueueing"} => Told(m)
    /\ s = "templating" => m.extracted

RecordsKept ==
    /\ \A m \in Contents("incoming") \union Contents("extraction") : Fresh(m)
    /\ \A m \in Contents("delivery") : Told(m)
    /\ \A i \in Ids : Busy("orchestrator", i) => Fresh(held["orchestrator"][i])
    /\ \A i \in Ids : Busy("bridge", i) => AtStep(held["bridge"][i], step["bridge"][i])
    /\ \A e \in Events : Before(e) => Verdicts(e) = {}
    /\ \A e \in templates : <<e, TRUE>> \in records

-----------------------------------------------------------------------------
(* The lists *)

LEMMA ContentsAreItems ==
    ASSUME TypeOK, NEW l \in Lists PROVE Contents(l) \subseteq Items /\ list[l] \in Seq(Items)
<1>1. list[l] \in Seq(Items)
  BY DEF TypeOK
<1> QED
  BY <1>1, ElementOfSeq, LenProperties DEF Contents

LEMMA PushContents ==
    ASSUME TypeOK, NEW l \in Lists, NEW m \in Items, Push(l, m)
    PROVE  /\ list' \in [Lists -> Seq(Items)]
           /\ Contents(l)' = Contents(l) \union {m}
           /\ \A k \in Lists \ {l} : Contents(k)' = Contents(k)
<1>1. list \in [Lists -> Seq(Items)] /\ list' = [list EXCEPT ![l] = Append(@, m)]
  BY DEF TypeOK, Push
<1> DEFINE s == list[l]
           t == Append(s, m)
<1>2. s \in Seq(Items) /\ t \in Seq(Items) /\ list'[l] = t
  BY <1>1
<1>3. /\ DOMAIN s = 1..Len(s) /\ DOMAIN t = 1..Len(s)+1 /\ Len(s) \in Nat
      /\ t[Len(s) + 1] = m /\ \A k \in 1..Len(s) : t[k] = s[k]
  BY <1>2
<1> HIDE DEF s, t
<1>4. {t[k] : k \in DOMAIN t} = {s[k] : k \in DOMAIN s} \union {m}
  BY <1>3
<1> QED
  BY <1>1, <1>2, <1>4 DEF Contents, s

LEMMA BrokenPushContents ==
    ASSUME TypeOK, NEW l \in Lists, NEW m \in Items, BrokenPush(l, m)
    PROVE  /\ list' \in [Lists -> Seq(Items)]
           /\ Contents(l)' = Contents(l) \union {m} \/ UNCHANGED list
           /\ \A k \in Lists \ {l} : Contents(k)' = Contents(k)
<1>1. list \in [Lists -> Seq(Items)]
  BY DEF TypeOK
<1> DEFINE s == list[l]
<1>2. PICK copies \in {<<>>, <<m>>, <<m, m>>} : list' = [list EXCEPT ![l] = s \o copies]
  BY DEF BrokenPush
<1> DEFINE t == s \o copies
<1>3. s \in Seq(Items) /\ copies \in Seq(Items) /\ t \in Seq(Items) /\ list'[l] = t
  <2>1. s \in Seq(Items) /\ list'[l] = t
    BY <1>1, <1>2
  <2>2. copies \in Seq(Items)
    <3>1. <<>> \in Seq(Items)
      BY EmptySeq
    <3>2. <<m>> \in Seq(Items) /\ <<m, m>> \in Seq(Items)
      OBVIOUS
    <3> QED
      BY <3>1, <3>2
  <2> QED
    BY <2>1, <2>2, ConcatProperties
<1>4. /\ DOMAIN s = 1..Len(s) /\ Len(s) \in Nat /\ DOMAIN t = 1..Len(s) + Len(copies)
      /\ \A k \in 1..Len(s) : t[k] = s[k]
      /\ \A k \in 1..Len(copies) : t[Len(s) + k] = copies[k]
      /\ \A k \in Len(s) + 1..Len(s) + Len(copies) : t[k] = copies[k - Len(s)]
  BY <1>3, ConcatProperties
<1>5. CASE copies = <<>>
  BY <1>1, <1>2, <1>3, <1>5 DEF Contents
<1>6. CASE copies # <<>>
  <2>1. Len(copies) \in 1..2 /\ \A k \in 1..Len(copies) : copies[k] = m
    BY <1>2, <1>6
  <2> HIDE DEF s, t
  <2>2. {t[k] : k \in DOMAIN t} = {s[k] : k \in DOMAIN s} \union {m}
    <3>1. \A k \in DOMAIN t : k \in DOMAIN s \/ k - Len(s) \in 1..Len(copies)
      BY <1>4, <2>1
    <3>2. \A k \in DOMAIN t : IF k \in DOMAIN s THEN t[k] = s[k] ELSE t[k] = m
      BY <1>4, <2>1, <3>1
    <3>3. Len(s) + 1 \in DOMAIN t /\ t[Len(s) + 1] = m /\ \A k \in DOMAIN s : k \in DOMAIN t
      <4>0. DOMAIN s = 1..Len(s) /\ DOMAIN t = 1..Len(s) + Len(copies) /\ Len(s) \in Nat
        BY <1>4
      <4>1. \A n, c \in Nat : c > 0 => n + 1 \in 1..n + c /\ \A k \in 1..n : k \in 1..n + c
        OBVIOUS
      <4>2. Len(s) + 1 \in DOMAIN t /\ \A k \in DOMAIN s : k \in DOMAIN t
        BY <4>0, <4>1, <2>1
      <4>3. 1 \in 1..Len(copies) /\ copies[1] = m
        BY <2>1
      <4> QED
        BY <1>4, <4>2, <4>3
    <3> QED
      BY <1>4, <3>2, <3>3
  <2> QED
    BY <1>1, <1>2, <1>3, <2>2 DEF Contents, s, t
<1> QED
  BY <1>5, <1>6

LEMMA PopContents ==
    ASSUME TypeOK, NEW l \in Lists, list[l] # <<>>, list' = [list EXCEPT ![l] = Tail(@)]
    PROVE  /\ list' \in [Lists -> Seq(Items)] /\ Head(list[l]) \in Items
           /\ Contents(l) = Contents(l)' \union {Head(list[l])}
           /\ \A k \in Lists \ {l} : Contents(k)' = Contents(k)
<1>1. list \in [Lists -> Seq(Items)]
  BY DEF TypeOK
<1> DEFINE s == list[l]
           t == Tail(s)
<1>2. s \in Seq(Items) /\ t \in Seq(Items) /\ list'[l] = t /\ s # <<>>
  BY <1>1, HeadTailProperties
<1>3. /\ DOMAIN s = 1..Len(s) /\ Len(s) \in Nat \ {0} /\ DOMAIN t = 1..Len(s) - 1
      /\ Head(s) = s[1] /\ \A k \in 1..Len(s) - 1 : t[k] = s[k + 1]
  BY <1>2, HeadTailProperties, LenProperties, EmptySeq
<1> HIDE DEF s, t
<1>4. {s[k] : k \in DOMAIN s} = {t[k] : k \in DOMAIN t} \union {Head(s)}
  <2>1. \A k \in DOMAIN s : k = 1 \/ (k - 1 \in DOMAIN t /\ s[k] = t[k - 1])
    BY <1>3
  <2>2. \A k \in DOMAIN t : k + 1 \in DOMAIN s /\ t[k] = s[k + 1]
    BY <1>3
  <2>3. 1 \in DOMAIN s
    BY <1>3
  <2> QED
    BY <1>3, <2>1, <2>2, <2>3
<1>5. Head(s) \in Items
  BY <1>2, <1>3, ElementOfSeq
<1> QED
  BY <1>1, <1>2, <1>4, <1>5 DEF Contents, s, t

-----------------------------------------------------------------------------
(* Types *)

LEMMA IdsArePositive == Ids \subseteq Nat \ {0} /\ PoolLimit \in Nat
  BY PoolAssumption DEF Ids, PoolLimit, Larger

LEMMA InitTyped == Init => Typed
<1> SUFFICES ASSUME Init PROVE Typed
  OBVIOUS
<1>1. \A l \in Lists : list[l] = <<>> /\ Contents(l) = {}
  BY DEF Init, Contents
<1>2. list \in [Lists -> Seq(Items)]
  BY EmptySeq DEF Init
<1>3. pool \in [Pools -> 0..PoolLimit]
  BY PoolAssumption DEF Init, PoolLimit, Larger
<1>4. step \in [Pools -> [Ids -> Steps]] /\ held \in [Pools -> [Ids -> Items \union {Nothing}]]
  BY DEF Init, Started, Steps, Idle
<1>5. \A p \in Pools, i \in Ids : step[p][i] \in Idle /\ held[p][i] = Nothing
  BY DEF Init, Started, Idle
<1>6. TypeOK
  BY <1>2, <1>3, <1>4, <1>5, BoundsAssumption DEF Init, TypeOK, Answers
<1>7. Sorted
  <2>1. \A p \in Pools, i \in Ids : i > pool[p] \/ process[p] = "down" => step[p][i] = "stopped"
    BY IdsArePositive, PoolAssumption DEF Init, Started
  <2> QED
    BY <1>1, <1>5, <2>1 DEF Sorted, Busy, Lists, Pools
<1>8. StopsAreOutages /\ Unsent
  BY <1>1, <1>5 DEF Init, StopsAreOutages, Unsent, Busy
<1> QED
  BY <1>6, <1>7, <1>8 DEF Typed

(* A worker goes to a step with an item, or none.                          *)
Moves(p, i, s, h) ==
    /\ GoTo(p, i, s)
    /\ Hold(p, i, h) \/ (UNCHANGED held /\ h = held[p][i])

LEMMA MovesOne ==
    ASSUME TypeOK, NEW p \in Pools, NEW i \in Ids, NEW s \in Steps, NEW h \in Items \union {Nothing},
           h = Nothing <=> s \in Idle, Moves(p, i, s, h)
    PROVE  /\ step' \in [Pools -> [Ids -> Steps]]
           /\ held' \in [Pools -> [Ids -> Items \union {Nothing}]]
           /\ \A q \in Pools, j \in Ids : held'[q][j] = Nothing <=> step'[q][j] \in Idle
           /\ step'[p][i] = s /\ held'[p][i] = h
           /\ \A q \in Pools, j \in Ids : q # p \/ j # i =>
                 step'[q][j] = step[q][j] /\ held'[q][j] = held[q][j]
<1>1. step \in [Pools -> [Ids -> Steps]] /\ held \in [Pools -> [Ids -> Items \union {Nothing}]]
  BY DEF TypeOK
<1>2. /\ step' \in [Pools -> [Ids -> Steps]] /\ step'[p][i] = s
      /\ \A q \in Pools, j \in Ids : q # p \/ j # i => step'[q][j] = step[q][j]
  BY <1>1 DEF Moves, GoTo
<1>3. /\ held' \in [Pools -> [Ids -> Items \union {Nothing}]] /\ held'[p][i] = h
      /\ \A q \in Pools, j \in Ids : q # p \/ j # i => held'[q][j] = held[q][j]
  <2>1. CASE Hold(p, i, h)
    BY <1>1, <2>1 DEF Hold
  <2>2. CASE UNCHANGED held /\ h = held[p][i]
    BY <1>1, <2>2
  <2> QED
    BY <2>1, <2>2 DEF Moves
<1>4. \A q \in Pools, j \in Ids : held'[q][j] = Nothing <=> step'[q][j] \in Idle
  <2> SUFFICES ASSUME NEW q \in Pools, NEW j \in Ids
               PROVE  held'[q][j] = Nothing <=> step'[q][j] \in Idle
    OBVIOUS
  <2>1. CASE q = p /\ j = i
    BY <1>2, <1>3, <2>1
  <2>2. CASE q # p \/ j # i
    BY <1>2, <1>3, <2>2 DEF TypeOK
  <2> QED
    BY <2>1, <2>2
<1> QED
  BY <1>2, <1>3, <1>4

LEMMA HoldsItem ==
    ASSUME TypeOK, NEW p \in Pools, NEW i \in Ids, step[p][i] \notin Idle
    PROVE  held[p][i] \in Items /\ Busy(p, i)
<1>1. held[p][i] \in Items \union {Nothing}
  BY DEF TypeOK
<1>2. held[p][i] # Nothing
  BY DEF TypeOK
<1> QED
  BY <1>1, <1>2 DEF Busy

(* What a worker's step has to respect, whatever else it does.             *)
LEMMA WorkerKeepsTyped ==
    ASSUME Typed, NEW p \in Pools, NEW i \in Ids, NEW s \in Steps, NEW h \in Items \union {Nothing},
           h = Nothing <=> s \in Idle, Moves(p, i, s, h),
           process[p] # "down", step[p][i] # "stopped",
           p = "orchestrator" => s \in Idle \union {"enqueueing"},
           h # Nothing => ~Before(h.id) /\ (p = "bridge" => h.id \in FileEvents),
           list' \in [Lists -> Seq(Items)],
           \A l \in Lists : \A m \in Contents(l)' \ Contents(l) :
               ~Before(m.id) /\ (l = "extraction" => m.id \in FileEvents),
           UNCHANGED <<request, process, pool, outages>>,
           records' \subseteq FileEvents \X BOOLEAN, templates' \subseteq FileEvents,
           faults' \in 0..MaxFaults
    PROVE  Typed'
<1>1. TypeOK
  BY DEF Typed
<1>2. /\ step' \in [Pools -> [Ids -> Steps]]
      /\ held' \in [Pools -> [Ids -> Items \union {Nothing}]]
      /\ \A q \in Pools, j \in Ids : held'[q][j] = Nothing <=> step'[q][j] \in Idle
      /\ step'[p][i] = s /\ held'[p][i] = h
      /\ \A q \in Pools, j \in Ids : q # p \/ j # i =>
            step'[q][j] = step[q][j] /\ held'[q][j] = held[q][j]
  BY <1>1, MovesOne
<1>3. TypeOK'
  BY <1>1, <1>2 DEF TypeOK
<1>4. Sorted'
  <2>1. \A m \in Contents("extraction")' : m.id \in FileEvents
    BY DEF Typed, Sorted, Lists
  <2>2. \A j \in Ids : Busy("bridge", j)' => held'["bridge"][j].id \in FileEvents
    BY <1>2 DEF Typed, Sorted, Busy, Pools
  <2>3. \A j \in Ids : step'["orchestrator"][j] \in Idle \union {"enqueueing"}
    BY <1>2 DEF Typed, Sorted, Pools
  <2>4. \A q \in Pools, j \in Ids : j > pool'[q] \/ process'[q] = "down" => step'[q][j] = "stopped"
    BY <1>2 DEF Typed, Sorted
  <2> QED
    BY <2>1, <2>2, <2>3, <2>4 DEF Sorted
<1>5. StopsAreOutages'
  BY DEF Typed, StopsAreOutages
<1>6. Unsent'
  <2>1. \A e \in Events : Before(e)' <=> Before(e)
    BY DEF Before
  <2>2. ASSUME NEW l \in Lists, NEW m \in Contents(l)' PROVE ~Before(m.id)'
    BY DEF Typed, Unsent, Before
  <2>3. ASSUME NEW q \in Pools, NEW j \in Ids, Busy(q, j)' PROVE ~Before(held[q][j].id)'
    BY <1>2, <2>3 DEF Typed, Unsent, Before, Busy
  <2> QED
    BY <2>2, <2>3 DEF Unsent
<1> QED
  BY <1>3, <1>4, <1>5, <1>6 DEF Typed

(* The steps of one worker. *)
LEMMA DequeueTyped == ASSUME Typed, NEW p \in Pools, NEW i \in Ids, Dequeue(p, i) PROVE Typed'
<1> DEFINE m == Head(list[Source(p)])
           s == IF p = "bridge" THEN "downloading" ELSE "enqueueing"
<1>1. TypeOK /\ Source(p) \in Lists
  BY DEF Typed, Source, Lists
<1>2. /\ list' \in [Lists -> Seq(Items)] /\ m \in Items
      /\ Contents(Source(p)) = Contents(Source(p))' \union {m}
      /\ \A l \in Lists \ {Source(p)} : Contents(l)' = Contents(l)
  BY <1>1, PopContents DEF Dequeue
<1>3. ~Before(m.id) /\ (p = "bridge" => m.id \in FileEvents)
  BY <1>1, <1>2 DEF Typed, Unsent, Sorted, Source
<1>4. Moves(p, i, s, m) /\ s \in Steps /\ ~(s \in Idle) /\ m # Nothing
  BY <1>2, NothingAssumption DEF Dequeue, Moves, Steps, Idle
<1>5. process[p] # "down" /\ step[p][i] # "stopped"
  BY DEF Dequeue, At
<1>6. \A l \in Lists : Contents(l)' \subseteq Contents(l)
  BY <1>2
<1>7. p = "orchestrator" => s \in Idle \union {"enqueueing"}
  OBVIOUS
<1> HIDE DEF m, s
<1>8. UNCHANGED <<request, process, pool, outages, records, templates, faults>>
  BY DEF Dequeue
<1>9. /\ records' \subseteq FileEvents \X BOOLEAN /\ templates' \subseteq FileEvents
      /\ faults' \in 0..MaxFaults
  BY <1>1, <1>8 DEF TypeOK
<1> QED
  BY <1>2, <1>3, <1>4, <1>5, <1>6, <1>7, <1>8, <1>9, WorkerKeepsTyped

LEMMA StopPollingTyped == ASSUME Typed, NEW p \in Pools, NEW i \in Ids, StopPolling(p, i) PROVE Typed'
<1>1. Moves(p, i, "stopped", Nothing)
  BY DEF StopPolling, Return, Moves
<1>2. process[p] # "down" /\ step[p][i] # "stopped"
  BY DEF StopPolling, At
<1>3. /\ list' \in [Lists -> Seq(Items)] /\ records' \subseteq FileEvents \X BOOLEAN
      /\ templates' \subseteq FileEvents /\ faults' \in 0..MaxFaults
      /\ \A l \in Lists : Contents(l)' = Contents(l)
  BY DEF Typed, TypeOK, StopPolling, Contents
<1>4. "stopped" \in Steps /\ "stopped" \in Idle
  BY DEF Steps, Idle
<1>5. UNCHANGED <<request, process, pool, outages>>
  BY DEF StopPolling
<1> QED
  BY <1>1, <1>2, <1>3, <1>4, <1>5, WorkerKeepsTyped

(* What the lists are after the push of a worker or of the handler.        *)
LEMMA FaultTyped == ASSUME TypeOK, Fault PROVE faults' \in 0..MaxFaults
  BY BoundsAssumption DEF TypeOK, Fault

LEMMA EnqueueTyped == ASSUME Typed, NEW p \in Pools, NEW i \in Ids, Enqueue(p, i) PROVE Typed'
<1> DEFINE m == held[p][i]
           l == Target(p, m)
           s == IF process[p] = "up" THEN "polling" ELSE "stopped"
<1>1. TypeOK
  BY DEF Typed
<1>2. m \in Items /\ m # Nothing /\ Busy(p, i)
  BY <1>1, HoldsItem DEF Enqueue, At, Idle, Busy
<1>3. l \in Lists /\ (l = "extraction" => m.id \in FileEvents) /\ ~Before(m.id)
  BY <1>2 DEF Target, Lists, Typed, Unsent
<1>4. Moves(p, i, s, Nothing) /\ s \in Steps /\ s \in Idle
  BY DEF Enqueue, Return, Moves, Steps, Idle
<1>5. process[p] # "down" /\ step[p][i] # "stopped"
  BY DEF Enqueue, At
<1>6. p = "orchestrator" => s \in Idle \union {"enqueueing"}
  BY <1>4
<1>7. UNCHANGED <<request, process, pool, outages, records, templates>>
  BY DEF Enqueue
<1>8. records' \subseteq FileEvents \X BOOLEAN /\ templates' \subseteq FileEvents
  BY <1>1, <1>7 DEF TypeOK
<1>9. \/ Succeeds(p)  /\ Push(l, m)
      \/ Breaks(p)    /\ BrokenPush(l, m)
      \/ Cancelled(p) /\ UNCHANGED list
  BY DEF Enqueue
<1> HIDE DEF m, l, s
<1>10. faults' \in 0..MaxFaults
  BY <1>1, <1>9, FaultTyped DEF Succeeds, Breaks, Cancelled, TypeOK
<1>11. list' \in [Lists -> Seq(Items)] /\ \A k \in Lists : Contents(k)' \ Contents(k) \subseteq IF k = l THEN {m} ELSE {}
  <2>1. CASE Push(l, m)
    BY <1>1, <1>2, <1>3, <2>1, PushContents
  <2>2. CASE BrokenPush(l, m)
    <3>1. \A k \in Lists : UNCHANGED list => Contents(k)' = Contents(k)
      BY DEF Contents
    <3> QED
      BY <1>1, <1>2, <1>3, <2>2, <3>1, BrokenPushContents
  <2>3. CASE UNCHANGED list
    BY <1>1, <2>3 DEF TypeOK, Contents
  <2> QED
    BY <1>9, <2>1, <2>2, <2>3
<1> QED
  BY <1>3, <1>4, <1>5, <1>6, <1>7, <1>8, <1>10, <1>11, WorkerKeepsTyped

LEMMA InsertTyped ==
    ASSUME TypeOK, NEW i \in Ids, NEW success \in BOOLEAN, Insert(i, success),
           held["bridge"][i].id \in FileEvents
    PROVE  records' \subseteq FileEvents \X BOOLEAN /\ faults' \in 0..MaxFaults
<1>1. <<held["bridge"][i].id, success>> \in FileEvents \X BOOLEAN
  OBVIOUS
<1>2. records \subseteq FileEvents \X BOOLEAN /\ faults \in 0..MaxFaults
  BY DEF TypeOK
<1>3. records' \subseteq FileEvents \X BOOLEAN
  BY <1>1, <1>2 DEF Insert
<1>4. faults' \in 0..MaxFaults
  BY <1>2, FaultTyped DEF Insert, Succeeds, Breaks, Cancelled
<1> QED
  BY <1>3, <1>4

(* Where processEvent may go from a step, and whether with an extended body. *)
BridgeGoes(i, s, h) ==
    /\ Moves("bridge", i, s, h)
    /\ step["bridge"][i] \notin Idle /\ process["bridge"] # "down"
    /\ s \in Steps \ Idle
    /\ h \in Items /\ h.id = held["bridge"][i].id

Process(i) ==
    Download(i) \/ Upload(i) \/ Extract(i) \/ RecordFailure(i) \/ RecordSuccess(i) \/ UpsertTemplate(i)

LEMMA ProcessGoes ==
    ASSUME TypeOK, NEW i \in Ids, Process(i)
    PROVE  /\ \E s, h : BridgeGoes(i, s, h)
           /\ UNCHANGED <<list, request, process, pool, outages>>
<1> DEFINE m == held["bridge"][i]
           after == [m EXCEPT !.extracted = TRUE]
<1>1. step["bridge"][i] \notin Idle /\ process["bridge"] # "down"
  BY DEF Process, Download, Upload, Extract, RecordFailure, RecordSuccess, UpsertTemplate, Bridge, At, Idle
<1>2. m \in Items
  BY <1>1, HoldsItem DEF Pools
<1>3. UNCHANGED <<list, request, process, pool, outages>>
  BY DEF Process, Download, Upload, Extract, RecordFailure, RecordSuccess, UpsertTemplate
<1>4. ASSUME NEW s \in Steps \ Idle, GoTo("bridge", i, s), UNCHANGED held PROVE BridgeGoes(i, s, m)
  BY <1>1, <1>2, <1>4 DEF BridgeGoes, Moves
<1>5. ASSUME Extract(i), ~UNCHANGED held PROVE BridgeGoes(i, "recording", after)
  <2>1. GoTo("bridge", i, "recording") /\ held' = [held EXCEPT !["bridge"][i].extracted = TRUE]
    BY <1>5 DEF Extract
  <2>2. Hold("bridge", i, after)
    BY <2>1 DEF Hold
  <2>3. after \in Items /\ after.id = m.id
    BY <1>2 DEF Items
  <2> QED
    BY <1>1, <2>1, <2>2, <2>3 DEF BridgeGoes, Moves, Steps, Idle
<1>6. CASE UNCHANGED held
  <2>1. PICK s \in {"uploading", "extracting", "recording", "failing", "templating", "enqueueing"} :
            GoTo("bridge", i, s)
    BY <1>6 DEF Process, Download, Upload, Extract, RecordFailure, RecordSuccess, UpsertTemplate
  <2>2. {"uploading", "extracting", "recording", "failing", "templating", "enqueueing"} \subseteq Steps \ Idle
    BY DEF Steps, Idle
  <2>3. BridgeGoes(i, s, m)
    BY <1>4, <1>6, <2>1, <2>2
  <2> QED
    BY <1>3, <2>3
<1>7. CASE ~UNCHANGED held
  <2>1. Extract(i)
    BY <1>7 DEF Process, Download, Upload, RecordFailure, RecordSuccess, UpsertTemplate
  <2> QED
    BY <1>3, <1>5, <1>7, <2>1
<1> QED
  BY <1>6, <1>7

LEMMA ProcessTyped == ASSUME Typed, NEW i \in Ids, Process(i) PROVE Typed'
<1>1. TypeOK /\ "bridge" \in Pools
  BY DEF Typed, Pools
<1>2. PICK s, h : BridgeGoes(i, s, h)
  BY <1>1, ProcessGoes
<1>3. UNCHANGED <<list, request, process, pool, outages>>
  BY <1>1, ProcessGoes
<1>4. Busy("bridge", i)
  BY <1>1, <1>2, HoldsItem DEF BridgeGoes
<1>5. held["bridge"][i].id \in FileEvents /\ ~Before(held["bridge"][i].id)
  BY <1>1, <1>4 DEF Typed, Sorted, Unsent
<1>6. /\ Moves("bridge", i, s, h) /\ process["bridge"] # "down" /\ step["bridge"][i] # "stopped"
      /\ s \in Steps /\ s \notin Idle /\ h \in Items /\ h # Nothing /\ h.id = held["bridge"][i].id
  BY <1>2, NothingAssumption DEF BridgeGoes, Idle
<1>7. list' \in [Lists -> Seq(Items)] /\ \A l \in Lists : Contents(l)' = Contents(l)
  BY <1>1, <1>3 DEF TypeOK, Contents
<1>8. records' \subseteq FileEvents \X BOOLEAN /\ faults' \in 0..MaxFaults
  <2>1. CASE Insert(i, TRUE) \/ Insert(i, FALSE)
    BY <1>1, <1>5, <2>1, InsertTyped
  <2>2. CASE Download(i) \/ Upload(i) \/ Extract(i)
    BY <1>1, <2>2 DEF TypeOK, Download, Upload, Extract
  <2>3. CASE UpsertTemplate(i)
    BY <1>1, <2>3, FaultTyped DEF TypeOK, UpsertTemplate, Succeeds, Breaks, Cancelled
  <2> QED
    BY <2>1, <2>2, <2>3 DEF Process, RecordFailure, RecordSuccess
<1>9. templates' \subseteq FileEvents
  BY <1>1, <1>5 DEF TypeOK, Process, Download, Upload, Extract, RecordFailure, RecordSuccess, UpsertTemplate
<1> QED
  BY <1>1, <1>3, <1>5, <1>6, <1>7, <1>8, <1>9, WorkerKeepsTyped

(* The handler, lost replies and the processes. *)
Handle(e) == Reject(e) \/ Admit(e) \/ EnqueueIncoming(e) \/ Accept(e)

LEMMA HandleTyped == ASSUME Typed, NEW e \in Events, Handle(e) PROVE Typed'
<1> DEFINE m == [id |-> e, extracted |-> FALSE]
<1>1. TypeOK /\ m \in Items /\ "incoming" \in Lists
  BY DEF Typed, Items, Lists
<1>2. UNCHANGED <<process, pool, step, held, records, templates, outages>>
  BY DEF Handle, Reject, Admit, EnqueueIncoming, Accept
<1>3. \E to \in Answers : /\ request' = [request EXCEPT ![e] = to]
                          /\ UNCHANGED list \/ to \in {"announcing", "unavailable"}
                          /\ ~Before(e) => to \in {"accepted"}
  BY DEF Handle, Reject, Admit, EnqueueIncoming, Accept, Answer, Answers, Before
<1>4. request' \in [Events -> Answers]
  BY <1>1, <1>3 DEF TypeOK
<1>5. /\ \A f \in Events : ~Before(f) => ~Before(f)'
      /\ UNCHANGED list \/ ~Before(e)'
  BY <1>1, <1>3 DEF Before, TypeOK
<1>6. /\ list' \in [Lists -> Seq(Items)] /\ faults' \in 0..MaxFaults
      /\ UNCHANGED list \/ (Contents("incoming")' \subseteq Contents("incoming") \union {m})
      /\ \A l \in Lists \ {"incoming"} : Contents(l)' = Contents(l)
  <2>1. CASE UNCHANGED <<list, faults>>
    BY <1>1, <2>1 DEF TypeOK, Contents
  <2>2. CASE Push("incoming", m) /\ UNCHANGED faults
    BY <1>1, <2>2, PushContents DEF TypeOK
  <2>3. CASE BrokenPush("incoming", m) /\ Fault
    BY <1>1, <2>3, BrokenPushContents, FaultTyped
  <2> QED
    BY <2>1, <2>2, <2>3 DEF Handle, Reject, Admit, EnqueueIncoming, Accept
<1>7. TypeOK'
  BY <1>1, <1>2, <1>4, <1>6 DEF TypeOK
<1>8. \A l \in Lists : Contents(l) \subseteq Items
  BY <1>1, ContentsAreItems
<1>9. Unsent'
  <2>1. ASSUME NEW l \in Lists, NEW n \in Contents(l)' PROVE ~Before(n.id)'
    <3>1. CASE n \in Contents(l)
      BY <1>5, <1>8, <3>1 DEF Typed, Unsent, Items
    <3>2. CASE n \notin Contents(l)
      <4>1. n = m /\ ~UNCHANGED list
        BY <1>6, <2>1, <3>2 DEF Contents
      <4> QED
        BY <1>5, <4>1
    <3> QED
      BY <3>1, <3>2
  <2>2. ASSUME NEW p \in Pools, NEW i \in Ids, Busy(p, i)' PROVE ~Before(held[p][i].id)'
    <3>1. Busy(p, i) /\ held'[p][i] = held[p][i]
      BY <1>2, <2>2 DEF Busy
    <3>2. held[p][i].id \in Events
      BY <1>1, <3>1 DEF TypeOK, Busy, Items
    <3> QED
      BY <1>5, <3>1, <3>2 DEF Typed, Unsent, Before
  <2> QED
    BY <2>1, <2>2 DEF Unsent
<1>10. Sorted'
  BY <1>2, <1>6 DEF Typed, Sorted, Busy, Lists
<1>11. StopsAreOutages'
  BY <1>2 DEF Typed, StopsAreOutages
<1> QED
  BY <1>7, <1>9, <1>10, <1>11 DEF Typed

LEMMA IngestionCrashTyped == ASSUME Typed, IngestionCrash PROVE Typed'
<1>1. TypeOK
  BY DEF Typed
<1>2. UNCHANGED <<list, process, pool, step, held, records, templates, faults>>
  BY DEF IngestionCrash
<1>3. outages' \in 0..MaxOutages /\ outages' > 0
  BY <1>1, BoundsAssumption DEF TypeOK, IngestionCrash, Outage
<1>4. request' \in [Events -> Answers] /\ \A e \in Events : ~Before(e) => ~Before(e)'
  BY <1>1 DEF TypeOK, IngestionCrash, Answers, Before
<1>5. TypeOK'
  BY <1>1, <1>2, <1>3, <1>4 DEF TypeOK
<1>6. \A l \in Lists : Contents(l)' = Contents(l) /\ Contents(l) \subseteq Items
  BY <1>1, <1>2, ContentsAreItems DEF Contents
<1>7. Unsent'
  <2>1. ASSUME NEW l \in Lists, NEW n \in Contents(l)' PROVE ~Before(n.id)'
    BY <1>4, <1>6 DEF Typed, Unsent, Items
  <2>2. ASSUME NEW p \in Pools, NEW i \in Ids, Busy(p, i)' PROVE ~Before(held[p][i].id)'
    <3>1. Busy(p, i) /\ held'[p][i] = held[p][i]
      BY <1>2, <2>2 DEF Busy
    <3>2. held[p][i].id \in Events
      BY <1>1, <3>1 DEF TypeOK, Busy, Items
    <3> QED
      BY <1>4, <3>1, <3>2 DEF Typed, Unsent, Before
  <2> QED
    BY <2>1, <2>2 DEF Unsent
<1>8. Sorted'
  BY <1>2, <1>6 DEF Typed, Sorted, Busy, Lists
<1>9. StopsAreOutages'
  BY <1>3 DEF StopsAreOutages
<1> QED
  BY <1>5, <1>7, <1>8, <1>9 DEF Typed

LEMMA ReplyLostTyped == ASSUME Typed, NEW p \in Pools, NEW i \in Ids, DequeueReplyLost(p, i) PROVE Typed'
<1>1. TypeOK /\ Source(p) \in Lists
  BY DEF Typed, Source, Lists
<1>2. UNCHANGED <<request, process, pool, step, held, records, templates, outages>>
  BY DEF DequeueReplyLost
<1>3. list' \in [Lists -> Seq(Items)] /\ \A l \in Lists : Contents(l)' \subseteq Contents(l)
  BY <1>1, PopContents DEF DequeueReplyLost
<1>4. faults' \in 0..MaxFaults
  BY <1>1, FaultTyped DEF DequeueReplyLost
<1>5. TypeOK'
  BY <1>1, <1>2, <1>3, <1>4 DEF TypeOK
<1>6. Sorted' /\ StopsAreOutages'
  BY <1>2, <1>3 DEF Typed, Sorted, StopsAreOutages, Busy, Lists
<1>7. Unsent'
  BY <1>2, <1>3 DEF Typed, Unsent, Busy, Before
<1> QED
  BY <1>5, <1>6, <1>7 DEF Typed

LEMMA ScaleUpTyped == ASSUME Typed, NEW p \in Pools, ScaleUp(p) PROVE Typed'
<1>1. TypeOK
  BY DEF Typed
<1>2. UNCHANGED <<list, request, process, held, records, templates, faults, outages>> /\ process[p] = "up"
  BY DEF ScaleUp
<1>3. /\ pool' = [pool EXCEPT ![p] = @ + Added(@)] /\ pool[p] < MaxWorkers
      /\ pool \in [Pools -> 0..PoolLimit]
  BY <1>1 DEF TypeOK, ScaleUp
<1>4. pool[p] + Added(pool[p]) \in 0..PoolLimit
  BY <1>3, PoolAssumption DEF Added, PoolLimit, Larger
<1>5. pool' \in [Pools -> 0..PoolLimit] /\ pool[p] \in Nat /\ pool'[p] \in Nat
  BY <1>3, <1>4, IdsArePositive
<1>6. /\ step' \in [Pools -> [Ids -> Steps]]
      /\ \A q \in Pools \ {p} : step'[q] = step[q] /\ pool'[q] = pool[q]
      /\ \A i \in Ids : step'[p][i] = IF i \in pool[p] + 1..pool'[p] THEN "polling" ELSE step[p][i]
  BY <1>1, <1>3 DEF TypeOK, ScaleUp, Steps, Idle
<1>7. \A i \in Ids : i \in pool[p] + 1..pool'[p] => step[p][i] = "stopped"
  BY <1>5, IdsArePositive DEF Typed, Sorted
<1>8. \A q \in Pools, i \in Ids : step'[q][i] = step[q][i] \/ (step'[q][i] = "polling" /\ step[q][i] = "stopped")
  BY <1>6, <1>7
<1>9. TypeOK'
  BY <1>1, <1>2, <1>5, <1>6, <1>8 DEF TypeOK, Idle
<1>10. Sorted'
  <2>1. ASSUME NEW i \in Ids, i > pool'[p] PROVE step'[p][i] = "stopped"
    <3>1. pool[p] <= pool'[p] /\ ~(i \in pool[p] + 1..pool'[p]) /\ i > pool[p]
      BY <1>3, <1>5, <2>1, PoolAssumption, IdsArePositive DEF Added
    <3> QED
      BY <1>6, <3>1 DEF Typed, Sorted
  <2>2. \A q \in Pools, i \in Ids : i > pool'[q] \/ process'[q] = "down" => step'[q][i] = "stopped"
    BY <1>2, <1>6, <2>1 DEF Typed, Sorted
  <2> QED
    BY <1>2, <1>8, <2>2 DEF Typed, Sorted, Busy, Contents, Idle, Pools
<1>11. StopsAreOutages' /\ Unsent'
  BY <1>2 DEF Typed, StopsAreOutages, Unsent, Contents, Busy, Before
<1> QED
  BY <1>9, <1>10, <1>11 DEF Typed

LEMMA ShutdownTyped == ASSUME Typed, NEW p \in Pools, Shutdown(p) PROVE Typed'
<1>1. TypeOK
  BY DEF Typed
<1>2. UNCHANGED <<list, request, pool, step, held, records, templates, faults>>
  BY DEF Shutdown
<1>3. outages' \in 0..MaxOutages /\ outages' > 0
  BY <1>1, BoundsAssumption DEF TypeOK, Shutdown, Outage
<1>4. /\ process' \in [Pools -> {"up", "stopping", "down"}]
      /\ \A q \in Pools : process'[q] = "down" => process[q] = "down"
  BY <1>1 DEF TypeOK, Shutdown
<1>5. TypeOK'
  BY <1>1, <1>2, <1>3, <1>4 DEF TypeOK
<1>6. Sorted'
  BY <1>2, <1>4 DEF Typed, Sorted, Busy, Contents
<1>7. StopsAreOutages' /\ Unsent'
  BY <1>2, <1>3 DEF Typed, StopsAreOutages, Unsent, Contents, Busy, Before
<1> QED
  BY <1>5, <1>6, <1>7 DEF Typed

LEMMA GoneTyped ==
    ASSUME Typed, NEW p \in Pools, Gone(p), outages' \in 0..MaxOutages, outages' > 0 PROVE Typed'
<1>1. TypeOK
  BY DEF Typed
<1>2. UNCHANGED <<list, request, records, templates, faults>>
  BY DEF Gone
<1>3. /\ process' \in [Pools -> {"up", "stopping", "down"}] /\ pool' \in [Pools -> 0..PoolLimit]
      /\ \A q \in Pools \ {p} : process'[q] = process[q] /\ pool'[q] = pool[q]
  BY <1>1, IdsArePositive DEF TypeOK, Gone
<1>4. /\ step' \in [Pools -> [Ids -> Steps]]
      /\ held' \in [Pools -> [Ids -> Items \union {Nothing}]]
      /\ \A q \in Pools \ {p} : step'[q] = step[q] /\ held'[q] = held[q]
      /\ \A i \in Ids : step'[p][i] = "stopped" /\ held'[p][i] = Nothing
  BY <1>1 DEF TypeOK, Gone, Steps, Idle
<1>5. TypeOK'
  <2>1. \A q \in Pools, i \in Ids : held'[q][i] = Nothing <=> step'[q][i] \in Idle
    <3>1. ASSUME NEW i \in Ids PROVE held'[p][i] = Nothing /\ step'[p][i] \in Idle
      BY <1>4 DEF Idle
    <3>2. ASSUME NEW q \in Pools \ {p}, NEW i \in Ids
          PROVE  held'[q][i] = Nothing <=> step'[q][i] \in Idle
      <4>1. held[q][i] = Nothing <=> step[q][i] \in Idle
        BY <1>1 DEF TypeOK
      <4>2. held'[q] = held[q] /\ step'[q] = step[q]
        BY <1>4
      <4> QED
        BY <4>1, <4>2
    <3> QED
      BY <3>1, <3>2
  <2> QED
    BY <1>1, <1>2, <1>3, <1>4, <2>1 DEF TypeOK
<1>6. Sorted'
  <2>1. \A q \in Pools, i \in Ids : i > pool'[q] \/ process'[q] = "down" => step'[q][i] = "stopped"
    BY <1>3, <1>4 DEF Typed, Sorted
  <2>2. \A i \in Ids : Busy("bridge", i)' => held'["bridge"][i].id \in FileEvents
    BY <1>4 DEF Typed, Sorted, Busy, Pools
  <2>3. \A i \in Ids : step'["orchestrator"][i] \in Idle \union {"enqueueing"}
    BY <1>4 DEF Typed, Sorted, Idle, Pools
  <2> QED
    BY <1>2, <2>1, <2>2, <2>3 DEF Typed, Sorted, Contents
<1>7. StopsAreOutages'
  BY DEF StopsAreOutages
<1>8. Unsent'
  BY <1>2, <1>4 DEF Typed, Unsent, Contents, Busy, Before
<1> QED
  BY <1>5, <1>6, <1>7, <1>8 DEF Typed

LEMMA StartTyped == ASSUME Typed, NEW p \in Pools, Start(p) PROVE Typed'
<1>1. TypeOK
  BY DEF Typed
<1>2. UNCHANGED <<list, request, held, records, templates, faults, outages>>
  BY DEF Start
<1>3. /\ process' \in [Pools -> {"up", "stopping", "down"}] /\ pool' \in [Pools -> 0..PoolLimit]
      /\ \A q \in Pools \ {p} : process'[q] = process[q] /\ pool'[q] = pool[q]
      /\ process[p] = "down" /\ process'[p] = "up" /\ pool'[p] = InitialWorkers
  BY <1>1, PoolAssumption DEF TypeOK, Start, PoolLimit, Larger
<1>4. /\ step' \in [Pools -> [Ids -> Steps]]
      /\ \A q \in Pools \ {p} : step'[q] = step[q]
      /\ \A i \in Ids : step'[p][i] = IF i <= InitialWorkers THEN "polling" ELSE "stopped"
  BY <1>1 DEF TypeOK, Start, Started, Steps, Idle
<1>5. \A i \in Ids : step[p][i] = "stopped"
  BY <1>3 DEF Typed, Sorted
<1>6. \A q \in Pools, i \in Ids : step'[q][i] = step[q][i] \/ (step'[q][i] \in Idle /\ step[q][i] \in Idle)
  BY <1>4, <1>5 DEF Idle
<1>7. TypeOK'
  BY <1>1, <1>2, <1>3, <1>4, <1>6 DEF TypeOK
<1>8. Sorted'
  <2>1. \A q \in Pools, i \in Ids : i > pool'[q] \/ process'[q] = "down" => step'[q][i] = "stopped"
    <3>1. ASSUME NEW i \in Ids, i > InitialWorkers PROVE step'[p][i] = "stopped"
      BY <1>4, <3>1, IdsArePositive, PoolAssumption
    <3>2. ASSUME NEW q \in Pools \ {p}, NEW i \in Ids, i > pool'[q] \/ process'[q] = "down"
          PROVE  step'[q][i] = "stopped"
      BY <1>3, <1>4, <3>2 DEF Typed, Sorted
    <3> QED
      BY <1>3, <3>1, <3>2
  <2> QED
    BY <1>2, <1>6, <2>1 DEF Typed, Sorted, Busy, Contents, Pools
<1>9. StopsAreOutages' /\ Unsent'
  BY <1>2, <1>3 DEF Typed, StopsAreOutages, Unsent, Contents, Busy, Before
<1> QED
  BY <1>7, <1>8, <1>9 DEF Typed

LEMMA NextTyped == ASSUME Typed, [Next]_vars PROVE Typed'
<1>1. CASE UNCHANGED vars
  BY <1>1 DEF vars, Typed, TypeOK, Sorted, StopsAreOutages, Unsent, Contents, Busy, Before
<1>2. ASSUME NEW e \in Events, Reject(e) \/ Admit(e) \/ EnqueueIncoming(e) \/ Accept(e) PROVE Typed'
  BY <1>2, HandleTyped DEF Handle
<1>3. ASSUME NEW p \in Pools, NEW i \in Ids, Worker(p, i) \/ DequeueReplyLost(p, i) PROVE Typed'
  BY <1>3, DequeueTyped, StopPollingTyped, EnqueueTyped, ProcessTyped, ReplyLostTyped DEF Worker, Process
<1>4. ASSUME NEW p \in Pools, Exit(p) PROVE Typed'
  <2>1. process[p] # "up" /\ Gone(p) /\ UNCHANGED outages
    BY <1>4 DEF Exit
  <2>2. outages' \in 0..MaxOutages /\ outages' > 0
    BY <2>1 DEF Typed, TypeOK, StopsAreOutages
  <2> QED
    BY <2>1, <2>2, GoneTyped
<1>5. ASSUME NEW p \in Pools, Crash(p) PROVE Typed'
  <2>1. Gone(p) /\ Outage
    BY <1>5 DEF Crash
  <2>2. outages' \in 0..MaxOutages /\ outages' > 0
    BY <2>1, BoundsAssumption DEF Typed, TypeOK, Outage
  <2> QED
    BY <2>1, <2>2, GoneTyped
<1> QED
  BY <1>1, <1>2, <1>3, <1>4, <1>5, IngestionCrashTyped, ScaleUpTyped, ShutdownTyped, StartTyped DEF Next

LEMMA TypedInvariant == Spec => []Typed
  BY InitTyped, NextTyped, PTL DEF Spec

(* The pipeline is well typed: a worker holds an item exactly while it is  *)
(* busy with it, and no scaler or restart takes a pool past its limit.     *)
THEOREM TypeInvariant == Spec => []TypeOK
<1>1. Typed => TypeOK
  BY DEF Typed
<1> QED
  BY <1>1, TypedInvariant, PTL

-----------------------------------------------------------------------------
(* The contract *)

HandedOver(e) == \E m \in Contents("delivery") : m.id = e
InHand(e)     == \E p \in Pools, i \in Ids : Busy(p, i) /\ held[p][i].id = e
InList(e)     == \E l \in Lists : \E m \in Contents(l) : m.id = e
OnItsWay(e)   == InList(e) \/ InHand(e)

LEMMA PositionsInList ==
    ASSUME NEW e \in Events PROVE \A x : x \in Positions(e) <=>
        \E l \in Lists : \E k \in DOMAIN list[l] : x = <<l, k>> /\ list[l][k].id = e
  BY DEF Positions

LEMMA HoldersInHand ==
    ASSUME NEW e \in Events PROVE \A x : x \in Holders(e) <=>
        \E p \in Pools, i \in Ids : x = <<p, i>> /\ Busy(p, i) /\ held[p][i].id = e
<1>1. \A p \in Pools, i \in Ids : <<p, i>> \in Holders(e) <=> Busy(p, i) /\ held[p][i].id = e
  BY DEF Holders, Busy
<1>2. Holders(e) \subseteq Pools \X Ids
  BY DEF Holders
<1> QED
  BY <1>1, <1>2

LEMMA PlacesOnTheWay ==
    ASSUME NEW e \in Events PROVE Places(e) # {} <=> OnItsWay(e)
<1>1. Positions(e) # {} <=> InList(e)
  <2>1. ASSUME NEW l \in Lists, NEW k \in DOMAIN list[l], list[l][k].id = e PROVE <<l, k>> \in Positions(e)
    BY <2>1, PositionsInList
  <2>2. InList(e) <=> \E l \in Lists : \E k \in DOMAIN list[l] : list[l][k].id = e
    BY DEF InList, Contents
  <2>3. ASSUME NEW x \in Positions(e) PROVE InList(e)
    BY <2>2, <2>3, PositionsInList
  <2>4. ASSUME InList(e) PROVE Positions(e) # {}
    BY <2>1, <2>2, <2>4
  <2> QED
    BY <2>3, <2>4
<1>2. Holders(e) # {} <=> InHand(e)
  <2>1. ASSUME NEW p \in Pools, NEW i \in Ids, Busy(p, i), held[p][i].id = e PROVE <<p, i>> \in Holders(e)
    BY <2>1, HoldersInHand
  <2>2. ASSUME NEW x \in Holders(e) PROVE InHand(e)
    BY <2>2, HoldersInHand DEF InHand
  <2>3. ASSUME InHand(e) PROVE Holders(e) # {}
    BY <2>1, <2>3 DEF InHand
  <2> QED
    BY <2>2, <2>3
<1> QED
  BY <1>1, <1>2 DEF OnItsWay, Places

LEMMA StateIs ==
    ASSUME NEW e \in Events
    PROVE  State(e) = IF HandedOver(e) THEN "handedOver"
                      ELSE IF OnItsWay(e) THEN "taken"
                      ELSE IF Before(e) THEN "unknown" ELSE "lost"
<1>1. HandedOver(e) <=> \E k \in DOMAIN list["delivery"] : list["delivery"][k].id = e
  BY DEF HandedOver, Contents
<1>2. HandedOver(e) => OnItsWay(e)
  BY DEF HandedOver, OnItsWay, InList, Lists
<1>3. Places(e) # {} <=> OnItsWay(e)
  BY PlacesOnTheWay
<1>4. CASE HandedOver(e)
  BY <1>1, <1>2, <1>3, <1>4 DEF State
<1>5. CASE ~HandedOver(e) /\ OnItsWay(e)
  BY <1>1, <1>3, <1>5 DEF State
<1>6. CASE ~HandedOver(e) /\ ~OnItsWay(e)
  BY <1>1, <1>3, <1>6 DEF State, Before
<1> QED
  BY <1>4, <1>5, <1>6

LEMMA StatesAre ==
    \A e \in Events : State(e) = IF HandedOver(e) THEN "handedOver"
                                 ELSE IF OnItsWay(e) THEN "taken"
                                 ELSE IF Before(e) THEN "unknown" ELSE "lost"
  BY StateIs

(* What no step does to an event: take it back, drop it undisturbed, or    *)
(* bring it up from nothing.                                               *)
Forward(e) ==
    /\ HandedOver(e) => HandedOver(e)'
    /\ ~Before(e) => ~Before(e)'
    /\ OnItsWay(e) => OnItsWay(e)' \/ ~Undisturbed'
    /\ OnItsWay(e)' => OnItsWay(e) \/ (Before(e) /\ ~HandedOver(e)')
    /\ Before(e) => Before(e)' \/ OnItsWay(e)' \/ ~Undisturbed'

LEMMA HandsMove ==
    ASSUME TypeOK, NEW p \in Pools, NEW i \in Ids, NEW s \in Steps, NEW h \in Items \union {Nothing},
           h = Nothing <=> s \in Idle, Moves(p, i, s, h)
    PROVE  /\ \A e \in Events : InHand(e) => InHand(e)' \/ (Busy(p, i) /\ held[p][i].id = e)
           /\ \A e \in Events : InHand(e)' => InHand(e) \/ (h # Nothing /\ h.id = e)
           /\ h # Nothing => InHand(h.id)'
<1>1. /\ held'[p][i] = h
      /\ \A q \in Pools, j \in Ids : q # p \/ j # i => held'[q][j] = held[q][j]
  BY MovesOne
<1>2. \A q \in Pools, j \in Ids : q # p \/ j # i => (Busy(q, j)' <=> Busy(q, j))
  BY <1>1 DEF Busy
<1>3. Busy(p, i)' <=> h # Nothing
  BY <1>1 DEF Busy
<1>4. ASSUME NEW e \in Events, InHand(e) PROVE InHand(e)' \/ (Busy(p, i) /\ held[p][i].id = e)
  BY <1>1, <1>2, <1>4 DEF InHand
<1>5. ASSUME NEW e \in Events, InHand(e)' PROVE InHand(e) \/ (h # Nothing /\ h.id = e)
  BY <1>1, <1>2, <1>3, <1>5 DEF InHand
<1>6. h # Nothing => InHand(h.id)'
  BY <1>1, <1>3 DEF InHand
<1> QED
  BY <1>4, <1>5, <1>6

LEMMA DequeueForward ==
    ASSUME Typed, NEW p \in Pools, NEW i \in Ids, Dequeue(p, i), NEW e \in Events PROVE Forward(e)
<1> DEFINE s == IF p = "bridge" THEN "downloading" ELSE "enqueueing"
<1>1. TypeOK /\ Source(p) \in Lists \ {"delivery"}
  BY DEF Typed, Source, Lists
<1>0. PICK m \in Items : m = Head(list[Source(p)])
  BY <1>1, PopContents DEF Dequeue
<1>2. /\ Contents(Source(p)) = Contents(Source(p))' \union {m}
      /\ \A l \in Lists \ {Source(p)} : Contents(l)' = Contents(l)
  BY <1>0, <1>1, PopContents DEF Dequeue
<1>3. Moves(p, i, s, m) /\ s \in Steps /\ ~(s \in Idle) /\ m # Nothing /\ ~Busy(p, i)
  BY <1>0, <1>1, NothingAssumption DEF Dequeue, Moves, Steps, Idle, At, Busy, TypeOK
<1>4. UNCHANGED request
  BY DEF Dequeue
<1> HIDE DEF s
<1>5. /\ InHand(e) => InHand(e)'
      /\ InHand(e)' => InHand(e) \/ m.id = e
      /\ InHand(m.id)'
  BY <1>1, <1>3, HandsMove
<1>6. HandedOver(e)' <=> HandedOver(e)
  BY <1>1, <1>2 DEF HandedOver, Lists
<1>7. InList(e)' => InList(e)
  BY <1>2 DEF InList
<1>8. InList(e) => InList(e)' \/ m.id = e
  BY <1>2 DEF InList
<1>9. m.id = e => InList(e)
  BY <1>1, <1>2 DEF InList
<1> QED
  BY <1>4, <1>5, <1>6, <1>7, <1>8, <1>9 DEF Forward, OnItsWay, Before

LEMMA EnqueueForward ==
    ASSUME Typed, NEW p \in Pools, NEW i \in Ids, Enqueue(p, i), NEW e \in Events PROVE Forward(e)
<1>1. TypeOK
  BY DEF Typed
<1>2. PICK m \in Items : m = held[p][i] /\ Busy(p, i)
  BY <1>1, HoldsItem DEF Enqueue, At, Idle
<1> DEFINE l == Target(p, m)
           s == IF process[p] = "up" THEN "polling" ELSE "stopped"
<1>3. l \in Lists
  BY <1>2 DEF Target, Lists
<1>4. Moves(p, i, s, Nothing) /\ s \in Steps /\ s \in Idle
  BY DEF Enqueue, Return, Moves, Steps, Idle
<1>5. UNCHANGED <<request, outages>>
  BY DEF Enqueue
<1>6. \/ Succeeds(p)  /\ Push(l, m)
      \/ Breaks(p)    /\ BrokenPush(l, m)
      \/ Cancelled(p) /\ UNCHANGED list
  BY <1>2 DEF Enqueue
<1> HIDE DEF l, s
<1>7. /\ InHand(e) => InHand(e)' \/ m.id = e
      /\ InHand(e)' => InHand(e)
  BY <1>1, <1>2, <1>4, HandsMove
<1>8. InHand(m.id)
  BY <1>2 DEF InHand
<1>9. /\ Contents(l)' = Contents(l) \union {m} \/ (Contents(l)' = Contents(l) /\ ~Undisturbed')
      /\ \A k \in Lists \ {l} : Contents(k)' = Contents(k)
  <2>1. CASE Push(l, m)
    BY <1>1, <1>2, <1>3, <2>1, PushContents
  <2>2. CASE Breaks(p) /\ BrokenPush(l, m)
    <3>1. ~Undisturbed'
      BY <1>1, <2>2 DEF Breaks, Fault, Undisturbed, TypeOK
    <3>2. UNCHANGED list => Contents(l)' = Contents(l)
      BY DEF Contents
    <3> QED
      BY <1>1, <1>2, <1>3, <2>2, <3>1, <3>2, BrokenPushContents
  <2>3. CASE Cancelled(p) /\ UNCHANGED list
    <3>1. ~Undisturbed'
      BY <1>1, <1>5, <2>3 DEF Typed, StopsAreOutages, Cancelled, Undisturbed, TypeOK
    <3> QED
      BY <2>3, <3>1 DEF Contents
  <2> QED
    BY <1>6, <2>1, <2>2, <2>3
<1>10. HandedOver(e) => HandedOver(e)'
  BY <1>9 DEF HandedOver, Lists
<1>11. InList(e) => InList(e)'
  BY <1>9 DEF InList
<1>12. InList(e)' => InList(e) \/ m.id = e
  BY <1>9 DEF InList
<1>13. m.id = e => InList(e)' \/ ~Undisturbed'
  BY <1>3, <1>9 DEF InList
<1> QED
  BY <1>5, <1>7, <1>8, <1>10, <1>11, <1>12, <1>13 DEF Forward, OnItsWay, Before

LEMMA ProcessForward ==
    ASSUME Typed, NEW i \in Ids, Process(i), NEW e \in Events PROVE Forward(e)
<1>1. TypeOK /\ "bridge" \in Pools
  BY DEF Typed, Pools
<1>2. PICK s, h : BridgeGoes(i, s, h)
  BY <1>1, ProcessGoes
<1>3. UNCHANGED <<list, request>>
  BY <1>1, ProcessGoes
<1>4. Busy("bridge", i)
  BY <1>1, <1>2, HoldsItem DEF BridgeGoes
<1>5. /\ Moves("bridge", i, s, h)
      /\ s \in Steps /\ s \notin Idle /\ h \in Items /\ h # Nothing /\ h.id = held["bridge"][i].id
  BY <1>2, NothingAssumption DEF BridgeGoes
<1>6. /\ InHand(e) => InHand(e)' \/ h.id = e
      /\ InHand(e)' => InHand(e) \/ h.id = e
      /\ InHand(h.id)'
  BY <1>1, <1>5, HandsMove
<1>7. InHand(h.id)
  BY <1>1, <1>4, <1>5 DEF InHand
<1>8. InHand(e)' <=> InHand(e)
  BY <1>6, <1>7
<1>9. \A l \in Lists : Contents(l)' = Contents(l)
  BY <1>3 DEF Contents
<1> QED
  BY <1>3, <1>8, <1>9 DEF Forward, OnItsWay, Before, InList, HandedOver, Lists

LEMMA HandleForward ==
    ASSUME Typed, NEW f \in Events, Handle(f), NEW e \in Events PROVE Forward(e)
<1> DEFINE m == [id |-> f, extracted |-> FALSE]
<1>1. TypeOK /\ m \in Items /\ m.id = f /\ "incoming" \in Lists
  BY DEF Typed, Items, Lists
<1> HIDE DEF m
<1>2. UNCHANGED held
  BY DEF Handle, Reject, Admit, EnqueueIncoming, Accept
<1>3. InHand(e)' <=> InHand(e)
  BY <1>2 DEF InHand, Busy
<1>4. e # f => (Before(e)' <=> Before(e))
  BY <1>1 DEF Handle, Reject, Admit, EnqueueIncoming, Accept, Answer, Before, TypeOK
<1>5. CASE EnqueueIncoming(f)
  <2>1. Before(f) /\ ~Before(f)'
    BY <1>1, <1>5 DEF EnqueueIncoming, Answer, Before, TypeOK
  <2>2. /\ Contents("incoming")' = Contents("incoming") \union {m} \/ (UNCHANGED list /\ ~Undisturbed')
        /\ \A l \in Lists \ {"incoming"} : Contents(l)' = Contents(l)
    <3>1. CASE Push("incoming", m)
      BY <1>1, <3>1, PushContents
    <3>2. CASE BrokenPush("incoming", m) /\ Fault
      <4>1. ~Undisturbed'
        BY <1>1, <3>2 DEF Fault, Undisturbed, TypeOK
      <4> QED
        BY <1>1, <3>2, <4>1, BrokenPushContents
    <3> QED
      BY <1>5, <3>1, <3>2 DEF EnqueueIncoming, m
  <2>3. UNCHANGED list => Contents("incoming")' = Contents("incoming")
    BY DEF Contents
  <2>4. HandedOver(e)' <=> HandedOver(e)
    BY <2>2 DEF HandedOver, Lists
  <2>5. InList(e) => InList(e)'
    BY <2>2, <2>3 DEF InList
  <2>6. InList(e)' => InList(e) \/ e = f
    BY <1>1, <2>2, <2>3 DEF InList
  <2>7. InList(f)' \/ ~Undisturbed'
    BY <1>1, <2>2 DEF InList
  <2>8. ~HandedOver(f)
    BY <2>1 DEF HandedOver, Typed, Unsent, Lists
  <2> QED
    BY <1>3, <1>4, <2>1, <2>4, <2>5, <2>6, <2>7, <2>8 DEF Forward, OnItsWay
<1>6. CASE ~EnqueueIncoming(f)
  <2>1. UNCHANGED list
    BY <1>6 DEF Handle, Reject, Admit, Accept
  <2>2. Before(f)' <=> Before(f)
    BY <1>1, <1>6 DEF Handle, Reject, Admit, Accept, Answer, Before, TypeOK
  <2>3. \A l \in Lists : Contents(l)' = Contents(l)
    BY <2>1 DEF Contents
  <2> QED
    BY <1>3, <1>4, <2>2, <2>3 DEF Forward, OnItsWay, InList, HandedOver, Lists
<1> QED
  BY <1>5, <1>6

LEMMA IngestionCrashForward == ASSUME Typed, IngestionCrash, NEW e \in Events PROVE Forward(e)
<1>1. UNCHANGED <<list, held>> /\ ~Undisturbed'
  BY DEF Typed, TypeOK, IngestionCrash, Outage, Undisturbed
<1>2. ~Before(e) => ~Before(e)'
  BY DEF Typed, TypeOK, IngestionCrash, Before
<1>3. (InHand(e)' <=> InHand(e)) /\ \A l \in Lists : Contents(l)' = Contents(l)
  BY <1>1 DEF InHand, Busy, Contents
<1> QED
  BY <1>1, <1>2, <1>3 DEF Forward, OnItsWay, InList, HandedOver, Lists

LEMMA ReplyLostForward ==
    ASSUME Typed, NEW p \in Pools, NEW i \in Ids, DequeueReplyLost(p, i), NEW e \in Events
    PROVE  Forward(e)
<1>1. TypeOK /\ Source(p) \in Lists \ {"delivery"}
  BY DEF Typed, Source, Lists
<1>2. UNCHANGED <<held, request>> /\ ~Undisturbed'
  BY <1>1 DEF TypeOK, DequeueReplyLost, Fault, Undisturbed
<1>3. /\ \A l \in Lists : Contents(l)' \subseteq Contents(l)
      /\ Contents("delivery")' = Contents("delivery")
  BY <1>1, PopContents DEF DequeueReplyLost, Lists
<1>4. InHand(e)' <=> InHand(e)
  BY <1>2 DEF InHand, Busy
<1>5. (Before(e)' <=> Before(e)) /\ (InList(e)' => InList(e)) /\ (HandedOver(e)' <=> HandedOver(e))
  BY <1>2, <1>3 DEF Before, InList, HandedOver
<1> QED
  BY <1>2, <1>4, <1>5 DEF Forward, OnItsWay

(* Steps that move no item, except that a process ends with what it holds. *)
LEMMA StillForward ==
    ASSUME Typed, UNCHANGED <<list, request>>, NEW e \in Events,
           \A p \in Pools, i \in Ids : held'[p][i] \in {held[p][i], Nothing},
           UNCHANGED held \/ ~Undisturbed'
    PROVE  Forward(e)
<1>1. \A l \in Lists : Contents(l)' = Contents(l)
  BY DEF Contents
<1>2. InHand(e)' => InHand(e)
  BY DEF InHand, Busy
<1>3. InHand(e) => InHand(e)' \/ ~Undisturbed'
  BY DEF InHand, Busy
<1> QED
  BY <1>1, <1>2, <1>3 DEF Forward, OnItsWay, InList, HandedOver, Lists, Before

LEMMA GoneForward ==
    ASSUME Typed, NEW p \in Pools, Gone(p), outages' > 0, NEW e \in Events PROVE Forward(e)
<1>1. UNCHANGED <<list, request>> /\ ~Undisturbed'
  BY DEF Gone, Undisturbed
<1>2. \A q \in Pools, i \in Ids : held'[q][i] \in {held[q][i], Nothing}
  BY DEF Gone, Typed, TypeOK
<1> QED
  BY <1>1, <1>2, StillForward

LEMMA NextForward == ASSUME Typed, [Next]_vars, NEW e \in Events PROVE Forward(e)
<1> DEFINE Same == UNCHANGED <<list, request, held>>
<1>1. CASE Same
  <2>1. \A p \in Pools, i \in Ids : held'[p][i] \in {held[p][i], Nothing}
    BY <1>1
  <2> QED
    BY <1>1, <2>1, StillForward
<1>2. UNCHANGED vars => Same
  BY DEF vars
<1>3. ASSUME NEW f \in Events, Reject(f) \/ Admit(f) \/ EnqueueIncoming(f) \/ Accept(f) PROVE Forward(e)
  BY <1>3, HandleForward DEF Handle
<1>4. ASSUME NEW p \in Pools, NEW i \in Ids, StopPolling(p, i) PROVE Same
  <2>1. held[p][i] = Nothing /\ held \in [Pools -> [Ids -> Items \union {Nothing}]]
    BY <1>4 DEF Typed, TypeOK, StopPolling, At, Idle
  <2> QED
    BY <1>4, <2>1 DEF StopPolling, Return, Hold
<1>5. ASSUME NEW p \in Pools, NEW i \in Ids, Worker(p, i) \/ DequeueReplyLost(p, i) PROVE Forward(e)
  BY <1>1, <1>4, <1>5, DequeueForward, EnqueueForward, ProcessForward, ReplyLostForward DEF Worker, Process
<1>6. ASSUME NEW p \in Pools, Exit(p) PROVE Forward(e)
  <2>1. Gone(p) /\ outages' > 0
    BY <1>6 DEF Exit, Typed, StopsAreOutages
  <2> QED
    BY <2>1, GoneForward
<1>7. ASSUME NEW p \in Pools, Crash(p) PROVE Forward(e)
  <2>1. Gone(p) /\ outages' > 0
    BY <1>7, BoundsAssumption DEF Crash, Outage, Typed, TypeOK
  <2> QED
    BY <2>1, GoneForward
<1>8. ASSUME NEW p \in Pools, ScaleUp(p) \/ Shutdown(p) \/ Start(p) PROVE Same
  BY <1>8 DEF ScaleUp, Shutdown, Start
<1> QED
  BY <1>1, <1>2, <1>3, <1>5, <1>6, <1>7, <1>8, IngestionCrashForward DEF Next

(* What goes wrong is counted, one at a time. *)
Counts(n) == n' = n \/ n' = n + 1

LEMMA FaultsCount == ASSUME Typed, [Next]_vars PROVE Counts(faults) /\ Counts(outages)
<1>1. ASSUME NEW e \in Events, Handle(e) PROVE Counts(faults) /\ Counts(outages)
  BY <1>1 DEF Counts, Handle, Reject, Admit, EnqueueIncoming, Accept, Fault
<1>2. ASSUME NEW p \in Pools, NEW i \in Ids, Dequeue(p, i) \/ StopPolling(p, i) \/ DequeueReplyLost(p, i)
      PROVE  Counts(faults) /\ Counts(outages)
  BY <1>2 DEF Counts, Dequeue, StopPolling, DequeueReplyLost, Fault
<1>3. ASSUME NEW p \in Pools, NEW i \in Ids, Enqueue(p, i) PROVE Counts(faults) /\ Counts(outages)
  BY <1>3 DEF Counts, Enqueue, Succeeds, Breaks, Cancelled, Fault
<1>4. ASSUME NEW i \in Ids, Process(i) PROVE Counts(faults) /\ Counts(outages)
  BY <1>4 DEF Counts, Process, Download, Upload, Extract, RecordFailure, RecordSuccess, UpsertTemplate, Insert,
              Succeeds, Breaks, Cancelled, Fault
<1>5. ASSUME NEW p \in Pools, ScaleUp(p) \/ Shutdown(p) \/ Exit(p) \/ Crash(p) \/ Start(p)
      PROVE  Counts(faults) /\ Counts(outages)
  BY <1>5 DEF Counts, ScaleUp, Shutdown, Exit, Crash, Start, Gone, Outage
<1>6. CASE IngestionCrash \/ UNCHANGED vars
  BY <1>6 DEF Counts, IngestionCrash, Outage, vars
<1> QED
  BY <1>1, <1>2, <1>3, <1>4, <1>5, <1>6 DEF Next, Worker, Process, Handle

LEMMA DisturbedForever == ASSUME Typed, [Next]_vars, Undisturbed' PROVE Undisturbed
<1>1. faults \in Nat /\ outages \in Nat
  BY BoundsAssumption DEF Typed, TypeOK
<1> QED
  BY <1>1, FaultsCount DEF Counts, Undisturbed

(* Every behaviour of the handler, the workers and the processes is one of *)
(* the contract: an event the endpoint pushed goes forward to the delivery *)
(* queue, none is handed over that was not taken or taken back, and none   *)
(* is lost before something failed.                                        *)
THEOREM PipelineImplementsHandover == Spec => ImplementsHandover
<1>1. Init => Contract!Init
  <2> SUFFICES ASSUME Init PROVE Contract!Init
    OBVIOUS
  <2>1. ASSUME NEW e \in Events PROVE State(e) = "unknown"
    <3>1. ~HandedOver(e) /\ ~OnItsWay(e) /\ Before(e)
      BY DEF Init, HandedOver, OnItsWay, InList, InHand, Busy, Contents, Before, Lists
    <3> QED
      BY <3>1, StateIs
  <2>2. Undisturbed
    BY DEF Init, Undisturbed
  <2> QED
    BY <2>1, <2>2 DEF Contract!Init
<1>0. (\A e \in Events : State(e) = IF HandedOver(e) THEN "handedOver"
                                   ELSE IF OnItsWay(e) THEN "taken"
                                   ELSE IF Before(e) THEN "unknown" ELSE "lost")'
  BY StatesAre, PTL
<1>2. ASSUME Typed, [Next]_vars PROVE [Contract!Next]_(Contract!vars)
  <2>1. (~Undisturbed)' \in {~Undisturbed, TRUE}
    BY <1>2, DisturbedForever
  <2>2. ASSUME NEW e \in Events
        PROVE  /\ State(e)' \in {"unknown", "taken", "handedOver", "lost"}
               /\ State(e)' = State(e) \/ <<State(e), State(e)'>> \in Contract!Moves
    <3>1. Forward(e)
      BY <1>2, NextForward
    <3>2. HandedOver(e) => OnItsWay(e)
      BY DEF HandedOver, OnItsWay, InList, Lists
    <3>3. HandedOver(e)' => OnItsWay(e)'
      BY DEF HandedOver, OnItsWay, InList, Lists
    <3>4. OnItsWay(e) => ~Before(e)
      BY <1>2 DEF Typed, Unsent, OnItsWay, InList, InHand
    <3>5. State(e)' = IF HandedOver(e)' THEN "handedOver"
                      ELSE IF OnItsWay(e)' THEN "taken"
                      ELSE IF Before(e)' THEN "unknown" ELSE "lost"
      BY <1>0
    <3>6. State(e)' \in {"unknown", "taken", "handedOver", "lost"}
      BY <3>5
    <3>7. CASE HandedOver(e)
      BY <3>1, <3>5, <3>7, StateIs DEF Forward
    <3>8. CASE ~HandedOver(e) /\ OnItsWay(e)
      BY <3>1, <3>4, <3>5, <3>6, <3>8, StateIs DEF Forward, Contract!Moves
    <3>9. CASE ~OnItsWay(e)
      BY <3>1, <3>2, <3>3, <3>5, <3>6, <3>9, StateIs DEF Forward, Contract!Moves
    <3> QED
      BY <3>6, <3>7, <3>8, <3>9
  <2> QED
    BY <2>1, <2>2 DEF Contract!Next
<1> QED
  BY <1>1, <1>2, TypedInvariant, PTL DEF Spec, ImplementsHandover, Contract!Spec

-----------------------------------------------------------------------------
(* No event in two places *)

LEMMA PushPositions ==
    ASSUME TypeOK, NEW l \in Lists, NEW m \in Items, Push(l, m)
    PROVE  \A k \in Lists : \A j \in DOMAIN list'[k] :
              \/ j \in DOMAIN list[k] /\ list'[k][j] = list[k][j]
              \/ k = l /\ j = Len(list[l]) + 1 /\ list'[k][j] = m
<1>1. list \in [Lists -> Seq(Items)] /\ list' = [list EXCEPT ![l] = Append(@, m)]
  BY DEF TypeOK, Push
<1> DEFINE s == list[l]
           t == Append(s, m)
<1>2. s \in Seq(Items) /\ list'[l] = t /\ \A k \in Lists \ {l} : list'[k] = list[k]
  BY <1>1
<1>3. /\ DOMAIN s = 1..Len(s) /\ DOMAIN t = 1..Len(s)+1 /\ Len(s) \in Nat
      /\ t[Len(s) + 1] = m /\ \A k \in 1..Len(s) : t[k] = s[k]
  BY <1>2
<1> HIDE DEF t
<1>4. \A j \in DOMAIN t : (j \in DOMAIN s /\ t[j] = s[j]) \/ (j = Len(s) + 1 /\ t[j] = m)
  BY <1>3
<1> QED
  BY <1>2, <1>4

LEMMA PopPositions ==
    ASSUME TypeOK, NEW l \in Lists, list[l] # <<>>, list' = [list EXCEPT ![l] = Tail(@)]
    PROVE  /\ 1 \in DOMAIN list[l] /\ Head(list[l]) = list[l][1]
           /\ \A j \in DOMAIN list'[l] : /\ j \in Nat \ {0} /\ j + 1 \in DOMAIN list[l]
                                         /\ list'[l][j] = list[l][j + 1]
           /\ \A k \in Lists \ {l} : list'[k] = list[k]
<1>1. list \in [Lists -> Seq(Items)]
  BY DEF TypeOK
<1> DEFINE s == list[l]
           t == Tail(s)
<1>2. s \in Seq(Items) /\ list'[l] = t /\ s # <<>> /\ \A k \in Lists \ {l} : list'[k] = list[k]
  BY <1>1
<1>3. /\ DOMAIN s = 1..Len(s) /\ Len(s) \in Nat \ {0} /\ DOMAIN t = 1..Len(s) - 1
      /\ Head(s) = s[1] /\ \A k \in 1..Len(s) - 1 : t[k] = s[k + 1]
  BY <1>2, HeadTailProperties, LenProperties, EmptySeq
<1> HIDE DEF t
<1>4. 1 \in DOMAIN s /\ \A j \in DOMAIN t : j \in Nat \ {0} /\ j + 1 \in DOMAIN s /\ t[j] = s[j + 1]
  BY <1>3
<1> QED
  BY <1>2, <1>3, <1>4

LEMMA DequeueApart ==
    ASSUME Typed, Apart, NEW p \in Pools, NEW i \in Ids, Dequeue(p, i) PROVE Apart'
<1> DEFINE s == IF p = "bridge" THEN "downloading" ELSE "enqueueing"
<1>1. TypeOK
  BY DEF Typed
<1>2. PICK a \in Lists : a = Source(p) /\ list[a] # <<>> /\ list' = [list EXCEPT ![a] = Tail(@)]
  BY DEF Source, Lists, Dequeue
<1>3. PICK m \in Items : m = Head(list[a])
  BY <1>1, <1>2, PopContents
<1>4. /\ 1 \in DOMAIN list[a] /\ m = list[a][1]
      /\ \A j \in DOMAIN list'[a] : /\ j \in Nat \ {0} /\ j + 1 \in DOMAIN list[a]
                                    /\ list'[a][j] = list[a][j + 1]
      /\ \A k \in Lists \ {a} : list'[k] = list[k]
  BY <1>1, <1>2, <1>3, PopPositions
<1>5. Moves(p, i, s, m) /\ s \in Steps /\ ~(s \in Idle) /\ m # Nothing
  BY <1>2, <1>3, NothingAssumption DEF Dequeue, Moves, Steps, Idle
<1> HIDE DEF s
<1>6. held'[p][i] = m /\ \A q \in Pools, j \in Ids : q # p \/ j # i => held'[q][j] = held[q][j]
  BY <1>1, <1>5, MovesOne
<1>7. ASSUME NEW l \in Lists, NEW n \in Lists, NEW j \in DOMAIN list'[l], NEW k \in DOMAIN list'[n],
             list'[l][j].id = list'[n][k].id
      PROVE  l = n /\ j = k
  <2> DEFINE J == IF l = a THEN j + 1 ELSE j
             K == IF n = a THEN k + 1 ELSE k
  <2>1. J \in DOMAIN list[l] /\ list'[l][j] = list[l][J]
    BY <1>4
  <2>2. K \in DOMAIN list[n] /\ list'[n][k] = list[n][K]
    BY <1>4
  <2>3. l = n /\ J = K
    BY <1>7, <2>1, <2>2 DEF Apart
  <2> QED
    BY <1>4, <2>3
<1>8. ASSUME NEW l \in Lists, NEW k \in DOMAIN list'[l], NEW q \in Pools, NEW j \in Ids, Busy(q, j)'
      PROVE  list'[l][k].id # held'[q][j].id
  <2> DEFINE K == IF l = a THEN k + 1 ELSE k
  <2>1. K \in DOMAIN list[l] /\ list'[l][k] = list[l][K] /\ (l = a => K # 1)
    BY <1>4
  <2>2. CASE q = p /\ j = i
    <3>1. list[l][K].id = list[a][1].id => l = a /\ K = 1
      BY <1>4, <2>1 DEF Apart
    <3> QED
      BY <1>4, <1>6, <2>1, <2>2, <3>1
  <2>3. CASE q # p \/ j # i
    <3>1. Busy(q, j) /\ held'[q][j] = held[q][j]
      BY <1>6, <1>8, <2>3 DEF Busy
    <3> QED
      BY <2>1, <3>1 DEF Apart
  <2> QED
    BY <2>2, <2>3
<1>9. ASSUME NEW q \in Pools, NEW r \in Pools, NEW j \in Ids, NEW k \in Ids,
             Busy(q, j)', Busy(r, k)', held'[q][j].id = held'[r][k].id
      PROVE  q = r /\ j = k
  <2>1. \A o \in Pools, n \in Ids : Busy(o, n)' /\ (o # p \/ n # i) =>
            Busy(o, n) /\ held'[o][n] = held[o][n] /\ held[o][n].id # m.id
    BY <1>4, <1>6 DEF Busy, Apart
  <2> QED
    BY <1>6, <1>9, <2>1 DEF Apart
<1> QED
  BY <1>7, <1>8, <1>9 DEF Apart

(* Pushing an item whose event is in no list, and in no hand any more.     *)
LEMMA PushApart ==
    ASSUME Typed, Apart, NEW l \in Lists, NEW m \in Items, Push(l, m),
           \A k \in Lists : \A j \in DOMAIN list[k] : list[k][j].id # m.id,
           \A q \in Pools, j \in Ids :
               Busy(q, j)' => held'[q][j].id # m.id /\ Busy(q, j) /\ held'[q][j] = held[q][j]
    PROVE  Apart'
<1>1. \A k \in Lists : \A j \in DOMAIN list'[k] :
         \/ j \in DOMAIN list[k] /\ list'[k][j] = list[k][j]
         \/ k = l /\ j = Len(list[l]) + 1 /\ list'[k][j] = m
  BY PushPositions DEF Typed
<1>2. ASSUME NEW a \in Lists, NEW b \in Lists, NEW j \in DOMAIN list'[a], NEW k \in DOMAIN list'[b],
             list'[a][j].id = list'[b][k].id
      PROVE  a = b /\ j = k
  BY <1>1, <1>2 DEF Apart
<1>3. ASSUME NEW a \in Lists, NEW k \in DOMAIN list'[a], NEW q \in Pools, NEW j \in Ids, Busy(q, j)'
      PROVE  list'[a][k].id # held'[q][j].id
  BY <1>1, <1>3 DEF Apart
<1>4. ASSUME NEW q \in Pools, NEW r \in Pools, NEW j \in Ids, NEW k \in Ids,
             Busy(q, j)', Busy(r, k)', held'[q][j].id = held'[r][k].id
      PROVE  q = r /\ j = k
  BY <1>4 DEF Apart
<1> QED
  BY <1>2, <1>3, <1>4 DEF Apart

(* Items that stay where they are, or go.                                  *)
LEMMA FewerApart ==
    ASSUME Apart, UNCHANGED list,
           \A q \in Pools, j \in Ids : Busy(q, j)' => Busy(q, j) /\ held'[q][j].id = held[q][j].id
    PROVE  Apart'
<1>1. ASSUME NEW a \in Lists, NEW k \in DOMAIN list'[a], NEW q \in Pools, NEW j \in Ids, Busy(q, j)'
      PROVE  list'[a][k].id # held'[q][j].id
  BY <1>1 DEF Apart
<1>2. ASSUME NEW q \in Pools, NEW r \in Pools, NEW j \in Ids, NEW k \in Ids,
             Busy(q, j)', Busy(r, k)', held'[q][j].id = held'[r][k].id
      PROVE  q = r /\ j = k
  BY <1>2 DEF Apart
<1> QED
  BY <1>1, <1>2 DEF Apart

LEMMA EnqueueApart ==
    ASSUME Typed, Apart, faults' = 0, NEW p \in Pools, NEW i \in Ids, Enqueue(p, i) PROVE Apart'
<1>1. TypeOK
  BY DEF Typed
<1>2. PICK m \in Items : m = held[p][i] /\ Busy(p, i)
  BY <1>1, HoldsItem DEF Enqueue, At, Idle
<1> DEFINE l == Target(p, m)
           s == IF process[p] = "up" THEN "polling" ELSE "stopped"
<1>3. l \in Lists
  BY DEF Target, Lists
<1>4. Moves(p, i, s, Nothing) /\ s \in Steps /\ s \in Idle
  BY DEF Enqueue, Return, Moves, Steps, Idle
<1>5. Push(l, m) \/ UNCHANGED list
  BY <1>1, <1>2 DEF Enqueue, Breaks, Fault, TypeOK
<1> HIDE DEF l, s
<1>6. held'[p][i] = Nothing /\ \A q \in Pools, j \in Ids : q # p \/ j # i => held'[q][j] = held[q][j]
  BY <1>1, <1>4, MovesOne
<1>7. \A q \in Pools, j \in Ids : Busy(q, j)' =>
          (q # p \/ j # i) /\ Busy(q, j) /\ held'[q][j] = held[q][j]
  BY <1>6 DEF Busy
<1>8. \A q \in Pools, j \in Ids : Busy(q, j)' => held'[q][j].id # m.id
  BY <1>2, <1>7 DEF Apart
<1>9. \A k \in Lists : \A j \in DOMAIN list[k] : list[k][j].id # m.id
  BY <1>2 DEF Apart
<1>10. CASE Push(l, m)
  BY <1>3, <1>7, <1>8, <1>9, <1>10, PushApart
<1>11. CASE UNCHANGED list
  BY <1>7, <1>11, FewerApart
<1> QED
  BY <1>5, <1>10, <1>11

LEMMA HandleApart == ASSUME Typed, Apart, faults' = 0, NEW e \in Events, Handle(e) PROVE Apart'
<1> DEFINE m == [id |-> e, extracted |-> FALSE]
<1>1. TypeOK /\ m \in Items /\ m.id = e /\ "incoming" \in Lists
  BY DEF Typed, Items, Lists
<1> HIDE DEF m
<1>2. UNCHANGED held
  BY DEF Handle, Reject, Admit, EnqueueIncoming, Accept
<1>3. \A q \in Pools, j \in Ids : Busy(q, j)' => Busy(q, j) /\ held'[q][j] = held[q][j]
  BY <1>2 DEF Busy
<1>4. CASE EnqueueIncoming(e)
  <2>1. Push("incoming", m)
    BY <1>1, <1>4 DEF EnqueueIncoming, Fault, TypeOK, m
  <2>2. Before(e)
    BY <1>4 DEF EnqueueIncoming, Answer, Before
  <2>3. \A k \in Lists : \A j \in DOMAIN list[k] : list[k][j].id # m.id
    BY <1>1, <2>2 DEF Typed, Unsent, Contents
  <2>4. \A q \in Pools, j \in Ids : Busy(q, j)' => held'[q][j].id # m.id
    BY <1>1, <1>3, <2>2 DEF Typed, Unsent
  <2> QED
    BY <1>1, <1>3, <2>1, <2>3, <2>4, PushApart
<1>5. CASE ~EnqueueIncoming(e)
  <2>1. UNCHANGED list
    BY <1>5 DEF Handle, Reject, Admit, Accept
  <2> QED
    BY <1>3, <2>1, FewerApart
<1> QED
  BY <1>4, <1>5

LEMMA ProcessApart == ASSUME Typed, Apart, NEW i \in Ids, Process(i) PROVE Apart'
<1>1. TypeOK /\ "bridge" \in Pools
  BY DEF Typed, Pools
<1>2. PICK s, h : BridgeGoes(i, s, h)
  BY <1>1, ProcessGoes
<1>3. UNCHANGED list
  BY <1>1, ProcessGoes
<1>4. Busy("bridge", i)
  BY <1>1, <1>2, HoldsItem DEF BridgeGoes
<1>5. /\ Moves("bridge", i, s, h)
      /\ s \in Steps /\ s \notin Idle /\ h \in Items /\ h # Nothing /\ h.id = held["bridge"][i].id
  BY <1>2, NothingAssumption DEF BridgeGoes
<1>6. /\ held'["bridge"][i] = h
      /\ \A q \in Pools, j \in Ids : q # "bridge" \/ j # i => held'[q][j] = held[q][j]
  BY <1>1, <1>5, MovesOne
<1>7. \A q \in Pools, j \in Ids : Busy(q, j)' => Busy(q, j) /\ held'[q][j].id = held[q][j].id
  BY <1>4, <1>5, <1>6 DEF Busy
<1> QED
  BY <1>3, <1>7, FewerApart

LEMMA NextApart == ASSUME Typed, faults = 0 => Apart, [Next]_vars, faults' = 0 PROVE Apart'
<1>1. faults = 0
  <2>1. faults \in Nat /\ (faults' = faults \/ faults' = faults + 1)
    BY FaultsCount, BoundsAssumption DEF Counts, Typed, TypeOK
  <2> QED
    BY <2>1
<1>2. Apart
  BY <1>1
<1>3. ASSUME UNCHANGED list, \A q \in Pools, j \in Ids : held'[q][j] \in {held[q][j], Nothing} PROVE Apart'
  BY <1>2, <1>3, FewerApart DEF Busy
<1>4. CASE UNCHANGED <<list, held>>
  BY <1>3, <1>4
<1>5. UNCHANGED vars => UNCHANGED <<list, held>>
  BY DEF vars
<1>6. ASSUME NEW e \in Events, Reject(e) \/ Admit(e) \/ EnqueueIncoming(e) \/ Accept(e) PROVE Apart'
  BY <1>2, <1>6, HandleApart DEF Handle
<1>7. ASSUME NEW p \in Pools, NEW i \in Ids, Worker(p, i) PROVE Apart'
  <2>1. CASE StopPolling(p, i)
    <3>1. UNCHANGED list /\ \A q \in Pools, j \in Ids : held'[q][j] \in {held[q][j], Nothing}
      BY <2>1 DEF StopPolling, Return, Hold, Typed, TypeOK
    <3> QED
      BY <1>3, <3>1
  <2> QED
    BY <1>2, <1>7, <2>1, DequeueApart, EnqueueApart, ProcessApart DEF Worker, Process
<1>8. ASSUME NEW p \in Pools, NEW i \in Ids, DequeueReplyLost(p, i) PROVE FALSE
  BY <1>1, <1>8 DEF DequeueReplyLost, Fault
<1>9. ASSUME NEW p \in Pools, Gone(p) PROVE Apart'
  <2>1. UNCHANGED list /\ \A q \in Pools, j \in Ids : held'[q][j] \in {held[q][j], Nothing}
    BY <1>9 DEF Gone, Typed, TypeOK
  <2> QED
    BY <1>3, <2>1
<1>10. ASSUME NEW p \in Pools, ScaleUp(p) \/ Shutdown(p) \/ Start(p) PROVE UNCHANGED <<list, held>>
  BY <1>10 DEF ScaleUp, Shutdown, Start
<1>11. IngestionCrash => UNCHANGED <<list, held>>
  BY DEF IngestionCrash
<1> QED
  BY <1>4, <1>5, <1>6, <1>7, <1>8, <1>9, <1>10, <1>11 DEF Next, Exit, Crash

LEMMA InitApart == Init => Apart
<1> SUFFICES ASSUME Init PROVE Apart
  OBVIOUS
<1>1. \A l \in Lists : DOMAIN list[l] = {}
  BY DEF Init
<1>2. \A p \in Pools, i \in Ids : ~Busy(p, i)
  BY DEF Init, Busy
<1> QED
  BY <1>1, <1>2 DEF Apart

LEMMA ApartInOnePlace ==
    ASSUME Apart, NEW e \in Events, NEW x \in Places(e), NEW y \in Places(e) PROVE x = y
<1>1. CASE x \in Positions(e) /\ y \in Positions(e)
  BY <1>1, PositionsInList DEF Apart
<1>2. CASE x \in Holders(e) /\ y \in Holders(e)
  BY <1>2, HoldersInHand DEF Apart
<1>3. ~(x \in Positions(e) /\ y \in Holders(e)) /\ ~(x \in Holders(e) /\ y \in Positions(e))
  BY PositionsInList, HoldersInHand DEF Apart
<1> QED
  BY <1>1, <1>2, <1>3 DEF Places

(* However processes crash, shut down and scale, no event is in two places *)
(* unless a store's connection broke.                                      *)
THEOREM NoDuplicates == Spec => []NeverTwice
<1> DEFINE Once == faults = 0 => Apart
<1>1. Init => Typed /\ Once
  BY InitTyped, InitApart
<1>2. Typed /\ Once /\ [Next]_vars => (Typed /\ Once)'
  BY NextTyped, NextApart
<1>3. Typed /\ Once => NeverTwice
  BY ApartInOnePlace DEF NeverTwice
<1> HIDE DEF Once
<1> QED
  BY <1>1, <1>2, <1>3, PTL DEF Spec

-----------------------------------------------------------------------------
(* The records *)

LEMMA InitRecords == Init => RecordsKept
<1> SUFFICES ASSUME Init PROVE RecordsKept
  OBVIOUS
<1>1. \A l \in Lists : Contents(l) = {}
  BY DEF Init, Contents
<1>2. \A p \in Pools, i \in Ids : ~Busy(p, i)
  BY DEF Init, Busy
<1> QED
  BY <1>1, <1>2 DEF Init, RecordsKept, Lists, Pools, Verdicts

(* Steps that leave the records alone: what is anywhere after the step was *)
(* as good before it, or is as good as its new place asks for.             *)
LEMMA RecordsStay ==
    ASSUME RecordsKept, UNCHANGED <<records, templates>>,
           \A e \in Events : Before(e)' => Before(e),
           \A l \in {"incoming", "extraction"} : \A m \in Contents(l)' \ Contents(l) : Fresh(m),
           \A m \in Contents("delivery")' \ Contents("delivery") : Told(m),
           \A i \in Ids : Busy("orchestrator", i)' =>
               \/ Busy("orchestrator", i) /\ held'["orchestrator"][i] = held["orchestrator"][i]
               \/ Fresh(held'["orchestrator"][i]),
           \A i \in Ids : Busy("bridge", i)' =>
               \/ /\ Busy("bridge", i) /\ held'["bridge"][i] = held["bridge"][i]
                  /\ step'["bridge"][i] = step["bridge"][i]
               \/ AtStep(held'["bridge"][i], step'["bridge"][i])
    PROVE  RecordsKept'
<1>1. \A m : /\ Verdicts(m)' = Verdicts(m)
             /\ Fresh(m)' <=> Fresh(m)
             /\ Told(m)' <=> Told(m)
             /\ \A t : AtStep(m, t)' <=> AtStep(m, t)
  BY DEF Verdicts, Fresh, Told, AtStep
<1>2. \A m \in Contents("incoming")' \union Contents("extraction")' : Fresh(m)'
  BY <1>1 DEF RecordsKept
<1>3. \A m \in Contents("delivery")' : Told(m)'
  BY <1>1 DEF RecordsKept
<1>4. ASSUME NEW i \in Ids, Busy("orchestrator", i)' PROVE Fresh(held["orchestrator"][i])'
  <2>1. Fresh(held'["orchestrator"][i])
    BY <1>4 DEF RecordsKept
  <2> QED
    BY <2>1 DEF Fresh, Verdicts
<1>5. ASSUME NEW i \in Ids, Busy("bridge", i)' PROVE AtStep(held["bridge"][i], step["bridge"][i])'
  <2>1. AtStep(held'["bridge"][i], step'["bridge"][i])
    BY <1>5 DEF RecordsKept
  <2> QED
    BY <2>1 DEF AtStep, Told, Fresh, Verdicts
<1>6. \A e \in Events : Before(e)' => Verdicts(e)' = {}
  BY <1>1 DEF RecordsKept
<1>7. \A e \in templates' : <<e, TRUE>> \in records'
  BY DEF RecordsKept
<1> QED
  BY <1>2, <1>3, <1>4, <1>5, <1>6, <1>7 DEF RecordsKept

LEMMA DequeueRecords ==
    ASSUME Typed, RecordsKept, NEW p \in Pools, NEW i \in Ids, Dequeue(p, i) PROVE RecordsKept'
<1> DEFINE s == IF p = "bridge" THEN "downloading" ELSE "enqueueing"
<1>1. TypeOK
  BY DEF Typed
<1>2. PICK a \in Lists : /\ a = Source(p) /\ list[a] # <<>> /\ list' = [list EXCEPT ![a] = Tail(@)]
                         /\ a # "delivery"
  BY DEF Source, Lists, Dequeue
<1>3. PICK m \in Items : m = Head(list[a])
  BY <1>1, <1>2, PopContents
<1>4. /\ Contents(a) = Contents(a)' \union {m}
      /\ \A l \in Lists \ {a} : Contents(l)' = Contents(l)
  BY <1>1, <1>2, <1>3, PopContents
<1>5. Moves(p, i, s, m) /\ s \in Steps /\ ~(s \in Idle) /\ m # Nothing
  BY <1>2, <1>3, NothingAssumption DEF Dequeue, Moves, Steps, Idle
<1>6. Fresh(m)
  BY <1>2, <1>4 DEF RecordsKept, Lists
<1>7. p = "bridge" => AtStep(m, s)
  BY <1>6 DEF AtStep
<1> HIDE DEF s
<1>8. /\ held'[p][i] = m /\ step'[p][i] = s
      /\ \A q \in Pools, j \in Ids : q # p \/ j # i =>
            held'[q][j] = held[q][j] /\ step'[q][j] = step[q][j]
  BY <1>1, <1>5, MovesOne
<1>9. UNCHANGED <<request, records, templates>>
  BY DEF Dequeue
<1>10. \A l \in Lists : Contents(l)' \subseteq Contents(l)
  BY <1>4
<1>11. /\ \A j \in Ids : Busy("orchestrator", j)' =>
            \/ Busy("orchestrator", j) /\ held'["orchestrator"][j] = held["orchestrator"][j]
            \/ Fresh(held'["orchestrator"][j])
       /\ \A j \in Ids : Busy("bridge", j)' =>
            \/ /\ Busy("bridge", j) /\ held'["bridge"][j] = held["bridge"][j]
               /\ step'["bridge"][j] = step["bridge"][j]
            \/ AtStep(held'["bridge"][j], step'["bridge"][j])
  BY <1>6, <1>7, <1>8 DEF Busy, Pools
<1> QED
  BY <1>9, <1>10, <1>11, RecordsStay DEF Lists, Before

LEMMA EnqueueRecords ==
    ASSUME Typed, RecordsKept, Undisturbed', NEW p \in Pools, NEW i \in Ids, Enqueue(p, i)
    PROVE  RecordsKept'
<1>1. TypeOK
  BY DEF Typed
<1>2. PICK m \in Items : m = held[p][i] /\ Busy(p, i)
  BY <1>1, HoldsItem DEF Enqueue, At, Idle
<1> DEFINE l == Target(p, m)
           s == IF process[p] = "up" THEN "polling" ELSE "stopped"
<1>3. l \in Lists /\ l # "incoming"
  BY DEF Target, Lists
<1>4. Moves(p, i, s, Nothing) /\ s \in Steps /\ s \in Idle
  BY DEF Enqueue, Return, Moves, Steps, Idle
<1>5. Push(l, m) \/ UNCHANGED list
  BY <1>1, <1>2 DEF Enqueue, Breaks, Fault, TypeOK, Undisturbed
<1>6. IF l = "extraction" THEN Fresh(m) ELSE Told(m)
  <2>1. CASE p = "orchestrator"
    BY <1>2, <2>1 DEF RecordsKept, Target, Fresh, Told
  <2>2. CASE p = "bridge"
    <3>1. AtStep(m, "enqueueing")
      BY <1>2, <2>2 DEF RecordsKept, Enqueue, At
    <3> QED
      BY <2>2, <3>1 DEF AtStep, Target
  <2> QED
    BY <2>1, <2>2 DEF Pools
<1> HIDE DEF l, s
<1>7. /\ Contents(l)' \subseteq Contents(l) \union {m}
      /\ \A k \in Lists \ {l} : Contents(k)' = Contents(k)
  <2>1. CASE Push(l, m)
    BY <1>1, <1>2, <1>3, <2>1, PushContents
  <2>2. CASE UNCHANGED list
    BY <2>2 DEF Contents
  <2> QED
    BY <1>5, <2>1, <2>2
<1>8. /\ held'[p][i] = Nothing
      /\ \A q \in Pools, j \in Ids : q # p \/ j # i =>
            held'[q][j] = held[q][j] /\ step'[q][j] = step[q][j]
  BY <1>1, <1>4, MovesOne
<1>9. UNCHANGED <<request, records, templates>>
  BY DEF Enqueue
<1>10. \A q \in Pools, j \in Ids : Busy(q, j)' =>
          Busy(q, j) /\ held'[q][j] = held[q][j] /\ step'[q][j] = step[q][j]
  BY <1>8 DEF Busy
<1>11. /\ \A k \in {"incoming", "extraction"} : \A n \in Contents(k)' \ Contents(k) : Fresh(n)
       /\ \A n \in Contents("delivery")' \ Contents("delivery") : Told(n)
  BY <1>3, <1>6, <1>7 DEF Lists
<1> QED
  BY <1>9, <1>10, <1>11, RecordsStay DEF Pools, Before

LEMMA HandleRecords ==
    ASSUME Typed, RecordsKept, Undisturbed', NEW e \in Events, Handle(e) PROVE RecordsKept'
<1> DEFINE m == [id |-> e, extracted |-> FALSE]
<1>1. TypeOK /\ m \in Items /\ m.id = e /\ ~m.extracted /\ "incoming" \in Lists
  BY DEF Typed, Items, Lists
<1> HIDE DEF m
<1>2. UNCHANGED <<step, held, records, templates>>
  BY DEF Handle, Reject, Admit, EnqueueIncoming, Accept
<1>3. \A f \in Events : Before(f)' => Before(f)
  BY <1>1 DEF Handle, Reject, Admit, EnqueueIncoming, Accept, Answer, Before, TypeOK
<1>4. CASE EnqueueIncoming(e)
  <2>1. Push("incoming", m)
    BY <1>1, <1>4 DEF EnqueueIncoming, Fault, TypeOK, Undisturbed, m
  <2>2. Fresh(m)
    BY <1>1, <1>4 DEF EnqueueIncoming, Answer, Before, RecordsKept, Fresh
  <2>3. /\ Contents("incoming")' = Contents("incoming") \union {m}
        /\ \A k \in Lists \ {"incoming"} : Contents(k)' = Contents(k)
    BY <1>1, <2>1, PushContents
  <2>4. /\ \A k \in {"incoming", "extraction"} : \A n \in Contents(k)' \ Contents(k) : Fresh(n)
        /\ \A n \in Contents("delivery")' \ Contents("delivery") : Told(n)
    BY <2>2, <2>3 DEF Lists
  <2> QED
    BY <1>2, <1>3, <2>4, RecordsStay DEF Busy
<1>5. CASE ~EnqueueIncoming(e)
  <2>1. UNCHANGED list
    BY <1>5 DEF Handle, Reject, Admit, Accept
  <2>2. \A k \in Lists : Contents(k)' = Contents(k)
    BY <2>1 DEF Contents
  <2> QED
    BY <1>2, <1>3, <2>2, RecordsStay DEF Busy, Lists
<1> QED
  BY <1>4, <1>5

(* processEvent. Only its own event gets a record, and the others are not  *)
(* anywhere else.                                                          *)
LEMMA InsertRecords ==
    ASSUME Typed, Apart, RecordsKept, Undisturbed', NEW i \in Ids, NEW b \in BOOLEAN,
           Busy("bridge", i), Insert(i, b), process["bridge"] = "up",
           UNCHANGED <<list, request, held, templates>>,
           Verdicts(held["bridge"][i].id) = {}, held["bridge"][i].extracted = b,
           NEW s \in {"enqueueing", "templating"}, s = "templating" => b, GoTo("bridge", i, s)
    PROVE  RecordsKept'
<1>1. TypeOK /\ "bridge" \in Pools /\ "orchestrator" \in Pools
  BY DEF Typed, Pools
<1>2. PICK m \in Items : m = held["bridge"][i]
  BY <1>1 DEF TypeOK, Busy
<1>3. records' = records \union {<<m.id, b>>}
  BY <1>1, <1>2 DEF Insert, Succeeds, Breaks, Cancelled, Fault, TypeOK, Undisturbed
<1>4. Verdicts(m.id)' = {b} /\ Verdicts(m.id) = {}
  BY <1>2, <1>3 DEF Verdicts
<1>5. \A e : e # m.id => Verdicts(e)' = Verdicts(e)
  BY <1>3 DEF Verdicts
<1>6. m.id \in FileEvents /\ ~Before(m.id)
  BY <1>2 DEF Typed, Sorted, Unsent, Pools
<1>7. ASSUME NEW n, n.id # m.id
      PROVE  (Fresh(n)' <=> Fresh(n)) /\ (Told(n)' <=> Told(n)) /\ \A t : AtStep(n, t)' <=> AtStep(n, t)
  BY <1>5, <1>7 DEF Fresh, Told, AtStep
<1>8. \A l \in Lists : \A n \in Contents(l)' : n \in Contents(l) /\ n.id # m.id
  BY <1>1, <1>2 DEF Contents, Apart
<1>9. \A n \in Contents("incoming")' \union Contents("extraction")' : Fresh(n)'
  BY <1>7, <1>8 DEF RecordsKept, Lists
<1>10. \A n \in Contents("delivery")' : Told(n)'
  BY <1>7, <1>8 DEF RecordsKept, Lists
<1>11. ASSUME NEW j \in Ids, Busy("orchestrator", j)' PROVE Fresh(held["orchestrator"][j])'
  <2>1. Fresh(held["orchestrator"][j]) /\ held["orchestrator"][j].id # m.id
    BY <1>1, <1>2, <1>11 DEF RecordsKept, Apart, Busy
  <2> QED
    BY <1>5, <2>1 DEF Fresh
<1>12. /\ step'["bridge"][i] = s
       /\ \A j \in Ids : j # i => step'["bridge"][j] = step["bridge"][j]
  BY <1>1 DEF GoTo, TypeOK
<1>13. ASSUME NEW j \in Ids, Busy("bridge", j)' PROVE AtStep(held["bridge"][j], step["bridge"][j])'
  <2>1. CASE j = i
    <3>1. Told(m)' /\ (s = "templating" => m.extracted)
      BY <1>2, <1>4, <1>6 DEF Told
    <3> QED
      BY <1>2, <1>12, <2>1, <3>1 DEF AtStep, Told, Fresh, Verdicts
  <2>2. CASE j # i
    <3>1. AtStep(held["bridge"][j], step["bridge"][j]) /\ held["bridge"][j].id # m.id
      BY <1>1, <1>2, <1>13, <2>2 DEF RecordsKept, Apart, Busy
    <3> QED
      BY <1>5, <1>12, <2>2, <3>1 DEF AtStep, Fresh, Told
  <2> QED
    BY <2>1, <2>2
<1>14. \A e \in Events : Before(e)' => Verdicts(e)' = {}
  BY <1>5, <1>6 DEF RecordsKept, Before
<1>15. \A e \in templates' : <<e, TRUE>> \in records'
  BY <1>3 DEF RecordsKept
<1> QED
  BY <1>9, <1>10, <1>11, <1>13, <1>14, <1>15 DEF RecordsKept

(* The bridge's other steps leave the records alone. *)
LEMMA BridgeMoveRecords ==
    ASSUME Typed, RecordsKept, NEW i \in Ids, NEW s \in Steps \ Idle, NEW h \in Items,
           Moves("bridge", i, s, h), AtStep(h, s), UNCHANGED <<list, request, records, templates>>
    PROVE  RecordsKept'
<1>1. TypeOK /\ "bridge" \in Pools /\ "orchestrator" \in Pools /\ h # Nothing
  BY NothingAssumption DEF Typed, Pools
<1>2. /\ held'["bridge"][i] = h /\ step'["bridge"][i] = s
      /\ \A q \in Pools, j \in Ids : q # "bridge" \/ j # i =>
            held'[q][j] = held[q][j] /\ step'[q][j] = step[q][j]
  BY <1>1, MovesOne
<1>3. \A l \in Lists : Contents(l)' = Contents(l)
  BY DEF Contents
<1>4. /\ \A j \in Ids : Busy("orchestrator", j)' =>
            Busy("orchestrator", j) /\ held'["orchestrator"][j] = held["orchestrator"][j]
      /\ \A j \in Ids : Busy("bridge", j)' =>
            \/ /\ Busy("bridge", j) /\ held'["bridge"][j] = held["bridge"][j]
               /\ step'["bridge"][j] = step["bridge"][j]
            \/ AtStep(held'["bridge"][j], step'["bridge"][j])
  BY <1>1, <1>2 DEF Busy
<1> QED
  BY <1>3, <1>4, RecordsStay DEF Lists, Before

LEMMA UpsertRecords ==
    ASSUME Typed, RecordsKept, NEW i \in Ids, UpsertTemplate(i) PROVE RecordsKept'
<1> DEFINE m == held["bridge"][i]
<1>1. TypeOK /\ "bridge" \in Pools
  BY DEF Typed, Pools
<1>2. step["bridge"][i] = "templating" /\ m \in Items /\ Busy("bridge", i)
  BY <1>1, HoldsItem DEF UpsertTemplate, Bridge, At, Idle
<1>3. Told(m) /\ m.extracted /\ m.id \in FileEvents
  BY <1>2 DEF RecordsKept, AtStep, Typed, Sorted
<1>4. <<m.id, TRUE>> \in records
  BY <1>2, <1>3 DEF Told, Verdicts, Items
<1>5. \A e \in templates' : <<e, TRUE>> \in records
  BY <1>4 DEF UpsertTemplate, RecordsKept
<1>6. UNCHANGED <<list, request, held, records>> /\ GoTo("bridge", i, "enqueueing")
  BY DEF UpsertTemplate
<1>7. \A l \in Lists : Contents(l)' = Contents(l)
  BY <1>6 DEF Contents
<1>8. /\ step'["bridge"][i] = "enqueueing"
      /\ \A j \in Ids : j # i => step'["bridge"][j] = step["bridge"][j]
  BY <1>1, <1>6 DEF GoTo, TypeOK
<1>9. \A n : (Fresh(n)' <=> Fresh(n)) /\ (Told(n)' <=> Told(n)) /\ Verdicts(n)' = Verdicts(n)
  BY <1>6 DEF Fresh, Told, Verdicts
<1>10. ASSUME NEW j \in Ids, Busy("bridge", j)' PROVE AtStep(held["bridge"][j], step["bridge"][j])'
  <2>1. Busy("bridge", j) /\ AtStep(held["bridge"][j], step["bridge"][j])
    BY <1>6, <1>10 DEF Busy, RecordsKept
  <2>2. AtStep(held["bridge"][j], step'["bridge"][j])
    BY <1>3, <1>8, <2>1 DEF AtStep
  <2> QED
    BY <1>6, <2>2 DEF AtStep, Fresh, Told, Verdicts
<1>11. ASSUME NEW j \in Ids, Busy("orchestrator", j)' PROVE Fresh(held["orchestrator"][j])'
  BY <1>6, <1>11 DEF RecordsKept, Busy, Fresh, Verdicts
<1>12. /\ \A n \in Contents("incoming")' \union Contents("extraction")' : Fresh(n)'
       /\ \A n \in Contents("delivery")' : Told(n)'
  BY <1>7, <1>9 DEF RecordsKept, Lists
<1>13. \A e \in Events : Before(e)' => Verdicts(e)' = {}
  BY <1>6, <1>9 DEF RecordsKept, Before
<1>14. \A e \in templates' : <<e, TRUE>> \in records'
  BY <1>5, <1>6
<1> QED
  BY <1>10, <1>11, <1>12, <1>13, <1>14 DEF RecordsKept

LEMMA ProcessRecords ==
    ASSUME Typed, Apart, RecordsKept, Undisturbed', NEW i \in Ids, Process(i) PROVE RecordsKept'
<1>1. TypeOK /\ "bridge" \in Pools
  BY DEF Typed, Pools
<1>2. /\ step["bridge"][i] \notin Idle
      /\ UNCHANGED <<list, request, process, pool, outages>>
  BY <1>1, ProcessGoes DEF BridgeGoes
<1>3. process["bridge"] = "up"
  BY <1>1, <1>2 DEF Typed, StopsAreOutages, Undisturbed
<1>4. PICK m \in Items : m = held["bridge"][i] /\ Busy("bridge", i)
  BY <1>1, <1>2, HoldsItem
<1>5. AtStep(m, step["bridge"][i])
  BY <1>4 DEF RecordsKept
<1>6. CASE Download(i) \/ Upload(i)
  <2>1. Fresh(m) /\ UNCHANGED <<held, records, templates>>
    BY <1>5, <1>6 DEF Download, Upload, Bridge, At, AtStep
  <2>2. PICK s \in {"uploading", "extracting", "failing"} : GoTo("bridge", i, s)
    BY <1>6 DEF Download, Upload
  <2>3. AtStep(m, s) /\ s \in Steps \ Idle
    BY <2>1 DEF AtStep, Steps, Idle
  <2> QED
    BY <1>2, <1>4, <2>1, <2>2, <2>3, BridgeMoveRecords DEF Moves
<1>7. CASE Extract(i)
  <2>1. Fresh(m) /\ UNCHANGED <<records, templates>>
    BY <1>5, <1>7 DEF Extract, Bridge, At, AtStep
  <2>2. CASE GoTo("bridge", i, "failing") /\ UNCHANGED held
    <3>1. AtStep(m, "failing") /\ "failing" \in Steps \ Idle
      BY <2>1 DEF AtStep, Steps, Idle
    <3> QED
      BY <1>2, <1>4, <2>1, <2>2, <3>1, BridgeMoveRecords DEF Moves
  <2>3. CASE GoTo("bridge", i, "recording") /\ held' = [held EXCEPT !["bridge"][i].extracted = TRUE]
    <3> DEFINE h == [m EXCEPT !.extracted = TRUE]
    <3>1. h \in Items /\ h.id = m.id /\ h.extracted
      BY DEF Items
    <3>2. Hold("bridge", i, h)
      BY <1>4, <2>3 DEF Hold
    <3> HIDE DEF h
    <3>3. AtStep(h, "recording") /\ "recording" \in Steps \ Idle
      BY <2>1, <3>1 DEF AtStep, Fresh, Steps, Idle
    <3>4. Moves("bridge", i, "recording", h)
      BY <2>3, <3>2 DEF Moves
    <3> QED
      BY <1>2, <2>1, <3>1, <3>3, <3>4, BridgeMoveRecords
  <2> QED
    BY <1>7, <2>2, <2>3 DEF Extract
<1>8. CASE RecordFailure(i)
  <2>1. Verdicts(m.id) = {} /\ m.extracted = FALSE
    BY <1>4, <1>5, <1>8 DEF RecordFailure, Bridge, At, AtStep, Fresh, Items
  <2>2. Insert(i, FALSE) /\ GoTo("bridge", i, "enqueueing") /\ UNCHANGED <<held, templates>>
    BY <1>8 DEF RecordFailure
  <2> QED
    BY <1>2, <1>3, <1>4, <2>1, <2>2, InsertRecords
<1>9. CASE RecordSuccess(i)
  <2>1. Verdicts(m.id) = {} /\ m.extracted = TRUE
    BY <1>4, <1>5, <1>9 DEF RecordSuccess, Bridge, At, AtStep, Items
  <2>2. Insert(i, TRUE) /\ UNCHANGED <<held, templates>>
    BY <1>9 DEF RecordSuccess
  <2>3. PICK s \in {"enqueueing", "templating"} : GoTo("bridge", i, s)
    BY <1>9 DEF RecordSuccess
  <2> QED
    BY <1>2, <1>3, <1>4, <2>1, <2>2, <2>3, InsertRecords
<1> QED
  BY <1>6, <1>7, <1>8, <1>9, UpsertRecords DEF Process

(* Nothing moves, but idle workers may start or stop. *)
LEMMA IdleRecords ==
    ASSUME Typed, RecordsKept, UNCHANGED <<list, request, held, records, templates>>,
           \A p \in Pools, i \in Ids : step[p][i] \in Idle \/ step'[p][i] = step[p][i]
    PROVE  RecordsKept'
<1>1. \A l \in Lists : Contents(l)' = Contents(l)
  BY DEF Contents
<1>2. \A p \in Pools, i \in Ids : Busy(p, i)' =>
         Busy(p, i) /\ held'[p][i] = held[p][i] /\ step'[p][i] = step[p][i]
  BY DEF Busy, Typed, TypeOK
<1> QED
  BY <1>1, <1>2, RecordsStay DEF Lists, Pools, Before

LEMMA NextRecords ==
    ASSUME Typed, Apart, RecordsKept, [Next]_vars, Undisturbed' PROVE RecordsKept'
<1>1. TypeOK /\ Undisturbed
  BY DisturbedForever DEF Typed
<1>2. \A p \in Pools : process[p] = "up"
  BY <1>1 DEF Typed, StopsAreOutages, Undisturbed
<1>3. CASE UNCHANGED vars
  BY <1>3, IdleRecords DEF vars
<1>4. ASSUME NEW e \in Events, Reject(e) \/ Admit(e) \/ EnqueueIncoming(e) \/ Accept(e) PROVE RecordsKept'
  BY <1>4, HandleRecords DEF Handle
<1>5. ASSUME NEW p \in Pools, NEW i \in Ids, Worker(p, i) PROVE RecordsKept'
  <2>1. ~StopPolling(p, i)
    BY <1>2 DEF StopPolling
  <2> QED
    BY <1>5, <2>1, DequeueRecords, EnqueueRecords, ProcessRecords DEF Worker, Process
<1>6. ASSUME NEW p \in Pools, NEW i \in Ids PROVE ~DequeueReplyLost(p, i)
  BY <1>1 DEF DequeueReplyLost, Fault, Undisturbed
<1>7. ~IngestionCrash /\ \A p \in Pools : ~Shutdown(p) /\ ~Crash(p) /\ ~Exit(p) /\ ~Start(p)
  BY <1>1, <1>2 DEF IngestionCrash, Shutdown, Crash, Exit, Start, Outage, Undisturbed
<1>8. ASSUME NEW p \in Pools, ScaleUp(p) PROVE RecordsKept'
  <2>1. /\ \A i \in Ids : step'[p][i] = IF i \in pool[p] + 1..pool'[p] THEN "polling" ELSE step[p][i]
        /\ \A q \in Pools \ {p} : step'[q] = step[q]
    BY <1>1, <1>8 DEF ScaleUp, TypeOK
  <2>2. \A i \in Ids : i \in pool[p] + 1..pool'[p] => step[p][i] = "stopped"
    <3>1. pool[p] \in Nat
      BY <1>1, IdsArePositive DEF TypeOK
    <3> QED
      BY <3>1, IdsArePositive DEF Typed, Sorted
  <2>3. \A q \in Pools, i \in Ids : step[q][i] \in Idle \/ step'[q][i] = step[q][i]
    BY <2>1, <2>2 DEF Idle
  <2> QED
    BY <1>8, <2>3, IdleRecords DEF ScaleUp
<1> QED
  BY <1>3, <1>4, <1>5, <1>6, <1>7, <1>8 DEF Next

(* While nothing fails, the delivery queue agrees with Postgres: a file    *)
(* event gets there with one record, which says whether its body was       *)
(* extended, and templates are made from such events only.                 *)
THEOREM RecordsAgree == Spec => []RecordMatchesEvent
<1> DEFINE Once == faults = 0 => Apart
           Kept == Undisturbed => RecordsKept
<1>1. Init => Typed /\ Once /\ Kept
  BY InitTyped, InitApart, InitRecords
<1>2. Typed /\ Once /\ Kept /\ [Next]_vars => (Typed /\ Once /\ Kept)'
  <2> SUFFICES ASSUME Typed, Once, Kept, [Next]_vars PROVE (Typed /\ Once /\ Kept)'
    OBVIOUS
  <2>1. Typed' /\ Once'
    BY NextTyped, NextApart
  <2>2. ASSUME Undisturbed' PROVE RecordsKept'
    <3>1. Undisturbed
      BY <2>2, DisturbedForever
    <3> QED
      BY <2>2, <3>1, NextRecords DEF Undisturbed
  <2> QED
    BY <2>1, <2>2
<1>3. Kept => RecordMatchesEvent
  <2> SUFFICES ASSUME Kept, Undisturbed PROVE RecordMatchesEvent
    BY DEF RecordMatchesEvent
  <2>1. \A k \in DOMAIN list["delivery"] : Told(list["delivery"][k])
    BY DEF RecordsKept, Contents
  <2> QED
    BY <2>1 DEF RecordMatchesEvent, RecordsKept, Told, Verdicts
<1> HIDE DEF Once, Kept
<1> QED
  BY <1>1, <1>2, <1>3, PTL DEF Spec

=============================================================================
