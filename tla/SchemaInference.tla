--------------------------- MODULE SchemaInference ---------------------------
(***************************************************************************)
(* Schema inference and drift detection (internal/schema) as the workers   *)
(* of the delivery engine run them: for every webhook UpdateSchema reads   *)
(* the row of payload_schemas, merges the payload into its copy and        *)
(* upserts it; then CheckDrift reads the row again. There is no            *)
(* transaction and no lock around the two calls. Sources do not share      *)
(* rows: the module is about one source.                                   *)
(*                                                                         *)
(* A payload is what FlattenJSON and DetectType make of it: a function     *)
(* from the fields that are present to their types.                        *)
(***************************************************************************)
EXTENDS Naturals, Sequences

CONSTANTS
    Workers,      \* delivery workers
    Fields,       \* flattened field names
    Types,        \* JSON types, "null" among them
    MinSamples,   \* SCHEMA_INFERENCE_MIN_SAMPLES
    MaxWebhooks,  \* bound: webhooks of the source
    MaxFaults     \* bound: store calls that fail

ASSUME TypesAssumption  == "null" \in Types
ASSUME BoundsAssumption == MinSamples \in Nat /\ MaxWebhooks \in Nat /\ MaxFaults \in Nat

VARIABLES
    row,       \* the row of payload_schemas
    worker,    \* the next store call of each worker
    payload,   \* the payload it works on
    copy,      \* the schema it is about to upsert
    sampled,   \* history: its UpdateSchema upserted the payload
    found,     \* drifts CheckDrift has still to insert
    drifts,    \* table drift_events
    observed,  \* history: payloads upserted, in that order
    overlapped, \* history: two workers have handled webhooks of the source at once
    webhooks, faults

vars == <<row, worker, payload, copy, sampled, found, drifts, observed, overlapped,
          webhooks, faults>>

Payloads == UNION {[present -> Types] : present \in SUBSET Fields}
Schemas  == [fields: UNION {[known -> [type: Types, nullable: BOOLEAN]] : known \in SUBSET Fields},
             samples: Nat, locked: BOOLEAN]
Drifts   == [kind: {"FIELD_MISSING", "TYPE_CHANGED", "NEW_FIELD"}, field: Fields]

Empty == [f \in {} |-> "null"]

(* No row: GetPayloadSchema returns an error, as it does on a fault. *)
NoRow == [fields |-> Empty, samples |-> 0, locked |-> FALSE]

TypeOK ==
    /\ row \in Schemas
    /\ worker \in [Workers -> {"idle", "reading", "writing", "checking", "inserting"}]
    /\ payload \in [Workers -> Payloads]
    /\ copy \in [Workers -> Schemas]
    /\ sampled \in [Workers -> BOOLEAN]
    /\ found \in [Workers -> SUBSET Drifts]
    /\ \A w \in Workers : worker[w] # "inserting" => found[w] = {}
    /\ drifts \subseteq Drifts
    /\ observed \in Seq(Payloads)
    /\ overlapped \in BOOLEAN
    /\ webhooks \in 0..MaxWebhooks /\ faults \in 0..MaxFaults

-----------------------------------------------------------------------------
Fault == faults < MaxFaults /\ faults' = faults + 1

GoTo(w, step) == worker' = [worker EXCEPT ![w] = step]

LatestTypeOfNull(old, new) == new

LatestType(old, new) == IF new = "null" THEN old ELSE new

(* A known field: absent, it becomes nullable; present, its type follows   *)
(* the last value that is not null.                                        *)
Known(field, f, p) ==
    IF f \in DOMAIN p THEN [field EXCEPT !.type = LatestType(@, p[f])]
                      ELSE [field EXCEPT !.nullable = TRUE]

LocksEarly(n) == n + 1 >= MinSamples

Locks(n) == n >= MinSamples

(* UpdateSchema's computation. A field first seen after the first sample is nullable. *)
Merge(schema, p) ==
    LET n == schema.samples + 1
    IN [fields  |-> [f \in DOMAIN schema.fields \union DOMAIN p |->
                       IF f \in DOMAIN schema.fields
                         THEN Known(schema.fields[f], f, p)
                         ELSE [type |-> p[f], nullable |-> n > 1]],
        samples |-> n,
        locked  |-> Locks(n)]

(* CheckDrift's comparison. *)
DriftsOf(schema, p) ==
    [kind: {"FIELD_MISSING"}, field: {f \in DOMAIN schema.fields \ DOMAIN p : ~schema.fields[f].nullable}]
    \union
    [kind: {"TYPE_CHANGED"}, field: {f \in DOMAIN schema.fields \intersect DOMAIN p :
                                       p[f] \notin {"null", schema.fields[f].type}}]
    \union
    [kind: {"NEW_FIELD"}, field: DOMAIN p \ DOMAIN schema.fields]

-----------------------------------------------------------------------------
(* One webhook, in the hands of worker w *)

Receive(w) ==
    /\ worker[w] = "idle" /\ webhooks < MaxWebhooks
    /\ webhooks' = webhooks + 1
    /\ payload' \in {[payload EXCEPT ![w] = p] : p \in Payloads}
    /\ GoTo(w, "reading")
    /\ overlapped' = (overlapped \/ \E v \in Workers \ {w} : worker[v] # "idle")
    /\ UNCHANGED <<row, copy, sampled, found, drifts, observed, faults>>

(* Any error of GetPayloadSchema is taken for the first webhook of the     *)
(* source; a locked schema is left alone.                                  *)
Read(w) ==
    /\ worker[w] = "reading"
    /\ \E seen \in {row, NoRow} :
          /\ IF seen = row THEN UNCHANGED faults ELSE Fault
          /\ IF seen.locked
               THEN GoTo(w, "checking") /\ UNCHANGED copy
               ELSE GoTo(w, "writing") /\ copy' = [copy EXCEPT ![w] = Merge(seen, payload[w])]
    /\ UNCHANGED <<row, payload, sampled, found, drifts, observed, overlapped, webhooks>>

(* UpsertPayloadSchema overwrites whatever is there; its error is logged.  *)
Upsert(w) ==
    /\ worker[w] = "writing"
    /\ \/ /\ row' = copy[w] /\ UNCHANGED faults
          /\ observed' = Append(observed, payload[w])
          /\ sampled' = [sampled EXCEPT ![w] = TRUE]
       \/ Fault /\ UNCHANGED <<row, observed, sampled>>
    /\ GoTo(w, "checking")
    /\ UNCHANGED <<payload, copy, found, drifts, overlapped, webhooks>>

(* CheckDrift reads the row again. *)
Check(w) ==
    /\ worker[w] = "checking"
    /\ \/ /\ found' = [found EXCEPT ![w] = IF row.locked THEN DriftsOf(row, payload[w]) ELSE {}]
          /\ UNCHANGED faults
       \/ Fault /\ UNCHANGED found
    /\ GoTo(w, "inserting")
    /\ UNCHANGED <<row, payload, copy, sampled, drifts, observed, overlapped, webhooks>>

(* InsertDriftEvent for each drift, in the order of a map; errors are logged. *)
InsertDrift(w) ==
    /\ worker[w] = "inserting"
    /\ \E d \in found[w] :
          /\ found' = [found EXCEPT ![w] = @ \ {d}]
          /\ \/ drifts' = drifts \union {d} /\ UNCHANGED faults
             \/ Fault /\ UNCHANGED drifts
    /\ UNCHANGED <<row, worker, payload, copy, sampled, observed, overlapped, webhooks>>

FinishEarly(w) ==
    /\ worker[w] = "inserting"
    /\ GoTo(w, "idle")
    /\ sampled' = [sampled EXCEPT ![w] = FALSE]
    /\ payload' = [payload EXCEPT ![w] = Empty]
    /\ copy' = [copy EXCEPT ![w] = NoRow]
    /\ UNCHANGED <<row, found, drifts, observed, overlapped, webhooks, faults>>

Finish(w) ==
    /\ worker[w] = "inserting" /\ found[w] = {}
    /\ GoTo(w, "idle")
    /\ sampled' = [sampled EXCEPT ![w] = FALSE]
    /\ payload' = [payload EXCEPT ![w] = Empty]
    /\ copy' = [copy EXCEPT ![w] = NoRow]
    /\ UNCHANGED <<row, found, drifts, observed, overlapped, webhooks, faults>>

-----------------------------------------------------------------------------
Init ==
    /\ row = NoRow
    /\ worker = [w \in Workers |-> "idle"]
    /\ payload = [w \in Workers |-> Empty]
    /\ copy = [w \in Workers |-> NoRow]
    /\ sampled = [w \in Workers |-> FALSE]
    /\ found = [w \in Workers |-> {}]
    /\ drifts = {}
    /\ observed = <<>> /\ overlapped = FALSE
    /\ webhooks = 0 /\ faults = 0

Next ==
    \E w \in Workers :
        Receive(w) \/ Read(w) \/ Upsert(w) \/ Check(w) \/ InsertDrift(w) \/ Finish(w)

Spec == Init /\ [][Next]_vars

-----------------------------------------------------------------------------
(* Properties *)

SeenIn(s, f)  == {i \in 1..Len(s) : f \in DOMAIN s[i]}
TypedIn(s, f) == {i \in SeenIn(s, f) : s[i][f] # "null"}
LastOf(S)     == CHOOSE i \in S : \A j \in S : j <= i

(* The schema of a sequence of payloads, said without going through them   *)
(* one by one.                                                             *)
ExactSchema(s) ==
    [fields  |-> [f \in {g \in Fields : SeenIn(s, g) # {}} |->
                    [type     |-> IF TypedIn(s, f) = {} THEN "null" ELSE s[LastOf(TypedIn(s, f))][f],
                     nullable |-> SeenIn(s, f) # 1..Len(s)]],
     samples |-> Len(s),
     locked  |-> s # <<>> /\ Len(s) >= MinSamples]

(* As long as the workers take the source's webhooks one at a time and no  *)
(* call fails, inference is exact: a field is known iff it was seen,       *)
(* nullable iff it was ever absent, of its last real type, and the schema  *)
(* locks with sample MinSamples and stays as it is. So a payload that went *)
(* into the schema, the one that locks it in particular, raises no drift   *)
(* against it.                                                             *)
InferenceIsExact ==
    faults = 0 /\ ~overlapped =>
        /\ row = ExactSchema(observed)
        /\ \A w \in Workers : sampled[w] => found[w] = {}

(* No lost update and no fault makes the system speak too early: a locked  *)
(* schema, and a drift, rest on at least MinSamples payloads.              *)
LockRestsOnSamples ==
    row.locked \/ drifts # {} \/ (\E w \in Workers : found[w] # {}) => Len(observed) >= MinSamples

(* Not so with two workers: inference.go:33 and                            *)
(* TestUpdateSchema_LockedSchemaIsImmutable (inference_test.go:94) say     *)
(* that a locked schema is not updated.                                    *)
LockedIsFinal == [][ row.locked => UNCHANGED row ]_vars

-----------------------------------------------------------------------------
(* What LockRestsOnSamples needs to be inductive: no schema counts more    *)
(* samples than there were upserts, its own upsert to come included, and   *)
(* none is locked with less than MinSamples.                               *)
SamplesRestOnUpserts ==
    /\ row.samples <= Len(observed)
    /\ row.locked => row.samples >= MinSamples
    /\ \A w \in Workers : worker[w] = "writing" =>
          /\ copy[w].samples <= Len(observed) + 1
          /\ copy[w].locked => copy[w].samples >= MinSamples

=============================================================================
