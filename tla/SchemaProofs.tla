---------------------------- MODULE SchemaProofs ----------------------------
(* Type correctness of SchemaInference, that neither a lock nor a drift    *)
(* comes too early, and that inference is exact where nothing disturbs it, *)
(* for any number of workers, fields and webhooks.                         *)
EXTENDS SchemaInference, TLAPS

(* UpdateSchema's computation takes a schema and a payload to a schema. *)
LEMMA MergeIsSchema ==
    ASSUME NEW schema \in Schemas, NEW p \in Payloads
    PROVE  /\ Merge(schema, p) \in Schemas
           /\ Merge(schema, p).samples = schema.samples + 1
           /\ Merge(schema, p).locked => Merge(schema, p).samples >= MinSamples
<1> DEFINE FieldSchema == [type: Types, nullable: BOOLEAN]
           n == schema.samples + 1
           known == DOMAIN schema.fields \union DOMAIN p
           merged == [f \in known |->
                        IF f \in DOMAIN schema.fields
                          THEN Known(schema.fields[f], f, p)
                          ELSE [type |-> p[f], nullable |-> n > 1]]
<1>1. PICK present \in SUBSET Fields : p \in [present -> Types]
  BY DEF Payloads
<1>2. /\ schema.samples \in Nat
      /\ \E old \in SUBSET Fields : schema.fields \in [old -> FieldSchema]
  BY DEF Schemas
<1>3. PICK old \in SUBSET Fields : schema.fields \in [old -> FieldSchema]
  BY <1>2
<1>4. known \in SUBSET Fields
  BY <1>1, <1>3
<1>5. ASSUME NEW f \in known PROVE merged[f] \in FieldSchema
  <2>1. CASE f \in DOMAIN schema.fields
    <3>1. schema.fields[f] \in FieldSchema
      BY <1>3, <2>1
    <3>2. f \in DOMAIN p => p[f] \in Types
      BY <1>1
    <3>3. Known(schema.fields[f], f, p) \in FieldSchema
      BY <3>1, <3>2 DEF Known, LatestType
    <3> QED
      BY <2>1, <3>3
  <2>2. CASE f \notin DOMAIN schema.fields
    <3>1. p[f] \in Types /\ (n > 1) \in BOOLEAN
      BY <1>1, <2>2
    <3> QED
      BY <2>2, <3>1
  <2> QED
    BY <2>1, <2>2
<1>6. merged \in [known -> FieldSchema]
  BY <1>5
<1>7. Merge(schema, p) = [fields |-> merged, samples |-> n, locked |-> Locks(n)]
  BY DEF Merge
<1>8. Locks(n) \in BOOLEAN /\ (Locks(n) => n >= MinSamples) /\ n \in Nat
  BY <1>2 DEF Locks
<1> HIDE DEF merged, known, n
<1>9. [fields |-> merged, samples |-> n, locked |-> Locks(n)] \in Schemas
  BY <1>4, <1>6, <1>8 DEF Schemas
<1> QED
  BY <1>7, <1>8, <1>9 DEF n

LEMMA NoRowIsSchema == NoRow \in Schemas /\ Empty \in Payloads
<1>1. /\ {} \in SUBSET Fields
      /\ Empty \in [{} -> Types]
      /\ Empty \in [{} -> [type: Types, nullable: BOOLEAN]]
  BY DEF Empty
<1>2. /\ Empty \in UNION {[present -> Types] : present \in SUBSET Fields}
      /\ Empty \in UNION {[known -> [type: Types, nullable: BOOLEAN]] : known \in SUBSET Fields}
  BY <1>1
<1> QED
  BY <1>2 DEF NoRow, Schemas, Payloads

LEMMA DriftsAreDrifts ==
    ASSUME NEW schema \in Schemas, NEW p \in Payloads
    PROVE  DriftsOf(schema, p) \in SUBSET Drifts
<1>1. DOMAIN p \subseteq Fields
  BY DEF Payloads
<1>2. DOMAIN schema.fields \subseteq Fields
  BY DEF Schemas
<1> QED
  BY <1>1, <1>2 DEF DriftsOf, Drifts

(* The row, the workers' copies and the drifts are well typed. *)
THEOREM TypeInvariant == Spec => []TypeOK
<1>1. Init => TypeOK
  <2> SUFFICES ASSUME Init PROVE TypeOK
    OBVIOUS
  <2>1. overlapped \in BOOLEAN /\ sampled \in [Workers -> BOOLEAN]
    BY DEF Init
  <2> QED
    BY <2>1, NoRowIsSchema, BoundsAssumption DEF Init, TypeOK
<1>2. TypeOK /\ [Next]_vars => TypeOK'
  <2> SUFFICES ASSUME TypeOK, [Next]_vars PROVE TypeOK'
    OBVIOUS
  <2> USE BoundsAssumption DEF TypeOK, GoTo, Fault
  <2>1. CASE UNCHANGED vars
    BY <2>1 DEF vars
  <2>2. ASSUME NEW w \in Workers, Receive(w) PROVE TypeOK'
    BY <2>2 DEF Receive
  <2>3. ASSUME NEW w \in Workers, Read(w) PROVE TypeOK'
    <3>1. PICK seen \in {row, NoRow} :
            /\ IF seen = row THEN UNCHANGED faults ELSE Fault
            /\ IF seen.locked
                 THEN GoTo(w, "checking") /\ UNCHANGED copy
                 ELSE GoTo(w, "writing") /\ copy' = [copy EXCEPT ![w] = Merge(seen, payload[w])]
      BY <2>3 DEF Read
    <3>2. Merge(seen, payload[w]) \in Schemas
      BY <3>1, NoRowIsSchema, MergeIsSchema
    <3> QED
      BY <2>3, <3>1, <3>2 DEF Read
  <2>4. ASSUME NEW w \in Workers, Upsert(w) PROVE TypeOK'
    <3>1. Append(observed, payload[w]) \in Seq(Payloads)
      OBVIOUS
    <3>2. row' \in {row, copy[w]} /\ observed' \in {observed, Append(observed, payload[w])}
      BY <2>4 DEF Upsert
    <3>3. row' \in Schemas /\ observed' \in Seq(Payloads)
      BY <3>1, <3>2
    <3>4. faults' \in 0..MaxFaults
      BY <2>4 DEF Upsert
    <3>5. sampled' \in [Workers -> BOOLEAN]
      BY <2>4 DEF Upsert
    <3>6. worker' \in [Workers -> {"idle", "reading", "writing", "checking", "inserting"}]
      BY <2>4 DEF Upsert
    <3> QED
      BY <2>4, <3>3, <3>4, <3>5, <3>6 DEF Upsert
  <2>5. ASSUME NEW w \in Workers, Check(w) PROVE TypeOK'
    <3>1. DriftsOf(row, payload[w]) \in SUBSET Drifts
      BY DriftsAreDrifts
    <3> QED
      BY <2>5, <3>1 DEF Check
  <2>6. ASSUME NEW w \in Workers, InsertDrift(w) PROVE TypeOK'
    BY <2>6 DEF InsertDrift
  <2>7. ASSUME NEW w \in Workers, Finish(w) PROVE TypeOK'
    BY <2>7, NoRowIsSchema DEF Finish
  <2> QED
    BY <2>1, <2>2, <2>3, <2>4, <2>5, <2>6, <2>7 DEF Next
<1> QED
  BY <1>1, <1>2, PTL DEF Spec

(* Lost updates and failed reads only make the sample count fall behind:   *)
(* no worker locks a schema or reports a drift before MinSamples payloads  *)
(* were upserted.                                                          *)
THEOREM LocksAreEarned == Spec => []LockRestsOnSamples
<1> DEFINE Earned == SamplesRestOnUpserts /\ LockRestsOnSamples
<1>1. Init => Earned
  BY BoundsAssumption DEF Init, SamplesRestOnUpserts, LockRestsOnSamples, NoRow
<1>2. TypeOK /\ TypeOK' /\ Earned /\ [Next]_vars => Earned'
  <2> SUFFICES ASSUME TypeOK, TypeOK', Earned, [Next]_vars PROVE Earned'
    OBVIOUS
  <2>1. /\ Len(observed) \in Nat /\ row.samples \in Nat
        /\ \A w \in Workers : copy[w].samples \in Nat /\ copy'[w].samples \in Nat
    BY DEF TypeOK, Schemas
  <2> USE BoundsAssumption DEF SamplesRestOnUpserts, LockRestsOnSamples
  <2>2. CASE UNCHANGED vars
    BY <2>2 DEF vars
  <2>3. ASSUME NEW w \in Workers, Receive(w) PROVE Earned'
    BY <2>3 DEF Receive, GoTo, TypeOK
  <2>4. ASSUME NEW w \in Workers, Read(w) PROVE Earned'
    <3>1. CASE worker' = [worker EXCEPT ![w] = "checking"] /\ UNCHANGED copy
      BY <2>4, <3>1 DEF Read, TypeOK
    <3>2. ASSUME NEW seen \in {row, NoRow},
                 worker' = [worker EXCEPT ![w] = "writing"],
                 copy' = [copy EXCEPT ![w] = Merge(seen, payload[w])]
          PROVE  Earned'
      <4>1. /\ Merge(seen, payload[w]).samples = seen.samples + 1
            /\ Merge(seen, payload[w]).locked => Merge(seen, payload[w]).samples >= MinSamples
        BY NoRowIsSchema, MergeIsSchema DEF TypeOK
      <4>2. seen.samples <= Len(observed) /\ seen.samples \in Nat
        BY <2>1 DEF NoRow
      <4>3. /\ copy'[w].samples <= Len(observed) + 1
            /\ copy'[w].locked => copy'[w].samples >= MinSamples
        BY <2>1, <3>2, <4>1, <4>2 DEF TypeOK
      <4>4. UNCHANGED <<row, found, drifts, observed>>
        BY <2>4 DEF Read
      <4> QED
        BY <3>2, <4>3, <4>4 DEF TypeOK
    <3> QED
      BY <2>4, <3>1, <3>2 DEF Read, GoTo
  <2>5. ASSUME NEW w \in Workers, Upsert(w) PROVE Earned'
    <3>1. CASE row' = copy[w] /\ observed' = Append(observed, payload[w])
      <4>1. Len(observed') = Len(observed) + 1
        BY <3>1 DEF TypeOK
      <4> QED
        BY <2>1, <2>5, <3>1, <4>1 DEF Upsert, GoTo, TypeOK
    <3>2. CASE UNCHANGED <<row, observed>>
      BY <2>5, <3>2 DEF Upsert, GoTo, TypeOK
    <3> QED
      BY <2>5, <3>1, <3>2 DEF Upsert
  <2>6. ASSUME NEW w \in Workers, Check(w) PROVE Earned'
    <3>1. \A v \in Workers : found'[v] # {} => row.locked \/ found[v] # {}
      BY <2>6 DEF Check, TypeOK
    <3> QED
      BY <2>6, <3>1 DEF Check, GoTo, TypeOK
  <2>7. ASSUME NEW w \in Workers, InsertDrift(w) PROVE Earned'
    BY <2>7 DEF InsertDrift, TypeOK
  <2>8. ASSUME NEW w \in Workers, Finish(w) PROVE Earned'
    BY <2>8 DEF Finish, GoTo, TypeOK
  <2> QED
    BY <2>2, <2>3, <2>4, <2>5, <2>6, <2>7, <2>8 DEF Next
<1>3. Earned => LockRestsOnSamples
  OBVIOUS
<1> HIDE DEF Earned
<1> QED
  BY <1>1, <1>2, <1>3, TypeInvariant, PTL DEF Spec

-----------------------------------------------------------------------------
(* Exactness: what UpdateSchema computes from one payload to the next is   *)
(* the schema of all of them.                                              *)

LEMMA LastOfIs ==
    ASSUME NEW S \in SUBSET Nat, NEW n \in S, \A j \in S : j <= n
    PROVE  LastOf(S) = n
<1>1. LastOf(S) \in S /\ \A j \in S : j <= LastOf(S)
  BY DEF LastOf
<1>2. n <= LastOf(S) /\ LastOf(S) <= n /\ n \in Nat /\ LastOf(S) \in Nat
  BY <1>1
<1> QED
  BY <1>2

LEMMA PayloadsAre ==
    ASSUME NEW p \in Payloads
    PROVE  /\ DOMAIN p \subseteq Fields /\ \A f \in DOMAIN p : p[f] \in Types
           /\ p = [f \in DOMAIN p |-> p[f]]
BY DEF Payloads

(* The last of one more payload is that one. *)
Longer(s, p, n, r, f) ==
    /\ n \in Nat /\ Len(r) = n /\ r[n] = p /\ \A i \in 1..Len(s) : r[i] = s[i]
    /\ SeenIn(s, f) \subseteq 1..Len(s) /\ TypedIn(s, f) \subseteq SeenIn(s, f)
    /\ SeenIn(r, f) = IF f \in DOMAIN p THEN SeenIn(s, f) \union {n} ELSE SeenIn(s, f)
    /\ TypedIn(r, f) = IF f \in DOMAIN p /\ p[f] # "null" THEN TypedIn(s, f) \union {n}
                                                         ELSE TypedIn(s, f)

LEMMA OneMorePayload ==
    ASSUME NEW s \in Seq(Payloads), NEW p \in Payloads
    PROVE  \A f : Longer(s, p, Len(s) + 1, Append(s, p), f)
<1> SUFFICES ASSUME NEW n, n = Len(s) + 1, NEW r, r = Append(s, p), NEW f
             PROVE  Longer(s, p, n, r, f)
  OBVIOUS
<1>1. /\ n \in Nat /\ Len(r) = n /\ r[n] = p /\ 1..n = 1..Len(s) \union {n} /\ n \notin 1..Len(s)
      /\ \A i \in 1..Len(s) : r[i] = s[i]
  OBVIOUS
<1>2. SeenIn(s, f) \subseteq 1..Len(s) /\ TypedIn(s, f) \subseteq SeenIn(s, f)
  BY DEF SeenIn, TypedIn
<1>3. SeenIn(r, f) = IF f \in DOMAIN p THEN SeenIn(s, f) \union {n} ELSE SeenIn(s, f)
  BY <1>1 DEF SeenIn
<1>4. TypedIn(r, f) = IF f \in DOMAIN p /\ p[f] # "null" THEN TypedIn(s, f) \union {n}
                                                        ELSE TypedIn(s, f)
  BY <1>1, <1>2, <1>3 DEF TypedIn
<1> QED
  BY <1>1, <1>2, <1>3, <1>4 DEF Longer

(* What the schema of a sequence of payloads says of one field. *)
ExactField(s, f) ==
    [type     |-> IF TypedIn(s, f) = {} THEN "null" ELSE s[LastOf(TypedIn(s, f))][f],
     nullable |-> SeenIn(s, f) # 1..Len(s)]

KnownIn(s) == {g \in Fields : SeenIn(s, g) # {}}

LEMMA ExactSchemaIs ==
    ASSUME NEW s \in Seq(Payloads)
    PROVE  /\ ExactSchema(s) = [fields  |-> [f \in KnownIn(s) |-> ExactField(s, f)],
                                samples |-> Len(s),
                                locked  |-> s # <<>> /\ Len(s) >= MinSamples]
           /\ DOMAIN ExactSchema(s).fields = KnownIn(s)
           /\ \A f \in KnownIn(s) : ExactSchema(s).fields[f] = ExactField(s, f)
           /\ ExactSchema(s).samples = Len(s)
BY DEF ExactSchema, ExactField, KnownIn

(* A field that was ever seen with a type has a last one.                  *)
Lasting(s) == \A f : TypedIn(s, f) # {} => LastOf(TypedIn(s, f)) \in TypedIn(s, f)

(* One more payload makes of a known field what Known makes of it.         *)
LEMMA KnownIsExact ==
    ASSUME NEW s \in Seq(Payloads), Lasting(s), NEW p \in Payloads, NEW f, SeenIn(s, f) # {}
    PROVE  Known(ExactField(s, f), f, p) = ExactField(Append(s, p), f)
<1>1. PICK n, r : n = Len(s) + 1 /\ r = Append(s, p)
  OBVIOUS
<1>0. Longer(s, p, n, r, f)
  BY <1>1, OneMorePayload
<1>2. /\ n \in Nat /\ Len(r) = n /\ r[n] = p /\ \A i \in 1..Len(s) : r[i] = s[i]
      /\ SeenIn(s, f) \subseteq 1..Len(s) /\ TypedIn(s, f) \subseteq SeenIn(s, f)
      /\ SeenIn(r, f) = IF f \in DOMAIN p THEN SeenIn(s, f) \union {n} ELSE SeenIn(s, f)
      /\ TypedIn(r, f) = IF f \in DOMAIN p /\ p[f] # "null" THEN TypedIn(s, f) \union {n}
                                                           ELSE TypedIn(s, f)
  BY <1>0 DEF Longer
<1>3. Len(s) \in Nat /\ 1..n = 1..Len(s) \union {n} /\ n \notin 1..Len(s)
  BY <1>1
<1>4. (SeenIn(r, f) # 1..n) = IF f \in DOMAIN p THEN SeenIn(s, f) # 1..Len(s) ELSE TRUE
  BY <1>2, <1>3
<1>5. TypedIn(s, f) # {} => LastOf(TypedIn(s, f)) \in 1..Len(s)
  BY <1>2 DEF Lasting
<1>6. CASE f \in DOMAIN p /\ p[f] # "null"
  <2>1. LastOf(TypedIn(r, f)) = n
    <3>1. PICK T : T = TypedIn(r, f)
      OBVIOUS
    <3>2. T \subseteq Nat /\ n \in T /\ \A j \in T : j <= n
      BY <1>1, <1>2, <1>3, <1>6, <3>1
    <3> QED
      BY <3>1, <3>2, LastOfIs
  <2>2. ExactField(r, f) = [type |-> p[f], nullable |-> SeenIn(s, f) # 1..Len(s)]
    BY <1>2, <1>4, <1>6, <2>1 DEF ExactField
  <2> QED
    BY <1>1, <1>6, <2>2 DEF Known, LatestType, ExactField
<1>7. CASE ~ (f \in DOMAIN p /\ p[f] # "null")
  <2>1. TypedIn(r, f) = TypedIn(s, f)
    BY <1>2, <1>7
  <2>2. TypedIn(s, f) # {} => r[LastOf(TypedIn(s, f))] = s[LastOf(TypedIn(s, f))]
    BY <1>2, <1>5
  <2>3. ExactField(r, f) = [type     |-> ExactField(s, f).type,
                            nullable |-> IF f \in DOMAIN p THEN SeenIn(s, f) # 1..Len(s) ELSE TRUE]
    BY <1>2, <1>4, <2>1, <2>2 DEF ExactField
  <2>4. Known(ExactField(s, f), f, p)
          = [type     |-> ExactField(s, f).type,
             nullable |-> IF f \in DOMAIN p THEN SeenIn(s, f) # 1..Len(s) ELSE TRUE]
    BY <1>7 DEF Known, LatestType, ExactField
  <2> QED
    BY <1>1, <2>3, <2>4
<1> QED
  BY <1>6, <1>7

(* A field that was never seen is nullable unless the payload is the first. *)
LEMMA NewIsExact ==
    ASSUME NEW s \in Seq(Payloads), NEW p \in Payloads, NEW f \in DOMAIN p, SeenIn(s, f) = {}
    PROVE  [type |-> p[f], nullable |-> Len(s) + 1 > 1] = ExactField(Append(s, p), f)
<1>1. PICK n, r : n = Len(s) + 1 /\ r = Append(s, p)
  OBVIOUS
<1>2. /\ n \in Nat /\ Len(r) = n /\ r[n] = p /\ Len(s) \in Nat
      /\ TypedIn(s, f) = {} /\ SeenIn(r, f) = {n}
      /\ TypedIn(r, f) = IF p[f] # "null" THEN {n} ELSE {}
  <2>1. Longer(s, p, n, r, f)
    BY <1>1, OneMorePayload
  <2>2. TypedIn(s, f) = {}
    BY <2>1 DEF Longer
  <2> QED
    BY <1>1, <2>1, <2>2 DEF Longer
<1>3. LastOf({n}) = n
  BY <1>2, LastOfIs
<1>4. ({n} # 1..n) = (n > 1)
  <2>1. n > 1 => 1 \in 1..n /\ 1 \notin {n}
    BY <1>2
  <2>2. ~ (n > 1) => n = 1 /\ 1..n = {1}
    BY <1>1, <1>2
  <2> QED
    BY <2>1, <2>2
<1> QED
  BY <1>1, <1>2, <1>3, <1>4 DEF ExactField

(* UpdateSchema keeps the schema exact. *)
LEMMA MergeIsExact ==
    ASSUME NEW s \in Seq(Payloads), Lasting(s), NEW p \in Payloads
    PROVE  Merge(ExactSchema(s), p) = ExactSchema(Append(s, p))
<1>1. PICK r, e : r = Append(s, p) /\ e = ExactSchema(s)
  OBVIOUS
<1>2. /\ r \in Seq(Payloads) /\ Len(r) = Len(s) + 1 /\ Len(s) \in Nat /\ r # <<>>
  BY <1>1
<1>3. /\ e.samples = Len(s) /\ DOMAIN e.fields = KnownIn(s)
      /\ \A f \in KnownIn(s) : e.fields[f] = ExactField(s, f)
  BY <1>1, ExactSchemaIs
<1>4. KnownIn(r) = KnownIn(s) \union DOMAIN p
  <2>1. \A f : SeenIn(r, f) # {} <=> SeenIn(s, f) # {} \/ f \in DOMAIN p
    BY <1>1, OneMorePayload DEF Longer
  <2>2. DOMAIN p \subseteq Fields
    BY PayloadsAre
  <2> QED
    BY <2>1, <2>2 DEF KnownIn
<1>5. ASSUME NEW f \in KnownIn(s) \union DOMAIN p
      PROVE  (IF f \in KnownIn(s) THEN Known(e.fields[f], f, p)
                            ELSE [type |-> p[f], nullable |-> Len(s) + 1 > 1]) = ExactField(r, f)
  <2>1. CASE f \in KnownIn(s)
    BY <1>1, <1>3, <2>1, KnownIsExact DEF KnownIn
  <2>2. CASE f \notin KnownIn(s)
    BY <1>1, <2>2, NewIsExact, PayloadsAre DEF KnownIn
  <2> QED
    BY <2>1, <2>2
<1>6. Merge(e, p) = [fields  |-> [f \in KnownIn(s) \union DOMAIN p |->
                                    IF f \in KnownIn(s) THEN Known(e.fields[f], f, p)
                                    ELSE [type |-> p[f], nullable |-> Len(s) + 1 > 1]],
                     samples |-> Len(s) + 1,
                     locked  |-> Len(s) + 1 >= MinSamples]
  BY <1>3 DEF Merge, Locks
<1>7. ExactSchema(r) = [fields  |-> [f \in KnownIn(s) \union DOMAIN p |-> ExactField(r, f)],
                        samples |-> Len(s) + 1,
                        locked  |-> Len(s) + 1 >= MinSamples]
  <2>1. (r # <<>> /\ Len(r) >= MinSamples) = (Len(s) + 1 >= MinSamples)
    BY <1>2
  <2> QED
    BY <1>2, <1>4, <2>1, ExactSchemaIs
<1>8. [f \in KnownIn(s) \union DOMAIN p |->
         IF f \in KnownIn(s) THEN Known(e.fields[f], f, p)
         ELSE [type |-> p[f], nullable |-> Len(s) + 1 > 1]]
        = [f \in KnownIn(s) \union DOMAIN p |-> ExactField(r, f)]
  BY <1>5
<1> QED
  BY <1>1, <1>6, <1>7, <1>8


LEMMA StillLasting ==
    ASSUME NEW s \in Seq(Payloads), Lasting(s), NEW p \in Payloads
    PROVE  Lasting(Append(s, p))
<1>1. PICK n, r : n = Len(s) + 1 /\ r = Append(s, p)
  OBVIOUS
<1> SUFFICES ASSUME NEW f, TypedIn(r, f) # {} PROVE LastOf(TypedIn(r, f)) \in TypedIn(r, f)
  BY <1>1 DEF Lasting
<1>2. Longer(s, p, n, r, f)
  BY <1>1, OneMorePayload
<1>3. CASE f \in DOMAIN p /\ p[f] # "null"
  <2>1. PICK T : T = TypedIn(r, f)
    OBVIOUS
  <2>2. T \subseteq Nat /\ n \in T /\ \A j \in T : j <= n
    BY <1>1, <1>2, <1>3, <2>1 DEF Longer
  <2> QED
    BY <2>1, <2>2, LastOfIs
<1>4. CASE ~ (f \in DOMAIN p /\ p[f] # "null")
  BY <1>2, <1>4 DEF Longer, Lasting
<1> QED
  BY <1>3, <1>4

(* The last payload agrees with the schema it went into. *)
LEMMA LastRaisesNoDrift ==
    ASSUME NEW s \in Seq(Payloads), s # <<>>
    PROVE  DriftsOf(ExactSchema(s), s[Len(s)]) = {}
<1>1. PICK n, p, e : n = Len(s) /\ p = s[Len(s)] /\ e = ExactSchema(s)
  OBVIOUS
<1>2. n \in 1..n /\ n \in Nat /\ p \in Payloads
  BY <1>1
<1>3. DOMAIN p \subseteq Fields
  BY <1>2, PayloadsAre
<1>4. DOMAIN e.fields = KnownIn(s) /\ \A f \in KnownIn(s) : e.fields[f] = ExactField(s, f)
  BY <1>1, ExactSchemaIs
<1>5. \A f \in DOMAIN p : n \in SeenIn(s, f)
  BY <1>1, <1>2 DEF SeenIn
<1>6. DOMAIN p \subseteq DOMAIN e.fields
  BY <1>3, <1>4, <1>5 DEF KnownIn
<1>7. ASSUME NEW f \in DOMAIN e.fields \ DOMAIN p PROVE e.fields[f].nullable
  <2>1. n \notin SeenIn(s, f)
    BY <1>1 DEF SeenIn
  <2>2. SeenIn(s, f) # 1..Len(s)
    BY <1>1, <1>2, <2>1
  <2>3. ExactField(s, f).nullable
    BY <2>2 DEF ExactField
  <2> QED
    BY <1>4, <2>3
<1>8. ASSUME NEW f \in DOMAIN p, p[f] # "null" PROVE e.fields[f].type = p[f]
  <2>1. PICK T : T = TypedIn(s, f)
    OBVIOUS
  <2>2. n \in T
    BY <1>1, <1>5, <1>8, <2>1 DEF TypedIn
  <2>3. T \subseteq Nat /\ \A j \in T : j <= n
    BY <1>1, <1>2, <2>1 DEF TypedIn, SeenIn
  <2>4. LastOf(T) = n
    BY <2>2, <2>3, LastOfIs
  <2>5. TypedIn(s, f) # {} /\ s[LastOf(TypedIn(s, f))] = p
    BY <1>1, <2>1, <2>2, <2>4
  <2>6. ExactField(s, f).type = p[f]
    BY <2>5 DEF ExactField
  <2> QED
    BY <1>4, <1>6, <2>6
<1>9. DriftsOf(e, p) = {}
  BY <1>6, <1>7, <1>8 DEF DriftsOf
<1> QED
  BY <1>1, <1>9

(* With no fault and one webhook at a time, the copy a worker is about to  *)
(* upsert is still the row with its payload merged into it, and a payload  *)
(* that went into the schema is the last one that did.                     *)
Trusted == faults = 0 /\ ~ overlapped

OneAtATime == \A v, w \in Workers : worker[v] # "idle" /\ worker[w] # "idle" => v = w

CopiesAreCurrent == \A w \in Workers : worker[w] = "writing" => copy[w] = Merge(row, payload[w])

SampledIsLast ==
    \A w \in Workers : sampled[w] => /\ worker[w] \in {"checking", "inserting"}
                                     /\ observed # <<>> /\ payload[w] = observed[Len(observed)]

(* UpdateSchema and CheckDrift are exact as long as nothing comes between  *)
(* a worker's read of the row and its upsert, and no call fails.           *)
THEOREM InferenceExact == Spec => []InferenceIsExact
<1> DEFINE Exact == /\ row = ExactSchema(observed)
                    /\ \A w \in Workers : sampled[w] => found[w] = {}
           Inv   == /\ Lasting(observed)
                    /\ Trusted => OneAtATime /\ CopiesAreCurrent /\ SampledIsLast /\ Exact
<1>1. Init => Inv
  <2> SUFFICES ASSUME Init PROVE Inv
    OBVIOUS
  <2>1. observed = <<>> /\ observed \in Seq(Payloads)
    BY DEF Init
  <2>2. \A f : SeenIn(observed, f) = {} /\ TypedIn(observed, f) = {}
    BY <2>1 DEF SeenIn, TypedIn
  <2>3. [f \in KnownIn(observed) |-> ExactField(observed, f)] = Empty
    <3>1. KnownIn(observed) = {}
      BY <2>2 DEF KnownIn
    <3> QED
      BY <3>1 DEF Empty
  <2>4. ExactSchema(observed) = NoRow
    BY <2>1, <2>3, ExactSchemaIs DEF NoRow
  <2> QED
    BY <2>2, <2>4 DEF Init, Lasting, OneAtATime, CopiesAreCurrent, SampledIsLast
<1>2. TypeOK /\ TypeOK' /\ Inv /\ [Next]_vars => Inv'
  <2> SUFFICES ASSUME TypeOK, TypeOK', Inv, [Next]_vars PROVE Inv'
    OBVIOUS
  <2>1. CASE UNCHANGED vars
    BY <2>1 DEF vars, Lasting, SeenIn, TypedIn, Trusted, OneAtATime, CopiesAreCurrent, SampledIsLast
  <2>2. ASSUME NEW w \in Workers, Receive(w) PROVE Inv'
    <3>1. /\ UNCHANGED <<row, copy, sampled, found, observed, faults>>
          /\ worker[w] = "idle" /\ worker' = [worker EXCEPT ![w] = "reading"]
          /\ \A v \in Workers \ {w} : payload'[v] = payload[v]
      BY <2>2 DEF Receive, GoTo, TypeOK
    <3>2. Trusted' => Trusted /\ \A v \in Workers \ {w} : worker[v] = "idle"
      BY <2>2 DEF Receive, Trusted, TypeOK
    <3>3. Trusted' => OneAtATime'
      BY <3>1, <3>2 DEF OneAtATime, TypeOK
    <3>4. Trusted' => CopiesAreCurrent' /\ SampledIsLast'
      BY <3>1, <3>2 DEF CopiesAreCurrent, SampledIsLast, TypeOK
    <3> QED
      BY <3>1, <3>2, <3>3, <3>4
  <2>3. ASSUME NEW w \in Workers, Read(w) PROVE Inv'
    <3>1. UNCHANGED <<row, payload, sampled, found, observed, overlapped>>
      BY <2>3 DEF Read
    <3>2. Trusted' => Trusted
      BY <2>3 DEF Read, Fault, Trusted, TypeOK
    <3>3. /\ worker[w] = "reading" /\ worker'[w] \in {"checking", "writing"}
          /\ \A v \in Workers \ {w} : worker'[v] = worker[v] /\ copy'[v] = copy[v]
      BY <2>3 DEF Read, GoTo, TypeOK
    <3>4. Trusted' /\ worker'[w] = "writing" => copy'[w] = Merge(row, payload[w])
      <4> SUFFICES ASSUME Trusted', worker'[w] = "writing" PROVE copy'[w] = Merge(row, payload[w])
        OBVIOUS
      <4>1. PICK seen \in {row, NoRow} :
              /\ IF seen = row THEN UNCHANGED faults ELSE Fault
              /\ IF seen.locked
                   THEN GoTo(w, "checking") /\ UNCHANGED copy
                   ELSE GoTo(w, "writing") /\ copy' = [copy EXCEPT ![w] = Merge(seen, payload[w])]
        BY <2>3 DEF Read
      <4>2. seen = row
        BY <4>1 DEF Fault, Trusted, TypeOK
      <4>3. ~ seen.locked
        BY <4>1 DEF GoTo, TypeOK
      <4> QED
        BY <4>1, <4>2, <4>3 DEF TypeOK
    <3>5. Trusted' => OneAtATime'
      BY <3>2, <3>3 DEF OneAtATime
    <3>6. Trusted' => CopiesAreCurrent'
      BY <3>1, <3>2, <3>3, <3>4 DEF CopiesAreCurrent
    <3>7. Trusted' => SampledIsLast'
      BY <3>1, <3>2, <3>3 DEF SampledIsLast
    <3> QED
      BY <3>1, <3>2, <3>5, <3>6, <3>7
  <2>4. ASSUME NEW w \in Workers, Upsert(w) PROVE Inv'
    <3>1. /\ UNCHANGED <<payload, copy, found, overlapped>>
          /\ worker[w] = "writing" /\ worker'[w] = "checking"
          /\ \A v \in Workers \ {w} : worker'[v] = worker[v] /\ sampled'[v] = sampled[v]
          /\ observed' \in {observed, Append(observed, payload[w])}
      BY <2>4 DEF Upsert, GoTo, TypeOK
    <3>2. Lasting(observed')
      <4>1. PICK s, p : s = observed /\ p = payload[w]
        OBVIOUS
      <4>2. s \in Seq(Payloads) /\ p \in Payloads /\ Lasting(s)
        BY <4>1 DEF TypeOK
      <4>3. observed' = s \/ observed' = Append(s, p)
        BY <3>1, <4>1
      <4> QED
        BY <4>2, <4>3, StillLasting
    <3>3. ASSUME Trusted'
          PROVE  OneAtATime' /\ CopiesAreCurrent' /\ SampledIsLast' /\ Exact'
      <4>1. /\ row' = copy[w] /\ observed' = Append(observed, payload[w]) /\ Trusted
            /\ sampled'[w]
        BY <2>4, <3>3 DEF Upsert, Fault, Trusted, TypeOK
      <4>2. \A v \in Workers \ {w} : worker[v] = "idle"
        BY <3>1, <4>1 DEF OneAtATime
      <4>3. OneAtATime' /\ CopiesAreCurrent'
        BY <3>1, <4>2 DEF OneAtATime, CopiesAreCurrent
      <4>4. observed \in Seq(Payloads) /\ payload[w] \in Payloads
        BY DEF TypeOK
      <4>5. observed' # <<>> /\ payload[w] = observed'[Len(observed')]
        BY <4>1, <4>4
      <4>6. \A v \in Workers \ {w} : ~ sampled'[v]
        BY <3>1, <4>1, <4>2 DEF SampledIsLast
      <4>7. SampledIsLast'
        BY <3>1, <4>5, <4>6 DEF SampledIsLast
      <4>8. row' = ExactSchema(observed')
        BY <3>1, <4>1, <4>4, MergeIsExact DEF CopiesAreCurrent
      <4>9. found[w] = {}
        BY <3>1 DEF TypeOK
      <4> QED
        BY <3>1, <4>3, <4>6, <4>7, <4>8, <4>9
    <3> QED
      BY <3>2, <3>3
  <2>5. ASSUME NEW w \in Workers, Check(w) PROVE Inv'
    <3>1. /\ UNCHANGED <<row, payload, copy, sampled, observed, overlapped>>
          /\ worker[w] = "checking" /\ worker'[w] = "inserting"
          /\ \A v \in Workers \ {w} : worker'[v] = worker[v] /\ found'[v] = found[v]
          /\ found'[w] \in {found[w], DriftsOf(row, payload[w]), {}}
      BY <2>5 DEF Check, GoTo, TypeOK
    <3>2. Trusted' => Trusted
      BY <2>5 DEF Check, Fault, Trusted, TypeOK
    <3>3. Trusted' => OneAtATime' /\ CopiesAreCurrent' /\ SampledIsLast'
      BY <3>1, <3>2 DEF OneAtATime, CopiesAreCurrent, SampledIsLast
    <3>4. Trusted /\ sampled[w] => DriftsOf(row, payload[w]) = {}
      BY LastRaisesNoDrift DEF SampledIsLast, TypeOK
    <3>5. Trusted' => Exact'
      BY <3>1, <3>2, <3>4
    <3> QED
      BY <3>1, <3>3, <3>5
  <2>6. ASSUME NEW w \in Workers, InsertDrift(w) PROVE Inv'
    <3>1. /\ UNCHANGED <<row, worker, payload, copy, sampled, observed, overlapped>>
          /\ \A v \in Workers : found'[v] \subseteq found[v]
      BY <2>6 DEF InsertDrift, TypeOK
    <3>2. Trusted' => Trusted
      BY <2>6 DEF InsertDrift, Fault, Trusted, TypeOK
    <3>3. Trusted' => OneAtATime' /\ CopiesAreCurrent' /\ SampledIsLast'
      BY <3>1, <3>2 DEF OneAtATime, CopiesAreCurrent, SampledIsLast
    <3> QED
      BY <3>1, <3>2, <3>3
  <2>7. ASSUME NEW w \in Workers, Finish(w) PROVE Inv'
    <3>1. /\ UNCHANGED <<row, found, observed, overlapped, faults>>
          /\ worker'[w] = "idle" /\ ~ sampled'[w]
          /\ \A v \in Workers \ {w} : /\ worker'[v] = worker[v] /\ sampled'[v] = sampled[v]
                                      /\ payload'[v] = payload[v] /\ copy'[v] = copy[v]
      BY <2>7 DEF Finish, GoTo, TypeOK
    <3>2. Trusted' => Trusted
      BY <3>1 DEF Trusted
    <3>3. Trusted' => OneAtATime' /\ CopiesAreCurrent' /\ SampledIsLast'
      BY <3>1, <3>2 DEF OneAtATime, CopiesAreCurrent, SampledIsLast
    <3> QED
      BY <3>1, <3>2, <3>3
  <2> QED
    BY <2>1, <2>2, <2>3, <2>4, <2>5, <2>6, <2>7 DEF Next
<1>3. Inv => InferenceIsExact
  BY DEF Trusted, InferenceIsExact
<1> HIDE DEF Inv
<1> QED
  BY <1>1, <1>2, <1>3, TypeInvariant, PTL DEF Spec


=============================================================================
