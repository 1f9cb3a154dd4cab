------------------------------ MODULE Routing ------------------------------
(***************************************************************************)
(* Which destinations an event goes to (internal/routing), while the API   *)
(* edits the rules of the source and an operator edits its destinations in *)
(* the database. A delivery worker reads the rules, then the destinations, *)
(* and at times the destinations once more: each read is a step, and edits *)
(* come between them. One source is modelled; a rule of it may name a      *)
(* destination of another one.                                             *)
(* A definition called a variant is not part of Next: it is a change of    *)
(* the one after it, there to show that a property notices.                *)
(***************************************************************************)
EXTENDS Integers

CONSTANTS
    Workers,
    Rules,           \* identities of rules
    Destinations,
    Own,             \* those of the source; the others belong to other sources
    Conditions,      \* conditions a rule may have: [field, operator, value]
    Drafts,          \* what requests say of a rule: conditions, or Garbled, and logic
    Garbled,         \* a list the evaluator cannot parse
    Payloads,        \* flattened bodies: a value or Absent for each field; or NotJSON
    Absent,          \* a value is the text %v prints of it and the number
    NoNumber,        \* it reads as, which may be none
    NotJSON,
    TextContains,    \* pairs of texts, the second found in the first
    MaxEdits         \* bound: edits in the course of one resolution

ASSUME OwnAssumption   == Own \subseteq Destinations
ASSUME DraftAssumption ==
    Drafts \subseteq [conditions : SUBSET Conditions \union {Garbled}, logic : {"AND", "OR"}]
ASSUME BoundAssumption == MaxEdits \in Nat

VARIABLES
    rules,       \* table routing_rules
    dests,       \* columns is_active and is_default of destinations
    step,        \* what each worker does next
    payload,     \* the body of its event
    targets,     \* matchedDestIDs
    chosen,      \* what ResolveDestinations returned
    failed,      \* history: a read of this resolution failed
    ruleEdits, destEdits,  \* history: edits since it began
    moments      \* history: what the configuration selected meanwhile

tables  == <<rules, dests>>
locals  == <<step, payload, targets, chosen, failed>>
history == <<ruleEdits, destEdits, moments>>
vars    == <<tables, locals, history>>

NoRule == [present |-> FALSE]
RuleRows == [present : {TRUE}, to : Destinations, draft : Drafts, active : BOOLEAN]
Steps == {"idle", "rules", "all", "matched", "default", "done"}

TypeOK ==
    /\ rules \in [Rules -> RuleRows \union {NoRule}]
    /\ dests \in [Own -> [active : BOOLEAN, default : BOOLEAN]]
    /\ step \in [Workers -> Steps]
    /\ payload \in [Workers -> Payloads]
    /\ targets \in [Workers -> SUBSET Destinations]
    /\ chosen \in [Workers -> SUBSET Destinations]
    /\ failed \in [Workers -> BOOLEAN]
    /\ ruleEdits \in [Workers -> Nat] /\ destEdits \in [Workers -> Nat]
    /\ moments \in [Workers -> SUBSET SUBSET Destinations]

-----------------------------------------------------------------------------
(* evaluator.go *)

EvaluateCondition(c, flat) ==
    LET v      == flat[c.field]
        exists == v # Absent
        compared(Holds(_, _)) == /\ v.number # NoNumber /\ c.value.number # NoNumber
                                 /\ Holds(v.number, c.value.number)
    IN  CASE c.operator = "exists"     -> exists
          [] c.operator = "not_exists" -> ~ exists
          [] c.operator = "eq"         -> exists /\ v.text = c.value.text
          [] c.operator = "neq"        -> exists /\ v.text # c.value.text
          [] c.operator = "contains"   -> exists /\ <<v.text, c.value.text>> \in TextContains
          [] c.operator = "gt"         -> exists /\ compared(LAMBDA x, y : x > y)
          [] c.operator = "gte"        -> exists /\ compared(LAMBDA x, y : x >= y)
          [] c.operator = "lt"         -> exists /\ compared(LAMBDA x, y : x < y)
          [] c.operator = "lte"        -> exists /\ compared(LAMBDA x, y : x <= y)
          [] OTHER                     -> FALSE

(* Variant: no condition is always met. *)
EvaluateOpen(cs, flat, logic) ==
    IF logic = "OR" THEN \E c \in cs : EvaluateCondition(c, flat)
                    ELSE \A c \in cs : EvaluateCondition(c, flat)

EvaluateConditions(cs, flat, logic) ==
    /\ cs # {}
    /\ IF logic = "OR" THEN \E c \in cs : EvaluateCondition(c, flat)
                       ELSE \A c \in cs : EvaluateCondition(c, flat)

(* The queries. *)
ActiveRules == {r \in Rules : rules[r].present /\ rules[r].active}
Active      == {d \in Own : dests[d].active}
Defaults    == {d \in Own : dests[d].active /\ dests[d].default}

(* The loop over the rules; priority orders it and does not change what it *)
(* collects.                                                               *)
MatchedDestIDs(flat) ==
    {rules[r].to : r \in {s \in ActiveRules :
        /\ rules[s].draft.conditions # Garbled
        /\ EvaluateConditions(rules[s].draft.conditions, flat, rules[s].draft.logic)}}

(* The reference: where the configuration of this moment sends a body, if  *)
(* it is looked at as a whole.                                             *)
Selects(r, body) ==
    LET cs    == rules[r].draft.conditions
        logic == rules[r].draft.logic
    IN  /\ body # NotJSON /\ cs \notin {Garbled, {}}
        /\ \/ logic = "AND" /\ \A c \in cs : EvaluateCondition(c, body)
           \/ logic = "OR"  /\ \E c \in cs : EvaluateCondition(c, body)

Aimed(body) ==
    {d \in Active : \E r \in ActiveRules : rules[r].to = d /\ Selects(r, body)}

Route(body) ==
    IF ActiveRules = {} THEN Active ELSE IF Aimed(body) = {} THEN Defaults ELSE Aimed(body)

-----------------------------------------------------------------------------
(* ResolveDestinations *)

Resolving(w) == step[w] \notin {"idle", "done"}

(* deliverEvent calls it for the event it has popped. *)
Begin(w) ==
    /\ ~ Resolving(w)
    /\ step' = [step EXCEPT ![w] = "rules"]
    /\ \E body \in Payloads : /\ payload' = [payload EXCEPT ![w] = body]
                              /\ moments' = [moments EXCEPT ![w] = {Route(body)}]
    /\ targets' = [targets EXCEPT ![w] = {}]
    /\ chosen'  = [chosen EXCEPT ![w] = {}]
    /\ failed'  = [failed EXCEPT ![w] = FALSE]
    /\ ruleEdits' = [ruleEdits EXCEPT ![w] = 0]
    /\ destEdits' = [destEdits EXCEPT ![w] = 0]
    /\ UNCHANGED tables

At(w, s) == step[w] = s /\ UNCHANGED <<tables, payload, history>>
Goto(w, s) == step' = [step EXCEPT ![w] = s]

(* No rules, and equally an error in reading them, mean every active       *)
(* destination.                                                            *)
ReadRules(w) ==
    /\ At(w, "rules")
    /\ IF ActiveRules = {}
       THEN Goto(w, "all") /\ UNCHANGED targets
       ELSE LET ids == IF payload[w] = NotJSON THEN {} ELSE MatchedDestIDs(payload[w])
            IN  /\ targets' = [targets EXCEPT ![w] = ids]
                /\ Goto(w, IF ids = {} THEN "default" ELSE "matched")
    /\ UNCHANGED <<chosen, failed>>

FailRules(w) ==
    /\ At(w, "rules")
    /\ Goto(w, "all")
    /\ failed' = [failed EXCEPT ![w] = TRUE]
    /\ UNCHANGED <<targets, chosen>>

Return(w, ds) ==
    /\ Goto(w, "done")
    /\ chosen' = [chosen EXCEPT ![w] = ds]
    /\ UNCHANGED <<targets, failed>>

ReadAll(w)     == At(w, "all") /\ Return(w, Active)
ReadDefault(w) == At(w, "default") /\ Return(w, Defaults)

(* Variant: a match of inactive destinations is an answer. *)
ReadMatchedStrict(w) == At(w, "matched") /\ Return(w, Active \intersect targets[w])

ReadMatched(w) ==
    /\ At(w, "matched")
    /\ LET matched == Active \intersect targets[w]
       IN  IF matched = {} THEN Goto(w, "default") /\ UNCHANGED <<targets, chosen, failed>>
                           ELSE Return(w, matched)

(* An error of any other read: deliverEvent drops the event. *)
FailRead(w) ==
    /\ step[w] \in {"all", "matched", "default"}
    /\ UNCHANGED <<tables, payload, history, targets, chosen>>
    /\ Goto(w, "done")
    /\ failed' = [failed EXCEPT ![w] = TRUE]

-----------------------------------------------------------------------------
(* The API, and an operator's SQL. *)

(* What an edit means for the resolutions under way. Edits while there is  *)
(* none are left out: every configuration they lead to is in Init.         *)
Counted(count) ==
    [w \in Workers |-> IF Resolving(w) THEN count[w] + 1 ELSE count[w]]
Witnessed ==
    /\ UNCHANGED locals
    /\ \E w \in Workers : Resolving(w)
    /\ \A w \in Workers : Resolving(w) => ruleEdits[w] + destEdits[w] < MaxEdits
    /\ moments' = [w \in Workers |-> IF Resolving(w) THEN moments[w] \union {Route(payload[w])'}
                                                     ELSE moments[w]]

SetRule(r, row) ==
    /\ rules' = [rules EXCEPT ![r] = row]
    /\ ruleEdits' = Counted(ruleEdits)
    /\ UNCHANGED <<dests, destEdits>>
    /\ Witnessed

(* handleCreateRule: a missing operator is AND, the rule is active, and    *)
(* nobody asks whose destination it names.                                 *)
CreateRule(r) ==
    /\ ~ rules[r].present
    /\ \E d \in Destinations, f \in Drafts :
         SetRule(r, [present |-> TRUE, to |-> d, draft |-> f, active |-> TRUE])

(* Variant: a rule deleted meanwhile is inserted again. *)
UpdateInserts(r) ==
    \E f \in Drafts, a \in BOOLEAN : SetRule(r, [present |-> TRUE, draft |-> f, active |-> a])

(* handleUpdateRule writes every column but the destination: a request     *)
(* that leaves is_active out deactivates the rule, one that leaves the     *)
(* operator out makes it "", which the evaluator takes for AND.            *)
UpdateRule(r) ==
    /\ rules[r].present
    /\ \E f \in Drafts, a \in BOOLEAN :
         SetRule(r, [rules[r] EXCEPT !.draft = f, !.active = a])

DeleteRule(r) == rules[r].present /\ SetRule(r, NoRule)

EditDestination(d) ==
    /\ \E a, f \in BOOLEAN : dests' = [dests EXCEPT ![d] = [active |-> a, default |-> f]]
    /\ dests' # dests
    /\ destEdits' = Counted(destEdits)
    /\ UNCHANGED <<rules, ruleEdits>>
    /\ Witnessed

-----------------------------------------------------------------------------
Init ==
    /\ rules \in [Rules -> RuleRows \union {NoRule}]
    /\ dests \in [Own -> [active : BOOLEAN, default : BOOLEAN]]
    /\ step = [w \in Workers |-> "idle"]
    /\ payload \in [Workers -> Payloads]
    /\ targets = [w \in Workers |-> {}] /\ chosen = [w \in Workers |-> {}]
    /\ failed = [w \in Workers |-> FALSE]
    /\ ruleEdits = [w \in Workers |-> 0] /\ destEdits = [w \in Workers |-> 0]
    /\ moments = [w \in Workers |-> {}]

Resolve(w) ==
    \/ Begin(w)
    \/ ReadRules(w) \/ FailRules(w)
    \/ ReadAll(w) \/ ReadMatched(w) \/ ReadDefault(w) \/ FailRead(w)

Edit ==
    \/ \E r \in Rules : CreateRule(r) \/ UpdateRule(r) \/ DeleteRule(r)
    \/ \E d \in Own : EditDestination(d)

Next == Edit \/ \E w \in Workers : Resolve(w)

Spec == Init /\ [][Next]_vars

-----------------------------------------------------------------------------
(* Properties *)

Answered(w) == step[w] = "done" /\ ~ failed[w]

(* Edits of the rules are atomic for a resolution, however many there are: *)
(* as long as the destinations stay as they are, it answers what the       *)
(* configuration as a whole selected at some moment of its reads.          *)
RuleEditsAreAtomic ==
    \A w \in Workers : Answered(w) /\ destEdits[w] = 0 => chosen[w] \in moments[w]

(* With one edit of any kind between the reads, the answer may mix the     *)
(* configurations of before and after, but every destination in it was     *)
(* selected at one of the moments, and an event which had somewhere to go  *)
(* at each moment is not left with nowhere. (Two edits can break both: a   *)
(* rule turned from a to b and then a switched off, after the rules were   *)
(* read, sends the event to the defaults.)                                 *)
SelectedAtSomeMoment ==
    \A w \in Workers :
        Answered(w) /\ ruleEdits[w] + destEdits[w] <= 1 =>
            /\ chosen[w] \subseteq UNION moments[w]
            /\ {} \notin moments[w] => chosen[w] # {}

(* Not so: the comment on ResolveDestinations says that the default        *)
(* destinations are used when no rule matches or none exists; when none    *)
(* exists, every active destination is.                                    *)
NoRulesMeansDefaults ==
    [][\A w \in Workers : ReadAll(w) /\ ~ failed[w] => chosen'[w] = Defaults]_vars
=============================================================================
