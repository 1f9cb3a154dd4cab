--------------------------- MODULE RoutingProofs ---------------------------
(***************************************************************************)
(* Routing for every number of workers, rules, destinations and edits: the *)
(* state is well typed, edits of the rules are atomic for a resolution,    *)
(* and one edit of any kind leaves its answer within what was selected.    *)
(***************************************************************************)
EXTENDS Routing, TLAPS

LEMMA ActiveRows == ASSUME TypeOK, NEW r \in ActiveRules PROVE rules[r] \in RuleRows
<1>1. rules[r] \in RuleRows \union {NoRule} /\ rules[r].present
  BY DEF ActiveRules, TypeOK
<1>2. NoRule.present = FALSE
  BY DEF NoRule
<1> QED
  BY <1>1, <1>2

(* What the condition loop collects, seen through the active destinations, *)
(* is what the configuration aims at.                                      *)
LEMMA MatchedIsSelected ==
    ASSUME TypeOK, NEW body \in Payloads, body # NotJSON
    PROVE  \A d : d \in MatchedDestIDs(body)
                    <=> \E r \in ActiveRules : rules[r].to = d /\ Selects(r, body)
<1>1. \A r \in ActiveRules : rules[r].draft.logic \in {"AND", "OR"}
  BY ActiveRows, DraftAssumption DEF RuleRows
<1>2. \A r \in ActiveRules :
        Selects(r, body) <=> /\ rules[r].draft.conditions # Garbled
                             /\ EvaluateConditions(rules[r].draft.conditions, body, rules[r].draft.logic)
  BY <1>1 DEF Selects, EvaluateConditions
<1> QED
  BY <1>2 DEF MatchedDestIDs

LEMMA MatchedIsAimed ==
    ASSUME TypeOK, NEW body \in Payloads, body # NotJSON
    PROVE  Active \intersect MatchedDestIDs(body) = Aimed(body)
  BY MatchedIsSelected DEF Aimed

LEMMA MatchedAreDestinations ==
    ASSUME TypeOK, NEW body PROVE MatchedDestIDs(body) \subseteq Destinations
  BY ActiveRows DEF MatchedDestIDs, RuleRows

LEMMA RouteIsOwn ==
    ASSUME NEW body
    PROVE  /\ Active \in SUBSET Destinations /\ Defaults \in SUBSET Destinations
           /\ Route(body) \in SUBSET Destinations
  BY OwnAssumption DEF Route, Aimed, Active, Defaults

LEMMA NextRouteIsOwn ==
    ASSUME NEW w \in Workers PROVE (Route(payload[w]))' \in SUBSET Destinations
  BY OwnAssumption DEF Route, Aimed, Active, Defaults

(* Well typed, whatever requests and operators write. *)
THEOREM TypeInvariant == Spec => []TypeOK
<1>1. Init => TypeOK
  BY DEF Init, TypeOK, Steps
<1>2. TypeOK /\ [Next]_vars => TypeOK'
  <2> SUFFICES ASSUME TypeOK, [Next]_vars PROVE TypeOK'
    OBVIOUS
  <2> USE DEF tables, locals, history, Steps
  <2>1. CASE UNCHANGED vars
    BY <2>1 DEF vars, TypeOK
  <2>2. ASSUME Witnessed, dests' \in [Own -> [active : BOOLEAN, default : BOOLEAN]],
               rules' \in [Rules -> RuleRows \union {NoRule}],
               \/ ruleEdits' = Counted(ruleEdits) /\ UNCHANGED destEdits
               \/ destEdits' = Counted(destEdits) /\ UNCHANGED ruleEdits
        PROVE  TypeOK'
    <3>1. moments' \in [Workers -> SUBSET SUBSET Destinations]
      BY <2>2, NextRouteIsOwn DEF Witnessed, TypeOK
    <3>2. ruleEdits' \in [Workers -> Nat] /\ destEdits' \in [Workers -> Nat]
      <4>1. ruleEdits \in [Workers -> Nat] /\ destEdits \in [Workers -> Nat]
        BY DEF TypeOK
      <4>2. \A f \in [Workers -> Nat] : Counted(f) \in [Workers -> Nat]
        BY DEF Counted
      <4> QED
        BY <2>2, <4>1, <4>2
    <3> QED
      BY <2>2, <3>1, <3>2 DEF Witnessed, TypeOK
  <2>3. ASSUME NEW r \in Rules, NEW row \in RuleRows \union {NoRule}, SetRule(r, row)
        PROVE  TypeOK'
    <3>1. rules' \in [Rules -> RuleRows \union {NoRule}]
      BY <2>3 DEF SetRule, TypeOK
    <3> QED
      BY <2>2, <2>3, <3>1 DEF SetRule, TypeOK
  <2>4. ASSUME NEW r \in Rules, CreateRule(r) PROVE TypeOK'
    BY <2>3, <2>4 DEF CreateRule, RuleRows
  <2>5. ASSUME NEW r \in Rules, UpdateRule(r) PROVE TypeOK'
    <3>1. rules[r] \in RuleRows
      BY <2>5 DEF UpdateRule, TypeOK, NoRule
    <3>2. PICK f \in Drafts, a \in BOOLEAN : SetRule(r, [rules[r] EXCEPT !.draft = f, !.active = a])
      BY <2>5 DEF UpdateRule
    <3>3. [rules[r] EXCEPT !.draft = f, !.active = a] \in RuleRows
      BY <3>1 DEF RuleRows
    <3> QED
      BY <2>3, <3>2, <3>3
  <2>6. ASSUME NEW r \in Rules, DeleteRule(r) PROVE TypeOK'
    BY <2>3, <2>6 DEF DeleteRule
  <2>7. ASSUME NEW d \in Own, EditDestination(d) PROVE TypeOK'
    <3>1. dests' \in [Own -> [active : BOOLEAN, default : BOOLEAN]]
      BY <2>7 DEF EditDestination, TypeOK
    <3> QED
      BY <2>2, <2>7, <3>1 DEF EditDestination, TypeOK
  <2>8. ASSUME NEW w \in Workers, Begin(w) PROVE TypeOK'
    <3>1. \A body : {Route(body)} \in SUBSET SUBSET Destinations
      BY RouteIsOwn
    <3> QED
      BY <2>8, <3>1 DEF Begin, TypeOK
  <2>9. ASSUME NEW w \in Workers, ReadRules(w) PROVE TypeOK'
    BY <2>9, MatchedAreDestinations DEF ReadRules, At, Goto, TypeOK
  <2>10. ASSUME NEW w \in Workers, FailRules(w) PROVE TypeOK'
    BY <2>10 DEF FailRules, At, Goto, TypeOK
  <2>11. ASSUME NEW w \in Workers, NEW ds \in SUBSET Destinations, Return(w, ds),
                UNCHANGED <<tables, payload, history>>
         PROVE  TypeOK'
    BY <2>11 DEF Return, Goto, TypeOK
  <2>12. ASSUME NEW w \in Workers, ReadAll(w) PROVE TypeOK'
    BY <2>11, <2>12, RouteIsOwn DEF ReadAll, At
  <2>13. ASSUME NEW w \in Workers, ReadDefault(w) PROVE TypeOK'
    BY <2>11, <2>13, RouteIsOwn DEF ReadDefault, At
  <2>14. ASSUME NEW w \in Workers, ReadMatched(w) PROVE TypeOK'
    <3>1. CASE Active \intersect targets[w] = {}
      BY <2>14, <3>1 DEF ReadMatched, At, Goto, TypeOK
    <3>2. CASE Active \intersect targets[w] # {}
      BY <2>11, <2>14, <3>2, RouteIsOwn DEF ReadMatched, At
    <3> QED
      BY <3>1, <3>2
  <2>15. ASSUME NEW w \in Workers, FailRead(w) PROVE TypeOK'
    BY <2>15 DEF FailRead, Goto, TypeOK
  <2> QED
    BY <2>1, <2>4, <2>5, <2>6, <2>7, <2>8, <2>9, <2>10, <2>12, <2>13, <2>14, <2>15
    DEF Next, Edit, Resolve
<1> QED
  BY <1>1, <1>2, PTL DEF Spec

-----------------------------------------------------------------------------
(* What worker w will answer if nothing changes until it does.             *)
Outcome(w) ==
    CASE step[w] = "all"     -> Active
      [] step[w] = "matched" -> IF Active \intersect targets[w] = {} THEN Defaults
                                ELSE Active \intersect targets[w]
      [] step[w] = "default" -> Defaults
      [] OTHER               -> chosen[w]

Past(w) == step[w] \notin {"idle", "rules"} /\ ~ failed[w]

(* Without an edit, what w has read still holds. *)
Fresh(w) ==
    /\ step[w] = "all" => ActiveRules = {}
    /\ step[w] = "matched" => /\ payload[w] # NotJSON /\ ActiveRules # {}
                              /\ targets[w] = MatchedDestIDs(payload[w])
    /\ step[w] = "default" => ActiveRules # {} /\ Aimed(payload[w]) = {}

(* The set was selected piece by piece, and is empty only if it may be.    *)
Covered(set, w) ==
    /\ set \subseteq UNION moments[w]
    /\ {} \notin moments[w] => set # {}

Ready(w) ==
    /\ Resolving(w) => Route(payload[w]) \in moments[w]
    /\ Past(w) /\ Resolving(w) /\ ruleEdits[w] = 0 /\ destEdits[w] = 0 => Fresh(w)
    /\ Past(w) /\ destEdits[w] = 0 => Outcome(w) \in moments[w]
    /\ Past(w) /\ ruleEdits[w] + destEdits[w] <= 1 => Covered(Outcome(w), w)

Inv == TypeOK /\ \A w \in Workers : Ready(w)

LEMMA MomentIsCovered ==
    ASSUME NEW w \in Workers, NEW set \in moments[w] PROVE Covered(set, w)
  BY DEF Covered

(* A step that leaves the tables and one worker alone leaves it ready. *)
LEMMA OthersStayReady ==
    ASSUME Inv, NEW w \in Workers, UNCHANGED tables, step'[w] = step[w],
           payload'[w] = payload[w], targets'[w] = targets[w], chosen'[w] = chosen[w],
           failed'[w] = failed[w], ruleEdits'[w] = ruleEdits[w],
           destEdits'[w] = destEdits[w], moments'[w] = moments[w]
    PROVE  Ready(w)'
<1>1. /\ Active' = Active /\ Defaults' = Defaults /\ ActiveRules' = ActiveRules
  BY DEF tables, Active, Defaults, ActiveRules
<1>2. Aimed(payload[w])' = Aimed(payload[w])
  BY <1>1 DEF tables, Aimed, Selects
<1>3. MatchedDestIDs(payload[w])' = MatchedDestIDs(payload[w])
  BY <1>1 DEF tables, MatchedDestIDs
<1>4. Route(payload[w])' = Route(payload[w])
  BY <1>1, <1>2 DEF Route
<1>5. Outcome(w)' = Outcome(w) /\ (Fresh(w)' <=> Fresh(w))
  BY <1>1, <1>2, <1>3 DEF Outcome, Fresh
<1>6. (Past(w)' <=> Past(w)) /\ (Resolving(w)' <=> Resolving(w))
  BY DEF Past, Resolving
<1>7. Covered(Outcome(w), w)' <=> Covered(Outcome(w), w)
  BY <1>5 DEF Covered
<1> QED
  BY <1>4, <1>5, <1>6, <1>7 DEF Ready, Inv

(* A rule changes under a resolution: the destinations it may answer stay  *)
(* as they are.                                                            *)
LEMMA RuleEditKeepsReady ==
    ASSUME Inv, NEW w \in Workers, NEW r, NEW row, SetRule(r, row)
    PROVE  Ready(w)'
<1>1. /\ step' = step /\ payload' = payload /\ targets' = targets /\ chosen' = chosen
      /\ failed' = failed /\ destEdits' = destEdits /\ dests' = dests
  BY DEF SetRule, Witnessed, locals
<1>2. /\ Active' = Active /\ Defaults' = Defaults /\ Outcome(w)' = Outcome(w)
      /\ (Past(w)' <=> Past(w)) /\ (Resolving(w)' <=> Resolving(w))
  BY <1>1 DEF Active, Defaults, Outcome, Past, Resolving
<1>3. CASE ~ Resolving(w)
  <2>1. moments'[w] = moments[w] /\ ruleEdits'[w] = ruleEdits[w]
    BY <1>3 DEF SetRule, Witnessed, Counted
  <2>2. Covered(Outcome(w), w)' <=> Covered(Outcome(w), w)
    BY <1>2, <2>1 DEF Covered
  <2> QED
    BY <1>1, <1>2, <1>3, <2>1, <2>2 DEF Ready, Inv
<1>4. CASE Resolving(w)
  <2>1. moments'[w] = moments[w] \union {Route(payload[w])'} /\ ruleEdits'[w] = ruleEdits[w] + 1
    BY <1>4 DEF SetRule, Witnessed, Counted
  <2>2. ruleEdits[w] \in Nat /\ destEdits[w] \in Nat
    BY DEF Inv, TypeOK
  <2>3. Past(w) /\ destEdits[w] = 0 => Outcome(w) \in moments[w]
    BY DEF Inv, Ready
  <2>4. Past(w) /\ destEdits[w] = 0 => Covered(Outcome(w), w)'
    BY <1>2, <2>1, <2>3 DEF Covered
  <2> QED
    BY <1>1, <1>2, <2>1, <2>2, <2>3, <2>4 DEF Ready
<1> QED
  BY <1>3, <1>4

(* A destination changes under a resolution which no edit had disturbed. *)
LEMMA FirstDestEditIsCovered ==
    ASSUME Inv, NEW w \in Workers, NEW d \in Own, EditDestination(d), Resolving(w), Past(w),
           ruleEdits[w] = 0, destEdits[w] = 0
    PROVE  Covered(Outcome(w), w)'
<1>1. /\ step' = step /\ payload' = payload /\ targets' = targets /\ rules' = rules
  BY DEF EditDestination, Witnessed, locals
<1>2. moments'[w] = moments[w] \union {Route(payload[w])'}
  BY DEF EditDestination, Witnessed
<1>3. Fresh(w) /\ Outcome(w) \in moments[w]
  BY DEF Inv, Ready
<1>4. ActiveRules' = ActiveRules /\ \A r : Selects(r, payload[w])' <=> Selects(r, payload[w])
  BY <1>1 DEF ActiveRules, Selects
<1>5. step[w] \in {"all", "matched", "default"}
  BY DEF Inv, TypeOK, Steps, Past, Resolving
<1>6. CASE step[w] = "all"
  <2>1. Outcome(w)' = Active' /\ Route(payload[w])' = Active'
    BY <1>1, <1>3, <1>4, <1>6 DEF Fresh, Outcome, Route
  <2> QED
    BY <1>2, <2>1 DEF Covered
<1>7. CASE step[w] = "matched"
  <2>1. \A x : x \in MatchedDestIDs(payload[w]) => x \in Destinations
    BY MatchedAreDestinations DEF Inv
  <2>2. \A x \in Active' : x \in targets[w] <=> x \in Aimed(payload[w])'
    <3>1. payload[w] # NotJSON /\ targets[w] = MatchedDestIDs(payload[w])
      BY <1>3, <1>7 DEF Fresh
    <3>2. payload[w] \in Payloads
      BY DEF Inv, TypeOK
    <3>3. \A x : x \in MatchedDestIDs(payload[w])
                   <=> \E r \in ActiveRules : rules[r].to = x /\ Selects(r, payload[w])
      BY <3>1, <3>2, MatchedIsSelected DEF Inv
    <3> QED
      BY <1>1, <1>4, <3>1, <3>3 DEF Aimed
  <2>3. Active' \intersect targets[w] = Aimed(payload[w])'
    BY <2>2 DEF Aimed
  <2>4. Outcome(w)' = Route(payload[w])'
    BY <1>1, <1>3, <1>4, <1>7, <2>3 DEF Fresh, Outcome, Route
  <2> QED
    BY <1>2, <2>4 DEF Covered
<1>8. CASE step[w] = "default"
  <2>1. Outcome(w) = Defaults /\ Outcome(w)' = Defaults' /\ ActiveRules # {} /\ Aimed(payload[w]) = {}
    BY <1>1, <1>3, <1>8 DEF Fresh, Outcome
  <2>2. /\ Defaults \subseteq Active
        /\ \A x \in Own \ {d} : /\ x \in Active' <=> x \in Active
                                /\ x \in Defaults' <=> x \in Defaults
    BY DEF EditDestination, Active, Defaults, Inv, TypeOK
  <2>3. Aimed(payload[w])' \subseteq {d}
    BY <1>1, <1>4, <2>1, <2>2 DEF Aimed, Active
  <2>4. CASE Aimed(payload[w])' = {}
    <3>1. Route(payload[w])' = Defaults'
      BY <1>4, <2>1, <2>4 DEF Route
    <3> QED
      BY <1>2, <2>1, <3>1 DEF Covered
  <2>5. CASE Aimed(payload[w])' = {d}
    <3>1. Route(payload[w])' = {d}
      BY <1>4, <2>1, <2>5 DEF Route
    <3>2. d \notin Defaults
      BY <1>1, <1>4, <2>1, <2>2, <2>5 DEF Aimed
    <3>3. Defaults \subseteq Own /\ Defaults' \subseteq Own
      BY DEF Defaults
    <3>4. Defaults \subseteq Defaults' /\ Defaults' \subseteq Defaults \union {d}
      BY <2>2, <3>2, <3>3
    <3>5. Defaults \in moments[w]
      BY <1>3, <2>1
    <3> QED
      BY <1>2, <2>1, <3>1, <3>4, <3>5 DEF Covered
  <2> QED
    BY <2>3, <2>4, <2>5
<1> QED
  BY <1>5, <1>6, <1>7, <1>8

LEMMA DestEditKeepsReady ==
    ASSUME Inv, NEW w \in Workers, NEW d \in Own, EditDestination(d)
    PROVE  Ready(w)'
<1>1. /\ step' = step /\ payload' = payload /\ chosen' = chosen
      /\ failed' = failed /\ ruleEdits' = ruleEdits
  BY DEF EditDestination, Witnessed, locals
<1>2. (Past(w)' <=> Past(w)) /\ (Resolving(w)' <=> Resolving(w))
  BY <1>1 DEF Past, Resolving
<1>3. CASE ~ Resolving(w)
  <2>1. moments'[w] = moments[w] /\ destEdits'[w] = destEdits[w]
    BY <1>3 DEF EditDestination, Witnessed, Counted
  <2>2. Past(w) => Outcome(w)' = Outcome(w)
    BY <1>1, <1>3 DEF Past, Resolving, Outcome
  <2>3. Past(w) => (Covered(Outcome(w), w)' <=> Covered(Outcome(w), w))
    BY <2>1, <2>2 DEF Covered
  <2> QED
    BY <1>1, <1>2, <1>3, <2>1, <2>2, <2>3 DEF Ready, Inv
<1>4. CASE Resolving(w)
  <2>1. moments'[w] = moments[w] \union {Route(payload[w])'} /\ destEdits'[w] = destEdits[w] + 1
    BY <1>4 DEF EditDestination, Witnessed, Counted
  <2>2. ruleEdits[w] \in Nat /\ destEdits[w] \in Nat
    BY DEF Inv, TypeOK
  <2>3. Past(w) /\ ruleEdits[w] = 0 /\ destEdits[w] = 0 => Covered(Outcome(w), w)'
    BY <1>4, FirstDestEditIsCovered
  <2> QED
    BY <1>1, <1>2, <2>1, <2>2, <2>3 DEF Ready
<1> QED
  BY <1>3, <1>4

(* A read of the tables, which themselves do not change. *)
LEMMA ReadKeepsReady ==
    ASSUME Inv, NEW w \in Workers,
           \/ ReadRules(w) \/ FailRules(w) \/ ReadAll(w) \/ ReadMatched(w)
           \/ ReadDefault(w) \/ FailRead(w)
    PROVE  Ready(w)'
<1> USE DEF Inv
<1>1. /\ payload' = payload /\ moments' = moments /\ ruleEdits' = ruleEdits
      /\ destEdits' = destEdits /\ UNCHANGED tables /\ Resolving(w)
  BY DEF ReadRules, FailRules, ReadAll, ReadMatched, ReadDefault, FailRead, At, history, Resolving
<1>2. /\ Active' = Active /\ Defaults' = Defaults /\ ActiveRules' = ActiveRules
      /\ Route(payload[w])' = Route(payload[w]) /\ Aimed(payload[w])' = Aimed(payload[w])
      /\ MatchedDestIDs(payload[w])' = MatchedDestIDs(payload[w])
  BY <1>1 DEF tables, Active, Defaults, ActiveRules, Route, Aimed, Selects, MatchedDestIDs
<1>3. Route(payload[w]) \in moments[w]
  BY <1>1 DEF Ready
<1>4. SUFFICES ASSUME Past(w)'
               PROVE  /\ Resolving(w)' /\ ruleEdits[w] = 0 /\ destEdits[w] = 0 => Fresh(w)'
                      /\ destEdits[w] = 0 => Outcome(w)' \in moments[w]
                      /\ ruleEdits[w] + destEdits[w] <= 1 => Covered(Outcome(w)', w)
  BY <1>1, <1>2, <1>3 DEF Ready, Covered
<1>5. CASE ReadRules(w)
  <2>1. CASE ActiveRules = {}
    <3>1. step'[w] = "all"
      BY <1>5, <2>1 DEF ReadRules, Goto, TypeOK
    <3>2. Outcome(w)' = Route(payload[w]) /\ Fresh(w)'
      BY <1>2, <2>1, <3>1 DEF Outcome, Route, Fresh
    <3> QED
      BY <1>3, <3>2, MomentIsCovered
  <2>2. CASE ActiveRules # {} /\ payload[w] = NotJSON
    <3>1. step'[w] = "default"
      BY <1>5, <2>2 DEF ReadRules, Goto, TypeOK
    <3>2. Aimed(payload[w]) = {}
      BY <2>2 DEF Aimed, Selects
    <3>3. Outcome(w)' = Route(payload[w]) /\ Fresh(w)'
      BY <1>2, <2>2, <3>1, <3>2 DEF Outcome, Route, Fresh
    <3> QED
      BY <1>3, <3>3, MomentIsCovered
  <2>3. CASE ActiveRules # {} /\ payload[w] # NotJSON
    <3> DEFINE ids == MatchedDestIDs(payload[w])
    <3>1. payload[w] \in Payloads
      BY DEF TypeOK
    <3>2. Active \intersect ids = Aimed(payload[w])
      BY <2>3, <3>1, MatchedIsAimed
    <3>3. step'[w] = (IF ids = {} THEN "default" ELSE "matched") /\ targets'[w] = ids
      BY <1>5, <2>3 DEF ReadRules, Goto, TypeOK
    <3>4. CASE ids = {}
      <4>1. Outcome(w)' = Route(payload[w]) /\ Fresh(w)'
        BY <1>2, <2>3, <3>2, <3>3, <3>4 DEF Outcome, Route, Fresh
      <4> QED
        BY <1>3, <4>1, MomentIsCovered
    <3>5. CASE ids # {}
      <4>1. Outcome(w)' = Route(payload[w])
        BY <1>2, <2>3, <3>2, <3>3, <3>5 DEF Outcome, Route
      <4>2. Fresh(w)'
        BY <1>1, <1>2, <2>3, <3>3, <3>5 DEF Fresh
      <4> QED
        BY <1>3, <4>1, <4>2, MomentIsCovered
    <3> QED
      BY <3>4, <3>5
  <2> QED
    BY <2>1, <2>2, <2>3
<1>6. CASE FailRules(w) \/ FailRead(w)
  <2>1. failed'[w]
    BY <1>6 DEF FailRules, FailRead, TypeOK
  <2> QED
    BY <1>4, <2>1 DEF Past
<1>7. CASE \/ ReadAll(w) \/ ReadDefault(w)
           \/ ReadMatched(w) /\ Active \intersect targets[w] # {}
  <2>1. /\ step'[w] = "done" /\ chosen'[w] = Outcome(w) /\ failed' = failed
        /\ step[w] \in {"all", "default", "matched"}
    BY <1>7 DEF ReadAll, ReadDefault, ReadMatched, At, Return, Goto, Outcome, TypeOK
  <2>2. Past(w) /\ Outcome(w)' = Outcome(w) /\ ~ Resolving(w)'
    BY <1>4, <2>1 DEF Past, Outcome, Resolving
  <2> QED
    BY <2>2 DEF Ready
<1>8. CASE ReadMatched(w) /\ Active \intersect targets[w] = {}
  <2>1. /\ step[w] = "matched" /\ step'[w] = "default" /\ failed' = failed
    BY <1>8 DEF ReadMatched, At, Goto, TypeOK
  <2>2. Past(w) /\ Outcome(w)' = Outcome(w)
    BY <1>2, <1>4, <1>8, <2>1 DEF Past, Outcome
  <2>3. Fresh(w) => Fresh(w)'
    <3>1. payload[w] \in Payloads
      BY DEF TypeOK
    <3> QED
      BY <1>2, <1>8, <2>1, <3>1, MatchedIsAimed DEF Fresh
  <2> QED
    BY <1>1, <2>2, <2>3 DEF Ready
<1> QED
  BY <1>5, <1>6, <1>7, <1>8

LEMMA BeginIsReady ==
    ASSUME Inv, NEW w \in Workers, Begin(w) PROVE Ready(w)'
<1>1. PICK body \in Payloads : /\ payload' = [payload EXCEPT ![w] = body]
                               /\ moments' = [moments EXCEPT ![w] = {Route(body)}]
  BY DEF Begin
<1>2. payload'[w] = body /\ moments'[w] = {Route(body)} /\ step'[w] = "rules"
  BY <1>1 DEF Begin, Inv, TypeOK
<1>3. Route(body)' = Route(body)
  BY DEF Begin, tables, Route, Aimed, ActiveRules, Selects, Active, Defaults
<1>4. Route(payload[w])' = Route(body)
  BY <1>2, <1>3
<1> QED
  BY <1>2, <1>4 DEF Ready, Past

THEOREM ReadyInvariant == Spec => []Inv
<1>1. Init => \A w \in Workers : Ready(w)
  BY DEF Init, Ready, Resolving, Past
<1>2. Inv /\ [Next]_vars => (\A w \in Workers : Ready(w))'
  <2> SUFFICES ASSUME Inv, [Next]_vars, NEW w \in Workers PROVE Ready(w)'
    OBVIOUS
  <2>1. CASE UNCHANGED vars
    BY <2>1, OthersStayReady DEF vars, locals, history
  <2>2. CASE Edit
    BY <2>2, RuleEditKeepsReady, DestEditKeepsReady DEF Edit, CreateRule, UpdateRule, DeleteRule
  <2>3. CASE Resolve(w)
    BY <2>3, ReadKeepsReady, BeginIsReady DEF Resolve
  <2>4. ASSUME NEW v \in Workers, v # w, Resolve(v) PROVE Ready(w)'
    <3>1. /\ UNCHANGED tables /\ step'[w] = step[w]
          /\ payload'[w] = payload[w] /\ targets'[w] = targets[w] /\ chosen'[w] = chosen[w]
          /\ failed'[w] = failed[w] /\ ruleEdits'[w] = ruleEdits[w]
          /\ destEdits'[w] = destEdits[w] /\ moments'[w] = moments[w]
      <4>1. CASE Begin(v)
        BY <2>4, <4>1 DEF Begin, Inv, TypeOK
      <4>2. CASE ReadRules(v) \/ FailRules(v)
        BY <2>4, <4>2 DEF ReadRules, FailRules, At, Goto, history, Inv, TypeOK
      <4>3. CASE ReadAll(v) \/ ReadDefault(v) \/ ReadMatched(v)
        BY <2>4, <4>3 DEF ReadAll, ReadDefault, ReadMatched, At, Return, Goto, history, Inv, TypeOK
      <4>4. CASE FailRead(v)
        BY <2>4, <4>4 DEF FailRead, Goto, history, Inv, TypeOK
      <4> QED
        BY <2>4, <4>1, <4>2, <4>3, <4>4 DEF Resolve
    <3> QED
      BY <3>1, OthersStayReady
  <2> QED
    BY <2>1, <2>2, <2>3, <2>4 DEF Next
<1> QED
  BY <1>1, <1>2, TypeInvariant, PTL DEF Spec, Inv

(* Edits of the rules are atomic for a resolution, however many there are. *)
THEOREM RuleEditsKept == Spec => []RuleEditsAreAtomic
<1>1. Inv => RuleEditsAreAtomic
  BY DEF Inv, Ready, RuleEditsAreAtomic, Answered, Past, Outcome
<1> QED
  BY <1>1, ReadyInvariant, PTL

(* One edit leaves the answer within what was selected, and not empty.     *)
THEOREM SelectionKept == Spec => []SelectedAtSomeMoment
<1>1. Inv => SelectedAtSomeMoment
  BY DEF Inv, Ready, SelectedAtSomeMoment, Answered, Past, Outcome, Covered
<1> QED
  BY <1>1, ReadyInvariant, PTL
=============================================================================
