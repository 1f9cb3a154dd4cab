------------------------------ MODULE Handover ------------------------------
(***************************************************************************)
(* What the way from the ingestion endpoint to the delivery queue promises *)
(* for each event, without saying how: an event the endpoint took is       *)
(* handed over to the delivery engine, and never taken back. It may be     *)
(* lost only after something went wrong: a store call failed, or a process *)
(* stopped.                                                                *)
(***************************************************************************)
CONSTANT Events

VARIABLES
    state,       \* of each event: "unknown", "taken", "handedOver" or "lost"
    disturbed    \* something went wrong

vars == <<state, disturbed>>

Init == state = [e \in Events |-> "unknown"] /\ disturbed = FALSE

(* What may become of an event. What goes wrong may cost any event that is *)
(* not handed over yet.                                                    *)
Moves ==
    {<<"unknown", "taken">>, <<"taken", "handedOver">>}
        \union IF disturbed' THEN {<<"unknown", "lost">>, <<"taken", "lost">>} ELSE {}

Next ==
    /\ disturbed' \in {disturbed, TRUE}
    /\ state' \in [Events -> {"unknown", "taken", "handedOver", "lost"}]
    /\ \A e \in Events : state'[e] = state[e] \/ <<state[e], state'[e]>> \in Moves

Spec == Init /\ [][Next]_vars

(* An event that was taken does not stay on its way for ever. *)
Settles == \A e \in Events : (state[e] = "taken") ~> (state[e] \in {"handedOver", "lost"})

=============================================================================
