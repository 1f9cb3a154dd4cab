----------------------------- MODULE MCDelivery -----------------------------
(* Small instances of Delivery. *)
EXTENDS Delivery, TLC

(* Routing rules that pick any destinations, and a source without rules.   *)
AnyRoute == SUBSET Destinations
AllRoute == {Destinations}

Symmetry == Permutations(Destinations) \union Permutations(Workers)
Interchangeable == Symmetry \union Permutations(Clients)

=============================================================================
