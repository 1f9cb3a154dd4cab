----------------------------- MODULE MCRouting -----------------------------
EXTENDS Routing, TLC

CONSTANTS d1, d2, d3

N(n) == [text |-> <<n>>, number |-> n]

IsOne   == [field |-> "amount", operator |-> "eq", value |-> N(1)]
Above   == [field |-> "amount", operator |-> "gt", value |-> N(1)]
MCConditions == {IsOne, Above}

(* Rules that the payload of two matches or does not, one of no condition  *)
(* and a garbled one.                                                      *)
MCDrafts == [conditions : {{IsOne, Above}}, logic : {"AND", "OR"}]
            \union [conditions : {{}, Garbled}, logic : {"AND"}]

MCPayloads == {NotJSON, [amount |-> N(2)]}

SameRules == Permutations(Rules)
=============================================================================
