-------------------------- MODULE MCSchemaInference --------------------------
(* Small instances of SchemaInference. *)
EXTENDS SchemaInference, TLC

Symmetry == Permutations(Workers)

=============================================================================
