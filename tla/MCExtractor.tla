----------------------------- MODULE MCExtractor -----------------------------
(* Small instances of Extractor. *)
EXTENDS Extractor, TLC

CONSTANTS i1, i2, p1, a1, invoice, letter

(* Two documents of one layout, one of another, and a recording. *)
SomeLayouts == (i1 :> invoice) @@ (i2 :> invoice) @@ (p1 :> letter) @@ (a1 :> letter)
OneLayout   == (i1 :> invoice) @@ (i2 :> invoice)

Symmetry == Permutations(Handlers)

=============================================================================
