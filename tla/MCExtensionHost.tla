--------------------------- MODULE MCExtensionHost ---------------------------
(* ExtensionHost on a small instance; the two callers are interchangeable. *)
EXTENDS ExtensionHost, TLC

CONSTANTS c1, c2

TwoCallers == {c1, c2}
Symmetry == Permutations(TwoCallers)
=============================================================================
