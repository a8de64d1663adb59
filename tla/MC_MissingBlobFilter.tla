------------------------- MODULE MC_MissingBlobFilter -------------------------
(* Model-checking instance of MissingBlobFilter: three digests of the     *)
(* build's digest function and one of another, batches of two.           *)
EXTENDS MissingBlobFilter

CONSTANTS a, b, c, f

MCDigests == {a, b, c, f}
MCForeign == {f}
==============================================================================
