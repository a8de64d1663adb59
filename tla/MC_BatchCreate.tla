---------------------------- MODULE MC_BatchCreate ----------------------------
(* Model-checking instance of BatchCreate: two names.                      *)
EXTENDS BatchCreate

CONSTANTS x, y

MCNames == {x, y}
==============================================================================
