-------------------------- MODULE MC_RegistryLock ---------------------------
(* Model-checking instance of RegistryLock: three goroutines.              *)
EXTENDS RegistryLock

CONSTANTS c1, c2, c3

MCClients == {c1, c2, c3}
==============================================================================
