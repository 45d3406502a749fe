-------------------------- MODULE MCClientStateStore --------------------------
(* Instances of ClientStateStore for TLC.                                  *)
EXTENDS ClientStateStore, TLC

Symmetric == Permutations(Windows) \cup Permutations(Partitions)
=============================================================================
