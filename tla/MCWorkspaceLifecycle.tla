------------------------ MODULE MCWorkspaceLifecycle ------------------------
(* Small instances of WorkspaceLifecycle for TLC. *)
EXTENDS WorkspaceLifecycle, TLC

CONSTANTS c1, c2, d1, r1, noRequest

NoNesting == {}

TwoCallSymmetry == Permutations({c1, c2})

\* Either an eviction fails or a validation is cut off, one at a time.
OneTrouble == evictFailures + Cardinality(cutOff) + Cardinality(leaked) <= 1

SharingSpec == Init /\ [][Next /\ OneTrouble']_vars
=============================================================================
