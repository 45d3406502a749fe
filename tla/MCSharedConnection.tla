-------------------------- MODULE MCSharedConnection --------------------------
(***************************************************************************)
(* A small instance of the shared connection.                              *)
(***************************************************************************)
EXTENDS SharedConnection

CONSTANTS c1, c2, c3, here, there, noIdentity

\* The callers are interchangeable and so may call in order; the third one, if one daemon
\* runs at most and under the first identity.
FewCalls ==
  /\ task[c2].stage = "idle" \/ task[c1].stage # "idle"
  /\ task[c3].stage = "idle" \/ (task[c2].stage # "idle" /\ started < 2 /\ pin # there)

FewSpec == Init /\ [][Next /\ FewCalls']_vars
=============================================================================
