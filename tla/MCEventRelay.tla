---------------------------- MODULE MCEventRelay ----------------------------
(* Small instances of EventRelay for TLC. *)
EXTENDS EventRelay

CONSTANTS i1, i2, s1, s2, t1, home, away, service, router, noLocation

AllAtHome == [e \in Entities |-> home]

BothAtHome == [i \in Instances |-> {home}]

\* Three events of a session that moves within one subscription, or two events with a second
\* subscription and a change of ownership.
Bounded ==
  \/ generation < 2 /\ changes = 0
  \/ /\ sent < 3 /\ trail = [e \in Entities |-> <<Home[e]>>]
     /\ \A i \in Instances : Last(owned[i]) \subseteq {home}
     /\ \A n \in DOMAIN wire : wire[n].location # away

\* What others read of the inventory matters once a worktree has changed.
ReadsMatter == changes = 0 /\ r' = r => UNCHANGED snapshot

BoundedSpec == Init /\ [][Next /\ Bounded' /\ ReadsMatter]_vars
=============================================================================
