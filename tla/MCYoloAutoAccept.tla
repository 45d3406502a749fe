-------------------------- MODULE MCYoloAutoAccept --------------------------
(* Small instances of YoloAutoAccept for TLC. *)
EXTENDS YoloAutoAccept

CONSTANTS i1, i2, top, middle, child, noSession, p1

\* Two or three generations.
Family == [s \in Sessions |->
  IF s = top THEN noSession
  ELSE IF s = child /\ middle \in Sessions THEN middle ELSE top]

\* The request may come from the root or from its child.
RootAsks  == [p \in Permissions |-> top]
ChildAsks == [p \in Permissions |-> child]

\* Two toggles, or else one with a permission request and a write that fails.
BoundedSpec ==
  /\ Init /\ Fairness
  /\ [][Next /\ (toggles' < 2 \/ (asked' = {} /\ writeFailures' = 0))]_vars
=============================================================================
