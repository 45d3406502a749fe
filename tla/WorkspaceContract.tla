-------------------------- MODULE WorkspaceContract --------------------------
(***************************************************************************)
(* What WorkspaceManager promises its clients, whatever it does inside: a  *)
(* workspace is announced once, closed only after it was given up, never   *)
(* comes back, and keeps its daemon location for as long as it is open.    *)
(***************************************************************************)
CONSTANTS Workspaces, Directories

VARIABLES
  dir,      (* the directory of each workspace, fixed                        *)
  status,   (* what a client of the event bus knows of each workspace        *)
  held      (* directories whose location the daemon holds                   *)

contractVars == <<dir, status, held>>

Open == {w \in Workspaces : status[w] = "open"}

Init ==
  /\ dir \in [Workspaces -> Directories]
  /\ status = [w \in Workspaces |-> "absent"]
  /\ held = {}

\* The members of S go from one status to the next one, together.
Move(S, from, to) ==
  /\ \A w \in S : status[w] = from
  /\ status' = [w \in Workspaces |-> IF w \in S THEN to ELSE status[w]]

\* A workspace opens with its location held.
OpenWorkspace(w) ==
  /\ Move({w}, "absent", "open")
  /\ held' = held \cup {dir[w]}
  /\ UNCHANGED dir

\* The daemon loads a location for a workspace that will not open.
Load(d) == held' = held \cup {d} /\ UNCHANGED <<dir, status>>

GiveUp(S) == Move(S, "open", "closing") /\ UNCHANGED <<dir, held>>

\* Closing may release the location with the same step.
Close(S, released) ==
  /\ Move(S, "closing", "closed")
  /\ \A w \in Open : dir[w] \notin released
  /\ held' = held \ released
  /\ UNCHANGED dir

Next ==
  \/ \E w \in Workspaces : OpenWorkspace(w)
  \/ \E d \in Directories : Load(d)
  \/ \E S \in SUBSET Workspaces :
       GiveUp(S) \/ \E released \in SUBSET Directories : Close(S, released)

Spec == Init /\ [][Next]_contractVars
=============================================================================
