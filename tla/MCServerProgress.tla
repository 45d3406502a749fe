--------------------------- MODULE MCServerProgress ---------------------------
(***************************************************************************)
(* Two components of the server under fair scheduling, one in each scene:  *)
(* requests to remove a worktree, with the safety of the fence and of the  *)
(* rollback, and launches, evictions and deletions of workspaces.  The other component   *)
(* rests in its initial state.                                             *)
(***************************************************************************)
EXTENDS WorktreeRemoval

CONSTANTS
  c1, c2, d1, noRequest,                            \* workspaces
  r1, r2, m1, s1, s2, tree, root, nowhere           \* removals

VARIABLES
  scene,
  call, dir, req, launch, records, aborted, published, stopped, owned, cancelledLocation,
  claim, retained, pending, cancelled, active, evictions, evicting, deletePromise, cleanup,
  held, cutOff, leaked, shutdown, deletingRoots, cancelSeen, deleteSeen, evictFailures

Lifecycle == INSTANCE WorkspaceLifecycle WITH
  Calls <- {c1, c2}, Directories <- {d1}, Nesting <- {},
  Requests <- {}, NoRequest <- noRequest, MaxActive <- 2, MaxEvictFailures <- 1

\* The worktree lies beside the root of the project.
Apart == {<<tree, tree>>, <<root, root>>}

workspaceVars ==
  <<call, dir, req, launch, records, aborted, published, stopped, owned, cancelledLocation,
    claim, retained, pending, cancelled, active, evictions, evicting, deletePromise, cleanup,
    held, cutOff, leaked, shutdown, deletingRoots, cancelSeen, deleteSeen,
    evictFailures>>
allVars == <<scene, vars, workspaceVars>>

SceneInit ==
  /\ scene \in {"removals", "workspaces"}
  /\ Init /\ Lifecycle!Init
  \* The first session is the root of its family and in the worktree.
  /\ IF scene = "removals" THEN where[s1] = Tree /\ family[s1] = s1
                            ELSE where = [s \in Sessions |-> Nowhere]

\* The requests are interchangeable and so may be made in order.
InTurn == At(r2, "idle") \/ ~At(r1, "idle")

\* The checkout is replaced before anything fails and before the second request, or never.
OneTrouble == checkout # 2 \/ (failures = 0 /\ At(r2, "idle"))

\* No shutdown begins and no worktree is being removed while workspaces are launched, which
\* keeps the temporal check small.  For a launch a validation that is cut off is one refused.
SceneNext ==
  /\ UNCHANGED scene
  /\ \/ scene = "removals" /\ Next /\ InTurn' /\ OneTrouble' /\ UNCHANGED workspaceVars
     \/ /\ scene = "workspaces" /\ Lifecycle!Next /\ UNCHANGED vars
        /\ UNCHANGED <<shutdown, deletingRoots, cutOff>>

SceneSpec == SceneInit /\ [][SceneNext]_allVars /\ Fairness /\ Lifecycle!Fairness

-----------------------------------------------------------------------------
(* Properties of the components *)

\* manager.ts, createResolvedWorkspace: a launch settles, whatever is cancelled or evicted.
LaunchesSettle == Lifecycle!LaunchesSettle

\* manager.ts, delete: a workspace that was deleted, or whose launch failed, leaves the map.
DoomedAreRemoved == Lifecycle!DoomedAreRemoved
=============================================================================
