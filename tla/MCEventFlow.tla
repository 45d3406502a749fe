----------------------------- MODULE MCEventFlow -----------------------------
(***************************************************************************)
(* Three stations of what a browser shows, one in each scene: the snapshot *)
(* of the worktrees, the relay of the daemon's events to the workspaces,   *)
(* and the transcript that the browser makes of them.  The other two       *)
(* components rest in their initial states.                                *)
(***************************************************************************)
EXTENDS EventFlow

CONSTANTS
  c1, c2,                                           \* readers of the inventory
  i1, s1, home, service, router, noLocation         \* relay

VARIABLES
  scene,
  phase, generation, status, busStatus, listed, epoch, r, wire, trail, gone, owned, snapshot,
  floor, unseen, sent, changes, received

Relay == INSTANCE EventRelay WITH
  Instances <- {i1}, Sessions <- {s1}, Terminals <- {}, Service <- service,
  Locations <- {home}, NoLocation <- noLocation, Router <- router,
  Home <- [e \in {s1} |-> home], Owned <- [i \in {i1} |-> {home}],
  MaxJobs <- 2, MaxEvents <- 2, MaxConnections <- 2, MaxChanges <- 0

relayVars ==
  <<phase, generation, status, busStatus, listed, epoch, r, wire, trail, gone, owned, snapshot,
    floor, unseen, sent, changes, received>>
replayVars == <<t, rotators, readers, delivered, due, busy, readFailures, destroyed>>
allVars    == <<scene, vars, relayVars, replayVars>>

SceneInit ==
  /\ scene \in {"inventory", "relay", "replay"}
  /\ Init /\ Relay!Init /\ Replay!Init

\* Relay: two events of one subscription, or one before or after another begins.
\* Inventory: two invalidations, or one of a workspace that may be forgotten and opened again.
SceneNext ==
  /\ UNCHANGED scene
  /\ \/ /\ scene = "inventory" /\ Next /\ (invalidations' < 2 \/ created' < 2)
        /\ UNCHANGED <<relayVars, replayVars>>
     \/ /\ scene = "relay" /\ Relay!Next /\ (sent' < 2 \/ generation' < 2)
        /\ UNCHANGED <<vars, replayVars>>
     \/ scene = "replay" /\ Replay!Next /\ UNCHANGED <<vars, relayVars>>

SceneSpec ==
  SceneInit /\ [][SceneNext]_allVars /\ Fairness /\ Relay!Fairness /\ Replay!Progress

-----------------------------------------------------------------------------
(* Properties of the relay *)

\* instance-event-queue.ts: the queue drains, or fails and the workspaces are told.
QueueSettles == Relay!QueueSettles
=============================================================================
