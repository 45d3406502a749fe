------------------------------- MODULE EventFlow -------------------------------
(***************************************************************************)
(* The two ends of what a browser shows of a workspace, side by side: the  *)
(* snapshot of its worktrees in the server, and the transcript that the    *)
(* browser makes of the events of a session.                               *)
(***************************************************************************)
EXTENDS WorktreeInventory

CONSTANTS
  MaxMessages, MaxQueue, MaxReserve, MaxDelivered, MaxReadFailures, MaxDestroyed

\* MAX_TRANSCRIPT_MESSAGES, MAX_TRANSCRIPT_EVENT_QUEUE and MAX_ROTATION_RESERVE; the last is
\* the bound on events.
ASSUME TranscriptAssumption ==
  MaxMessages \in Nat /\ MaxQueue \in Nat /\ MaxReserve \in Nat /\ MaxDelivered \in Nat

VARIABLES t, rotators, readers, delivered, due, busy, readFailures, destroyed

Replay == INSTANCE TranscriptReplay WITH
  MaxEvents <- MaxDelivered, MaxFailures <- MaxReadFailures, failures <- readFailures

-----------------------------------------------------------------------------
(* Properties of the transcript *)

\* opencode-data.ts: no event is missing from a projection that owes no snapshot, events are
\* reduced in their order, and once, but for one that a snapshot held before it was delivered.
ProjectionIsExact == Replay!ProjectionIsExact

\* opencode-data.ts: once the events stop, the projection reflects them all.
Converges == Replay!Converges
=============================================================================
