------------------------------ MODULE ClientEdge ------------------------------
(***************************************************************************)
(* What is kept for a client, side by side: the store of the desktop       *)
(* application, the state of one of its windows, the receipts of           *)
(* permission requests, and the stream of server-sent events.              *)
(***************************************************************************)
EXTENDS ClientStateStore

CONSTANTS
  MaxAttempts, MaxUpdates, MaxTransitions, MaxErrors, MaxFlushes,
  Instances, Sessions, Requests, SessionOf, Through, MaxTroubles, MaxLists,
  Keys, Limit, Sizes, MaxStreams, MaxPayloads

\* A request belongs to one session; a client reaches it through one workspace.
ASSUME ReceiptAssumption ==
  /\ SessionOf \in [Requests -> Sessions] /\ Through \in [Requests -> Instances]
  /\ {"nobody", "client"} \cap Instances = {}
  /\ "nobody" \notin Sessions /\ "nobody" \notin Requests

\* A flush makes an attempt (FLUSH_MAX_ATTEMPTS).
ASSUME WindowAssumption == MaxAttempts \in Nat \ {0}

\* The budget of a stream, and the sizes of the events, are numbers of bytes.
ASSUME LimitAssumption == Limit \in Nat /\ Sizes \subseteq Nat

VARIABLES
  mem, dirty, block, enabled, primary, timer, saves, saveError, wanted, change, flush,
  disk1, record, wiped, suppressed, owned, updates, transitions, errors, flushes,
  native, live, subscribed, events, observers, client, deleting, tasks, deleted, file,
  list, view, told, confirmed, writeFaults, losses, lists,
  streams, opened, sseClients, connections, stale, statuses, running, sent

Window == INSTANCE ClientState WITH disk <- disk1

Receipts == INSTANCE PermissionReceipts WITH faults <- writeFaults

Stream == INSTANCE EventStream WITH life <- running

-----------------------------------------------------------------------------
(* Properties of the components *)

\* client-state.ts: no change is lost by what fails or runs meanwhile; only a clear or a disable
\* that failed may leave the state file empty.
CleanIsSaved == Window!CleanIsSaved

\* flushClientState: what was changed before a successful flush is in the store, but for that.
FlushIsDurable == Window!FlushIsDurable

\* receipt-store.ts: a confirmed reply keeps its origin and its decision, until its session
\* is deleted and stays without receipts.
ReceiptsAreExact == Receipts!ReceiptsAreExact

\* receipts.ts: a workspace that listed receipts is told of the changes.
ListedIsCurrent == Receipts!ListedIsCurrent

\* events.ts: no browser sees a stream with a gap.
NoGap == Stream!NoGap

\* connection-manager.ts: an open stream is the one that is swept and closed.
OpenIsRegistered == Stream!OpenIsRegistered
=============================================================================
