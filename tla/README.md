# CodeNomad: specifications and proofs

CodeNomad puts a browser user interface in front of OpenCode. An Electron or
Tauri shell (or a terminal) starts a Fastify server, `packages/server`, which
connects to one OpenCode daemon shared by all workspaces; the user interface,
`packages/ui`, follows the server through one stream of events. The part of the
program whose correctness is hard to see are the asynchronous functions that
share mutable records: each `await` in them is a point at which anything else may
have happened. Most of them are in the server, a few in the stores of the user
interface and in the main process of the desktop application. These modules are
about those parts.

Everything below is translated from the source (`src/` in `PROJECT.json` is the
root of the repository); the daemon, Git and the browser are modelled only by
what the server observes of them.

## 1. Inventory

| Component | State | Operations | Module |
|---|---|---|---|
| Workspace lifecycle, `workspaces/manager.ts` | records by id, their abort controllers, claims, ownership of daemon locations, a chain of evictions, deletions in progress, worktrees under removal, a counter of creations | `create`, `releaseCreation`, `cancelCreation`, `delete`, `reserveWorktreeDeletion`, `shutdown` | `WorkspaceLifecycle`, `WorkspaceContract`, `WorkspaceLifecycleProofs` |
| Yolo auto-accept, `permissions/auto-accept-manager.ts`, `auto-accept-store.ts` | per workspace: tree of sessions, enabled roots, pending requests, attempts, replies in flight, queued events, a chain of mutations; session metadata on disk | hydration, session and permission events, `togglePersisted`, migrations, replies and retries, `stopInstance` | `YoloAutoAccept`, `YoloAutoAcceptProofs` |
| Instance event relay, `workspaces/instance-events.ts`, `instance-event-queue.ts` | the subscription, lanes of jobs and their budget, caches of session locations, of terminals and of ownership | `run`, `enqueue`, `drain`, lookups, publication, opening and stopping of workspaces, `shutdown` | `EventRelay`, `EventRelayProofs` |
| Worktree inventory, `workspaces/worktree-inventory.ts` | per workspace: snapshot, revision, running scan, expiry and backoff | `read` (three modes), `invalidate`, `forget` | `WorktreeInventory`, `EventFlowProofs` |
| Event bus, `events/bus.ts` | listeners, last status of each stream | `publish`, replay to a new client | `EventStream`; the status memory is also `busStatus` of `EventRelay` |
| Shared service connection, `workspaces/opencode-service.ts` | generation, current startup, connection, pinned identity, health check, prepared plugins, active compactions | `connect`, `withClient`, `invalidate`, `shutdown`, health checks, failures of requests | `SharedConnection`, `SharedConnectionProofs` |
| Permission receipts, `permissions/receipts.ts`, `receipt-store.ts` | a chain of events per workspace, observers of each session; a queue of tasks per session, tombstones of deleted sessions, one file per request | `onEvent`, `onStatus`, `prepare` and its confirmation, `prepareDeletion`, `list`; `capture`, `resolve`, `remove` | `PermissionReceipts`, `ClientEdgeProofs` |
| Worktree deletion, `workspaces/worktree-session-evacuation.ts`, `project-session-families.ts`, `server/routes/worktrees.ts` | blocked directories, admitted mutations, a lock per project, the families being moved | `enter`, `run`, moving a family, removing a worktree, rollback | `WorktreeRemoval`, `WorktreeRemovalProofs` |
| Browser event stream, `server/routes/events.ts`, `clients/connection-manager.ts` | per stream: what waits for the socket to drain; the stream of each connection key; the streams to close | `GET /api/events`, `write`, `handleDrain`, `close`, `register`, `pong`, the sweep, `shutdown` | `EventStream`, `ClientEdgeProofs` |
| Transcript replay, `ui/stores/opencode-data.ts`, `compaction-delta-buffer.ts` | the projection of a session's transcript, its queue, rotations and resynchronizations, a buffer of deltas | `applyOpenCodeDataEvent`, `rotateTranscript`, `resyncAuthoritativeTranscript`, pruning, `destroyOpenCodeData` | `TranscriptReplay`, `EventFlowProofs` |
| Client restore state, `ui/stores/client-state.ts` | the layout and session state of a window, dirty flag, write block, queue of saves, queue of transitions | changes, saves, clear, enable, disable, `flushClientState` | `ClientState`, `ClientEdgeProofs` |
| Desktop client state store, `electron-app/electron/main/client-state*.ts` | the root file and its partitions, the state in memory, a queue of requests, access tokens of renderers | commit, clear, enable, disable, add and remove a window, sweep, `drainAndReleasePrimary` | `ClientStateStore`, `ClientStateStoreProofs` |
| Server shutdown, session pruning, plugin controls, updates, settings, authentication, sidecars, remote UI, speech, usage, search and Git, HTTP proxy, UI components, desktop shells, Cloudflare worker | see `PROJECT.json` | | not modelled (section 8) |

How they interact. The manager publishes `workspace.created`, `.started` and
`.stopped` on the bus, synchronously, inside the step that changes the record.
The relay listens: a start opens a lane for the workspace, a stop closes it and
empties the location caches. The relay publishes `instance.event` and
`instance.eventStatus`; Yolo, the receipts and the streams of the browsers
listen to those. Yolo replies to the daemon and stores its flag in the metadata
of sessions. The manager asks the inventory which worktrees a workspace owns,
and the relay asks the manager who owns the location of an event. The removal of
a worktree reserves it with the manager, so that no workspace opens in it, and
with a fence that the proxy asks before it forwards a mutation. In the browser
the events of the stream become the transcript; the layout of a window is saved
through the desktop application's store.

What is hard in each of them:

- **Lifecycle.** Workspaces of one directory share one daemon location; the last
  to leave evicts it, while others may be validating it. Launches are aborted by
  deadline, cancellation, deletion and shutdown, at any await; an aborted
  validation may still succeed in the daemon. A client may cancel by requestId
  before, while and after the record exists. *Correct* means: an open workspace's
  location is held and nobody else's eviction takes it; nothing leaks that the
  daemon answered for; a cancellation hits exactly the call it names; every start has at most one stop;
  no workspace is open inside a worktree under removal.
- **Yolo.** Ancestry, toggles and requests arrive in any order; the root of a
  family moves under a toggle being stored; stops and restarts overtake
  everything in flight. *Correct* means: memory and store agree with what was
  asked, no request of an enabled family is forgotten, no answered one stays
  pending, an uncertain reply is not repeated, nothing revives what stopped.
- **Relay.** Two asynchronous lookups per event, both cached, both overtaken by
  moves, opens, stops and reconnects; a bounded queue. *Correct* means: in order,
  none lost while the stream lasts, none late, routed where the session is, and
  a stream that fails says so.
- **Connection.** One startup shared by all callers, one health check shared by
  those who find a connection, each overtaken by invalidations, shutdowns and the
  failure of somebody else's request. *Correct* means: one startup at a time, what
  was overtaken is discarded, a failure tears down only the connection it is
  about, the connection is of the pinned lifecycle, and nobody waits for himself.
- **Inventory.** One scan shared by reads of different strength, invalidated
  while it runs. *Correct* means: nobody who asked for a validated list gets one
  from before the invalidation that preceded the question.

- **Worktree removal.** Sessions are created and moved through the proxy, and by
  agents that run in the daemon, while a removal lists and moves them; each move
  may fail, and so may moving back. *Correct* means: Git never removes a checkout
  with a session in it that the program could know of, admitted mutations and removals exclude each other, a
  request that failed left every session where it was, and requests end.
- **Receipts.** The confirmation of a client and the events of every workspace
  tell of the same reply, in any order, around the deletion of the session.
  *Correct* means: what the client decided survives, a deleted session stays
  without receipts, and whoever listed is told of changes.
- **Stream.** A socket takes a while to drain; a browser reconnects before the
  old stream is closed. *Correct* means: no gap, and the stream that is swept and
  closed is the one that is open.
- **Transcript.** Snapshots read from the daemon race with events, rotations and
  prunings. *Correct* means: a projection that owes no snapshot reflects every
  event in order, none twice that was delivered before the snapshot, and it gets
  there when the events stop.
- **Restore state.** Saves, transitions and flushes of a window fail and overlap;
  the process that stores them crashes between two writes. *Correct* means: no
  change is lost, what was acknowledged is durable and complete, what was cleared
  stays empty, and a process that released the store does not touch it.

The hazards, line by line, are in `PROJECT.json`; each names the properties that
would catch it or says why none does.

## 2. Plan

Most important first; each module is checked before the next is begun.

1. `WorkspaceLifecycle` with its contract and proofs: done.
2. `YoloAutoAccept` with its proofs: done.
3. `EventRelay` with its proofs: done.
4. `WorktreeInventory` with its proofs: done.
5. `SharedConnection` with its proofs: done.
6. `WorktreeRemoval` with its proofs: done.
7. `TranscriptReplay` with its proofs: done.
8. `ClientState` and `ClientStateStore` with their proofs: done.
9. `EventStream` and `PermissionReceipts` with their proofs: done.
10. Session pruning, whose transactions reserve and restore sessions in the
    database of the daemon: open.
11. Relay, Yolo and receipts composed through the bus, with `WorkspaceContract`
    in the place of the manager: open.

A passing run is a question, or several of components small enough to share it.

Every invariant and every action property of the passing runs is a theorem; what
Yolo stores is one under a hypothesis (section 7).

## 3. Conventions

- An action is what runs between two awaits of one asynchronous function, the
  whole of it. A chain of awaits that nothing can observe or overtake is one step.
- A guard that is an early return of the code is a conjunct; a throw is an action
  or a disjunct of its own, with everything its `catch` and `finally` do.
- Variables that only record what happened, so that a property can speak of it,
  are marked "history"; constants that only bound the model are marked "bound".
  A bound is a guard of the environment (a client, the daemon, the disk), with one
  exception: `MaxAttempts` of `SharedConnection` ends the attempts to connect.
- `MC*.tla` modules give small values to constants. Some run several components,
  each in a *scene* of its own: the variable `scene` is chosen at the start, the
  components of the other scenes rest in an initial state, and a property of a
  component is checked in its scene. Nothing is shared between scenes.
- Operators introduced by a comment "Mutant:" are the plausible errors that each
  property was seen to catch (`PROJECT.json`, "mutants"); the specifications do
  not use them.
- `CHECK_DEADLOCK FALSE` appears only where the bounded system really ends; the
  cfg says why. `workspace_sharing` keeps the check.

- `ClientEdge` and `EventFlow` put components side by side that share nothing, so
  that one configuration can run them and one module of proofs can state the
  assumptions on their constants: the store, the window, the receipts and the
  stream in the first, the inventory and the transcript in the second.

## 4. The modules

### WorkspaceLifecycle, WorkspaceContract

One element of `Calls` is one call of `create()` and the record it may reserve:
ids are fresh UUIDs. A path, its canonical form and the daemon's location of it
are one `Directory`; `Nesting` says which lies in which. `call` is the progress
of `create()`, `launch` of `createResolvedWorkspace`, `cleanup` of a deletion's
cleanup; `records`, `published`, `stopped`, `owned`, `claim`, `retained`,
`aborted`, `deletePromise`, `deletingRoots`, `active`, `pending`, `cancelled`
are the fields and maps of the code of that name. `evictions` is the promise
chain `locationEvictions` as a queue whose head is running, `held` what the
daemon has loaded. Directory and requestId of a call are chosen at the start,
which is as general as choosing them when it is made.

A validation is answered (and the daemon holds the location, though the launch may
have been aborted meanwhile), refused, or cut off: `validateLocation` hands the
abort signal and the deadline to the request, which the daemon may serve all the
same, at any later time. `cutOff` are the launches for which it may, `DaemonLoads`
is the daemon doing so. The manager has no `cancelledLocation` then and evicts
nothing: such a location leaks until a later workspace of the directory validates
it and leaves. The history `leaked` records exactly these, and `NoLocationLeak`
promises that nothing else leaks. Locations that other requests of the daemon load
(`session-history.ts:43`, `native-worktrees.ts:38`) are not the manager's and left
out. The deadline may pass at any await.
An eviction may fail `MaxEvictFailures` times. From `publish` to the return of
`create()` only microtasks run, so they are one step. A shutdown's time-out is
one of its outcomes.

`WorkspaceContract` is what a subscriber of the bus can rely on: a workspace goes
absent, open, closing, closed, and its directory is held while it is open.
`ImplementsContract` maps `status` to the four sets of the detailed module.

Not in the module: the retry of a shutdown that timed out (it finds no records
and succeeds vacuously), restarts of the daemon (`sharedService.shutdown` only
disposes of the client's state), more than one service identity, the switch of
setups at `manager.ts:1047-1054`.

### YoloAutoAccept

`m` is the manager's memory, a record of functions by workspace: the session
`tree`, `enabled` roots, `pending` requests, `loading` sessions, the `chain` of
mutations with the local variables of its head, `attempts` and `inFlight` of
replies. The synchronous handlers (`Upsert`, `IngestSession`, `DrainPending`,
`RemovePending`, …) are operators on `m`, composed as the code calls them; the
actions are the asynchronous pieces. The daemon has sessions and permission
requests; its events reach each workspace in order per session and in any order
across sessions, and may be lost, because the stream is volatile. "created"
stands for `session.created` and `session.forked`. A write may fail
`MaxWriteFailures` times; a reply may fail before or after it was dispatched.

A hydration ends in two steps, the `then` that takes in the sessions and makes the
manager handle events at once (`HydrationFills`,
`auto-accept-manager.ts:123-136`), and the `finally` that replays the queued ones
(`HydrationReplays`, `:136-144`). Other promises are served between the two; the
model lets any event, load, stop or reply fall there, and no toggle, because
`togglePersisted` awaits its way behind the `finally`. `overtaken` records which
queued requests such an event declares over, and `PendingIsExact` exempts these:
one thing seen while modelling is that they stay pending, since the answer is
handled (`:79`) before the request it answers is replayed (`:142`), and the daemon
sends it once. The model says nothing of how likely that is: the stream has to
deliver in the one microtask between.

### EventRelay

`r` is the memory of the bridge and its queue: `lanes` of jobs in their stages,
the `count` against the budget, `closed`, `placed` (cached locations), `owners`
(cached ownership), and histories of what was published, refused or dropped.
`enqueue` runs the first job of a lane synchronously and later ones in
`NextJob`, as `drain` does; `DeliverTo` is the routing to one recipient, which
`Deliver` repeats over the list. The field `fresh` of a job is the comparison of
`ownershipRevision` around its lookup.

Who owns a location is not asked of Git but of the manager's inventory for events,
read in mode "validated" (`manager.ts:385-389`): a scan up to ten seconds old.
`owned` is what each workspace has owned so far, `snapshot` which of these its
inventory scanned last, and `floor` the oldest it may still return. A read returns
the last scan or scans again, at any time, as ten seconds may or may not have
passed (`Reads`); a lookup on a miss scans again too
(`worktree-directory.ts:194-201`). A scan that differs from the last
one revises the owners of every workspace (`Differs`, `manager.ts:377-380`), whoever
asked for it: the permission receipts read the same inventory
(`InventoryRead`). `worktree.updated` raises the floor of all workspaces, a change
that the *displayed* inventory finds only that of its own workspace, although it
revises the owners of all; opening, stopping and reconnecting empty the bridge's
caches and raise no floor. So an owner that nobody was told of may be old for any time, and
`OwnershipIsFresh` says what is left: an answer follows the last scan, and no scan
is older than the last change that was told. The cache of resolved directories
in `worktree-directory.ts` is emptied whenever a scan differs and always holds what
the inventory holds, so it is not a variable of its own. A directory that was
opened is owned without a scan (`manager.ts:263`): `Locations` are the others.

`late` holds the jobs of a queue that was
closed under them: they still run, and must not publish. `epoch` tells an open
workspace (1) from one not yet opened (0) or stopped (2). The byte limit is
folded into `MaxJobs`; the deadline of a job may pass whenever it is in a lane
(`QueueTimesOut`). The daemon's entities move and are deleted; `trail` remembers
where each has been, so that routing by a place it had left is visible. PTYs and
shells are one kind, terminals. The handler of `workspace.error` is left out:
nothing publishes that event. Opens and stops after the bridge's shutdown are
left out too. The names of locations are not among the two words, "none" and
"asked", that stand for an empty cache and a lookup under way
(`EntityAssumption`). `InOrder` leaves greetings out: `server.connected` is of no
entity, and every subscription begins with one.

### SharedConnection

A `task` is a promise: that of a caller's `connect()`, of a startup or of a
health check. `connection`, `connected`, `healthCheck` and `previous` hold the
number of the attempt whose promise or connection object the field of that name
refers to, so that `this.connected === connection` is an equation of numbers.
`generation` is compared as the code does; `pin` and `validated` are
`serviceIdentity` and `hasValidatedConnection`. A task that is `waiting` has
adopted the promise it `follows`, which is how a health check that was overtaken
joins a startup of somebody else. `plugins` is the preparation of each
connection object, `holds` the connections that defer the discovery of pending
requests because of a compaction (`pending-discovery.ts`). Daemons are numbered
as they start; they stop, and are started by others, at any time. The recheck
interval is the boolean `fresh`, which time may clear. Negotiating the profile
of the daemon, and the check that the connection is still the current one, are
part of `Prepare`; a caller that failed and one that finished are both `done`.

One thing seen while modelling and left to the reader: `invalidate()` during the
very first startup moves that startup out of `connection`, so that, if it then
fails, the pinned identity is not released (`opencode-service.test.ts:162`
"releases an initial failed discovery or startup identity" has no invalidation).

### WorktreeInventory

One id of the map. `entry` are the entry objects there have been, `current` the
one in the map (0 if none); a scan belongs to the object, as `entry.pending`
does, so a forgotten entry's scan goes on. A version of the disk stands for what
a scan finds. `expiresAt` and `retryAt` are only compared with the clock, and
become the booleans `expired` and `backoff` that time may set or clear. A failed
scan rejects all its readers. The announcement `changed` is left out. The
manager has two instances of the class (`manager.ts:357-385`), independent of
each other.

### WorktreeRemoval

`request` is the progress of a request of the routes: a removal blocks its
directories (`fencing`), drains the admitted mutations, lists and moves the
matching families, looks again, lets Git remove the checkout, and undoes the
moves when something failed. `lock` is the queue of `projectLocks`, `mutation`
the progress of a request that the proxy forwards: it is resolved to a directory
before it is admitted, and carried out after. When its client goes away, or the
request to the daemon fails, the proxy releases the admission (proxy.ts:26, :53)
though the daemon may have the request: the mutation is `adrift`, no fence counts
it any longer, and it may be carried out at any later time, or never. A session it
creates after a removal has looked a last time is removed with the checkout, and so
is one that such a session starts. That is what the code does, and
`NothingIsStranded` excepts exactly those sessions, which the history `strays`
records. `where` and `family` are the
daemon's; an agent that is `running` may start a session of its family at any
time. `checkout` tells a worktree from another one at the same path.

One project; a family is named by its root session. A call that fails either
happened or did not. Moves that a client asks of the daemon directly are not
modelled, nor is the older `evacuateWorktreeSessions`, which no route uses. When
refreshing the inventory fails after a removal the moves are not undone, and the
outcome is `unsure`, the status 500 of the code. The rollback looks whether the
checkout is still registered before it moves families back, in a step of its own
as in the code.

### PermissionReceipts

`events` is the chain of each workspace, its head being handled; `tasks` the
queue of each session in the store. A task carries who waits for it (a workspace,
a client or nobody), reads the file in one step (`Begin`) and writes it in
another. `client` is the reply of a client to a request: prepared, which captures
the request, dispatched, and confirmed when the daemon answered; `native` is what
the daemon knows. Every workspace hears each event. `list` is a list in progress,
which waits for the tasks there were when it asked; `view` and `told` record what
it showed and whether the workspace was told of a change since it read. Lists
overlap with each other, with writes and with restarts, and may be given up.

A directory is read at once; pages, filters and the 1024 observed sessions at
most are left out, workspaces stay open, and "client" stands for both origins
`codenomad` and `yolo`. One client answers a request, through one workspace.

### EventStream

A stream is a handler of `GET /api/events` with its variables; `out` and `due`
record what its socket took and what it was asked to write. What a socket answers
to a write is a choice. `connections` is the map of the connection manager, by
key of the browser, `sseClients` the set that the server closes when it stops.
Time is the set `stale` of keys that were not heard of for the timeout; the
deadline of a drain may pass at any time. One status is remembered, that of one
instance. That the framework accepts no request after `app.close()` is assumed.

### TranscriptReplay

`t` is a `TranscriptEntry`: `content` are the events its data reflects, `size`
the messages counted against the limit, `queue` what waits for a rotation.
`rotators` and `readers` are calls in progress, each holding what it read and
the epoch, rotation and revision it will compare. An event is an append, an
update, a delta of a compaction, the end of one, or idle. `due` records the
events a projection has to reflect since its last complete snapshot.

A chunk of the drain is a recursive function, one event of the queue at each
step; where the chunk ends is left open, within the rules of the code.

A snapshot does not travel with the events: they come by the relay and the
server's stream, it comes through the proxy. So the read answers with the first `n`
events of the daemon, where `n` is at least what this browser was delivered and
may be more. The check of the revision (opencode-data.ts:473) sees what was
delivered during the read, and waiting for a quiet moment (:64) makes the rest
unlikely, but nothing excludes it: such an event is shown `early`, arrives later
and is reduced once more. `content` holds what was delivered, so `ReducedInOrder`
says exactly what the code ensures, that nothing delivered before the swap is
reduced into the snapshot again. The page of a rotation has no such gap: it is cut
from the projection itself.

Left out: compactions that are not observed from their start, the callbacks of a
publication, `execution.started` as an event that revives, the messages kept
beyond the limit because they are active, the seeding of a projection by the
loading of messages, and the delays of retries.

### ClientState, ClientStateStore

`ClientState` is one window. A value is the number of the change that made it.
`saves` is the chain of writes, `wanted` that of transitions, `change` the
transition in progress, `flush` a flush. Continuations of promises run before the
next event (`Turn`). `record` is what the store has in memory for the window and
`disk` what its file has; a write that fails leaves the first as it was and may
have replaced the second, because the rename precedes the flush of the directory
(`MayReplace`). So a clear or disable that fails may have emptied the file of a
window that has nothing to save: nothing is written until the next change, and a
restart before that finds no state. `wiped` records it, and `CleanIsSaved` and
`FlushIsDurable` except it: they say that this is the only way to lose a change.
Writes of other windows, which would repair the file, are left out. A flush during a
transition succeeds without writing, as in the code, so `FlushIsDurable` speaks of
windows that may write. The run `client_rollback` is about the store alone: in the
application the session capture (`use-app-session-capture.ts:291-302`) saves
again when the restoration is enabled, which masks what it shows.

`ClientStateStore` is the main process. The request at the head of `queue`
publishes its partitions, changes the `memory`, replaces the `root` (which a loss
of power may still undo until the directory is flushed: `durable`) and sweeps.
`backup` is what a failure restores. A renderer is replaced at any time, and its
requests lose their token. A crash may happen between any two steps, and leaves
the files. `life` is the release of the store to another process.

Left out: the older monolithic format and its migration, files of a future
version, the election of the primary process, preferences and bounds of windows,
and reading partitions back. `loadClientState` answers from memory, also while a
write that may be rolled back is under way (`client-state.ts:288`). The directory
is not flushed on Windows; there `durable` says nothing. After a write that
failed, a release fails until another write succeeds.

## 5. The runs

Times are those of two workers.

| Run | Question | Bounds, and why they are enough |
|---|---|---|
| `workspace_sharing` (3 min) | No open workspace loses its location, no location leaks but by a validation that was cut off, a cancellation hits exactly the call it names, no workspace is open in a worktree under removal; the contract is implemented | two calls that share a directory, or a requestId, or both: every hazard of sharing is between two records, one leaving and one arriving; one trouble at a time, a failing eviction or a validation cut off and what it loaded. Directories inside one another are left to the theorem `RemovedWorktreesAreEmpty` |
| `connection` (½ min) | The connection is of the pinned lifecycle; only its own faults and commands tear it down; a compaction is remembered over a reconnection; promises never wait in a circle | three callers under two identities, three attempts (a startup, a health check and the attempt that overtakes it), one invalidation or shutdown |
| `server_progress` (2 min) | *workspaces*: launches settle, deleted and failed records leave the map. *removals*: requests to remove a worktree end, no session is stranded but by a mutation the proxy gave up, mutations and removals exclude each other, failures restore | fair; two launches of one directory, without shutdown and worktree removal, which end everything anyway; two requests, a mutation that may never end, a family in the worktree and an agent that spawns, one failure or, before the second request, a checkout that is replaced |
| `yolo` (3 min) | Nothing in flight revives a stopped workspace; requests of enabled families are tried and settled ones not pending, but for those overtaken while a hydration ends; toggles take effect in memory and store, migrated roots are stored; a reply that may have been delivered is not sent again; mutations end | fair; three generations, the second a fork, so that a root moves twice; two toggles, or one with a request and a failing write |
| `relay` (3 min) | A session is never routed by a location it had left; order, no loss while the stream lasts; what a client hears is current | two locations and three events of one session, of which one finds the cache warm and one finds it overtaken; or two subscriptions, a queue that overflows and a change of worktrees |
| `event_flow` (1½ min) | *inventory*: strict reads are not older than the last invalidation, no reader waits for ever. *relay*: the queue drains, or fails and is told. *replay*: a projection is exact, and converges | fair; two reads, two invalidations and a scan overtaken twice, or one and an entry forgotten under its scan; a queue of two jobs, two events of one subscription, or one and a second subscription; five events, two messages, a queue of three |
| `client_edge` (1½ min) | *store*: roots are complete, acknowledged requests durable, cleared windows stay clear, a released store is left alone. *window*: no change is lost, flushes are durable, but for a clear that failed after it emptied the file. *receipts*: what a client decided is kept until the session is deleted, lists are current. *stream*: no gap, open streams are registered | two windows and two partitions that they share, three requests with a fault, a replaced renderer or a crash, or two requests with all of these; four changes, two transitions, two failures, two flushes; two workspaces and a request, two lists of a session that lasts, or one list and a deletion, or one trouble; two streams of one key, three payloads, a budget of three |

The passing runs of Yolo and of the relay have one workspace. Workspaces share no
memory there except for the attempts of a reply, the budget of the queue and the
caches of locations, and one lane per workspace is what a second one adds;
`relay_terminals` has two. What workspaces over the same sessions do share is the
stored flags of Yolo, in the metadata of the sessions: each reads them once, when it
hydrates, and the last writer wins. `StoreFollowsEvents` and `ToggleTakesEffect` are
therefore properties of one workspace, which is what `yolo` has and what the theorems
assume: with two, one that hydrated before the other wrote a flag keeps the old one in
memory. The receipts have one session: sessions share
neither files nor queues, only the chain of a workspace.

Five runs exhibit disagreements between the code and what its documentation,
comments or tests say; each checks one property and finds it violated.

- `yolo_off`, `RepliesOnlyWhenEnabled`: `drainPending`
  (`auto-accept-manager.ts:408`) replies to every pending request of a family
  without asking whether the family is enabled. Its callers run it whenever the
  ancestry changes, so with Yolo off a waiting request is accepted as soon as a
  session joins its family.
- `yolo_reopen`, `StoreMatchesMemory`: a session that is *loaded*
  (`auto-accept-manager.ts:353`, `:170`) rather than announced by an event moves
  an enabled root in memory only. The store names a session that is no root, and
  the family is off when the workspace is reopened.
- `relay_terminals`, `TerminalsStayPlaced`: opening or stopping any workspace
  empties the locations of the terminals of all workspaces
  (`instance-events.ts:64`, `:326-331`). Only the creation of a terminal, and of a
  PTY an update, tells its location, so its later events, the exit among them, are
  dropped.
- `client_rollback`, `RolledBackIsSaved`: a disable that fails restores the
  changes and schedules their save while the restoration is still off
  (`ui/stores/client-state.ts:179`), so no timer is set; they are saved only with
  the next change or a flush.
- `client_power`, `DurableIsComplete`: a commit that finds a partition which a
  failed commit had linked does not flush the directory that names it
  (`client-state-partitions.ts:122`); a loss of power after it brings back a root
  whose partition is missing.

## 6. Fairness

Continuations of the server's own code run when their promise settles: weak
fairness on them. That the promise settles is an assumption on the other side:

- *Lifecycle.* Weak fairness on every continuation and on the answer of the
  daemon to a validation (it has a deadline) and to an eviction. `evictLocation`
  is called without a deadline (`manager.ts:939`, `:958`): if the daemon never
  answers one, every later creation waits, and no property promises otherwise.
  `EnterLocation` has strong fairness: a launch that waits for the chain of
  evictions re-reads it when it ends, and a new eviction may have been queued.
- *Yolo.* Weak fairness on the loads, writes and continuations of the mutation at
  the head of the chain, and on nothing else: that mutations end needs neither the
  hydration nor the replies to get anywhere. The store's requests carry no deadline of their own
  (`opencode-yolo-metadata.ts:101`): that they end rests on the client of the daemon.
- *Relay.* Weak fairness on `NextJob` and on answers, per lane, and on
  `QueueFailed`. Time-outs are never assumed, only allowed.
- *Worktree removal.* Weak fairness on the next step of each request: its calls
  are answered and its timer fires. Nothing is assumed of the mutations that were
  admitted or are adrift; the drain has a deadline.
- *Transcript.* Weak fairness on the two timers and on the answers of the reads.
  `Converges` says nothing while events keep coming.
- *Connection, restore state, store, receipts, stream.* None is assumed: no
  property of theirs is about progress.
- *Inventory.* Weak fairness on the steps of each scan: the processes that list
  worktrees carry deadlines. Invalidations are finitely many, as a reader that
  is overtaken for ever waits for ever.

The environment (clients, daemon events, disk) is never assumed fair.

## 7. Proofs

`tlapm` proves these for every value of the constants.

`WorkspaceLifecycleProofs`, from `NestingAssumption`, `RequestAssumption` and
`BoundAssumption`:

- `TypeCorrect`, `LiveWorkspacesStayHeld`, `EvictionsAreExclusive`,
  `ActiveIsExact`, `PublishedWhileWanted`: the named properties hold of `Spec`.
  `PublishedWhileWanted` and `ReturnsAreCurrent` below are action properties that
  no run checks, nor is `EvictionIsExclusive`, `ActiveCountsUnsettled` or
  `OneStartup`, on which others rest: the first is what the contract demands of a publication, the
  second follows one guard.
- `Inductive`: the argument. `LiveWorkspaceIsHeld` alone is not preserved: whether
  an eviction that ends may take a location away depends on who was sharing it
  when it was decided, and on nobody having validated since. The strengthening
  `IInv` adds that the head of the chain is an eviction only while no launch
  validates (`EvictionIsExclusive`), that each job in the chain belongs to a
  record in the phase that awaits it (`JobsOK`), that launches, records, ownership
  and publication are in step (`LaunchOK`), that a published launch was not
  aborted (`AbortOK`) and that the counter is the number of unsettled launches
  (`CountOK`). One step per action, and one lemma per conjunct that the action
  can disturb.
- `RequestsInductive`, `CancellationsAreExact`: `cancelCreation` knows only a
  requestId. That it fails the call it names, and no other, rests on how far a call,
  its launch and its claim may be apart (`ClaimOK`), on the requestId of every
  unfinished call being pending (`PendingOK`), and on a cancelled call carrying its
  cancellation in its mark, its claim or its launch until it fails (`CancelOK`).
- `LocationsInductive`, `LocationsDoNotLeak`: while no eviction failed, somebody
  answers for every location the daemon holds: a record that owns it, or an aborted
  launch on its way to evict it (`OwnerOK`, `HeldOK`). The locations the daemon
  loaded for a validation that had been cut off are excepted, by name (`leaked`).
- `RemovedWorktreesAreEmpty` holds for any nesting of directories: a reservation
  looks at the records and a creation at the reservations, each in the step that
  adds its own.
- `LifecycleImplementsContract`: the refinement of `WorkspaceContract`, step by
  step; an announcement without its record, or an eviction under an open workspace,
  would be a step the contract has not. `RemovalsAreAnnounced` says that
  `workspace.stopped` and the removal of the record go together (no run checks it).

`YoloAutoAcceptProofs`, from the four assumptions of the module. Of these,
`AncestryAssumption` is the one that matters: the sessions of a workspace are
finitely many and a parent is created before its child, so the walk of
`resolveFamilyRoot` ends.

- `TypeCorrect`, `StoppedWorkspacesStayClear`, `PendingRequestsAreExact`,
  `LostRepliesAreNotReplayed`: of the properties of the run, `StoppedStaysClear`,
  `PendingIsExact` and `LostReplyNotReplayed`. `EnabledSessionsAreRoots`, which no
  run checks, is what the second rests on.
- `ManagerInductive`: the synchronous handlers are operators on the memory, so the
  invariant is a list of predicates on a memory, and each handler has a lemma: what
  it does to the tree, the chain or the requests, and which predicate it restores.
  That a pending request of an enabled family was tried is preserved only because
  enabled sessions are the roots of their families (`RootsOK`), because a family
  that is about to be disabled is told from one that is enabled (`SeenOK`,
  `ToBeDisabled`), and because a request whose attempts were forgotten is over in
  some workspace (`FlightOK`). The last is the clause `OverElsewhere` of
  `PendingIsExact`: `removePending` forgets the attempts that all workspaces share,
  so a second workspace that has not heard of the reply yet counts from zero.
- Two inductions. That a root exists, and that a root is its own root, goes by the
  depth of a session in the tree (`RootsExist`, `RootUnfolds`). The replay of the
  events that were queued during hydration goes by their number (`ReplayExists`,
  `ReplayStep`); that it ends without an answered request pending also needs that
  the stream keeps its order, and that of the events handled ahead of the queue
  only those recorded in `overtaken` end a request that is in it (`QueueFits`,
  `QueueOvertaken`).
- `StoreInductive`, `StoreFollows`, `TogglesTakeEffect`: `StoreFollowsEvents` and
  `ToggleTakesEffect` of a workspace that is alone (`Alone`: no two instances; any
  sessions, requests, toggles and write failures). The hypothesis is one on the
  instance, not on the code: workspaces over the same sessions share the stored
  flags, and each reads them once. `Stored` accounts for every difference between
  store and memory: an enabled root that is not stored is in the additions of a
  migration in the chain, and a stored session that is not enabled is no root, or is
  the new root of a toggle that has still to retire the old one. A new session
  preserves that because old roots lead to the new ones (`Grows`, `TreeGrows`) and
  the migration joins the chain in the same step; a migration, because what is no
  longer enabled when it starts has a later migration (`MigrationOK`, `Later`); a
  toggle, because all the roots it wrote are in the family of its session, and all
  but the last climb (`FamilyOK`). That the root it retires is not the one it stored
  (`RetireOK`) is what `ToggleTakesEffect` needs beyond that.

`EventRelayProofs`, from `EntityAssumption`, `PlaceAssumption` and
`LimitAssumption`:

- `TypeCorrect`, `SessionsAreRoutedWhereTheyAre`, `NoEventIsLost`,
  `EventsAreInOrder`, `DeliveriesAreCurrent`: the named properties, and all that
  the run `relay` checks, hold of `Spec`.
- `RelayInductive`: a step of the relay runs from one await to the next and does
  several things to the memory `r` on the way: it takes a job, fills a cache, hands
  the event on, starts the next job. The invariant is `Good`, a conjunction of
  predicates on a memory together with what is on the wire and what was received;
  it holds between the parts of a step too, when one event is being handed on
  (`now`). One lemma per part says what it changes, and one per predicate that it
  is kept.
- *Order.* Event ids grow along each lane; what waits for or was heard by a
  workspace is ahead of what is still to be routed, which is ahead of the wire
  (`OrderOK`, `AheadOf`).
- *Nothing lost.* An event that a workspace should hear is settled, or queued for
  routing, or queued for that workspace (`KeptOK`); the count of the queue is the
  number of its jobs (`CountOK`), and jobs after a close are of an earlier
  generation (`LateOK`).
- *Where sessions are.* An event knows how often its session had moved when it was
  sent. Among the events of a session that are still to be routed every move is
  announced (`HopsOK`), so a cached place, and an answer of `session.get`, need only
  be right up to the next announced move, which replaces or clears the cache
  (`Serves`, `AnswerOK`, `PlaceOK`). An answer may be newer than the event it is
  for; hence "where the session was when the event was sent, or later".
- *Nothing late, nothing stale.* What a single step publishes is described by
  `NewsOK`, from which both action properties follow: to whom, from which
  subscription, and by what the last scan found, if no floor was raised above it
  (`Known`, `OwnersOK`). A positive answer in the cache stays true of the last scan
  because a scan that differs empties the cache in the same step, and one that does
  not shows as much (`ReadGrows`).

`EventFlowProofs`, from `BoundAssumption` (inventory) and `TranscriptAssumption`
(transcript: its limits and the bound on events are numbers):

- `TypeCorrect`, `SnapshotsAreFenced`, `StrictReadsAreFenced`, `ReturnsAreCurrent`
  of the inventory.
- `Inductive`: a snapshot is not older than the last invalidation unless the entry
  requires validation. That is preserved only because a scan remembers the
  revision it started under and commits only if it has not changed (`ScanOK`),
  because revisions only grow under invalidations (`RevisionOK`), because the
  history `fence` never passes the disk (`FenceOK`), and because entry objects
  not yet created are untouched (`UnusedOK`).
- `TranscriptsAreExact`: `ProjectionIsExact`, for any limits, even a queue that
  may hold nothing, and any number of events.
- `TranscriptInductive`: the operators of the module map an entry to an entry, so
  the invariant is a predicate `Good` on one, and each operator has a lemma. What
  is shown is older than the queue, in its order, and that is older than the deltas
  in the buffer (`InOrder`): hence the next event goes last wherever it goes, and a
  rotation reduces the queue from its head. Only a running rotation keeps a queue,
  and no entry that owes a snapshot does (`Settled`), or the end of a rotation
  would lose it. What an entry has to reflect is shown or waits (`Covers`). The
  delicate step is the snapshot that replaces everything: that it holds every event
  so far, if not more, and that no delta is in the buffer which it already contains, is known
  only because the buffer was reduced when the snapshot was read, and because every
  event since would have changed the revision (`ReadersOK`).

`SharedConnectionProofs`, from `TaskAssumption`, `IdentityAssumption` and
`BoundAssumption`:

- `TypeCorrect`, `StartupsDoNotRace`, `ConnectionsMatchPin`, `WaitsEnd`,
  `CompactionsAreCarried`, `OnlyFaultsTakeAway`: the named properties hold of
  `Spec`. `ChecksAreCurrent` proves `CheckIsOfConnected`, which no run checks.
- `Inductive`: that two startups never race is not preserved by itself, since a
  startup is begun when nobody's is joined, not when none runs. The strengthening
  `IInv` says that attempts begin in the order of their generations (`OrderOK`),
  that a running attempt of the current generation pinned the lifecycle it starts
  and is the one that callers join (`FencedOK`), that what callers join is running
  and current (`PromiseOK`), that the connections in memory came of attempts that
  resolved (`LastOK`), and that compactions belong to daemons no newer than the
  last connection, which knows of them (`CompactionOK`). One lemma per action, on
  top of lemmas for the steps that actions share: clearing what is current,
  settling an attempt, beginning one.

`ClientStateStoreProofs`, without assumptions on the constants:

- `TypeCorrect`, `RootsAreComplete`, `AcknowledgedSurvives`, `ClearedStays`,
  `NothingAfterRelease`. The four invariants differ in what they need, and each
  is proved from the type invariant and one more; every action is split into the
  ways a request may settle, which have lemmas of their own.
- `Complete`: not only the two roots but the memory, and the backup of the
  request in progress, refer to partitions that exist, because a sweep spares what
  the memory refers to and happens only once the root is the memory.
- `Faithful`: a window without a request in progress is the same in the memory,
  the backup and both roots, unless a request of it failed after it was written.
- `Clear`: a cleared window is empty in memory, backup and root and is suppressed,
  unless a request is enabling it; a commit of a suppressed window never comes as
  far as preparing partitions.
- `Draining`: a frozen process waits for exactly the queue, a released one has none.

`ClientEdgeProofs`, from `ReceiptAssumption`, `WindowAssumption` and
`LimitAssumption`:

- `ReceiptsStayExact`, `ListersAreTold`: `ReceiptsAreExact` and `ListedIsCurrent`
  of the receipts. Both rest on one invariant. What an event says is the daemon's
  decision (`EventsOK`, `ClientsOK`), so whoever comes first writes the decision
  that the others would write (`TasksOK`, `FileOK`), and only the origin needs the
  rule of precedence of `resolve`. A task that has read its file finds it unchanged
  when it writes, because the queue of the session has begun no other (`BegunOK`).
  A tombstone stays until its session's files are gone, or a removal is queued
  behind what would bring them back (`TombstonesOK`, `RemovedOK`). A workspace
  observes a session before it reads the files (`ObservedOK`), and an event at the
  head of a chain waits for at most one task (`WaitsOK`), so whoever is announced
  a write is told once and in time.
- `NoChangeIsLost`, `FlushesAreDurable`: `CleanIsSaved`, and the action property
  `FlushIsDurable`. A value that is not dirty is in the store or is the last save
  queued (`LastSaveOK`), where a transaction counts what it would restore
  (`Unsaved`), and the file has what the store has unless it was `wiped`; the store skips no save of a window that may write, or may again
  after a rollback (`SuppressedOK`), because a transaction drains the queue before
  it blocks (`TransactionOK`, `QueueOK`). A flush waits for saves that are not
  older than it (`FlushOK`).
- `StreamsHaveNoGap`, `OpenStreamsAreRegistered`: `NoGap` and `OpenIsRegistered`
  of the stream. What a socket took followed by what waits is what it was asked to
  write, and the count of waiting bytes is an upper bound of theirs (`WrittenOK`):
  so an overflow closes the stream, never drops from it. A key is known by a stream
  of its own (`KeysOK`), so closing a stream unregisters that one only.

`WorktreeRemovalProofs`, from `DirectoryAssumption` (a directory overlaps itself,
and overlapping is symmetric; nothing else of paths is needed):

- `TypeCorrect`, `FenceExcludes`, `NobodyIsStranded`, `FailuresRestore`: of the
  properties of the runs, `FenceIsExclusive`, `NothingIsStranded` and
  `FailureRestores`.
- `InvariantHolds`: that no session is in the worktree when Git removes it is not
  preserved by itself, since a mutation admitted earlier may create one there. The
  strengthening `IInv` says that only the request at the head of the lock is past
  the queue (`HolderOK`), what a request blocks in which phase (`LocalOK`), that
  no admitted mutation is left in the directories of a removal once it has
  drained them (`QuietOK`), and that after a removal looked again only strays of
  mutations that are adrift come into the worktree (`ClearOK`). The steps of a request share one
  lemma, `StepsPreserve`; what happens outside of them another,
  `OutsidePreserves`. That an agent spawns a session only beside one of its
  family, never in a directory of its own choice, is what the model assumes of
  the daemon, and what `SpawnPreserves` rests on.
- `MovesAreRecorded`: that a failing request has restored what it moved is about
  its last step only, and needs `KeptOK` about all of them. Of the sessions a
  request found, each is where it was found, or is at the goal and recorded as
  moved; once the rollback began, each that it no longer has to put back is where
  it was found. A move that fails is recorded like one that succeeds, so it is
  undone too, and nobody else moves a session that a request found, because only
  the head of the lock moves families (`HolderOK`).

Induction. The induction theorems of the library take an operator as a parameter,
which these provers cannot instantiate; the proof modules derive induction over
the naturals from the existence of least elements (`AllNaturals`, `UpTo`), with the
induction hypothesis as a set, and unfold a recursive function only after proving
that a function satisfying its equation exists (`ReplayExists`, `TotalsExist`,
`ChunkExists`). That works for the recursive functions of `YoloAutoAccept`,
`EventRelay`, `EventStream` and `TranscriptReplay`.

Only model-checked: everything under fairness (progress is out of the prover's
reach: `LaunchesSettle`, `DoomedAreRemoved`, `RequestsEnd`, `ReadsEnd`,
`QueueSettles`, `Converges`, `MutationsSettle`). `ToggleTakesEffect` and
`StoreFollowsEvents` of Yolo are theorems of one workspace, not of any number: they
are false of two that share the stored flags. The five violations are
TLC's too. The proofs are checked with SMT (Z3), Zenon and, for the temporal
steps, LS4.

## 8. What is not modelled

- Queries of the manager (files, search, worktrees): they read the record and
  call Git or the daemon, and change nothing.
- HTTP routing and the proxy, settings, authentication, sidecars, previews,
  remote UI, speech, usage: adapters and sequential documents, whose state is
  not shared across awaits in ways that a test does not reach.
- Session pruning: a transaction over files and the database of the daemon, the
  next component of the plan. Plugin controls edit configuration documents, which
  is text manipulation.
- Server shutdown: a sequence of stop operations with a deadline and a retry; the
  stops themselves are actions of the modules above.
- The user interface, apart from the transcript and the restore state: components
  and view stores that render what they receive.
- Electron, apart from its store of client state, and Tauri: windows and a child
  process.
- Wording, logging, wall-clock values, and the contents of messages.
