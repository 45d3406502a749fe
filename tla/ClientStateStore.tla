--------------------------- MODULE ClientStateStore ---------------------------
(***************************************************************************)
(* packages/electron-app/electron/main/client-state.ts and                 *)
(* client-state-partitions.ts: what the desktop application persists of    *)
(* its windows.                                                            *)
(*                                                                         *)
(* One state file (the root) holds a record per window; the parts of a     *)
(* snapshot are files of their own, named by their content, that windows   *)
(* may share.  Requests of the renderers wait in one queue.  The request   *)
(* at its head publishes its partitions, changes the state in memory,      *)
(* replaces the root and sweeps the partitions that nothing refers to; a   *)
(* failure on the way restores the memory.  The process may crash, and a   *)
(* renderer may be replaced, between any two of these steps.               *)
(***************************************************************************)
EXTENDS Naturals, Sequences

CONSTANTS
  Windows, Partitions,
  MaxRequests,   (* bound: requests                                          *)
  MaxFaults,     (* bound: operations of the file system that fail           *)
  MaxReloads,    (* bound: renderers that are replaced                       *)
  MaxCrashes     (* bound: processes that end                                *)

VARIABLES
  root,        (* the state file as it is read                               *)
  durable,     (* the state file as a loss of power would leave it           *)
  parts,       (* the partition files                                        *)
  synced,      (* those whose directory entry is durable                     *)
  memory,      (* state and persistenceSuppressed                            *)
  backup,      (* their previous values, of the request in progress          *)
  queue,       (* writeQueue                                                 *)
  phase,       (* how far the request at its head has come                   *)
  published,   (* it has created a partition file                            *)
  renderer,    (* rendererAccessTokens, as the number of the renderer        *)
  life,        (* "frozen" from drainAndReleasePrimary on                    *)
  ahead,       (* requests a release waits for                               *)
  failed,      (* writeQueue is rejected                                     *)
  acked,       (* history: what the last acknowledged request of a window left *)
  doubt,       (* history: windows a request of which failed after that      *)
  quiet,       (* history: windows cleared, or disabled, and not enabled since *)
  requests, faults, reloads, crashes    (* history: for the bounds           *)

disk    == <<root, durable, parts, synced>>
process == <<memory, backup, queue, phase, published, life, ahead, failed>>
history == <<acked, doubt, quiet>>
bounds  == <<requests, faults, reloads, crashes>>
vars    == <<disk, process, renderer, history, bounds>>

Record  == [status : {"new", "open", "gone"}, on : BOOLEAN, parts : SUBSET Partitions]
States  == [Windows -> Record]
Memory  == [state : States, suppressed : SUBSET Windows]
Kinds   == {"commit", "clear", "enable", "disable", "add", "remove"}
Request == [kind : Kinds, window : Windows, parts : SUBSET Partitions, token : Nat]

\* retainedPartitionKeys
Refs(state) == UNION {state[w].parts : w \in Windows}

Opened(set) == [w \in Windows |-> [status |-> IF w \in set THEN "open" ELSE "new",
                                   on |-> TRUE, parts |-> {}]]

\* The constructor: windows that were disabled are not to be written.
Loaded(state) ==
  [state |-> state,
   suppressed |-> {w \in Windows : state[w].status = "open" /\ ~state[w].on}]

Init ==
  /\ \E set \in SUBSET Windows \ {{}} : root = Opened(set)
  /\ durable = root /\ parts = {} /\ synced = {}
  /\ memory = Loaded(root) /\ backup = memory
  /\ queue = <<>> /\ phase = "idle" /\ published = FALSE
  /\ renderer = [w \in Windows |-> 0]
  /\ life = "running" /\ ahead = 0 /\ failed = FALSE
  /\ acked = root /\ doubt = {} /\ quiet = {}
  /\ requests = 0 /\ faults = 0 /\ reloads = 0 /\ crashes = 0

-----------------------------------------------------------------------------
Op == Head(queue)

\* assertRendererAccessToken; the main process has no token to lose.
Authorized ==
  \/ Op.kind \in {"add", "remove"}
  \/ memory.state[Op.window].status = "open" /\ Op.token = renderer[Op.window]

\* assertReplacementAllowed: the lock is given up by the release.
Allowed == Authorized /\ life # "released"

\* The window is known, or is a new one.
Known(state, kind, w) == state[w].status = IF kind = "add" THEN "new" ELSE "open"

Changed(record, op) ==
  [status |-> IF op.kind = "add" THEN "open" ELSE IF op.kind = "remove" THEN "gone"
              ELSE record.status,
   on     |-> op.kind = "enable" \/ (record.on /\ op.kind # "disable"),
   parts  |-> IF op.kind = "commit" THEN op.parts
              ELSE IF op.kind \in {"enable", "add"} THEN record.parts ELSE {}]

Suppression(set, op) ==
  IF op.kind \in {"clear", "disable"} THEN set \cup {op.window}
  ELSE IF op.kind = "enable" THEN set \ {op.window} ELSE set

Changes(m, op) ==
  [state |-> [m.state EXCEPT ![op.window] = Changed(@, op)],
   suppressed |-> Suppression(m.suppressed, op)]

\* The request at the head leaves the queue.
Settles(ok) ==
  /\ queue' = Tail(queue) /\ phase' = "idle" /\ published' = FALSE /\ failed' = ~ok
  /\ ahead' = IF ahead > 0 THEN ahead - 1 ELSE 0

Acknowledges ==
  /\ Settles(TRUE)
  /\ acked' = [acked EXCEPT ![Op.window] = memory.state[Op.window]]
  /\ doubt' = doubt \ {Op.window}
  /\ quiet' = IF Op.kind \in {"clear", "disable"} THEN quiet \cup {Op.window}
              ELSE IF Op.kind = "enable" THEN quiet \ {Op.window} ELSE quiet
  /\ UNCHANGED <<memory, backup>>

\* Mutant: a failed request gives back the state but not the suppression.
RestoreState == memory' = [backup EXCEPT !.suppressed = memory.suppressed]

Restore == memory' = backup

Rejects ==
  /\ Settles(FALSE) /\ Restore /\ doubt' = doubt \cup {Op.window}
  /\ UNCHANGED <<backup, acked, quiet>>

-----------------------------------------------------------------------------
(* Requests of the renderers and of the main process *)

\* Mutant: a window list mutation is admitted although the process is about to release.
AdmitsLate(kind) == life = "running" \/ kind = "remove"

Admits(kind) == life = "running"

Ask(kind, w, S) ==
  /\ Admits(kind) /\ requests < MaxRequests /\ requests' = requests + 1
  /\ Known(memory.state, kind, w)
  /\ S = {} <=> kind # "commit"
  /\ queue' = Append(queue, [kind |-> kind, window |-> w, parts |-> S, token |-> renderer[w]])
  /\ UNCHANGED <<disk, memory, backup, phase, published, renderer, life, ahead, failed,
                 history, faults, reloads, crashes>>

\* did-navigate, render-process-gone: another document claims the access.
Reload(w) ==
  /\ memory.state[w].status = "open"
  /\ reloads < MaxReloads /\ reloads' = reloads + 1
  /\ renderer' = [renderer EXCEPT ![w] = @ + 1]
  /\ UNCHANGED <<disk, process, history, requests, faults, crashes>>

\* drainAndReleasePrimary
Drain ==
  /\ life = "running" /\ life' = "frozen" /\ ahead' = Len(queue)
  /\ UNCHANGED <<disk, memory, backup, queue, phase, published, failed, renderer, history,
                 bounds>>

Release ==
  /\ life = "frozen" /\ ahead = 0
  /\ life' = IF failed THEN "running" ELSE "released"
  /\ UNCHANGED <<disk, memory, backup, queue, phase, published, ahead, failed, renderer,
                 history, bounds>>

-----------------------------------------------------------------------------
(* mutateAndPersist and mutateWindowListAndPersist, for the request at the head *)

Begin ==
  /\ phase = "idle" /\ queue # <<>>
  /\ \/ /\ ~Authorized
        /\ Settles(FALSE) /\ UNCHANGED <<memory, backup, history>>
     \/ /\ Authorized /\ Op.kind = "commit" /\ Op.window \in memory.suppressed
        /\ Settles(TRUE) /\ UNCHANGED <<memory, backup, history>>
     \/ /\ Authorized /\ ~(Op.kind = "commit" /\ Op.window \in memory.suppressed)
        /\ phase' = "prepare" /\ backup' = memory
        /\ UNCHANGED <<memory, queue, published, ahead, failed, history>>
  /\ UNCHANGED <<disk, renderer, life, bounds>>

\* writeImmutable
Publish(p) ==
  /\ phase = "prepare" /\ p \in Op.parts \ parts
  /\ IF Allowed THEN /\ parts' = parts \cup {p} /\ published' = TRUE
                     /\ UNCHANGED <<memory, backup, queue, phase, ahead, failed, history>>
     ELSE Rejects /\ UNCHANGED parts
  /\ UNCHANGED <<root, durable, synced, renderer, life, bounds>>

\* Mutant: the partitions are published after the root that refers to them.
PreparedLater == TRUE

Prepared == Op.parts \subseteq parts

\* The partitions are all there; their directory is flushed if one of them is new.
Mutate ==
  /\ phase = "prepare" /\ Prepared
  /\ IF Allowed /\ Known(memory.state, Op.kind, Op.window)
     THEN /\ memory' = Changes(memory, Op) /\ phase' = "write"
          /\ synced' = IF published THEN parts ELSE synced
          /\ UNCHANGED <<backup, queue, published, ahead, failed, history>>
     ELSE Rejects /\ UNCHANGED synced
  /\ UNCHANGED <<root, durable, parts, renderer, life, bounds>>

\* writeAtomically, up to the rename
Replace ==
  /\ phase = "write"
  /\ IF Allowed THEN /\ root' = memory.state /\ phase' = "renamed"
                     /\ UNCHANGED <<memory, backup, queue, published, ahead, failed, history>>
     ELSE Rejects /\ UNCHANGED root
  /\ UNCHANGED <<durable, parts, synced, renderer, life, bounds>>

\* Mutant: the new root is not flushed before the request is acknowledged.
FlushRootNever == durable' = durable

FlushRoot == durable' = root

Sweeps(op) == op.kind \notin {"enable", "add"}

SyncRoot ==
  /\ phase = "renamed" /\ FlushRoot
  /\ IF Sweeps(Op) THEN /\ phase' = "sweep"
                        /\ UNCHANGED <<memory, backup, queue, published, ahead, failed, history>>
     ELSE Acknowledges
  /\ UNCHANGED <<root, parts, synced, renderer, life, bounds>>

\* Mutant: a sweep keeps the partitions of the window that asked for it alone.
GarbageOfOthers == parts \ memory.state[Op.window].parts

Garbage == parts \ Refs(memory.state)

Sweep(p) ==
  /\ phase = "sweep" /\ p \in Garbage
  /\ parts' = parts \ {p} /\ synced' = synced \ {p}
  /\ UNCHANGED <<root, durable, process, renderer, history, bounds>>

\* The sweep ends early when the authority is lost; its failure is only logged.
SweepEnds ==
  /\ phase = "sweep" /\ (Garbage = {} \/ ~Allowed)
  /\ Acknowledges
  /\ UNCHANGED <<disk, renderer, life, bounds>>

\* A file cannot be written, renamed or flushed.
Fault ==
  /\ phase \in {"prepare", "write", "renamed", "sweep"}
  /\ faults < MaxFaults /\ faults' = faults + 1
  /\ IF phase = "sweep" THEN Acknowledges ELSE Rejects
  /\ UNCHANGED <<disk, renderer, life, requests, reloads, crashes>>

\* The process ends, orderly or not, and another reads the root.
Crash ==
  /\ crashes < MaxCrashes /\ crashes' = crashes + 1
  /\ memory' = Loaded(root) /\ backup' = Loaded(root)
  /\ queue' = <<>> /\ phase' = "idle" /\ published' = FALSE
  /\ life' = "running" /\ ahead' = 0 /\ failed' = FALSE
  /\ doubt' = IF phase = "idle" THEN doubt ELSE doubt \cup {Op.window}
  /\ quiet' = {w \in quiet : ~root[w].on}
  /\ UNCHANGED <<disk, renderer, acked, requests, faults, reloads>>

Next ==
  \/ \E kind \in Kinds, w \in Windows, S \in SUBSET Partitions : Ask(kind, w, S)
  \/ \E w \in Windows : Reload(w)
  \/ Drain \/ Release
  \/ Begin \/ Mutate \/ Replace \/ SyncRoot \/ SweepEnds \/ Fault \/ Crash
  \/ \E p \in Partitions : Publish(p) \/ Sweep(p)

Spec == Init /\ [][Next]_vars

-----------------------------------------------------------------------------
(* Properties *)

\* Type correctness.
TypeOK ==
  /\ root \in States /\ durable \in States
  /\ parts \in SUBSET Partitions /\ synced \in SUBSET Partitions
  /\ memory \in Memory /\ backup \in Memory
  /\ queue \in Seq(Request)
  /\ phase \in {"idle", "prepare", "write", "renamed", "sweep"}
  /\ phase # "idle" => queue # <<>>
  /\ published \in BOOLEAN /\ failed \in BOOLEAN
  /\ renderer \in [Windows -> Nat]
  /\ life \in {"running", "frozen", "released"} /\ ahead \in Nat
  /\ acked \in States /\ doubt \in SUBSET Windows /\ quiet \in SUBSET Windows

\* dev-docs/architecture.md:35: whenever the process ends, the root that is read next, and the
\* one that a loss of power would bring back, refer to partitions that exist.
RootIsComplete == Refs(root) \cup Refs(durable) \subseteq parts

\* A request that was answered is durable, whatever other windows asked for since and whatever
\* failed: the record of its window survives a loss of power.
AcknowledgedIsDurable ==
  \A w \in Windows : durable[w] = acked[w]
    \/ w \in doubt \/ (phase = "sweep" /\ Op.window = w)

\* client-state.test.ts:278: what was cleared or disabled stays empty, whatever was queued and
\* whatever fails, until it is enabled again or, when it was only cleared, a restart.
ClearedStaysClear == \A w \in quiet : root[w].parts = {}

\* client-state.ts:457: the lock is released after the last write and the last sweep, and
\* nothing is written by this process after that.
ReleasedIsQuiet == [][life = "released" => UNCHANGED disk]_vars

\* The entries of the partitions that a durable root refers to are durable as well.
DurableIsComplete == Refs(durable) \subseteq synced
=============================================================================
