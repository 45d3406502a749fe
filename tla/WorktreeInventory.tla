-------------------------- MODULE WorktreeInventory --------------------------
(***************************************************************************)
(* packages/server/src/workspaces/worktree-inventory.ts: the snapshot of   *)
(* the worktrees of one workspace.                                         *)
(*                                                                         *)
(* Reads share one scan of the disk at a time.  Display reads ("cached")   *)
(* may return the last snapshot; authorization ("validated") and family    *)
(* transactions ("fresh") wait for a scan.  A mutation of the worktrees    *)
(* invalidates the snapshot, and a scan it overtook is repeated.  Versions *)
(* of the disk stand for what a scan finds.                                *)
(***************************************************************************)
EXTENDS Naturals

CONSTANTS
  Readers,           (* calls of read(), each made once                     *)
  MaxDisk,           (* bound: versions of the disk                         *)
  MaxInvalidations,  (* bound: calls of invalidate()                        *)
  MaxEntries,        (* bound: entries, forgotten ones included             *)
  MaxFailures        (* bound: scans that fail                              *)

ASSUME BoundAssumption ==
  /\ MaxDisk \in Nat \ {0} /\ MaxEntries \in Nat \ {0}
  /\ MaxInvalidations \in Nat /\ MaxFailures \in Nat

VARIABLES
  disk,           (* version of the worktrees                               *)
  current,        (* entries.get(id), 0 if there is none                    *)
  created,        (* number of entry objects there have been                *)
  entry,          (* the entry objects                                      *)
  scan,           (* entry.pending of each entry object                     *)
  reader,         (* progress of each call of read()                        *)
  fence,          (* history: the disk at the last invalidation             *)
  invalidations, failures    (* history: for the bounds                     *)

bounds == <<invalidations, failures>>
vars   == <<disk, current, created, entry, scan, reader, fence, bounds>>

Modes    == {"cached", "validated", "fresh"}
Entries  == 1..MaxEntries
Versions == 0..MaxDisk        \* 0: no snapshot

(* expiresAt and retryAt are compared with the clock only: `expired` and       *)
(* `backoff` say how that comparison ends.                                     *)
EntryStates ==
  [value : Versions, expired : BOOLEAN, backoff : BOOLEAN,
   requireValidation : BOOLEAN, revision : 0..MaxInvalidations]

Scans ==
  [stage : {"none", "started", "answered"}, revision : 0..MaxInvalidations,
   result : Versions]

ReaderStates ==
  [stage : {"idle", "waiting", "done", "failed"}, mode : Modes,
   entry : 0..MaxEntries, value : Versions,
   strict : BOOLEAN,                   \* history: may not return the snapshot
   fence : Versions]                   \* history: as it was at the call

NoScan == [stage |-> "none", revision |-> 0, result |-> 0]

Init ==
  /\ disk = 1 /\ current = 0 /\ created = 0
  /\ entry = [e \in Entries |->
       [value |-> 0, expired |-> TRUE, backoff |-> FALSE,
        requireValidation |-> FALSE, revision |-> 0]]
  /\ scan = [e \in Entries |-> NoScan]
  /\ reader = [c \in Readers |->
       [stage |-> "idle", mode |-> "cached", entry |-> 0, value |-> 0,
        strict |-> FALSE, fence |-> 0]]
  /\ fence = 0 /\ invalidations = 0 /\ failures = 0

-----------------------------------------------------------------------------
(* read and load *)

\* load: a scan that runs is shared.
Load(e) ==
  IF scan[e].stage # "none" THEN scan
  ELSE [scan EXCEPT ![e] = [stage |-> "started", revision |-> entry[e].revision,
                            result |-> 0]]

Call(c, mode, e, strict) ==
  [reader[c] EXCEPT !.mode = mode, !.entry = e, !.strict = strict,
                    !.fence = fence]

Returns(c, mode, e, strict) ==
  reader' = [reader EXCEPT ![c] =
    [Call(c, mode, e, strict) EXCEPT !.stage = "done", !.value = entry[e].value]]

Waits(c, mode, e, strict) ==
  reader' = [reader EXCEPT ![c] =
    [Call(c, mode, e, strict) EXCEPT !.stage = "waiting"]]

\* Mutant: a display read returns the snapshot also when it must be validated.
DisplaysAnyway(e, mode) == mode = "cached" /\ entry[e].value # 0

Displays(e, mode) ==
  mode = "cached" /\ entry[e].value # 0 /\ ~entry[e].requireValidation

ReadEntry(c, mode, e) ==
  LET strict == mode # "cached" \/ entry[e].requireValidation
  IN  IF mode # "fresh" /\ entry[e].value # 0 /\ ~entry[e].expired
      THEN Returns(c, mode, e, strict) /\ UNCHANGED scan
      ELSE IF Displays(e, mode)
      THEN /\ Returns(c, mode, e, strict)
           /\ scan' = IF entry[e].backoff THEN scan ELSE Load(e)
      ELSE Waits(c, mode, e, strict) /\ scan' = Load(e)

Read(c, mode) ==
  /\ reader[c].stage = "idle"
  /\ \/ /\ current # 0
        /\ ReadEntry(c, mode, current)
        /\ UNCHANGED <<current, created>>
     \/ /\ current = 0 /\ created < MaxEntries
        /\ created' = created + 1 /\ current' = created + 1
        /\ ReadEntry(c, mode, created + 1)
  /\ UNCHANGED <<disk, entry, fence, bounds>>

-----------------------------------------------------------------------------
(* The scan *)

Settle(e, stage, value) ==
  reader' = [c \in Readers |->
    IF reader[c].stage = "waiting" /\ reader[c].entry = e
    THEN [reader[c] EXCEPT !.stage = stage, !.value = value] ELSE reader[c]]

\* The worktrees are listed.
ScanReads(e) ==
  /\ scan[e].stage = "started"
  /\ scan' = [scan EXCEPT ![e] = [@ EXCEPT !.stage = "answered", !.result = disk]]
  /\ UNCHANGED <<disk, current, created, entry, reader, fence, bounds>>

\* Git or the daemon fails: everybody who waits fails.
ScanFails(e) ==
  /\ scan[e].stage # "none"
  /\ failures < MaxFailures /\ failures' = failures + 1
  /\ scan' = [scan EXCEPT ![e] = NoScan]
  /\ entry' = [entry EXCEPT ![e].backoff =
                 @ \/ scan[e].revision = entry[e].revision]
  /\ Settle(e, "failed", 0)
  /\ UNCHANGED <<disk, current, created, fence, invalidations>>

Disposed(e) == current # e

\* The workspace was forgotten meanwhile.
ScanIsDisposed(e) ==
  /\ scan[e].stage = "answered" /\ Disposed(e)
  /\ scan' = [scan EXCEPT ![e] = NoScan]
  /\ entry' = [entry EXCEPT ![e].backoff =
                 @ \/ scan[e].revision = entry[e].revision]
  /\ Settle(e, "failed", 0)
  /\ UNCHANGED <<disk, current, created, fence, bounds>>

\* Mutant: a scan that was overtaken is good enough.
OvertakenNever(e) == FALSE

Overtaken(e) == scan[e].revision # entry[e].revision

\* Mutant: who waits for the overtaken scan is forgotten with it.
RepeatedOnDemand(e) == NoScan

\* The trailing scan takes the place of the one that was overtaken.
Repeated(e) ==
  [stage |-> "started", revision |-> entry[e].revision, result |-> 0]

\* A mutation overtook the scan.
ScanRepeats(e) ==
  /\ scan[e].stage = "answered" /\ ~Disposed(e) /\ Overtaken(e)
  /\ scan' = [scan EXCEPT ![e] = Repeated(e)]
  /\ UNCHANGED <<disk, current, created, entry, reader, fence, bounds>>

\* The result becomes the snapshot, and everybody who waits returns it.
ScanInstalls(e) ==
  /\ scan[e].stage = "answered" /\ ~Disposed(e) /\ ~Overtaken(e)
  /\ entry' = [entry EXCEPT ![e] =
       [@ EXCEPT !.value = scan[e].result, !.expired = FALSE, !.backoff = FALSE,
                 !.requireValidation = FALSE]]
  /\ scan' = [scan EXCEPT ![e] = NoScan]
  /\ Settle(e, "done", scan[e].result)
  /\ UNCHANGED <<disk, current, created, fence, bounds>>

-----------------------------------------------------------------------------
(* invalidate, forget, and the clock *)

\* The display snapshot stays; a scan that runs is fenced by the revision.
Invalidated(e, blocking) ==
  [entry[e] EXCEPT !.revision = @ + 1, !.expired = TRUE, !.backoff = FALSE,
                   !.requireValidation = @ \/ blocking]

Invalidate(blocking) ==
  /\ invalidations < MaxInvalidations /\ invalidations' = invalidations + 1
  /\ current # 0
  /\ entry' = [entry EXCEPT ![current] = Invalidated(current, blocking)]
  /\ fence' = disk
  /\ UNCHANGED <<disk, current, created, scan, reader, failures>>

\* The workspace is removed.
Forget ==
  /\ current # 0
  /\ current' = 0
  /\ UNCHANGED <<disk, created, entry, scan, reader, fence, bounds>>

\* MAX_AGE_MS after the scan.
Expires ==
  /\ current # 0 /\ ~entry[current].expired
  /\ entry' = [entry EXCEPT ![current].expired = TRUE]
  /\ UNCHANGED <<disk, current, created, scan, reader, fence, bounds>>

\* MAX_AGE_MS after the failure.
BackoffEnds ==
  /\ current # 0 /\ entry[current].backoff
  /\ entry' = [entry EXCEPT ![current].backoff = FALSE]
  /\ UNCHANGED <<disk, current, created, scan, reader, fence, bounds>>

\* A worktree is added or removed, by CodeNomad or by anybody else (external).
ChangeDisk ==
  /\ disk < MaxDisk /\ disk' = disk + 1
  /\ UNCHANGED <<current, created, entry, scan, reader, fence, bounds>>

-----------------------------------------------------------------------------
(* Specification *)

Scan(e) ==
  \/ ScanReads(e) \/ ScanFails(e) \/ ScanIsDisposed(e)
  \/ ScanRepeats(e) \/ ScanInstalls(e)

Next ==
  \/ \E c \in Readers, mode \in Modes : Read(c, mode)
  \/ \E e \in Entries : Scan(e)
  \/ \E blocking \in BOOLEAN : Invalidate(blocking)
  \/ Forget \/ Expires \/ BackoffEnds \/ ChangeDisk

Spec == Init /\ [][Next]_vars

\* A scan ends: its processes carry deadlines.
Fairness == \A e \in Entries : WF_vars(Scan(e))

FairSpec == Spec /\ Fairness

-----------------------------------------------------------------------------
(* Properties *)

TypeOK ==
  /\ disk \in 1..MaxDisk /\ created \in 0..MaxEntries /\ current \in 0..created
  /\ entry \in [Entries -> EntryStates]
  /\ scan \in [Entries -> Scans]
  /\ reader \in [Readers -> ReaderStates]
  /\ fence \in Versions
  /\ invalidations \in 0..MaxInvalidations /\ failures \in 0..MaxFailures

\* A snapshot that passes for current was scanned after the last invalidation: a
\* scan that a mutation overtook never replaces it ("no rejected/obsolete scan can
\* replace the last good snapshot").
SnapshotIsFenced ==
  current # 0 /\ ~entry[current].expired => entry[current].value >= fence

\* A read that may not return the snapshot never returns worktrees from before the
\* last invalidation that preceded it, also when it joins a scan that was running.
StrictReadIsFenced ==
  \A c \in Readers : reader[c].stage = "done" /\ reader[c].strict
    => reader[c].value >= reader[c].fence

\* What the scan of a forgotten workspace finds is returned to nobody.
OnlyCurrentIsReturned ==
  [][\A c \in Readers :
       reader[c].stage = "waiting" /\ reader'[c].stage = "done"
         => reader[c].entry = current]_vars

\* Every read ends, however often the scan it waits for is overtaken.
ReadsEnd ==
  \A c \in Readers : reader[c].stage = "waiting" ~> reader[c].stage # "waiting"
=============================================================================
