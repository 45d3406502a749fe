----------------------------- MODULE ClientState -----------------------------
(***************************************************************************)
(* packages/ui/src/stores/client-state.ts: the restorable state of one     *)
(* window, in memory and in the store of the desktop application.          *)
(*                                                                         *)
(* Changes are saved after a delay, one save after another.  Clearing the  *)
(* state, or disabling its restoration, waits for the saves and keeps the  *)
(* changes of the meantime in case it fails.  A flush before the window    *)
(* goes saves what is left.  A value is the number of the change that made *)
(* it, 0 for the empty state.                                              *)
(***************************************************************************)
EXTENDS Naturals, Sequences

CONSTANTS
  MaxAttempts,     (* FLUSH_MAX_ATTEMPTS                                     *)
  MaxUpdates,      (* bound: changes                                         *)
  MaxTransitions,  (* bound: transitions that are asked for                  *)
  MaxErrors,       (* bound: calls of the store that fail                    *)
  MaxFlushes       (* bound: flushes                                         *)

VARIABLES
  mem,          (* layout and loadedRestorableSession                        *)
  dirty,        (* there is something to save                                *)
  block,        (* writeBlock                                                *)
  enabled,      (* restorePreviousStateEnabled                               *)
  primary,      (* clientStateIsPrimary                                      *)
  timer,        (* saveTimer                                                 *)
  saves,        (* writeQueue: the values of the saves, the first under way  *)
  saveError,    (* lastSaveError                                             *)
  wanted,       (* destructiveQueue: the transitions that wait               *)
  change,       (* the transition in progress                                *)
  flush,        (* the flush in progress                                     *)
  disk,         (* external: what the state file of the store has            *)
  record,       (* external: what the store has in memory                    *)
  suppressed,   (* external: the store skips saves                           *)
  owned,        (* external: the store belongs to this process               *)
  wiped,        (* history: a clear or a disable that failed had emptied the
                   file, which was not written since                         *)
  updates, transitions, errors, flushes     (* history: for the bounds       *)

store  == <<disk, record, wiped, suppressed, owned>>
bounds == <<updates, transitions, errors, flushes>>
window == <<mem, dirty, block, enabled, primary, timer, saves, saveError>>
vars   == <<window, wanted, change, flush, store, bounds>>

NoChange == [kind |-> "none", stage |-> "draining", block |-> "no", retry |-> FALSE]
NoFlush  == [stage |-> "none", attempts |-> 0, error |-> FALSE, after |-> 0, base |-> 0]

Unreadable == 1

(* initializeClientState: nothing stored, a snapshot that cannot be read, or a *)
(* restoration that is disabled.                                              *)
Init ==
  /\ \E start \in {<<"no", TRUE, 0>>, <<"snapshot", TRUE, Unreadable>>, <<"no", FALSE, 0>>} :
        block = start[1] /\ enabled = start[2] /\ disk = start[3] /\ record = start[3]
  /\ suppressed = ~enabled /\ owned = TRUE /\ wiped = FALSE
  /\ mem = 0 /\ dirty = FALSE /\ primary = TRUE /\ timer = FALSE
  /\ saves = <<>> /\ saveError = FALSE
  /\ wanted = <<>> /\ change = NoChange /\ flush = NoFlush
  /\ updates = Unreadable /\ transitions = 0 /\ errors = 0 /\ flushes = 0

-----------------------------------------------------------------------------
(* Microtasks: what waits for a promise goes on before the next event, timer or answer *)

\* Mutant: the operation does not wait for the saves under way.
DrainedNever == TRUE

Drained == saves = <<>>

\* Mutant: a flush does not wait for the saves under way.
QuietNever == TRUE

\* No save was added while the flush waited for the others.
Quiet == saves = <<>>

Again == flush.attempts < MaxAttempts

Turn ==
  /\ change = NoChange => wanted = <<>>
  /\ change.kind # "none" /\ change.stage = "draining" => ~Drained
  /\ flush.stage = "saving" => flush.after > 0
  /\ flush.stage = "waiting" => IF Again THEN ~Quiet ELSE flush.after > 0

-----------------------------------------------------------------------------
(* Saves *)

CanWrite == primary /\ enabled /\ block = "no"

\* enqueuePendingSave
Enqueue ==
  /\ timer' = FALSE
  /\ IF dirty /\ CanWrite THEN saves' = Append(saves, mem) /\ dirty' = FALSE
     ELSE UNCHANGED <<saves, dirty>>

\* updateRestorableSession, writeClientLayoutValue and readClientLayoutValue
Update ==
  /\ Turn /\ updates < MaxUpdates /\ updates' = updates + 1
  /\ block = "transaction" \/ CanWrite
  /\ mem' = updates + 1 /\ dirty' = TRUE
  /\ timer' = (block = "no" \/ timer)
  /\ UNCHANGED <<block, enabled, primary, saves, saveError, wanted, change, flush, store,
                 transitions, errors, flushes>>

SaveTimer ==
  /\ Turn /\ timer /\ Enqueue
  /\ UNCHANGED <<mem, block, enabled, primary, saveError, wanted, change, flush, store, bounds>>

\* Mutant: a save that failed is not to be repeated.
ForgetSave == UNCHANGED dirty

RetrySave == dirty' = TRUE

\* What a flush that waits for the first save, or for more of them, makes of its answer.
FlushHears(error) ==
  flush' = IF flush.after = 0 THEN flush
           ELSE [flush EXCEPT !.after = @ - 1,
                              !.error = IF flush.stage = "saving" /\ flush.after = 1
                                        THEN error ELSE @]

Saved ==
  /\ Turn /\ saves # <<>> /\ owned /\ saves' = Tail(saves)
  /\ IF suppressed THEN UNCHANGED <<disk, record, wiped>>
     ELSE disk' = Head(saves) /\ record' = Head(saves) /\ wiped' = FALSE
  /\ saveError' = FALSE /\ FlushHears(FALSE)
  /\ UNCHANGED <<mem, dirty, block, enabled, primary, timer, wanted, change, suppressed, owned,
                 bounds>>

SaveRejected ==
  /\ Turn /\ saves # <<>> /\ ~owned /\ saves' = Tail(saves)
  /\ primary' = FALSE /\ RetrySave /\ saveError' = TRUE /\ FlushHears(TRUE)
  /\ UNCHANGED <<mem, block, enabled, timer, wanted, change, store, bounds>>

\* A write that fails does so before or after it replaced the state file; the store takes it
\* back in its memory only.
MayReplace(value, emptied) ==
  \/ UNCHANGED <<disk, wiped>>
  \/ owned /\ disk' = value /\ wiped' = emptied

SaveFails ==
  /\ Turn /\ saves # <<>> /\ errors < MaxErrors /\ errors' = errors + 1 /\ saves' = Tail(saves)
  /\ IF suppressed THEN UNCHANGED <<disk, wiped>> ELSE MayReplace(Head(saves), FALSE)
  /\ RetrySave /\ saveError' = TRUE /\ FlushHears(TRUE)
  /\ UNCHANGED <<mem, block, enabled, primary, timer, wanted, change, record, suppressed, owned,
                 updates, transitions, flushes>>

\* External: another process takes the store over.
LoseOwnership ==
  /\ owned /\ owned' = FALSE
  /\ UNCHANGED <<window, wanted, change, flush, disk, record, wiped, suppressed, bounds>>

-----------------------------------------------------------------------------
(* clearRestoredClientState and setRestorePreviousStateEnabled *)

Ask(kind) ==
  /\ Turn /\ transitions < MaxTransitions /\ transitions' = transitions + 1
  /\ wanted' = Append(wanted, kind)
  /\ UNCHANGED <<window, change, flush, store, updates, errors, flushes>>

\* There is nothing to do, or the window does not own the store.
Declined(kind) ==
  \/ ~primary
  \/ kind = "enable" /\ enabled /\ block = "no"
  \/ kind = "disable" /\ ~enabled

\* Mutant: the changes that were to be saved are forgotten when a transaction starts.
RetryNothing == FALSE

RetryLater == dirty

Start ==
  /\ change = NoChange /\ wanted # <<>>
  /\ wanted' = Tail(wanted)
  /\ LET kind == Head(wanted)
     IN  IF Declined(kind) THEN UNCHANGED <<change, block, timer, dirty, enabled>>
         ELSE IF kind = "enable"
         THEN /\ change' = [NoChange EXCEPT !.kind = kind, !.stage = "calling"]
              /\ UNCHANGED <<block, timer, dirty, enabled>>
         ELSE /\ change' = [kind |-> kind, stage |-> "draining", block |-> block,
                            retry |-> RetryLater]
              /\ block' = "transaction" /\ timer' = FALSE /\ dirty' = FALSE
              /\ enabled' = (enabled /\ kind # "disable")
  /\ UNCHANGED <<mem, primary, saves, saveError, flush, store, bounds>>

Drain ==
  /\ change.stage = "draining" /\ change.kind # "none" /\ Drained
  /\ change' = [change EXCEPT !.stage = "calling", !.retry = @ \/ dirty]
  /\ dirty' = FALSE
  /\ UNCHANGED <<mem, block, enabled, primary, timer, saves, saveError, wanted, flush, store,
                 bounds>>

Succeeds ==
  /\ Turn /\ change.stage = "calling" /\ owned /\ change' = NoChange
  /\ suppressed' = (change.kind # "enable")
  /\ IF change.kind = "enable"
     THEN block' = "no" /\ enabled' = TRUE /\ UNCHANGED <<mem, record, flush>>
     ELSE /\ block' = "snapshot" /\ mem' = 0 /\ record' = 0
          /\ flush' = [flush EXCEPT !.base = 0]
          /\ UNCHANGED enabled
  /\ disk' = record' /\ wiped' = FALSE
  /\ UNCHANGED <<dirty, primary, timer, saves, saveError, wanted, owned, bounds>>

\* The rollback; the restoration is enabled again after the save was scheduled.
RollBack(isPrimary) ==
  /\ change' = NoChange /\ primary' = isPrimary
  /\ IF change.kind = "enable" THEN UNCHANGED <<block, dirty, timer, enabled>>
     ELSE /\ block' = change.block /\ dirty' = (change.retry \/ dirty)
          /\ timer' = (dirty' /\ isPrimary /\ enabled /\ change.block = "no")
          /\ enabled' = (enabled \/ change.kind = "disable")
  /\ UNCHANGED <<mem, saves, saveError, wanted, flush, record, suppressed, owned>>

Rejected ==
  /\ Turn /\ change.stage = "calling" /\ ~owned
  /\ RollBack(primary /\ change.kind # "clear")
  /\ UNCHANGED <<disk, wiped, bounds>>

\* A clear or a disable that fails may have emptied the state file; the window does not know.
Fails ==
  /\ Turn /\ change.stage = "calling" /\ errors < MaxErrors /\ errors' = errors + 1
  /\ RollBack(primary)
  /\ IF change.kind = "enable" THEN MayReplace(record, FALSE) ELSE MayReplace(0, TRUE)
  /\ UNCHANGED <<updates, transitions, flushes>>

-----------------------------------------------------------------------------
(* flushClientState *)

FlushStarts ==
  /\ Turn /\ flush = NoFlush /\ flushes < MaxFlushes /\ flushes' = flushes + 1
  /\ timer' = FALSE
  /\ flush' = [stage |-> "waiting", attempts |-> 0, error |-> saveError, after |-> 0,
               base |-> mem]
  /\ UNCHANGED <<mem, dirty, block, enabled, primary, saves, saveError, wanted, change, store,
                 updates, transitions, errors>>

FlushSaves ==
  /\ flush.stage = "waiting" /\ Again /\ Quiet /\ dirty /\ CanWrite
  /\ Enqueue
  /\ flush' = [flush EXCEPT !.stage = "saving", !.after = Len(saves) + 1]
  /\ UNCHANGED <<mem, block, enabled, primary, saveError, wanted, change, store, bounds>>

FlushRetries ==
  /\ flush.stage = "saving" /\ flush.after = 0
  /\ flush' = [flush EXCEPT !.stage = "waiting", !.attempts = @ + 1,
                            !.after = IF flush.attempts + 1 < MaxAttempts THEN 0
                                      ELSE Len(saves)]
  /\ UNCHANGED <<window, wanted, change, store, bounds>>

\* It is answered: saved(its changes) or rejected.
Answers(ok) ==
  /\ flush.stage = "waiting"
  /\ \/ Again /\ Quiet /\ ~dirty /\ ok = ~flush.error
     \/ Again /\ Quiet /\ dirty /\ ~CanWrite /\ ok = ~(saveError \/ flush.error)
     \/ ~Again /\ flush.after = 0 /\ ok = ~dirty
  /\ flush' = NoFlush
  /\ UNCHANGED <<window, wanted, change, store, bounds>>

Next ==
  \/ Update \/ SaveTimer \/ Saved \/ SaveRejected \/ SaveFails \/ LoseOwnership
  \/ \E kind \in {"clear", "enable", "disable"} : Ask(kind)
  \/ Start \/ Drain \/ Succeeds \/ Rejected \/ Fails
  \/ FlushStarts \/ FlushSaves \/ FlushRetries \/ Answers(TRUE) \/ Answers(FALSE)

Spec == Init /\ [][Next]_vars

-----------------------------------------------------------------------------
(* Properties *)

\* The store has the value or a newer one, and so has its file; but a clear or a disable that
\* failed may have emptied the file, until it is written again.
Has(value) == record >= value /\ (disk >= value \/ wiped)

\* A window that may write and has nothing left to save has its last change in the store: no
\* change is lost by a save or a transaction that failed, or by one that ran meanwhile.  It is
\* in the file too, unless a clear or a disable failed after it had replaced the file and
\* nothing was written since.  (A snapshot that cannot be read stays until there is a change.)
CleanIsSaved ==
  CanWrite /\ ~dirty /\ saves = <<>> =>
    (record = mem \/ (mem = 0 /\ record = Unreadable)) /\ (disk = record \/ wiped)

\* flushClientState: when it succeeds for a window that may write, what was changed before it
\* began is in the store, and in its file unless a clear or a disable that failed emptied that.
FlushIsDurable == [][Answers(TRUE) /\ CanWrite => Has(flush.base)]_vars

\* client-state.test.ts:118: the changes that a failed clear or disable kept are to be saved
\* without a further change.
RolledBackIsSaved ==
  [][change # NoChange /\ change' = NoChange /\ dirty' /\ CanWrite' => timer']_vars
=============================================================================
