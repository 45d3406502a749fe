------------------------- MODULE WorkspaceLifecycle -------------------------
(***************************************************************************)
(* packages/server/src/workspaces/manager.ts: WorkspaceManager.            *)
(*                                                                         *)
(* A workspace is opened by create(), which reserves a record, validates   *)
(* its directory with the shared OpenCode daemon and then publishes it; it *)
(* is closed by delete(), by cancelling the request that created it, or by *)
(* shutdown().  The daemon keeps one location per directory, which several *)
(* workspaces may share: the last one to leave evicts it.  Evictions run   *)
(* one at a time and exclude validations; every other interleaving of the  *)
(* asynchronous functions at their awaits is possible.                     *)
(*                                                                         *)
(* One element of Calls is one call of create() and the record it may      *)
(* reserve (its id is a fresh UUID).                                       *)
(***************************************************************************)
EXTENDS Naturals, Sequences, FiniteSets

CONSTANTS
  Calls,             (* create() calls, each with at most one record        *)
  Directories,       (* workspace paths; the daemon's location of each      *)
  Nesting,           (* <<root, d>>: directory d lies inside root           *)
  Requests,          (* requestIds a client may send                        *)
  NoRequest,         (* create() without a requestId                        *)
  MaxActive,         (* MAX_ACTIVE_WORKSPACE_CREATIONS                      *)
  MaxEvictFailures   (* bound: evictions the daemon may refuse              *)

ASSUME NestingAssumption == Nesting \subseteq Directories \X Directories
ASSUME RequestAssumption == NoRequest \notin Requests
ASSUME BoundAssumption ==
  MaxActive \in Nat \ {0} /\ MaxEvictFailures \in Nat

VARIABLES
  call,               (* progress of each create() call                      *)
  dir, req,           (* the call's directory and requestId                  *)
  launch,             (* progress of createResolvedWorkspace                 *)
  records,            (* this.workspaces                                     *)
  aborted,            (* state.abortController.signal.aborted                *)
  published,          (* state.published                                     *)
  stopped,            (* state.stoppedPublished                              *)
  owned,              (* state.locationOwned                                 *)
  cancelledLocation,  (* the launch's local cancelledLocation is set         *)
  claim, retained,    (* state.creationClaims, state.creationRetained        *)
  pending, cancelled, (* pendingCreationRequests, cancelledCreationRequests  *)
  active,             (* activeWorkspaceCreations                            *)
  evictions,          (* the chain of locationEvictions, its head running    *)
  evicting,           (* the head's evictLocation call is in flight          *)
  deletePromise,      (* records whose state.deletePromise is set            *)
  cleanup,            (* progress of state.cleanupSettlement                 *)
  held,               (* directories the daemon holds a location for         *)
  cutOff,             (* validations cut off that the daemon may still serve *)
  leaked,             (* history: held, but loaded for such a validation     *)
  shutdown,           (* progress of shutdown()                              *)
  deletingRoots,      (* deletingWorktreeRoots                               *)
  cancelSeen,         (* history: calls cancelled while unfinished, in time  *)
  deleteSeen,         (* history: records that a client asked to delete      *)
  evictFailures       (* history: evictions that failed                      *)

callVars    == <<call, dir, req, pending, cancelled>>
recordVars  == <<records, published, stopped>>
claimVars   == <<claim, retained>>
ownerVars   == <<owned, held, cutOff, leaked>>
queueVars   == <<evictions, evicting, evictFailures>>
deleteVars  == <<deletePromise, cleanup>>
seenVars    == <<cancelSeen, deleteSeen>>
vars == <<callVars, recordVars, claimVars, ownerVars, queueVars, deleteVars,
          seenVars, launch, aborted, cancelledLocation, active, shutdown,
          deletingRoots>>

CallStates == {"unused", "resolving", "launching", "created", "failed"}
Settled    == {"ready", "failed"}
Running    == {"setup", "waiting", "validating", "failing", "evicting",
               "unwinding"}
JobKinds   == {"launch", "cancelled", "cleanup"}
Jobs       == [ws : Calls, kind : JobKinds]

TypeOK ==
  /\ call \in [Calls -> CallStates]
  /\ dir \in [Calls -> Directories]
  /\ req \in [Calls -> Requests \cup {NoRequest}]
  /\ launch \in [Calls -> {"none"} \cup Running \cup Settled]
  /\ records \subseteq Calls /\ aborted \subseteq Calls
  /\ published \subseteq Calls /\ stopped \subseteq Calls
  /\ owned \subseteq Calls /\ cancelledLocation \subseteq Calls
  /\ claim \in [Calls -> {"none", "owner", "cancelled", "released"}]
  /\ retained \subseteq Calls
  /\ pending \subseteq Requests /\ cancelled \subseteq Requests
  /\ active \in Nat
  /\ evictions \in Seq(Jobs) /\ evicting \in BOOLEAN
  /\ deletePromise \subseteq Calls
  /\ cleanup \in [Calls -> {"none", "settling", "evicting", "done"}]
  /\ held \subseteq Directories /\ cutOff \subseteq Calls /\ leaked \subseteq Directories
  /\ shutdown \in {"running", "stopping", "stopped", "failed"}
  /\ deletingRoots \subseteq Directories
  /\ cancelSeen \subseteq Calls /\ deleteSeen \subseteq Calls
  /\ evictFailures \in Nat

Init ==
  /\ call = [c \in Calls |-> "unused"]
  /\ dir \in [Calls -> Directories]
  /\ req \in [Calls -> Requests \cup {NoRequest}]
  /\ launch = [c \in Calls |-> "none"]
  /\ records = {} /\ aborted = {} /\ published = {} /\ stopped = {}
  /\ owned = {} /\ cancelledLocation = {} /\ retained = {}
  /\ claim = [c \in Calls |-> "none"]
  /\ pending = {} /\ cancelled = {} /\ active = 0
  /\ evictions = <<>> /\ evicting = FALSE /\ evictFailures = 0
  /\ deletePromise = {} /\ cleanup = [c \in Calls |-> "none"]
  /\ held = {} /\ cutOff = {} /\ leaked = {} /\ shutdown = "running" /\ deletingRoots = {}
  /\ cancelSeen = {} /\ deleteSeen = {}

-----------------------------------------------------------------------------
(* Helpers *)

ShuttingDown == shutdown # "running"

Contains(root, d) == root = d \/ <<root, d>> \in Nesting

Overlaps(d, e) == Contains(d, e) \/ Contains(e, d)

\* Mutant: nobody asks whether the location is shared.
SharedNever(c) == FALSE

\* Another record still needs the location of c: it owns it and is not aborted.
Shared(c) ==
  \E o \in records \ {c} : o \in owned /\ o \notin aborted /\ dir[o] = dir[c]

\* removeRecord on every member of S, announcing the published ones as stopped
\* when publish says so.
RemoveRecords(S, publish) ==
  /\ records' = records \ S
  /\ stopped' = IF publish THEN stopped \cup (S \cap records \cap published)
                           ELSE stopped
  /\ UNCHANGED published

\* delete() on every member of S: abort, then start or join a cleanup.
DeleteRecords(S) ==
  /\ aborted' = aborted \cup S
  /\ deletePromise' = deletePromise \cup S
  /\ cleanup' = [c \in Calls |->
       IF c \in S \ deletePromise /\ cleanup[c] = "none" THEN "settling"
                                                        ELSE cleanup[c]]

\* Mutant: the cancellation mark stays behind.
FinishRequestKeepsMark(c) == pending' = pending \ {req[c]} /\ UNCHANGED cancelled

\* finishCreationRequest, in the finally block of create().
FinishRequest(c) ==
  /\ pending' = pending \ {req[c]}
  /\ cancelled' = cancelled \ {req[c]}

Enqueue(c, kind) == evictions' = Append(evictions, [ws |-> c, kind |-> kind])

-----------------------------------------------------------------------------
(* create() *)

InUse(r) ==
  \/ r \in pending
  \/ \E c \in records : req[c] = r /\ claim[c] # "none"

\* beginCreationRequest throws outside the try, so nothing is finished.
RejectDuplicate(c) ==
  /\ call[c] = "unused"
  /\ req[c] # NoRequest /\ InUse(req[c])
  /\ call' = [call EXCEPT ![c] = "failed"]
  /\ UNCHANGED <<dir, req, pending, cancelled, recordVars, claimVars,
                 ownerVars, queueVars, deleteVars, launch, aborted,
                 cancelledLocation, active, shutdown, deletingRoots, seenVars>>

BeginCreate(c) ==
  /\ call[c] = "unused"
  /\ req[c] = NoRequest \/ ~InUse(req[c])
  /\ call' = [call EXCEPT ![c] = "resolving"]
  /\ pending' = pending \cup ({req[c]} \ {NoRequest})
  /\ UNCHANGED <<dir, req, cancelled, recordVars, claimVars, ownerVars,
                 queueVars, deleteVars, launch, aborted, cancelledLocation,
                 active, shutdown, deletingRoots, seenVars>>

\* Mutants: a check forgotten, or off by one.
MayReserveDeleting(c) ==
  req[c] \notin cancelled /\ ~ShuttingDown /\ active < MaxActive

MayReserveOneMore(c) ==
  /\ \A root \in deletingRoots : ~Contains(root, dir[c])
  /\ req[c] \notin cancelled /\ ~ShuttingDown /\ active <= MaxActive

MayReserve(c) ==
  /\ \A root \in deletingRoots : ~Contains(root, dir[c])
  /\ req[c] \notin cancelled
  /\ ~ShuttingDown
  /\ active < MaxActive

\* The path is resolved: reserve the record and start its launch.
Reserve(c) ==
  /\ call[c] = "resolving"
  /\ MayReserve(c)
  /\ call' = [call EXCEPT ![c] = "launching"]
  /\ launch' = [launch EXCEPT ![c] = "setup"]
  /\ records' = records \cup {c}
  /\ active' = active + 1
  /\ claim' = [claim EXCEPT ![c] = IF req[c] = NoRequest THEN "none" ELSE "owner"]
  /\ retained' = IF req[c] = NoRequest THEN retained \cup {c} ELSE retained
  /\ UNCHANGED <<dir, req, pending, cancelled, published, stopped, ownerVars,
                 queueVars, deleteVars, aborted, cancelledLocation, shutdown,
                 deletingRoots, seenVars>>

\* A check fails, or realpath outlives the launch deadline.
RefuseCreate(c) ==
  /\ call[c] = "resolving"
  /\ call' = [call EXCEPT ![c] = "failed"]
  /\ FinishRequest(c)
  /\ UNCHANGED <<dir, req, recordVars, claimVars, ownerVars, queueVars,
                 deleteVars, launch, aborted, cancelledLocation, active,
                 shutdown, deletingRoots, seenVars>>

\* createWithDeadline's timer aborts the launch while create() still waits.
LaunchTimesOut(c) ==
  /\ call[c] = "launching" /\ launch[c] \notin Settled
  /\ c \notin aborted
  /\ aborted' = aborted \cup {c}
  /\ UNCHANGED <<callVars, recordVars, claimVars, ownerVars, queueVars,
                 deleteVars, launch, cancelledLocation, active, shutdown,
                 deletingRoots, seenVars>>

\* createWithDeadline rejects: the launch failed, or it was aborted first and
\* goes on by itself.
CreateRejects(c) ==
  /\ call[c] = "launching"
  /\ launch[c] = "failed" \/ c \in aborted
  /\ call' = [call EXCEPT ![c] = "failed"]
  /\ FinishRequest(c)
  /\ UNCHANGED <<dir, req, recordVars, claimVars, ownerVars, queueVars,
                 deleteVars, launch, aborted, cancelledLocation, active,
                 shutdown, deletingRoots, seenVars>>

-----------------------------------------------------------------------------
(* createResolvedWorkspace(): the launch, which outlives an aborted create() *)

SetupSettles(c) ==
  /\ launch[c] = "setup"
  /\ \E next \in {"waiting", "failing"} :
       /\ next = "waiting" => c \notin aborted
       /\ launch' = [launch EXCEPT ![c] = next]
  /\ UNCHANGED <<callVars, recordVars, claimVars, ownerVars, queueVars,
                 deleteVars, aborted, cancelledLocation, active, shutdown,
                 deletingRoots, seenVars>>

EnterLocationUnaborted(c) ==
  /\ launch[c] = "waiting" /\ c \notin aborted
  /\ evictions = <<>>
  /\ launch' = [launch EXCEPT ![c] = "validating"]
  /\ UNCHANGED <<callVars, recordVars, claimVars, ownerVars, queueVars,
                 deleteVars, aborted, cancelledLocation, active, shutdown,
                 deletingRoots, seenVars>>

\* withLocationCreation waits while any eviction is queued or running.
EnterLocation(c) ==
  /\ launch[c] = "waiting"
  /\ evictions = <<>>
  /\ launch' = [launch EXCEPT ![c] = IF c \in aborted THEN "failing" ELSE "validating"]
  /\ UNCHANGED <<callVars, recordVars, claimVars, ownerVars, queueVars,
                 deleteVars, aborted, cancelledLocation, active, shutdown,
                 deletingRoots, seenVars>>

\* finishCreation: a request that was cancelled meanwhile gets no workspace.
FinishCreation(c) ==
  call' = [call EXCEPT ![c] =
    IF claim[c] = "cancelled" \/ req[c] \in cancelled THEN "failed" ELSE "created"]

\* Mutant: an answer counts although the launch was aborted.
LaunchSucceedsAborted(c, located, headers) == located /\ headers

\* throwIfCancelled after the answers.
LaunchSucceeds(c, located, headers) ==
  located /\ headers /\ c \notin aborted

\* Both the location and the headers are answered, the location possibly after the launch
\* was aborted; without an answer the daemon refused the location, or its request was cut off
\* by the abort, the deadline or a fault and may be served all the same.  From publishing to
\* the return of create() there are only microtasks, so nothing comes in between.
ValidationSettles(c, located, headers) ==
  /\ launch[c] = "validating"
  /\ held' = IF located THEN held \cup {dir[c]} ELSE held
  /\ leaked' = IF located THEN leaked \ {dir[c]} ELSE leaked
  /\ cutOff' \in {cutOff} \cup IF located THEN {} ELSE {cutOff \cup {c}}
  /\ cancelledLocation' =
       IF located /\ c \in aborted THEN cancelledLocation \cup {c}
                                   ELSE cancelledLocation
  /\ owned' = IF located /\ c \notin aborted THEN owned \cup {c} ELSE owned
  /\ IF LaunchSucceeds(c, located, headers)
     THEN /\ published' = published \cup {c}
          /\ launch' = [launch EXCEPT ![c] = "ready"]
          /\ active' = active - 1
          /\ FinishCreation(c) /\ FinishRequest(c)
     ELSE /\ launch' = [launch EXCEPT ![c] = "failing"]
          /\ UNCHANGED <<published, active, call, pending, cancelled>>
  /\ UNCHANGED <<dir, req, records, stopped, claimVars, queueVars, deleteVars,
                 aborted, shutdown, deletingRoots, seenVars>>

\* The daemon serves a request that was cut off: it loads a location it does not hold.
DaemonLoads(c) ==
  /\ c \in cutOff
  /\ cutOff' = cutOff \ {c}
  /\ held' = held \cup {dir[c]}
  /\ leaked' = IF dir[c] \in held THEN leaked ELSE leaked \cup {dir[c]}
  /\ UNCHANGED <<callVars, recordVars, claimVars, owned, queueVars, deleteVars, launch,
                 aborted, cancelledLocation, active, shutdown, deletingRoots, seenVars>>

\* The catch block releases what the daemon already validated.
CatchLaunch(c) ==
  /\ launch[c] = "failing"
  /\ IF (c \in owned \/ c \in cancelledLocation) /\ ~ShuttingDown
     THEN /\ launch' = [launch EXCEPT ![c] = "evicting"]
          /\ Enqueue(c, IF c \in cancelledLocation THEN "cancelled" ELSE "launch")
     ELSE /\ launch' = [launch EXCEPT ![c] = "unwinding"]
          /\ UNCHANGED evictions
  /\ UNCHANGED <<callVars, recordVars, claimVars, ownerVars, evicting,
                 evictFailures, deleteVars, aborted, cancelledLocation, active,
                 shutdown, deletingRoots, seenVars>>

\* Mutant: an aborted launch is left to whoever aborted it.
DropsRecordUnaborted(c) == c \notin deletePromise /\ c \notin aborted

DropsRecord(c) ==
  c \notin deletePromise /\ (c \notin published \/ c \notin owned)

\* The end of the catch block: drop the record unless a delete() owns it.
FailLaunch(c) ==
  /\ launch[c] = "unwinding"
  /\ launch' = [launch EXCEPT ![c] = "failed"]
  /\ active' = active - 1
  /\ IF DropsRecord(c)
     THEN RemoveRecords({c}, c \in published)
     ELSE UNCHANGED recordVars
  /\ UNCHANGED <<callVars, claimVars, ownerVars, queueVars, deleteVars, aborted,
                 cancelledLocation, shutdown, deletingRoots, seenVars>>

-----------------------------------------------------------------------------
(* withLocationEviction(): evictRecordLocation and evictCancelledLocation *)

\* Mutant: a launch still counts while its catch block evicts, so that eviction
\* waits for itself.
ActiveLocationCreationsCatch ==
  {c \in Calls : launch[c] \in {"validating", "failing", "evicting"}}

ActiveLocationCreations == {c \in Calls : launch[c] = "validating"}

\* What the awaiting caller does when its eviction resolves or rejects.
EvictionReturns(job, ok) ==
  /\ evictions' = Tail(evictions)
  /\ IF job.kind = "cleanup"
     THEN /\ UNCHANGED launch
          /\ cleanup' = [cleanup EXCEPT ![job.ws] = IF ok THEN "done" ELSE "none"]
          /\ deletePromise' = IF ok THEN deletePromise ELSE deletePromise \ {job.ws}
          /\ IF ok THEN RemoveRecords({job.ws}, TRUE) ELSE UNCHANGED recordVars
     ELSE /\ launch' = [launch EXCEPT ![job.ws] = "unwinding"]
          /\ UNCHANGED <<recordVars, deleteVars>>

\* Mutant: the location of a cancelled launch was never owned.
MustEvictOwned(job) == ~ShuttingDown /\ job.ws \in owned /\ ~Shared(job.ws)

MustEvict(job) ==
  /\ ~ShuttingDown
  /\ job.kind = "cancelled" \/ job.ws \in owned
  /\ ~Shared(job.ws)

\* The head has waited for the validations in progress and needs no call: it
\* lost its ownership, leaves the location to another owner, or is too late.
SkipEviction ==
  /\ evictions # <<>> /\ ~evicting
  /\ ActiveLocationCreations = {}
  /\ LET job == Head(evictions) IN
       /\ ~MustEvict(job)
       /\ owned' = IF ~ShuttingDown /\ job.kind # "cancelled"
                   THEN owned \ {job.ws} ELSE owned
       /\ EvictionReturns(job, TRUE)
  /\ UNCHANGED <<callVars, claimVars, held, cutOff, leaked, evicting, evictFailures, aborted,
                 cancelledLocation, active, shutdown, deletingRoots, seenVars>>

StartEviction ==
  /\ evictions # <<>> /\ ~evicting
  /\ ActiveLocationCreations = {}
  /\ MustEvict(Head(evictions))
  /\ evicting' = TRUE
  /\ UNCHANGED <<callVars, recordVars, claimVars, ownerVars, evictions,
                 evictFailures, deleteVars, launch, aborted, cancelledLocation,
                 active, shutdown, deletingRoots, seenVars>>

EvictionSucceeds ==
  /\ evicting
  /\ LET job == Head(evictions) IN
       /\ held' = held \ {dir[job.ws]} /\ leaked' = leaked \ {dir[job.ws]}
       /\ owned' = IF job.kind = "cancelled" THEN owned
                   ELSE owned \ {c \in records : dir[c] = dir[job.ws]}
       /\ EvictionReturns(job, TRUE)
  /\ evicting' = FALSE
  /\ UNCHANGED <<callVars, claimVars, cutOff, evictFailures, aborted, cancelledLocation,
                 active, shutdown, deletingRoots, seenVars>>

\* The call is refused, or its answer is lost after the daemon evicted.
EvictionFails ==
  /\ evicting
  /\ evictFailures < MaxEvictFailures
  /\ evictFailures' = evictFailures + 1
  /\ LET job == Head(evictions) IN
       /\ held' \in {held, held \ {dir[job.ws]}} /\ leaked' = leaked \cap held'
       /\ EvictionReturns(job, FALSE)
  /\ evicting' = FALSE
  /\ UNCHANGED <<callVars, claimVars, owned, cutOff, aborted, cancelledLocation, active,
                 shutdown, deletingRoots, seenVars>>

-----------------------------------------------------------------------------
(* delete(), and the requestId protocol *)

Delete(c) ==
  /\ c \in records
  /\ DeleteRecords({c})
  /\ deleteSeen' = deleteSeen \cup {c}
  /\ UNCHANGED <<callVars, recordVars, claimVars, ownerVars, queueVars, launch,
                 cancelledLocation, active, shutdown, deletingRoots, cancelSeen>>

\* Mutant: only a successful launch settles state.settlement.
SettlementReady(c) == launch[c] = "ready"

\* state.settlement resolves either way.
Settlement(c) == launch[c] \in Settled

\* cleanupDeletedWorkspace, once the launch has settled.
CleanupEvicts(c) ==
  /\ cleanup[c] = "settling" /\ Settlement(c)
  /\ IF c \in owned
     THEN /\ cleanup' = [cleanup EXCEPT ![c] = "evicting"]
          /\ Enqueue(c, "cleanup")
          /\ UNCHANGED recordVars
     ELSE /\ cleanup' = [cleanup EXCEPT ![c] = "done"]
          /\ RemoveRecords({c}, TRUE)
          /\ UNCHANGED evictions
  /\ UNCHANGED <<callVars, claimVars, ownerVars, evicting, evictFailures,
                 deletePromise, launch, aborted, cancelledLocation, active,
                 shutdown, deletingRoots, seenVars>>

\* The deletion times out; its cleanup goes on and a retry joins it.
DeleteTimesOut(c) ==
  /\ c \in deletePromise /\ cleanup[c] \in {"settling", "evicting"}
  /\ deletePromise' = deletePromise \ {c}
  /\ UNCHANGED <<callVars, recordVars, claimVars, ownerVars, queueVars, cleanup,
                 launch, aborted, cancelledLocation, active, shutdown,
                 deletingRoots, seenVars>>

ReleaseCreationRequest(c) ==
  /\ c \in records \cap published
  /\ claim[c] = "owner"
  /\ claim' = [claim EXCEPT ![c] = "released"]
  /\ retained' = retained \cup {c}
  /\ UNCHANGED <<callVars, recordVars, ownerVars, queueVars, deleteVars, launch,
                 aborted, cancelledLocation, active, shutdown, deletingRoots,
                 seenVars>>

Claimed(r) == {c \in records : req[c] = r /\ claim[c] # "none"}

Victims(r) == {c \in Claimed(r) : claim[c] # "released"}

\* Mutant: a released or kept workspace goes with its request.
DoomedAll(r) == Claimed(r)

Doomed(r) == Victims(r) \ retained

\* Mutant: only a request that already has a record is marked.
MarkCancelledRecorded(r) ==
  cancelled' = IF Victims(r) # {} /\ r \in pending
               THEN cancelled \cup {r} ELSE cancelled

MarkCancelled(r) ==
  cancelled' = IF Victims(r) = Claimed(r) /\ r \in pending
               THEN cancelled \cup {r} ELSE cancelled

CancelCreationRequest(r) ==
  /\ claim' = [c \in Calls |-> IF c \in Victims(r) THEN "cancelled" ELSE claim[c]]
  /\ DeleteRecords(Doomed(r))
  /\ MarkCancelled(r)
  /\ cancelSeen' = cancelSeen \cup
       {c \in Calls : /\ call[c] \in {"resolving", "launching"} /\ ~ShuttingDown
                      /\ req[c] = r /\ claim[c] # "released"}
  /\ UNCHANGED <<call, dir, req, pending, recordVars, retained, ownerVars,
                 queueVars, launch, cancelledLocation, active, shutdown,
                 deletingRoots, deleteSeen>>

-----------------------------------------------------------------------------
(* shutdown(), and the reservation of a worktree for removal *)

\* Mutant: open workspaces are not aborted.
BeginShutdownUnaborted ==
  /\ shutdown \in {"running", "failed"}
  /\ shutdown' = "stopping"
  /\ UNCHANGED <<callVars, recordVars, claimVars, ownerVars, queueVars,
                 deleteVars, launch, aborted, cancelledLocation, active,
                 deletingRoots, seenVars>>

BeginShutdown ==
  /\ shutdown \in {"running", "failed"}
  /\ shutdown' = "stopping"
  /\ aborted' = aborted \cup records
  /\ UNCHANGED <<callVars, recordVars, claimVars, ownerVars, queueVars,
                 deleteVars, launch, cancelledLocation, active, deletingRoots,
                 seenVars>>

\* Every awaited settlement is in, or the timeout passed or a cleanup failed.
FinishShutdown(result) ==
  /\ shutdown = "stopping"
  /\ result = "stopped" => \A c \in records :
       launch[c] \in Settled /\ cleanup[c] \notin {"settling", "evicting"}
  /\ shutdown' = result
  /\ RemoveRecords(records, TRUE)
  /\ pending' = {} /\ cancelled' = {}
  /\ UNCHANGED <<call, dir, req, claimVars, ownerVars, queueVars, deleteVars,
                 launch, aborted, cancelledLocation, active, deletingRoots,
                 seenVars>>

ReserveWorktreeDeletion(d) ==
  /\ \A root \in deletingRoots : ~Overlaps(root, d)
  /\ \A c \in records : ~Contains(d, dir[c])
  /\ deletingRoots' = deletingRoots \cup {d}
  /\ UNCHANGED <<callVars, recordVars, claimVars, ownerVars, queueVars,
                 deleteVars, launch, aborted, cancelledLocation, active,
                 shutdown, seenVars>>

ReleaseWorktreeDeletion(d) ==
  /\ d \in deletingRoots
  /\ deletingRoots' = deletingRoots \ {d}
  /\ UNCHANGED <<callVars, recordVars, claimVars, ownerVars, queueVars,
                 deleteVars, launch, aborted, cancelledLocation, active,
                 shutdown, seenVars>>

-----------------------------------------------------------------------------
(* Specification *)

LaunchStep(c) ==
  \/ SetupSettles(c) \/ EnterLocation(c) \/ CatchLaunch(c) \/ FailLaunch(c)
  \/ \E located, headers \in BOOLEAN : ValidationSettles(c, located, headers)

EvictionStep ==
  SkipEviction \/ StartEviction \/ EvictionSucceeds \/ EvictionFails

ClientStep ==
  \/ \E c \in Calls :
       \/ BeginCreate(c) \/ RejectDuplicate(c)
       \/ Delete(c) \/ ReleaseCreationRequest(c)
  \/ \E r \in Requests : CancelCreationRequest(r)
  \/ \E d \in Directories : ReserveWorktreeDeletion(d) \/ ReleaseWorktreeDeletion(d)
  \/ BeginShutdown

Next ==
  \/ ClientStep
  \/ \E c \in Calls :
       \/ Reserve(c) \/ RefuseCreate(c) \/ LaunchTimesOut(c) \/ CreateRejects(c)
       \/ LaunchStep(c) \/ DaemonLoads(c) \/ CleanupEvicts(c) \/ DeleteTimesOut(c)
  \/ EvictionStep
  \/ \E result \in {"stopped", "failed"} : FinishShutdown(result)

Spec == Init /\ [][Next]_vars

\* Nothing obliges a client to call.  A continuation whose promise settled runs;
\* a daemon call is answered, refused or cut off, headers and validateLocation by
\* launchDeadlineAt and the signal.  EnterLocation needs strong fairness: the
\* lock is taken and freed again while a launch waits for it.
Fairness ==
  /\ \A c \in Calls :
       /\ WF_vars(Reserve(c) \/ RefuseCreate(c))
       /\ WF_vars(CreateRejects(c))
       /\ WF_vars(LaunchStep(c))
       /\ SF_vars(EnterLocation(c))
       /\ WF_vars(CleanupEvicts(c))
  /\ WF_vars(EvictionStep)
  /\ WF_vars(\E result \in {"stopped", "failed"} : FinishShutdown(result))

FairSpec == Spec /\ Fairness

-----------------------------------------------------------------------------
(* Properties *)

Live == (records \cap published) \ aborted

Unsettled == {c \in Calls : launch[c] \in Running}

\* No interleaving of evictions, failed launches and deletions releases the
\* daemon location under a workspace that is open (evictRecordLocation,
\* evictCancelledLocation and their `shared` test).
LiveWorkspaceIsHeld == \A c \in Live : c \in owned /\ dir[c] \in held

\* While an eviction is in flight no validation is, and no open workspace uses
\* the directory (withLocationCreation against withLocationEviction).
EvictionIsExclusive ==
  evicting =>
    /\ evictions # <<>>
    /\ \A c \in Calls : launch[c] # "validating"
    /\ \A c \in Live : dir[c] # dir[Head(evictions).ws]

\* Once everything is at rest the daemon holds only locations that a record
\* still owns, unless an eviction failed or the manager is shutting down; and
\* those it loaded for a validation that was cut off, of which nothing is known.
NoLocationLeak ==
  /\ Unsettled = {} /\ evictions = <<>> /\ evictFailures = 0 /\ ~ShuttingDown
  /\ \A c \in Calls : cleanup[c] \in {"none", "done"}
  => held \subseteq {dir[c] : c \in records \cap owned} \cup leaked

\* A create() that was cancelled before it returned never succeeds
\* (cancelCreationRequest against the checks of create and finishCreation).
CancelledCreateFails == \A c \in cancelSeen : call[c] # "created"

\* A ready workspace that a client keeps (it was released, or created without a
\* requestId) is closed only by delete() or shutdown(): cancelling a requestId
\* never reaches it, whichever of release and cancel comes first.
KeptSurvivesCancel ==
  \A c \in retained \cap aborted :
    launch[c] = "ready" => c \in deleteSeen \/ ShuttingDown

\* No published workspace leaves the map silently, none is announced stopped
\* while it is listed (removeRecord, publishStopped).
StoppedIffRemoved == stopped = published \ records

\* activeWorkspaceCreations counts exactly the launches that have not settled,
\* also those whose create() was rejected long ago, and never exceeds its cap.
ActiveCountsUnsettled ==
  active = Cardinality(Unsettled) /\ active <= MaxActive

\* A cancellation mark never outlives the call it was meant for, so it cannot
\* hit a later create() that reuses the requestId; and a requestId names at most
\* one unfinished call or surviving claim.
CancellationHitsItsCall ==
  /\ cancelled \subseteq pending
  /\ ~ShuttingDown => \A c, o \in Calls :
       LET uses(x) == \/ call[x] \in {"resolving", "launching"}
                      \/ x \in records /\ claim[x] # "none"
       IN  c # o /\ uses(c) /\ uses(o) => req[c] # req[o] \/ req[c] = NoRequest

\* A cancellation hits exactly the call it was meant for: not fewer, not more, not later.
CancellationIsExact == CancelledCreateFails /\ KeptSurvivesCancel /\ CancellationHitsItsCall

\* No workspace exists, not even unpublished, inside a worktree that is being
\* removed, and no two removals overlap (reserveWorktreeDeletion, create).
NoWorkspaceInDeletedWorktree ==
  \A root \in deletingRoots :
    /\ \A c \in records : ~Contains(root, dir[c])
    /\ \A other \in deletingRoots \ {root} : ~Contains(root, other)

\* A workspace is published only by a launch nobody aborted, while the manager
\* runs: nothing surfaces after a shutdown began, however late its launch ends.
PublishedOnlyWhileWanted ==
  [][\A c \in published' \ published :
       c \in records /\ c \notin aborted /\ ~ShuttingDown]_vars

\* Every launch settles, whatever is cancelled or deleted meanwhile.
LaunchesSettle ==
  \A c \in Calls : (launch[c] \in Running) ~> (launch[c] \in Settled)

\* A deleted or cancelled workspace leaves the map, and a launch that failed leaves
\* no record behind, unless an eviction failed.
DoomedAreRemoved ==
  \A c \in Calls : (c \in deletePromise \/ launch[c] = "failed")
                      ~> (c \notin records \/ evictFailures > 0)

\* The abstract view: what a subscriber of the event bus can tell.
Status(c) ==
  IF c \notin published THEN "absent"
  ELSE IF c \notin records THEN "closed"
  ELSE IF c \in aborted THEN "closing" ELSE "open"

Contract == INSTANCE WorkspaceContract WITH
  Workspaces <- Calls, status <- [c \in Calls |-> Status(c)]

ImplementsContract == Contract!Spec
=============================================================================
