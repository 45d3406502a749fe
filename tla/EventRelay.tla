----------------------------- MODULE EventRelay -----------------------------
(***************************************************************************)
(* packages/server/src/workspaces: InstanceEventBridge with its            *)
(* InstanceEventQueue, and the status memory of events/bus.ts.             *)
(*                                                                         *)
(* One subscription to the shared daemon carries the events of every       *)
(* session, terminal and worktree.  An event waits in the lane of its      *)
(* entity until the location it belongs to is known, then in one lane per  *)
(* entity and workspace until it is known whether the workspace owns that  *)
(* location; then it is published to the workspace.  Both answers are      *)
(* cached, and both may be overtaken by a move, by a change of worktrees,  *)
(* by a workspace that opens or stops and by the end of the subscription.  *)
(* Who owns a location is read from the manager's inventory of worktrees   *)
(* for events, which itself is a scan of up to ten seconds ago.            *)
(*                                                                         *)
(* What runs between two awaits is an operator on r, the router's memory.  *)
(***************************************************************************)
EXTENDS Naturals, Sequences, SequencesExt

CONSTANTS
  Instances,       (* workspaces, each opened once: their ids are fresh     *)
  Sessions,        (* sessions of the daemon                                *)
  Terminals,       (* PTYs and shells of the daemon                         *)
  Service,         (* key of events that name neither                       *)
  Locations,       (* directories sessions and terminals live in; opened    *)
                   (* ones, owned without a scan, are not among them        *)
  NoLocation,
  Router,          (* the other half of the key of a resolving lane         *)
  Home,            (* where each session and terminal is at first           *)
  Owned,           (* the locations each workspace owns at first            *)
  MaxJobs,         (* limits.jobs of the queue (2048), or of its bytes      *)
  MaxEvents,       (* bound: events of the daemon                           *)
  MaxConnections,  (* bound: subscriptions                                  *)
  MaxChanges       (* bound: changes of ownership                           *)

Entities == Sessions \cup Terminals
Keys     == Entities \cup {Service}

ASSUME EntityAssumption ==
  /\ Sessions \cap Terminals = {} /\ Service \notin Entities
  /\ Router \notin Instances /\ NoLocation \notin Locations
  /\ {"none", "asked"} \cap (Locations \cup {NoLocation}) = {}
ASSUME PlaceAssumption ==
  Home \in [Entities -> Locations] /\ Owned \in [Instances -> SUBSET Locations]
ASSUME LimitAssumption ==
  /\ MaxJobs \in Nat \ {0} /\ MaxEvents \in Nat
  /\ MaxConnections \in Nat \ {0} /\ MaxChanges \in Nat

VARIABLES
  phase,        (* progress of run()                                        *)
  generation,   (* number of the subscription                               *)
  status,       (* status of the stream                                     *)
  busStatus,    (* instanceStatuses of the bus, replayed to new clients      *)
  listed,       (* list() of the workspace manager, oldest first            *)
  epoch,        (* workspaceEpochs                                          *)
  r,            (* the router: queue and caches, see Memory                 *)
  wire,         (* events under way on the subscription                     *)
  trail,        (* daemon: where each entity has been, last is where it is  *)
  gone,         (* daemon: entities that were deleted                       *)
  owned,        (* history: locations each workspace owned, last is now     *)
  snapshot,     (* eventWorktreeInventory: which of them it scanned, or 0   *)
  floor,        (* the oldest of them a read of that inventory may return   *)
  unseen,       (* changes that the displayed inventory has yet to find     *)
  sent, changes,(* history: events sent, changes of ownership               *)
  received      (* history: events of this subscription, per workspace      *)

streamVars == <<phase, generation, status, busStatus>>
openVars   == <<listed, epoch>>
scanVars   == <<owned, floor, unseen, changes>>
ownerVars  == <<scanVars, snapshot>>
daemonVars == <<trail, gone, sent>>
vars == <<streamVars, openVars, r, wire, daemonVars, ownerVars, received>>

Places == Locations \cup {NoLocation}

Events ==
  [id : 0..MaxEvents, key : Keys, location : Places, hop : Nat,
   type : {"connected", "worktrees", "delta", "moved", "deleted"}]

(* run, bytes and deadline of a job, as the state of its closure.            *)
Jobs ==
  [event      : Events,
   recipients : Seq([id : Instances, epoch : Nat]),
   location   : Places,
   stage      : {"queued", "waiting", "answered", "yes", "no", "done"},
   fresh      : BOOLEAN]  \* ownershipRevision is that of the lookup

Lanes == Keys \X (Instances \cup {Router})

Memory ==
  [lanes     : [Lanes -> Seq(Jobs)],     \* of the queue, the head is running
   count     : 0..MaxJobs,               \* of queued and running jobs
   closed    : BOOLEAN,                  \* there is no queue, or it is closed
   late      : SUBSET [lane : Lanes, job : Jobs, generation : 1..MaxConnections],
                            \* jobs of a closed queue that await an answer
   placed    : [Entities -> Places \cup {"none", "asked"}],
                            \* sessionLocations, ptyLocations, shellLocations
   owners    : [Instances -> [Locations -> {"none", "asked", "yes", "no"}]],
                                                         \* locationOwners
   published : [Instances -> SUBSET Events],  \* instance.event, so far
   refused   : [Instances -> SUBSET Events],  \* history: of another workspace
   unplaced  : SUBSET Events]                 \* history: location unknown

Init ==
  /\ phase = "idle" /\ generation = 0 /\ status = "connecting"
  /\ busStatus = [i \in Instances |-> <<"none", 0>>]
  /\ listed = <<>> /\ epoch = [i \in Instances |-> 0]
  /\ r = [lanes     |-> [l \in Lanes |-> <<>>],
          count     |-> 0, closed |-> TRUE, late |-> {},
          placed    |-> [e \in Entities |-> "none"],
          owners    |-> [i \in Instances |-> [l \in Locations |-> "none"]],
          published |-> [i \in Instances |-> {}],
          refused   |-> [i \in Instances |-> {}],
          unplaced  |-> {}]
  /\ wire = <<>>
  /\ trail = [e \in Entities |-> <<Home[e]>>] /\ gone = {}
  /\ owned = [i \in Instances |-> <<Owned[i]>>]
  /\ snapshot = [i \in Instances |-> 0] /\ floor = [i \in Instances |-> 1]
  /\ unseen = {}
  /\ sent = 0 /\ changes = 0
  /\ received = [i \in Instances |-> {}]

Streaming == phase \in {"open", "connected"}
Listed    == ToSet(listed)

-----------------------------------------------------------------------------
(* The caches *)

\* invalidateOwners: the revision moves on.
InvalidateOwners(q) ==
  [q EXCEPT
    !.owners = [i \in Instances |-> [l \in Locations |-> "none"]],
    !.lanes  = [l \in Lanes |-> [n \in DOMAIN @[l] |->
                                   [@[l][n] EXCEPT !.fresh = FALSE]]]]

ClearLocationCaches(q) ==
  [InvalidateOwners(q) EXCEPT !.placed = [e \in Entities |-> "none"]]

-----------------------------------------------------------------------------
(* InstanceEventQueue *)

Running(job) == job.stage \in {"waiting", "answered", "yes", "no"}

\* close: what is queued is dropped; what awaits an answer goes on, too late.
Close(q) ==
  [q EXCEPT
    !.closed = TRUE, !.count = 0, !.lanes = [l \in Lanes |-> <<>>],
    !.late = @ \cup {[lane |-> l, job |-> Head(q.lanes[l]),
                      generation |-> generation] :
                     l \in {x \in Lanes : q.lanes[x] # <<>>
                                          /\ Running(Head(q.lanes[x]))}}]

\* The head of the lane has run; it leaves in a microtask of its own.
Done(q, lane) ==
  IF q.closed THEN q ELSE [q EXCEPT !.lanes[lane][1].stage = "done"]

\* Mutant: an event beyond the budget is dropped, the subscription goes on.
EnqueueOrDrop(q, lane, job) ==
  IF q.closed \/ q.count + 1 > MaxJobs THEN q
  ELSE [q EXCEPT !.count = @ + 1, !.lanes[lane] = Append(@, job)]

\* Mutant: a new job overtakes those that wait.
EnqueueInFront(q, lane, job) ==
  IF q.closed THEN q
  ELSE IF q.count + 1 > MaxJobs THEN Close(q)
  ELSE [q EXCEPT !.count = @ + 1,
                 !.lanes[lane] = IF @ = <<>> THEN <<job>>
                                 ELSE <<Head(@), job>> \o Tail(@)]

\* A job beyond the budget fails the subscription.
Enqueue(q, lane, job) ==
  IF q.closed THEN q
  ELSE IF q.count + 1 > MaxJobs THEN Close(q)
  ELSE [q EXCEPT !.count = @ + 1, !.lanes[lane] = Append(@, job)]

\* The first job of a lane runs at once.
StartsLane(before, after, lane) ==
  before.lanes[lane] = <<>> /\ after.lanes[lane] # <<>>

-----------------------------------------------------------------------------
(* deliverEvent: one job per workspace *)

Recipient(job) == job.recipients[1].id

\* Neither the workspace nor (its queue would be closed) the stream has ended.
Current(job) == epoch[Recipient(job)] = job.recipients[1].epoch

Publish(q, job) ==
  IF Recipient(job) \in Listed
  THEN [q EXCEPT !.published[Recipient(job)] = @ \cup {job.event}] ELSE q

\* resolveLocationOwner: the cached answer, settled or not, or a new lookup.
LookUpOwner(q, lane) ==
  LET job   == Head(q.lanes[lane])
      known == q.owners[Recipient(job)][job.location]
  IN  [q EXCEPT !.owners[Recipient(job)][job.location] =
                   IF known = "none" THEN "asked" ELSE known,
                !.lanes[lane][1] = [@ EXCEPT !.fresh = TRUE,
                   !.stage = IF known \in {"yes", "no"} THEN known ELSE "waiting"]]

RunDelivery(q, lane) ==
  LET job == Head(q.lanes[lane])
  IN  IF ~Current(job) THEN Done(q, lane)
      ELSE IF job.location = NoLocation THEN Done(Publish(q, job), lane)
      ELSE LookUpOwner(q, lane)

DeliverTo(q, event, to, location) ==
  LET lane  == <<event.key, to.id>>
      added == Enqueue(q, lane,
                 [event |-> event, recipients |-> <<to>>, location |-> location,
                  stage |-> "queued", fresh |-> TRUE])
  IN  IF StartsLane(q, added, lane) THEN RunDelivery(added, lane) ELSE added

\* One recipient after the other; the budget may end in between.
Deliver(q, event, recipients, location) ==
  LET after[n \in 0..Len(recipients)] ==
        IF n = 0 THEN q ELSE DeliverTo(after[n - 1], event, recipients[n], location)
  IN  after[Len(recipients)]

-----------------------------------------------------------------------------
(* publishEvent: where does the event belong? *)

\* Mutant: a session that moved keeps its cached location.
StaysPlaced(q, event) == q

\* A moved session is looked up again.
Unplaced(q, event) ==
  IF event.type = "moved" THEN [q EXCEPT !.placed[event.key] = "none"] ELSE q

\* The location of later events; a moved envelope may name the old one.
Remember(q, event, location) ==
  IF event.key = Service \/ event.type = "moved" THEN q
  ELSE [q EXCEPT !.placed[event.key] = location]

Forget(q, event) ==
  IF event.type = "deleted" THEN [q EXCEPT !.placed[event.key] = "none"] ELSE q

\* The end of publishEvent.  Events of the service and deletions of sessions that
\* cannot be placed go to everybody, others nowhere.
Route(q, lane, location) ==
  LET job == Head(q.lanes[lane])
      e   == job.event
  IN  IF location # NoLocation
      THEN Done(Forget(Deliver(Remember(q, e, location), e, job.recipients,
                               location), e), lane)
      ELSE IF e.key = Service \/ (e.key \in Sessions /\ e.type = "deleted")
      THEN Done(IF e.key = Service
                THEN Deliver(q, e, job.recipients, NoLocation)
                ELSE Forget(Deliver(q, e, job.recipients, NoLocation), e), lane)
      ELSE Done([q EXCEPT !.unplaced = @ \cup {e}], lane)

\* The event's own location, or that of its terminal or session.  A session that
\* was not found is remembered as such for a while.
RunResolution(q, lane) ==
  LET e      == Head(q.lanes[lane]).event
      moved  == Unplaced(q, e)
      cached == IF e.key = Service THEN "none" ELSE moved.placed[e.key]
  IN  IF e.location # NoLocation \/ e.key = Service
      THEN Route(moved, lane, e.location)
      ELSE IF cached \in Places THEN Route(moved, lane, cached)
      ELSE IF e.key \in Terminals THEN Route(moved, lane, NoLocation)
      ELSE [moved EXCEPT !.placed[e.key] = "asked",
                         !.lanes[lane][1].stage = "waiting"]

-----------------------------------------------------------------------------
(* The daemon and the worktrees (external) *)

Greeting ==
  [id |-> 0, type |-> "connected", key |-> Service, location |-> NoLocation,
   hop |-> 0]

Event(type, key, location) ==
  [id |-> sent + 1, type |-> type, key |-> key, location |-> location,
   hop |-> IF key = Service THEN 0 ELSE Len(trail[key])]

\* What nobody is subscribed to is lost.
Send(event) ==
  /\ sent < MaxEvents /\ sent' = sent + 1
  /\ wire' = IF Streaming THEN Append(wire, event) ELSE wire

Delta(k, location) ==
  /\ Streaming /\ k \in Entities \ gone
  /\ location \in {NoLocation, Last(trail[k])}
  /\ Send(Event("delta", k, location))
  /\ UNCHANGED <<streamVars, openVars, r, trail, gone, ownerVars, received>>

\* The event may name the old location, the new one or none.
Move(s, to, location) ==
  /\ s \in Sessions \ gone /\ to # Last(trail[s])
  /\ location \in {NoLocation, Last(trail[s]), to}
  /\ Send(Event("moved", s, location))
  /\ trail' = [trail EXCEPT ![s] = Append(@, to)]
  /\ UNCHANGED <<streamVars, openVars, r, gone, ownerVars, received>>

Delete(k, location) ==
  /\ k \in Entities \ gone
  /\ location \in {NoLocation, Last(trail[k])}
  /\ Send(Event("deleted", k, location))
  /\ gone' = gone \cup {k}
  /\ UNCHANGED <<streamVars, openVars, r, trail, ownerVars, received>>

\* A worktree is added or removed.
ChangeOwnership(i, l) ==
  /\ changes < MaxChanges /\ changes' = changes + 1
  /\ LET now == Last(owned[i])
     IN  owned' = [owned EXCEPT ![i] =
                     Append(@, IF l \in now THEN now \ {l} ELSE now \cup {l})]
  /\ unseen' = unseen \cup {i}
  /\ UNCHANGED <<streamVars, openVars, r, wire, daemonVars, snapshot, floor, received>>

\* The daemon reports it (worktree.updated),
WorktreesUpdated ==
  /\ Streaming /\ changes > 0
  /\ Send(Event("worktrees", Service, NoLocation))
  /\ UNCHANGED <<streamVars, openVars, r, trail, gone, ownerVars, received>>

\* What is scanned from now on is not older than now (invalidate).
Latest(i) == Len(owned[i])

\* or the displayed inventory finds it (changed): the workspace's inventory for events
\* has to scan again, and what is known of all owners is dropped.
WorktreesChanged(i) ==
  /\ i \in unseen /\ phase # "ended"
  /\ r' = InvalidateOwners(r)
  /\ floor' = [floor EXCEPT ![i] = Latest(i)] /\ unseen' = unseen \ {i}
  /\ UNCHANGED <<streamVars, openVars, wire, daemonVars, owned, snapshot, changes,
                 received>>

\* A validated read returns the last scan while it is young, or scans again.
Reads(i) == {n \in floor[i]..Latest(i) : n >= snapshot[i]}

\* The scan differs from the one before it (changed): everybody's owners are revised.
Differs(i, n) == snapshot[i] # 0 /\ owned[i][n] # owned[i][snapshot[i]]

\* The permission receipts read the same inventory.
InventoryRead(i) ==
  /\ phase # "ended"
  /\ \E n \in Reads(i) :
       /\ snapshot' = [snapshot EXCEPT ![i] = n]
       /\ r' = IF Differs(i, n) THEN InvalidateOwners(r) ELSE r
  /\ UNCHANGED <<streamVars, openVars, wire, daemonVars, scanVars, received>>

-----------------------------------------------------------------------------
(* InstanceEventBridge: the subscription *)

\* updateStatus tells every listed workspace.
UpdateStatus(new) ==
  /\ status' = new
  /\ busStatus' = [i \in Instances |->
                     IF i \in Listed THEN <<new, generation>> ELSE busStatus[i]]

\* The head of run()'s loop: a new subscription, new caches.
Attempt(workspaces) ==
  /\ generation' = generation + 1
  /\ phase' = "connecting" /\ status' = "connecting"
  /\ busStatus' = [i \in Instances |-> IF i \in workspaces
                     THEN <<"connecting", generation + 1>> ELSE busStatus[i]]
  /\ r' = [ClearLocationCaches(r) EXCEPT !.closed = FALSE]
  /\ received' = [i \in Instances |-> {}]

\* subscribeToSharedService; the daemon should greet first.
Subscribe ==
  /\ phase = "connecting"
  /\ phase' = "open"
  /\ wire' \in {<<>>, <<Greeting>>}
  /\ UNCHANGED <<generation, status, busStatus, openVars, r, daemonVars,
                 ownerVars, received>>

\* The catch of run(): whatever went wrong, everybody is told.
Disconnect ==
  /\ phase' = "delay"
  /\ r' = Close(r) /\ wire' = <<>>
  /\ UpdateStatus("error")
  /\ UNCHANGED <<generation, openVars, daemonVars, ownerVars, received>>

\* The daemon refuses the subscription or ends it,
StreamEnds == phase \in {"connecting", "open", "connected"} /\ Disconnect

\* Mutant: noticed when the next event arrives.
QueueFailedLater == Streaming /\ r.closed /\ wire # <<>> /\ Disconnect

\* or the queue gave up (failure, attempt.abort).
QueueFailed == Streaming /\ r.closed /\ Disconnect

Ungreeted(e) == phase = "open" /\ e.type # "connected"

\* The body of the for-await loop.
Receive ==
  /\ Streaming /\ ~r.closed /\ wire # <<>>
  /\ LET e    == Head(wire)
         q    == IF e.type = "worktrees" THEN InvalidateOwners(r) ELSE r
         lane == <<e.key, Router>>
         tos  == [n \in DOMAIN listed |->
                    [id |-> listed[n], epoch |-> epoch[listed[n]]]]
         added == Enqueue(q, lane,
                    [event |-> e, recipients |-> tos, location |-> NoLocation,
                     stage |-> "queued", fresh |-> TRUE])
     IN  IF Ungreeted(e) THEN Disconnect
         ELSE /\ phase' = "connected"
              /\ IF phase = "open" THEN UpdateStatus("connected")
                                   ELSE UNCHANGED <<status, busStatus>>
              /\ wire' = Tail(wire)
              /\ floor' = IF e.type = "worktrees"
                          THEN [i \in Instances |-> Latest(i)] ELSE floor
              /\ r' = IF StartsLane(q, added, lane) THEN RunResolution(added, lane)
                      ELSE added
              /\ received' = [i \in Instances |-> IF i \in Listed
                                THEN received[i] \cup {e} ELSE received[i]]
              /\ UNCHANGED <<generation, openVars, daemonVars, owned, unseen,
                             changes, snapshot>>

\* A second later.
Reconnect ==
  /\ phase = "delay" /\ generation < MaxConnections
  /\ Attempt(Listed)
  /\ UNCHANGED <<openVars, wire, daemonVars, ownerVars>>

\* workspace.started.
OpenWorkspace(i) ==
  /\ epoch[i] = 0 /\ phase # "ended"
  /\ listed' = Append(listed, i)
  /\ epoch' = [epoch EXCEPT ![i] = 1]
  /\ IF phase = "idle"
     THEN Attempt(Listed \cup {i})
     ELSE /\ busStatus' = [busStatus EXCEPT ![i] = <<status, generation>>]
          /\ r' = ClearLocationCaches(r)
          /\ UNCHANGED <<phase, generation, status, received>>
  /\ UNCHANGED <<wire, daemonVars, ownerVars>>

\* workspace.stopped: the bus forgets the terminal status, the manager the inventory.
StopWorkspace(i) ==
  /\ phase # "ended"
  /\ \E n \in DOMAIN listed : listed[n] = i /\ listed' = RemoveAt(listed, n)
  /\ epoch' = [epoch EXCEPT ![i] = 2]
  /\ busStatus' = [busStatus EXCEPT ![i] = <<"none", 0>>]
  /\ r' = ClearLocationCaches(r) /\ snapshot' = [snapshot EXCEPT ![i] = 0]
  /\ UNCHANGED <<phase, generation, status, wire, daemonVars, scanVars, received>>

Shutdown ==
  /\ phase # "ended"
  /\ phase' = "ended" /\ wire' = <<>>
  /\ r' = Close(r)
  /\ busStatus' = [i \in Instances |-> IF i \in Listed
                     THEN <<"disconnected", generation>> ELSE busStatus[i]]
  /\ UNCHANGED <<generation, status, openVars, daemonVars, ownerVars, received>>

-----------------------------------------------------------------------------
(* Routing goes on *)

Idle == UNCHANGED <<streamVars, openVars, wire, daemonVars, ownerVars, received>>

Waits(lane, stages) ==
  r.lanes[lane] # <<>> /\ Head(r.lanes[lane]).stage \in stages

\* Mutant: the next job does not start by itself.
AdvanceOnly(q, lane) == q

\* The next job of the lane starts.
Advance(q, lane) ==
  IF q.lanes[lane] = <<>> THEN q
  ELSE IF lane[2] = Router THEN RunResolution(q, lane) ELSE RunDelivery(q, lane)

\* drain: the job has run.
NextJob(lane) ==
  /\ Waits(lane, {"done"})
  /\ r' = Advance([r EXCEPT !.count = @ - 1, !.lanes[lane] = Tail(@)], lane)
  /\ Idle

\* The oldest job has waited for a minute.
QueueTimesOut ==
  /\ r.count > 0
  /\ r' = Close(r)
  /\ Idle

\* session.get answers, does not find the session, or fails twice.
SessionAnswers(s) ==
  LET lane == <<s, Router>>
  IN  /\ Waits(lane, {"waiting"})
      /\ \E place \in {NoLocation} \cup (IF s \in gone THEN {} ELSE {Last(trail[s])}) :
           r' = [r EXCEPT !.lanes[lane][1] =
                   [@ EXCEPT !.stage = "answered", !.location = place]]
      /\ Idle

SessionResolved(s) ==
  LET lane  == <<s, Router>>
      place == Head(r.lanes[lane]).location
  IN  /\ Waits(lane, {"answered"})
      /\ r' = Route([r EXCEPT !.lanes[lane][1].stage = "queued",
                              !.placed[s] = IF @ = "asked" THEN place ELSE @],
                    lane, place)
      /\ Idle

\* Everybody who waits for this lookup hears of it.
Answer(q, i, l, answer) ==
  [q EXCEPT
    !.owners[i][l] = answer,
    !.lanes = [x \in Lanes |->
      IF /\ x[2] = i /\ Waits(x, {"waiting"})
         /\ Head(@[x]).fresh /\ Head(@[x]).location = l
      THEN [@[x] EXCEPT ![1].stage = answer] ELSE @[x]]]

\* The workspace manager fails twice and denies, or answers by its inventory.
OwnerAnswers(i, l) ==
  /\ r.owners[i][l] = "asked"
  /\ \/ r' = Answer(r, i, l, "no") /\ UNCHANGED snapshot
     \/ \E n \in Reads(i) :
          /\ snapshot' = [snapshot EXCEPT ![i] = n]
          /\ r' = IF Differs(i, n) THEN InvalidateOwners(r)
                  ELSE Answer(r, i, l, IF l \in owned[i][n] THEN "yes" ELSE "no")
  /\ UNCHANGED <<streamVars, openVars, wire, daemonVars, scanVars, received>>

\* Mutant: the answer is used although ownership was revised meanwhile.
FreshAnyway(job) == job.stage # "waiting"

Fresh(job) == job.fresh

OwnerResolved(lane) ==
  LET job == Head(r.lanes[lane])
  IN  /\ lane[2] # Router
      /\ Waits(lane, {"yes", "no"}) \/ (Waits(lane, {"waiting"}) /\ ~job.fresh)
      /\ r' = IF ~Current(job) THEN Done(r, lane)
              ELSE IF ~Fresh(job) THEN LookUpOwner(r, lane)
              ELSE IF job.stage = "yes" THEN Done(Publish(r, job), lane)
              ELSE Done([r EXCEPT !.refused[lane[2]] = @ \cup {job.event}], lane)
      /\ Idle

\* Mutant: nobody asks whether the subscription is still the same.
LateAnyway(x) == TRUE

LateCurrent(x) == x.generation = generation /\ ~r.closed

\* The answer a job of a closed queue waited for.
LateResumes(x) ==
  /\ x \in r.late
  /\ LET q == [r EXCEPT !.late = @ \ {x}]
     IN  r' = IF ~LateCurrent(x) THEN q
              ELSE IF x.job.stage = "yes" THEN Publish(q, x.job)
              ELSE IF x.job.stage = "answered" /\ x.job.location # NoLocation
              THEN Remember(q, x.job.event, x.job.location) ELSE q
  /\ Idle

\* The caches hold an answer for two seconds.
SessionExpires(s) ==
  /\ r.placed[s] \in Places
  /\ r' = [r EXCEPT !.placed[s] = "none"]
  /\ Idle

OwnerExpires(i, l) ==
  /\ r.owners[i][l] \in {"yes", "no"}
  /\ r' = [r EXCEPT !.owners[i][l] = "none"]
  /\ Idle

-----------------------------------------------------------------------------
(* Specification *)

External ==
  \/ \E k \in Entities, l \in Places : Delta(k, l) \/ Delete(k, l)
  \/ \E s \in Sessions, to \in Locations, l \in Places : Move(s, to, l)
  \/ \E i \in Instances, l \in Locations : ChangeOwnership(i, l)
  \/ WorktreesUpdated
  \/ \E i \in Instances : WorktreesChanged(i) \/ InventoryRead(i)
  \/ Subscribe \/ StreamEnds \/ Shutdown
  \/ \E i \in Instances : OpenWorkspace(i) \/ StopWorkspace(i)

Expiry ==
  \/ \E s \in Sessions : SessionExpires(s)
  \/ \E i \in Instances, l \in Locations : OwnerExpires(i, l)

Relay ==
  \/ QueueFailed \/ Receive \/ Reconnect
  \/ \E lane \in Lanes : NextJob(lane) \/ OwnerResolved(lane)
  \/ \E s \in Sessions : SessionAnswers(s) \/ SessionResolved(s)
  \/ \E i \in Instances, l \in Locations : OwnerAnswers(i, l)
  \/ \E x \in r.late : LateResumes(x)

Next == External \/ Expiry \/ Relay \/ QueueTimesOut

Spec == Init /\ [][Next]_vars

\* The event loop runs what is ready, and calls to the daemon carry deadlines.
Fairness ==
  /\ WF_vars(QueueFailed)
  /\ \A lane \in Lanes : WF_vars(NextJob(lane)) /\ WF_vars(OwnerResolved(lane))
  /\ \A s \in Sessions : WF_vars(SessionAnswers(s)) /\ WF_vars(SessionResolved(s))
  /\ \A i \in Instances, l \in Locations : WF_vars(OwnerAnswers(i, l))

FairSpec == Spec /\ Fairness

-----------------------------------------------------------------------------
(* Properties *)

TypeOK ==
  /\ phase \in {"idle", "connecting", "open", "connected", "delay", "ended"}
  /\ generation \in 0..MaxConnections
  /\ status \in {"connecting", "connected", "error"}
  /\ busStatus \in [Instances ->
       {"none", "connecting", "connected", "error", "disconnected"}
         \X (0..MaxConnections)]
  /\ listed \in Seq(Instances) /\ epoch \in [Instances -> 0..2]
  /\ r \in Memory
  /\ wire \in Seq(Events)
  /\ trail \in [Entities -> Seq(Locations)] /\ gone \subseteq Entities
  /\ owned \in [Instances -> Seq(SUBSET Locations)]
  /\ snapshot \in [Instances -> Nat] /\ floor \in [Instances -> Nat]
  /\ unseen \subseteq Instances
  /\ sent \in 0..MaxEvents /\ changes \in 0..MaxChanges
  /\ received \in [Instances -> SUBSET Events]

News(i) == r'.published[i] \ r.published[i]

\* A workspace hears of an entity in the order the daemon sent it, however long
\* its location and its owner take to find (InstanceEventQueue); greetings, which
\* every subscription repeats, are of no entity.
InOrder ==
  [][\A i \in Instances : \A e \in News(i) : \A f \in r.published[i] :
       f.key = e.key /\ e.type # "connected" => f.id < e.id]_vars

\* While the subscription lasts, no event is lost on the way: it was published,
\* refused, or belongs nowhere, or it is still in the queue.  Beyond the budget the
\* subscription fails as a whole (header of InstanceEventQueue).
NothingLost ==
  Streaming /\ ~r.closed => \A i \in Listed : \A e \in received[i] :
    \/ e \in r.published[i] \cup r.refused[i] \cup r.unplaced
    \/ \E x \in {Router, i} : \E job \in ToSet(r.lanes[<<e.key, x>>]) : job.event = e

\* Only workspaces that are open hear of events, and only of those that arrived on
\* the subscription that still lasts, after they opened ("Stopped recipients and
\* work from an earlier connection never publish").
NoLateDelivery ==
  [][\A i \in Instances : News(i) # {} =>
       /\ i \in Listed /\ ~r.closed
       /\ News(i) \subseteq received'[i]]_vars

\* A session that moved is never routed by a location it had left when the event
\* was sent, whatever is cached, also across subscriptions.
RoutedWhereItIs ==
  \A s \in Sessions, i \in Instances :
    \A job \in ToSet(r.lanes[<<s, i>>]) :
      job.location # NoLocation =>
        \E n \in job.event.hop..Len(trail[s]) : trail[s][n] = job.location

\* A published event belongs to a location the workspace owned when its worktrees were last
\* scanned, and whoever was told of a change of worktrees since - by the daemon, or by the
\* displayed inventory - is not answered by a scan, or by a cached answer, from before.
OwnershipIsFresh ==
  [][\A lane \in Lanes : r.lanes[lane] # <<>> =>
       LET job  == Head(r.lanes[lane])
           i    == lane[2]
           scan == snapshot[i]
       IN  i # Router /\ job.location # NoLocation /\ job.event \in News(i)
             => /\ scan # 0 /\ scan >= floor[i]
                /\ job.location \in owned[i][scan]]_vars

\* What the bus replays to a client that connects late is the state of the stream,
\* and it replays nothing of workspaces that are not open.
StatusIsShared ==
  phase # "ended" => \A i \in Instances :
    busStatus[i] = IF i \in Listed THEN <<status, generation>> ELSE <<"none", 0>>

\* What a client hears is current: events of the subscription and of the ownership that last,
\* and the status of the stream.
DeliveryIsCurrent == NoLateDelivery /\ OwnershipIsFresh /\ []StatusIsShared

\* Once a terminal has been placed by an event, the stream knows where it is
\* ("Keep that full pair for subsequent locationless PTY/Shell/session events").
TerminalsStayPlaced ==
  \A i \in Instances : \A e \in received[i] \cap r.unplaced, f \in received[i] :
    f.key = e.key /\ f.location # NoLocation => e.id < f.id

\* A queue that gave up is noticed, and every client is told to reconcile.
FailureIsTold == Streaming /\ r.closed ~> phase \in {"delay", "ended"}

\* Every event that arrived leaves the queue.
QueueDrains == []<>(r.count = 0)

\* Whatever the lookups do, the queue is emptied, by its jobs or by a failure that is told.
QueueSettles == FailureIsTold /\ QueueDrains
=============================================================================
