--------------------------- MODULE YoloAutoAccept ---------------------------
(***************************************************************************)
(* packages/server/src/permissions: AutoAcceptManager with its             *)
(* AutoAcceptStore, persistence and permission replier ("Yolo").           *)
(*                                                                         *)
(* For every open workspace (an instance) the manager mirrors the tree of  *)
(* the daemon's sessions, remembers which families are enabled, and        *)
(* answers permission requests of enabled families.  It learns of sessions *)
(* from a first listing (hydration), from the event stream and from single *)
(* loads; events of one session arrive in order, those of different        *)
(* sessions in any order, and some never (the stream is volatile).         *)
(*                                                                         *)
(* The synchronous handlers are operators on m, the memory of the manager; *)
(* an action is a step between two awaits.                                 *)
(***************************************************************************)
EXTENDS Naturals, Sequences, FiniteSets

CONSTANTS
  Instances,       (* workspaces, each with a fresh id                       *)
  Sessions,        (* sessions of the daemon                                 *)
  NoSession,
  Parent,          (* parentID of each session, or NoSession                 *)
  Forks,           (* sessions with native fork metadata                     *)
  Permissions,     (* permission requests, each asked at most once           *)
  SessionOf,       (* the session that asks                                  *)
  MaxAttempts,     (* MAX_REPLY_ATTEMPTS                                     *)
  MaxToggles,      (* bound: toggles requested by clients                    *)
  MaxWriteFailures (* bound: writes of the state store that fail             *)

ASSUME TreeAssumption ==
  /\ NoSession \notin Sessions
  /\ Parent \in [Sessions -> Sessions \cup {NoSession}]
  /\ Forks \subseteq Sessions
\* A parent exists before its children.
ASSUME AncestryAssumption ==
  /\ IsFiniteSet(Sessions)
  /\ \E depth \in [Sessions -> 1..Cardinality(Sessions)] :
       \A s \in Sessions : Parent[s] # NoSession => depth[Parent[s]] < depth[s]
ASSUME PermissionAssumption == SessionOf \in [Permissions -> Sessions]
ASSUME LimitAssumption ==
  MaxAttempts \in Nat \ {0} /\ MaxToggles \in Nat /\ MaxWriteFailures \in Nat

VARIABLES
  m,              (* the manager's memory, see Memory                        *)
  phase,          (* progress of hydrateInstance                             *)
  listed,         (* sessions the listing returned                           *)
  queued,         (* queuedEvents                                            *)
  persisted,      (* sessions whose stored yoloEnabled is true               *)
  sent,           (* replies handed to the daemon, their answer outstanding  *)
  sessions,       (* daemon: existence of each session                       *)
  asked, settled, (* daemon: permission requests made, and answered          *)
  heard,          (* events relayed to each instance                         *)
  lost,           (* history: replies that failed after dispatch             *)
  toggles,        (* history: toggles requested                              *)
  writeFailures,  (* history: writes that failed                             *)
  strayed,        (* history: a load, not an event, moved an enabled root    *)
  overtaken       (* history: requests whose end was handled before them     *)

hydrationVars == <<phase, listed, queued>>
daemonVars    == <<sessions, asked, settled>>
historyVars   == <<lost, toggles, writeFailures, strayed, overtaken>>
vars == <<m, hydrationVars, persisted, sent, daemonVars, heard, historyVars>>

Events ==
  [type : {"created", "deleted"}, id : Sessions]
    \cup [type : {"asked", "replied"}, id : Permissions]

(* A mutation in the chain of an instance: a toggle of `session`, or the     *)
(* migration of persisted roots when session is NoSession.                   *)
Mutations ==
  [session : Sessions \cup {NoSession},
   stage   : {"load", "own", "write", "retire"},
   last    : Sessions \cup {NoSession},   \* persistedRootSessionId
   target  : Sessions \cup {NoSession},   \* the root being written
   seen    : SUBSET Sessions,             \* traversedRootSessionIds
   enable  : BOOLEAN,
   adds    : SUBSET Sessions, removes : SUBSET Sessions]

Memory ==
  [tree     : [Instances -> [Sessions -> {"unknown", "plain", "fork"}]],
   enabled  : [Instances -> SUBSET Sessions],
   pending  : [Instances -> SUBSET Permissions],
   loading  : [Instances -> [Sessions -> {"no", "asked", "found"}]],
                                                   \* hydrateSession calls
   chain    : [Instances -> Seq(Mutations)],       \* mutations, head running
   attempts : [Permissions -> 0..MaxAttempts],     \* replyAttempts
   inFlight : [Permissions -> 0..MaxAttempts]]     \* number of the attempt
Phases ==
  {"closed", "idle", "listing", "owning", "filled", "hydrated", "stopped"}

\* hydratedInstances: events are handled at once, also ahead of queued ones.
Ready == {"filled", "hydrated"}

Init ==
  /\ m = [tree     |-> [i \in Instances |-> [s \in Sessions |-> "unknown"]],
          enabled  |-> [i \in Instances |-> {}],
          pending  |-> [i \in Instances |-> {}],
          loading  |-> [i \in Instances |-> [s \in Sessions |-> "no"]],
          chain    |-> [i \in Instances |-> <<>>],
          attempts |-> [p \in Permissions |-> 0],
          inFlight |-> [p \in Permissions |-> 0]]
  /\ phase = [i \in Instances |-> "closed"]
  /\ listed = [i \in Instances |-> {}]
  /\ queued = [i \in Instances |-> <<>>]
  /\ persisted = {} /\ sent = {}
  /\ sessions = [s \in Sessions |-> "none"]
  /\ asked = {} /\ settled = {}
  /\ heard = [i \in Instances |-> {}]
  /\ lost = {} /\ toggles = 0 /\ writeFailures = 0
  /\ strayed = FALSE /\ overtaken = [i \in Instances |-> {}]

-----------------------------------------------------------------------------
(* AutoAcceptStore *)

KindOf(s) == IF s \in Forks THEN "fork" ELSE "plain"

Knows(mem, i, s) == mem.tree[i][s] # "unknown"

\* resolveFamilyRoot: up the known ancestors, stopping at a fork.
Climbs(tree, s) ==
  tree[s] = "plain" /\ Parent[s] \in Sessions /\ tree[Parent[s]] # "unknown"

RootIn(tree, s) ==
  LET root[x \in Sessions] == IF Climbs(tree, x) THEN root[Parent[x]] ELSE x
  IN  root[s]

FamilyRoot(mem, i, s) == RootIn(mem.tree[i], s)

IsEnabled(mem, i, s) == FamilyRoot(mem, i, s) \in mem.enabled[i]

\* migrateEnabledRoots.
Migrated(tree, roots) == {RootIn(tree, r) : r \in roots}

\* upsertSession.
Upsert(mem, i, s, kind) ==
  LET tree == [mem.tree[i] EXCEPT ![s] = kind]
  IN  [mem EXCEPT !.tree[i] = tree, !.enabled[i] = Migrated(tree, @)]

-----------------------------------------------------------------------------
(* AutoAcceptManager: the synchronous handlers *)

TryAutoAccept(mem, P) ==
  LET tried == {p \in P : mem.inFlight[p] = 0 /\ mem.attempts[p] < MaxAttempts}
  IN  [mem EXCEPT
        !.inFlight = [p \in Permissions |->
                        IF p \in tried THEN mem.attempts[p] + 1 ELSE @[p]],
        !.attempts = [p \in Permissions |->
                        IF p \in tried THEN @[p] + 1 ELSE @[p]]]

\* Mutant: only the session's own requests.
DrainPendingOwn(mem, i, s) ==
  TryAutoAccept(mem, {p \in mem.pending[i] : Knows(mem, i, s) /\ SessionOf[p] = s})

\* drainPending does not ask whether the family is enabled.
DrainPending(mem, i, s) ==
  TryAutoAccept(mem,
    {p \in mem.pending[i] :
       /\ Knows(mem, i, SessionOf[p])
       /\ FamilyRoot(mem, i, SessionOf[p]) = FamilyRoot(mem, i, s)})

\* removePending for each of P at each of I: what was pending loses its count.
RemovePending(mem, I, P) ==
  [mem EXCEPT
    !.pending = [i \in Instances |-> IF i \in I THEN @[i] \ P ELSE @[i]],
    !.attempts = [p \in Permissions |->
       IF p \in P /\ \E i \in I : p \in mem.pending[i] THEN 0 ELSE @[p]]]

Toggle(s) ==
  [session |-> s, stage |-> "load", last |-> NoSession, target |-> NoSession,
   seen |-> {}, enable |-> FALSE, adds |-> {}, removes |-> {}]

Migration(before, after) ==
  [Toggle(NoSession) EXCEPT !.adds = after \ before, !.removes = before \ after]

\* Mutant: the roots move in memory only.
MovesInMemory(mem, i, before) == mem

PersistRootMigration(mem, i, before) ==
  IF mem.enabled[i] = before THEN mem
  ELSE [mem EXCEPT !.chain[i] = Append(@, Migration(before, mem.enabled[i]))]

\* ingestSession and ingestSessionForked: "created" stands for session.created,
\* or session.forked when s is a fork.
IngestSession(mem, i, s, kind) ==
  LET grown == Upsert(mem, i, s, kind)
  IN  DrainPending(PersistRootMigration(grown, i, mem.enabled[i]), i, s)

RemoveSession(mem, i, s) ==
  RemovePending([mem EXCEPT !.tree[i][s] = "unknown"], {i},
                {p \in Permissions : SessionOf[p] = s})

\* handlePermissionRequest.
AskPermission(mem, i, p) ==
  LET s == SessionOf[p]
      noted == [mem EXCEPT !.pending[i] = @ \cup {p}]
  IN  IF ~Knows(mem, i, s) THEN [noted EXCEPT !.loading[i][s] = "asked"]
      ELSE IF IsEnabled(mem, i, s) THEN TryAutoAccept(noted, {p}) ELSE noted

HandleInstanceEvent(mem, i, e) ==
  CASE e.type = "created" -> IngestSession(mem, i, e.id, KindOf(e.id))
    [] e.type = "deleted" -> RemoveSession(mem, i, e.id)
    [] e.type = "asked"   -> AskPermission(mem, i, e.id)
    [] e.type = "replied" -> RemovePending(mem, {i}, {e.id})

-----------------------------------------------------------------------------
(* The daemon, its clients, and the event relay (external) *)

CreateSession(s) ==
  /\ sessions[s] = "none"
  /\ Parent[s] # NoSession => sessions[Parent[s]] = "live"
  /\ sessions' = [sessions EXCEPT ![s] = "live"]
  /\ UNCHANGED <<m, hydrationVars, persisted, sent, asked, settled, heard,
                 historyVars>>

DeleteSession(s) ==
  /\ sessions[s] = "live"
  /\ sessions' = [sessions EXCEPT ![s] = "deleted"]
  /\ UNCHANGED <<m, hydrationVars, persisted, sent, asked, settled, heard,
                 historyVars>>

Ask(p) ==
  /\ p \notin asked /\ sessions[SessionOf[p]] = "live"
  /\ asked' = asked \cup {p}
  /\ UNCHANGED <<m, hydrationVars, persisted, sent, sessions, settled, heard,
                 historyVars>>

\* A user answers in the UI.
UserReplies(p) ==
  /\ p \in asked \ settled
  /\ settled' = settled \cup {p}
  /\ UNCHANGED <<m, hydrationVars, persisted, sent, sessions, asked, heard,
                 historyVars>>

Happened(e) ==
  CASE e.type = "created" -> sessions[e.id] # "none"
    [] e.type = "deleted" -> sessions[e.id] = "deleted"
    [] e.type = "asked"   -> e.id \in asked
    [] e.type = "replied" -> e.id \in settled

Rank == [created |-> 1, asked |-> 2, replied |-> 3, deleted |-> 4]

LaneOf(e) == IF e.type \in {"asked", "replied"} THEN SessionOf[e.id] ELSE e.id

\* e and f travel in the lane of one session, e first.
Precedes(e, f) ==
  /\ LaneOf(e) = LaneOf(f) /\ Rank[e.type] < Rank[f.type]
  /\ {e.type, f.type} = {"asked", "replied"} => e.id = f.id

\* The requests that are queued for i while e says that they are over.
Overtakes(i, e) ==
  {p \in Permissions :
     /\ \E n \in 1..Len(queued[i]) : queued[i][n] = [type |-> "asked", id |-> p]
     /\ \/ e = [type |-> "replied", id |-> p]
        \/ e = [type |-> "deleted", id |-> SessionOf[p]]}

\* Mutant: answers are handled at once also before the hydration.
RelayOvertaking(i, e) ==
  /\ phase[i] \notin {"closed", "stopped"}
  /\ Happened(e) /\ e \notin heard[i]
  /\ ~ \E f \in heard[i] : Precedes(e, f)
  /\ heard' = [heard EXCEPT ![i] = @ \cup {e}]
  /\ IF phase[i] \in Ready \/ e.type = "replied"
     THEN m' = HandleInstanceEvent(m, i, e) /\ UNCHANGED <<phase, queued, overtaken>>
     ELSE /\ queued' = [queued EXCEPT ![i] = Append(@, e)]
          /\ phase' = [phase EXCEPT ![i] = IF @ = "idle" THEN "listing" ELSE @]
          /\ UNCHANGED <<m, overtaken>>
  /\ UNCHANGED <<listed, persisted, sent, daemonVars, lost, toggles, writeFailures,
                 strayed>>

\* The relay delivers e to instance i; before hydration it is queued.
Relay(i, e) ==
  /\ phase[i] \notin {"closed", "stopped"}
  /\ Happened(e) /\ e \notin heard[i]
  /\ ~ \E f \in heard[i] : Precedes(e, f)
  /\ heard' = [heard EXCEPT ![i] = @ \cup {e}]
  /\ IF phase[i] \in Ready
     THEN /\ m' = HandleInstanceEvent(m, i, e)
          /\ overtaken' = [overtaken EXCEPT ![i] = @ \cup Overtakes(i, e)]
          /\ UNCHANGED <<phase, queued>>
     ELSE /\ queued' = [queued EXCEPT ![i] = Append(@, e)]
          /\ phase' = [phase EXCEPT ![i] = IF @ = "idle" THEN "listing" ELSE @]
          /\ UNCHANGED <<m, overtaken>>
  /\ UNCHANGED <<listed, persisted, sent, daemonVars, lost, toggles, writeFailures,
                 strayed>>

-----------------------------------------------------------------------------
(* Hydration of an instance, and its end *)

\* workspace.started, or a client asks for the state of a session.
StartHydration(i) ==
  /\ phase[i] \in {"closed", "idle"}
  /\ phase' = [phase EXCEPT ![i] = "listing"]
  /\ UNCHANGED <<m, listed, queued, persisted, sent, daemonVars, heard,
                 historyVars>>

\* The daemon lists its sessions; their owners and stored state are still read.
HydrationLists(i) ==
  /\ phase[i] = "listing"
  /\ phase' = [phase EXCEPT ![i] = "owning"]
  /\ listed' = [listed EXCEPT ![i] = {s \in Sessions : sessions[s] = "live"}]
  /\ UNCHANGED <<m, queued, persisted, sent, daemonVars, heard, historyVars>>

\* The queued events wait for the next attempt.
HydrationFails(i) ==
  /\ phase[i] \in {"listing", "owning"}
  /\ phase' = [phase EXCEPT ![i] = "idle"]
  /\ listed' = [listed EXCEPT ![i] = {}]
  /\ UNCHANGED <<m, queued, persisted, sent, daemonVars, heard, historyVars>>

\* The memory of i as listed: enabled are the stored sessions that are roots.
Hydrated(i) ==
  LET filled == [m EXCEPT !.tree[i] = [s \in Sessions |->
                   IF s \in listed[i] THEN KindOf(s) ELSE "unknown"]]
  IN  [filled EXCEPT !.enabled[i] =
         {s \in listed[i] \cap persisted : FamilyRoot(filled, i, s) = s}]

\* The then of hydrateInstance: from here on i is in hydratedInstances.
HydrationFills(i) ==
  /\ phase[i] = "owning"
  /\ m' = Hydrated(i)
  /\ phase' = [phase EXCEPT ![i] = "filled"]
  /\ listed' = [listed EXCEPT ![i] = {}]
  /\ UNCHANGED <<queued, persisted, sent, daemonVars, heard, historyVars>>

\* The memory after the first n queued events.
Replayed(i, n) ==
  LET after[k \in 0..Len(queued[i])] ==
        IF k = 0 THEN m ELSE HandleInstanceEvent(after[k - 1], i, queued[i][k])
  IN  after[n]

\* Its finally, a microtask later: the queue is replayed in one go.
HydrationReplays(i) ==
  /\ phase[i] = "filled"
  /\ m' = Replayed(i, Len(queued[i]))
  /\ phase' = [phase EXCEPT ![i] = "hydrated"]
  /\ queued' = [queued EXCEPT ![i] = <<>>]
  /\ UNCHANGED <<listed, persisted, sent, daemonVars, heard, historyVars>>

\* workspace.stopped: clearInstance.  Its id never comes back.
ClearInstance(i) ==
  /\ phase[i] \notin {"closed", "stopped"}
  /\ phase' = [phase EXCEPT ![i] = "stopped"]
  /\ queued' = [queued EXCEPT ![i] = <<>>]
  /\ m' = [m EXCEPT !.tree[i] = [s \in Sessions |-> "unknown"],
                    !.enabled[i] = {}, !.pending[i] = {}]
  /\ UNCHANGED <<listed, persisted, sent, daemonVars, heard, historyVars>>

Awaited(i, s) == \E p \in m.pending[i] : SessionOf[p] = s

\* hydrateSession: the daemon answers with the session of a pending request,
SessionFound(i, s) ==
  /\ m.loading[i][s] = "asked" /\ sessions[s] = "live"
  /\ m' = [m EXCEPT !.loading[i][s] = "found"]
  /\ UNCHANGED <<hydrationVars, persisted, sent, daemonVars, heard, historyVars>>

\* it belongs to the workspace and is taken in,
SessionLoads(i, s) ==
  /\ m.loading[i][s] = "found"
  /\ LET done == [m EXCEPT !.loading[i][s] = "no"]
     IN  m' = IF Awaited(i, s)
              THEN DrainPending(Upsert(done, i, s, KindOf(s)), i, s) ELSE done
  /\ strayed' = (strayed \/ m'.enabled # m.enabled)
  /\ UNCHANGED <<hydrationVars, persisted, sent, daemonVars, heard, lost,
                 toggles, writeFailures, overtaken>>

\* or the load ends without it.
SessionMissing(i, s) ==
  /\ m.loading[i][s] # "no"
  /\ m' = [m EXCEPT !.loading[i][s] = "no"]
  /\ UNCHANGED <<hydrationVars, persisted, sent, daemonVars, heard, historyVars>>

-----------------------------------------------------------------------------
(* togglePersisted and persistRootMigration: the chain of mutations *)

First(i) == Head(m.chain[i])

Pop(mem, i) == [mem EXCEPT !.chain[i] = Tail(@)]

Become(mem, i, mutation) == [mem EXCEPT !.chain[i][1] = mutation]

RequestToggle(i, s) ==
  /\ phase[i] = "hydrated" /\ sessions[s] # "none"
  /\ toggles < MaxToggles /\ toggles' = toggles + 1
  /\ m' = [m EXCEPT !.chain[i] = Append(@, Toggle(s))]
  /\ UNCHANGED <<hydrationVars, persisted, sent, daemonVars, heard, lost,
                 writeFailures, strayed, overtaken>>

Toggling(i, stages) ==
  /\ m.chain[i] # <<>> /\ First(i).session # NoSession
  /\ First(i).stage \in stages

\* loadSession: the daemon answers, and the owner is looked up.
ToggleFinds(i) ==
  /\ Toggling(i, {"load"}) /\ sessions[First(i).session] = "live"
  /\ m' = Become(m, i, [First(i) EXCEPT !.stage = "own"])
  /\ UNCHANGED <<hydrationVars, persisted, sent, daemonVars, heard, historyVars>>

\* Mutant: the workspace may have stopped while the session was loaded.
GoesOnRegardless(i) == TRUE

GoesOn(i) == phase[i] # "stopped"

\* The session is taken in, and the new state of its family decided.
ToggleLoads(i) ==
  /\ Toggling(i, {"own"}) /\ GoesOn(i)
  /\ LET s     == First(i).session
         grown == Upsert(m, i, s, KindOf(s))
         root  == FamilyRoot(grown, i, s)
     IN  m' = Become(grown, i,
                [First(i) EXCEPT !.stage = "write", !.last = root,
                   !.target = root, !.seen = {root},
                   !.enable = ~IsEnabled(grown, i, root)])
  /\ strayed' = (strayed \/ m'.enabled # m.enabled)
  /\ UNCHANGED <<hydrationVars, persisted, sent, daemonVars, heard, lost,
                 toggles, writeFailures, overtaken>>

\* The session is missing or foreign, or the workspace stopped.
ToggleEnds(i) ==
  /\ Toggling(i, {"load", "own"})
  /\ m' = Pop(m, i)
  /\ UNCHANGED <<hydrationVars, persisted, sent, daemonVars, heard, historyVars>>

\* The new state is installed in memory.
FinishToggle(i, op) ==
  LET done == Pop(m, i)
  IN  IF phase[i] = "stopped" THEN done
      ELSE IF op.enable
           THEN DrainPending([done EXCEPT !.enabled[i] = @ \cup {FamilyRoot(m, i, op.last)}],
                             i, op.last)
           ELSE [done EXCEPT !.enabled[i] = @ \ {FamilyRoot(m, i, r) : r \in op.seen}]

\* Mutant: the loop forgets which root it wrote.
WrittenForgotten(op) == op

Written(op) == [op EXCEPT !.last = op.target]

\* Mutant: no loop.
FollowRootOnce(i, op) == FinishToggle(i, op)

\* The loop: as long as the root has moved, the new one is written as well.
FollowRoot(i, op) ==
  LET current == FamilyRoot(m, i, op.session)
  IN  IF current = op.last THEN FinishToggle(i, op)
      ELSE Become(m, i, [op EXCEPT !.stage = "write", !.target = current,
                                   !.seen = @ \cup {current}])

ToggleWrites(i) ==
  /\ Toggling(i, {"write", "retire"})
  /\ LET op == First(i)
     IN  IF op.stage = "retire"
         THEN /\ persisted' = persisted \ {op.last}
              /\ m' = FollowRoot(i, Written(op))
         ELSE /\ persisted' = IF op.enable THEN persisted \cup {op.target}
                                           ELSE persisted \ {op.target}
              /\ m' = IF op.target = op.last /\ phase[i] = "stopped" THEN Pop(m, i)
                      ELSE IF op.target # op.last /\ op.enable
                           THEN Become(m, i, [op EXCEPT !.stage = "retire"])
                           ELSE FollowRoot(i, Written(op))
  /\ UNCHANGED <<hydrationVars, sent, daemonVars, heard, historyVars>>

\* Roots that moved on meanwhile are left alone.
MigrationStarts(i) ==
  /\ m.chain[i] # <<>> /\ First(i).session = NoSession /\ First(i).stage = "load"
  /\ LET op == [First(i) EXCEPT !.stage = "write",
                   !.adds = @ \cap m.enabled[i], !.removes = @ \ m.enabled[i]]
     IN  m' = IF phase[i] = "stopped" \/ op.adds \cup op.removes = {}
              THEN Pop(m, i) ELSE Become(m, i, op)
  /\ UNCHANGED <<hydrationVars, persisted, sent, daemonVars, heard, historyVars>>

\* The new roots are written before the old ones are cleared.
MigrationWrites(i, r) ==
  /\ m.chain[i] # <<>> /\ First(i).session = NoSession /\ First(i).stage = "write"
  /\ LET op   == First(i)
         rest == [op EXCEPT !.adds = @ \ {r}, !.removes = @ \ {r}]
         stop == op.adds = {} /\ phase[i] = "stopped"
     IN  /\ r \in op.adds \/ (op.adds = {} /\ r \in op.removes)
         /\ persisted' = IF r \in op.adds THEN persisted \cup {r}
                         ELSE IF stop THEN persisted ELSE persisted \ {r}
         /\ m' = IF stop \/ rest.adds \cup rest.removes = {}
                 THEN Pop(m, i) ELSE Become(m, i, rest)
  /\ UNCHANGED <<hydrationVars, sent, daemonVars, heard, historyVars>>

\* The state store throws: the mutation is over, memory stays as it is.
WriteFails(i) ==
  /\ m.chain[i] # <<>> /\ First(i).stage \in {"write", "retire"}
  /\ writeFailures < MaxWriteFailures
  /\ writeFailures' = writeFailures + 1
  /\ m' = Pop(m, i)
  /\ UNCHANGED <<hydrationVars, persisted, sent, daemonVars, heard, lost, toggles,
                 strayed, overtaken>>

-----------------------------------------------------------------------------
(* tryAutoAccept and the replier: the answer to a permission request *)

\* The owner, the receipt or the connection could not be established; after the
\* last attempt the request is left to the user.
ReplyFails(p) ==
  /\ m.inFlight[p] # 0 /\ p \notin sent
  /\ LET tried == IF m.inFlight[p] >= MaxAttempts
                  THEN RemovePending(m, Instances, {p}) ELSE m
     IN  m' = [tried EXCEPT !.inFlight[p] = 0]
  /\ UNCHANGED <<hydrationVars, persisted, sent, daemonVars, heard, historyVars>>

\* The receipt was prepared from a pending request, and the reply is dispatched:
\* it reaches the daemon or is lost on the way.
ReplyDispatches(p) ==
  /\ m.inFlight[p] # 0 /\ p \notin sent
  /\ p \in asked \ settled /\ sessions[SessionOf[p]] = "live"
  /\ sent' = sent \cup {p}
  /\ settled' \in {settled, settled \cup {p}}
  /\ UNCHANGED <<m, hydrationVars, persisted, sessions, asked, heard, historyVars>>

ReplySucceeds(p) ==
  /\ p \in sent \cap settled
  /\ sent' = sent \ {p}
  /\ m' = [RemovePending(m, Instances, {p}) EXCEPT !.attempts[p] = 0,
                                                  !.inFlight[p] = 0]
  /\ UNCHANGED <<hydrationVars, persisted, daemonVars, heard, historyVars>>

\* Mutant: a lost answer is taken for a refusal, which a later trigger retries.
GiveUpRetryable(p) == m

\* No later trigger may send it again.
GiveUp(p) ==
  [RemovePending(m, Instances, {p}) EXCEPT !.attempts[p] = MaxAttempts]

\* The answer is an error, or never came: retryable is false.
ReplyLost(p) ==
  /\ p \in sent
  /\ sent' = sent \ {p}
  /\ lost' = lost \cup {p}
  /\ m' = [GiveUp(p) EXCEPT !.inFlight[p] = 0]
  /\ UNCHANGED <<hydrationVars, persisted, daemonVars, heard, toggles,
                 writeFailures, strayed, overtaken>>

-----------------------------------------------------------------------------
(* Specification *)

External ==
  \/ \E s \in Sessions : CreateSession(s) \/ DeleteSession(s)
  \/ \E p \in Permissions : Ask(p) \/ UserReplies(p)
  \/ \E i \in Instances : \/ \E e \in Events : Relay(i, e)
                          \/ \E s \in Sessions : RequestToggle(i, s)
                          \/ StartHydration(i) \/ ClearInstance(i)

Hydrate(i) ==
  \/ HydrationLists(i) \/ HydrationFails(i)
  \/ HydrationFills(i) \/ HydrationReplays(i)

Mutate(i) ==
  \/ ToggleFinds(i) \/ ToggleLoads(i) \/ ToggleEnds(i) \/ ToggleWrites(i)
  \/ MigrationStarts(i)
  \/ \E r \in Sessions : MigrationWrites(i, r)
  \/ WriteFails(i)

Reply(p) ==
  ReplyFails(p) \/ ReplyDispatches(p) \/ ReplySucceeds(p) \/ ReplyLost(p)

Next ==
  \/ External
  \/ \E i \in Instances :
       \/ Hydrate(i) \/ Mutate(i)
       \/ \E s \in Sessions :
            SessionFound(i, s) \/ SessionLoads(i, s) \/ SessionMissing(i, s)
  \/ \E p \in Permissions : Reply(p)

Spec == Init /\ [][Next]_vars

\* The loads and writes a mutation waits for settle: the client of the daemon ends them.
Fairness == \A i \in Instances : WF_vars(Mutate(i))

FairSpec == Spec /\ Fairness

-----------------------------------------------------------------------------
(* Properties *)

TypeOK ==
  /\ m \in Memory
  /\ phase \in [Instances -> Phases]
  /\ listed \in [Instances -> SUBSET Sessions]
  /\ queued \in [Instances -> Seq(Events)]
  /\ persisted \subseteq Sessions
  /\ sent \subseteq Permissions /\ lost \subseteq Permissions
  /\ sessions \in [Sessions -> {"none", "live", "deleted"}]
  /\ settled \subseteq asked /\ asked \subseteq Permissions
  /\ heard \in [Instances -> SUBSET Events]
  /\ toggles \in 0..MaxToggles /\ writeFailures \in 0..MaxWriteFailures
  /\ strayed \in BOOLEAN /\ overtaken \in [Instances -> SUBSET Permissions]

\* Only a permission of a family that is enabled when the reply starts is
\* answered automatically (header of AutoAcceptManager; drainPending does not
\* check it).
RepliesOnlyWhenEnabled ==
  [][\A p \in Permissions :
       m.inFlight[p] = 0 /\ m'.inFlight[p] # 0 /\ phase' = phase
         => \E i \in Instances : IsEnabled(m', i, SessionOf[p])]_vars

\* Another instance heard that p is answered, or its session gone: removePending
\* there forgot the attempts all instances share.
OverElsewhere(i, p) ==
  \E j \in Instances \ {i} :
    \/ [type |-> "replied", id |-> p] \in heard[j]
    \/ [type |-> "deleted", id |-> SessionOf[p]] \in heard[j]

\* Whatever order ancestry, toggles and requests arrive in: once no mutation is
\* under way, a pending request of an enabled family is being answered or was at
\* least tried (drainPending), unless a write failed, or it is over.
EnabledPendingIsTried ==
  \A i \in Instances : m.chain[i] = <<>> /\ writeFailures = 0 =>
    \A p \in m.pending[i] \ overtaken[i] :
      Knows(m, i, SessionOf[p]) /\ IsEnabled(m, i, SessionOf[p]) /\ ~OverElsewhere(i, p)
        => m.inFlight[p] # 0 \/ m.attempts[p] # 0

\* Nothing that was under way when a workspace stopped brings its state back.
StoppedStaysClear ==
  \A i \in Instances : phase[i] = "stopped" =>
    /\ \A s \in Sessions : ~Knows(m, i, s)
    /\ m.enabled[i] = {} /\ m.pending[i] = {}

\* A reply that may have reached the daemon is never dispatched again.
LostReplyNotReplayed == [][\A p \in sent' \ sent : p \notin lost]_vars

\* A request the daemon reported as answered is not pending any more, also when
\* both events waited for the hydration.  The one exception is an answer handled
\* between the then and the finally of hydrateInstance, ahead of its request.
SettledIsNotPending ==
  \A i \in Instances : phase[i] = "hydrated" =>
    \A p \in m.pending[i] \ overtaken[i] :
      [type |-> "replied", id |-> p] \notin heard[i]

\* No request is left behind by the order in which events, toggles and replies arrive: one of
\* an enabled family is answered or tried, one that was answered is not pending.
PendingIsExact == EnabledPendingIsTried /\ SettledIsNotPending

\* When a toggle ends its family is in the state it chose, in memory and in the
\* store, wherever the family root moved meanwhile.
ToggleTakesEffect ==
  [][\A i \in Instances :
       /\ m.chain[i] # <<>> /\ m'.chain[i] = Tail(m.chain[i])
       /\ Toggling(i, {"write", "retire"})
       /\ phase[i] = "hydrated" /\ writeFailures' = writeFailures
       => /\ IsEnabled(m', i, First(i).session) = First(i).enable
          /\ (FamilyRoot(m', i, First(i).session) \in persisted') = First(i).enable]_vars

\* At rest the stored roots are those in memory: reopening the workspace would
\* restore the state it has.
StoreMatchesMemory ==
  \A i \in Instances :
    phase[i] = "hydrated" /\ m.chain[i] = <<>> /\ writeFailures = 0
      => \A s \in Sessions : Knows(m, i, s) /\ FamilyRoot(m, i, s) = s
           => (s \in persisted) = (s \in m.enabled[i])

\* Roots that new sessions move in memory are moved in the store as well, whatever
\* toggles and writes they race with (persistRootMigration); deletions, after
\* which removeSession migrates nothing, are left out.
StoreFollowsEvents ==
  ~strayed /\ (\A i \in Instances : \A e \in heard[i] : e.type # "deleted")
    => StoreMatchesMemory

\* Every mutation ends, however often the root of its family moves.
MutationsSettle == \A i \in Instances : []<>(m.chain[i] = <<>>)
=============================================================================
