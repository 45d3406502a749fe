-------------------------- MODULE PermissionReceipts --------------------------
(***************************************************************************)
(* packages/server/src/permissions/receipts.ts and receipt-store.ts: what  *)
(* became of the permission requests of the daemon, and who decided.       *)
(*                                                                         *)
(* A reply reaches the store twice: as the confirmation of a client of     *)
(* this server, and as the daemon's event, in either order and once per    *)
(* workspace.  The events of a workspace form one chain, the files of a    *)
(* session one queue of tasks.  A session that is deleted leaves a         *)
(* tombstone that fences what is still on its way.                         *)
(***************************************************************************)
EXTENDS Naturals, Sequences

CONSTANTS
  Instances, Sessions, Requests,
  SessionOf,    (* the session of a request                                  *)
  Through,      (* the workspace whose client may reply to a request         *)
  MaxTroubles,  (* bound: failing writes and events, lost events, restarts   *)
  MaxLists      (* bound: lists of receipts                                  *)

VARIABLES
  native,       (* the daemon's requests: their state or decision            *)
  live,         (* the daemon's sessions                                     *)
  subscribed,   (* the daemon's events arrive                                *)
  events,       (* PermissionReceipts.events: the chain of each workspace    *)
  observers,    (* PermissionReceipts.observers                              *)
  client,       (* one reply of a client per request: how far it has come    *)
  deleting,     (* sessions that a client deleted, not confirmed yet         *)
  tasks,        (* PermissionReceiptStore.tasks: the queue of each session   *)
  deleted,      (* PermissionReceiptStore.deleted                            *)
  file,         (* the file of each request                                  *)
  list,         (* the list of receipts of each workspace in progress        *)
  view,         (* history: what a workspace last listed                     *)
  told,         (* history: workspaces told of a change since they read      *)
  confirmed,    (* history: replies whose confirmation was stored            *)
  faults,       (* history: writes that failed                               *)
  losses,       (* history: subscriptions, events and processes that ended   *)
  lists         (* history: lists of receipts                                *)

daemon  == <<native, live, subscribed>>
server  == <<events, observers, client, deleting>>
store   == <<tasks, deleted, file>>
readers == <<list, view, told>>
bounds  == <<faults, losses, lists>>
vars    == <<daemon, server, store, readers, confirmed, bounds>>

NoFile == [stage |-> "none", origin |-> "none", decision |-> "none"]
Asked  == [NoFile EXCEPT !.stage = "asked"]
Unseen == [NoFile EXCEPT !.stage = "unseen"]
Of(s)  == {r \in Requests : SessionOf[r] = s}

Nobody == "nobody"
Client == "client"
Resting == [session |-> Nobody, tasks |-> 0]

Init ==
  /\ native = [r \in Requests |-> "none"] /\ live = Sessions /\ subscribed = TRUE
  /\ events = [i \in Instances |-> <<>>] /\ observers = [s \in Sessions |-> {}]
  /\ client = [r \in Requests |-> "idle"] /\ deleting = {}
  /\ tasks = [s \in Sessions |-> <<>>] /\ deleted = {}
  /\ file = [r \in Requests |-> NoFile]
  /\ list = [i \in Instances |-> Resting]
  /\ view = [i \in Instances |-> [r \in Requests |-> Unseen]]
  /\ told = [s \in Sessions |-> {}] /\ confirmed = {}
  /\ faults = 0 /\ losses = 0 /\ lists = 0

-----------------------------------------------------------------------------
(* The daemon (external) and the subscription that relays its events *)

Event(kind, r, s) == [kind |-> kind, request |-> r, session |-> s, todo |-> {}]

Tell(event) ==
  events' = IF subscribed THEN [i \in Instances |-> Append(events[i], event)] ELSE events

Ask(r) ==
  /\ native[r] = "none" /\ SessionOf[r] \in live
  /\ native' = [native EXCEPT ![r] = "pending"]
  /\ Tell(Event("asked", r, SessionOf[r]))
  /\ UNCHANGED <<live, subscribed, observers, client, deleting, store, readers, confirmed, bounds>>

Replied(r, decision) ==
  /\ native' = [native EXCEPT ![r] = decision]
  /\ Tell(Event("replied", r, SessionOf[r]))
  /\ UNCHANGED <<live, subscribed>>

\* Another client of the daemon, or the reply to another request, decides.
NativeReply(r, decision) ==
  /\ native[r] = "pending" /\ Replied(r, decision)
  /\ UNCHANGED <<observers, client, deleting, store, readers, confirmed, bounds>>

\* A session is deleted, through this server or elsewhere.
Delete(s, here) ==
  /\ s \in live /\ live' = live \ {s}
  /\ native' = [r \in Requests |->
       IF SessionOf[r] = s /\ native[r] = "pending" THEN "gone" ELSE native[r]]
  /\ Tell(Event("deleted", Nobody, s))
  /\ deleting' = IF here THEN deleting \cup {s} ELSE deleting
  /\ UNCHANGED <<subscribed, observers, client, store, readers, confirmed, bounds>>

Loss ==
  /\ subscribed /\ subscribed' = FALSE
  /\ faults + losses < MaxTroubles /\ losses' = losses + 1
  /\ UNCHANGED <<native, live, server, store, readers, confirmed, faults, lists>>

\* onStatus: every workspace recovers the requests that are pending.
Connected ==
  /\ ~subscribed /\ subscribed' = TRUE
  /\ events' = [i \in Instances |-> Append(events[i], Event("recover", Nobody, Nobody))]
  /\ UNCHANGED <<native, live, observers, client, deleting, store, readers, confirmed, bounds>>

-----------------------------------------------------------------------------
(* The store: one queue of tasks per session *)

\* A write that a workspace, a client or nobody waits for.
Task(kind, r, origin, decision, waits) ==
  [kind |-> kind, request |-> r, origin |-> origin, decision |-> decision, waits |-> waits,
   begun |-> FALSE]

Enqueue(s, task) == tasks' = [tasks EXCEPT ![s] = Append(@, task)]

\* remove: the tombstone is set at once, the files go after what is queued.
Remove(s, waits) ==
  /\ deleted' = deleted \cup {s}
  /\ Enqueue(s, Task("remove", Nobody, Nobody, Nobody, waits))

\* Mutant: the later writer wins.
KeepsNever(previous, task) == FALSE

\* A receipt of a client is final; one of an event is upgraded by the client's alone.
Keeps(previous, task) ==
  /\ previous.stage = "resolved"
  /\ task.origin = "native" \/ previous.origin # "native" \/ previous.decision # task.decision

\* Mutant: what was queued before the deletion is written after it.
FencedNever(s) == FALSE

Fenced(s) == s \in deleted

Skips(s, task) ==
  CASE task.kind = "remove"  -> FALSE
    [] task.kind = "capture" -> Fenced(s) \/ file[task.request] # NoFile
    [] task.kind = "resolve" -> Fenced(s) \/ Keeps(file[task.request], task)

\* Mutant: only the workspace that the reply belongs to is told.
TellsOne(s, task) == told[s] \cup ({task.waits} \cap Instances)

Tells(s, task) == told[s] \cup observers[s]

\* The event at the head of a chain is over, or goes on with the next request to recover.
Continues(chain, ok) ==
  IF ok /\ Head(chain).kind = "recover" /\ Head(chain).todo # {} THEN chain
  ELSE Tail(chain)

\* The task at the head of the queue ends; whoever awaits it goes on.
Ends(s, ok) ==
  LET task  == Head(tasks[s])
      saved == ok /\ task.kind = "resolve" /\ ~Fenced(s)
  IN  /\ tasks' = [tasks EXCEPT ![s] = Tail(@)]
      /\ events' = [i \in Instances |->
           IF task.waits = i THEN Continues(events[i], ok) ELSE events[i]]
      /\ client' = [r \in Requests |->
           IF task.waits # Client \/ task.request # r THEN client[r]
           ELSE IF task.kind = "resolve" THEN "done"
           ELSE IF ok THEN "ready" ELSE "failed"]
      /\ confirmed' = IF saved /\ task.waits = Client THEN confirmed \cup {task.request}
                      ELSE confirmed
      /\ told' = IF saved THEN [told EXCEPT ![s] = Tells(s, task)] ELSE told
      /\ list' = [i \in Instances |->
           IF list[i].session # s \/ list[i].tasks = 0 THEN list[i]
           ELSE IF list[i].tasks = 1 /\ ~ok THEN Resting
           ELSE [list[i] EXCEPT !.tasks = @ - 1]]
      /\ UNCHANGED <<daemon, observers, deleting, deleted, view>>

\* A task reads the file of its request.
Begin(s) ==
  /\ tasks[s] # <<>> /\ ~Head(tasks[s]).begun
  /\ IF Skips(s, Head(tasks[s])) THEN Ends(s, TRUE)
     ELSE /\ tasks' = [tasks EXCEPT ![s][1].begun = TRUE]
          /\ UNCHANGED <<daemon, server, deleted, readers, confirmed>>
  /\ UNCHANGED <<file, bounds>>

Written(task) ==
  IF task.kind = "capture" THEN Asked
  ELSE [stage |-> "resolved", origin |-> task.origin, decision |-> task.decision]

\* writeAtomic, rm
Write(s) ==
  /\ tasks[s] # <<>> /\ Head(tasks[s]).begun
  /\ LET task == Head(tasks[s])
     IN  file' = IF task.kind = "remove"
                 THEN [r \in Requests |-> IF r \in Of(s) THEN NoFile ELSE file[r]]
                 ELSE [file EXCEPT ![task.request] = Written(task)]
  /\ Ends(s, TRUE)
  /\ UNCHANGED bounds

WriteFails(s) ==
  /\ tasks[s] # <<>> /\ Head(tasks[s]).begun
  /\ faults + losses < MaxTroubles /\ faults' = faults + 1
  /\ Ends(s, FALSE)
  /\ UNCHANGED <<file, losses, lists>>

-----------------------------------------------------------------------------
(* The chain of events of a workspace *)

\* The head of the chain waits for no task of the store.
Idle(i) ==
  /\ events[i] # <<>>
  /\ \A s \in Sessions : \A k \in DOMAIN tasks[s] : tasks[s][k].waits # i

Observe(i, s) == observers' = [observers EXCEPT ![s] = @ \cup {i}]

\* onEvent
Handle(i) ==
  /\ Idle(i)
  /\ LET e == Head(events[i])
     IN  \/ /\ e.kind = "asked" /\ Observe(i, e.session)
            /\ Enqueue(e.session, Task("capture", e.request, Nobody, Nobody, i))
            /\ UNCHANGED deleted
         \/ /\ e.kind = "replied" /\ Observe(i, e.session)
            /\ Enqueue(e.session, Task("resolve", e.request, "native", native[e.request], i))
            /\ UNCHANGED deleted
         \/ /\ e.kind = "deleted" /\ observers' = [observers EXCEPT ![e.session] = {}]
            /\ Remove(e.session, i)
  /\ UNCHANGED <<daemon, events, client, deleting, file, readers, confirmed, bounds>>

\* permission.request.list: what is pending now is captured below; the recovery may fail.
Recover(i) ==
  /\ Idle(i) /\ Head(events[i]).kind = "recover" /\ Head(events[i]).todo = {}
  /\ LET pending == {r \in Requests : native[r] = "pending"}
     IN  events' = IF pending = {} THEN [events EXCEPT ![i] = Tail(@)]
                   ELSE [events EXCEPT ![i][1].todo = pending]
  /\ UNCHANGED <<daemon, observers, client, deleting, store, readers, confirmed, bounds>>

RecoverRequest(i, r) ==
  /\ Idle(i) /\ Head(events[i]).kind = "recover" /\ r \in Head(events[i]).todo
  /\ IF SessionOf[r] \in live
     THEN /\ events' = [events EXCEPT ![i][1].todo = @ \ {r}]
          /\ Enqueue(SessionOf[r], Task("capture", r, Nobody, Nobody, i))
     ELSE /\ LET e == Head(events[i])
             IN events' = [events EXCEPT ![i] = IF e.todo = {r} THEN Tail(events[i])
                            ELSE <<[e EXCEPT !.todo = @ \ {r}]>> \o Tail(events[i])]
          /\ UNCHANGED tasks
  /\ UNCHANGED <<daemon, observers, client, deleting, deleted, file, readers, confirmed, bounds>>

\* The identity of the daemon is not available, or a request to it fails.
EventFails(i) ==
  /\ Idle(i) /\ faults + losses < MaxTroubles /\ losses' = losses + 1
  /\ events' = [events EXCEPT ![i] = Tail(@)]
  /\ UNCHANGED <<daemon, observers, client, deleting, store, readers, confirmed, faults, lists>>

-----------------------------------------------------------------------------
(* Replies, deletions and lists of the clients of this server *)

\* prepare: the request is pending, and is captured before the reply is dispatched.
Prepare(r) ==
  /\ client[r] = "idle" /\ native[r] = "pending"
  /\ client' = [client EXCEPT ![r] = "preparing"]
  /\ Enqueue(SessionOf[r], Task("capture", r, Nobody, Nobody, Client))
  /\ UNCHANGED <<daemon, events, observers, deleting, deleted, file, readers, confirmed, bounds>>

Dispatch(r, decision) ==
  /\ client[r] = "ready" /\ Observe(Through[r], SessionOf[r])
  /\ IF native[r] = "pending"
     THEN Replied(r, decision) /\ client' = [client EXCEPT ![r] = "sent"]
     ELSE client' = [client EXCEPT ![r] = "failed"] /\ UNCHANGED <<daemon, events>>
  /\ UNCHANGED <<deleting, store, readers, confirmed, bounds>>

\* The response of the daemon is lost: there is no confirmation.
ResponseLost(r) ==
  /\ client[r] = "sent" /\ client' = [client EXCEPT ![r] = "failed"]
  /\ UNCHANGED <<daemon, events, observers, deleting, store, readers, confirmed, bounds>>

Confirm(r) ==
  /\ client[r] = "sent" /\ client' = [client EXCEPT ![r] = "confirming"]
  /\ Observe(Through[r], SessionOf[r])
  /\ Enqueue(SessionOf[r], Task("resolve", r, "client", native[r], Client))
  /\ UNCHANGED <<daemon, events, deleting, deleted, file, readers, confirmed, bounds>>

ConfirmDeletion(s) ==
  /\ s \in deleting /\ deleting' = deleting \ {s} /\ Remove(s, Nobody)
  /\ UNCHANGED <<daemon, events, observers, client, file, readers, confirmed, bounds>>

\* Mutant: the reader is observed once it has read.
ObservesLate(i, s) == observers' = observers

ObservesReader(i, s) == Observe(i, s)

\* list: it waits for what is queued now, and reads.
List(i, s) ==
  /\ list[i] = Resting /\ lists < MaxLists /\ lists' = lists + 1
  /\ IF s \in live
     THEN /\ ObservesReader(i, s)
          /\ list' = [list EXCEPT ![i] = [session |-> s, tasks |-> Len(tasks[s])]]
          /\ UNCHANGED store
     ELSE Remove(s, Nobody) /\ UNCHANGED <<observers, list, file>>
  /\ UNCHANGED <<daemon, events, client, deleting, view, told, confirmed, faults, losses>>

Read(i) ==
  /\ list[i] # Resting /\ list[i].tasks = 0
  /\ view' = [view EXCEPT ![i] = [r \in Requests |->
       IF r \in Of(list[i].session) THEN file[r] ELSE @[r]]]
  /\ told' = [told EXCEPT ![list[i].session] = @ \ {i}]
  /\ list' = [list EXCEPT ![i] = Resting]
  /\ UNCHANGED <<daemon, server, store, confirmed, bounds>>

\* The server restarts: the files are what is left.
Crash ==
  /\ faults + losses < MaxTroubles /\ losses' = losses + 1
  /\ subscribed' = FALSE
  /\ events' = [i \in Instances |-> <<>>] /\ observers' = [s \in Sessions |-> {}]
  /\ client' = [r \in Requests |-> IF client[r] = "idle" THEN "idle" ELSE "failed"]
  /\ deleting' = {} /\ tasks' = [s \in Sessions |-> <<>>] /\ deleted' = {}
  /\ list' = [i \in Instances |-> Resting]
  /\ view' = [i \in Instances |-> [r \in Requests |-> Unseen]]
  /\ told' = [s \in Sessions |-> {}]
  /\ UNCHANGED <<native, live, file, confirmed, faults, lists>>

Next ==
  \/ Loss \/ Connected \/ Crash
  \/ \E r \in Requests : Ask(r) \/ Prepare(r) \/ ResponseLost(r) \/ Confirm(r)
  \/ \E r \in Requests, d \in {"once", "reject"} : NativeReply(r, d) \/ Dispatch(r, d)
  \/ \E r \in Requests, i \in Instances : RecoverRequest(i, r)
  \/ \E s \in Sessions : Begin(s) \/ Write(s) \/ WriteFails(s) \/ ConfirmDeletion(s)
  \/ \E s \in Sessions, here \in BOOLEAN : Delete(s, here)
  \/ \E i \in Instances : Handle(i) \/ Recover(i) \/ EventFails(i) \/ Read(i)
  \/ \E i \in Instances, s \in Sessions : List(i, s)

Spec == Init /\ [][Next]_vars

-----------------------------------------------------------------------------
(* Properties *)

\* A reply that was confirmed to a client keeps its origin and its decision, whichever of the
\* workspaces' events come before, between or after, until its session is deleted.
ConfirmedIsKept == \A r \in confirmed : SessionOf[r] \in live =>
  file[r] = [stage |-> "resolved", origin |-> "client", decision |-> native[r]]

\* Receipts of a session whose deletion is known are gone, or about to be, whatever was
\* queued or confirmed late; files that could not be removed are tried again by a list.
DeletedStaysDeleted == \A s \in deleted :
  \/ faults > 0 \/ \A r \in Of(s) : file[r] = NoFile
  \/ \E k \in DOMAIN tasks[s] : tasks[s][k].kind = "remove"

\* The receipts of a session are what its clients decided, from their confirmation to the
\* deletion of the session.
ReceiptsAreExact == ConfirmedIsKept /\ DeletedStaysDeleted

Receipt(x) == IF x.stage = "resolved" THEN x ELSE NoFile

\* A workspace that listed the receipts of a session and was not told of a change since has
\* the current ones, however many lists and writes failed or overlapped.
ListedIsCurrent == \A i \in Instances, r \in Requests :
  LET s == SessionOf[r] IN
    s \in live /\ i \notin told[s] /\ view[i][r] # Unseen
      => Receipt(view[i][r]) = Receipt(file[r])
=============================================================================
