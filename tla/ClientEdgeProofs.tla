--------------------------- MODULE ClientEdgeProofs ---------------------------
(***************************************************************************)
(* What is kept for a client, for any workspaces, sessions, requests,      *)
(* windows, streams and bounds.  The receipts of permission requests are   *)
(* exact, and a workspace that listed them is told of their changes; a     *)
(* window loses no change of its state, and a flush that is heard of is    *)
(* durable; a stream has no gap, and is known by its key while it is open. *)
(***************************************************************************)
EXTENDS ClientEdge, SequenceTheorems, WellFoundedInduction, TLAPS

-----------------------------------------------------------------------------
(* Receipts: types *)

Decided    == {"once", "reject"}
Natives    == {"none", "pending", "gone"} \cup Decided
Progress   == {"idle", "preparing", "ready", "sent", "confirming", "done", "failed"}
AnEvent    == [kind : {"asked", "replied", "deleted", "recover"},
               request : Requests \cup {"nobody"}, session : Sessions \cup {"nobody"},
               todo : SUBSET Requests]
ATask      == [kind : {"capture", "resolve", "remove"}, request : Requests \cup {"nobody"},
               origin : {"nobody", "native", "client"}, decision : {"nobody"} \cup Decided,
               waits : Instances \cup {"nobody", "client"}, begun : BOOLEAN]
AFile      == [stage : {"none", "asked", "resolved"}, origin : {"none", "native", "client"},
               decision : {"none"} \cup Decided]

DaemonTyped ==
  /\ native \in [Requests -> Natives] /\ live \in SUBSET Sessions /\ subscribed \in BOOLEAN

ServerTyped ==
  /\ events \in [Instances -> Seq(AnEvent)] /\ observers \in [Sessions -> SUBSET Instances]
  /\ client \in [Requests -> Progress] /\ deleting \in SUBSET Sessions

StoreTyped ==
  /\ tasks \in [Sessions -> Seq(ATask)] /\ deleted \in SUBSET Sessions
  /\ file \in [Requests -> AFile]

ReadersTyped ==
  /\ list \in [Instances -> [session : Sessions \cup {"nobody"}, tasks : Nat]]
  /\ view \in [Instances -> [Requests -> AFile \cup {Receipts!Unseen}]]
  /\ told \in [Sessions -> SUBSET Instances]
  /\ confirmed \in SUBSET Requests /\ writeFaults \in Nat /\ losses \in Nat /\ lists \in Nat

ReceiptsTyped == DaemonTyped /\ ServerTyped /\ StoreTyped /\ ReadersTyped

-----------------------------------------------------------------------------
(* Receipts: the inductive invariant *)

\* What an event says is, and stays, true.
EventOK(e, decided, alive) ==
  /\ e.kind \in {"asked", "replied"} => e.request \in Requests /\ e.session = SessionOf[e.request]
  /\ e.kind = "replied" => decided[e.request] \in Decided
  /\ e.kind = "deleted" => e.session \in Sessions /\ e.session \notin alive

EventsOK == \A i \in Instances : \A n \in 1..Len(events[i]) : EventOK(events[i][n], native, live)

\* A client that has its answer, or confirms it, has the decision of the daemon.
ClientsOK == \A r \in Requests : client[r] \in {"sent", "confirming"} => native[r] \in Decided

\* A task is about its session; what it is to write is the decision of the daemon.
TaskOK(s, t, decided, alive) ==
  /\ t.kind \in {"capture", "resolve"} => t.request \in Requests /\ SessionOf[t.request] = s
  /\ t.kind = "resolve" =>
       /\ decided[t.request] \in Decided /\ t.decision = decided[t.request]
       /\ t.origin \in {"native", "client"}
       /\ t.waits = "client" => t.origin = "client"
  /\ t.kind = "remove" => s \notin alive

\* Only the task at the head of a queue may have begun.
TasksOK == \A s \in Sessions : \A n \in 1..Len(tasks[s]) :
  TaskOK(s, tasks[s][n], native, live) /\ (n > 1 => ~tasks[s][n].begun)

\* A task that has begun still finds what it has read.
BegunOK == \A s \in Sessions : tasks[s] # <<>> /\ tasks[s][1].begun =>
  /\ tasks[s][1].kind = "capture" => file[tasks[s][1].request] = Receipts!NoFile
  /\ tasks[s][1].kind = "resolve" => ~Receipts!Keeps(file[tasks[s][1].request], tasks[s][1])

\* The event at the head of a chain waits for at most one task.
WaitsOK == \A i \in Instances, s \in Sessions : \A n \in 1..Len(tasks[s]) :
  tasks[s][n].waits = i =>
    /\ events[i] # <<>>
    /\ \A z \in Sessions : \A m \in 1..Len(tasks[z]) :
         tasks[z][m].waits = i => z = s /\ m = n

\* A receipt in a file has the decision of the daemon.
FileOK == \A r \in Requests :
  \/ file[r] = Receipts!NoFile \/ file[r] = Receipts!Asked
  \/ /\ native[r] \in Decided
     /\ \E o \in {"native", "client"} :
          file[r] = [stage |-> "resolved", origin |-> o, decision |-> native[r]]

\* A tombstone is that of a session that is no more.
TombstonesOK == \A s \in live : s \notin deleted /\ s \notin deleting

\* The files of a session with a tombstone are gone, and nothing under way brings them back, or
\* else a removal is queued.
RemovedOK == \A s \in deleted :
  \/ writeFaults > 0
  \/ \E n \in 1..Len(tasks[s]) : tasks[s][n].kind = "remove"
  \/ /\ \A r \in Requests : SessionOf[r] = s => file[r] = Receipts!NoFile
     /\ tasks[s] # <<>> => ~tasks[s][1].begun

\* A workspace that lists the receipts of a session, or has listed them, is an observer.
ObservedOK == \A i \in Instances, s \in live :
  \/ i \in observers[s]
  \/ list[i].session # s /\ \A r \in Requests : SessionOf[r] = s => view[i][r] = Receipts!Unseen

ReceiptsInv ==
  /\ ReceiptsTyped /\ EventsOK /\ ClientsOK /\ TasksOK /\ BegunOK /\ WaitsOK /\ FileOK
  /\ TombstonesOK /\ RemovedOK /\ ObservedOK
  /\ Receipts!ConfirmedIsKept /\ Receipts!ListedIsCurrent

-----------------------------------------------------------------------------
(* Receipts: sequences *)

\* What joins the end of a sequence leaves the rest alone.
LEMMA AppendFacts ==
  ASSUME NEW S, NEW q \in Seq(S), NEW x \in S
  PROVE  /\ Append(q, x) \in Seq(S) /\ Len(Append(q, x)) = Len(q) + 1 /\ Len(q) \in Nat
         /\ \A n \in 1..Len(q) : Append(q, x)[n] = q[n]
         /\ Append(q, x)[Len(q) + 1] = x
         /\ Append(q, x) # <<>>
         /\ Append(q, x)[1] = IF q = <<>> THEN x ELSE q[1]
  OBVIOUS

\* What leaves the head of a sequence shifts the rest.
LEMMA TailFacts ==
  ASSUME NEW S, NEW q \in Seq(S), q # <<>>
  PROVE  /\ Tail(q) \in Seq(S) /\ Len(Tail(q)) = Len(q) - 1 /\ Len(q) \in Nat \ {0}
         /\ \A n \in 1..Len(Tail(q)) : n + 1 \in 1..Len(q) /\ n + 1 > 1 /\ Tail(q)[n] = q[n + 1]
         /\ Head(q) = q[1] /\ q[1] \in S /\ 1 \in 1..Len(q)
         /\ \A n \in 1..Len(q) : n > 1 => n - 1 \in 1..Len(Tail(q)) /\ Tail(q)[n - 1] = q[n]
  OBVIOUS

\* What replaces the head of a sequence leaves the rest alone.
LEMMA HeadFacts ==
  ASSUME NEW S, NEW q \in Seq(S), q # <<>>, NEW x \in S
  PROVE  /\ [q EXCEPT ![1] = x] \in Seq(S) /\ Len([q EXCEPT ![1] = x]) = Len(q)
         /\ [q EXCEPT ![1] = x] # <<>> /\ [q EXCEPT ![1] = x][1] = x
         /\ \A n \in 1..Len(q) : n > 1 => [q EXCEPT ![1] = x][n] = q[n]
<1>1. 1 \in 1..Len(q)
  OBVIOUS
<1>. QED  BY <1>1, ExceptSeq

-----------------------------------------------------------------------------
(* Receipts: what every step keeps *)

\* A decision is never taken back, and no session returns.
DaemonMoves ==
  /\ \A r \in Requests : native[r] \in Decided => native'[r] = native[r]
  /\ live' \subseteq live

LEMMA EventStays ==
  ASSUME ReceiptsTyped, DaemonMoves, NEW e \in AnEvent, EventOK(e, native, live)
  PROVE  EventOK(e, native', live')
  BY DEF EventOK, DaemonMoves

LEMMA TaskStays ==
  ASSUME ReceiptsTyped, DaemonMoves, NEW s \in Sessions, NEW t \in ATask, TaskOK(s, t, native, live)
  PROVE  TaskOK(s, t, native', live')
  BY DEF TaskOK, DaemonMoves

\* A chain stays, or loses its head.
LEMMA ChainsShrink ==
  ASSUME ReceiptsTyped, EventsOK, DaemonMoves, NEW P \in SUBSET Instances,
         \A i \in P : events[i] # <<>>,
         events' = [i \in Instances |-> IF i \in P THEN Tail(events[i]) ELSE events[i]]
  PROVE  events' \in [Instances -> Seq(AnEvent)] /\ EventsOK'
<1>1. \A i \in Instances : events[i] \in Seq(AnEvent)
  BY DEF ReceiptsTyped, ServerTyped
<1>2. ASSUME NEW i \in Instances
      PROVE  /\ events'[i] \in Seq(AnEvent)
             /\ \A n \in 1..Len(events'[i]) : EventOK(events'[i][n], native', live')
  <2>1. CASE i \in P
    <3>1. events'[i] = Tail(events[i])
      BY <2>1
    <3>2. \A n \in 1..Len(events[i]) : events[i][n] \in AnEvent
      BY <1>1
    <3>3. /\ Tail(events[i]) \in Seq(AnEvent)
          /\ \A n \in 1..Len(Tail(events[i])) :
               n + 1 \in 1..Len(events[i]) /\ Tail(events[i])[n] = events[i][n + 1]
      BY <1>1, <2>1, TailFacts
    <3>4. ASSUME NEW n \in 1..Len(events'[i])
          PROVE  EventOK(events'[i][n], native', live')
      <4>1. n + 1 \in 1..Len(events[i]) /\ events'[i][n] = events[i][n + 1]
        BY <3>1, <3>3
      <4>2. EventOK(events[i][n + 1], native, live) /\ events[i][n + 1] \in AnEvent
        BY <3>2, <4>1 DEF EventsOK
      <4>. QED  BY <4>1, <4>2, EventStays
    <3>. QED  BY <3>1, <3>3, <3>4
  <2>2. CASE i \notin P
    <3>1. events'[i] = events[i]
      BY <2>2
    <3>2. \A n \in 1..Len(events[i]) : events[i][n] \in AnEvent
      BY <1>1
    <3>. QED  BY <1>1, <3>1, <3>2, EventStays DEF EventsOK
  <2>. QED  BY <2>1, <2>2
<1>3. events' \in [Instances -> Seq(AnEvent)]
  BY <1>2
<1>. QED  BY <1>2, <1>3 DEF EventsOK

\* What the daemon tells is added to every chain, as far as it is true.
LEMMA ChainsGrow ==
  ASSUME ReceiptsTyped, EventsOK, DaemonMoves, NEW e \in AnEvent, EventOK(e, native', live'),
         \/ events' = [i \in Instances |-> Append(events[i], e)]
         \/ Receipts!Tell(e)
  PROVE  /\ events' \in [Instances -> Seq(AnEvent)] /\ EventsOK'
         /\ \A i \in Instances : events[i] # <<>> => events'[i] # <<>>
<1>1. \A i \in Instances : events[i] \in Seq(AnEvent)
  BY DEF ReceiptsTyped, ServerTyped
<1>2. \/ \A i \in Instances : events'[i] = Append(events[i], e)
      \/ \A i \in Instances : events'[i] = events[i]
  BY DEF Receipts!Tell
<1>3. ASSUME NEW i \in Instances
      PROVE  /\ events'[i] \in Seq(AnEvent) /\ (events[i] # <<>> => events'[i] # <<>>)
             /\ \A n \in 1..Len(events'[i]) : EventOK(events'[i][n], native', live')
  <2>1. \A n \in 1..Len(events[i]) : events[i][n] \in AnEvent
    BY <1>1
  <2>2. \A n \in 1..Len(events[i]) : EventOK(events[i][n], native', live')
    BY <2>1, EventStays DEF EventsOK
  <2>3. CASE events'[i] = events[i]
    BY <1>1, <2>2, <2>3
  <2>4. CASE events'[i] = Append(events[i], e)
    <3>1. /\ Len(events'[i]) = Len(events[i]) + 1 /\ events'[i] \in Seq(AnEvent)
          /\ \A n \in 1..Len(events[i]) : events'[i][n] = events[i][n]
          /\ events'[i][Len(events[i]) + 1] = e /\ events'[i] # <<>> /\ Len(events[i]) \in Nat
      BY <1>1, <2>4, AppendFacts
    <3>2. \A n \in 1..Len(events'[i]) : n \in 1..Len(events[i]) \/ n = Len(events[i]) + 1
      BY <3>1
    <3>. QED  BY <2>2, <3>1, <3>2
  <2>. QED  BY <1>2, <2>3, <2>4
<1>4. events' \in [Instances -> Seq(AnEvent)]
  <2>1. DOMAIN events' = Instances /\ events' = [i \in Instances |-> events'[i]]
    BY DEF Receipts!Tell, ReceiptsTyped, ServerTyped
  <2>. QED  BY <1>3, <2>1
<1>. QED  BY <1>3, <1>4 DEF EventsOK

-----------------------------------------------------------------------------
(* Receipts: the queues of tasks *)

\* What a queue is after a task has joined it.
LEMMA EnqueueFacts ==
  ASSUME ReceiptsTyped, NEW s \in Sessions, NEW t \in ATask, Receipts!Enqueue(s, t)
  PROVE  /\ tasks' \in [Sessions -> Seq(ATask)]
         /\ \A z \in Sessions : z # s => tasks'[z] = tasks[z]
         /\ Len(tasks[s]) \in Nat /\ Len(tasks'[s]) = Len(tasks[s]) + 1 /\ tasks'[s] # <<>>
         /\ \A n \in 1..Len(tasks[s]) : tasks'[s][n] = tasks[s][n]
         /\ tasks'[s][Len(tasks[s]) + 1] = t
         /\ tasks'[s][1] = IF tasks[s] = <<>> THEN t ELSE tasks[s][1]
         /\ \A z \in Sessions : \A n \in 1..Len(tasks'[z]) :
              \/ n \in 1..Len(tasks[z]) /\ tasks'[z][n] = tasks[z][n]
              \/ z = s /\ n = Len(tasks[s]) + 1 /\ tasks'[z][n] = t
<1>1. tasks \in [Sessions -> Seq(ATask)]
  BY DEF ReceiptsTyped, StoreTyped
<1>2. tasks' = [tasks EXCEPT ![s] = Append(tasks[s], t)]
  BY DEF Receipts!Enqueue
<1>3. tasks'[s] = Append(tasks[s], t) /\ \A z \in Sessions : z # s => tasks'[z] = tasks[z]
  BY <1>1, <1>2
<1>4. /\ Append(tasks[s], t) \in Seq(ATask) /\ Len(Append(tasks[s], t)) = Len(tasks[s]) + 1
      /\ Len(tasks[s]) \in Nat
      /\ \A n \in 1..Len(tasks[s]) : Append(tasks[s], t)[n] = tasks[s][n]
      /\ Append(tasks[s], t)[Len(tasks[s]) + 1] = t /\ Append(tasks[s], t) # <<>>
      /\ Append(tasks[s], t)[1] = IF tasks[s] = <<>> THEN t ELSE tasks[s][1]
  BY <1>1, AppendFacts
<1>5. tasks' \in [Sessions -> Seq(ATask)]
  BY <1>1, <1>2, <1>4
<1>6. \A n \in 1..Len(tasks[s]) + 1 : n \in 1..Len(tasks[s]) \/ n = Len(tasks[s]) + 1
  BY <1>4
<1>. QED  BY <1>3, <1>4, <1>5, <1>6

\* A task that joins a queue is about its session; nothing that has begun is disturbed.
LEMMA EnqueueOK ==
  ASSUME ReceiptsInv, DaemonMoves, NEW s \in Sessions, NEW t \in ATask, ~t.begun,
         Receipts!Enqueue(s, t), TaskOK(s, t, native', live')
  PROVE  TasksOK' /\ (file' = file => BegunOK')
<1>1. ReceiptsTyped /\ TasksOK /\ BegunOK
  BY DEF ReceiptsInv
<1>2. \A z \in Sessions : \A n \in 1..Len(tasks[z]) : tasks[z][n] \in ATask
  BY <1>1 DEF ReceiptsTyped, StoreTyped
<1>3. \A z \in Sessions : \A n \in 1..Len(tasks[z]) : TaskOK(z, tasks[z][n], native', live')
  BY <1>1, <1>2, TaskStays DEF TasksOK
<1>4. TasksOK'
  <2>1. ASSUME NEW z \in Sessions, NEW n \in 1..Len(tasks'[z])
        PROVE  TaskOK(z, tasks'[z][n], native', live') /\ (n > 1 => ~tasks'[z][n].begun)
    <3>1. \/ n \in 1..Len(tasks[z]) /\ tasks'[z][n] = tasks[z][n]
          \/ z = s /\ tasks'[z][n] = t
      BY <1>1, EnqueueFacts
    <3>2. n \in 1..Len(tasks[z]) => (n > 1 => ~tasks[z][n].begun)
      BY <1>1 DEF TasksOK
    <3>. QED  BY <1>3, <3>1, <3>2
  <2>. QED  BY <2>1 DEF TasksOK
<1>5. ASSUME file' = file PROVE BegunOK'
  <2>1. ASSUME NEW z \in Sessions, tasks'[z] # <<>>, tasks'[z][1].begun
        PROVE  tasks[z] # <<>> /\ tasks'[z][1] = tasks[z][1]
    BY <1>1, <2>1, EnqueueFacts
  <2>. QED  BY <1>1, <1>5, <2>1 DEF BegunOK
<1>. QED  BY <1>4, <1>5

\* The head of a chain waits for one task at a time.
LEMMA EnqueueWaits ==
  ASSUME ReceiptsInv, NEW s \in Sessions, NEW t \in ATask, Receipts!Enqueue(s, t),
         \A i \in Instances : events[i] # <<>> => events'[i] # <<>>,
         t.waits \in Instances => Receipts!Idle(t.waits)
  PROVE  WaitsOK'
<1>1. ReceiptsTyped /\ WaitsOK
  BY DEF ReceiptsInv
<1>2. \A z \in Sessions : DOMAIN tasks[z] = 1..Len(tasks[z])
  BY <1>1 DEF ReceiptsTyped, StoreTyped
<1>3. t.waits \in Instances =>
        /\ events[t.waits] # <<>>
        /\ \A z \in Sessions : \A n \in 1..Len(tasks[z]) : tasks[z][n].waits # t.waits
  BY <1>2 DEF Receipts!Idle
<1>4. ASSUME NEW i \in Instances, NEW z \in Sessions, NEW n \in 1..Len(tasks'[z]),
             tasks'[z][n].waits = i
      PROVE  /\ events'[i] # <<>>
             /\ \A y \in Sessions : \A m \in 1..Len(tasks'[y]) :
                  tasks'[y][m].waits = i => y = z /\ m = n
  <2>1. \A y \in Sessions : \A m \in 1..Len(tasks'[y]) :
          \/ m \in 1..Len(tasks[y]) /\ tasks'[y][m] = tasks[y][m]
          \/ y = s /\ m = Len(tasks[s]) + 1 /\ tasks'[y][m] = t
    BY <1>1, EnqueueFacts
  <2>2. CASE t.waits = i
    <3>1. \A y \in Sessions : \A m \in 1..Len(tasks'[y]) :
            tasks'[y][m].waits = i => y = s /\ m = Len(tasks[s]) + 1
      BY <1>3, <2>1, <2>2
    <3>. QED  BY <1>3, <1>4, <2>2, <3>1
  <2>3. CASE t.waits # i
    <3>1. \A y \in Sessions : \A m \in 1..Len(tasks'[y]) :
            tasks'[y][m].waits = i => m \in 1..Len(tasks[y]) /\ tasks[y][m].waits = i
      BY <2>1, <2>3
    <3>. QED  BY <1>1, <1>4, <3>1 DEF WaitsOK
  <2>. QED  BY <2>2, <2>3
<1>. QED  BY <1>4 DEF WaitsOK

\* What joins the queue of a session with a tombstone is a removal, or does no harm.
LEMMA EnqueueRemoved ==
  ASSUME ReceiptsInv, NEW s \in Sessions, NEW t \in ATask, ~t.begun, Receipts!Enqueue(s, t),
         file' = file, writeFaults' = writeFaults,
         \/ deleted' = deleted
         \/ deleted' = deleted \cup {s} /\ t.kind = "remove"
  PROVE  RemovedOK'
<1>1. ReceiptsTyped /\ RemovedOK /\ deleted \subseteq Sessions
  BY DEF ReceiptsInv, ReceiptsTyped, StoreTyped
<1>2. ASSUME NEW z \in deleted'
      PROVE  \/ writeFaults > 0
             \/ \E n \in 1..Len(tasks'[z]) : tasks'[z][n].kind = "remove"
             \/ /\ \A r \in Requests : SessionOf[r] = z => file[r] = Receipts!NoFile
                /\ tasks'[z] # <<>> => ~tasks'[z][1].begun
  <2>1. CASE z \in deleted
    <3>1. z \in Sessions
      BY <1>1, <2>1
    <3>2. CASE \E n \in 1..Len(tasks[z]) : tasks[z][n].kind = "remove"
      <4>1. \A n \in 1..Len(tasks[z]) : n \in 1..Len(tasks'[z]) /\ tasks'[z][n] = tasks[z][n]
        BY <1>1, <3>1, EnqueueFacts
      <4>. QED  BY <3>2, <4>1
    <3>3. CASE tasks[z] # <<>> => ~tasks[z][1].begun
      <4>1. tasks'[z] # <<>> => ~tasks'[z][1].begun
        BY <1>1, <3>1, <3>3, EnqueueFacts
      <4>2. CASE \A r \in Requests : SessionOf[r] = z => file[r] = Receipts!NoFile
        BY <4>1, <4>2
      <4>. QED  BY <1>1, <2>1, <3>2, <4>2 DEF RemovedOK
    <3>. QED  BY <1>1, <2>1, <3>2, <3>3 DEF RemovedOK
  <2>2. CASE z \notin deleted
    <3>1. z = s /\ t.kind = "remove"
      BY <1>2, <2>2
    <3>2. Len(tasks[s]) + 1 \in 1..Len(tasks'[s]) /\ tasks'[s][Len(tasks[s]) + 1] = t
      BY <1>1, EnqueueFacts
    <3>. QED  BY <3>1, <3>2
  <2>. QED  BY <2>1, <2>2
<1>. QED  BY <1>2 DEF RemovedOK

\* What a queue is after its head has left it.
LEMMA PopFacts ==
  ASSUME ReceiptsTyped, NEW s \in Sessions, tasks[s] # <<>>,
         tasks' = [tasks EXCEPT ![s] = Tail(tasks[s])]
  PROVE  /\ tasks' \in [Sessions -> Seq(ATask)]
         /\ \A z \in Sessions : z # s => tasks'[z] = tasks[z]
         /\ Head(tasks[s]) = tasks[s][1] /\ tasks[s][1] \in ATask /\ 1 \in 1..Len(tasks[s])
         /\ \A n \in 1..Len(tasks'[s]) :
              n + 1 \in 1..Len(tasks[s]) /\ n + 1 > 1 /\ tasks'[s][n] = tasks[s][n + 1]
         /\ \A n \in 1..Len(tasks[s]) : n > 1 =>
              n - 1 \in 1..Len(tasks'[s]) /\ tasks'[s][n - 1] = tasks[s][n]
         /\ tasks'[s] # <<>> => 1 \in 1..Len(tasks'[s])
<1>1. tasks \in [Sessions -> Seq(ATask)]
  BY DEF ReceiptsTyped, StoreTyped
<1>2. tasks'[s] = Tail(tasks[s]) /\ \A z \in Sessions : z # s => tasks'[z] = tasks[z]
  BY <1>1
<1>3. /\ Tail(tasks[s]) \in Seq(ATask)
      /\ \A n \in 1..Len(Tail(tasks[s])) :
           n + 1 \in 1..Len(tasks[s]) /\ n + 1 > 1 /\ Tail(tasks[s])[n] = tasks[s][n + 1]
      /\ Head(tasks[s]) = tasks[s][1] /\ tasks[s][1] \in ATask /\ 1 \in 1..Len(tasks[s])
      /\ \A n \in 1..Len(tasks[s]) : n > 1 =>
           n - 1 \in 1..Len(Tail(tasks[s])) /\ Tail(tasks[s])[n - 1] = tasks[s][n]
  BY <1>1, TailFacts
<1>4. tasks' \in [Sessions -> Seq(ATask)]
  BY <1>1, <1>3
<1>5. Tail(tasks[s]) # <<>> => 1 \in 1..Len(Tail(tasks[s]))
  BY <1>3
<1>. QED  BY <1>2, <1>3, <1>4, <1>5

\* A head that leaves its queue wrote at most files of its session; the next has not begun.
LEMMA PopOK ==
  ASSUME ReceiptsInv, DaemonMoves, NEW s \in Sessions, tasks[s] # <<>>,
         tasks' = [tasks EXCEPT ![s] = Tail(tasks[s])],
         \A r \in Requests : SessionOf[r] # s => file'[r] = file[r]
  PROVE  /\ TasksOK' /\ BegunOK' /\ (tasks'[s] # <<>> => ~tasks'[s][1].begun)
<1>1. ReceiptsTyped /\ TasksOK /\ BegunOK
  BY DEF ReceiptsInv
<1>2. \A z \in Sessions : \A n \in 1..Len(tasks[z]) : tasks[z][n] \in ATask
  BY <1>1 DEF ReceiptsTyped, StoreTyped
<1>3. \A z \in Sessions : \A n \in 1..Len(tasks[z]) : TaskOK(z, tasks[z][n], native', live')
  BY <1>1, <1>2, TaskStays DEF TasksOK
<1>4. ASSUME NEW n \in 1..Len(tasks'[s])
      PROVE  TaskOK(s, tasks'[s][n], native', live') /\ ~tasks'[s][n].begun
  <2>1. n + 1 \in 1..Len(tasks[s]) /\ n + 1 > 1 /\ tasks'[s][n] = tasks[s][n + 1]
    BY <1>1, PopFacts
  <2>. QED  BY <1>1, <1>3, <2>1 DEF TasksOK
<1>5. \A z \in Sessions : z # s => tasks'[z] = tasks[z]
  BY <1>1, PopFacts
<1>6. TasksOK'
  <2>1. ASSUME NEW z \in Sessions, NEW n \in 1..Len(tasks'[z])
        PROVE  TaskOK(z, tasks'[z][n], native', live') /\ (n > 1 => ~tasks'[z][n].begun)
    BY <1>1, <1>3, <1>4, <1>5 DEF TasksOK
  <2>. QED  BY <2>1 DEF TasksOK
<1>7. tasks'[s] # <<>> => ~tasks'[s][1].begun
  BY <1>1, <1>4, PopFacts
<1>8. BegunOK'
  <2>1. ASSUME NEW z \in Sessions, tasks'[z] # <<>>, tasks'[z][1].begun
        PROVE  /\ z # s /\ tasks'[z] = tasks[z]
               /\ tasks[z][1].kind \in {"capture", "resolve"} =>
                    file'[tasks[z][1].request] = file[tasks[z][1].request]
    <3>1. z # s /\ tasks'[z] = tasks[z]
      BY <1>5, <1>7, <2>1
    <3>2. 1 \in 1..Len(tasks[z])
      BY <1>1, <2>1, <3>1 DEF ReceiptsTyped, StoreTyped
    <3>3. TaskOK(z, tasks[z][1], native, live)
      BY <1>1, <3>2 DEF TasksOK
    <3>. QED  BY <3>1, <3>3 DEF TaskOK
  <2>. QED  BY <1>1, <2>1 DEF BegunOK
<1>. QED  BY <1>6, <1>7, <1>8

\* The chain that waited for the task goes on; the others wait as before.
LEMMA PopWaits ==
  ASSUME ReceiptsInv, NEW s \in Sessions, tasks[s] # <<>>,
         tasks' = [tasks EXCEPT ![s] = Tail(tasks[s])],
         \A i \in Instances : tasks[s][1].waits # i => events'[i] = events[i]
  PROVE  WaitsOK'
<1>1. ReceiptsTyped /\ WaitsOK
  BY DEF ReceiptsInv
<1>2. 1 \in 1..Len(tasks[s])
  BY <1>1, PopFacts
<1>3. \A z \in Sessions : \A n \in 1..Len(tasks'[z]) :
        \/ z # s /\ n \in 1..Len(tasks[z]) /\ tasks'[z][n] = tasks[z][n]
        \/ z = s /\ n + 1 \in 1..Len(tasks[z]) /\ n + 1 # 1 /\ tasks'[z][n] = tasks[z][n + 1]
  <2>1. \A z \in Sessions : z # s => tasks'[z] = tasks[z]
    BY <1>1, PopFacts
  <2>2. \A n \in 1..Len(tasks'[s]) :
          n + 1 \in 1..Len(tasks[s]) /\ n + 1 # 1 /\ tasks'[s][n] = tasks[s][n + 1]
    <3>1. \A n \in 1..Len(tasks'[s]) :
            n + 1 \in 1..Len(tasks[s]) /\ n + 1 > 1 /\ tasks'[s][n] = tasks[s][n + 1]
      BY <1>1, PopFacts
    <3>2. \A n \in 1..Len(tasks'[s]) : n + 1 > 1 => n + 1 # 1
      OBVIOUS
    <3>. QED  BY <3>1, <3>2
  <2>. QED  BY <2>1, <2>2
<1>4. ASSUME NEW i \in Instances, NEW z \in Sessions, NEW n \in 1..Len(tasks'[z]),
             tasks'[z][n].waits = i
      PROVE  /\ events'[i] # <<>>
             /\ \A y \in Sessions : \A m \in 1..Len(tasks'[y]) :
                  tasks'[y][m].waits = i => y = z /\ m = n
  <2>1. CASE z # s
    <3>1. n \in 1..Len(tasks[z]) /\ tasks[z][n].waits = i
      BY <1>3, <1>4, <2>1
    <3>2. events[i] # <<>> /\ \A y \in Sessions : \A m \in 1..Len(tasks[y]) :
            tasks[y][m].waits = i => y = z /\ m = n
      BY <1>1, <3>1 DEF WaitsOK
    <3>3. events'[i] = events[i]
      BY <1>2, <2>1, <3>2
    <3>4. \A y \in Sessions : \A m \in 1..Len(tasks'[y]) :
            tasks'[y][m].waits = i => y = z /\ m = n
      BY <1>3, <2>1, <3>2
    <3>. QED  BY <3>2, <3>3, <3>4
  <2>2. CASE z = s
    <3>1. n + 1 \in 1..Len(tasks[s]) /\ n + 1 # 1 /\ tasks[s][n + 1].waits = i
      BY <1>3, <1>4, <2>2
    <3>2. events[i] # <<>> /\ \A y \in Sessions : \A m \in 1..Len(tasks[y]) :
            tasks[y][m].waits = i => y = s /\ m = n + 1
      BY <1>1, <3>1 DEF WaitsOK
    <3>3. events'[i] = events[i]
      BY <1>2, <3>1, <3>2
    <3>4. \A y \in Sessions : \A m \in 1..Len(tasks'[y]) :
            tasks'[y][m].waits = i => y = s /\ m + 1 = n + 1
      BY <1>3, <3>2
    <3>. QED  BY <2>2, <3>2, <3>3, <3>4
  <2>. QED  BY <2>1, <2>2
<1>. QED  BY <1>4 DEF WaitsOK

-----------------------------------------------------------------------------
(* Receipts: the end of a task *)

\* The parts of the invariant that the properties of the readers rest on.
LEMMA EndsFrame ==
  ASSUME ReceiptsInv, NEW s \in Sessions, tasks[s] # <<>>, NEW ok \in BOOLEAN,
         Receipts!Ends(s, ok)
  PROVE  LET t == tasks[s][1] IN
         /\ t \in ATask /\ TaskOK(s, t, native, live) /\ Head(tasks[s]) = t
         /\ DaemonMoves /\ native' = native /\ live' = live /\ subscribed' = subscribed
         /\ tasks' = [tasks EXCEPT ![s] = Tail(tasks[s])]
         /\ observers' = observers /\ deleting' = deleting /\ deleted' = deleted /\ view' = view
         /\ \A i \in Instances : t.waits # i => events'[i] = events[i]
<1>1. ReceiptsTyped /\ TasksOK
  BY DEF ReceiptsInv
<1>2. tasks' = [tasks EXCEPT ![s] = Tail(tasks[s])]
  BY DEF Receipts!Ends
<1>3. tasks[s][1] \in ATask /\ 1 \in 1..Len(tasks[s]) /\ Head(tasks[s]) = tasks[s][1]
  BY <1>1, <1>2, PopFacts
<1>4. TaskOK(s, tasks[s][1], native, live)
  BY <1>1, <1>3 DEF TasksOK
<1>. QED  BY <1>2, <1>3, <1>4 DEF Receipts!Ends, Receipts!daemon, DaemonMoves

\* The chains, the clients and the lists after a task has ended.
LEMMA EndsServer ==
  ASSUME ReceiptsInv, NEW s \in Sessions, tasks[s] # <<>>, NEW ok \in BOOLEAN,
         Receipts!Ends(s, ok)
  PROVE  ServerTyped' /\ EventsOK' /\ ClientsOK' /\ WaitsOK'
<1> DEFINE t == tasks[s][1]
           P == {i \in Instances : t.waits = i /\ ~(ok /\ Head(events[i]).kind = "recover"
                                                    /\ Head(events[i]).todo # {})}
<1>1. ReceiptsTyped /\ EventsOK /\ ClientsOK /\ WaitsOK
  BY DEF ReceiptsInv
<1>2. /\ t \in ATask /\ TaskOK(s, t, native, live) /\ Head(tasks[s]) = t
      /\ DaemonMoves /\ native' = native
      /\ tasks' = [tasks EXCEPT ![s] = Tail(tasks[s])]
      /\ observers' = observers /\ deleting' = deleting
      /\ \A i \in Instances : t.waits # i => events'[i] = events[i]
  BY EndsFrame
<1>3. \A i \in P : events[i] # <<>>
  <2>1. 1 \in 1..Len(tasks[s])
    BY <1>1, <1>2, PopFacts
  <2>. QED  BY <1>1, <2>1 DEF WaitsOK
<1>4. events' = [i \in Instances |-> IF i \in P THEN Tail(events[i]) ELSE events[i]]
  BY <1>2 DEF Receipts!Ends, Receipts!Continues
<1> HIDE DEF P
<1>5. events' \in [Instances -> Seq(AnEvent)] /\ EventsOK'
  <2>1. P \in SUBSET Instances
    BY DEF P
  <2>. QED  BY <1>1, <1>2, <1>3, <1>4, <2>1, ChainsShrink
<1>6. \A r \in Requests : client'[r] \in Progress
        /\ (client'[r] \in {"sent", "confirming"} => client'[r] = client[r])
  BY <1>1 DEF Receipts!Ends, ReceiptsTyped, ServerTyped, Progress
<1>7. client' \in [Requests -> Progress]
  <2>1. client' = [r \in Requests |-> client'[r]]
    BY DEF Receipts!Ends
  <2>. QED  BY <1>6, <2>1
<1>8. ClientsOK'
  BY <1>1, <1>2, <1>6 DEF ClientsOK
<1>9. WaitsOK'
  BY <1>2, PopWaits
<1>10. ServerTyped'
  BY <1>1, <1>2, <1>5, <1>7 DEF ReceiptsTyped, ServerTyped
<1>. QED  BY <1>5, <1>8, <1>9, <1>10

\* The readers after a task has ended: if it saved a receipt, the observers are told.
LEMMA EndsReaders ==
  ASSUME ReceiptsInv, NEW s \in Sessions, tasks[s] # <<>>, NEW ok \in BOOLEAN,
         Receipts!Ends(s, ok)
  PROVE  LET t == tasks[s][1]
             saved == ok /\ t.kind = "resolve" /\ s \notin deleted
         IN
         /\ \A i \in Instances : list'[i] \in [session : Sessions \cup {"nobody"}, tasks : Nat]
              /\ (list'[i].session = list[i].session \/ list'[i].session = "nobody")
         /\ list' \in [Instances -> [session : Sessions \cup {"nobody"}, tasks : Nat]]
         /\ told' \in [Sessions -> SUBSET Instances] /\ confirmed' \in SUBSET Requests
         /\ \A z \in Sessions : told[z] \subseteq told'[z]
         /\ saved => observers[s] \subseteq told'[s]
         /\ confirmed' = confirmed \/ (confirmed' = confirmed \cup {t.request} /\ saved
                                       /\ t.waits = "client")
<1> DEFINE t == tasks[s][1]
           AList == [session : Sessions \cup {"nobody"}, tasks : Nat]
<1>1. /\ list \in [Instances -> AList] /\ told \in [Sessions -> SUBSET Instances]
      /\ confirmed \in SUBSET Requests /\ observers \in [Sessions -> SUBSET Instances]
  BY DEF ReceiptsInv, ReceiptsTyped, ReadersTyped, ServerTyped
<1>2. t \in ATask /\ Head(tasks[s]) = t /\ TaskOK(s, t, native, live)
  BY EndsFrame
<1>3. list' = [i \in Instances |->
           IF list[i].session # s \/ list[i].tasks = 0 THEN list[i]
           ELSE IF list[i].tasks = 1 /\ ~ok THEN Receipts!Resting
           ELSE [list[i] EXCEPT !.tasks = list[i].tasks - 1]]
  BY DEF Receipts!Ends
<1>4. ASSUME NEW i \in Instances
      PROVE  list'[i] \in AList
             /\ (list'[i].session = list[i].session \/ list'[i].session = "nobody")
  <2>1. Receipts!Resting \in AList /\ Receipts!Resting.session = "nobody"
    BY DEF Receipts!Resting, Receipts!Nobody
  <2>2. list[i] \in AList /\ list[i].tasks \in Nat /\ list[i].session \in Sessions \cup {"nobody"}
    BY <1>1
  <2>3. list[i].tasks # 0 => list[i].tasks - 1 \in Nat
    BY <2>2
  <2>4. list[i].tasks # 0 =>
          /\ [list[i] EXCEPT !.tasks = list[i].tasks - 1] \in AList
          /\ [list[i] EXCEPT !.tasks = list[i].tasks - 1].session = list[i].session
    BY <2>2, <2>3
  <2>5. \/ list'[i] = list[i]
        \/ list'[i] = Receipts!Resting
        \/ list[i].tasks # 0 /\ list'[i] = [list[i] EXCEPT !.tasks = list[i].tasks - 1]
    BY <1>3
  <2> HIDE DEF AList
  <2>. QED  BY <2>1, <2>2, <2>4, <2>5
<1>5. list' \in [Instances -> AList]
  <2> HIDE DEF AList
  <2>. QED  BY <1>3, <1>4
<1>6. \/ told' = told
      \/ told' = [told EXCEPT ![s] = told[s] \cup observers[s]]
  BY DEF Receipts!Ends, Receipts!Tells
<1>7. ok /\ t.kind = "resolve" /\ s \notin deleted =>
        told' = [told EXCEPT ![s] = told[s] \cup observers[s]]
  BY <1>2 DEF Receipts!Ends, Receipts!Tells, Receipts!Fenced
<1>8. \/ confirmed' = confirmed
      \/ /\ confirmed' = confirmed \cup {t.request} /\ ok /\ t.kind = "resolve"
         /\ s \notin deleted /\ t.waits = "client"
  BY <1>2 DEF Receipts!Ends, Receipts!Fenced, Receipts!Client
<1>9. confirmed' \in SUBSET Requests
  BY <1>1, <1>2, <1>8 DEF TaskOK
<1>. QED  BY <1>1, <1>4, <1>5, <1>6, <1>7, <1>8, <1>9

-----------------------------------------------------------------------------
(* Receipts: the steps of the store *)

\* The properties of the readers, when a queue loses its head and no file changes.
LEMMA SkipStep ==
  ASSUME ReceiptsInv, NEW s \in Sessions, tasks[s] # <<>>, NEW ok \in BOOLEAN,
         Receipts!Ends(s, ok), file' = file, losses' = losses, lists' = lists,
         \/ /\ Receipts!Skips(s, tasks[s][1]) /\ ~tasks[s][1].begun /\ ok
            /\ writeFaults' = writeFaults
         \/ ~ok /\ writeFaults' = writeFaults + 1
  PROVE  ReceiptsInv'
<1> DEFINE t == tasks[s][1]
<1>1. ReceiptsTyped /\ FileOK /\ TombstonesOK /\ RemovedOK /\ ObservedOK
      /\ Receipts!ConfirmedIsKept /\ Receipts!ListedIsCurrent
  BY DEF ReceiptsInv
<1>2. /\ t \in ATask /\ TaskOK(s, t, native, live)
      /\ DaemonMoves /\ native' = native /\ live' = live /\ subscribed' = subscribed
      /\ tasks' = [tasks EXCEPT ![s] = Tail(tasks[s])]
      /\ observers' = observers /\ deleting' = deleting /\ deleted' = deleted /\ view' = view
  BY EndsFrame
<1>3. ServerTyped' /\ EventsOK' /\ ClientsOK' /\ WaitsOK'
  BY EndsServer
<1>4. TasksOK' /\ BegunOK' /\ (tasks'[s] # <<>> => ~tasks'[s][1].begun)
  BY <1>2, PopOK
<1>5. /\ \A i \in Instances : list'[i].session = list[i].session \/ list'[i].session = "nobody"
      /\ list' \in [Instances -> [session : Sessions \cup {"nobody"}, tasks : Nat]]
      /\ told' \in [Sessions -> SUBSET Instances] /\ confirmed' \in SUBSET Requests
      /\ \A z \in Sessions : told[z] \subseteq told'[z]
      /\ \/ confirmed' = confirmed
         \/ confirmed' = confirmed \cup {t.request} /\ ok /\ t.kind = "resolve"
            /\ s \notin deleted /\ t.waits = "client"
  BY EndsReaders
<1>6. ReceiptsTyped'
  <2>1. tasks' \in [Sessions -> Seq(ATask)]
    BY <1>1, <1>2, PopFacts
  <2>2. writeFaults' \in Nat
    BY <1>1 DEF ReceiptsTyped, ReadersTyped
  <2>. QED  BY <1>1, <1>2, <1>3, <1>5, <2>1, <2>2
       DEF ReceiptsTyped, DaemonTyped, StoreTyped, ReadersTyped
<1>7. FileOK' /\ TombstonesOK'
  BY <1>1, <1>2 DEF FileOK, TombstonesOK
<1>8. RemovedOK'
  <2>1. CASE ~ok
    BY <1>1, <2>1 DEF RemovedOK, ReceiptsTyped, ReadersTyped
  <2>2. CASE ok
    <3>1. ~t.begun /\ Receipts!Skips(s, t) /\ writeFaults' = writeFaults
      BY <2>2
    <3>2. t.kind # "remove"
      BY <3>1 DEF Receipts!Skips
    <3>3. ASSUME NEW z \in deleted, \E n \in 1..Len(tasks[z]) : tasks[z][n].kind = "remove"
          PROVE  \E n \in 1..Len(tasks'[z]) : tasks'[z][n].kind = "remove"
      <4>0. z \in Sessions
        BY <1>1 DEF ReceiptsTyped, StoreTyped
      <4>1. CASE z # s
        BY <1>1, <1>2, <3>3, <4>0, <4>1, PopFacts
      <4>2. CASE z = s
        <5>1. PICK n \in 1..Len(tasks[s]) : tasks[s][n].kind = "remove"
          BY <3>3, <4>2
        <5>2. n > 1
          BY <3>2, <5>1
        <5>3. n - 1 \in 1..Len(tasks'[s]) /\ tasks'[s][n - 1] = tasks[s][n]
          BY <1>1, <1>2, <5>2, PopFacts
        <5>. QED  BY <4>2, <5>1, <5>3
      <4>. QED  BY <4>1, <4>2
    <3>4. ASSUME NEW z \in deleted, tasks[z] # <<>> => ~tasks[z][1].begun
          PROVE  tasks'[z] # <<>> => ~tasks'[z][1].begun
      <4>0. z \in Sessions
        BY <1>1 DEF ReceiptsTyped, StoreTyped
      <4>. QED  BY <1>1, <1>2, <1>4, <3>4, <4>0, PopFacts
    <3>5. ASSUME NEW z \in deleted'
          PROVE  \/ writeFaults' > 0
                 \/ \E n \in 1..Len(tasks'[z]) : tasks'[z][n].kind = "remove"
                 \/ /\ \A r \in Requests : SessionOf[r] = z => file'[r] = Receipts!NoFile
                    /\ tasks'[z] # <<>> => ~tasks'[z][1].begun
      <4>1. z \in deleted
        BY <1>2
      <4>2. \/ writeFaults > 0
            \/ \E n \in 1..Len(tasks[z]) : tasks[z][n].kind = "remove"
            \/ /\ \A r \in Requests : SessionOf[r] = z => file[r] = Receipts!NoFile
               /\ tasks[z] # <<>> => ~tasks[z][1].begun
        BY <1>1, <4>1 DEF RemovedOK
      <4>3. CASE \E n \in 1..Len(tasks[z]) : tasks[z][n].kind = "remove"
        BY <3>3, <4>1, <4>3
      <4>4. CASE tasks[z] # <<>> => ~tasks[z][1].begun
        <5>1. tasks'[z] # <<>> => ~tasks'[z][1].begun
          BY <3>4, <4>1, <4>4
        <5>. QED  BY <3>1, <4>2, <4>3, <5>1
      <4>. QED  BY <3>1, <4>2, <4>3, <4>4
    <3>. QED  BY <3>5 DEF RemovedOK
  <2>. QED  BY <2>1, <2>2
<1>9. ObservedOK'
  <2>1. \A z \in live : z # "nobody"
    BY <1>1, ReceiptAssumption DEF ReceiptsTyped, DaemonTyped
  <2>. QED  BY <1>1, <1>2, <1>5, <2>1 DEF ObservedOK
<1>10. Receipts!ConfirmedIsKept'
  <2>1. CASE confirmed' = confirmed
    BY <1>1, <1>2, <2>1 DEF Receipts!ConfirmedIsKept
  <2>2. CASE confirmed' # confirmed
    <3>1. /\ confirmed' = confirmed \cup {t.request} /\ ok /\ t.kind = "resolve"
          /\ s \notin deleted /\ t.waits = "client"
      BY <1>5, <2>2
    <3>2. t.origin = "client" /\ t.decision = native[t.request] /\ t.request \in Requests
      BY <1>2, <3>1 DEF TaskOK
    <3>3. Receipts!Keeps(file[t.request], t)
      BY <3>1 DEF Receipts!Skips, Receipts!Fenced
    <3>4. file[t.request] = [stage |-> "resolved", origin |-> "client",
                             decision |-> native[t.request]]
      <4>1. file[t.request].stage = "resolved"
            /\ (file[t.request].origin # "native" \/ file[t.request].decision # t.decision)
        BY <3>2, <3>3 DEF Receipts!Keeps
      <4>2. file[t.request] # Receipts!NoFile /\ file[t.request] # Receipts!Asked
        BY <4>1 DEF Receipts!NoFile, Receipts!Asked
      <4>3. PICK o \in {"native", "client"} :
              file[t.request] = [stage |-> "resolved", origin |-> o,
                                 decision |-> native[t.request]]
        BY <1>1, <3>2, <4>2 DEF FileOK
      <4>. QED  BY <3>2, <4>1, <4>3
    <3>. QED  BY <1>1, <1>2, <3>1, <3>4 DEF Receipts!ConfirmedIsKept
  <2>. QED  BY <2>1, <2>2
<1>11. Receipts!ListedIsCurrent'
  <2>1. \A r \in Requests : SessionOf[r] \in Sessions
    BY ReceiptAssumption
  <2>. QED  BY <1>1, <1>2, <1>5, <2>1 DEF Receipts!ListedIsCurrent
<1>. QED  BY <1>3, <1>4, <1>6, <1>7, <1>8, <1>9, <1>10, <1>11 DEF ReceiptsInv

\* A task begins, or is skipped.
LEMMA BeginStep ==
  ASSUME ReceiptsInv, NEW s \in Sessions, Receipts!Begin(s)
  PROVE  ReceiptsInv'
<1>1. ReceiptsTyped /\ TasksOK /\ BegunOK /\ WaitsOK /\ RemovedOK
  BY DEF ReceiptsInv
<1>2. tasks[s] # <<>> /\ ~Head(tasks[s]).begun /\ file' = file
      /\ writeFaults' = writeFaults /\ losses' = losses /\ lists' = lists
  BY DEF Receipts!Begin, Receipts!bounds
<1>3. tasks[s] \in Seq(ATask) /\ Head(tasks[s]) = tasks[s][1] /\ tasks[s][1] \in ATask
      /\ 1 \in 1..Len(tasks[s]) /\ Len(tasks[s]) \in Nat
  BY <1>1, <1>2, TailFacts DEF ReceiptsTyped, StoreTyped
<1>4. CASE Receipts!Skips(s, Head(tasks[s]))
  <2>1. Receipts!Ends(s, TRUE)
    BY <1>4 DEF Receipts!Begin
  <2>. QED  BY <1>2, <1>3, <1>4, <2>1, SkipStep
<1>5. CASE ~Receipts!Skips(s, Head(tasks[s]))
  <2> DEFINE t == tasks[s][1]
             u == [t EXCEPT !.begun = TRUE]
  <2>1. /\ tasks' = [tasks EXCEPT ![s][1].begun = TRUE]
        /\ UNCHANGED <<native, live, subscribed>>
        /\ UNCHANGED <<events, observers, client, deleting>>
        /\ UNCHANGED <<deleted, list, view, told, confirmed>>
    BY <1>5 DEF Receipts!Begin, Receipts!daemon, Receipts!server, Receipts!readers
  <2>2. u \in ATask /\ u.kind = t.kind /\ u.request = t.request /\ u.waits = t.waits
        /\ u.origin = t.origin /\ u.decision = t.decision
    BY <1>3 DEF ATask
  <2>3. tasks' = [tasks EXCEPT ![s] = [tasks[s] EXCEPT ![1] = u]]
    BY <2>1
  <2> HIDE DEF u
  <2>4. /\ [tasks[s] EXCEPT ![1] = u] \in Seq(ATask)
        /\ Len([tasks[s] EXCEPT ![1] = u]) = Len(tasks[s])
        /\ [tasks[s] EXCEPT ![1] = u][1] = u
        /\ \A n \in 1..Len(tasks[s]) : n > 1 => [tasks[s] EXCEPT ![1] = u][n] = tasks[s][n]
    BY <1>2, <1>3, <2>2, HeadFacts
  <2>5. tasks' \in [Sessions -> Seq(ATask)] /\ tasks'[s] = [tasks[s] EXCEPT ![1] = u]
        /\ \A z \in Sessions : z # s => tasks'[z] = tasks[z]
    BY <1>1, <2>3, <2>4 DEF ReceiptsTyped, StoreTyped
  <2>6. /\ Len(tasks'[s]) = Len(tasks[s]) /\ tasks'[s][1] = u
        /\ \A n \in 1..Len(tasks[s]) : n > 1 => tasks'[s][n] = tasks[s][n]
    BY <2>4, <2>5
  <2>7. TasksOK'
    <3>1. TaskOK(s, u, native, live)
      <4>1. TaskOK(s, t, native, live)
        BY <1>1, <1>3 DEF TasksOK
      <4>. QED  BY <2>2, <4>1 DEF TaskOK
    <3>2. ASSUME NEW n \in 1..Len(tasks'[s])
          PROVE  TaskOK(s, tasks'[s][n], native, live) /\ (n > 1 => ~tasks'[s][n].begun)
      <4>1. CASE n = 1
        BY <2>6, <3>1, <4>1
      <4>2. CASE n > 1
        BY <1>1, <2>6, <4>2 DEF TasksOK
      <4>. QED  BY <1>3, <2>6, <4>1, <4>2
    <3>. QED  BY <1>1, <2>1, <2>5, <3>2 DEF TasksOK
  <2>8. BegunOK'
    <3>1. /\ t.kind = "capture" => file[t.request] = Receipts!NoFile
          /\ t.kind = "resolve" => ~Receipts!Keeps(file[t.request], t)
      BY <1>3, <1>5 DEF Receipts!Skips
    <3>2. /\ u.kind = "capture" => file[u.request] = Receipts!NoFile
          /\ u.kind = "resolve" => ~Receipts!Keeps(file[u.request], u)
      BY <2>2, <3>1 DEF Receipts!Keeps
    <3>. QED  BY <1>1, <1>2, <2>5, <2>6, <3>2 DEF BegunOK
  <2>9. \A z \in Sessions : Len(tasks'[z]) = Len(tasks[z])
          /\ \A n \in 1..Len(tasks[z]) : tasks'[z][n].waits = tasks[z][n].waits
                                         /\ tasks'[z][n].kind = tasks[z][n].kind
    <3>1. \A n \in 1..Len(tasks[s]) : tasks'[s][n].waits = tasks[s][n].waits
                                      /\ tasks'[s][n].kind = tasks[s][n].kind
      <4>1. \A n \in 1..Len(tasks[s]) : n = 1 \/ n > 1
        BY <1>3
      <4>. QED  BY <2>2, <2>6, <4>1
    <3>. QED  BY <2>5, <2>6, <3>1
  <2>10. WaitsOK'
    BY <1>1, <2>1, <2>9 DEF WaitsOK
  <2>11. RemovedOK'
    <3>1. ASSUME NEW z \in deleted
          PROVE  \/ writeFaults > 0
                 \/ \E n \in 1..Len(tasks'[z]) : tasks'[z][n].kind = "remove"
                 \/ /\ \A r \in Requests : SessionOf[r] = z => file[r] = Receipts!NoFile
                    /\ tasks'[z] # <<>> => ~tasks'[z][1].begun
      <4>1. z \in Sessions
        BY <1>1 DEF ReceiptsTyped, StoreTyped
      <4>2. CASE z # s
        BY <1>1, <2>5, <4>1, <4>2 DEF RemovedOK
      <4>3. CASE z = s
        <5>1. t.kind = "remove"
          BY <1>3, <1>5, <4>3 DEF Receipts!Skips, Receipts!Fenced, ATask
        <5>. QED  BY <1>3, <2>2, <2>6, <4>3, <5>1
      <4>. QED  BY <4>2, <4>3
    <3>. QED  BY <1>2, <2>1, <3>1 DEF RemovedOK
  <2>12. ReceiptsTyped'
    BY <1>1, <1>2, <2>1, <2>5
       DEF ReceiptsTyped, DaemonTyped, ServerTyped, StoreTyped, ReadersTyped
  <2>13. EventsOK' /\ ClientsOK' /\ FileOK' /\ TombstonesOK' /\ ObservedOK'
    BY <1>2, <2>1
       DEF ReceiptsInv, EventsOK, ClientsOK, FileOK, TombstonesOK, ObservedOK
  <2>14. Receipts!ConfirmedIsKept' /\ Receipts!ListedIsCurrent'
    BY <1>2, <2>1 DEF ReceiptsInv, Receipts!ConfirmedIsKept, Receipts!ListedIsCurrent
  <2>. QED  BY <2>7, <2>8, <2>10, <2>11, <2>12, <2>13, <2>14 DEF ReceiptsInv
<1>. QED  BY <1>4, <1>5

\* A write that fails leaves the files as they are.
LEMMA FailStep ==
  ASSUME ReceiptsInv, NEW s \in Sessions, Receipts!WriteFails(s)
  PROVE  ReceiptsInv'
  BY SkipStep DEF Receipts!WriteFails

\* The files that a task writes are those of its session: none is left, or one that was not there,
\* or one that a client's reply may take over.
LEMMA WrittenFacts ==
  ASSUME ReceiptsInv, NEW s \in Sessions, Receipts!Write(s)
  PROVE  LET t == tasks[s][1] IN
         /\ tasks[s] # <<>> /\ t.begun /\ t \in ATask /\ TaskOK(s, t, native, live)
         /\ file' \in [Requests -> AFile]
         /\ \A r \in Requests : SessionOf[r] # s => file'[r] = file[r]
         /\ t.kind = "remove" =>
              s \notin live /\ \A r \in Requests : SessionOf[r] = s => file'[r] = Receipts!NoFile
         /\ t.kind # "remove" =>
              t.request \in Requests /\ \A r \in Requests : r # t.request => file'[r] = file[r]
         /\ t.kind = "capture" =>
              file[t.request] = Receipts!NoFile /\ file'[t.request] = Receipts!Asked
         /\ t.kind = "resolve" =>
              /\ ~Receipts!Keeps(file[t.request], t)
              /\ file'[t.request] = [stage |-> "resolved", origin |-> t.origin,
                                     decision |-> native[t.request]]
              /\ native[t.request] \in Decided /\ t.origin \in {"native", "client"}
              /\ t.waits = "client" => t.origin = "client"
<1> DEFINE t == tasks[s][1]
<1>1. ReceiptsTyped /\ TasksOK /\ BegunOK
  BY DEF ReceiptsInv
<1>2. tasks[s] # <<>> /\ Head(tasks[s]).begun
      /\ file' = IF Head(tasks[s]).kind = "remove"
                 THEN [r \in Requests |-> IF r \in Receipts!Of(s) THEN Receipts!NoFile
                                          ELSE file[r]]
                 ELSE [file EXCEPT ![Head(tasks[s]).request] = Receipts!Written(Head(tasks[s]))]
  BY DEF Receipts!Write
<1>3. Head(tasks[s]) = t /\ t \in ATask /\ 1 \in 1..Len(tasks[s])
      /\ file \in [Requests -> AFile]
  BY <1>1, <1>2, TailFacts DEF ReceiptsTyped, StoreTyped
<1>4. TaskOK(s, t, native, live) /\ t.begun
  BY <1>1, <1>2, <1>3 DEF TasksOK
<1>5. Receipts!NoFile \in AFile /\ Receipts!Asked \in AFile
  BY DEF Receipts!NoFile, Receipts!Asked, AFile
<1>6. CASE t.kind = "remove"
  <2>1. file' = [r \in Requests |-> IF SessionOf[r] = s THEN Receipts!NoFile ELSE file[r]]
    BY <1>2, <1>3, <1>6 DEF Receipts!Of
  <2>. QED  BY <1>2, <1>3, <1>4, <1>5, <1>6, <2>1 DEF TaskOK
<1>7. CASE t.kind = "capture"
  <2>1. t.request \in Requests /\ SessionOf[t.request] = s
        /\ file' = [file EXCEPT ![t.request] = Receipts!Asked]
    BY <1>2, <1>3, <1>4, <1>7 DEF TaskOK, Receipts!Written
  <2>2. file[t.request] = Receipts!NoFile
    BY <1>1, <1>2, <1>4, <1>7 DEF BegunOK
  <2>. QED  BY <1>2, <1>3, <1>4, <1>5, <1>7, <2>1, <2>2
<1>8. CASE t.kind = "resolve"
  <2> DEFINE new == [stage |-> "resolved", origin |-> t.origin, decision |-> native[t.request]]
  <2>1. /\ t.request \in Requests /\ SessionOf[t.request] = s
        /\ native[t.request] \in Decided /\ t.origin \in {"native", "client"}
        /\ t.waits = "client" => t.origin = "client"
        /\ t.decision = native[t.request]
    BY <1>4, <1>8 DEF TaskOK
  <2>2. file' = [file EXCEPT ![t.request] = new]
    BY <1>2, <1>3, <1>8, <2>1 DEF Receipts!Written
  <2>3. new \in AFile
    BY <2>1 DEF AFile
  <2>4. ~Receipts!Keeps(file[t.request], t)
    BY <1>1, <1>2, <1>4, <1>8 DEF BegunOK
  <2> HIDE DEF new
  <2>5. /\ file' \in [Requests -> AFile] /\ file'[t.request] = new
        /\ \A r \in Requests : r # t.request => file'[r] = file[r]
    BY <1>3, <2>1, <2>2, <2>3
  <2>. QED  BY <1>2, <1>3, <1>4, <1>8, <2>1, <2>4, <2>5 DEF new
<1>. QED  BY <1>3, <1>6, <1>7, <1>8 DEF ATask

\* A task writes its file, or removes those of its session.
LEMMA WriteStep ==
  ASSUME ReceiptsInv, NEW s \in Sessions, Receipts!Write(s)
  PROVE  ReceiptsInv'
<1> DEFINE t == tasks[s][1]
<1>1. ReceiptsTyped /\ FileOK /\ TombstonesOK /\ RemovedOK /\ ObservedOK
      /\ Receipts!ConfirmedIsKept /\ Receipts!ListedIsCurrent
  BY DEF ReceiptsInv
<1>2. /\ tasks[s] # <<>> /\ t.begun /\ t \in ATask /\ TaskOK(s, t, native, live)
      /\ file' \in [Requests -> AFile]
      /\ \A r \in Requests : SessionOf[r] # s => file'[r] = file[r]
      /\ t.kind = "remove" =>
           s \notin live /\ \A r \in Requests : SessionOf[r] = s => file'[r] = Receipts!NoFile
      /\ t.kind # "remove" =>
           t.request \in Requests /\ \A r \in Requests : r # t.request => file'[r] = file[r]
      /\ t.kind = "capture" =>
           file[t.request] = Receipts!NoFile /\ file'[t.request] = Receipts!Asked
      /\ t.kind = "resolve" =>
           /\ ~Receipts!Keeps(file[t.request], t)
           /\ file'[t.request] = [stage |-> "resolved", origin |-> t.origin,
                                  decision |-> native[t.request]]
           /\ native[t.request] \in Decided /\ t.origin \in {"native", "client"}
           /\ t.waits = "client" => t.origin = "client"
  BY WrittenFacts
<1>3. Receipts!Ends(s, TRUE) /\ writeFaults' = writeFaults /\ losses' = losses /\ lists' = lists
  BY DEF Receipts!Write, Receipts!bounds
<1>4. /\ DaemonMoves /\ native' = native /\ live' = live /\ subscribed' = subscribed
      /\ tasks' = [tasks EXCEPT ![s] = Tail(tasks[s])]
      /\ observers' = observers /\ deleting' = deleting /\ deleted' = deleted /\ view' = view
  BY <1>2, <1>3, EndsFrame
<1>5. ServerTyped' /\ EventsOK' /\ ClientsOK' /\ WaitsOK'
  BY <1>2, <1>3, EndsServer
<1>6. TasksOK' /\ BegunOK' /\ (tasks'[s] # <<>> => ~tasks'[s][1].begun)
  BY <1>2, <1>4, PopOK
<1>7. /\ \A i \in Instances : list'[i].session = list[i].session \/ list'[i].session = "nobody"
      /\ list' \in [Instances -> [session : Sessions \cup {"nobody"}, tasks : Nat]]
      /\ told' \in [Sessions -> SUBSET Instances] /\ confirmed' \in SUBSET Requests
      /\ \A z \in Sessions : told[z] \subseteq told'[z]
      /\ t.kind = "resolve" /\ s \notin deleted => observers[s] \subseteq told'[s]
      /\ \/ confirmed' = confirmed
         \/ confirmed' = confirmed \cup {t.request} /\ t.kind = "resolve"
            /\ s \notin deleted /\ t.waits = "client"
  BY <1>2, <1>3, EndsReaders
<1>8. ReceiptsTyped'
  <2>1. tasks' \in [Sessions -> Seq(ATask)]
    BY <1>1, <1>2, <1>4, PopFacts
  <2>. QED  BY <1>1, <1>2, <1>3, <1>4, <1>5, <1>7, <2>1
       DEF ReceiptsTyped, DaemonTyped, StoreTyped, ReadersTyped
<1>9. t.kind \in {"capture", "resolve", "remove"}
  BY <1>2 DEF ATask
<1>10. FileOK'
  <2>1. ASSUME NEW r \in Requests
        PROVE  \/ file'[r] = file[r]
               \/ file'[r] = Receipts!NoFile \/ file'[r] = Receipts!Asked
               \/ /\ native[r] \in Decided
                  /\ \E o \in {"native", "client"} :
                       file'[r] = [stage |-> "resolved", origin |-> o, decision |-> native[r]]
    BY <1>2, <1>9
  <2>. QED  BY <1>1, <1>4, <2>1 DEF FileOK
<1>11. TombstonesOK'
  BY <1>1, <1>4 DEF TombstonesOK
<1>12. RemovedOK'
  <2>1. ASSUME NEW z \in deleted
        PROVE  \/ writeFaults > 0
               \/ \E n \in 1..Len(tasks'[z]) : tasks'[z][n].kind = "remove"
               \/ /\ \A r \in Requests : SessionOf[r] = z => file'[r] = Receipts!NoFile
                  /\ tasks'[z] # <<>> => ~tasks'[z][1].begun
    <3>1. z \in Sessions
      BY <1>1 DEF ReceiptsTyped, StoreTyped
    <3>2. CASE z # s
      <4>1. tasks'[z] = tasks[z]
        BY <1>1, <1>2, <1>4, <3>1, <3>2, PopFacts
      <4>. QED  BY <1>1, <1>2, <3>2, <4>1 DEF RemovedOK
    <3>3. CASE z = s /\ t.kind = "remove"
      BY <1>2, <1>6, <3>3
    <3>4. CASE z = s /\ t.kind # "remove"
      <4>1. CASE \E n \in 1..Len(tasks[s]) : tasks[s][n].kind = "remove"
        <5>1. PICK n \in 1..Len(tasks[s]) : tasks[s][n].kind = "remove"
          BY <4>1
        <5>2. n > 1
          BY <3>4, <5>1
        <5>3. n - 1 \in 1..Len(tasks'[s]) /\ tasks'[s][n - 1] = tasks[s][n]
          BY <1>1, <1>2, <1>4, <5>2, PopFacts
        <5>. QED  BY <3>4, <5>1, <5>3
      <4>. QED  BY <1>1, <1>2, <3>4, <4>1 DEF RemovedOK
    <3>. QED  BY <3>2, <3>3, <3>4
  <2>. QED  BY <1>3, <1>4, <2>1 DEF RemovedOK
<1>13. ObservedOK'
  <2>1. \A z \in live : z # "nobody"
    BY <1>1, ReceiptAssumption DEF ReceiptsTyped, DaemonTyped
  <2>. QED  BY <1>1, <1>4, <1>7, <2>1 DEF ObservedOK
<1>14. Receipts!ConfirmedIsKept'
  <2>1. ASSUME NEW r \in confirmed, SessionOf[r] \in live
        PROVE  file'[r] = [stage |-> "resolved", origin |-> "client", decision |-> native[r]]
    <3>1. file[r] = [stage |-> "resolved", origin |-> "client", decision |-> native[r]]
          /\ r \in Requests
      BY <1>1, <2>1 DEF Receipts!ConfirmedIsKept, ReceiptsTyped, ReadersTyped
    <3>2. file[r] # Receipts!NoFile
      BY <3>1 DEF Receipts!NoFile
    <3>3. t.kind = "resolve" => t.request # r
      BY <1>2, <3>1 DEF Receipts!Keeps
    <3>4. file'[r] = file[r]
      BY <1>2, <1>9, <2>1, <3>1, <3>2, <3>3
    <3>. QED  BY <3>1, <3>4
  <2>2. ASSUME NEW r \in confirmed', r \notin confirmed
        PROVE  file'[r] = [stage |-> "resolved", origin |-> "client", decision |-> native[r]]
    BY <1>2, <1>7, <2>2
  <2>. QED  BY <1>4, <2>1, <2>2 DEF Receipts!ConfirmedIsKept
<1>15. Receipts!ListedIsCurrent'
  <2>1. ASSUME NEW i \in Instances, NEW r \in Requests, SessionOf[r] \in live,
               i \notin told'[SessionOf[r]], view[i][r] # Receipts!Unseen
        PROVE  Receipts!Receipt(view[i][r]) = Receipts!Receipt(file'[r])
    <3>1. SessionOf[r] \in Sessions /\ i \notin told[SessionOf[r]]
      BY <1>7, <2>1, ReceiptAssumption
    <3>2. Receipts!Receipt(view[i][r]) = Receipts!Receipt(file[r])
      BY <1>1, <2>1, <3>1 DEF Receipts!ListedIsCurrent
    <3>3. i \in observers[SessionOf[r]]
      BY <1>1, <2>1 DEF ObservedOK
    <3>4. t.kind = "resolve" => SessionOf[r] # s
      BY <1>1, <1>7, <2>1, <3>3 DEF TombstonesOK
    <3>5. Receipts!Receipt(Receipts!NoFile) = Receipts!Receipt(Receipts!Asked)
      BY DEF Receipts!Receipt, Receipts!NoFile, Receipts!Asked
    <3>6. \/ file'[r] = file[r]
          \/ file[r] = Receipts!NoFile /\ file'[r] = Receipts!Asked
      BY <1>2, <1>9, <2>1, <3>4
    <3>. QED  BY <3>2, <3>5, <3>6
  <2>. QED  BY <1>4, <2>1 DEF Receipts!ListedIsCurrent
<1>. QED  BY <1>5, <1>6, <1>8, <1>10, <1>11, <1>12, <1>13, <1>14, <1>15 DEF ReceiptsInv

-----------------------------------------------------------------------------
(* Receipts: the steps of the daemon, of the chains and of the clients *)

\* What the files say stays true while they stay; who was told of a change is not forgotten.
LEMMA FilesStay ==
  ASSUME ReceiptsInv, DaemonMoves, file' = file, confirmed' = confirmed
  PROVE  /\ FileOK' /\ Receipts!ConfirmedIsKept'
         /\ view' = view /\ (\A s \in Sessions : told[s] \subseteq told'[s])
              => Receipts!ListedIsCurrent'
<1>1. FileOK /\ Receipts!ConfirmedIsKept /\ Receipts!ListedIsCurrent /\ confirmed \subseteq Requests
  BY DEF ReceiptsInv, ReceiptsTyped, ReadersTyped
<1>2. FileOK'
  BY <1>1 DEF FileOK, DaemonMoves
<1>3. Receipts!ConfirmedIsKept'
  <2>1. ASSUME NEW r \in confirmed, SessionOf[r] \in live
        PROVE  file[r] = [stage |-> "resolved", origin |-> "client", decision |-> native'[r]]
    <3>1. file[r] = [stage |-> "resolved", origin |-> "client", decision |-> native[r]]
      BY <1>1, <2>1 DEF Receipts!ConfirmedIsKept
    <3>2. file[r] # Receipts!NoFile /\ file[r] # Receipts!Asked
      BY <3>1 DEF Receipts!NoFile, Receipts!Asked
    <3>3. native[r] \in Decided
      BY <1>1, <3>2 DEF FileOK
    <3>. QED  BY <1>1, <3>1, <3>3 DEF DaemonMoves
  <2>. QED  BY <2>1 DEF Receipts!ConfirmedIsKept, DaemonMoves
<1>4. ASSUME view' = view, \A s \in Sessions : told[s] \subseteq told'[s]
      PROVE  Receipts!ListedIsCurrent'
  BY <1>1, <1>4, ReceiptAssumption DEF Receipts!ListedIsCurrent, DaemonMoves
<1>. QED  BY <1>2, <1>3, <1>4

\* The queues stay what they are while nothing joins or leaves them.
LEMMA QueuesStay ==
  ASSUME ReceiptsInv, DaemonMoves, tasks' = tasks, file' = file
  PROVE  /\ TasksOK' /\ BegunOK'
         /\ deleted' = deleted /\ writeFaults' = writeFaults => RemovedOK'
         /\ (\A i \in Instances : events[i] # <<>> => events'[i] # <<>> \/ Receipts!Idle(i))
              => WaitsOK'
<1>1. ReceiptsTyped /\ TasksOK /\ BegunOK /\ WaitsOK /\ RemovedOK
  BY DEF ReceiptsInv
<1>2. \A z \in Sessions : \A n \in 1..Len(tasks[z]) : tasks[z][n] \in ATask
  BY <1>1 DEF ReceiptsTyped, StoreTyped
<1>3. TasksOK'
  BY <1>1, <1>2, TaskStays DEF TasksOK
<1>4. BegunOK'
  BY <1>1 DEF BegunOK
<1>5. ASSUME deleted' = deleted, writeFaults' = writeFaults PROVE RemovedOK'
  BY <1>1, <1>5 DEF RemovedOK
<1>6. ASSUME \A i \in Instances : events[i] # <<>> => events'[i] # <<>> \/ Receipts!Idle(i)
      PROVE  WaitsOK'
  <2>1. \A z \in Sessions : DOMAIN tasks[z] = 1..Len(tasks[z])
    BY <1>1 DEF ReceiptsTyped, StoreTyped
  <2>2. \A i \in Instances : Receipts!Idle(i) =>
          \A z \in Sessions : \A n \in 1..Len(tasks[z]) : tasks[z][n].waits # i
    BY <2>1 DEF Receipts!Idle
  <2>. QED  BY <1>1, <1>6, <2>2 DEF WaitsOK
<1>. QED  BY <1>3, <1>4, <1>5, <1>6

\* A step of the daemon: what it tells is true, no decision is taken back, no session returns.
LEMMA DaemonStep ==
  ASSUME ReceiptsInv, DaemonMoves, NEW e \in AnEvent, EventOK(e, native', live'),
         \/ events' = [i \in Instances |-> Append(events[i], e)]
         \/ Receipts!Tell(e)
         \/ events' = events,
         native' \in [Requests -> Natives], live' \in SUBSET Sessions, subscribed' \in BOOLEAN,
         deleting' \in SUBSET Sessions, \A s \in live' : s \in deleting' => s \in deleting,
         client' \in [Requests -> Progress],
         \A r \in Requests : client'[r] \in {"sent", "confirming"} =>
           native'[r] \in Decided,
         observers' = observers \/ \E i \in Instances, s \in Sessions : Receipts!Observe(i, s),
         tasks' = tasks, deleted' = deleted, file' = file,
         list' = list, view' = view, told' = told, confirmed' = confirmed,
         writeFaults' = writeFaults, losses' \in Nat, lists' = lists
  PROVE  ReceiptsInv'
<1>1. ReceiptsTyped /\ EventsOK /\ TombstonesOK /\ ObservedOK
  BY DEF ReceiptsInv
<1>2. /\ events' \in [Instances -> Seq(AnEvent)] /\ EventsOK'
      /\ \A i \in Instances : events[i] # <<>> => events'[i] # <<>>
  <2>1. CASE events' = events
    <3>1. \A i \in Instances : \A n \in 1..Len(events[i]) : events[i][n] \in AnEvent
      BY <1>1 DEF ReceiptsTyped, ServerTyped
    <3>. QED  BY <1>1, <2>1, <3>1, EventStays DEF EventsOK, ReceiptsTyped, ServerTyped
  <2>. QED  BY <1>1, <2>1, ChainsGrow
<1>3. TasksOK' /\ BegunOK' /\ RemovedOK' /\ WaitsOK'
  BY <1>2, QueuesStay
<1>4. FileOK' /\ Receipts!ConfirmedIsKept' /\ Receipts!ListedIsCurrent'
  BY FilesStay
<1>5. observers' \in [Sessions -> SUBSET Instances]
      /\ \A s \in Sessions : observers[s] \subseteq observers'[s]
  BY <1>1 DEF ReceiptsTyped, ServerTyped, Receipts!Observe
<1>6. ReceiptsTyped'
  BY <1>1, <1>2, <1>5 DEF ReceiptsTyped, DaemonTyped, ServerTyped, StoreTyped, ReadersTyped
<1>7. ClientsOK'
  BY DEF ClientsOK
<1>8. TombstonesOK'
  BY <1>1 DEF TombstonesOK, DaemonMoves
<1>9. ObservedOK'
  BY <1>1, <1>5 DEF ObservedOK, DaemonMoves, ReceiptsTyped, DaemonTyped
<1>. QED  BY <1>2, <1>3, <1>4, <1>6, <1>7, <1>8, <1>9 DEF ReceiptsInv

\* Any event that is not about a request or a session.
Blank == [kind |-> "recover", request |-> "nobody", session |-> "nobody", todo |-> {}]

LEMMA BlankFacts == Blank \in AnEvent /\ \A d, a : EventOK(Blank, d, a)
  BY DEF Blank, AnEvent, EventOK

LEMMA AskStep ==
  ASSUME ReceiptsInv, NEW r \in Requests, Receipts!Ask(r)
  PROVE  ReceiptsInv'
<1> DEFINE e == Receipts!Event("asked", r, SessionOf[r])
<1>1. ReceiptsTyped /\ ClientsOK
  BY DEF ReceiptsInv
<1>2. e \in AnEvent /\ EventOK(e, native', live')
  BY ReceiptAssumption DEF Receipts!Event, AnEvent, EventOK
<1>3. Receipts!Tell(e) /\ native[r] = "none" /\ native' = [native EXCEPT ![r] = "pending"]
  BY DEF Receipts!Ask
<1>4. native' \in [Requests -> Natives] /\ \A x \in Requests : x # r => native'[x] = native[x]
  BY <1>1, <1>3 DEF ReceiptsTyped, DaemonTyped, Natives
<1>5. UNCHANGED <<live, subscribed, observers, client, deleting, tasks, deleted, file,
                  list, view, told, confirmed, writeFaults, losses, lists>>
  BY DEF Receipts!Ask, Receipts!store, Receipts!readers, Receipts!bounds
<1>6. DaemonMoves /\ native[r] \notin Decided
  BY <1>3, <1>4, <1>5 DEF DaemonMoves, Decided
<1>7. \A x \in Requests : client'[x] \in {"sent", "confirming"} => native'[x] \in Decided
  BY <1>1, <1>4, <1>5, <1>6 DEF ClientsOK
<1> HIDE DEF e
<1>8. losses' \in Nat /\ live' \in SUBSET Sessions /\ subscribed' \in BOOLEAN
      /\ deleting' \in SUBSET Sessions /\ client' \in [Requests -> Progress]
  BY <1>1, <1>5 DEF ReceiptsTyped, DaemonTyped, ServerTyped, ReadersTyped
<1>. QED  BY <1>2, <1>3, <1>4, <1>5, <1>6, <1>7, <1>8, DaemonStep

\* A decision of the daemon: the request was pending.
LEMMA RepliedFacts ==
  ASSUME ReceiptsTyped, NEW r \in Requests, NEW d \in Decided, native[r] = "pending",
         Receipts!Replied(r, d)
  PROVE  LET e == Receipts!Event("replied", r, SessionOf[r]) IN
         /\ e \in AnEvent /\ EventOK(e, native', live') /\ Receipts!Tell(e)
         /\ native' \in [Requests -> Natives] /\ native'[r] = d /\ DaemonMoves
         /\ \A x \in Requests : x # r => native'[x] = native[x]
         /\ live' = live /\ subscribed' = subscribed
<1>1. native' = [native EXCEPT ![r] = d] /\ live' = live /\ subscribed' = subscribed
      /\ Receipts!Tell(Receipts!Event("replied", r, SessionOf[r]))
  BY DEF Receipts!Replied
<1>2. native' \in [Requests -> Natives] /\ native'[r] = d
      /\ \A x \in Requests : x # r => native'[x] = native[x]
  BY <1>1 DEF ReceiptsTyped, DaemonTyped, Natives
<1>3. DaemonMoves
  BY <1>1, <1>2 DEF DaemonMoves, Decided
<1>4. Receipts!Event("replied", r, SessionOf[r]) \in AnEvent
      /\ EventOK(Receipts!Event("replied", r, SessionOf[r]), native', live')
  BY <1>2, ReceiptAssumption DEF Receipts!Event, AnEvent, EventOK
<1>. QED  BY <1>1, <1>2, <1>3, <1>4

LEMMA NativeReplyStep ==
  ASSUME ReceiptsInv, NEW r \in Requests, NEW d \in Decided, Receipts!NativeReply(r, d)
  PROVE  ReceiptsInv'
<1> DEFINE e == Receipts!Event("replied", r, SessionOf[r])
<1>1. ReceiptsTyped /\ ClientsOK
  BY DEF ReceiptsInv
<1>2. /\ e \in AnEvent /\ EventOK(e, native', live') /\ Receipts!Tell(e)
      /\ native' \in [Requests -> Natives] /\ native'[r] = d /\ DaemonMoves
      /\ \A x \in Requests : x # r => native'[x] = native[x]
      /\ live' = live /\ subscribed' = subscribed
  BY <1>1, RepliedFacts DEF Receipts!NativeReply
<1> HIDE DEF e
<1>3. UNCHANGED <<observers, client, deleting, tasks, deleted, file,
                  list, view, told, confirmed, writeFaults, losses, lists>>
  BY DEF Receipts!NativeReply, Receipts!store, Receipts!readers, Receipts!bounds
<1>4. \A x \in Requests : client'[x] \in {"sent", "confirming"} => native'[x] \in Decided
  BY <1>1, <1>2, <1>3 DEF ClientsOK
<1>5. losses' \in Nat /\ live' \in SUBSET Sessions /\ subscribed' \in BOOLEAN
      /\ deleting' \in SUBSET Sessions /\ client' \in [Requests -> Progress]
  BY <1>1, <1>2, <1>3 DEF ReceiptsTyped, DaemonTyped, ServerTyped, ReadersTyped
<1>. QED  BY <1>2, <1>3, <1>4, <1>5, DaemonStep

LEMMA DispatchStep ==
  ASSUME ReceiptsInv, NEW r \in Requests, NEW d \in Decided, Receipts!Dispatch(r, d)
  PROVE  ReceiptsInv'
<1> DEFINE e == Receipts!Event("replied", r, SessionOf[r])
<1>1. ReceiptsTyped /\ ClientsOK /\ client \in [Requests -> Progress]
  BY DEF ReceiptsInv, ReceiptsTyped, ServerTyped
<1>2. /\ UNCHANGED <<deleting, tasks, deleted, file,
                     list, view, told, confirmed, writeFaults, losses, lists>>
      /\ \E i \in Instances, s \in Sessions : Receipts!Observe(i, s)
  BY ReceiptAssumption DEF Receipts!Dispatch, Receipts!store, Receipts!readers, Receipts!bounds
<1>3. losses' \in Nat /\ deleting' \in SUBSET Sessions
  BY <1>1, <1>2 DEF ReceiptsTyped, ServerTyped, ReadersTyped
<1>4. CASE native[r] = "pending"
  <2>1. Receipts!Replied(r, d) /\ client' = [client EXCEPT ![r] = "sent"]
    BY <1>4 DEF Receipts!Dispatch
  <2>2. /\ e \in AnEvent /\ EventOK(e, native', live') /\ Receipts!Tell(e)
        /\ native' \in [Requests -> Natives] /\ native'[r] = d /\ DaemonMoves
        /\ \A x \in Requests : x # r => native'[x] = native[x]
        /\ live' = live /\ subscribed' = subscribed
    BY <1>1, <1>4, <2>1, RepliedFacts
  <2> HIDE DEF e
  <2>3. client' \in [Requests -> Progress] /\ \A x \in Requests : x # r => client'[x] = client[x]
    BY <1>1, <2>1 DEF Progress
  <2>4. \A x \in Requests : client'[x] \in {"sent", "confirming"} => native'[x] \in Decided
    BY <1>1, <2>2, <2>3 DEF ClientsOK
  <2>5. live' \in SUBSET Sessions /\ subscribed' \in BOOLEAN
    BY <1>1, <2>2 DEF ReceiptsTyped, DaemonTyped
  <2>. QED  BY <1>2, <1>3, <2>2, <2>3, <2>4, <2>5, DaemonStep
<1>5. CASE native[r] # "pending"
  <2>1. client' = [client EXCEPT ![r] = "failed"] /\ UNCHANGED <<native, live, subscribed, events>>
    BY <1>5 DEF Receipts!Dispatch, Receipts!daemon
  <2>2. client' \in [Requests -> Progress]
        /\ \A x \in Requests : client'[x] \in {"sent", "confirming"} => client'[x] = client[x]
    BY <1>1, <2>1 DEF Progress
  <2>3. \A x \in Requests : client'[x] \in {"sent", "confirming"} => native'[x] \in Decided
    BY <1>1, <2>1, <2>2 DEF ClientsOK
  <2>4. DaemonMoves /\ native' \in [Requests -> Natives]
        /\ live' \in SUBSET Sessions /\ subscribed' \in BOOLEAN
    BY <1>1, <2>1 DEF DaemonMoves, ReceiptsTyped, DaemonTyped
  <2>. QED  BY <1>2, <1>3, <2>1, <2>2, <2>3, <2>4, BlankFacts, DaemonStep
<1>. QED  BY <1>4, <1>5

\* Sessions are deleted: their pending requests are gone.
LEMMA DeleteStep ==
  ASSUME ReceiptsInv, NEW s \in Sessions, NEW here \in BOOLEAN, Receipts!Delete(s, here)
  PROVE  ReceiptsInv'
<1> DEFINE e == Receipts!Event("deleted", "nobody", s)
<1>1. ReceiptsTyped /\ ClientsOK
  BY DEF ReceiptsInv
<1>2. /\ s \in live /\ live' = live \ {s} /\ Receipts!Tell(e)
      /\ native' = [r \in Requests |->
           IF SessionOf[r] = s /\ native[r] = "pending" THEN "gone" ELSE native[r]]
      /\ deleting' = IF here THEN deleting \cup {s} ELSE deleting
      /\ UNCHANGED <<subscribed, observers, client, tasks, deleted, file,
                     list, view, told, confirmed, writeFaults, losses, lists>>
  BY DEF Receipts!Delete, Receipts!store, Receipts!readers, Receipts!bounds, Receipts!Nobody
<1>3. e \in AnEvent /\ EventOK(e, native', live')
  BY <1>2 DEF Receipts!Event, AnEvent, EventOK
<1> HIDE DEF e
<1>4. /\ native' \in [Requests -> Natives]
      /\ \A r \in Requests : native[r] \in Decided => native'[r] = native[r]
  BY <1>1, <1>2 DEF ReceiptsTyped, DaemonTyped, Natives, Decided
<1>5. DaemonMoves
  BY <1>2, <1>4 DEF DaemonMoves
<1>6. \A x \in Requests : client'[x] \in {"sent", "confirming"} => native'[x] \in Decided
  BY <1>1, <1>2, <1>4 DEF ClientsOK
<1>7. /\ losses' \in Nat /\ live' \in SUBSET Sessions /\ subscribed' \in BOOLEAN
      /\ deleting' \in SUBSET Sessions /\ client' \in [Requests -> Progress]
      /\ \A z \in live' : z \in deleting' => z \in deleting
  BY <1>1, <1>2 DEF ReceiptsTyped, DaemonTyped, ServerTyped, ReadersTyped
<1>. QED  BY <1>2, <1>3, <1>4, <1>5, <1>6, <1>7, DaemonStep

\* The subscription ends.
LEMMA LossStep ==
  ASSUME ReceiptsInv, Receipts!Loss
  PROVE  ReceiptsInv'
<1>1. ReceiptsTyped /\ ClientsOK
  BY DEF ReceiptsInv
<1>2. /\ subscribed' = FALSE /\ losses' = losses + 1
      /\ UNCHANGED <<native, live, events, observers, client, deleting, tasks, deleted, file,
                     list, view, told, confirmed, writeFaults, lists>>
  BY DEF Receipts!Loss, Receipts!server, Receipts!store, Receipts!readers
<1>3. DaemonMoves
  BY <1>2 DEF DaemonMoves
<1>4. losses \in Nat
  BY <1>1 DEF ReceiptsTyped, ReadersTyped
<1>5. losses' \in Nat
  BY <1>2, <1>4
<1>6. /\ live' \in SUBSET Sessions /\ subscribed' \in BOOLEAN
      /\ deleting' \in SUBSET Sessions /\ client' \in [Requests -> Progress]
      /\ native' \in [Requests -> Natives]
  BY <1>1, <1>2 DEF ReceiptsTyped, DaemonTyped, ServerTyped
<1>7. \A x \in Requests : client'[x] \in {"sent", "confirming"} => native'[x] \in Decided
  BY <1>1, <1>2 DEF ClientsOK
<1>. QED  BY <1>2, <1>3, <1>5, <1>6, <1>7, BlankFacts, DaemonStep

\* The subscription is back, and every chain is to recover what is pending.
LEMMA ConnectedStep ==
  ASSUME ReceiptsInv, Receipts!Connected
  PROVE  ReceiptsInv'
<1>1. ReceiptsTyped /\ ClientsOK
  BY DEF ReceiptsInv
<1>2. /\ subscribed' = TRUE
      /\ events' = [i \in Instances |-> Append(events[i], Blank)]
      /\ UNCHANGED <<native, live, observers, client, deleting, tasks, deleted, file,
                     list, view, told, confirmed, writeFaults, losses, lists>>
  BY DEF Receipts!Connected, Receipts!store, Receipts!readers, Receipts!bounds,
         Receipts!Event, Receipts!Nobody, Blank
<1>3. DaemonMoves
  BY <1>2 DEF DaemonMoves
<1>4. /\ losses' \in Nat /\ live' \in SUBSET Sessions /\ subscribed' \in BOOLEAN
      /\ deleting' \in SUBSET Sessions /\ client' \in [Requests -> Progress]
      /\ native' \in [Requests -> Natives]
      /\ \A x \in Requests : client'[x] \in {"sent", "confirming"} => native'[x] \in Decided
  BY <1>1, <1>2 DEF ReceiptsTyped, DaemonTyped, ServerTyped, ReadersTyped, ClientsOK
<1>. QED  BY <1>2, <1>3, <1>4, BlankFacts, DaemonStep

\* The answer of the daemon does not arrive.
LEMMA ResponseLostStep ==
  ASSUME ReceiptsInv, NEW r \in Requests, Receipts!ResponseLost(r)
  PROVE  ReceiptsInv'
<1>1. ReceiptsTyped /\ ClientsOK /\ client \in [Requests -> Progress]
  BY DEF ReceiptsInv, ReceiptsTyped, ServerTyped
<1>2. /\ client' = [client EXCEPT ![r] = "failed"]
      /\ UNCHANGED <<native, live, subscribed, events, observers, deleting, tasks, deleted, file,
                     list, view, told, confirmed, writeFaults, losses, lists>>
  BY DEF Receipts!ResponseLost, Receipts!daemon, Receipts!store, Receipts!readers,
         Receipts!bounds
<1>3. DaemonMoves
  BY <1>2 DEF DaemonMoves
<1>4. client' \in [Requests -> Progress]
      /\ \A x \in Requests : client'[x] \in {"sent", "confirming"} => client'[x] = client[x]
  BY <1>1, <1>2 DEF Progress
<1>5. /\ losses' \in Nat /\ live' \in SUBSET Sessions /\ subscribed' \in BOOLEAN
      /\ deleting' \in SUBSET Sessions
      /\ native' \in [Requests -> Natives]
      /\ \A x \in Requests : client'[x] \in {"sent", "confirming"} => native'[x] \in Decided
  BY <1>1, <1>2, <1>4 DEF ReceiptsTyped, DaemonTyped, ServerTyped, ReadersTyped, ClientsOK
<1>. QED  BY <1>2, <1>3, <1>4, <1>5, BlankFacts, DaemonStep

\* A step that adds a task to a queue: the task is about its session, and if it is a removal
\* the session is no more.
LEMMA EnqueueStep ==
  ASSUME ReceiptsInv, NEW s \in Sessions, NEW t \in ATask, ~t.begun, Receipts!Enqueue(s, t),
         TaskOK(s, t, native, live),
         native' = native, live' = live, subscribed' = subscribed, file' = file,
         events' \in [Instances -> Seq(AnEvent)], EventsOK',
         \A i \in Instances : events[i] # <<>> => events'[i] # <<>>,
         t.waits \in Instances => Receipts!Idle(t.waits),
         client' \in [Requests -> Progress],
         \A x \in Requests : client'[x] \in {"sent", "confirming"} => native[x] \in Decided,
         deleting' \subseteq deleting,
         \/ deleted' = deleted
         \/ deleted' = deleted \cup {s} /\ t.kind = "remove",
         observers' \in [Sessions -> SUBSET Instances],
         \A z \in live : observers[z] \subseteq observers'[z],
         list' = list, view' = view, told' = told, confirmed' = confirmed,
         writeFaults' = writeFaults, losses' = losses, lists' \in Nat
  PROVE  ReceiptsInv'
<1>1. ReceiptsTyped /\ TombstonesOK /\ ObservedOK
  BY DEF ReceiptsInv
<1>2. DaemonMoves
  BY DEF DaemonMoves
<1>3. TasksOK' /\ BegunOK'
  BY <1>2, EnqueueOK
<1>4. WaitsOK'
  BY EnqueueWaits
<1>5. RemovedOK'
  BY EnqueueRemoved
<1>6. FileOK' /\ Receipts!ConfirmedIsKept' /\ Receipts!ListedIsCurrent'
  BY <1>2, FilesStay
<1>7. tasks' \in [Sessions -> Seq(ATask)]
  BY <1>1, EnqueueFacts
<1>8. ReceiptsTyped'
  BY <1>1, <1>7 DEF ReceiptsTyped, DaemonTyped, ServerTyped, StoreTyped, ReadersTyped
<1>9. ClientsOK'
  BY DEF ClientsOK
<1>10. TombstonesOK'
  BY <1>1 DEF TombstonesOK, TaskOK
<1>11. ObservedOK'
  BY <1>1 DEF ObservedOK
<1>. QED  BY <1>3, <1>4, <1>5, <1>6, <1>8, <1>9, <1>10, <1>11 DEF ReceiptsInv

\* An observer more.
LEMMA ObserveFacts ==
  ASSUME ReceiptsTyped, NEW i \in Instances, NEW s \in Sessions, Receipts!Observe(i, s)
  PROVE  /\ observers' \in [Sessions -> SUBSET Instances] /\ i \in observers'[s]
         /\ \A z \in Sessions : observers[z] \subseteq observers'[z]
  BY DEF Receipts!Observe, ReceiptsTyped, ServerTyped

LEMMA PrepareStep ==
  ASSUME ReceiptsInv, NEW r \in Requests, Receipts!Prepare(r)
  PROVE  ReceiptsInv'
<1> DEFINE t == Receipts!Task("capture", r, "nobody", "nobody", "client")
<1>1. ReceiptsTyped /\ ClientsOK /\ EventsOK /\ client \in [Requests -> Progress]
  BY DEF ReceiptsInv, ReceiptsTyped, ServerTyped
<1>2. /\ client' = [client EXCEPT ![r] = "preparing"] /\ Receipts!Enqueue(SessionOf[r], t)
      /\ UNCHANGED <<native, live, subscribed, events, observers, deleting, deleted, file,
                     list, view, told, confirmed, writeFaults, losses, lists>>
  BY DEF Receipts!Prepare, Receipts!daemon, Receipts!readers, Receipts!bounds,
         Receipts!Nobody, Receipts!Client
<1>3. t \in ATask /\ ~t.begun /\ TaskOK(SessionOf[r], t, native, live)
      /\ SessionOf[r] \in Sessions /\ t.waits \notin Instances
  BY ReceiptAssumption DEF Receipts!Task, ATask, TaskOK
<1> HIDE DEF t
<1>4. client' \in [Requests -> Progress]
      /\ \A x \in Requests : client'[x] \in {"sent", "confirming"} => native[x] \in Decided
  BY <1>1, <1>2 DEF Progress, ClientsOK
<1>5. events' \in [Instances -> Seq(AnEvent)] /\ EventsOK'
      /\ observers' \in [Sessions -> SUBSET Instances] /\ lists' \in Nat
      /\ \A z \in live : observers[z] \subseteq observers'[z]
  BY <1>1, <1>2 DEF ReceiptsTyped, ServerTyped, ReadersTyped, EventsOK
<1>. QED  BY <1>2, <1>3, <1>4, <1>5, EnqueueStep

LEMMA ConfirmStep ==
  ASSUME ReceiptsInv, NEW r \in Requests, Receipts!Confirm(r)
  PROVE  ReceiptsInv'
<1> DEFINE t == Receipts!Task("resolve", r, "client", native[r], "client")
<1>1. ReceiptsTyped /\ ClientsOK /\ EventsOK /\ client \in [Requests -> Progress]
  BY DEF ReceiptsInv, ReceiptsTyped, ServerTyped
<1>2. /\ client[r] = "sent" /\ client' = [client EXCEPT ![r] = "confirming"]
      /\ Receipts!Enqueue(SessionOf[r], t) /\ Receipts!Observe(Through[r], SessionOf[r])
      /\ UNCHANGED <<native, live, subscribed, events, deleting, deleted, file,
                     list, view, told, confirmed, writeFaults, losses, lists>>
  BY DEF Receipts!Confirm, Receipts!daemon, Receipts!readers, Receipts!bounds,
         Receipts!Client
<1>3. native[r] \in Decided
  BY <1>1, <1>2 DEF ClientsOK
<1>4. t \in ATask /\ ~t.begun /\ TaskOK(SessionOf[r], t, native, live)
      /\ SessionOf[r] \in Sessions /\ t.waits \notin Instances
  BY <1>3, ReceiptAssumption DEF Receipts!Task, ATask, TaskOK
<1> HIDE DEF t
<1>5. client' \in [Requests -> Progress]
      /\ \A x \in Requests : client'[x] \in {"sent", "confirming"} => native[x] \in Decided
  BY <1>1, <1>2, <1>3 DEF Progress, ClientsOK
<1>6. /\ observers' \in [Sessions -> SUBSET Instances]
      /\ \A z \in Sessions : observers[z] \subseteq observers'[z]
  BY <1>1, <1>2, ReceiptAssumption, ObserveFacts
<1>7. events' \in [Instances -> Seq(AnEvent)] /\ EventsOK' /\ lists' \in Nat
      /\ live \subseteq Sessions
  BY <1>1, <1>2 DEF ReceiptsTyped, DaemonTyped, ServerTyped, ReadersTyped, EventsOK
<1>. QED  BY <1>2, <1>4, <1>5, <1>6, <1>7, EnqueueStep

LEMMA ConfirmDeletionStep ==
  ASSUME ReceiptsInv, NEW s \in Sessions, Receipts!ConfirmDeletion(s)
  PROVE  ReceiptsInv'
<1> DEFINE t == Receipts!Task("remove", "nobody", "nobody", "nobody", "nobody")
<1>1. ReceiptsTyped /\ ClientsOK /\ EventsOK /\ TombstonesOK
  BY DEF ReceiptsInv
<1>2. /\ s \in deleting /\ deleting' = deleting \ {s} /\ deleted' = deleted \cup {s}
      /\ Receipts!Enqueue(s, t)
      /\ UNCHANGED <<native, live, subscribed, events, observers, client, file,
                     list, view, told, confirmed, writeFaults, losses, lists>>
  BY DEF Receipts!ConfirmDeletion, Receipts!Remove, Receipts!daemon, Receipts!readers,
         Receipts!bounds, Receipts!Nobody
<1>3. s \notin live
  BY <1>1, <1>2 DEF TombstonesOK
<1>4. t \in ATask /\ ~t.begun /\ TaskOK(s, t, native, live) /\ t.waits \notin Instances
      /\ t.kind = "remove"
  BY <1>3, ReceiptAssumption DEF Receipts!Task, ATask, TaskOK
<1> HIDE DEF t
<1>5. /\ client' \in [Requests -> Progress]
      /\ \A x \in Requests : client'[x] \in {"sent", "confirming"} => native[x] \in Decided
      /\ events' \in [Instances -> Seq(AnEvent)] /\ EventsOK' /\ lists' \in Nat
      /\ observers' \in [Sessions -> SUBSET Instances]
  BY <1>1, <1>2 DEF ReceiptsTyped, ServerTyped, ReadersTyped, EventsOK, ClientsOK
<1>. QED  BY <1>2, <1>4, <1>5, EnqueueStep

\* The event at the head of a chain adds its task to the queue of its session.
LEMMA HandleStep ==
  ASSUME ReceiptsInv, NEW i \in Instances, Receipts!Handle(i)
  PROVE  ReceiptsInv'
<1> DEFINE e == events[i][1]
           s == e.session
<1>1. ReceiptsTyped /\ ClientsOK /\ EventsOK
  BY DEF ReceiptsInv
<1>2. Receipts!Idle(i) /\ events[i] # <<>>
      /\ UNCHANGED <<native, live, subscribed, events, client, deleting, file,
                     list, view, told, confirmed, writeFaults, losses, lists>>
  BY DEF Receipts!Handle, Receipts!Idle, Receipts!daemon, Receipts!readers, Receipts!bounds
<1>3. Head(events[i]) = e /\ e \in AnEvent /\ EventOK(e, native, live)
  <2>1. events[i] \in Seq(AnEvent)
    BY <1>1 DEF ReceiptsTyped, ServerTyped
  <2>2. Head(events[i]) = e /\ e \in AnEvent /\ 1 \in 1..Len(events[i])
    BY <1>2, <2>1, TailFacts
  <2>. QED  BY <1>1, <2>2 DEF EventsOK
<1> HIDE DEF e
<1>4. /\ client' \in [Requests -> Progress]
      /\ \A x \in Requests : client'[x] \in {"sent", "confirming"} => native[x] \in Decided
      /\ events' \in [Instances -> Seq(AnEvent)] /\ EventsOK' /\ lists' \in Nat
      /\ live \subseteq Sessions
  BY <1>1, <1>2 DEF ReceiptsTyped, DaemonTyped, ServerTyped, ReadersTyped, EventsOK, ClientsOK
<1>5. \/ /\ e.kind = "asked" /\ Receipts!Observe(i, s) /\ deleted' = deleted
         /\ Receipts!Enqueue(s, Receipts!Task("capture", e.request, "nobody", "nobody", i))
      \/ /\ e.kind = "replied" /\ Receipts!Observe(i, s) /\ deleted' = deleted
         /\ Receipts!Enqueue(s, Receipts!Task("resolve", e.request, "native",
                                              native[e.request], i))
      \/ /\ e.kind = "deleted" /\ observers' = [observers EXCEPT ![s] = {}]
         /\ deleted' = deleted \cup {s}
         /\ Receipts!Enqueue(s, Receipts!Task("remove", "nobody", "nobody", "nobody", i))
  BY <1>3 DEF Receipts!Handle, Receipts!Remove, Receipts!Nobody
<1>6. CASE e.kind = "asked"
  <2> DEFINE t == Receipts!Task("capture", e.request, "nobody", "nobody", i)
  <2>1. Receipts!Observe(i, s) /\ deleted' = deleted /\ Receipts!Enqueue(s, t)
    BY <1>5, <1>6
  <2>2. s \in Sessions /\ t \in ATask /\ ~t.begun /\ TaskOK(s, t, native, live)
    BY <1>3, <1>6, ReceiptAssumption DEF EventOK, Receipts!Task, ATask, TaskOK
  <2>3. t.waits = i
    BY DEF Receipts!Task
  <2> HIDE DEF t
  <2>4. /\ observers' \in [Sessions -> SUBSET Instances]
        /\ \A z \in Sessions : observers[z] \subseteq observers'[z]
    BY <1>1, <2>1, <2>2, ObserveFacts
  <2>. QED  BY <1>2, <1>4, <2>1, <2>2, <2>3, <2>4, EnqueueStep
<1>7. CASE e.kind = "replied"
  <2> DEFINE t == Receipts!Task("resolve", e.request, "native", native[e.request], i)
  <2>1. Receipts!Observe(i, s) /\ deleted' = deleted /\ Receipts!Enqueue(s, t)
    BY <1>5, <1>7
  <2>2. s \in Sessions /\ t \in ATask /\ ~t.begun /\ TaskOK(s, t, native, live)
    BY <1>3, <1>7, ReceiptAssumption DEF EventOK, Receipts!Task, ATask, TaskOK
  <2>3. t.waits = i
    BY DEF Receipts!Task
  <2> HIDE DEF t
  <2>4. /\ observers' \in [Sessions -> SUBSET Instances]
        /\ \A z \in Sessions : observers[z] \subseteq observers'[z]
    BY <1>1, <2>1, <2>2, ObserveFacts
  <2>. QED  BY <1>2, <1>4, <2>1, <2>2, <2>3, <2>4, EnqueueStep
<1>8. CASE e.kind = "deleted"
  <2> DEFINE t == Receipts!Task("remove", "nobody", "nobody", "nobody", i)
  <2>1. /\ observers' = [observers EXCEPT ![s] = {}] /\ deleted' = deleted \cup {s}
        /\ Receipts!Enqueue(s, t)
    BY <1>5, <1>8
  <2>2. s \in Sessions /\ s \notin live
    BY <1>3, <1>8 DEF EventOK
  <2>3. t \in ATask /\ ~t.begun /\ TaskOK(s, t, native, live) /\ t.waits = i
        /\ t.kind = "remove"
    BY <2>2 DEF Receipts!Task, ATask, TaskOK
  <2> HIDE DEF t
  <2>4. /\ observers' \in [Sessions -> SUBSET Instances]
        /\ \A z \in live : observers[z] \subseteq observers'[z]
    BY <1>1, <2>1, <2>2 DEF ReceiptsTyped, ServerTyped
  <2>. QED  BY <1>2, <1>4, <2>1, <2>2, <2>3, <2>4, EnqueueStep
<1>. QED  BY <1>5, <1>6, <1>7, <1>8

\* A step of a chain whose head waits for no task.
LEMMA ChainStep ==
  ASSUME ReceiptsInv, NEW i \in Instances, Receipts!Idle(i),
         events' \in [Instances -> Seq(AnEvent)], EventsOK',
         \A j \in Instances : j # i => events'[j] = events[j],
         UNCHANGED <<native, live, subscribed, observers, client, deleting, tasks, deleted, file,
                     list, view, told, confirmed, writeFaults, lists>>,
         losses' \in Nat
  PROVE  ReceiptsInv'
<1>1. ReceiptsTyped /\ ClientsOK /\ TombstonesOK /\ ObservedOK
  BY DEF ReceiptsInv
<1>2. DaemonMoves
  BY DEF DaemonMoves
<1>3. TasksOK' /\ BegunOK' /\ RemovedOK'
  BY <1>2, QueuesStay
<1>4. WaitsOK'
  <2>1. \A j \in Instances : events[j] # <<>> => events'[j] # <<>> \/ Receipts!Idle(j)
    OBVIOUS
  <2>. QED  BY <1>2, <2>1, QueuesStay
<1>5. FileOK' /\ Receipts!ConfirmedIsKept' /\ Receipts!ListedIsCurrent'
  BY <1>2, FilesStay
<1>6. ReceiptsTyped'
  BY <1>1 DEF ReceiptsTyped, DaemonTyped, ServerTyped, StoreTyped, ReadersTyped
<1>7. ClientsOK' /\ TombstonesOK' /\ ObservedOK'
  BY <1>1 DEF ClientsOK, TombstonesOK, ObservedOK
<1>. QED  BY <1>3, <1>4, <1>5, <1>6, <1>7 DEF ReceiptsInv

\* A head that is replaced by a recovery still to do.
LEMMA TodoFacts ==
  ASSUME ReceiptsTyped, EventsOK, native' = native, live' = live,
         NEW i \in Instances, events[i] # <<>>, NEW e \in AnEvent, e.kind = "recover",
         \/ events' = [events EXCEPT ![i] = [events[i] EXCEPT ![1] = e]]
         \/ events' = [events EXCEPT ![i] = <<e>> \o Tail(events[i])]
  PROVE  /\ events' \in [Instances -> Seq(AnEvent)] /\ EventsOK'
         /\ \A j \in Instances : events[j] # <<>> => events'[j] # <<>>
<1>1. events \in [Instances -> Seq(AnEvent)]
  BY DEF ReceiptsTyped, ServerTyped
<1>2. /\ events'[i] \in Seq(AnEvent) /\ Len(events'[i]) = Len(events[i]) /\ events'[i] # <<>>
      /\ events'[i][1] = e /\ \A n \in 1..Len(events[i]) : n > 1 => events'[i][n] = events[i][n]
  <2>1. CASE events' = [events EXCEPT ![i] = [events[i] EXCEPT ![1] = e]]
    BY <1>1, <2>1, HeadFacts
  <2>2. CASE events' = [events EXCEPT ![i] = <<e>> \o Tail(events[i])]
    <3> DEFINE q == Tail(events[i])
               p == <<e>> \o q
    <3>1. /\ q \in Seq(AnEvent) /\ Len(q) = Len(events[i]) - 1 /\ Len(events[i]) \in Nat \ {0}
          /\ \A n \in 1..Len(events[i]) : n > 1 =>
               n - 1 \in 1..Len(q) /\ q[n - 1] = events[i][n]
      BY <1>1, TailFacts
    <3>2. <<e>> \in Seq(AnEvent) /\ Len(<<e>>) = 1 /\ <<e>>[1] = e
      OBVIOUS
    <3> HIDE DEF q
    <3>3. /\ p \in Seq(AnEvent) /\ Len(p) = 1 + Len(q)
          /\ \A n \in 1..(1 + Len(q)) : p[n] = IF n <= 1 THEN <<e>>[n] ELSE q[n - 1]
      BY <3>1, <3>2, ConcatProperties
    <3> HIDE DEF p
    <3>4. events'[i] = p
      BY <1>1, <2>2 DEF p, q
    <3>5. p # <<>> /\ p[1] = e
      BY <3>1, <3>2, <3>3
    <3>6. \A n \in 1..Len(events[i]) : n > 1 => p[n] = events[i][n]
      BY <3>1, <3>3
    <3>. QED  BY <3>1, <3>3, <3>4, <3>5, <3>6
  <2>. QED  BY <2>1, <2>2
<1>3. \A j \in Instances : j # i => events'[j] = events[j]
  BY <1>1
<1>4. events' \in [Instances -> Seq(AnEvent)]
  <2>1. DOMAIN events' = Instances /\ events' = [j \in Instances |-> events'[j]]
    BY <1>1
  <2>. QED  BY <1>1, <1>2, <1>3, <2>1
<1>5. ASSUME NEW j \in Instances, NEW n \in 1..Len(events'[j])
      PROVE  EventOK(events'[j][n], native, live)
  <2>1. EventOK(e, native, live)
    BY DEF EventOK
  <2>2. CASE j # i
    BY <1>3, <2>2 DEF EventsOK
  <2>3. CASE j = i /\ n > 1
    BY <1>2, <2>3 DEF EventsOK
  <2>4. CASE j = i /\ n = 1
    BY <1>2, <2>1, <2>4
  <2>. QED  BY <1>2, <2>2, <2>3, <2>4
<1>. QED  BY <1>2, <1>3, <1>4, <1>5 DEF EventsOK

\* A head that leaves its chain.
LEMMA ChainPops ==
  ASSUME ReceiptsTyped, EventsOK, native' = native, live' = live,
         NEW i \in Instances, events[i] # <<>>,
         events' = [events EXCEPT ![i] = Tail(events[i])]
  PROVE  /\ events' \in [Instances -> Seq(AnEvent)] /\ EventsOK'
         /\ \A j \in Instances : j # i => events'[j] = events[j]
<1>1. events' = [j \in Instances |-> IF j \in {i} THEN Tail(events[j]) ELSE events[j]]
  BY DEF ReceiptsTyped, ServerTyped
<1>2. DaemonMoves
  BY DEF DaemonMoves
<1>. QED  BY <1>1, <1>2, ChainsShrink

LEMMA EventFailsStep ==
  ASSUME ReceiptsInv, NEW i \in Instances, Receipts!EventFails(i)
  PROVE  ReceiptsInv'
<1>1. ReceiptsTyped /\ EventsOK /\ losses \in Nat
  BY DEF ReceiptsInv, ReceiptsTyped, ReadersTyped
<1>2. /\ Receipts!Idle(i) /\ events[i] # <<>> /\ losses' = losses + 1
      /\ events' = [events EXCEPT ![i] = Tail(events[i])]
      /\ UNCHANGED <<native, live, subscribed, observers, client, deleting, tasks, deleted, file,
                     list, view, told, confirmed, writeFaults, lists>>
  BY DEF Receipts!EventFails, Receipts!Idle, Receipts!daemon, Receipts!store, Receipts!readers
<1>3. losses' \in Nat
  BY <1>1, <1>2
<1>4. events' \in [Instances -> Seq(AnEvent)] /\ EventsOK'
      /\ \A j \in Instances : j # i => events'[j] = events[j]
  BY <1>1, <1>2, ChainPops
<1>. QED  BY <1>2, <1>3, <1>4, ChainStep

\* What is pending is to be captured.
LEMMA RecoverStep ==
  ASSUME ReceiptsInv, NEW i \in Instances, Receipts!Recover(i)
  PROVE  ReceiptsInv'
<1> DEFINE pending == {r \in Requests : native[r] = "pending"}
           e == [events[i][1] EXCEPT !.todo = pending]
<1>1. ReceiptsTyped /\ EventsOK /\ losses \in Nat /\ events \in [Instances -> Seq(AnEvent)]
  BY DEF ReceiptsInv, ReceiptsTyped, ReadersTyped, ServerTyped
<1>2. /\ Receipts!Idle(i) /\ events[i] # <<>> /\ Head(events[i]).kind = "recover"
      /\ events' = IF pending = {} THEN [events EXCEPT ![i] = Tail(events[i])]
                   ELSE [events EXCEPT ![i][1].todo = pending]
      /\ UNCHANGED <<native, live, subscribed, observers, client, deleting, tasks, deleted, file,
                     list, view, told, confirmed, writeFaults, losses, lists>>
  BY DEF Receipts!Recover, Receipts!Idle, Receipts!daemon, Receipts!store, Receipts!readers,
         Receipts!bounds
<1>3. CASE pending = {}
  BY <1>1, <1>2, <1>3, ChainPops, ChainStep
<1>4. CASE pending # {}
  <2>1. Head(events[i]) = events[i][1] /\ events[i][1] \in AnEvent
    BY <1>1, <1>2, TailFacts
  <2>2. e \in AnEvent /\ e.kind = "recover"
    BY <1>2, <2>1 DEF AnEvent
  <2>3. events' = [events EXCEPT ![i] = [events[i] EXCEPT ![1] = e]]
    BY <1>2, <1>4
  <2> HIDE DEF e
  <2>4. events' \in [Instances -> Seq(AnEvent)] /\ EventsOK'
    BY <1>1, <1>2, <2>2, <2>3, TodoFacts
  <2>5. \A j \in Instances : j # i => events'[j] = events[j]
    BY <1>1, <2>3
  <2>. QED  BY <1>1, <1>2, <2>4, <2>5, ChainStep
<1>. QED  BY <1>3, <1>4

\* The next of them is captured, if its session still exists.
LEMMA RecoverRequestStep ==
  ASSUME ReceiptsInv, NEW i \in Instances, NEW r \in Requests, Receipts!RecoverRequest(i, r)
  PROVE  ReceiptsInv'
<1> DEFINE e == [events[i][1] EXCEPT !.todo = @ \ {r}]
           t == Receipts!Task("capture", r, "nobody", "nobody", i)
<1>1. ReceiptsTyped /\ EventsOK /\ ClientsOK /\ losses \in Nat /\ lists \in Nat
      /\ events \in [Instances -> Seq(AnEvent)]
  BY DEF ReceiptsInv, ReceiptsTyped, ReadersTyped, ServerTyped
<1>2. /\ Receipts!Idle(i) /\ events[i] # <<>> /\ Head(events[i]).kind = "recover"
      /\ UNCHANGED <<native, live, subscribed, observers, client, deleting, deleted, file,
                     list, view, told, confirmed, writeFaults, losses, lists>>
  BY DEF Receipts!RecoverRequest, Receipts!Idle, Receipts!daemon, Receipts!readers,
         Receipts!bounds
<1>3. Head(events[i]) = events[i][1] /\ events[i][1] \in AnEvent
  BY <1>1, <1>2, TailFacts
<1>4. e \in AnEvent /\ e.kind = "recover"
  BY <1>2, <1>3 DEF AnEvent
<1>5. CASE SessionOf[r] \in live
  <2>1. Receipts!Enqueue(SessionOf[r], t)
        /\ events' = [events EXCEPT ![i] = [events[i] EXCEPT ![1] = e]]
    BY <1>5 DEF Receipts!RecoverRequest, Receipts!Nobody
  <2> HIDE DEF e
  <2>2. events' \in [Instances -> Seq(AnEvent)] /\ EventsOK'
        /\ \A j \in Instances : events[j] # <<>> => events'[j] # <<>>
    BY <1>1, <1>2, <1>4, <2>1, TodoFacts
  <2>3. SessionOf[r] \in Sessions /\ t \in ATask /\ ~t.begun /\ t.waits = i
        /\ TaskOK(SessionOf[r], t, native, live)
    BY ReceiptAssumption DEF Receipts!Task, ATask, TaskOK
  <2> HIDE DEF t
  <2>4. /\ client' \in [Requests -> Progress]
        /\ \A x \in Requests : client'[x] \in {"sent", "confirming"} => native[x] \in Decided
        /\ observers' \in [Sessions -> SUBSET Instances]
    BY <1>1, <1>2 DEF ReceiptsTyped, ServerTyped, ClientsOK
  <2>. QED  BY <1>1, <1>2, <2>1, <2>2, <2>3, <2>4, EnqueueStep
<1>6. CASE SessionOf[r] \notin live
  <2>1. tasks' = tasks
        /\ events' = [events EXCEPT ![i] = IF events[i][1].todo = {r} THEN Tail(events[i])
                                           ELSE <<e>> \o Tail(events[i])]
    <3>1. /\ tasks' = tasks
          /\ events' = [events EXCEPT ![i] =
               IF Head(events[i]).todo = {r} THEN Tail(events[i])
               ELSE <<[Head(events[i]) EXCEPT !.todo = @ \ {r}]>> \o Tail(events[i])]
      BY <1>6 DEF Receipts!RecoverRequest
    <3>. QED  BY <1>3, <3>1
  <2> HIDE DEF e
  <2>2. events' \in [Instances -> Seq(AnEvent)] /\ EventsOK'
    <3>1. CASE events[i][1].todo = {r}
      BY <1>1, <1>2, <2>1, <3>1, ChainPops
    <3>2. CASE events[i][1].todo # {r}
      BY <1>1, <1>2, <1>4, <2>1, <3>2, TodoFacts
    <3>. QED  BY <3>1, <3>2
  <2>3. \A j \in Instances : j # i => events'[j] = events[j]
    BY <1>1, <2>1
  <2>. QED  BY <1>1, <1>2, <2>1, <2>2, <2>3, ChainStep
<1>. QED  BY <1>5, <1>6

-----------------------------------------------------------------------------
(* Receipts: lists, restarts, and the theorem *)

\* A workspace that starts a list is an observer from now on.
LEMMA ListStep ==
  ASSUME ReceiptsInv, NEW i \in Instances, NEW s \in Sessions, Receipts!List(i, s)
  PROVE  ReceiptsInv'
<1>1. ReceiptsTyped /\ ClientsOK /\ EventsOK /\ TombstonesOK /\ ObservedOK
      /\ lists \in Nat /\ lists' = lists + 1
  BY DEF ReceiptsInv, ReceiptsTyped, ReadersTyped, Receipts!List
<1>2. UNCHANGED <<native, live, subscribed, events, client, deleting, view, told, confirmed,
                  writeFaults, losses>>
  BY DEF Receipts!List, Receipts!daemon
<1>3. lists' \in Nat
  BY <1>1
<1>4. CASE s \notin live
  <2> DEFINE t == Receipts!Task("remove", "nobody", "nobody", "nobody", "nobody")
  <2>1. /\ deleted' = deleted \cup {s} /\ Receipts!Enqueue(s, t)
        /\ UNCHANGED <<observers, list, file>>
    BY <1>4 DEF Receipts!List, Receipts!Remove, Receipts!Nobody
  <2>2. t \in ATask /\ ~t.begun /\ TaskOK(s, t, native, live) /\ t.waits \notin Instances
        /\ t.kind = "remove"
    BY <1>4, ReceiptAssumption DEF Receipts!Task, ATask, TaskOK
  <2> HIDE DEF t
  <2>3. /\ client' \in [Requests -> Progress]
        /\ \A x \in Requests : client'[x] \in {"sent", "confirming"} => native[x] \in Decided
        /\ events' \in [Instances -> Seq(AnEvent)] /\ EventsOK'
        /\ observers' \in [Sessions -> SUBSET Instances]
    BY <1>1, <1>2, <2>1 DEF ReceiptsTyped, ServerTyped, EventsOK, ClientsOK
  <2>. QED  BY <1>2, <1>3, <2>1, <2>2, <2>3, EnqueueStep
<1>5. CASE s \in live
  <2>1. /\ Receipts!Observe(i, s) /\ UNCHANGED <<tasks, deleted, file>>
        /\ list' = [list EXCEPT ![i] = [session |-> s, tasks |-> Len(tasks[s])]]
    BY <1>5 DEF Receipts!List, Receipts!ObservesReader, Receipts!store
  <2>2. /\ observers' \in [Sessions -> SUBSET Instances] /\ i \in observers'[s]
        /\ \A z \in Sessions : observers[z] \subseteq observers'[z]
    BY <1>1, <2>1, ObserveFacts
  <2>3. DaemonMoves
    BY <1>2 DEF DaemonMoves
  <2>4. TasksOK' /\ BegunOK' /\ RemovedOK' /\ WaitsOK'
    BY <1>2, <2>1, <2>3, QueuesStay
  <2>5. FileOK' /\ Receipts!ConfirmedIsKept' /\ Receipts!ListedIsCurrent'
    BY <1>2, <2>1, <2>3, FilesStay
  <2>6. Len(tasks[s]) \in Nat /\ live \subseteq Sessions
    BY <1>1 DEF ReceiptsTyped, StoreTyped, DaemonTyped
  <2>7. /\ list' \in [Instances -> [session : Sessions \cup {"nobody"}, tasks : Nat]]
        /\ list'[i].session = s /\ \A j \in Instances : j # i => list'[j] = list[j]
    BY <1>1, <2>1, <2>6 DEF ReceiptsTyped, ReadersTyped
  <2>8. ReceiptsTyped'
    BY <1>1, <1>2, <1>3, <2>1, <2>2, <2>7
       DEF ReceiptsTyped, DaemonTyped, ServerTyped, StoreTyped, ReadersTyped
  <2>9. EventsOK' /\ ClientsOK' /\ TombstonesOK'
    BY <1>1, <1>2, <2>1 DEF EventsOK, ClientsOK, TombstonesOK
  <2>10. ObservedOK'
    <3>1. ASSUME NEW j \in Instances, NEW z \in live, j \notin observers'[z]
          PROVE  list'[j].session # z
                 /\ \A r \in Requests : SessionOf[r] = z => view[j][r] = Receipts!Unseen
      <4>1. /\ list[j].session # z
            /\ \A r \in Requests : SessionOf[r] = z => view[j][r] = Receipts!Unseen
        BY <1>1, <2>2, <2>6, <3>1 DEF ObservedOK
      <4>2. list'[j].session # z
        BY <2>2, <2>7, <3>1, <4>1
      <4>. QED  BY <4>1, <4>2
    <3>. QED  BY <1>2, <3>1 DEF ObservedOK
  <2>. QED  BY <2>4, <2>5, <2>8, <2>9, <2>10 DEF ReceiptsInv
<1>. QED  BY <1>4, <1>5

\* The list is what the files say now.
LEMMA ReadStep ==
  ASSUME ReceiptsInv, NEW i \in Instances, Receipts!Read(i)
  PROVE  ReceiptsInv'
<1> DEFINE s == list[i].session
           AList == [session : Sessions \cup {"nobody"}, tasks : Nat]
<1>1. ReceiptsTyped /\ ClientsOK /\ EventsOK /\ TombstonesOK /\ ObservedOK
      /\ Receipts!ListedIsCurrent
  BY DEF ReceiptsInv
<1>2. /\ list[i] # Receipts!Resting /\ list[i].tasks = 0
      /\ view' = [view EXCEPT ![i] = [r \in Requests |->
           IF SessionOf[r] = s /\ r \in Requests THEN file[r] ELSE view[i][r]]]
      /\ told' = [told EXCEPT ![s] = told[s] \ {i}]
      /\ list' = [list EXCEPT ![i] = Receipts!Resting]
      /\ UNCHANGED <<native, live, subscribed, events, observers, client, deleting,
                     tasks, deleted, file, confirmed, writeFaults, losses, lists>>
  BY DEF Receipts!Read, Receipts!Of, Receipts!daemon, Receipts!server, Receipts!store,
         Receipts!bounds
<1>3. list \in [Instances -> AList] /\ told \in [Sessions -> SUBSET Instances]
      /\ view \in [Instances -> [Requests -> AFile \cup {Receipts!Unseen}]]
      /\ file \in [Requests -> AFile] /\ live \subseteq Sessions
  BY <1>1 DEF ReceiptsTyped, DaemonTyped, StoreTyped, ReadersTyped
<1>4. s \in Sessions
  <2>1. list[i] \in AList
    BY <1>3
  <2>2. list[i] = [session |-> s, tasks |-> 0]
    BY <1>2, <2>1
  <2>. QED  BY <1>2, <2>1, <2>2 DEF Receipts!Resting, Receipts!Nobody
<1>5. DaemonMoves
  BY <1>2 DEF DaemonMoves
<1>6. TasksOK' /\ BegunOK' /\ RemovedOK' /\ WaitsOK'
  BY <1>2, <1>5, QueuesStay
<1>7. FileOK' /\ Receipts!ConfirmedIsKept'
  BY <1>2, <1>5, FilesStay
<1>8. Receipts!Resting \in AList /\ Receipts!Resting.session = "nobody"
  BY DEF Receipts!Resting, Receipts!Nobody
<1>9. list' \in [Instances -> AList] /\ list'[i].session = "nobody"
      /\ \A j \in Instances : j # i => list'[j] = list[j]
  <2> HIDE DEF AList
  <2>. QED  BY <1>2, <1>3, <1>8
<1>10. /\ view' \in [Instances -> [Requests -> AFile \cup {Receipts!Unseen}]]
       /\ \A r \in Requests : view'[i][r] = IF SessionOf[r] = s THEN file[r] ELSE view[i][r]
       /\ \A j \in Instances : j # i => view'[j] = view[j]
  <2> DEFINE new == [r \in Requests |->
               IF SessionOf[r] = s /\ r \in Requests THEN file[r] ELSE view[i][r]]
  <2>1. new \in [Requests -> AFile \cup {Receipts!Unseen}]
    BY <1>3
  <2>2. \A r \in Requests : new[r] = IF SessionOf[r] = s THEN file[r] ELSE view[i][r]
    OBVIOUS
  <2>3. view' = [view EXCEPT ![i] = new]
    BY <1>2
  <2> HIDE DEF new
  <2>. QED  BY <1>3, <2>1, <2>2, <2>3
<1>11. /\ told' \in [Sessions -> SUBSET Instances]
       /\ \A j \in Instances, z \in Sessions : j \in told'[z] <=>
            j \in told[z] /\ ~(z = s /\ j = i)
  BY <1>2, <1>3, <1>4
<1>12. ReceiptsTyped'
  BY <1>1, <1>2, <1>9, <1>10, <1>11
     DEF ReceiptsTyped, DaemonTyped, ServerTyped, StoreTyped, ReadersTyped
<1>13. EventsOK' /\ ClientsOK' /\ TombstonesOK'
  BY <1>1, <1>2 DEF EventsOK, ClientsOK, TombstonesOK
<1>14. ObservedOK'
  <2>1. ASSUME NEW j \in Instances, NEW z \in live, j \notin observers[z]
        PROVE  list'[j].session # z
               /\ \A r \in Requests : SessionOf[r] = z => view'[j][r] = Receipts!Unseen
    <3>1. /\ list[j].session # z
          /\ \A r \in Requests : SessionOf[r] = z => view[j][r] = Receipts!Unseen
      BY <1>1, <2>1 DEF ObservedOK
    <3>2. z # "nobody"
      BY <1>3, ReceiptAssumption
    <3>. QED  BY <1>9, <1>10, <3>1, <3>2
  <2>. QED  BY <1>2, <2>1 DEF ObservedOK
<1>15. Receipts!ListedIsCurrent'
  <2>1. ASSUME NEW j \in Instances, NEW r \in Requests, SessionOf[r] \in live,
               j \notin told'[SessionOf[r]], view'[j][r] # Receipts!Unseen
        PROVE  Receipts!Receipt(view'[j][r]) = Receipts!Receipt(file[r])
    <3>1. CASE j = i /\ SessionOf[r] = s
      BY <1>10, <3>1
    <3>2. CASE ~(j = i /\ SessionOf[r] = s)
      <4>1. view'[j][r] = view[j][r] /\ j \notin told[SessionOf[r]]
        BY <1>3, <1>10, <1>11, <2>1, <3>2
      <4>. QED  BY <1>1, <2>1, <4>1 DEF Receipts!ListedIsCurrent
    <3>. QED  BY <3>1, <3>2
  <2>. QED  BY <1>2, <2>1 DEF Receipts!ListedIsCurrent
<1>. QED  BY <1>6, <1>7, <1>12, <1>13, <1>14, <1>15 DEF ReceiptsInv

\* A restart leaves the files, and nobody to be told.
LEMMA CrashStep ==
  ASSUME ReceiptsInv, Receipts!Crash
  PROVE  ReceiptsInv'
<1>1. ReceiptsTyped /\ FileOK /\ Receipts!ConfirmedIsKept /\ losses \in Nat
      /\ client \in [Requests -> Progress]
  BY DEF ReceiptsInv, ReceiptsTyped, ReadersTyped, ServerTyped
<1>2. /\ subscribed' = FALSE /\ losses' = losses + 1
      /\ events' = [i \in Instances |-> <<>>] /\ observers' = [s \in Sessions |-> {}]
      /\ client' = [r \in Requests |-> IF client[r] = "idle" THEN "idle" ELSE "failed"]
      /\ deleting' = {} /\ tasks' = [s \in Sessions |-> <<>>] /\ deleted' = {}
      /\ list' = [i \in Instances |-> Receipts!Resting]
      /\ view' = [i \in Instances |-> [r \in Requests |-> Receipts!Unseen]]
      /\ told' = [s \in Sessions |-> {}]
      /\ UNCHANGED <<native, live, file, confirmed, writeFaults, lists>>
  BY DEF Receipts!Crash
<1>3. Receipts!Resting \in [session : Sessions \cup {"nobody"}, tasks : Nat]
      /\ Receipts!Resting.session = "nobody"
  BY DEF Receipts!Resting, Receipts!Nobody
<1>4. losses' \in Nat
  BY <1>1, <1>2
<1>5. client' \in [Requests -> Progress]
      /\ \A r \in Requests : client'[r] \notin {"sent", "confirming"}
  BY <1>2 DEF Progress
<1>6. events' \in [Instances -> Seq(AnEvent)] /\ tasks' \in [Sessions -> Seq(ATask)]
      /\ (\A i \in Instances : Len(events'[i]) = 0) /\ (\A s \in Sessions : tasks'[s] = <<>>)
  BY <1>2
<1>7. /\ list' \in [Instances -> [session : Sessions \cup {"nobody"}, tasks : Nat]]
      /\ view' \in [Instances -> [Requests -> AFile \cup {Receipts!Unseen}]]
      /\ told' \in [Sessions -> SUBSET Instances] /\ observers' \in [Sessions -> SUBSET Instances]
  BY <1>2, <1>3
<1>8. ReceiptsTyped'
  BY <1>1, <1>2, <1>4, <1>5, <1>6, <1>7
     DEF ReceiptsTyped, DaemonTyped, ServerTyped, StoreTyped, ReadersTyped
<1>9. EventsOK' /\ TasksOK' /\ BegunOK' /\ WaitsOK'
  <2>1. Len(<<>>) = 0 /\ 1..0 = {}
    OBVIOUS
  <2>. QED  BY <1>6, <2>1 DEF EventsOK, TasksOK, BegunOK, WaitsOK
<1>10. ClientsOK' /\ TombstonesOK' /\ RemovedOK'
  BY <1>2, <1>5 DEF ClientsOK, TombstonesOK, RemovedOK
<1>11. ObservedOK'
  <2>1. \A z \in live : z # "nobody"
    BY <1>1, ReceiptAssumption DEF ReceiptsTyped, DaemonTyped
  <2>. QED  BY <1>2, <1>3, <2>1 DEF ObservedOK
<1>12. FileOK' /\ Receipts!ConfirmedIsKept'
  BY <1>1, <1>2 DEF FileOK, Receipts!ConfirmedIsKept
<1>13. Receipts!ListedIsCurrent'
  BY <1>2 DEF Receipts!ListedIsCurrent
<1>. QED  BY <1>8, <1>9, <1>10, <1>11, <1>12, <1>13 DEF ReceiptsInv

LEMMA ReceiptsInit == Receipts!Init => ReceiptsInv
<1>. SUFFICES ASSUME Receipts!Init PROVE ReceiptsInv
  OBVIOUS
<1>1. /\ native = [r \in Requests |-> "none"] /\ live = Sessions /\ subscribed = TRUE
      /\ events = [i \in Instances |-> <<>>] /\ observers = [s \in Sessions |-> {}]
      /\ client = [r \in Requests |-> "idle"] /\ deleting = {}
      /\ tasks = [s \in Sessions |-> <<>>] /\ deleted = {}
      /\ file = [r \in Requests |-> Receipts!NoFile]
      /\ list = [i \in Instances |-> Receipts!Resting]
      /\ view = [i \in Instances |-> [r \in Requests |-> Receipts!Unseen]]
      /\ told = [s \in Sessions |-> {}] /\ confirmed = {}
      /\ writeFaults = 0 /\ losses = 0 /\ lists = 0
  BY DEF Receipts!Init
<1>2. Receipts!Resting \in [session : Sessions \cup {"nobody"}, tasks : Nat]
      /\ Receipts!Resting.session = "nobody"
  BY DEF Receipts!Resting, Receipts!Nobody
<1>3. Receipts!NoFile \in AFile
  BY DEF Receipts!NoFile, AFile
<1>4. DaemonTyped /\ ServerTyped
  BY <1>1 DEF DaemonTyped, ServerTyped, Natives, Progress
<1>5. StoreTyped /\ ReadersTyped
  BY <1>1, <1>2, <1>3 DEF StoreTyped, ReadersTyped
<1>6. EventsOK /\ TasksOK /\ BegunOK /\ WaitsOK
  <2>1. Len(<<>>) = 0 /\ 1..0 = {}
    OBVIOUS
  <2>. QED  BY <1>1, <2>1 DEF EventsOK, TasksOK, BegunOK, WaitsOK
<1>7. ClientsOK /\ TombstonesOK /\ RemovedOK /\ FileOK
  BY <1>1 DEF ClientsOK, TombstonesOK, RemovedOK, FileOK
<1>8. ObservedOK
  BY <1>1, <1>2, ReceiptAssumption DEF ObservedOK
<1>9. Receipts!ConfirmedIsKept /\ Receipts!ListedIsCurrent
  BY <1>1 DEF Receipts!ConfirmedIsKept, Receipts!ListedIsCurrent
<1>. QED  BY <1>4, <1>5, <1>6, <1>7, <1>8, <1>9 DEF ReceiptsInv, ReceiptsTyped

LEMMA ReceiptsStep == ReceiptsInv /\ [Receipts!Next]_Receipts!vars => ReceiptsInv'
<1>1. ASSUME ReceiptsInv, Receipts!Next PROVE ReceiptsInv'
  BY <1>1, LossStep, ConnectedStep, CrashStep, AskStep, PrepareStep, ResponseLostStep,
     ConfirmStep, NativeReplyStep, DispatchStep, RecoverRequestStep, BeginStep, WriteStep,
     FailStep, ConfirmDeletionStep, DeleteStep, HandleStep, RecoverStep, EventFailsStep,
     ReadStep, ListStep, Zenon DEF Receipts!Next, Decided
<1>2. ASSUME ReceiptsInv, UNCHANGED Receipts!vars PROVE ReceiptsInv'
  <2>1. UNCHANGED <<native, live, subscribed, events, observers, client, deleting,
                    tasks, deleted, file, list, view, told, confirmed, writeFaults, losses,
                    lists>>
    BY <1>2 DEF Receipts!vars, Receipts!daemon, Receipts!server, Receipts!store,
                Receipts!readers, Receipts!bounds
  <2>. QED  BY <1>2, <2>1
       DEF ReceiptsInv, ReceiptsTyped, DaemonTyped, ServerTyped, StoreTyped, ReadersTyped,
           EventsOK, ClientsOK, TasksOK, BegunOK, WaitsOK, FileOK, TombstonesOK, RemovedOK,
           ObservedOK, Receipts!ConfirmedIsKept, Receipts!ListedIsCurrent
<1>. QED  BY <1>1, <1>2

\* What the properties of the receipts follow from, in every reachable state.
LEMMA ReceiptsInductive == Receipts!Spec => []ReceiptsInv
  BY ReceiptsInit, ReceiptsStep, PTL DEF Receipts!Spec

\* A reply that was confirmed to a client keeps its origin and its decision, in whatever order the
\* events of the workspaces and the confirmations reach the store, until its session is deleted;
\* nothing brings the receipts of a deleted session back.
THEOREM ReceiptsStayExact == Receipts!Spec => []ReceiptsAreExact
<1>1. ReceiptsInv => ReceiptsAreExact
  <2>. SUFFICES ASSUME ReceiptsInv PROVE Receipts!ConfirmedIsKept /\ Receipts!DeletedStaysDeleted
    BY DEF ReceiptsAreExact, Receipts!ReceiptsAreExact
  <2>1. ReceiptsTyped /\ RemovedOK /\ Receipts!ConfirmedIsKept
    BY DEF ReceiptsInv
  <2>2. \A s \in deleted : s \in Sessions /\ DOMAIN tasks[s] = 1..Len(tasks[s])
    BY <2>1 DEF ReceiptsTyped, StoreTyped
  <2>3. Receipts!DeletedStaysDeleted
    BY <2>1, <2>2 DEF RemovedOK, Receipts!DeletedStaysDeleted, Receipts!Of
  <2>. QED  BY <2>1, <2>3
<1>. QED  BY <1>1, ReceiptsInductive, PTL

\* A workspace that listed the receipts of a session and was not told of a change since has the
\* current ones, whatever lists, writes and restarts overlap.
THEOREM ListersAreTold == Receipts!Spec => []ListedIsCurrent
<1>1. ReceiptsInv => ListedIsCurrent
  BY DEF ReceiptsInv, ListedIsCurrent
<1>. QED  BY <1>1, ReceiptsInductive, PTL

-----------------------------------------------------------------------------
(* The window *)

Transitions == {"clear", "enable", "disable"}

AChange == [kind : Transitions \cup {"none"}, stage : {"draining", "calling"},
            block : {"no", "snapshot", "transaction"}, retry : BOOLEAN]
AFlush  == [stage : {"none", "waiting", "saving"}, attempts : Nat, error : BOOLEAN,
            after : Nat, base : Nat]

FlagsTyped ==
  /\ dirty \in BOOLEAN /\ enabled \in BOOLEAN /\ primary \in BOOLEAN /\ timer \in BOOLEAN
  /\ saveError \in BOOLEAN /\ suppressed \in BOOLEAN /\ owned \in BOOLEAN /\ wiped \in BOOLEAN

ValuesTyped ==
  /\ mem \in Nat /\ block \in {"no", "snapshot", "transaction"}
  /\ saves \in Seq(Nat) /\ wanted \in Seq(Transitions) /\ change \in AChange /\ flush \in AFlush
  /\ disk1 \in Nat /\ record \in Nat
  /\ updates \in Nat /\ transitions \in Nat /\ errors \in Nat /\ flushes \in Nat

WindowTyped == FlagsTyped /\ ValuesTyped

\* A clear or a disable is in progress: it may be rolled back.
Destroying == change.kind \in {"clear", "disable"}

\* The last change is not on its way to the store; a transaction remembers it for the rollback.
Unsaved == dirty \/ (Destroying /\ change.retry)

\* The store has the last change, and its file what the store has.
Synced == /\ record = mem \/ (mem = 0 /\ record = Window!Unreadable)
          /\ disk1 = record \/ wiped

\* Writes are blocked by a transaction exactly while there is one, only a transaction waits for
\* the saves, and there is no enabling of what is enabled.
TransactionOK ==
  /\ block = "transaction" <=> Destroying
  /\ Destroying => change.block # "transaction"
  /\ change.kind = "enable" => change.stage = "calling" /\ ~(enabled /\ block = "no")
  /\ change.kind = "none" => change.stage = "draining"

\* What is not unsaved is in the store, or the last of the saves on their way.
LastSaveOK == ~Unsaved => IF saves = <<>> THEN Synced ELSE saves[Len(saves)] = mem

\* Saves were enqueued by a window that may write; a transaction waits for them.
QueueOK ==
  saves # <<>> => /\ ~suppressed
                  /\ IF Destroying THEN change.stage = "draining" ELSE enabled /\ block = "no"

\* The store does not skip the saves of a window that may write, or may again after a rollback.
SuppressedOK ==
  /\ enabled /\ block = "no" => ~suppressed
  /\ Destroying /\ change.block = "no" /\ (enabled \/ change.kind = "disable") => ~suppressed

\* The last attempt of a flush is over: it does not look at the saves any more.
Exhausted == flush.stage = "waiting" /\ ~Window!Again

\* A flush is about a value that is not newer than the last; the saves it waits for are not
\* older than the flush, and when the last one was stored so was what the flush is about.
FlushOK ==
  /\ flush.base <= mem /\ mem <= updates
  /\ flush.stage = "saving" \/ Exhausted => \A n \in 1..Len(saves) : flush.base <= saves[n]
  /\ Exhausted /\ flush.after = 0 /\ ~Unsaved => Window!Has(flush.base)

WindowInv == WindowTyped /\ TransactionOK /\ LastSaveOK /\ QueueOK /\ SuppressedOK /\ FlushOK

LEMMA WindowInit == Window!Init => WindowInv
<1>. SUFFICES ASSUME Window!Init PROVE WindowInv
  OBVIOUS
<1>1. PICK start \in {<<"no", TRUE, 0>>, <<"snapshot", TRUE, Window!Unreadable>>,
                      <<"no", FALSE, 0>>} :
        block = start[1] /\ enabled = start[2] /\ disk1 = start[3] /\ record = start[3]
  BY DEF Window!Init
<1>2. /\ block \in {"no", "snapshot"} /\ enabled \in BOOLEAN
      /\ disk1 \in {0, Window!Unreadable} /\ record = disk1
  <2>1. CASE start = <<"no", TRUE, 0>>
    BY <1>1, <2>1
  <2>2. CASE start = <<"snapshot", TRUE, Window!Unreadable>>
    BY <1>1, <2>2
  <2>3. CASE start = <<"no", FALSE, 0>>
    BY <1>1, <2>3
  <2>. QED  BY <1>1, <2>1, <2>2, <2>3, Zenon
<1>3. mem = 0 /\ saves = <<>> /\ change.kind = "none" /\ change.stage = "draining"
      /\ change \in AChange /\ flush = Window!NoFlush /\ updates = 1 /\ suppressed = ~enabled
  BY DEF Window!Init, Window!NoChange, AChange, Window!Unreadable
<1>4. wanted \in Seq(Transitions) /\ saves \in Seq(Nat) /\ flush \in AFlush
  BY <1>3 DEF Window!Init, AFlush, Window!NoFlush
<1>5. WindowTyped
  <2>1. suppressed \in BOOLEAN
    BY <1>2, <1>3, Zenon
  <2>2. dirty = FALSE /\ primary = TRUE /\ timer = FALSE /\ saveError = FALSE /\ owned = TRUE
          /\ wiped = FALSE
    BY DEF Window!Init
  <2>3. transitions = 0 /\ errors = 0 /\ flushes = 0
    BY DEF Window!Init
  <2>4. FlagsTyped
    BY <1>2, <2>1, <2>2 DEF FlagsTyped
  <2>5. ValuesTyped
    BY <1>2, <1>3, <1>4, <2>3 DEF ValuesTyped, Window!Unreadable
  <2>. QED  BY <2>4, <2>5 DEF WindowTyped
<1>6. ~Destroying /\ Synced
  BY <1>2, <1>3 DEF Destroying, Synced
<1>7. TransactionOK /\ SuppressedOK /\ LastSaveOK /\ QueueOK
  BY <1>2, <1>3, <1>6 DEF TransactionOK, SuppressedOK, LastSaveOK, QueueOK
<1>8. FlushOK
  BY <1>3 DEF FlushOK, Exhausted, Window!NoFlush
<1>. QED  BY <1>5, <1>7, <1>8 DEF WindowInv

\* A save is enqueued at the end of the others.
LEMMA Enqueued ==
  ASSUME NEW S, NEW s \in Seq(S), NEW v \in S
  PROVE  /\ Append(s, v) \in Seq(S) /\ Append(s, v) # <<>>
         /\ Append(s, v)[Len(Append(s, v))] = v
         /\ \A n \in 1..Len(Append(s, v)) :
              Append(s, v)[n] = v \/ \E m \in 1..Len(s) : Append(s, v)[n] = s[m]
<1>1. Len(s) \in Nat /\ Len(Append(s, v)) = Len(s) + 1
  BY LenProperties, AppendProperties
<1>2. \A n \in 1..Len(Append(s, v)) : n = Len(s) + 1 \/ n \in 1..Len(s)
  BY <1>1
<1>. QED  BY <1>1, <1>2, AppendProperties

\* The first save is over.
LEMMA Dequeued ==
  ASSUME NEW S, NEW s \in Seq(S), s # <<>>
  PROVE  /\ Tail(s) \in Seq(S) /\ Head(s) = s[1] /\ 1 \in 1..Len(s)
         /\ Tail(s) = <<>> => Head(s) = s[Len(s)]
         /\ Tail(s) # <<>> => Tail(s)[Len(Tail(s))] = s[Len(s)]
         /\ \A n \in 1..Len(Tail(s)) : \E m \in 1..Len(s) : Tail(s)[n] = s[m]
<1>1. Len(s) \in Nat /\ Len(s) # 0 /\ Tail(s) \in Seq(S) /\ Len(Tail(s)) = Len(s) - 1
      /\ \A n \in 1..Len(Tail(s)) : Tail(s)[n] = s[n + 1]
  BY LenProperties, HeadTailProperties, EmptySeq
<1>2. Head(s) = s[1]
  OBVIOUS
<1>3. Tail(s) = <<>> => Len(s) = 1
  <2>1. Tail(s) = <<>> => Len(Tail(s)) = 0
    BY EmptySeq, Zenon
  <2>. QED  BY <1>1, <2>1
<1>4. Tail(s) # <<>> => Len(Tail(s)) \in 1..Len(Tail(s)) /\ Len(Tail(s)) + 1 = Len(s)
  <2>1. Tail(s) # <<>> => Len(Tail(s)) # 0
    BY <1>1, EmptySeq, Zenon
  <2>. QED  BY <1>1, <2>1
<1>5. \A n \in 1..Len(Tail(s)) : n + 1 \in 1..Len(s)
  BY <1>1
<1>. QED  BY <1>1, <1>2, <1>3, <1>4, <1>5

\* What the parts of the invariant look at.
WindowSame ==
  UNCHANGED <<mem, dirty, block, enabled, saves, change, flush, disk1, record, wiped, suppressed,
              updates>>

LEMMA WindowStutters ==
  ASSUME WindowInv, WindowSame, WindowTyped'
  PROVE  WindowInv'
  BY DEF WindowInv, WindowSame, TransactionOK, Destroying, LastSaveOK, Unsaved, Synced, QueueOK,
         SuppressedOK, FlushOK, Exhausted, Window!Again, Window!Unreadable, Window!Has

\* updateRestorableSession: the change is unsaved.
LEMMA UpdateStep == ASSUME WindowInv, Window!Update PROVE WindowInv'
<1>. USE DEF WindowInv, Window!Update, Window!store
<1>1. WindowTyped'
  <2>1. FlagsTyped'
    BY DEF WindowTyped, FlagsTyped
  <2>. QED  BY <2>1 DEF WindowTyped, ValuesTyped
<1>2. Unsaved'
  BY DEF Unsaved
<1>3. TransactionOK' /\ QueueOK' /\ SuppressedOK'
  BY DEF TransactionOK, QueueOK, SuppressedOK, Destroying
<1>4. FlushOK'
  BY <1>2 DEF WindowTyped, ValuesTyped, AFlush, FlushOK, Exhausted, Window!Again
<1>. QED  BY <1>1, <1>2, <1>3, <1>4 DEF LastSaveOK

LEMMA SavesTyped == ASSUME WindowInv, Window!Enqueue PROVE saves' \in Seq(Nat)
<1>1. saves \in Seq(Nat) /\ mem \in Nat
  BY DEF WindowInv, WindowTyped, ValuesTyped
<1>2. saves' = saves \/ saves' = Append(saves, mem)
  BY Zenon DEF Window!Enqueue
<1>3. Append(saves, mem) \in Seq(Nat)
  BY <1>1, AppendProperties
<1>. QED  BY <1>1, <1>2, <1>3

\* enqueuePendingSave, of a timer or of a flush.
LEMMA SaveEnqueued ==
  ASSUME WindowInv, Window!Enqueue,
         UNCHANGED <<mem, block, enabled, change, disk1, record, wiped, suppressed, updates>>,
         WindowTyped',
         \/ flush' = flush /\ ~(Exhausted /\ flush.after = 0)
         \/ /\ flush.stage = "waiting" /\ saves = <<>>
            /\ flush'.stage = "saving" /\ flush'.base = flush.base
  PROVE  WindowInv'
<1>. USE DEF WindowInv
<1>1. CASE ~(dirty /\ Window!CanWrite)
  <2>1. saves' = saves /\ dirty' = dirty
    BY <1>1 DEF Window!Enqueue
  <2>2. TransactionOK' /\ QueueOK' /\ SuppressedOK' /\ LastSaveOK'
    BY <2>1 DEF TransactionOK, QueueOK, SuppressedOK, Destroying, LastSaveOK, Unsaved, Synced
  <2>3. FlushOK'
    BY <2>1, EmptySeq DEF FlushOK, Exhausted, Window!Again, Unsaved, Destroying, Window!Has
  <2>. QED  BY <2>2, <2>3
<1>2. CASE dirty /\ Window!CanWrite
  <2>1. saves' = Append(saves, mem) /\ dirty' = FALSE /\ block = "no" /\ enabled
    BY <1>2 DEF Window!Enqueue, Window!CanWrite
  <2>2. saves \in Seq(Nat) /\ mem \in Nat
    BY DEF WindowTyped, ValuesTyped
  <2>3. saves' # <<>> /\ saves'[Len(saves')] = mem
        /\ \A n \in 1..Len(saves') :
             saves'[n] = mem \/ \E m \in 1..Len(saves) : saves'[n] = saves[m]
    BY <2>1, <2>2, Enqueued
  <2>4. ~Destroying /\ ~suppressed /\ Unsaved
    BY <1>2, <2>1 DEF TransactionOK, SuppressedOK, Unsaved
  <2>5. TransactionOK' /\ QueueOK' /\ SuppressedOK' /\ LastSaveOK'
    BY <2>1, <2>3, <2>4 DEF TransactionOK, QueueOK, SuppressedOK, Destroying, LastSaveOK
  <2>6. FlushOK'
    <3>1. CASE flush' = flush /\ ~(Exhausted /\ flush.after = 0)
      BY <2>3, <2>4, <3>1 DEF FlushOK, Exhausted, Window!Again
    <3>2. CASE flush.stage = "waiting" /\ saves = <<>> /\ flush'.stage = "saving"
               /\ flush'.base = flush.base
      BY <2>2, <2>3, <3>2, EmptySeq DEF FlushOK, Exhausted
    <3>. QED  BY <3>1, <3>2
  <2>. QED  BY <2>5, <2>6
<1>. QED  BY <1>1, <1>2

\* A save is over: it was stored, or there is something to save again.
LEMMA SaveEnds ==
  ASSUME WindowInv, saves # <<>>, saves' = Tail(saves),
         UNCHANGED <<mem, block, enabled, change, suppressed, updates>>, WindowTyped',
         dirty' \/ (dirty' = dirty /\ disk1' = Head(saves) /\ record' = Head(saves)),
         flush'.stage = flush.stage, flush'.attempts = flush.attempts, flush'.base = flush.base
  PROVE  WindowInv'
<1>. USE DEF WindowInv
<1>1. /\ Head(saves) = saves[1] /\ 1 \in 1..Len(saves)
      /\ Tail(saves) = <<>> => Head(saves) = saves[Len(saves)]
      /\ Tail(saves) # <<>> => Tail(saves)[Len(Tail(saves))] = saves[Len(saves)]
      /\ \A n \in 1..Len(Tail(saves)) : \E m \in 1..Len(saves) : Tail(saves)[n] = saves[m]
  <2>1. saves \in Seq(Nat)
    BY DEF WindowTyped, ValuesTyped
  <2>. QED  BY <2>1, Dequeued
<1>2. TransactionOK' /\ QueueOK' /\ SuppressedOK'
  BY DEF TransactionOK, QueueOK, SuppressedOK, Destroying
<1>3. CASE dirty'
  <2>1. Unsaved' /\ LastSaveOK'
    BY <1>3 DEF Unsaved, LastSaveOK
  <2>2. FlushOK'
    BY <1>1, <2>1 DEF FlushOK, Exhausted, Window!Again
  <2>. QED  BY <1>2, <2>1, <2>2
<1>4. CASE dirty' = dirty /\ disk1' = Head(saves) /\ record' = Head(saves)
  <2>1. Unsaved' <=> Unsaved
    BY <1>4 DEF Unsaved, Destroying
  <2>2. LastSaveOK'
    BY <1>1, <1>4, <2>1 DEF LastSaveOK, Synced
  <2>3. flush.stage = "saving" \/ Exhausted =>
          /\ \A n \in 1..Len(saves) : flush.base <= saves[n]
          /\ flush.base <= saves[1]
    BY <1>1 DEF FlushOK
  <2>5. Exhausted => Window!Has(flush.base)'
    <3>1. flush.base \in Nat /\ saves[1] \in Nat
      <4>1. flush \in AFlush /\ saves \in Seq(Nat)
        BY DEF WindowTyped, ValuesTyped
      <4>2. Head(saves) \in Nat
        BY <4>1, HeadTailProperties
      <4>. QED  BY <1>1, <4>1, <4>2 DEF AFlush
    <3>. QED  BY <1>1, <1>4, <2>3, <3>1 DEF Window!Has
  <2>4. FlushOK'
    BY <1>1, <2>3, <2>5 DEF FlushOK, Exhausted, Window!Again, Window!Has
  <2>. QED  BY <1>2, <2>2, <2>4
<1>. QED  BY <1>3, <1>4

\* What a flush that waits makes of an answer.
LEMMA FlushHeard ==
  ASSUME WindowTyped, NEW error \in BOOLEAN, Window!FlushHears(error)
  PROVE  /\ flush' \in AFlush /\ flush'.stage = flush.stage
         /\ flush'.attempts = flush.attempts /\ flush'.base = flush.base
<1>1. flush \in AFlush
  BY DEF WindowTyped, ValuesTyped
<1>2. CASE flush.after = 0
  BY <1>1, <1>2 DEF Window!FlushHears
<1>3. CASE flush.after # 0
  <2>1. flush.after - 1 \in Nat
    BY <1>1, <1>3 DEF AFlush
  <2>2. flush' = [flush EXCEPT !.after = @ - 1,
                     !.error = IF flush.stage = "saving" /\ flush.after = 1 THEN error ELSE @]
    BY <1>3 DEF Window!FlushHears
  <2>3. (IF flush.stage = "saving" /\ flush.after = 1 THEN error ELSE flush.error) \in BOOLEAN
    BY <1>1 DEF AFlush
  <2>. QED  BY <1>1, <2>1, <2>2, <2>3 DEF AFlush
<1>. QED  BY <1>2, <1>3

LEMMA SavedStep == ASSUME WindowInv, Window!Saved PROVE WindowInv'
<1>. USE DEF WindowInv, Window!Saved
<1>1. ~suppressed /\ disk1' = Head(saves) /\ record' = Head(saves) /\ wiped' = FALSE
  BY DEF QueueOK
<1>2. /\ flush' \in AFlush /\ flush'.stage = flush.stage
      /\ flush'.attempts = flush.attempts /\ flush'.base = flush.base
  BY FlushHeard
<1>3. Head(saves) \in Nat /\ Tail(saves) \in Seq(Nat)
  BY HeadTailProperties DEF WindowTyped, ValuesTyped
<1>4. WindowTyped'
  <2>1. FlagsTyped'
    BY <1>1 DEF WindowTyped, FlagsTyped
  <2>. QED  BY <1>1, <1>2, <1>3, <2>1 DEF WindowTyped, ValuesTyped, Window!bounds
<1>. QED  BY <1>1, <1>2, <1>4, SaveEnds DEF Window!bounds

LEMMA SaveRejectedStep == ASSUME WindowInv, Window!SaveRejected PROVE WindowInv'
<1>. USE DEF WindowInv, Window!SaveRejected, Window!RetrySave
<1>2. /\ flush' \in AFlush /\ flush'.stage = flush.stage
      /\ flush'.attempts = flush.attempts /\ flush'.base = flush.base
  BY FlushHeard
<1>3. Tail(saves) \in Seq(Nat)
  BY HeadTailProperties DEF WindowTyped, ValuesTyped
<1>4. WindowTyped'
  <2>1. FlagsTyped'
    BY DEF WindowTyped, FlagsTyped, Window!store
  <2>. QED  BY <1>2, <1>3, <2>1 DEF WindowTyped, ValuesTyped, Window!bounds, Window!store
<1>. QED  BY <1>2, <1>4, SaveEnds DEF Window!bounds, Window!store

LEMMA SaveFailsStep == ASSUME WindowInv, Window!SaveFails PROVE WindowInv'
<1>. USE DEF WindowInv, Window!SaveFails, Window!RetrySave, Window!MayReplace
<1>2. /\ flush' \in AFlush /\ flush'.stage = flush.stage
      /\ flush'.attempts = flush.attempts /\ flush'.base = flush.base
  BY FlushHeard
<1>3. Head(saves) \in Nat /\ Tail(saves) \in Seq(Nat)
  BY HeadTailProperties DEF WindowTyped, ValuesTyped
<1>4. WindowTyped'
  <2>1. FlagsTyped'
    BY DEF WindowTyped, FlagsTyped
  <2>. QED  BY <1>2, <1>3, <2>1 DEF WindowTyped, ValuesTyped
<1>. QED  BY <1>2, <1>4, SaveEnds

LEMMA SaveTimerStep == ASSUME WindowInv, Window!SaveTimer PROVE WindowInv'
<1>. USE DEF WindowInv, Window!SaveTimer, Window!bounds, Window!store
<1>1. WindowTyped'
  <2>1. saves' \in Seq(Nat)
    BY SavesTyped
  <2>2. FlagsTyped'
    BY Zenon DEF WindowTyped, FlagsTyped, Window!Enqueue, Window!store
  <2>. QED  BY <2>1, <2>2 DEF WindowTyped, ValuesTyped
<1>2. ~(Exhausted /\ flush.after = 0)
  BY DEF Exhausted, Window!Turn
<1>. QED  BY <1>1, <1>2, SaveEnqueued

LEMMA FlushSavesStep == ASSUME WindowInv, Window!FlushSaves PROVE WindowInv'
<1>. USE DEF WindowInv, Window!FlushSaves, Window!bounds, Window!store
<1>1. flush' \in AFlush /\ flush'.stage = "saving" /\ flush'.base = flush.base
  <2>1. flush \in AFlush /\ saves \in Seq(Nat)
    BY DEF WindowTyped, ValuesTyped
  <2>2. Len(saves) + 1 \in Nat
    BY <2>1, LenProperties
  <2>. QED  BY <2>1, <2>2 DEF AFlush
<1>2. WindowTyped'
  <2>1. saves' \in Seq(Nat)
    BY SavesTyped
  <2>2. FlagsTyped'
    BY Zenon DEF WindowTyped, FlagsTyped, Window!Enqueue, Window!store
  <2>. QED  BY <1>1, <2>1, <2>2 DEF WindowTyped, ValuesTyped
<1>3. flush.stage = "waiting" /\ saves = <<>>
  BY DEF Window!Quiet
<1>. QED  BY <1>1, <1>2, <1>3, SaveEnqueued

\* Only the flush goes on.
LEMMA FlushStep ==
  ASSUME WindowInv, WindowTyped', FlushOK',
         UNCHANGED <<mem, dirty, block, enabled, saves, change, disk1, record, wiped, suppressed>>
  PROVE  WindowInv'
  BY DEF WindowInv, TransactionOK, Destroying, LastSaveOK, Unsaved, Synced, QueueOK, SuppressedOK,
         Window!Unreadable

LEMMA FlushStartsStep == ASSUME WindowInv, Window!FlushStarts PROVE WindowInv'
<1>. USE DEF WindowInv, Window!FlushStarts, Window!store
<1>1. flush' \in AFlush
  BY DEF WindowTyped, FlagsTyped, ValuesTyped, AFlush
<1>2. WindowTyped'
  <2>1. FlagsTyped'
    BY Zenon DEF WindowTyped, FlagsTyped
  <2>. QED  BY <1>1, <2>1 DEF WindowTyped, ValuesTyped
<1>3. ~Exhausted' /\ flush'.stage = "waiting" /\ flush'.base = mem
  BY WindowAssumption DEF Exhausted, Window!Again
<1>4. FlushOK'
  BY <1>3 DEF FlushOK, WindowTyped, ValuesTyped
<1>. QED  BY <1>2, <1>4, FlushStep

\* The last attempt is over: what the flush is about was stored, or is to be saved again, unless
\* saves are on their way.
LEMMA FlushRetriesStep == ASSUME WindowInv, Window!FlushRetries PROVE WindowInv'
<1>. USE DEF WindowInv, Window!FlushRetries, Window!bounds, Window!store, Window!window
<1>1. /\ flush' \in AFlush /\ flush'.stage = "waiting" /\ flush'.base = flush.base
      /\ Exhausted' => flush'.after = Len(saves)
  <2>1. flush \in AFlush /\ Len(saves) \in Nat
    BY LenProperties DEF WindowTyped, ValuesTyped
  <2>2. flush.attempts + 1 \in Nat
    BY <2>1 DEF AFlush
  <2>. QED  BY <2>1, <2>2, WindowAssumption DEF AFlush, Exhausted, Window!Again
<1>2. WindowTyped'
  <2>1. FlagsTyped'
    BY Zenon DEF WindowTyped, FlagsTyped
  <2>2. UNCHANGED <<mem, block, saves, wanted, change, disk1, record, updates, transitions, errors,
                  flushes>>
    OBVIOUS
  <2>3. ValuesTyped
    BY DEF WindowTyped
  <2> HIDE DEF Window!FlushRetries
  <2>. QED  BY <1>1, <2>1, <2>2, <2>3 DEF WindowTyped, ValuesTyped
<1>3. \A n \in 1..Len(saves) : flush.base <= saves[n]
  BY DEF FlushOK
<1>4. Exhausted' /\ flush'.after = 0 => saves = <<>>
  <2>1. saves \in Seq(Nat)
    BY DEF WindowTyped, ValuesTyped
  <2>2. Len(saves) = 0 => saves = <<>>
    BY <2>1, EmptySeq, Zenon
  <2>. QED  BY <1>1, <2>2, Zenon
<1>5. flush.base <= mem /\ mem \in Nat /\ flush.base \in Nat
  BY DEF FlushOK, WindowTyped, ValuesTyped, AFlush
<1>6. saves = <<>> /\ ~Unsaved => Window!Has(flush.base)
  BY <1>5 DEF LastSaveOK, Synced, WindowTyped, ValuesTyped, Window!Has
<1>7. FlushOK'
  BY <1>1, <1>3, <1>4, <1>6 DEF FlushOK, Unsaved, Destroying, Window!Has
<1>. QED  BY <1>2, <1>7, FlushStep

LEMMA AnswersStep ==
  ASSUME WindowInv, NEW ok \in BOOLEAN, Window!Answers(ok)
  PROVE  WindowInv'
<1>. USE DEF WindowInv, Window!Answers, Window!bounds, Window!store, Window!window
<1>1. flush' \in AFlush /\ flush'.stage = "none" /\ flush'.base = 0
  BY DEF AFlush, Window!NoFlush
<1>2. WindowTyped'
  <2>1. FlagsTyped'
    BY Zenon DEF WindowTyped, FlagsTyped
  <2>. QED  BY <1>1, <2>1 DEF WindowTyped, ValuesTyped
<1>3. FlushOK'
  BY <1>1 DEF FlushOK, Exhausted, WindowTyped, ValuesTyped
<1>. QED  BY <1>2, <1>3, FlushStep

LEMMA LoseOwnershipStep == ASSUME WindowInv, Window!LoseOwnership PROVE WindowInv'
<1>. USE DEF Window!LoseOwnership, Window!window, Window!bounds
<1>1. FlagsTyped'
  BY Zenon DEF WindowInv, WindowTyped, FlagsTyped
<1>2. ValuesTyped'
  BY DEF WindowInv, WindowTyped, ValuesTyped
<1>. QED  BY <1>1, <1>2, WindowStutters DEF WindowTyped, WindowSame

LEMMA TransitionAsked ==
  ASSUME WindowInv, NEW kind \in Transitions, Window!Ask(kind)
  PROVE  WindowInv'
<1>. USE DEF Window!Ask, Window!window, Window!store
<1>1. FlagsTyped'
  BY Zenon DEF WindowInv, WindowTyped, FlagsTyped
<1>2. wanted' \in Seq(Transitions)
  BY AppendProperties DEF WindowInv, WindowTyped, ValuesTyped
<1>3. ValuesTyped'
  BY <1>2 DEF WindowInv, WindowTyped, ValuesTyped
<1>. QED  BY <1>1, <1>3, WindowStutters DEF WindowTyped, WindowSame

\* A step of a transition that does not touch values, and forgets no change; the file stays, or
\* gets what the store has, or is emptied.
LEMMA NothingForgotten ==
  ASSUME WindowInv, UNCHANGED <<mem, saves, record, flush, updates>>, Unsaved' <=> Unsaved,
         UNCHANGED <<disk1, wiped>> \/ disk1' = record \/ wiped'
  PROVE  LastSaveOK' /\ FlushOK'
<1>1. LastSaveOK'
  BY DEF WindowInv, LastSaveOK, Synced, Window!Unreadable
<1>2. Window!Has(flush.base) => Window!Has(flush.base)'
  BY DEF Window!Has
<1>. QED  BY <1>1, <1>2 DEF WindowInv, FlushOK, Exhausted, Window!Again, Window!Has

LEMMA StartStep == ASSUME WindowInv, Window!Start PROVE WindowInv'
<1>. DEFINE kind == Head(wanted)
<1>1. kind \in Transitions /\ wanted' \in Seq(Transitions)
  BY HeadTailProperties DEF WindowInv, WindowTyped, ValuesTyped, Window!Start
<1>2. /\ change = Window!NoChange /\ flush' = flush
      /\ UNCHANGED <<mem, primary, saves, saveError, disk1, record, wiped, suppressed, owned>>
      /\ UNCHANGED <<updates, transitions, errors, flushes>>
  BY DEF Window!Start, Window!store, Window!bounds
<1>3. ~Destroying /\ block # "transaction" /\ block \in {"no", "snapshot"}
  BY <1>2 DEF WindowInv, TransactionOK, Destroying, Window!NoChange, WindowTyped, ValuesTyped
<1>4. CASE Window!Declined(kind)
  <2>1. UNCHANGED <<change, block, timer, dirty, enabled>>
    BY <1>4 DEF Window!Start
  <2>2. FlagsTyped'
    BY <1>2, <2>1, Zenon DEF WindowInv, WindowTyped, FlagsTyped
  <2>3. ValuesTyped'
    BY <1>1, <1>2, <2>1 DEF WindowInv, WindowTyped, ValuesTyped
  <2>. QED  BY <1>2, <2>1, <2>2, <2>3, WindowStutters DEF WindowTyped, WindowSame
<1>5. CASE ~Window!Declined(kind) /\ kind = "enable"
  <2>1. /\ UNCHANGED <<block, timer, dirty, enabled>>
        /\ change' = [Window!NoChange EXCEPT !.kind = "enable", !.stage = "calling"]
        /\ ~(enabled /\ block = "no")
    BY <1>5 DEF Window!Start, Window!Declined
  <2>2. change' \in AChange /\ change'.kind = "enable"
    BY <2>1 DEF Window!NoChange, AChange, Transitions
  <2>3. FlagsTyped'
    BY <1>2, <2>1, Zenon DEF WindowInv, WindowTyped, FlagsTyped
  <2>4. ValuesTyped'
    BY <1>1, <1>2, <2>1, <2>2 DEF WindowInv, WindowTyped, ValuesTyped
  <2>5. ~Destroying' /\ (Unsaved' <=> Unsaved)
    BY <1>3, <2>1, <2>2 DEF Destroying, Unsaved
  <2>6. TransactionOK' /\ QueueOK' /\ SuppressedOK'
    BY <1>2, <1>3, <2>1, <2>2, <2>5
       DEF WindowInv, TransactionOK, QueueOK, SuppressedOK
  <2>. QED  BY <1>2, <2>3, <2>4, <2>5, <2>6, NothingForgotten DEF WindowInv, WindowTyped
<1>6. CASE ~Window!Declined(kind) /\ kind # "enable"
  <2>1. /\ change' = [kind |-> kind, stage |-> "draining", block |-> block, retry |-> dirty]
        /\ block' = "transaction" /\ timer' = FALSE /\ dirty' = FALSE
        /\ enabled' = (enabled /\ kind # "disable")
        /\ kind = "disable" => enabled
    BY <1>6 DEF Window!Start, Window!Declined, Window!RetryLater
  <2>2. change' \in AChange /\ change'.kind \in {"clear", "disable"}
    BY <1>1, <1>3, <1>6, <2>1
       DEF AChange, Transitions, WindowInv, WindowTyped, FlagsTyped
  <2>3. FlagsTyped'
    <3>1. enabled' \in BOOLEAN
      BY <2>1
    <3>. QED  BY <1>2, <2>1, <3>1, Zenon DEF WindowInv, WindowTyped, FlagsTyped
  <2>4. ValuesTyped'
    BY <1>1, <1>2, <2>1, <2>2 DEF WindowInv, WindowTyped, ValuesTyped
  <2>5. Destroying' /\ (Unsaved' <=> Unsaved)
    BY <1>3, <2>1, <2>2 DEF Destroying, Unsaved
  <2>6. TransactionOK' /\ QueueOK' /\ SuppressedOK'
    <3>1. change'.stage = "draining" /\ change'.block = block /\ change'.kind = kind
      BY <2>1
    <3>2. TransactionOK'
      BY <1>3, <2>1, <2>2, <2>5, <3>1 DEF TransactionOK
    <3>3. QueueOK'
      BY <1>2, <2>5, <3>1 DEF WindowInv, QueueOK
    <3>4. SuppressedOK'
      BY <1>2, <1>3, <2>1, <2>5, <3>1 DEF WindowInv, SuppressedOK
    <3>. QED  BY <3>2, <3>3, <3>4
  <2>. QED  BY <1>2, <2>3, <2>4, <2>5, <2>6, NothingForgotten DEF WindowInv, WindowTyped
<1>. QED  BY <1>4, <1>5, <1>6

LEMMA DrainStep == ASSUME WindowInv, Window!Drain PROVE WindowInv'
<1>1. /\ change' = [change EXCEPT !.stage = "calling", !.retry = @ \/ dirty]
      /\ dirty' = FALSE /\ saves = <<>> /\ change.kind # "none" /\ change.stage = "draining"
      /\ UNCHANGED <<mem, block, enabled, primary, timer, saves, saveError, wanted, flush>>
      /\ UNCHANGED <<disk1, record, wiped, suppressed, owned>>
      /\ UNCHANGED <<updates, transitions, errors, flushes>>
  BY DEF Window!Drain, Window!Drained, Window!store, Window!bounds
<1>2. Destroying
  BY <1>1 DEF WindowInv, WindowTyped, ValuesTyped, TransactionOK, AChange, Transitions, Destroying
<1>3. change \in AChange /\ change' \in AChange /\ change'.kind = change.kind
      /\ change'.block = change.block /\ change'.stage = "calling"
  <2>1. change \in AChange
    BY DEF WindowInv, WindowTyped, ValuesTyped
  <2>2. (change.retry \/ dirty) \in BOOLEAN
    OBVIOUS
  <2>. QED  BY <1>1, <2>1, <2>2 DEF AChange
<1>4. Destroying' /\ (Unsaved' <=> Unsaved)
  <2>1. change'.retry = (change.retry \/ dirty)
    BY <1>1, <1>3 DEF AChange
  <2>. QED  BY <1>1, <1>2, <1>3, <2>1 DEF Destroying, Unsaved
<1>5. FlagsTyped'
  BY <1>1, Zenon DEF WindowInv, WindowTyped, FlagsTyped
<1>6. ValuesTyped'
  BY <1>1, <1>3 DEF WindowInv, WindowTyped, ValuesTyped
<1>7. TransactionOK'
  BY <1>1, <1>2, <1>3, <1>4 DEF WindowInv, TransactionOK, Destroying
<1>8. QueueOK' /\ SuppressedOK'
  BY <1>1, <1>2, <1>3, <1>4 DEF WindowInv, QueueOK, SuppressedOK
<1>. QED
  <2>1. LastSaveOK' /\ FlushOK'
    BY <1>1, <1>4, NothingForgotten
  <2>. QED  BY <2>1, <1>5, <1>6, <1>7, <1>8 DEF WindowInv, WindowTyped

\* A clear or a disable leaves the store empty and skips the saves until an enable.
LEMMA SucceedsStep == ASSUME WindowInv, Window!Succeeds PROVE WindowInv'
<1>1. /\ change.stage = "calling" /\ change' = Window!NoChange
      /\ UNCHANGED <<dirty, primary, timer, saves, saveError, wanted, owned>>
      /\ UNCHANGED <<updates, transitions, errors, flushes>>
  BY DEF Window!Succeeds, Window!bounds
<1>2. change' \in AChange /\ ~Destroying' /\ change'.kind = "none" /\ change'.stage = "draining"
  BY <1>1 DEF Window!NoChange, AChange, Destroying
<1>3. change.stage = "calling" /\ change.kind \in Transitions
  BY <1>1 DEF WindowInv, TransactionOK, WindowTyped, ValuesTyped, AChange
<1>4. CASE change.kind = "enable"
  <2>1. /\ block' = "no" /\ enabled' = TRUE /\ suppressed' = FALSE
        /\ UNCHANGED <<mem, record, flush>> /\ disk1' = record /\ wiped' = FALSE
    BY <1>4 DEF Window!Succeeds
  <2>2. FlagsTyped'
    BY <1>1, <2>1, Zenon DEF WindowInv, WindowTyped, FlagsTyped
  <2>3. ValuesTyped'
    BY <1>1, <1>2, <2>1 DEF WindowInv, WindowTyped, ValuesTyped
  <2>4. Unsaved' <=> Unsaved
    BY <1>1, <1>2, <1>4 DEF Unsaved, Destroying
  <2>5. TransactionOK' /\ QueueOK' /\ SuppressedOK'
    BY <1>2, <2>1 DEF TransactionOK, QueueOK, SuppressedOK
  <2>6. LastSaveOK' /\ FlushOK'
    BY <1>1, <2>1, <2>4, NothingForgotten
  <2>. QED  BY <2>2, <2>3, <2>5, <2>6 DEF WindowInv, WindowTyped
<1>5. CASE change.kind # "enable"
  <2>1. /\ block' = "snapshot" /\ mem' = 0 /\ record' = 0 /\ disk1' = 0 /\ wiped' = FALSE
        /\ suppressed' = TRUE
        /\ flush' = [flush EXCEPT !.base = 0] /\ UNCHANGED enabled
    BY <1>5 DEF Window!Succeeds
  <2>2. FlagsTyped'
    BY <1>1, <2>1, Zenon DEF WindowInv, WindowTyped, FlagsTyped
  <2>3. flush' \in AFlush /\ flush'.base = 0
    BY <2>1 DEF WindowInv, WindowTyped, ValuesTyped, AFlush
  <2>4. ValuesTyped'
    BY <1>1, <1>2, <2>1, <2>3 DEF WindowInv, WindowTyped, ValuesTyped
  <2>5. saves = <<>>
    BY <1>5, <1>3 DEF WindowInv, QueueOK, Destroying, Transitions
  <2>6. TransactionOK' /\ QueueOK' /\ SuppressedOK'
    BY <1>1, <1>2, <2>1, <2>5 DEF TransactionOK, QueueOK, SuppressedOK
  <2>7. LastSaveOK'
    BY <1>1, <2>1, <2>5 DEF LastSaveOK, Synced
  <2>8. FlushOK'
    <3>1. updates' \in Nat
      BY <2>4 DEF ValuesTyped
    <3>2. Len(saves) = 0
      BY <2>5
    <3>. QED  BY <1>1, <2>1, <2>3, <2>5, <3>1, <3>2 DEF FlushOK, Window!Has
  <2>. QED  BY <2>2, <2>4, <2>6, <2>7, <2>8 DEF WindowInv, WindowTyped
<1>. QED  BY <1>4, <1>5

\* The rollback of a transition that failed: what it kept is unsaved again.
LEMMA RollBackStep ==
  ASSUME WindowInv, NEW own \in BOOLEAN, change.stage = "calling", Window!RollBack(own),
         UNCHANGED <<updates, transitions, flushes>>, errors' \in Nat,
         \/ UNCHANGED <<disk1, wiped>>
         \/ disk1' = record /\ wiped' = FALSE
         \/ disk1' = 0 /\ wiped' = TRUE
  PROVE  WindowInv'
<1>1. /\ change' = Window!NoChange /\ primary' = own
      /\ UNCHANGED <<mem, saves, saveError, wanted, flush, record, suppressed, owned>>
      /\ disk1' \in Nat /\ wiped' \in BOOLEAN
  <2>1. disk1 \in Nat /\ record \in Nat /\ wiped \in BOOLEAN
    BY DEF WindowInv, WindowTyped, FlagsTyped, ValuesTyped
  <2>2. disk1' \in Nat
    BY <2>1
  <2>4. wiped' \in BOOLEAN
    BY <2>1, Zenon
  <2>3. /\ change' = Window!NoChange /\ primary' = own
        /\ UNCHANGED <<mem, saves, saveError, wanted, flush, record, suppressed, owned>>
    BY DEF Window!RollBack
  <2>. QED  BY <2>2, <2>3, <2>4
<1>2. change' \in AChange /\ ~Destroying' /\ change'.kind = "none" /\ change'.stage = "draining"
  BY <1>1 DEF Window!NoChange, AChange, Destroying
<1>3. change \in AChange /\ change.kind \in Transitions
  BY DEF WindowInv, WindowTyped, ValuesTyped, TransactionOK, AChange
<1>4. CASE change.kind = "enable"
  <2>1. UNCHANGED <<block, dirty, timer, enabled>>
    BY <1>4 DEF Window!RollBack
  <2>2. FlagsTyped'
    BY <1>1, <2>1, Zenon DEF WindowInv, WindowTyped, FlagsTyped
  <2>3. ValuesTyped'
    BY <1>1, <1>2, <2>1 DEF WindowInv, WindowTyped, ValuesTyped
  <2>4. ~Destroying /\ (Unsaved' <=> Unsaved)
    BY <1>2, <1>4, <2>1 DEF Unsaved, Destroying
  <2>5. TransactionOK' /\ QueueOK' /\ SuppressedOK'
    BY <1>1, <1>2, <2>1, <2>4 DEF WindowInv, TransactionOK, QueueOK, SuppressedOK
  <2>6. LastSaveOK' /\ FlushOK'
    BY <1>1, <2>4, NothingForgotten
  <2>. QED  BY <2>2, <2>3, <2>5, <2>6 DEF WindowInv, WindowTyped
<1>5. CASE change.kind # "enable"
  <2>1. /\ block' = change.block /\ dirty' = (change.retry \/ dirty)
        /\ timer' = (dirty' /\ own /\ enabled /\ change.block = "no")
        /\ enabled' = (enabled \/ change.kind = "disable")
    BY <1>5 DEF Window!RollBack
  <2>2. dirty' \in BOOLEAN /\ timer' \in BOOLEAN /\ enabled' \in BOOLEAN
    BY <2>1
  <2>3. FlagsTyped'
    BY <1>1, <2>2, Zenon DEF WindowInv, WindowTyped, FlagsTyped
  <2>4. Destroying /\ change.block \in {"no", "snapshot"}
    BY <1>3, <1>5 DEF Destroying, Transitions, AChange, WindowInv, TransactionOK
  <2>5. ValuesTyped'
    BY <1>1, <1>2, <2>1, <2>4 DEF WindowInv, WindowTyped, ValuesTyped
  <2>6. Unsaved' <=> Unsaved
    BY <1>2, <2>1, <2>4 DEF Unsaved
  <2>7. saves = <<>>
    BY <2>4 DEF WindowInv, QueueOK
  <2>8. TransactionOK' /\ QueueOK'
    BY <1>1, <1>2, <2>1, <2>4, <2>7 DEF TransactionOK, QueueOK
  <2>9. SuppressedOK'
    BY <1>1, <1>2, <2>1, <2>4 DEF WindowInv, SuppressedOK
  <2>10. LastSaveOK' /\ FlushOK'
    BY <1>1, <2>6, NothingForgotten
  <2>. QED  BY <2>3, <2>5, <2>8, <2>9, <2>10 DEF WindowInv, WindowTyped
<1>. QED  BY <1>4, <1>5

LEMMA RejectedStep == ASSUME WindowInv, Window!Rejected PROVE WindowInv'
<1>1. (primary /\ change.kind # "clear") \in BOOLEAN
  OBVIOUS
<1>2. UNCHANGED <<disk1, wiped, updates, transitions, errors, flushes>> /\ errors' \in Nat
  BY DEF Window!Rejected, Window!bounds, WindowInv, WindowTyped, ValuesTyped
<1>. QED  BY <1>1, <1>2, RollBackStep DEF Window!Rejected

LEMMA TransitionFailsStep == ASSUME WindowInv, Window!Fails PROVE WindowInv'
<1>1. primary \in BOOLEAN
  BY DEF WindowInv, WindowTyped, FlagsTyped
<1>2. UNCHANGED <<updates, transitions, flushes>> /\ errors' \in Nat
  BY DEF Window!Fails, WindowInv, WindowTyped, ValuesTyped
<1>3. \/ UNCHANGED <<disk1, wiped>>
      \/ disk1' = record /\ wiped' = FALSE
      \/ disk1' = 0 /\ wiped' = TRUE
  BY DEF Window!Fails, Window!MayReplace
<1>4. change.stage = "calling" /\ Window!RollBack(primary)
  BY DEF Window!Fails
<1>. QED  BY <1>1, <1>2, <1>3, <1>4, RollBackStep

LEMMA WindowStep == WindowInv /\ [Window!Next]_Window!vars => WindowInv'
<1>. SUFFICES ASSUME WindowInv, [Window!Next]_Window!vars PROVE WindowInv'
  OBVIOUS
<1>1. CASE Window!Next
  <2>1. ASSUME NEW kind \in Transitions, Window!Ask(kind) PROVE WindowInv'
    BY <2>1, TransitionAsked
  <2>2. ASSUME NEW ok \in BOOLEAN, Window!Answers(ok) PROVE WindowInv'
    BY <2>2, AnswersStep
  <2>. QED  BY <1>1, <2>1, <2>2, UpdateStep, SaveTimerStep, SavedStep, SaveRejectedStep,
         SaveFailsStep, LoseOwnershipStep, StartStep, DrainStep, SucceedsStep, RejectedStep,
         TransitionFailsStep, FlushStartsStep, FlushSavesStep, FlushRetriesStep
       DEF Window!Next, Transitions
<1>2. CASE UNCHANGED Window!vars
  <2>1. FlagsTyped'
    BY <1>2, Zenon DEF WindowInv, WindowTyped, FlagsTyped, Window!vars, Window!window,
                       Window!store, Window!bounds
  <2>2. ValuesTyped'
    BY <1>2 DEF WindowInv, WindowTyped, ValuesTyped, Window!vars, Window!window,
                Window!store, Window!bounds
  <2>. QED  BY <1>2, <2>1, <2>2, WindowStutters
       DEF WindowTyped, WindowSame, Window!vars, Window!window, Window!store, Window!bounds
<1>. QED  BY <1>1, <1>2

\* What the properties of the window follow from, in every reachable state.
LEMMA WindowInductive == Window!Spec => []WindowInv
  BY WindowInit, WindowStep, PTL DEF Window!Spec

\* A window that may write and has nothing left to save has its last change in the store, whatever
\* saves and transactions failed or ran meanwhile, and in the state file too, unless a clear or a
\* disable failed after it had replaced the file.
THEOREM NoChangeIsLost == Window!Spec => []CleanIsSaved
<1>1. WindowInv => CleanIsSaved
  <2>. SUFFICES ASSUME WindowInv, Window!CanWrite, ~dirty, saves = <<>>
                PROVE  Synced
    BY DEF CleanIsSaved, Window!CleanIsSaved, Synced
  <2>1. ~Destroying /\ ~Unsaved
    BY DEF WindowInv, TransactionOK, Window!CanWrite, Unsaved
  <2>. QED  BY <2>1 DEF WindowInv, LastSaveOK, Synced
<1>. QED  BY <1>1, WindowInductive, PTL

\* A flush that succeeds for a window that may write has stored what was changed before it began,
\* though saves fail, overlap and are repeated meanwhile; the state file has it too, but for a
\* clear or a disable that failed after it had replaced the file.
THEOREM FlushesAreDurable == Window!Spec => FlushIsDurable
<1>1. WindowInv => (Window!Answers(TRUE) /\ Window!CanWrite => Window!Has(flush.base))
  <2>. SUFFICES ASSUME WindowInv, Window!Answers(TRUE), Window!CanWrite
                PROVE  Window!Has(flush.base)
    OBVIOUS
  <2>1. ~Destroying /\ ~dirty /\ ~Unsaved
    BY DEF WindowInv, TransactionOK, Window!CanWrite, Window!Answers, Unsaved
  <2>2. mem \in Nat /\ disk1 \in Nat /\ record \in Nat /\ flush.base \in Nat /\ flush.base <= mem
    BY DEF WindowInv, WindowTyped, ValuesTyped, AFlush, FlushOK
  <2>3. CASE saves = <<>>
    BY <2>1, <2>2, <2>3 DEF WindowInv, LastSaveOK, Synced, Window!Has
  <2>4. CASE saves # <<>>
    <3>1. Exhausted /\ flush.after = 0
      BY <2>1, <2>4 DEF Window!Answers, Window!Quiet, Exhausted
    <3>. QED  BY <2>1, <2>2, <3>1 DEF WindowInv, FlushOK
  <2>. QED  BY <2>3, <2>4
<1>. QED  BY <1>1, WindowInductive, PTL DEF FlushIsDurable, Window!FlushIsDurable, Window!Spec

-----------------------------------------------------------------------------
(* The stream *)

APayload == [id : Nat, size : Nat]
AStream  == [key : Keys, stage : {"open", "closed", "cleaned"}, pressed : BOOLEAN, buffered : Nat,
             pending : Seq(APayload), out : Seq(APayload), due : Seq(APayload)]

StreamsTyped ==
  /\ streams \in Seq(AStream) /\ opened = Len(streams)
  /\ sseClients \in SUBSET Nat /\ connections \in [Keys -> 0..opened] /\ stale \in SUBSET Keys
  /\ statuses \in Seq(APayload) /\ running \in {"running", "stopping", "stopped"} /\ sent \in Nat

\* An open stream wrote or keeps all it was asked to write, and counts at least what it keeps; one
\* whose socket takes more keeps nothing.  One that ended wrote up to some point.
Written(x) ==
  IF x.stage = "open"
  THEN /\ x.out \o x.pending = x.due
       /\ Stream!Bytes(x.pending) <= x.buffered /\ x.buffered <= Limit
       /\ ~x.pressed => x.pending = <<>> /\ x.buffered = 0
  ELSE Stream!IsPrefix(x.out, x.due)

WrittenOK == \A s \in 1..Len(streams) : Written(streams[s])

\* A key is known by a stream of its own.
KeysOK == \A k \in Keys : connections[k] # 0 => streams[connections[k]].key = k

StreamInv == StreamsTyped /\ WrittenOK /\ KeysOK /\ Stream!OpenIsRegistered

\* Every nonempty set of natural numbers has a least element.
LEMMA LeastNat ==
  ASSUME NEW S \in SUBSET Nat, S # {}
  PROVE  \E n \in S : \A k \in S : n <= k
<1> DEFINE R == OpToRel(<, Nat)
<1>1. IsWellFoundedOn(R, Nat)
  BY NatLessThanWellFounded, Zenon
<1>2. \A k, n \in Nat : <<k, n>> \in R <=> k < n
  BY DEF OpToRel
<1> HIDE DEF R
<1>3. PICK n \in S : \A k \in S : <<k, n>> \notin R
  BY <1>1, WFMin
<1>4. \A k \in S : k \in Nat /\ n \in Nat /\ ~(k < n)
  BY <1>2, <1>3
<1>5. \A k \in S : n <= k
  BY <1>4
<1>. QED  BY <1>5

\* A set of natural numbers with 0 and all its successors up to a bound has them all.
LEMMA Naturals ==
  ASSUME NEW S, NEW N \in Nat, 0 \in S, \A n \in 0..N : n \in S /\ n < N => n + 1 \in S
  PROVE  0..N \subseteq S
<1>. SUFFICES ASSUME ~(0..N \subseteq S) PROVE FALSE
  OBVIOUS
<1>1. PICK n \in (0..N) \ S : \A k \in (0..N) \ S : n <= k
  <2>1. (0..N) \ S # {} /\ (0..N) \ S \in SUBSET Nat
    OBVIOUS
  <2>. QED  BY <2>1, LeastNat
<1>2. n # 0 /\ n - 1 \in 0..N /\ n - 1 < N
  BY <1>1
<1>3. n - 1 \in S
  BY <1>1, <1>2
<1>. QED  BY <1>1, <1>2, <1>3

\* The totals of a sequence of payloads, one by one.
TotalsBy(p, total) ==
  total = [n \in 0..Len(p) |-> IF n = 0 THEN 0 ELSE total[n - 1] + p[n].size]

LEMMA TotalsExist ==
  ASSUME NEW p \in Seq(APayload)
  PROVE  \E total : TotalsBy(p, total)
<1> DEFINE N == Len(p)
           Solves(f, n) == \A k \in 0..N : k <= n =>
                             f[k] = IF k = 0 THEN 0 ELSE f[k - 1] + p[k].size
           Step(f) == [k \in 0..N |-> IF k = 0 THEN 0 ELSE f[k - 1] + p[k].size]
           K == {n \in Nat : \E f : Solves(f, n)}
<1>1. N \in Nat
  OBVIOUS
<1> HIDE DEF N
<1>2. 0 \in K
  <2>1. Solves([k \in 0..N |-> 0], 0)
    BY <1>1
  <2> HIDE DEF Solves
  <2>. QED  BY <2>1
<1>3. ASSUME NEW n \in 0..N, n \in K PROVE n + 1 \in K
  <2>1. PICK f : Solves(f, n)
    BY <1>3
  <2>2. ASSUME NEW k \in 0..N, k <= n + 1, k # 0
        PROVE  Step(f)[k] = Step(f)[k - 1] + p[k].size
    <3>1. k - 1 \in 0..N /\ k - 1 <= n
      BY <1>1, <1>3, <2>2
    <3>2. Step(f)[k - 1] = f[k - 1]
      BY <2>1, <3>1
    <3>. QED  BY <2>2, <3>2
  <2>3. Step(f)[0] = 0
    BY <1>1
  <2>4. Solves(Step(f), n + 1)
    BY <2>2, <2>3
  <2> HIDE DEF Solves, Step
  <2>. QED  BY <2>4, <1>3
<1>4. N \in K
  <2> HIDE DEF K
  <2>1. 0..N \subseteq K
    BY <1>1, <1>2, <1>3, Naturals
  <2>. QED  BY <1>1, <2>1
<1>5. PICK f : Solves(f, N)
  BY <1>4
<1>6. \A k \in 0..N : Step(f)[k] = f[k]
  BY <1>1, <1>5
<1>7. \A k \in 0..N : k # 0 => k - 1 \in 0..N
  BY <1>1
<1>8. \A k \in 0..N : k # 0 => Step(f)[k] = Step(f)[k - 1] + p[k].size
  BY <1>6, <1>7
<1>9. TotalsBy(p, Step(f))
  BY <1>8 DEF TotalsBy, N
<1>. QED  BY <1>9

\* The bytes of a sequence are the last of its totals, which never fall.
LEMMA BytesUnfold ==
  ASSUME NEW p \in Seq(APayload)
  PROVE  \E total \in [0..Len(p) -> Nat] :
           /\ Stream!Bytes(p) = total[Len(p)] /\ total[0] = 0
           /\ \A n \in 1..Len(p) : total[n] = total[n - 1] + p[n].size
<1> DEFINE F == CHOOSE total : TotalsBy(p, total)
           N == Len(p)
<1>1. TotalsBy(p, F)
  BY TotalsExist, Zenon
<1>2. Stream!Bytes(p) = F[N]
  BY DEF Stream!Bytes, TotalsBy
<1>3. N \in Nat
  OBVIOUS
<1> HIDE DEF F, N
<1>4. F = [n \in 0..N |-> F[n]] /\ F[0] = 0
      /\ \A n \in 1..N : F[n] = F[n - 1] + p[n].size
  <2>1. 0 \in 0..N /\ \A n \in 1..N : n \in 0..N /\ n # 0
    BY <1>3
  <2>. QED  BY <1>1, <2>1 DEF TotalsBy, N
<1>5. \A n \in 1..N : p[n].size \in Nat
  <2>1. \A n \in 1..N : p[n] \in APayload
    BY ElementOfSeq DEF N
  <2>. QED  BY <2>1 DEF APayload
<1>6. \A n \in 0..N : F[n] \in Nat
  <2> DEFINE S == {n \in 0..N : F[n] \in Nat}
  <2>1. 0 \in S
    BY <1>3, <1>4
  <2>2. ASSUME NEW n \in 0..N, n \in S, n < N PROVE n + 1 \in S
    <3>1. n + 1 \in 1..N /\ n + 1 \in 0..N /\ (n + 1) - 1 = n
      BY <1>3, <2>2
    <3>2. F[n + 1] = F[(n + 1) - 1] + p[n + 1].size /\ p[n + 1].size \in Nat
      BY <1>4, <1>5, <3>1
    <3>3. F[n] \in Nat
      BY <2>2
    <3>. QED  BY <3>1, <3>2, <3>3
  <2> HIDE DEF S
  <2>3. 0..N \subseteq S
    BY <1>3, <2>1, <2>2, Naturals
  <2>. QED  BY <2>3 DEF S
<1>. QED  BY <1>2, <1>4, <1>6 DEF N

LEMMA BytesEmpty == Stream!Bytes(<<>>) = 0
<1>1. <<>> \in Seq(APayload) /\ Len(<<>>) = 0
  BY EmptySeq, Zenon
<1>2. PICK total \in [0..Len(<<>>) -> Nat] : Stream!Bytes(<<>>) = total[Len(<<>>)] /\ total[0] = 0
  BY <1>1, BytesUnfold, Zenon
<1>. QED  BY <1>1, <1>2, Zenon

LEMMA BytesNat == ASSUME NEW p \in Seq(APayload) PROVE Stream!Bytes(p) \in Nat
<1>1. PICK total \in [0..Len(p) -> Nat] : Stream!Bytes(p) = total[Len(p)]
  BY BytesUnfold
<1>2. Len(p) \in 0..Len(p)
  BY LenProperties
<1>. QED  BY <1>1, <1>2

\* One payload more.
LEMMA BytesAppend ==
  ASSUME NEW p \in Seq(APayload), NEW x \in APayload
  PROVE  Stream!Bytes(Append(p, x)) = Stream!Bytes(p) + x.size
<1> DEFINE N == Len(p)
           q == Append(p, x)
<1>1. N \in Nat /\ q \in Seq(APayload) /\ Len(q) = N + 1 /\ q[N + 1] = x
      /\ \A n \in 1..N : q[n] = p[n]
  BY AppendProperties, LenProperties
<1>2. PICK t \in [0..N -> Nat] :
        /\ Stream!Bytes(p) = t[N] /\ t[0] = 0
        /\ \A n \in 1..N : t[n] = t[n - 1] + p[n].size
  BY BytesUnfold
<1>3. PICK u \in [0..Len(q) -> Nat] :
        /\ Stream!Bytes(q) = u[Len(q)] /\ u[0] = 0
        /\ \A n \in 1..Len(q) : u[n] = u[n - 1] + q[n].size
  BY <1>1, BytesUnfold
<1> HIDE DEF N, q
<1>4. u[N] = t[N]
  <2> DEFINE S == {n \in 0..N : u[n] = t[n]}
  <2>1. 0 \in S
    BY <1>1, <1>2, <1>3
  <2>2. ASSUME NEW n \in 0..N, n \in S, n < N PROVE n + 1 \in S
    <3>1. n + 1 \in 1..N /\ n + 1 \in 1..Len(q) /\ n + 1 \in 0..N /\ (n + 1) - 1 = n
      BY <1>1, <2>2
    <3>2. t[n + 1] = t[(n + 1) - 1] + p[n + 1].size
      BY <1>2, <3>1
    <3>3. u[n + 1] = u[(n + 1) - 1] + q[n + 1].size
      BY <1>3, <3>1
    <3>4. q[n + 1] = p[n + 1] /\ u[n] = t[n]
      BY <1>1, <2>2, <3>1
    <3>. QED  BY <3>1, <3>2, <3>3, <3>4
  <2> HIDE DEF S
  <2>3. 0..N \subseteq S
    BY <1>1, <2>1, <2>2, Naturals
  <2>4. N \in S
    BY <1>1, <2>3
  <2>. QED  BY <2>4 DEF S
<1>5. N + 1 \in 1..Len(q) /\ (N + 1) - 1 = N
  BY <1>1
<1>6. u[N + 1] = u[(N + 1) - 1] + q[N + 1].size
  BY <1>3, <1>5
<1>7. Stream!Bytes(q) = t[N] + x.size
  BY <1>1, <1>3, <1>4, <1>5, <1>6
<1>. QED  BY <1>2, <1>7 DEF q

\* What is left after n payloads has at most the bytes that the n-th and all after it had.
LEMMA BytesLeft ==
  ASSUME NEW p \in Seq(APayload), NEW n \in 1..Len(p)
  PROVE  Stream!Bytes(SubSeq(p, n + 1, Len(p))) + p[n].size <= Stream!Bytes(p)
<1> DEFINE N == Len(p)
           q == SubSeq(p, n + 1, N)
           M == N - n
<1>1. N \in Nat /\ M \in Nat /\ n \in Nat /\ n >= 1 /\ n <= N
  BY LenProperties
<1>2. q \in Seq(APayload) /\ Len(q) = M /\ \A k \in 1..M : q[k] = p[n + k]
  <2>1. \A i \in (n + 1)..N : p[i] \in APayload
    BY <1>1, ElementOfSeq
  <2>2. /\ q \in Seq(APayload)
        /\ Len(q) = IF n + 1 <= N THEN N - (n + 1) + 1 ELSE 0
        /\ \A i \in 1..(N - (n + 1) + 1) : q[i] = p[(n + 1) + i - 1]
    BY <1>1, <2>1, SubSeqProperties
  <2>. QED  BY <1>1, <2>2
<1>3. PICK t \in [0..N -> Nat] :
        /\ Stream!Bytes(p) = t[N] /\ t[0] = 0
        /\ \A k \in 1..N : t[k] = t[k - 1] + p[k].size
  BY BytesUnfold
<1>4. PICK u \in [0..M -> Nat] :
        /\ Stream!Bytes(q) = u[M] /\ u[0] = 0
        /\ \A k \in 1..M : u[k] = u[k - 1] + q[k].size
  <2>1. \E u \in [0..Len(q) -> Nat] :
          /\ Stream!Bytes(q) = u[Len(q)] /\ u[0] = 0
          /\ \A k \in 1..Len(q) : u[k] = u[k - 1] + q[k].size
    BY <1>2, BytesUnfold
  <2> HIDE DEF q, M
  <2>. QED  BY <1>2, <2>1
<1> HIDE DEF N, q, M
<1>5. M = N - n /\ N = n + M
  BY <1>1 DEF M
<1>6. t[n] + u[M] = t[n + M]
  <2> DEFINE S == {k \in 0..M : t[n] + u[k] = t[n + k]}
  <2>1. 0 \in S
    <3>1. n \in 0..N /\ t[n] \in Nat
      BY <1>1, <1>3
    <3>. QED  BY <1>1, <1>4, <3>1
  <2>2. ASSUME NEW k \in 0..M, k \in S, k < M PROVE k + 1 \in S
    <3>1. k + 1 \in 1..M /\ k + 1 \in 0..M /\ (k + 1) - 1 = k
      BY <1>1, <2>2
    <3>2. n + (k + 1) \in 1..N /\ (n + (k + 1)) - 1 = n + k
      BY <1>1, <1>5, <2>2
    <3>3. t[n + (k + 1)] = t[(n + (k + 1)) - 1] + p[n + (k + 1)].size
      BY <1>3, <3>2
    <3>4. u[k + 1] = u[(k + 1) - 1] + q[k + 1].size
      BY <1>4, <3>1
    <3>5. q[k + 1] = p[n + (k + 1)]
      BY <1>2, <3>1
    <3>6. p[n + (k + 1)].size \in Nat
      <4>1. p[n + (k + 1)] \in APayload
        BY <3>2, ElementOfSeq DEF N
      <4>. QED  BY <4>1 DEF APayload
    <3>7. t[n] \in Nat /\ u[k] \in Nat /\ t[n] + u[k] = t[n + k]
      BY <1>1, <1>3, <1>4, <2>2
    <3>. QED  BY <3>1, <3>2, <3>3, <3>4, <3>5, <3>6, <3>7
  <2> HIDE DEF S
  <2>3. 0..M \subseteq S
    BY <1>1, <2>1, <2>2, Naturals
  <2>4. M \in S
    BY <1>1, <2>3
  <2>. QED  BY <2>4 DEF S
<1>7. t[n] = t[n - 1] + p[n].size /\ t[n - 1] \in Nat /\ t[n] \in Nat /\ u[M] \in Nat
  <2>1. n \in 1..N /\ n - 1 \in 0..N /\ n \in 0..N /\ M \in 0..M
    BY <1>1
  <2>. QED  BY <1>3, <1>4, <2>1
<1>8. p[n].size \in Nat
  <2>1. p[n] \in APayload
    BY ElementOfSeq
  <2>. QED  BY <2>1 DEF APayload
<1>9. Stream!Bytes(q) + p[n].size <= Stream!Bytes(p)
  <2>1. Stream!Bytes(q) = u[M] /\ Stream!Bytes(p) = t[N]
    BY <1>3, <1>4
  <2>2. t[N] = t[n] + u[M]
    BY <1>5, <1>6
  <2>3. \A a, b, c, d \in Nat : b = a + d => c + d <= b + c
    OBVIOUS
  <2>. QED  BY <1>7, <1>8, <2>1, <2>2, <2>3
<1>. QED  BY <1>9 DEF q, N

\* A sequence is a prefix of what it is the beginning of, also when more is appended.
LEMMA PrefixOfConcat ==
  ASSUME NEW S, NEW p \in Seq(S), NEW q \in Seq(S)
  PROVE  Stream!IsPrefix(p, p \o q)
<1>1. Len(p) \in Nat /\ Len(q) \in Nat /\ Len(p \o q) = Len(p) + Len(q)
      /\ \A i \in 1..Len(p) + Len(q) : (p \o q)[i] = IF i <= Len(p) THEN p[i] ELSE q[i - Len(p)]
  BY ConcatProperties, LenProperties
<1>2. SubSeq(p, 1, Len(p)) = p
  BY SubSeqFull
<1>3. SubSeq(p \o q, 1, Len(p)) = p
  <2> DEFINE r == SubSeq(p \o q, 1, Len(p))
  <2>1. \A i \in 1..Len(p) : (p \o q)[i] = p[i] /\ p[i] \in S
    BY <1>1, ElementOfSeq
  <2>2. r \in Seq(S) /\ Len(r) = Len(p) /\ \A i \in 1..Len(p) : r[i] = p[i]
    <3>1. \A i \in 1..Len(p) : (p \o q)[i] \in S
      BY <2>1
    <3>2. /\ r \in Seq(S)
          /\ Len(r) = IF 1 <= Len(p) THEN Len(p) - 1 + 1 ELSE 0
          /\ \A i \in 1..(Len(p) - 1 + 1) : r[i] = (p \o q)[1 + i - 1]
      BY <1>1, <3>1, SubSeqProperties
    <3>. QED  BY <1>1, <2>1, <3>2
  <2> HIDE DEF r
  <2>3. r = p
    BY <2>2, SeqEqual
  <2>. QED  BY <2>3 DEF r
<1>. QED  BY <1>1, <1>2, <1>3 DEF Stream!IsPrefix

LEMMA StreamInit == Stream!Init => StreamInv
<1>. SUFFICES ASSUME Stream!Init PROVE StreamInv
  OBVIOUS
<1>1. streams = <<>> /\ Len(streams) = 0 /\ opened = 0 /\ sseClients = {} /\ stale = {}
      /\ connections = [k \in Keys |-> 0] /\ statuses = <<>> /\ running = "running" /\ sent = 0
  BY EmptySeq, Zenon DEF Stream!Init
<1>2. StreamsTyped
  BY <1>1 DEF StreamsTyped
<1>3. WrittenOK /\ KeysOK
  BY <1>1 DEF WrittenOK, KeysOK
<1>4. Stream!OpenIsRegistered
  BY <1>1 DEF Stream!OpenIsRegistered
<1>. QED  BY <1>2, <1>3, <1>4 DEF StreamInv

\* A stream that is closed forgets what it kept: it wrote up to some point.
LEMMA ClosedOK ==
  ASSUME NEW x \in AStream, Written(x), NEW cleaned \in BOOLEAN
  PROVE  LET y == Stream!Closed(x, cleaned) IN
         y \in AStream /\ Written(y) /\ y.key = x.key /\ y.stage # "open"
<1> DEFINE y == Stream!Closed(x, cleaned)
<1>1. /\ y \in AStream /\ y.key = x.key /\ y.stage # "open" /\ y.out = x.out /\ y.due = x.due
  <2>1. <<>> \in Seq(APayload)
    OBVIOUS
  <2>. QED  BY <2>1 DEF Stream!Closed, AStream
<1>2. Stream!IsPrefix(x.out, x.due)
  <2>1. CASE x.stage = "open"
    <3>1. x.out \o x.pending = x.due /\ x.out \in Seq(APayload) /\ x.pending \in Seq(APayload)
      BY <2>1 DEF Written, AStream
    <3>. QED  BY <3>1, PrefixOfConcat
  <2>2. CASE x.stage # "open"
    BY <2>2 DEF Written
  <2>. QED  BY <2>1, <2>2
<1>. QED  BY <1>1, <1>2 DEF Written

LEMMA ConcatAppend ==
  \A p, q \in Seq(APayload) : \A e \in APayload : p \o Append(q, e) = Append(p \o q, e)
<1>. SUFFICES ASSUME NEW p \in Seq(APayload), NEW q \in Seq(APayload), NEW e \in APayload
              PROVE  p \o Append(q, e) = Append(p \o q, e)
  OBVIOUS
<1>1. <<e>> \in Seq(APayload) /\ p \o q \in Seq(APayload)
  BY ConcatProperties
<1>2. Append(q, e) = q \o <<e>> /\ Append(p \o q, e) = (p \o q) \o <<e>>
  BY <1>1, AppendIsConcat
<1>3. (p \o q) \o <<e>> = p \o (q \o <<e>>)
  BY <1>1, ConcatAssociative
<1>. QED  BY <1>2, <1>3

\* Whatever the socket makes of a payload: the stream wrote it, keeps it, or is over.
LEMMA WritesOK ==
  ASSUME NEW x \in AStream, Written(x), NEW p \in APayload, NEW y \in Stream!Writes(x, p)
  PROVE  y \in AStream /\ Written(y) /\ y.key = x.key /\ (y.stage = "open" => x.stage = "open")
<1> DEFINE z == [x EXCEPT !.due = Append(@, p)]
           w == [z EXCEPT !.out = Append(@, p)]
<1>1. x.pending \in Seq(APayload) /\ x.out \in Seq(APayload) /\ x.due \in Seq(APayload)
  BY DEF AStream
<1>2. /\ Append(x.due, p) \in Seq(APayload) /\ Append(x.out, p) \in Seq(APayload)
      /\ Append(x.pending, p) \in Seq(APayload)
  BY <1>1, AppendProperties
<1>3. z \in AStream /\ z = [x EXCEPT !.due = Append(x.due, p)]
  BY <1>2 DEF AStream
<1>4. w \in AStream /\ w.out = Append(x.out, p) /\ w.due = Append(x.due, p)
      /\ w.key = x.key /\ w.stage = x.stage /\ w.pending = x.pending
      /\ w.pressed = x.pressed /\ w.buffered = x.buffered
  BY <1>2 DEF AStream
<1>5. x.buffered \in Nat /\ p.size \in Nat
  BY DEF AStream, APayload
<1>6. CASE x.stage # "open"
  BY <1>6 DEF Stream!Writes
<1>7. CASE x.stage = "open" /\ x.buffered + p.size > Limit
  <2>1. y = Stream!Closed(z, TRUE)
    BY <1>7 DEF Stream!Writes, Stream!Overflows
  <2>2. /\ y \in AStream /\ y.key = x.key /\ y.stage = "cleaned"
        /\ y.out = x.out /\ y.due = Append(x.due, p)
    <3>1. <<>> \in Seq(APayload)
      OBVIOUS
    <3>. QED  BY <1>2, <2>1, <3>1 DEF Stream!Closed, AStream
  <2>3. x.out \o x.pending = x.due
    BY <1>7 DEF Written
  <2>4. x.out \o Append(x.pending, p) = Append(x.due, p)
    <3>1. x.out \o Append(x.pending, p) = Append(x.out \o x.pending, p)
      BY <1>1, ConcatAppend, Zenon
    <3>. QED  BY <2>3, <3>1
  <2>5. Stream!IsPrefix(x.out, Append(x.due, p))
    BY <1>1, <1>2, <2>4, PrefixOfConcat
  <2>. QED  BY <2>2, <2>5 DEF Written
<1>8. CASE x.stage = "open" /\ x.buffered + p.size <= Limit /\ x.pressed
  <2>1. y = [z EXCEPT !.pending = Append(@, p), !.buffered = @ + p.size]
    BY <1>5, <1>8, LimitAssumption DEF Stream!Writes
  <2>2. x.buffered + p.size \in Nat
    BY <1>5
  <2>3. /\ y \in AStream /\ y.key = x.key /\ y.stage = "open" /\ y.pressed = x.pressed
        /\ y.out = x.out /\ y.due = Append(x.due, p)
        /\ y.pending = Append(x.pending, p) /\ y.buffered = x.buffered + p.size
    BY <1>2, <1>8, <2>1, <2>2 DEF AStream
  <2>4. x.out \o x.pending = x.due /\ Stream!Bytes(x.pending) <= x.buffered
    BY <1>8 DEF Written
  <2>5. x.out \o Append(x.pending, p) = Append(x.due, p)
    <3>1. x.out \o Append(x.pending, p) = Append(x.out \o x.pending, p)
      BY <1>1, ConcatAppend, Zenon
    <3>. QED  BY <2>4, <3>1
  <2>6. Stream!Bytes(y.pending) <= y.buffered
    BY <1>1, <1>5, <2>3, <2>4, BytesAppend, BytesNat
  <2>. QED  BY <1>8, <2>3, <2>5, <2>6 DEF Written
<1>9. CASE x.stage = "open" /\ x.buffered + p.size <= Limit /\ ~x.pressed
  <2>1. y \in {w, [w EXCEPT !.pressed = TRUE, !.buffered = p.size]}
    BY <1>5, <1>9, LimitAssumption DEF Stream!Writes
  <2>2. x.pending = <<>> /\ x.buffered = 0 /\ x.out \o x.pending = x.due
    BY <1>9 DEF Written
  <2>3. x.out = x.due
    BY <1>1, <2>2, ConcatEmptySeq
  <2>4. w.out \o w.pending = w.due
    BY <1>2, <1>4, <2>2, <2>3, ConcatEmptySeq
  <2>5. CASE y = w
    BY <1>4, <1>9, <2>2, <2>4, <2>5, BytesEmpty, LimitAssumption DEF Written
  <2>6. CASE y = [w EXCEPT !.pressed = TRUE, !.buffered = p.size]
    <3>1. /\ y \in AStream /\ y.out = w.out /\ y.pending = w.pending /\ y.due = w.due
          /\ y.key = w.key /\ y.stage = w.stage /\ y.pressed = TRUE /\ y.buffered = p.size
      BY <1>4, <1>5, <2>6 DEF AStream
    <3>2. Stream!Bytes(y.pending) = 0
      BY <1>4, <2>2, <3>1, BytesEmpty
    <3>3. p.size <= Limit
      BY <1>5, <1>9, <2>2
    <3>4. y.stage = "open" /\ y.key = x.key /\ y.out \o y.pending = y.due
      BY <1>4, <1>9, <2>4, <3>1
    <3> HIDE DEF w
    <3>. QED  BY <1>5, <1>9, <3>1, <3>2, <3>3, <3>4 DEF Written
  <2>. QED  BY <2>1, <2>5, <2>6
<1>. QED  BY <1>5, <1>6, <1>7, <1>8, <1>9, LimitAssumption

LEMMA PayloadsAssociate == \A a, b, c \in Seq(APayload) : (a \o b) \o c = a \o (b \o c)
  BY ConcatAssociative

\* The socket drains: what does not fit any more is kept in order, and still counted.
LEMMA DrainedOK ==
  ASSUME NEW x \in AStream, Written(x), x.stage = "open",
         NEW n \in 0..Len(x.pending), NEW full \in BOOLEAN,
         full => n > 0, n < Len(x.pending) => full
  PROVE  LET left == Stream!Leftover(x, n)
             y == [x EXCEPT !.out = @ \o SubSeq(x.pending, 1, n), !.pending = left,
                            !.pressed = full,
                            !.buffered = IF full THEN Stream!Bytes(left) + x.pending[n].size ELSE 0]
         IN  y \in AStream /\ Written(y) /\ y.key = x.key
<1> DEFINE left == Stream!Leftover(x, n)
           head == SubSeq(x.pending, 1, n)
           keeps == IF full THEN Stream!Bytes(left) + x.pending[n].size ELSE 0
           y == [x EXCEPT !.out = @ \o head, !.pending = left, !.pressed = full,
                          !.buffered = keeps]
<1>1. /\ x.pending \in Seq(APayload) /\ x.out \in Seq(APayload) /\ x.due \in Seq(APayload)
      /\ x.out \o x.pending = x.due /\ Stream!Bytes(x.pending) <= x.buffered
      /\ x.buffered <= Limit /\ x.buffered \in Nat
  BY DEF AStream, Written
<1>2. Len(x.pending) \in Nat /\ n \in Nat
  BY <1>1, LenProperties
<1>3. \A i \in 1..Len(x.pending) : x.pending[i] \in APayload
  BY <1>1, ElementOfSeq
<1>4. head \in Seq(APayload) /\ left \in Seq(APayload)
  <2>1. \A i \in 1..n : x.pending[i] \in APayload
    BY <1>2, <1>3
  <2>2. \A i \in n + 1..Len(x.pending) : x.pending[i] \in APayload
    BY <1>2, <1>3
  <2>. QED  BY <1>2, <2>1, <2>2, SubSeqProperties DEF Stream!Leftover
<1>5. head \o left = x.pending
  <2>1. head \o left = SubSeq(x.pending, 1, Len(x.pending))
    <3>1. 1 \in 1..Len(x.pending) + 1 /\ n \in 1 - 1..Len(x.pending)
          /\ Len(x.pending) \in n..Len(x.pending)
      BY <1>2
    <3>. QED  BY <1>1, <3>1, ConcatAdjacentSubSeq DEF Stream!Leftover
  <2>. QED  BY <1>1, <2>1, SubSeqFull
<1>6. (x.out \o head) \o left = x.due /\ x.out \o head \in Seq(APayload)
  <2>1. (x.out \o head) \o left = x.out \o (head \o left)
    <3> HIDE DEF head, left
    <3>. QED  BY <1>1, <1>4, PayloadsAssociate, Zenon
  <2>. QED  BY <1>1, <1>4, <1>5, <2>1, ConcatProperties
<1>7. Stream!Bytes(left) \in Nat /\ Stream!Bytes(x.pending) \in Nat
  BY <1>1, <1>4, BytesNat
<1>8. CASE full
  <2>1. n \in 1..Len(x.pending) /\ x.pending[n].size \in Nat
    BY <1>2, <1>3, <1>8 DEF APayload
  <2>2. keeps = Stream!Bytes(left) + x.pending[n].size /\ keeps <= Stream!Bytes(x.pending)
    BY <1>1, <1>8, <2>1, BytesLeft DEF Stream!Leftover
  <2>3. keeps \in Nat /\ Stream!Bytes(left) <= keeps /\ keeps <= Limit
    <3> HIDE DEF left, keeps
    <3>1. /\ Stream!Bytes(left) \in Nat /\ x.pending[n].size \in Nat
          /\ Stream!Bytes(x.pending) \in Nat /\ Stream!Bytes(x.pending) <= x.buffered
          /\ x.buffered <= Limit /\ x.buffered \in Nat
      BY <1>1, <1>7, <2>1, Zenon
    <3>2. Limit \in Nat
      BY LimitAssumption
    <3>3. \A a, b, c, d, e, l \in Nat :
            c = a + b /\ c <= d /\ d <= e /\ e <= l => a <= c /\ c <= l
      OBVIOUS
    <3>4. keeps \in Nat
      BY <2>2, <3>1
    <3>. QED  BY <2>2, <3>1, <3>2, <3>3, <3>4, SMTT(30)
  <2> HIDE DEF head, left, keeps
  <2>4. /\ y \in AStream /\ y.key = x.key /\ y.stage = "open" /\ y.out = x.out \o head
        /\ y.pending = left /\ y.due = x.due /\ y.pressed = TRUE /\ y.buffered = keeps
    BY <1>4, <1>6, <1>8, <2>3 DEF AStream
  <2> HIDE DEF y
  <2>5. y \in AStream /\ Written(y) /\ y.key = x.key
    BY <1>6, <2>3, <2>4 DEF Written
  <2>. QED  BY <2>5 DEF y, head, left, keeps
<1>9. CASE ~full
  <2>1. keeps = 0 /\ n = Len(x.pending)
    BY <1>2, <1>9
  <2>2. left = <<>>
    BY <1>2, <2>1, SubSeqEmpty DEF Stream!Leftover
  <2> HIDE DEF head, left, keeps
  <2>3. /\ y \in AStream /\ y.key = x.key /\ y.stage = "open" /\ y.out = x.out \o head
        /\ y.pending = left /\ y.due = x.due /\ y.pressed = FALSE /\ y.buffered = 0
    BY <1>4, <1>6, <1>9, <2>1 DEF AStream
  <2> HIDE DEF y
  <2>4. y \in AStream /\ Written(y) /\ y.key = x.key
    BY <1>6, <2>2, <2>3, BytesEmpty, LimitAssumption DEF Written
  <2>. QED  BY <2>4 DEF y, head, left, keeps
<1>. QED  BY <1>8, <1>9

\* No stream is opened: streams write or end, those that go on stay listed, and a running server
\* forgets only the keys of streams that ended.
LEMMA StreamsNarrow ==
  ASSUME StreamInv, opened' = opened, streams' \in Seq(AStream), Len(streams') = Len(streams),
         \A s \in 1..Len(streams) :
           /\ Written(streams'[s]) /\ streams'[s].key = streams[s].key
           /\ streams'[s].stage = "open" =>
                /\ streams[s].stage = "open" /\ running' # "stopped" /\ s \in sseClients'
                /\ running' = "running" =>
                     running = "running" /\ connections'[streams[s].key] = connections[streams[s].key],
         connections' \in [Keys -> 0..opened],
         \A k \in Keys : connections'[k] \in {0, connections[k]},
         sseClients' \in SUBSET Nat, stale' \in SUBSET Keys, statuses' \in Seq(APayload),
         running' \in {"running", "stopping", "stopped"}, sent' \in Nat
  PROVE  StreamInv'
<1>1. streams \in Seq(AStream) /\ opened = Len(streams) /\ opened \in Nat
      /\ connections \in [Keys -> 0..opened]
  BY LenProperties DEF StreamInv, StreamsTyped
<1>2. DOMAIN streams = 1..Len(streams) /\ DOMAIN streams' = 1..Len(streams)
  BY <1>1, LenProperties
<1>3. StreamsTyped'
  BY <1>1 DEF StreamsTyped
<1>4. WrittenOK'
  BY DEF WrittenOK
<1>5. KeysOK'
  <2>. SUFFICES ASSUME NEW k \in Keys, connections'[k] # 0
                PROVE  streams'[connections'[k]].key = k
    BY DEF KeysOK
  <2>1. connections'[k] = connections[k] /\ connections[k] \in 1..Len(streams)
    BY <1>1
  <2>. QED  BY <2>1 DEF StreamInv, KeysOK
<1>6. Stream!OpenIsRegistered'
  BY <1>2 DEF StreamInv, Stream!OpenIsRegistered
<1>. QED  BY <1>3, <1>4, <1>5, <1>6 DEF StreamInv

\* The streams of gone end and are unregistered.
LEMMA CleansNarrow ==
  ASSUME StreamInv, UNCHANGED <<opened, running>>,
         streams' \in Seq(AStream), Len(streams') = Len(streams), NEW gone,
         \A s \in 1..Len(streams) :
           /\ Written(streams'[s]) /\ streams'[s].key = streams[s].key
           /\ streams'[s].stage = "open" => streams[s].stage = "open" /\ s \notin gone,
         sseClients' = sseClients \ gone, connections' = Stream!Unregistered(gone),
         stale' \in SUBSET Keys, statuses' \in Seq(APayload), sent' \in Nat
  PROVE  StreamInv'
<1>1. streams \in Seq(AStream) /\ opened = Len(streams) /\ opened \in Nat
      /\ connections \in [Keys -> 0..opened] /\ sseClients \in SUBSET Nat
      /\ running \in {"running", "stopping", "stopped"}
  BY LenProperties DEF StreamInv, StreamsTyped
<1>2. DOMAIN streams = 1..Len(streams) /\ \A s \in 1..Len(streams) : streams[s].key \in Keys
  <2>1. \A s \in 1..Len(streams) : streams[s] \in AStream
    BY <1>1, ElementOfSeq
  <2>. QED  BY <1>1, <2>1, LenProperties DEF AStream
<1>3. /\ connections' \in [Keys -> 0..opened]
      /\ \A k \in Keys : connections'[k] = IF connections[k] \in gone THEN 0 ELSE connections[k]
  BY <1>1 DEF Stream!Unregistered
<1>4. ASSUME NEW s \in 1..Len(streams), streams'[s].stage = "open"
      PROVE  /\ streams[s].stage = "open" /\ running' # "stopped" /\ s \in sseClients'
             /\ running' = "running" =>
                  running = "running" /\ connections'[streams[s].key] = connections[streams[s].key]
  <2>1. /\ s \in sseClients /\ running # "stopped"
        /\ running = "running" => connections[streams[s].key] = s
    BY <1>2, <1>4 DEF StreamInv, Stream!OpenIsRegistered
  <2>. QED  BY <1>2, <1>3, <1>4, <2>1
<1>. QED  BY <1>1, <1>3, <1>4, StreamsNarrow

LEMMA PublishStep ==
  ASSUME StreamInv, NEW size \in Sizes, NEW kind \in {"event", "status", "terminal"},
         Stream!Publish(size, kind)
  PROVE  StreamInv'
<1> DEFINE p == [id |-> sent', size |-> size]
<1>1. /\ streams \in Seq(AStream) /\ DOMAIN streams = 1..Len(streams) /\ Len(streams) \in Nat
      /\ \A s \in 1..Len(streams) : streams[s] \in AStream /\ Written(streams[s])
  BY LenProperties, ElementOfSeq DEF StreamInv, StreamsTyped, WrittenOK
<1>2. sent' = sent + 1 /\ sent' \in Nat /\ UNCHANGED <<opened, stale, running>>
      /\ stale \in SUBSET Keys
  BY DEF Stream!Publish, StreamInv, StreamsTyped
<1>3. p \in APayload
  BY <1>2, LimitAssumption DEF APayload
<1>4. statuses' \in Seq(APayload)
  <2>1. statuses' = CASE kind = "status" -> <<p>> [] kind = "terminal" -> <<>>
                      [] kind = "event" -> statuses
    BY DEF Stream!Publish
  <2>2. statuses \in Seq(APayload) /\ <<p>> \in Seq(APayload) /\ <<>> \in Seq(APayload)
    BY <1>3 DEF StreamInv, StreamsTyped
  <2> HIDE DEF p
  <2>. QED  BY <2>1, <2>2
<1>5. PICK f \in [DOMAIN streams -> UNION {Stream!Writes(streams[s], p) : s \in DOMAIN streams}] :
        /\ \A s \in DOMAIN streams : f[s] \in Stream!Writes(streams[s], p)
        /\ streams' = f
  BY DEF Stream!Publish
<1>6. sseClients' = sseClients \ Stream!CleanedNow /\ connections' = Stream!Unregistered(Stream!CleanedNow)
  BY DEF Stream!Publish, Stream!Cleans
<1> HIDE DEF p
<1>7. \A s \in 1..Len(streams) :
        /\ streams'[s] \in AStream /\ Written(streams'[s]) /\ streams'[s].key = streams[s].key
        /\ streams'[s].stage = "open" => streams[s].stage = "open"
  <2>. SUFFICES ASSUME NEW s \in 1..Len(streams)
                PROVE  /\ streams'[s] \in AStream /\ Written(streams'[s])
                       /\ streams'[s].key = streams[s].key
                       /\ streams'[s].stage = "open" => streams[s].stage = "open"
    OBVIOUS
  <2>1. streams'[s] \in Stream!Writes(streams[s], p)
    BY <1>1, <1>5
  <2>. QED  BY <1>1, <1>3, <2>1, WritesOK
<1>8. streams' \in Seq(AStream) /\ Len(streams') = Len(streams)
  <2>1. streams' \in [1..Len(streams) -> AStream]
    BY <1>1, <1>5, <1>7
  <2>. QED  BY <1>1, <2>1
<1>9. \A s \in Stream!CleanedNow : streams'[s].stage = "cleaned"
  BY DEF Stream!CleanedNow
<1>10. \A s \in 1..Len(streams) : streams'[s].stage = "open" => s \notin Stream!CleanedNow
  BY <1>9
<1>. QED  BY <1>2, <1>4, <1>6, <1>7, <1>8, <1>10, CleansNarrow

\* One stream changes.
LEMMA OneChanges ==
  ASSUME StreamInv, NEW s \in 1..Len(streams), NEW y, y \in AStream, Written(y),
         y.key = streams[s].key, streams' = [streams EXCEPT ![s] = y]
  PROVE  /\ streams' \in Seq(AStream) /\ Len(streams') = Len(streams) /\ streams'[s] = y
         /\ \A z \in 1..Len(streams) :
              /\ Written(streams'[z]) /\ streams'[z].key = streams[z].key
              /\ z # s => streams'[z] = streams[z]
<1>1. /\ streams \in Seq(AStream)
      /\ \A z \in 1..Len(streams) : Written(streams[z])
  BY DEF StreamInv, StreamsTyped, WrittenOK
<1>2. /\ streams' \in Seq(AStream) /\ Len(streams') = Len(streams)
      /\ \A z \in 1..Len(streams) : streams'[z] = IF z = s THEN y ELSE streams[z]
  BY <1>1, ExceptSeq
<1>. QED  BY <1>1, <1>2

\* What the steps of one stream start from.
LEMMA StreamFacts ==
  ASSUME StreamInv
  PROVE  /\ streams \in Seq(AStream) /\ DOMAIN streams = 1..Len(streams) /\ Len(streams) \in Nat
         /\ opened = Len(streams) /\ connections \in [Keys -> 0..opened] /\ sseClients \in SUBSET Nat
         /\ stale \in SUBSET Keys /\ statuses \in Seq(APayload) /\ sent \in Nat
         /\ running \in {"running", "stopping", "stopped"}
         /\ \A s \in 1..Len(streams) :
              streams[s] \in AStream /\ streams[s].key \in Keys /\ Written(streams[s])
<1>1. /\ streams \in Seq(AStream) /\ opened = Len(streams) /\ connections \in [Keys -> 0..opened]
      /\ sseClients \in SUBSET Nat /\ stale \in SUBSET Keys /\ statuses \in Seq(APayload)
      /\ sent \in Nat /\ running \in {"running", "stopping", "stopped"}
  BY DEF StreamInv, StreamsTyped
<1>2. \A s \in 1..Len(streams) : streams[s] \in AStream
  BY <1>1, ElementOfSeq
<1>. QED  BY <1>1, <1>2, LenProperties DEF StreamInv, WrittenOK, AStream

LEMMA HeartbeatStep ==
  ASSUME StreamInv, NEW s \in DOMAIN streams, Stream!Heartbeat(s)
  PROVE  StreamInv'
<1>1. s \in 1..Len(streams) /\ streams[s] \in AStream /\ Written(streams[s])
  BY StreamFacts
<1>2. sent' \in Nat /\ UNCHANGED <<opened, stale, statuses, running>>
  BY StreamFacts DEF Stream!Heartbeat
<1>3. PICK x \in Stream!Writes(streams[s], [id |-> sent', size |-> 1]) :
        streams' = [streams EXCEPT ![s] = x]
  BY DEF Stream!Heartbeat
<1>4. sseClients' = sseClients \ Stream!CleanedNow /\ connections' = Stream!Unregistered(Stream!CleanedNow)
      /\ streams[s].stage = "open"
  BY DEF Stream!Heartbeat, Stream!Cleans
<1>5. x \in AStream /\ Written(x) /\ x.key = streams[s].key
  <2>1. [id |-> sent', size |-> 1] \in APayload
    BY <1>2 DEF APayload
  <2>. QED  BY <1>1, <2>1, WritesOK
<1>6. /\ streams' \in Seq(AStream) /\ Len(streams') = Len(streams)
      /\ \A z \in 1..Len(streams) :
           /\ Written(streams'[z]) /\ streams'[z].key = streams[z].key
           /\ z # s => streams'[z] = streams[z]
  BY <1>1, <1>3, <1>5, OneChanges
<1>7. \A z \in 1..Len(streams) :
        streams'[z].stage = "open" => streams[z].stage = "open" /\ z \notin Stream!CleanedNow
  <2>1. \A z \in Stream!CleanedNow : streams'[z].stage = "cleaned"
    BY DEF Stream!CleanedNow
  <2>. QED  BY <1>4, <1>6, <2>1
<1>8. stale' \in SUBSET Keys /\ statuses' \in Seq(APayload)
  BY <1>2, StreamFacts
<1>. QED  BY <1>2, <1>4, <1>6, <1>7, <1>8, CleansNarrow

LEMMA DrainStreamStep ==
  ASSUME StreamInv, NEW s \in DOMAIN streams, Stream!Drain(s)
  PROVE  StreamInv'
<1> DEFINE x == streams[s]
           Left(n) == Stream!Leftover(x, n)
           Y(n, full) ==
             [x EXCEPT !.out = @ \o SubSeq(x.pending, 1, n), !.pending = Left(n), !.pressed = full,
                       !.buffered = IF full THEN Stream!Bytes(Left(n)) + x.pending[n].size ELSE 0]
<1>1. s \in 1..Len(streams) /\ x \in AStream /\ Written(x)
  BY StreamFacts
<1>2. /\ x.stage = "open"
      /\ UNCHANGED <<opened, sseClients, connections, stale, statuses, running, sent>>
  BY DEF Stream!Drain
<1>3. PICK n \in 0..Len(x.pending), full \in BOOLEAN :
        (full => n > 0) /\ (n < Len(x.pending) => full) /\ streams' = [streams EXCEPT ![s] = Y(n, full)]
  BY DEF Stream!Drain
<1>4. Y(n, full) \in AStream /\ Written(Y(n, full)) /\ Y(n, full).key = x.key
  <2> HIDE DEF x
  <2>. QED  BY <1>1, <1>2, <1>3, DrainedOK, ZenonT(30)
<1> HIDE DEF Y, x
<1>5. /\ streams' \in Seq(AStream) /\ Len(streams') = Len(streams)
      /\ \A z \in 1..Len(streams) :
           /\ Written(streams'[z]) /\ streams'[z].key = streams[z].key
           /\ z # s => streams'[z] = streams[z]
  <2>1. Y(n, full).key = streams[s].key
    BY <1>4 DEF x
  <2>. QED  BY <1>1, <1>3, <1>4, <2>1, OneChanges
<1>6. \A z \in 1..Len(streams) : streams'[z].stage = "open" => streams[z].stage = "open"
  BY <1>2, <1>5 DEF x
<1>7. \A z \in 1..Len(streams) : streams[z].stage = "open" =>
        /\ running # "stopped" /\ z \in sseClients
  BY StreamFacts DEF StreamInv, Stream!OpenIsRegistered
<1>8. /\ connections' \in [Keys -> 0..opened] /\ \A k \in Keys : connections'[k] = connections[k]
      /\ sseClients' \in SUBSET Nat /\ stale' \in SUBSET Keys /\ statuses' \in Seq(APayload)
      /\ running' \in {"running", "stopping", "stopped"} /\ sent' \in Nat
  BY <1>2, StreamFacts
<1>9. \A z \in 1..Len(streams) : streams[z].key \in Keys
  BY StreamFacts
<1>. QED  BY <1>2, <1>5, <1>6, <1>7, <1>8, <1>9, StreamsNarrow

\* A stream is closed and unregisters.
LEMMA StreamEnds ==
  ASSUME StreamInv, NEW s \in DOMAIN streams,
         streams' = [streams EXCEPT ![s] = Stream!Closed(streams[s], TRUE)],
         sseClients' = sseClients \ {s}, connections' = Stream!Unregistered({s}),
         UNCHANGED <<opened, stale, statuses, running, sent>>
  PROVE  StreamInv'
<1>1. s \in 1..Len(streams) /\ streams[s] \in AStream /\ Written(streams[s])
  BY StreamFacts
<1> DEFINE y == Stream!Closed(streams[s], TRUE)
<1>2. y \in AStream /\ Written(y) /\ y.key = streams[s].key /\ y.stage # "open"
  BY <1>1, ClosedOK
<1> HIDE DEF y
<1>3. /\ streams' \in Seq(AStream) /\ Len(streams') = Len(streams) /\ streams'[s] = y
      /\ \A z \in 1..Len(streams) :
           /\ Written(streams'[z]) /\ streams'[z].key = streams[z].key
           /\ z # s => streams'[z] = streams[z]
  <2>1. streams' = [streams EXCEPT ![s] = y]
    BY DEF y
  <2>. QED  BY <1>1, <1>2, <2>1, OneChanges
<1>4. \A z \in 1..Len(streams) :
        streams'[z].stage = "open" => streams[z].stage = "open" /\ z \notin {s}
  BY <1>2, <1>3
<1>5. stale' \in SUBSET Keys /\ statuses' \in Seq(APayload) /\ sent' \in Nat
  BY StreamFacts
<1>. QED  BY <1>3, <1>4, <1>5, CleansNarrow

\* Nothing happens to the streams and their registration.
LEMMA OnlyTimePasses ==
  ASSUME StreamInv, stale' \in SUBSET Keys,
         UNCHANGED <<streams, opened, sseClients, connections, statuses, running, sent>>
  PROVE  StreamInv'
  BY DEF StreamInv, StreamsTyped, WrittenOK, KeysOK, Stream!OpenIsRegistered

\* A key that fell silent loses its stream.
LEMMA SweepStep ==
  ASSUME StreamInv, NEW k \in Keys, Stream!Sweep(k)
  PROVE  StreamInv'
<1> DEFINE s == connections[k]
           y == Stream!Closed(streams[s], FALSE)
<1>1. /\ running = "running" /\ s # 0 /\ streams' = [streams EXCEPT ![s] = y]
      /\ connections' = [connections EXCEPT ![k] = 0] /\ stale' = stale \ {k}
      /\ UNCHANGED <<opened, sseClients, statuses, running, sent>>
  BY DEF Stream!Sweep
<1>2. s \in 1..Len(streams) /\ streams[s] \in AStream /\ Written(streams[s]) /\ streams[s].key = k
  <2>1. s \in 1..Len(streams)
    BY <1>1, StreamFacts
  <2>. QED  BY <1>1, <2>1, StreamFacts DEF StreamInv, KeysOK
<1>3. y \in AStream /\ Written(y) /\ y.key = streams[s].key /\ y.stage # "open"
  BY <1>2, ClosedOK
<1> HIDE DEF y
<1>4. /\ streams' \in Seq(AStream) /\ Len(streams') = Len(streams) /\ streams'[s] = y
      /\ \A z \in 1..Len(streams) :
           /\ Written(streams'[z]) /\ streams'[z].key = streams[z].key
           /\ z # s => streams'[z] = streams[z]
  BY <1>1, <1>2, <1>3, OneChanges
<1>5. /\ connections' \in [Keys -> 0..opened]
      /\ \A j \in Keys : connections'[j] = IF j = k THEN 0 ELSE connections[j]
      /\ \A j \in Keys : connections'[j] \in {0, connections[j]}
  BY <1>1, StreamFacts
<1>6. ASSUME NEW z \in 1..Len(streams), streams'[z].stage = "open"
      PROVE  /\ streams[z].stage = "open" /\ running # "stopped" /\ z \in sseClients
             /\ connections'[streams[z].key] = connections[streams[z].key]
  <2>1. z # s /\ streams[z].stage = "open"
    BY <1>3, <1>4, <1>6
  <2>2. z \in sseClients /\ connections[streams[z].key] = z /\ streams[z].key \in Keys
    BY <1>1, <2>1, StreamFacts DEF StreamInv, Stream!OpenIsRegistered
  <2>3. streams[z].key # k
    BY <2>1, <2>2
  <2>. QED  BY <1>1, <1>5, <2>1, <2>2, <2>3
<1>7. /\ sseClients' \in SUBSET Nat /\ stale' \in SUBSET Keys /\ statuses' \in Seq(APayload)
      /\ running' \in {"running", "stopping", "stopped"} /\ sent' \in Nat
  BY <1>1, StreamFacts
<1> HIDE DEF s
<1>. QED  BY <1>1, <1>4, <1>5, <1>6, <1>7, StreamsNarrow

LEMMA ShutdownStep == ASSUME StreamInv, Stream!Shutdown PROVE StreamInv'
<1>1. /\ running' = "stopping" /\ connections' = [k \in Keys |-> 0]
      /\ UNCHANGED <<streams, opened, sseClients, stale, statuses, sent>>
  BY DEF Stream!Shutdown
<1>2. connections' \in [Keys -> 0..opened] /\ \A k \in Keys : connections'[k] \in {0, connections[k]}
  BY <1>1, StreamFacts
<1>3. \A z \in 1..Len(streams) :
        /\ Written(streams'[z]) /\ streams'[z].key = streams[z].key
        /\ streams'[z].stage = "open" => streams[z].stage = "open" /\ z \in sseClients'
  BY <1>1, StreamFacts DEF StreamInv, Stream!OpenIsRegistered
<1>4. /\ streams' \in Seq(AStream) /\ Len(streams') = Len(streams)
      /\ sseClients' \in SUBSET Nat /\ stale' \in SUBSET Keys /\ statuses' \in Seq(APayload)
      /\ sent' \in Nat
  BY <1>1, StreamFacts
<1>. QED  BY <1>1, <1>2, <1>3, <1>4, StreamsNarrow

\* Every open stream is listed, so the stop of the server ends it.
LEMMA StopStep == ASSUME StreamInv, Stream!Stop PROVE StreamInv'
<1>1. /\ running' = "stopped" /\ sseClients' = {}
      /\ streams' = [s \in DOMAIN streams |->
                       IF s \in sseClients THEN Stream!Closed(streams[s], FALSE) ELSE streams[s]]
      /\ UNCHANGED <<opened, connections, stale, statuses, sent>>
  BY DEF Stream!Stop
<1>2. \A z \in 1..Len(streams) :
        /\ streams'[z] \in AStream /\ Written(streams'[z]) /\ streams'[z].key = streams[z].key
        /\ streams'[z].stage # "open"
  <2>. SUFFICES ASSUME NEW z \in 1..Len(streams)
                PROVE  /\ streams'[z] \in AStream /\ Written(streams'[z])
                       /\ streams'[z].key = streams[z].key /\ streams'[z].stage # "open"
    OBVIOUS
  <2>1. streams[z] \in AStream /\ Written(streams[z]) /\ z \in DOMAIN streams
    BY StreamFacts
  <2>2. CASE z \in sseClients
    <3>1. streams'[z] = Stream!Closed(streams[z], FALSE)
      BY <1>1, <2>1, <2>2
    <3>. QED  BY <2>1, <3>1, ClosedOK
  <2>3. CASE z \notin sseClients
    <3>1. streams'[z] = streams[z] /\ streams[z].stage # "open"
      BY <1>1, <2>1, <2>3 DEF StreamInv, Stream!OpenIsRegistered
    <3>. QED  BY <2>1, <3>1
  <2>. QED  BY <2>2, <2>3
<1>3. streams' \in Seq(AStream) /\ Len(streams') = Len(streams)
  <2>1. streams' \in [1..Len(streams) -> AStream]
    BY <1>1, <1>2, StreamFacts
  <2>. QED  BY <2>1, StreamFacts
<1>4. /\ connections' \in [Keys -> 0..opened] /\ \A k \in Keys : connections'[k] \in {0, connections[k]}
      /\ sseClients' \in SUBSET Nat /\ stale' \in SUBSET Keys /\ statuses' \in Seq(APayload)
      /\ sent' \in Nat
  BY <1>1, StreamFacts
<1>. QED  BY <1>1, <1>2, <1>3, <1>4, StreamsNarrow

LEMMA NoStreamOK ==
  ASSUME NEW k \in Keys
  PROVE  Stream!NoStream(k) \in AStream /\ Written(Stream!NoStream(k)) /\ Stream!NoStream(k).key = k
<1> DEFINE x == Stream!NoStream(k)
<1>1. <<>> \in Seq(APayload)
  BY EmptySeq, Zenon
<1>2. x \in AStream
  BY <1>1 DEF Stream!NoStream, AStream
<1>3. <<>> \o <<>> = <<>>
  BY <1>1, ConcatEmptySeq, Zenon
<1>4. Written(x)
  BY <1>3, BytesEmpty, LimitAssumption DEF Stream!NoStream, Written
<1>. QED  BY <1>2, <1>4 DEF Stream!NoStream

\* A stream that ended before it was registered: no one else hears of it.
LEMMA OpensInVain ==
  ASSUME StreamInv, NEW k \in Keys, NEW x \in AStream, Written(x), x.stage # "open",
         opened' = opened + 1, streams' = Append(streams, x),
         UNCHANGED <<sseClients, connections, stale, statuses, running, sent>>
  PROVE  StreamInv'
<1> DEFINE N == Len(streams)
<1>1. /\ streams' \in Seq(AStream) /\ Len(streams') = N + 1 /\ streams'[N + 1] = x
      /\ \A s \in 1..N : streams'[s] = streams[s]
  BY StreamFacts, AppendProperties
<1>2. N \in Nat /\ opened = N /\ connections \in [Keys -> 0..N]
  BY StreamFacts
<1>3. DOMAIN streams = 1..N /\ DOMAIN streams' = 1..(N + 1)
  BY <1>1, StreamFacts
<1> HIDE DEF N
<1>4. \A s \in 1..(N + 1) : s \in 1..N \/ s = N + 1
  BY <1>2
<1>5. StreamsTyped'
  <2>1. connections' \in [Keys -> 0..opened']
    BY <1>2
  <2>. QED  BY <1>1, <1>2, <2>1, StreamFacts DEF StreamsTyped
<1>6. WrittenOK'
  <2>1. \A s \in 1..N : Written(streams[s])
    BY StreamFacts DEF N
  <2>. QED  BY <1>1, <1>4, <2>1 DEF WrittenOK
<1>7. KeysOK'
  <2>1. \A j \in Keys : connections[j] # 0 => connections[j] \in 1..N
    BY <1>2
  <2>. QED  BY <1>1, <2>1 DEF StreamInv, KeysOK
<1>8. Stream!OpenIsRegistered'
  BY <1>1, <1>3, <1>4 DEF StreamInv, Stream!OpenIsRegistered
<1>. QED  BY <1>5, <1>6, <1>7, <1>8 DEF StreamInv

\* A stream that lasts takes its key over, and the stream the key had is closed.
LEMMA OpensInPlace ==
  ASSUME StreamInv, NEW k \in Keys, NEW x \in AStream, Written(x), x.key = k,
         opened' = opened + 1, running # "stopped",
         streams' = Append([s \in DOMAIN streams |->
                       IF s = connections[k] THEN Stream!Closed(streams[s], FALSE)
                       ELSE streams[s]], x),
         sseClients' = sseClients \cup {opened'}, connections' = [connections EXCEPT ![k] = opened'],
         stale' = stale \ {k}, UNCHANGED <<statuses, running, sent>>
  PROVE  StreamInv'
<1> DEFINE N == Len(streams)
           old == [s \in DOMAIN streams |->
                     IF s = connections[k] THEN Stream!Closed(streams[s], FALSE) ELSE streams[s]]
<1>1. N \in Nat /\ opened = N /\ connections \in [Keys -> 0..N] /\ DOMAIN streams = 1..N
  BY StreamFacts
<1>2. \A s \in 1..N :
        /\ old[s] \in AStream /\ Written(old[s]) /\ old[s].key = streams[s].key
        /\ old[s].stage = "open" => streams[s].stage = "open" /\ s # connections[k]
  <2>. SUFFICES ASSUME NEW s \in 1..N
                PROVE  /\ old[s] \in AStream /\ Written(old[s]) /\ old[s].key = streams[s].key
                       /\ old[s].stage = "open" => streams[s].stage = "open" /\ s # connections[k]
    OBVIOUS
  <2>1. streams[s] \in AStream /\ Written(streams[s])
    BY StreamFacts
  <2>2. CASE s = connections[k]
    <3>1. old[s] = Stream!Closed(streams[s], FALSE)
      BY <1>1, <2>2
    <3> HIDE DEF old
    <3>. QED  BY <2>1, <3>1, ClosedOK
  <2>3. CASE s # connections[k]
    BY <1>1, <2>1, <2>3
  <2>. QED  BY <2>2, <2>3
<1>3. old \in Seq(AStream) /\ Len(old) = N
  <2>1. old \in [1..N -> AStream]
    BY <1>1, <1>2
  <2> HIDE DEF old
  <2>. QED  BY <1>1, <2>1
<1> HIDE DEF old
<1>4. /\ streams' \in Seq(AStream) /\ Len(streams') = N + 1 /\ streams'[N + 1] = x
      /\ \A s \in 1..N : streams'[s] = old[s]
  <2>1. streams' = Append(old, x)
    BY DEF old
  <2>2. /\ Append(old, x) \in Seq(AStream) /\ Len(Append(old, x)) = Len(old) + 1
        /\ Append(old, x)[Len(old) + 1] = x
        /\ \A s \in 1..Len(old) : Append(old, x)[s] = old[s]
    BY <1>3, AppendProperties
  <2> HIDE DEF N
  <2>. QED  BY <1>3, <2>1, <2>2
<1>5. DOMAIN streams' = 1..(N + 1)
  BY <1>4
<1>6. \A s \in 1..N : s \in DOMAIN streams /\ streams[s].key \in Keys
  BY <1>1, StreamFacts
<1> HIDE DEF N
<1>7. \A s \in 1..(N + 1) : s \in 1..N \/ s = N + 1
  BY <1>1
<1>8. /\ opened' = N + 1 /\ connections' \in [Keys -> 0..(N + 1)] /\ connections'[k] = N + 1
      /\ \A j \in Keys : j # k => connections'[j] = connections[j]
  BY <1>1
<1>9. StreamsTyped'
  <2>1. sseClients' \in SUBSET Nat /\ stale' \in SUBSET Keys /\ statuses' \in Seq(APayload)
        /\ running' \in {"running", "stopping", "stopped"} /\ sent' \in Nat
    BY <1>1, <1>8, StreamFacts
  <2>. QED  BY <1>4, <1>8, <2>1 DEF StreamsTyped
<1>10. WrittenOK'
  BY <1>2, <1>4, <1>7 DEF WrittenOK
<1>11. KeysOK'
  <2>. SUFFICES ASSUME NEW j \in Keys, connections'[j] # 0
                PROVE  streams'[connections'[j]].key = j
    BY DEF KeysOK
  <2>1. CASE j = k
    BY <1>4, <1>8, <2>1
  <2>2. CASE j # k
    <3>1. connections'[j] = connections[j] /\ connections[j] \in 1..N
      BY <1>1, <1>8, <2>2
    <3>2. streams[connections[j]].key = j
      BY <3>1, <2>2 DEF StreamInv, KeysOK
    <3>3. streams'[connections[j]].key = streams[connections[j]].key
      BY <1>2, <1>4, <3>1
    <3>. QED  BY <3>1, <3>2, <3>3
  <2>. QED  BY <2>1, <2>2
<1>12. Stream!OpenIsRegistered'
  <2>. SUFFICES ASSUME NEW s \in 1..(N + 1), streams'[s].stage = "open"
                PROVE  /\ running = "running" => connections'[streams'[s].key] = s
                       /\ s \in sseClients' /\ running # "stopped"
    BY <1>5 DEF Stream!OpenIsRegistered
  <2>1. CASE s = N + 1
    BY <1>4, <1>8, <2>1
  <2>2. CASE s \in 1..N
    <3>1. streams[s].stage = "open" /\ s # connections[k] /\ streams'[s].key = streams[s].key
      BY <1>2, <1>4, <2>2
    <3>2. s \in sseClients /\ (running = "running" => connections[streams[s].key] = s)
      BY <1>6, <2>2, <3>1 DEF StreamInv, Stream!OpenIsRegistered
    <3>3. running = "running" => connections'[streams[s].key] = s
      BY <1>6, <1>8, <2>2, <3>1, <3>2
    <3>. QED  BY <3>1, <3>2, <3>3
  <2>. QED  BY <1>7, <2>1, <2>2
<1>. QED  BY <1>9, <1>10, <1>11, <1>12 DEF StreamInv

LEMMA OpenStep ==
  ASSUME StreamInv, NEW k \in Keys, Stream!Open(k)
  PROVE  StreamInv'
<1>1. running # "stopped" /\ opened' = opened + 1 /\ UNCHANGED <<statuses, running, sent>>
  BY DEF Stream!Open
<1>2. PICK x \in IF statuses = <<>> THEN {Stream!NoStream(k)}
                 ELSE Stream!Writes(Stream!NoStream(k), Head(statuses)) :
        IF x.stage # "open"
        THEN /\ streams' = Append(streams, x)
             /\ UNCHANGED <<sseClients, connections, stale>>
        ELSE /\ streams' = Append(
                  [s \in DOMAIN streams |->
                     IF s = connections[k] THEN Stream!Closed(streams[s], FALSE) ELSE streams[s]], x)
             /\ sseClients' = sseClients \cup {opened'}
             /\ connections' = [connections EXCEPT ![k] = opened']
             /\ stale' = stale \ {k}
  BY DEF Stream!Open
<1>3. x \in AStream /\ Written(x) /\ x.key = k
  <2>1. CASE statuses = <<>>
    <3>1. x = Stream!NoStream(k)
      BY <1>2, <2>1
    <3>. QED  BY <3>1, NoStreamOK
  <2>2. CASE statuses # <<>>
    <3>1. Head(statuses) \in APayload
      BY <2>2, StreamFacts, HeadTailProperties
    <3>2. x \in Stream!Writes(Stream!NoStream(k), Head(statuses))
      BY <1>2, <2>2
    <3>. QED  BY <3>1, <3>2, NoStreamOK, WritesOK
  <2>. QED  BY <2>1, <2>2
<1>4. CASE x.stage # "open"
  <2>1. streams' = Append(streams, x) /\ UNCHANGED <<sseClients, connections, stale>>
    BY <1>2, <1>4
  <2>. QED  BY <1>1, <1>3, <1>4, <2>1, OpensInVain
<1>5. CASE x.stage = "open"
  <2>1. /\ streams' = Append(
             [s \in DOMAIN streams |->
                IF s = connections[k] THEN Stream!Closed(streams[s], FALSE) ELSE streams[s]], x)
        /\ sseClients' = sseClients \cup {opened'} /\ connections' = [connections EXCEPT ![k] = opened']
        /\ stale' = stale \ {k}
    BY <1>2, <1>5
  <2>. QED  BY <1>1, <1>3, <2>1, OpensInPlace
<1>. QED  BY <1>4, <1>5

LEMMA DrainTimesOutStep ==
  ASSUME StreamInv, NEW s \in DOMAIN streams, Stream!DrainTimesOut(s)
  PROVE  StreamInv'
  BY StreamEnds DEF Stream!DrainTimesOut, Stream!Cleans

LEMMA SocketClosesStep ==
  ASSUME StreamInv, NEW s \in DOMAIN streams, Stream!SocketCloses(s)
  PROVE  StreamInv'
  BY StreamEnds DEF Stream!SocketCloses, Stream!UnregisteredOf

LEMMA HearingStep ==
  ASSUME StreamInv, NEW k \in Keys, Stream!Silence(k) \/ Stream!Pong(k)
  PROVE  StreamInv'
<1>1. stale' \in SUBSET Keys
  BY StreamFacts DEF Stream!Silence, Stream!Pong
<1>. QED  BY <1>1, OnlyTimePasses DEF Stream!Silence, Stream!Pong

LEMMA StreamStep == StreamInv /\ [Stream!Next]_Stream!vars => StreamInv'
<1>. SUFFICES ASSUME StreamInv, [Stream!Next]_Stream!vars PROVE StreamInv'
  OBVIOUS
<1>1. CASE UNCHANGED Stream!vars
  BY <1>1, StreamFacts, OnlyTimePasses DEF Stream!vars
<1>2. CASE Stream!Next
  <2>1. CASE Stream!Shutdown \/ Stream!Stop
    BY <2>1, ShutdownStep, StopStep
  <2>2. ASSUME NEW k \in Keys,
               Stream!Open(k) \/ Stream!Silence(k) \/ Stream!Pong(k) \/ Stream!Sweep(k)
        PROVE  StreamInv'
    BY <2>2, OpenStep, HearingStep, SweepStep
  <2>3. ASSUME NEW size \in Sizes, NEW kind \in {"event", "status", "terminal"},
               Stream!Publish(size, kind)
        PROVE  StreamInv'
    BY <2>3, PublishStep
  <2>4. ASSUME NEW s \in DOMAIN streams,
               \/ Stream!Heartbeat(s) \/ Stream!Drain(s)
               \/ Stream!DrainTimesOut(s) \/ Stream!SocketCloses(s)
        PROVE  StreamInv'
    BY <2>4, HeartbeatStep, DrainStreamStep, DrainTimesOutStep, SocketClosesStep
  <2>. QED  BY <1>2, <2>1, <2>2, <2>3, <2>4 DEF Stream!Next
<1>. QED  BY <1>1, <1>2

LEMMA StreamInductive == Stream!Spec => []StreamInv
  BY StreamInit, StreamStep, PTL DEF Stream!Spec

\* A stream that lasts has written or keeps everything it was asked to write, in order and within
\* its budget, and one that ended wrote it up to some point: for any keys, sizes, budget and
\* number of streams, whatever closes, drains, falls silent or is replaced meanwhile.
THEOREM StreamsHaveNoGap == Stream!Spec => []NoGap
<1>1. StreamInv => NoGap
  <2>. SUFFICES ASSUME StreamInv, NEW s \in DOMAIN streams
                PROVE  IF streams[s].stage = "open"
                       THEN /\ streams[s].out \o streams[s].pending = streams[s].due
                            /\ Stream!Bytes(streams[s].pending) <= Limit
                       ELSE Stream!IsPrefix(streams[s].out, streams[s].due)
    BY DEF NoGap, Stream!NoGap
  <2>1. streams[s] \in AStream /\ Written(streams[s])
    BY StreamFacts
  <2>2. CASE streams[s].stage # "open"
    BY <2>1, <2>2 DEF Written
  <2>3. CASE streams[s].stage = "open"
    <3>1. streams[s].pending \in Seq(APayload) /\ streams[s].buffered \in Nat
      BY <2>1 DEF AStream
    <3>2. Stream!Bytes(streams[s].pending) \in Nat
      BY <3>1, BytesNat
    <3>3. /\ streams[s].out \o streams[s].pending = streams[s].due
          /\ Stream!Bytes(streams[s].pending) <= streams[s].buffered
          /\ streams[s].buffered <= Limit
      BY <2>1, <2>3 DEF Written
    <3>4. Stream!Bytes(streams[s].pending) <= Limit
      BY <3>1, <3>2, <3>3, LimitAssumption
    <3>. QED  BY <2>3, <3>3, <3>4
  <2>. QED  BY <2>2, <2>3
<1>. QED  BY <1>1, StreamInductive, PTL

\* An open stream is the one its key is known by, so that it is swept when its browser falls
\* silent, and it is listed for the stop of the server: for any keys and number of streams.
THEOREM OpenStreamsAreRegistered == Stream!Spec => []OpenIsRegistered
<1>1. StreamInv => OpenIsRegistered
  BY DEF StreamInv, OpenIsRegistered
<1>. QED  BY <1>1, StreamInductive, PTL
=============================================================================
