--------------------------- MODULE TranscriptReplay ---------------------------
(***************************************************************************)
(* packages/ui/src/stores/opencode-data.ts and compaction-delta-buffer.ts: *)
(* the projection of the transcript of one session from the events of the  *)
(* daemon.                                                                 *)
(*                                                                         *)
(* An event is reduced at once, unless the projection is full: then it is  *)
(* queued, the projection is rotated (cut to a bounded page) and the queue *)
(* is drained in chunks.  A queue that overflows is thrown away, and so is *)
(* every event after it, until a snapshot read from the daemon that no     *)
(* event overtook replaces the projection.  Deltas of a compaction wait in *)
(* a buffer.  The reads are asynchronous and may be overtaken by a new     *)
(* projection, a pruning of the session or a reconnection.                 *)
(***************************************************************************)
EXTENDS Naturals, SequencesExt

CONSTANTS
  MaxMessages,   (* MAX_TRANSCRIPT_MESSAGES                                  *)
  MaxQueue,      (* MAX_TRANSCRIPT_EVENT_QUEUE                               *)
  MaxReserve,    (* MAX_ROTATION_RESERVE                                     *)
  MaxEvents,     (* bound: events of the session                             *)
  MaxFailures,   (* bound: reads that fail                                   *)
  MaxDestroyed   (* bound: projections that are destroyed                    *)

VARIABLES
  t,            (* the TranscriptEntry with its data, and the delta buffer   *)
  rotators,     (* calls of rotateTranscript in progress                     *)
  readers,      (* calls of resyncAuthoritativeTranscript in progress        *)
  delivered,    (* number of events so far, which names the last one         *)
  due,          (* history: events the projection has to reflect             *)
  busy,         (* history: something was appended after the last idle       *)
  failures, destroyed    (* history: for the bounds                          *)

bounds == <<failures, destroyed>>
vars   == <<t, rotators, readers, delivered, due, busy, bounds>>

\* delta: of a compaction; terminal: the end of one, which replaces its deltas.
Kinds == {"append", "update", "delta", "terminal", "idle"}

Absent ==
  [alive |-> FALSE, epoch |-> 0, content |-> {}, size |-> 0, queue |-> <<>>,
   rotating |-> FALSE, rotation |-> 0, owed |-> FALSE, resyncing |-> FALSE,
   resync |-> 0, timer |-> FALSE, retire |-> FALSE, buffer |-> {}, revision |-> 0,
   misapplied |-> FALSE,     \* history: an event was reduced out of order or twice
   early |-> {}]             \* history: see ReaderEnds

Init ==
  /\ t = Absent /\ rotators = {} /\ readers = {}
  /\ delivered = 0 /\ due = {} /\ busy = FALSE
  /\ failures = 0 /\ destroyed = 0

-----------------------------------------------------------------------------
(* The projection: operators that return the next value of t *)

\* ensureTranscript: a projection is the identity of what is read for it.
Created(x) ==
  IF x.alive THEN x
  ELSE [Absent EXCEPT !.alive = TRUE, !.epoch = x.epoch + 1, !.revision = x.revision,
                      !.misapplied = x.misapplied]

Reduce(x, e) ==
  [x EXCEPT !.content = @ \cup e.ids, !.size = @ + IF e.kind = "append" THEN 1 ELSE 0,
            !.misapplied = @ \/ \E i \in e.ids, k \in x.content : k >= i]

\* Mutant: what is scheduled already is not scheduled again.
ScheduleOnce(x) ==
  IF x.owed THEN x ELSE [x EXCEPT !.owed = TRUE, !.timer = @ \/ ~x.resyncing]

\* scheduleAuthoritativeResync; the delay is left open.
Schedule(x) == [x EXCEPT !.owed = TRUE, !.timer = @ \/ ~x.resyncing]

Collapse(x) == Schedule(
  IF x.owed THEN [x EXCEPT !.queue = <<>>]
  ELSE [x EXCEPT !.queue = <<>>, !.rotation = @ + 1, !.rotating = FALSE])

\* invalidateTranscript
Invalidated(x) ==
  [x EXCEPT !.timer = FALSE, !.resync = @ + 1, !.rotation = @ + 1, !.owed = FALSE,
            !.resyncing = FALSE, !.rotating = FALSE, !.queue = <<>>]

\* destroyOpenCodeData of the session, which cancels the buffer.
Destroyed(x) == [Invalidated(x) EXCEPT !.alive = FALSE, !.buffer = {}, !.retire = FALSE,
                                      !.revision = 0]

Pending(x) == x.rotating \/ x.resyncing \/ x.owed \/ x.timer \/ x.queue # <<>>

\* retireDrainedTranscript
Retired(x) == IF x.alive /\ x.retire /\ ~Pending(x) THEN Destroyed(x) ELSE x

\* startTranscriptRotation: whether the task that is started is new is seen below.
Rotate(x) ==
  IF x.rotating \/ x.owed \/ x.resyncing \/ x.queue = <<>> THEN x
  ELSE [x EXCEPT !.rotating = TRUE, !.rotation = @ + 1]

Enqueue(x, e) ==
  LET y == [x EXCEPT !.queue = Append(@, e)]
  IN  Rotate(IF Len(y.queue) >= MaxQueue THEN Collapse(y) ELSE y)

\* Something new begins: the cleanup of an earlier idle event is off.
Revived(x, kind) == IF kind = "append" THEN [x EXCEPT !.retire = FALSE] ELSE x

\* applyOpenCodeDataEvent, from ensureTranscript on.
Accept(created, e, coalesced) ==
  LET x == Revived(created, e.kind)
  IN  IF x.owed \/ x.resyncing THEN Collapse(x)
      ELSE IF e.kind = "delta" /\ ~coalesced THEN [x EXCEPT !.buffer = @ \cup e.ids]
      ELSE IF x.rotating \/ (e.kind = "append" /\ x.size >= MaxMessages) THEN Enqueue(x, e)
      ELSE Reduce(x, e)

\* compactionDeltas.flush
Flush(x) ==
  IF x.buffer = {} THEN x
  ELSE Accept([x EXCEPT !.buffer = {}], [ids |-> x.buffer, kind |-> "delta"], TRUE)

\* Mutant: a snapshot is read while deltas are still in the buffer.
FlushedNever(x) == x

\* The read of a snapshot reduces the buffer before it takes authority.
Flushed(x) == Flush(x)

-----------------------------------------------------------------------------
(* Actions *)

\* A rotation that startTranscriptRotation begins within the step.
Spawned(x) ==
  rotators \cup IF x.alive /\ x.rotating /\ (~t.rotating \/ x.rotation # t.rotation)
                THEN {[epoch |-> x.epoch, rotation |-> x.rotation, stage |-> "reading"]}
                ELSE {}

Becomes(x) == t' = x /\ rotators' = Spawned(x)

\* An event arrives; an idle one is finished by finishOpenCodeDataEvent.
Deliver(kind) ==
  /\ delivered < MaxEvents
  /\ LET e        == [ids |-> {delivered + 1}, kind |-> kind]
         ready    == IF kind = "terminal" THEN [t EXCEPT !.buffer = {}]
                     ELSE IF kind = "delta" THEN t ELSE Flush(t)
         accepted == Accept(Created([ready EXCEPT !.revision = @ + 1]), e, FALSE)
     IN  /\ Becomes(IF kind = "idle" THEN Retired([accepted EXCEPT !.retire = TRUE])
                    ELSE accepted)
         /\ due' = e.ids \cup (IF ~t.alive THEN {}
                               ELSE IF kind = "terminal" THEN due \ t.buffer ELSE due)
  /\ delivered' = delivered + 1
  /\ busy' = (kind = "append" \/ (kind # "idle" /\ busy))
  /\ UNCHANGED <<readers, bounds>>

\* invalidateOpenCodeSessionContent: the content changed; counted as an event.
Prune ==
  /\ delivered < MaxEvents /\ t.alive
  /\ Becomes(Collapse([Invalidated(t) EXCEPT !.content = {}, !.size = 0, !.buffer = {},
                                            !.revision = @ + 1, !.early = {}]))
  /\ delivered' = delivered + 1 /\ due' = due \cup {delivered + 1}
  /\ UNCHANGED <<readers, busy, bounds>>

\* server.connected, session.deleted and the eviction of old transcripts.
Destroy ==
  /\ t.alive /\ destroyed < MaxDestroyed /\ destroyed' = destroyed + 1
  /\ Becomes(Destroyed(t))
  /\ UNCHANGED <<readers, delivered, due, busy, failures>>

BufferTimer ==
  /\ t.buffer # {} /\ Becomes(Flush(t))
  /\ UNCHANGED <<readers, delivered, due, busy, bounds>>

(* rotateTranscript *)

\* isRotationCurrent; the projection is the same as long as the generation is.
Rotates(k) == t.alive /\ t.epoch = k.epoch /\ ~t.resyncing /\ t.rotation = k.rotation

Appends == Cardinality({i \in DOMAIN t.queue : t.queue[i].kind = "append"})

\* The room that a rotation makes for the events that wait.
Reserve == Min({Max({Appends, 1}), MaxReserve})

Leaves(x, k) ==
  /\ t' = Retired(IF x.alive /\ x.epoch = k.epoch /\ x.rotation = k.rotation
                  THEN [x EXCEPT !.rotating = FALSE] ELSE x)
  /\ rotators' = rotators \ {k}

\* syncMessages has read the bounded page.
RotatorReads(k) ==
  /\ k.stage = "reading"
  /\ IF ~Rotates(k) THEN Leaves(t, k)
     ELSE LET x == Flushed(t)
          IN  /\ t' = [x EXCEPT !.size = Min({@, MaxMessages - Reserve})]
              /\ rotators' = (rotators \ {k}) \cup {[k EXCEPT !.stage = "draining"]}
  /\ UNCHANGED <<readers, delivered, due, busy, bounds>>

\* The first event of the queue is reduced.
Emit(x) == Reduce([x EXCEPT !.queue = Tail(@)], Head(x.queue))

\* The events of a chunk, the first n of the queue.
Chunk(x, n) ==
  LET after[i \in 0..n] == IF i = 0 THEN x ELSE Emit(after[i - 1])
  IN  after[n]

\* The first event of x needs a rotation.
Full(x) == x.queue # <<>> /\ Head(x.queue).kind = "append" /\ x.size >= MaxMessages

(* drainTranscriptQueue: n events within the budget of a chunk, then a task   *)
(* boundary, a new rotation or the end.                                       *)
RotatorDrains(k, n) ==
  /\ k.stage = "draining" /\ n <= Len(t.queue)
  /\ \A i \in 0..(n - 1) : ~Full(Chunk(t, i))
  /\ LET x == Chunk(t, n)
     IN  IF ~Rotates(k) \/ x.queue = <<>> THEN Leaves(IF Rotates(k) THEN x ELSE t, k)
         ELSE /\ n > 0 \/ Full(x)
              /\ t' = x
              /\ rotators' = (rotators \ {k}) \cup
                   {[k EXCEPT !.stage = IF Full(x) THEN "reading" ELSE "draining"]}
  /\ UNCHANGED <<readers, delivered, due, busy, bounds>>

\* The read fails: the queue is given up for a snapshot.
RotatorFails(k) ==
  /\ k.stage = "reading" /\ failures < MaxFailures /\ failures' = failures + 1
  /\ IF Rotates(k) THEN Leaves(Schedule([t EXCEPT !.queue = <<>>, !.rotation = @ + 1,
                                                 !.rotating = FALSE]), k)
     ELSE Leaves(t, k)
  /\ UNCHANGED <<readers, delivered, due, busy, destroyed>>

(* resyncAuthoritativeTranscript *)

ResyncTimer ==
  /\ t.timer
  /\ LET start == t.owed /\ ~t.resyncing
     IN  /\ t' = IF start THEN [t EXCEPT !.timer = FALSE, !.resyncing = TRUE, !.resync = @ + 1]
                 ELSE [t EXCEPT !.timer = FALSE]
         /\ readers' = readers \cup
              IF start THEN {[epoch |-> t.epoch, resync |-> t.resync + 1,
                              revision |-> t.revision, stage |-> "reading", content |-> {}]}
              ELSE {}
  /\ UNCHANGED <<rotators, delivered, due, busy, bounds>>

\* isResyncCurrent
Resyncs(k) == t.alive /\ t.epoch = k.epoch /\ t.resyncing /\ t.resync = k.resync

\* The daemon answers with the first n events: those that were delivered, and perhaps some
\* that are still on their way, since the answer does not travel with the events.
ReaderReads(k) ==
  /\ k.stage = "reading"
  /\ Becomes(IF Resyncs(k) THEN Flushed(t) ELSE t)
  /\ \E n \in delivered..MaxEvents :
       readers' = (readers \ {k}) \cup {[k EXCEPT !.stage = "read", !.content = 1..n]}
  /\ UNCHANGED <<delivered, due, busy, bounds>>

\* Mutant: an event that arrived during the read does not make it obsolete.
StableAnyway(k) == TRUE

Stable(k) == t.revision = k.revision

\* The snapshot is shown.  Only what was delivered counts as reduced by it: the rest of it is
\* shown early, and reduced once more when it arrives.
ReaderEnds(k) ==
  /\ k.stage = "read"
  /\ readers' = readers \ {k}
  /\ LET x == IF ~Resyncs(k) THEN t
              ELSE IF ~Stable(k) THEN Schedule([t EXCEPT !.resyncing = FALSE])
              ELSE Retired([t EXCEPT !.content = k.content \cap 1..delivered,
                                     !.early = k.content \ 1..delivered, !.size = 0,
                                     !.owed = FALSE, !.resyncing = FALSE])
     IN  Becomes(x)
  /\ UNCHANGED <<delivered, due, busy, bounds>>

ReaderFails(k) ==
  /\ failures < MaxFailures /\ failures' = failures + 1
  /\ readers' = readers \ {k}
  /\ Becomes(IF Resyncs(k) THEN Schedule([t EXCEPT !.resyncing = FALSE]) ELSE t)
  /\ UNCHANGED <<delivered, due, busy, destroyed>>

-----------------------------------------------------------------------------
RotatorStep == \E k \in rotators : RotatorReads(k) \/ \E n \in 0..MaxQueue : RotatorDrains(k, n)
ReaderStep  == \E k \in readers : ReaderReads(k) \/ ReaderEnds(k)

Next ==
  \/ \E kind \in Kinds : Deliver(kind)
  \/ Prune \/ Destroy \/ BufferTimer \/ ResyncTimer
  \/ RotatorStep \/ ReaderStep
  \/ \E k \in rotators : RotatorFails(k)
  \/ \E k \in readers : ReaderFails(k)

Spec == Init /\ [][Next]_vars

\* Timers fire and reads are answered; nothing is assumed of the daemon's events.
Progress ==
  /\ WF_vars(BufferTimer) /\ WF_vars(ResyncTimer)
  /\ WF_vars(RotatorStep) /\ WF_vars(ReaderStep)

FairSpec == Spec /\ Progress

-----------------------------------------------------------------------------
(* Properties *)

\* opencode-data.ts:59: a projection for which no snapshot is owed has lost nothing: every
\* event it has to reflect was reduced, or waits in the queue or in the buffer.
NothingIsSkipped ==
  t.alive /\ ~t.owed =>
    due \subseteq t.content \cup t.buffer \cup UNION {t.queue[i].ids : i \in DOMAIN t.queue}

\* opencode-data.ts:64: events are reduced in the order of their delivery, and none that was
\* delivered before a snapshot or a page was shown is reduced into it again.  One that is
\* delivered afterwards is reduced even if the snapshot held it (early): the code cannot tell.
ReducedInOrder == ~t.misapplied

\* A projection that owes no snapshot is the reduction of the events that were delivered:
\* none is missing, none is out of order, and none is reduced twice but those of early.
ProjectionIsExact == NothingIsSkipped /\ ReducedInOrder

\* Once the events stop, the queue, the buffer and the resynchronization come to an end and
\* the projection reflects everything, or was retired.
Converges ==
  <>[](t.alive => ~Pending(t) /\ t.buffer = {} /\ ~t.retire /\ due \subseteq t.content)
=============================================================================
