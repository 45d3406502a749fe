----------------------------- MODULE EventStream -----------------------------
(***************************************************************************)
(* packages/server/src/server/routes/events.ts and                         *)
(* clients/connection-manager.ts: the server-sent events of a browser.     *)
(*                                                                         *)
(* Every GET is a stream of its own.  A stream whose socket does not take  *)
(* any more keeps its payloads until the socket drains, within a budget    *)
(* and for a limited time; beyond either it is destroyed.  A connection    *)
(* belongs to a key of the browser and is replaced by the next stream of   *)
(* that key; the close of the stream that was replaced comes later.        *)
(***************************************************************************)
EXTENDS Naturals, Sequences, SequencesExt

CONSTANTS
  Keys,        (* clientId and connectionId                                  *)
  Limit,       (* backpressureLimitBytes                                     *)
  MaxStreams,  (* bound: streams, of all keys                                *)
  MaxPayloads, (* bound: events and heartbeats                               *)
  Sizes        (* the sizes of the events                                    *)

VARIABLES
  streams,     (* the variables of each handler of GET /api/events           *)
  opened,      (* how many streams there are                                 *)
  sseClients,  (* http-server.ts: streams to close when the server stops     *)
  connections, (* ClientConnectionManager.connections, 0: none               *)
  stale,       (* keys that were not heard of for STALE_CONNECTION_TIMEOUT_MS *)
  statuses,    (* EventBus.instanceStatuses                                  *)
  life,        (* "stopping" once the connection manager is shut down        *)
  sent         (* how many payloads there were                               *)

vars == <<streams, opened, sseClients, connections, stale, statuses, life, sent>>

\* due: everything the stream was asked to write, a history.
NoStream(k) ==
  [key |-> k, stage |-> "open", pressed |-> FALSE, buffered |-> 0, pending |-> <<>>,
   out |-> <<>>, due |-> <<>>]

Init ==
  /\ streams = <<>> /\ opened = 0 /\ sseClients = {}
  /\ connections = [k \in Keys |-> 0] /\ stale = {}
  /\ statuses = <<>> /\ life = "running" /\ sent = 0

Bytes(payloads) ==
  LET total[n \in 0..Len(payloads)] ==
        IF n = 0 THEN 0 ELSE total[n - 1] + payloads[n].size
  IN  total[Len(payloads)]

\* close: nothing is written any more.  The stream is "cleaned" when it unregistered too.
Closed(x, cleaned) ==
  [x EXCEPT !.stage = IF cleaned \/ @ = "cleaned" THEN "cleaned" ELSE "closed",
            !.pressed = FALSE, !.pending = <<>>, !.buffered = 0]

\* Mutant: a payload too many is dropped, and the stream goes on.
DropsPayload(y) == y

Overflows(y) == Closed(y, TRUE)

\* What may become of the stream x when the payload p is written to it.
Writes(x, p) ==
  LET y == [x EXCEPT !.due = Append(@, p)]
      w == [y EXCEPT !.out = Append(@, p)]
  IN  IF x.stage # "open" THEN {x}
      ELSE IF x.buffered + p.size > Limit THEN {Overflows(y)}
      ELSE IF x.pressed
           THEN {[y EXCEPT !.pending = Append(@, p), !.buffered = @ + p.size]}
      ELSE {w, [w EXCEPT !.pressed = TRUE, !.buffered = p.size]}

\* disconnect with an expected connection: a successor of the key is spared.
Unregistered(gone) ==
  [k \in Keys |-> IF connections[k] \in gone THEN 0 ELSE connections[k]]

\* handleClose of the streams that were forced to close.
Cleans(gone) ==
  /\ sseClients' = sseClients \ gone
  /\ connections' = Unregistered(gone)

CleanedNow == {s \in DOMAIN streams' :
  streams'[s].stage = "cleaned" /\ (s \in DOMAIN streams => streams[s].stage # "cleaned")}

-----------------------------------------------------------------------------
\* GET /api/events: the statuses are replayed by the subscription; the stream may be over
\* before it is registered.
Open(k) ==
  /\ life # "stopped" /\ opened < MaxStreams /\ opened' = opened + 1
  /\ \E x \in IF statuses = <<>> THEN {NoStream(k)} ELSE Writes(NoStream(k), Head(statuses)) :
       IF x.stage # "open"
       THEN /\ streams' = Append(streams, x)
            /\ UNCHANGED <<sseClients, connections, stale>>
       ELSE /\ streams' = Append(
                 [s \in DOMAIN streams |->
                    IF s = connections[k] THEN Closed(streams[s], FALSE) ELSE streams[s]], x)
            /\ sseClients' = sseClients \cup {opened'}
            /\ connections' = [connections EXCEPT ![k] = opened']
            /\ stale' = stale \ {k}
  /\ UNCHANGED <<statuses, life, sent>>

\* EventBus.publish: every open stream listens; a status is remembered until the terminal one.
Publish(size, kind) ==
  /\ sent < MaxPayloads /\ sent' = sent + 1
  /\ LET p == [id |-> sent', size |-> size]
     IN  /\ statuses' = CASE kind = "status" -> <<p>> [] kind = "terminal" -> <<>>
                         [] kind = "event" -> statuses
         /\ \E f \in [DOMAIN streams -> UNION {Writes(streams[s], p) : s \in DOMAIN streams}] :
              /\ \A s \in DOMAIN streams : f[s] \in Writes(streams[s], p)
              /\ streams' = f
  /\ Cleans(CleanedNow)
  /\ UNCHANGED <<opened, stale, life>>

\* The interval of a stream
Heartbeat(s) ==
  /\ streams[s].stage = "open"
  /\ sent < MaxPayloads /\ sent' = sent + 1
  /\ \E x \in Writes(streams[s], [id |-> sent', size |-> 1]) :
       streams' = [streams EXCEPT ![s] = x]
  /\ Cleans(CleanedNow)
  /\ UNCHANGED <<opened, stale, statuses, life>>

\* Mutant: what does not fit when the socket drains is forgotten.
LeftoverLost(x, n) == <<>>

Leftover(x, n) == SubSeq(x.pending, n + 1, Len(x.pending))

\* handleDrain: payloads are written until the socket is full again.
Drain(s) ==
  /\ streams[s].stage = "open" /\ streams[s].pressed
  /\ \E n \in 0..Len(streams[s].pending), full \in BOOLEAN :
       LET x == streams[s]
       IN  /\ full => n > 0
           /\ n < Len(x.pending) => full
           /\ streams' = [streams EXCEPT ![s] =
                [x EXCEPT !.out = @ \o SubSeq(x.pending, 1, n), !.pending = Leftover(x, n),
                          !.pressed = full,
                          !.buffered = IF full THEN Bytes(Leftover(x, n)) + x.pending[n].size
                                       ELSE 0]]
  /\ UNCHANGED <<opened, sseClients, connections, stale, statuses, life, sent>>

\* drainTimeout
DrainTimesOut(s) ==
  /\ streams[s].pressed
  /\ streams' = [streams EXCEPT ![s] = Closed(@, TRUE)]
  /\ Cleans({s})
  /\ UNCHANGED <<opened, stale, statuses, life, sent>>

\* Mutant: the close of a stream unregisters whatever its key has.
UnregisteredKey(s) == [connections EXCEPT ![streams[s].key] = 0]

UnregisteredOf(s) == Unregistered({s})

\* The socket closes: the browser left, or the stream was ended before.
SocketCloses(s) ==
  /\ streams[s].stage # "cleaned"
  /\ streams' = [streams EXCEPT ![s] = Closed(@, TRUE)]
  /\ sseClients' = sseClients \ {s} /\ connections' = UnregisteredOf(s)
  /\ UNCHANGED <<opened, stale, statuses, life, sent>>

\* Time passes without a pong.
Silence(k) ==
  /\ connections[k] # 0 /\ k \notin stale /\ stale' = stale \cup {k}
  /\ UNCHANGED <<streams, opened, sseClients, connections, statuses, life, sent>>

\* pong: the key is heard of, whichever of its streams the ping came from.
Pong(k) ==
  /\ connections[k] # 0 /\ k \in stale /\ stale' = stale \ {k}
  /\ UNCHANGED <<streams, opened, sseClients, connections, statuses, life, sent>>

\* sweepStaleConnections
Sweep(k) ==
  /\ life = "running" /\ connections[k] # 0 /\ k \in stale
  /\ streams' = [streams EXCEPT ![connections[k]] = Closed(@, FALSE)]
  /\ connections' = [connections EXCEPT ![k] = 0] /\ stale' = stale \ {k}
  /\ UNCHANGED <<opened, sseClients, statuses, life, sent>>

\* shutdown of the connection manager, then closeSseClients
Shutdown ==
  /\ life = "running" /\ life' = "stopping"
  /\ connections' = [k \in Keys |-> 0]
  /\ UNCHANGED <<streams, opened, sseClients, stale, statuses, sent>>

Stop ==
  /\ life = "stopping" /\ life' = "stopped"
  /\ streams' = [s \in DOMAIN streams |->
       IF s \in sseClients THEN Closed(streams[s], FALSE) ELSE streams[s]]
  /\ sseClients' = {}
  /\ UNCHANGED <<opened, connections, stale, statuses, sent>>

Next ==
  \/ Shutdown \/ Stop
  \/ \E k \in Keys : Open(k) \/ Silence(k) \/ Pong(k) \/ Sweep(k)
  \/ \E size \in Sizes, kind \in {"event", "status", "terminal"} : Publish(size, kind)
  \/ \E s \in DOMAIN streams :
       Heartbeat(s) \/ Drain(s) \/ DrainTimesOut(s) \/ SocketCloses(s)

Spec == Init /\ [][Next]_vars

-----------------------------------------------------------------------------
(* Properties *)

\* A stream that lasts has written or keeps everything it was asked to write, in order, and
\* within its budget; one that ended has written it up to some point: a browser never sees a
\* stream with a gap, however slowly it reads.
NoGap ==
  \A s \in DOMAIN streams : LET x == streams[s] IN
    IF x.stage = "open" THEN x.out \o x.pending = x.due /\ Bytes(x.pending) <= Limit
    ELSE IsPrefix(x.out, x.due)

\* An open stream is the one its key is known by, so that it is swept when its browser falls
\* silent, whatever happened to the streams it replaced; and the stop of the server ends it.
OpenIsRegistered ==
  \A s \in DOMAIN streams : streams[s].stage = "open" =>
    /\ life = "running" => connections[streams[s].key] = s
    /\ s \in sseClients /\ life # "stopped"
=============================================================================
