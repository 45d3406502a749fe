--------------------------- MODULE EventRelayProofs ---------------------------
(***************************************************************************)
(* Theorems about EventRelay, for any number of workspaces, sessions,       *)
(* terminals, directories and events: events arrive in order and none is    *)
(* lost while the subscription lasts, none is late, none is routed by a     *)
(* location its session had left, and none is judged by an ownership from   *)
(* before a revision.                                                       *)
(*                                                                         *)
(* What runs between two awaits is an operator on the router's memory, so   *)
(* the invariant is made of predicates on a memory q; rec, ws and w are the *)
(* values received, Known and wire have around it.                          *)
(***************************************************************************)
EXTENDS EventRelay, FiniteSetTheorems, WellFoundedInduction, TLAPS

-----------------------------------------------------------------------------
(* The invariant: the stream and the workspaces *)

\* The daemon greets, at most once, before anything else of a subscription.
StreamOK ==
  /\ phase \notin {"open", "connected"} => wire = <<>>
  /\ \A n \in 1..Len(wire) : wire[n].type = "connected" => phase = "open" /\ n = 1
  /\ \A m, n \in 1..Len(wire) : m < n => wire[m].id < wire[n].id
  /\ \A n \in 1..Len(wire) : wire[n].id <= sent
  /\ phase \notin {"idle", "ended"} => generation > 0
  /\ phase = "idle" => generation = 0
  /\ phase \in {"idle", "delay", "ended"} => r.closed
  /\ phase # "connected" => \A l \in Lanes : r.lanes[l] = <<>>
  /\ phase \in {"connecting", "open"} =>
       /\ \A i \in Instances : received[i] = {}
       /\ \A e \in Entities : r.placed[e] = "none"

\* Scans are of some time until now.
ScansOK ==
  \A i \in Instances :
    /\ floor[i] \in 1..Len(owned[i]) /\ snapshot[i] \in 0..Len(owned[i])

\* What a workspace owned when it was last scanned, unless that scan has been revoked.
Known ==
  [i \in Instances |-> IF snapshot[i] # 0 /\ snapshot[i] >= floor[i]
                       THEN owned[i][snapshot[i]] ELSE {}]

\* A workspace is open once, and hears nothing before.
OpenOK ==
  /\ \A m, n \in 1..Len(listed) : m # n => listed[m] # listed[n]
  /\ \A i \in Instances : i \in Listed <=> epoch[i] = 1
  /\ \A i \in Instances : epoch[i] = 0 => received[i] = {}
  /\ ScansOK

-----------------------------------------------------------------------------
(* The invariant: the router *)

Slots(q) == {x \in Lanes \X Nat : x[2] \in 1..Len(q.lanes[x[1]])}

\* The count of a queue, which a closed queue starts anew.
CountOK(q) ==
  /\ IsFiniteSet(Slots(q)) /\ q.count = Cardinality(Slots(q))
  /\ q.closed => \A l \in Lanes : q.lanes[l] = <<>>

\* What is late belongs to a queue that was closed.
LateOK(q) ==
  \A x \in q.late : x.generation <= generation /\ (x.generation = generation => q.closed)

\* The recipients rs of event e: a job that routes names each workspace that was
\* open when its event arrived, and one that delivers to x names x.
HearersOK(x, e, rs, rec) ==
  /\ \A n \in 1..Len(rs) : rs[n].epoch = 1 /\ e \in rec[rs[n].id]
  /\ x = Router =>
       /\ \A m, n \in 1..Len(rs) : m # n => rs[m].id # rs[n].id
       /\ \A i \in Listed : e \in rec[i] => \E n \in 1..Len(rs) : rs[n].id = i
  /\ x # Router => Len(rs) = 1 /\ rs[1].id = x

\* The stages of a job that routes, where only sessions are looked up, and of one
\* that delivers.
StageOK(l, job) ==
  IF l[2] = Router
  THEN /\ job.stage \in {"queued", "waiting", "answered", "done"}
       /\ job.stage \in {"waiting", "answered"} => l[1] \in Sessions
  ELSE /\ job.stage \in {"queued", "waiting", "yes", "no", "done"}
       /\ job.stage \in {"waiting", "yes", "no"} => job.location \in Locations

JobOK(l, job, rec) ==
  /\ job.event.key = l[1]
  /\ HearersOK(l[2], job.event, job.recipients, rec) /\ StageOK(l, job)

\* Only the first job of a lane runs.
JobsOK(q, rec) ==
  \A l \in Lanes :
    /\ \A n \in 1..Len(q.lanes[l]) : JobOK(l, q.lanes[l][n], rec)
    /\ \A n \in 2..Len(q.lanes[l]) : q.lanes[l][n].stage = "queued"

\* Event e is ahead of routing job b, or was handed on by it; now holds the
\* event that is being handed on.
AheadOf(e, b, now) ==
  \/ e.id < b.event.id
  \/ e = b.event /\ (b.stage = "done" \/ b.event \in now)

\* Events leave the wire, the routing lanes and the delivery lanes in their order.
LanesOrdered(q) ==
  \A l \in Lanes : \A m, n \in 1..Len(q.lanes[l]) :
    m < n => q.lanes[l][m].event.id < q.lanes[l][n].event.id

\* What was handed on is ahead of what is still to be routed.
RoutedAhead(q, now) ==
  \A k \in Keys, i \in Instances :
    \A n \in 1..Len(q.lanes[<<k, Router>>]) :
      /\ \A m \in 1..Len(q.lanes[<<k, i>>]) :
           AheadOf(q.lanes[<<k, i>>][m].event, q.lanes[<<k, Router>>][n], now)
      /\ \A f \in q.published[i] :
           f.key = k /\ q.lanes[<<k, Router>>][n].event.type # "connected" =>
             AheadOf(f, q.lanes[<<k, Router>>][n], now)

\* What was published is ahead of what waits for a delivery.
PublishedAhead(q) ==
  \A k \in Keys, i \in Instances : \A n \in 1..Len(q.lanes[<<k, i>>]) :
    \A f \in q.published[i] :
      f.key = k /\ q.lanes[<<k, i>>][n].event.type # "connected" =>
        \/ f.id < q.lanes[<<k, i>>][n].event.id
        \/ f = q.lanes[<<k, i>>][n].event /\ q.lanes[<<k, i>>][n].stage = "done"

\* What was received is ahead of the wire.
ReceivedAhead(q, w) ==
  /\ \A l \in Lanes : \A n \in 1..Len(q.lanes[l]) :
       /\ q.lanes[l][n].event.id <= sent
       /\ \A k \in 1..Len(w) : q.lanes[l][n].event.id < w[k].id
  /\ \A i \in Instances : \A f \in q.published[i] :
       /\ f.id <= sent
       /\ \A k \in 1..Len(w) : w[k].type # "connected" => f.id < w[k].id

OrderOK(q, w, now) ==
  /\ LanesOrdered(q) /\ RoutedAhead(q, now) /\ PublishedAhead(q) /\ ReceivedAhead(q, w)

\* Event e waits for i in the lane of x.
Queued(q, e, x) ==
  \E n \in 1..Len(q.lanes[<<e.key, x>>]) :
    q.lanes[<<e.key, x>>][n].event = e /\ q.lanes[<<e.key, x>>][n].stage # "done"

Settled(q, i, e) == e \in q.published[i] \/ e \in q.refused[i] \/ e \in q.unplaced

KeptOK(q, rec) ==
  ~q.closed => \A i \in Listed : \A e \in rec[i] :
    Settled(q, i, e) \/ Queued(q, e, Router) \/ Queued(q, e, i)

\* A positive answer is about a location the workspace owned when it was last scanned.
OwnersOK(q, ws) ==
  /\ \A i \in Instances, l \in Locations : q.owners[i][l] = "yes" => l \in ws[i]
  /\ \A k \in Keys, i \in Instances : \A n \in 1..Len(q.lanes[<<k, i>>]) :
       q.lanes[<<k, i>>][n].stage = "yes" /\ q.lanes[<<k, i>>][n].fresh =>
         q.lanes[<<k, i>>][n].location \in ws[i]

-----------------------------------------------------------------------------
(* The invariant: where sessions are *)

\* Session s was at place when it had made h moves or later.
AtOrAfter(s, h, place) == \E n \in 1..Len(trail[s]) : h <= n /\ trail[s][n] = place

\* The events of s that are still to be routed.
Ahead(q, w, s) ==
  {e \in Events :
     \/ Queued(q, e, Router) /\ e.key = s
     \/ \E n \in 1..Len(w) : w[n] = e /\ e.key = s}

Moved(e) == e.type = "moved"

\* Among the events A of s every move is announced.
HopsOK(A, s) ==
  \A e \in A :
    /\ e.hop \in 1..Len(trail[s])
    /\ e.hop < Len(trail[s]) => \E g \in A : Moved(g) /\ e.id <= g.id
    /\ \A f \in A : e.id < f.id =>
         /\ e.hop <= f.hop
         /\ e.hop < f.hop => \E g \in A : Moved(g) /\ e.id <= g.id /\ g.id < f.id
    /\ e.location # NoLocation =>
         \/ trail[s][e.hop] = e.location
         \/ Moved(e) /\ AtOrAfter(s, e.hop, e.location)

\* place is right for the events of A up to the next move, and for new ones.
Serves(place, A, s) ==
  /\ \A f \in A : (\A g \in A : Moved(g) => f.id <= g.id) => AtOrAfter(s, f.hop, place)
  /\ (\A g \in A : ~Moved(g)) => place = Last(trail[s])

RoutedOK(q) ==
  \A s \in Sessions, i \in Instances : \A n \in 1..Len(q.lanes[<<s, i>>]) :
    q.lanes[<<s, i>>][n].location # NoLocation =>
      AtOrAfter(s, q.lanes[<<s, i>>][n].event.hop, q.lanes[<<s, i>>][n].location)

\* While job asks for a session no place is cached, and what the daemon answered to
\* it is right for its event and for those of A behind it.
AnswerOK(A, s, place, job) ==
  /\ job.stage \in {"waiting", "answered"} => place \notin Locations
  /\ job.stage = "answered" /\ job.location # NoLocation =>
       /\ AtOrAfter(s, job.event.hop, job.location)
       /\ Serves(job.location, A \ {job.event}, s)

PlaceOK(A, s, place) == place \in Locations => Serves(place, A, s)

\* now holds the event that is being routed.
PlacesOK(q, w, now) ==
  ~q.closed => \A s \in Sessions :
    /\ HopsOK(Ahead(q, w, s) \ now, s)
    /\ PlaceOK(Ahead(q, w, s) \ now, s, q.placed[s])
    /\ q.lanes[<<s, Router>>] # <<>> =>
         AnswerOK(Ahead(q, w, s), s, q.placed[s], q.lanes[<<s, Router>>][1])

TrailOK == \A e \in Entities : trail[e] # <<>>

RelayInv ==
  /\ StreamOK /\ OpenOK /\ StatusIsShared /\ TrailOK
  /\ CountOK(r) /\ LateOK(r) /\ JobsOK(r, received) /\ OrderOK(r, wire, {})
  /\ KeptOK(r, received) /\ OwnersOK(r, Known) /\ RoutedOK(r) /\ PlacesOK(r, wire, {})

IInv == TypeOK /\ RelayInv

\* The predicates on a memory.
Good(q, rec, ws, w, now) ==
  /\ q \in Memory
  /\ CountOK(q) /\ LateOK(q) /\ JobsOK(q, rec) /\ OrderOK(q, w, now)
  /\ KeptOK(q, rec) /\ OwnersOK(q, ws) /\ RoutedOK(q) /\ PlacesOK(q, w, now)

-----------------------------------------------------------------------------
(* Arithmetic and sequences *)

\* A set of natural numbers with 0 and all its successors has them all.
LEMMA AllNaturals ==
  ASSUME NEW S \in SUBSET Nat, 0 \in S, \A n \in S : n + 1 \in S
  PROVE  S = Nat
<1>. SUFFICES ASSUME S # Nat PROVE FALSE
  OBVIOUS
<1> DEFINE R == OpToRel(<, Nat)
           T == Nat \ S
<1>1. IsWellFoundedOn(R, Nat)
  BY NatLessThanWellFounded, Zenon
<1>2. \A k, n \in Nat : <<k, n>> \in R <=> k < n
  BY DEF OpToRel
<1>3. T \in SUBSET Nat /\ T # {}
  OBVIOUS
<1> HIDE DEF R, T
<1>4. PICK n \in T : \A k \in T : <<k, n>> \notin R
  BY <1>1, <1>3, WFMin
<1>5. \A k \in T : ~(k < n)
  BY <1>2, <1>3, <1>4
<1>6. n \in Nat /\ n # 0
  BY <1>3, <1>4 DEF T
<1>7. n - 1 \in Nat /\ n - 1 < n /\ (n - 1) + 1 = n
  BY <1>6
<1>8. n - 1 \in S
  BY <1>5, <1>7 DEF T
<1>. QED  BY <1>4, <1>7, <1>8 DEF T

LEMMA TypeConstants ==
  /\ Router \notin Instances /\ NoLocation \notin Locations /\ Service \notin Entities
  /\ "none" \notin Places /\ "asked" \notin Places
  /\ Keys = Entities \cup {Service} /\ Entities = Sessions \cup Terminals
  /\ Lanes = Keys \X (Instances \cup {Router}) /\ Places = Locations \cup {NoLocation}
  /\ Sessions \subseteq Keys
BY EntityAssumption DEF Keys, Entities, Lanes, Places

\* In M the head of lane is job.
HeadIs(L, M, lane, job) ==
  /\ M \in [Lanes -> Seq(Jobs)]
  /\ Len(M[lane]) = Len(L[lane]) /\ Len(L[lane]) >= 1 /\ M[lane][1] = job
  /\ \A n \in 2..Len(L[lane]) : M[lane][n] = L[lane][n]
  /\ \A l \in Lanes \ {lane} : M[l] = L[l]

WithHead(L, lane, job) == [L EXCEPT ![lane] = [L[lane] EXCEPT ![1] = job]]

LEMMA HeadReplaced ==
  ASSUME NEW L \in [Lanes -> Seq(Jobs)], NEW lane \in Lanes, L[lane] # <<>>,
         NEW job \in Jobs
  PROVE  HeadIs(L, WithHead(L, lane, job), lane, job)
<1> DEFINE s == [L[lane] EXCEPT ![1] = job]
<1>1. L[lane] \in Seq(Jobs) /\ Len(L[lane]) >= 1
  OBVIOUS
<1>2. /\ s \in Seq(Jobs) /\ Len(s) = Len(L[lane]) /\ s[1] = job
      /\ \A n \in 2..Len(L[lane]) : s[n] = L[lane][n]
  BY <1>1
<1> HIDE DEF s
<1>3. WithHead(L, lane, job) = [L EXCEPT ![lane] = s]
  BY DEF WithHead, s
<1>. QED  BY <1>1, <1>2, <1>3 DEF HeadIs

\* In M the lane has one job more.
LongerBy(L, M, lane, job) ==
  /\ M \in [Lanes -> Seq(Jobs)]
  /\ Len(M[lane]) = Len(L[lane]) + 1 /\ M[lane][Len(L[lane]) + 1] = job
  /\ \A n \in 1..Len(L[lane]) : M[lane][n] = L[lane][n]
  /\ \A l \in Lanes \ {lane} : M[l] = L[l]

LEMMA LaneAppended ==
  ASSUME NEW L \in [Lanes -> Seq(Jobs)], NEW lane \in Lanes, NEW job \in Jobs
  PROVE  LongerBy(L, [L EXCEPT ![lane] = Append(L[lane], job)], lane, job)
<1> DEFINE s == Append(L[lane], job)
<1>1. L[lane] \in Seq(Jobs)
  OBVIOUS
<1>2. /\ s \in Seq(Jobs) /\ Len(s) = Len(L[lane]) + 1 /\ s[Len(L[lane]) + 1] = job
      /\ \A n \in 1..Len(L[lane]) : s[n] = L[lane][n]
  BY <1>1
<1> HIDE DEF s
<1>. QED  BY <1>2 DEF LongerBy

\* In M the lane lost its first job.
ShorterBy(L, M, lane) ==
  /\ M \in [Lanes -> Seq(Jobs)]
  /\ Len(L[lane]) >= 1 /\ Len(M[lane]) = Len(L[lane]) - 1
  /\ \A n \in 1..Len(M[lane]) : M[lane][n] = L[lane][n + 1]
  /\ \A l \in Lanes \ {lane} : M[l] = L[l]

LEMMA LaneShortened ==
  ASSUME NEW L \in [Lanes -> Seq(Jobs)], NEW lane \in Lanes, L[lane] # <<>>
  PROVE  ShorterBy(L, [L EXCEPT ![lane] = Tail(L[lane])], lane)
<1> DEFINE s == Tail(L[lane])
<1>1. L[lane] \in Seq(Jobs) /\ Len(L[lane]) >= 1
  OBVIOUS
<1>2. /\ s \in Seq(Jobs) /\ Len(s) = Len(L[lane]) - 1
      /\ \A n \in 1..Len(s) : s[n] = L[lane][n + 1]
  BY <1>1
<1> HIDE DEF s
<1>. QED  BY <1>1, <1>2 DEF ShorterBy

-----------------------------------------------------------------------------
(* Steps of the queue: it is closed *)

\* In new, the caches are those of q.
SameCaches(q, new) ==
  /\ new.placed = q.placed /\ new.owners = q.owners
  /\ new.published = q.published /\ new.refused = q.refused /\ new.unplaced = q.unplaced

LEMMA NoSlots ==
  ASSUME NEW q, \A l \in Lanes : q.lanes[l] = <<>>
  PROVE  Slots(q) = {} /\ IsFiniteSet(Slots(q)) /\ Cardinality(Slots(q)) = 0
<1>1. \A l \in Lanes : Len(q.lanes[l]) = 0
  OBVIOUS
<1>2. Slots(q) = {}
  BY <1>1 DEF Slots
<1>. QED  BY <1>2, FS_EmptySet

LEMMA CloseFields ==
  ASSUME NEW q \in Memory, generation \in 0..MaxConnections,
         generation > 0 \/ \A l \in Lanes : q.lanes[l] = <<>>
  PROVE  /\ Close(q) \in Memory /\ Close(q).closed /\ Close(q).count = 0
         /\ \A l \in Lanes : Close(q).lanes[l] = <<>>
         /\ SameCaches(q, Close(q))
         /\ \A x \in Close(q).late : x \in q.late \/ x.generation = generation
<1> DEFINE none == [l \in Lanes |-> <<>>]
           more == {[lane |-> l, job |-> Head(q.lanes[l]), generation |-> generation] :
                     l \in {x \in Lanes : q.lanes[x] # <<>> /\ Running(Head(q.lanes[x]))}}
           new == [q EXCEPT !.closed = TRUE, !.count = 0, !.lanes = none,
                            !.late = q.late \cup more]
<1>1. Close(q) = new
  BY DEF Close
<1>2. \A l \in Lanes : q.lanes[l] \in Seq(Jobs)
  BY DEF Memory
<1>3. \A x \in more : /\ x \in [lane : Lanes, job : Jobs, generation : 1..MaxConnections]
                      /\ x.generation = generation
  BY <1>2
<1>4. none \in [Lanes -> Seq(Jobs)] /\ 0 \in 0..MaxJobs
  BY LimitAssumption
<1> HIDE DEF none, more
<1>5. /\ new \in Memory /\ new.closed /\ new.count = 0 /\ new.lanes = none
      /\ new.late = q.late \cup more /\ SameCaches(q, new)
  BY <1>3, <1>4 DEF Memory, SameCaches
<1> HIDE DEF new
<1>. QED  BY <1>1, <1>3, <1>5 DEF none

\* A closed queue holds nothing, so only what was published has to be in order.
LEMMA EmptyGood ==
  ASSUME NEW new \in Memory, NEW rec, NEW ws, NEW w, NEW now, new.closed, new.count = 0,
         \A l \in Lanes : new.lanes[l] = <<>>,
         LateOK(new),
         \A i \in Instances, l \in Locations : new.owners[i][l] = "yes" => l \in ws[i],
         \A i \in Instances : \A f \in new.published[i] :
           /\ f.id <= sent
           /\ \A k \in 1..Len(w) : w[k].type # "connected" => f.id < w[k].id
  PROVE  Good(new, rec, ws, w, now)
<1>1. CountOK(new)
  BY NoSlots DEF CountOK
<1>2. \A l \in Lanes : Len(new.lanes[l]) = 0
  OBVIOUS
<1>3. \A k \in Keys, x \in Instances \cup {Router} : Len(new.lanes[<<k, x>>]) = 0
  BY <1>2 DEF Lanes
<1>4. JobsOK(new, rec)
  BY <1>2 DEF JobsOK
<1>5. OrderOK(new, w, now)
  BY <1>2, <1>3 DEF OrderOK, LanesOrdered, RoutedAhead, PublishedAhead, ReceivedAhead
<1>6. KeptOK(new, rec) /\ PlacesOK(new, w, now)
  BY DEF KeptOK, PlacesOK
<1>7. OwnersOK(new, ws)
  BY <1>3 DEF OwnersOK
<1>8. RoutedOK(new)
  BY <1>3, TypeConstants DEF RoutedOK
<1>. QED  BY <1>1, <1>4, <1>5, <1>6, <1>7, <1>8 DEF Good

LEMMA CloseGood ==
  ASSUME NEW q, NEW rec, NEW ws, NEW w, NEW now, NEW rec2, NEW w2, NEW later,
         Good(q, rec, ws, w, now),
         \A k \in 1..Len(w2) : \E j \in 1..Len(w) : w2[k] = w[j],
         generation \in 0..MaxConnections,
         generation > 0 \/ \A l \in Lanes : q.lanes[l] = <<>>
  PROVE  Good(Close(q), rec2, ws, w2, later)
<1> DEFINE new == Close(q)
<1>1. /\ new \in Memory /\ new.closed /\ new.count = 0
      /\ \A l \in Lanes : new.lanes[l] = <<>>
      /\ SameCaches(q, new)
      /\ \A x \in new.late : x \in q.late \/ x.generation = generation
  BY CloseFields DEF Good
<1> HIDE DEF new
<1>2. LateOK(new)
  BY <1>1 DEF Good, LateOK
<1>3. \A i \in Instances, l \in Locations : new.owners[i][l] = "yes" => l \in ws[i]
  BY <1>1 DEF Good, OwnersOK, SameCaches
<1>4. \A i \in Instances : \A f \in new.published[i] :
           /\ f.id <= sent
           /\ \A k \in 1..Len(w2) : w2[k].type # "connected" => f.id < w2[k].id
  BY <1>1 DEF Good, OrderOK, ReceivedAhead, SameCaches
<1>5. Good(new, rec2, ws, w2, later)
  BY <1>1, <1>2, <1>3, <1>4, EmptyGood
<1>. QED  BY <1>5 DEF new

-----------------------------------------------------------------------------
(* Where sessions are *)

\* Of the events of A, e is the oldest.
Oldest(e, A) == e \in A /\ \A f \in A : f # e => e.id < f.id

LEMMA EventTypes ==
  \A e \in Events : /\ e.id \in Nat /\ e.id \in 0..MaxEvents /\ e.hop \in Nat
                    /\ e.key \in Keys /\ e.location \in Places
BY LimitAssumption DEF Events

LEMMA TrailTypes ==
  ASSUME TypeOK, TrailOK, NEW s \in Sessions
  PROVE  /\ trail[s] \in Seq(Locations) /\ Len(trail[s]) \in Nat /\ Len(trail[s]) >= 1
         /\ Last(trail[s]) = trail[s][Len(trail[s])] /\ Last(trail[s]) \in Locations
<1>1. s \in Entities
  BY DEF Entities
<1>2. trail[s] \in Seq(Locations) /\ trail[s] # <<>>
  BY <1>1 DEF TypeOK, TrailOK
<1>. QED  BY <1>2 DEF Last

LEMMA HopsLess ==
  ASSUME NEW A \in SUBSET Events, NEW s, HopsOK(A, s), NEW e, Oldest(e, A)
  PROVE  HopsOK(A \ {e}, s)
<1> SUFFICES ASSUME NEW f \in A \ {e}
             PROVE  /\ f.hop \in 1..Len(trail[s])
                    /\ f.hop < Len(trail[s]) => \E g \in A \ {e} : Moved(g) /\ f.id <= g.id
                    /\ \A h \in A \ {e} : f.id < h.id =>
                         /\ f.hop <= h.hop
                         /\ f.hop < h.hop =>
                              \E g \in A \ {e} : Moved(g) /\ f.id <= g.id /\ g.id < h.id
                    /\ f.location # NoLocation =>
                         \/ trail[s][f.hop] = f.location
                         \/ Moved(f) /\ AtOrAfter(s, f.hop, f.location)
  BY DEF HopsOK
<1>1. e.id < f.id /\ e.id \in Nat /\ f.id \in Nat
  BY EventTypes DEF Oldest
<1>2. \A g \in A : f.id <= g.id => g \in A \ {e}
  BY <1>1, EventTypes
<1>. QED  BY <1>2 DEF HopsOK

LEMMA ServesLess ==
  ASSUME NEW A \in SUBSET Events, NEW s, NEW e, ~Moved(e), NEW place, Serves(place, A, s)
  PROVE  Serves(place, A \ {e}, s)
BY DEF Serves

LEMMA CachedPlace ==
  ASSUME NEW A \in SUBSET Events, NEW s, NEW e, Oldest(e, A), NEW place, Serves(place, A, s)
  PROVE  AtOrAfter(s, e.hop, place)
<1>1. \A g \in A : e.id <= g.id
  BY EventTypes DEF Oldest
<1>. QED  BY <1>1 DEF Serves, Oldest

LEMMA OwnPlace ==
  ASSUME TypeOK, TrailOK, NEW A \in SUBSET Events, NEW s \in Sessions, HopsOK(A, s),
         NEW e, Oldest(e, A), e.location # NoLocation
  PROVE  /\ AtOrAfter(s, e.hop, e.location)
         /\ ~Moved(e) => Serves(e.location, A \ {e}, s)
<1>1. e \in A /\ e \in Events /\ e.hop \in 1..Len(trail[s]) /\ e.id \in Nat
  BY EventTypes DEF Oldest, HopsOK
<1>2. Len(trail[s]) \in Nat
  BY TrailTypes
<1>3. trail[s][e.hop] = e.location => AtOrAfter(s, e.hop, e.location)
  BY <1>1, <1>2 DEF AtOrAfter
<1>4. AtOrAfter(s, e.hop, e.location)
  BY <1>1, <1>3 DEF HopsOK
<1>5. ASSUME ~Moved(e), NEW f \in A \ {e}, \A g \in A \ {e} : Moved(g) => f.id <= g.id
      PROVE  AtOrAfter(s, f.hop, e.location)
  <2>1. e.id < f.id /\ f.id \in Nat
    BY EventTypes DEF Oldest
  <2>2. ~(e.hop < f.hop)
    <3>1. SUFFICES ASSUME e.hop < f.hop PROVE FALSE
      OBVIOUS
    <3>2. PICK g \in A : Moved(g) /\ e.id <= g.id /\ g.id < f.id
      BY <1>1, <2>1, <3>1 DEF HopsOK
    <3>. QED  BY <1>5, <3>2, <2>1, EventTypes
  <2>3. e.hop <= f.hop /\ f.hop \in Nat
    BY <1>1, <2>1, EventTypes DEF HopsOK
  <2>4. f.hop = e.hop
    BY <1>1, <2>2, <2>3
  <2>. QED  BY <1>4, <2>4
<1>6. ASSUME ~Moved(e), \A g \in A \ {e} : ~Moved(g)
      PROVE  e.location = Last(trail[s])
  <2>1. ~(e.hop < Len(trail[s]))
    BY <1>1, <1>6 DEF HopsOK
  <2>2. e.hop = Len(trail[s])
    BY <1>1, <1>2, <2>1
  <2>3. trail[s][e.hop] = e.location
    BY <1>1, <1>6 DEF HopsOK
  <2>. QED  BY <2>2, <2>3, TrailTypes
<1>. QED  BY <1>4, <1>5, <1>6 DEF Serves

LEMMA LastServes ==
  ASSUME TypeOK, TrailOK, NEW A \in SUBSET Events, NEW s \in Sessions, HopsOK(A, s)
  PROVE  /\ Serves(Last(trail[s]), A, s)
         /\ \A e \in A : AtOrAfter(s, e.hop, Last(trail[s]))
<1>1. \A f \in A : AtOrAfter(s, f.hop, Last(trail[s]))
  <2> TAKE f \in A
  <2>1. f.hop \in 1..Len(trail[s])
    BY DEF HopsOK
  <2>2. Len(trail[s]) \in 1..Len(trail[s]) /\ f.hop <= Len(trail[s])
    BY <2>1, TrailTypes
  <2>. QED  BY <2>2, TrailTypes DEF AtOrAfter
<1>. QED  BY <1>1 DEF Serves

-----------------------------------------------------------------------------
(* Steps of the queue: its jobs go on *)

\* In M the lanes hold the jobs of L, and heads may have gone on.
FurtherOn(L, M) ==
  \A l \in Lanes :
    /\ Len(M[l]) = Len(L[l])
    /\ \A n \in 1..Len(L[l]) :
         /\ M[l][n].event = L[l][n].event /\ M[l][n].recipients = L[l][n].recipients
         /\ l[2] # Router => M[l][n].location = L[l][n].location
         /\ L[l][n].stage = "done" => M[l][n].stage = "done"
    /\ \A n \in 2..Len(L[l]) : M[l][n].stage = L[l][n].stage

\* The heads are at a stage they may be at.
HeadsOK(M) == \A l \in Lanes : M[l] # <<>> => StageOK(l, M[l][1])

\* What the queue counts is the same in new.
SameSize(q, new) == new.count = q.count /\ new.closed = q.closed /\ new.late = q.late

LEMMA LaneTypes ==
  ASSUME NEW q \in Memory
  PROVE  /\ \A l \in Lanes : q.lanes[l] \in Seq(Jobs) /\ Len(q.lanes[l]) \in Nat
         /\ \A l \in Lanes : q.lanes[l] = <<>> <=> Len(q.lanes[l]) = 0
         /\ \A l \in Lanes : \A n \in 1..Len(q.lanes[l]) :
              q.lanes[l][n] \in Jobs /\ q.lanes[l][n].event \in Events
         /\ \A l \in Lanes : q.lanes[l] # <<>> =>
              /\ Len(q.lanes[l]) >= 1 /\ 1 \in 1..Len(q.lanes[l])
              /\ Head(q.lanes[l]) = q.lanes[l][1]
         /\ \A k \in Keys, i \in Instances \cup {Router} : <<k, i>> \in Lanes
<1>1. \A l \in Lanes : q.lanes[l] \in Seq(Jobs)
  BY DEF Memory
<1>2. \A l \in Lanes : \A n \in 1..Len(q.lanes[l]) : q.lanes[l][n] \in Jobs
  BY <1>1
<1>3. \A j \in Jobs : j.event \in Events
  BY DEF Jobs
<1>. QED  BY <1>1, <1>2, <1>3 DEF Lanes

LEMMA FurtherCount ==
  ASSUME NEW q \in Memory, NEW new \in Memory, FurtherOn(q.lanes, new.lanes),
         SameSize(q, new), CountOK(q)
  PROVE  CountOK(new)
<1>1. Slots(new) = Slots(q)
  BY DEF Slots, FurtherOn
<1>2. \A l \in Lanes : q.lanes[l] = <<>> => new.lanes[l] = <<>>
  BY LaneTypes DEF FurtherOn
<1>. QED  BY <1>1, <1>2 DEF CountOK, SameSize

LEMMA FurtherJobs ==
  ASSUME NEW q \in Memory, NEW new \in Memory, FurtherOn(q.lanes, new.lanes), NEW rec,
         JobsOK(q, rec), HeadsOK(new.lanes)
  PROVE  JobsOK(new, rec)
<1> SUFFICES ASSUME NEW l \in Lanes
             PROVE  /\ \A n \in 1..Len(new.lanes[l]) : JobOK(l, new.lanes[l][n], rec)
                    /\ \A n \in 2..Len(new.lanes[l]) : new.lanes[l][n].stage = "queued"
  BY DEF JobsOK
<1>1. Len(new.lanes[l]) = Len(q.lanes[l]) /\ Len(q.lanes[l]) \in Nat
  BY LaneTypes DEF FurtherOn
<1>0. \A n \in 2..Len(q.lanes[l]) :
        q.lanes[l][n].stage = "queued" /\ new.lanes[l][n].stage = q.lanes[l][n].stage
  <2>1. \A n \in 2..Len(q.lanes[l]) : q.lanes[l][n].stage = "queued"
    BY DEF JobsOK
  <2>2. \A n \in 2..Len(q.lanes[l]) : new.lanes[l][n].stage = q.lanes[l][n].stage
    BY DEF FurtherOn
  <2>. QED  BY <2>1, <2>2
<1>2. \A n \in 2..Len(new.lanes[l]) : new.lanes[l][n].stage = "queued"
  BY <1>0, <1>1
<1>3. ASSUME NEW n \in 1..Len(new.lanes[l]) PROVE JobOK(l, new.lanes[l][n], rec)
  <2>1. JobOK(l, q.lanes[l][n], rec)
    BY <1>1 DEF JobsOK
  <2>2. /\ new.lanes[l][n].event = q.lanes[l][n].event
        /\ new.lanes[l][n].recipients = q.lanes[l][n].recipients
    BY <1>1 DEF FurtherOn
  <2>3. StageOK(l, new.lanes[l][n])
    <3>1. CASE n = 1
      <4>1. new.lanes[l] # <<>>
        <5>1. new.lanes[l] = <<>> => Len(new.lanes[l]) = 0
          OBVIOUS
        <5>2. Len(new.lanes[l]) >= 1
          BY <1>1
        <5>. QED  BY <5>1, <5>2
      <4>. QED  BY <3>1, <4>1 DEF HeadsOK
    <3>2. CASE n # 1
      <4>1. n \in 2..Len(new.lanes[l])
        BY <1>1, <3>2
      <4>. QED  BY <1>2, <4>1 DEF StageOK
    <3>. QED  BY <3>1, <3>2
  <2>. QED  BY <2>1, <2>2, <2>3 DEF JobOK
<1>. QED  BY <1>2, <1>3

LEMMA FurtherRouted ==
  ASSUME NEW q \in Memory, NEW new \in Memory, FurtherOn(q.lanes, new.lanes), RoutedOK(q)
  PROVE  RoutedOK(new)
<1>1. \A s \in Sessions, i \in Instances : <<s, i>> \in Lanes /\ <<s, i>>[2] # Router
  BY TypeConstants
<1>2. \A s \in Sessions, i \in Instances : Len(q.lanes[<<s, i>>]) = Len(new.lanes[<<s, i>>])
  BY <1>1 DEF FurtherOn
<1>3. ASSUME NEW s \in Sessions, NEW i \in Instances, NEW n \in 1..Len(new.lanes[<<s, i>>])
      PROVE  /\ new.lanes[<<s, i>>][n].event = q.lanes[<<s, i>>][n].event
             /\ new.lanes[<<s, i>>][n].location = q.lanes[<<s, i>>][n].location
  BY <1>1, <1>2, SMTT(30) DEF FurtherOn
<1>. QED  BY <1>2, <1>3 DEF RoutedOK

LEMMA FurtherOrder ==
  ASSUME NEW q \in Memory, NEW new \in Memory, FurtherOn(q.lanes, new.lanes), NEW w, NEW now,
         OrderOK(q, w, now), new.published = q.published
  PROVE  OrderOK(new, w, now)
<1>1. \A l \in Lanes : Len(new.lanes[l]) = Len(q.lanes[l])
  BY DEF FurtherOn
<1>2. \A l \in Lanes : \A n \in 1..Len(q.lanes[l]) :
         /\ new.lanes[l][n].event = q.lanes[l][n].event
         /\ q.lanes[l][n].stage = "done" => new.lanes[l][n].stage = "done"
  BY DEF FurtherOn
<1>3. \A k \in Keys, i \in Instances : <<k, i>> \in Lanes /\ <<k, Router>> \in Lanes
  BY TypeConstants
<1>4. \A l \in Lanes : \A m, n \in 1..Len(new.lanes[l]) :
        m < n => new.lanes[l][m].event.id < new.lanes[l][n].event.id
  BY <1>1, <1>2 DEF OrderOK, LanesOrdered
<1>5. ASSUME NEW k \in Keys, NEW i \in Instances, NEW n \in 1..Len(new.lanes[<<k, Router>>])
      PROVE  /\ \A m \in 1..Len(new.lanes[<<k, i>>]) :
              AheadOf(new.lanes[<<k, i>>][m].event, new.lanes[<<k, Router>>][n], now)
             /\ \A f \in new.published[i] :
              f.key = k /\ new.lanes[<<k, Router>>][n].event.type # "connected" =>
                AheadOf(f, new.lanes[<<k, Router>>][n], now)
  <2>1. n \in 1..Len(q.lanes[<<k, Router>>]) /\ <<k, i>> \in Lanes /\ <<k, Router>> \in Lanes
    BY <1>1, <1>3
  <2>2. /\ new.lanes[<<k, Router>>][n].event = q.lanes[<<k, Router>>][n].event
        /\ q.lanes[<<k, Router>>][n].stage = "done" => new.lanes[<<k, Router>>][n].stage = "done"
    BY <1>2, <2>1
  <2>3. \A f : AheadOf(f, q.lanes[<<k, Router>>][n], now)
                 => AheadOf(f, new.lanes[<<k, Router>>][n], now)
    BY <2>2 DEF AheadOf
  <2>4. \A m \in 1..Len(new.lanes[<<k, i>>]) :
          /\ m \in 1..Len(q.lanes[<<k, i>>])
          /\ new.lanes[<<k, i>>][m].event = q.lanes[<<k, i>>][m].event
    BY <1>1, <1>2, <2>1
  <2>. QED  BY <2>1, <2>2, <2>3, <2>4 DEF OrderOK, RoutedAhead
<1>6. ASSUME NEW k \in Keys, NEW i \in Instances, NEW n \in 1..Len(new.lanes[<<k, i>>]),
             NEW f \in new.published[i],
             f.key = k, new.lanes[<<k, i>>][n].event.type # "connected"
      PROVE  \/ f.id < new.lanes[<<k, i>>][n].event.id
             \/ f = new.lanes[<<k, i>>][n].event /\ new.lanes[<<k, i>>][n].stage = "done"
  <2>1. n \in 1..Len(q.lanes[<<k, i>>]) /\ <<k, i>> \in Lanes
    BY <1>1, <1>3
  <2>2. /\ new.lanes[<<k, i>>][n].event = q.lanes[<<k, i>>][n].event
        /\ q.lanes[<<k, i>>][n].stage = "done" => new.lanes[<<k, i>>][n].stage = "done"
    BY <1>2, <2>1
  <2>. QED  BY <1>6, <2>1, <2>2 DEF OrderOK, PublishedAhead
<1>7. \A l \in Lanes : \A n \in 1..Len(new.lanes[l]) :
       /\ new.lanes[l][n].event.id <= sent
       /\ \A k \in 1..Len(w) : new.lanes[l][n].event.id < w[k].id
  BY <1>1, <1>2 DEF OrderOK, ReceivedAhead
<1>8. \A i \in Instances : \A f \in new.published[i] :
       /\ f.id <= sent
       /\ \A k \in 1..Len(w) : w[k].type # "connected" => f.id < w[k].id
  BY DEF OrderOK, ReceivedAhead
<1>. QED  BY <1>4, <1>5, <1>6, <1>7, <1>8, SMTT(40)
         DEF OrderOK, LanesOrdered, RoutedAhead, PublishedAhead, ReceivedAhead

\* No routing job is done in M that was not in L.
RoutersStay(L, M) ==
  \A k \in Keys : \A n \in 1..Len(L[<<k, Router>>]) :
    M[<<k, Router>>][n].stage = "done" => L[<<k, Router>>][n].stage = "done"

\* What was settled is, and what is done is settled.
MoreSettled(q, new) ==
  /\ \A i \in Instances :
       q.published[i] \subseteq new.published[i] /\ q.refused[i] \subseteq new.refused[i]
  /\ q.unplaced \subseteq new.unplaced
  /\ \A k \in Keys, i \in Listed : \A n \in 1..Len(q.lanes[<<k, i>>]) :
       new.lanes[<<k, i>>][n].stage = "done" =>
         \/ q.lanes[<<k, i>>][n].stage = "done"
         \/ Settled(new, i, q.lanes[<<k, i>>][n].event)

LEMMA FurtherAhead ==
  ASSUME NEW q \in Memory, NEW new \in Memory, FurtherOn(q.lanes, new.lanes),
         RoutersStay(q.lanes, new.lanes), NEW w, NEW s \in Sessions
  PROVE  Ahead(new, w, s) = Ahead(q, w, s)
<1>1. s \in Keys /\ <<s, Router>> \in Lanes
  BY TypeConstants
<1>2. /\ Len(new.lanes[<<s, Router>>]) = Len(q.lanes[<<s, Router>>])
      /\ \A n \in 1..Len(q.lanes[<<s, Router>>]) :
           /\ new.lanes[<<s, Router>>][n].event = q.lanes[<<s, Router>>][n].event
           /\ new.lanes[<<s, Router>>][n].stage = "done" <=>
                q.lanes[<<s, Router>>][n].stage = "done"
  BY <1>1 DEF FurtherOn, RoutersStay
<1>3. \A e \in Events : e.key = s => (Queued(new, e, Router) <=> Queued(q, e, Router))
  BY <1>2 DEF Queued
<1>. QED  BY <1>3 DEF Ahead

LEMMA FurtherPlaces ==
  ASSUME NEW q \in Memory, NEW new \in Memory, FurtherOn(q.lanes, new.lanes),
         RoutersStay(q.lanes, new.lanes), NEW w, NEW now, PlacesOK(q, w, now),
         new.closed = q.closed,
         ~q.closed => \A s \in Sessions :
           /\ PlaceOK(Ahead(q, w, s) \ now, s, new.placed[s])
           /\ new.lanes[<<s, Router>>] # <<>> =>
                AnswerOK(Ahead(q, w, s), s, new.placed[s], new.lanes[<<s, Router>>][1])
  PROVE  PlacesOK(new, w, now)
<1> SUFFICES ASSUME ~q.closed, NEW s \in Sessions
             PROVE  /\ HopsOK(Ahead(new, w, s) \ now, s)
                    /\ PlaceOK(Ahead(new, w, s) \ now, s, new.placed[s])
                    /\ new.lanes[<<s, Router>>] # <<>> =>
                         AnswerOK(Ahead(new, w, s), s, new.placed[s],
                                  new.lanes[<<s, Router>>][1])
  BY DEF PlacesOK
<1>1. Ahead(new, w, s) = Ahead(q, w, s)
  BY FurtherAhead
<1>. QED  BY <1>1 DEF PlacesOK

LEMMA FurtherKept ==
  ASSUME NEW q \in Memory, NEW new \in Memory, FurtherOn(q.lanes, new.lanes),
         RoutersStay(q.lanes, new.lanes), MoreSettled(q, new), new.closed = q.closed,
         NEW rec, JobsOK(q, rec), KeptOK(q, rec), rec \in [Instances -> SUBSET Events],
         Listed \subseteq Instances
  PROVE  KeptOK(new, rec)
<1> SUFFICES ASSUME ~q.closed, NEW i \in Listed, NEW e \in rec[i]
             PROVE  Settled(new, i, e) \/ Queued(new, e, Router) \/ Queued(new, e, i)
  BY DEF KeptOK
<1>1. i \in Instances /\ e.key \in Keys /\ <<e.key, Router>> \in Lanes /\ <<e.key, i>> \in Lanes
  BY EventTypes, TypeConstants
<1>2. CASE Settled(q, i, e)
  BY <1>1, <1>2 DEF Settled, MoreSettled
<1>3. CASE Queued(q, e, Router)
  <2>1. PICK n \in 1..Len(q.lanes[<<e.key, Router>>]) :
          /\ q.lanes[<<e.key, Router>>][n].event = e
          /\ q.lanes[<<e.key, Router>>][n].stage # "done"
    BY <1>3 DEF Queued
  <2>2. /\ n \in 1..Len(new.lanes[<<e.key, Router>>])
        /\ new.lanes[<<e.key, Router>>][n].event = e
    BY <1>1, <2>1 DEF FurtherOn
  <2>3. new.lanes[<<e.key, Router>>][n].stage # "done"
    BY <1>1, <2>1 DEF RoutersStay
  <2>. QED  BY <2>2, <2>3 DEF Queued
<1>4. CASE Queued(q, e, i)
  <2>1. PICK n \in 1..Len(q.lanes[<<e.key, i>>]) :
          /\ q.lanes[<<e.key, i>>][n].event = e
          /\ q.lanes[<<e.key, i>>][n].stage # "done"
    BY <1>4 DEF Queued
  <2>2. /\ n \in 1..Len(new.lanes[<<e.key, i>>])
        /\ new.lanes[<<e.key, i>>][n].event = e
    BY <1>1, <2>1 DEF FurtherOn
  <2>3. new.lanes[<<e.key, i>>][n].stage = "done" => Settled(new, i, e)
    BY <1>1, <2>1 DEF MoreSettled
  <2>. QED  BY <2>2, <2>3 DEF Queued
<1>5. Settled(q, i, e) \/ Queued(q, e, Router) \/ Queued(q, e, i)
  BY DEF KeptOK
<1>. QED  BY <1>2, <1>3, <1>4, <1>5

\* The jobs go on and nothing is published.
LEMMA FurtherGood ==
  ASSUME NEW q, NEW new \in Memory, NEW rec, NEW ws, NEW ws2, NEW w, NEW now,
         Good(q, rec, ws, w, now), FurtherOn(q.lanes, new.lanes), HeadsOK(new.lanes),
         RoutersStay(q.lanes, new.lanes), SameSize(q, new), MoreSettled(q, new),
         new.published = q.published, OwnersOK(new, ws2),
         ~q.closed => \A s \in Sessions :
           /\ PlaceOK(Ahead(q, w, s) \ now, s, new.placed[s])
           /\ new.lanes[<<s, Router>>] # <<>> =>
                AnswerOK(Ahead(q, w, s), s, new.placed[s], new.lanes[<<s, Router>>][1]),
         rec \in [Instances -> SUBSET Events], Listed \subseteq Instances
  PROVE  Good(new, rec, ws2, w, now)
<1>1. /\ q \in Memory
      /\ CountOK(q) /\ LateOK(q) /\ JobsOK(q, rec) /\ OrderOK(q, w, now)
      /\ KeptOK(q, rec) /\ RoutedOK(q) /\ PlacesOK(q, w, now)
  BY DEF Good
<1>2. new.closed = q.closed /\ new.late = q.late
  BY DEF SameSize
<1>3. CountOK(new) /\ LateOK(new)
  BY <1>1, <1>2, FurtherCount DEF LateOK
<1>4. JobsOK(new, rec) /\ RoutedOK(new)
  BY <1>1, FurtherJobs, FurtherRouted
<1>5. OrderOK(new, w, now)
  BY <1>1, FurtherOrder
<1>6. KeptOK(new, rec)
  BY <1>1, <1>2, FurtherKept
<1>7. PlacesOK(new, w, now)
  BY <1>1, <1>2, FurtherPlaces
<1>. QED  BY <1>3, <1>4, <1>5, <1>6, <1>7 DEF Good

\* The head of lane goes on to be job.
LEMMA HeadFurther ==
  ASSUME NEW L \in [Lanes -> Seq(Jobs)], NEW lane \in Lanes, L[lane] # <<>>, NEW M, NEW job,
         HeadIs(L, M, lane, job), job.event = L[lane][1].event,
         job.recipients = L[lane][1].recipients,
         lane[2] # Router => job.location = L[lane][1].location,
         L[lane][1].stage = "done" => job.stage = "done"
  PROVE  /\ FurtherOn(L, M)
         /\ HeadsOK(L) /\ StageOK(lane, job) => HeadsOK(M)
         /\ lane[2] # Router \/ job.stage # "done" => RoutersStay(L, M)
<1>1. /\ Len(M[lane]) = Len(L[lane]) /\ Len(L[lane]) >= 1 /\ M[lane][1] = job
      /\ Len(L[lane]) \in Nat
      /\ \A n \in 2..Len(L[lane]) : M[lane][n] = L[lane][n]
      /\ \A l \in Lanes : l # lane => M[l] = L[l]
  BY DEF HeadIs
<1>2. \A n \in 1..Len(L[lane]) : n = 1 \/ n \in 2..Len(L[lane])
  BY <1>1
<1>3. FurtherOn(L, M)
  <2> SUFFICES ASSUME NEW l \in Lanes
               PROVE  /\ Len(M[l]) = Len(L[l])
                      /\ \A n \in 1..Len(L[l]) :
                           /\ M[l][n].event = L[l][n].event
                           /\ M[l][n].recipients = L[l][n].recipients
                           /\ l[2] # Router => M[l][n].location = L[l][n].location
                           /\ L[l][n].stage = "done" => M[l][n].stage = "done"
                      /\ \A n \in 2..Len(L[l]) : M[l][n].stage = L[l][n].stage
    BY DEF FurtherOn
  <2>1. CASE l # lane
    BY <1>1, <2>1
  <2>2. CASE l = lane
    <3>1. ASSUME NEW n \in 1..Len(L[lane])
          PROVE  /\ M[lane][n].event = L[lane][n].event
                 /\ M[lane][n].recipients = L[lane][n].recipients
                 /\ lane[2] # Router => M[lane][n].location = L[lane][n].location
                 /\ L[lane][n].stage = "done" => M[lane][n].stage = "done"
      BY <1>1, <1>2
    <3>. QED  BY <1>1, <2>2, <3>1
  <2>. QED  BY <2>1, <2>2
<1>4. HeadsOK(L) /\ StageOK(lane, job) => HeadsOK(M)
  BY <1>1 DEF HeadsOK
<1>5. ASSUME lane[2] # Router \/ job.stage # "done"
      PROVE  RoutersStay(L, M)
  <2> SUFFICES ASSUME NEW k \in Keys, NEW n \in 1..Len(L[<<k, Router>>]),
                      M[<<k, Router>>][n].stage = "done"
               PROVE  L[<<k, Router>>][n].stage = "done"
    BY DEF RoutersStay
  <2>1. <<k, Router>> \in Lanes
    BY TypeConstants
  <2>2. CASE <<k, Router>> # lane
    BY <1>1, <2>1, <2>2
  <2>3. CASE <<k, Router>> = lane
    BY <1>1, <1>2, <1>5, <2>3
  <2>. QED  BY <2>2, <2>3
<1>. QED  BY <1>3, <1>4, <1>5

LEMMA HeadsOfJobs ==
  ASSUME NEW q \in Memory, NEW rec, JobsOK(q, rec)
  PROVE  HeadsOK(q.lanes)
<1> SUFFICES ASSUME NEW l \in Lanes, q.lanes[l] # <<>> PROVE StageOK(l, q.lanes[l][1])
  BY DEF HeadsOK
<1>1. 1 \in 1..Len(q.lanes[l])
  BY LaneTypes
<1>. QED  BY <1>1 DEF JobsOK, JobOK

\* The event of a head that is done may have been published.
LEMMA PublishOrder ==
  ASSUME NEW q \in Memory, NEW new \in Memory, NEW w, NEW now, OrderOK(q, w, now),
         new.lanes = q.lanes, NEW k \in Keys, NEW i \in Instances, q.lanes[<<k, i>>] # <<>>,
         q.lanes[<<k, i>>][1].stage = "done", q.lanes[<<k, i>>][1].event.key = k,
         \A j \in Instances : \A f \in new.published[j] :
           f \in q.published[j] \/ (j = i /\ f = q.lanes[<<k, i>>][1].event)
  PROVE  OrderOK(new, w, now)
<1> DEFINE e == q.lanes[<<k, i>>][1].event
<1>0. <<k, i>> \in Lanes /\ <<k, Router>> \in Lanes
  BY TypeConstants
<1>1. 1 \in 1..Len(q.lanes[<<k, i>>]) /\ Len(q.lanes[<<k, i>>]) \in Nat
  BY <1>0, LaneTypes
<1>2. \A n \in 1..Len(q.lanes[<<k, Router>>]) : AheadOf(e, q.lanes[<<k, Router>>][n], now)
  BY <1>1 DEF OrderOK, RoutedAhead
<1>3. \A n \in 1..Len(q.lanes[<<k, i>>]) :
        \/ e.id < q.lanes[<<k, i>>][n].event.id
        \/ e = q.lanes[<<k, i>>][n].event /\ q.lanes[<<k, i>>][n].stage = "done"
  <2> TAKE n \in 1..Len(q.lanes[<<k, i>>])
  <2>1. n = 1 \/ 1 < n
    BY <1>1
  <2>. QED  BY <1>0, <1>1, <2>1 DEF OrderOK, LanesOrdered
<1>4. e.id <= sent /\ \A n \in 1..Len(w) : e.id < w[n].id
  BY <1>0, <1>1 DEF OrderOK, ReceivedAhead
<1>5. ASSUME NEW j \in Instances, NEW f \in new.published[j]
      PROVE  \/ f \in q.published[j]
             \/ j = i /\ f = e /\ f.key = k
  OBVIOUS
<1> HIDE DEF e
<1>6. ASSUME NEW h \in Keys, NEW j \in Instances, NEW n \in 1..Len(q.lanes[<<h, Router>>]),
             NEW f \in new.published[j],
             f.key = h /\ q.lanes[<<h, Router>>][n].event.type # "connected"
      PROVE  AheadOf(f, q.lanes[<<h, Router>>][n], now)
  BY <1>2, <1>5, <1>6 DEF OrderOK, RoutedAhead
<1>7. ASSUME NEW h \in Keys, NEW j \in Instances, NEW n \in 1..Len(q.lanes[<<h, j>>]),
             NEW f \in new.published[j],
             f.key = h /\ q.lanes[<<h, j>>][n].event.type # "connected"
      PROVE  \/ f.id < q.lanes[<<h, j>>][n].event.id
             \/ f = q.lanes[<<h, j>>][n].event /\ q.lanes[<<h, j>>][n].stage = "done"
  BY <1>3, <1>5, <1>7 DEF OrderOK, PublishedAhead
<1>8. ASSUME NEW j \in Instances, NEW f \in new.published[j]
      PROVE  /\ f.id <= sent
             /\ \A n \in 1..Len(w) : w[n].type # "connected" => f.id < w[n].id
  BY <1>4, <1>5 DEF OrderOK, ReceivedAhead
<1>9. LanesOrdered(q) /\ RoutedAhead(q, now) /\ ReceivedAhead(q, w)
  BY Zenon DEF OrderOK
<1>10. LanesOrdered(new)
  BY <1>9, Zenon DEF LanesOrdered
<1>11. RoutedAhead(new, now)
  BY <1>6, <1>9, Zenon DEF RoutedAhead
<1>12. PublishedAhead(new)
  BY <1>7, SMTT(30) DEF PublishedAhead
<1>13. ReceivedAhead(new, w)
  BY <1>8, <1>9, Zenon DEF ReceivedAhead
<1>. QED  BY <1>10, <1>11, <1>12, <1>13, Zenon DEF OrderOK

Ended(job) == [job EXCEPT !.stage = "done"]

LEMMA EndedFields ==
  ASSUME NEW job \in Jobs
  PROVE  /\ Ended(job) \in Jobs /\ Ended(job).stage = "done" /\ Ended(job).event = job.event
         /\ Ended(job).recipients = job.recipients /\ Ended(job).location = job.location
         /\ Ended(job).fresh = job.fresh
BY DEF Ended, Jobs

\* A delivering head is done; its event was published, refused or concerns nobody.
LEMMA FinishGood ==
  ASSUME NEW q, NEW new \in Memory, NEW rec, NEW ws, NEW w, NEW now,
         Good(q, rec, ws, w, now), NEW k \in Keys, NEW i \in Instances,
         q.lanes[<<k, i>>] # <<>>, SameSize(q, new),
         HeadIs(q.lanes, new.lanes, <<k, i>>, Ended(q.lanes[<<k, i>>][1])),
         new.placed = q.placed, new.owners = q.owners, q.unplaced \subseteq new.unplaced,
         \A j \in Instances :
           /\ q.published[j] \subseteq new.published[j] /\ q.refused[j] \subseteq new.refused[j]
           /\ \A f \in new.published[j] :
                f \in q.published[j] \/ (j = i /\ f = q.lanes[<<k, i>>][1].event),
         i \in Listed => Settled(new, i, q.lanes[<<k, i>>][1].event),
         rec \in [Instances -> SUBSET Events], Listed \subseteq Instances
  PROVE  Good(new, rec, ws, w, now)
<1> DEFINE lane == <<k, i>>
           job == q.lanes[lane][1]
           mid == [new EXCEPT !.published = q.published]
<1>1. /\ q \in Memory
      /\ CountOK(q) /\ LateOK(q) /\ JobsOK(q, rec) /\ OrderOK(q, w, now)
      /\ KeptOK(q, rec) /\ RoutedOK(q) /\ PlacesOK(q, w, now) /\ OwnersOK(q, ws)
  BY DEF Good
<1>2. lane \in Lanes /\ lane[2] # Router /\ lane[1] = k
  BY TypeConstants
<1>3. /\ q.lanes \in [Lanes -> Seq(Jobs)] /\ q.published \in [Instances -> SUBSET Events]
      /\ Len(q.lanes[lane]) \in Nat /\ 1 \in 1..Len(q.lanes[lane])
      /\ job \in Jobs /\ job.event.key = k
  <2>1. 1 \in 1..Len(q.lanes[lane]) /\ Len(q.lanes[lane]) \in Nat /\ job \in Jobs
    BY <1>1, <1>2, LaneTypes
  <2>2. JobOK(lane, job, rec)
    BY <1>1, <1>2, <2>1 DEF JobsOK
  <2>. QED  BY <1>1, <1>2, <2>1, <2>2 DEF Memory, JobOK
<1>4. mid \in Memory /\ mid.lanes = new.lanes /\ mid.published = q.published
  BY <1>3 DEF Memory
<1>5. /\ FurtherOn(q.lanes, new.lanes) /\ HeadsOK(new.lanes) /\ RoutersStay(q.lanes, new.lanes)
  <2>1. StageOK(lane, Ended(job))
    BY <1>2, <1>3, EndedFields DEF StageOK
  <2>2. HeadsOK(q.lanes)
    BY <1>1, HeadsOfJobs
  <2>. HIDE DEF lane, job, mid
  <2>. QED  BY <1>2, <1>3, <2>1, <2>2, HeadFurther, EndedFields DEF lane, job
<1>6. new.lanes[lane][1] = Ended(job) /\ Len(new.lanes[lane]) = Len(q.lanes[lane])
  BY DEF HeadIs
<1>7. OrderOK(new, w, now)
  <2>1. OrderOK(mid, w, now)
    <3>. HIDE DEF mid
    <3>. QED  BY <1>1, <1>4, <1>5, FurtherOrder
  <2>2. mid.lanes[<<k, i>>] # <<>>
    BY <1>2, <1>3, <1>4, <1>6
  <2>3. /\ mid.lanes[<<k, i>>][1].stage = "done" /\ mid.lanes[<<k, i>>][1].event = job.event
        /\ mid.lanes[<<k, i>>][1].event.key = k
    BY <1>3, <1>4, <1>6, EndedFields
  <2>4. \A j \in Instances : \A f \in new.published[j] :
           f \in mid.published[j] \/ (j = i /\ f = mid.lanes[<<k, i>>][1].event)
    BY <1>4, <2>3
  <2>. HIDE DEF mid, job, lane
  <2>. QED  BY <1>4, <2>1, <2>2, <2>3, <2>4, PublishOrder
<1>8. MoreSettled(q, new)
  <2>1. ASSUME NEW h \in Keys, NEW j \in Listed, NEW n \in 1..Len(q.lanes[<<h, j>>]),
               new.lanes[<<h, j>>][n].stage = "done"
        PROVE  \/ q.lanes[<<h, j>>][n].stage = "done"
               \/ Settled(new, j, q.lanes[<<h, j>>][n].event)
    <3>1. <<h, j>> \in Lanes
      BY TypeConstants
    <3>2. CASE <<h, j>> # lane
      BY <2>1, <3>1, <3>2 DEF HeadIs
    <3>3. CASE <<h, j>> = lane
      <4>1. CASE n = 1
        BY <3>3, <4>1
      <4>2. CASE n # 1
        <5>1. n \in 2..Len(q.lanes[lane])
          BY <1>3, <3>3, <4>2
        <5>. QED  BY <2>1, <3>3, <5>1 DEF HeadIs
      <4>. QED  BY <4>1, <4>2
    <3>. QED  BY <3>2, <3>3
  <2>. QED  BY <2>1 DEF MoreSettled
<1>9. new.closed = q.closed /\ new.late = q.late
  BY DEF SameSize
<1>10. KeptOK(new, rec)
  BY <1>1, <1>5, <1>8, <1>9, FurtherKept
<1>11. PlacesOK(new, w, now)
  <2>1. \A s \in Sessions : new.lanes[<<s, Router>>] = q.lanes[<<s, Router>>]
    BY <1>2, TypeConstants DEF HeadIs
  <2>. HIDE DEF lane, job, mid
  <2>2. ~q.closed => \A s \in Sessions :
           /\ PlaceOK(Ahead(q, w, s) \ now, s, new.placed[s])
           /\ new.lanes[<<s, Router>>] # <<>> =>
                AnswerOK(Ahead(q, w, s), s, new.placed[s], new.lanes[<<s, Router>>][1])
    BY <1>1, <2>1 DEF PlacesOK
  <2>. QED  BY <1>1, <1>5, <1>9, <2>2, FurtherPlaces
<1>12. OwnersOK(new, ws)
  <2>1. ASSUME NEW h \in Keys, NEW j \in Instances, NEW n \in 1..Len(new.lanes[<<h, j>>]),
               new.lanes[<<h, j>>][n].stage = "yes", new.lanes[<<h, j>>][n].fresh
        PROVE  new.lanes[<<h, j>>][n].location \in ws[j]
    <3>1. <<h, j>> \in Lanes
      BY TypeConstants
    <3>2. CASE <<h, j>> # lane
      BY <1>1, <2>1, <3>1, <3>2 DEF HeadIs, OwnersOK
    <3>3. CASE <<h, j>> = lane
      <4>0. Ended(job).stage = "done"
        BY <1>3, EndedFields
      <4>1. n # 1
        BY <1>6, <2>1, <3>3, <4>0
      <4>2. n \in 2..Len(q.lanes[lane])
        BY <1>3, <1>6, <3>3, <4>1
      <4>3. new.lanes[lane][n] = q.lanes[lane][n] /\ n \in 1..Len(q.lanes[lane])
        <5>1. new.lanes[lane][n] = q.lanes[lane][n]
          BY <4>2 DEF HeadIs
        <5>2. n \in 1..Len(q.lanes[lane])
          BY <1>3, <4>2
        <5>. QED  BY <5>1, <5>2
      <4>. QED  BY <1>1, <2>1, <3>3, <4>3 DEF OwnersOK
    <3>. QED  BY <3>2, <3>3
  <2>. QED  BY <1>1, <2>1 DEF OwnersOK
<1>13. CountOK(new) /\ LateOK(new)
  BY <1>1, <1>5, <1>9, FurtherCount DEF LateOK
<1>14. JobsOK(new, rec) /\ RoutedOK(new)
  BY <1>1, <1>5, FurtherJobs, FurtherRouted
<1>. QED  BY <1>7, <1>10, <1>11, <1>12, <1>13, <1>14 DEF Good

\* A routing head is done: its event was handed to everybody who should hear of it.
LEMMA RouteDoneGood ==
  ASSUME NEW q, NEW new \in Memory, NEW rec, NEW ws, NEW w, NEW k \in Keys, NEW e,
         Good(q, rec, ws, w, {e}), ~q.closed,
         q.lanes[<<k, Router>>] # <<>>, e = q.lanes[<<k, Router>>][1].event,
         SameSize(q, new),
         HeadIs(q.lanes, new.lanes, <<k, Router>>, Ended(q.lanes[<<k, Router>>][1])),
         new.placed = q.placed, new.owners = q.owners, q.unplaced \subseteq new.unplaced,
         new.published = q.published, new.refused = q.refused,
         \A i \in Listed : e \in rec[i] => Settled(new, i, e) \/ Queued(q, e, i),
         rec \in [Instances -> SUBSET Events], Listed \subseteq Instances
  PROVE  Good(new, rec, ws, w, {})
<1> DEFINE lane == <<k, Router>>
           job == q.lanes[lane][1]
<1>1. /\ q \in Memory
      /\ CountOK(q) /\ LateOK(q) /\ JobsOK(q, rec) /\ OrderOK(q, w, {e})
      /\ KeptOK(q, rec) /\ RoutedOK(q) /\ PlacesOK(q, w, {e}) /\ OwnersOK(q, ws)
  BY DEF Good
<1>2. lane \in Lanes /\ lane[2] = Router /\ lane[1] = k
  BY TypeConstants
<1>3. /\ q.lanes \in [Lanes -> Seq(Jobs)]
      /\ Len(q.lanes[lane]) \in Nat /\ 1 \in 1..Len(q.lanes[lane])
      /\ job \in Jobs /\ job.event.key = k /\ e \in Events
  <2>1. 1 \in 1..Len(q.lanes[lane]) /\ Len(q.lanes[lane]) \in Nat /\ job \in Jobs
        /\ job.event \in Events
    BY <1>1, <1>2, LaneTypes
  <2>2. JobOK(lane, job, rec)
    BY <1>1, <1>2, <2>1 DEF JobsOK
  <2>. QED  BY <1>1, <1>2, <2>1, <2>2 DEF Memory, JobOK
<1>4. new.closed = q.closed /\ new.late = q.late
  BY DEF SameSize
<1>5. FurtherOn(q.lanes, new.lanes) /\ HeadsOK(new.lanes)
  <2>1. StageOK(lane, Ended(job))
    BY <1>2, <1>3, EndedFields DEF StageOK
  <2>2. HeadsOK(q.lanes)
    BY <1>1, HeadsOfJobs
  <2>. HIDE DEF lane, job
  <2>. QED  BY <1>2, <1>3, <2>1, <2>2, HeadFurther, EndedFields, ZenonT(40) DEF lane, job
<1>6. /\ Len(new.lanes[lane]) = Len(q.lanes[lane])
      /\ new.lanes[lane][1].stage = "done" /\ new.lanes[lane][1].event = e
      /\ \A n \in 2..Len(q.lanes[lane]) : new.lanes[lane][n] = q.lanes[lane][n]
      /\ \A l \in Lanes : l # lane => new.lanes[l] = q.lanes[l]
  <2>1. Ended(job).stage = "done" /\ Ended(job).event = e
    BY <1>3, EndedFields
  <2>2. new.lanes[lane][1] = Ended(job)
    BY DEF HeadIs
  <2>. QED  BY <2>1, <2>2 DEF HeadIs
<1>7. CountOK(new) /\ LateOK(new)
  BY <1>1, <1>5, <1>4, FurtherCount DEF LateOK
<1>8. JobsOK(new, rec) /\ RoutedOK(new)
  BY <1>1, <1>5, FurtherJobs, FurtherRouted
\* Only the head has the event e.
<1>9. ASSUME NEW h \in Keys, NEW n \in 1..Len(q.lanes[<<h, Router>>]),
             q.lanes[<<h, Router>>][n].event = e
      PROVE  h = k /\ n = 1
  <2>1. <<h, Router>> \in Lanes
    BY TypeConstants
  <2>2. JobOK(<<h, Router>>, q.lanes[<<h, Router>>][n], rec)
    BY <1>1, <2>1 DEF JobsOK
  <2>3. h = k
    BY <1>3, <1>9, <2>2 DEF JobOK
  <2>4. n # 1 => 1 < n
    BY <1>3, SMTT(40)
  <2>5. 1 < n => e.id < e.id
    <3> SUFFICES ASSUME 1 < n PROVE e.id < e.id
      OBVIOUS
    <3>1. n \in 1..Len(q.lanes[lane]) /\ q.lanes[lane][n].event = e
      BY <1>9, <2>3
    <3>2. \A m, j \in 1..Len(q.lanes[lane]) :
            m < j => q.lanes[lane][m].event.id < q.lanes[lane][j].event.id
      BY <1>1, <1>2, Zenon DEF OrderOK, LanesOrdered
    <3>3. q.lanes[lane][1].event.id < q.lanes[lane][n].event.id
      BY <1>3, <3>1, <3>2, Zenon
    <3>. QED  BY <3>1, <3>3, Zenon
  <2>. QED  BY <1>3, <2>3, <2>4, <2>5, EventTypes
<1>10. OrderOK(new, w, {})
  <2>1. OrderOK(new, w, {e})
    BY <1>1, <1>5, FurtherOrder
  <2>2. ASSUME NEW h \in Keys, NEW n \in 1..Len(new.lanes[<<h, Router>>]), NEW f,
               AheadOf(f, new.lanes[<<h, Router>>][n], {e})
        PROVE  AheadOf(f, new.lanes[<<h, Router>>][n], {})
    <3>1. CASE new.lanes[<<h, Router>>][n].event = e
      <4>1. <<h, Router>> \in Lanes
        BY TypeConstants
      <4>2. n \in 1..Len(q.lanes[<<h, Router>>]) /\ q.lanes[<<h, Router>>][n].event = e
        BY <1>5, <3>1, <4>1 DEF FurtherOn
      <4>3. h = k /\ n = 1
        BY <1>9, <4>2, SMTT(30)
      <4>. QED  BY <1>6, <2>2, <4>3 DEF AheadOf
    <3>2. CASE new.lanes[<<h, Router>>][n].event # e
      BY <2>2, <3>2 DEF AheadOf
    <3>. QED  BY <3>1, <3>2, SMTT(30)
  <2>. HIDE DEF lane, job
  <2>. QED  BY <2>1, <2>2 DEF OrderOK, RoutedAhead
<1>11. \A f \in Events : f # e => (Queued(new, f, Router) <=> Queued(q, f, Router))
  <2>. SUFFICES ASSUME NEW f \in Events
                PROVE  f # e => (Queued(new, f, Router) <=> Queued(q, f, Router))
    OBVIOUS
  <2>1. CASE f.key # k
    <3>1. <<f.key, Router>> \in Lanes /\ <<f.key, Router>> # lane
      BY <2>1, EventTypes, TypeConstants
    <3>2. new.lanes[<<f.key, Router>>] = q.lanes[<<f.key, Router>>]
      BY <1>6, <3>1
    <3>. QED  BY <3>2, ZenonT(40) DEF Queued
  <2>2. ASSUME f.key = k, f # e, NEW n \in 1..Len(q.lanes[lane])
        PROVE  q.lanes[lane][n].event = f \/ new.lanes[lane][n].event = f =>
                 q.lanes[lane][n] = new.lanes[lane][n]
    <3>1. n = 1 \/ n \in 2..Len(q.lanes[lane])
      BY <1>3
    <3>. QED  BY <1>6, <2>2, <3>1
  <2>3. CASE f.key = k /\ f # e
    <3>1. \A n \in 1..Len(q.lanes[lane]) :
            (q.lanes[lane][n].event = f /\ q.lanes[lane][n].stage # "done")
            <=> (new.lanes[lane][n].event = f /\ new.lanes[lane][n].stage # "done")
      BY <2>2, <2>3
    <3>2. (\E n \in 1..Len(q.lanes[lane]) :
             q.lanes[lane][n].event = f /\ q.lanes[lane][n].stage # "done")
          <=> (\E n \in 1..Len(new.lanes[lane]) :
                 new.lanes[lane][n].event = f /\ new.lanes[lane][n].stage # "done")
      BY <1>6, <3>1
    <3>. QED  BY <2>3, <3>2, ZenonT(40) DEF Queued
  <2>. QED  BY <2>1, <2>3
<1>12. ~Queued(new, e, Router)
  <2> SUFFICES ASSUME Queued(new, e, Router) PROVE FALSE
    OBVIOUS
  <2>1. PICK n \in 1..Len(new.lanes[lane]) :
          new.lanes[lane][n].event = e /\ new.lanes[lane][n].stage # "done"
    BY <1>3 DEF Queued
  <2>2. n # 1 /\ n \in 1..Len(q.lanes[lane]) /\ n \in 2..Len(q.lanes[lane])
    BY <1>3, <1>6, <2>1
  <2>3. q.lanes[lane][n].event = e
    BY <1>6, <2>1, <2>2
  <2>. QED  BY <1>9, <2>2, <2>3
<1>13. \A n \in 1..Len(w) : w[n] # e
  <2>1. \A l \in Lanes : \A n \in 1..Len(q.lanes[l]) : \A m \in 1..Len(w) :
          q.lanes[l][n].event.id < w[m].id
    BY <1>1 DEF OrderOK, ReceivedAhead
  <2>2. lane \in Lanes /\ 1 \in 1..Len(q.lanes[lane])
    BY <1>2, <1>3
  <2>3. \A m \in 1..Len(w) : q.lanes[lane][1].event.id < w[m].id
    BY <2>1, <2>2
  <2>4. \A n \in 1..Len(w) : e.id < w[n].id
    BY <2>3
  <2>5. e.id \in Nat
    BY <1>3, EventTypes
  <2>6. ~(e.id < e.id)
    BY <2>5
  <2>. QED  BY <2>4, <2>6, SMTT(40)
<1>14. \A s \in Sessions : Ahead(new, w, s) = Ahead(q, w, s) \ {e}
  BY <1>11, <1>12, <1>13 DEF Ahead
<1>15. PlacesOK(new, w, {})
  <2> SUFFICES ASSUME NEW s \in Sessions
               PROVE  /\ HopsOK(Ahead(new, w, s) \ {}, s)
                      /\ PlaceOK(Ahead(new, w, s) \ {}, s, new.placed[s])
                      /\ new.lanes[<<s, Router>>] # <<>> =>
                           AnswerOK(Ahead(new, w, s), s, new.placed[s],
                                    new.lanes[<<s, Router>>][1])
    BY DEF PlacesOK
  <2>1. Ahead(new, w, s) \ {} = Ahead(q, w, s) \ {e}
    BY <1>14
  <2>2. s = k => AnswerOK(Ahead(new, w, s), s, new.placed[s], new.lanes[<<s, Router>>][1])
    BY <1>6 DEF AnswerOK
  <2>3. ASSUME s # k, new.lanes[<<s, Router>>] # <<>>
        PROVE  AnswerOK(Ahead(new, w, s), s, new.placed[s], new.lanes[<<s, Router>>][1])
    <3>1. <<s, Router>> \in Lanes /\ <<s, Router>> # lane
      BY <2>3, TypeConstants
    <3>2. e \notin Ahead(q, w, s)
      BY <1>3, <2>3 DEF Ahead
    <3>3. Ahead(new, w, s) = Ahead(q, w, s)
      BY <1>14, <3>2
    <3>4. new.lanes[<<s, Router>>] = q.lanes[<<s, Router>>]
      BY <1>6, <3>1
    <3>. QED  BY <1>1, <2>3, <3>3, <3>4 DEF PlacesOK
  <2>. QED  BY <1>1, <2>1, <2>2, <2>3 DEF PlacesOK
<1>16. KeptOK(new, rec)
  <2> SUFFICES ASSUME NEW i \in Listed, NEW f \in rec[i]
               PROVE  Settled(new, i, f) \/ Queued(new, f, Router) \/ Queued(new, f, i)
    BY DEF KeptOK
  <2>1. f \in Events /\ f.key \in Keys /\ <<f.key, i>> \in Lanes /\ <<f.key, i>> # lane
    BY EventTypes, TypeConstants, SMTT(40)
  <2>2. Queued(q, f, i) => Queued(new, f, i)
    BY <1>6, <2>1, ZenonT(40) DEF Queued
  <2>3. Settled(q, i, f) => Settled(new, i, f)
    BY DEF Settled
  <2>4. f # e => Settled(q, i, f) \/ Queued(q, f, Router) \/ Queued(q, f, i)
    BY <1>1 DEF KeptOK
  <2>. QED  BY <1>11, <2>1, <2>2, <2>3, <2>4
<1>17. OwnersOK(new, ws)
  <2>1. \A h \in Keys, j \in Instances : new.lanes[<<h, j>>] = q.lanes[<<h, j>>]
    BY <1>2, <1>6, TypeConstants
  <2>. QED  BY <1>1, <2>1 DEF OwnersOK
<1>. QED  BY <1>7, <1>8, <1>10, <1>15, <1>16, <1>17 DEF Good

-----------------------------------------------------------------------------
(* Steps of the queue: a job more, a job less *)

LEMMA CountLonger ==
  ASSUME NEW q \in Memory, NEW new \in Memory, NEW lane \in Lanes, NEW job,
         LongerBy(q.lanes, new.lanes, lane, job), CountOK(q), new.count = q.count + 1,
         ~new.closed
  PROVE  CountOK(new)
<1> DEFINE x == <<lane, Len(q.lanes[lane]) + 1>>
<1>1. \A l \in Lanes : Len(q.lanes[l]) \in Nat
  BY LaneTypes
<1>2. x \notin Slots(q)
  BY <1>1 DEF Slots
<1>3. Slots(new) = Slots(q) \cup {x}
  <2>1. \A l \in Lanes : l # lane => new.lanes[l] = q.lanes[l]
    BY DEF LongerBy
  <2>2. Len(new.lanes[lane]) = Len(q.lanes[lane]) + 1
    BY DEF LongerBy
  <2>3. ASSUME NEW l \in Lanes, NEW n \in Nat
        PROVE  n \in 1..Len(new.lanes[l]) <=> n \in 1..Len(q.lanes[l]) \/ <<l, n>> = x
    BY <1>1, <2>1, <2>2
  <2>4. \A y \in Lanes \X Nat : y \in Slots(new) <=> y \in Slots(q) \/ y = x
    BY <2>3 DEF Slots
  <2>5. x \in Lanes \X Nat /\ Slots(q) \subseteq Lanes \X Nat /\ Slots(new) \subseteq Lanes \X Nat
    BY <1>1 DEF Slots
  <2>. QED  BY <2>4, <2>5
<1> HIDE DEF x
<1>4. IsFiniteSet(Slots(q)) /\ q.count = Cardinality(Slots(q))
  BY DEF CountOK
<1>5. IsFiniteSet(Slots(q) \cup {x}) /\ Cardinality(Slots(q) \cup {x}) = Cardinality(Slots(q)) + 1
  BY <1>2, <1>4, FS_AddElement
<1>. QED  BY <1>3, <1>4, <1>5 DEF CountOK

LEMMA CountShorter ==
  ASSUME NEW q \in Memory, NEW M, NEW lane \in Lanes, ShorterBy(q.lanes, M, lane), CountOK(q)
  PROVE  /\ q.count >= 1
         /\ \A new \in Memory :
              new.lanes = M /\ new.count = q.count - 1 /\ ~new.closed => CountOK(new)
<1> DEFINE x == <<lane, Len(q.lanes[lane])>>
           rest == Slots(q) \ {x}
<1>1. \A l \in Lanes : Len(q.lanes[l]) \in Nat
  BY LaneTypes
<1>2. Len(q.lanes[lane]) >= 1 /\ Len(M[lane]) = Len(q.lanes[lane]) - 1
      /\ \A l \in Lanes : l # lane => M[l] = q.lanes[l]
  BY DEF ShorterBy
<1>3. x \in Slots(q)
  BY <1>1, <1>2 DEF Slots
<1>4. ASSUME NEW new \in Memory, new.lanes = M
      PROVE  Slots(new) = rest
  <2>1. ASSUME NEW l \in Lanes, NEW n \in Nat
        PROVE  n \in 1..Len(new.lanes[l]) <=> n \in 1..Len(q.lanes[l]) /\ <<l, n>> # x
    BY <1>1, <1>2, <1>4
  <2>2. \A y \in Lanes \X Nat : y \in Slots(new) <=> y \in Slots(q) /\ y # x
    BY <2>1 DEF Slots
  <2>3. Slots(q) \subseteq Lanes \X Nat /\ Slots(new) \subseteq Lanes \X Nat
    BY DEF Slots
  <2>. QED  BY <2>2, <2>3
<1>5. IsFiniteSet(Slots(q)) /\ q.count = Cardinality(Slots(q))
  BY DEF CountOK
<1> HIDE DEF x
<1>6. IsFiniteSet(rest) /\ Cardinality(rest) = Cardinality(Slots(q)) - 1
  BY <1>3, <1>5, FS_RemoveElement
<1>7. Cardinality(rest) \in Nat /\ Cardinality(Slots(q)) \in Nat
  BY <1>5, <1>6, FS_CardinalityType
<1>. HIDE DEF rest
<1>8. q.count >= 1
  BY <1>5, <1>6, <1>7
<1>. QED  BY <1>4, <1>5, <1>6, <1>8 DEF CountOK

LEMMA SameRouters ==
  ASSUME NEW q, NEW new, NEW w, NEW now, PlacesOK(q, w, now),
         \A s \in Sessions : new.lanes[<<s, Router>>] = q.lanes[<<s, Router>>],
         new.placed = q.placed, new.closed = q.closed
  PROVE  PlacesOK(new, w, now)
<1>1. ASSUME NEW s \in Sessions PROVE Ahead(new, w, s) = Ahead(q, w, s)
  <2>1. \A e \in Events : e.key = s => (Queued(new, e, Router) <=> Queued(q, e, Router))
    BY DEF Queued
  <2>. QED  BY <2>1 DEF Ahead
<1>. QED  BY <1>1 DEF PlacesOK

\* Workspace i was not handed e, nor anything that came later.
NotYet(q, e, i) ==
  /\ \A n \in 1..Len(q.lanes[<<e.key, i>>]) : q.lanes[<<e.key, i>>][n].event.id < e.id
  /\ \A f \in q.published[i] : f.key = e.key /\ e.type # "connected" => f.id < e.id

\* The routing head hands its event e on to i.
LEMMA HandOnGood ==
  ASSUME NEW q, NEW new \in Memory, NEW rec, NEW ws, NEW w, NEW k \in Keys, NEW i \in Instances,
         NEW e \in Events, e.key = k, Good(q, rec, ws, w, {e}), ~q.closed,
         q.lanes[<<k, Router>>] # <<>>, q.lanes[<<k, Router>>][1].event = e, NotYet(q, e, i),
         NEW job \in Jobs, job.event = e, job.stage = "queued",
         HearersOK(i, e, job.recipients, rec),
         k \in Sessions /\ job.location # NoLocation => AtOrAfter(k, e.hop, job.location),
         LongerBy(q.lanes, new.lanes, <<k, i>>, job), new.count = q.count + 1,
         new.closed = q.closed, new.late = q.late, SameCaches(q, new),
         rec \in [Instances -> SUBSET Events], Listed \subseteq Instances
  PROVE  Good(new, rec, ws, w, {e}) /\ Queued(new, e, i)
<1> DEFINE lane == <<k, i>>
<1>1. /\ q \in Memory
      /\ CountOK(q) /\ LateOK(q) /\ JobsOK(q, rec) /\ OrderOK(q, w, {e})
      /\ KeptOK(q, rec) /\ RoutedOK(q) /\ PlacesOK(q, w, {e}) /\ OwnersOK(q, ws)
  BY DEF Good
<1>2. lane \in Lanes /\ lane[2] # Router /\ lane[1] = k /\ lane[2] = i /\ <<k, Router>> \in Lanes
  BY TypeConstants
<1>3. /\ Len(q.lanes[lane]) \in Nat
      /\ Len(new.lanes[lane]) = Len(q.lanes[lane]) + 1
      /\ new.lanes[lane][Len(q.lanes[lane]) + 1] = job
      /\ \A n \in 1..Len(q.lanes[lane]) : new.lanes[lane][n] = q.lanes[lane][n]
      /\ \A l \in Lanes : l # lane => new.lanes[l] = q.lanes[l]
  BY <1>1, <1>2, LaneTypes DEF LongerBy
<1>4. \A n \in 1..Len(new.lanes[lane]) :
        n \in 1..Len(q.lanes[lane]) \/ n = Len(q.lanes[lane]) + 1
  BY <1>3
<1>5. /\ Len(q.lanes[<<k, Router>>]) \in Nat /\ 1 \in 1..Len(q.lanes[<<k, Router>>])
      /\ e.id \in Nat
  BY <1>1, <1>2, LaneTypes, EventTypes
<1>6. /\ new.placed = q.placed /\ new.owners = q.owners
      /\ new.published = q.published /\ new.refused = q.refused /\ new.unplaced = q.unplaced
  BY DEF SameCaches
<1>7. \A h \in Keys : new.lanes[<<h, Router>>] = q.lanes[<<h, Router>>]
  BY <1>2, <1>3, TypeConstants
<1> HIDE DEF lane
<1>8. CountOK(new)
  BY <1>1, <1>2, CountLonger DEF lane
<1>9. LateOK(new)
  BY <1>1 DEF LateOK
<1>10. JobsOK(new, rec)
  <2>1. JobOK(lane, job, rec)
    BY <1>2 DEF JobOK, StageOK
  <2>2. ASSUME NEW n \in 1..Len(new.lanes[lane]) PROVE JobOK(lane, new.lanes[lane][n], rec)
    BY <1>1, <1>2, <1>3, <1>4, <2>1 DEF JobsOK
  <2>3. ASSUME NEW n \in 2..Len(new.lanes[lane]) PROVE new.lanes[lane][n].stage = "queued"
    <3>1. n \in 2..Len(q.lanes[lane]) \/ n = Len(q.lanes[lane]) + 1
      BY <1>3
    <3>2. n \in 2..Len(q.lanes[lane]) =>
            new.lanes[lane][n] = q.lanes[lane][n] /\ q.lanes[lane][n].stage = "queued"
      BY <1>1, <1>2, <1>3 DEF JobsOK
    <3>. QED  BY <1>3, <3>1, <3>2
  <2>4. \A l \in Lanes : l # lane =>
          /\ \A n \in 1..Len(new.lanes[l]) : JobOK(l, new.lanes[l][n], rec)
          /\ \A n \in 2..Len(new.lanes[l]) : new.lanes[l][n].stage = "queued"
    BY <1>1, <1>3, SMTT(30) DEF JobsOK
  <2>. QED  BY <2>2, <2>3, <2>4 DEF JobsOK
<1>11. /\ e.id <= sent /\ \A m \in 1..Len(w) : e.id < w[m].id
       /\ \A n \in 1..Len(q.lanes[<<k, Router>>]) : AheadOf(e, q.lanes[<<k, Router>>][n], {e})
  <2>1. ASSUME NEW n \in 1..Len(q.lanes[<<k, Router>>])
        PROVE  AheadOf(e, q.lanes[<<k, Router>>][n], {e})
    <3>1. n = 1 \/ 1 < n
      BY <1>5
    <3>2. 1 < n => e.id < q.lanes[<<k, Router>>][n].event.id
      BY <1>1, <1>2, <1>5 DEF OrderOK, LanesOrdered
    <3>. QED  BY <3>1, <3>2 DEF AheadOf
  <2>. QED  BY <1>1, <1>2, <1>5, <2>1 DEF OrderOK, ReceivedAhead
<1>12. \A n \in 1..Len(q.lanes[lane]) : q.lanes[lane][n].event.id < e.id
  BY DEF NotYet, lane
<1>13. OrderOK(new, w, {e})
  <2>1. ASSUME NEW l \in Lanes, NEW m \in 1..Len(new.lanes[l]), NEW n \in 1..Len(new.lanes[l]),
               m < n
        PROVE  new.lanes[l][m].event.id < new.lanes[l][n].event.id
    <3>1. CASE l # lane
      BY <1>1, <1>3, <2>1, <3>1 DEF OrderOK, LanesOrdered
    <3>2. CASE l = lane
      <4>1. m \in 1..Len(q.lanes[lane])
        BY <1>3, <2>1, <3>2
      <4>2. CASE n \in 1..Len(q.lanes[lane])
        BY <1>1, <1>2, <1>3, <2>1, <3>2, <4>1, <4>2 DEF OrderOK, LanesOrdered
      <4>3. CASE n = Len(q.lanes[lane]) + 1
        BY <1>3, <1>12, <3>2, <4>1, <4>3
      <4>. QED  BY <1>4, <3>2, <4>2, <4>3
    <3>. QED  BY <3>1, <3>2
  <2>2. ASSUME NEW h \in Keys, NEW j \in Instances, NEW n \in 1..Len(new.lanes[<<h, Router>>])
        PROVE  /\ \A m \in 1..Len(new.lanes[<<h, j>>]) :
                    AheadOf(new.lanes[<<h, j>>][m].event, new.lanes[<<h, Router>>][n], {e})
               /\ \A f \in new.published[j] :
                    f.key = h /\ new.lanes[<<h, Router>>][n].event.type # "connected" =>
                      AheadOf(f, new.lanes[<<h, Router>>][n], {e})
    <3>1. new.lanes[<<h, Router>>] = q.lanes[<<h, Router>>]
      BY <1>7
    <3>2. \A f \in new.published[j] :
            f.key = h /\ new.lanes[<<h, Router>>][n].event.type # "connected" =>
              AheadOf(f, new.lanes[<<h, Router>>][n], {e})
      BY <1>1, <1>6, <2>2, <3>1, ZenonT(40) DEF OrderOK, RoutedAhead
    <3>3. ASSUME NEW m \in 1..Len(new.lanes[<<h, j>>])
          PROVE  AheadOf(new.lanes[<<h, j>>][m].event, new.lanes[<<h, Router>>][n], {e})
      <4>1. <<h, j>> \in Lanes
        BY TypeConstants
      <4>2. CASE <<h, j>> # lane
        BY <1>1, <1>3, <2>2, <3>1, <4>1, <4>2, ZenonT(40) DEF OrderOK, RoutedAhead
      <4>3. CASE <<h, j>> = lane
        <5>1. h = k /\ j = i
          BY <4>3 DEF lane
        <5>2. CASE m \in 1..Len(q.lanes[lane])
          BY <1>1, <1>3, <2>2, <3>1, <4>3, <5>2, ZenonT(40) DEF OrderOK, RoutedAhead
        <5>3. CASE m = Len(q.lanes[lane]) + 1
          <6>1. new.lanes[<<h, j>>][m].event = e
            BY <1>3, <4>3, <5>3
          <6>2. n \in 1..Len(q.lanes[<<k, Router>>])
            BY <3>1, <5>1
          <6>. QED  BY <1>11, <3>1, <5>1, <6>1, <6>2
        <5>. QED  BY <1>4, <4>3, <5>2, <5>3
      <4>. QED  BY <4>2, <4>3
    <3>. QED  BY <3>2, <3>3
  <2>3. ASSUME NEW h \in Keys, NEW j \in Instances, NEW n \in 1..Len(new.lanes[<<h, j>>]),
               NEW f \in new.published[j],
               f.key = h /\ new.lanes[<<h, j>>][n].event.type # "connected"
        PROVE  \/ f.id < new.lanes[<<h, j>>][n].event.id
               \/ f = new.lanes[<<h, j>>][n].event /\ new.lanes[<<h, j>>][n].stage = "done"
    <3>1. <<h, j>> \in Lanes
      BY TypeConstants
    <3>0. \A m \in 1..Len(q.lanes[<<h, j>>]) : q.lanes[<<h, j>>][m].event.type # "connected" =>
            \/ f.id < q.lanes[<<h, j>>][m].event.id
            \/ f = q.lanes[<<h, j>>][m].event /\ q.lanes[<<h, j>>][m].stage = "done"
      BY <1>1, <1>6, <2>3 DEF OrderOK, PublishedAhead
    <3>2. CASE <<h, j>> # lane
      BY <1>3, <2>3, <3>0, <3>1, <3>2, SMTT(30)
    <3>3. CASE <<h, j>> = lane
      <4>1. h = k /\ j = i
        BY <3>3 DEF lane
      <4>2. CASE n \in 1..Len(q.lanes[lane])
        <5>1. new.lanes[<<h, j>>][n] = q.lanes[<<h, j>>][n] /\ n \in 1..Len(q.lanes[<<h, j>>])
          BY <1>3, <3>3, <4>2
        <5>. QED  BY <2>3, <3>0, <5>1
      <4>3. CASE n = Len(q.lanes[lane]) + 1
        <5>1. new.lanes[<<h, j>>][n].event = e
          BY <1>3, <3>3, <4>3
        <5>. QED  BY <1>6, <2>3, <4>1, <5>1 DEF NotYet
      <4>. QED  BY <1>4, <3>3, <4>2, <4>3
    <3>. QED  BY <3>2, <3>3
  <2>4. ASSUME NEW l \in Lanes, NEW n \in 1..Len(new.lanes[l])
        PROVE  /\ new.lanes[l][n].event.id <= sent
               /\ \A m \in 1..Len(w) : new.lanes[l][n].event.id < w[m].id
    <3>1. CASE l # lane
      BY <1>1, <1>3, <2>4, <3>1, ZenonT(40) DEF OrderOK, ReceivedAhead
    <3>2. CASE l = lane /\ n \in 1..Len(q.lanes[lane])
      BY <1>1, <1>2, <1>3, <3>2 DEF OrderOK, ReceivedAhead
    <3>3. CASE l = lane /\ n = Len(q.lanes[lane]) + 1
      BY <1>3, <1>11, <3>3
    <3>. QED  BY <1>4, <3>1, <3>2, <3>3
  <2>5. \A j \in Instances : \A f \in new.published[j] :
          /\ f.id <= sent
          /\ \A m \in 1..Len(w) : w[m].type # "connected" => f.id < w[m].id
    BY <1>1, <1>6 DEF OrderOK, ReceivedAhead
  <2>. QED  BY <2>1, <2>2, <2>3, <2>4, <2>5
           DEF OrderOK, LanesOrdered, RoutedAhead, PublishedAhead, ReceivedAhead
<1>14. KeptOK(new, rec)
  <2>1. ASSUME NEW f, NEW x, f.key \in Keys, x \in Instances \cup {Router}, Queued(q, f, x)
        PROVE  Queued(new, f, x)
    <3>1. <<f.key, x>> \in Lanes
      BY <2>1 DEF Lanes
    <3>2. PICK n \in 1..Len(q.lanes[<<f.key, x>>]) :
            q.lanes[<<f.key, x>>][n].event = f /\ q.lanes[<<f.key, x>>][n].stage # "done"
      BY <2>1 DEF Queued
    <3>3. /\ n \in 1..Len(new.lanes[<<f.key, x>>])
          /\ new.lanes[<<f.key, x>>][n] = q.lanes[<<f.key, x>>][n]
      BY <1>3, <3>1, <3>2, SMTT(30)
    <3>. QED  BY <3>2, <3>3 DEF Queued
  <2>2. \A j \in Listed : \A f \in rec[j] : f.key \in Keys /\ j \in Instances \cup {Router}
    BY EventTypes
  <2>3. \A j \in Listed : \A f \in rec[j] : Settled(q, j, f) => Settled(new, j, f)
    BY <1>6 DEF Settled
  <2>. QED  BY <1>1, <2>1, <2>2, <2>3 DEF KeptOK
<1>15. PlacesOK(new, w, {e})
  BY <1>1, <1>6, <1>7, SameRouters, TypeConstants
<1>16. OwnersOK(new, ws)
  <2>1. ASSUME NEW h \in Keys, NEW j \in Instances, NEW n \in 1..Len(new.lanes[<<h, j>>]),
               new.lanes[<<h, j>>][n].stage = "yes", new.lanes[<<h, j>>][n].fresh
        PROVE  new.lanes[<<h, j>>][n].location \in ws[j]
    <3>1. <<h, j>> \in Lanes
      BY TypeConstants
    <3>2. n \in 1..Len(q.lanes[<<h, j>>]) /\ new.lanes[<<h, j>>][n] = q.lanes[<<h, j>>][n]
      BY <1>3, <1>4, <2>1, <3>1
    <3>. QED  BY <1>1, <2>1, <3>2 DEF OwnersOK
  <2>. QED  BY <1>1, <1>6, <2>1 DEF OwnersOK
<1>17. RoutedOK(new)
  <2> SUFFICES ASSUME NEW s \in Sessions, NEW j \in Instances,
                      NEW n \in 1..Len(new.lanes[<<s, j>>]),
                      new.lanes[<<s, j>>][n].location # NoLocation
               PROVE  AtOrAfter(s, new.lanes[<<s, j>>][n].event.hop,
                                new.lanes[<<s, j>>][n].location)
    BY DEF RoutedOK
  <2>1. <<s, j>> \in Lanes
    BY TypeConstants
  <2>2. CASE <<s, j>> = lane /\ n = Len(q.lanes[lane]) + 1
    <3>1. s = k
      BY <2>2 DEF lane
    <3>. QED  BY <1>3, <2>2, <3>1
  <2>3. CASE <<s, j>> # lane \/ n # Len(q.lanes[lane]) + 1
    <3>1. n \in 1..Len(q.lanes[<<s, j>>]) /\ new.lanes[<<s, j>>][n] = q.lanes[<<s, j>>][n]
      BY <1>3, <1>4, <2>1, <2>3
    <3>. QED  BY <1>1, <3>1 DEF RoutedOK
  <2>. QED  BY <2>2, <2>3
<1>18. Queued(new, e, i)
  <2>1. Len(q.lanes[lane]) + 1 \in 1..Len(new.lanes[lane])
    BY <1>3
  <2>. QED  BY <1>3, <2>1 DEF Queued, lane
<1>. QED  BY <1>8, <1>9, <1>10, <1>13, <1>14, <1>15, <1>16, <1>17, <1>18 DEF Good

\* What a step with the head of a lane leaves alone in new.
LaneStep(q, new, lane, job) ==
  /\ new \in Memory /\ SameSize(q, new) /\ HeadIs(q.lanes, new.lanes, lane, job)
  /\ new.placed = q.placed /\ new.unplaced = q.unplaced

LEMMA EnqueueFields ==
  ASSUME NEW q \in Memory, NEW lane \in Lanes, NEW job \in Jobs, ~q.closed,
         ~(q.count + 1 > MaxJobs)
  PROVE  LET new == Enqueue(q, lane, job)
         IN  /\ new \in Memory /\ LongerBy(q.lanes, new.lanes, lane, job)
             /\ new.count = q.count + 1 /\ new.closed = q.closed /\ new.late = q.late
             /\ SameCaches(q, new)
<1> DEFINE M == [q.lanes EXCEPT ![lane] = Append(q.lanes[lane], job)]
           new == [q EXCEPT !.count = q.count + 1, !.lanes = M]
<1>1. Enqueue(q, lane, job) = new
  BY DEF Enqueue
<1>2. q.lanes \in [Lanes -> Seq(Jobs)] /\ q.count \in 0..MaxJobs
  BY DEF Memory
<1>3. LongerBy(q.lanes, M, lane, job)
  BY <1>2, LaneAppended
<1>4. M \in [Lanes -> Seq(Jobs)]
  BY <1>3 DEF LongerBy
<1>5. q.count + 1 \in 0..MaxJobs
  BY <1>2, LimitAssumption
<1> HIDE DEF M
<1>6. /\ new \in Memory /\ new.lanes = M
      /\ new.count = q.count + 1 /\ new.closed = q.closed /\ new.late = q.late
      /\ SameCaches(q, new)
  BY <1>4, <1>5 DEF Memory, SameCaches
<1> HIDE DEF new
<1>. QED  BY <1>1, <1>3, <1>6

LEMMA DoneFields ==
  ASSUME NEW q \in Memory, NEW lane \in Lanes, ~q.closed, q.lanes[lane] # <<>>
  PROVE  /\ LaneStep(q, Done(q, lane), lane, Ended(q.lanes[lane][1]))
         /\ SameCaches(q, Done(q, lane))
<1> DEFINE job == Ended(q.lanes[lane][1])
           M == WithHead(q.lanes, lane, job)
           new == [q EXCEPT !.lanes = M]
<1>1. Done(q, lane) = new
  BY DEF Done, WithHead, Ended
<1>2. q.lanes \in [Lanes -> Seq(Jobs)] /\ q.lanes[lane][1] \in Jobs
  BY LaneTypes DEF Memory
<1>3. job \in Jobs
  BY <1>2, EndedFields
<1> HIDE DEF job
<1>4. HeadIs(q.lanes, M, lane, job)
  BY <1>2, <1>3, HeadReplaced
<1>5. M \in [Lanes -> Seq(Jobs)]
  BY <1>4 DEF HeadIs
<1> HIDE DEF M
<1>6. /\ new \in Memory /\ new.lanes = M /\ SameSize(q, new) /\ SameCaches(q, new)
  BY <1>5 DEF Memory, SameCaches, SameSize
<1> HIDE DEF new
<1>. QED  BY <1>1, <1>4, <1>6 DEF LaneStep, job, SameCaches

\* The job of a lookup that is known.
LookedUp(job, known) ==
  [job EXCEPT !.fresh = TRUE, !.stage = IF known \in {"yes", "no"} THEN known ELSE "waiting"]

LEMMA LookedUpFields ==
  ASSUME NEW job \in Jobs, NEW known
  PROVE  LET new == LookedUp(job, known)
         IN  /\ new \in Jobs /\ new.event = job.event /\ new.recipients = job.recipients
             /\ new.location = job.location /\ new.fresh
             /\ new.stage \in {"waiting", "yes", "no"}
             /\ new.stage = "yes" => known = "yes"
<1> DEFINE stage == IF known \in {"yes", "no"} THEN known ELSE "waiting"
<1>1. stage \in {"waiting", "yes", "no"} /\ (stage = "yes" => known = "yes")
  OBVIOUS
<1>2. LookedUp(job, known) = [job EXCEPT !.fresh = TRUE, !.stage = stage]
  BY SMTT(30) DEF LookedUp
<1>. HIDE DEF stage
<1>. QED  BY <1>1, <1>2 DEF Jobs

LEMMA LookUpFields ==
  ASSUME NEW q \in Memory, NEW lane \in Lanes, q.lanes[lane] # <<>>, NEW i \in Instances,
         Recipient(q.lanes[lane][1]) = i, q.lanes[lane][1].location \in Locations
  PROVE  LET new   == LookUpOwner(q, lane)
             job   == q.lanes[lane][1]
             known == q.owners[i][job.location]
         IN  /\ LaneStep(q, new, lane, LookedUp(job, known))
             /\ new.published = q.published /\ new.refused = q.refused
             /\ \A j \in Instances, l \in Locations :
                  new.owners[j][l] = "yes" => q.owners[j][l] = "yes"
<1> DEFINE job == q.lanes[lane][1]
           l == job.location
           known == q.owners[i][l]
           now == IF known = "none" THEN "asked" ELSE known
           M == WithHead(q.lanes, lane, LookedUp(job, known))
           O == [q.owners EXCEPT ![i] = [q.owners[i] EXCEPT ![l] = now]]
           new == [q EXCEPT !.owners = O, !.lanes = M]
<1>1. Head(q.lanes[lane]) = job /\ q.lanes \in [Lanes -> Seq(Jobs)] /\ job \in Jobs
  BY LaneTypes, SMTT(40) DEF Memory
<1>2. LookUpOwner(q, lane) = new
  BY <1>1 DEF LookUpOwner, WithHead, LookedUp
<1>3. LookedUp(job, known) \in Jobs
  BY <1>1, LookedUpFields
<1>4. l \in Locations
  OBVIOUS
<1> HIDE DEF job, l
<1>5. q.owners \in [Instances -> [Locations -> {"none", "asked", "yes", "no"}]]
  BY DEF Memory
<1>6. known \in {"none", "asked", "yes", "no"}
  BY <1>4, <1>5
<1>7. now \in {"none", "asked", "yes", "no"} /\ (now = "yes" => known = "yes")
  BY <1>6
<1> HIDE DEF now
<1>8. /\ O \in [Instances -> [Locations -> {"none", "asked", "yes", "no"}]]
      /\ \A j \in Instances, x \in Locations : O[j][x] = "yes" => q.owners[j][x] = "yes"
  BY <1>4, <1>5, <1>7
<1> HIDE DEF known
<1>9. HeadIs(q.lanes, M, lane, LookedUp(job, known))
  BY <1>1, <1>3, HeadReplaced
<1>10. M \in [Lanes -> Seq(Jobs)]
  BY <1>9 DEF HeadIs
<1> HIDE DEF M, O
<1>11. /\ new \in Memory /\ new.lanes = M /\ SameSize(q, new) /\ new.owners = O
       /\ new.placed = q.placed /\ new.unplaced = q.unplaced
       /\ new.published = q.published /\ new.refused = q.refused
  BY <1>8, <1>10 DEF Memory, SameSize
<1> HIDE DEF new
<1>. QED  BY <1>2, <1>8, <1>9, <1>11 DEF LaneStep, known, l, job

\* Between the steps of a routing, what is heard and who listens is of these types.
HearingOK(rec) ==
  /\ rec \in [Instances -> SUBSET Events] /\ Listed \subseteq Instances
  /\ \A i \in Instances : i \in Listed <=> epoch[i] = 1

LEMMA DeliveryHead ==
  ASSUME NEW q, NEW rec, NEW ws, NEW w, NEW now, Good(q, rec, ws, w, now),
         NEW k \in Keys, NEW i \in Instances, q.lanes[<<k, i>>] # <<>>, HearingOK(rec)
  PROVE  LET job == q.lanes[<<k, i>>][1]
         IN  /\ <<k, i>> \in Lanes /\ ~q.closed /\ q \in Memory
             /\ Head(q.lanes[<<k, i>>]) = job /\ job \in Jobs /\ job.event \in Events
             /\ job.event.key = k /\ Recipient(job) = i /\ job.event \in rec[i]
             /\ StageOK(<<k, i>>, job) /\ job.location \in Places
             /\ Current(job) <=> i \in Listed
<1> DEFINE lane == <<k, i>>
           job == q.lanes[lane][1]
<1>1. lane \in Lanes /\ q \in Memory /\ lane[1] = k /\ lane[2] = i /\ i # Router
  BY TypeConstants DEF Good
<1>2. ~q.closed
  BY <1>1 DEF Good, CountOK
<1>3. Head(q.lanes[lane]) = job /\ job \in Jobs /\ 1 \in 1..Len(q.lanes[lane])
      /\ job.event \in Events /\ job.location \in Places
  BY <1>1, LaneTypes DEF Jobs
<1>4. JobOK(lane, job, rec)
  BY <1>1, <1>3 DEF Good, JobsOK
<1>. HIDE DEF job
<1>5. /\ job.event.key = k /\ StageOK(lane, job) /\ HearersOK(i, job.event, job.recipients, rec)
  BY <1>1, <1>4 DEF JobOK
<1>6. /\ Recipient(job) = i /\ job.event \in rec[i] /\ job.recipients[1].epoch = 1
  BY <1>1, <1>5 DEF HearersOK, Recipient
<1>7. Current(job) <=> i \in Listed
  BY <1>6 DEF Current, HearingOK
<1>. QED  BY <1>1, <1>2, <1>3, <1>5, <1>6, <1>7 DEF job

\* A lookup of the owner starts or goes on.
LEMMA LookUpGood ==
  ASSUME NEW q, NEW rec, NEW ws, NEW w, NEW now, Good(q, rec, ws, w, now),
         NEW k \in Keys, NEW i \in Instances, q.lanes[<<k, i>>] # <<>>, HearingOK(rec),
         q.lanes[<<k, i>>][1].location \in Locations, q.lanes[<<k, i>>][1].stage # "done"
  PROVE  /\ Good(LookUpOwner(q, <<k, i>>), rec, ws, w, now)
         /\ Queued(LookUpOwner(q, <<k, i>>), q.lanes[<<k, i>>][1].event, i)
<1> DEFINE lane == <<k, i>>
           job == q.lanes[lane][1]
           known == q.owners[i][job.location]
           next == LookedUp(job, known)
           new == LookUpOwner(q, lane)
<1>1. /\ lane \in Lanes /\ ~q.closed /\ q \in Memory /\ lane[2] # Router
      /\ job \in Jobs /\ job.event.key = k /\ Recipient(job) = i
      /\ q.lanes \in [Lanes -> Seq(Jobs)] /\ Len(q.lanes[lane]) \in Nat
  <2>1. q \in Memory /\ lane \in Lanes
    BY DeliveryHead
  <2>. QED  BY <2>1, DeliveryHead, TypeConstants, LaneTypes DEF Memory
<1>2. /\ LaneStep(q, new, lane, next)
      /\ new.published = q.published /\ new.refused = q.refused
      /\ \A j \in Instances, l \in Locations : new.owners[j][l] = "yes" => q.owners[j][l] = "yes"
  BY <1>1, LookUpFields, ZenonT(40)
<1>3. /\ next \in Jobs /\ next.event = job.event /\ next.recipients = job.recipients
      /\ next.location = job.location /\ next.fresh
      /\ next.stage \in {"waiting", "yes", "no"}
      /\ next.stage = "yes" => known = "yes"
  BY <1>1, LookedUpFields, ZenonT(40)
<1>4. job.location \in Locations /\ job.stage # "done"
  OBVIOUS
<1>5. q.lanes[lane] # <<>>
  OBVIOUS
<1> HIDE DEF new, next
<1>6. /\ CountOK(q) /\ LateOK(q) /\ JobsOK(q, rec) /\ OrderOK(q, w, now)
      /\ KeptOK(q, rec) /\ RoutedOK(q) /\ PlacesOK(q, w, now) /\ OwnersOK(q, ws)
  BY DEF Good
<1>7. /\ new \in Memory /\ SameSize(q, new) /\ HeadIs(q.lanes, new.lanes, lane, next)
      /\ new.placed = q.placed /\ new.unplaced = q.unplaced
  BY <1>2 DEF LaneStep
<1>8. FurtherOn(q.lanes, new.lanes) /\ HeadsOK(new.lanes) /\ RoutersStay(q.lanes, new.lanes)
  <2>0. next.location \in Locations /\ lane[2] # Router
    BY <1>1, <1>3, <1>4
  <2>1. StageOK(lane, next)
    BY <1>3, <2>0 DEF StageOK
  <2>2. HeadsOK(q.lanes)
    BY <1>1, <1>6, HeadsOfJobs
  <2>. HIDE DEF lane, known
  <2>. QED  BY <1>1, <1>3, <1>4, <1>5, <1>7, <2>1, <2>2, HeadFurther DEF job
<1>9. /\ Len(new.lanes[lane]) = Len(q.lanes[lane]) /\ new.lanes[lane][1] = next
      /\ \A n \in 2..Len(q.lanes[lane]) : new.lanes[lane][n] = q.lanes[lane][n]
      /\ \A l \in Lanes : l # lane => new.lanes[l] = q.lanes[l]
  BY <1>7 DEF HeadIs
<1>10. MoreSettled(q, new)
  <2>1. ASSUME NEW h \in Keys, NEW j \in Listed, NEW n \in 1..Len(q.lanes[<<h, j>>]),
               new.lanes[<<h, j>>][n].stage = "done"
        PROVE  q.lanes[<<h, j>>][n].stage = "done"
    <3>1. <<h, j>> \in Lanes
      BY TypeConstants DEF HearingOK
    <3>2. CASE <<h, j>> # lane
      BY <1>9, <2>1, <3>1, <3>2
    <3>3. CASE <<h, j>> = lane
      <4>0. next.stage # "done"
        BY <1>3
      <4>1. n # 1
        BY <1>9, <2>1, <3>3, <4>0
      <4>2. n \in 2..Len(q.lanes[lane])
        BY <1>1, <3>3, <4>1
      <4>. QED  BY <1>9, <2>1, <3>3, <4>2
    <3>. QED  BY <3>2, <3>3
  <2>. QED  BY <1>2, <1>7, <2>1 DEF MoreSettled
<1>11. OwnersOK(new, ws)
  <2>1. ASSUME NEW h \in Keys, NEW j \in Instances, NEW n \in 1..Len(new.lanes[<<h, j>>]),
               new.lanes[<<h, j>>][n].stage = "yes", new.lanes[<<h, j>>][n].fresh
        PROVE  new.lanes[<<h, j>>][n].location \in ws[j]
    <3>1. <<h, j>> \in Lanes
      BY TypeConstants
    <3>2. CASE <<h, j>> # lane
      BY <1>6, <1>9, <2>1, <3>1, <3>2 DEF OwnersOK
    <3>3. CASE <<h, j>> = lane
      <4>1. CASE n = 1
        <5>1. j = i
          BY <3>3
        <5>2. next.stage = "yes" /\ new.lanes[<<h, j>>][n].location = job.location
          BY <1>3, <1>9, <2>1, <3>3, <4>1
        <5>3. q.owners[i][job.location] = "yes"
          BY <1>3, <5>2
        <5>. QED  BY <1>4, <1>6, <5>1, <5>2, <5>3 DEF OwnersOK
      <4>2. CASE n # 1
        <5>1. n \in 2..Len(q.lanes[lane]) /\ n \in 1..Len(q.lanes[lane])
          BY <1>1, <1>9, <3>3, <4>2
        <5>. QED  BY <1>6, <1>9, <2>1, <3>3, <5>1, SMTT(40) DEF OwnersOK
      <4>. QED  BY <4>1, <4>2
    <3>. QED  BY <3>2, <3>3
  <2>2. \A j \in Instances, l \in Locations : q.owners[j][l] = "yes" => l \in ws[j]
    BY <1>6 DEF OwnersOK
  <2>. QED  BY <1>2, <2>1, <2>2 DEF OwnersOK
<1>12. ~q.closed => \A s \in Sessions :
         /\ PlaceOK(Ahead(q, w, s) \ now, s, new.placed[s])
         /\ new.lanes[<<s, Router>>] # <<>> =>
              AnswerOK(Ahead(q, w, s), s, new.placed[s], new.lanes[<<s, Router>>][1])
  <2>1. \A s \in Sessions : new.lanes[<<s, Router>>] = q.lanes[<<s, Router>>]
    BY <1>1, <1>9, TypeConstants
  <2>. QED  BY <1>6, <1>7, <2>1 DEF PlacesOK
<1>13. Good(new, rec, ws, w, now)
  <2>. HIDE DEF lane, job, known
  <2>. QED  BY <1>2, <1>7, <1>8, <1>10, <1>11, <1>12, FurtherGood DEF HearingOK
<1>14. Queued(new, job.event, i)
  <2>1. 1 \in 1..Len(new.lanes[lane])
    BY <1>1, <1>5, <1>9, LaneTypes
  <2>2. job.event.key = k /\ new.lanes[lane][1].event = job.event
    BY <1>1, <1>3, <1>9
  <2>3. new.lanes[lane][1].stage # "done"
    BY <1>3, <1>9
  <2>4. <<job.event.key, i>> = lane
    BY <2>2
  <2>. HIDE DEF lane, job
  <2>. QED  BY <2>1, <2>2, <2>3, <2>4 DEF Queued
<1>. QED  BY <1>13, <1>14 DEF new

LEMMA PublishFields ==
  ASSUME NEW q \in Memory, NEW job \in Jobs, NEW i \in Instances, Recipient(job) = i
  PROVE  LET new == Publish(q, job)
         IN  /\ new \in Memory /\ new.lanes = q.lanes /\ SameSize(q, new)
             /\ new.placed = q.placed /\ new.unplaced = q.unplaced
             /\ new.owners = q.owners /\ new.refused = q.refused
             /\ \A j \in Instances : /\ q.published[j] \subseteq new.published[j]
                                     /\ j # i => new.published[j] = q.published[j]
             /\ \A f \in new.published[i] :
                  f \in q.published[i] \/ (f = job.event /\ i \in Listed)
             /\ i \in Listed => job.event \in new.published[i]
<1> DEFINE P == [q.published EXCEPT ![i] = q.published[i] \cup {job.event}]
<1>1. q.published \in [Instances -> SUBSET Events] /\ job.event \in Events
  BY DEF Memory, Jobs
<1>2. /\ P \in [Instances -> SUBSET Events]
      /\ P[i] = q.published[i] \cup {job.event}
      /\ \A j \in Instances : j # i => P[j] = q.published[j]
  BY <1>1
<1>3. CASE i \in Listed
  <2>1. Publish(q, job) = [q EXCEPT !.published = P]
    BY <1>3 DEF Publish
  <2>. HIDE DEF P
  <2>2. [q EXCEPT !.published = P] \in Memory
    BY <1>2 DEF Memory
  <2>3. LET new == [q EXCEPT !.published = P]
        IN  /\ new.lanes = q.lanes /\ new.published = P /\ SameSize(q, new)
            /\ new.placed = q.placed /\ new.unplaced = q.unplaced
            /\ new.owners = q.owners /\ new.refused = q.refused
    BY DEF Memory, SameSize
  <2>. QED  BY <1>2, <1>3, <2>1, <2>2, <2>3
<1>4. CASE i \notin Listed
  BY <1>4 DEF Publish, SameSize
<1>. QED  BY <1>3, <1>4

\* Of e, workspace i heard or will hear; the others did not notice.
HandedOn(q, new, e, i, rec) ==
  /\ \A j \in Instances :
       /\ q.published[j] \subseteq new.published[j] /\ q.refused[j] \subseteq new.refused[j]
       /\ j # i => new.published[j] = q.published[j]
  /\ \A f \in new.published[i] : f \in q.published[i] \/ (f = e /\ i \in Listed /\ e \in rec[i])
  /\ ~new.closed =>
       /\ \A l \in Lanes : l # <<e.key, i>> => new.lanes[l] = q.lanes[l]
       /\ new.placed = q.placed /\ new.unplaced = q.unplaced
       /\ i \in Listed => Settled(new, i, e) \/ Queued(new, e, i)

LEMMA RunDeliveryGood ==
  ASSUME NEW q, NEW rec, NEW ws, NEW w, NEW now, Good(q, rec, ws, w, now),
         NEW k \in Keys, NEW i \in Instances, q.lanes[<<k, i>>] # <<>>, HearingOK(rec),
         q.lanes[<<k, i>>][1].stage = "queued"
  PROVE  /\ Good(RunDelivery(q, <<k, i>>), rec, ws, w, now)
         /\ RunDelivery(q, <<k, i>>).closed = q.closed
         /\ HandedOn(q, RunDelivery(q, <<k, i>>), q.lanes[<<k, i>>][1].event, i, rec)
<1> DEFINE lane == <<k, i>>
           job == q.lanes[lane][1]
           new == RunDelivery(q, lane)
<1>1. /\ lane \in Lanes /\ ~q.closed /\ q \in Memory
      /\ Head(q.lanes[lane]) = job /\ job \in Jobs
      /\ job.event.key = k /\ Recipient(job) = i /\ job.event \in rec[i]
      /\ job.location \in Places
      /\ Current(job) <=> i \in Listed
  BY DeliveryHead
<1>2. q.lanes[lane] # <<>> /\ job.stage = "queued"
  OBVIOUS
<1>3. rec \in [Instances -> SUBSET Events] /\ Listed \subseteq Instances
  BY DEF HearingOK
<1>4. ASSUME NEW mid \in Memory, mid.lanes = q.lanes, SameSize(q, mid),
             mid.placed = q.placed, mid.unplaced = q.unplaced, mid.owners = q.owners,
             mid.refused = q.refused,
             \A j \in Instances : /\ q.published[j] \subseteq mid.published[j]
                                  /\ j # i => mid.published[j] = q.published[j],
             \A f \in mid.published[i] :
               f \in q.published[i] \/ (f = job.event /\ i \in Listed),
             i \in Listed => job.event \in mid.published[i], new = Done(mid, lane)
      PROVE  Good(new, rec, ws, w, now) /\ new.closed = q.closed
             /\ HandedOn(q, new, job.event, i, rec)
  <2>1. ~mid.closed /\ mid.lanes[lane] # <<>> /\ mid.lanes[lane][1] = job
    BY <1>1, <1>2, <1>4 DEF SameSize
  <2>2. LaneStep(mid, new, lane, Ended(job)) /\ SameCaches(mid, new)
    BY <1>1, <1>4, <2>1, DoneFields
  <2>. HIDE DEF new
  <2>3. /\ new \in Memory /\ SameSize(q, new) /\ HeadIs(q.lanes, new.lanes, lane, Ended(job))
        /\ new.placed = q.placed /\ new.unplaced = q.unplaced /\ new.owners = q.owners
        /\ new.published = mid.published /\ new.refused = q.refused
    BY <1>4, <2>2 DEF LaneStep, SameSize, SameCaches
  <2>4. /\ \A j \in Instances :
             /\ q.published[j] \subseteq new.published[j] /\ q.refused[j] \subseteq new.refused[j]
             /\ \A f \in new.published[j] : f \in q.published[j] \/ (j = i /\ f = job.event)
        /\ i \in Listed => Settled(new, i, job.event)
    BY <1>4, <2>3 DEF Settled
  <2>5. Good(new, rec, ws, w, now)
    <3>. HIDE DEF job, lane
    <3>. QED  BY <1>2, <1>3, <2>3, <2>4, FinishGood DEF job, lane
  <2>6. HandedOn(q, new, job.event, i, rec)
    <3>1. \A l \in Lanes : l # lane => new.lanes[l] = q.lanes[l]
      BY <2>3 DEF HeadIs
    <3>2. lane = <<job.event.key, i>>
      BY <1>1
    <3>3. job.event \in rec[i]
      BY <1>1
    <3>. HIDE DEF job, lane
    <3>. QED  BY <1>4, <2>3, <2>4, <3>1, <3>2, <3>3 DEF HandedOn
  <2>. QED  BY <2>3, <2>5, <2>6 DEF SameSize
<1>5. CASE ~Current(job)
  <2>1. new = Done(q, lane) /\ i \notin Listed
    BY <1>1, <1>5 DEF RunDelivery
  <2>2. SameSize(q, q)
    BY DEF SameSize
  <2>. HIDE DEF new, job, lane
  <2>3. Good(new, rec, ws, w, now) /\ new.closed = q.closed
        /\ HandedOn(q, new, job.event, i, rec)
    BY <1>1, <1>4, <2>1, <2>2
  <2>. QED  BY <2>3 DEF new, job, lane
<1>6. CASE Current(job) /\ job.location = NoLocation
  <2>1. new = Done(Publish(q, job), lane)
    BY <1>1, <1>6 DEF RunDelivery
  <2>. HIDE DEF new, job, lane
  <2>2. Good(new, rec, ws, w, now) /\ new.closed = q.closed
        /\ HandedOn(q, new, job.event, i, rec)
    BY <1>1, <1>4, <2>1, PublishFields, SMTT(30)
  <2>. QED  BY <2>2 DEF new, job, lane
<1>7. CASE Current(job) /\ job.location # NoLocation
  <2>1. new = LookUpOwner(q, lane)
    BY <1>1, <1>7 DEF RunDelivery
  <2>2. job.location \in Locations
    BY <1>1, <1>7 DEF Places
  <2>3. Good(new, rec, ws, w, now) /\ Queued(new, job.event, i)
    BY <1>2, <2>1, <2>2, LookUpGood
  <2>4. /\ LaneStep(q, new, lane, LookedUp(job, q.owners[i][job.location]))
        /\ new.published = q.published /\ new.refused = q.refused
    BY <1>1, <2>1, <2>2, LookUpFields
  <2>. HIDE DEF new
  <2>5. HandedOn(q, new, job.event, i, rec)
    <3>1. \A l \in Lanes : l # lane => new.lanes[l] = q.lanes[l]
      BY <2>4 DEF LaneStep, HeadIs
    <3>2. lane = <<job.event.key, i>>
      BY <1>1
    <3>. HIDE DEF job, lane
    <3>. QED  BY <2>3, <2>4, <3>1, <3>2 DEF HandedOn, LaneStep
  <2>. QED  BY <2>3, <2>4, <2>5 DEF new, LaneStep, SameSize
<1>. QED  BY <1>5, <1>6, <1>7

-----------------------------------------------------------------------------
(* An event is delivered *)

RecipientType == [id : Instances, epoch : Nat]

\* The routing head of q hands e on, to be delivered at location.
HandsOn(q, e, location) ==
  /\ e \in Events /\ location \in Places
  /\ e.key \in Sessions /\ location # NoLocation => AtOrAfter(e.key, e.hop, location)
  /\ ~q.closed => /\ q.lanes[<<e.key, Router>>] # <<>>
                  /\ q.lanes[<<e.key, Router>>][1].event = e
  /\ generation \in 1..MaxConnections

LEMMA GenerationOK ==
  generation \in 1..MaxConnections => generation \in 0..MaxConnections /\ generation > 0
BY LimitAssumption

LEMMA DeliverToGood ==
  ASSUME NEW q, NEW rec, NEW ws, NEW w, NEW e, NEW to \in RecipientType, NEW location,
         Good(q, rec, ws, w, {e}), HearingOK(rec), HandsOn(q, e, location),
         to.epoch = 1, e \in rec[to.id], ~q.closed => NotYet(q, e, to.id)
  PROVE  LET new == DeliverTo(q, e, to, location)
         IN  /\ Good(new, rec, ws, w, {e}) /\ HandedOn(q, new, e, to.id, rec)
             /\ q.closed => new = q
<1> DEFINE i == to.id
           k == e.key
           lane == <<k, i>>
           job == [event |-> e, recipients |-> <<to>>, location |-> location,
                   stage |-> "queued", fresh |-> TRUE]
           added == Enqueue(q, lane, job)
           new == DeliverTo(q, e, to, location)
<1>1. /\ q \in Memory /\ i \in Instances /\ k \in Keys /\ e \in Events /\ lane \in Lanes
      /\ location \in Places
  <2>1. i \in Instances
    BY DEF RecipientType
  <2>. QED  BY <2>1, EventTypes, TypeConstants DEF HandsOn, Good
<1>2. /\ job \in Jobs /\ job.event = e /\ job.stage = "queued" /\ job.recipients = <<to>>
      /\ job.location = location
  <2>1. <<to>> \in Seq([id : Instances, epoch : Nat])
    BY DEF RecipientType
  <2>. QED  BY <1>1, <2>1 DEF Jobs
<1>3. HearersOK(i, e, job.recipients, rec)
  <2>1. Len(<<to>>) = 1 /\ <<to>>[1] = to /\ \A n \in 1..Len(<<to>>) : n = 1
    OBVIOUS
  <2>2. i # Router
    BY <1>1, TypeConstants
  <2>. QED  BY <1>2, <2>1, <2>2 DEF HearersOK
<1>4. new = IF StartsLane(q, added, lane) THEN RunDelivery(added, lane) ELSE added
  BY DEF DeliverTo
<1>5. generation \in 0..MaxConnections /\ generation > 0
  BY GenerationOK DEF HandsOn
<1>6. rec \in [Instances -> SUBSET Events] /\ Listed \subseteq Instances
  BY DEF HearingOK
<1> HIDE DEF job, i, k, new
<1>7. CASE q.closed
  <2>1. new = q
    BY <1>4, <1>7 DEF Enqueue, StartsLane
  <2>2. HandedOn(q, q, e, i, rec)
    BY <1>7 DEF HandedOn
  <2>. QED  BY <2>1, <2>2 DEF new, i
<1>8. CASE ~q.closed /\ q.count + 1 > MaxJobs
  <2>1. added = Close(q)
    BY <1>8 DEF Enqueue
  <2>2. /\ added \in Memory /\ added.closed /\ SameCaches(q, added)
        /\ \A l \in Lanes : added.lanes[l] = <<>>
    BY <1>1, <1>5, <2>1, CloseFields
  <2>3. new = added
    BY <1>1, <1>4, <2>2 DEF StartsLane
  <2>4. Good(added, rec, ws, w, {e})
    BY <1>5, <2>1, CloseGood
  <2>. HIDE DEF added
  <2>5. HandedOn(q, added, e, i, rec)
    BY <1>6, <2>2 DEF HandedOn, SameCaches
  <2>. QED  BY <1>8, <2>3, <2>4, <2>5 DEF new, i
<1>9. CASE ~q.closed /\ ~(q.count + 1 > MaxJobs)
  <2>1. /\ added \in Memory /\ LongerBy(q.lanes, added.lanes, lane, job)
        /\ added.count = q.count + 1 /\ added.closed = q.closed /\ added.late = q.late
        /\ SameCaches(q, added)
    BY <1>1, <1>2, <1>9, EnqueueFields
  <2>. HIDE DEF added
  <2>2. Good(added, rec, ws, w, {e}) /\ Queued(added, e, i)
    <3>1. q.lanes[<<k, Router>>] # <<>> /\ q.lanes[<<k, Router>>][1].event = e
      BY <1>9 DEF HandsOn, k
    <3>2. k \in Sessions /\ job.location # NoLocation => AtOrAfter(k, e.hop, job.location)
      BY <1>2 DEF HandsOn, k
    <3>3. NotYet(q, e, i) /\ e.key = k
      BY <1>9 DEF i, k
    <3>. QED  BY <1>1, <1>2, <1>3, <1>6, <1>9, <2>1, <3>1, <3>2, <3>3, HandOnGood, ZenonT(30)
  <2>3. /\ Len(added.lanes[lane]) = Len(q.lanes[lane]) + 1
        /\ added.lanes[lane][Len(q.lanes[lane]) + 1] = job
        /\ \A l \in Lanes : l # lane => added.lanes[l] = q.lanes[l]
    BY <2>1 DEF LongerBy
  <2>4. CASE q.lanes[lane] # <<>>
    <3>1. new = added
      BY <1>4, <2>4 DEF StartsLane
    <3>2. HandedOn(q, added, e, i, rec)
      BY <1>6, <2>1, <2>2, <2>3 DEF HandedOn, SameCaches, k
    <3>. QED  BY <1>9, <2>2, <3>1, <3>2 DEF new, i
  <2>5. CASE q.lanes[lane] = <<>>
    <3>1. Len(q.lanes[lane]) = 0
      BY <2>5
    <3>2. Len(added.lanes[lane]) = 1 /\ added.lanes[lane][1] = job
      BY <2>3, <3>1
    <3>3. added.lanes[lane] # <<>>
      BY <3>2, <1>1, <2>1, LaneTypes
    <3>4. new = RunDelivery(added, lane)
      BY <1>4, <2>5, <3>3 DEF StartsLane
    <3>5. /\ Good(new, rec, ws, w, {e}) /\ new.closed = added.closed
          /\ HandedOn(added, new, e, i, rec)
      BY <1>1, <1>2, <2>2, <3>2, <3>3, <3>4, RunDeliveryGood
    <3>6. HandedOn(q, new, e, i, rec)
      BY <2>1, <2>3, <3>5 DEF HandedOn, SameCaches, k
    <3>. QED  BY <1>9, <3>5, <3>6 DEF new, i
  <2>. QED  BY <2>4, <2>5
<1>. QED  BY <1>7, <1>8, <1>9

DeliversBy(q, event, recipients, location, after) ==
  after = [n \in 0..Len(recipients) |->
             IF n = 0 THEN q ELSE DeliverTo(after[n - 1], event, recipients[n], location)]

\* The recursive definition of Deliver has a solution.
LEMMA DeliverExists ==
  ASSUME NEW q, NEW event, NEW recipients \in Seq(RecipientType), NEW location
  PROVE  \E after : DeliversBy(q, event, recipients, location, after)
<1> DEFINE N == Len(recipients)
           Then(mem, k) == DeliverTo(mem, event, recipients[k], location)
           Solves(f, n) == \A k \in 0..N : k <= n =>
                             f[k] = IF k = 0 THEN q ELSE Then(f[k - 1], k)
           Step(f) == [k \in 0..N |-> IF k = 0 THEN q ELSE Then(f[k - 1], k)]
           K == {n \in Nat : \E f : Solves(f, n)}
<1>1. N \in Nat
  OBVIOUS
<1> HIDE DEF N, Then
<1>2. 0 \in K
  <2>1. Solves([k \in 0..N |-> q], 0)
    BY <1>1
  <2> HIDE DEF Solves
  <2>. QED  BY <2>1
<1>3. ASSUME NEW n \in K PROVE n + 1 \in K
  <2>1. PICK f : Solves(f, n)
    BY <1>3
  <2>2. ASSUME NEW k \in 0..N, k <= n + 1, k # 0
        PROVE  Step(f)[k] = Then(Step(f)[k - 1], k)
    <3>1. k - 1 \in 0..N /\ k - 1 <= n
      BY <1>1, <1>3, <2>2
    <3>2. Step(f)[k - 1] = f[k - 1]
      BY <2>1, <3>1
    <3>. QED  BY <2>2, <3>2
  <2>3. Step(f)[0] = q
    BY <1>1
  <2>4. Solves(Step(f), n + 1)
    BY <2>2, <2>3
  <2> HIDE DEF Solves, Step
  <2>. QED  BY <2>4, <1>3
<1>4. K = Nat
  <2> HIDE DEF Solves
  <2>. QED  BY <1>2, <1>3, AllNaturals
<1>5. PICK f : Solves(f, N)
  BY <1>1, <1>4
<1>6. \A k \in 0..N : Step(f)[k] = f[k]
  BY <1>1, <1>5
<1>7. \A k \in 0..N : k # 0 => k - 1 \in 0..N
  BY <1>1
<1>8. \A k \in 0..N : k # 0 => Step(f)[k] = Then(Step(f)[k - 1], k)
  BY <1>6, <1>7
<1>9. DeliversBy(q, event, recipients, location, Step(f))
  BY <1>8 DEF DeliversBy, N, Then
<1>. QED  BY <1>9

UnfoldsTo(q, event, recipients, location, F) ==
  /\ F[0] = q /\ Deliver(q, event, recipients, location) = F[Len(recipients)]
  /\ \A n \in 1..Len(recipients) :
       F[n] = DeliverTo(F[n - 1], event, recipients[n], location)

\* Deliver goes from recipient to recipient.
LEMMA DeliverUnfolds ==
  ASSUME NEW q, NEW event, NEW recipients \in Seq(RecipientType), NEW location
  PROVE  \E F : UnfoldsTo(q, event, recipients, location, F)
<1> DEFINE F == CHOOSE after : DeliversBy(q, event, recipients, location, after)
<1>1. DeliversBy(q, event, recipients, location, F)
  BY DeliverExists, Zenon
<1>2. Deliver(q, event, recipients, location) = F[Len(recipients)]
  BY DEF Deliver, DeliversBy
<1> HIDE DEF F
<1>3. Len(recipients) \in Nat
  OBVIOUS
<1>4. /\ F[0] = q
      /\ \A n \in 1..Len(recipients) :
           F[n] = DeliverTo(F[n - 1], event, recipients[n], location)
  <2>1. 0 \in 0..Len(recipients)
    BY <1>3
  <2>2. \A n \in 1..Len(recipients) : n \in 0..Len(recipients) /\ n # 0
    BY <1>3
  <2>. QED  BY <1>1, <2>1, <2>2 DEF DeliversBy
<1>. QED  BY <1>2, <1>4 DEF UnfoldsTo

\* After n recipients.
Delivered(q, new, e, rs, n, rec) ==
  /\ \A j \in Instances :
       /\ q.published[j] \subseteq new.published[j] /\ q.refused[j] \subseteq new.refused[j]
       /\ \A f \in new.published[j] :
            \/ f \in q.published[j]
            \/ f = e /\ j \in Listed /\ e \in rec[j] /\ NotYet(q, e, j) /\ ~q.closed
  /\ ~new.closed =>
       /\ ~q.closed /\ new.placed = q.placed /\ new.unplaced = q.unplaced
       /\ \A h \in Keys : new.lanes[<<h, Router>>] = q.lanes[<<h, Router>>]
       /\ \A m \in 1..n :
            rs[m].id \in Listed => Settled(new, rs[m].id, e) \/ Queued(new, e, rs[m].id)
       /\ \A m \in 1..Len(rs) : m > n => NotYet(new, e, rs[m].id)

LEMMA DeliveredMore ==
  ASSUME NEW q, NEW mid, NEW new, NEW e \in Events, NEW rs \in Seq(RecipientType), NEW rec,
         NEW n \in 1..Len(rs), Delivered(q, mid, e, rs, n - 1, rec),
         HandedOn(mid, new, e, rs[n].id, rec), mid.closed => new = mid,
         \A k, m \in 1..Len(rs) : k # m => rs[k].id # rs[m].id,
         ~q.closed => \A m \in 1..Len(rs) : NotYet(q, e, rs[m].id), Listed \subseteq Instances
  PROVE  Delivered(q, new, e, rs, n, rec)
<1> DEFINE i == rs[n].id
<1>1. /\ Len(rs) \in Nat /\ e.key \in Keys /\ i \in Instances
      /\ \A m \in 1..Len(rs) : rs[m].id \in Instances /\ <<e.key, rs[m].id>> \in Lanes
      /\ \A h \in Keys : <<h, Router>> \in Lanes /\ <<h, Router>> # <<e.key, i>>
  <2>1. \A m \in 1..Len(rs) : rs[m] \in RecipientType
    OBVIOUS
  <2>2. \A m \in 1..Len(rs) : rs[m].id \in Instances
    BY <2>1 DEF RecipientType
  <2>. QED  BY <2>2, EventTypes, TypeConstants
<1>2. ASSUME NEW j \in Instances
      PROVE  /\ q.published[j] \subseteq new.published[j] /\ q.refused[j] \subseteq new.refused[j]
             /\ \A f \in new.published[j] :
                  \/ f \in q.published[j]
                  \/ f = e /\ j \in Listed /\ e \in rec[j] /\ NotYet(q, e, j) /\ ~q.closed
  <2>1. q.published[j] \subseteq new.published[j] /\ q.refused[j] \subseteq new.refused[j]
    BY DEF Delivered, HandedOn
  <2>2. ASSUME NEW f \in new.published[j], f \notin mid.published[j]
        PROVE  f = e /\ j \in Listed /\ e \in rec[j] /\ NotYet(q, e, j) /\ ~q.closed
    <3>1. j = i /\ f = e /\ i \in Listed /\ e \in rec[i]
      BY <1>1, <2>2 DEF HandedOn
    <3>2. ~mid.closed
      BY <2>2
    <3>3. ~q.closed
      BY <3>2 DEF Delivered
    <3>. QED  BY <3>1, <3>3
  <2>3. \A f \in mid.published[j] :
          \/ f \in q.published[j]
          \/ f = e /\ j \in Listed /\ e \in rec[j] /\ NotYet(q, e, j) /\ ~q.closed
    BY DEF Delivered
  <2>. QED  BY <2>1, <2>2, <2>3
<1>3. ASSUME ~new.closed
      PROVE  /\ ~q.closed /\ new.placed = q.placed /\ new.unplaced = q.unplaced
             /\ \A h \in Keys : new.lanes[<<h, Router>>] = q.lanes[<<h, Router>>]
             /\ \A m \in 1..n :
                  rs[m].id \in Listed => Settled(new, rs[m].id, e) \/ Queued(new, e, rs[m].id)
             /\ \A m \in 1..Len(rs) : m > n => NotYet(new, e, rs[m].id)
  <2>1. ~mid.closed
    BY <1>3
  <2>2. /\ ~q.closed /\ mid.placed = q.placed /\ mid.unplaced = q.unplaced
        /\ \A h \in Keys : mid.lanes[<<h, Router>>] = q.lanes[<<h, Router>>]
        /\ \A m \in 1..(n - 1) :
             rs[m].id \in Listed => Settled(mid, rs[m].id, e) \/ Queued(mid, e, rs[m].id)
        /\ \A m \in 1..Len(rs) : m > n - 1 => NotYet(mid, e, rs[m].id)
    BY <2>1 DEF Delivered
  <2>3. /\ \A l \in Lanes : l # <<e.key, i>> => new.lanes[l] = mid.lanes[l]
        /\ new.placed = mid.placed /\ new.unplaced = mid.unplaced
        /\ i \in Listed => Settled(new, i, e) \/ Queued(new, e, i)
        /\ \A j \in Instances :
             /\ mid.published[j] \subseteq new.published[j]
             /\ mid.refused[j] \subseteq new.refused[j]
             /\ j # i => new.published[j] = mid.published[j]
    BY <1>3 DEF HandedOn
  <2>4. ASSUME NEW m \in 1..Len(rs), m # n
        PROVE  /\ new.lanes[<<e.key, rs[m].id>>] = mid.lanes[<<e.key, rs[m].id>>]
               /\ new.published[rs[m].id] = mid.published[rs[m].id]
    <3>1. rs[m].id # i
      BY <2>4
    <3>2. rs[m].id \in Instances /\ <<e.key, rs[m].id>> \in Lanes
      BY <1>1
    <3>. HIDE DEF i
    <3>3. <<e.key, rs[m].id>> # <<e.key, i>>
      BY <3>1
    <3>. QED  BY <2>3, <3>1, <3>2, <3>3
  <2>5. ASSUME NEW m \in 1..n, rs[m].id \in Listed
        PROVE  Settled(new, rs[m].id, e) \/ Queued(new, e, rs[m].id)
    <3>1. CASE m = n
      BY <2>3, <2>5, <3>1
    <3>2. CASE m # n
      <4>1. m \in 1..(n - 1) /\ m \in 1..Len(rs)
        BY <1>1, <3>2
      <4>2. Settled(mid, rs[m].id, e) \/ Queued(mid, e, rs[m].id)
        BY <2>2, <2>5, <4>1
      <4>3. Queued(mid, e, rs[m].id) => Queued(new, e, rs[m].id)
        BY <2>4, <3>2, <4>1 DEF Queued
      <4>4. Settled(mid, rs[m].id, e) => Settled(new, rs[m].id, e)
        BY <1>1, <2>3, <4>1 DEF Settled
      <4>. QED  BY <4>2, <4>3, <4>4
    <3>. QED  BY <3>1, <3>2
  <2>6. ASSUME NEW m \in 1..Len(rs), m > n
        PROVE  NotYet(new, e, rs[m].id)
    <3>1. m # n /\ m > n - 1
      BY <1>1, <2>6
    <3>. QED  BY <2>2, <2>4, <3>1 DEF NotYet
  <2>. QED  BY <1>1, <2>2, <2>3, <2>5, <2>6
<1>. QED  BY <1>2, <1>3 DEF Delivered

\* The recipients rs listen, and did not hear of e.
ToHear(q, e, rs, rec) ==
  /\ rs \in Seq(RecipientType)
  /\ \A m \in 1..Len(rs) : rs[m].epoch = 1 /\ e \in rec[rs[m].id]
  /\ \A k, m \in 1..Len(rs) : k # m => rs[k].id # rs[m].id
  /\ ~q.closed => \A m \in 1..Len(rs) : NotYet(q, e, rs[m].id)

LEMMA DeliverGood ==
  ASSUME NEW q, NEW rec, NEW ws, NEW w, NEW e, NEW rs, NEW location,
         Good(q, rec, ws, w, {e}), HearingOK(rec), HandsOn(q, e, location),
         ToHear(q, e, rs, rec), NEW new, new = Deliver(q, e, rs, location)
  PROVE  Good(new, rec, ws, w, {e}) /\ Delivered(q, new, e, rs, Len(rs), rec)
<1>a. /\ rs \in Seq(RecipientType)
      /\ \A m \in 1..Len(rs) : rs[m].epoch = 1 /\ e \in rec[rs[m].id]
      /\ \A k, m \in 1..Len(rs) : k # m => rs[k].id # rs[m].id
      /\ ~q.closed => \A m \in 1..Len(rs) : NotYet(q, e, rs[m].id)
  BY DEF ToHear
<1>0. PICK F : UnfoldsTo(q, e, rs, location, F)
  BY <1>a, DeliverUnfolds
<1>1. /\ F[0] = q /\ Deliver(q, e, rs, location) = F[Len(rs)]
      /\ \A n \in 1..Len(rs) : F[n] = DeliverTo(F[n - 1], e, rs[n], location)
  BY <1>0 DEF UnfoldsTo
<1> DEFINE Fine(n) == Good(F[n], rec, ws, w, {e}) /\ Delivered(q, F[n], e, rs, n, rec)
           K == {n \in Nat : n <= Len(rs) => Fine(n)}
<1>2. Len(rs) \in Nat /\ e \in Events /\ Listed \subseteq Instances
  BY <1>a DEF HandsOn, HearingOK
<1>3. 0 \in K
  <2>1. Delivered(q, q, e, rs, 0, rec)
    BY <1>a, <1>2 DEF Delivered
  <2>. QED  BY <1>1, <2>1
<1>4. ASSUME NEW n \in K PROVE n + 1 \in K
  <2> SUFFICES ASSUME n + 1 <= Len(rs) PROVE Fine(n + 1)
    BY <1>4
  <2>1. n \in Nat /\ n <= Len(rs) /\ n + 1 \in 1..Len(rs) /\ (n + 1) - 1 = n
    BY <1>2, <1>4
  <2>2. Good(F[n], rec, ws, w, {e}) /\ Delivered(q, F[n], e, rs, n, rec)
    BY <1>4, <2>1
  <2>3. F[n + 1] = DeliverTo(F[n], e, rs[n + 1], location)
    BY <1>1, <2>1
  <2>4. HandsOn(F[n], e, location)
    <3>1. ~F[n].closed => /\ ~q.closed
                          /\ F[n].lanes[<<e.key, Router>>] = q.lanes[<<e.key, Router>>]
      BY <1>2, <2>2, EventTypes DEF Delivered
    <3>. QED  BY <3>1 DEF HandsOn
  <2>5. ~F[n].closed => NotYet(F[n], e, rs[n + 1].id)
    <3>1. n + 1 > n
      BY <2>1
    <3>. QED  BY <2>1, <2>2, <3>1 DEF Delivered
  <2>6. rs[n + 1] \in RecipientType /\ rs[n + 1].epoch = 1 /\ e \in rec[rs[n + 1].id]
    BY <1>a, <2>1
  <2>7. /\ Good(F[n + 1], rec, ws, w, {e}) /\ HandedOn(F[n], F[n + 1], e, rs[n + 1].id, rec)
        /\ F[n].closed => F[n + 1] = F[n]
    <3> DEFINE mid == F[n]
               to == rs[n + 1]
    <3>1. Good(mid, rec, ws, w, {e})
      BY <2>2
    <3>2. HandsOn(mid, e, location) /\ (~mid.closed => NotYet(mid, e, to.id))
      BY <2>4, <2>5
    <3>3. to \in RecipientType /\ to.epoch = 1 /\ e \in rec[to.id]
      BY <2>6
    <3>4. F[n + 1] = DeliverTo(mid, e, to, location)
      BY <2>3
    <3>. HIDE DEF mid, to
    <3>5. /\ Good(F[n + 1], rec, ws, w, {e}) /\ HandedOn(mid, F[n + 1], e, to.id, rec)
          /\ mid.closed => F[n + 1] = mid
      BY <3>1, <3>2, <3>3, <3>4, DeliverToGood
    <3>. QED  BY <3>5 DEF mid, to
  <2>8. Delivered(q, F[n + 1], e, rs, n + 1, rec)
    BY <1>a, <1>2, <2>1, <2>2, <2>7, DeliveredMore
  <2>. QED  BY <2>7, <2>8
<1>5. K = Nat
  <2> HIDE DEF Fine
  <2>. QED  BY <1>3, <1>4, AllNaturals
<1>6. Fine(Len(rs))
  <2> HIDE DEF Fine
  <2>1. \A n \in Nat : n <= Len(rs) => Fine(n)
    BY <1>5
  <2>. QED  BY <1>2, <2>1
<1>. QED  BY <1>1, <1>6

-----------------------------------------------------------------------------
(* An event is routed *)

\* Places are remembered and forgotten.
LEMMA PlacedGood ==
  ASSUME NEW q, NEW rec, NEW ws, NEW w, NEW now, Good(q, rec, ws, w, now), HearingOK(rec),
         NEW new \in Memory, new.lanes = q.lanes, SameSize(q, new),
         new.published = q.published, new.owners = q.owners,
         \A i \in Instances : q.refused[i] \subseteq new.refused[i],
         q.unplaced \subseteq new.unplaced,
         ~q.closed => \A s \in Sessions :
           /\ PlaceOK(Ahead(q, w, s) \ now, s, new.placed[s])
           /\ q.lanes[<<s, Router>>] # <<>>
                /\ q.lanes[<<s, Router>>][1].stage \in {"waiting", "answered"} =>
                new.placed[s] \notin Locations
  PROVE  Good(new, rec, ws, w, now)
<1>1. /\ q \in Memory /\ JobsOK(q, rec) /\ PlacesOK(q, w, now) /\ OwnersOK(q, ws)
  BY DEF Good
<1>2. FurtherOn(q.lanes, new.lanes) /\ RoutersStay(q.lanes, new.lanes)
  BY DEF FurtherOn, RoutersStay
<1>3. HeadsOK(new.lanes)
  BY <1>1, HeadsOfJobs
<1>4. MoreSettled(q, new)
  BY DEF MoreSettled
<1>5. OwnersOK(new, ws)
  BY <1>1 DEF OwnersOK
<1>6. ~q.closed => \A s \in Sessions :
         /\ PlaceOK(Ahead(q, w, s) \ now, s, new.placed[s])
         /\ new.lanes[<<s, Router>>] # <<>> =>
              AnswerOK(Ahead(q, w, s), s, new.placed[s], new.lanes[<<s, Router>>][1])
  BY <1>1 DEF PlacesOK, AnswerOK
<1>. QED  BY <1>2, <1>3, <1>4, <1>5, <1>6, FurtherGood DEF HearingOK

LEMMA RoutingHead ==
  ASSUME NEW q, NEW rec, NEW ws, NEW w, NEW now, Good(q, rec, ws, w, now),
         NEW k \in Keys, q.lanes[<<k, Router>>] # <<>>
  PROVE  LET job == q.lanes[<<k, Router>>][1]
         IN  /\ <<k, Router>> \in Lanes /\ ~q.closed /\ q \in Memory
             /\ Head(q.lanes[<<k, Router>>]) = job /\ job \in Jobs /\ job.event \in Events
             /\ job.event.key = k /\ StageOK(<<k, Router>>, job)
             /\ HearersOK(Router, job.event, job.recipients, rec)
             /\ job.recipients \in Seq(RecipientType)
             /\ 1 \in 1..Len(q.lanes[<<k, Router>>]) /\ Len(q.lanes[<<k, Router>>]) \in Nat
<1> DEFINE lane == <<k, Router>>
           job == q.lanes[lane][1]
<1>1. lane \in Lanes /\ q \in Memory /\ lane[1] = k /\ lane[2] = Router
  BY TypeConstants DEF Good
<1>2. ~q.closed
  BY <1>1 DEF Good, CountOK
<1>3. Head(q.lanes[lane]) = job /\ job \in Jobs /\ 1 \in 1..Len(q.lanes[lane])
      /\ job.event \in Events /\ Len(q.lanes[lane]) \in Nat
  BY <1>1, LaneTypes
<1>4. JobOK(lane, job, rec)
  BY <1>1, <1>3 DEF Good, JobsOK
<1>5. job.recipients \in Seq(RecipientType)
  BY <1>3 DEF Jobs, RecipientType
<1>. HIDE DEF job
<1>6. /\ job.event.key = k /\ StageOK(lane, job)
      /\ HearersOK(Router, job.event, job.recipients, rec)
  BY <1>1, <1>4 DEF JobOK
<1>. QED  BY <1>1, <1>2, <1>3, <1>5, <1>6 DEF job

\* Among the events that are ahead, that of the routing head is the oldest, and nobody
\* was handed it before.
LEMMA HeadIsOldest ==
  ASSUME NEW q, NEW rec, NEW ws, NEW w, Good(q, rec, ws, w, {}),
         NEW k \in Keys, q.lanes[<<k, Router>>] # <<>>, q.lanes[<<k, Router>>][1].stage # "done"
  PROVE  LET e == q.lanes[<<k, Router>>][1].event
         IN  /\ \A i \in Instances : NotYet(q, e, i)
             /\ k \in Sessions => Oldest(e, Ahead(q, w, k))
<1> DEFINE lane == <<k, Router>>
           e == q.lanes[lane][1].event
<1>1. /\ lane \in Lanes /\ q \in Memory /\ e \in Events /\ e.key = k
      /\ 1 \in 1..Len(q.lanes[lane]) /\ Len(q.lanes[lane]) \in Nat
  BY RoutingHead
<1>2. OrderOK(q, w, {})
  BY DEF Good
<1>3. \A f : AheadOf(f, q.lanes[lane][1], {}) => f.id < e.id
  BY DEF AheadOf
<1>4. ASSUME NEW i \in Instances PROVE NotYet(q, e, i)
  <2>1. /\ \A m \in 1..Len(q.lanes[<<k, i>>]) :
             AheadOf(q.lanes[<<k, i>>][m].event, q.lanes[lane][1], {})
        /\ \A f \in q.published[i] :
             f.key = k /\ e.type # "connected" => AheadOf(f, q.lanes[lane][1], {})
    BY <1>1, <1>2 DEF OrderOK, RoutedAhead
  <2>. QED  BY <1>1, <1>3, <2>1 DEF NotYet
<1>5. ASSUME k \in Sessions PROVE Oldest(e, Ahead(q, w, k))
  <2>1. e \in Ahead(q, w, k)
    BY <1>1, <1>5 DEF Ahead, Queued
  <2>2. ASSUME NEW f \in Ahead(q, w, k), f # e PROVE e.id < f.id
    <3>1. f.key = k
      BY DEF Ahead
    <3>2. CASE Queued(q, f, Router)
      <4>1. PICK n \in 1..Len(q.lanes[lane]) : q.lanes[lane][n].event = f
        BY <3>1, <3>2 DEF Queued
      <4>2. n # 1
        BY <2>2, <4>1
      <4>3. 1 < n
        BY <1>1, <4>1, <4>2
      <4>. QED  BY <1>1, <1>2, <4>1, <4>3 DEF OrderOK, LanesOrdered
    <3>3. CASE \E n \in 1..Len(w) : w[n] = f
      BY <1>1, <1>2, <3>3 DEF OrderOK, ReceivedAhead
    <3>. QED  BY <3>2, <3>3 DEF Ahead
  <2>. QED  BY <2>1, <2>2, SMTT(30) DEF Oldest
<1>. QED  BY <1>4, <1>5

\* The routing of e starts.
LEMMA RouteStart ==
  ASSUME NEW q, NEW rec, NEW ws, NEW w, Good(q, rec, ws, w, {}),
         NEW k \in Keys, q.lanes[<<k, Router>>] # <<>>,
         q.lanes[<<k, Router>>][1].stage # "done", NEW e, e = q.lanes[<<k, Router>>][1].event,
         k \in Sessions /\ q.placed[k] \in Locations => ~Moved(e)
  PROVE  Good(q, rec, ws, w, {e})
<1>1. /\ q \in Memory
      /\ CountOK(q) /\ LateOK(q) /\ JobsOK(q, rec) /\ OrderOK(q, w, {})
      /\ KeptOK(q, rec) /\ RoutedOK(q) /\ PlacesOK(q, w, {}) /\ OwnersOK(q, ws)
  BY DEF Good
<1>2. e \in Events /\ e.key = k /\ ~q.closed
  BY RoutingHead
<1>3. k \in Sessions => Oldest(e, Ahead(q, w, k))
  BY HeadIsOldest
<1>4. OrderOK(q, w, {e})
  <2>1. \A f, b : AheadOf(f, b, {}) => AheadOf(f, b, {e})
    BY DEF AheadOf
  <2>. QED  BY <1>1, <2>1 DEF OrderOK, RoutedAhead
<1>5. PlacesOK(q, w, {e})
  <2> SUFFICES ASSUME NEW s \in Sessions
               PROVE  /\ HopsOK(Ahead(q, w, s) \ {e}, s)
                      /\ PlaceOK(Ahead(q, w, s) \ {e}, s, q.placed[s])
    BY <1>1 DEF PlacesOK
  <2>0. Ahead(q, w, s) \ {} = Ahead(q, w, s) /\ Ahead(q, w, s) \subseteq Events
    BY DEF Ahead
  <2>1. HopsOK(Ahead(q, w, s), s) /\ PlaceOK(Ahead(q, w, s), s, q.placed[s])
    BY <1>1, <1>2, <2>0 DEF PlacesOK
  <2>2. CASE s # k
    <3>1. e \notin Ahead(q, w, s)
      BY <1>2, <2>2 DEF Ahead
    <3>2. Ahead(q, w, s) \ {e} = Ahead(q, w, s)
      BY <3>1
    <3>. QED  BY <2>1, <3>2
  <2>3. CASE s = k
    <3>1. HopsOK(Ahead(q, w, s) \ {e}, s)
      BY <1>3, <2>0, <2>1, <2>3, HopsLess
    <3>2. PlaceOK(Ahead(q, w, s) \ {e}, s, q.placed[s])
      BY <2>0, <2>1, <2>3, ServesLess DEF PlaceOK
    <3>. QED  BY <3>1, <3>2
  <2>. QED  BY <2>2, <2>3
<1>. QED  BY <1>1, <1>4, <1>5 DEF Good

LEMMA ClosedGood ==
  ASSUME NEW q, NEW rec, NEW ws, NEW w, NEW now, NEW later, Good(q, rec, ws, w, now), q.closed
  PROVE  Good(q, rec, ws, w, later)
<1>1. /\ q \in Memory /\ CountOK(q) /\ LateOK(q) /\ OrderOK(q, w, now) /\ OwnersOK(q, ws)
  BY DEF Good
<1>2. \A l \in Lanes : q.lanes[l] = <<>>
  BY <1>1 DEF CountOK
<1>3. q.count = 0
  BY <1>1, <1>2, NoSlots DEF CountOK
<1>4. \A i \in Instances, l \in Locations : q.owners[i][l] = "yes" => l \in ws[i]
  BY <1>1 DEF OwnersOK
<1>5. \A i \in Instances : \A f \in q.published[i] :
        /\ f.id <= sent
        /\ \A k \in 1..Len(w) : w[k].type # "connected" => f.id < w[k].id
  BY <1>1 DEF OrderOK, ReceivedAhead
<1>. QED  BY <1>1, <1>2, <1>3, <1>4, <1>5, EmptyGood

\* The routing of e ends.
LEMMA RouteEnds ==
  ASSUME NEW q, NEW rec, NEW ws, NEW w, NEW k \in Keys, NEW e, Good(q, rec, ws, w, {e}),
         HearingOK(rec),
         ~q.closed =>
           /\ q.lanes[<<k, Router>>] # <<>> /\ e = q.lanes[<<k, Router>>][1].event
           /\ \A i \in Listed : e \in rec[i] => Settled(q, i, e) \/ Queued(q, e, i)
  PROVE  /\ Good(Done(q, <<k, Router>>), rec, ws, w, {})
         /\ Done(q, <<k, Router>>).published = q.published
<1> DEFINE lane == <<k, Router>>
           new == Done(q, lane)
<1>1. CASE q.closed
  BY <1>1, ClosedGood DEF Done
<1>2. CASE ~q.closed
  <2>1. q \in Memory /\ lane \in Lanes
    BY TypeConstants DEF Good
  <2>2. LaneStep(q, new, lane, Ended(q.lanes[lane][1])) /\ SameCaches(q, new)
    BY <1>2, <2>1, DoneFields
  <2>. HIDE DEF new
  <2>3. /\ new \in Memory /\ SameSize(q, new)
        /\ HeadIs(q.lanes, new.lanes, lane, Ended(q.lanes[lane][1]))
        /\ new.placed = q.placed /\ new.owners = q.owners /\ q.unplaced \subseteq new.unplaced
        /\ new.published = q.published /\ new.refused = q.refused
        /\ new.unplaced = q.unplaced
    BY <2>2 DEF LaneStep, SameCaches
  <2>4. \A i \in Listed : e \in rec[i] => Settled(new, i, e) \/ Queued(q, e, i)
    BY <1>2, <2>3 DEF Settled
  <2>5. Good(new, rec, ws, w, {})
    BY <1>2, <2>3, <2>4, RouteDoneGood DEF HearingOK
  <2>. QED  BY <2>3, <2>5 DEF new
<1>. QED  BY <1>1, <1>2

\* In new nothing was published but e, to who listens and did not hear of it before.
OnlyNews(q, new, e, rec) ==
  \A j \in Instances : \A f \in new.published[j] :
    \/ f \in q.published[j]
    \/ f = e /\ j \in Listed /\ e \in rec[j] /\ NotYet(q, e, j)

\* In new the place of x is forgotten.
Drops(q, new, x) ==
  /\ new.lanes = q.lanes /\ new.closed = q.closed
  /\ new.published = q.published /\ new.refused = q.refused
  /\ new.unplaced = q.unplaced /\ (x \in Entities => new.placed[x] = "none")

LEMMA DropGood ==
  ASSUME NEW q, NEW rec, NEW ws, NEW w, NEW now, Good(q, rec, ws, w, now), HearingOK(rec),
         NEW x, NEW new, new = [q EXCEPT !.placed[x] = "none"]
  PROVE  Good(new, rec, ws, w, now) /\ Drops(q, new, x)
<1>1. q \in Memory /\ PlacesOK(q, w, now)
  BY DEF Good
<1> DEFINE P == [q.placed EXCEPT ![x] = "none"]
<1>2. q.placed \in [Entities -> Places \cup {"none", "asked"}]
  BY <1>1 DEF Memory
<1>3. /\ P \in [Entities -> Places \cup {"none", "asked"}]
      /\ \A s \in Sessions : P[s] = q.placed[s] \/ P[s] = "none"
      /\ x \in Entities => P[x] = "none"
  BY <1>2, TypeConstants
<1>4. new = [q EXCEPT !.placed = P]
  OBVIOUS
<1>. HIDE DEF P
<1>5. /\ new \in Memory /\ new.lanes = q.lanes /\ SameSize(q, new) /\ new.placed = P
      /\ new.published = q.published /\ new.owners = q.owners
      /\ new.refused = q.refused /\ new.unplaced = q.unplaced
  BY <1>1, <1>3, <1>4, ZenonT(40) DEF Memory, SameSize
<1>6. "none" \notin Locations
  BY TypeConstants
<1>7. ~q.closed => \A s \in Sessions :
         /\ PlaceOK(Ahead(q, w, s) \ now, s, new.placed[s])
         /\ q.lanes[<<s, Router>>] # <<>>
              /\ q.lanes[<<s, Router>>][1].stage \in {"waiting", "answered"} =>
              new.placed[s] \notin Locations
  BY <1>1, <1>3, <1>5, <1>6 DEF PlacesOK, PlaceOK, AnswerOK
<1>8. Good(new, rec, ws, w, now)
  BY <1>5, <1>7, PlacedGood
<1>. QED  BY <1>3, <1>5, <1>8 DEF SameSize, Drops

LEMMA ForgetGood ==
  ASSUME NEW q, NEW rec, NEW ws, NEW w, NEW now, Good(q, rec, ws, w, now), HearingOK(rec),
         NEW e \in Events
  PROVE  LET new == Forget(q, e)
         IN  /\ Good(new, rec, ws, w, now) /\ new.lanes = q.lanes /\ new.closed = q.closed
             /\ new.published = q.published /\ new.refused = q.refused
             /\ new.unplaced = q.unplaced
<1>1. CASE e.type # "deleted"
  BY <1>1 DEF Forget
<1>2. CASE e.type = "deleted"
  <2> DEFINE new == Forget(q, e)
             x == e.key
  <2>1. new = [q EXCEPT !.placed[x] = "none"]
    BY <1>2 DEF Forget
  <2>. HIDE DEF new, x
  <2>2. Good(new, rec, ws, w, now) /\ Drops(q, new, x)
    BY <2>1, DropGood
  <2>. QED  BY <2>2 DEF Drops, new
<1>. QED  BY <1>1, <1>2

\* The head of the lane of k routes e, which nobody heard of.
RoutesNow(q, k, e) ==
  /\ q.lanes[<<k, Router>>] # <<>> /\ q.lanes[<<k, Router>>][1].event = e
  /\ \A i \in Instances : NotYet(q, e, i)

\* In new, e was handed on to who listens.
ToldAll(q, new, k, e, rec) ==
  /\ OnlyNews(q, new, e, rec)
  /\ ~new.closed =>
       /\ new.lanes[<<k, Router>>] = q.lanes[<<k, Router>>]
       /\ \A i \in Listed : e \in rec[i] => Settled(new, i, e) \/ Queued(new, e, i)

\* Delivered to the recipients of a routing head, an event is known to who listens.
LEMMA DeliverToAll ==
  ASSUME NEW q, NEW rec, NEW ws, NEW w, NEW k \in Keys, NEW e, Good(q, rec, ws, w, {e}),
         HearingOK(rec), RoutesNow(q, k, e), NEW location, HandsOn(q, e, location),
         NEW new, new = Deliver(q, e, q.lanes[<<k, Router>>][1].recipients, location)
  PROVE  Good(new, rec, ws, w, {e}) /\ ToldAll(q, new, k, e, rec)
<1> DEFINE lane == <<k, Router>>
           rs == q.lanes[lane][1].recipients
<1>0. new = Deliver(q, e, rs, location)
  OBVIOUS
<1>1. /\ rs \in Seq(RecipientType) /\ HearersOK(Router, e, rs, rec) /\ e \in Events
      /\ Listed \subseteq Instances
  BY RoutingHead DEF HearingOK, RoutesNow
<1> HIDE DEF rs
<1>2. /\ \A m \in 1..Len(rs) : rs[m].epoch = 1 /\ e \in rec[rs[m].id]
      /\ \A j, m \in 1..Len(rs) : j # m => rs[j].id # rs[m].id
      /\ \A i \in Listed : e \in rec[i] => \E n \in 1..Len(rs) : rs[n].id = i
  BY <1>1 DEF HearersOK
<1>3. \A m \in 1..Len(rs) : NotYet(q, e, rs[m].id)
  <2>1. \A m \in 1..Len(rs) : rs[m] \in RecipientType
    BY <1>1
  <2>. QED  BY <2>1 DEF RecipientType, RoutesNow
<1>4. Good(new, rec, ws, w, {e}) /\ Delivered(q, new, e, rs, Len(rs), rec)
  <2>1. ToHear(q, e, rs, rec)
    BY <1>1, <1>2, <1>3, SMTT(40) DEF ToHear
  <2>. QED  BY <1>0, <2>1, DeliverGood
<1>5. OnlyNews(q, new, e, rec)
  BY <1>4 DEF OnlyNews, Delivered
<1>6. ASSUME ~new.closed
      PROVE  /\ new.lanes[<<k, Router>>] = q.lanes[<<k, Router>>]
             /\ \A i \in Listed : e \in rec[i] => Settled(new, i, e) \/ Queued(new, e, i)
  <2>1. /\ new.lanes[<<k, Router>>] = q.lanes[<<k, Router>>]
        /\ \A m \in 1..Len(rs) :
             rs[m].id \in Listed => Settled(new, rs[m].id, e) \/ Queued(new, e, rs[m].id)
    BY <1>4, <1>6 DEF Delivered
  <2>. QED  BY <1>2, <2>1, SMTT(40)
<1>. QED  BY <1>4, <1>5, <1>6 DEF ToldAll

\* What location is right for, when e of k is routed to it.
RoutesTo(q, w, k, e, location) ==
  /\ location \in Places
  /\ k \in Sessions /\ location # NoLocation =>
       /\ AtOrAfter(k, e.hop, location)
       /\ ~Moved(e) => Serves(location, Ahead(q, w, k) \ {e}, k)

SameQueue(q, new) ==
  new.lanes = q.lanes /\ new.closed = q.closed /\ new.published = q.published

LEMMA RememberGood ==
  ASSUME NEW q, NEW rec, NEW ws, NEW w, NEW k \in Keys, NEW e, Good(q, rec, ws, w, {e}),
         HearingOK(rec), RoutesNow(q, k, e), q.lanes[<<k, Router>>][1].stage = "queued", NEW location, RoutesTo(q, w, k, e, location),
         NEW new, new = Remember(q, e, location)
  PROVE  Good(new, rec, ws, w, {e}) /\ SameQueue(q, new)
<1>1. q \in Memory /\ PlacesOK(q, w, {e}) /\ e \in Events /\ e.key = k
  BY RoutingHead DEF Good, RoutesNow
<1>0. /\ location \in Places
      /\ k \in Sessions /\ location # NoLocation /\ ~Moved(e) =>
           Serves(location, Ahead(q, w, k) \ {e}, k)
  BY DEF RoutesTo
<1>2. CASE e.key = Service \/ e.type = "moved"
  BY <1>2 DEF Remember, SameQueue
<1>3. CASE ~(e.key = Service \/ e.type = "moved")
  <2> DEFINE P == [q.placed EXCEPT ![k] = location]
  <2>1. new = [q EXCEPT !.placed = P]
    BY <1>1, <1>3 DEF Remember
  <2>2. q.placed \in [Entities -> Places \cup {"none", "asked"}] /\ k \in Entities
    BY <1>1, <1>3, TypeConstants DEF Memory
  <2>3. /\ P \in [Entities -> Places \cup {"none", "asked"}]
        /\ \A s \in Sessions : P[s] = IF s = k THEN location ELSE q.placed[s]
    BY <1>0, <2>2, TypeConstants
  <2>. HIDE DEF P
  <2>4. /\ new \in Memory /\ new.lanes = q.lanes /\ SameSize(q, new) /\ new.placed = P
        /\ new.published = q.published /\ new.owners = q.owners
        /\ new.refused = q.refused /\ new.unplaced = q.unplaced
    BY <1>1, <2>1, <2>3 DEF Memory, SameSize
  <2>5. ASSUME ~q.closed, NEW s \in Sessions
        PROVE  /\ PlaceOK(Ahead(q, w, s) \ {e}, s, new.placed[s])
               /\ q.lanes[<<s, Router>>] # <<>>
                    /\ q.lanes[<<s, Router>>][1].stage \in {"waiting", "answered"} =>
                    new.placed[s] \notin Locations
    <3>1. CASE s # k
      BY <1>1, <2>3, <2>4, <2>5, <3>1 DEF PlacesOK, AnswerOK
    <3>2. CASE s = k
      <4>1. new.placed[s] = location
        BY <2>3, <2>4, <3>2
      <4>2. location \in Locations => location # NoLocation
        BY TypeConstants
      <4>. QED  BY <1>0, <1>3, <3>2, <4>1, <4>2 DEF PlaceOK, Moved
    <3>. QED  BY <3>1, <3>2
  <2>6. Good(new, rec, ws, w, {e})
    BY <2>4, <2>5, PlacedGood
  <2>. QED  BY <2>4, <2>6 DEF SameSize, SameQueue
<1>. QED  BY <1>2, <1>3

LEMMA RouteGood ==
  ASSUME NEW q, NEW rec, NEW ws, NEW w, NEW k \in Keys, NEW e, Good(q, rec, ws, w, {e}),
         HearingOK(rec), RoutesNow(q, k, e), q.lanes[<<k, Router>>][1].stage = "queued",
         generation \in 1..MaxConnections, NEW location, RoutesTo(q, w, k, e, location)
  PROVE  /\ Good(Route(q, <<k, Router>>, location), rec, ws, w, {})
         /\ OnlyNews(q, Route(q, <<k, Router>>, location), e, rec)
<1> DEFINE lane == <<k, Router>>
           job == q.lanes[lane][1]
           rs == job.recipients
           new == Route(q, lane, location)
<1>1. /\ q \in Memory /\ lane \in Lanes /\ e \in Events /\ e.key = k
      /\ Head(q.lanes[lane]) = job /\ ~q.closed /\ q.lanes[lane] # <<>> /\ e = job.event /\ location \in Places
      /\ \A i \in Instances : NotYet(q, e, i)
      /\ k \in Sessions /\ location # NoLocation => AtOrAfter(k, e.hop, location)
  BY RoutingHead DEF RoutesNow, RoutesTo
<1>2. CASE location # NoLocation
  <2> DEFINE q1 == Remember(q, e, location)
             q2 == Deliver(q1, e, rs, location)
             q3 == Forget(q2, e)
  <2>1. new = Done(q3, lane)
    BY <1>1, <1>2 DEF Route
  <2>2. /\ Good(q1, rec, ws, w, {e}) /\ q1.lanes = q.lanes /\ q1.closed = q.closed
        /\ q1.published = q.published
    <3>1. q1 = Remember(q, e, location)
      OBVIOUS
    <3>. HIDE DEF q1
    <3>2. Good(q1, rec, ws, w, {e}) /\ SameQueue(q, q1)
      BY <3>1, RememberGood
    <3>. QED  BY <3>2 DEF SameQueue
  <2>. HIDE DEF q1
  <2>3. HandsOn(q1, e, location)
    BY <1>1, <1>2, <2>2 DEF HandsOn
  <2>4. RoutesNow(q1, k, e)
    BY <1>1, <2>2 DEF NotYet, RoutesNow
  <2>5. /\ Good(q2, rec, ws, w, {e}) /\ OnlyNews(q1, q2, e, rec)
        /\ ~q2.closed =>
             /\ q2.lanes[lane] = q1.lanes[lane]
             /\ \A i \in Listed : e \in rec[i] => Settled(q2, i, e) \/ Queued(q2, e, i)
    <3>1. q1.lanes[<<k, Router>>] # <<>> /\ e = q1.lanes[<<k, Router>>][1].event
          /\ rs = q1.lanes[<<k, Router>>][1].recipients
      BY <1>1, <2>2
    <3>2. q2 = Deliver(q1, e, q1.lanes[<<k, Router>>][1].recipients, location)
      BY <3>1
    <3>. HIDE DEF rs, q2
    <3>3. Good(q2, rec, ws, w, {e}) /\ ToldAll(q1, q2, k, e, rec)
      BY <2>2, <2>3, <2>4, <3>2, DeliverToAll, SMTT(30)
    <3>. QED  BY <3>3 DEF ToldAll
  <2>. HIDE DEF q2
  <2>6. /\ Good(q3, rec, ws, w, {e}) /\ q3.lanes = q2.lanes /\ q3.closed = q2.closed
        /\ q3.published = q2.published /\ q3.refused = q2.refused /\ q3.unplaced = q2.unplaced
    BY <1>1, <2>5, ForgetGood, SMTT(30)
  <2>. HIDE DEF q3
  <2>7. ~q3.closed =>
           /\ q3.lanes[<<k, Router>>] # <<>> /\ e = q3.lanes[<<k, Router>>][1].event
           /\ \A i \in Listed : e \in rec[i] => Settled(q3, i, e) \/ Queued(q3, e, i)
    <3>1. \A i : /\ Settled(q2, i, e) => Settled(q3, i, e)
                 /\ Queued(q2, e, i) => Queued(q3, e, i)
      BY <2>6 DEF Settled, Queued
    <3>. QED  BY <1>1, <2>2, <2>5, <2>6, <3>1
  <2>8. Good(new, rec, ws, w, {}) /\ new.published = q3.published
    BY <2>1, <2>6, <2>7, RouteEnds
  <2>. HIDE DEF new
  <2>9. OnlyNews(q, new, e, rec)
    BY <2>2, <2>5, <2>6, <2>8 DEF OnlyNews, NotYet
  <2>. QED  BY <2>8, <2>9 DEF new
<1>3. CASE location = NoLocation /\ (e.key = Service \/ (e.key \in Sessions /\ e.type = "deleted"))
  <2> DEFINE q2 == Deliver(q, e, rs, NoLocation)
             q3 == IF e.key = Service THEN q2 ELSE Forget(q2, e)
  <2>1. new = Done(q3, lane)
    BY <1>1, <1>3 DEF Route
  <2>3. HandsOn(q, e, NoLocation)
    BY <1>1 DEF HandsOn, Places
  <2>5. /\ Good(q2, rec, ws, w, {e}) /\ OnlyNews(q, q2, e, rec)
        /\ ~q2.closed =>
             /\ q2.lanes[lane] = q.lanes[lane]
             /\ \A i \in Listed : e \in rec[i] => Settled(q2, i, e) \/ Queued(q2, e, i)
    <3>1. q2 = Deliver(q, e, q.lanes[<<k, Router>>][1].recipients, NoLocation)
      OBVIOUS
    <3>. HIDE DEF q2
    <3>2. Good(q2, rec, ws, w, {e}) /\ ToldAll(q, q2, k, e, rec)
      BY <2>3, <3>1, DeliverToAll
    <3>. QED  BY <3>2 DEF ToldAll
  <2>. HIDE DEF q2
  <2>6. /\ Good(q3, rec, ws, w, {e}) /\ q3.lanes = q2.lanes /\ q3.closed = q2.closed
        /\ q3.published = q2.published /\ q3.refused = q2.refused /\ q3.unplaced = q2.unplaced
    BY <1>1, <2>5, ForgetGood
  <2>. HIDE DEF q3
  <2>7. ~q3.closed =>
           /\ q3.lanes[<<k, Router>>] # <<>> /\ e = q3.lanes[<<k, Router>>][1].event
           /\ \A i \in Listed : e \in rec[i] => Settled(q3, i, e) \/ Queued(q3, e, i)
    <3>1. \A i : /\ Settled(q2, i, e) => Settled(q3, i, e)
                 /\ Queued(q2, e, i) => Queued(q3, e, i)
      BY <2>6 DEF Settled, Queued
    <3>. QED  BY <1>1, <2>5, <2>6, <3>1
  <2>8. Good(new, rec, ws, w, {}) /\ new.published = q3.published
    BY <2>1, <2>6, <2>7, RouteEnds
  <2>. HIDE DEF new
  <2>9. OnlyNews(q, new, e, rec)
    BY <2>5, <2>6, <2>8 DEF OnlyNews
  <2>. QED  BY <2>8, <2>9 DEF new
<1>4. CASE location = NoLocation /\ ~(e.key = Service \/ (e.key \in Sessions /\ e.type = "deleted"))
  <2> DEFINE U == q.unplaced \cup {e}
             q3 == [q EXCEPT !.unplaced = U]
  <2>1. new = Done(q3, lane)
    BY <1>1, <1>4 DEF Route
  <2>2. U \in SUBSET Events
    BY <1>1, SMTT(30) DEF Memory
  <2>3. /\ q3 \in Memory /\ q3.lanes = q.lanes /\ SameSize(q, q3) /\ q3.placed = q.placed
        /\ q3.published = q.published /\ q3.owners = q.owners
        /\ q3.refused = q.refused /\ q3.unplaced = q.unplaced \cup {e}
    BY <1>1, <2>2 DEF Memory, SameSize
  <2>. HIDE DEF q3
  <2>4. Good(q3, rec, ws, w, {e})
    <3>1. ~q.closed => \A s \in Sessions :
             /\ PlaceOK(Ahead(q, w, s) \ {e}, s, q3.placed[s])
             /\ q.lanes[<<s, Router>>] # <<>>
                  /\ q.lanes[<<s, Router>>][1].stage \in {"waiting", "answered"} =>
                  q3.placed[s] \notin Locations
      BY <2>3 DEF PlacesOK, PlaceOK, AnswerOK, Good
    <3>. QED  BY <2>3, <3>1, PlacedGood
  <2>5. ~q3.closed =>
           /\ q3.lanes[<<k, Router>>] # <<>> /\ e = q3.lanes[<<k, Router>>][1].event
           /\ \A i \in Listed : e \in rec[i] => Settled(q3, i, e) \/ Queued(q3, e, i)
    BY <1>1, <2>3 DEF Settled
  <2>6. Good(new, rec, ws, w, {}) /\ new.published = q3.published
    BY <2>1, <2>4, <2>5, RouteEnds
  <2>. HIDE DEF new
  <2>7. OnlyNews(q, new, e, rec)
    BY <2>3, <2>6 DEF OnlyNews
  <2>. QED  BY <2>6, <2>7 DEF new
<1>. QED  BY <1>2, <1>3, <1>4

-----------------------------------------------------------------------------
(* The next event is routed *)

\* What a step did that routed e.
Resolved(q, new, e, rec, ws, w) == Good(new, rec, ws, w, {}) /\ OnlyNews(q, new, e, rec)

LEMMA UnplacedGood ==
  ASSUME NEW q, NEW rec, NEW ws, NEW w, NEW now, Good(q, rec, ws, w, now), HearingOK(rec),
         NEW e, NEW new, new = Unplaced(q, e)
  PROVE  /\ Good(new, rec, ws, w, now) /\ SameQueue(q, new)
         /\ Moved(e) /\ e.key \in Entities => new.placed[e.key] = "none"
<1>1. CASE e.type # "moved"
  BY <1>1 DEF Unplaced, SameQueue, Moved
<1>2. CASE e.type = "moved"
  <2>1. Unplaced(q, e) = [q EXCEPT !.placed[e.key] = "none"]
    BY <1>2 DEF Unplaced
  <2> DEFINE x == e.key
  <2>2. new = [q EXCEPT !.placed[x] = "none"]
    BY <2>1
  <2>. HIDE DEF x
  <2>3. Good(new, rec, ws, w, now) /\ Drops(q, new, x)
    BY <2>2, DropGood
  <2>. QED  BY <2>3 DEF SameQueue, Drops, x
<1>. QED  BY <1>1, <1>2

\* The session of the head is looked up.
Asking(q, s) ==
  [q EXCEPT !.placed[s] = "asked", !.lanes[<<s, Router>>][1].stage = "waiting"]

LEMMA AskGood ==
  ASSUME NEW q, NEW rec, NEW ws, NEW w, Good(q, rec, ws, w, {}), HearingOK(rec),
         NEW s \in Sessions, q.lanes[<<s, Router>>] # <<>>,
         q.lanes[<<s, Router>>][1].stage = "queued",
         NEW new, new = Asking(q, s)
  PROVE  Good(new, rec, ws, w, {}) /\ new.published = q.published
<1> DEFINE lane == <<s, Router>>
           job == [q.lanes[lane][1] EXCEPT !.stage = "waiting"]
           P == [q.placed EXCEPT ![s] = "asked"]
           L == WithHead(q.lanes, lane, job)
<1>1. /\ q \in Memory /\ lane \in Lanes /\ lane[2] = Router /\ lane[1] = s
      /\ q.lanes[lane][1] \in Jobs /\ s \in Keys /\ s \in Entities
  BY TypeConstants, RoutingHead DEF Good
<1>0. PlacesOK(q, w, {}) /\ OwnersOK(q, ws) /\ JobsOK(q, rec)
  BY DEF Good
<1>2. /\ job \in Jobs /\ job.event = q.lanes[lane][1].event /\ job.stage = "waiting"
      /\ job.recipients = q.lanes[lane][1].recipients
  BY <1>1 DEF Jobs
<1>3. /\ P \in [Entities -> Places \cup {"none", "asked"}] /\ P[s] = "asked"
      /\ \A x \in Sessions : x # s => P[x] = q.placed[x]
  BY <1>1, TypeConstants DEF Memory
<1>4. q.lanes \in [Lanes -> Seq(Jobs)]
  BY <1>1 DEF Memory
<1> HIDE DEF job
<1>5. HeadIs(q.lanes, L, lane, job)
  BY <1>1, <1>2, <1>4, HeadReplaced
<1>6. new = [q EXCEPT !.placed = P, !.lanes = L]
  BY DEF job, WithHead, Asking
<1> HIDE DEF P, L
<1>7. /\ new \in Memory /\ new.lanes = L /\ SameSize(q, new) /\ new.placed = P
      /\ new.published = q.published /\ new.owners = q.owners
      /\ new.refused = q.refused /\ new.unplaced = q.unplaced
  <2>1. L \in [Lanes -> Seq(Jobs)]
    BY <1>5 DEF HeadIs
  <2>. QED  BY <1>1, <1>3, <1>6, <2>1 DEF Memory, SameSize
<1>8. FurtherOn(q.lanes, L) /\ HeadsOK(L) /\ RoutersStay(q.lanes, L)
  <2>1. StageOK(lane, job)
    BY <1>1, <1>2 DEF StageOK
  <2>2. HeadsOK(q.lanes)
    BY <1>0, <1>1, HeadsOfJobs
  <2>. QED  BY <1>1, <1>2, <1>4, <1>5, <2>1, <2>2, HeadFurther
<1>9. \A k \in Keys, i \in Instances : L[<<k, i>>] = q.lanes[<<k, i>>]
  BY <1>5, TypeConstants DEF HeadIs
<1>10. MoreSettled(q, new) /\ OwnersOK(new, ws)
  <2>1. MoreSettled(q, new)
    BY <1>7, <1>9 DEF MoreSettled, HearingOK
  <2>2. OwnersOK(new, ws)
    BY <1>0, <1>7, <1>9 DEF OwnersOK
  <2>. QED  BY <2>1, <2>2
<1>11. ASSUME ~q.closed, NEW x \in Sessions
       PROVE  /\ PlaceOK(Ahead(q, w, x) \ {}, x, new.placed[x])
              /\ new.lanes[<<x, Router>>] # <<>> =>
                   AnswerOK(Ahead(q, w, x), x, new.placed[x], new.lanes[<<x, Router>>][1])
  <2>1. CASE x # s
    <3>1. <<x, Router>> \in Lanes /\ <<x, Router>> # lane
      BY <2>1, TypeConstants
    <3>2. L[<<x, Router>>] = q.lanes[<<x, Router>>]
      BY <1>5, <3>1 DEF HeadIs
    <3>. QED  BY <1>0, <1>3, <1>7, <1>11, <2>1, <3>2 DEF PlacesOK
  <2>2. CASE x = s
    <3>1. new.lanes[<<x, Router>>][1].stage = "waiting" /\ new.placed[x] = "asked"
      BY <1>2, <1>3, <1>5, <1>7, <2>2 DEF HeadIs
    <3>2. "asked" \notin Locations
      BY TypeConstants
    <3>. QED  BY <3>1, <3>2 DEF PlaceOK, AnswerOK
  <2>. QED  BY <2>1, <2>2
<1>. QED  BY <1>7, <1>8, <1>10, <1>11, FurtherGood DEF HearingOK

\* The head of the lane of k is routed, if it is known where it belongs.
LEMMA ResolutionGood ==
  ASSUME TypeOK, TrailOK, NEW q, NEW rec, NEW ws, NEW w, Good(q, rec, ws, w, {}),
         HearingOK(rec), NEW k \in Keys, q.lanes[<<k, Router>>] # <<>>,
         q.lanes[<<k, Router>>][1].stage = "queued", generation \in 1..MaxConnections
  PROVE  Resolved(q, RunResolution(q, <<k, Router>>), q.lanes[<<k, Router>>][1].event,
                  rec, ws, w)
<1> DEFINE lane == <<k, Router>>
           e == q.lanes[lane][1].event
           m == Unplaced(q, e)
           cached == IF e.key = Service THEN "none" ELSE m.placed[e.key]
           new == RunResolution(q, lane)
<1>1. q \in Memory /\ e \in Events /\ e.key = k /\ Head(q.lanes[lane]) = q.lanes[lane][1]
  BY RoutingHead
<1>2. \A i \in Instances : NotYet(q, e, i)
  BY HeadIsOldest
<1>0. m = Unplaced(q, e)
  OBVIOUS
<1>3. /\ Good(m, rec, ws, w, {}) /\ m.lanes = q.lanes /\ m.closed = q.closed
      /\ m.published = q.published
      /\ Moved(e) /\ k \in Entities => m.placed[k] = "none"
  <2> HIDE DEF m, e
  <2>1. /\ Good(m, rec, ws, w, {}) /\ SameQueue(q, m)
        /\ Moved(e) /\ e.key \in Entities => m.placed[e.key] = "none"
    BY <1>0, UnplacedGood, ZenonT(40)
  <2>. QED  BY <1>1, <2>1 DEF SameQueue
<1>4. new = IF e.location # NoLocation \/ e.key = Service THEN Route(m, lane, e.location)
            ELSE IF cached \in Places THEN Route(m, lane, cached)
            ELSE IF e.key \in Terminals THEN Route(m, lane, NoLocation)
            ELSE [m EXCEPT !.placed[e.key] = "asked", !.lanes[lane][1].stage = "waiting"]
  BY <1>1, ZenonT(40) DEF RunResolution
<1> HIDE DEF m, new
<1>5. /\ m.lanes[<<k, Router>>] # <<>> /\ e = m.lanes[<<k, Router>>][1].event
      /\ m.lanes[<<k, Router>>][1].stage = "queued"
  BY <1>3
<1>6. RoutesNow(m, k, e)
  BY <1>2, <1>3, <1>5 DEF RoutesNow, NotYet
<1> HIDE DEF e
<1>7. Good(m, rec, ws, w, {e})
  <2>1. "none" \notin Locations /\ (k \in Sessions => k \in Entities)
    BY TypeConstants
  <2>2. k \in Sessions /\ m.placed[k] \in Locations => ~Moved(e)
    BY <1>3, <2>1
  <2>3. m.lanes[<<k, Router>>][1].stage # "done"
    BY <1>5
  <2>. QED  BY <1>3, <1>5, <2>2, <2>3, RouteStart
<1>8. k \in Sessions => /\ Oldest(e, Ahead(m, w, k)) /\ HopsOK(Ahead(m, w, k), k)
                        /\ PlaceOK(Ahead(m, w, k), k, m.placed[k])
                        /\ Ahead(m, w, k) \in SUBSET Events
  <2>1. Ahead(m, w, k) \ {} = Ahead(m, w, k) /\ Ahead(m, w, k) \in SUBSET Events
    BY DEF Ahead
  <2>2. k \in Sessions => Oldest(e, Ahead(m, w, k))
    <3>1. m.lanes[<<k, Router>>][1].stage # "done"
      BY <1>5
    <3>. QED  BY <1>3, <1>5, <3>1, HeadIsOldest
  <2>3. PlacesOK(m, w, {}) /\ ~m.closed
    BY <1>3, <1>5, RoutingHead DEF Good
  <2>. QED  BY <2>1, <2>2, <2>3 DEF PlacesOK
<1>9. ASSUME NEW location, RoutesTo(m, w, k, e, location), new = Route(m, lane, location)
      PROVE  Resolved(q, new, e, rec, ws, w)
  <2>1. Good(new, rec, ws, w, {}) /\ OnlyNews(m, new, e, rec)
    BY <1>5, <1>6, <1>7, <1>9, RouteGood
  <2>. QED  BY <1>3, <2>1 DEF Resolved, OnlyNews, NotYet
<1>10. CASE e.location # NoLocation \/ e.key = Service
  <2>1. RoutesTo(m, w, k, e, e.location)
    <3>1. e.location \in Places
      BY <1>1, EventTypes
    <3>2. k \in Sessions /\ e.location # NoLocation =>
            /\ AtOrAfter(k, e.hop, e.location)
            /\ ~Moved(e) => Serves(e.location, Ahead(m, w, k) \ {e}, k)
      BY <1>8, OwnPlace, ZenonT(40)
    <3>. QED  BY <3>1, <3>2 DEF RoutesTo
  <2>2. new = Route(m, lane, e.location)
    BY <1>4, <1>10
  <2>. QED  BY <1>9, <2>1, <2>2 DEF e, new
<1>11. CASE ~(e.location # NoLocation \/ e.key = Service) /\ cached \in Places
  <2>1. cached = m.placed[k]
    BY <1>1, <1>11
  <2>2. RoutesTo(m, w, k, e, cached)
    <3>1. k \in Sessions /\ cached # NoLocation => k \in Entities /\ cached \in Locations
      BY <1>11, TypeConstants
    <3>2. k \in Sessions /\ cached # NoLocation => Serves(cached, Ahead(m, w, k), k)
      BY <1>8, <2>1, <3>1 DEF PlaceOK
    <3>3. k \in Sessions /\ cached # NoLocation => AtOrAfter(k, e.hop, cached)
      BY <1>8, <3>2, CachedPlace
    <3>4. k \in Sessions /\ cached # NoLocation /\ ~Moved(e) =>
            Serves(cached, Ahead(m, w, k) \ {e}, k)
      BY <1>8, <3>2, ServesLess
    <3>. QED  BY <1>11, <3>3, <3>4 DEF RoutesTo
  <2>3. new = Route(m, lane, cached)
    BY <1>4, <1>11
  <2>. QED  BY <1>9, <2>2, <2>3, ZenonT(40) DEF e, new
<1>12. CASE ~(e.location # NoLocation \/ e.key = Service) /\ cached \notin Places /\ k \in Terminals
  <2>1. RoutesTo(m, w, k, e, NoLocation)
    BY DEF RoutesTo, Places
  <2>2. new = Route(m, lane, NoLocation)
    BY <1>1, <1>4, <1>12
  <2>. QED  BY <1>9, <2>1, <2>2 DEF e, new
<1>13. CASE ~(e.location # NoLocation \/ e.key = Service) /\ cached \notin Places /\ k \notin Terminals
  <2>1. k \in Sessions
    BY <1>1, <1>13, TypeConstants
  <2>2. new = Asking(m, k)
    BY <1>1, <1>4, <1>13 DEF Asking
  <2>3. Good(new, rec, ws, w, {}) /\ new.published = m.published
    BY <1>3, <1>5, <2>1, <2>2, AskGood
  <2>4. OnlyNews(q, new, e, rec)
    BY <1>3, <2>3 DEF OnlyNews
  <2>. QED  BY <2>3, <2>4 DEF Resolved, e, new
<1>. QED  BY <1>10, <1>11, <1>12, <1>13

-----------------------------------------------------------------------------
(* From the memory to the state *)

LEMMA Hears ==
  ASSUME IInv
  PROVE  /\ HearingOK(received) /\ Good(r, received, Known, wire, {})
         /\ TypeOK /\ TrailOK /\ r \in Memory
         /\ generation \in 0..MaxConnections
         /\ phase \notin {"idle", "ended"} => generation \in 1..MaxConnections
<1>1. TypeOK /\ RelayInv
  BY DEF IInv
<1>2. Listed \subseteq Instances
  BY <1>1 DEF TypeOK, Listed, ToSet
<1>3. HearingOK(received)
  BY <1>1, <1>2 DEF HearingOK, TypeOK, RelayInv, OpenOK
<1>4. Good(r, received, Known, wire, {})
  BY <1>1 DEF Good, RelayInv, TypeOK
<1>5. generation \in 0..MaxConnections /\ r \in Memory
  BY <1>1 DEF TypeOK
<1>6. phase \notin {"idle", "ended"} => generation \in 1..MaxConnections
  BY <1>1, <1>5, LimitAssumption DEF RelayInv, StreamOK
<1>. QED  BY <1>1, <1>3, <1>4, <1>5, <1>6 DEF RelayInv

\* Besides r, received, Known and wire, the predicates look at the generation, who listens, what
\* was sent and the trail.
LEMMA StableRest ==
  ASSUME generation' = generation, \A i \in Listed' : i \in Listed \/ received'[i] = {},
         Listed' \subseteq Instances,
         sent \in Nat, sent' \in Nat, sent <= sent',
         r' \in Memory, CountOK(r'), LateOK(r'), JobsOK(r', received'),
         OrderOK(r', wire', {}), KeptOK(r', received'), OwnersOK(r', Known')
  PROVE  /\ (r \in Memory)' /\ CountOK(r)' /\ LateOK(r)' /\ JobsOK(r, received)'
         /\ OrderOK(r, wire, {})' /\ KeptOK(r, received)' /\ OwnersOK(r, Known)'
<1>1. /\ r' \in Memory
      /\ CountOK(r') /\ LateOK(r') /\ JobsOK(r', received') /\ OrderOK(r', wire', {})
      /\ KeptOK(r', received') /\ OwnersOK(r', Known')
  OBVIOUS
<1>2. (r \in Memory)' /\ CountOK(r)'
  BY <1>1 DEF CountOK, Slots
<1>3. LateOK(r)'
  BY <1>1 DEF LateOK
<1>4. JobsOK(r, received)'
  <2>1. \A x, e, rs : HearersOK(x, e, rs, received') => HearersOK(x, e, rs, received)'
    BY DEF HearersOK
  <2>2. \A l, job : JobOK(l, job, received') => JobOK(l, job, received)'
    BY <2>1, SMTT(40) DEF JobOK, StageOK
  <2>. QED  BY <1>1, <2>2 DEF JobsOK
<1>5. OrderOK(r, wire, {})'
  <2>1. \A e \in Events : e.id <= sent => e.id <= sent'
    BY EventTypes
  <2>2. \A l \in Lanes : \A n \in 1..Len(r'.lanes[l]) : r'.lanes[l][n].event \in Events
    BY <1>1, LaneTypes
  <2>3. \A i \in Instances : \A f \in r'.published[i] : f \in Events
    BY <1>1 DEF Memory
  <2>4. /\ \A l \in Lanes : \A n \in 1..Len(r'.lanes[l]) : r'.lanes[l][n].event.id <= sent'
        /\ \A i \in Instances : \A f \in r'.published[i] : f.id <= sent'
    BY <1>1, <2>1, <2>2, <2>3 DEF OrderOK, ReceivedAhead
  <2>. QED  BY <1>1, <2>4 DEF OrderOK, ReceivedAhead, AheadOf
<1>6. KeptOK(r, received)'
  BY <1>1 DEF KeptOK, Settled, Queued
<1>7. OwnersOK(r, Known)'
  BY <1>1 DEF OwnersOK
<1>. QED  BY <1>2, <1>3, <1>4, <1>5, <1>6, <1>7

LEMMA StableGood ==
  ASSUME generation' = generation, \A i \in Listed' : i \in Listed \/ received'[i] = {},
         Listed' \subseteq Instances,
         sent \in Nat, sent' \in Nat, sent <= sent', trail' = trail,
         Good(r', received', Known', wire', {})
  PROVE  Good(r, received, Known, wire, {})'
<1>1. RoutedOK(r') /\ PlacesOK(r', wire', {})
  BY DEF Good
<1>2. RoutedOK(r)'
  BY <1>1, ZenonT(40) DEF RoutedOK, AtOrAfter
<1>3. PlacesOK(r, wire, {})'
  <2>1. \A s, h, place : AtOrAfter(s, h, place)' <=> AtOrAfter(s, h, place)
    BY DEF AtOrAfter
  <2>2. \A A, s, place : Serves(place, A, s)' <=> Serves(place, A, s)
    BY <2>1 DEF Serves, Moved
  <2>3. \A A, s : HopsOK(A, s)' <=> HopsOK(A, s)
    BY <2>1 DEF HopsOK, Moved
  <2>4. \A s : Ahead(r, wire, s)' = Ahead(r', wire', s)
    BY DEF Ahead, Queued
  <2>5. \A A, s, place : PlaceOK(A, s, place)' <=> PlaceOK(A, s, place)
    BY <2>2 DEF PlaceOK
  <2>6. \A A, s, place, job : AnswerOK(A, s, place, job)' <=> AnswerOK(A, s, place, job)
    BY <2>1, <2>2 DEF AnswerOK
  <2>. QED  BY <1>1, <2>3, <2>4, <2>5, <2>6 DEF PlacesOK
<1>. QED  BY <1>2, <1>3, StableRest DEF Good

\* Where nothing happens to the worktrees, as much is known of them.
LEMMA OwnersKept ==
  ASSUME UNCHANGED ownerVars
  PROVE  /\ owned' = owned /\ snapshot' = snapshot /\ floor' = floor
         /\ unseen' = unseen /\ changes' = changes
         /\ Known' = Known /\ (ScansOK => ScansOK')
<1>1. /\ owned' = owned /\ snapshot' = snapshot /\ floor' = floor
      /\ unseen' = unseen /\ changes' = changes
  BY DEF ownerVars, scanVars
<1>2. Known' = Known
  BY <1>1 DEF Known
<1>3. ScansOK => ScansOK'
  BY <1>1 DEF ScansOK
<1>. QED  BY <1>1, <1>2, <1>3

\* Steps of the router, between which at most the inventory is scanned.
LEMMA QuietStep ==
  ASSUME IInv, Good(r', received, Known', wire, {}),
         UNCHANGED <<streamVars, openVars, wire, daemonVars, scanVars, received>>,
         snapshot' \in [Instances -> Nat], ScansOK',
         \/ phase = "connected"
         \/ /\ r'.closed = r.closed /\ \A l \in Lanes : r'.lanes[l] = <<>>
            /\ phase \in {"connecting", "open"} => \A e \in Entities : r'.placed[e] = "none"
  PROVE  IInv'
<1>1. TypeOK /\ StreamOK /\ OpenOK /\ StatusIsShared /\ TrailOK
  BY DEF IInv, RelayInv
<1>2. /\ phase' = phase /\ generation' = generation /\ status' = status
      /\ busStatus' = busStatus /\ listed' = listed /\ epoch' = epoch /\ wire' = wire
      /\ trail' = trail /\ gone' = gone /\ sent' = sent /\ owned' = owned /\ floor' = floor
      /\ unseen' = unseen /\ changes' = changes /\ received' = received
  BY DEF streamVars, openVars, daemonVars, scanVars
<1>3. Listed' = Listed
  BY <1>2 DEF Listed
<1>4. Good(r, received, Known, wire, {})'
  <2>1. Good(r', received', Known', wire', {})
    BY <1>2
  <2>2. sent \in Nat /\ sent <= sent /\ Listed \subseteq Instances
    BY <1>1, LimitAssumption DEF TypeOK, Listed, ToSet
  <2>. QED  BY <1>2, <1>3, <2>1, <2>2, StableGood
<1>5. TypeOK'
  <2>1. r' \in Memory
    BY DEF Good
  <2>. QED  BY <1>1, <1>2, <2>1 DEF TypeOK
<1>6. StreamOK'
  BY <1>1, <1>2 DEF StreamOK
<1>7. OpenOK' /\ StatusIsShared' /\ TrailOK'
  BY <1>1, <1>2, <1>3 DEF OpenOK, StatusIsShared, TrailOK
<1>. QED  BY <1>4, <1>5, <1>6, <1>7 DEF IInv, RelayInv, Good

LEMMA IdleStep ==
  ASSUME IInv, Idle, Good(r', received, Known, wire, {}),
         \/ phase = "connected"
         \/ /\ r'.closed = r.closed /\ \A l \in Lanes : r'.lanes[l] = <<>>
            /\ phase \in {"connecting", "open"} => \A e \in Entities : r'.placed[e] = "none"
  PROVE  IInv'
<1>1. /\ UNCHANGED <<streamVars, openVars, wire, daemonVars, received>> /\ UNCHANGED ownerVars
  BY DEF Idle
<1>2. /\ snapshot' = snapshot /\ Known' = Known /\ (ScansOK => ScansOK') /\ UNCHANGED scanVars
  BY <1>1, OwnersKept DEF ownerVars
<1>3. ScansOK /\ snapshot \in [Instances -> Nat]
  BY DEF IInv, RelayInv, OpenOK, TypeOK
<1>4. Good(r', received, Known', wire, {}) /\ ScansOK' /\ snapshot' \in [Instances -> Nat]
  BY <1>2, <1>3
<1>. QED  BY <1>1, <1>2, <1>4, QuietStep

LEMMA RunsConnected ==
  ASSUME IInv
  PROVE  /\ \A l \in Lanes : r.lanes[l] # <<>> => phase = "connected" /\ ~r.closed
         /\ \A l \in Lanes : r.lanes[l] # <<>> => generation \in 1..MaxConnections
<1>1. StreamOK /\ CountOK(r)
  BY DEF IInv, RelayInv
<1>2. \A l \in Lanes : r.lanes[l] # <<>> => phase = "connected" /\ ~r.closed
  BY <1>1 DEF StreamOK, CountOK
<1>. QED  BY <1>2, Hears

-----------------------------------------------------------------------------
(* The next job of a lane *)

Popped(q, lane) == [q EXCEPT !.count = @ - 1, !.lanes[lane] = Tail(@)]

\* In M the jobs of L stand d[l] places further ahead.
Shifted(L, M, d) ==
  /\ d \in [Lanes -> {0, 1}]
  /\ \A l \in Lanes :
       /\ Len(M[l]) \in Nat /\ Len(L[l]) = Len(M[l]) + d[l]
       /\ \A n \in 1..Len(M[l]) : n + d[l] \in 1..Len(L[l]) /\ M[l][n] = L[l][n + d[l]]
       /\ d[l] = 1 => L[l][1].stage = "done"

LEMMA PoppedFields ==
  ASSUME NEW q \in Memory, NEW lane \in Lanes, q.lanes[lane] # <<>>, CountOK(q),
         q.lanes[lane][1].stage = "done", NEW new, new = Popped(q, lane)
  PROVE  /\ new \in Memory /\ CountOK(new) /\ SameCaches(q, new)
         /\ new.closed = q.closed /\ new.late = q.late
         /\ \E d : Shifted(q.lanes, new.lanes, d) /\ d[lane] = 1
<1> DEFINE L == [q.lanes EXCEPT ![lane] = Tail(q.lanes[lane])]
           c == q.count - 1
           d == [l \in Lanes |-> IF l = lane THEN 1 ELSE 0]
<1>1. q.lanes \in [Lanes -> Seq(Jobs)] /\ q.count \in 0..MaxJobs /\ ~q.closed
  BY DEF Memory, CountOK
<1>2. ShorterBy(q.lanes, L, lane)
  BY <1>1, LaneShortened
<1>3. new = [q EXCEPT !.count = c, !.lanes = L]
  BY DEF Popped
<1> HIDE DEF L
<1>4. q.count >= 1
  BY <1>2, CountShorter
<1>5. c \in 0..MaxJobs
  BY <1>1, <1>4, LimitAssumption
<1> HIDE DEF c
<1>6. /\ new \in Memory /\ new.count = c /\ new.lanes = L /\ SameCaches(q, new)
      /\ new.closed = q.closed /\ new.late = q.late
  <2>1. L \in [Lanes -> Seq(Jobs)]
    BY <1>2 DEF ShorterBy
  <2>. QED  BY <1>3, <1>5, <2>1 DEF Memory, SameCaches
<1>7. CountOK(new)
  BY <1>1, <1>2, <1>6, CountShorter DEF c
<1>8. Shifted(q.lanes, L, d)
  <2>1. d \in [Lanes -> {0, 1}]
    OBVIOUS
  <2>2. ASSUME NEW l \in Lanes
        PROVE  /\ Len(L[l]) \in Nat /\ Len(q.lanes[l]) = Len(L[l]) + d[l]
               /\ \A n \in 1..Len(L[l]) :
                    n + d[l] \in 1..Len(q.lanes[l]) /\ L[l][n] = q.lanes[l][n + d[l]]
               /\ d[l] = 1 => q.lanes[l][1].stage = "done"
    <3>1. L[l] \in Seq(Jobs) /\ q.lanes[l] \in Seq(Jobs)
      BY <1>1, <1>2 DEF ShorterBy
    <3>2. CASE l = lane
      BY <1>2, <3>1, <3>2 DEF ShorterBy
    <3>3. CASE l # lane
      BY <1>2, <3>1, <3>3 DEF ShorterBy
    <3>. QED  BY <3>2, <3>3
  <2>. HIDE DEF d
  <2>. QED  BY <2>1, <2>2 DEF Shifted
<1>9. d[lane] = 1
  BY SMTT(30)
<1> HIDE DEF d
<1>. QED  BY <1>6, <1>7, <1>8, <1>9

LEMMA ShiftedOrder ==
  ASSUME NEW q \in Memory, NEW new \in Memory, NEW d, Shifted(q.lanes, new.lanes, d),
         new.published = q.published, NEW w, NEW now, OrderOK(q, w, now)
  PROVE  OrderOK(new, w, now)
<1>0. \A k \in Keys, i \in Instances \cup {Router} : <<k, i>> \in Lanes
  BY TypeConstants
<1>1. \A l \in Lanes : \A n \in 1..Len(new.lanes[l]) :
        n + d[l] \in 1..Len(q.lanes[l]) /\ new.lanes[l][n] = q.lanes[l][n + d[l]]
  BY DEF Shifted
<1>2. ASSUME NEW l \in Lanes, NEW m \in 1..Len(new.lanes[l]), NEW n \in 1..Len(new.lanes[l]),
             m < n
      PROVE  new.lanes[l][m].event.id < new.lanes[l][n].event.id
  <2>1. d[l] \in {0, 1}
    BY DEF Shifted
  <2>2. m + d[l] < n + d[l]
    BY <1>2, <2>1
  <2>3. \A x, y \in 1..Len(q.lanes[l]) :
          x < y => q.lanes[l][x].event.id < q.lanes[l][y].event.id
    BY DEF OrderOK, LanesOrdered
  <2>. QED  BY <1>1, <2>2, <2>3
<1>3. ASSUME NEW k \in Keys, NEW i \in Instances, NEW n \in 1..Len(new.lanes[<<k, Router>>])
      PROVE  /\ \A m \in 1..Len(new.lanes[<<k, i>>]) :
                  AheadOf(new.lanes[<<k, i>>][m].event, new.lanes[<<k, Router>>][n], now)
             /\ \A f \in new.published[i] :
                  f.key = k /\ new.lanes[<<k, Router>>][n].event.type # "connected" =>
                    AheadOf(f, new.lanes[<<k, Router>>][n], now)
  <2>1. \A x \in 1..Len(q.lanes[<<k, Router>>]) :
          /\ \A m \in 1..Len(q.lanes[<<k, i>>]) :
               AheadOf(q.lanes[<<k, i>>][m].event, q.lanes[<<k, Router>>][x], now)
          /\ \A f \in q.published[i] :
               f.key = k /\ q.lanes[<<k, Router>>][x].event.type # "connected" =>
                 AheadOf(f, q.lanes[<<k, Router>>][x], now)
    BY DEF OrderOK, RoutedAhead
  <2>. QED  BY <1>0, <1>1, <2>1, ZenonT(40)
<1>4. ASSUME NEW k \in Keys, NEW i \in Instances, NEW n \in 1..Len(new.lanes[<<k, i>>]),
             NEW f \in new.published[i], f.key = k,
             new.lanes[<<k, i>>][n].event.type # "connected"
      PROVE  \/ f.id < new.lanes[<<k, i>>][n].event.id
             \/ f = new.lanes[<<k, i>>][n].event /\ new.lanes[<<k, i>>][n].stage = "done"
  <2>1. \A x \in 1..Len(q.lanes[<<k, i>>]) : \A g \in q.published[i] :
          g.key = k /\ q.lanes[<<k, i>>][x].event.type # "connected" =>
            \/ g.id < q.lanes[<<k, i>>][x].event.id
            \/ g = q.lanes[<<k, i>>][x].event /\ q.lanes[<<k, i>>][x].stage = "done"
    BY DEF OrderOK, PublishedAhead
  <2>2. /\ n + d[<<k, i>>] \in 1..Len(q.lanes[<<k, i>>])
        /\ new.lanes[<<k, i>>][n] = q.lanes[<<k, i>>][n + d[<<k, i>>]]
    BY <1>0, <1>1
  <2>3. f \in q.published[i]
    OBVIOUS
  <2>. QED  BY <1>4, <2>1, <2>2, <2>3, SMTT(30)
<1>5. \A l \in Lanes : \A n \in 1..Len(new.lanes[l]) :
        /\ new.lanes[l][n].event.id <= sent
        /\ \A k \in 1..Len(w) : new.lanes[l][n].event.id < w[k].id
  BY <1>1 DEF OrderOK, ReceivedAhead
<1>6. \A i \in Instances : \A f \in new.published[i] :
        /\ f.id <= sent
        /\ \A k \in 1..Len(w) : w[k].type # "connected" => f.id < w[k].id
  BY DEF OrderOK, ReceivedAhead
<1>. QED  BY <1>2, <1>3, <1>4, <1>5, <1>6, SMTT(30)
         DEF OrderOK, LanesOrdered, RoutedAhead, PublishedAhead, ReceivedAhead

\* Only jobs that are done leave, so nothing that waits does.
LEMMA ShiftedQueued ==
  ASSUME NEW q \in Memory, NEW new \in Memory, NEW d, Shifted(q.lanes, new.lanes, d),
         NEW e, e.key \in Keys, NEW x \in Instances \cup {Router}
  PROVE  Queued(new, e, x) <=> Queued(q, e, x)
<1> DEFINE l == <<e.key, x>>
<1>1. /\ l \in Lanes /\ d[l] \in {0, 1} /\ Len(q.lanes[l]) \in Nat /\ Len(new.lanes[l]) \in Nat
      /\ Len(q.lanes[l]) = Len(new.lanes[l]) + d[l]
      /\ \A n \in 1..Len(new.lanes[l]) :
           n + d[l] \in 1..Len(q.lanes[l]) /\ new.lanes[l][n] = q.lanes[l][n + d[l]]
      /\ d[l] = 1 => q.lanes[l][1].stage = "done"
  BY TypeConstants, LaneTypes DEF Shifted
<1>2. ASSUME Queued(new, e, x) PROVE Queued(q, e, x)
  BY <1>1, <1>2 DEF Queued
<1>3. ASSUME Queued(q, e, x) PROVE Queued(new, e, x)
  <2>1. PICK n \in 1..Len(q.lanes[l]) : q.lanes[l][n].event = e /\ q.lanes[l][n].stage # "done"
    BY <1>3 DEF Queued
  <2>2. n - d[l] \in 1..Len(new.lanes[l]) /\ (n - d[l]) + d[l] = n
    BY <1>1, <2>1, SMTT(30)
  <2>3. new.lanes[l][n - d[l]] = q.lanes[l][n]
    BY <1>1, <2>2
  <2>. QED  BY <2>1, <2>2, <2>3 DEF Queued
<1>. QED  BY <1>2, <1>3

LEMMA PoppedGood ==
  ASSUME NEW q, NEW rec, NEW ws, NEW w, Good(q, rec, ws, w, {}), NEW lane \in Lanes,
         HearingOK(rec), q.lanes[lane] # <<>>, q.lanes[lane][1].stage = "done",
         NEW new, new = Popped(q, lane)
  PROVE  /\ Good(new, rec, ws, w, {}) /\ new.published = q.published
         /\ new.lanes[lane] # <<>> => new.lanes[lane][1].stage = "queued"
         /\ \A l \in Lanes : l # lane => new.lanes[l] = q.lanes[l]
<1>0. /\ q \in Memory
      /\ CountOK(q) /\ LateOK(q) /\ JobsOK(q, rec) /\ OrderOK(q, w, {})
      /\ KeptOK(q, rec) /\ OwnersOK(q, ws) /\ RoutedOK(q) /\ PlacesOK(q, w, {})
  BY DEF Good
<1>1. /\ new \in Memory /\ CountOK(new) /\ SameCaches(q, new)
      /\ new.closed = q.closed /\ new.late = q.late
      /\ \E d : Shifted(q.lanes, new.lanes, d) /\ d[lane] = 1
  BY <1>0, PoppedFields
<1>2. PICK d : Shifted(q.lanes, new.lanes, d) /\ d[lane] = 1
  BY <1>1
<1>3. /\ new.placed = q.placed /\ new.owners = q.owners
      /\ new.published = q.published /\ new.refused = q.refused /\ new.unplaced = q.unplaced
  BY <1>1 DEF SameCaches
<1>4. \A l \in Lanes : \A n \in 1..Len(new.lanes[l]) :
        n + d[l] \in 1..Len(q.lanes[l]) /\ new.lanes[l][n] = q.lanes[l][n + d[l]]
  BY <1>2 DEF Shifted
<1>5. \A l \in Lanes : d[l] \in {0, 1} /\ Len(q.lanes[l]) \in Nat /\ Len(new.lanes[l]) \in Nat
  BY <1>0, <1>1, <1>2, LaneTypes DEF Shifted
<1>6. \A k \in Keys, i \in Instances \cup {Router} : <<k, i>> \in Lanes
  BY TypeConstants
<1>7. LateOK(new)
  BY <1>0, <1>1 DEF LateOK
<1>8. JobsOK(new, rec)
  <2> SUFFICES ASSUME NEW l \in Lanes
               PROVE  /\ \A n \in 1..Len(new.lanes[l]) : JobOK(l, new.lanes[l][n], rec)
                      /\ \A n \in 2..Len(new.lanes[l]) : new.lanes[l][n].stage = "queued"
    BY DEF JobsOK
  <2>1. /\ \A n \in 1..Len(q.lanes[l]) : JobOK(l, q.lanes[l][n], rec)
        /\ \A n \in 2..Len(q.lanes[l]) : q.lanes[l][n].stage = "queued"
    BY <1>0 DEF JobsOK
  <2>2. ASSUME NEW n \in 2..Len(new.lanes[l]) PROVE new.lanes[l][n].stage = "queued"
    <3>1. n \in 1..Len(new.lanes[l]) /\ n + d[l] >= 2
      BY <1>5, <2>2
    <3>2. n + d[l] \in 2..Len(q.lanes[l])
      BY <1>4, <1>5, <3>1
    <3>. QED  BY <1>4, <2>1, <3>1, <3>2
  <2>. QED  BY <1>4, <2>1, <2>2
<1>9. OrderOK(new, w, {})
  BY <1>0, <1>1, <1>2, <1>3, ShiftedOrder
<1>10. \A e, x : e.key \in Keys /\ x \in Instances \cup {Router} =>
         (Queued(new, e, x) <=> Queued(q, e, x))
  <2> SUFFICES ASSUME NEW e, NEW x \in Instances \cup {Router}, e.key \in Keys
               PROVE  Queued(new, e, x) <=> Queued(q, e, x)
    OBVIOUS
  <2>. QED  BY <1>0, <1>1, <1>2, ShiftedQueued
<1>11. KeptOK(new, rec)
  <2> SUFFICES ASSUME ~new.closed, NEW i \in Listed, NEW e \in rec[i]
               PROVE  Settled(new, i, e) \/ Queued(new, e, Router) \/ Queued(new, e, i)
    BY DEF KeptOK
  <2>1. e.key \in Keys /\ i \in Instances
    BY EventTypes DEF HearingOK
  <2>2. Settled(q, i, e) \/ Queued(q, e, Router) \/ Queued(q, e, i)
    BY <1>0, <1>1 DEF KeptOK
  <2>. QED  BY <1>3, <1>10, <2>1, <2>2 DEF Settled
<1>12. OwnersOK(new, ws)
  <2>1. ASSUME NEW k \in Keys, NEW i \in Instances, NEW n \in 1..Len(new.lanes[<<k, i>>]),
               new.lanes[<<k, i>>][n].stage = "yes", new.lanes[<<k, i>>][n].fresh
        PROVE  new.lanes[<<k, i>>][n].location \in ws[i]
    <3>1. \A x \in 1..Len(q.lanes[<<k, i>>]) :
            q.lanes[<<k, i>>][x].stage = "yes" /\ q.lanes[<<k, i>>][x].fresh =>
              q.lanes[<<k, i>>][x].location \in ws[i]
      BY <1>0 DEF OwnersOK
    <3>2. /\ n + d[<<k, i>>] \in 1..Len(q.lanes[<<k, i>>])
          /\ new.lanes[<<k, i>>][n] = q.lanes[<<k, i>>][n + d[<<k, i>>]]
      BY <1>4, <1>6
    <3>. QED  BY <2>1, <3>1, <3>2
  <2>2. \A i \in Instances, l \in Locations : new.owners[i][l] = "yes" => l \in ws[i]
    BY <1>0, <1>3 DEF OwnersOK
  <2>. QED  BY <2>1, <2>2 DEF OwnersOK
<1>13. RoutedOK(new)
  <2>1. \A s \in Sessions, i \in Instances : <<s, i>> \in Lanes
    BY TypeConstants
  <2>. QED  BY <1>0, <1>4, <2>1, ZenonT(40) DEF RoutedOK
<1>14. \A s \in Sessions : Ahead(new, w, s) = Ahead(q, w, s)
  <2>1. \A e \in Events : Queued(new, e, Router) <=> Queued(q, e, Router)
    BY <1>10, EventTypes
  <2>. QED  BY <2>1 DEF Ahead
<1>15. PlacesOK(new, w, {})
  <2> SUFFICES ASSUME ~new.closed, NEW s \in Sessions
               PROVE  /\ HopsOK(Ahead(new, w, s) \ {}, s)
                      /\ PlaceOK(Ahead(new, w, s) \ {}, s, new.placed[s])
                      /\ new.lanes[<<s, Router>>] # <<>> =>
                           AnswerOK(Ahead(new, w, s), s, new.placed[s],
                                    new.lanes[<<s, Router>>][1])
    BY DEF PlacesOK
  <2> DEFINE l == <<s, Router>>
  <2>0. l \in Lanes
    BY TypeConstants
  <2>1. /\ HopsOK(Ahead(q, w, s) \ {}, s) /\ PlaceOK(Ahead(q, w, s) \ {}, s, q.placed[s])
        /\ q.lanes[l] # <<>> => AnswerOK(Ahead(q, w, s), s, q.placed[s], q.lanes[l][1])
    BY <1>0, <1>1 DEF PlacesOK
  <2>2. ASSUME new.lanes[l] # <<>>
        PROVE  AnswerOK(Ahead(new, w, s), s, new.placed[s], new.lanes[l][1])
    <3>1. 1 \in 1..Len(new.lanes[l])
      BY <1>1, <2>0, <2>2, LaneTypes
    <3>2. 1 + d[l] \in 1..Len(q.lanes[l]) /\ new.lanes[l][1] = q.lanes[l][1 + d[l]]
      BY <1>4, <2>0, <3>1
    <3>3. CASE d[l] = 0
      <4>1. q.lanes[l] # <<>> /\ new.lanes[l][1] = q.lanes[l][1]
        BY <1>0, <2>0, <3>2, <3>3, LaneTypes
      <4>. QED  BY <1>3, <1>14, <2>1, <4>1
    <3>4. CASE d[l] = 1
      <4>1. 2 \in 2..Len(q.lanes[l]) /\ new.lanes[l][1] = q.lanes[l][2]
        BY <1>5, <2>0, <3>2, <3>4
      <4>2. new.lanes[l][1].stage = "queued"
        BY <1>0, <2>0, <4>1 DEF JobsOK
      <4>. QED  BY <4>2 DEF AnswerOK
    <3>. QED  BY <1>5, <2>0, <3>3, <3>4
  <2>. QED  BY <1>3, <1>14, <2>1, <2>2
<1>16. ASSUME new.lanes[lane] # <<>> PROVE new.lanes[lane][1].stage = "queued"
  <2>1. 1 \in 1..Len(new.lanes[lane])
    BY <1>1, <1>16, LaneTypes
  <2>2. 2 \in 2..Len(q.lanes[lane]) /\ new.lanes[lane][1] = q.lanes[lane][2]
    BY <1>2, <1>4, <1>5, <2>1
  <2>. QED  BY <1>0, <2>2 DEF JobsOK
<1>17. \A l \in Lanes : l # lane => new.lanes[l] = q.lanes[l]
  BY <1>0 DEF Popped, Memory
<1>. QED  BY <1>1, <1>3, <1>7, <1>8, <1>9, <1>11, <1>12, <1>13, <1>15, <1>16, <1>17 DEF Good

-----------------------------------------------------------------------------
(* What the workspaces hear *)

\* What is new in new: to who listens, on a stream that lasts, after what was heard before, and
\* by an owner known since the last revision.
NewsOK(q, new, rec, ws) ==
  \A i \in Instances : \A e \in new.published[i] \ q.published[i] :
    /\ i \in Listed /\ ~q.closed /\ e \in rec[i]
    /\ \A f \in q.published[i] : f.key = e.key /\ e.type # "connected" => f.id < e.id
    /\ \A lane \in Lanes :
         /\ lane[2] = i /\ q.lanes[lane] # <<>> /\ q.lanes[lane][1].event = e
         /\ q.lanes[lane][1].location # NoLocation
         => q.lanes[lane][1].location \in ws[i]

LEMMA ResolvedNews ==
  ASSUME NEW q, NEW rec, NEW rec2, NEW ws, NEW w, NEW now, Good(q, rec, ws, w, now),
         NEW new, NEW e \in Events, OnlyNews(q, new, e, rec2), ~q.closed, NEW ws2
  PROVE  NewsOK(q, new, rec2, ws2)
<1>1. q \in Memory /\ JobsOK(q, rec)
  BY DEF Good
<1> SUFFICES ASSUME NEW i \in Instances, NEW f \in new.published[i] \ q.published[i]
             PROVE  /\ i \in Listed /\ f \in rec2[i]
                    /\ \A g \in q.published[i] : g.key = f.key /\ f.type # "connected" => g.id < f.id
                    /\ \A lane \in Lanes :
                         lane[2] = i /\ q.lanes[lane] # <<>> => q.lanes[lane][1].event # f
  BY DEF NewsOK
<1>2. f = e /\ i \in Listed /\ e \in rec2[i] /\ NotYet(q, e, i)
  BY DEF OnlyNews
<1>3. ASSUME NEW lane \in Lanes, lane[2] = i, q.lanes[lane] # <<>>
      PROVE  q.lanes[lane][1].event # e
  <2>1. 1 \in 1..Len(q.lanes[lane]) /\ q.lanes[lane][1].event.key = lane[1]
    BY <1>1, <1>3, LaneTypes DEF JobsOK, JobOK
  <2>2. SUFFICES ASSUME q.lanes[lane][1].event = e PROVE FALSE
    OBVIOUS
  <2>3. lane = <<e.key, i>>
    BY <1>3, <2>1, <2>2 DEF Lanes
  <2>4. e.id < e.id /\ e.id \in Nat
    BY <1>2, <2>1, <2>2, <2>3, EventTypes DEF NotYet
  <2>5. ~(e.id < e.id)
    BY <2>4
  <2>. QED  BY <2>4, <2>5
<1>. QED  BY <1>2, <1>3 DEF NotYet

LEMMA NextJobStep ==
  ASSUME IInv, NEW lane \in Lanes, NextJob(lane)
  PROVE  IInv' /\ NewsOK(r, r', received, Known)
<1> DEFINE q == Popped(r, lane)
<1>1. /\ r.lanes[lane] # <<>> /\ r.lanes[lane][1].stage = "done" /\ Idle
      /\ r' = Advance(q, lane)
  <2>1. r.lanes[lane] # <<>> /\ Head(r.lanes[lane]) = r.lanes[lane][1]
    BY Hears, LaneTypes DEF NextJob, Waits
  <2>. QED  BY <2>1 DEF NextJob, Waits, Popped
<1>2. /\ phase = "connected" /\ generation \in 1..MaxConnections /\ ~r.closed
      /\ HearingOK(received) /\ Good(r, received, Known, wire, {}) /\ TypeOK /\ TrailOK
      /\ r \in Memory
  BY <1>1, RunsConnected, Hears
<1> HIDE DEF q
<1>3. /\ Good(q, received, Known, wire, {}) /\ q.published = r.published
      /\ q.lanes[lane] # <<>> => q.lanes[lane][1].stage = "queued"
      /\ \A l \in Lanes : l # lane => q.lanes[l] = r.lanes[l]
  BY <1>1, <1>2, PoppedGood DEF q
<1>4. CASE q.lanes[lane] = <<>>
  <2>1. r' = q
    BY <1>1, <1>4 DEF Advance
  <2>2. IInv'
    BY <1>1, <1>2, <1>3, <2>1, IdleStep
  <2>. QED  BY <1>3, <2>1, <2>2 DEF NewsOK
<1>5. CASE q.lanes[lane] # <<>> /\ lane[2] = Router
  <2>1. r' = RunResolution(q, lane)
    BY <1>1, <1>5 DEF Advance
  <2>2. PICK k \in Keys : lane = <<k, Router>>
    BY <1>5 DEF Lanes
  <2>3. Resolved(q, r', q.lanes[lane][1].event, received, Known, wire)
    BY <1>2, <1>3, <1>5, <2>1, <2>2, ResolutionGood
  <2>4. Good(r', received, Known, wire, {}) /\ OnlyNews(q, r', q.lanes[lane][1].event, received)
    BY <2>3 DEF Resolved
  <2>5. q.lanes[lane][1].event \in Events /\ q.lanes[lane][1].event.key = k
    BY <1>3, <1>5, <2>2, RoutingHead
  <2>6. OnlyNews(r, r', q.lanes[lane][1].event, received)
    <3>1. \A j \in Instances : <<k, j>> \in Lanes /\ <<k, j>> # lane
      BY <2>2, TypeConstants
    <3>2. \A j \in Instances : q.lanes[<<k, j>>] = r.lanes[<<k, j>>]
      BY <1>3, <3>1
    <3>3. \A j \in Instances : NotYet(q, q.lanes[lane][1].event, j) =>
            NotYet(r, q.lanes[lane][1].event, j)
      BY <1>3, <2>5, <3>2 DEF NotYet
    <3>. QED  BY <1>3, <2>4, <3>3 DEF OnlyNews
  <2>7. NewsOK(r, r', received, Known)
    BY <1>2, <2>5, <2>6, ResolvedNews
  <2>8. IInv'
    BY <1>1, <1>2, <2>4, IdleStep
  <2>. QED  BY <2>7, <2>8
<1>6. CASE q.lanes[lane] # <<>> /\ lane[2] # Router
  <2>1. r' = RunDelivery(q, lane)
    BY <1>1, <1>6 DEF Advance
  <2>2. PICK k \in Keys, i \in Instances : lane = <<k, i>>
    BY <1>6 DEF Lanes
  <2> DEFINE job == q.lanes[lane][1]
  <2>3. /\ Good(r', received, Known, wire, {}) /\ HandedOn(q, r', job.event, i, received)
    BY <1>2, <1>3, <1>6, <2>1, <2>2, RunDeliveryGood
  <2>4. /\ job.event.key = k /\ job.event \in Events /\ lane \in Lanes /\ q \in Memory
    BY <1>2, <1>3, <1>6, <2>2, DeliveryHead
  <2>5. IInv'
    BY <1>1, <1>2, <2>3, IdleStep
  <2>6. ASSUME NEW f \in q.published[i], f.key = k, job.event.type # "connected"
        PROVE  f.id < job.event.id
    <3>1. OrderOK(q, wire, {}) /\ 1 \in 1..Len(q.lanes[lane]) /\ job.stage # "done"
      BY <1>3, <1>6, <2>4, LaneTypes DEF Good
    <3>. QED  BY <2>2, <2>6, <3>1 DEF OrderOK, PublishedAhead
  <2>7. ASSUME NEW l \in Lanes, l[2] = i, r.lanes[l] # <<>> PROVE r.lanes[l][1].event # job.event
    <3>1. JobsOK(r, received) /\ JobsOK(q, received) /\ OrderOK(r, wire, {})
      BY <1>2, <1>3 DEF Good
    <3>2. 1 \in 1..Len(r.lanes[l]) /\ r.lanes[l][1].event.key = l[1]
      BY <1>2, <2>7, <3>1, LaneTypes DEF JobsOK, JobOK
    <3>3. SUFFICES ASSUME r.lanes[l][1].event = job.event PROVE FALSE
      OBVIOUS
    <3>4. l = lane
      BY <2>2, <2>4, <2>7, <3>2, <3>3 DEF Lanes
    <3>5. job = r.lanes[lane][2] /\ 2 \in 1..Len(r.lanes[lane]) /\ 1 \in 1..Len(r.lanes[lane])
      <4>1. r.lanes[lane] \in Seq(Jobs) /\ q.lanes[lane] = Tail(r.lanes[lane])
        BY <1>2 DEF q, Popped, Memory
      <4>2. Len(Tail(r.lanes[lane])) >= 1
        BY <1>6, <4>1
      <4>. QED  BY <1>1, <4>1, <4>2
    <3>6. job.event.id < job.event.id /\ job.event.id \in Nat
      BY <2>4, <3>1, <3>3, <3>4, <3>5, EventTypes DEF OrderOK, LanesOrdered
    <3>7. ~(job.event.id < job.event.id)
      BY <3>6
    <3>. QED  BY <3>6, <3>7
  <2>8. NewsOK(r, r', received, Known)
    <3>1. \A j \in Instances : \A f \in r'.published[j] \ r.published[j] :
            j = i /\ f = job.event /\ i \in Listed /\ f \in received[i]
      BY <1>3, <2>3 DEF HandedOn
    <3>. QED  BY <1>2, <1>3, <2>4, <2>6, <2>7, <3>1 DEF NewsOK
  <2>. QED  BY <2>5, <2>8
<1>. QED  BY <1>4, <1>5, <1>6

-----------------------------------------------------------------------------
(* The answers *)

\* In mid, the event of the head of <<k, i>> was published or refused.
Judged(q, mid, k, i) ==
  /\ mid \in Memory /\ mid.lanes = q.lanes /\ SameSize(q, mid)
  /\ mid.placed = q.placed /\ mid.unplaced = q.unplaced /\ mid.owners = q.owners
  /\ \A j \in Instances :
       /\ q.published[j] \subseteq mid.published[j] /\ q.refused[j] \subseteq mid.refused[j]
       /\ \A f \in mid.published[j] :
            f \in q.published[j] \/ (j = i /\ f = q.lanes[<<k, i>>][1].event)
  /\ i \in Listed => Settled(mid, i, q.lanes[<<k, i>>][1].event)

LEMMA JudgedGood ==
  ASSUME NEW q, NEW rec, NEW ws, NEW w, NEW now, Good(q, rec, ws, w, now),
         NEW k \in Keys, NEW i \in Instances, q.lanes[<<k, i>>] # <<>>, HearingOK(rec),
         NEW mid, Judged(q, mid, k, i), NEW new, new = Done(mid, <<k, i>>)
  PROVE  Good(new, rec, ws, w, now) /\ new.published = mid.published
<1> DEFINE lane == <<k, i>>
           job == q.lanes[lane][1]
<1>1. lane \in Lanes /\ ~q.closed /\ q \in Memory /\ job \in Jobs
  BY DeliveryHead
<1>2. /\ mid \in Memory /\ mid.lanes = q.lanes /\ SameSize(q, mid)
      /\ mid.placed = q.placed /\ mid.unplaced = q.unplaced /\ mid.owners = q.owners
      /\ \A j \in Instances :
           /\ q.published[j] \subseteq mid.published[j] /\ q.refused[j] \subseteq mid.refused[j]
           /\ \A f \in mid.published[j] : f \in q.published[j] \/ (j = i /\ f = job.event)
      /\ i \in Listed => Settled(mid, i, job.event)
  BY DEF Judged
<1>3. ~mid.closed /\ mid.lanes[lane] # <<>> /\ mid.lanes[lane][1] = job
  BY <1>1, <1>2 DEF SameSize
<1>4. LaneStep(mid, new, lane, Ended(job)) /\ SameCaches(mid, new)
  BY <1>1, <1>2, <1>3, DoneFields
<1>5. /\ new \in Memory /\ SameSize(q, new) /\ HeadIs(q.lanes, new.lanes, lane, Ended(job))
      /\ new.placed = q.placed /\ new.unplaced = q.unplaced /\ new.owners = q.owners
      /\ new.published = mid.published /\ new.refused = mid.refused
  BY <1>2, <1>4 DEF LaneStep, SameSize, SameCaches
<1>6. /\ \A j \in Instances :
           /\ q.published[j] \subseteq new.published[j] /\ q.refused[j] \subseteq new.refused[j]
           /\ \A f \in new.published[j] : f \in q.published[j] \/ (j = i /\ f = job.event)
      /\ i \in Listed => Settled(new, i, job.event)
  BY <1>2, <1>5 DEF Settled
<1>7. rec \in [Instances -> SUBSET Events] /\ Listed \subseteq Instances
  BY DEF HearingOK
<1>8. Good(new, rec, ws, w, now)
  <2>1. q.lanes[lane] # <<>>
    OBVIOUS
  <2>. HIDE DEF job, lane
  <2>. QED  BY <1>5, <1>6, <1>7, <2>1, FinishGood DEF job, lane
<1>. QED  BY <1>5, <1>8

LEMMA OwnerResolvedStep ==
  ASSUME IInv, NEW lane \in Lanes, OwnerResolved(lane)
  PROVE  IInv' /\ NewsOK(r, r', received, Known)
<1>1. PICK k \in Keys, i \in Instances : lane = <<k, i>>
  BY DEF OwnerResolved, Lanes
<1> DEFINE job == r.lanes[lane][1]
<1>2. /\ r.lanes[lane] # <<>> /\ Head(r.lanes[lane]) = job /\ Idle
      /\ job.stage \in {"yes", "no"} \/ (job.stage = "waiting" /\ ~job.fresh)
      /\ r' = IF ~Current(job) THEN Done(r, lane)
              ELSE IF ~Fresh(job) THEN LookUpOwner(r, lane)
              ELSE IF job.stage = "yes" THEN Done(Publish(r, job), lane)
              ELSE Done([r EXCEPT !.refused[lane[2]] = @ \cup {job.event}], lane)
  <2>1. r.lanes[lane] # <<>> /\ Head(r.lanes[lane]) = job
    BY Hears, LaneTypes DEF OwnerResolved, Waits
  <2>. QED  BY <2>1 DEF OwnerResolved, Waits
<1>3. /\ phase = "connected" /\ ~r.closed
      /\ HearingOK(received) /\ Good(r, received, Known, wire, {})
      /\ r \in Memory
  BY <1>2, RunsConnected, Hears
<1>4. /\ job \in Jobs /\ job.event \in Events /\ job.event.key = k /\ Recipient(job) = i
      /\ job.event \in received[i] /\ StageOK(lane, job) /\ (Current(job) <=> i \in Listed)
  BY <1>1, <1>2, <1>3, DeliveryHead
<1>5. lane[2] # Router /\ lane[2] = i
  BY <1>1, TypeConstants
<1>6. job.location \in Locations
  BY <1>2, <1>4, <1>5 DEF StageOK
<1>7. ASSUME Good(r', received, Known, wire, {}) PROVE IInv'
  BY <1>2, <1>3, <1>7, IdleStep
<1>8. ASSUME r'.published = r.published PROVE NewsOK(r, r', received, Known)
  BY <1>8 DEF NewsOK
<1>9. CASE ~Current(job)
  <2>1. r' = Done(r, lane) /\ i \notin Listed
    BY <1>2, <1>4, <1>9
  <2>2. Judged(r, r, k, i)
    BY <1>3, <2>1 DEF Judged, SameSize
  <2>3. Good(r', received, Known, wire, {}) /\ r'.published = r.published
    BY <1>1, <1>2, <1>3, <2>1, <2>2, JudgedGood
  <2>. QED  BY <1>7, <1>8, <2>3
<1>10. CASE Current(job) /\ ~Fresh(job)
  <2>1. r' = LookUpOwner(r, lane) /\ job.stage # "done"
    BY <1>2, <1>10
  <2>2. Good(r', received, Known, wire, {})
    BY <1>1, <1>2, <1>3, <1>6, <2>1, LookUpGood
  <2>3. r'.published = r.published
    BY <1>2, <1>3, <1>4, <1>6, <2>1, LookUpFields
  <2>. QED  BY <1>7, <1>8, <2>2, <2>3
<1>11. CASE Current(job) /\ Fresh(job) /\ job.stage = "yes"
  <2> DEFINE mid == Publish(r, job)
  <2>1. r' = Done(mid, lane)
    BY <1>2, <1>11
  <2>2. /\ mid \in Memory /\ mid.lanes = r.lanes /\ SameSize(r, mid)
        /\ mid.placed = r.placed /\ mid.unplaced = r.unplaced
        /\ mid.owners = r.owners /\ mid.refused = r.refused
        /\ \A j \in Instances : /\ r.published[j] \subseteq mid.published[j]
                                /\ j # i => mid.published[j] = r.published[j]
        /\ \A f \in mid.published[i] :
             f \in r.published[i] \/ (f = job.event /\ i \in Listed)
        /\ i \in Listed => job.event \in mid.published[i]
    BY <1>3, <1>4, PublishFields
  <2>. HIDE DEF mid
  <2>3. Judged(r, mid, k, i)
    BY <1>1, <2>2 DEF Judged, Settled
  <2>4. Good(r', received, Known, wire, {}) /\ r'.published = mid.published
    BY <1>1, <1>2, <1>3, <2>1, <2>3, JudgedGood
  <2>5. /\ OrderOK(r, wire, {}) /\ OwnersOK(r, Known) /\ JobsOK(r, received)
        /\ 1 \in 1..Len(r.lanes[lane])
    BY <1>2, <1>3, LaneTypes DEF Good
  <2>6. \A f \in r.published[i] : f.key = k /\ job.event.type # "connected" => f.id < job.event.id
    BY <1>1, <1>11, <2>5 DEF OrderOK, PublishedAhead
  <2>7. job.location \in Known[i]
    BY <1>1, <1>11, <2>5 DEF OwnersOK, Fresh
  <2>8. ASSUME NEW l \in Lanes, l[2] = i, r.lanes[l] # <<>>, r.lanes[l][1].event = job.event
        PROVE  l = lane
    <3>1. 1 \in 1..Len(r.lanes[l]) /\ r.lanes[l][1].event.key = l[1]
      BY <1>3, <2>5, <2>8, LaneTypes DEF JobsOK, JobOK
    <3>. QED  BY <1>1, <1>4, <2>8, <3>1 DEF Lanes
  <2>9. NewsOK(r, r', received, Known)
    <3>1. \A j \in Instances : \A f \in r'.published[j] \ r.published[j] :
            j = i /\ f = job.event /\ i \in Listed
      BY <2>2, <2>4
    <3>. QED  BY <1>3, <1>4, <2>6, <2>7, <2>8, <3>1 DEF NewsOK
  <2>. QED  BY <1>7, <2>4, <2>9
<1>12. CASE Current(job) /\ Fresh(job) /\ job.stage # "yes"
  <2> DEFINE R == [r.refused EXCEPT ![i] = r.refused[i] \cup {job.event}]
             mid == [r EXCEPT !.refused = R]
  <2>1. r' = Done(mid, lane)
    BY <1>2, <1>5, <1>12
  <2>2. /\ R \in [Instances -> SUBSET Events] /\ job.event \in R[i]
        /\ \A j \in Instances : r.refused[j] \subseteq R[j]
    BY <1>3, <1>4 DEF Memory
  <2>. HIDE DEF R
  <2>3. /\ mid \in Memory /\ mid.lanes = r.lanes /\ SameSize(r, mid)
        /\ mid.placed = r.placed /\ mid.unplaced = r.unplaced
        /\ mid.owners = r.owners /\ mid.refused = R /\ mid.published = r.published
    BY <1>3, <2>2 DEF Memory, SameSize
  <2>. HIDE DEF mid
  <2>4. Judged(r, mid, k, i)
    BY <1>1, <2>2, <2>3 DEF Judged, Settled
  <2>5. Good(r', received, Known, wire, {}) /\ r'.published = mid.published
    BY <1>1, <1>2, <1>3, <2>1, <2>4, JudgedGood
  <2>. QED  BY <1>7, <1>8, <2>3, <2>5
<1>. QED  BY <1>9, <1>10, <1>11, <1>12

LEMMA FurtherItself ==
  ASSUME NEW q \in Memory, NEW new, new.lanes = q.lanes
  PROVE  /\ FurtherOn(q.lanes, new.lanes) /\ RoutersStay(q.lanes, new.lanes)
         /\ HeadsOK(q.lanes) => HeadsOK(new.lanes)
BY DEF FurtherOn, RoutersStay, HeadsOK

\* Caches may forget who owns a location.
LEMMA OwnersGood ==
  ASSUME NEW q, NEW rec, NEW ws, NEW ws2, NEW w, NEW now, Good(q, rec, ws, w, now),
         HearingOK(rec), NEW new \in Memory, new.lanes = q.lanes, SameSize(q, new),
         new.published = q.published, new.refused = q.refused, new.unplaced = q.unplaced,
         new.placed = q.placed, OwnersOK(new, ws2)
  PROVE  Good(new, rec, ws2, w, now)
<1>1. q \in Memory /\ PlacesOK(q, w, now) /\ JobsOK(q, rec)
  BY DEF Good
<1>2. /\ FurtherOn(q.lanes, new.lanes) /\ RoutersStay(q.lanes, new.lanes)
      /\ HeadsOK(new.lanes)
  BY <1>1, FurtherItself, HeadsOfJobs
<1>3. MoreSettled(q, new)
  BY DEF MoreSettled
<1>4. ~q.closed => \A s \in Sessions :
        /\ PlaceOK(Ahead(q, w, s) \ now, s, new.placed[s])
        /\ new.lanes[<<s, Router>>] # <<>> =>
             AnswerOK(Ahead(q, w, s), s, new.placed[s], new.lanes[<<s, Router>>][1])
  BY <1>1 DEF PlacesOK
<1>. QED  BY <1>2, <1>3, <1>4, FurtherGood DEF HearingOK

LEMMA OwnerExpiresStep ==
  ASSUME IInv, NEW i \in Instances, NEW l \in Locations, OwnerExpires(i, l)
  PROVE  IInv' /\ NewsOK(r, r', received, Known)
<1>1. /\ HearingOK(received) /\ Good(r, received, Known, wire, {}) /\ r \in Memory
      /\ StreamOK
  BY Hears DEF IInv, RelayInv
<1> DEFINE O == [r.owners EXCEPT ![i] = [r.owners[i] EXCEPT ![l] = "none"]]
<1>2. r' = [r EXCEPT !.owners = O] /\ Idle
  BY DEF OwnerExpires
<1>3. /\ O \in [Instances -> [Locations -> {"none", "asked", "yes", "no"}]]
      /\ \A j \in Instances, x \in Locations : O[j][x] = "yes" => r.owners[j][x] = "yes"
  BY <1>1 DEF Memory
<1> HIDE DEF O
<1>4. /\ r' \in Memory /\ r'.lanes = r.lanes /\ SameSize(r, r')
      /\ r'.published = r.published /\ r'.refused = r.refused /\ r'.unplaced = r.unplaced
      /\ r'.placed = r.placed /\ r'.owners = O
  BY <1>1, <1>2, <1>3 DEF Memory, SameSize
<1>5. OwnersOK(r', Known)
  BY <1>1, <1>3, <1>4 DEF OwnersOK, Good
<1>6. Good(r', received, Known, wire, {})
  BY <1>1, <1>4, <1>5, OwnersGood
<1>7. IInv'
  BY <1>1, <1>2, <1>4, <1>6, IdleStep DEF StreamOK, SameSize
<1>. QED  BY <1>4, <1>7 DEF NewsOK

LEMMA SessionExpiresStep ==
  ASSUME IInv, NEW s \in Sessions, SessionExpires(s)
  PROVE  IInv' /\ NewsOK(r, r', received, Known)
<1>1. /\ HearingOK(received) /\ Good(r, received, Known, wire, {}) /\ r \in Memory
      /\ StreamOK
  BY Hears DEF IInv, RelayInv
<1>2. r' = [r EXCEPT !.placed[s] = "none"] /\ Idle
  BY DEF SessionExpires
<1>3. Good(r', received, Known, wire, {}) /\ Drops(r, r', s)
  BY <1>1, <1>2, DropGood
<1>4. \A e \in Entities : r.placed[e] = "none" => r'.placed[e] = "none"
  BY <1>1, <1>2 DEF Memory
<1>5. IInv'
  BY <1>1, <1>2, <1>3, <1>4, IdleStep DEF StreamOK, Drops
<1>. QED  BY <1>3, <1>5 DEF NewsOK, Drops

LEMMA QueueTimesOutStep ==
  ASSUME IInv, QueueTimesOut
  PROVE  IInv' /\ NewsOK(r, r', received, Known)
<1>1. /\ Good(r, received, Known, wire, {}) /\ r \in Memory /\ CountOK(r)
      /\ generation \in 0..MaxConnections
  BY Hears DEF IInv, RelayInv
<1>2. r' = Close(r) /\ Idle /\ r.count > 0
  BY DEF QueueTimesOut
<1>3. PICK l \in Lanes : r.lanes[l] # <<>>
  <2>1. ~(r.count = 0)
    BY <1>1, <1>2 DEF Memory
  <2>. QED  BY <1>1, <2>1, NoSlots DEF CountOK
<1>4. phase = "connected" /\ generation > 0
  BY <1>3, RunsConnected
<1>5. \A k \in 1..Len(wire) : \E j \in 1..Len(wire) : wire[k] = wire[j]
  OBVIOUS
<1>6. Good(r', received, Known, wire, {})
  BY <1>1, <1>2, <1>4, <1>5, CloseGood
<1>7. r'.published = r.published
  BY <1>1, <1>2, <1>4, CloseFields DEF SameCaches
<1>8. IInv'
  BY <1>2, <1>4, <1>6, IdleStep
<1>. QED  BY <1>7, <1>8 DEF NewsOK

\* No job of a queue that was closed publishes or remembers anything.
LEMMA LateResumesStep ==
  ASSUME IInv, NEW x, LateResumes(x)
  PROVE  IInv' /\ NewsOK(r, r', received, Known)
<1>1. /\ HearingOK(received) /\ Good(r, received, Known, wire, {}) /\ r \in Memory
      /\ StreamOK /\ LateOK(r)
  BY Hears DEF IInv, RelayInv
<1>2. x \in r.late /\ ~LateCurrent(x) /\ Idle
  BY <1>1 DEF LateResumes, LateOK, LateCurrent
<1> DEFINE T == r.late \ {x}
<1>3. r' = [r EXCEPT !.late = T]
  BY <1>2 DEF LateResumes
<1>4. T \subseteq r.late /\ T \in SUBSET [lane : Lanes, job : Jobs, generation : 1..MaxConnections]
  BY <1>1 DEF Memory
<1> HIDE DEF T
<1>5. /\ r' \in Memory /\ r'.lanes = r.lanes /\ r'.count = r.count /\ r'.closed = r.closed
      /\ r'.published = r.published /\ r'.refused = r.refused /\ r'.unplaced = r.unplaced
      /\ r'.placed = r.placed /\ r'.owners = r.owners /\ r'.late = T
  BY <1>1, <1>3, <1>4 DEF Memory
<1>6. Good(r', received, Known, wire, {})
  <2>1. /\ CountOK(r) /\ JobsOK(r, received) /\ OrderOK(r, wire, {})
        /\ KeptOK(r, received) /\ OwnersOK(r, Known) /\ RoutedOK(r) /\ PlacesOK(r, wire, {})
    BY <1>1 DEF Good
  <2>2. LateOK(r')
    BY <1>1, <1>4, <1>5 DEF LateOK
  <2>3. CountOK(r')
    <3>1. Slots(r') = Slots(r)
      BY <1>5 DEF Slots
    <3>. QED  BY <1>5, <2>1, <3>1 DEF CountOK
  <2>4. JobsOK(r', received) /\ OwnersOK(r', Known) /\ RoutedOK(r')
    BY <1>5, <2>1, SMTT(30) DEF JobsOK, OwnersOK, RoutedOK
  <2>5. OrderOK(r', wire, {})
    BY <1>5, <2>1 DEF OrderOK, LanesOrdered, RoutedAhead, PublishedAhead, ReceivedAhead
  <2>6. \A e, y : Queued(r', e, y) <=> Queued(r, e, y)
    BY <1>5 DEF Queued
  <2>7. KeptOK(r', received)
    BY <1>5, <2>1, <2>6 DEF KeptOK, Settled
  <2>8. \A s : Ahead(r', wire, s) = Ahead(r, wire, s)
    BY <2>6 DEF Ahead
  <2>9. PlacesOK(r', wire, {})
    BY <1>5, <2>1, <2>8 DEF PlacesOK
  <2>. QED  BY <1>5, <2>2, <2>3, <2>4, <2>5, <2>7, <2>9 DEF Good
<1>7. IInv'
  BY <1>1, <1>2, <1>5, <1>6, IdleStep DEF StreamOK
<1>. QED  BY <1>5, <1>7 DEF NewsOK

\* Whoever waits for a lookup hears what it found; K is what is known.
LEMMA AnswerGood ==
  ASSUME IInv, NEW i \in Instances, NEW l \in Locations, NEW answer \in {"yes", "no"},
         NEW K, Good(r, received, K, wire, {}), answer = "yes" => l \in K[i],
         r' = Answer(r, i, l, answer)
  PROVE  /\ Good(r', received, K, wire, {}) /\ r'.published = r.published
         /\ r'.closed = r.closed /\ r'.placed = r.placed
         /\ phase # "connected" => \A x \in Lanes : r'.lanes[x] = <<>>
<1>1. /\ HearingOK(received) /\ Good(r, received, K, wire, {}) /\ r \in Memory
      /\ StreamOK /\ JobsOK(r, received) /\ OwnersOK(r, K) /\ PlacesOK(r, wire, {})
  BY Hears DEF IInv, RelayInv, Good
<1> DEFINE Hit(x) == /\ x[2] = i /\ Waits(x, {"waiting"})
                     /\ Head(r.lanes[x]).fresh /\ Head(r.lanes[x]).location = l
<1>2. r' = [r EXCEPT !.owners[i][l] = answer,
                     !.lanes = [x \in Lanes |->
                        IF Hit(x) THEN [r.lanes[x] EXCEPT ![1].stage = answer]
                        ELSE r.lanes[x]]]
  BY ZenonT(40) DEF Answer
<1>3. answer \in {"yes", "no"} /\ (answer = "yes" => l \in K[i])
  OBVIOUS
<1> DEFINE O == [r.owners EXCEPT ![i] = [r.owners[i] EXCEPT ![l] = answer]]
           job(x) == [r.lanes[x][1] EXCEPT !.stage = answer]
           L == [x \in Lanes |-> IF Hit(x) THEN [r.lanes[x] EXCEPT ![1] = job(x)]
                                 ELSE r.lanes[x]]
<1>4. r' = [r EXCEPT !.owners = O, !.lanes = L]
  BY <1>2
<1>5. /\ O \in [Instances -> [Locations -> {"none", "asked", "yes", "no"}]]
      /\ \A j \in Instances, x \in Locations :
           O[j][x] = "yes" => r.owners[j][x] = "yes" \/ (j = i /\ x = l /\ answer = "yes")
  BY <1>1, <1>3 DEF Memory
<1>6. ASSUME NEW x \in Lanes, Hit(x)
      PROVE  /\ r.lanes[x] # <<>> /\ Len(r.lanes[x]) >= 1 /\ x[2] = i /\ x[2] # Router
             /\ r.lanes[x] \in Seq(Jobs) /\ r.lanes[x][1] \in Jobs
             /\ r.lanes[x][1].stage = "waiting" /\ r.lanes[x][1].location = l
  BY <1>1, <1>6, LaneTypes, TypeConstants DEF Waits
<1>7. ASSUME NEW x \in Lanes, Hit(x)
      PROVE  /\ L[x] \in Seq(Jobs) /\ Len(L[x]) = Len(r.lanes[x])
             /\ L[x][1].stage = answer /\ L[x][1].event = r.lanes[x][1].event
             /\ L[x][1].recipients = r.lanes[x][1].recipients
             /\ L[x][1].location = l /\ L[x][1].fresh = r.lanes[x][1].fresh
             /\ \A n \in 2..Len(r.lanes[x]) : L[x][n] = r.lanes[x][n]
  <2>1. /\ job(x) \in Jobs /\ job(x).event = r.lanes[x][1].event /\ job(x).stage = answer
        /\ job(x).recipients = r.lanes[x][1].recipients /\ job(x).location = l
        /\ job(x).fresh = r.lanes[x][1].fresh
    BY <1>3, <1>6, <1>7 DEF Jobs
  <2>2. L[x] = [r.lanes[x] EXCEPT ![1] = job(x)]
    BY <1>7
  <2>. HIDE DEF L, job
  <2>. QED  BY <1>6, <1>7, <2>1, <2>2
<1>8. \A x \in Lanes : ~Hit(x) => L[x] = r.lanes[x]
  OBVIOUS
<1>9. L \in [Lanes -> Seq(Jobs)]
  <2>1. \A x \in Lanes : L[x] \in Seq(Jobs)
    BY <1>1, <1>7, <1>8, LaneTypes
  <2>2. L = [x \in Lanes |-> L[x]]
    OBVIOUS
  <2>. HIDE DEF L
  <2>. QED  BY <2>1, <2>2
<1> HIDE DEF O, L, Hit, job
<1>10. /\ r' \in Memory /\ r'.lanes = L /\ SameSize(r, r')
       /\ r'.published = r.published /\ r'.refused = r.refused /\ r'.unplaced = r.unplaced
       /\ r'.placed = r.placed /\ r'.owners = O
  BY <1>1, <1>4, <1>5, <1>9 DEF Memory, SameSize
<1>11. \A x \in Lanes : x[2] = Router => L[x] = r.lanes[x]
  BY <1>6, <1>8
<1>12. FurtherOn(r.lanes, L)
  <2> SUFFICES ASSUME NEW x \in Lanes
               PROVE  /\ Len(L[x]) = Len(r.lanes[x])
                      /\ \A n \in 1..Len(r.lanes[x]) :
                           /\ L[x][n].event = r.lanes[x][n].event
                           /\ L[x][n].recipients = r.lanes[x][n].recipients
                           /\ x[2] # Router => L[x][n].location = r.lanes[x][n].location
                           /\ r.lanes[x][n].stage = "done" => L[x][n].stage = "done"
                      /\ \A n \in 2..Len(r.lanes[x]) : L[x][n].stage = r.lanes[x][n].stage
    BY DEF FurtherOn
  <2>1. CASE ~Hit(x)
    BY <1>8, <2>1
  <2>2. CASE Hit(x)
    <3>1. \A n \in 1..Len(r.lanes[x]) : n = 1 \/ n \in 2..Len(r.lanes[x])
      BY <1>1, LaneTypes
    <3>. QED  BY <1>6, <1>7, <2>2, <3>1, SMTT(30)
  <2>. QED  BY <2>1, <2>2
<1>13. HeadsOK(L)
  <2> SUFFICES ASSUME NEW x \in Lanes, L[x] # <<>> PROVE StageOK(x, L[x][1])
    BY DEF HeadsOK
  <2>1. CASE ~Hit(x)
    BY <1>1, <1>8, <2>1, HeadsOfJobs DEF HeadsOK
  <2>2. CASE Hit(x)
    BY <1>3, <1>6, <1>7, <2>2 DEF StageOK
  <2>. QED  BY <2>1, <2>2
<1>14. RoutersStay(r.lanes, L)
  BY <1>11, TypeConstants DEF RoutersStay
<1>15. MoreSettled(r, r')
  <2>1. ASSUME NEW k \in Keys, NEW j \in Instances, NEW n \in 1..Len(r.lanes[<<k, j>>]),
               L[<<k, j>>][n].stage = "done"
        PROVE  r.lanes[<<k, j>>][n].stage = "done"
    <3> DEFINE x == <<k, j>>
    <3>0. x \in Lanes
      BY TypeConstants
    <3>1. CASE ~Hit(x)
      BY <1>8, <2>1, <3>0, <3>1
    <3>2. CASE Hit(x)
      <4>1. n = 1 \/ n \in 2..Len(r.lanes[x])
        BY <1>1, <3>0, LaneTypes
      <4>. QED  BY <1>3, <1>7, <2>1, <3>0, <3>2, <4>1
    <3>. QED  BY <3>1, <3>2
  <2>. QED  BY <1>1, <1>10, <2>1 DEF MoreSettled, HearingOK
<1>16. OwnersOK(r', K)
  <2>1. \A j \in Instances, x \in Locations : O[j][x] = "yes" => x \in K[j]
    BY <1>1, <1>3, <1>5 DEF OwnersOK
  <2>2. ASSUME NEW k \in Keys, NEW j \in Instances, NEW n \in 1..Len(L[<<k, j>>]),
               L[<<k, j>>][n].stage = "yes", L[<<k, j>>][n].fresh
        PROVE  L[<<k, j>>][n].location \in K[j]
    <3> DEFINE x == <<k, j>>
    <3>0. x \in Lanes /\ x[2] = j
      BY TypeConstants
    <3>1. CASE ~Hit(x)
      BY <1>1, <1>8, <2>2, <3>0, <3>1 DEF OwnersOK
    <3>2. CASE Hit(x)
      <4>1. Len(L[x]) = Len(r.lanes[x]) /\ Len(r.lanes[x]) \in Nat
        BY <1>1, <1>7, <3>0, <3>2, LaneTypes
      <4>2. CASE n = 1
        BY <1>3, <1>6, <1>7, <2>2, <3>0, <3>2, <4>2
      <4>3. CASE n # 1
        <5>1. n \in 2..Len(r.lanes[x])
          BY <4>1, <4>3
        <5>2. r.lanes[x][n].stage = "queued"
          BY <1>1, <3>0, <5>1 DEF JobsOK
        <5>. QED  BY <1>7, <2>2, <3>0, <3>2, <5>1, <5>2
      <4>. QED  BY <4>2, <4>3
    <3>. QED  BY <3>1, <3>2
  <2>. QED  BY <1>10, <2>1, <2>2 DEF OwnersOK
<1>17. ~r.closed => \A s \in Sessions :
         /\ PlaceOK(Ahead(r, wire, s) \ {}, s, r'.placed[s])
         /\ r'.lanes[<<s, Router>>] # <<>> =>
              AnswerOK(Ahead(r, wire, s), s, r'.placed[s], r'.lanes[<<s, Router>>][1])
  <2>1. \A s \in Sessions : L[<<s, Router>>] = r.lanes[<<s, Router>>]
    BY <1>11, TypeConstants
  <2>. QED  BY <1>1, <1>10, <2>1 DEF PlacesOK
<1>18. Good(r', received, K, wire, {})
  BY <1>1, <1>10, <1>12, <1>13, <1>14, <1>15, <1>16, <1>17, FurtherGood DEF HearingOK
<1>19. phase # "connected" => \A x \in Lanes : L[x] = <<>>
  <2>1. \A x \in Lanes : Hit(x) => r.lanes[x] # <<>>
    BY <1>6
  <2>. QED  BY <1>1, <1>8, <2>1 DEF StreamOK
<1>. QED  BY <1>10, <1>18, <1>19 DEF SameSize

\* A scan that is not older than the one before shows as much, if it shows the same.
LEMMA ReadGrows ==
  ASSUME IInv, NEW i \in Instances, NEW n \in Reads(i), UNCHANGED scanVars,
         snapshot' = [snapshot EXCEPT ![i] = n]
  PROVE  /\ ScansOK' /\ snapshot' \in [Instances -> Nat] /\ Known'[i] = owned[i][n]
         /\ ~Differs(i, n) => \A j \in Instances : Known[j] \subseteq Known'[j]
<1>1. /\ TypeOK /\ ScansOK
  BY DEF IInv, RelayInv, OpenOK
<1>2. /\ snapshot \in [Instances -> Nat] /\ floor \in [Instances -> Nat]
      /\ owned \in [Instances -> Seq(SUBSET Locations)]
  BY <1>1 DEF TypeOK
<1>3. \A j \in Instances : /\ floor[j] \in 1..Len(owned[j]) /\ snapshot[j] \in 0..Len(owned[j])
                           /\ Len(owned[j]) \in Nat
  BY <1>1, <1>2 DEF ScansOK
<1>4. n \in 1..Len(owned[i]) /\ n \in Nat /\ n >= floor[i] /\ n >= snapshot[i] /\ n # 0
  BY <1>2, <1>3 DEF Reads, Latest
<1>5. owned' = owned /\ floor' = floor
  BY DEF scanVars
<1>6. snapshot'[i] = n /\ \A j \in Instances : j # i => snapshot'[j] = snapshot[j]
  BY <1>2
<1>7. snapshot' \in [Instances -> Nat]
  BY <1>2, <1>4
<1>8. ScansOK'
  BY <1>3, <1>4, <1>5, <1>6 DEF ScansOK
<1>9. Known'[i] = owned[i][n]
  BY <1>4, <1>5, <1>6 DEF Known
<1>10. ASSUME ~Differs(i, n), NEW j \in Instances PROVE Known[j] \subseteq Known'[j]
  <2>1. CASE j # i
    BY <1>5, <1>6, <2>1 DEF Known
  <2>2. CASE j = i
    <3>1. snapshot[i] = 0 \/ owned[i][n] = owned[i][snapshot[i]]
      BY <1>10 DEF Differs
    <3>2. Known[i] = {} \/ (snapshot[i] # 0 /\ Known[i] = owned[i][snapshot[i]])
      BY DEF Known
    <3>3. CASE Known[i] = {}
      BY <2>2, <3>3
    <3>4. CASE snapshot[i] # 0 /\ Known[i] = owned[i][snapshot[i]]
      BY <1>9, <2>2, <3>1, <3>4
    <3>. QED  BY <3>2, <3>3, <3>4
  <2>. QED  BY <2>1, <2>2
<1>. QED  BY <1>7, <1>8, <1>9, <1>10

\* What is right by what is known stays right when more is known.
LEMMA GoodGrows ==
  ASSUME NEW q, NEW rec, NEW ws, NEW ws2, NEW w, NEW now, Good(q, rec, ws, w, now),
         \A j \in Instances : ws[j] \subseteq ws2[j]
  PROVE  Good(q, rec, ws2, w, now)
<1>1. OwnersOK(q, ws2)
  BY DEF Good, OwnersOK
<1>. QED  BY <1>1 DEF Good

LEMMA SessionAnswersStep ==
  ASSUME IInv, NEW s \in Sessions, SessionAnswers(s)
  PROVE  IInv' /\ NewsOK(r, r', received, Known)
<1> DEFINE lane == <<s, Router>>
           old == r.lanes[lane][1]
           e == old.event
           A == Ahead(r, wire, s)
<1>1. /\ HearingOK(received) /\ Good(r, received, Known, wire, {}) /\ r \in Memory
      /\ TypeOK /\ TrailOK /\ JobsOK(r, received) /\ OwnersOK(r, Known)
      /\ PlacesOK(r, wire, {})
  BY Hears DEF IInv, RelayInv
<1>2. lane \in Lanes /\ s \in Keys /\ s \in Entities /\ lane[2] = Router /\ lane[1] = s
  BY TypeConstants
<1>3. r.lanes[lane] # <<>> /\ old.stage = "waiting" /\ Idle
  BY <1>1, <1>2, LaneTypes DEF SessionAnswers, Waits
<1>4. phase = "connected" /\ ~r.closed
  BY <1>2, <1>3, RunsConnected
<1>5. PICK place \in {NoLocation} \cup {Last(trail[s])} :
        r' = [r EXCEPT !.lanes[lane][1] = [@ EXCEPT !.stage = "answered", !.location = place]]
  BY DEF SessionAnswers
<1> DEFINE job == [old EXCEPT !.stage = "answered", !.location = place]
           L == WithHead(r.lanes, lane, job)
<1>6. old \in Jobs /\ r.lanes \in [Lanes -> Seq(Jobs)] /\ place \in Places
  BY <1>1, <1>2, <1>3, LaneTypes, TrailTypes DEF Memory, Places
<1>7. /\ job \in Jobs /\ job.event = old.event /\ job.stage = "answered"
      /\ job.recipients = old.recipients /\ job.location = place
  BY <1>6 DEF Jobs
<1>8. r' = [r EXCEPT !.lanes = L]
  BY <1>5 DEF WithHead
<1> HIDE DEF job
<1>9. HeadIs(r.lanes, L, lane, job)
  BY <1>2, <1>3, <1>6, <1>7, HeadReplaced
<1> HIDE DEF L
<1>10. /\ r' \in Memory /\ r'.lanes = L /\ SameSize(r, r') /\ r'.placed = r.placed
       /\ r'.published = r.published /\ r'.owners = r.owners
       /\ r'.refused = r.refused /\ r'.unplaced = r.unplaced
  <2>1. L \in [Lanes -> Seq(Jobs)]
    BY <1>9 DEF HeadIs
  <2>. QED  BY <1>1, <1>8, <2>1 DEF Memory, SameSize
<1>11. FurtherOn(r.lanes, L) /\ HeadsOK(L) /\ RoutersStay(r.lanes, L)
  <2>1. StageOK(lane, job)
    BY <1>2, <1>7 DEF StageOK
  <2>2. HeadsOK(r.lanes)
    BY <1>1, HeadsOfJobs
  <2>. QED  BY <1>2, <1>3, <1>6, <1>7, <1>9, <2>1, <2>2, HeadFurther
<1>12. \A k \in Keys, i \in Instances : L[<<k, i>>] = r.lanes[<<k, i>>]
  BY <1>9, TypeConstants DEF HeadIs
<1>13. MoreSettled(r, r') /\ OwnersOK(r', Known)
  <2>1. MoreSettled(r, r')
    BY <1>1, <1>10, <1>12 DEF MoreSettled, HearingOK
  <2>2. OwnersOK(r', Known)
    BY <1>1, <1>10, <1>12 DEF OwnersOK
  <2>. QED  BY <2>1, <2>2
<1>14. Oldest(e, A) /\ HopsOK(A, s) /\ A \in SUBSET Events
  <2>1. A \ {} = A /\ A \in SUBSET Events
    BY DEF Ahead
  <2>2. HopsOK(A, s)
    BY <1>1, <1>4, <2>1 DEF PlacesOK
  <2>3. old.stage # "done"
    BY <1>3
  <2>4. Oldest(e, A)
    BY <1>1, <1>2, <1>3, <2>3, HeadIsOldest
  <2>. QED  BY <2>1, <2>2, <2>4
<1>15. AnswerOK(A, s, r.placed[s], job)
  <2>1. r.placed[s] \notin Locations
    BY <1>1, <1>3, <1>4 DEF PlacesOK, AnswerOK
  <2>2. Serves(Last(trail[s]), A \ {e}, s)
    <3>1. HopsOK(A \ {e}, s) /\ A \ {e} \in SUBSET Events
      BY <1>14, HopsLess
    <3>. HIDE DEF A, e
    <3>. QED  BY <1>1, <3>1, LastServes
  <2>3. AtOrAfter(s, e.hop, Last(trail[s]))
    BY <1>1, <1>14, LastServes DEF Oldest
  <2>4. place # NoLocation => place = Last(trail[s])
    BY <1>5
  <2>. HIDE DEF A, e
  <2>5. job.event = e
    BY <1>7 DEF e
  <2>. QED  BY <1>7, <2>1, <2>2, <2>3, <2>4, <2>5 DEF AnswerOK
<1>16. ~r.closed => \A x \in Sessions :
         /\ PlaceOK(Ahead(r, wire, x) \ {}, x, r'.placed[x])
         /\ r'.lanes[<<x, Router>>] # <<>> =>
              AnswerOK(Ahead(r, wire, x), x, r'.placed[x], r'.lanes[<<x, Router>>][1])
  <2>1. \A x \in Sessions : x # s => L[<<x, Router>>] = r.lanes[<<x, Router>>]
    BY <1>9, TypeConstants DEF HeadIs
  <2>2. L[lane][1] = job
    BY <1>9 DEF HeadIs
  <2>. QED  BY <1>1, <1>10, <1>15, <2>1, <2>2 DEF PlacesOK
<1>17. Good(r', received, Known, wire, {})
  BY <1>1, <1>10, <1>11, <1>13, <1>16, FurtherGood DEF HearingOK
<1>18. IInv'
  BY <1>3, <1>4, <1>17, IdleStep
<1>. QED  BY <1>10, <1>18 DEF NewsOK

LEMMA SessionResolvedStep ==
  ASSUME IInv, NEW s \in Sessions, SessionResolved(s)
  PROVE  IInv' /\ NewsOK(r, r', received, Known)
<1> DEFINE lane == <<s, Router>>
           old == r.lanes[lane][1]
           e == old.event
           place == old.location
           A == Ahead(r, wire, s)
           job == [old EXCEPT !.stage = "queued"]
           P == [r.placed EXCEPT ![s] = IF @ = "asked" THEN place ELSE @]
           L == WithHead(r.lanes, lane, job)
           mid == [r EXCEPT !.placed = P, !.lanes = L]
<1>1. /\ HearingOK(received) /\ Good(r, received, Known, wire, {}) /\ r \in Memory
      /\ TypeOK /\ TrailOK /\ JobsOK(r, received) /\ OwnersOK(r, Known)
      /\ PlacesOK(r, wire, {})
  BY Hears DEF IInv, RelayInv
<1>2. lane \in Lanes /\ s \in Keys /\ s \in Entities /\ lane[2] = Router /\ lane[1] = s
  BY TypeConstants
<1>3. r.lanes[lane] # <<>> /\ Head(r.lanes[lane]) = old /\ old.stage = "answered" /\ Idle
  BY <1>1, <1>2, LaneTypes DEF SessionResolved, Waits
<1>4. phase = "connected" /\ ~r.closed /\ generation \in 1..MaxConnections
  BY <1>2, <1>3, RunsConnected
<1>5. r' = Route(mid, lane, place)
  BY <1>3 DEF SessionResolved, WithHead
<1>6. old \in Jobs /\ r.lanes \in [Lanes -> Seq(Jobs)] /\ place \in Places /\ e \in Events
  BY <1>1, <1>2, <1>3, LaneTypes DEF Memory, Jobs
<1>7. /\ job \in Jobs /\ job.event = e /\ job.stage = "queued"
      /\ job.recipients = old.recipients
  BY <1>6 DEF Jobs
<1>8. /\ P \in [Entities -> Places \cup {"none", "asked"}]
      /\ P[s] = place \/ P[s] = r.placed[s]
      /\ \A x \in Sessions : x # s => P[x] = r.placed[x]
  BY <1>1, <1>2, <1>6, TypeConstants DEF Memory
<1> HIDE DEF job
<1>9. HeadIs(r.lanes, L, lane, job)
  BY <1>2, <1>3, <1>6, <1>7, HeadReplaced
<1> HIDE DEF P, L
<1>10. /\ mid \in Memory /\ mid.lanes = L /\ SameSize(r, mid) /\ mid.placed = P
       /\ mid.published = r.published /\ mid.owners = r.owners
       /\ mid.refused = r.refused /\ mid.unplaced = r.unplaced
  <2>1. L \in [Lanes -> Seq(Jobs)]
    BY <1>9 DEF HeadIs
  <2>. QED  BY <1>1, <1>8, <2>1 DEF Memory, SameSize
<1> HIDE DEF mid
<1>11. FurtherOn(r.lanes, L) /\ HeadsOK(L) /\ RoutersStay(r.lanes, L)
  <2>1. StageOK(lane, job)
    BY <1>2, <1>7 DEF StageOK
  <2>2. HeadsOK(r.lanes)
    BY <1>1, HeadsOfJobs
  <2>. QED  BY <1>2, <1>3, <1>6, <1>7, <1>9, <2>1, <2>2, HeadFurther
<1>12. \A k \in Keys, i \in Instances : L[<<k, i>>] = r.lanes[<<k, i>>]
  BY <1>9, TypeConstants DEF HeadIs
<1>13. MoreSettled(r, mid) /\ OwnersOK(mid, Known)
  <2>1. MoreSettled(r, mid)
    BY <1>1, <1>10, <1>12 DEF MoreSettled, HearingOK
  <2>2. OwnersOK(mid, Known)
    BY <1>1, <1>10, <1>12 DEF OwnersOK
  <2>. QED  BY <2>1, <2>2
<1>14. AnswerOK(A, s, r.placed[s], old)
  BY <1>1, <1>3, <1>4 DEF PlacesOK
<1>15. /\ r.placed[s] \notin Locations
       /\ place # NoLocation => AtOrAfter(s, e.hop, place) /\ Serves(place, A \ {e}, s)
  BY <1>3, <1>14 DEF AnswerOK
<1>16. Good(r, received, Known, wire, {e})
  <2>1. old.stage # "done"
    BY <1>3
  <2>. HIDE DEF e
  <2>2. e = r.lanes[<<s, Router>>][1].event
    BY DEF e
  <2>. QED  BY <1>1, <1>2, <1>3, <1>15, <2>1, <2>2, RouteStart
<1>17. ~r.closed => \A x \in Sessions :
         /\ PlaceOK(Ahead(r, wire, x) \ {e}, x, mid.placed[x])
         /\ mid.lanes[<<x, Router>>] # <<>> =>
              AnswerOK(Ahead(r, wire, x), x, mid.placed[x], mid.lanes[<<x, Router>>][1])
  <2>1. \A x \in Sessions : x # s => L[<<x, Router>>] = r.lanes[<<x, Router>>]
    BY <1>9, TypeConstants DEF HeadIs
  <2>2. L[lane][1] = job
    BY <1>9 DEF HeadIs
  <2>3. AnswerOK(A, s, mid.placed[s], job)
    BY <1>7 DEF AnswerOK
  <2>4. PlaceOK(A \ {e}, s, mid.placed[s])
    <3>1. place \in Locations => place # NoLocation
      BY TypeConstants
    <3>. QED  BY <1>8, <1>10, <1>15, <3>1 DEF PlaceOK
  <2>5. PlacesOK(r, wire, {e})
    BY <1>16 DEF Good
  <2>6. ASSUME NEW x \in Sessions, x # s
        PROVE  /\ PlaceOK(Ahead(r, wire, x) \ {e}, x, mid.placed[x])
               /\ mid.lanes[<<x, Router>>] # <<>> =>
                    AnswerOK(Ahead(r, wire, x), x, mid.placed[x], mid.lanes[<<x, Router>>][1])
    BY <1>4, <1>8, <1>10, <2>1, <2>5, <2>6 DEF PlacesOK
  <2>. QED  BY <1>10, <2>2, <2>3, <2>4, <2>6
<1>18. Good(mid, received, Known, wire, {e})
  <2>. HIDE DEF e
  <2>. QED  BY <1>1, <1>10, <1>11, <1>13, <1>16, <1>17, FurtherGood DEF HearingOK
<1>19. mid.lanes[lane] # <<>> /\ mid.lanes[lane][1] = job
  BY <1>3, <1>6, <1>9, <1>10 DEF HeadIs
<1>20. RoutesNow(mid, s, e)
  <2>1. old.stage # "done"
    BY <1>3
  <2>2. \A i \in Instances : NotYet(r, e, i)
    BY <1>1, <1>2, <1>3, <2>1, HeadIsOldest
  <2>3. e.key = s
    BY <1>1, <1>2, <1>3, RoutingHead
  <2>4. \A i \in Instances : NotYet(mid, e, i)
    BY <1>2, <1>10, <1>12, <2>2, <2>3 DEF NotYet
  <2>. QED  BY <1>7, <1>19, <2>4 DEF RoutesNow
<1>21. RoutesTo(mid, wire, s, e, place)
  <2>1. Ahead(mid, wire, s) = A
    BY <1>1, <1>10, <1>11, FurtherAhead
  <2>. QED  BY <1>6, <1>15, <2>1 DEF RoutesTo
<1>22. Good(r', received, Known, wire, {}) /\ OnlyNews(mid, r', e, received)
  <2>1. mid.lanes[<<s, Router>>][1].stage = "queued"
    BY <1>7, <1>19
  <2>. HIDE DEF e, place
  <2>. QED  BY <1>1, <1>2, <1>4, <1>5, <1>18, <1>20, <1>21, <2>1, RouteGood
<1>23. OnlyNews(r, r', e, received)
  <2>1. e.key = s
    BY <1>1, <1>2, <1>3, RoutingHead
  <2>2. \A i \in Instances : NotYet(mid, e, i) => NotYet(r, e, i)
    BY <1>2, <1>10, <1>12, <2>1 DEF NotYet
  <2>. QED  BY <1>10, <1>22, <2>2 DEF OnlyNews
<1>24. NewsOK(r, r', received, Known)
  BY <1>1, <1>4, <1>6, <1>23, ResolvedNews
<1>25. IInv'
  BY <1>3, <1>4, <1>22, IdleStep
<1>. QED  BY <1>24, <1>25

-----------------------------------------------------------------------------
(* The subscription ends *)

LEMMA ClosesGood ==
  ASSUME IInv, r' = Close(r), wire' = <<>>, UNCHANGED <<generation, openVars>>,
         UNCHANGED <<daemonVars, ownerVars, received>>
  PROVE  /\ Good(r, received, Known, wire, {})' /\ r'.closed /\ \A l \in Lanes : r'.lanes[l] = <<>>
         /\ NewsOK(r, r', received', Known) /\ OpenOK' /\ TrailOK' /\ Listed' = Listed
         /\ r' \in Memory
<1>1. /\ Good(r, received, Known, wire, {}) /\ r \in Memory /\ TypeOK /\ StreamOK
      /\ OpenOK /\ TrailOK
  BY Hears DEF IInv, RelayInv
<1>2. generation \in 0..MaxConnections /\ (generation > 0 \/ \A l \in Lanes : r.lanes[l] = <<>>)
  <2>1. CASE phase = "connected"
    BY <1>1, <2>1, Hears, GenerationOK
  <2>2. CASE phase # "connected"
    BY <1>1, <2>2, Hears DEF StreamOK
  <2>. QED  BY <2>1, <2>2
<1>3. /\ r' \in Memory /\ r'.closed /\ r'.published = r.published
      /\ \A l \in Lanes : r'.lanes[l] = <<>>
  BY <1>1, <1>2, CloseFields DEF SameCaches
<1>4. /\ generation' = generation /\ listed' = listed /\ epoch' = epoch /\ trail' = trail
      /\ sent' = sent /\ Known' = Known /\ received' = received /\ gone' = gone
      /\ owned' = owned /\ snapshot' = snapshot /\ floor' = floor /\ (ScansOK => ScansOK')
  BY OwnersKept DEF openVars, daemonVars
<1>5. Listed' = Listed /\ Listed \subseteq Instances
  BY <1>1, <1>4 DEF Listed, TypeOK, ToSet
<1>6. Good(r', received', Known', wire', {})
  <2>1. \A k \in 1..Len(wire') : \E j \in 1..Len(wire) : wire'[k] = wire[j]
    OBVIOUS
  <2>2. Good(Close(r), received', Known, wire', {})
    BY <1>1, <1>2, <2>1, CloseGood
  <2>. QED  BY <1>4, <2>2
<1>7. Good(r, received, Known, wire, {})'
  <2>1. sent \in Nat /\ sent <= sent
    BY <1>1, LimitAssumption DEF TypeOK
  <2>. QED  BY <1>4, <1>5, <1>6, <2>1, StableGood
<1>8. NewsOK(r, r', received', Known)
  BY <1>3 DEF NewsOK
<1>9. OpenOK' /\ TrailOK'
  BY <1>1, <1>4, <1>5 DEF OpenOK, TrailOK
<1>. QED  BY <1>3, <1>5, <1>7, <1>8, <1>9

LEMMA DisconnectStep ==
  ASSUME IInv, phase \in {"connecting", "open", "connected"}, Disconnect
  PROVE  IInv' /\ NewsOK(r, r', received', Known)
<1>1. /\ TypeOK /\ StreamOK /\ StatusIsShared /\ generation > 0
      /\ generation \in 0..MaxConnections
  BY Hears, GenerationOK DEF IInv, RelayInv
<1>2. /\ phase' = "delay" /\ r' = Close(r) /\ wire' = <<>> /\ status' = "error"
      /\ busStatus' = [i \in Instances |->
                         IF i \in Listed THEN <<"error", generation>> ELSE busStatus[i]]
      /\ UNCHANGED <<generation, openVars>> /\ UNCHANGED <<daemonVars, ownerVars, received>>
  BY DEF Disconnect, UpdateStatus
<1>3. /\ Good(r, received, Known, wire, {})' /\ r'.closed /\ \A l \in Lanes : r'.lanes[l] = <<>>
      /\ NewsOK(r, r', received', Known) /\ OpenOK' /\ TrailOK' /\ Listed' = Listed
      /\ r' \in Memory
  BY <1>2, ClosesGood
<1>4. /\ generation' = generation /\ listed' = listed /\ epoch' = epoch /\ trail' = trail
      /\ sent' = sent /\ Known' = Known /\ received' = received /\ gone' = gone
      /\ owned' = owned /\ snapshot' = snapshot /\ floor' = floor /\ (ScansOK => ScansOK')
      /\ unseen' = unseen /\ changes' = changes
  BY <1>2, OwnersKept DEF openVars, daemonVars
<1>5. TypeOK'
  <2>1. busStatus' \in [Instances ->
          {"none", "connecting", "connected", "error", "disconnected"} \X (0..MaxConnections)]
    BY <1>1, <1>2 DEF TypeOK
  <2>2. wire' \in Seq(Events)
    BY <1>2
  <2>. QED  BY <1>1, <1>2, <1>3, <1>4, <2>1, <2>2 DEF TypeOK
<1>6. StreamOK'
  BY <1>1, <1>2, <1>3, <1>4 DEF StreamOK
<1>7. StatusIsShared'
  BY <1>1, <1>2, <1>3, <1>4 DEF StatusIsShared
<1>. QED  BY <1>3, <1>5, <1>6, <1>7 DEF IInv, RelayInv, Good

LEMMA ShutdownStep ==
  ASSUME IInv, Shutdown
  PROVE  IInv' /\ NewsOK(r, r', received', Known)
<1>1. /\ TypeOK /\ StreamOK /\ StatusIsShared /\ generation \in 0..MaxConnections
  BY Hears DEF IInv, RelayInv
<1>2. /\ phase' = "ended" /\ r' = Close(r) /\ wire' = <<>> /\ status' = status
      /\ busStatus' = [i \in Instances |->
                         IF i \in Listed THEN <<"disconnected", generation>> ELSE busStatus[i]]
      /\ UNCHANGED <<generation, openVars>> /\ UNCHANGED <<daemonVars, ownerVars, received>>
  BY DEF Shutdown
<1>3. /\ Good(r, received, Known, wire, {})' /\ r'.closed /\ \A l \in Lanes : r'.lanes[l] = <<>>
      /\ NewsOK(r, r', received', Known) /\ OpenOK' /\ TrailOK' /\ Listed' = Listed
      /\ r' \in Memory
  BY <1>2, ClosesGood
<1>4. /\ generation' = generation /\ listed' = listed /\ epoch' = epoch /\ trail' = trail
      /\ sent' = sent /\ Known' = Known /\ received' = received /\ gone' = gone
      /\ owned' = owned /\ snapshot' = snapshot /\ floor' = floor /\ (ScansOK => ScansOK')
      /\ unseen' = unseen /\ changes' = changes
  BY <1>2, OwnersKept DEF openVars, daemonVars
<1>5. TypeOK'
  <2>1. busStatus' \in [Instances ->
          {"none", "connecting", "connected", "error", "disconnected"} \X (0..MaxConnections)]
    BY <1>1, <1>2 DEF TypeOK
  <2>2. wire' \in Seq(Events)
    BY <1>2
  <2>. QED  BY <1>1, <1>2, <1>3, <1>4, <2>1, <2>2 DEF TypeOK
<1>6. StreamOK'
  BY <1>1, <1>2, <1>3, <1>4 DEF StreamOK
<1>7. StatusIsShared'
  BY <1>2 DEF StatusIsShared
<1>. QED  BY <1>3, <1>5, <1>6, <1>7 DEF IInv, RelayInv, Good

-----------------------------------------------------------------------------
(* The caches are emptied *)

Stale(job) == [job EXCEPT !.fresh = FALSE]

LEMMA StaleFields ==
  ASSUME NEW job \in Jobs
  PROVE  /\ Stale(job) \in Jobs /\ Stale(job).event = job.event
         /\ Stale(job).recipients = job.recipients /\ Stale(job).location = job.location
         /\ Stale(job).stage = job.stage /\ ~Stale(job).fresh
BY DEF Jobs, Stale

\* In new, nobody is known to own anything.
Revised(q, new) ==
  /\ new \in Memory /\ SameSize(q, new) /\ new.placed = q.placed
  /\ new.published = q.published /\ new.refused = q.refused /\ new.unplaced = q.unplaced
  /\ \A i \in Instances, l \in Locations : new.owners[i][l] = "none"
  /\ \A l \in Lanes : /\ Len(new.lanes[l]) = Len(q.lanes[l])
                      /\ \A n \in 1..Len(q.lanes[l]) : new.lanes[l][n] = Stale(q.lanes[l][n])

LEMMA InvalidateFields ==
  ASSUME NEW q \in Memory, NEW new, new = InvalidateOwners(q)
  PROVE  Revised(q, new)
<1> DEFINE O == [i \in Instances |-> [l \in Locations |-> "none"]]
           row(l) == [n \in DOMAIN q.lanes[l] |-> Stale(q.lanes[l][n])]
           L == [l \in Lanes |-> row(l)]
<1>1. new = [q EXCEPT !.owners = O, !.lanes = L]
  BY DEF InvalidateOwners, Stale
<1>2. q.lanes \in [Lanes -> Seq(Jobs)]
  BY DEF Memory
<1>3. ASSUME NEW l \in Lanes
      PROVE  /\ row(l) \in Seq(Jobs) /\ Len(row(l)) = Len(q.lanes[l])
             /\ \A n \in 1..Len(q.lanes[l]) : row(l)[n] = Stale(q.lanes[l][n])
  <2>1. q.lanes[l] \in Seq(Jobs) /\ Len(q.lanes[l]) \in Nat
        /\ DOMAIN q.lanes[l] = 1..Len(q.lanes[l])
    BY <1>2
  <2>2. \A n \in 1..Len(q.lanes[l]) : q.lanes[l][n] \in Jobs
    BY <2>1
  <2>3. \A n \in 1..Len(q.lanes[l]) : Stale(q.lanes[l][n]) \in Jobs
    BY <2>2, StaleFields
  <2>4. row(l) = [n \in 1..Len(q.lanes[l]) |-> Stale(q.lanes[l][n])]
    BY <2>1
  <2>. HIDE DEF row
  <2>5. row(l) \in [1..Len(q.lanes[l]) -> Jobs]
    BY <2>3, <2>4
  <2>. QED  BY <2>1, <2>4, <2>5
<1> HIDE DEF row
<1>4. L \in [Lanes -> Seq(Jobs)]
  BY <1>3
<1>5. O \in [Instances -> [Locations -> {"none", "asked", "yes", "no"}]]
      /\ \A i \in Instances, l \in Locations : O[i][l] = "none"
  OBVIOUS
<1>6. \A l \in Lanes : L[l] = row(l)
  OBVIOUS
<1> HIDE DEF O, L
<1>7. /\ new \in Memory /\ SameSize(q, new) /\ new.placed = q.placed
      /\ new.published = q.published /\ new.refused = q.refused /\ new.unplaced = q.unplaced
      /\ new.owners = O /\ new.lanes = L
  <2>1. new \in Memory
    <3>1. O \in [Instances -> [Locations -> {"none", "asked", "yes", "no"}]]
      BY <1>5
    <3>2. [q EXCEPT !.owners = O] \in Memory
      BY <3>1 DEF Memory
    <3>. QED  BY <1>1, <1>4, <3>2 DEF Memory
  <2>2. new.owners = O /\ new.lanes = L /\ new.placed = q.placed
    BY <1>1 DEF Memory
  <2>3. new.published = q.published /\ new.refused = q.refused /\ new.unplaced = q.unplaced
    BY <1>1 DEF Memory
  <2>4. SameSize(q, new)
    BY <1>1 DEF Memory, SameSize
  <2>. QED  BY <2>1, <2>2, <2>3, <2>4
<1>8. ASSUME NEW l \in Lanes
      PROVE  /\ Len(new.lanes[l]) = Len(q.lanes[l])
             /\ \A n \in 1..Len(q.lanes[l]) : new.lanes[l][n] = Stale(q.lanes[l][n])
  <2>1. new.lanes[l] = row(l)
    BY <1>6, <1>7
  <2>. QED  BY <1>3, <2>1
<1>9. \A i \in Instances, l \in Locations : new.owners[i][l] = "none"
  BY <1>5, <1>7
<1>. QED  BY <1>7, <1>8, <1>9 DEF Revised

SameHeads(q, new) ==
  \A l \in Lanes : /\ q.lanes[l] = <<>> <=> new.lanes[l] = <<>>
                   /\ q.lanes[l] # <<>> => new.lanes[l][1].stage = q.lanes[l][1].stage

LEMMA RevisedGood ==
  ASSUME NEW q, NEW rec, NEW ws, NEW ws2, NEW w, NEW now, Good(q, rec, ws, w, now),
         HearingOK(rec), NEW new, Revised(q, new)
  PROVE  Good(new, rec, ws2, w, now) /\ SameHeads(q, new)
<1>1. /\ new \in Memory /\ SameSize(q, new) /\ new.placed = q.placed
      /\ new.published = q.published /\ new.refused = q.refused /\ new.unplaced = q.unplaced
      /\ \A i \in Instances, l \in Locations : new.owners[i][l] = "none"
      /\ \A l \in Lanes : /\ Len(new.lanes[l]) = Len(q.lanes[l])
                          /\ \A n \in 1..Len(q.lanes[l]) : new.lanes[l][n] = Stale(q.lanes[l][n])
  BY DEF Revised
<1>2. q \in Memory /\ PlacesOK(q, w, now) /\ JobsOK(q, rec)
  BY DEF Good
<1>3. ASSUME NEW l \in Lanes, NEW n \in 1..Len(q.lanes[l])
      PROVE  /\ new.lanes[l][n].event = q.lanes[l][n].event
             /\ new.lanes[l][n].recipients = q.lanes[l][n].recipients
             /\ new.lanes[l][n].location = q.lanes[l][n].location
             /\ new.lanes[l][n].stage = q.lanes[l][n].stage
             /\ ~new.lanes[l][n].fresh
  <2>1. q.lanes[l][n] \in Jobs /\ new.lanes[l][n] = Stale(q.lanes[l][n])
    BY <1>1, <1>2, LaneTypes
  <2>. QED  BY <2>1, StaleFields
<1>4. \A l \in Lanes : /\ q.lanes[l] = <<>> <=> new.lanes[l] = <<>>
                       /\ q.lanes[l] # <<>> => 1 \in 1..Len(q.lanes[l])
                       /\ \A n \in 2..Len(q.lanes[l]) : n \in 1..Len(q.lanes[l])
  BY <1>1, <1>2, LaneTypes
<1>5. FurtherOn(q.lanes, new.lanes)
  BY <1>1, <1>3, <1>4 DEF FurtherOn
<1>6. HeadsOK(new.lanes)
  <2>1. HeadsOK(q.lanes)
    BY <1>2, HeadsOfJobs
  <2>. QED  BY <1>3, <1>4, <2>1 DEF HeadsOK, StageOK
<1>7. RoutersStay(q.lanes, new.lanes)
  BY <1>3, TypeConstants DEF RoutersStay
<1>8. MoreSettled(q, new)
  <2>1. \A k \in Keys, i \in Listed : <<k, i>> \in Lanes
    BY TypeConstants DEF HearingOK
  <2>. QED  BY <1>1, <1>3, <2>1 DEF MoreSettled
<1>9. OwnersOK(new, ws2)
  <2>1. \A k \in Keys, i \in Instances : <<k, i>> \in Lanes
    BY TypeConstants
  <2>. QED  BY <1>1, <1>3, <2>1 DEF OwnersOK
<1>10. ~q.closed => \A s \in Sessions :
         /\ PlaceOK(Ahead(q, w, s) \ now, s, new.placed[s])
         /\ new.lanes[<<s, Router>>] # <<>> =>
              AnswerOK(Ahead(q, w, s), s, new.placed[s], new.lanes[<<s, Router>>][1])
  <2>1. \A s \in Sessions : <<s, Router>> \in Lanes
    BY TypeConstants
  <2>2. ASSUME ~q.closed, NEW s \in Sessions, new.lanes[<<s, Router>>] # <<>>
        PROVE  AnswerOK(Ahead(q, w, s), s, new.placed[s], new.lanes[<<s, Router>>][1])
    <3>1. AnswerOK(Ahead(q, w, s), s, q.placed[s], q.lanes[<<s, Router>>][1])
      BY <1>2, <1>4, <2>1, <2>2 DEF PlacesOK
    <3>2. 1 \in 1..Len(q.lanes[<<s, Router>>])
      BY <1>4, <2>1, <2>2
    <3>. QED  BY <1>1, <1>3, <2>1, <3>1, <3>2 DEF AnswerOK
  <2>. QED  BY <1>1, <1>2, <2>2 DEF PlacesOK
<1>11. Good(new, rec, ws2, w, now)
  BY <1>1, <1>5, <1>6, <1>7, <1>8, <1>9, <1>10, FurtherGood DEF HearingOK
<1>12. SameHeads(q, new)
  BY <1>3, <1>4 DEF SameHeads
<1>. QED  BY <1>11, <1>12

\* In new, nothing is known.
Cleared(q, new) ==
  /\ \E mid : Revised(q, mid) /\ new.lanes = mid.lanes /\ new.owners = mid.owners
  /\ new \in Memory /\ SameSize(q, new)
  /\ new.published = q.published /\ new.refused = q.refused /\ new.unplaced = q.unplaced
  /\ \A e \in Entities : new.placed[e] = "none"

LEMMA ClearFields ==
  ASSUME NEW q \in Memory, NEW new, new = ClearLocationCaches(q)
  PROVE  Cleared(q, new)
<1> DEFINE mid == InvalidateOwners(q)
           P == [e \in Entities |-> "none"]
<1>1. new = [mid EXCEPT !.placed = P]
  BY DEF ClearLocationCaches
<1> HIDE DEF mid
<1>2. Revised(q, mid)
  BY InvalidateFields DEF mid
<1>3. P \in [Entities -> Places \cup {"none", "asked"}] /\ \A e \in Entities : P[e] = "none"
  OBVIOUS
<1> HIDE DEF P
<1>4. /\ new \in Memory /\ new.lanes = mid.lanes /\ new.owners = mid.owners /\ new.placed = P
      /\ SameSize(mid, new) /\ new.published = mid.published /\ new.refused = mid.refused
      /\ new.unplaced = mid.unplaced
  BY <1>1, <1>2, <1>3, ZenonT(40) DEF Memory, Revised, SameSize
<1>. QED  BY <1>2, <1>3, <1>4 DEF Cleared, Revised, SameSize

LEMMA ClearedGood ==
  ASSUME NEW q, NEW rec, NEW ws, NEW ws2, NEW w, Good(q, rec, ws, w, {}),
         HearingOK(rec), NEW new, Cleared(q, new)
  PROVE  /\ Good(new, rec, ws2, w, {})
         /\ \A l \in Lanes : q.lanes[l] = <<>> => new.lanes[l] = <<>>
<1>1. PICK mid : Revised(q, mid) /\ new.lanes = mid.lanes /\ new.owners = mid.owners
  BY DEF Cleared
<1>2. /\ new \in Memory /\ SameSize(q, new)
      /\ new.published = q.published /\ new.refused = q.refused /\ new.unplaced = q.unplaced
      /\ \A e \in Entities : new.placed[e] = "none"
  BY DEF Cleared
<1>3. Good(mid, rec, ws2, w, {}) /\ \A l \in Lanes : q.lanes[l] = <<>> => mid.lanes[l] = <<>>
  <2>1. Revised(q, mid)
    BY <1>1
  <2>2. Good(mid, rec, ws2, w, {}) /\ SameHeads(q, mid)
    BY <2>1, RevisedGood
  <2>. QED  BY <2>2 DEF SameHeads
<1>4. /\ SameSize(mid, new) /\ new.published = mid.published /\ new.refused = mid.refused
      /\ new.unplaced = mid.unplaced
  BY <1>1, <1>2 DEF Revised, SameSize
<1>5. ~mid.closed => \A s \in Sessions :
         /\ PlaceOK(Ahead(mid, w, s) \ {}, s, new.placed[s])
         /\ mid.lanes[<<s, Router>>] # <<>>
              /\ mid.lanes[<<s, Router>>][1].stage \in {"waiting", "answered"} =>
              new.placed[s] \notin Locations
  <2>1. "none" \notin Locations /\ Sessions \subseteq Entities
    BY TypeConstants
  <2>. QED  BY <1>2, <2>1 DEF PlaceOK
<1>6. Good(new, rec, ws2, w, {})
  BY <1>1, <1>2, <1>3, <1>4, <1>5, PlacedGood
<1>. QED  BY <1>1, <1>3, <1>6

LEMMA WorktreesChangedStep ==
  ASSUME IInv, NEW i \in Instances, WorktreesChanged(i)
  PROVE  IInv' /\ NewsOK(r, r', received', Known)
<1>1. /\ TypeOK /\ StreamOK /\ OpenOK /\ StatusIsShared /\ TrailOK /\ ScansOK
      /\ Good(r, received, Known, wire, {}) /\ HearingOK(received) /\ r \in Memory
  BY Hears DEF IInv, RelayInv, OpenOK
<1>2. /\ r' = InvalidateOwners(r) /\ unseen' = unseen \ {i}
      /\ floor' = [floor EXCEPT ![i] = Latest(i)] /\ owned' = owned /\ snapshot' = snapshot
      /\ phase' = phase /\ generation' = generation /\ status' = status
      /\ busStatus' = busStatus /\ listed' = listed /\ epoch' = epoch /\ wire' = wire
      /\ trail' = trail /\ gone' = gone /\ sent' = sent
      /\ changes' = changes /\ received' = received
  BY DEF WorktreesChanged, streamVars, openVars, daemonVars
<1>3. Revised(r, r')
  BY <1>1, <1>2, InvalidateFields
<1>4. Good(r', received, Known', wire, {}) /\ SameHeads(r, r')
  BY <1>1, <1>3, RevisedGood
<1>5. Listed' = Listed /\ Listed \subseteq Instances
  BY <1>1, <1>2 DEF Listed, TypeOK, ToSet
<1>6. Good(r, received, Known, wire, {})'
  <2>1. sent \in Nat /\ sent <= sent
    BY <1>1, LimitAssumption DEF TypeOK
  <2>2. Good(r', received', Known', wire', {})
    BY <1>2, <1>4
  <2>. QED  BY <1>2, <1>5, <2>1, <2>2, StableGood
<1>7. floor' \in [Instances -> Nat] /\ ScansOK'
  <2>1. /\ floor \in [Instances -> Nat] /\ owned \in [Instances -> Seq(SUBSET Locations)]
    BY <1>1 DEF TypeOK
  <2>2. Latest(i) \in Nat /\ Latest(i) \in 1..Len(owned[i])
    BY <1>1, <2>1 DEF Latest, ScansOK
  <2>. QED  BY <1>1, <1>2, <2>1, <2>2 DEF ScansOK
<1>8. TypeOK'
  <2>1. r' \in Memory
    BY <1>3 DEF Revised
  <2>. QED  BY <1>1, <1>2, <1>7, <2>1 DEF TypeOK
<1>9. StreamOK'
  BY <1>1, <1>2, <1>3, <1>4 DEF StreamOK, Revised, SameSize, SameHeads
<1>10. OpenOK'
  BY <1>1, <1>2, <1>5, <1>7 DEF OpenOK
<1>11. StatusIsShared' /\ TrailOK'
  BY <1>1, <1>2, <1>5 DEF StatusIsShared, TrailOK
<1>12. NewsOK(r, r', received', Known)
  BY <1>3 DEF NewsOK, Revised
<1>. QED  BY <1>6, <1>8, <1>9, <1>10, <1>11, <1>12 DEF IInv, RelayInv, Good

\* A scan finds that worktrees changed: the owners of all are revised.
LEMMA RevisedStep ==
  ASSUME IInv, r' = InvalidateOwners(r), ScansOK', snapshot' \in [Instances -> Nat],
         UNCHANGED <<streamVars, openVars, wire, daemonVars, scanVars, received>>
  PROVE  IInv' /\ r'.published = r.published
<1>1. /\ StreamOK /\ Good(r, received, Known, wire, {}) /\ HearingOK(received) /\ r \in Memory
  BY Hears DEF IInv, RelayInv
<1>2. Revised(r, r')
  BY <1>1, InvalidateFields
<1>3. Good(r', received, Known', wire, {}) /\ SameHeads(r, r')
  BY <1>1, <1>2, RevisedGood
<1>4. /\ r'.published = r.published /\ r'.closed = r.closed /\ r'.placed = r.placed
  BY <1>2 DEF Revised, SameSize
<1>5. \/ phase = "connected"
      \/ /\ r'.closed = r.closed /\ \A l \in Lanes : r'.lanes[l] = <<>>
         /\ phase \in {"connecting", "open"} => \A e \in Entities : r'.placed[e] = "none"
  BY <1>1, <1>3, <1>4 DEF StreamOK, SameHeads
<1>. QED  BY <1>3, <1>4, <1>5, QuietStep

LEMMA OwnerAnswersStep ==
  ASSUME IInv, NEW i \in Instances, NEW l \in Locations, OwnerAnswers(i, l)
  PROVE  IInv' /\ NewsOK(r, r', received', Known)
<1>1. /\ StreamOK /\ ScansOK /\ Good(r, received, Known, wire, {}) /\ received' = received
      /\ UNCHANGED <<streamVars, openVars, wire, daemonVars, scanVars, received>>
      /\ snapshot \in [Instances -> Nat]
  BY Hears DEF IInv, RelayInv, OpenOK, TypeOK, OwnerAnswers
<1>2. ASSUME NEW answer \in {"yes", "no"}, r' = Answer(r, i, l, answer),
             Good(r, received, Known', wire, {}), answer = "yes" => l \in Known'[i],
             ScansOK', snapshot' \in [Instances -> Nat]
      PROVE  IInv' /\ NewsOK(r, r', received', Known)
  <2>1. /\ Good(r', received, Known', wire, {}) /\ r'.published = r.published
        /\ r'.closed = r.closed /\ r'.placed = r.placed
        /\ phase # "connected" => \A x \in Lanes : r'.lanes[x] = <<>>
    BY <1>2, AnswerGood
  <2>2. IInv'
    BY <1>1, <1>2, <2>1, QuietStep DEF StreamOK
  <2>. QED  BY <2>1, <2>2 DEF NewsOK
<1>3. CASE r' = Answer(r, i, l, "no") /\ UNCHANGED snapshot
  <2>1. UNCHANGED ownerVars
    BY <1>1, <1>3 DEF ownerVars
  <2>2. Known' = Known /\ ScansOK' /\ snapshot' = snapshot
    BY <1>1, <2>1, OwnersKept
  <2>. QED  BY <1>1, <1>2, <1>3, <2>2
<1>4. ASSUME NEW n \in Reads(i), snapshot' = [snapshot EXCEPT ![i] = n],
             r' = IF Differs(i, n) THEN InvalidateOwners(r)
                  ELSE Answer(r, i, l, IF l \in owned[i][n] THEN "yes" ELSE "no")
      PROVE  IInv' /\ NewsOK(r, r', received', Known)
  <2>1. /\ ScansOK' /\ snapshot' \in [Instances -> Nat] /\ Known'[i] = owned[i][n]
        /\ ~Differs(i, n) => \A j \in Instances : Known[j] \subseteq Known'[j]
    BY <1>1, <1>4, ReadGrows
  <2>2. CASE Differs(i, n)
    <3>1. r' = InvalidateOwners(r)
      BY <1>4, <2>2
    <3>2. IInv' /\ r'.published = r.published
      BY <1>1, <2>1, <3>1, RevisedStep
    <3>. QED  BY <3>2 DEF NewsOK
  <2>3. CASE ~Differs(i, n)
    <3>1. PICK answer \in {"yes", "no"} :
            /\ r' = Answer(r, i, l, answer) /\ (answer = "yes" => l \in Known'[i])
      BY <1>4, <2>1, <2>3
    <3>2. Good(r, received, Known', wire, {})
      BY <1>1, <2>1, <2>3, GoodGrows
    <3>. QED  BY <1>2, <2>1, <3>1, <3>2
  <2>. QED  BY <2>2, <2>3
<1>. QED  BY <1>3, <1>4 DEF OwnerAnswers

LEMMA InventoryReadStep ==
  ASSUME IInv, NEW i \in Instances, InventoryRead(i)
  PROVE  IInv' /\ NewsOK(r, r', received', Known)
<1>1. /\ StreamOK /\ Good(r, received, Known, wire, {}) /\ received' = received
      /\ UNCHANGED <<streamVars, openVars, wire, daemonVars, scanVars, received>>
  BY Hears DEF IInv, RelayInv, InventoryRead
<1>2. PICK n \in Reads(i) : /\ snapshot' = [snapshot EXCEPT ![i] = n]
                            /\ r' = IF Differs(i, n) THEN InvalidateOwners(r) ELSE r
  BY DEF InventoryRead
<1>3. /\ ScansOK' /\ snapshot' \in [Instances -> Nat]
      /\ ~Differs(i, n) => \A j \in Instances : Known[j] \subseteq Known'[j]
  BY <1>1, <1>2, ReadGrows
<1>4. CASE Differs(i, n)
  <2>1. r' = InvalidateOwners(r)
    BY <1>2, <1>4
  <2>2. IInv' /\ r'.published = r.published
    BY <1>1, <1>3, <2>1, RevisedStep
  <2>. QED  BY <2>2 DEF NewsOK
<1>5. CASE ~Differs(i, n)
  <2>1. r' = r
    BY <1>2, <1>5
  <2>2. Good(r, received, Known', wire, {})
    BY <1>1, <1>3, <1>5, GoodGrows
  <2>3. IInv'
    BY <1>1, <1>3, <2>1, <2>2, QuietStep DEF StreamOK
  <2>. QED  BY <2>1, <2>3 DEF NewsOK
<1>. QED  BY <1>4, <1>5

\* What a workspace owns changes, and nobody knows.
LEMMA ChangeOwnershipStep ==
  ASSUME IInv, NEW i \in Instances, NEW l \in Locations, ChangeOwnership(i, l)
  PROVE  IInv' /\ NewsOK(r, r', received', Known)
<1>1. /\ TypeOK /\ StreamOK /\ OpenOK /\ StatusIsShared /\ TrailOK /\ ScansOK
      /\ Good(r, received, Known, wire, {}) /\ HearingOK(received) /\ r \in Memory
  BY Hears DEF IInv, RelayInv, OpenOK
<1> DEFINE now == Last(owned[i])
           next == IF l \in now THEN now \ {l} ELSE now \cup {l}
<1>2. /\ unseen' = unseen \cup {i} /\ changes < MaxChanges /\ changes' = changes + 1
      /\ owned' = [owned EXCEPT ![i] = Append(owned[i], next)]
      /\ snapshot' = snapshot /\ floor' = floor
      /\ phase' = phase /\ generation' = generation /\ status' = status /\ r' = r
      /\ busStatus' = busStatus /\ listed' = listed /\ epoch' = epoch /\ wire' = wire
      /\ trail' = trail /\ gone' = gone /\ sent' = sent
      /\ received' = received
  BY DEF ChangeOwnership, streamVars, openVars, daemonVars
<1>3. /\ owned \in [Instances -> Seq(SUBSET Locations)]
      /\ \A j \in Instances : /\ owned[j] \in Seq(SUBSET Locations) /\ Len(owned[j]) \in Nat
                              /\ floor[j] \in 1..Len(owned[j])
                              /\ snapshot[j] \in 0..Len(owned[j])
  BY <1>1 DEF TypeOK, ScansOK
<1>4. next \in SUBSET Locations
  <2>1. owned[i][Len(owned[i])] \in SUBSET Locations
    BY <1>3
  <2>. QED  BY <2>1 DEF Last
<1> HIDE DEF next
<1>5. /\ owned' \in [Instances -> Seq(SUBSET Locations)]
      /\ Len(owned'[i]) = Len(owned[i]) + 1
      /\ \A m \in 1..Len(owned[i]) : owned'[i][m] = owned[i][m]
      /\ \A j \in Instances : j # i => owned'[j] = owned[j]
  BY <1>2, <1>3, <1>4
<1>6. ScansOK'
  BY <1>2, <1>3, <1>5 DEF ScansOK
<1>7. Known' = Known
  <2>1. ASSUME NEW j \in Instances, snapshot[j] # 0
        PROVE  owned'[j][snapshot[j]] = owned[j][snapshot[j]]
    <3>1. snapshot[j] \in 1..Len(owned[j])
      BY <1>3, <2>1
    <3>2. CASE j = i
      BY <1>5, <3>1, <3>2
    <3>3. CASE j # i
      BY <1>5, <3>3
    <3>. QED  BY <3>2, <3>3
  <2>. QED  BY <1>2, <2>1 DEF Known
<1>8. Good(r', received', Known', wire', {})
  BY <1>1, <1>2, <1>7
<1>9. Listed' = Listed /\ Listed \subseteq Instances
  BY <1>1, <1>2 DEF Listed, TypeOK, ToSet
<1>10. Good(r, received, Known, wire, {})'
  <2>1. sent \in Nat /\ sent <= sent
    BY <1>1, LimitAssumption DEF TypeOK
  <2>. QED  BY <1>2, <1>8, <1>9, <2>1, StableGood
<1>11. TypeOK'
  <2>1. changes' \in 0..MaxChanges
    BY <1>1, <1>2, LimitAssumption DEF TypeOK
  <2>. QED  BY <1>1, <1>2, <1>5, <2>1 DEF TypeOK
<1>12. StreamOK'
  BY <1>1, <1>2 DEF StreamOK
<1>13. OpenOK'
  BY <1>1, <1>2, <1>6, <1>9 DEF OpenOK
<1>14. StatusIsShared' /\ TrailOK'
  BY <1>1, <1>2, <1>9 DEF StatusIsShared, TrailOK
<1>15. NewsOK(r, r', received', Known)
  BY <1>2 DEF NewsOK
<1>. QED  BY <1>10, <1>11, <1>12, <1>13, <1>14, <1>15 DEF IInv, RelayInv, Good

-----------------------------------------------------------------------------
(* While nothing is queued *)

LEMMA EmptyNext ==
  ASSUME r' \in Memory, \A l \in Lanes : r'.lanes[l] = <<>>, r'.count = 0, LateOK(r)',
         \A i \in Instances, l \in Locations : r'.owners[i][l] = "yes" => l \in Known'[i],
         \/ r'.closed
         \/ /\ \A i \in Instances : received'[i] = {}
            /\ \A e \in Entities : r'.placed[e] = "none",
         Listed' \subseteq Instances, \A n \in 1..Len(wire') : wire'[n].key = Service,
         \A i \in Instances : \A f \in r'.published[i] :
           /\ f.id <= sent'
           /\ \A k \in 1..Len(wire') : wire'[k].type # "connected" => f.id < wire'[k].id
  PROVE  Good(r, received, Known, wire, {})'
<1>1. CountOK(r)'
  <2>1. Slots(r') = {} /\ IsFiniteSet(Slots(r')) /\ Cardinality(Slots(r')) = 0
    BY NoSlots
  <2>. QED  BY <2>1 DEF CountOK, Slots
<1>2. \A l \in Lanes : Len(r'.lanes[l]) = 0
  OBVIOUS
<1>3. \A k \in Keys, x \in Instances \cup {Router} : Len(r'.lanes[<<k, x>>]) = 0
  BY <1>2 DEF Lanes
<1>4. JobsOK(r, received)'
  BY <1>2 DEF JobsOK
<1>5. OrderOK(r, wire, {})'
  BY <1>2, <1>3 DEF OrderOK, LanesOrdered, RoutedAhead, PublishedAhead, ReceivedAhead
<1>6. KeptOK(r, received)'
  BY DEF KeptOK
<1>7. OwnersOK(r, Known)'
  BY <1>3 DEF OwnersOK
<1>8. RoutedOK(r)'
  BY <1>3, TypeConstants DEF RoutedOK
<1>9. PlacesOK(r, wire, {})'
  <2>1. ASSUME NEW s \in Sessions PROVE Ahead(r, wire, s)' = {}
    <3>1. s # Service /\ s \in Keys
      BY TypeConstants
    <3>. QED  BY <1>3, <3>1 DEF Ahead, Queued
  <2>2. \A s \in Sessions : HopsOK({}, s)'
    BY DEF HopsOK
  <2>3. \A s \in Sessions : "none" \notin Locations /\ s \in Entities /\ <<s, Router>> \in Lanes
    BY TypeConstants
  <2>. QED  BY <2>1, <2>2, <2>3 DEF PlacesOK, PlaceOK
<1>. QED  BY <1>1, <1>4, <1>5, <1>6, <1>7, <1>8, <1>9 DEF Good

LEMMA NothingQueued ==
  ASSUME IInv, phase # "connected"
  PROVE  (\A l \in Lanes : r.lanes[l] = <<>>) /\ r.count = 0
<1>1. (\A l \in Lanes : r.lanes[l] = <<>>) /\ CountOK(r)
  BY DEF IInv, RelayInv, StreamOK
<1>. QED  BY <1>1, NoSlots DEF CountOK

\* The workspaces ws are told; i has just opened, or nobody has.
LEMMA AttemptStep ==
  ASSUME IInv, phase \in {"idle", "delay"}, NEW ws \in SUBSET Instances, Attempt(ws),
         generation < MaxConnections, listed' \in Seq(Instances), epoch' \in [Instances -> 0..2],
         wire' = wire, UNCHANGED daemonVars, UNCHANGED ownerVars,
         Listed' = ws, \A i \in Instances : i \in Listed' <=> epoch'[i] = 1, Listed \subseteq Listed',
         \A m, n \in 1..Len(listed') : m # n => listed'[m] # listed'[n]
  PROVE  IInv' /\ NewsOK(r, r', received', Known)
<1>1. /\ TypeOK /\ StreamOK /\ OpenOK /\ StatusIsShared /\ TrailOK
      /\ Good(r, received, Known, wire, {}) /\ HearingOK(received) /\ r \in Memory
  BY Hears DEF IInv, RelayInv
<1>2. /\ phase' = "connecting" /\ generation' = generation + 1 /\ status' = "connecting"
      /\ busStatus' = [i \in Instances |-> IF i \in ws
                         THEN <<"connecting", generation + 1>> ELSE busStatus[i]]
      /\ r' = [ClearLocationCaches(r) EXCEPT !.closed = FALSE]
      /\ received' = [i \in Instances |-> {}]
      /\ trail' = trail /\ gone' = gone /\ sent' = sent
      /\ owned' = owned /\ snapshot' = snapshot /\ floor' = floor /\ (ScansOK => ScansOK')
      /\ unseen' = unseen /\ changes' = changes
  BY OwnersKept DEF Attempt, daemonVars
<1> DEFINE q == ClearLocationCaches(r)
<1>3. Cleared(r, q)
  BY <1>1, ClearFields
<1> HIDE DEF q
<1>4. PICK mid : Revised(r, mid) /\ q.lanes = mid.lanes /\ q.owners = mid.owners
  BY <1>3 DEF Cleared
<1>5. /\ q \in Memory /\ q.count = r.count /\ q.late = r.late /\ q.published = r.published
      /\ \A e \in Entities : q.placed[e] = "none"
      /\ \A i \in Instances, l \in Locations : q.owners[i][l] = "none"
  BY <1>3, <1>4 DEF Cleared, Revised, SameSize
<1>6. \A l \in Lanes : q.lanes[l] = <<>>
  <2>1. \A l \in Lanes : r.lanes[l] = <<>>
    BY NothingQueued
  <2>2. \A l \in Lanes : Len(mid.lanes[l]) = 0 /\ mid.lanes[l] \in Seq(Jobs)
    BY <1>4, <2>1 DEF Revised, Memory
  <2>. QED  BY <1>4, <2>2
<1>7. /\ r' \in Memory /\ r'.count = q.count /\ r'.late = q.late /\ r'.published = q.published
      /\ r'.placed = q.placed /\ r'.owners = q.owners /\ r'.lanes = q.lanes
  <2>1. r' = [q EXCEPT !.closed = FALSE]
    BY <1>2 DEF q
  <2>. QED  BY <1>5, <2>1 DEF Memory
<1>8. wire = <<>>
  BY <1>1 DEF StreamOK
<1>9. generation \in 0..MaxConnections /\ generation' \in 0..MaxConnections /\ generation' > 0
  BY <1>1, <1>2, LimitAssumption DEF TypeOK
<1>10. Good(r, received, Known, wire, {})'
  <2>1. LateOK(r)'
    <3>1. LateOK(r)
      BY <1>1 DEF Good
    <3>2. \A x \in r.late : x.generation \in 1..MaxConnections
      BY <1>1 DEF Memory
    <3>3. \A x \in r.late : x.generation <= generation' /\ x.generation # generation'
      BY <1>2, <1>9, <3>1, <3>2 DEF LateOK
    <3>. QED  BY <1>5, <1>7, <3>3 DEF LateOK
  <2>2. r'.count = 0 /\ \A l \in Lanes : r'.lanes[l] = <<>>
    BY <1>5, <1>6, <1>7, NothingQueued
  <2>3. \A i \in Instances : \A f \in r'.published[i] : f.id <= sent'
    BY <1>1, <1>2, <1>5, <1>7 DEF Good, OrderOK, ReceivedAhead
  <2>4. wire' = <<>>
    BY <1>8
  <2>5. Len(wire') = 0
    BY <2>4
  <2>6. \A i \in Instances, l \in Locations : r'.owners[i][l] # "yes"
    BY <1>5, <1>7
  <2>7. \A i \in Instances : received'[i] = {}
    BY <1>2
  <2>. QED  BY <1>5, <1>7, <2>1, <2>2, <2>3, <2>5, <2>6, <2>7, EmptyNext
<1>11. TypeOK'
  <2>1. busStatus' \in [Instances ->
          {"none", "connecting", "connected", "error", "disconnected"} \X (0..MaxConnections)]
    BY <1>1, <1>2, <1>9 DEF TypeOK
  <2>2. received' \in [Instances -> SUBSET Events]
    BY <1>2
  <2>. QED  BY <1>1, <1>2, <1>7, <1>9, <2>1, <2>2 DEF TypeOK
<1>12. StreamOK'
  <2>1. wire' = <<>> /\ Len(wire') = 0
    BY <1>8
  <2>. QED  BY <1>2, <1>5, <1>6, <1>7, <1>9, <2>1 DEF StreamOK
<1>13. OpenOK'
  <2>1. (\A i \in Instances : received'[i] = {}) /\ ScansOK'
    BY <1>1, <1>2 DEF OpenOK
  <2>. QED  BY <2>1 DEF OpenOK
<1>14. StatusIsShared'
  <2>1. phase # "ended" /\ \A i \in Instances : i \notin Listed => busStatus[i] = <<"none", 0>>
    BY <1>1 DEF StatusIsShared
  <2>. QED  BY <1>2, <2>1 DEF StatusIsShared
<1>15. TrailOK'
  BY <1>1, <1>2 DEF TrailOK
<1>16. NewsOK(r, r', received', Known)
  BY <1>5, <1>7 DEF NewsOK
<1>. QED  BY <1>10, <1>11, <1>12, <1>13, <1>14, <1>15, <1>16 DEF IInv, RelayInv, Good

-----------------------------------------------------------------------------
(* A workspace opens or stops *)

Distinct(q) == \A m, n \in 1..Len(q) : m # n => q[m] # q[n]

LEMMA OneMore ==
  ASSUME NEW q \in Seq(Instances), Distinct(q), NEW i \in Instances, i \notin ToSet(q)
  PROVE  /\ Append(q, i) \in Seq(Instances) /\ Distinct(Append(q, i))
         /\ ToSet(Append(q, i)) = ToSet(q) \cup {i}
<1> DEFINE s == Append(q, i)
<1>1. /\ Len(q) \in Nat /\ s \in Seq(Instances) /\ Len(s) = Len(q) + 1 /\ s[Len(q) + 1] = i
      /\ \A n \in 1..Len(q) : s[n] = q[n]
  OBVIOUS
<1> HIDE DEF s
<1>2. \A n \in 1..Len(q) : q[n] \in ToSet(q)
  BY DEF ToSet
<1>3. \A n \in 1..Len(s) : n \in 1..Len(q) \/ n = Len(s)
  BY <1>1
<1>4. Distinct(s)
  BY <1>1, <1>2, <1>3 DEF Distinct
<1>5. ToSet(s) = ToSet(q) \cup {i}
  <2>1. ToSet(s) = {s[n] : n \in 1..Len(s)} /\ ToSet(q) = {q[n] : n \in 1..Len(q)}
    BY <1>1 DEF ToSet
  <2>2. \A n \in 1..Len(q) : n \in 1..Len(s)
    BY <1>1
  <2>3. Len(s) \in 1..Len(s)
    BY <1>1
  <2>. QED  BY <1>1, <1>3, <2>1, <2>2, <2>3
<1>. QED  BY <1>1, <1>4, <1>5 DEF s

LEMMA OneLess ==
  ASSUME NEW q \in Seq(Instances), Distinct(q), NEW n \in 1..Len(q)
  PROVE  /\ RemoveAt(q, n) \in Seq(Instances) /\ Distinct(RemoveAt(q, n))
         /\ ToSet(RemoveAt(q, n)) = ToSet(q) \ {q[n]}
<1> DEFINE s == RemoveAt(q, n)
<1>1. /\ Len(q) \in Nat /\ s \in Seq(Instances) /\ Len(s) = Len(q) - 1
      /\ \A m \in 1..(n - 1) : s[m] = q[m]
      /\ \A m \in n..(Len(q) - 1) : s[m] = q[m + 1]
  <2> DEFINE a == SubSeq(q, 1, n - 1)
             b == SubSeq(q, n + 1, Len(q))
  <2>1. Len(q) \in Nat /\ n \in Nat /\ 1 <= n /\ n <= Len(q)
    OBVIOUS
  <2>2. /\ a \in Seq(Instances) /\ Len(a) = n - 1 /\ \A m \in 1..(n - 1) : a[m] = q[m]
    BY <2>1
  <2>3. /\ b \in Seq(Instances) /\ Len(b) = Len(q) - n
        /\ \A m \in 1..(Len(q) - n) : b[m] = q[n + m]
    BY <2>1
  <2>4. s = a \o b
    BY DEF RemoveAt
  <2> HIDE DEF a, b, s
  <2>5. /\ s \in Seq(Instances) /\ Len(s) = Len(q) - 1
        /\ \A m \in 1..(n - 1) : s[m] = a[m]
        /\ \A m \in n..(Len(q) - 1) : s[m] = b[m - (n - 1)]
    <3>1. a \in Seq(Instances) /\ b \in Seq(Instances)
      BY <2>2, <2>3
    <3>2. s \in Seq(Instances) /\ Len(s) = Len(a) + Len(b)
      BY <2>4, <3>1
    <3>3. \A m \in 1..(Len(a) + Len(b)) : s[m] = IF m <= Len(a) THEN a[m] ELSE b[m - Len(a)]
      BY <2>4, <3>1
    <3>4. Len(a) = n - 1 /\ Len(b) = Len(q) - n
      BY <2>2, <2>3
    <3>5. Len(s) = Len(q) - 1
      BY <2>1, <3>2, <3>4
    <3>6. \A m \in 1..(n - 1) : s[m] = a[m]
      BY <2>1, <3>3, <3>4
    <3>7. \A m \in n..(Len(q) - 1) : s[m] = b[m - (n - 1)]
      BY <2>1, <3>3, <3>4
    <3>. QED  BY <3>2, <3>5, <3>6, <3>7
  <2>6. \A m \in n..(Len(q) - 1) : s[m] = q[m + 1]
    <3> TAKE m \in n..(Len(q) - 1)
    <3>1. m - (n - 1) \in 1..(Len(q) - n) /\ n + (m - (n - 1)) = m + 1
      BY <2>1
    <3>. QED  BY <2>3, <2>5, <3>1
  <2>. QED  BY <2>1, <2>2, <2>5, <2>6
<1> HIDE DEF s
<1>2. \A m \in 1..Len(s) : \/ m \in 1..(n - 1) /\ s[m] = q[m]
                           \/ m \in n..(Len(q) - 1) /\ s[m] = q[m + 1]
  BY <1>1
<1>3. Distinct(s)
  <2> SUFFICES ASSUME NEW a \in 1..Len(s), NEW b \in 1..Len(s), a < b PROVE s[a] # s[b]
    BY <1>1 DEF Distinct
  <2> DEFINE from(m) == IF m < n THEN m ELSE m + 1
  <2>1. \A m \in 1..Len(s) : from(m) \in 1..Len(q) /\ s[m] = q[from(m)]
    BY <1>1, <1>2
  <2>2. from(a) # from(b)
    BY <1>1
  <2>. QED  BY <2>1, <2>2 DEF Distinct
<1>4. ToSet(s) = ToSet(q) \ {q[n]}
  <2>1. ToSet(s) = {s[m] : m \in 1..Len(s)} /\ ToSet(q) = {q[m] : m \in 1..Len(q)}
    BY <1>1 DEF ToSet
  <2>2. \A m \in 1..Len(s) : \E c \in 1..Len(q) : s[m] = q[c] /\ c # n
    <3> TAKE m \in 1..Len(s)
    <3>1. CASE m \in 1..(n - 1) /\ s[m] = q[m]
      BY <1>1, <3>1
    <3>2. CASE m \in n..(Len(q) - 1) /\ s[m] = q[m + 1]
      <4>1. m + 1 \in 1..Len(q) /\ m + 1 # n
        BY <1>1, <3>2
      <4>. QED  BY <3>2, <4>1
    <3>. QED  BY <1>2, <3>1, <3>2
  <2>3. \A c \in 1..Len(q) : c # n => \E m \in 1..Len(s) : s[m] = q[c]
    <3> TAKE c \in 1..Len(q)
    <3>1. c < n => c \in 1..Len(s) /\ s[c] = q[c]
      BY <1>1
    <3>2. c > n => c - 1 \in 1..Len(s) /\ s[c - 1] = q[c]
      <4>1. c > n => c - 1 \in n..(Len(q) - 1) /\ (c - 1) + 1 = c
        BY <1>1
      <4>. QED  BY <1>1, <4>1
    <3>. QED  BY <3>1, <3>2
  <2>4. \A c \in 1..Len(q) : c # n => q[c] # q[n]
    BY <1>1 DEF Distinct
  <2>5. ToSet(s) \subseteq ToSet(q) \ {q[n]}
    BY <2>1, <2>2, <2>4
  <2>6. ToSet(q) \ {q[n]} \subseteq ToSet(s)
    BY <2>1, <2>3
  <2>. QED  BY <2>5, <2>6
<1>. QED  BY <1>1, <1>3, <1>4 DEF s

\* The caches are emptied as a workspace comes or goes.
LEMMA CacheStep ==
  ASSUME IInv, r' = ClearLocationCaches(r), received' = received,
         phase' = phase, generation' = generation, wire' = wire, UNCHANGED daemonVars,
         Listed' \subseteq Instances, \A i \in Listed' : i \in Listed \/ received[i] = {}
  PROVE  /\ Good(r, received, Known, wire, {})' /\ StreamOK' /\ TrailOK'
         /\ NewsOK(r, r', received', Known) /\ r' \in Memory
<1>1. /\ TypeOK /\ StreamOK /\ TrailOK
      /\ Good(r, received, Known, wire, {}) /\ HearingOK(received) /\ r \in Memory
  BY Hears DEF IInv, RelayInv
<1>2. Cleared(r, r')
  BY <1>1, ClearFields
<1>3. /\ Good(r', received, Known', wire, {})
      /\ \A l \in Lanes : r.lanes[l] = <<>> => r'.lanes[l] = <<>>
  <2> DEFINE new == r'
             ws2 == Known'
  <2>1. Cleared(r, new)
    BY <1>2
  <2> HIDE DEF new, ws2
  <2>2. /\ Good(new, received, ws2, wire, {})
        /\ \A l \in Lanes : r.lanes[l] = <<>> => new.lanes[l] = <<>>
    BY <1>1, <2>1, ClearedGood, ZenonT(40)
  <2>. QED  BY <2>2 DEF new, ws2
<1>4. trail' = trail /\ sent' = sent
  BY DEF daemonVars
<1>5. Good(r, received, Known, wire, {})'
  <2>1. sent \in Nat /\ sent <= sent
    BY <1>1, LimitAssumption DEF TypeOK
  <2>2. Good(r', received', Known', wire', {})
    BY <1>3
  <2>3. \A i \in Listed' : i \in Listed \/ received'[i] = {}
    OBVIOUS
  <2>. QED  BY <1>4, <2>1, <2>2, <2>3, StableGood
<1>6. r' \in Memory /\ r'.closed = r.closed /\ r'.published = r.published
      /\ \A e \in Entities : r'.placed[e] = "none"
  BY <1>2 DEF Cleared, SameSize
<1>7. StreamOK'
  BY <1>1, <1>3, <1>4, <1>6 DEF StreamOK
<1>8. NewsOK(r, r', received', Known)
  BY <1>6 DEF NewsOK
<1>. QED  BY <1>1, <1>4, <1>5, <1>6, <1>7, <1>8 DEF TrailOK

LEMMA OpenWorkspaceStep ==
  ASSUME IInv, NEW i \in Instances, OpenWorkspace(i)
  PROVE  IInv' /\ NewsOK(r, r', received', Known)
<1>1. /\ TypeOK /\ StreamOK /\ OpenOK /\ StatusIsShared /\ r \in Memory
  BY Hears DEF IInv, RelayInv
<1>2. /\ epoch[i] = 0 /\ phase # "ended" /\ listed' = Append(listed, i)
      /\ epoch' = [epoch EXCEPT ![i] = 1]
      /\ wire' = wire /\ UNCHANGED daemonVars /\ UNCHANGED ownerVars
  BY DEF OpenWorkspace
<1>3. listed \in Seq(Instances) /\ epoch \in [Instances -> 0..2] /\ i \notin Listed
  BY <1>1, <1>2 DEF TypeOK, OpenOK
<1>4. listed' \in Seq(Instances) /\ Distinct(listed)' /\ Listed' = Listed \cup {i}
  <2>1. Distinct(listed)
    BY <1>1 DEF OpenOK, Distinct
  <2>2. /\ Append(listed, i) \in Seq(Instances) /\ Distinct(Append(listed, i))
        /\ ToSet(Append(listed, i)) = ToSet(listed) \cup {i}
    BY <1>3, <2>1, OneMore DEF Listed
  <2>. QED  BY <1>2, <2>2 DEF Listed, Distinct
<1>5. Listed \subseteq Instances /\ Listed' \subseteq Instances
  BY <1>3, <1>4 DEF Listed, ToSet
<1>6. /\ epoch' \in [Instances -> 0..2]
      /\ \A j \in Instances : j \in Listed' <=> epoch'[j] = 1
      /\ \A j \in Instances : epoch'[j] = 0 => received[j] = {}
  BY <1>1, <1>2, <1>3, <1>4 DEF OpenOK
<1>7. CASE phase = "idle"
  <2>1. Attempt(Listed \cup {i})
    BY <1>2, <1>7 DEF OpenWorkspace
  <2>2. generation < MaxConnections
    BY <1>1, <1>7, LimitAssumption DEF StreamOK
  <2>3. (\A m, n \in 1..Len(listed') : m # n => listed'[m] # listed'[n]) /\ Listed \subseteq Listed'
    BY <1>4 DEF Distinct
  <2>. QED  BY <1>2, <1>4, <1>5, <1>6, <1>7, <2>1, <2>2, <2>3, AttemptStep
<1>8. CASE phase # "idle"
  <2>1. /\ busStatus' = [busStatus EXCEPT ![i] = <<status, generation>>]
        /\ r' = ClearLocationCaches(r)
        /\ owned' = owned /\ snapshot' = snapshot /\ floor' = floor
        /\ unseen' = unseen /\ changes' = changes /\ ScansOK'
        /\ phase' = phase /\ generation' = generation /\ status' = status
        /\ received' = received
    BY <1>1, <1>2, <1>8, OwnersKept DEF OpenWorkspace, OpenOK
  <2>2. \A j \in Listed' : j \in Listed \/ received[j] = {}
    BY <1>1, <1>2, <1>4 DEF OpenOK
  <2>3. /\ Good(r, received, Known, wire, {})' /\ StreamOK' /\ TrailOK'
        /\ NewsOK(r, r', received', Known) /\ r' \in Memory
    BY <1>2, <1>5, <2>1, <2>2, CacheStep
  <2>4. OpenOK'
    <3>1. \A m, n \in 1..Len(listed') : m # n => listed'[m] # listed'[n]
      BY <1>4 DEF Distinct
    <3>. QED  BY <1>6, <2>1, <2>3, <3>1 DEF OpenOK
  <2>5. busStatus' \in [Instances ->
          {"none", "connecting", "connected", "error", "disconnected"} \X (0..MaxConnections)]
    BY <1>1, <2>1 DEF TypeOK
  <2>6. TypeOK'
    BY <1>1, <1>2, <1>4, <1>6, <2>1, <2>3, <2>5 DEF TypeOK, daemonVars
  <2>7. StatusIsShared'
    BY <1>1, <1>2, <1>4, <2>1 DEF StatusIsShared, TypeOK
  <2>. QED  BY <2>3, <2>4, <2>6, <2>7 DEF IInv, RelayInv, Good
<1>. QED  BY <1>7, <1>8

LEMMA StopWorkspaceStep ==
  ASSUME IInv, NEW i \in Instances, StopWorkspace(i)
  PROVE  IInv' /\ NewsOK(r, r', received', Known)
<1>1. /\ TypeOK /\ StreamOK /\ OpenOK /\ StatusIsShared /\ r \in Memory
  BY Hears DEF IInv, RelayInv
<1>2. /\ phase # "ended" /\ epoch' = [epoch EXCEPT ![i] = 2]
      /\ wire' = wire /\ UNCHANGED daemonVars /\ UNCHANGED scanVars
      /\ busStatus' = [busStatus EXCEPT ![i] = <<"none", 0>>]
      /\ r' = ClearLocationCaches(r) /\ snapshot' = [snapshot EXCEPT ![i] = 0]
      /\ phase' = phase /\ generation' = generation /\ status' = status
      /\ received' = received
  BY DEF StopWorkspace
<1>0. /\ owned' = owned /\ floor' = floor /\ unseen' = unseen /\ changes' = changes
      /\ snapshot' \in [Instances -> Nat] /\ ScansOK'
  <2>1. ScansOK /\ snapshot \in [Instances -> Nat]
    BY <1>1 DEF OpenOK, TypeOK
  <2>2. owned' = owned /\ floor' = floor /\ unseen' = unseen /\ changes' = changes
    BY <1>2 DEF scanVars
  <2>3. \A j \in Instances : snapshot'[j] = snapshot[j] \/ snapshot'[j] = 0
    BY <1>2, <2>1
  <2>4. \A j \in Instances : floor[j] \in 1..Len(owned[j]) /\ snapshot'[j] \in 0..Len(owned[j])
    BY <2>1, <2>3 DEF ScansOK
  <2>. QED  BY <1>2, <2>1, <2>2, <2>4 DEF ScansOK
<1>3. listed \in Seq(Instances) /\ epoch \in [Instances -> 0..2]
  BY <1>1 DEF TypeOK
<1>4. PICK n \in 1..Len(listed) : listed[n] = i /\ listed' = RemoveAt(listed, n)
  BY <1>3 DEF StopWorkspace
<1>5. listed' \in Seq(Instances) /\ Distinct(listed)' /\ Listed' = Listed \ {i}
  <2>1. Distinct(listed)
    BY <1>1 DEF OpenOK, Distinct
  <2>2. /\ RemoveAt(listed, n) \in Seq(Instances) /\ Distinct(RemoveAt(listed, n))
        /\ ToSet(RemoveAt(listed, n)) = ToSet(listed) \ {listed[n]}
    BY <1>3, <2>1, OneLess
  <2>. QED  BY <1>4, <2>2 DEF Listed, Distinct
<1>6. Listed \subseteq Instances /\ Listed' \subseteq Instances
  BY <1>3, <1>5 DEF Listed, ToSet
<1>7. /\ epoch' \in [Instances -> 0..2]
      /\ \A j \in Instances : j \in Listed' <=> epoch'[j] = 1
      /\ \A j \in Instances : epoch'[j] = 0 => received[j] = {}
  BY <1>1, <1>2, <1>3, <1>5 DEF OpenOK
<1>8. /\ Good(r, received, Known, wire, {})' /\ StreamOK' /\ TrailOK'
      /\ NewsOK(r, r', received', Known) /\ r' \in Memory
  BY <1>2, <1>5, <1>6, CacheStep
<1>9. OpenOK'
  <2>1. \A a, b \in 1..Len(listed') : a # b => listed'[a] # listed'[b]
    BY <1>5 DEF Distinct
  <2>. QED  BY <1>0, <1>2, <1>7, <1>8, <2>1 DEF OpenOK
<1>10. busStatus' \in [Instances ->
          {"none", "connecting", "connected", "error", "disconnected"} \X (0..MaxConnections)]
  <2>1. <<"none", 0>> \in
          {"none", "connecting", "connected", "error", "disconnected"} \X (0..MaxConnections)
    BY LimitAssumption
  <2>. QED  BY <1>1, <1>2, <2>1 DEF TypeOK
<1>11. TypeOK'
  BY <1>0, <1>1, <1>2, <1>5, <1>7, <1>8, <1>10 DEF TypeOK, daemonVars
<1>12. StatusIsShared'
  BY <1>1, <1>2, <1>5 DEF StatusIsShared, TypeOK
<1>. QED  BY <1>8, <1>9, <1>11, <1>12 DEF IInv, RelayInv, Good

-----------------------------------------------------------------------------
(* The subscription begins and ends *)

LEMMA ReconnectStep ==
  ASSUME IInv, Reconnect
  PROVE  IInv' /\ NewsOK(r, r', received', Known)
<1>1. TypeOK /\ OpenOK
  BY DEF IInv, RelayInv
<1>2. /\ phase = "delay" /\ generation < MaxConnections /\ Attempt(Listed)
      /\ listed' = listed /\ epoch' = epoch /\ wire' = wire /\ UNCHANGED daemonVars
      /\ UNCHANGED ownerVars
  BY DEF Reconnect, openVars
<1>3. Listed' = Listed /\ Listed \in SUBSET Instances
  BY <1>1, <1>2 DEF Listed, TypeOK, ToSet
<1>4. /\ listed' \in Seq(Instances) /\ epoch' \in [Instances -> 0..2]
      /\ \A i \in Instances : i \in Listed' <=> epoch'[i] = 1
      /\ \A m, n \in 1..Len(listed') : m # n => listed'[m] # listed'[n]
  BY <1>1, <1>2, <1>3 DEF TypeOK, OpenOK
<1>. QED  BY <1>2, <1>3, <1>4, AttemptStep

LEMMA SubscribeStep ==
  ASSUME IInv, Subscribe
  PROVE  IInv' /\ NewsOK(r, r', received', Known)
<1>1. /\ TypeOK /\ StreamOK /\ OpenOK /\ StatusIsShared /\ TrailOK
      /\ Good(r, received, Known, wire, {}) /\ r \in Memory
  BY Hears DEF IInv, RelayInv
<1>2. /\ phase = "connecting" /\ phase' = "open" /\ wire' \in {<<>>, <<Greeting>>}
      /\ generation' = generation /\ status' = status /\ busStatus' = busStatus
      /\ listed' = listed /\ epoch' = epoch /\ r' = r /\ trail' = trail /\ gone' = gone
      /\ sent' = sent /\ Known' = Known /\ unseen' = unseen
      /\ owned' = owned /\ snapshot' = snapshot /\ floor' = floor /\ (ScansOK => ScansOK')
      /\ changes' = changes /\ received' = received
  BY OwnersKept DEF Subscribe, openVars, daemonVars
<1>3. /\ Greeting \in Events /\ Greeting.id = 0 /\ Greeting.type = "connected"
      /\ Greeting.key = Service
  BY TypeConstants, LimitAssumption DEF Greeting, Events, Keys, Places
<1>4. /\ wire' \in Seq(Events)
      /\ \A n \in 1..Len(wire') : n = 1 /\ wire'[n] = Greeting
  <2>1. CASE wire' = <<>>
    BY <2>1
  <2>2. CASE wire' = <<Greeting>>
    <3> HIDE DEF Greeting
    <3>1. Len(wire') = 1 /\ wire'[1] = Greeting /\ wire' \in Seq(Events)
      BY <1>3, <2>2
    <3>. QED  BY <3>1
  <2>. QED  BY <1>2, <2>1, <2>2
<1>5. Listed' = Listed /\ Listed \subseteq Instances
  BY <1>1, <1>2 DEF Listed, TypeOK, ToSet
<1>6. Good(r, received, Known, wire, {})'
  <2>1. LateOK(r)'
    BY <1>1, <1>2 DEF Good, LateOK
  <2>2. (\A l \in Lanes : r'.lanes[l] = <<>>) /\ r'.count = 0
    BY <1>2, NothingQueued
  <2>3. \A i \in Instances, l \in Locations : r'.owners[i][l] = "yes" => l \in Known'[i]
    BY <1>1, <1>2 DEF Good, OwnersOK
  <2>4. /\ \A i \in Instances : received'[i] = {}
        /\ \A e \in Entities : r'.placed[e] = "none"
    BY <1>1, <1>2 DEF StreamOK
  <2>5. \A i \in Instances : \A f \in r'.published[i] : f.id <= sent'
    BY <1>1, <1>2 DEF Good, OrderOK, ReceivedAhead
  <2>. QED  BY <1>1, <1>2, <1>3, <1>4, <1>5, <2>1, <2>2, <2>3, <2>4, <2>5, EmptyNext
<1>7. TypeOK'
  BY <1>1, <1>2, <1>4 DEF TypeOK
<1>8. StreamOK'
  <2>1. 0 <= sent
    BY <1>1, LimitAssumption DEF TypeOK
  <2>2. \A m, n \in 1..Len(wire') : ~(m < n)
    BY <1>4
  <2>. QED  BY <1>1, <1>2, <1>3, <1>4, <2>1, <2>2 DEF StreamOK
<1>9. OpenOK' /\ StatusIsShared' /\ TrailOK'
  BY <1>1, <1>2, <1>5 DEF OpenOK, StatusIsShared, TrailOK
<1>10. NewsOK(r, r', received', Known)
  BY <1>2 DEF NewsOK
<1>. QED  BY <1>6, <1>7, <1>8, <1>9, <1>10 DEF IInv, RelayInv, Good

-----------------------------------------------------------------------------
(* The daemon sends *)

\* Outside a subscription an event is lost; trails grow.
LEMMA LostStep ==
  ASSUME IInv, ~Streaming, wire' = wire, sent' = sent + 1, sent < MaxEvents,
         UNCHANGED <<streamVars, openVars, r, ownerVars, received>>,
         trail' \in [Entities -> Seq(Locations)], TrailOK', gone' \subseteq Entities
  PROVE  IInv' /\ NewsOK(r, r', received', Known)
<1>1. /\ TypeOK /\ StreamOK /\ OpenOK /\ StatusIsShared
      /\ Good(r, received, Known, wire, {}) /\ r \in Memory
  BY Hears DEF IInv, RelayInv
<1>2. /\ phase' = phase /\ generation' = generation /\ status' = status
      /\ busStatus' = busStatus /\ listed' = listed /\ epoch' = epoch /\ r' = r
      /\ Known' = Known /\ unseen' = unseen
      /\ owned' = owned /\ snapshot' = snapshot /\ floor' = floor /\ (ScansOK => ScansOK')
      /\ changes' = changes /\ received' = received
  BY OwnersKept DEF streamVars, openVars
<1>3. phase \in {"idle", "connecting", "delay", "ended"} /\ wire = <<>> /\ wire' = <<>>
  BY <1>1 DEF Streaming, TypeOK, StreamOK
<1>4. Len(wire') = 0
  BY <1>3
<1>5. Listed' = Listed /\ Listed \subseteq Instances
  BY <1>1, <1>2 DEF Listed, TypeOK, ToSet
<1>6. sent \in Nat /\ sent' \in 0..MaxEvents /\ sent <= sent'
  BY <1>1, LimitAssumption DEF TypeOK
<1>7. Good(r, received, Known, wire, {})'
  <2>1. LateOK(r)'
    BY <1>1, <1>2 DEF Good, LateOK
  <2>2. (\A l \in Lanes : r'.lanes[l] = <<>>) /\ r'.count = 0
    BY <1>2, <1>3, NothingQueued
  <2>3. \A i \in Instances, l \in Locations : r'.owners[i][l] = "yes" => l \in Known'[i]
    BY <1>1, <1>2 DEF Good, OwnersOK
  <2>4. \/ r'.closed
        \/ /\ \A i \in Instances : received'[i] = {}
           /\ \A e \in Entities : r'.placed[e] = "none"
    BY <1>1, <1>2, <1>3 DEF StreamOK
  <2>5. \A i \in Instances : \A f \in r'.published[i] : f.id <= sent'
    <3>1. \A i \in Instances : \A f \in r.published[i] : f.id <= sent /\ f \in Events
      BY <1>1 DEF Good, OrderOK, ReceivedAhead, Memory
    <3>. QED  BY <1>2, <1>6, <3>1, EventTypes
  <2>. QED  BY <1>1, <1>2, <1>4, <1>5, <2>1, <2>2, <2>3, <2>4, <2>5, EmptyNext
<1>8. TypeOK'
  BY <1>1, <1>2, <1>3, <1>6 DEF TypeOK
<1>9. StreamOK'
  BY <1>1, <1>2, <1>3, <1>4 DEF StreamOK
<1>10. OpenOK' /\ StatusIsShared'
  BY <1>1, <1>2, <1>5 DEF OpenOK, StatusIsShared
<1>11. NewsOK(r, r', received', Known)
  BY <1>2 DEF NewsOK
<1>. QED  BY <1>7, <1>8, <1>9, <1>10, <1>11 DEF IInv, RelayInv, Good

\* What the daemon sends next: e, of a session that is at its last place, and moves if e says so.
Announces(e) ==
  /\ e \in Events /\ e.id = sent + 1 /\ e.type # "connected"
  /\ trail' \in [Entities -> Seq(Locations)]
  /\ \A s \in Sessions : s # e.key \/ ~Moved(e) => trail'[s] = trail[s]
  /\ \A s \in Sessions : s = e.key =>
       /\ e.hop = Len(trail[s])
       /\ Moved(e) => \E to \in Locations : trail'[s] = Append(trail[s], to)
       /\ e.location # NoLocation =>
            e.location = Last(trail[s]) \/ (Moved(e) /\ e.location = Last(trail'[s]))

LEMMA TrailGrows ==
  ASSUME TypeOK, TrailOK, NEW e, Announces(e), NEW s \in Sessions
  PROVE  /\ trail'[s] \in Seq(Locations) /\ Len(trail'[s]) \in Nat
         /\ Len(trail[s]) <= Len(trail'[s])
         /\ \A n \in 1..Len(trail[s]) : trail'[s][n] = trail[s][n]
         /\ s = e.key /\ Moved(e) => Len(trail'[s]) = Len(trail[s]) + 1
         /\ \A h, place : AtOrAfter(s, h, place) => AtOrAfter(s, h, place)'
         /\ Last(trail'[s]) = trail'[s][Len(trail'[s])]
<1>1. s \in Entities
  BY TypeConstants
<1>2. trail[s] \in Seq(Locations) /\ Len(trail[s]) \in Nat /\ Len(trail[s]) >= 1
  BY TrailTypes
<1>3. trail'[s] \in Seq(Locations) /\ Len(trail'[s]) \in Nat
  BY <1>1 DEF Announces
<1>4. /\ Len(trail[s]) <= Len(trail'[s])
      /\ \A n \in 1..Len(trail[s]) : trail'[s][n] = trail[s][n]
      /\ s = e.key /\ Moved(e) => Len(trail'[s]) = Len(trail[s]) + 1
  <2>1. CASE s # e.key \/ ~Moved(e)
    BY <1>2, <2>1 DEF Announces
  <2>2. CASE s = e.key /\ Moved(e)
    <3>1. PICK to \in Locations : trail'[s] = Append(trail[s], to)
      BY <2>2 DEF Announces
    <3>. QED  BY <1>2, <3>1
  <2>. QED  BY <2>1, <2>2
<1>5. \A h, place : AtOrAfter(s, h, place) => AtOrAfter(s, h, place)'
  <2>1. \A n \in 1..Len(trail[s]) : n \in 1..Len(trail'[s])
    BY <1>2, <1>3, <1>4
  <2>. QED  BY <1>4, <2>1 DEF AtOrAfter
<1>. QED  BY <1>3, <1>4, <1>5 DEF Last

\* Sessions whose event it is not, and events after which A is the same.
LEMMA SameTrail ==
  ASSUME NEW s, trail'[s] = trail[s]
  PROVE  /\ \A A : HopsOK(A, s)' <=> HopsOK(A, s)
         /\ \A A, place : Serves(place, A, s)' <=> Serves(place, A, s)
         /\ \A A, place : PlaceOK(A, s, place)' <=> PlaceOK(A, s, place)
         /\ \A A, place, job : AnswerOK(A, s, place, job)' <=> AnswerOK(A, s, place, job)
<1>1. \A h, place : AtOrAfter(s, h, place)' <=> AtOrAfter(s, h, place)
  BY DEF AtOrAfter
<1>2. \A A, place : Serves(place, A, s)' <=> Serves(place, A, s)
  BY <1>1 DEF Serves, Moved
<1>3. \A A : HopsOK(A, s)' <=> HopsOK(A, s)
  BY <1>1 DEF HopsOK, Moved
<1>4. \A A, place : PlaceOK(A, s, place)' <=> PlaceOK(A, s, place)
  BY <1>2 DEF PlaceOK
<1>5. \A A, place, job : AnswerOK(A, s, place, job)' <=> AnswerOK(A, s, place, job)
  BY <1>1, <1>2 DEF AnswerOK
<1>. QED  BY <1>2, <1>3, <1>4, <1>5

\* e comes after the events A of its session.
LEMMA HopsMore ==
  ASSUME TypeOK, TrailOK, NEW e, Announces(e), NEW s \in Sessions, s = e.key,
         NEW A \in SUBSET Events, \A f \in A : f.id <= sent, HopsOK(A, s)
  PROVE  HopsOK(A \cup {e}, s)'
<1> DEFINE B == A \cup {e}
<1>1. /\ Len(trail[s]) \in Nat /\ Len(trail[s]) >= 1 /\ Len(trail'[s]) \in Nat
      /\ Len(trail[s]) <= Len(trail'[s])
      /\ \A n \in 1..Len(trail[s]) : trail'[s][n] = trail[s][n]
      /\ Moved(e) => Len(trail'[s]) = Len(trail[s]) + 1
      /\ \A h, place : AtOrAfter(s, h, place) => AtOrAfter(s, h, place)'
  BY TrailGrows, TrailTypes
<1>2. /\ e \in Events /\ e.id = sent + 1 /\ e.hop = Len(trail[s]) /\ e.id \in Nat
      /\ ~Moved(e) => Len(trail'[s]) = Len(trail[s])
      /\ e.location # NoLocation =>
            e.location = Last(trail[s]) \/ (Moved(e) /\ e.location = Last(trail'[s]))
  BY EventTypes DEF Announces
<1>3. \A f \in A : f.id \in Nat /\ f.id < e.id /\ f.id <= e.id /\ ~(e.id < f.id)
  <2>1. sent \in Nat
    BY LimitAssumption DEF TypeOK
  <2>2. \A f \in A : f.id \in Nat
    BY EventTypes
  <2>. QED  BY <1>2, <2>1, <2>2
<1>4. \A f \in B : f.hop \in 1..Len(trail'[s])
  <2>1. \A f \in A : f.hop \in 1..Len(trail[s])
    BY DEF HopsOK
  <2>. QED  BY <1>1, <1>2, <2>1
<1>5. ASSUME NEW f \in B, f.hop < Len(trail'[s]) PROVE \E g \in B : Moved(g) /\ f.id <= g.id
  <2>1. CASE Moved(e)
    BY <1>2, <1>3, <2>1
  <2>2. CASE ~Moved(e)
    <3>1. f # e
      BY <1>1, <1>2, <1>5, <2>2
    <3>2. f \in A /\ f.hop < Len(trail[s])
      BY <1>2, <1>5, <2>2, <3>1
    <3>. QED  BY <3>2 DEF HopsOK
  <2>. QED  BY <2>1, <2>2
<1>6. ASSUME NEW f \in B, NEW h \in B, f.id < h.id
      PROVE  /\ f.hop <= h.hop
             /\ f.hop < h.hop => \E g \in B : Moved(g) /\ f.id <= g.id /\ g.id < h.id
  <2>1. f \in A
    BY <1>2, <1>3, <1>6
  <2>2. CASE h \in A
    BY <1>6, <2>1, <2>2 DEF HopsOK
  <2>3. CASE h = e
    <3>1. f.hop \in 1..Len(trail[s])
      BY <2>1 DEF HopsOK
    <3>2. f.hop < Len(trail[s]) => \E g \in A : Moved(g) /\ f.id <= g.id
      BY <2>1 DEF HopsOK
    <3>. QED  BY <1>1, <1>2, <1>3, <2>3, <3>1, <3>2
  <2>. QED  BY <2>2, <2>3
<1>7. ASSUME NEW f \in B, f.location # NoLocation
      PROVE  \/ trail'[s][f.hop] = f.location
             \/ Moved(f) /\ AtOrAfter(s, f.hop, f.location)'
  <2>1. CASE f \in A
    <3>1. f.hop \in 1..Len(trail[s])
      BY <2>1 DEF HopsOK
    <3>2. \/ trail[s][f.hop] = f.location
          \/ Moved(f) /\ AtOrAfter(s, f.hop, f.location)
      BY <1>7, <2>1 DEF HopsOK
    <3>. QED  BY <1>1, <3>1, <3>2
  <2>2. CASE f = e
    <3>1. Last(trail[s]) = trail[s][Len(trail[s])]
      BY TrailTypes
    <3>2. CASE f.location = Last(trail[s])
      BY <1>1, <1>2, <2>2, <3>1, <3>2
    <3>3. CASE Moved(e) /\ e.location = Last(trail'[s])
      <4>1. Last(trail'[s]) = trail'[s][Len(trail'[s])]
        BY TrailGrows
      <4>2. Len(trail'[s]) \in 1..Len(trail'[s]) /\ e.hop <= Len(trail'[s])
        BY <1>1, <1>2
      <4>. QED  BY <2>2, <3>3, <4>1, <4>2 DEF AtOrAfter
    <3>. QED  BY <1>2, <1>7, <2>2, <3>2, <3>3
  <2>. QED  BY <2>1, <2>2
<1> HIDE DEF B
<1>8. HopsOK(B, s)'
  BY <1>4, <1>5, <1>6, <1>7 DEF HopsOK, Moved
<1>. QED  BY <1>8 DEF B

LEMMA ServesMore ==
  ASSUME TypeOK, TrailOK, NEW e, Announces(e), NEW s \in Sessions, s = e.key,
         NEW A \in SUBSET Events, \A f \in A : f.id <= sent, NEW place, Serves(place, A, s)
  PROVE  Serves(place, A \cup {e}, s)'
<1>1. /\ \A h : AtOrAfter(s, h, place) => AtOrAfter(s, h, place)'
      /\ Len(trail[s]) \in 1..Len(trail[s]) /\ Len(trail[s]) <= Len(trail[s])
      /\ Last(trail[s]) = trail[s][Len(trail[s])]
  BY TrailGrows, TrailTypes
<1>2. e.hop = Len(trail[s]) /\ e.id = sent + 1 /\ (~Moved(e) => trail'[s] = trail[s])
  BY DEF Announces
<1>3. \A f \in A : ~(e.id <= f.id)
  <2>1. sent \in Nat
    BY LimitAssumption DEF TypeOK
  <2>2. \A f \in A : f.id \in Nat
    BY EventTypes
  <2>. QED  BY <1>2, <2>1, <2>2
<1>4. ASSUME NEW f \in A \cup {e}, \A g \in A \cup {e} : Moved(g) => f.id <= g.id
      PROVE  AtOrAfter(s, f.hop, place)'
  <2>1. CASE f \in A
    BY <1>1, <1>4, <2>1 DEF Serves
  <2>2. CASE f = e
    <3>1. \A g \in A : ~Moved(g)
      BY <1>3, <1>4, <2>2
    <3>2. place = Last(trail[s])
      BY <3>1 DEF Serves
    <3>3. AtOrAfter(s, e.hop, place)
      BY <1>1, <1>2, <3>2 DEF AtOrAfter
    <3>. QED  BY <1>1, <2>2, <3>3
  <2>. QED  BY <2>1, <2>2
<1>5. ASSUME \A g \in A \cup {e} : ~Moved(g) PROVE place = Last(trail'[s])
  BY <1>2, <1>5 DEF Serves
<1>. QED  BY <1>4, <1>5 DEF Serves, Moved

LEMMA AheadMore ==
  ASSUME IInv, NEW e, Announces(e), wire' = Append(wire, e), r' = r, NEW s \in Sessions
  PROVE  /\ Ahead(r, wire, s) \in SUBSET Events /\ \A f \in Ahead(r, wire, s) : f.id <= sent
         /\ Ahead(r, wire, s)' = IF s = e.key THEN Ahead(r, wire, s) \cup {e}
                                 ELSE Ahead(r, wire, s)
<1>1. /\ OrderOK(r, wire, {}) /\ StreamOK /\ wire \in Seq(Events) /\ r \in Memory
  BY DEF IInv, RelayInv, TypeOK
<1>2. <<s, Router>> \in Lanes
  BY TypeConstants
<1>3. ASSUME NEW f \in Ahead(r, wire, s) PROVE f.id <= sent
  <2>1. CASE Queued(r, f, Router) /\ f.key = s
    <3>1. PICK n \in 1..Len(r.lanes[<<s, Router>>]) : r.lanes[<<s, Router>>][n].event = f
      BY <2>1 DEF Queued
    <3>. QED  BY <1>1, <1>2, <3>1 DEF OrderOK, ReceivedAhead
  <2>2. CASE \E n \in 1..Len(wire) : wire[n] = f
    BY <1>1, <2>2 DEF StreamOK
  <2>. QED  BY <2>1, <2>2 DEF Ahead
<1>4. /\ Len(wire) \in Nat /\ Len(wire') = Len(wire) + 1 /\ wire'[Len(wire) + 1] = e
      /\ \A n \in 1..Len(wire) : wire'[n] = wire[n]
  BY <1>1
<1>5. \A n \in 1..Len(wire') : n \in 1..Len(wire) \/ n = Len(wire) + 1
  BY <1>4
<1>6. /\ \A n \in 1..Len(wire) : n \in 1..Len(wire')
      /\ Len(wire) + 1 \in 1..Len(wire')
  BY <1>4
<1>7. \A f : (\E n \in 1..Len(wire') : wire'[n] = f) <=> f = e \/ \E n \in 1..Len(wire) : wire[n] = f
  BY <1>4, <1>5, <1>6
<1>8. \A f : Queued(r, f, Router)' <=> Queued(r, f, Router)
  BY DEF Queued
<1>9. \A f \in Events : f \in Ahead(r, wire, s)' <=> f \in Ahead(r, wire, s) \/ (f = e /\ e.key = s)
  BY <1>7, <1>8 DEF Ahead
<1>10. e \in Events /\ Ahead(r, wire, s)' \subseteq Events /\ Ahead(r, wire, s) \subseteq Events
  BY DEF Announces, Ahead
<1>. QED  BY <1>3, <1>9, <1>10

LEMMA SentStep ==
  ASSUME IInv, Streaming, NEW e, Announces(e), wire' = Append(wire, e), sent' = sent + 1,
         sent < MaxEvents, UNCHANGED <<streamVars, openVars, r, ownerVars, received>>,
         TrailOK', gone' \subseteq Entities
  PROVE  IInv' /\ NewsOK(r, r', received', Known)
<1>1. /\ TypeOK /\ StreamOK /\ OpenOK /\ StatusIsShared /\ TrailOK
      /\ Good(r, received, Known, wire, {}) /\ r \in Memory
  BY Hears DEF IInv, RelayInv
<1>2. /\ phase' = phase /\ generation' = generation /\ status' = status
      /\ busStatus' = busStatus /\ listed' = listed /\ epoch' = epoch /\ r' = r
      /\ Known' = Known /\ unseen' = unseen
      /\ owned' = owned /\ snapshot' = snapshot /\ floor' = floor /\ (ScansOK => ScansOK')
      /\ changes' = changes /\ received' = received
  BY OwnersKept DEF streamVars, openVars
<1>3. Listed' = Listed /\ Listed \subseteq Instances
  BY <1>1, <1>2 DEF Listed, TypeOK, ToSet
<1>4. sent \in Nat /\ sent' \in Nat /\ sent' \in 0..MaxEvents /\ sent <= sent' /\ e.id = sent + 1
  BY <1>1, LimitAssumption DEF TypeOK, Announces
<1>5. /\ e \in Events /\ e.type # "connected" /\ trail' \in [Entities -> Seq(Locations)]
  BY DEF Announces
<1>6. /\ Len(wire) \in Nat /\ Len(wire') = Len(wire) + 1 /\ wire'[Len(wire) + 1] = e
      /\ \A n \in 1..Len(wire) : wire'[n] = wire[n] /\ wire[n] \in Events
      /\ wire' \in Seq(Events)
  BY <1>1, <1>5 DEF TypeOK
<1>7. \A n \in 1..Len(wire') : n \in 1..Len(wire) \/ n = Len(wire) + 1
  BY <1>6
<1>8. /\ (r \in Memory)' /\ CountOK(r)' /\ LateOK(r)' /\ JobsOK(r, received)'
      /\ OrderOK(r, wire, {})' /\ KeptOK(r, received)' /\ OwnersOK(r, Known)'
  <2>1. /\ CountOK(r) /\ LateOK(r) /\ JobsOK(r, received)
        /\ OrderOK(r, wire, {}) /\ KeptOK(r, received) /\ OwnersOK(r, Known)
    BY <1>1 DEF Good
  <2>2. OrderOK(r, wire', {})
    <3>1. \A x \in Events : x.id <= sent => x.id < e.id
      BY <1>4, EventTypes
    <3>2. ASSUME NEW l \in Lanes, NEW n \in 1..Len(r.lanes[l])
          PROVE  \A k \in 1..Len(wire') : r.lanes[l][n].event.id < wire'[k].id
      <4>1. r.lanes[l][n].event \in Events
        BY <1>1, LaneTypes
      <4>. QED  BY <1>6, <1>7, <2>1, <3>1, <4>1 DEF OrderOK, ReceivedAhead
    <3>3. ASSUME NEW i \in Instances, NEW f \in r.published[i]
          PROVE  \A k \in 1..Len(wire') : wire'[k].type # "connected" => f.id < wire'[k].id
      <4>1. f \in Events
        BY <1>1 DEF Memory
      <4>. QED  BY <1>6, <1>7, <2>1, <3>1, <4>1 DEF OrderOK, ReceivedAhead
    <3>. QED  BY <2>1, <3>2, <3>3 DEF OrderOK, ReceivedAhead
  <2>. QED  BY <1>1, <1>2, <1>3, <1>4, <2>1, <2>2, StableRest
<1>9. RoutedOK(r)'
  <2>1. RoutedOK(r)
    BY <1>1 DEF Good
  <2>2. \A s \in Sessions : \A h, place : AtOrAfter(s, h, place) => AtOrAfter(s, h, place)'
    BY <1>1, TrailGrows
  <2>. QED  BY <1>2, <2>1, <2>2 DEF RoutedOK
<1>10. PlacesOK(r, wire, {})'
  <2> SUFFICES ASSUME ~r.closed, NEW s \in Sessions
               PROVE  \E B, p, job :
                        /\ B = Ahead(r, wire, s)' /\ p = r'.placed[s]
                        /\ job = r'.lanes[<<s, Router>>][1]
                        /\ HopsOK(B, s)' /\ PlaceOK(B, s, p)'
                        /\ r.lanes[<<s, Router>>] # <<>> => AnswerOK(B, s, p, job)'
    <3>1. \A B : B \ {} = B
      OBVIOUS
    <3>. QED  BY <1>2, <3>1 DEF PlacesOK
  <2>0. PICK A, B, p, job :
          /\ A = Ahead(r, wire, s) /\ B = Ahead(r, wire, s)' /\ p = r'.placed[s]
          /\ job = r'.lanes[<<s, Router>>][1]
    OBVIOUS
  <2>1. /\ A \in SUBSET Events /\ \A f \in A : f.id <= sent
        /\ B = IF s = e.key THEN A \cup {e} ELSE A
    BY <1>2, <2>0, AheadMore
  <2>2. /\ HopsOK(A, s) /\ PlaceOK(A, s, p)
        /\ r.lanes[<<s, Router>>] # <<>> => AnswerOK(A, s, p, job)
    <3>1. PlacesOK(r, wire, {}) /\ A \ {} = A
      BY <1>1 DEF Good
    <3>. QED  BY <1>2, <2>0, <3>1 DEF PlacesOK
  <2>3. /\ HopsOK(B, s)' /\ PlaceOK(B, s, p)'
        /\ r.lanes[<<s, Router>>] # <<>> => AnswerOK(B, s, p, job)'
    <3>1. CASE s # e.key
      <4>1. trail'[s] = trail[s] /\ B = A
        BY <2>1, <3>1 DEF Announces
      <4>2. /\ \A X : HopsOK(X, s)' <=> HopsOK(X, s)
            /\ \A X, place : PlaceOK(X, s, place)' <=> PlaceOK(X, s, place)
            /\ \A X, place, x : AnswerOK(X, s, place, x)' <=> AnswerOK(X, s, place, x)
        BY <4>1, SameTrail
      <4>. QED  BY <2>2, <4>1, <4>2
    <3>2. CASE s = e.key
      <4>1. B = A \cup {e}
        BY <2>1, <3>2
      <4>2. HopsOK(B, s)'
        BY <1>1, <2>1, <2>2, <3>2, <4>1, HopsMore
      <4>3. ASSUME NEW X \in SUBSET A, NEW place, Serves(place, X, s)
            PROVE  Serves(place, X \cup {e}, s)'
        <5>1. X \in SUBSET Events /\ \A f \in X : f.id <= sent
          BY <2>1
        <5>. QED  BY <1>1, <3>2, <4>3, <5>1, ServesMore
      <4>4. PlaceOK(B, s, p)'
        <5>1. A \in SUBSET A
          OBVIOUS
        <5>2. p \in Locations => Serves(p, A, s)
          BY <2>2 DEF PlaceOK
        <5>3. p \in Locations => Serves(p, A \cup {e}, s)'
          BY <4>3, <5>1, <5>2
        <5>. QED  BY <4>1, <5>3 DEF PlaceOK
      <4>5. ASSUME r.lanes[<<s, Router>>] # <<>> PROVE AnswerOK(B, s, p, job)'
        <5>1. AnswerOK(A, s, p, job)
          BY <2>2, <4>5
        <5>2. job.event.id <= sent /\ job.event \in Events
          <6>1. <<s, Router>> \in Lanes
            BY TypeConstants
          <6>2. 1 \in 1..Len(r.lanes[<<s, Router>>]) /\ OrderOK(r, wire, {})
            BY <1>1, <4>5, <6>1, LaneTypes DEF Good
          <6>. QED  BY <1>1, <1>2, <2>0, <6>1, <6>2, LaneTypes DEF OrderOK, ReceivedAhead
        <5>3. job.event # e
          BY <1>4, <5>2, EventTypes
        <5> DEFINE X == A \ {job.event}
        <5>4. B \ {job.event} = X \cup {e} /\ X \in SUBSET A
          BY <4>1, <5>3
        <5>5. \A h, place : AtOrAfter(s, h, place) => AtOrAfter(s, h, place)'
          BY <1>1, TrailGrows
        <5>6. job.stage = "answered" /\ job.location # NoLocation => Serves(job.location, X, s)
          BY <5>1 DEF AnswerOK
        <5> HIDE DEF X
        <5>7. job.stage = "answered" /\ job.location # NoLocation =>
                Serves(job.location, X \cup {e}, s)'
          BY <4>3, <5>4, <5>6
        <5>8. job.stage = "answered" /\ job.location # NoLocation =>
                Serves(job.location, B \ {job.event}, s)'
          BY <5>4, <5>7
        <5>. QED  BY <5>1, <5>5, <5>8 DEF AnswerOK
      <4>. QED  BY <4>2, <4>4, <4>5
    <3>. QED  BY <3>1, <3>2
  <2>. QED  BY <2>0, <2>3
<1>11. TypeOK'
  BY <1>1, <1>2, <1>4, <1>5, <1>6 DEF TypeOK
<1>12. StreamOK'
  <2>1. phase \in {"open", "connected"}
    BY DEF Streaming
  <2>2. \A n \in 1..Len(wire') : wire'[n].id <= sent' /\ (wire'[n].type = "connected" => n \in 1..Len(wire) /\ wire[n] = wire'[n])
    <3>1. \A n \in 1..Len(wire) : wire[n].id <= sent /\ wire[n].id \in Nat
      BY <1>1, <1>6, EventTypes DEF StreamOK
    <3>. QED  BY <1>4, <1>5, <1>6, <1>7, <3>1
  <2>3. ASSUME NEW m \in 1..Len(wire'), NEW n \in 1..Len(wire'), m < n
        PROVE  wire'[m].id < wire'[n].id
    <3>1. m \in 1..Len(wire)
      BY <1>6, <2>3
    <3>2. CASE n \in 1..Len(wire)
      BY <1>1, <1>6, <2>3, <3>1, <3>2 DEF StreamOK
    <3>3. CASE n = Len(wire) + 1
      <4>1. wire[m].id <= sent /\ wire[m].id \in Nat
        BY <1>1, <1>6, <3>1, EventTypes DEF StreamOK
      <4>. QED  BY <1>4, <1>6, <3>1, <3>3, <4>1
    <3>. QED  BY <1>7, <3>2, <3>3
  <2>4. phase \notin {"open", "connected"} => wire' = <<>>
    BY <2>1
  <2>5. \A n \in 1..Len(wire') : wire'[n].type = "connected" => phase = "open" /\ n = 1
    BY <1>1, <2>2 DEF StreamOK
  <2>. QED  BY <1>1, <1>2, <2>2, <2>3, <2>4, <2>5 DEF StreamOK
<1>13. OpenOK' /\ StatusIsShared'
  BY <1>1, <1>2, <1>3 DEF OpenOK, StatusIsShared
<1>14. NewsOK(r, r', received', Known)
  BY <1>2 DEF NewsOK
<1>. QED  BY <1>8, <1>9, <1>10, <1>11, <1>12, <1>13, <1>14 DEF IInv, RelayInv

LEMMA EventOK ==
  ASSUME TypeOK, TrailOK, sent < MaxEvents, NEW k \in Keys, NEW location \in Places,
         NEW type \in {"worktrees", "delta", "moved", "deleted"}
  PROVE  LET e == Event(type, k, location)
         IN  /\ e \in Events /\ e.id = sent + 1 /\ e.type = type /\ e.key = k
             /\ e.location = location /\ (k \in Sessions => e.hop = Len(trail[k]))
<1>1. \A s \in Entities : Len(trail[s]) \in Nat
  BY DEF TypeOK
<1>2. sent + 1 \in 0..MaxEvents
  BY LimitAssumption DEF TypeOK
<1>3. Sessions \subseteq Entities /\ Service \notin Entities /\ (k # Service => k \in Entities)
  BY TypeConstants
<1>. QED  BY <1>1, <1>2, <1>3 DEF Event, Events

LEMMA Ends ==
  ASSUME TypeOK, TrailOK, NEW k \in Entities
  PROVE  Last(trail[k]) \in Locations /\ Last(trail[k]) \in Places
<1>1. trail[k] \in Seq(Locations) /\ trail[k] # <<>>
  BY DEF TypeOK, TrailOK
<1>2. trail[k][Len(trail[k])] \in Locations
  BY <1>1
<1>. QED  BY <1>2 DEF Last, Places

\* An event that is sent, whoever hears it.
LEMMA SendStep ==
  ASSUME IInv, NEW e, Announces(e), Send(e), TrailOK', gone' \subseteq Entities,
         UNCHANGED <<streamVars, openVars, r, ownerVars, received>>
  PROVE  IInv' /\ NewsOK(r, r', received', Known)
<1>1. sent < MaxEvents /\ sent' = sent + 1
  BY DEF Send
<1>2. CASE Streaming
  BY <1>1, <1>2, SentStep DEF Send
<1>3. CASE ~Streaming
  <2>1. wire' = wire /\ trail' \in [Entities -> Seq(Locations)]
    BY <1>3 DEF Send, Announces
  <2>. QED  BY <1>1, <1>3, <2>1, LostStep
<1>. QED  BY <1>2, <1>3

LEMMA DeltaStep ==
  ASSUME IInv, NEW k \in Entities, NEW l \in Places, Delta(k, l)
  PROVE  IInv' /\ NewsOK(r, r', received', Known)
<1>1. TypeOK /\ TrailOK
  BY DEF IInv, RelayInv
<1> DEFINE e == Event("delta", k, l)
<1>2. /\ l \in {NoLocation, Last(trail[k])} /\ Send(e) /\ trail' = trail /\ gone' = gone
      /\ UNCHANGED <<streamVars, openVars, r, ownerVars, received>>
  BY DEF Delta
<1>3. k \in Keys /\ sent < MaxEvents
  BY <1>2 DEF Send, Keys
<1>4. /\ e \in Events /\ e.id = sent + 1 /\ e.type = "delta" /\ e.key = k /\ e.location = l
      /\ k \in Sessions => e.hop = Len(trail[k])
  BY <1>1, <1>3, EventOK
<1> HIDE DEF e
<1>5. Announces(e)
  BY <1>1, <1>2, <1>4 DEF Announces, Moved, TypeOK
<1>6. TrailOK' /\ gone' \subseteq Entities
  BY <1>1, <1>2 DEF TrailOK, TypeOK
<1>. QED  BY <1>2, <1>5, <1>6, SendStep

LEMMA DeleteStep ==
  ASSUME IInv, NEW k \in Entities, NEW l \in Places, Delete(k, l)
  PROVE  IInv' /\ NewsOK(r, r', received', Known)
<1>1. TypeOK /\ TrailOK
  BY DEF IInv, RelayInv
<1> DEFINE e == Event("deleted", k, l)
<1>2. /\ l \in {NoLocation, Last(trail[k])} /\ Send(e) /\ trail' = trail
      /\ gone' = gone \cup {k}
      /\ UNCHANGED <<streamVars, openVars, r, ownerVars, received>>
  BY DEF Delete
<1>3. k \in Keys /\ sent < MaxEvents
  BY <1>2 DEF Send, Keys
<1>4. /\ e \in Events /\ e.id = sent + 1 /\ e.type = "deleted" /\ e.key = k /\ e.location = l
      /\ k \in Sessions => e.hop = Len(trail[k])
  BY <1>1, <1>3, EventOK
<1> HIDE DEF e
<1>5. Announces(e)
  BY <1>1, <1>2, <1>4 DEF Announces, Moved, TypeOK
<1>6. TrailOK' /\ gone' \subseteq Entities
  BY <1>1, <1>2 DEF TrailOK, TypeOK
<1>. QED  BY <1>2, <1>5, <1>6, SendStep

LEMMA WorktreesUpdatedStep ==
  ASSUME IInv, WorktreesUpdated
  PROVE  IInv' /\ NewsOK(r, r', received', Known)
<1>1. TypeOK /\ TrailOK
  BY DEF IInv, RelayInv
<1> DEFINE e == Event("worktrees", Service, NoLocation)
<1>2. /\ Send(e) /\ trail' = trail /\ gone' = gone
      /\ UNCHANGED <<streamVars, openVars, r, ownerVars, received>>
  BY DEF WorktreesUpdated
<1>3. Service \in Keys /\ sent < MaxEvents /\ NoLocation \in Places /\ Service \notin Sessions
  BY <1>2, TypeConstants DEF Send
<1>4. /\ e \in Events /\ e.id = sent + 1 /\ e.type = "worktrees" /\ e.key = Service
  BY <1>1, <1>3, EventOK
<1> HIDE DEF e
<1>5. Announces(e)
  BY <1>1, <1>2, <1>3, <1>4 DEF Announces, Moved, TypeOK
<1>6. TrailOK' /\ gone' \subseteq Entities
  BY <1>1, <1>2 DEF TrailOK, TypeOK
<1>. QED  BY <1>2, <1>5, <1>6, SendStep

LEMMA MoveStep ==
  ASSUME IInv, NEW s \in Sessions, NEW to \in Locations, NEW l \in Places, Move(s, to, l)
  PROVE  IInv' /\ NewsOK(r, r', received', Known)
<1>1. TypeOK /\ TrailOK
  BY DEF IInv, RelayInv
<1> DEFINE e == Event("moved", s, l)
<1>2. /\ l \in {NoLocation, Last(trail[s]), to} /\ Send(e)
      /\ trail' = [trail EXCEPT ![s] = Append(@, to)] /\ gone' = gone
      /\ UNCHANGED <<streamVars, openVars, r, ownerVars, received>>
  BY DEF Move
<1>3. s \in Keys /\ s \in Entities /\ sent < MaxEvents
  BY <1>2, TypeConstants DEF Send
<1>4. /\ e \in Events /\ e.id = sent + 1 /\ e.type = "moved" /\ e.key = s /\ e.location = l
      /\ e.hop = Len(trail[s])
  BY <1>1, <1>3, EventOK
<1> HIDE DEF e
<1>5. /\ trail' \in [Entities -> Seq(Locations)] /\ trail'[s] = Append(trail[s], to)
      /\ \A k \in Entities : k # s => trail'[k] = trail[k]
  BY <1>1, <1>2, <1>3 DEF TypeOK
<1>6. trail[s] \in Seq(Locations)
  BY <1>1, <1>3 DEF TypeOK
<1>7. trail'[s] # <<>> /\ Last(trail'[s]) = to
  <2>1. Len(trail'[s]) = Len(trail[s]) + 1 /\ trail'[s][Len(trail[s]) + 1] = to
    BY <1>5, <1>6
  <2>. QED  BY <1>6, <2>1 DEF Last
<1>8. Announces(e)
  <2>1. \A k \in Sessions : k \in Entities
    BY TypeConstants
  <2>. QED  BY <1>2, <1>4, <1>5, <1>7, <2>1 DEF Announces, Moved
<1>9. TrailOK' /\ gone' \subseteq Entities
  <2>1. \A k \in Entities : trail'[k] # <<>>
    BY <1>1, <1>5, <1>7 DEF TrailOK
  <2>2. TrailOK'
    BY <2>1 DEF TrailOK
  <2>3. gone' = gone /\ gone \subseteq Entities
    BY <1>1, <1>2 DEF TypeOK
  <2>. QED  BY <2>2, <2>3
<1>. QED  BY <1>2, <1>8, <1>9, SendStep

-----------------------------------------------------------------------------
(* An event arrives *)

\* rec2 is what is received with e, which everybody hears who listens.
HeardBy(e, rec, rec2) ==
  \A i \in Instances : rec2[i] = IF i \in Listed THEN rec[i] \cup {e} ELSE rec[i]

\* The events of w come in their order, e first.
ComesFirst(e, w, w2) ==
  /\ w \in Seq(Events) /\ w2 \in Seq(Events) /\ e \in Events /\ e.id <= sent
  /\ Len(w) = Len(w2) + 1 /\ w[1] = e
  /\ \A n \in 1..Len(w2) : w2[n] = w[n + 1] /\ e.id < w2[n].id

\* The events of w are e and those of w2.
Splits(w, e, w2) ==
  \A f \in Events : (\E n \in 1..Len(w) : w[n] = f) <=> f = e \/ \E n \in 1..Len(w2) : w2[n] = f

\* job routes e to everybody who listens.
Arriving(job, e, rec2) ==
  /\ job \in Jobs /\ job.event = e /\ job.stage = "queued"
  /\ HearersOK(Router, e, job.recipients, rec2)

LEMMA WireFirst ==
  ASSUME NEW e, NEW w, NEW w2, ComesFirst(e, w, w2)
  PROVE  /\ Len(w) \in Nat /\ Len(w2) \in Nat /\ 1 \in 1..Len(w)
         /\ \A n \in 1..Len(w2) : n + 1 \in 1..Len(w) /\ w2[n] = w[n + 1] /\ e.id < w2[n].id
         /\ Splits(w, e, w2)
<1>1. /\ Len(w) \in Nat /\ Len(w2) \in Nat /\ Len(w) = Len(w2) + 1 /\ w[1] = e
      /\ \A n \in 1..Len(w2) : w2[n] = w[n + 1] /\ e.id < w2[n].id
  BY DEF ComesFirst
<1>2. 1 \in 1..Len(w) /\ \A n \in 1..Len(w2) : n + 1 \in 1..Len(w)
  BY <1>1
<1>3. \A n \in 1..Len(w) : n = 1 \/ (n - 1 \in 1..Len(w2) /\ (n - 1) + 1 = n)
  BY <1>1
<1>4. ASSUME NEW n \in 1..Len(w) PROVE w[n] = e \/ \E m \in 1..Len(w2) : w2[m] = w[n]
  <2>1. CASE n = 1
    BY <1>1, <2>1
  <2>2. CASE n - 1 \in 1..Len(w2) /\ (n - 1) + 1 = n
    <3>1. w2[n - 1] = w[n]
      BY <1>1, <2>2
    <3>. QED  BY <2>2, <3>1
  <2>. QED  BY <1>3, <2>1, <2>2
<1>5. Splits(w, e, w2)
  BY <1>1, <1>2, <1>4 DEF Splits
<1>. QED  BY <1>1, <1>2, <1>5

\* e is behind everything that is queued or was published.
LEMMA ArrivesLast ==
  ASSUME NEW q, NEW rec, NEW ws, NEW w, NEW w2, NEW e, Good(q, rec, ws, w, {}),
         ComesFirst(e, w, w2)
  PROVE  /\ \A l \in Lanes : \A n \in 1..Len(q.lanes[l]) : q.lanes[l][n].event.id < e.id
         /\ \A i \in Instances : \A f \in q.published[i] : e.type # "connected" => f.id < e.id
         /\ \A l \in Lanes : \A n \in 1..Len(q.lanes[l]) : q.lanes[l][n].event # e
<1>1. q \in Memory /\ OrderOK(q, w, {}) /\ 1 \in 1..Len(w) /\ w[1] = e /\ e.id \in Nat
  BY WireFirst, EventTypes DEF Good, ComesFirst
<1>2. \A l \in Lanes : \A n \in 1..Len(q.lanes[l]) : q.lanes[l][n].event.id < e.id
  BY <1>1 DEF OrderOK, ReceivedAhead
<1>3. \A i \in Instances : \A f \in q.published[i] : e.type # "connected" => f.id < e.id
  BY <1>1 DEF OrderOK, ReceivedAhead
<1>4. ~(e.id < e.id)
  BY <1>1
<1>. QED  BY <1>2, <1>3, <1>4

LEMMA ArriveGood ==
  ASSUME NEW q, NEW rec, NEW rec2, NEW ws, NEW w, NEW w2, NEW e, NEW k \in Keys, NEW job,
         Good(q, rec, ws, w, {}), HearingOK(rec), ~q.closed, ComesFirst(e, w, w2), e.key = k,
         HeardBy(e, rec, rec2), Arriving(job, e, rec2), NEW new \in Memory,
         LongerBy(q.lanes, new.lanes, <<k, Router>>, job), new.count = q.count + 1,
         new.closed = q.closed, new.late = q.late, SameCaches(q, new)
  PROVE  Good(new, rec2, ws, w2, {})
<1> DEFINE lane == <<k, Router>>
<1>1. /\ q \in Memory
      /\ CountOK(q) /\ LateOK(q) /\ JobsOK(q, rec) /\ OrderOK(q, w, {})
      /\ KeptOK(q, rec) /\ RoutedOK(q) /\ PlacesOK(q, w, {}) /\ OwnersOK(q, ws)
  BY DEF Good
<1>2. lane \in Lanes /\ lane[2] = Router /\ lane[1] = k
  BY DEF Lanes
<1>3. /\ Len(q.lanes[lane]) \in Nat
      /\ Len(new.lanes[lane]) = Len(q.lanes[lane]) + 1
      /\ new.lanes[lane][Len(q.lanes[lane]) + 1] = job
      /\ \A n \in 1..Len(q.lanes[lane]) : new.lanes[lane][n] = q.lanes[lane][n]
      /\ \A l \in Lanes : l # lane => new.lanes[l] = q.lanes[l]
  BY <1>1, <1>2, LaneTypes DEF LongerBy
<1>4. \A n \in 1..Len(new.lanes[lane]) :
        n \in 1..Len(q.lanes[lane]) \/ n = Len(q.lanes[lane]) + 1
  BY <1>3
<1>5. /\ \A n \in 1..Len(q.lanes[lane]) : n \in 1..Len(new.lanes[lane])
      /\ Len(q.lanes[lane]) + 1 \in 1..Len(new.lanes[lane])
  BY <1>3
<1>6. /\ new.placed = q.placed /\ new.owners = q.owners
      /\ new.published = q.published /\ new.refused = q.refused /\ new.unplaced = q.unplaced
  BY DEF SameCaches
<1>7. \A h \in Keys, j \in Instances :
        /\ <<h, j>> \in Lanes /\ <<h, Router>> \in Lanes
        /\ new.lanes[<<h, j>>] = q.lanes[<<h, j>>]
        /\ h # k => <<h, Router>> # lane
  BY <1>3, TypeConstants
<1>8. /\ e \in Events /\ e.id \in Nat /\ e.id <= sent
      /\ job.event = e /\ job.stage = "queued" /\ HearersOK(Router, e, job.recipients, rec2)
  BY EventTypes DEF ComesFirst, Arriving
<1>9. /\ \A l \in Lanes : \A n \in 1..Len(q.lanes[l]) : q.lanes[l][n].event.id < e.id
      /\ \A i \in Instances : \A f \in q.published[i] : e.type # "connected" => f.id < e.id
      /\ \A l \in Lanes : \A n \in 1..Len(q.lanes[l]) : q.lanes[l][n].event # e
  BY ArrivesLast
<1>10. CountOK(new)
  BY <1>1, <1>2, CountLonger DEF lane
<1>11. LateOK(new)
  BY <1>1 DEF LateOK
<1> HIDE DEF lane
<1>12. JobsOK(new, rec2)
  <2>1. JobOK(lane, job, rec2)
    BY <1>2, <1>8 DEF JobOK, StageOK
  <2>2. ASSUME NEW l \in Lanes, NEW n \in 1..Len(q.lanes[l])
        PROVE  JobOK(l, q.lanes[l][n], rec2)
    <3> DEFINE x == q.lanes[l][n]
    <3>1. JobOK(l, x, rec) /\ x.event # e
      BY <1>1, <1>9 DEF JobsOK
    <3>2. HearersOK(l[2], x.event, x.recipients, rec)
      BY <3>1 DEF JobOK
    <3>3. x \in Jobs /\ x.recipients \in Seq([id : Instances, epoch : Nat])
      BY <1>1, LaneTypes DEF Jobs
    <3> DEFINE rs == x.recipients
    <3>4. \A m \in 1..Len(rs) : rs[m].id \in Instances
      <4>1. rs \in Seq(RecipientType)
        BY <3>3 DEF RecipientType
      <4> HIDE DEF rs, x
      <4>2. \A m \in 1..Len(rs) : rs[m] \in RecipientType
        BY <4>1
      <4>. QED  BY <4>2 DEF RecipientType
    <3>5. HearersOK(l[2], x.event, x.recipients, rec2)
      <4>1. \A i \in Instances : /\ x.event \in rec[i] => x.event \in rec2[i]
                                 /\ x.event \in rec2[i] => x.event \in rec[i]
        BY <3>1 DEF HeardBy
      <4>2. Listed \subseteq Instances
        BY DEF HearingOK
      <4> HIDE DEF x
      <4>. QED  BY <3>2, <3>4, <4>1, <4>2 DEF HearersOK
    <3>. QED  BY <3>1, <3>5 DEF JobOK
  <2>3. ASSUME NEW n \in 1..Len(new.lanes[lane]) PROVE JobOK(lane, new.lanes[lane][n], rec2)
    BY <1>2, <1>3, <1>4, <2>1, <2>2
  <2>4. ASSUME NEW n \in 2..Len(new.lanes[lane]) PROVE new.lanes[lane][n].stage = "queued"
    <3>1. n \in 2..Len(q.lanes[lane]) \/ n = Len(q.lanes[lane]) + 1
      BY <1>3
    <3>2. n \in 2..Len(q.lanes[lane]) =>
            new.lanes[lane][n] = q.lanes[lane][n] /\ q.lanes[lane][n].stage = "queued"
      BY <1>1, <1>2, <1>3 DEF JobsOK
    <3>. QED  BY <1>3, <1>8, <3>1, <3>2
  <2>5. \A l \in Lanes : l # lane =>
          /\ \A n \in 1..Len(new.lanes[l]) : JobOK(l, new.lanes[l][n], rec2)
          /\ \A n \in 2..Len(new.lanes[l]) : new.lanes[l][n].stage = "queued"
    BY <1>1, <1>3, <2>2, SMTT(30) DEF JobsOK
  <2>. QED  BY <2>3, <2>4, <2>5 DEF JobsOK
<1>13. OrderOK(new, w2, {})
  <2>1. ASSUME NEW l \in Lanes, NEW m \in 1..Len(new.lanes[l]), NEW n \in 1..Len(new.lanes[l]),
               m < n
        PROVE  new.lanes[l][m].event.id < new.lanes[l][n].event.id
    <3>1. CASE l # lane
      BY <1>1, <1>3, <2>1, <3>1 DEF OrderOK, LanesOrdered
    <3>2. CASE l = lane
      <4>1. m \in 1..Len(q.lanes[lane])
        BY <1>3, <2>1, <3>2
      <4>2. CASE n \in 1..Len(q.lanes[lane])
        BY <1>1, <1>2, <1>3, <2>1, <3>2, <4>1, <4>2 DEF OrderOK, LanesOrdered
      <4>3. CASE n = Len(q.lanes[lane]) + 1
        BY <1>2, <1>3, <1>8, <1>9, <3>2, <4>1, <4>3
      <4>. QED  BY <1>4, <3>2, <4>2, <4>3
    <3>. QED  BY <3>1, <3>2
  <2>2. ASSUME NEW h \in Keys, NEW j \in Instances, NEW n \in 1..Len(new.lanes[<<h, Router>>])
        PROVE  /\ \A m \in 1..Len(new.lanes[<<h, j>>]) :
                    AheadOf(new.lanes[<<h, j>>][m].event, new.lanes[<<h, Router>>][n], {})
               /\ \A f \in new.published[j] :
                    f.key = h /\ new.lanes[<<h, Router>>][n].event.type # "connected" =>
                      AheadOf(f, new.lanes[<<h, Router>>][n], {})
    <3>1. /\ new.lanes[<<h, j>>] = q.lanes[<<h, j>>] /\ new.published[j] = q.published[j]
          /\ <<h, j>> \in Lanes /\ <<h, Router>> \in Lanes
      BY <1>6, <1>7
    <3>2. CASE n \in 1..Len(q.lanes[<<h, Router>>])
      <4>1. new.lanes[<<h, Router>>][n] = q.lanes[<<h, Router>>][n]
        BY <1>3, <3>1, <3>2
      <4>. QED  BY <1>1, <3>1, <3>2, <4>1 DEF OrderOK, RoutedAhead
    <3>3. CASE n \notin 1..Len(q.lanes[<<h, Router>>])
      <4>1. <<h, Router>> = lane
        BY <1>3, <2>2, <3>1, <3>3
      <4>2. new.lanes[<<h, Router>>][n] = job
        BY <1>3, <1>4, <2>2, <3>3, <4>1
      <4>. QED  BY <1>8, <1>9, <3>1, <4>2 DEF AheadOf
    <3>. QED  BY <3>2, <3>3
  <2>3. ASSUME NEW h \in Keys, NEW j \in Instances, NEW n \in 1..Len(new.lanes[<<h, j>>]),
               NEW f \in new.published[j],
               f.key = h /\ new.lanes[<<h, j>>][n].event.type # "connected"
        PROVE  \/ f.id < new.lanes[<<h, j>>][n].event.id
               \/ f = new.lanes[<<h, j>>][n].event /\ new.lanes[<<h, j>>][n].stage = "done"
    <3>1. new.lanes[<<h, j>>] = q.lanes[<<h, j>>] /\ new.published = q.published
      BY <1>6, <1>7
    <3>2. \A m \in 1..Len(q.lanes[<<h, j>>]) : q.lanes[<<h, j>>][m].event.type # "connected" =>
            \/ f.id < q.lanes[<<h, j>>][m].event.id
            \/ f = q.lanes[<<h, j>>][m].event /\ q.lanes[<<h, j>>][m].stage = "done"
      BY <1>1, <2>3, <3>1 DEF OrderOK, PublishedAhead
    <3>. QED  BY <2>3, <3>1, <3>2
  <2>4. ASSUME NEW l \in Lanes, NEW n \in 1..Len(new.lanes[l])
        PROVE  /\ new.lanes[l][n].event.id <= sent
               /\ \A m \in 1..Len(w2) : new.lanes[l][n].event.id < w2[m].id
    <3>1. \A m \in 1..Len(w2) : m + 1 \in 1..Len(w) /\ w2[m] = w[m + 1] /\ e.id < w2[m].id
      BY WireFirst
    <3>2. CASE n \in 1..Len(q.lanes[l])
      <4>1. new.lanes[l][n] = q.lanes[l][n]
        BY <1>3, <3>2
      <4>. QED  BY <1>1, <3>1, <3>2, <4>1 DEF OrderOK, ReceivedAhead
    <3>3. CASE n \notin 1..Len(q.lanes[l])
      <4>1. new.lanes[l][n] = job
        BY <1>3, <1>4, <2>4, <3>3
      <4>. QED  BY <1>8, <3>1, <4>1
    <3>. QED  BY <3>2, <3>3
  <2>5. \A j \in Instances : \A f \in new.published[j] :
          /\ f.id <= sent
          /\ \A m \in 1..Len(w2) : w2[m].type # "connected" => f.id < w2[m].id
    <3>1. \A m \in 1..Len(w2) : m + 1 \in 1..Len(w) /\ w2[m] = w[m + 1]
      BY WireFirst
    <3>. QED  BY <1>1, <1>6, <3>1 DEF OrderOK, ReceivedAhead
  <2>. QED  BY <2>1, <2>2, <2>3, <2>4, <2>5
           DEF OrderOK, LanesOrdered, RoutedAhead, PublishedAhead, ReceivedAhead
<1>14. Queued(new, e, Router) /\ \A f \in Events : f # e => (Queued(new, f, Router) <=> Queued(q, f, Router))
  <2>1. Queued(new, e, Router)
    BY <1>3, <1>5, <1>8 DEF Queued, lane
  <2>2. ASSUME NEW f \in Events, f # e PROVE Queued(new, f, Router) <=> Queued(q, f, Router)
    <3>1. CASE f.key = k
      <4>1. <<f.key, Router>> = lane
        BY <3>1 DEF lane
      <4>2. Queued(new, f, Router) <=>
              \E n \in 1..Len(new.lanes[lane]) :
                new.lanes[lane][n].event = f /\ new.lanes[lane][n].stage # "done"
        BY <4>1 DEF Queued
      <4>3. Queued(q, f, Router) <=>
              \E n \in 1..Len(q.lanes[lane]) :
                q.lanes[lane][n].event = f /\ q.lanes[lane][n].stage # "done"
        BY <4>1 DEF Queued
      <4>4. \A n \in 1..Len(new.lanes[lane]) : new.lanes[lane][n].event = f =>
              n \in 1..Len(q.lanes[lane]) /\ new.lanes[lane][n] = q.lanes[lane][n]
        BY <1>3, <1>4, <1>8, <2>2
      <4>. QED  BY <1>3, <1>5, <4>2, <4>3, <4>4
    <3>2. CASE f.key # k
      <4>1. f.key \in Keys /\ <<f.key, Router>> \in Lanes /\ <<f.key, Router>> # lane
        BY <3>2, EventTypes DEF lane, Lanes
      <4>2. new.lanes[<<f.key, Router>>] = q.lanes[<<f.key, Router>>]
        BY <1>3, <4>1
      <4>. QED  BY <4>2 DEF Queued
    <3>. QED  BY <3>1, <3>2
  <2>. QED  BY <2>1, <2>2
<1>15. KeptOK(new, rec2)
  <2> SUFFICES ASSUME NEW i \in Listed, NEW f \in rec2[i]
               PROVE  Settled(new, i, f) \/ Queued(new, f, Router) \/ Queued(new, f, i)
    BY DEF KeptOK
  <2>1. i \in Instances /\ rec \in [Instances -> SUBSET Events]
    BY DEF HearingOK
  <2>2. CASE f = e
    BY <1>14, <2>2
  <2>3. CASE f # e
    <3>1. f \in rec[i] /\ f \in Events
      BY <2>1, <2>3 DEF HeardBy
    <3>2. Settled(q, i, f) \/ Queued(q, f, Router) \/ Queued(q, f, i)
      BY <1>1, <3>1 DEF KeptOK
    <3>3. Queued(q, f, i) => Queued(new, f, i)
      <4>1. f.key \in Keys
        BY <3>1, EventTypes
      <4>. QED  BY <1>7, <2>1, <4>1 DEF Queued
    <3>. QED  BY <1>6, <1>14, <2>3, <3>1, <3>2, <3>3 DEF Settled
  <2>. QED  BY <2>2, <2>3
<1>16. OwnersOK(new, ws)
  BY <1>1, <1>6, <1>7, ZenonT(30) DEF OwnersOK
<1>17. RoutedOK(new)
  <2>1. \A s \in Sessions : s \in Keys
    BY TypeConstants
  <2>. QED  BY <1>1, <1>7, <2>1 DEF RoutedOK
<1>18. PlacesOK(new, w2, {})
  <2>1. ASSUME NEW s \in Sessions PROVE Ahead(new, w2, s) = Ahead(q, w, s)
    <3>1. Splits(w, e, w2)
      BY WireFirst
    <3>2. ASSUME NEW f \in Events PROVE f \in Ahead(new, w2, s) <=> f \in Ahead(q, w, s)
      <4>1. (\E n \in 1..Len(w) : w[n] = f) <=> f = e \/ \E n \in 1..Len(w2) : w2[n] = f
        BY <3>1 DEF Splits
      <4>2. /\ Queued(q, f, Router) \/ f = e <=> Queued(new, f, Router)
        BY <1>14
      <4>. QED  BY <4>1, <4>2 DEF Ahead
    <3>3. Ahead(new, w2, s) \subseteq Events /\ Ahead(q, w, s) \subseteq Events
      BY DEF Ahead
    <3>. QED  BY <3>2, <3>3
  <2>2. ASSUME NEW s \in Sessions, new.lanes[<<s, Router>>] # <<>>
        PROVE  AnswerOK(Ahead(q, w, s), s, q.placed[s], new.lanes[<<s, Router>>][1])
    <3>1. <<s, Router>> \in Lanes /\ s \in Keys
      BY TypeConstants
    <3>2. CASE q.lanes[<<s, Router>>] # <<>>
      <4>1. 1 \in 1..Len(q.lanes[<<s, Router>>])
        BY <1>1, <3>1, <3>2, LaneTypes
      <4>2. new.lanes[<<s, Router>>][1] = q.lanes[<<s, Router>>][1]
        BY <1>3, <3>1, <4>1
      <4>. QED  BY <1>1, <3>2, <4>2 DEF PlacesOK
    <3>3. CASE q.lanes[<<s, Router>>] = <<>>
      <4>1. <<s, Router>> = lane /\ Len(q.lanes[lane]) = 0
        BY <1>3, <2>2, <3>1, <3>3
      <4>2. new.lanes[<<s, Router>>][1] = job
        BY <1>3, <4>1
      <4>. QED  BY <1>8, <4>2 DEF AnswerOK
    <3>. QED  BY <3>2, <3>3
  <2>. QED  BY <1>1, <1>6, <2>1, <2>2 DEF PlacesOK
<1>. QED  BY <1>10, <1>11, <1>12, <1>13, <1>15, <1>16, <1>17, <1>18 DEF Good

\* The memory after e is enqueued, where the budget may have ended.
LEMMA EnqueuedGood ==
  ASSUME NEW q, NEW rec, NEW rec2, NEW ws, NEW w, NEW w2, NEW e, NEW k \in Keys, NEW job,
         Good(q, rec, ws, w, {}), HearingOK(rec), ~q.closed, ComesFirst(e, w, w2), e.key = k,
         HeardBy(e, rec, rec2), Arriving(job, e, rec2), generation \in 1..MaxConnections,
         NEW new, new = Enqueue(q, <<k, Router>>, job)
  PROVE  /\ Good(new, rec2, ws, w2, {}) /\ new.published = q.published
         /\ new.closed => \A l \in Lanes : new.lanes[l] = <<>>
         /\ ~new.closed => LongerBy(q.lanes, new.lanes, <<k, Router>>, job)
<1>1. q \in Memory /\ <<k, Router>> \in Lanes /\ job \in Jobs
  BY DEF Good, Lanes, Arriving
<1>2. CASE q.count + 1 > MaxJobs
  <2>1. new = Close(q)
    BY <1>2 DEF Enqueue
  <2>2. generation \in 0..MaxConnections /\ generation > 0
    BY LimitAssumption
  <2>3. \A n \in 1..Len(w2) : \E m \in 1..Len(w) : w2[n] = w[m]
    BY WireFirst
  <2>4. Good(Close(q), rec2, ws, w2, {})
    BY <2>2, <2>3, CloseGood
  <2>5. /\ Close(q).closed /\ SameCaches(q, Close(q))
        /\ \A l \in Lanes : Close(q).lanes[l] = <<>>
    BY <1>1, <2>2, CloseFields
  <2>. QED  BY <2>1, <2>4, <2>5 DEF SameCaches
<1>3. CASE ~(q.count + 1 > MaxJobs)
  <2>1. /\ new \in Memory /\ LongerBy(q.lanes, new.lanes, <<k, Router>>, job)
        /\ new.count = q.count + 1 /\ new.closed = q.closed /\ new.late = q.late
        /\ SameCaches(q, new)
    BY <1>1, <1>3, EnqueueFields
  <2>2. Good(new, rec2, ws, w2, {})
    BY <2>1, ArriveGood
  <2>. QED  BY <2>1, <2>2 DEF SameCaches
<1>. QED  BY <1>2, <1>3

\* The memory once the event has been taken up.
LEMMA TakenUp ==
  ASSUME TypeOK, TrailOK,
         NEW q, NEW rec, NEW rec2, NEW ws, NEW w, NEW w2, NEW e, NEW k \in Keys, NEW job,
         Good(q, rec, ws, w, {}), HearingOK(rec), HearingOK(rec2), ~q.closed,
         ComesFirst(e, w, w2), e.key = k,
         HeardBy(e, rec, rec2), Arriving(job, e, rec2), generation \in 1..MaxConnections,
         NEW added, added = Enqueue(q, <<k, Router>>, job), NEW new,
         new = IF StartsLane(q, added, <<k, Router>>)
               THEN RunResolution(added, <<k, Router>>) ELSE added
  PROVE  Good(new, rec2, ws, w2, {}) /\ OnlyNews(q, new, e, rec2)
<1> DEFINE lane == <<k, Router>>
<1>1. /\ Good(added, rec2, ws, w2, {}) /\ added.published = q.published
      /\ added.closed => \A l \in Lanes : added.lanes[l] = <<>>
      /\ ~added.closed => LongerBy(q.lanes, added.lanes, lane, job)
  BY EnqueuedGood
<1>2. q \in Memory /\ added \in Memory /\ lane \in Lanes
  BY <1>1 DEF Good, Lanes
<1>3. CASE ~StartsLane(q, added, lane)
  BY <1>1, <1>3 DEF OnlyNews
<1>4. CASE StartsLane(q, added, lane)
  <2>1. q.lanes[lane] = <<>> /\ added.lanes[lane] # <<>> /\ new = RunResolution(added, lane)
    BY <1>4 DEF StartsLane
  <2>2. LongerBy(q.lanes, added.lanes, lane, job)
    BY <1>1, <1>2, <2>1
  <2>3. added.lanes[lane][1] = job
    <3>1. Len(q.lanes[lane]) = 0
      BY <1>2, <2>1, LaneTypes
    <3>. QED  BY <2>2, <3>1 DEF LongerBy
  <2>4. job.event = e /\ job.stage = "queued"
    BY DEF Arriving
  <2>5. Resolved(added, new, e, rec2, ws, w2)
    BY <1>1, <2>1, <2>3, <2>4, ResolutionGood
  <2>6. \A i \in Instances : <<k, i>> \in Lanes \ {lane}
    BY TypeConstants
  <2>7. \A i \in Instances : added.lanes[<<k, i>>] = q.lanes[<<k, i>>]
    BY <2>2, <2>6 DEF LongerBy
  <2>8. \A i \in Instances : NotYet(added, e, i) => NotYet(q, e, i)
    BY <1>1, <2>7 DEF NotYet
  <2>. QED  BY <1>1, <2>5, <2>8 DEF Resolved, OnlyNews
<1>. QED  BY <1>3, <1>4

\* The job the arrival of e makes, for everybody who is open.
Arrival(e) ==
  [event |-> e,
   recipients |-> [n \in DOMAIN listed |-> [id |-> listed[n], epoch |-> epoch[listed[n]]]],
   location |-> NoLocation, stage |-> "queued", fresh |-> TRUE]

LEMMA ArrivalOK ==
  ASSUME TypeOK, OpenOK, NEW e \in Events, NEW rec2, \A i \in Listed : e \in rec2[i]
  PROVE  Arriving(Arrival(e), e, rec2)
<1> DEFINE tos == [n \in DOMAIN listed |-> [id |-> listed[n], epoch |-> epoch[listed[n]]]]
<1>1. /\ listed \in Seq(Instances) /\ epoch \in [Instances -> 0..2] /\ Len(listed) \in Nat
      /\ DOMAIN listed = 1..Len(listed)
  BY DEF TypeOK
<1>2. \A n \in 1..Len(listed) : listed[n] \in Instances /\ listed[n] \in Listed
  BY <1>1 DEF Listed, ToSet
<1>3. \A n \in 1..Len(listed) : epoch[listed[n]] = 1
  BY <1>2 DEF OpenOK
<1>4. \A n \in 1..Len(listed) : tos[n] \in RecipientType /\ tos[n].id = listed[n] /\ tos[n].epoch = 1
  BY <1>1, <1>2, <1>3 DEF RecipientType
<1>5. tos \in Seq(RecipientType) /\ Len(tos) = Len(listed)
  <2>1. DOMAIN tos = 1..Len(listed) /\ tos = [n \in 1..Len(listed) |-> tos[n]]
    BY <1>1
  <2> HIDE DEF tos
  <2>. QED  BY <1>1, <1>4, <2>1
<1>6. Arrival(e) = [event |-> e, recipients |-> tos, location |-> NoLocation,
                    stage |-> "queued", fresh |-> TRUE]
  BY DEF Arrival
<1>7. \A i \in Listed : \E n \in 1..Len(listed) : listed[n] = i
  BY <1>1 DEF Listed, ToSet
<1> HIDE DEF tos
<1>8. HearersOK(Router, e, tos, rec2)
  <2>1. \A m, n \in 1..Len(tos) : m # n => tos[m].id # tos[n].id
    BY <1>4, <1>5 DEF OpenOK
  <2>2. \A n \in 1..Len(tos) : tos[n].epoch = 1 /\ e \in rec2[tos[n].id]
    BY <1>2, <1>4, <1>5
  <2>3. \A i \in Listed : \E n \in 1..Len(tos) : tos[n].id = i
    BY <1>4, <1>5, <1>7
  <2>. QED  BY <2>1, <2>2, <2>3 DEF HearersOK
<1>9. Arrival(e) \in Jobs
  <2>1. tos \in Seq([id : Instances, epoch : Nat])
    BY <1>5 DEF RecipientType
  <2>2. NoLocation \in Places
    BY TypeConstants
  <2>. QED  BY <1>6, <2>1, <2>2 DEF Jobs
<1>. QED  BY <1>6, <1>8, <1>9 DEF Arriving

LEMMA WireHead ==
  ASSUME TypeOK, StreamOK, wire # <<>>
  PROVE  /\ ComesFirst(Head(wire), wire, Tail(wire)) /\ Head(wire) = wire[1]
         /\ Len(Tail(wire)) \in Nat /\ Len(wire) = Len(Tail(wire)) + 1
         /\ \A n \in 1..Len(Tail(wire)) : n + 1 \in 1..Len(wire) /\ Tail(wire)[n] = wire[n + 1]
         /\ 1 \in 1..Len(wire)
<1>1. wire \in Seq(Events) /\ Len(wire) >= 1 /\ Len(wire) \in Nat
  BY DEF TypeOK
<1>2. /\ Head(wire) = wire[1] /\ Tail(wire) \in Seq(Events)
      /\ Len(Tail(wire)) = Len(wire) - 1
      /\ \A n \in 1..Len(Tail(wire)) : Tail(wire)[n] = wire[n + 1]
  BY <1>1
<1>3. /\ 1 \in 1..Len(wire) /\ wire[1] \in Events
      /\ \A n \in 1..Len(Tail(wire)) : n + 1 \in 1..Len(wire) /\ 1 < n + 1
  BY <1>1, <1>2
<1>4. wire[1].id <= sent /\ \A n \in 1..Len(Tail(wire)) : wire[1].id < wire[n + 1].id
  BY <1>3 DEF StreamOK
<1>. QED  BY <1>1, <1>2, <1>3, <1>4 DEF ComesFirst

LEMMA ReceiveStep ==
  ASSUME IInv, Receive
  PROVE  IInv' /\ NewsOK(r, r', received', Known)
<1> DEFINE e == Head(wire)
           k == e.key
           lane == <<k, Router>>
           q == IF e.type = "worktrees" THEN InvalidateOwners(r) ELSE r
           job == Arrival(e)
           added == Enqueue(q, lane, job)
<1>1. /\ TypeOK /\ StreamOK /\ OpenOK /\ StatusIsShared /\ TrailOK
      /\ Good(r, received, Known, wire, {}) /\ HearingOK(received) /\ r \in Memory
  BY Hears DEF IInv, RelayInv
<1>2. phase \in {"open", "connected"} /\ ~r.closed /\ wire # <<>>
  BY DEF Receive, Streaming
<1>3. CASE Ungreeted(e)
  <2>1. Disconnect
    BY <1>3 DEF Receive
  <2>. QED  BY <1>2, <2>1, DisconnectStep
<1>4. CASE ~Ungreeted(e)
  <2>1. /\ phase' = "connected" /\ wire' = Tail(wire)
        /\ IF phase = "open" THEN UpdateStatus("connected") ELSE UNCHANGED <<status, busStatus>>
        /\ floor' = IF e.type = "worktrees" THEN [i \in Instances |-> Latest(i)] ELSE floor
        /\ owned' = owned /\ snapshot' = snapshot /\ unseen' = unseen
        /\ r' = IF StartsLane(q, added, lane) THEN RunResolution(added, lane) ELSE added
        /\ received' = [i \in Instances |-> IF i \in Listed
                                THEN received[i] \cup {e} ELSE received[i]]
        /\ generation' = generation /\ listed' = listed /\ epoch' = epoch
        /\ trail' = trail /\ gone' = gone /\ sent' = sent
        /\ changes' = changes
    BY <1>4 DEF Receive, Arrival, openVars, daemonVars
  <2>2. /\ ComesFirst(e, wire, wire') /\ e = wire[1] /\ Len(wire') \in Nat
        /\ Len(wire) = Len(wire') + 1 /\ 1 \in 1..Len(wire)
        /\ \A n \in 1..Len(wire') : n + 1 \in 1..Len(wire) /\ wire'[n] = wire[n + 1]
    BY <1>1, <1>2, <2>1, WireHead
  <2> HIDE DEF e
  <2>3. e \in Events /\ k \in Keys
    BY <2>2, EventTypes DEF ComesFirst
  <2>4. /\ received \in [Instances -> SUBSET Events] /\ Listed \subseteq Instances
        /\ Listed' = Listed
    BY <1>1, <2>1 DEF HearingOK, Listed
  <2>5. /\ received' \in [Instances -> SUBSET Events] /\ HeardBy(e, received, received')
        /\ \A i \in Listed : e \in received'[i]
    BY <2>1, <2>3, <2>4 DEF HeardBy
  <2>6. HearingOK(received')
    BY <1>1, <2>5 DEF HearingOK
  <2>7. Arriving(job, e, received')
    BY <1>1, <2>3, <2>5, ArrivalOK
  <2> HIDE DEF job, k
  <2>8. /\ Good(q, received, Known', wire, {}) /\ ~q.closed /\ q.published = r.published
        /\ \A i \in Instances : NotYet(q, e, i) => NotYet(r, e, i)
    <3>1. CASE e.type = "worktrees"
      <4>1. q = InvalidateOwners(r)
        BY <2>1, <3>1
      <4> HIDE DEF q
      <4>2. Revised(r, q)
        BY <1>1, <4>1, InvalidateFields
      <4>3. Good(q, received, Known', wire, {})
        BY <1>1, <4>2, RevisedGood
      <4>4. ~q.closed /\ q.published = r.published
        BY <1>2, <4>2 DEF Revised, SameSize
      <4>5. ASSUME NEW i \in Instances, NotYet(q, e, i) PROVE NotYet(r, e, i)
        <5>1. <<e.key, i>> \in Lanes
          BY <2>3, TypeConstants DEF k
        <5>2. \A n \in 1..Len(r.lanes[<<e.key, i>>]) :
                q.lanes[<<e.key, i>>][n].event = r.lanes[<<e.key, i>>][n].event
          <6> SUFFICES ASSUME NEW n \in 1..Len(r.lanes[<<e.key, i>>])
                       PROVE  q.lanes[<<e.key, i>>][n].event = r.lanes[<<e.key, i>>][n].event
            OBVIOUS
          <6>1. r.lanes[<<e.key, i>>][n] \in Jobs
            BY <1>1, <5>1, LaneTypes
          <6>2. q.lanes[<<e.key, i>>][n] = Stale(r.lanes[<<e.key, i>>][n])
            BY <4>2, <5>1 DEF Revised
          <6>. QED  BY <6>1, <6>2, StaleFields
        <5>3. Len(q.lanes[<<e.key, i>>]) = Len(r.lanes[<<e.key, i>>])
          BY <4>2, <5>1 DEF Revised
        <5>. QED  BY <4>4, <4>5, <5>2, <5>3 DEF NotYet
      <4>. QED  BY <4>1, <4>3, <4>4, <4>5
    <3>2. CASE e.type # "worktrees"
      <4>1. Known' = Known
        BY <2>1, <3>2 DEF Known
      <4>. QED  BY <1>1, <1>2, <3>2, <4>1
    <3>. QED  BY <3>1, <3>2
  <2>9. generation \in 1..MaxConnections
    BY <1>2, Hears
  <2> HIDE DEF q
  <2>10. Good(r', received', Known', wire', {}) /\ OnlyNews(q, r', e, received')
    <3>1. e.key = k
      BY DEF k
    <3> DEFINE new == r'
               ws == Known'
               w2 == wire'
               rec2 == received'
    <3>2. new = IF StartsLane(q, added, lane) THEN RunResolution(added, lane) ELSE added
      BY <2>1
    <3>3. Good(q, received, ws, wire, {}) /\ ComesFirst(e, wire, w2) /\ HearingOK(rec2)
          /\ HeardBy(e, received, rec2) /\ Arriving(job, e, rec2)
      BY <2>2, <2>5, <2>6, <2>7, <2>8
    <3> HIDE DEF new, ws, w2, rec2
    <3>4. Good(new, rec2, ws, w2, {}) /\ OnlyNews(q, new, e, rec2)
      BY <1>1, <2>3, <2>8, <2>9, <3>1, <3>2, <3>3, TakenUp
    <3>. QED  BY <3>4 DEF new, ws, w2, rec2
  <2> HIDE DEF added
  <2>11. NewsOK(r, r', received', Known)
    <3>1. OnlyNews(r, r', e, received')
      BY <2>8, <2>10 DEF OnlyNews
    <3>. QED  BY <1>1, <1>2, <2>3, <3>1, ResolvedNews
  <2>12. Good(r, received, Known, wire, {})'
    <3>1. sent \in Nat /\ sent <= sent
      BY <1>1, LimitAssumption DEF TypeOK
    <3>. QED  BY <2>1, <2>4, <2>10, <3>1, StableGood
  <2>17. floor' \in [Instances -> Nat] /\ ScansOK'
    <3>1. /\ floor \in [Instances -> Nat] /\ owned \in [Instances -> Seq(SUBSET Locations)]
          /\ ScansOK
      BY <1>1 DEF TypeOK, OpenOK
    <3>2. \A i \in Instances : Latest(i) \in Nat /\ Latest(i) \in 1..Len(owned[i])
      BY <3>1 DEF Latest, ScansOK
    <3>3. CASE e.type = "worktrees"
      BY <2>1, <3>1, <3>2, <3>3 DEF ScansOK
    <3>4. CASE e.type # "worktrees"
      BY <2>1, <3>1, <3>4 DEF ScansOK
    <3>. QED  BY <3>3, <3>4
  <2>13. OpenOK'
    <3>1. ScansOK'
      BY <2>17
    <3>2. \A i \in Instances : epoch[i] = 0 => received'[i] = received[i]
      BY <1>1, <2>1 DEF OpenOK
    <3>. QED  BY <1>1, <2>1, <2>4, <3>1, <3>2 DEF OpenOK
  <2>14. StatusIsShared' /\ TrailOK' /\ status' \in {"connecting", "connected", "error"}
         /\ busStatus' \in [Instances ->
              {"none", "connecting", "connected", "error", "disconnected"} \X (0..MaxConnections)]
    <3>1. CASE phase = "open"
      <4>1. /\ status' = "connected"
            /\ busStatus' = [i \in Instances |->
                               IF i \in Listed THEN <<"connected", generation>> ELSE busStatus[i]]
        BY <2>1, <3>1 DEF UpdateStatus
      <4>. QED  BY <1>1, <2>1, <2>4, <3>1, <4>1 DEF StatusIsShared, TrailOK, TypeOK
    <3>2. CASE phase = "connected"
      <4>1. status' = status /\ busStatus' = busStatus
        BY <2>1, <3>2
      <4>. QED  BY <1>1, <2>1, <2>4, <3>2, <4>1 DEF StatusIsShared, TrailOK, TypeOK
    <3>. QED  BY <1>2, <3>1, <3>2
  <2>15. TypeOK'
    <3>1. r' \in Memory /\ wire' \in Seq(Events)
      BY <2>2, <2>10 DEF Good, ComesFirst
    <3>. QED  BY <1>1, <2>1, <2>5, <2>14, <2>17, <3>1 DEF TypeOK
  <2>16. StreamOK'
    <3>1. \A n \in 1..Len(wire') : wire'[n].type # "connected"
      BY <1>1, <2>2 DEF StreamOK
    <3>2. \A m, n \in 1..Len(wire') : m < n => wire'[m].id < wire'[n].id
      <4> SUFFICES ASSUME NEW m \in 1..Len(wire'), NEW n \in 1..Len(wire'), m < n
                   PROVE  wire'[m].id < wire'[n].id
        OBVIOUS
      <4>1. m + 1 \in 1..Len(wire) /\ n + 1 \in 1..Len(wire) /\ m + 1 < n + 1
        BY <2>2
      <4>. QED  BY <1>1, <2>2, <4>1 DEF StreamOK
    <3>3. \A n \in 1..Len(wire') : wire'[n].id <= sent'
      BY <1>1, <2>1, <2>2 DEF StreamOK
    <3>. QED  BY <2>1, <2>9, <3>1, <3>2, <3>3 DEF StreamOK
  <2>. QED  BY <2>11, <2>12, <2>13, <2>14, <2>15, <2>16 DEF IInv, RelayInv, Good
<1>. QED  BY <1>3, <1>4

-----------------------------------------------------------------------------
(* The theorems *)

LEMMA InitOK ==
  ASSUME Init PROVE IInv
<1>1. TypeOK
  <2>1. <<>> \in Seq(Instances) /\ <<>> \in Seq(Events) /\ <<>> \in Seq(Jobs)
    OBVIOUS
  <2>2. r \in Memory
    BY <2>1, LimitAssumption DEF Init, Memory
  <2>3. trail \in [Entities -> Seq(Locations)]
    BY PlaceAssumption DEF Init
  <2>4. busStatus \in [Instances ->
          {"none", "connecting", "connected", "error", "disconnected"} \X (0..MaxConnections)]
    BY LimitAssumption DEF Init
  <2>5. /\ phase = "idle" /\ generation = 0 /\ status = "connecting"
        /\ listed = <<>> /\ wire = <<>> /\ gone = {} /\ unseen = {}
        /\ sent = 0 /\ changes = 0
    BY DEF Init
  <2>6. /\ epoch \in [Instances -> 0..2]
        /\ received \in [Instances -> SUBSET Events]
    BY DEF Init
  <2>7. /\ owned \in [Instances -> Seq(SUBSET Locations)]
        /\ snapshot \in [Instances -> Nat] /\ floor \in [Instances -> Nat]
    BY PlaceAssumption DEF Init
  <2>8. /\ generation \in 0..MaxConnections
        /\ sent \in 0..MaxEvents /\ changes \in 0..MaxChanges
    BY <2>5, LimitAssumption
  <2>. QED  BY <2>1, <2>2, <2>3, <2>4, <2>5, <2>6, <2>7, <2>8 DEF TypeOK
<1>2. Listed = {}
  BY DEF Init, Listed, ToSet
<1>3. /\ StreamOK /\ OpenOK /\ StatusIsShared /\ TrailOK
  <2>1. ScansOK
    <3>1. \A i \in Instances : owned[i] = <<Owned[i]>> /\ Len(owned[i]) = 1
      BY DEF Init
    <3>. QED  BY <3>1 DEF Init, ScansOK
  <2>. QED  BY <1>2, <2>1 DEF Init, StreamOK, OpenOK, StatusIsShared, TrailOK
<1>4. Good(r, received, Known, wire, {})
  <2>1. r \in Memory /\ r.closed /\ r.count = 0 /\ r.late = {}
        /\ \A l \in Lanes : r.lanes[l] = <<>>
    BY <1>1 DEF Init, TypeOK
  <2>2. LateOK(r)
    BY <2>1 DEF LateOK
  <2>3. /\ \A i \in Instances, l \in Locations : r.owners[i][l] # "yes"
        /\ \A i \in Instances : r.published[i] = {}
    BY DEF Init
  <2>. QED  BY <2>1, <2>2, <2>3, EmptyGood
<1>. QED  BY <1>1, <1>3, <1>4 DEF IInv, RelayInv, Good

LEMMA ExternalStep ==
  ASSUME IInv, External
  PROVE  IInv' /\ NewsOK(r, r', received', Known)
<1>1. ASSUME NEW k \in Entities, NEW l \in Places, Delta(k, l)
      PROVE  IInv' /\ NewsOK(r, r', received', Known)
  BY <1>1, DeltaStep
<1>2. ASSUME NEW k \in Entities, NEW l \in Places, Delete(k, l)
      PROVE  IInv' /\ NewsOK(r, r', received', Known)
  BY <1>2, DeleteStep
<1>3. ASSUME NEW s \in Sessions, NEW to \in Locations, NEW l \in Places, Move(s, to, l)
      PROVE  IInv' /\ NewsOK(r, r', received', Known)
  BY <1>3, MoveStep
<1>4. ASSUME NEW i \in Instances, NEW l \in Locations, ChangeOwnership(i, l)
      PROVE  IInv' /\ NewsOK(r, r', received', Known)
  BY <1>4, ChangeOwnershipStep
<1>5. CASE WorktreesUpdated
  BY <1>5, WorktreesUpdatedStep
<1>6. ASSUME NEW i \in Instances, WorktreesChanged(i)
      PROVE  IInv' /\ NewsOK(r, r', received', Known)
  BY <1>6, WorktreesChangedStep
<1>12. ASSUME NEW i \in Instances, InventoryRead(i)
       PROVE  IInv' /\ NewsOK(r, r', received', Known)
  BY <1>12, InventoryReadStep
<1>7. CASE Subscribe
  BY <1>7, SubscribeStep
<1>8. CASE StreamEnds
  BY <1>8, DisconnectStep DEF StreamEnds
<1>9. CASE Shutdown
  BY <1>9, ShutdownStep
<1>10. ASSUME NEW i \in Instances, OpenWorkspace(i)
       PROVE  IInv' /\ NewsOK(r, r', received', Known)
  BY <1>10, OpenWorkspaceStep
<1>11. ASSUME NEW i \in Instances, StopWorkspace(i)
       PROVE  IInv' /\ NewsOK(r, r', received', Known)
  BY <1>11, StopWorkspaceStep
<1>. QED  BY <1>1, <1>2, <1>3, <1>4, <1>5, <1>6, <1>7, <1>8, <1>9, <1>10, <1>11, <1>12 DEF External

LEMMA NextStep ==
  ASSUME IInv, [Next]_vars
  PROVE  IInv' /\ NewsOK(r, r', received', Known)
<1>1. CASE External
  BY <1>1, ExternalStep
<1>2. ASSUME Idle, NewsOK(r, r', received, Known) PROVE NewsOK(r, r', received', Known)
  BY <1>2 DEF Idle
<1>3. ASSUME NEW s \in Sessions, SessionExpires(s)
      PROVE  IInv' /\ NewsOK(r, r', received', Known)
  BY <1>2, <1>3, SessionExpiresStep DEF SessionExpires
<1>4. ASSUME NEW i \in Instances, NEW l \in Locations, OwnerExpires(i, l)
      PROVE  IInv' /\ NewsOK(r, r', received', Known)
  BY <1>2, <1>4, OwnerExpiresStep DEF OwnerExpires
<1>5. CASE QueueFailed
  BY <1>5, DisconnectStep DEF QueueFailed, Streaming
<1>6. CASE Receive
  BY <1>6, ReceiveStep
<1>7. CASE Reconnect
  BY <1>7, ReconnectStep
<1>8. ASSUME NEW lane \in Lanes, NextJob(lane)
      PROVE  IInv' /\ NewsOK(r, r', received', Known)
  BY <1>2, <1>8, NextJobStep DEF NextJob
<1>9. ASSUME NEW lane \in Lanes, OwnerResolved(lane)
      PROVE  IInv' /\ NewsOK(r, r', received', Known)
  BY <1>2, <1>9, OwnerResolvedStep DEF OwnerResolved
<1>10. ASSUME NEW s \in Sessions, SessionAnswers(s)
       PROVE  IInv' /\ NewsOK(r, r', received', Known)
  BY <1>2, <1>10, SessionAnswersStep DEF SessionAnswers
<1>11. ASSUME NEW s \in Sessions, SessionResolved(s)
       PROVE  IInv' /\ NewsOK(r, r', received', Known)
  BY <1>2, <1>11, SessionResolvedStep, ZenonT(40) DEF SessionResolved
<1>12. ASSUME NEW i \in Instances, NEW l \in Locations, OwnerAnswers(i, l)
       PROVE  IInv' /\ NewsOK(r, r', received', Known)
  BY <1>12, OwnerAnswersStep
<1>13. ASSUME NEW x \in r.late, LateResumes(x)
       PROVE  IInv' /\ NewsOK(r, r', received', Known)
  BY <1>2, <1>13, LateResumesStep DEF LateResumes
<1>14. CASE QueueTimesOut
  BY <1>2, <1>14, QueueTimesOutStep DEF QueueTimesOut
<1>15. CASE UNCHANGED vars
  <2>1. Idle /\ r' = r
    BY <1>15 DEF vars, Idle
  <2>2. /\ Good(r, received, Known, wire, {}) /\ StreamOK
    BY Hears DEF IInv, RelayInv
  <2>3. \/ phase = "connected"
        \/ /\ r'.closed = r.closed /\ \A l \in Lanes : r'.lanes[l] = <<>>
           /\ phase \in {"connecting", "open"} => \A e \in Entities : r'.placed[e] = "none"
    BY <2>1, <2>2 DEF StreamOK
  <2>4. Good(r', received, Known, wire, {})
    BY <2>1, <2>2
  <2>5. IInv'
    BY <2>1, <2>3, <2>4, IdleStep
  <2>. QED  BY <2>1, <2>5 DEF NewsOK
<1>16. CASE Expiry
  BY <1>3, <1>4, <1>16 DEF Expiry
<1>17. CASE Relay
  BY <1>5, <1>6, <1>7, <1>8, <1>9, <1>10, <1>11, <1>12, <1>13, <1>17 DEF Relay
<1>. QED  BY <1>1, <1>14, <1>15, <1>16, <1>17 DEF Next

\* The relay keeps its invariant, whatever the daemon, the workspaces and the lookups do.
THEOREM RelayInductive == Spec => []IInv
<1>1. Init => IInv
  BY InitOK
<1>2. IInv /\ [Next]_vars => IInv'
  BY NextStep
<1>. QED  BY <1>1, <1>2, PTL DEF Spec

\* Every variable of the relay keeps its type: the budget of the queue is never exceeded.
THEOREM TypeCorrect == Spec => []TypeOK
<1>1. IInv => TypeOK
  BY DEF IInv
<1>. QED  BY <1>1, RelayInductive, PTL

\* A session that moved is never routed by a location it had left when the event was sent: whatever
\* publishEvent takes from its caches, from the event or from session.get is right.
THEOREM SessionsAreRoutedWhereTheyAre == Spec => []RoutedWhereItIs
<1>1. IInv => RoutedWhereItIs
  <2> SUFFICES ASSUME IInv, NEW s \in Sessions, NEW i \in Instances,
                      NEW job \in ToSet(r.lanes[<<s, i>>]), job.location # NoLocation
               PROVE  \E n \in job.event.hop..Len(trail[s]) : trail[s][n] = job.location
    BY DEF RoutedWhereItIs
  <2>1. RoutedOK(r) /\ r \in Memory /\ <<s, i>> \in Lanes /\ TypeOK /\ TrailOK
    BY TypeConstants DEF IInv, RelayInv, TypeOK
  <2>2. PICK m \in 1..Len(r.lanes[<<s, i>>]) : job = r.lanes[<<s, i>>][m]
    BY <2>1, LaneTypes DEF ToSet
  <2>3. AtOrAfter(s, job.event.hop, job.location)
    BY <2>1, <2>2 DEF RoutedOK
  <2>4. job.event.hop \in Nat /\ Len(trail[s]) \in Nat
    BY <2>1, <2>2, LaneTypes, EventTypes, TrailTypes
  <2>. QED  BY <2>3, <2>4 DEF AtOrAfter
<1>. QED  BY <1>1, RelayInductive, PTL

\* While the subscription lasts, every event that arrived for an open workspace was published or
\* refused, belongs nowhere, or is still in the queue.
THEOREM NoEventIsLost == Spec => []NothingLost
<1>1. IInv => NothingLost
  <2> SUFFICES ASSUME IInv, ~r.closed, NEW i \in Listed, NEW e \in received[i]
               PROVE  \/ e \in r.published[i] \cup r.refused[i] \cup r.unplaced
                      \/ \E x \in {Router, i} :
                           \E job \in ToSet(r.lanes[<<e.key, x>>]) : job.event = e
    BY DEF NothingLost
  <2>1. KeptOK(r, received) /\ HearingOK(received) /\ r \in Memory
    BY Hears DEF IInv, RelayInv
  <2>2. e \in Events /\ e.key \in Keys /\ i \in Instances
    BY <2>1, EventTypes DEF HearingOK
  <2>3. Settled(r, i, e) \/ \E x \in {Router, i} : Queued(r, e, x)
    BY <2>1 DEF KeptOK
  <2>4. ASSUME NEW x \in {Router, i}, Queued(r, e, x)
        PROVE  \E job \in ToSet(r.lanes[<<e.key, x>>]) : job.event = e
    <3>1. <<e.key, x>> \in Lanes
      BY <2>2 DEF Lanes
    <3>2. r.lanes[<<e.key, x>>] \in Seq(Jobs)
      BY <2>1, <3>1, LaneTypes
    <3>. QED  BY <2>4, <3>2 DEF Queued, ToSet
  <2>. QED  BY <2>3, <2>4 DEF Settled
<1>. QED  BY <1>1, RelayInductive, PTL

\* A workspace hears of an entity in the order in which the daemon sent, however long its location
\* and its owner take to find.
THEOREM EventsAreInOrder == Spec => InOrder
<1>1. IInv /\ [Next]_vars =>
        [\A i \in Instances : \A e \in News(i) : \A f \in r.published[i] :
           f.key = e.key /\ e.type # "connected" => f.id < e.id]_vars
  BY NextStep DEF NewsOK, News
<1>. QED  BY <1>1, RelayInductive, PTL DEF Spec, InOrder

\* Workspaces that have stopped hear nothing, nothing of an earlier subscription is published, and
\* no answer of a scan from before the last change of worktrees that was told is used.
THEOREM DeliveriesAreCurrent == Spec => DeliveryIsCurrent
<1>1. IInv /\ [Next]_vars =>
        [\A i \in Instances : News(i) # {} =>
           /\ i \in Listed /\ ~r.closed
           /\ News(i) \subseteq received'[i]]_vars
  BY NextStep DEF NewsOK, News
<1>2. IInv /\ [Next]_vars =>
        [\A lane \in Lanes : r.lanes[lane] # <<>> =>
           LET job  == Head(r.lanes[lane])
               i    == lane[2]
               scan == snapshot[i]
           IN  i # Router /\ job.location # NoLocation /\ job.event \in News(i)
                 => /\ scan # 0 /\ scan >= floor[i]
                    /\ job.location \in owned[i][scan]]_vars
  <2> SUFFICES ASSUME IInv, [Next]_vars, NEW lane \in Lanes, r.lanes[lane] # <<>>,
                      lane[2] # Router, Head(r.lanes[lane]).location # NoLocation,
                      Head(r.lanes[lane]).event \in News(lane[2])
               PROVE  /\ snapshot[lane[2]] # 0 /\ snapshot[lane[2]] >= floor[lane[2]]
                      /\ Head(r.lanes[lane]).location \in owned[lane[2]][snapshot[lane[2]]]
    OBVIOUS
  <2>1. NewsOK(r, r', received', Known) /\ r \in Memory
    BY NextStep, Hears
  <2>2. lane[2] \in Instances /\ Head(r.lanes[lane]) = r.lanes[lane][1]
    BY <2>1, LaneTypes DEF Lanes
  <2>3. Head(r.lanes[lane]).location \in Known[lane[2]]
    BY <2>1, <2>2 DEF NewsOK, News
  <2>. QED  BY <2>2, <2>3 DEF Known
<1>3. IInv => StatusIsShared
  BY DEF IInv, RelayInv
<1>4. Spec => NoLateDelivery
  BY <1>1, RelayInductive, PTL DEF Spec, NoLateDelivery
<1>5. Spec => OwnershipIsFresh
  BY <1>2, RelayInductive, PTL DEF Spec, OwnershipIsFresh
<1>6. Spec => []StatusIsShared
  BY <1>3, RelayInductive, PTL
<1>. QED  BY <1>4, <1>5, <1>6 DEF DeliveryIsCurrent
=============================================================================
