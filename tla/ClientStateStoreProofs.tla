------------------------ MODULE ClientStateStoreProofs ------------------------
(***************************************************************************)
(* What the store of the desktop application keeps, for any windows,       *)
(* partitions, requests, faults, reloads and crashes.                      *)
(***************************************************************************)
EXTENDS ClientStateStore, SequenceTheorems, TLAPS

-----------------------------------------------------------------------------
(* What a request changes *)

\* A change concerns the record of its window alone, refers to no partition but its own, and
\* brings no window back.
LEMMA ChangesExact ==
  ASSUME NEW m \in Memory, NEW op \in Request
  PROVE  LET n == Changes(m, op)
         IN  /\ n \in Memory
             /\ \A v \in Windows : v # op.window =>
                  n.state[v] = m.state[v] /\ (v \in n.suppressed <=> v \in m.suppressed)
             /\ n.state[op.window].parts \subseteq m.state[op.window].parts \cup op.parts
             /\ op.kind # "commit" =>
                  n.state[op.window].parts \subseteq m.state[op.window].parts
             /\ op.kind \in {"clear", "disable"} =>
                  op.window \in n.suppressed /\ n.state[op.window].parts = {}
             /\ op.kind # "enable" =>
                  (op.window \in m.suppressed => op.window \in n.suppressed)
             /\ m.state[op.window].status # "new" => n.state[op.window].status # "new"
<1> DEFINE w == op.window
<1>1. w \in Windows /\ op.parts \in SUBSET Partitions /\ op.kind \in Kinds
  BY DEF Request
<1>2. m.state \in States /\ m.suppressed \in SUBSET Windows /\ m.state[w] \in Record
  BY <1>1 DEF Memory, States
<1>3. m.state[w].parts \in SUBSET Partitions /\ m.state[w].on \in BOOLEAN
      /\ m.state[w].status \in {"new", "open", "gone"}
  BY <1>2 DEF Record
<1> DEFINE n == Changes(m, op)
<1>4. /\ n.state = [m.state EXCEPT ![w] = Changed(m.state[w], op)]
      /\ n.suppressed = Suppression(m.suppressed, op)
      /\ DOMAIN n = {"state", "suppressed"}
  BY DEF Changes
<1>5. Changed(m.state[w], op) \in Record
  BY <1>1, <1>3 DEF Changed, Record
<1>6. n.state \in States /\ n.state[w] = Changed(m.state[w], op)
      /\ \A v \in Windows : v # w => n.state[v] = m.state[v]
  BY <1>1, <1>2, <1>4, <1>5 DEF States
<1>7. n.suppressed \in SUBSET Windows
      /\ \A v \in Windows : v # w => (v \in n.suppressed <=> v \in m.suppressed)
  BY <1>1, <1>2, <1>4 DEF Suppression
<1>8. n \in Memory
  BY <1>6, <1>7 DEF Memory, Changes
<1>9. /\ n.state[w].parts \subseteq m.state[w].parts \cup op.parts
      /\ op.kind # "commit" => n.state[w].parts \subseteq m.state[w].parts
      /\ op.kind \in {"clear", "disable"} => n.state[w].parts = {}
      /\ m.state[w].status # "new" => n.state[w].status # "new"
  BY <1>1, <1>3, <1>6 DEF Changed, Kinds
<1>10. /\ op.kind \in {"clear", "disable"} => w \in n.suppressed
       /\ op.kind # "enable" => (w \in m.suppressed => w \in n.suppressed)
  BY <1>1, <1>4 DEF Suppression
<1>11. QED
  BY <1>6, <1>7, <1>8, <1>9, <1>10
-----------------------------------------------------------------------------
(* Types *)

LEMMA HeadTyped ==
  ASSUME TypeOK, queue # <<>>
  PROVE  Op \in Request /\ Tail(queue) \in Seq(Request) /\ Len(queue) \in Nat \ {0}
         /\ Len(Tail(queue)) = Len(queue) - 1
<1>1. queue \in Seq(Request)
  BY DEF TypeOK
<1>2. QED
  BY <1>1, HeadTailProperties, EmptySeq DEF Op

\* A request that is asked for joins the queue behind the one in progress.
LEMMA AskKeepsOp ==
  ASSUME TypeOK, NEW kind \in Kinds, NEW w \in Windows, NEW S \in SUBSET Partitions,
         Ask(kind, w, S), phase # "idle"
  PROVE  Op' = Op
<1>1. queue # <<>> /\ queue \in Seq(Request)
  BY DEF TypeOK
<1>2. [kind |-> kind, window |-> w, parts |-> S, token |-> renderer[w]] \in Request
  BY DEF Request, TypeOK
<1>3. QED
  BY <1>1, <1>2, AppendProperties, EmptySeq, LenProperties DEF Ask, Op

LEMMA InitTyped == Init => TypeOK
<1> SUFFICES ASSUME Init PROVE TypeOK
  OBVIOUS
<1>1. \A set : Opened(set) \in States
  BY DEF Opened, States, Record
<1>2. root \in States /\ durable \in States /\ acked \in States
  BY <1>1 DEF Init
<1>3. Loaded(root) \in Memory
  BY <1>2 DEF Loaded, Memory
<1>4. queue \in Seq(Request)
  BY DEF Init
<1>5. renderer \in [Windows -> Nat]
  BY DEF Init
<1>6. QED
  BY <1>2, <1>3, <1>4, <1>5 DEF Init, TypeOK

\* What the outcome of a request does to the types.
LEMMA SettleTyped ==
  ASSUME TypeOK, queue # <<>>, NEW ok \in BOOLEAN, Settles(ok)
  PROVE  /\ queue' \in Seq(Request) /\ phase' = "idle"
         /\ published' \in BOOLEAN /\ failed' \in BOOLEAN /\ ahead' \in Nat
<1>1. queue' \in Seq(Request)
  BY HeadTyped DEF Settles
<1>2. ahead' \in Nat
  BY DEF Settles, TypeOK
<1>3. QED
  BY <1>1, <1>2 DEF Settles

LEMMA AcknowledgeTyped ==
  ASSUME TypeOK, phase # "idle", Acknowledges,
         root' \in States, durable' \in States,
         parts' \in SUBSET Partitions, synced' \in SUBSET Partitions,
         renderer' = renderer, life' = life
  PROVE  TypeOK'
<1>1. queue # <<>> /\ Op \in Request
  BY HeadTyped DEF TypeOK
<1>2. Op.window \in Windows /\ memory.state \in States
  BY <1>1 DEF Request, TypeOK, Memory
<1>3. acked' \in States /\ doubt' \in SUBSET Windows /\ quiet' \in SUBSET Windows
  BY <1>2 DEF Acknowledges, TypeOK, States
<1>4. /\ queue' \in Seq(Request) /\ phase' = "idle"
      /\ published' \in BOOLEAN /\ failed' \in BOOLEAN /\ ahead' \in Nat
  BY <1>1, SettleTyped DEF Acknowledges
<1>5. QED
  BY <1>3, <1>4 DEF Acknowledges, TypeOK

LEMMA RejectTyped ==
  ASSUME TypeOK, phase # "idle", Rejects,
         UNCHANGED <<root, durable, parts, synced, renderer, life>>
  PROVE  TypeOK'
<1>1. queue # <<>> /\ Op \in Request
  BY HeadTyped DEF TypeOK
<1>2. /\ queue' \in Seq(Request) /\ phase' = "idle"
      /\ published' \in BOOLEAN /\ failed' \in BOOLEAN /\ ahead' \in Nat
  BY <1>1, SettleTyped DEF Rejects
<1>3. doubt' \in SUBSET Windows
  BY <1>1 DEF Rejects, TypeOK, Request
<1>4. QED
  BY <1>2, <1>3 DEF Rejects, Restore, TypeOK

LEMMA NextTyped == TypeOK /\ [Next]_vars => TypeOK'
<1> SUFFICES ASSUME TypeOK, [Next]_vars PROVE TypeOK'
  OBVIOUS
<1>1. ASSUME NEW kind \in Kinds, NEW w \in Windows, NEW S \in SUBSET Partitions,
             Ask(kind, w, S)
      PROVE  TypeOK'
  <2>1. renderer[w] \in Nat
    BY DEF TypeOK
  <2>2. [kind |-> kind, window |-> w, parts |-> S, token |-> renderer[w]] \in Request
    BY <2>1 DEF Request
  <2>3. queue' \in Seq(Request) /\ queue' # <<>>
    BY <1>1, <2>2, AppendProperties DEF Ask, TypeOK
  <2>4. QED
    BY <1>1, <2>3 DEF Ask, TypeOK, disk, history
<1>2. ASSUME NEW w \in Windows, Reload(w) PROVE TypeOK'
  <2>1. renderer' \in [Windows -> Nat]
    BY <1>2 DEF Reload, TypeOK
  <2>2. QED
    BY <1>2, <2>1 DEF Reload, TypeOK, disk, process, history
<1>3. CASE Drain
  <2>1. Len(queue) \in Nat
    BY LenProperties DEF TypeOK
  <2>2. QED
    BY <1>3, <2>1 DEF Drain, TypeOK, disk, history
<1>4. CASE Release
  BY <1>4 DEF Release, TypeOK, disk, history
<1>5. CASE Begin
  <2>1. CASE Settles(FALSE) \/ Settles(TRUE)
    <3>1. /\ queue' \in Seq(Request) /\ phase' = "idle"
          /\ published' \in BOOLEAN /\ failed' \in BOOLEAN /\ ahead' \in Nat
      BY <1>5, <2>1, SettleTyped DEF Begin
    <3>2. UNCHANGED memory /\ (backup' = backup \/ backup' = memory)
          /\ UNCHANGED <<disk, renderer, life, history>>
      BY <1>5 DEF Begin
    <3>3. QED
      BY <3>1, <3>2 DEF TypeOK, disk, history
  <2>2. CASE ~(Settles(FALSE) \/ Settles(TRUE))
    BY <1>5, <2>2 DEF Begin, TypeOK, disk, history
  <2>3. QED
    BY <2>1, <2>2
<1>6. ASSUME NEW p \in Partitions, Publish(p) PROVE TypeOK'
  <2>1. CASE Allowed
    BY <1>6, <2>1 DEF Publish, TypeOK, history
  <2>2. CASE ~Allowed
    BY <1>6, <2>2, RejectTyped DEF Publish
  <2>3. QED
    BY <2>1, <2>2
<1>7. CASE Mutate
  <2>1. queue # <<>> /\ Op \in Request
    BY <1>7, HeadTyped DEF Mutate, TypeOK
  <2>2. Changes(memory, Op) \in Memory
    BY <2>1, ChangesExact DEF TypeOK
  <2>3. CASE Allowed /\ Known(memory.state, Op.kind, Op.window)
    BY <1>7, <2>1, <2>2, <2>3 DEF Mutate, TypeOK, history
  <2>4. CASE ~(Allowed /\ Known(memory.state, Op.kind, Op.window))
    BY <1>7, <2>4, RejectTyped DEF Mutate
  <2>5. QED
    BY <2>3, <2>4
<1>8. CASE Replace
  <2>1. CASE Allowed
    BY <1>8, <2>1 DEF Replace, TypeOK, Memory, history
  <2>2. CASE ~Allowed
    BY <1>8, <2>2, RejectTyped DEF Replace
  <2>3. QED
    BY <2>1, <2>2
<1>9. CASE SyncRoot
  <2>1. durable' \in States /\ root' \in States /\ phase # "idle"
        /\ parts' \in SUBSET Partitions /\ synced' \in SUBSET Partitions
    BY <1>9 DEF SyncRoot, FlushRoot, TypeOK
  <2>2. CASE Sweeps(Op)
    BY <1>9, <2>1, <2>2 DEF SyncRoot, TypeOK, history
  <2>3. CASE ~Sweeps(Op)
    BY <1>9, <2>1, <2>3, AcknowledgeTyped DEF SyncRoot
  <2>4. QED
    BY <2>2, <2>3
<1>10. ASSUME NEW p \in Partitions, Sweep(p) PROVE TypeOK'
  BY <1>10 DEF Sweep, TypeOK, process, history
<1>11. CASE SweepEnds
  BY <1>11, AcknowledgeTyped DEF SweepEnds, TypeOK, disk
<1>12. CASE Fault
  <2>1. CASE phase = "sweep"
    BY <1>12, <2>1, AcknowledgeTyped DEF Fault, TypeOK, disk
  <2>2. CASE phase # "sweep"
    BY <1>12, <2>2, RejectTyped DEF Fault, disk
  <2>3. QED
    BY <2>1, <2>2
<1>13. CASE Crash
  <2>1. Loaded(root) \in Memory
    BY DEF Loaded, Memory, TypeOK
  <2>2. doubt' \in SUBSET Windows
    BY <1>13, HeadTyped DEF Crash, TypeOK, Request
  <2>3. quiet' \in SUBSET Windows /\ queue' \in Seq(Request)
    BY <1>13 DEF Crash, TypeOK
  <2>4. QED
    BY <1>13, <2>1, <2>2, <2>3 DEF Crash, TypeOK, disk
<1>14. CASE UNCHANGED vars
  BY <1>14 DEF TypeOK, vars, disk, process, history
<1>15. QED
  BY <1>1, <1>2, <1>3, <1>4, <1>5, <1>6, <1>7, <1>8, <1>9, <1>10, <1>11, <1>12, <1>13, <1>14
     DEF Next

\* The variables of ClientStateManager keep their types, and a request in progress is at the
\* head of the queue.
THEOREM TypeCorrect == Spec => []TypeOK
<1>1. Init => TypeOK
  BY InitTyped
<1>2. TypeOK /\ [Next]_vars => TypeOK'
  BY NextTyped
<1>3. QED
  BY <1>1, <1>2, PTL DEF Spec

-----------------------------------------------------------------------------
(* The partitions that are referred to exist *)

\* Every partition that the state s refers to is in P.
Within(s, P) == \A w \in Windows : s[w].parts \subseteq P

LEMMA RefsWithin ==
  ASSUME NEW s, NEW P PROVE Refs(s) \subseteq P <=> Within(s, P)
BY DEF Refs, Within

\* A root that replaced another is the memory's, and a sweep spares what the memory refers to;
\* the backup is complete as long as it may come back.
Complete ==
  /\ Within(root, parts) /\ Within(durable, parts) /\ Within(memory.state, parts)
  /\ phase \in {"prepare", "write", "renamed"} => Within(backup.state, parts)
  /\ phase \in {"renamed", "sweep"} => root = memory.state
  /\ phase = "sweep" => durable = memory.state

LEMMA RejectComplete ==
  ASSUME Complete, phase \in {"prepare", "write", "renamed"}, Rejects,
         UNCHANGED <<root, durable, parts>>
  PROVE  Complete'
BY DEF Complete, Rejects, Settles, Restore, Within

LEMMA AcknowledgeComplete ==
  ASSUME Complete, Acknowledges, UNCHANGED <<root, parts>>, Within(durable', parts)
  PROVE  Complete'
BY DEF Complete, Acknowledges, Settles, Within

LEMMA NextComplete == TypeOK /\ Complete /\ [Next]_vars => Complete'
<1> SUFFICES ASSUME TypeOK, Complete, [Next]_vars PROVE Complete'
  OBVIOUS
<1>1. ASSUME NEW kind \in Kinds, NEW w \in Windows, NEW S \in SUBSET Partitions,
             Ask(kind, w, S)
      PROVE  Complete'
  BY <1>1 DEF Ask, Complete, Within, disk
<1>2. ASSUME NEW w \in Windows, Reload(w) PROVE Complete'
  BY <1>2 DEF Reload, Complete, Within, disk, process
<1>3. CASE Drain
  BY <1>3 DEF Drain, Complete, Within, disk
<1>4. CASE Release
  BY <1>4 DEF Release, Complete, Within, disk
<1>5. CASE Begin
  BY <1>5 DEF Begin, Settles, Complete, Within, disk
<1>6. ASSUME NEW p \in Partitions, Publish(p) PROVE Complete'
  <2>1. CASE Allowed
    BY <1>6, <2>1 DEF Publish, Complete, Within
  <2>2. CASE ~Allowed
    BY <1>6, <2>2, RejectComplete DEF Publish
  <2>3. QED
    BY <2>1, <2>2
<1>7. CASE Mutate
  <2>1. Op \in Request /\ memory \in Memory
    BY <1>7, HeadTyped DEF Mutate, TypeOK
  <2>2. CASE Allowed /\ Known(memory.state, Op.kind, Op.window)
    <3>1. memory' = Changes(memory, Op) /\ Op.parts \subseteq parts
          /\ phase' = "write" /\ UNCHANGED <<root, durable, parts, backup>>
      BY <1>7, <2>2 DEF Mutate, Prepared
    <3>2. Within(memory'.state, parts)
      BY <2>1, <3>1, ChangesExact DEF Complete, Within
    <3>3. QED
      BY <1>7, <3>1, <3>2 DEF Mutate, Complete, Within
  <2>3. CASE ~(Allowed /\ Known(memory.state, Op.kind, Op.window))
    BY <1>7, <2>3, RejectComplete DEF Mutate
  <2>4. QED
    BY <2>2, <2>3
<1>8. CASE Replace
  <2>1. CASE Allowed
    BY <1>8, <2>1 DEF Replace, Complete, Within
  <2>2. CASE ~Allowed
    BY <1>8, <2>2, RejectComplete DEF Replace
  <2>3. QED
    BY <2>1, <2>2
<1>9. CASE SyncRoot
  <2>1. durable' = root /\ root = memory.state /\ UNCHANGED <<root, parts>>
    BY <1>9 DEF SyncRoot, FlushRoot, Complete
  <2>2. CASE Sweeps(Op)
    BY <1>9, <2>1, <2>2 DEF SyncRoot, Complete, Within
  <2>3. CASE ~Sweeps(Op)
    BY <1>9, <2>1, <2>3, AcknowledgeComplete DEF SyncRoot, Complete, Within
  <2>4. QED
    BY <2>2, <2>3
<1>10. ASSUME NEW p \in Partitions, Sweep(p) PROVE Complete'
  <2>1. phase = "sweep" /\ parts' = parts \ {p} /\ p \notin Refs(memory.state)
        /\ UNCHANGED <<root, durable, memory, phase>>
    BY <1>10 DEF Sweep, Garbage, process
  <2>2. Within(memory.state, parts')
    BY <2>1 DEF Complete, Within, Refs
  <2>3. QED
    BY <2>1, <2>2 DEF Complete, Within
<1>11. CASE SweepEnds
  BY <1>11, AcknowledgeComplete DEF SweepEnds, Complete, Within, disk
<1>12. CASE Fault
  <2>1. CASE phase = "sweep"
    BY <1>12, <2>1, AcknowledgeComplete DEF Fault, Complete, Within, disk
  <2>2. CASE phase # "sweep"
    BY <1>12, <2>2, RejectComplete DEF Fault, disk
  <2>3. QED
    BY <2>1, <2>2
<1>13. CASE Crash
  BY <1>13 DEF Crash, Loaded, Complete, Within, disk
<1>14. CASE UNCHANGED vars
  BY <1>14 DEF Complete, Within, vars, disk, process
<1>15. QED
  BY <1>1, <1>2, <1>3, <1>4, <1>5, <1>6, <1>7, <1>8, <1>9, <1>10, <1>11, <1>12, <1>13, <1>14
     DEF Next

\* Complete is an invariant.
LEMMA AlwaysComplete == Spec => []Complete
<1>1. Init => Complete
  <2> SUFFICES ASSUME Init PROVE Complete
    OBVIOUS
  <2>1. PICK set \in SUBSET Windows \ {{}} : root = Opened(set)
    BY DEF Init
  <2>2. \A w \in Windows : root[w].parts = {}
    BY <2>1 DEF Opened
  <2>3. durable = root /\ memory.state = root /\ phase = "idle"
    BY DEF Init, Loaded
  <2>4. QED
    BY <2>2, <2>3 DEF Complete, Within
<1>2. TypeOK /\ Complete /\ [Next]_vars => Complete'
  BY NextComplete
<1>3. QED
  BY <1>1, <1>2, TypeCorrect, PTL DEF Spec

\* Whenever the process ends, or the power is lost, the root that is read next refers to
\* partitions that exist, whatever other windows published and swept meanwhile.
THEOREM RootsAreComplete == Spec => []RootIsComplete
<1>1. Complete => RootIsComplete
  BY RefsWithin DEF Complete, RootIsComplete
<1>2. QED
  BY <1>1, AlwaysComplete, PTL

-----------------------------------------------------------------------------
(* What was acknowledged is durable *)

InProgress(w) == phase # "idle" /\ Op.window = w

\* A window without a request in progress, or one that failed, has the record that was
\* acknowledged, wherever it is kept.
Faithful ==
  /\ \A w \in Windows :
       \/ w \in doubt \/ InProgress(w)
       \/ /\ root[w] = acked[w] /\ durable[w] = acked[w] /\ memory.state[w] = acked[w]
          /\ phase \in {"prepare", "write", "renamed"} => backup.state[w] = acked[w]
  /\ \A w \in Windows : phase # "sweep" /\ w \notin doubt => durable[w] = acked[w]

LEMMA RejectFaithful ==
  ASSUME TypeOK, Faithful, phase \in {"prepare", "write", "renamed"}, Rejects,
         UNCHANGED <<root, durable>>
  PROVE  Faithful'
BY DEF Faithful, Rejects, Settles, Restore, InProgress

LEMMA AcknowledgeFaithful ==
  ASSUME TypeOK, Faithful, phase # "idle", Acknowledges,
         root' = memory.state, durable' = memory.state, root = memory.state
  PROVE  Faithful'
<1>1. Op.window \in Windows
  BY HeadTyped DEF TypeOK, Request
<1>2. /\ \A w \in Windows \ {Op.window} : acked'[w] = acked[w]
      /\ acked'[Op.window] = memory.state[Op.window]
      /\ doubt' = doubt \ {Op.window} /\ UNCHANGED memory /\ phase' = "idle"
  BY <1>1 DEF Acknowledges, Settles, TypeOK, States
<1>3. QED
  BY <1>1, <1>2 DEF Faithful, InProgress

LEMMA NextFaithful == TypeOK /\ Complete /\ Faithful /\ [Next]_vars => Faithful'
<1> SUFFICES ASSUME TypeOK, Complete, Faithful, [Next]_vars PROVE Faithful'
  OBVIOUS
<1>1. ASSUME NEW kind \in Kinds, NEW w \in Windows, NEW S \in SUBSET Partitions,
             Ask(kind, w, S)
      PROVE  Faithful'
  <2>1. phase # "idle" => Op' = Op
    BY <1>1, AskKeepsOp
  <2>2. QED
    BY <1>1, <2>1 DEF Ask, Faithful, InProgress, disk, history
<1>2. ASSUME NEW w \in Windows, Reload(w) PROVE Faithful'
  BY <1>2 DEF Reload, Faithful, InProgress, Op, disk, process, history
<1>3. CASE Drain
  BY <1>3 DEF Drain, Faithful, InProgress, Op, disk, history
<1>4. CASE Release
  BY <1>4 DEF Release, Faithful, InProgress, Op, disk, history
<1>5. CASE Begin
  <2>1. /\ phase = "idle" /\ UNCHANGED <<root, durable, memory, acked, doubt>>
        /\ phase' = "idle" \/ (phase' = "prepare" /\ backup' = memory)
    BY <1>5 DEF Begin, Settles, disk, history
  <2>2. QED
    BY <2>1 DEF Faithful, InProgress
<1>6. ASSUME NEW p \in Partitions, Publish(p) PROVE Faithful'
  <2>1. CASE Allowed
    BY <1>6, <2>1 DEF Publish, Faithful, InProgress, Op, history
  <2>2. CASE ~Allowed
    BY <1>6, <2>2, RejectFaithful DEF Publish
  <2>3. QED
    BY <2>1, <2>2
<1>7. CASE Mutate
  <2>1. Op \in Request /\ memory \in Memory
    BY <1>7, HeadTyped DEF Mutate, TypeOK
  <2>2. CASE Allowed /\ Known(memory.state, Op.kind, Op.window)
    <3>1. /\ memory' = Changes(memory, Op) /\ phase = "prepare" /\ phase' = "write"
          /\ UNCHANGED <<root, durable, queue, backup, acked, doubt>>
      BY <1>7, <2>2 DEF Mutate, history
    <3>2. \A w \in Windows : w # Op.window => memory'.state[w] = memory.state[w]
      BY <2>1, <3>1, ChangesExact
    <3>3. QED
      BY <3>1, <3>2 DEF Faithful, InProgress, Op
  <2>3. CASE ~(Allowed /\ Known(memory.state, Op.kind, Op.window))
    BY <1>7, <2>3, RejectFaithful DEF Mutate
  <2>4. QED
    BY <2>2, <2>3
<1>8. CASE Replace
  <2>1. CASE Allowed
    BY <1>8, <2>1 DEF Replace, Faithful, InProgress, Op, history
  <2>2. CASE ~Allowed
    BY <1>8, <2>2, RejectFaithful DEF Replace
  <2>3. QED
    BY <2>1, <2>2
<1>9. CASE SyncRoot
  <2>1. durable' = root /\ root = memory.state /\ root' = root /\ phase = "renamed"
    BY <1>9 DEF SyncRoot, FlushRoot, Complete
  <2>2. CASE Sweeps(Op)
    BY <1>9, <2>1, <2>2 DEF SyncRoot, Faithful, InProgress, Op, history
  <2>3. CASE ~Sweeps(Op)
    BY <1>9, <2>1, <2>3, AcknowledgeFaithful DEF SyncRoot
  <2>4. QED
    BY <2>2, <2>3
<1>10. ASSUME NEW p \in Partitions, Sweep(p) PROVE Faithful'
  BY <1>10 DEF Sweep, Faithful, InProgress, Op, process, history
<1>11. CASE SweepEnds
  BY <1>11, AcknowledgeFaithful DEF SweepEnds, Complete, disk
<1>12. CASE Fault
  <2>1. CASE phase = "sweep"
    BY <1>12, <2>1, AcknowledgeFaithful DEF Fault, Complete, disk
  <2>2. CASE phase # "sweep"
    BY <1>12, <2>2, RejectFaithful DEF Fault, disk
  <2>3. QED
    BY <2>1, <2>2
<1>13. CASE Crash
  <2>1. /\ UNCHANGED <<root, durable, acked>> /\ memory'.state = root /\ phase' = "idle"
        /\ doubt' = IF phase = "idle" THEN doubt ELSE doubt \cup {Op.window}
    BY <1>13 DEF Crash, Loaded, disk
  <2>2. QED
    BY <2>1 DEF Faithful, InProgress
<1>14. CASE UNCHANGED vars
  BY <1>14 DEF Faithful, InProgress, Op, vars, disk, process, history
<1>15. QED
  BY <1>1, <1>2, <1>3, <1>4, <1>5, <1>6, <1>7, <1>8, <1>9, <1>10, <1>11, <1>12, <1>13, <1>14
     DEF Next

LEMMA AlwaysFaithful == Spec => []Faithful
<1>1. Init => Faithful
  BY DEF Init, Faithful, Loaded
<1>2. TypeOK /\ Complete /\ Faithful /\ [Next]_vars => Faithful'
  BY NextFaithful
<1>3. QED
  BY <1>1, <1>2, TypeCorrect, AlwaysComplete, PTL DEF Spec

\* The record of a window that a request left and acknowledged survives a loss of power, unless
\* a later request of the window failed or is being swept up after.
THEOREM AcknowledgedSurvives == Spec => []AcknowledgedIsDurable
<1>1. Faithful => AcknowledgedIsDurable
  BY DEF Faithful, InProgress, AcknowledgedIsDurable
<1>2. QED
  BY <1>1, AlwaysFaithful, PTL

-----------------------------------------------------------------------------
(* What was cleared stays clear *)

\* Nothing is kept of the window w, and no commit of it may bring anything back.
Cleared(m, w) ==
  /\ m.state[w].parts = {} /\ m.state[w].status # "new"
  /\ w \in m.suppressed \/ m.state[w].status = "gone"

Enabling(w) == phase \in {"write", "renamed"} /\ Op.kind = "enable" /\ Op.window = w

\* A commit of a suppressed window never gets as far as to prepare anything; the backup is as
\* clear as the memory was, so that a failure does not bring anything back either.
Clear ==
  /\ \A w \in quiet :
       /\ root[w].parts = {} /\ root[w].status # "new"
       /\ memory.state[w].parts = {} /\ memory.state[w].status # "new"
       /\ w \in memory.suppressed \/ memory.state[w].status = "gone" \/ Enabling(w)
       /\ phase \in {"prepare", "write", "renamed"} => Cleared(backup, w)
  /\ phase = "prepare" /\ Op.kind = "commit" => Op.window \notin memory.suppressed
  /\ phase \in {"write", "renamed", "sweep"} /\ Op.kind \in {"clear", "disable"} =>
       Cleared(memory, Op.window)

LEMMA RejectClear ==
  ASSUME TypeOK, Clear, phase \in {"prepare", "write", "renamed"}, Rejects, UNCHANGED root
  PROVE  Clear'
BY DEF Clear, Cleared, Enabling, Rejects, Settles, Restore

LEMMA AcknowledgeClear ==
  ASSUME TypeOK, Clear, phase \in {"renamed", "sweep"}, Acknowledges,
         root = memory.state, UNCHANGED root
  PROVE  Clear'
BY DEF Clear, Cleared, Enabling, Acknowledges, Settles

LEMMA NextClear == TypeOK /\ Complete /\ Clear /\ [Next]_vars => Clear'
<1> SUFFICES ASSUME TypeOK, Complete, Clear, [Next]_vars PROVE Clear'
  OBVIOUS
<1>1. ASSUME NEW kind \in Kinds, NEW w \in Windows, NEW S \in SUBSET Partitions,
             Ask(kind, w, S)
      PROVE  Clear'
  <2>1. phase # "idle" => Op' = Op
    BY <1>1, AskKeepsOp
  <2>2. QED
    BY <1>1, <2>1 DEF Ask, Clear, Cleared, Enabling, disk, history
<1>2. ASSUME NEW w \in Windows, Reload(w) PROVE Clear'
  BY <1>2 DEF Reload, Clear, Cleared, Enabling, Op, disk, process, history
<1>3. CASE Drain
  BY <1>3 DEF Drain, Clear, Cleared, Enabling, Op, disk, history
<1>4. CASE Release
  BY <1>4 DEF Release, Clear, Cleared, Enabling, Op, disk, history
<1>5. CASE Begin
  <2>1. phase = "idle" /\ UNCHANGED <<root, memory, quiet>>
    BY <1>5 DEF Begin, disk, history
  <2>2. CASE phase' = "idle"
    BY <2>1, <2>2 DEF Clear, Cleared, Enabling
  <2>3. CASE phase' # "idle"
    <3>1. /\ phase' = "prepare" /\ backup' = memory /\ UNCHANGED queue
          /\ ~(Op.kind = "commit" /\ Op.window \in memory.suppressed)
      BY <1>5, <2>3 DEF Begin, Settles
    <3>2. QED
      BY <2>1, <3>1 DEF Clear, Cleared, Enabling, Op
  <2>4. QED
    BY <2>2, <2>3
<1>6. ASSUME NEW p \in Partitions, Publish(p) PROVE Clear'
  <2>1. CASE Allowed
    BY <1>6, <2>1 DEF Publish, Clear, Cleared, Enabling, Op, history
  <2>2. CASE ~Allowed
    BY <1>6, <2>2, RejectClear DEF Publish
  <2>3. QED
    BY <2>1, <2>2
<1>7. CASE Mutate
  <2>1. Op \in Request /\ memory \in Memory /\ quiet \in SUBSET Windows
    BY <1>7, HeadTyped DEF Mutate, TypeOK
  <2>2. CASE Allowed /\ Known(memory.state, Op.kind, Op.window)
    <3>1. /\ memory' = Changes(memory, Op) /\ phase = "prepare" /\ phase' = "write"
          /\ UNCHANGED <<root, queue, backup, quiet>>
      BY <1>7, <2>2 DEF Mutate, history
    <3>2. Op' = Op
      BY <3>1 DEF Op
    <3> DEFINE n == Changes(memory, Op)
    <3>3. /\ \A v \in Windows : v # Op.window =>
               n.state[v] = memory.state[v] /\ (v \in n.suppressed <=> v \in memory.suppressed)
          /\ Op.kind # "commit" =>
               n.state[Op.window].parts \subseteq memory.state[Op.window].parts
          /\ Op.kind \in {"clear", "disable"} =>
               Op.window \in n.suppressed /\ n.state[Op.window].parts = {}
          /\ Op.kind # "enable" =>
               (Op.window \in memory.suppressed => Op.window \in n.suppressed)
          /\ memory.state[Op.window].status # "new" => n.state[Op.window].status # "new"
      BY <2>1, ChangesExact
    <3>4. Op.window \in quiet =>
            /\ Op.kind # "commit" /\ Op.window \in memory.suppressed
            /\ memory.state[Op.window].status = "open"
      <4>1. ASSUME Op.window \in quiet PROVE memory.state[Op.window].status = "open"
        BY <2>2, <4>1 DEF Clear, Known
      <4>2. ASSUME Op.window \in quiet PROVE Op.window \in memory.suppressed
        BY <3>1, <4>1, <4>2 DEF Clear, Enabling
      <4>3. QED
        BY <3>1, <4>1, <4>2 DEF Clear
    <3>5. ASSUME NEW w \in quiet
          PROVE  /\ n.state[w].parts = {} /\ n.state[w].status # "new"
                 /\ \/ w \in n.suppressed \/ n.state[w].status = "gone"
                    \/ (Op.kind = "enable" /\ Op.window = w)
      <4>1. CASE w = Op.window
        BY <3>3, <3>4, <4>1 DEF Clear
      <4>2. CASE w # Op.window
        BY <2>1, <3>1, <3>3, <4>2 DEF Clear, Enabling
      <4>3. QED
        BY <4>1, <4>2
    <3>6. Op.kind \in {"clear", "disable"} => Cleared(n, Op.window)
      BY <2>2, <3>3 DEF Known, Cleared
    <3> HIDE DEF n
    <3>7. memory' = n
      BY <3>1 DEF n
    <3>8. QED
      BY <3>1, <3>2, <3>5, <3>6, <3>7 DEF Clear, Enabling, Cleared
  <2>3. CASE ~(Allowed /\ Known(memory.state, Op.kind, Op.window))
    BY <1>7, <2>3, RejectClear DEF Mutate
  <2>4. QED
    BY <2>2, <2>3
<1>8. CASE Replace
  <2>1. CASE Allowed
    BY <1>8, <2>1 DEF Replace, Clear, Cleared, Enabling, Op, history
  <2>2. CASE ~Allowed
    BY <1>8, <2>2, RejectClear DEF Replace
  <2>3. QED
    BY <2>1, <2>2
<1>9. CASE SyncRoot
  <2>1. root = memory.state /\ phase = "renamed" /\ UNCHANGED root
    BY <1>9 DEF SyncRoot, Complete
  <2>2. CASE Sweeps(Op)
    BY <1>9, <2>1, <2>2 DEF SyncRoot, Sweeps, Clear, Cleared, Enabling, Op, history
  <2>3. CASE ~Sweeps(Op)
    BY <1>9, <2>1, <2>3, AcknowledgeClear DEF SyncRoot
  <2>4. QED
    BY <2>2, <2>3
<1>10. ASSUME NEW p \in Partitions, Sweep(p) PROVE Clear'
  BY <1>10 DEF Sweep, Clear, Cleared, Enabling, Op, process, history
<1>11. CASE SweepEnds
  BY <1>11, AcknowledgeClear DEF SweepEnds, Complete, disk
<1>12. CASE Fault
  <2>1. CASE phase = "sweep"
    BY <1>12, <2>1, AcknowledgeClear DEF Fault, Complete, disk
  <2>2. CASE phase # "sweep"
    BY <1>12, <2>2, RejectClear DEF Fault, disk
  <2>3. QED
    BY <2>1, <2>2
<1>13. CASE Crash
  <2>1. /\ root' = root /\ memory' = Loaded(root) /\ phase' = "idle"
        /\ quiet' = {w \in quiet : ~root[w].on}
    BY <1>13 DEF Crash, disk
  <2>2. ASSUME NEW w \in quiet'
        PROVE  /\ root[w].parts = {} /\ root[w].status # "new" /\ ~root[w].on
               /\ w \in Windows
    BY <2>1 DEF Clear, TypeOK
  <2>3. ASSUME NEW w \in quiet'
        PROVE  w \in memory'.suppressed \/ memory'.state[w].status = "gone"
    BY <2>1, <2>2 DEF Loaded, TypeOK, States, Record
  <2>4. memory'.state = root
    BY <2>1 DEF Loaded
  <2>5. QED
    BY <2>1, <2>2, <2>3, <2>4 DEF Clear, Cleared, Enabling
<1>14. CASE UNCHANGED vars
  BY <1>14 DEF Clear, Cleared, Enabling, Op, vars, disk, process, history
<1>15. QED
  BY <1>1, <1>2, <1>3, <1>4, <1>5, <1>6, <1>7, <1>8, <1>9, <1>10, <1>11, <1>12, <1>13, <1>14
     DEF Next

\* What was cleared or disabled stays empty in the file, whatever commits of the window are
\* queued behind, whatever fails and whenever the process ends.
THEOREM ClearedStays == Spec => []ClearedStaysClear
<1>1. Init => Clear
  BY DEF Init, Clear
<1>2. TypeOK /\ Complete /\ Clear /\ [Next]_vars => Clear'
  BY NextClear
<1>3. Clear => ClearedStaysClear
  BY DEF Clear, ClearedStaysClear
<1>4. QED
  BY <1>1, <1>2, <1>3, TypeCorrect, AlwaysComplete, PTL DEF Spec

-----------------------------------------------------------------------------
(* Nothing is written after the release *)

\* A release waits for all that is queued, and nothing joins the queue meanwhile.
Draining ==
  /\ life = "frozen" => ahead = Len(queue)
  /\ life = "released" => queue = <<>>

LEMMA SettleDraining ==
  ASSUME TypeOK, Draining, queue # <<>>, NEW ok \in BOOLEAN, Settles(ok), UNCHANGED life
  PROVE  Draining'
<1>1. Len(queue) \in Nat \ {0} /\ Len(Tail(queue)) = Len(queue) - 1
  BY HeadTyped
<1>2. Len(queue') = Len(queue) - 1
  BY <1>1 DEF Settles
<1>3. life # "released"
  BY DEF Draining
<1>4. life = "frozen" => ahead' = Len(queue) - 1
  <2>1. ahead' = IF ahead > 0 THEN ahead - 1 ELSE 0
    BY DEF Settles
  <2>2. life = "frozen" => ahead = Len(queue)
    BY DEF Draining
  <2>3. QED
    BY <1>1, <2>1, <2>2
<1>5. QED
  BY <1>2, <1>3, <1>4 DEF Draining

LEMMA NextDraining == TypeOK /\ Draining /\ [Next]_vars => Draining'
<1> SUFFICES ASSUME TypeOK, Draining, [Next]_vars PROVE Draining'
  OBVIOUS
<1>1. ASSUME queue # <<>>, UNCHANGED life,
             Settles(FALSE) \/ Settles(TRUE) \/ UNCHANGED <<queue, ahead>>
      PROVE  Draining'
  BY <1>1, SettleDraining DEF Draining
<1>2. ASSUME NEW kind \in Kinds, NEW w \in Windows, NEW S \in SUBSET Partitions,
             Ask(kind, w, S)
      PROVE  Draining'
  BY <1>2 DEF Ask, Admits, Draining
<1>3. ASSUME NEW w \in Windows, Reload(w) PROVE Draining'
  BY <1>3 DEF Reload, Draining, process
<1>4. CASE Drain
  BY <1>4 DEF Drain, Draining
<1>5. CASE Release
  <2>1. queue \in Seq(Request) /\ Len(queue) = 0
    BY <1>5 DEF Release, Draining, TypeOK
  <2>2. queue = <<>>
    BY <2>1, EmptySeq
  <2>3. QED
    BY <1>5, <2>2 DEF Release, Draining
<1>6. CASE Begin
  BY <1>1, <1>6 DEF Begin
<1>7. ASSUME NEW p \in Partitions, Publish(p) PROVE Draining'
  BY <1>1, <1>7 DEF Publish, Rejects, TypeOK
<1>8. CASE Mutate
  BY <1>1, <1>8 DEF Mutate, Rejects, TypeOK
<1>9. CASE Replace
  BY <1>1, <1>9 DEF Replace, Rejects, TypeOK
<1>10. CASE SyncRoot
  BY <1>1, <1>10 DEF SyncRoot, Acknowledges, TypeOK
<1>11. ASSUME NEW p \in Partitions, Sweep(p) PROVE Draining'
  BY <1>11 DEF Sweep, Draining, process
<1>12. CASE SweepEnds
  BY <1>1, <1>12 DEF SweepEnds, Acknowledges, TypeOK
<1>13. CASE Fault
  BY <1>1, <1>13 DEF Fault, Acknowledges, Rejects, TypeOK
<1>14. CASE Crash
  BY <1>14 DEF Crash, Draining
<1>15. CASE UNCHANGED vars
  BY <1>15 DEF Draining, vars, process
<1>16. QED
  BY <1>2, <1>3, <1>4, <1>5, <1>6, <1>7, <1>8, <1>9, <1>10, <1>11, <1>12, <1>13, <1>14, <1>15
     DEF Next

\* Once the lock is released nothing is written or swept by this process: what was asked for
\* before the release has ended, and nothing was admitted since.
THEOREM NothingAfterRelease == Spec => ReleasedIsQuiet
<1>1. Init => Draining
  BY DEF Init, Draining
<1>2. TypeOK /\ Draining /\ [Next]_vars => Draining'
  BY NextDraining
<1>3. TypeOK /\ Draining /\ [Next]_vars => [life = "released" => UNCHANGED disk]_vars
  <2> SUFFICES ASSUME TypeOK, Draining, [Next]_vars, life = "released" PROVE UNCHANGED disk
    OBVIOUS
  <2>1. queue = <<>> /\ phase = "idle"
    BY DEF Draining, TypeOK
  <2>2. QED
    BY <2>1 DEF Next, Ask, Reload, Drain, Release, Begin, Publish, Mutate, Replace, SyncRoot,
                Sweep, SweepEnds, Fault, Crash, vars
<1>4. QED
  BY <1>1, <1>2, <1>3, TypeCorrect, PTL DEF Spec, ReleasedIsQuiet
=============================================================================
