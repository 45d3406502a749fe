------------------------ MODULE YoloAutoAcceptProofs ------------------------
(***************************************************************************)
(* Theorems about YoloAutoAccept, for any number of workspaces, sessions    *)
(* and permission requests: nothing revives a stopped workspace, no request *)
(* of an enabled family is left untried, no answered request stays pending, *)
(* and no reply whose answer was lost is sent again.                        *)
(*                                                                         *)
(* The handlers are operators on the manager's memory, so the invariant is  *)
(* made of predicates on a memory, with one lemma for each operator; the    *)
(* replay of a queue is an induction over its events.                       *)
(*                                                                         *)
(* The second half is about a workspace that is alone.  Its store differs   *)
(* from its memory by what its chain of mutations is about to write, so     *)
(* that at rest they agree, and a toggle that ends has taken effect in      *)
(* both.  Workspaces over the same sessions share the stored flags, and of  *)
(* two of them neither is true: one may write what the other never reads.   *)
(***************************************************************************)
EXTENDS YoloAutoAccept, FiniteSetTheorems, WellFoundedInduction, TLAPS

-----------------------------------------------------------------------------
(* The invariant *)

Replied(p)    == [type |-> "replied", id |-> p]
SessionEnd(p) == [type |-> "deleted", id |-> SessionOf[p]]

\* One of the events H says that p is answered or its session gone.
Over(H, p) == Replied(p) \in H \/ SessionEnd(p) \in H

OverAt(hd, J, p) == \E j \in J : Over(hd[j], p)

\* The events that wait in a queue.
InQueue(q) == {q[n] : n \in 1..Len(q)}

\* i may leave p untried: another workspace heard it is over, or i itself before p.
Excused(hd, i, p) == OverAt(hd, Instances \ {i}, p) \/ p \in overtaken[i]

\* A workspace that is not hydrated has nothing; before the hydration no toggle
\* was accepted either.
ClearOK(mem, ph) ==
  \A i \in Instances : ph[i] \notin {"filled", "hydrated"} =>
    /\ mem.tree[i] = [s \in Sessions |-> "unknown"]
    /\ mem.enabled[i] = {} /\ mem.pending[i] = {}
    /\ ph[i] # "stopped" => mem.chain[i] = <<>>

\* The enabled sessions are roots of their families.
RootsOK(mem) ==
  \A i \in Instances : \A r \in mem.enabled[i] : ~Climbs(mem.tree[i], r)

Writing(op) == op.session # NoSession /\ op.stage \in {"write", "retire"}

\* Only the first of a chain has begun, and a toggle that writes remembers the
\* roots it wrote.
SeenOK(mem) ==
  \A i \in Instances :
    /\ \A n \in 2..Len(mem.chain[i]) : mem.chain[i][n].stage = "load"
    /\ mem.chain[i] # <<>> /\ Writing(mem.chain[i][1]) =>
         /\ mem.chain[i][1].last \in mem.chain[i][1].seen
         /\ mem.chain[i][1].target \in mem.chain[i][1].seen

\* What a toggle is about to disable may be left untried.
ToBeDisabled(mem, i, p) ==
  /\ mem.chain[i] # <<>> /\ Writing(mem.chain[i][1]) /\ ~mem.chain[i][1].enable
  /\ FamilyRoot(mem, i, SessionOf[p]) \in mem.chain[i][1].seen

Untried(mem, i, p) ==
  /\ Knows(mem, i, SessionOf[p]) /\ IsEnabled(mem, i, SessionOf[p])
  /\ mem.inFlight[p] = 0 /\ mem.attempts[p] = 0

TriedOK(mem, hd) ==
  \A i \in Instances : \A p \in mem.pending[i] :
    Untried(mem, i, p) =>
      Excused(hd, i, p) \/ ToBeDisabled(mem, i, p)

\* A request that is being answered was counted, unless it is over.
FlightOK(mem, hd) ==
  \A p \in Permissions :
    mem.inFlight[p] # 0 /\ mem.attempts[p] = 0 => OverAt(hd, Instances, p)

\* Of the events H that i handled, none says that a pending request is over, unless
\* it overtook the request.
PendingOK(mem, i, H) == \A p \in mem.pending[i] : Over(H, p) => p \in overtaken[i]

\* A reply that was lost is not tried again while the request can be answered.
LostOK(mem) ==
  \A p \in lost :
    \/ p \in settled \/ sessions[SessionOf[p]] = "deleted"
    \/ mem.attempts[p] = MaxAttempts /\ mem.inFlight[p] = 0

HeardOK == \A i \in Instances : \A e \in heard[i] : Happened(e)

\* e comes after the events H, or it is one of the requests O that were overtaken.
InTurn(e, H, O) == \A f \in H : Precedes(e, f) /\ e.type = "asked" => e.id \in O

\* The queue q of a workspace that heard H, in phase ph.  Before the hydration it
\* holds what was heard, in an order the lanes allow; between the two steps of the
\* hydration what was handled has overtaken it.
QueueFits(ph, q, H, O) ==
  IF ph \in {"hydrated", "stopped"} THEN q = <<>>
  ELSE /\ InQueue(q) \subseteq H
       /\ ph # "filled" => H \subseteq InQueue(q)
       /\ \A n \in 1..Len(q) :
            /\ InTurn(q[n], H \ InQueue(q), O)
            /\ \A k \in 1..(n - 1) : ~Precedes(q[n], q[k])

QueueOK ==
  \A i \in Instances : QueueFits(phase[i], queued[i], heard[i], overtaken[i])

SentOK == \A p \in sent : m.inFlight[p] # 0

ManagerInv ==
  /\ ClearOK(m, phase) /\ RootsOK(m) /\ SeenOK(m)
  /\ writeFailures = 0 => TriedOK(m, heard)
  /\ FlightOK(m, heard)
  /\ \A i \in Instances : PendingOK(m, i, heard[i])
  /\ LostOK(m) /\ HeardOK /\ QueueOK /\ SentOK

-----------------------------------------------------------------------------
(* Induction *)

\* Every nonempty set of natural numbers has a least element.
LEMMA LeastNat ==
  ASSUME NEW S \in SUBSET Nat, S # {}
  PROVE  \E n \in S : \A k \in S : n <= k
<1> DEFINE R == OpToRel(<, Nat)
<1>1. IsWellFoundedOn(R, Nat)
  BY NatLessThanWellFounded, Zenon
<1>2. \A k, n \in Nat : <<k, n>> \in R <=> k < n
  BY DEF OpToRel
<1> HIDE DEF R
<1>3. PICK n \in S : \A k \in S : <<k, n>> \notin R
  BY <1>1, WFMin
<1>4. \A k \in S : k \in Nat /\ n \in Nat /\ ~(k < n)
  BY <1>2, <1>3
<1>5. \A k \in S : n <= k
  BY <1>4
<1>. QED  BY <1>5

\* A set of natural numbers with 0 and all its successors has them all.
LEMMA AllNaturals ==
  ASSUME NEW S \in SUBSET Nat, 0 \in S, \A n \in S : n + 1 \in S
  PROVE  S = Nat
<1>. SUFFICES ASSUME S # Nat PROVE FALSE
  OBVIOUS
<1>1. PICK n \in Nat \ S : \A k \in Nat \ S : n <= k
  BY LeastNat, Nat \ S # {}
<1>2. n # 0 /\ n - 1 \in Nat
  BY <1>1
<1>3. n - 1 \in S
  BY <1>1, <1>2
<1>. QED  BY <1>1, <1>2, <1>3

\* Generations: a parent has a smaller number than its children.
LEMMA DepthExists ==
  \E bound \in Nat, depth \in [Sessions -> Nat] :
    \A s \in Sessions :
      depth[s] < bound /\ (Parent[s] \in Sessions => depth[Parent[s]] < depth[s])
<1>1. Cardinality(Sessions) \in Nat
  BY AncestryAssumption, FS_CardinalityType
<1>2. PICK depth \in [Sessions -> 1..Cardinality(Sessions)] :
        \A s \in Sessions : Parent[s] # NoSession => depth[Parent[s]] < depth[s]
  BY AncestryAssumption
<1>3. depth \in [Sessions -> Nat] /\ Cardinality(Sessions) + 1 \in Nat
  BY <1>1, <1>2
<1>4. \A s \in Sessions : depth[s] < Cardinality(Sessions) + 1
  BY <1>1, <1>2
<1>. QED  BY <1>2, <1>3, <1>4, TreeAssumption

\* Induction over the tree: a set that has a session whenever it has its parent
\* has all of them.
LEMMA TreeInduction ==
  ASSUME NEW S \in SUBSET Sessions,
         \A x \in Sessions : (Parent[x] \in Sessions => Parent[x] \in S) => x \in S
  PROVE  S = Sessions
<1>. SUFFICES ASSUME S # Sessions PROVE FALSE
  OBVIOUS
<1>1. PICK bound \in Nat, depth \in [Sessions -> Nat] :
        \A s \in Sessions :
          depth[s] < bound /\ (Parent[s] \in Sessions => depth[Parent[s]] < depth[s])
  BY DepthExists
<1> DEFINE D == {depth[x] : x \in Sessions \ S}
<1>2. D \in SUBSET Nat /\ D # {}
  OBVIOUS
<1>3. PICK n \in D : \A k \in D : n <= k
  BY <1>2, LeastNat
<1>4. PICK x \in Sessions \ S : n = depth[x]
  BY <1>3
<1>5. Parent[x] \in Sessions /\ Parent[x] \notin S
  BY <1>4
<1>6. depth[Parent[x]] \in D
  BY <1>5
<1>7. depth[Parent[x]] < depth[x] /\ depth[x] <= depth[Parent[x]]
  BY <1>1, <1>3, <1>4, <1>5, <1>6
<1>8. depth[Parent[x]] \in Nat /\ depth[x] \in Nat
  BY <1>4, <1>5
<1>. QED  BY <1>7, <1>8

-----------------------------------------------------------------------------
(* The roots of families *)

\* root is a function that climbs.
ClimbsBy(tree, root) ==
  root = [x \in Sessions |-> IF Climbs(tree, x) THEN root[Parent[x]] ELSE x]

\* The recursive definition of RootIn has a solution.
LEMMA RootsExist ==
  ASSUME NEW tree
  PROVE  \E root : ClimbsBy(tree, root)
<1>1. PICK bound \in Nat, depth \in [Sessions -> Nat] :
        \A s \in Sessions :
          depth[s] < bound /\ (Parent[s] \in Sessions => depth[Parent[s]] < depth[s])
  BY DepthExists
<1> DEFINE Solves(f, k) ==
             \A x \in Sessions : depth[x] < k =>
               f[x] = IF Climbs(tree, x) THEN f[Parent[x]] ELSE x
           Step(f) == [x \in Sessions |-> IF Climbs(tree, x) THEN f[Parent[x]] ELSE x]
           K == {k \in Nat : \E f : Solves(f, k)}
<1>2. 0 \in K
  <2>1. Solves(depth, 0)
    BY <1>1
  <2>. QED  BY <2>1
<1>3. ASSUME NEW k \in K PROVE k + 1 \in K
  <2>1. PICK f : Solves(f, k)
    BY <1>3
  <2>2. \A x \in Sessions : Climbs(tree, x) => Parent[x] \in Sessions
    BY DEF Climbs
  <2>3. ASSUME NEW x \in Sessions, depth[x] < k + 1, Climbs(tree, x)
        PROVE  Step(f)[x] = Step(f)[Parent[x]]
    <3>1. Parent[x] \in Sessions /\ depth[Parent[x]] < depth[x]
      BY <1>1, <2>2, <2>3
    <3>2. depth[Parent[x]] \in Nat /\ depth[x] \in Nat
      BY <1>1, <3>1
    <3>3. depth[Parent[x]] < k
      BY <2>3, <3>1, <3>2
    <3>4. f[Parent[x]] = Step(f)[Parent[x]]
      BY <2>1, <3>1, <3>3
    <3>. QED  BY <2>3, <3>4
  <2>4. ASSUME NEW x \in Sessions, ~Climbs(tree, x)
        PROVE  Step(f)[x] = x
    BY <2>4
  <2>5. Solves(Step(f), k + 1)
    BY <2>3, <2>4
  <2> HIDE DEF Solves, Step
  <2>6. k + 1 \in Nat /\ \E g : Solves(g, k + 1)
    BY <2>5, <1>3
  <2>. QED  BY <2>6
<1>4. K = Nat
  <2> HIDE DEF Solves
  <2>. QED  BY <1>2, <1>3, AllNaturals
<1>5. PICK f : Solves(f, bound)
  BY <1>4
<1>6. \A x \in Sessions : Step(f)[x] = f[x]
  BY <1>1, <1>5
<1>7. \A x \in Sessions : Climbs(tree, x) => Step(f)[x] = Step(f)[Parent[x]]
  BY <1>6 DEF Climbs
<1>8. ClimbsBy(tree, Step(f))
  BY <1>7 DEF ClimbsBy
<1>. QED  BY <1>8

\* What RootIn computes: the root of a session that climbs is that of its parent.
LEMMA RootUnfolds ==
  ASSUME NEW tree, NEW x \in Sessions
  PROVE  RootIn(tree, x) = IF Climbs(tree, x) THEN RootIn(tree, Parent[x]) ELSE x
<1> DEFINE F == CHOOSE root : ClimbsBy(tree, root)
<1>1. ClimbsBy(tree, F)
  BY RootsExist, Zenon
<1>2. \A y : RootIn(tree, y) = F[y]
  BY DEF RootIn, ClimbsBy
<1> HIDE DEF F
<1>3. Climbs(tree, x) => Parent[x] \in Sessions
  BY DEF Climbs
<1>. QED  BY <1>1, <1>2, <1>3 DEF ClimbsBy

\* A root is a session that does not climb.
LEMMA RootIsARoot ==
  ASSUME NEW tree
  PROVE  \A x \in Sessions :
           RootIn(tree, x) \in Sessions /\ ~Climbs(tree, RootIn(tree, x))
<1> DEFINE S == {x \in Sessions :
                   RootIn(tree, x) \in Sessions /\ ~Climbs(tree, RootIn(tree, x))}
<1>1. ASSUME NEW x \in Sessions, Parent[x] \in Sessions => Parent[x] \in S
      PROVE  x \in S
  <2>1. CASE Climbs(tree, x)
    <3>1. RootIn(tree, x) = RootIn(tree, Parent[x]) /\ Parent[x] \in Sessions
      BY <2>1, RootUnfolds DEF Climbs
    <3>. QED  BY <1>1, <3>1
  <2>2. CASE ~Climbs(tree, x)
    <3>1. RootIn(tree, x) = x
      BY <2>2, RootUnfolds
    <3>. QED  BY <2>2, <3>1
  <2>. QED  BY <2>1, <2>2
<1>2. S = Sessions
  BY <1>1, TreeInduction
<1>. QED  BY <1>2

\* A root is its own root.
LEMMA RootOfRoot ==
  ASSUME NEW tree, NEW x \in Sessions
  PROVE  /\ ~Climbs(tree, x) => RootIn(tree, x) = x
         /\ RootIn(tree, RootIn(tree, x)) = RootIn(tree, x)
BY RootIsARoot, RootUnfolds

\* A session that is added changes the roots of its own family only.
LEMMA RootsApart ==
  ASSUME NEW tree \in [Sessions -> {"unknown", "plain", "fork"}],
         NEW s \in Sessions, NEW kind \in {"plain", "fork"}
  PROVE  LET grown == [tree EXCEPT ![s] = kind]
         IN  \A x \in Sessions :
               RootIn(grown, x) # RootIn(grown, s) =>
                 /\ x # s
                 /\ RootIn(grown, x) = RootIn(tree, x)
<1> DEFINE grown == [tree EXCEPT ![s] = kind]
           S == {x \in Sessions : RootIn(grown, x) # RootIn(grown, s) =>
                                    RootIn(grown, x) = RootIn(tree, x)}
<1>1. ASSUME NEW x \in Sessions, Parent[x] \in Sessions => Parent[x] \in S
      PROVE  x \in S
  <2> SUFFICES ASSUME RootIn(grown, x) # RootIn(grown, s)
               PROVE  RootIn(grown, x) = RootIn(tree, x)
    OBVIOUS
  <2>0. x # s
    OBVIOUS
  <2>1. CASE Climbs(grown, x)
    <3>1. Parent[x] \in Sessions /\ RootIn(grown, x) = RootIn(grown, Parent[x])
      BY <2>1, RootUnfolds DEF Climbs
    <3>2. Parent[x] # s
      BY <3>1
    <3>3. Climbs(tree, x)
      BY <2>0, <2>1, <3>1, <3>2 DEF Climbs
    <3>4. RootIn(tree, x) = RootIn(tree, Parent[x])
      BY <3>3, RootUnfolds
    <3>5. RootIn(grown, Parent[x]) = RootIn(tree, Parent[x])
      BY <1>1, <3>1
    <3>. QED  BY <3>1, <3>4, <3>5
  <2>2. CASE ~Climbs(grown, x)
    <3>1. ~Climbs(tree, x)
      BY <2>0, <2>2 DEF Climbs
    <3>. QED  BY <2>2, <3>1, RootUnfolds
  <2>. QED  BY <2>1, <2>2
<1>2. S = Sessions
  BY <1>1, TreeInduction
<1>. QED  BY <1>2

\* When a session is removed, a root that a session still climbs to is its own.
LEMMA RootsShrink ==
  ASSUME NEW tree \in [Sessions -> {"unknown", "plain", "fork"}],
         NEW s \in Sessions
  PROVE  LET cut == [tree EXCEPT ![s] = "unknown"]
         IN  \A x \in Sessions : RootIn(tree, RootIn(cut, x)) = RootIn(tree, x)
<1> DEFINE cut == [tree EXCEPT ![s] = "unknown"]
           S == {x \in Sessions : RootIn(tree, RootIn(cut, x)) = RootIn(tree, x)}
<1>1. ASSUME NEW x \in Sessions, Parent[x] \in Sessions => Parent[x] \in S
      PROVE  x \in S
  <2>1. CASE Climbs(cut, x)
    <3>1. Parent[x] \in Sessions /\ Climbs(tree, x)
      BY <2>1 DEF Climbs
    <3>2. /\ RootIn(cut, x) = RootIn(cut, Parent[x])
          /\ RootIn(tree, x) = RootIn(tree, Parent[x])
      BY <2>1, <3>1, RootUnfolds
    <3>. QED  BY <1>1, <3>1, <3>2
  <2>2. CASE ~Climbs(cut, x)
    BY <2>2, RootUnfolds
  <2>. QED  BY <2>1, <2>2
<1>2. S = Sessions
  BY <1>1, TreeInduction
<1>. QED  BY <1>2

-----------------------------------------------------------------------------
(* The operators on the manager's memory *)

\* What is equal in two memories that differ in the trees and enabled roots only.
SameButFamilies(mem, new) ==
  /\ new.pending = mem.pending /\ new.loading = mem.loading
  /\ new.attempts = mem.attempts /\ new.inFlight = mem.inFlight

\* In new, s has joined the tree of i.
Joined(mem, new, i, s, kind) ==
  LET tree == [mem.tree[i] EXCEPT ![s] = kind]
  IN  /\ new \in Memory /\ SameButFamilies(mem, new) /\ new.chain = mem.chain
      /\ new.tree = [mem.tree EXCEPT ![i] = tree]
      /\ new.enabled = [mem.enabled EXCEPT ![i] = Migrated(tree, mem.enabled[i])]

LEMMA UpsertFields ==
  ASSUME NEW mem \in Memory, NEW i \in Instances, NEW s \in Sessions,
         NEW kind \in {"plain", "fork"}
  PROVE  Joined(mem, Upsert(mem, i, s, kind), i, s, kind)
<1> DEFINE tree == [mem.tree[i] EXCEPT ![s] = kind]
           roots == Migrated(tree, mem.enabled[i])
           new == [mem EXCEPT !.tree = [mem.tree EXCEPT ![i] = tree],
                              !.enabled = [mem.enabled EXCEPT ![i] = roots]]
<1>1. tree \in [Sessions -> {"unknown", "plain", "fork"}]
  BY DEF Memory
<1>2. roots \in SUBSET Sessions
  BY RootIsARoot DEF Memory, Migrated
<1>3. Upsert(mem, i, s, kind) = new
  BY DEF Upsert, Memory
<1> HIDE DEF tree, roots
<1>4. /\ new \in Memory /\ SameButFamilies(mem, new) /\ new.chain = mem.chain
      /\ new.tree = [mem.tree EXCEPT ![i] = tree]
      /\ new.enabled = [mem.enabled EXCEPT ![i] = roots]
  BY <1>1, <1>2 DEF Memory, SameButFamilies
<1>. QED  BY <1>3, <1>4 DEF tree, roots, Joined

\* What new keeps of mem when requests P were taken up.
TookUp(mem, new, P) ==
  /\ new \in Memory
  /\ new.tree = mem.tree /\ new.enabled = mem.enabled
  /\ new.pending = mem.pending /\ new.loading = mem.loading
  /\ new.chain = mem.chain
  /\ \A p \in Permissions :
       IF p \in P /\ mem.inFlight[p] = 0 /\ mem.attempts[p] < MaxAttempts
       THEN /\ new.inFlight[p] = mem.attempts[p] + 1
            /\ new.attempts[p] = mem.attempts[p] + 1
       ELSE /\ new.inFlight[p] = mem.inFlight[p]
            /\ new.attempts[p] = mem.attempts[p]

LEMMA TryTakesUp ==
  ASSUME NEW mem \in Memory, NEW P \in SUBSET Permissions
  PROVE  TookUp(mem, TryAutoAccept(mem, P), P)
<1> DEFINE tried == {p \in P : mem.inFlight[p] = 0 /\ mem.attempts[p] < MaxAttempts}
           flight == [p \in Permissions |->
                        IF p \in tried THEN mem.attempts[p] + 1 ELSE mem.inFlight[p]]
           count == [p \in Permissions |->
                        IF p \in tried THEN mem.attempts[p] + 1 ELSE mem.attempts[p]]
           new == [mem EXCEPT !.inFlight = flight, !.attempts = count]
<1>1. TryAutoAccept(mem, P) = new
  BY DEF TryAutoAccept, Memory
<1>2. flight \in [Permissions -> 0..MaxAttempts] /\ count \in [Permissions -> 0..MaxAttempts]
  BY LimitAssumption DEF Memory
<1>3. \A p \in Permissions :
         IF p \in P /\ mem.inFlight[p] = 0 /\ mem.attempts[p] < MaxAttempts
         THEN flight[p] = mem.attempts[p] + 1 /\ count[p] = mem.attempts[p] + 1
         ELSE flight[p] = mem.inFlight[p] /\ count[p] = mem.attempts[p]
  OBVIOUS
<1> HIDE DEF flight, count
<1>4. /\ new \in Memory /\ new.inFlight = flight /\ new.attempts = count
      /\ new.tree = mem.tree /\ new.enabled = mem.enabled
      /\ new.pending = mem.pending /\ new.loading = mem.loading
      /\ new.chain = mem.chain
  BY <1>2 DEF Memory
<1>. QED  BY <1>1, <1>3, <1>4 DEF TookUp

\* In new, P is no longer pending at I.
Removed(mem, new, I, P) ==
  /\ new \in Memory
  /\ new.tree = mem.tree /\ new.enabled = mem.enabled
  /\ new.loading = mem.loading /\ new.chain = mem.chain
  /\ new.inFlight = mem.inFlight
  /\ \A i \in I : new.pending[i] = mem.pending[i] \ P
  /\ \A i \in Instances \ I : new.pending[i] = mem.pending[i]
  /\ \A p \in Permissions :
       \/ new.attempts[p] = mem.attempts[p]
       \/ p \in P /\ new.attempts[p] = 0

LEMMA RemoveFields ==
  ASSUME NEW mem \in Memory, NEW I \in SUBSET Instances, NEW P \in SUBSET Permissions
  PROVE  Removed(mem, RemovePending(mem, I, P), I, P)
<1> DEFINE left == [i \in Instances |-> IF i \in I THEN mem.pending[i] \ P
                                                  ELSE mem.pending[i]]
           count == [p \in Permissions |->
                       IF p \in P /\ \E i \in I : p \in mem.pending[i] THEN 0
                       ELSE mem.attempts[p]]
           new == [mem EXCEPT !.pending = left, !.attempts = count]
<1>1. RemovePending(mem, I, P) = new
  BY DEF RemovePending, Memory
<1>2. left \in [Instances -> SUBSET Permissions] /\ count \in [Permissions -> 0..MaxAttempts]
  BY LimitAssumption DEF Memory
<1>3. /\ \A i \in I : left[i] = mem.pending[i] \ P
      /\ \A i \in Instances \ I : left[i] = mem.pending[i]
      /\ \A p \in Permissions : \/ count[p] = mem.attempts[p]
                                \/ p \in P /\ count[p] = 0
  OBVIOUS
<1> HIDE DEF left, count
<1>4. /\ new \in Memory /\ new.pending = left /\ new.attempts = count
      /\ new.tree = mem.tree /\ new.enabled = mem.enabled
      /\ new.inFlight = mem.inFlight /\ new.loading = mem.loading
      /\ new.chain = mem.chain
  BY <1>2 DEF Memory
<1>. QED  BY <1>1, <1>3, <1>4 DEF Removed

\* An operation appended to a chain does not change which one runs.
LEMMA AppendedLast ==
  ASSUME NEW q \in Seq(Mutations), NEW op \in Mutations
  PROVE  /\ Append(q, op) \in Seq(Mutations) /\ Append(q, op) # <<>>
         /\ q # <<>> => Append(q, op)[1] = q[1]
         /\ q = <<>> => Append(q, op)[1] = op
OBVIOUS

\* The kind of a session is known once it is.
LEMMA KindType == \A s \in Sessions : KindOf(s) \in {"plain", "fork"}
BY DEF KindOf

-----------------------------------------------------------------------------
(* Who may be left untried *)

\* As TriedOK, but for the family of s in i.
TriedBut(mem, hd, i, s) ==
  \A j \in Instances : \A p \in mem.pending[j] :
    Untried(mem, j, p) =>
      \/ Excused(hd, j, p) \/ ToBeDisabled(mem, j, p)
      \/ j = i /\ FamilyRoot(mem, i, SessionOf[p]) = FamilyRoot(mem, i, s)

\* A session joins: only its own family can become enabled, and roots stay roots.
LEMMA UpsertTried ==
  ASSUME NEW mem \in Memory, NEW i \in Instances, NEW s \in Sessions, NEW hd,
         NEW kind \in {"plain", "fork"}, RootsOK(mem)
  PROVE  LET new == Upsert(mem, i, s, kind)
         IN  /\ RootsOK(new)
             /\ SeenOK(mem) => SeenOK(new)
             /\ TriedOK(mem, hd) => TriedBut(new, hd, i, s)
<1> DEFINE new == Upsert(mem, i, s, kind)
           tree == [mem.tree[i] EXCEPT ![s] = kind]
<1>1. /\ new \in Memory /\ SameButFamilies(mem, new) /\ new.chain = mem.chain
      /\ new.tree = [mem.tree EXCEPT ![i] = tree]
      /\ new.enabled = [mem.enabled EXCEPT ![i] = Migrated(tree, mem.enabled[i])]
  <2>1. Joined(mem, new, i, s, kind)
    BY UpsertFields, Zenon
  <2> HIDE DEF new
  <2>. QED  BY <2>1, Zenon DEF Joined
<1>2. /\ mem.tree[i] \in [Sessions -> {"unknown", "plain", "fork"}]
      /\ mem.enabled[i] \in SUBSET Sessions
      /\ mem.tree \in [Instances -> [Sessions -> {"unknown", "plain", "fork"}]]
      /\ mem.enabled \in [Instances -> SUBSET Sessions]
  BY DEF Memory
<1> HIDE DEF new
<1>3. new.tree[i] = tree /\ new.enabled[i] = Migrated(tree, mem.enabled[i])
  BY <1>1, <1>2
<1>4. \A j \in Instances \ {i} :
         new.tree[j] = mem.tree[j] /\ new.enabled[j] = mem.enabled[j]
  BY <1>1, <1>2
<1>5. \A x \in Sessions : RootIn(tree, x) # RootIn(tree, s) =>
                            x # s /\ RootIn(tree, x) = RootIn(mem.tree[i], x)
  BY <1>2, RootsApart
<1>6. \A x \in Sessions : x # s => tree[x] = mem.tree[i][x]
  BY <1>2
<1> HIDE DEF tree
<1>7. RootsOK(new)
  <2>1. \A r \in Migrated(tree, mem.enabled[i]) : ~Climbs(tree, r)
    BY <1>2, RootIsARoot DEF Migrated
  <2>. QED  BY <1>3, <1>4, <2>1 DEF RootsOK
<1>8. SeenOK(mem) => SeenOK(new)
  BY <1>1 DEF SeenOK
<1>9. ASSUME TriedOK(mem, hd), NEW p \in mem.pending[i], Untried(new, i, p),
             FamilyRoot(new, i, SessionOf[p]) # FamilyRoot(new, i, s)
      PROVE  Excused(hd, i, p) \/ ToBeDisabled(new, i, p)
  <2> DEFINE x == SessionOf[p]
  <2>1. p \in Permissions /\ x \in Sessions
    BY PermissionAssumption DEF Memory
  <2>2. x # s /\ RootIn(tree, x) = RootIn(mem.tree[i], x)
    BY <1>3, <1>5, <1>9, <2>1 DEF FamilyRoot
  <2>3. RootIn(tree, x) \in Migrated(tree, mem.enabled[i]) /\ tree[x] # "unknown"
    BY <1>3, <1>9 DEF Untried, IsEnabled, FamilyRoot, Knows
  <2>4. PICK r \in mem.enabled[i] : RootIn(tree, x) = RootIn(tree, r)
    BY <2>3 DEF Migrated
  <2>5. r \in Sessions /\ RootIn(tree, r) # RootIn(tree, s)
    BY <1>2, <1>3, <1>9, <2>4 DEF FamilyRoot
  <2>6. RootIn(tree, r) = RootIn(mem.tree[i], r) /\ RootIn(mem.tree[i], r) = r
    BY <1>5, <2>5, RootOfRoot DEF RootsOK
  <2>7. RootIn(mem.tree[i], x) \in mem.enabled[i] /\ mem.tree[i][x] # "unknown"
    BY <1>6, <2>1, <2>2, <2>3, <2>4, <2>6
  <2>8. Untried(mem, i, p)
    BY <1>1, <1>9, <2>7 DEF Untried, IsEnabled, Knows, FamilyRoot, SameButFamilies
  <2>9. Excused(hd, i, p) \/ ToBeDisabled(mem, i, p)
    BY <1>9, <2>8 DEF TriedOK
  <2>10. ToBeDisabled(mem, i, p) => ToBeDisabled(new, i, p)
    BY <1>1, <1>3, <2>2 DEF ToBeDisabled, FamilyRoot
  <2>. QED  BY <2>9, <2>10
<1>10. ASSUME TriedOK(mem, hd), NEW j \in Instances \ {i}, NEW p \in mem.pending[j],
              Untried(new, j, p)
       PROVE  Excused(hd, j, p) \/ ToBeDisabled(new, j, p)
  <2>1. Untried(mem, j, p)
    BY <1>1, <1>4, <1>10 DEF Untried, IsEnabled, Knows, FamilyRoot, SameButFamilies
  <2>2. ToBeDisabled(mem, j, p) => ToBeDisabled(new, j, p)
    BY <1>1, <1>4 DEF ToBeDisabled, FamilyRoot
  <2>. QED  BY <1>10, <2>1, <2>2 DEF TriedOK
<1>11. TriedOK(mem, hd) => TriedBut(new, hd, i, s)
  BY <1>1, <1>9, <1>10 DEF TriedBut, SameButFamilies
<1>. QED  BY <1>7, <1>8, <1>11 DEF new

\* Taking requests up leaves fewer of them untried.
LEMMA TryKeeps ==
  ASSUME NEW mem \in Memory, NEW new, NEW P \in SUBSET Permissions, TookUp(mem, new, P)
  PROVE  /\ RootsOK(mem) => RootsOK(new)
         /\ SeenOK(mem) => SeenOK(new)
         /\ \A hd : FlightOK(mem, hd) => FlightOK(new, hd)
         /\ \A hd : TriedOK(mem, hd) => TriedOK(new, hd)
         /\ LostOK(mem) /\ lost \subseteq Permissions => LostOK(new)
         /\ \A i \in Instances : \A H : PendingOK(mem, i, H) => PendingOK(new, i, H)
<1>1. /\ mem.attempts \in [Permissions -> 0..MaxAttempts]
      /\ mem.inFlight \in [Permissions -> 0..MaxAttempts]
      /\ \A i \in Instances : mem.pending[i] \subseteq Permissions
  BY DEF Memory
<1>2. \A p \in Permissions :
         \/ new.inFlight[p] # 0 /\ new.attempts[p] # 0
         \/ new.inFlight[p] = mem.inFlight[p] /\ new.attempts[p] = mem.attempts[p]
  BY <1>1, LimitAssumption DEF TookUp
<1>3. \A p \in Permissions : mem.attempts[p] = MaxAttempts =>
         new.inFlight[p] = mem.inFlight[p] /\ new.attempts[p] = mem.attempts[p]
  BY <1>1, LimitAssumption DEF TookUp
<1>4. RootsOK(mem) => RootsOK(new)
  BY DEF RootsOK, TookUp
<1>5. SeenOK(mem) => SeenOK(new)
  BY DEF SeenOK, TookUp
<1>6. \A hd : FlightOK(mem, hd) => FlightOK(new, hd)
  BY <1>2 DEF FlightOK
<1>7. ASSUME NEW hd, TriedOK(mem, hd), NEW i \in Instances, NEW p \in mem.pending[i],
             Untried(new, i, p)
      PROVE  Excused(hd, i, p) \/ ToBeDisabled(new, i, p)
  <2>1. p \in Permissions
    BY <1>1
  <2>2. Untried(mem, i, p)
    BY <1>2, <1>7, <2>1 DEF Untried, Knows, IsEnabled, FamilyRoot, TookUp
  <2>3. ToBeDisabled(mem, i, p) => ToBeDisabled(new, i, p)
    BY DEF ToBeDisabled, FamilyRoot, TookUp
  <2>. QED  BY <1>7, <2>2, <2>3 DEF TriedOK
<1>8. \A hd : TriedOK(mem, hd) => TriedOK(new, hd)
  BY <1>7 DEF TriedOK, TookUp
<1>9. LostOK(mem) /\ lost \subseteq Permissions => LostOK(new)
  BY <1>3 DEF LostOK
<1>10. \A i \in Instances : \A H : PendingOK(mem, i, H) => PendingOK(new, i, H)
  BY DEF PendingOK, TookUp
<1>. QED  BY <1>4, <1>5, <1>6, <1>8, <1>9, <1>10

\* The drained family has nothing untried.
LEMMA DrainTries ==
  ASSUME NEW mem \in Memory, NEW i \in Instances, NEW s \in Sessions, NEW hd,
         TriedBut(mem, hd, i, s)
  PROVE  TriedOK(DrainPending(mem, i, s), hd)
<1> DEFINE P == {p \in mem.pending[i] :
                   /\ Knows(mem, i, SessionOf[p])
                   /\ FamilyRoot(mem, i, SessionOf[p]) = FamilyRoot(mem, i, s)}
           new == DrainPending(mem, i, s)
<1>1. P \in SUBSET Permissions
  BY DEF Memory
<1>2. new = TryAutoAccept(mem, P)
  BY DEF DrainPending
<1>3. TookUp(mem, new, P)
  BY <1>1, <1>2, TryTakesUp
<1>4. /\ mem.attempts \in [Permissions -> 0..MaxAttempts]
      /\ mem.inFlight \in [Permissions -> 0..MaxAttempts]
      /\ \A j \in Instances : mem.pending[j] \subseteq Permissions
  BY DEF Memory
<1>5. \A p \in Permissions :
         \/ new.inFlight[p] # 0 /\ new.attempts[p] # 0
         \/ new.inFlight[p] = mem.inFlight[p] /\ new.attempts[p] = mem.attempts[p]
  BY <1>3, <1>4, LimitAssumption DEF TookUp
<1>6. \A p \in P : new.inFlight[p] # 0 \/ new.attempts[p] # 0
  BY <1>1, <1>3, <1>4, LimitAssumption DEF TookUp
<1> HIDE DEF new
<1>7. ASSUME NEW j \in Instances, NEW p \in mem.pending[j], Untried(new, j, p)
      PROVE  Excused(hd, j, p) \/ ToBeDisabled(new, j, p)
  <2>1. p \in Permissions
    BY <1>4
  <2>2. Untried(mem, j, p)
    BY <1>3, <1>5, <1>7, <2>1 DEF Untried, Knows, IsEnabled, FamilyRoot, TookUp
  <2>3. ToBeDisabled(mem, j, p) => ToBeDisabled(new, j, p)
    BY <1>3 DEF ToBeDisabled, FamilyRoot, TookUp
  <2>4. ~(j = i /\ FamilyRoot(mem, i, SessionOf[p]) = FamilyRoot(mem, i, s))
    BY <1>6, <1>7, <2>2 DEF Untried
  <2>. QED  BY <1>7, <2>2, <2>3, <2>4 DEF TriedBut
<1>8. TriedOK(new, hd)
  BY <1>3, <1>7 DEF TriedOK, TookUp
<1>. QED  BY <1>8 DEF new

-----------------------------------------------------------------------------
(* The chain of mutations *)

\* new differs from mem in the chain of i, which is q.
Chained(mem, new, i, q) ==
  /\ new \in Memory /\ SameButFamilies(mem, new)
  /\ new.tree = mem.tree /\ new.enabled = mem.enabled
  /\ new.chain = [mem.chain EXCEPT ![i] = q]

LEMMA ChainFields ==
  ASSUME NEW mem \in Memory, NEW i \in Instances, NEW q \in Seq(Mutations)
  PROVE  Chained(mem, [mem EXCEPT !.chain[i] = q], i, q)
<1> DEFINE chain == [mem.chain EXCEPT ![i] = q]
           new == [mem EXCEPT !.chain = chain]
<1>1. chain \in [Instances -> Seq(Mutations)]
  BY DEF Memory
<1> HIDE DEF chain
<1>2. /\ new \in Memory /\ SameButFamilies(mem, new)
      /\ new.tree = mem.tree /\ new.enabled = mem.enabled /\ new.chain = chain
  BY <1>1 DEF Memory, SameButFamilies
<1>. QED  BY <1>2 DEF Chained, chain

\* A new chain leaves the requests as they are, if what ran was not to disable them.
LEMMA ChainKeeps ==
  ASSUME NEW mem \in Memory, NEW i \in Instances, NEW q, NEW new,
         Chained(mem, new, i, q)
  PROVE  /\ RootsOK(mem) => RootsOK(new)
         /\ \A hd : FlightOK(mem, hd) => FlightOK(new, hd)
         /\ LostOK(mem) => LostOK(new)
         /\ \A j \in Instances : \A H : PendingOK(mem, j, H) => PendingOK(new, j, H)
         /\ \A hd : TriedOK(mem, hd) /\ (\A p \in mem.pending[i] :
                        ToBeDisabled(mem, i, p) /\ Untried(mem, i, p)
                          => ToBeDisabled(new, i, p))
                      => TriedOK(new, hd)
<1>1. mem.chain \in [Instances -> Seq(Mutations)]
  BY DEF Memory
<1>2. \A j \in Instances \ {i} : new.chain[j] = mem.chain[j]
  BY <1>1 DEF Chained
<1>3. ASSUME NEW hd, TriedOK(mem, hd),
             \A p \in mem.pending[i] : ToBeDisabled(mem, i, p) /\ Untried(mem, i, p)
                                         => ToBeDisabled(new, i, p),
             NEW j \in Instances, NEW p \in mem.pending[j], Untried(new, j, p)
      PROVE  Excused(hd, j, p) \/ ToBeDisabled(new, j, p)
  <2>1. Untried(mem, j, p)
    BY <1>3 DEF Untried, Knows, IsEnabled, FamilyRoot, Chained, SameButFamilies
  <2>2. Excused(hd, j, p) \/ ToBeDisabled(mem, j, p)
    BY <1>3, <2>1 DEF TriedOK
  <2>3. j # i => ToBeDisabled(new, j, p) = ToBeDisabled(mem, j, p)
    BY <1>2 DEF ToBeDisabled, FamilyRoot, Chained
  <2>. QED  BY <1>3, <2>1, <2>2, <2>3
<1>4. new.pending = mem.pending
  BY DEF Chained, SameButFamilies
<1>5. \A hd : TriedOK(mem, hd) /\ (\A p \in mem.pending[i] :
                     ToBeDisabled(mem, i, p) /\ Untried(mem, i, p)
                       => ToBeDisabled(new, i, p))
                => TriedOK(new, hd)
  BY <1>3, <1>4 DEF TriedOK
<1>6. RootsOK(mem) => RootsOK(new)
  BY DEF RootsOK, Chained
<1>7. /\ \A hd : FlightOK(mem, hd) => FlightOK(new, hd)
      /\ LostOK(mem) => LostOK(new)
      /\ \A j \in Instances : \A H : PendingOK(mem, j, H) => PendingOK(new, j, H)
  BY DEF FlightOK, LostOK, PendingOK, Chained, SameButFamilies
<1>. QED  BY <1>5, <1>6, <1>7

\* An operation that joins the chain changes nothing for the requests.
LEMMA AppendKeeps ==
  ASSUME NEW mem \in Memory, NEW i \in Instances, NEW op \in Mutations,
         op.stage = "load"
  PROVE  LET new == [mem EXCEPT !.chain[i] = Append(@, op)]
         IN  /\ Chained(mem, new, i, Append(mem.chain[i], op))
             /\ SeenOK(mem) => SeenOK(new)
             /\ \A hd : TriedOK(mem, hd) => TriedOK(new, hd)
             /\ \A hd, s : TriedBut(mem, hd, i, s) => TriedBut(new, hd, i, s)
<1> DEFINE q == Append(mem.chain[i], op)
           new == [mem EXCEPT !.chain[i] = q]
<1>1. mem.chain \in [Instances -> Seq(Mutations)]
  BY DEF Memory
<1>2. /\ q \in Seq(Mutations) /\ q # <<>>
      /\ mem.chain[i] # <<>> => q[1] = mem.chain[i][1]
      /\ mem.chain[i] = <<>> => q[1] = op
  BY <1>1, AppendedLast
<1> HIDE DEF q
<1>3. Chained(mem, new, i, q)
  BY <1>2, ChainFields
<1> HIDE DEF new
<1>4. new.chain[i] = q /\ \A j \in Instances \ {i} : new.chain[j] = mem.chain[j]
  BY <1>1, <1>3 DEF Chained
<1>5. SeenOK(mem) => SeenOK(new)
  <2> SUFFICES ASSUME SeenOK(mem) PROVE SeenOK(new)
    OBVIOUS
  <2>1. \A n \in 2..Len(q) : q[n].stage = "load"
    <3>1. \A n \in 2..Len(mem.chain[i]) : mem.chain[i][n].stage = "load"
      BY DEF SeenOK
    <3>2. mem.chain[i] \in Seq(Mutations)
      BY <1>1
    <3>. QED  BY <3>1, <3>2 DEF q
  <2>2. Writing(q[1]) => mem.chain[i] # <<>> /\ q[1] = mem.chain[i][1]
    BY <1>2 DEF Writing
  <2>. QED  BY <1>4, <2>1, <2>2 DEF SeenOK
<1>6. \A j \in Instances : \A p : ToBeDisabled(mem, j, p) => ToBeDisabled(new, j, p)
  BY <1>2, <1>3, <1>4 DEF ToBeDisabled, FamilyRoot, Chained
<1>7. \A hd : TriedOK(mem, hd) => TriedOK(new, hd)
  BY <1>3, <1>6, ChainKeeps
<1>8. ASSUME NEW hd, NEW s, TriedBut(mem, hd, i, s),
             NEW j \in Instances, NEW p \in new.pending[j], Untried(new, j, p)
      PROVE  \/ Excused(hd, j, p) \/ ToBeDisabled(new, j, p)
             \/ j = i /\ FamilyRoot(new, i, SessionOf[p]) = FamilyRoot(new, i, s)
  <2>1. Untried(mem, j, p) /\ p \in mem.pending[j]
    BY <1>3, <1>8 DEF Untried, Knows, IsEnabled, FamilyRoot, Chained, SameButFamilies
  <2>2. \A x : FamilyRoot(new, i, x) = FamilyRoot(mem, i, x)
    BY <1>3 DEF FamilyRoot, Chained
  <2>. QED  BY <1>6, <1>8, <2>1, <2>2 DEF TriedBut
<1>9. \A hd, s : TriedBut(mem, hd, i, s) => TriedBut(new, hd, i, s)
  BY <1>8 DEF TriedBut
<1>. QED  BY <1>3, <1>5, <1>7, <1>9 DEF new, q

-----------------------------------------------------------------------------
(* The handlers of events *)

\* What holds of the memory between the events of i, of which H were handled.
EventInv(mem, hd, i, H) ==
  /\ mem \in Memory /\ RootsOK(mem) /\ SeenOK(mem)
  /\ writeFailures = 0 => TriedOK(mem, hd)
  /\ FlightOK(mem, hd) /\ LostOK(mem) /\ PendingOK(mem, i, H)

\* An event of i leaves the other workspaces and the replies alone.
OthersKept(mem, new, i) ==
  /\ \A j \in Instances \ {i} :
       /\ new.tree[j] = mem.tree[j] /\ new.enabled[j] = mem.enabled[j]
       /\ new.pending[j] = mem.pending[j] /\ new.chain[j] = mem.chain[j]
  /\ \A p \in Permissions : mem.inFlight[p] # 0 => new.inFlight[p] # 0

LEMMA MigrationType ==
  ASSUME NEW before \in SUBSET Sessions, NEW after \in SUBSET Sessions
  PROVE  /\ Migration(before, after) \in Mutations
         /\ Migration(before, after).session = NoSession
         /\ Migration(before, after).stage = "load"
BY DEF Migration, Mutations, Toggle

\* drainPending: with the family of s taken up, no request of i is left untried.
LEMMA DrainStep ==
  ASSUME NEW mem \in Memory, NEW i \in Instances, NEW s \in Sessions, NEW hd, NEW H,
         lost \subseteq Permissions, RootsOK(mem), SeenOK(mem),
         writeFailures = 0 => TriedBut(mem, hd, i, s),
         FlightOK(mem, hd), LostOK(mem), PendingOK(mem, i, H)
  PROVE  LET new == DrainPending(mem, i, s)
         IN  /\ EventInv(new, hd, i, H) /\ OthersKept(mem, new, i)
             /\ new.tree = mem.tree /\ new.enabled = mem.enabled
             /\ new.pending = mem.pending /\ new.chain = mem.chain
<1> DEFINE P == {p \in mem.pending[i] :
                   /\ Knows(mem, i, SessionOf[p])
                   /\ FamilyRoot(mem, i, SessionOf[p]) = FamilyRoot(mem, i, s)}
           new == DrainPending(mem, i, s)
<1>1. P \in SUBSET Permissions
  BY DEF Memory
<1>2. new = TryAutoAccept(mem, P)
  BY DEF DrainPending
<1>3. TookUp(mem, new, P)
  BY <1>1, <1>2, TryTakesUp
<1>4. TriedBut(mem, hd, i, s) => TriedOK(new, hd)
  BY DrainTries
<1> HIDE DEF new, P
<1>5. /\ RootsOK(new) /\ SeenOK(new) /\ FlightOK(new, hd) /\ LostOK(new)
      /\ PendingOK(new, i, H)
  BY <1>1, <1>3, TryKeeps
<1>6. /\ new \in Memory /\ OthersKept(mem, new, i)
      /\ new.tree = mem.tree /\ new.enabled = mem.enabled
      /\ new.pending = mem.pending /\ new.chain = mem.chain
  BY <1>3 DEF TookUp, OthersKept
<1>7. EventInv(new, hd, i, H)
  BY <1>4, <1>5, <1>6 DEF EventInv
<1>. QED  BY <1>6, <1>7 DEF new

\* ingestSession: the session joins, the migration is queued, its family drained.
LEMMA IngestStep ==
  ASSUME NEW mem \in Memory, NEW i \in Instances, NEW s \in Sessions, NEW hd, NEW H,
         NEW kind \in {"plain", "fork"}, lost \subseteq Permissions,
         EventInv(mem, hd, i, H)
  PROVE  LET new == IngestSession(mem, i, s, kind)
         IN  EventInv(new, hd, i, H) /\ OthersKept(mem, new, i)
<1> DEFINE grown == Upsert(mem, i, s, kind)
           moved == PersistRootMigration(grown, i, mem.enabled[i])
           new == DrainPending(moved, i, s)
           op == Migration(mem.enabled[i], grown.enabled[i])
<1>1. Joined(mem, grown, i, s, kind)
  BY UpsertFields, Zenon
<1>2. /\ RootsOK(grown) /\ SeenOK(grown)
      /\ TriedOK(mem, hd) => TriedBut(grown, hd, i, s)
  BY UpsertTried DEF EventInv
<1> HIDE DEF grown
<1>3. grown \in Memory /\ mem.enabled[i] \in SUBSET Sessions
      /\ grown.enabled[i] \in SUBSET Sessions
  BY <1>1 DEF Joined, Memory
<1>4. FlightOK(grown, hd) /\ LostOK(grown) /\ PendingOK(grown, i, H)
  BY <1>1 DEF Joined, SameButFamilies, EventInv, FlightOK, LostOK, PendingOK
<1>5. OthersKept(mem, grown, i)
  BY <1>1 DEF Joined, SameButFamilies, OthersKept, Memory
<1>6. op \in Mutations /\ op.session = NoSession /\ op.stage = "load"
  BY <1>3, MigrationType
<1> HIDE DEF op
<1>7. /\ moved \in Memory /\ RootsOK(moved) /\ SeenOK(moved)
      /\ TriedBut(grown, hd, i, s) => TriedBut(moved, hd, i, s)
      /\ FlightOK(moved, hd) /\ LostOK(moved) /\ PendingOK(moved, i, H)
      /\ OthersKept(grown, moved, i)
  <2>1. CASE grown.enabled[i] = mem.enabled[i]
    <3>1. moved = grown
      BY <2>1 DEF PersistRootMigration
    <3>. QED  BY <1>2, <1>3, <1>4, <3>1 DEF OthersKept
  <2>2. CASE grown.enabled[i] # mem.enabled[i]
    <3>1. moved = [grown EXCEPT !.chain[i] = Append(@, op)]
      BY <2>2 DEF PersistRootMigration, op
    <3>2. /\ Chained(grown, moved, i, Append(grown.chain[i], op))
          /\ SeenOK(moved)
          /\ TriedBut(grown, hd, i, s) => TriedBut(moved, hd, i, s)
      BY <1>2, <1>3, <1>6, <3>1, AppendKeeps
    <3> HIDE DEF moved
    <3>3. /\ RootsOK(moved) /\ FlightOK(moved, hd) /\ LostOK(moved)
          /\ PendingOK(moved, i, H)
      BY <1>2, <1>3, <1>4, <3>2, ChainKeeps
    <3>4. moved \in Memory /\ OthersKept(grown, moved, i)
      BY <1>3, <3>2 DEF Chained, OthersKept, SameButFamilies, Memory
    <3>. QED  BY <3>2, <3>3, <3>4
  <2>. QED  BY <2>1, <2>2
<1> HIDE DEF moved
<1>8. writeFailures = 0 => TriedBut(moved, hd, i, s)
  BY <1>2, <1>7 DEF EventInv
<1>9. EventInv(new, hd, i, H) /\ OthersKept(moved, new, i)
  BY <1>7, <1>8, DrainStep
<1> HIDE DEF new
<1>10. OthersKept(mem, new, i)
  BY <1>5, <1>7, <1>9 DEF OthersKept
<1>. QED  BY <1>9, <1>10 DEF new, moved, grown, IngestSession

\* permission.replied and session.deleted: the request ends for i.
LEMMA EndStep ==
  ASSUME NEW mem \in Memory, NEW i \in Instances, NEW P \in SUBSET Permissions,
         NEW hd, NEW H, NEW e \in Events, e \in hd[i], Happened(e),
         EventInv(mem, hd, i, H), lost \subseteq Permissions,
         \/ e.type = "replied" /\ P = {e.id}
         \/ e.type = "deleted" /\ P = {p \in Permissions : SessionOf[p] = e.id}
  PROVE  LET new == RemovePending(mem, {i}, P)
         IN  EventInv(new, hd, i, H \cup {e}) /\ OthersKept(mem, new, i)
<1> DEFINE new == RemovePending(mem, {i}, P)
<1>1. /\ new \in Memory
      /\ new.tree = mem.tree /\ new.enabled = mem.enabled
      /\ new.loading = mem.loading /\ new.chain = mem.chain
      /\ new.inFlight = mem.inFlight
      /\ new.pending[i] = mem.pending[i] \ P
      /\ \A j \in Instances \ {i} : new.pending[j] = mem.pending[j]
      /\ \A p \in Permissions : \/ new.attempts[p] = mem.attempts[p]
                                \/ p \in P /\ new.attempts[p] = 0
  <2>1. Removed(mem, new, {i}, P)
    BY RemoveFields
  <2> HIDE DEF new
  <2>. QED  BY <2>1 DEF Removed
<1> HIDE DEF new
<1>2. /\ mem.attempts \in [Permissions -> 0..MaxAttempts]
      /\ \A j \in Instances : mem.pending[j] \subseteq Permissions
  BY DEF Memory
<1>3. \A p \in P : e = Replied(p) \/ e = SessionEnd(p)
  BY DEF Events, Replied, SessionEnd
<1>4. \A p \in P : Over(hd[i], p)
  BY <1>3 DEF Over
<1>5. \A p \in P : p \in settled \/ sessions[SessionOf[p]] = "deleted"
  <2>1. e.type = "replied" => e.id \in settled
    BY Zenon DEF Happened
  <2>2. e.type = "deleted" => sessions[e.id] = "deleted"
    BY Zenon DEF Happened
  <2>. QED  BY <1>3, <2>1, <2>2 DEF Replied, SessionEnd
<1>6. RootsOK(new) /\ SeenOK(new) /\ FlightOK(new, hd)
  BY <1>1, <1>4 DEF EventInv, RootsOK, SeenOK, FlightOK, OverAt
<1>7. LostOK(new)
  BY <1>1, <1>5 DEF EventInv, LostOK
<1>8. PendingOK(new, i, H \cup {e})
  <2> SUFFICES ASSUME NEW p \in new.pending[i], Over(H \cup {e}, p)
               PROVE  p \in overtaken[i]
    BY DEF PendingOK
  <2>1. p \in mem.pending[i] /\ p \notin P /\ p \in Permissions
    BY <1>1, <1>2
  <2>2. Over(H, p) => p \in overtaken[i]
    BY <2>1 DEF EventInv, PendingOK
  <2>3. e # Replied(p) /\ e # SessionEnd(p)
    BY <2>1 DEF Replied, SessionEnd
  <2>. QED  BY <2>2, <2>3 DEF Over
<1>9. ASSUME TriedOK(mem, hd), NEW j \in Instances, NEW p \in new.pending[j],
             Untried(new, j, p)
      PROVE  Excused(hd, j, p) \/ ToBeDisabled(new, j, p)
  <2>1. p \in mem.pending[j] /\ p \in Permissions
    BY <1>1, <1>2
  <2>2. CASE p \in P
    <3>1. j # i
      BY <1>1, <1>9, <2>2
    <3>. QED  BY <1>4, <2>2, <3>1 DEF OverAt, Excused
  <2>3. CASE p \notin P
    <3>1. Untried(mem, j, p)
      BY <1>1, <1>9, <2>1, <2>3 DEF Untried, Knows, IsEnabled, FamilyRoot
    <3>2. ToBeDisabled(mem, j, p) => ToBeDisabled(new, j, p)
      BY <1>1 DEF ToBeDisabled, FamilyRoot
    <3>. QED  BY <1>9, <2>1, <3>1, <3>2 DEF TriedOK
  <2>. QED  BY <2>2, <2>3
<1>10. TriedOK(mem, hd) => TriedOK(new, hd)
  BY <1>9 DEF TriedOK
<1>11. EventInv(new, hd, i, H \cup {e})
  BY <1>1, <1>6, <1>7, <1>8, <1>10 DEF EventInv
<1>12. OthersKept(mem, new, i)
  BY <1>1 DEF OthersKept
<1>. QED  BY <1>11, <1>12 DEF new

\* A session leaves the tree: what is still enabled was enabled in the same family.
LEMMA CutStep ==
  ASSUME NEW mem \in Memory, NEW i \in Instances, NEW s \in Sessions, NEW hd, NEW H,
         EventInv(mem, hd, i, H)
  PROVE  LET new == [mem EXCEPT !.tree[i][s] = "unknown"]
         IN  EventInv(new, hd, i, H) /\ OthersKept(mem, new, i)
<1> DEFINE cut == [mem.tree[i] EXCEPT ![s] = "unknown"]
           new == [mem EXCEPT !.tree[i][s] = "unknown"]
<1>1. /\ mem.tree \in [Instances -> [Sessions -> {"unknown", "plain", "fork"}]]
      /\ mem.tree[i] \in [Sessions -> {"unknown", "plain", "fork"}]
      /\ \A j \in Instances : mem.enabled[j] \subseteq Sessions
      /\ \A j \in Instances : mem.pending[j] \subseteq Permissions
  BY DEF Memory
<1>2. /\ new.tree = [mem.tree EXCEPT ![i] = cut]
      /\ new.enabled = mem.enabled /\ SameButFamilies(mem, new)
      /\ new.chain = mem.chain /\ new \in Memory
  BY <1>1 DEF Memory, SameButFamilies
<1> HIDE DEF new
<1>3. new.tree[i] = cut /\ \A j \in Instances \ {i} : new.tree[j] = mem.tree[j]
  BY <1>1, <1>2
<1>4. \A x \in Sessions : RootIn(mem.tree[i], RootIn(cut, x)) = RootIn(mem.tree[i], x)
  BY <1>1, RootsShrink
<1>5. \A x \in Sessions : cut[x] = "unknown" \/ cut[x] = mem.tree[i][x]
  BY <1>1
<1> HIDE DEF cut
<1>6. RootsOK(new)
  <2>1. \A x \in Sessions : Climbs(cut, x) => Climbs(mem.tree[i], x)
    BY <1>5 DEF Climbs
  <2>. QED  BY <1>1, <1>2, <1>3, <2>1 DEF RootsOK, EventInv
<1>7. ASSUME TriedOK(mem, hd), NEW p \in mem.pending[i], Untried(new, i, p)
      PROVE  Excused(hd, i, p) \/ ToBeDisabled(new, i, p)
  <2> DEFINE x == SessionOf[p]
  <2>1. p \in Permissions /\ x \in Sessions
    BY <1>1, PermissionAssumption
  <2>2. RootIn(cut, x) \in mem.enabled[i] /\ cut[x] # "unknown"
    BY <1>2, <1>3, <1>7 DEF Untried, IsEnabled, Knows, FamilyRoot
  <2>3. RootIn(mem.tree[i], RootIn(cut, x)) = RootIn(cut, x)
    BY <1>1, <2>2, RootOfRoot DEF RootsOK, EventInv
  <2>4. RootIn(mem.tree[i], x) = RootIn(cut, x)
    BY <1>4, <2>1, <2>3
  <2>5. Untried(mem, i, p)
    BY <1>2, <1>5, <1>7, <2>1, <2>2, <2>4
       DEF Untried, IsEnabled, Knows, FamilyRoot, SameButFamilies
  <2>6. ToBeDisabled(mem, i, p) => ToBeDisabled(new, i, p)
    BY <1>2, <1>3, <2>4 DEF ToBeDisabled, FamilyRoot
  <2>. QED  BY <1>7, <2>5, <2>6 DEF TriedOK
<1>8. ASSUME TriedOK(mem, hd), NEW j \in Instances \ {i}, NEW p \in mem.pending[j],
             Untried(new, j, p)
      PROVE  Excused(hd, j, p) \/ ToBeDisabled(new, j, p)
  <2>1. Untried(mem, j, p)
    BY <1>2, <1>3, <1>8 DEF Untried, IsEnabled, Knows, FamilyRoot, SameButFamilies
  <2>2. ToBeDisabled(mem, j, p) => ToBeDisabled(new, j, p)
    BY <1>2, <1>3 DEF ToBeDisabled, FamilyRoot
  <2>. QED  BY <1>8, <2>1, <2>2 DEF TriedOK
<1>9. TriedOK(mem, hd) => TriedOK(new, hd)
  BY <1>2, <1>7, <1>8 DEF TriedOK, SameButFamilies
<1>10. SeenOK(new) /\ FlightOK(new, hd) /\ LostOK(new) /\ PendingOK(new, i, H)
  BY <1>2 DEF EventInv, SeenOK, FlightOK, LostOK, PendingOK, SameButFamilies
<1>11. EventInv(new, hd, i, H)
  BY <1>2, <1>6, <1>9, <1>10 DEF EventInv
<1>12. OthersKept(mem, new, i)
  BY <1>2, <1>3 DEF OthersKept, SameButFamilies
<1>. QED  BY <1>11, <1>12 DEF new

\* Of one session and one request, "asked" comes before what ends the request.
LEMMA AskedComesFirst ==
  ASSUME NEW p \in Permissions, NEW e \in Events, e.type = "asked", e.id = p, NEW H,
         NEW i \in Instances, InTurn(e, H, overtaken[i])
  PROVE  Over(H \cup {e}, p) => p \in overtaken[i]
<1>1. Precedes(e, Replied(p)) /\ e # Replied(p)
  BY DEF Precedes, LaneOf, Rank, Replied
<1>2. Precedes(e, SessionEnd(p)) /\ e # SessionEnd(p)
  <2>1. {"asked", "deleted"} # {"asked", "replied"}
    OBVIOUS
  <2>. QED  BY <2>1 DEF Precedes, LaneOf, Rank, SessionEnd
<1>. QED  BY <1>1, <1>2 DEF Over, InTurn

\* handlePermissionRequest: of an enabled family it is taken up at once.
LEMMA AskStep ==
  ASSUME NEW mem \in Memory, NEW i \in Instances, NEW p \in Permissions,
         NEW hd, NEW H, NEW e \in Events, e.type = "asked", e.id = p,
         InTurn(e, H, overtaken[i]), lost \subseteq Permissions,
         EventInv(mem, hd, i, H)
  PROVE  LET new == AskPermission(mem, i, p)
         IN  EventInv(new, hd, i, H \cup {e}) /\ OthersKept(mem, new, i)
<1> DEFINE s == SessionOf[p]
           left == [mem.pending EXCEPT ![i] = mem.pending[i] \cup {p}]
           noted == [mem EXCEPT !.pending = left]
           ask == [mem.loading EXCEPT ![i] = [mem.loading[i] EXCEPT ![s] = "asked"]]
           new == AskPermission(mem, i, p)
           K == H \cup {e}
<1>0. s \in Sessions
  BY PermissionAssumption
<1>1. /\ left \in [Instances -> SUBSET Permissions]
      /\ left[i] = mem.pending[i] \cup {p}
      /\ \A j \in Instances \ {i} : left[j] = mem.pending[j]
  BY DEF Memory
<1>2. ask \in [Instances -> [Sessions -> {"no", "asked", "found"}]]
  BY <1>0 DEF Memory
<1>3. /\ ~Knows(mem, i, s) => new = [noted EXCEPT !.loading = ask]
      /\ Knows(mem, i, s) /\ IsEnabled(mem, i, s) => new = TryAutoAccept(noted, {p})
      /\ Knows(mem, i, s) /\ ~IsEnabled(mem, i, s) => new = noted
  <2>1. noted.loading = mem.loading
    BY DEF Memory
  <2>2. /\ mem.loading[i] \in [Sessions -> {"no", "asked", "found"}]
        /\ mem.loading \in [Instances -> [Sessions -> {"no", "asked", "found"}]]
    BY DEF Memory
  <2>. QED  BY <2>1, <2>2 DEF AskPermission
<1> HIDE DEF left, ask
<1>4. /\ noted \in Memory /\ noted.pending = left /\ noted.tree = mem.tree
      /\ noted.enabled = mem.enabled /\ noted.chain = mem.chain
      /\ noted.attempts = mem.attempts /\ noted.inFlight = mem.inFlight
  BY <1>1 DEF Memory
<1>5. /\ noted.loading = mem.loading
      /\ LET n == [noted EXCEPT !.loading = ask]
         IN  /\ n \in Memory /\ n.pending = left /\ n.tree = mem.tree
             /\ n.enabled = mem.enabled /\ n.chain = mem.chain
             /\ n.attempts = mem.attempts /\ n.inFlight = mem.inFlight
  BY <1>1, <1>2 DEF Memory
<1> HIDE DEF noted, new
\* What every outcome starts from: only p may have become untried.
<1> DEFINE Noted(n) ==
             /\ n \in Memory /\ n.pending = left /\ n.tree = mem.tree
             /\ n.enabled = mem.enabled /\ n.chain = mem.chain
             /\ n.attempts = mem.attempts /\ n.inFlight = mem.inFlight
<1>6. ASSUME NEW n, Noted(n)
      PROVE  /\ n \in Memory /\ RootsOK(n) /\ SeenOK(n) /\ FlightOK(n, hd) /\ LostOK(n)
             /\ PendingOK(n, i, K) /\ OthersKept(mem, n, i)
             /\ \A j \in Instances : \A q \in n.pending[j] :
                  TriedOK(mem, hd) /\ Untried(n, j, q) /\ ~(j = i /\ q = p) =>
                    Excused(hd, j, q) \/ ToBeDisabled(n, j, q)
  <2>1. RootsOK(n) /\ SeenOK(n) /\ FlightOK(n, hd) /\ LostOK(n)
    BY <1>6 DEF EventInv, RootsOK, SeenOK, FlightOK, LostOK
  <2>2. PendingOK(n, i, K)
    <3> SUFFICES ASSUME NEW q \in n.pending[i], Over(K, q) PROVE q \in overtaken[i]
      BY DEF PendingOK
    <3>1. CASE q = p
      BY <3>1, AskedComesFirst
    <3>2. CASE q \in mem.pending[i]
      <4>1. Over(H, q) => q \in overtaken[i]
        BY <3>2 DEF EventInv, PendingOK
      <4>2. e # Replied(q) /\ e # SessionEnd(q)
        BY DEF Replied, SessionEnd
      <4>. QED  BY <4>1, <4>2 DEF Over
    <3>. QED  BY <1>1, <1>6, <3>1, <3>2
  <2>3. OthersKept(mem, n, i)
    BY <1>1, <1>6 DEF OthersKept
  <2>4. ASSUME NEW j \in Instances, NEW q \in n.pending[j], TriedOK(mem, hd),
               Untried(n, j, q), ~(j = i /\ q = p)
        PROVE  Excused(hd, j, q) \/ ToBeDisabled(n, j, q)
    <3>1. q \in mem.pending[j]
      BY <1>1, <1>6, <2>4
    <3>2. Untried(mem, j, q)
      BY <1>6, <2>4 DEF Untried, Knows, IsEnabled, FamilyRoot
    <3>3. ToBeDisabled(mem, j, q) => ToBeDisabled(n, j, q)
      BY <1>6 DEF ToBeDisabled, FamilyRoot
    <3>. QED  BY <2>4, <3>1, <3>2, <3>3 DEF TriedOK
  <2>. QED  BY <1>6, <2>1, <2>2, <2>3, <2>4
<1>7. ASSUME NEW n, Noted(n), ~(Knows(mem, i, s) /\ IsEnabled(mem, i, s))
      PROVE  EventInv(n, hd, i, K) /\ OthersKept(mem, n, i)
  <2>1. ~Untried(n, i, p)
    BY <1>7 DEF Untried, Knows, IsEnabled, FamilyRoot
  <2>2. TriedOK(mem, hd) => TriedOK(n, hd)
    BY <1>6, <1>7, <2>1 DEF TriedOK
  <2>. QED  BY <1>6, <1>7, <2>2 DEF EventInv
<1>8. CASE ~(Knows(mem, i, s) /\ IsEnabled(mem, i, s))
  <2>1. Noted(new)
    BY <1>3, <1>4, <1>5, <1>8
  <2>. QED  BY <1>7, <1>8, <2>1 DEF new
<1>9. CASE Knows(mem, i, s) /\ IsEnabled(mem, i, s)
  <2>1. TookUp(noted, new, {p})
    BY <1>3, <1>4, <1>9, TryTakesUp
  <2>2. Noted(noted)
    BY <1>4
  <2>3. /\ RootsOK(new) /\ SeenOK(new) /\ FlightOK(new, hd) /\ LostOK(new)
        /\ PendingOK(new, i, K)
    BY <1>4, <1>6, <2>1, <2>2, TryKeeps
  <2>4. OthersKept(mem, new, i) /\ new \in Memory
    BY <1>6, <2>1, <2>2 DEF OthersKept, TookUp
  <2>5. /\ mem.attempts \in [Permissions -> 0..MaxAttempts]
        /\ mem.inFlight \in [Permissions -> 0..MaxAttempts]
        /\ \A j \in Instances : noted.pending[j] \subseteq Permissions
    BY <1>1, <1>4 DEF Memory
  <2>6. \A q \in Permissions :
         \/ new.inFlight[q] # 0 /\ new.attempts[q] # 0
         \/ new.inFlight[q] = mem.inFlight[q] /\ new.attempts[q] = mem.attempts[q]
    BY <1>4, <2>1, <2>5, LimitAssumption DEF TookUp
  <2>7. new.inFlight[p] # 0 \/ new.attempts[p] # 0
    BY <1>4, <2>1, <2>5, LimitAssumption DEF TookUp
  <2>8. ASSUME TriedOK(mem, hd), NEW j \in Instances, NEW q \in new.pending[j],
               Untried(new, j, q)
        PROVE  Excused(hd, j, q) \/ ToBeDisabled(new, j, q)
    <3>1. q \in Permissions /\ q \in noted.pending[j] /\ q # p
      BY <2>1, <2>5, <2>7, <2>8 DEF TookUp, Untried
    <3>2. Untried(noted, j, q)
      BY <1>4, <2>1, <2>6, <2>8, <3>1 DEF TookUp, Untried, Knows, IsEnabled, FamilyRoot
    <3>3. ToBeDisabled(noted, j, q) => ToBeDisabled(new, j, q)
      BY <2>1 DEF ToBeDisabled, FamilyRoot, TookUp
    <3>. QED  BY <1>6, <2>2, <2>8, <3>1, <3>2, <3>3
  <2>9. TriedOK(mem, hd) => TriedOK(new, hd)
    BY <2>8 DEF TriedOK
  <2>10. EventInv(new, hd, i, K)
    BY <2>3, <2>4, <2>9 DEF EventInv
  <2>. QED  BY <2>4, <2>10 DEF new
<1>. QED  BY <1>8, <1>9

\* Every event keeps what holds between events.
LEMMA EventStep ==
  ASSUME NEW mem \in Memory, NEW i \in Instances, NEW hd, NEW H, NEW e \in Events,
         e \in hd[i], Happened(e), InTurn(e, H, overtaken[i]),
         lost \subseteq Permissions, EventInv(mem, hd, i, H)
  PROVE  LET new == HandleInstanceEvent(mem, i, e)
         IN  EventInv(new, hd, i, H \cup {e}) /\ OthersKept(mem, new, i)
<1> DEFINE new == HandleInstanceEvent(mem, i, e)
<1>1. /\ e.type \in {"created", "deleted", "asked", "replied"}
      /\ e.type \in {"created", "deleted"} => e.id \in Sessions
      /\ e.type \in {"asked", "replied"} => e.id \in Permissions
  BY DEF Events
<1>2. CASE e.type = "created"
  <2>1. new = IngestSession(mem, i, e.id, KindOf(e.id))
    BY <1>2, Zenon DEF HandleInstanceEvent
  <2>2. EventInv(new, hd, i, H) /\ OthersKept(mem, new, i)
    BY <1>1, <1>2, <2>1, IngestStep, KindType
  <2>3. \A p : e # Replied(p) /\ e # SessionEnd(p)
    BY <1>2 DEF Replied, SessionEnd
  <2>4. PendingOK(new, i, H) => PendingOK(new, i, H \cup {e})
    BY <2>3 DEF PendingOK, Over
  <2> HIDE DEF new
  <2>5. EventInv(new, hd, i, H \cup {e})
    BY <2>2, <2>4 DEF EventInv
  <2>. QED  BY <2>2, <2>5 DEF new
<1>3. CASE e.type = "deleted"
  <2> DEFINE s == e.id
             P == {p \in Permissions : SessionOf[p] = e.id}
             cut == [mem EXCEPT !.tree[i][s] = "unknown"]
  <2>1. new = RemovePending(cut, {i}, P)
    BY <1>3, Zenon DEF HandleInstanceEvent, RemoveSession
  <2>2. EventInv(cut, hd, i, H) /\ OthersKept(mem, cut, i)
    BY <1>1, <1>3, CutStep
  <2>3. cut \in Memory /\ P \in SUBSET Permissions
    BY <2>2 DEF EventInv
  <2> HIDE DEF cut, new
  <2>4. EventInv(new, hd, i, H \cup {e}) /\ OthersKept(cut, new, i)
    BY <1>3, <2>1, <2>2, <2>3, EndStep
  <2>5. OthersKept(mem, new, i)
    BY <2>2, <2>4 DEF OthersKept
  <2>. QED  BY <2>4, <2>5 DEF new
<1>4. CASE e.type = "asked"
  <2>1. new = AskPermission(mem, i, e.id)
    BY <1>4, Zenon DEF HandleInstanceEvent
  <2>. QED  BY <1>1, <1>4, <2>1, AskStep
<1>5. CASE e.type = "replied"
  <2>1. new = RemovePending(mem, {i}, {e.id})
    BY <1>5, Zenon DEF HandleInstanceEvent
  <2>2. {e.id} \in SUBSET Permissions
    BY <1>1, <1>5
  <2>. QED  BY <1>1, <1>5, <2>1, <2>2, EndStep, SMTT(40)
<1>. QED  BY <1>1, <1>2, <1>3, <1>4, <1>5

-----------------------------------------------------------------------------
(* The replay of the queue *)

ReplaysBy(i, after) ==
  after = [k \in 0..Len(queued[i]) |->
             IF k = 0 THEN m
             ELSE HandleInstanceEvent(after[k - 1], i, queued[i][k])]

\* The recursive definition of Replayed has a solution.
LEMMA ReplayExists ==
  ASSUME NEW i \in Instances, queued[i] \in Seq(Events)
  PROVE  \E after : ReplaysBy(i, after)
<1> DEFINE N == Len(queued[i])
           Then(mem, k) == HandleInstanceEvent(mem, i, queued[i][k])
           Solves(f, n) == \A k \in 0..N : k <= n =>
                             f[k] = IF k = 0 THEN m ELSE Then(f[k - 1], k)
           Step(f) == [k \in 0..N |-> IF k = 0 THEN m ELSE Then(f[k - 1], k)]
           K == {n \in Nat : \E f : Solves(f, n)}
<1>1. N \in Nat
  OBVIOUS
<1> HIDE DEF N, Then
<1>2. 0 \in K
  <2>1. Solves([k \in 0..N |-> m], 0)
    BY <1>1
  <2> HIDE DEF Solves
  <2>. QED  BY <2>1
<1>3. ASSUME NEW n \in K PROVE n + 1 \in K
  <2>1. PICK f : Solves(f, n)
    BY <1>3
  <2>2. ASSUME NEW k \in 0..N, k <= n + 1, k # 0
        PROVE  Step(f)[k] = Then(Step(f)[k - 1], k)
    <3>1. k - 1 \in 0..N /\ k - 1 <= n
      BY <1>1, <1>3, <2>2
    <3>2. Step(f)[k - 1] = f[k - 1]
      BY <2>1, <3>1
    <3>. QED  BY <2>2, <3>2
  <2>3. Step(f)[0] = m
    BY <1>1
  <2>4. Solves(Step(f), n + 1)
    BY <2>2, <2>3
  <2> HIDE DEF Solves, Step
  <2>. QED  BY <2>4, <1>3
<1>4. K = Nat
  <2> HIDE DEF Solves
  <2>. QED  BY <1>2, <1>3, AllNaturals
<1>5. PICK f : Solves(f, N)
  BY <1>1, <1>4
<1>6. \A k \in 0..N : Step(f)[k] = f[k]
  BY <1>1, <1>5
<1>7. \A k \in 0..N : k # 0 => k - 1 \in 0..N
  BY <1>1
<1>8. \A k \in 0..N : k # 0 => Step(f)[k] = Then(Step(f)[k - 1], k)
  BY <1>6, <1>7
<1>9. ReplaysBy(i, Step(f))
  BY <1>8 DEF ReplaysBy, N, Then
<1>. QED  BY <1>9

\* The memory after n + 1 events is the one after n, and the handler.
LEMMA ReplayUnfolds ==
  ASSUME NEW i \in Instances, queued[i] \in Seq(Events)
  PROVE  /\ Replayed(i, 0) = m
         /\ \A n \in 1..Len(queued[i]) :
              Replayed(i, n) = HandleInstanceEvent(Replayed(i, n - 1), i, queued[i][n])
<1> DEFINE F == CHOOSE after : ReplaysBy(i, after)
<1>1. ReplaysBy(i, F)
  BY ReplayExists, Zenon
<1>2. \A n : Replayed(i, n) = F[n]
  BY DEF Replayed, ReplaysBy
<1> HIDE DEF F
<1>3. Len(queued[i]) \in Nat
  OBVIOUS
<1>4. /\ F[0] = m
      /\ \A n \in 1..Len(queued[i]) :
           F[n] = HandleInstanceEvent(F[n - 1], i, queued[i][n])
  <2>1. 0 \in 0..Len(queued[i])
    BY <1>3
  <2>2. \A n \in 1..Len(queued[i]) : n \in 0..Len(queued[i]) /\ n # 0
    BY <1>3
  <2>. QED  BY <1>1, <2>1, <2>2 DEF ReplaysBy
<1>. QED  BY <1>2, <1>4

\* The whole queue keeps what one event keeps.
LEMMA ReplayStep ==
  ASSUME NEW i \in Instances, queued[i] \in Seq(Events), NEW hd,
         NEW H, lost \subseteq Permissions, EventInv(m, hd, i, H),
         \A n \in 1..Len(queued[i]) :
           /\ queued[i][n] \in hd[i] /\ Happened(queued[i][n])
           /\ InTurn(queued[i][n], H, overtaken[i])
           /\ \A k \in 1..(n - 1) : ~Precedes(queued[i][n], queued[i][k])
  PROVE  LET new == Replayed(i, Len(queued[i]))
         IN  /\ EventInv(new, hd, i, H \cup InQueue(queued[i]))
             /\ OthersKept(m, new, i)
<1> DEFINE q == queued[i]
           Seen(n) == H \cup {q[k] : k \in 1..n}
           Good(n) == /\ EventInv(Replayed(i, n), hd, i, Seen(n))
                      /\ OthersKept(m, Replayed(i, n), i)
           K == {n \in Nat : n <= Len(q) => Good(n)}
<1>1. Len(q) \in Nat /\ \A n \in 1..Len(q) : q[n] \in Events
  OBVIOUS
<1>2. 0 \in K
  <2>1. Seen(0) = H
    OBVIOUS
  <2>2. Replayed(i, 0) = m
    BY ReplayUnfolds
  <2>. QED  BY <2>1, <2>2 DEF OthersKept
<1>3. ASSUME NEW n \in K PROVE n + 1 \in K
  <2> SUFFICES ASSUME n + 1 <= Len(q) PROVE Good(n + 1)
    BY <1>3
  <2>1. n \in Nat /\ n + 1 \in 1..Len(q) /\ (n + 1) - 1 = n
    BY <1>1, <1>3
  <2>2. Good(n)
    BY <1>1, <1>3, <2>1
  <2>3. Replayed(i, n + 1) = HandleInstanceEvent(Replayed(i, n), i, q[n + 1])
    BY <2>1, ReplayUnfolds
  <2>4. /\ q[n + 1] \in Events /\ q[n + 1] \in hd[i] /\ Happened(q[n + 1])
        /\ InTurn(q[n + 1], Seen(n), overtaken[i])
    BY <1>1, <2>1 DEF InTurn
  <2>5. Replayed(i, n) \in Memory
    BY <2>2 DEF EventInv
  <2>6. /\ EventInv(Replayed(i, n + 1), hd, i, Seen(n) \cup {q[n + 1]})
        /\ OthersKept(Replayed(i, n), Replayed(i, n + 1), i)
    <3> HIDE DEF q, Seen
    <3>. QED  BY <2>2, <2>3, <2>4, <2>5, EventStep
  <2>7. Seen(n + 1) = Seen(n) \cup {q[n + 1]}
    BY <2>1
  <2>8. OthersKept(m, Replayed(i, n + 1), i)
    BY <2>2, <2>6 DEF OthersKept
  <2>. QED  BY <2>6, <2>7, <2>8
<1>4. K = Nat
  <2> HIDE DEF Good
  <2>. QED  BY <1>2, <1>3, AllNaturals
<1>5. Good(Len(q))
  <2> HIDE DEF Good
  <2>1. Len(q) <= Len(q)
    BY <1>1
  <2>. QED  BY <1>1, <1>4, <2>1
<1>. QED  BY <1>5 DEF InQueue

-----------------------------------------------------------------------------
(* The inductive invariant, and how a new memory keeps it *)

IInv == TypeOK /\ ManagerInv

RestKept ==
  UNCHANGED <<phase, listed, queued, overtaken, heard, sessions, asked, settled, lost>>

RestTyped ==
  /\ persisted \subseteq Sessions /\ sent \subseteq Permissions
  /\ toggles \in 0..MaxToggles /\ writeFailures \in 0..MaxWriteFailures
  /\ strayed \in BOOLEAN

LEMMA InitOK == Init => IInv
<1> SUFFICES ASSUME Init PROVE IInv
  OBVIOUS
<1>1. m \in Memory
  BY LimitAssumption DEF Init, Memory
<1>2. TypeOK
  <2>1. /\ phase \in [Instances -> Phases] /\ listed \in [Instances -> SUBSET Sessions]
        /\ queued \in [Instances -> Seq(Events)] /\ heard \in [Instances -> SUBSET Events]
        /\ sessions \in [Sessions -> {"none", "live", "deleted"}]
        /\ toggles \in 0..MaxToggles /\ writeFailures \in 0..MaxWriteFailures
        /\ overtaken \in [Instances -> SUBSET Permissions]
    BY LimitAssumption DEF Init, Phases
  <2>. QED  BY <1>1, <2>1 DEF Init, TypeOK
<1>3. ClearOK(m, phase) /\ RootsOK(m) /\ SeenOK(m) /\ FlightOK(m, heard) /\ LostOK(m)
  BY DEF Init, ClearOK, RootsOK, SeenOK, FlightOK, LostOK
<1>4. TriedOK(m, heard)
  BY DEF Init, TriedOK
<1>5. \A i \in Instances : PendingOK(m, i, heard[i])
  BY DEF Init, PendingOK
<1>6. HeardOK /\ SentOK
  BY DEF Init, HeardOK, SentOK
<1>7. QueueOK
  <2>1. Len(<<>>) = 0 /\ InQueue(<<>>) = {}
    BY DEF InQueue
  <2>. QED  BY <2>1 DEF Init, QueueOK, QueueFits
<1>. QED  BY <1>2, <1>3, <1>4, <1>5, <1>6, <1>7 DEF IInv, ManagerInv

\* A step of the memory alone.
LEMMA MemoryMoves ==
  ASSUME IInv, RestKept, RestTyped', m' \in Memory,
         ClearOK(m', phase), RootsOK(m'), SeenOK(m'),
         writeFailures' = 0 => TriedOK(m', heard),
         FlightOK(m', heard), LostOK(m'),
         \A i \in Instances : PendingOK(m', i, heard[i]),
         \A p \in sent' : m'.inFlight[p] # 0
  PROVE  IInv'
<1>1. TypeOK'
  BY DEF IInv, TypeOK, RestKept, RestTyped
<1>2. /\ ClearOK(m, phase)' /\ RootsOK(m)' /\ SeenOK(m)'
      /\ (writeFailures = 0 => TriedOK(m, heard))'
      /\ FlightOK(m, heard)' /\ SentOK'
      /\ (\A i \in Instances : PendingOK(m, i, heard[i]))'
  BY DEF RestKept, SentOK, TriedOK, Excused, PendingOK
<1>3. LostOK(m)'
  BY DEF LostOK, RestKept
<1>4. HeardOK' /\ QueueOK'
  BY DEF IInv, ManagerInv, HeardOK, Happened, QueueOK, RestKept
<1>. QED  BY <1>1, <1>2, <1>3, <1>4 DEF IInv, ManagerInv

\* A step of the chain of i.
LEMMA ChainMoves ==
  ASSUME IInv, RestKept, RestTyped', sent' = sent,
         NEW i \in Instances, NEW q, Chained(m, m', i, q),
         m.chain[i] # <<>> \/ phase[i] \in {"filled", "hydrated"},
         \A n \in 2..Len(q) : q[n].stage = "load",
         q # <<>> /\ Writing(q[1]) => q[1].last \in q[1].seen /\ q[1].target \in q[1].seen,
         writeFailures' = 0 =>
           /\ writeFailures = 0
           /\ \A p \in m.pending[i] :
                ToBeDisabled(m, i, p) /\ Untried(m, i, p) => ToBeDisabled(m', i, p)
  PROVE  IInv'
<1>1. m \in Memory /\ m' \in Memory /\ m.chain \in [Instances -> Seq(Mutations)]
  BY DEF IInv, TypeOK, Chained, Memory
<1>2. m'.chain[i] = q /\ \A j \in Instances \ {i} : m'.chain[j] = m.chain[j]
  BY <1>1 DEF Chained
<1>3. phase[i] \in {"filled", "hydrated", "stopped"}
  BY DEF IInv, ManagerInv, ClearOK
<1>4. ClearOK(m', phase)
  BY <1>2, <1>3 DEF IInv, ManagerInv, ClearOK, Chained, SameButFamilies
<1>5. SeenOK(m')
  <2>1. SeenOK(m)
    BY DEF IInv, ManagerInv
  <2>2. ASSUME NEW j \in Instances
        PROVE  /\ \A n \in 2..Len(m'.chain[j]) : m'.chain[j][n].stage = "load"
               /\ m'.chain[j] # <<>> /\ Writing(m'.chain[j][1]) =>
                    /\ m'.chain[j][1].last \in m'.chain[j][1].seen
                    /\ m'.chain[j][1].target \in m'.chain[j][1].seen
    <3>1. CASE j = i
      BY <1>2, <3>1
    <3>2. CASE j # i
      BY <1>2, <2>1, <3>2 DEF SeenOK
    <3>. QED  BY <3>1, <3>2
  <2>. QED  BY <2>2 DEF SeenOK
<1>6. /\ RootsOK(m') /\ FlightOK(m', heard) /\ LostOK(m')
      /\ \A j \in Instances : PendingOK(m', j, heard[j])
  BY <1>1, ChainKeeps DEF IInv, ManagerInv
<1>7. writeFailures' = 0 => TriedOK(m', heard)
  BY <1>1, ChainKeeps DEF IInv, ManagerInv
<1>8. \A p \in sent' : m'.inFlight[p] # 0
  BY DEF IInv, ManagerInv, SentOK, Chained, SameButFamilies
<1>. QED  BY <1>1, <1>4, <1>5, <1>6, <1>7, <1>8, MemoryMoves

\* A step of the memory of a hydrated workspace.
LEMMA HydratedMoves ==
  ASSUME IInv, RestKept, RestTyped', sent' = sent, writeFailures' = writeFailures,
         NEW i \in Instances, phase[i] \in {"filled", "hydrated"},
         EventInv(m', heard, i, heard[i]), OthersKept(m, m', i)
  PROVE  IInv'
<1>1. ClearOK(m', phase)
  BY DEF IInv, ManagerInv, ClearOK, OthersKept
<1>2. \A j \in Instances : PendingOK(m', j, heard[j])
  <2> SUFFICES ASSUME NEW j \in Instances
               PROVE  PendingOK(m', j, heard[j])
    OBVIOUS
  <2>1. CASE j = i
    BY <2>1 DEF EventInv
  <2>2. CASE j # i
    BY <2>2 DEF IInv, ManagerInv, PendingOK, OthersKept
  <2>. QED  BY <2>1, <2>2
<1>3. \A p \in sent' : m'.inFlight[p] # 0
  BY DEF IInv, ManagerInv, SentOK, OthersKept, TypeOK
<1>. QED  BY <1>1, <1>2, <1>3, MemoryMoves DEF EventInv

-----------------------------------------------------------------------------
(* The actions: the daemon and its clients *)

\* What happened stays so.
LEMMA HappenedStays ==
  ASSUME NEW e \in Events, Happened(e), TypeOK,
         \/ UNCHANGED daemonVars
         \/ \E s \in Sessions : CreateSession(s) \/ DeleteSession(s)
         \/ \E p \in Permissions : Ask(p) \/ UserReplies(p)
         \/ \E p \in Permissions : ReplyDispatches(p)
  PROVE  Happened(e)'
<1>1. /\ e.type \in {"created", "deleted", "asked", "replied"}
      /\ e.type \in {"created", "deleted"} => e.id \in Sessions
  BY DEF Events
<1>2. /\ \A x \in Sessions : sessions[x] # "none" => sessions'[x] # "none"
      /\ \A x \in Sessions : sessions[x] = "deleted" => sessions'[x] = "deleted"
      /\ asked \subseteq asked' /\ settled \subseteq settled'
  <2>1. CASE UNCHANGED daemonVars
    BY <2>1 DEF daemonVars
  <2>2. CASE \E s \in Sessions : CreateSession(s) \/ DeleteSession(s)
    BY <2>2 DEF CreateSession, DeleteSession, TypeOK
  <2>3. CASE \E p \in Permissions : Ask(p) \/ UserReplies(p)
    BY <2>3 DEF Ask, UserReplies
  <2>4. CASE \E p \in Permissions : ReplyDispatches(p)
    BY <2>4 DEF ReplyDispatches
  <2>. QED  BY <2>1, <2>2, <2>3, <2>4
<1>3. CASE e.type = "created"
  <2>1. sessions[e.id] # "none"
    BY <1>3, Zenon DEF Happened
  <2>2. sessions'[e.id] # "none"
    BY <1>1, <1>2, <1>3, <2>1
  <2>. QED  BY <1>3, <2>2, Zenon DEF Happened
<1>4. CASE e.type = "deleted"
  <2>1. sessions[e.id] = "deleted"
    BY <1>4, Zenon DEF Happened
  <2>2. sessions'[e.id] = "deleted"
    BY <1>1, <1>2, <1>4, <2>1
  <2>. QED  BY <1>4, <2>2, Zenon DEF Happened
<1>5. CASE e.type = "asked"
  <2>1. e.id \in asked
    BY <1>5, Zenon DEF Happened
  <2>2. e.id \in asked'
    BY <1>2, <2>1
  <2>. QED  BY <1>5, <2>2, Zenon DEF Happened
<1>6. CASE e.type = "replied"
  <2>1. e.id \in settled
    BY <1>6, Zenon DEF Happened
  <2>2. e.id \in settled'
    BY <1>2, <2>1
  <2>. QED  BY <1>6, <2>2, Zenon DEF Happened
<1>. QED  BY <1>1, <1>3, <1>4, <1>5, <1>6

DaemonStep ==
  \/ \E s \in Sessions : CreateSession(s) \/ DeleteSession(s)
  \/ \E p \in Permissions : Ask(p) \/ UserReplies(p)

LEMMA DaemonMoves ==
  ASSUME IInv, DaemonStep
  PROVE  IInv'
<1>1. /\ UNCHANGED <<m, hydrationVars, persisted, sent, heard, historyVars>>
      /\ TypeOK'
      /\ \A x \in Sessions : sessions[x] = "deleted" => sessions'[x] = "deleted"
      /\ settled \subseteq settled'
  <2>1. ASSUME NEW s \in Sessions, CreateSession(s) \/ DeleteSession(s)
        PROVE  /\ UNCHANGED <<m, hydrationVars, persisted, sent, heard, historyVars>>
               /\ TypeOK'
               /\ \A x \in Sessions : sessions[x] = "deleted" => sessions'[x] = "deleted"
               /\ settled \subseteq settled'
    BY <2>1 DEF CreateSession, DeleteSession, IInv, TypeOK, hydrationVars, historyVars
  <2>2. ASSUME NEW p \in Permissions, Ask(p) \/ UserReplies(p)
        PROVE  /\ UNCHANGED <<m, hydrationVars, persisted, sent, heard, historyVars>>
               /\ TypeOK'
               /\ \A x \in Sessions : sessions[x] = "deleted" => sessions'[x] = "deleted"
               /\ settled \subseteq settled'
    BY <2>2 DEF Ask, UserReplies, IInv, TypeOK, hydrationVars, historyVars
  <2>. QED  BY <2>1, <2>2 DEF DaemonStep
<1>2. LostOK(m)'
  <2>1. LostOK(m) /\ lost \subseteq Permissions
    BY DEF IInv, ManagerInv, TypeOK
  <2>2. lost' = lost /\ m' = m
    BY <1>1 DEF historyVars
  <2>. QED  BY <1>1, <2>1, <2>2, PermissionAssumption DEF LostOK
<1>3. HeardOK'
  <2>1. \A i \in Instances : \A e \in heard[i] : e \in Events /\ Happened(e)'
    BY HappenedStays DEF IInv, ManagerInv, TypeOK, HeardOK, DaemonStep
  <2>. QED  BY <1>1, <2>1 DEF HeardOK
<1>4. /\ ClearOK(m, phase)' /\ RootsOK(m)' /\ SeenOK(m)'
      /\ (writeFailures = 0 => TriedOK(m, heard))'
      /\ FlightOK(m, heard)' /\ SentOK' /\ QueueOK'
      /\ (\A i \in Instances : PendingOK(m, i, heard[i]))'
  <2>1. /\ m' = m /\ phase' = phase /\ queued' = queued /\ heard' = heard
        /\ sent' = sent /\ writeFailures' = writeFailures /\ overtaken' = overtaken
    BY <1>1 DEF hydrationVars, historyVars
  <2>. QED  BY <2>1 DEF IInv, ManagerInv, SentOK, QueueOK, TriedOK, Excused, PendingOK
<1>. QED  BY <1>1, <1>2, <1>3, <1>4 DEF IInv, ManagerInv

-----------------------------------------------------------------------------
(* The actions: hydration and events *)

\* The hydration moves on between phases in which the workspace has nothing.
LEMMA HydrationMoves ==
  ASSUME IInv, NEW i \in Instances,
         StartHydration(i) \/ HydrationLists(i) \/ HydrationFails(i)
  PROVE  IInv'
<1>1. /\ UNCHANGED <<m, queued, persisted, sent, daemonVars, heard, historyVars>>
      /\ TypeOK'
      /\ phase[i] \notin {"filled", "hydrated", "stopped"}
      /\ phase'[i] \notin {"filled", "hydrated", "stopped"}
      /\ \A j \in Instances \ {i} : phase'[j] = phase[j]
  <2>1. CASE StartHydration(i)
    BY <2>1 DEF StartHydration, IInv, TypeOK, Phases, daemonVars, historyVars
  <2>2. CASE HydrationLists(i)
    BY <2>2 DEF HydrationLists, IInv, TypeOK, Phases, daemonVars, historyVars
  <2>3. CASE HydrationFails(i)
    BY <2>3 DEF HydrationFails, IInv, TypeOK, Phases, daemonVars, historyVars
  <2>. QED  BY <2>1, <2>2, <2>3
<1>2. \A j \in Instances :
         /\ phase'[j] = "filled" <=> phase[j] = "filled"
         /\ phase'[j] = "hydrated" <=> phase[j] = "hydrated"
         /\ phase'[j] = "stopped" <=> phase[j] = "stopped"
  BY <1>1
<1>3. /\ m' = m /\ queued' = queued /\ heard' = heard /\ sent' = sent
      /\ writeFailures' = writeFailures /\ lost' = lost /\ overtaken' = overtaken
      /\ sessions' = sessions /\ asked' = asked /\ settled' = settled
  BY <1>1 DEF daemonVars, historyVars
<1>4. ClearOK(m, phase)' /\ QueueOK'
      /\ (\A j \in Instances : PendingOK(m, j, heard[j]))'
  <2>1. ClearOK(m, phase)'
    BY <1>2, <1>3 DEF IInv, ManagerInv, ClearOK
  <2>2. QueueOK'
    BY <1>2, <1>3 DEF IInv, ManagerInv, QueueOK, QueueFits
  <2>3. (\A j \in Instances : PendingOK(m, j, heard[j]))'
    BY <1>3 DEF IInv, ManagerInv, PendingOK
  <2>. QED  BY <2>1, <2>2, <2>3
<1>5. /\ RootsOK(m)' /\ SeenOK(m)' /\ (writeFailures = 0 => TriedOK(m, heard))'
      /\ FlightOK(m, heard)' /\ SentOK' /\ LostOK(m)' /\ HeardOK'
  BY <1>3 DEF IInv, ManagerInv, SentOK, LostOK, HeardOK, Happened, TriedOK, Excused
<1>. QED  BY <1>1, <1>4, <1>5 DEF IInv, ManagerInv

\* More events heard exempt more requests.
LEMMA HeardGrows ==
  ASSUME NEW mem, NEW hd, NEW new, \A i \in Instances : hd[i] \subseteq new[i]
  PROVE  /\ TriedOK(mem, hd) => TriedOK(mem, new)
         /\ FlightOK(mem, hd) => FlightOK(mem, new)
<1>1. \A J \in SUBSET Instances : \A p : OverAt(hd, J, p) => OverAt(new, J, p)
  BY DEF OverAt, Over
<1>. QED  BY <1>1 DEF TriedOK, FlightOK, Excused

\* clearInstance.
LEMMA ClearMoves ==
  ASSUME IInv, NEW i \in Instances, ClearInstance(i)
  PROVE  IInv'
<1> DEFINE none == [s \in Sessions |-> "unknown"]
           tree == [m.tree EXCEPT ![i] = none]
           enabled == [m.enabled EXCEPT ![i] = {}]
           pending == [m.pending EXCEPT ![i] = {}]
<1>1. m \in Memory
  BY DEF IInv, TypeOK
<1>2. /\ tree \in [Instances -> [Sessions -> {"unknown", "plain", "fork"}]]
      /\ enabled \in [Instances -> SUBSET Sessions]
      /\ pending \in [Instances -> SUBSET Permissions]
      /\ tree[i] = none /\ enabled[i] = {} /\ pending[i] = {}
      /\ \A j \in Instances \ {i} : /\ tree[j] = m.tree[j] /\ enabled[j] = m.enabled[j]
                                    /\ pending[j] = m.pending[j]
  BY <1>1 DEF Memory
<1>3. m' = [m EXCEPT !.tree = tree, !.enabled = enabled, !.pending = pending]
  BY DEF ClearInstance
<1> HIDE DEF tree, enabled, pending
<1>4. /\ m' \in Memory /\ m'.tree = tree /\ m'.enabled = enabled
      /\ m'.pending = pending /\ m'.chain = m.chain
      /\ m'.attempts = m.attempts /\ m'.inFlight = m.inFlight
  BY <1>1, <1>2, <1>3 DEF Memory
<1>5. /\ phase'[i] = "stopped" /\ \A j \in Instances \ {i} : phase'[j] = phase[j]
      /\ \A j \in Instances \ {i} : queued'[j] = queued[j]
      /\ queued'[i] = <<>> /\ overtaken' = overtaken
      /\ heard' = heard /\ sent' = sent /\ writeFailures' = writeFailures
      /\ lost' = lost /\ sessions' = sessions /\ asked' = asked /\ settled' = settled
  BY DEF ClearInstance, IInv, TypeOK, daemonVars, historyVars
<1>6. TypeOK'
  <2>1. phase' \in [Instances -> Phases] /\ queued' \in [Instances -> Seq(Events)]
    BY DEF ClearInstance, IInv, TypeOK, Phases
  <2>. QED  BY <1>4, <1>5, <2>1 DEF ClearInstance, IInv, TypeOK, historyVars
<1>7. ClearOK(m, phase)'
  <2> SUFFICES ASSUME NEW j \in Instances, phase'[j] \notin {"filled", "hydrated"}
               PROVE  /\ m'.tree[j] = none /\ m'.enabled[j] = {} /\ m'.pending[j] = {}
                      /\ phase'[j] # "stopped" => m'.chain[j] = <<>>
    BY DEF ClearOK
  <2>1. CASE j = i
    BY <1>2, <1>4, <1>5, <2>1
  <2>2. CASE j # i
    BY <1>2, <1>4, <1>5, <2>2 DEF IInv, ManagerInv, ClearOK
  <2>. QED  BY <2>1, <2>2
<1>8. RootsOK(m')
  BY <1>2, <1>4 DEF IInv, ManagerInv, RootsOK
<1>9. SeenOK(m') /\ FlightOK(m', heard')
  BY <1>4, <1>5 DEF IInv, ManagerInv, SeenOK, FlightOK
<1>10. TriedOK(m, heard) => TriedOK(m', heard')
  <2> SUFFICES ASSUME TriedOK(m, heard), NEW j \in Instances, NEW p \in m'.pending[j],
                      Untried(m', j, p)
               PROVE  Excused(heard', j, p) \/ ToBeDisabled(m', j, p)
    BY DEF TriedOK
  <2>1. j # i /\ p \in m.pending[j]
    BY <1>2, <1>4
  <2>2. Untried(m, j, p)
    BY <1>2, <1>4, <2>1 DEF Untried, Knows, IsEnabled, FamilyRoot
  <2>3. ToBeDisabled(m, j, p) => ToBeDisabled(m', j, p)
    BY <1>2, <1>4, <2>1 DEF ToBeDisabled, FamilyRoot
  <2>. QED  BY <1>5, <2>1, <2>2, <2>3 DEF TriedOK
<1>11. LostOK(m)' /\ HeardOK' /\ SentOK'
  BY <1>4, <1>5 DEF IInv, ManagerInv, LostOK, HeardOK, SentOK, Happened
<1>12. (\A j \in Instances : PendingOK(m, j, heard[j]))'
  BY <1>2, <1>4, <1>5 DEF IInv, ManagerInv, PendingOK
<1>13. QueueOK'
  <2>1. \A j \in Instances \ {i} :
           QueueFits(phase'[j], queued'[j], heard'[j], overtaken'[j])
    BY <1>5 DEF IInv, ManagerInv, QueueOK
  <2>2. QueueFits(phase'[i], queued'[i], heard'[i], overtaken'[i])
    BY <1>5 DEF QueueFits
  <2>. QED  BY <2>1, <2>2 DEF QueueOK
<1>14. (writeFailures = 0 => TriedOK(m, heard))'
  BY <1>5, <1>10 DEF IInv, ManagerInv, TriedOK, Excused
<1>. QED  BY <1>6, <1>7, <1>8, <1>9, <1>11, <1>12, <1>13, <1>14 DEF IInv, ManagerInv

\* What comes after a request in the lane of its session says that it is over.
LEMMA OnlyEndsFollow ==
  ASSUME NEW a \in Events, NEW e \in Events, a.type = "asked", Precedes(a, e)
  PROVE  a.id \in Permissions /\ (e = Replied(a.id) \/ e = SessionEnd(a.id))
<1>1. a.id \in Permissions
  BY DEF Events
<1>2. /\ e.type \in {"created", "deleted", "asked", "replied"}
      /\ e = [type |-> e.type, id |-> e.id]
  BY DEF Events
<1>3. e.type \notin {"created", "asked"}
  BY DEF Precedes, Rank
<1>4. CASE e.type = "replied"
  <2>1. a.id = e.id
    BY <1>4 DEF Precedes
  <2>. QED  BY <1>1, <1>2, <1>4, <2>1 DEF Replied
<1>5. CASE e.type = "deleted"
  <2>1. LaneOf(a) = SessionOf[a.id] /\ LaneOf(e) = e.id
    BY <1>5 DEF LaneOf
  <2>2. e.id = SessionOf[a.id]
    BY <2>1 DEF Precedes
  <2>. QED  BY <1>1, <1>2, <1>5, <2>2 DEF SessionEnd
<1>. QED  BY <1>1, <1>2, <1>3, <1>4, <1>5

\* Between the two steps of the hydration an event overtakes the queue.
LEMMA QueueOvertaken ==
  ASSUME TypeOK, NEW i \in Instances, NEW e \in Events, NEW H, NEW O,
         e \notin H, QueueFits("filled", queued[i], H, O)
  PROVE  QueueFits("filled", queued[i], H \cup {e}, O \cup Overtakes(i, e))
<1> DEFINE q == queued[i]
<1>1. q \in Seq(Events)
  BY DEF TypeOK
<1>2. /\ InQueue(q) \subseteq H
      /\ \A n \in 1..Len(q) :
           /\ InTurn(q[n], H \ InQueue(q), O)
           /\ \A k \in 1..(n - 1) : ~Precedes(q[n], q[k])
  BY DEF QueueFits
<1>3. ASSUME NEW n \in 1..Len(q), NEW f \in (H \cup {e}) \ InQueue(q),
             Precedes(q[n], f), q[n].type = "asked"
      PROVE  q[n].id \in O \cup Overtakes(i, e)
  <2>1. CASE f = e
    <3>1. /\ q[n].id \in Permissions
          /\ e = Replied(q[n].id) \/ e = SessionEnd(q[n].id)
      BY <1>1, <1>3, <2>1, OnlyEndsFollow
    <3>2. q[n] = [type |-> "asked", id |-> q[n].id]
      BY <1>1, <1>3 DEF Events
    <3>. QED  BY <3>1, <3>2 DEF Overtakes, Replied, SessionEnd
  <2>2. CASE f # e
    BY <1>2, <1>3, <2>2 DEF InTurn
  <2>. QED  BY <2>1, <2>2
<1>4. \A n \in 1..Len(q) :
        InTurn(q[n], (H \cup {e}) \ InQueue(q), O \cup Overtakes(i, e))
  BY <1>3 DEF InTurn
<1>5. InQueue(q) \subseteq H \cup {e}
  BY <1>2
<1> HIDE DEF q
<1>. QED  BY <1>2, <1>4, <1>5 DEF QueueFits, q

\* Before the hydration it joins the queue.
LEMMA QueueGrows ==
  ASSUME NEW q \in Seq(Events), NEW e \in Events, NEW H, NEW O, NEW ph, NEW new,
         ph \notin {"filled", "hydrated", "stopped"}, QueueFits(ph, q, H, O),
         new \notin {"filled", "hydrated", "stopped"},
         ~ \E f \in H : Precedes(e, f)
  PROVE  QueueFits(new, Append(q, e), H \cup {e}, O)
<1> DEFINE r == Append(q, e)
<1>1. /\ H = InQueue(q)
      /\ \A n \in 1..Len(q) : \A k \in 1..(n - 1) : ~Precedes(q[n], q[k])
  BY DEF QueueFits
<1>2. /\ Len(q) \in Nat /\ Len(r) = Len(q) + 1 /\ r[Len(q) + 1] = e
      /\ \A n \in 1..Len(q) : r[n] = q[n]
  OBVIOUS
<1> HIDE DEF r
<1>3. 1..Len(r) = (1..Len(q)) \cup {Len(q) + 1}
  BY <1>2
<1>4. InQueue(r) = H \cup {e}
  BY <1>1, <1>2, <1>3 DEF InQueue
<1>5. ASSUME NEW n \in 1..Len(r), NEW k \in 1..(n - 1)
      PROVE  ~Precedes(r[n], r[k])
  <2>1. k \in 1..Len(q) /\ r[k] = q[k]
    BY <1>2
  <2>2. CASE n = Len(q) + 1
    <3>1. r[k] \in H
      BY <1>1, <2>1 DEF InQueue
    <3>. QED  BY <1>2, <2>2, <3>1
  <2>3. CASE n \in 1..Len(q)
    BY <1>1, <1>2, <2>1, <2>3
  <2>. QED  BY <1>3, <2>2, <2>3
<1>6. \A n \in 1..Len(r) : InTurn(r[n], (H \cup {e}) \ InQueue(r), O)
  BY <1>4 DEF InTurn
<1>. QED  BY <1>4, <1>5, <1>6 DEF QueueFits, r

\* An event is handled at once, or joins the queue.
LEMMA RelayMoves ==
  ASSUME IInv, NEW i \in Instances, NEW e \in Events, Relay(i, e)
  PROVE  IInv'
<1>1. /\ m \in Memory /\ lost \subseteq Permissions
      /\ heard \in [Instances -> SUBSET Events] /\ phase \in [Instances -> Phases]
      /\ queued \in [Instances -> Seq(Events)]
      /\ overtaken \in [Instances -> SUBSET Permissions]
  BY DEF IInv, TypeOK
<1>2. /\ phase[i] \notin {"closed", "stopped"} /\ Happened(e) /\ e \notin heard[i]
      /\ ~ \E f \in heard[i] : Precedes(e, f)
      /\ heard' = [heard EXCEPT ![i] = heard[i] \cup {e}]
      /\ listed' = listed /\ persisted' = persisted /\ sent' = sent
      /\ sessions' = sessions /\ asked' = asked /\ settled' = settled
      /\ lost' = lost /\ toggles' = toggles /\ writeFailures' = writeFailures
      /\ strayed' = strayed
  BY DEF Relay, daemonVars
<1>3. /\ heard'[i] = heard[i] \cup {e} /\ e \in heard'[i]
      /\ \A j \in Instances \ {i} : heard'[j] = heard[j]
      /\ \A j \in Instances : heard[j] \subseteq heard'[j]
      /\ heard' \in [Instances -> SUBSET Events]
  BY <1>1, <1>2
<1>4. /\ writeFailures = 0 => TriedOK(m, heard')
      /\ FlightOK(m, heard')
  BY <1>3, HeardGrows DEF IInv, ManagerInv
<1>5. HeardOK'
  BY <1>2, <1>3 DEF IInv, ManagerInv, HeardOK, Happened
<1>6. CASE phase[i] \in Ready
  <2>1. /\ m' = HandleInstanceEvent(m, i, e) /\ phase' = phase /\ queued' = queued
        /\ overtaken' = [overtaken EXCEPT ![i] = overtaken[i] \cup Overtakes(i, e)]
    BY <1>6 DEF Relay
  <2>2. /\ overtaken'[i] = overtaken[i] \cup Overtakes(i, e)
        /\ \A j \in Instances \ {i} : overtaken'[j] = overtaken[j]
        /\ \A j \in Instances : overtaken[j] \subseteq overtaken'[j]
        /\ overtaken' \in [Instances -> SUBSET Permissions]
    BY <1>1, <2>1 DEF Overtakes
  <2>3. EventInv(m, heard', i, heard[i])
    BY <1>1, <1>4 DEF IInv, ManagerInv, EventInv
  <2>4. InTurn(e, heard[i], overtaken[i])
    BY <1>2 DEF InTurn
  <2>5. EventInv(m', heard', i, heard'[i]) /\ OthersKept(m, m', i)
    BY <1>1, <1>2, <1>3, <2>1, <2>3, <2>4, EventStep
  <2>6. TypeOK'
    BY <1>2, <1>3, <2>1, <2>2, <2>5 DEF IInv, TypeOK, EventInv
  <2>7. ClearOK(m, phase)'
    BY <1>6, <2>1, <2>5 DEF IInv, ManagerInv, ClearOK, OthersKept, Ready
  <2>8. /\ RootsOK(m)' /\ SeenOK(m)' /\ (writeFailures = 0 => TriedOK(m, heard))'
        /\ FlightOK(m, heard)' /\ LostOK(m)'
    <3>1. RootsOK(m)' /\ SeenOK(m)' /\ FlightOK(m, heard)' /\ LostOK(m)'
      BY <1>2, <2>5 DEF EventInv, LostOK
    <3>2. writeFailures' = 0 => TriedOK(m', heard')
      BY <1>2, <2>5 DEF EventInv
    <3>. QED  BY <2>2, <3>1, <3>2 DEF TriedOK, Excused
  <2>9. (\A j \in Instances : PendingOK(m, j, heard[j]))'
    <3> SUFFICES ASSUME NEW j \in Instances, NEW p \in m'.pending[j], Over(heard'[j], p)
                 PROVE  p \in overtaken'[j]
      BY DEF PendingOK
    <3>1. CASE j = i
      BY <2>2, <2>5, <3>1 DEF EventInv, PendingOK
    <3>2. CASE j # i
      BY <1>3, <2>2, <2>5, <3>2 DEF IInv, ManagerInv, PendingOK, OthersKept
    <3>. QED  BY <3>1, <3>2
  <2>10. SentOK'
    BY <1>2, <2>5 DEF IInv, ManagerInv, TypeOK, SentOK, OthersKept
  <2>11. QueueOK'
    <3>1. \A j \in Instances : QueueFits(phase[j], queued[j], heard[j], overtaken[j])
      BY DEF IInv, ManagerInv, QueueOK
    <3>2. QueueFits(phase[i], queued[i], heard'[i], overtaken'[i])
      <4>1. CASE phase[i] = "filled"
        <5>1. QueueFits("filled", queued[i], heard[i], overtaken[i])
          BY <3>1, <4>1
        <5>2. QueueFits("filled", queued[i], heard[i] \cup {e},
                        overtaken[i] \cup Overtakes(i, e))
          BY <1>2, <5>1, QueueOvertaken DEF IInv
        <5>. QED  BY <1>3, <2>2, <4>1, <5>2
      <4>2. CASE phase[i] = "hydrated"
        BY <3>1, <4>2 DEF QueueFits
      <4>. QED  BY <1>6, <4>1, <4>2 DEF Ready
    <3>. QED  BY <1>3, <2>1, <2>2, <3>1, <3>2 DEF QueueOK
  <2>. QED  BY <1>5, <2>6, <2>7, <2>8, <2>9, <2>10, <2>11 DEF IInv, ManagerInv
<1>7. CASE phase[i] \notin Ready
  <2>1. /\ m' = m /\ queued' = [queued EXCEPT ![i] = Append(queued[i], e)]
        /\ phase' = [phase EXCEPT ![i] = IF phase[i] = "idle" THEN "listing" ELSE phase[i]]
        /\ overtaken' = overtaken
    BY <1>7 DEF Relay
  <2>2. /\ phase[i] \notin {"filled", "hydrated", "stopped"}
        /\ phase'[i] \notin {"filled", "hydrated", "stopped"} /\ phase' \in [Instances -> Phases]
        /\ \A j \in Instances \ {i} : phase'[j] = phase[j]
    BY <1>1, <1>2, <1>7, <2>1 DEF Phases, Ready
  <2>3. /\ queued' \in [Instances -> Seq(Events)]
        /\ queued'[i] = Append(queued[i], e)
        /\ \A j \in Instances \ {i} : queued'[j] = queued[j]
    BY <1>1, <2>1
  <2>4. TypeOK'
    BY <1>2, <1>3, <2>1, <2>2, <2>3 DEF IInv, TypeOK
  <2>5. ClearOK(m, phase)'
    BY <1>2, <1>7, <2>1, <2>2 DEF IInv, ManagerInv, ClearOK
  <2>6. /\ RootsOK(m)' /\ SeenOK(m)' /\ (writeFailures = 0 => TriedOK(m, heard))'
        /\ FlightOK(m, heard)' /\ LostOK(m)' /\ SentOK'
    BY <1>2, <1>4, <2>1 DEF IInv, ManagerInv, LostOK, SentOK, TriedOK, Excused
  <2>7. (\A j \in Instances : PendingOK(m, j, heard[j]))'
    <3>1. m.pending[i] = {}
      BY <2>2 DEF IInv, ManagerInv, ClearOK
    <3>. QED  BY <1>3, <2>1, <3>1 DEF IInv, ManagerInv, PendingOK
  <2>8. QueueOK'
    <3>1. \A j \in Instances : QueueFits(phase[j], queued[j], heard[j], overtaken[j])
      BY DEF IInv, ManagerInv, QueueOK
    <3>2. QueueFits(phase'[i], queued'[i], heard'[i], overtaken'[i])
      BY <1>1, <1>2, <1>3, <2>1, <2>2, <2>3, <3>1, QueueGrows
    <3>. QED  BY <1>3, <2>1, <2>2, <2>3, <3>1, <3>2 DEF QueueOK
  <2>. QED  BY <1>5, <2>4, <2>5, <2>6, <2>7, <2>8 DEF IInv, ManagerInv
<1>. QED  BY <1>6, <1>7

\* The memory as listed: nothing pending, and the stored roots that are roots.
LEMMA HydratedStart ==
  ASSUME IInv, NEW i \in Instances, phase[i] = "owning"
  PROVE  /\ EventInv(Hydrated(i), heard, i, {}) /\ OthersKept(m, Hydrated(i), i)
         /\ Hydrated(i).pending[i] = {}
<1> DEFINE known == [s \in Sessions |-> IF s \in listed[i] THEN KindOf(s) ELSE "unknown"]
           tree == [m.tree EXCEPT ![i] = known]
           filled == [m EXCEPT !.tree = tree]
           roots == {s \in listed[i] \cap persisted : FamilyRoot(filled, i, s) = s}
           enabled == [m.enabled EXCEPT ![i] = roots]
           new == [filled EXCEPT !.enabled = enabled]
<1>1. m \in Memory /\ persisted \subseteq Sessions
  BY DEF IInv, TypeOK
<1>2. m.pending[i] = {}
  BY DEF IInv, ManagerInv, ClearOK
<1>3. /\ tree \in [Instances -> [Sessions -> {"unknown", "plain", "fork"}]]
      /\ tree[i] = known /\ \A j \in Instances \ {i} : tree[j] = m.tree[j]
  BY <1>1, KindType DEF Memory
<1>4. /\ roots \subseteq Sessions
      /\ enabled \in [Instances -> SUBSET Sessions]
      /\ enabled[i] = roots /\ \A j \in Instances \ {i} : enabled[j] = m.enabled[j]
  BY <1>1 DEF Memory
<1>5. Hydrated(i) = new
  BY DEF Hydrated
<1> HIDE DEF tree, enabled
<1>6. /\ filled.tree = tree /\ filled.enabled = m.enabled /\ SameButFamilies(m, filled)
      /\ filled.chain = m.chain /\ filled \in Memory
  BY <1>1, <1>3 DEF Memory, SameButFamilies
<1> HIDE DEF filled
<1>7. /\ new.tree = tree /\ new.enabled = enabled /\ SameButFamilies(m, new)
      /\ new.chain = m.chain /\ new \in Memory
  BY <1>4, <1>6 DEF Memory, SameButFamilies
<1> HIDE DEF new
<1>8. RootsOK(new)
  <2>1. \A r \in roots : r \in Sessions /\ RootIn(known, r) = r
    BY <1>3, <1>4, <1>6 DEF FamilyRoot
  <2>2. \A r \in roots : ~Climbs(known, r)
    <3> HIDE DEF roots, known
    <3>. QED  BY <2>1, RootIsARoot
  <2>. QED  BY <1>3, <1>4, <1>7, <2>2 DEF RootsOK, IInv, ManagerInv
<1>9. /\ SeenOK(new) /\ FlightOK(new, heard) /\ LostOK(new) /\ PendingOK(new, i, {})
  BY <1>2, <1>7 DEF IInv, ManagerInv, SeenOK, FlightOK, LostOK, PendingOK, SameButFamilies
<1>10. ASSUME TriedOK(m, heard), NEW j \in Instances, NEW p \in new.pending[j],
              Untried(new, j, p)
       PROVE  Excused(heard, j, p) \/ ToBeDisabled(new, j, p)
  <2>1. j # i /\ p \in m.pending[j]
    BY <1>2, <1>7 DEF SameButFamilies
  <2>2. Untried(m, j, p)
    BY <1>3, <1>4, <1>7, <1>10, <2>1
       DEF Untried, Knows, IsEnabled, FamilyRoot, SameButFamilies
  <2>3. ToBeDisabled(m, j, p) => ToBeDisabled(new, j, p)
    BY <1>3, <1>7, <2>1 DEF ToBeDisabled, FamilyRoot
  <2>. QED  BY <1>10, <2>1, <2>2, <2>3 DEF TriedOK
<1>11. writeFailures = 0 => TriedOK(new, heard)
  BY <1>10 DEF TriedOK, IInv, ManagerInv
<1>12. EventInv(new, heard, i, {})
  BY <1>7, <1>8, <1>9, <1>11 DEF EventInv
<1>13. OthersKept(m, new, i)
  BY <1>3, <1>4, <1>7 DEF OthersKept, SameButFamilies
<1>14. new.pending[i] = {}
  BY <1>2, <1>7 DEF SameButFamilies
<1>. QED  BY <1>5, <1>12, <1>13, <1>14

\* The then of hydrateInstance: the queue stays as it was.
LEMMA FillMoves ==
  ASSUME IInv, NEW i \in Instances, HydrationFills(i)
  PROVE  IInv'
<1>1. /\ phase[i] = "owning" /\ m' = Hydrated(i)
      /\ phase'[i] = "filled" /\ \A j \in Instances \ {i} : phase'[j] = phase[j]
      /\ queued' = queued /\ overtaken' = overtaken
      /\ persisted' = persisted /\ sent' = sent /\ heard' = heard
      /\ sessions' = sessions /\ asked' = asked /\ settled' = settled
      /\ lost' = lost /\ toggles' = toggles /\ writeFailures' = writeFailures
      /\ strayed' = strayed
  BY DEF HydrationFills, IInv, TypeOK, daemonVars, historyVars
<1>2. EventInv(m', heard, i, {}) /\ OthersKept(m, m', i) /\ m'.pending[i] = {}
  BY <1>1, HydratedStart
<1>3. TypeOK'
  <2>1. phase' \in [Instances -> Phases] /\ listed' \in [Instances -> SUBSET Sessions]
    BY DEF HydrationFills, IInv, TypeOK, Phases
  <2>2. m' \in Memory
    BY <1>2 DEF EventInv
  <2>. QED  BY <1>1, <2>1, <2>2 DEF IInv, TypeOK
<1>4. ClearOK(m, phase)'
  BY <1>1, <1>2 DEF IInv, ManagerInv, ClearOK, OthersKept
<1>5. /\ RootsOK(m)' /\ SeenOK(m)' /\ (writeFailures = 0 => TriedOK(m, heard))'
      /\ FlightOK(m, heard)' /\ LostOK(m)'
  BY <1>1, <1>2 DEF EventInv, LostOK, TriedOK, Excused
<1>6. (\A j \in Instances : PendingOK(m, j, heard[j]))'
  BY <1>1, <1>2 DEF IInv, ManagerInv, PendingOK, OthersKept
<1>7. SentOK' /\ HeardOK' /\ QueueOK'
  <2>1. SentOK'
    BY <1>1, <1>2 DEF IInv, ManagerInv, TypeOK, SentOK, OthersKept
  <2>2. HeardOK'
    BY <1>1 DEF IInv, ManagerInv, HeardOK, Happened
  <2>3. \A j \in Instances : QueueFits(phase[j], queued[j], heard[j], overtaken[j])
    BY DEF IInv, ManagerInv, QueueOK
  <2>4. QueueFits("filled", queued[i], heard[i], overtaken[i])
    BY <1>1, <2>3 DEF QueueFits
  <2>5. QueueOK'
    BY <1>1, <2>3, <2>4 DEF QueueOK
  <2>. QED  BY <2>1, <2>2, <2>5
<1>. QED  BY <1>3, <1>4, <1>5, <1>6, <1>7 DEF IInv, ManagerInv

\* Its finally: the queue goes through the handlers of what was heard meanwhile.
LEMMA ReplayMoves ==
  ASSUME IInv, NEW i \in Instances, HydrationReplays(i)
  PROVE  IInv'
<1> DEFINE q == queued[i]
           before == heard[i] \ InQueue(q)
<1>1. /\ phase[i] = "filled" /\ m' = Replayed(i, Len(queued[i]))
      /\ phase'[i] = "hydrated" /\ \A j \in Instances \ {i} : phase'[j] = phase[j]
      /\ queued'[i] = <<>> /\ \A j \in Instances \ {i} : queued'[j] = queued[j]
      /\ listed' = listed /\ overtaken' = overtaken
      /\ persisted' = persisted /\ sent' = sent /\ heard' = heard
      /\ sessions' = sessions /\ asked' = asked /\ settled' = settled
      /\ lost' = lost /\ toggles' = toggles /\ writeFailures' = writeFailures
      /\ strayed' = strayed
  BY DEF HydrationReplays, IInv, TypeOK, daemonVars, historyVars
<1>2. queued[i] \in Seq(Events) /\ lost \subseteq Permissions
  BY DEF IInv, TypeOK
<1>3. /\ InQueue(q) \subseteq heard[i]
      /\ \A n \in 1..Len(q) :
           /\ InTurn(q[n], before, overtaken[i])
           /\ \A k \in 1..(n - 1) : ~Precedes(q[n], q[k])
  BY <1>1 DEF IInv, ManagerInv, QueueOK, QueueFits
<1>4. \A n \in 1..Len(q) : q[n] \in heard[i] /\ Happened(q[n])
  BY <1>3 DEF InQueue, IInv, ManagerInv, HeardOK
<1>5. EventInv(m, heard, i, before)
  BY DEF IInv, TypeOK, ManagerInv, EventInv, PendingOK, Over
<1>6. EventInv(m', heard, i, before \cup InQueue(q)) /\ OthersKept(m, m', i)
  <2> HIDE DEF before
  <2>. QED  BY <1>1, <1>2, <1>3, <1>4, <1>5, ReplayStep
<1>7. EventInv(m', heard, i, heard[i])
  <2>1. before \cup InQueue(q) = heard[i]
    BY <1>3
  <2>. QED  BY <1>6, <2>1
<1> HIDE DEF before, q
<1>8. TypeOK'
  <2>1. phase' \in [Instances -> Phases] /\ queued' \in [Instances -> Seq(Events)]
    BY DEF HydrationReplays, IInv, TypeOK, Phases
  <2>2. m' \in Memory
    BY <1>7 DEF EventInv
  <2>. QED  BY <1>1, <2>1, <2>2 DEF IInv, TypeOK
<1>9. ClearOK(m, phase)'
  BY <1>1, <1>6 DEF IInv, ManagerInv, ClearOK, OthersKept
<1>10. /\ RootsOK(m)' /\ SeenOK(m)' /\ (writeFailures = 0 => TriedOK(m, heard))'
       /\ FlightOK(m, heard)' /\ LostOK(m)'
  BY <1>1, <1>7 DEF EventInv, LostOK, TriedOK, Excused
<1>11. (\A j \in Instances : PendingOK(m, j, heard[j]))'
  <2> SUFFICES ASSUME NEW j \in Instances PROVE PendingOK(m', j, heard[j])
    BY <1>1 DEF PendingOK
  <2>1. CASE j = i
    BY <1>7, <2>1 DEF EventInv
  <2>2. CASE j # i
    BY <1>6, <2>2 DEF IInv, ManagerInv, PendingOK, OthersKept
  <2>. QED  BY <2>1, <2>2
<1>12. SentOK' /\ HeardOK' /\ QueueOK'
  <2>1. SentOK'
    BY <1>1, <1>6 DEF IInv, ManagerInv, TypeOK, SentOK, OthersKept
  <2>2. HeardOK'
    BY <1>1 DEF IInv, ManagerInv, HeardOK, Happened
  <2>3. QueueOK'
    <3>1. \A j \in Instances : QueueFits(phase[j], queued[j], heard[j], overtaken[j])
      BY DEF IInv, ManagerInv, QueueOK
    <3>2. QueueFits(phase'[i], queued'[i], heard'[i], overtaken'[i])
      BY <1>1 DEF QueueFits
    <3>. QED  BY <1>1, <3>1, <3>2 DEF QueueOK
  <2>. QED  BY <2>1, <2>2, <2>3
<1>. QED  BY <1>8, <1>9, <1>10, <1>11, <1>12 DEF IInv, ManagerInv

-----------------------------------------------------------------------------
(* The actions: sessions that are loaded for a request *)

\* A memory in which only the loads differ.
LEMMA LoadingFields ==
  ASSUME NEW mem \in Memory, NEW i \in Instances, NEW s \in Sessions,
         NEW v \in {"no", "asked", "found"}, NEW new, new = [mem EXCEPT !.loading[i][s] = v]
  PROVE  /\ new \in Memory /\ new.tree = mem.tree /\ new.enabled = mem.enabled
         /\ new.pending = mem.pending /\ new.chain = mem.chain
         /\ new.attempts = mem.attempts /\ new.inFlight = mem.inFlight
<1> DEFINE loading == [mem.loading EXCEPT ![i] = [mem.loading[i] EXCEPT ![s] = v]]
<1>1. loading \in [Instances -> [Sessions -> {"no", "asked", "found"}]]
  BY DEF Memory
<1>2. new = [mem EXCEPT !.loading = loading]
  BY DEF Memory
<1> HIDE DEF loading
<1>. QED  BY <1>1, <1>2 DEF Memory

\* No part of the invariant is about loads.
LEMMA LoadingKeeps ==
  ASSUME NEW mem, NEW new, new.tree = mem.tree, new.enabled = mem.enabled,
         new.pending = mem.pending, new.chain = mem.chain,
         new.attempts = mem.attempts, new.inFlight = mem.inFlight
  PROVE  /\ RootsOK(mem) => RootsOK(new)
         /\ SeenOK(mem) => SeenOK(new)
         /\ LostOK(mem) => LostOK(new)
         /\ \A hd : FlightOK(mem, hd) => FlightOK(new, hd)
         /\ \A hd : TriedOK(mem, hd) => TriedOK(new, hd)
         /\ \A i \in Instances : \A H : PendingOK(mem, i, H) => PendingOK(new, i, H)
         /\ \A ph : ClearOK(mem, ph) => ClearOK(new, ph)
<1>1. \A hd : TriedOK(mem, hd) => TriedOK(new, hd)
  <2>1. \A i, p : /\ Untried(new, i, p) = Untried(mem, i, p)
                  /\ ToBeDisabled(new, i, p) = ToBeDisabled(mem, i, p)
    BY DEF Untried, Knows, IsEnabled, FamilyRoot, ToBeDisabled
  <2>. QED  BY <2>1 DEF TriedOK
<1>2. /\ RootsOK(mem) => RootsOK(new)
      /\ SeenOK(mem) => SeenOK(new)
      /\ LostOK(mem) => LostOK(new)
      /\ \A hd : FlightOK(mem, hd) => FlightOK(new, hd)
      /\ \A i \in Instances : \A H : PendingOK(mem, i, H) => PendingOK(new, i, H)
      /\ \A ph : ClearOK(mem, ph) => ClearOK(new, ph)
  <2>1. RootsOK(mem) => RootsOK(new)
    BY DEF RootsOK
  <2>2. SeenOK(mem) => SeenOK(new)
    BY DEF SeenOK
  <2>3. LostOK(mem) => LostOK(new)
    BY DEF LostOK
  <2>4. \A hd : FlightOK(mem, hd) => FlightOK(new, hd)
    BY DEF FlightOK
  <2>5. \A i \in Instances : \A H : PendingOK(mem, i, H) => PendingOK(new, i, H)
    BY DEF PendingOK
  <2>6. \A ph : ClearOK(mem, ph) => ClearOK(new, ph)
    BY DEF ClearOK
  <2>. QED  BY <2>1, <2>2, <2>3, <2>4, <2>5, <2>6
<1>. QED  BY <1>1, <1>2

\* A load that finds its session, misses it, or finds nobody waiting.
LEMMA LoadingMoves ==
  ASSUME IInv, RestKept, RestTyped', sent' = sent, writeFailures' = writeFailures,
         NEW i \in Instances, NEW s \in Sessions, NEW v \in {"no", "asked", "found"},
         m' = [m EXCEPT !.loading[i][s] = v]
  PROVE  IInv'
<1>1. m \in Memory
  BY DEF IInv, TypeOK
<1>2. /\ m' \in Memory /\ m'.tree = m.tree /\ m'.enabled = m.enabled
      /\ m'.pending = m.pending /\ m'.chain = m.chain
      /\ m'.attempts = m.attempts /\ m'.inFlight = m.inFlight
  <2> DEFINE new == [m EXCEPT !.loading[i][s] = v]
  <2>1. m' = new
    OBVIOUS
  <2>2. \A x : x = new =>
          /\ x \in Memory /\ x.tree = m.tree /\ x.enabled = m.enabled
          /\ x.pending = m.pending /\ x.chain = m.chain
          /\ x.attempts = m.attempts /\ x.inFlight = m.inFlight
    BY <1>1, LoadingFields
  <2> HIDE DEF new
  <2>. QED  BY <2>1, <2>2
<1>3. /\ ClearOK(m', phase) /\ RootsOK(m') /\ SeenOK(m')
      /\ writeFailures' = 0 => TriedOK(m', heard)
      /\ FlightOK(m', heard) /\ LostOK(m')
      /\ \A j \in Instances : PendingOK(m', j, heard[j])
  BY <1>2, LoadingKeeps DEF IInv, ManagerInv
<1>4. \A p \in sent' : m'.inFlight[p] # 0
  BY <1>2 DEF IInv, ManagerInv, SentOK
<1>. QED  BY <1>2, <1>3, <1>4, MemoryMoves

\* What the steps of the memory leave as it is.
LEMMA UnchangedRest ==
  UNCHANGED <<hydrationVars, daemonVars, heard, lost, overtaken>> => RestKept
BY DEF hydrationVars, daemonVars, RestKept

LEMMA LoadMoves ==
  ASSUME IInv, NEW i \in Instances, NEW s \in Sessions,
         SessionFound(i, s) \/ SessionLoads(i, s) \/ SessionMissing(i, s)
  PROVE  IInv'
<1>0. RestTyped /\ m \in Memory
  BY DEF IInv, TypeOK, RestTyped
<1>1. CASE SessionFound(i, s) \/ SessionMissing(i, s)
  <2>1. /\ RestKept /\ RestTyped' /\ sent' = sent /\ writeFailures' = writeFailures
        /\ \E v \in {"no", "asked", "found"} : m' = [m EXCEPT !.loading[i][s] = v]
    BY <1>0, <1>1, UnchangedRest DEF SessionFound, SessionMissing, RestTyped, historyVars
  <2>. QED  BY <2>1, LoadingMoves
<1>2. CASE SessionLoads(i, s)
  <2> DEFINE done == [m EXCEPT !.loading[i][s] = "no"]
             kind == KindOf(s)
             grown == Upsert(done, i, s, kind)
  <2>1. /\ RestKept /\ RestTyped' /\ sent' = sent /\ writeFailures' = writeFailures
    BY <1>0, <1>2, UnchangedRest DEF SessionLoads, RestTyped
  <2>2. CASE ~Awaited(i, s)
    <3>1. m' = done
      BY <1>2, <2>2 DEF SessionLoads
    <3>. QED  BY <2>1, <3>1, LoadingMoves
  <2>3. CASE Awaited(i, s)
    <3>1. m' = DrainPending(grown, i, s)
      BY <1>2, <2>3 DEF SessionLoads
    <3>2. phase[i] \in {"filled", "hydrated"}
      BY <2>3 DEF Awaited, IInv, ManagerInv, ClearOK
    <3>3. /\ done \in Memory /\ done.tree = m.tree /\ done.enabled = m.enabled
          /\ done.pending = m.pending /\ done.chain = m.chain
          /\ done.attempts = m.attempts /\ done.inFlight = m.inFlight
      BY <1>0, LoadingFields
    <3> HIDE DEF done
    <3>4. /\ RootsOK(done) /\ SeenOK(done) /\ LostOK(done) /\ FlightOK(done, heard)
          /\ writeFailures = 0 => TriedOK(done, heard)
          /\ PendingOK(done, i, heard[i])
      BY <3>2, <3>3, LoadingKeeps DEF IInv, ManagerInv
    <3>5. kind \in {"plain", "fork"}
      BY KindType
    <3> HIDE DEF kind
    <3>6. Joined(done, grown, i, s, kind)
      BY <3>3, <3>5, UpsertFields, Zenon
    <3>7. /\ RootsOK(grown) /\ SeenOK(grown)
          /\ writeFailures = 0 => TriedBut(grown, heard, i, s)
      BY <3>3, <3>4, <3>5, UpsertTried
    <3> HIDE DEF grown
    <3>8. FlightOK(grown, heard) /\ LostOK(grown) /\ PendingOK(grown, i, heard[i])
      BY <3>4, <3>6 DEF Joined, SameButFamilies, FlightOK, LostOK, PendingOK
    <3>9. grown \in Memory /\ OthersKept(done, grown, i)
      BY <3>3, <3>6 DEF Joined, SameButFamilies, OthersKept, Memory
    <3>10. lost \subseteq Permissions
      BY DEF IInv, TypeOK
    <3>11. EventInv(m', heard, i, heard[i]) /\ OthersKept(grown, m', i)
      BY <3>1, <3>7, <3>8, <3>9, <3>10, DrainStep
    <3>12. OthersKept(m, m', i)
      BY <3>3, <3>9, <3>11 DEF OthersKept
    <3>. QED  BY <2>1, <3>2, <3>11, <3>12, HydratedMoves
  <2>. QED  BY <2>2, <2>3
<1>. QED  BY <1>1, <1>2

-----------------------------------------------------------------------------
(* The actions: the chain of mutations *)

LEMMA PopFields ==
  ASSUME NEW mem \in Memory, NEW i \in Instances, mem.chain[i] # <<>>
  PROVE  Chained(mem, Pop(mem, i), i, Tail(mem.chain[i]))
<1>1. mem.chain[i] \in Seq(Mutations)
  BY DEF Memory
<1>2. Tail(mem.chain[i]) \in Seq(Mutations)
  BY <1>1
<1>3. Pop(mem, i) = [mem EXCEPT !.chain[i] = Tail(mem.chain[i])]
  BY DEF Pop
<1>. QED  BY <1>2, <1>3, ChainFields

\* The first of a chain, replaced by op.
Replaced(q, op) == [q EXCEPT ![1] = op]

LEMMA ReplacedFirst ==
  ASSUME NEW q \in Seq(Mutations), q # <<>>, NEW op \in Mutations
  PROVE  /\ Replaced(q, op) \in Seq(Mutations) /\ Replaced(q, op) # <<>>
         /\ Replaced(q, op)[1] = op /\ Len(Replaced(q, op)) = Len(q)
         /\ \A n \in 2..Len(q) : Replaced(q, op)[n] = q[n]
BY DEF Replaced

LEMMA BecomeFields ==
  ASSUME NEW mem \in Memory, NEW i \in Instances, mem.chain[i] # <<>>, NEW op \in Mutations
  PROVE  Chained(mem, Become(mem, i, op), i, Replaced(mem.chain[i], op))
<1>1. mem.chain[i] \in Seq(Mutations)
  BY DEF Memory
<1>2. Replaced(mem.chain[i], op) \in Seq(Mutations)
  BY <1>1, ReplacedFirst
<1>3. Become(mem, i, op) = [mem EXCEPT !.chain[i] = Replaced(mem.chain[i], op)]
  BY DEF Become, Replaced
<1>. QED  BY <1>2, <1>3, ChainFields

\* What is known of the mutation that runs.
LEMMA FirstOK ==
  ASSUME IInv, NEW i \in Instances, m.chain[i] # <<>>
  PROVE  /\ m \in Memory /\ First(i) \in Mutations /\ First(i) = m.chain[i][1]
         /\ m.chain[i] \in Seq(Mutations)
         /\ \A n \in 2..Len(m.chain[i]) : m.chain[i][n].stage = "load"
         /\ Writing(First(i)) => First(i).last \in First(i).seen /\ First(i).target \in First(i).seen
         /\ phase[i] \in {"filled", "hydrated", "stopped"}
         /\ phase[i] = "stopped" => m.pending[i] = {}
<1>1. m \in Memory /\ m.chain[i] \in Seq(Mutations)
  BY DEF IInv, TypeOK, Memory
<1>2. First(i) = m.chain[i][1] /\ First(i) \in Mutations
  BY <1>1 DEF First
<1>3. /\ \A n \in 2..Len(m.chain[i]) : m.chain[i][n].stage = "load"
      /\ Writing(First(i)) => First(i).last \in First(i).seen /\ First(i).target \in First(i).seen
  BY <1>2 DEF IInv, ManagerInv, SeenOK
<1>4. /\ phase[i] \in {"filled", "hydrated", "stopped"}
      /\ phase[i] = "stopped" => m.pending[i] = {}
  BY DEF IInv, ManagerInv, ClearOK
<1>. QED  BY <1>1, <1>2, <1>3, <1>4

\* The chain goes on without its first mutation, unless that had still to disable
\* a request of a workspace that runs.
LEMMA PopMoves ==
  ASSUME IInv, RestKept, RestTyped', sent' = sent,
         NEW i \in Instances, m.chain[i] # <<>>, m' = Pop(m, i),
         writeFailures' = 0 => writeFailures = 0 /\ (phase[i] = "stopped" \/ ~Writing(First(i)))
  PROVE  IInv'
<1> DEFINE q == Tail(m.chain[i])
<1>1. /\ m \in Memory /\ m.chain[i] \in Seq(Mutations) /\ First(i) = m.chain[i][1]
      /\ \A n \in 2..Len(m.chain[i]) : m.chain[i][n].stage = "load"
      /\ phase[i] = "stopped" => m.pending[i] = {}
  BY FirstOK
<1>2. Chained(m, m', i, q)
  BY <1>1, PopFields
<1>3. \A n \in 1..Len(q) : q[n].stage = "load"
  BY <1>1
<1>4. q # <<>> => q[1].stage = "load"
  BY <1>1, <1>3
<1>5. Len(q) \in Nat /\ \A n \in 2..Len(q) : n \in 1..Len(q)
  BY <1>1
<1> HIDE DEF q
<1>6. q # <<>> => ~Writing(q[1])
  BY <1>4 DEF Writing
<1>7. \A n \in 2..Len(q) : q[n].stage = "load"
  BY <1>3, <1>5
<1>8. writeFailures' = 0 =>
        /\ writeFailures = 0
        /\ \A p \in m.pending[i] :
             ToBeDisabled(m, i, p) /\ Untried(m, i, p) => ToBeDisabled(m', i, p)
  BY <1>1 DEF ToBeDisabled
<1>. QED  BY <1>2, <1>6, <1>7, <1>8, ChainMoves

\* The first mutation moves on; what it is to disable, it still is.
LEMMA BecomeMoves ==
  ASSUME IInv, RestKept, RestTyped', sent' = sent, writeFailures' = writeFailures,
         NEW i \in Instances, m.chain[i] # <<>>, NEW op \in Mutations, m' = Become(m, i, op),
         Writing(op) => op.last \in op.seen /\ op.target \in op.seen,
         Writing(First(i)) /\ ~First(i).enable =>
           Writing(op) /\ ~op.enable /\ First(i).seen \subseteq op.seen
  PROVE  IInv'
<1> DEFINE q == Replaced(m.chain[i], op)
<1>1. /\ m \in Memory /\ m.chain[i] \in Seq(Mutations) /\ First(i) = m.chain[i][1]
      /\ \A n \in 2..Len(m.chain[i]) : m.chain[i][n].stage = "load"
  BY FirstOK
<1>2. Chained(m, m', i, q)
  BY <1>1, BecomeFields
<1>3. /\ q # <<>> /\ q[1] = op /\ Len(q) = Len(m.chain[i])
      /\ \A n \in 2..Len(m.chain[i]) : q[n] = m.chain[i][n]
  BY <1>1, ReplacedFirst
<1> HIDE DEF q
<1>4. m'.chain[i] = q /\ m'.tree = m.tree
  BY <1>1, <1>2 DEF Chained, Memory
<1>5. \A p : ToBeDisabled(m, i, p) => ToBeDisabled(m', i, p)
  BY <1>1, <1>3, <1>4 DEF ToBeDisabled, FamilyRoot
<1>6. \A n \in 2..Len(q) : q[n].stage = "load"
  BY <1>1, <1>3
<1>. QED  BY <1>2, <1>3, <1>5, <1>6, ChainMoves

LEMMA RequestMoves ==
  ASSUME IInv, NEW i \in Instances, NEW s \in Sessions, RequestToggle(i, s)
  PROVE  IInv'
<1> DEFINE q == Append(m.chain[i], Toggle(s))
<1>1. m \in Memory /\ m.chain[i] \in Seq(Mutations)
  BY DEF IInv, TypeOK, Memory
<1>2. Toggle(s) \in Mutations /\ Toggle(s).stage = "load"
  BY DEF Toggle, Mutations
<1>3. /\ RestKept /\ sent' = sent /\ writeFailures' = writeFailures
      /\ phase[i] = "hydrated" /\ m' = [m EXCEPT !.chain[i] = Append(@, Toggle(s))]
  BY UnchangedRest DEF RequestToggle
<1>4. RestTyped'
  BY LimitAssumption DEF RequestToggle, IInv, TypeOK, RestTyped
<1>5. /\ Chained(m, m', i, q)
      /\ SeenOK(m')
      /\ \A hd : TriedOK(m, hd) => TriedOK(m', hd)
  <2>1. SeenOK(m)
    BY DEF IInv, ManagerInv
  <2>. QED  BY <1>1, <1>2, <1>3, <2>1, AppendKeeps
<1>6. /\ RootsOK(m') /\ FlightOK(m', heard) /\ LostOK(m')
      /\ \A j \in Instances : PendingOK(m', j, heard[j])
  BY <1>1, <1>5, ChainKeeps DEF IInv, ManagerInv
<1>7. ClearOK(m', phase)
  BY <1>1, <1>3, <1>5 DEF IInv, ManagerInv, ClearOK, Chained, SameButFamilies, Memory
<1>8. /\ m' \in Memory
      /\ writeFailures' = 0 => TriedOK(m', heard)
      /\ \A p \in sent' : m'.inFlight[p] # 0
  BY <1>3, <1>5 DEF IInv, ManagerInv, SentOK, Chained, SameButFamilies
<1>. QED  BY <1>3, <1>4, <1>5, <1>6, <1>7, <1>8, MemoryMoves

\* The toggle takes the session in and decides: what it made untried it disables.
LEMMA ToggleLoadsMoves ==
  ASSUME IInv, NEW i \in Instances, ToggleLoads(i)
  PROVE  IInv'
<1> DEFINE s == First(i).session
           kind == KindOf(s)
           grown == Upsert(m, i, s, kind)
           root == FamilyRoot(grown, i, s)
           op == [First(i) EXCEPT !.stage = "write", !.last = root, !.target = root,
                    !.seen = {root}, !.enable = ~IsEnabled(grown, i, root)]
           q == Replaced(m.chain[i], op)
<1>1. /\ m.chain[i] # <<>> /\ s # NoSession /\ First(i).stage = "own"
      /\ phase[i] # "stopped" /\ m' = Become(grown, i, op)
  BY DEF ToggleLoads, Toggling, GoesOn
<1>2. /\ m \in Memory /\ First(i) \in Mutations /\ First(i) = m.chain[i][1]
      /\ m.chain[i] \in Seq(Mutations) /\ phase[i] \in {"filled", "hydrated"}
  BY <1>1, FirstOK
<1>3. s \in Sessions /\ kind \in {"plain", "fork"}
  BY <1>1, <1>2, KindType DEF Mutations
<1>4. /\ RestKept /\ sent' = sent /\ writeFailures' = writeFailures /\ RestTyped'
  BY UnchangedRest DEF ToggleLoads, IInv, TypeOK, RestTyped
<1>5. /\ RootsOK(m) /\ SeenOK(m) /\ FlightOK(m, heard) /\ LostOK(m)
      /\ writeFailures = 0 => TriedOK(m, heard)
      /\ PendingOK(m, i, heard[i])
  BY <1>2 DEF IInv, ManagerInv
<1> HIDE DEF kind
<1>6. Joined(m, grown, i, s, kind)
  BY <1>2, <1>3, UpsertFields, Zenon
<1>7. /\ RootsOK(grown) /\ SeenOK(grown)
      /\ writeFailures = 0 => TriedBut(grown, heard, i, s)
  BY <1>2, <1>3, <1>5, UpsertTried
<1> HIDE DEF grown
<1>8. FlightOK(grown, heard) /\ LostOK(grown) /\ PendingOK(grown, i, heard[i])
  BY <1>5, <1>6 DEF Joined, SameButFamilies, FlightOK, LostOK, PendingOK
<1>9. grown \in Memory /\ OthersKept(m, grown, i) /\ grown.chain = m.chain
  BY <1>2, <1>6 DEF Joined, SameButFamilies, OthersKept, Memory
<1>10. root \in Sessions /\ IsEnabled(grown, i, root) = (root \in grown.enabled[i])
  <2>1. root \in Sessions /\ FamilyRoot(grown, i, root) = root
    BY <1>3, RootIsARoot, RootOfRoot DEF FamilyRoot
  <2> HIDE DEF root
  <2>. QED  BY <2>1 DEF IsEnabled
<1>11. /\ op \in Mutations /\ op.stage = "write" /\ op.last = root /\ op.target = root
       /\ op.seen = {root} /\ op.enable = (root \notin grown.enabled[i])
       /\ op.session = s
  <2> HIDE DEF root
  <2>1. IsEnabled(grown, i, root) \in BOOLEAN
    BY DEF IsEnabled
  <2>. QED  BY <1>2, <1>10, <2>1 DEF Mutations
<1> HIDE DEF op
<1>12. Chained(grown, m', i, q)
  <2>1. Chained(grown, m', i, Replaced(grown.chain[i], op))
    BY <1>1, <1>9, <1>11, BecomeFields
  <2>. QED  BY <1>9, <2>1
<1>13. /\ q # <<>> /\ q[1] = op /\ Len(q) = Len(m.chain[i])
       /\ \A n \in 2..Len(m.chain[i]) : q[n] = m.chain[i][n]
  BY <1>1, <1>2, <1>11, ReplacedFirst
<1> HIDE DEF q
<1>14. /\ m'.chain[i] = q /\ \A j \in Instances \ {i} : m'.chain[j] = m.chain[j]
  <2>1. m.chain \in [Instances -> Seq(Mutations)]
    BY <1>2 DEF Memory
  <2>. QED  BY <1>9, <1>12, <2>1 DEF Chained
<1>15. /\ m' \in Memory /\ RootsOK(m') /\ FlightOK(m', heard) /\ LostOK(m')
       /\ PendingOK(m', i, heard[i])
  BY <1>7, <1>8, <1>9, <1>12, ChainKeeps DEF Chained
<1>16. SeenOK(m')
  <2>1. \A n \in 2..Len(q) : q[n].stage = "load"
    BY <1>5, <1>13 DEF SeenOK
  <2>2. q[1].last \in q[1].seen /\ q[1].target \in q[1].seen
    BY <1>11, <1>13
  <2>3. ASSUME NEW j \in Instances
        PROVE  /\ \A n \in 2..Len(m'.chain[j]) : m'.chain[j][n].stage = "load"
               /\ m'.chain[j] # <<>> /\ Writing(m'.chain[j][1]) =>
                    /\ m'.chain[j][1].last \in m'.chain[j][1].seen
                    /\ m'.chain[j][1].target \in m'.chain[j][1].seen
    <3>1. CASE j = i
      BY <1>14, <2>1, <2>2, <3>1
    <3>2. CASE j # i
      BY <1>5, <1>14, <3>2 DEF SeenOK
    <3>. QED  BY <3>1, <3>2
  <2>. QED  BY <2>3 DEF SeenOK
<1>17. ASSUME TriedBut(grown, heard, i, s), NEW j \in Instances, NEW p \in m'.pending[j],
              Untried(m', j, p)
       PROVE  Excused(heard, j, p) \/ ToBeDisabled(m', j, p)
  <2>1. p \in grown.pending[j] /\ Untried(grown, j, p)
    BY <1>12, <1>17 DEF Chained, SameButFamilies, Untried, Knows, IsEnabled, FamilyRoot
  <2>2. j # i /\ ToBeDisabled(grown, j, p) => ToBeDisabled(m', j, p)
    BY <1>9, <1>12, <1>14 DEF ToBeDisabled, FamilyRoot, Chained
  <2>3. ~ToBeDisabled(grown, i, p)
    BY <1>1, <1>2, <1>9 DEF ToBeDisabled, Writing
  <2>4. ASSUME j = i, FamilyRoot(grown, i, SessionOf[p]) = root
        PROVE  ToBeDisabled(m', i, p)
    <3>1. root \in grown.enabled[i]
      BY <2>1, <2>4 DEF Untried, IsEnabled
    <3>2. Writing(op) /\ ~op.enable
      BY <1>1, <1>11, <3>1 DEF Writing
    <3>3. FamilyRoot(m', i, SessionOf[p]) = root
      BY <1>12, <2>4 DEF FamilyRoot, Chained
    <3>. QED  BY <1>11, <1>13, <1>14, <3>2, <3>3 DEF ToBeDisabled
  <2>. QED  BY <1>17, <2>1, <2>2, <2>3, <2>4 DEF TriedBut
<1>18. TriedBut(grown, heard, i, s) => TriedOK(m', heard)
  BY <1>17 DEF TriedOK
<1>19. EventInv(m', heard, i, heard[i])
  BY <1>7, <1>15, <1>16, <1>18 DEF EventInv
<1>20. OthersKept(m, m', i)
  BY <1>9, <1>12, <1>14 DEF OthersKept, Chained, SameButFamilies
<1>. QED  BY <1>2, <1>4, <1>19, <1>20, HydratedMoves

\* In new, the enabled roots of i are R.
Enabled(mem, new, i, R) ==
  /\ new \in Memory /\ SameButFamilies(mem, new)
  /\ new.tree = mem.tree /\ new.chain = mem.chain
  /\ new.enabled[i] = R /\ \A j \in Instances \ {i} : new.enabled[j] = mem.enabled[j]

LEMMA EnabledFields ==
  ASSUME NEW mem \in Memory, NEW i \in Instances, NEW R \in SUBSET Sessions
  PROVE  Enabled(mem, [mem EXCEPT !.enabled[i] = R], i, R)
<1> DEFINE enabled == [mem.enabled EXCEPT ![i] = R]
           new == [mem EXCEPT !.enabled = enabled]
<1>1. /\ enabled \in [Instances -> SUBSET Sessions]
      /\ enabled[i] = R /\ \A j \in Instances \ {i} : enabled[j] = mem.enabled[j]
  BY DEF Memory
<1> HIDE DEF enabled
<1>2. /\ new \in Memory /\ SameButFamilies(mem, new)
      /\ new.tree = mem.tree /\ new.chain = mem.chain /\ new.enabled = enabled
  BY <1>1 DEF Memory, SameButFamilies
<1> HIDE DEF new
<1>3. Enabled(mem, new, i, R)
  BY <1>1, <1>2 DEF Enabled
<1>4. [mem EXCEPT !.enabled[i] = R] = new
  BY DEF new, enabled
<1>. QED  BY <1>3, <1>4

\* The toggle ends: it enables the root it wrote and drains the family, or disables
\* every root it met.
LEMMA FinishMoves ==
  ASSUME IInv, RestKept, RestTyped', sent' = sent, writeFailures' = writeFailures,
         NEW i \in Instances, m.chain[i] # <<>>, Writing(First(i)),
         NEW op, op.last \in Sessions, op.seen = First(i).seen, op.enable = First(i).enable,
         m' = FinishToggle(i, op)
  PROVE  IInv'
<1> DEFINE done == Pop(m, i)
           q == Tail(m.chain[i])
           root == FamilyRoot(m, i, op.last)
           gone == {FamilyRoot(m, i, r) : r \in op.seen}
<1>1. /\ m \in Memory /\ First(i) = m.chain[i][1] /\ First(i) \in Mutations
      /\ m.chain[i] \in Seq(Mutations)
      /\ \A n \in 2..Len(m.chain[i]) : m.chain[i][n].stage = "load"
      /\ phase[i] \in {"filled", "hydrated", "stopped"} /\ lost \subseteq Permissions
  BY FirstOK DEF IInv, TypeOK
<1>2. CASE phase[i] = "stopped"
  <2>1. m' = Pop(m, i)
    BY <1>2 DEF FinishToggle
  <2>. QED  BY <1>2, <2>1, PopMoves
<1>3. CASE phase[i] \in {"filled", "hydrated"}
  <2>1. Chained(m, done, i, q)
    BY <1>1, PopFields
  <2>2. /\ \A n \in 2..Len(q) : q[n].stage = "load"
        /\ q # <<>> => ~Writing(q[1])
    <3>1. \A n \in 1..Len(q) : q[n].stage = "load"
      BY <1>1
    <3>2. q # <<>> => q[1].stage = "load"
      BY <1>1, <3>1
    <3>3. \A n \in 2..Len(q) : n \in 1..Len(q)
      BY <1>1
    <3>. QED  BY <3>1, <3>2, <3>3 DEF Writing
  <2> HIDE DEF done, q
  <2>3. /\ done.chain[i] = q /\ \A j \in Instances \ {i} : done.chain[j] = m.chain[j]
        /\ done \in Memory /\ done.tree = m.tree /\ done.enabled = m.enabled
        /\ done.pending = m.pending /\ done.attempts = m.attempts
        /\ done.inFlight = m.inFlight
    <3>1. m.chain \in [Instances -> Seq(Mutations)]
      BY <1>1 DEF Memory
    <3>. QED  BY <2>1, <3>1 DEF Chained, SameButFamilies
  <2>4. SeenOK(done)
    <3>1. ASSUME NEW j \in Instances
          PROVE  /\ \A n \in 2..Len(done.chain[j]) : done.chain[j][n].stage = "load"
                 /\ done.chain[j] # <<>> /\ Writing(done.chain[j][1]) =>
                      /\ done.chain[j][1].last \in done.chain[j][1].seen
                      /\ done.chain[j][1].target \in done.chain[j][1].seen
      <4>1. CASE j = i
        BY <2>2, <2>3, <4>1
      <4>2. CASE j # i
        BY <2>3, <4>2 DEF IInv, ManagerInv, SeenOK
      <4>. QED  BY <4>1, <4>2
    <3>. QED  BY <3>1 DEF SeenOK
  <2>5. /\ RootsOK(done) /\ FlightOK(done, heard) /\ LostOK(done)
        /\ PendingOK(done, i, heard[i])
    BY <1>1, <1>3, <2>1, ChainKeeps DEF IInv, ManagerInv
  <2>6. OthersKept(m, done, i)
    BY <2>3 DEF OthersKept
  \* The other workspaces, and the requests that were not to be disabled.
  <2>7. ASSUME TriedOK(m, heard), NEW j \in Instances, NEW p \in m.pending[j],
               Untried(m, j, p), ~ToBeDisabled(m, i, p) \/ j # i, NEW n, n.tree = m.tree,
               \A k \in Instances \ {i} : n.chain[k] = m.chain[k]
        PROVE  Excused(heard, j, p) \/ ToBeDisabled(n, j, p)
    <3>1. Excused(heard, j, p) \/ ToBeDisabled(m, j, p)
      BY <2>7 DEF TriedOK
    <3>2. j # i => (ToBeDisabled(m, j, p) => ToBeDisabled(n, j, p))
      BY <2>7 DEF ToBeDisabled, FamilyRoot
    <3>. QED  BY <2>7, <3>1, <3>2
  <2>8. CASE op.enable
    <3> DEFINE R == m.enabled[i] \cup {root}
               new == [done EXCEPT !.enabled[i] = R]
    <3>1. m' = DrainPending(new, i, op.last)
      BY <1>3, <2>3, <2>8 DEF FinishToggle, done
    <3>2. R \in SUBSET Sessions /\ ~Climbs(m.tree[i], root)
      BY <1>1, RootIsARoot DEF FamilyRoot, Memory
    <3>3. Enabled(done, new, i, R)
      BY <2>3, <3>2, EnabledFields
    <3> HIDE DEF new
    <3>4. RootsOK(new)
      <4>1. \A r \in R : ~Climbs(new.tree[i], r)
        BY <2>3, <2>5, <3>2, <3>3 DEF Enabled, RootsOK
      <4>. QED  BY <2>5, <3>3, <4>1 DEF Enabled, RootsOK
    <3>5. /\ SeenOK(new) /\ FlightOK(new, heard) /\ LostOK(new)
          /\ PendingOK(new, i, heard[i])
      BY <2>4, <2>5, <3>3 DEF Enabled, SameButFamilies, SeenOK, FlightOK, LostOK, PendingOK
    <3>6. ASSUME TriedOK(m, heard), NEW j \in Instances, NEW p \in new.pending[j],
                 Untried(new, j, p),
                 ~(j = i /\ FamilyRoot(new, i, SessionOf[p]) = FamilyRoot(new, i, op.last))
          PROVE  Excused(heard, j, p) \/ ToBeDisabled(new, j, p)
      <4>1. p \in m.pending[j]
        BY <2>3, <3>3, <3>6 DEF Enabled, SameButFamilies
      <4>2. new.tree = m.tree /\ \A k \in Instances \ {i} : new.chain[k] = m.chain[k]
        BY <2>3, <3>3 DEF Enabled
      <4>3. Untried(m, j, p)
        <5>1. j = i => RootIn(m.tree[i], SessionOf[p]) # root
          BY <3>6, <4>2 DEF FamilyRoot
        <5>2. j # i => new.enabled[j] = m.enabled[j]
          BY <2>3, <3>3 DEF Enabled
        <5>3. new.enabled[i] = m.enabled[i] \cup {root}
          BY <3>3 DEF Enabled
        <5> HIDE DEF root
        <5>. QED  BY <2>3, <3>3, <3>6, <4>2, <5>1, <5>2, <5>3
             DEF Enabled, SameButFamilies, Untried, Knows, IsEnabled, FamilyRoot
      <4>4. ~ToBeDisabled(m, i, p)
        BY <1>1, <2>8 DEF ToBeDisabled
      <4>. QED  BY <2>7, <3>6, <4>1, <4>2, <4>3, <4>4
    <3>7. writeFailures = 0 => TriedBut(new, heard, i, op.last)
      BY <3>6 DEF TriedBut, IInv, ManagerInv
    <3>8. new \in Memory /\ OthersKept(m, new, i)
      BY <2>6, <3>3 DEF Enabled, SameButFamilies, OthersKept
    <3>9. EventInv(m', heard, i, heard[i]) /\ OthersKept(new, m', i)
      BY <1>1, <3>1, <3>4, <3>5, <3>7, <3>8, DrainStep
    <3>10. OthersKept(m, m', i)
      BY <3>8, <3>9 DEF OthersKept
    <3>. QED  BY <1>3, <3>9, <3>10, HydratedMoves
  <2>9. CASE ~op.enable
    <3> DEFINE R == m.enabled[i] \ gone
    <3>1. m' = [done EXCEPT !.enabled[i] = R]
      BY <1>3, <2>3, <2>9 DEF FinishToggle, done
    <3>2. R \in SUBSET Sessions
      BY <1>1 DEF Memory
    <3> HIDE DEF gone
    <3>3. Enabled(done, m', i, R)
      BY <2>3, <3>1, <3>2, EnabledFields
    <3>4. RootsOK(m')
      BY <2>3, <2>5, <3>3 DEF Enabled, RootsOK
    <3>5. /\ SeenOK(m') /\ FlightOK(m', heard) /\ LostOK(m')
          /\ PendingOK(m', i, heard[i])
      BY <2>4, <2>5, <3>3 DEF Enabled, SameButFamilies, SeenOK, FlightOK, LostOK, PendingOK
    <3>6. ASSUME TriedOK(m, heard), NEW j \in Instances, NEW p \in m'.pending[j],
                 Untried(m', j, p)
          PROVE  Excused(heard, j, p) \/ ToBeDisabled(m', j, p)
      <4>1. p \in m.pending[j] /\ p \in Permissions
        BY <1>1, <2>3, <3>3, <3>6 DEF Enabled, SameButFamilies, Memory
      <4>2. m'.tree = m.tree /\ \A k \in Instances \ {i} : m'.chain[k] = m.chain[k]
        BY <2>3, <3>3 DEF Enabled
      <4>3. Untried(m, j, p)
        <5>1. m'.enabled[j] \subseteq m.enabled[j]
          BY <2>3, <3>3 DEF Enabled
        <5>. QED  BY <2>3, <3>3, <3>6, <4>2, <5>1
             DEF Enabled, SameButFamilies, Untried, Knows, IsEnabled, FamilyRoot
      <4>4. j = i => FamilyRoot(m, i, SessionOf[p]) \notin gone
        BY <3>3, <3>6, <4>2 DEF Enabled, Untried, IsEnabled, FamilyRoot
      <4>5. ToBeDisabled(m, i, p) => FamilyRoot(m, i, SessionOf[p]) \in gone
        <5>1. FamilyRoot(m, i, FamilyRoot(m, i, SessionOf[p])) = FamilyRoot(m, i, SessionOf[p])
          BY <4>1, PermissionAssumption, RootOfRoot DEF FamilyRoot
        <5>2. ToBeDisabled(m, i, p) => FamilyRoot(m, i, SessionOf[p]) \in op.seen
          BY <1>1 DEF ToBeDisabled
        <5>. QED  BY <5>1, <5>2 DEF gone
      <4>. QED  BY <2>7, <3>6, <4>1, <4>2, <4>3, <4>4, <4>5
    <3>7. writeFailures = 0 => TriedOK(m', heard)
      BY <3>6 DEF TriedOK, IInv, ManagerInv
    <3>8. m' \in Memory /\ OthersKept(m, m', i)
      BY <2>6, <3>3 DEF Enabled, SameButFamilies, OthersKept
    <3>9. EventInv(m', heard, i, heard[i])
      BY <3>4, <3>5, <3>7, <3>8 DEF EventInv
    <3>. QED  BY <1>3, <3>8, <3>9, HydratedMoves
  <2>. QED  BY <2>8, <2>9
<1>. QED  BY <1>1, <1>2, <1>3

\* The loop of a toggle, after a root was written.
LEMMA FollowRootMoves ==
  ASSUME IInv, RestKept, RestTyped', sent' = sent, writeFailures' = writeFailures,
         NEW i \in Instances, m.chain[i] # <<>>, Writing(First(i)),
         m' = FollowRoot(i, Written(First(i)))
  PROVE  IInv'
<1> DEFINE op == Written(First(i))
           current == FamilyRoot(m, i, op.session)
           next == [op EXCEPT !.stage = "write", !.target = current,
                              !.seen = op.seen \cup {current}]
<1>1. /\ First(i) \in Mutations /\ First(i).session \in Sessions
      /\ First(i).last \in First(i).seen /\ First(i).target \in First(i).seen
  BY FirstOK DEF Writing, Mutations
<1>2. /\ op \in Mutations /\ op.last = First(i).target /\ op.last \in Sessions
      /\ op.seen = First(i).seen /\ op.enable = First(i).enable
      /\ op.session = First(i).session
  BY <1>1 DEF Written, Mutations
<1> HIDE DEF op
<1>3. CASE current = op.last
  <2>1. m' = FinishToggle(i, op)
    BY <1>3 DEF FollowRoot, op
  <2>. QED  BY <1>2, <2>1, FinishMoves
<1>4. CASE current # op.last
  <2>1. m' = Become(m, i, next)
    BY <1>4 DEF FollowRoot, op
  <2>2. current \in Sessions
    BY <1>1, <1>2, RootIsARoot DEF FamilyRoot
  <2> HIDE DEF current
  <2>3. /\ next \in Mutations /\ next.stage = "write" /\ next.target = current
        /\ next.last = op.last /\ next.seen = op.seen \cup {current}
        /\ next.enable = op.enable /\ next.session = op.session
    BY <1>2, <2>2 DEF Mutations
  <2> HIDE DEF next
  <2>4. Writing(next) /\ next.last \in next.seen /\ next.target \in next.seen
    BY <1>1, <1>2, <2>3, TreeAssumption DEF Writing
  <2>. QED  BY <1>2, <2>1, <2>3, <2>4, BecomeMoves
<1>. QED  BY <1>3, <1>4

LEMMA ToggleWritesMoves ==
  ASSUME IInv, NEW i \in Instances, ToggleWrites(i)
  PROVE  IInv'
<1> DEFINE op == First(i)
           retired == [op EXCEPT !.stage = "retire"]
<1>1. /\ m.chain[i] # <<>> /\ op.session # NoSession /\ op.stage \in {"write", "retire"}
      /\ UNCHANGED <<hydrationVars, sent, daemonVars, heard, historyVars>>
  BY DEF ToggleWrites, Toggling
<1>2. op \in Mutations /\ Writing(op) /\ op.target \in Sessions /\ op.last \in op.seen
      /\ op.target \in op.seen
  BY <1>1, FirstOK DEF Writing, Mutations
<1>3. RestKept /\ sent' = sent /\ writeFailures' = writeFailures
  BY <1>1, UnchangedRest DEF historyVars
<1>4. RestTyped'
  <2>1. persisted' \subseteq Sessions
    BY <1>2 DEF ToggleWrites, IInv, TypeOK
  <2>. QED  BY <1>1, <2>1 DEF historyVars, IInv, TypeOK, RestTyped
<1>5. \/ m' = FollowRoot(i, Written(op))
      \/ m' = Pop(m, i) /\ phase[i] = "stopped"
      \/ m' = Become(m, i, retired) /\ op.enable
  BY DEF ToggleWrites
<1>6. CASE m' = FollowRoot(i, Written(op))
  BY <1>1, <1>2, <1>3, <1>4, <1>6, FollowRootMoves
<1>7. CASE m' = Pop(m, i) /\ phase[i] = "stopped"
  BY <1>1, <1>3, <1>4, <1>7, PopMoves
<1>8. CASE m' = Become(m, i, retired) /\ op.enable
  <2>1. /\ retired \in Mutations /\ retired.last = op.last /\ retired.target = op.target
        /\ retired.seen = op.seen
    BY <1>2 DEF Mutations
  <2> HIDE DEF retired
  <2>. QED  BY <1>1, <1>2, <1>3, <1>4, <1>8, <2>1, BecomeMoves
<1>. QED  BY <1>5, <1>6, <1>7, <1>8

\* The head of the chain does not write yet, or is a migration.
LEMMA ToggleAwaitsMoves ==
  ASSUME IInv, NEW i \in Instances, ToggleFinds(i) \/ ToggleEnds(i)
  PROVE  IInv'
<1> DEFINE op == [First(i) EXCEPT !.stage = "own"]
<1>1. /\ m.chain[i] # <<>> /\ First(i).stage \in {"load", "own"}
      /\ UNCHANGED <<hydrationVars, persisted, sent, daemonVars, heard, historyVars>>
  BY DEF ToggleFinds, ToggleEnds, Toggling
<1>2. First(i) \in Mutations /\ ~Writing(First(i))
  BY <1>1, FirstOK DEF Writing
<1>3. RestKept /\ RestTyped' /\ sent' = sent /\ writeFailures' = writeFailures
  BY <1>1, UnchangedRest DEF historyVars, IInv, TypeOK, RestTyped
<1>4. CASE ToggleFinds(i)
  <2>1. m' = Become(m, i, op) /\ op \in Mutations /\ op.stage = "own"
    BY <1>2, <1>4 DEF ToggleFinds, Mutations
  <2> HIDE DEF op
  <2>2. ~Writing(op)
    BY <2>1 DEF Writing
  <2>. QED  BY <1>1, <1>2, <1>3, <2>1, <2>2, BecomeMoves
<1>5. CASE ToggleEnds(i)
  <2>1. m' = Pop(m, i)
    BY <1>5 DEF ToggleEnds
  <2>. QED  BY <1>1, <1>2, <1>3, <2>1, PopMoves
<1>. QED  BY <1>4, <1>5

LEMMA MigrationStartsMoves ==
  ASSUME IInv, NEW i \in Instances, MigrationStarts(i)
  PROVE  IInv'
<1> DEFINE op == [First(i) EXCEPT !.stage = "write",
                    !.adds = First(i).adds \cap m.enabled[i],
                    !.removes = First(i).removes \ m.enabled[i]]
<1>1. /\ m.chain[i] # <<>> /\ First(i).session = NoSession
      /\ UNCHANGED <<hydrationVars, persisted, sent, daemonVars, heard, historyVars>>
  BY DEF MigrationStarts
<1>2. First(i) \in Mutations /\ ~Writing(First(i))
  BY <1>1, FirstOK DEF Writing
<1>3. RestKept /\ RestTyped' /\ sent' = sent /\ writeFailures' = writeFailures
  BY <1>1, UnchangedRest DEF historyVars, IInv, TypeOK, RestTyped
<1>4. m' = Pop(m, i) \/ m' = Become(m, i, op)
  BY DEF MigrationStarts
<1>5. op \in Mutations /\ op.session = NoSession
  BY <1>1, <1>2 DEF Mutations
<1> HIDE DEF op
<1>6. ~Writing(op)
  BY <1>5 DEF Writing
<1>7. CASE m' = Pop(m, i)
  BY <1>1, <1>2, <1>3, <1>7, PopMoves
<1>8. CASE m' = Become(m, i, op)
  BY <1>1, <1>2, <1>3, <1>5, <1>6, <1>8, BecomeMoves
<1>. QED  BY <1>4, <1>7, <1>8

LEMMA MigrationWritesMoves ==
  ASSUME IInv, NEW i \in Instances, NEW r \in Sessions, MigrationWrites(i, r)
  PROVE  IInv'
<1> DEFINE op == [First(i) EXCEPT !.adds = First(i).adds \ {r},
                                  !.removes = First(i).removes \ {r}]
<1>1. /\ m.chain[i] # <<>> /\ First(i).session = NoSession
      /\ UNCHANGED <<hydrationVars, sent, daemonVars, heard, historyVars>>
  BY DEF MigrationWrites
<1>2. First(i) \in Mutations /\ ~Writing(First(i))
  BY <1>1, FirstOK DEF Writing
<1>3. RestKept /\ sent' = sent /\ writeFailures' = writeFailures
  BY <1>1, UnchangedRest DEF historyVars
<1>4. RestTyped'
  <2>1. persisted' \subseteq Sessions
    BY DEF MigrationWrites, IInv, TypeOK
  <2>. QED  BY <1>1, <2>1 DEF historyVars, IInv, TypeOK, RestTyped
<1>5. m' = Pop(m, i) \/ m' = Become(m, i, op)
  BY DEF MigrationWrites
<1>6. op \in Mutations /\ op.session = NoSession
  BY <1>1, <1>2 DEF Mutations
<1> HIDE DEF op
<1>7. ~Writing(op)
  BY <1>6 DEF Writing
<1>8. CASE m' = Pop(m, i)
  BY <1>1, <1>2, <1>3, <1>4, <1>8, PopMoves
<1>9. CASE m' = Become(m, i, op)
  BY <1>1, <1>2, <1>3, <1>4, <1>6, <1>7, <1>9, BecomeMoves
<1>. QED  BY <1>5, <1>8, <1>9

LEMMA WriteFailsMoves ==
  ASSUME IInv, NEW i \in Instances, WriteFails(i)
  PROVE  IInv'
<1>1. /\ m.chain[i] # <<>> /\ m' = Pop(m, i) /\ writeFailures' # 0
      /\ writeFailures' \in 0..MaxWriteFailures /\ sent' = sent
      /\ persisted' = persisted /\ toggles' = toggles /\ strayed' = strayed
  BY LimitAssumption DEF WriteFails, IInv, TypeOK
<1>2. RestKept
  BY UnchangedRest DEF WriteFails
<1>3. RestTyped'
  BY <1>1 DEF IInv, TypeOK, RestTyped
<1>. QED  BY <1>1, <1>2, <1>3, PopMoves

-----------------------------------------------------------------------------
(* The actions: the answer to a request *)

\* In new, the answer to p is no longer under way; nothing else is different but
\* that p may have been forgotten.
Answered(mem, new, p) ==
  /\ new \in Memory
  /\ new.tree = mem.tree /\ new.enabled = mem.enabled
  /\ new.chain = mem.chain
  /\ new.inFlight[p] = 0
  /\ \A i \in Instances : new.pending[i] \subseteq mem.pending[i]
  /\ \A q \in Permissions \ {p} : /\ new.attempts[q] = mem.attempts[q]
                                  /\ new.inFlight[q] = mem.inFlight[q]

\* p is pending nowhere, and was tried a times.
Ended(mem, p, a) ==
  [RemovePending(mem, Instances, {p}) EXCEPT !.attempts[p] = a, !.inFlight[p] = 0]

LEMMA AnsweredFields ==
  ASSUME NEW mem \in Memory, NEW p \in Permissions, NEW a \in 0..MaxAttempts
  PROVE  /\ LET new == [mem EXCEPT !.inFlight[p] = 0]
            IN  Answered(mem, new, p) /\ new.attempts = mem.attempts
         /\ LET new == [RemovePending(mem, Instances, {p}) EXCEPT !.inFlight[p] = 0]
            IN  Answered(mem, new, p) /\ \A i \in Instances : p \notin new.pending[i]
         /\ Answered(mem, Ended(mem, p, a), p) /\ Ended(mem, p, a).attempts[p] = a
         /\ \A i \in Instances : p \notin Ended(mem, p, a).pending[i]
<1> DEFINE cut == RemovePending(mem, Instances, {p})
           ended == [mem.inFlight EXCEPT ![p] = 0]
           count == [cut.attempts EXCEPT ![p] = a]
           one == [mem EXCEPT !.inFlight = ended]
           two == [cut EXCEPT !.inFlight = ended]
           three == [cut EXCEPT !.inFlight = ended, !.attempts = count]
<1>1. Removed(mem, cut, Instances, {p})
  BY RemoveFields
<1> HIDE DEF cut
<1>2. /\ cut \in Memory /\ cut.tree = mem.tree /\ cut.enabled = mem.enabled
      /\ cut.chain = mem.chain /\ cut.inFlight = mem.inFlight
      /\ \A i \in Instances : cut.pending[i] \subseteq mem.pending[i] /\ p \notin cut.pending[i]
      /\ \A q \in Permissions \ {p} : cut.attempts[q] = mem.attempts[q]
  BY <1>1 DEF Removed
<1>3. /\ ended \in [Permissions -> 0..MaxAttempts] /\ ended[p] = 0
      /\ \A q \in Permissions \ {p} : ended[q] = mem.inFlight[q]
  BY LimitAssumption DEF Memory
<1>4. /\ count \in [Permissions -> 0..MaxAttempts] /\ count[p] = a
      /\ \A q \in Permissions \ {p} : count[q] = cut.attempts[q]
  BY <1>2 DEF Memory
<1>5. /\ [mem EXCEPT !.inFlight[p] = 0] = one /\ [cut EXCEPT !.inFlight[p] = 0] = two
      /\ Ended(mem, p, a) = three
  BY <1>2 DEF Memory, Ended, cut
<1> HIDE DEF ended, count
<1>6. Answered(mem, one, p) /\ one.attempts = mem.attempts
  <2>1. /\ one \in Memory /\ one.tree = mem.tree /\ one.enabled = mem.enabled
        /\ one.chain = mem.chain /\ one.pending = mem.pending /\ one.inFlight = ended
        /\ one.attempts = mem.attempts
    BY <1>3 DEF Memory
  <2> HIDE DEF one
  <2>. QED  BY <1>3, <2>1 DEF Answered
<1>7. Answered(mem, two, p) /\ \A i \in Instances : p \notin two.pending[i]
  <2>1. /\ two \in Memory /\ two.tree = cut.tree /\ two.enabled = cut.enabled
        /\ two.chain = cut.chain /\ two.pending = cut.pending /\ two.inFlight = ended
        /\ two.attempts = cut.attempts
    BY <1>2, <1>3 DEF Memory
  <2> HIDE DEF two
  <2>. QED  BY <1>2, <1>3, <2>1 DEF Answered
<1>8. /\ Answered(mem, three, p) /\ three.attempts[p] = a
      /\ \A i \in Instances : p \notin three.pending[i]
  <2>1. /\ three \in Memory /\ three.tree = cut.tree /\ three.enabled = cut.enabled
        /\ three.chain = cut.chain /\ three.pending = cut.pending /\ three.inFlight = ended
        /\ three.attempts = count
    BY <1>2, <1>3, <1>4 DEF Memory
  <2> HIDE DEF three
  <2>. QED  BY <1>2, <1>3, <1>4, <2>1 DEF Answered
<1> HIDE DEF one, two, three
<1>. QED  BY <1>5, <1>6, <1>7, <1>8 DEF cut

\* An answer comes in, or its end: p is forgotten, counted, or over.
LEMMA AnswerMoves ==
  ASSUME IInv, NEW p \in Permissions, Answered(m, m', p),
         UNCHANGED <<hydrationVars, persisted, daemonVars, heard, overtaken>>,
         toggles' = toggles, writeFailures' = writeFailures, strayed' = strayed,
         sent' \subseteq sent \ {p}, lost' \subseteq lost \cup {p},
         p \in lost' => \/ p \in settled \/ sessions[SessionOf[p]] = "deleted"
                        \/ m'.attempts[p] = MaxAttempts,
         \/ m'.attempts[p] # 0 \/ OverAt(heard, Instances, p)
         \/ \A i \in Instances : p \notin m'.pending[i]
  PROVE  IInv'
<1>1. /\ m \in Memory /\ m' \in Memory /\ m'.tree = m.tree /\ m'.enabled = m.enabled
      /\ m'.chain = m.chain /\ m'.inFlight[p] = 0
      /\ \A i \in Instances : m'.pending[i] \subseteq m.pending[i]
      /\ \A q \in Permissions \ {p} : m'.attempts[q] = m.attempts[q] /\ m'.inFlight[q] = m.inFlight[q]
      /\ \A i \in Instances : m.pending[i] \subseteq Permissions
  BY DEF Answered, IInv, TypeOK, Memory
<1>2. /\ phase' = phase /\ listed' = listed /\ queued' = queued /\ persisted' = persisted
      /\ sessions' = sessions /\ asked' = asked /\ settled' = settled /\ heard' = heard
      /\ overtaken' = overtaken
  BY DEF hydrationVars, daemonVars
<1>3. TypeOK'
  BY <1>1, <1>2 DEF IInv, TypeOK
<1>4. ClearOK(m, phase)'
  BY <1>1, <1>2 DEF IInv, ManagerInv, ClearOK
<1>5. RootsOK(m)' /\ SeenOK(m)'
  BY <1>1 DEF IInv, ManagerInv, RootsOK, SeenOK
<1>6. FlightOK(m', heard)
  BY <1>1 DEF IInv, ManagerInv, FlightOK
<1>7. \A i \in Instances : PendingOK(m', i, heard[i])
  BY <1>1 DEF IInv, ManagerInv, PendingOK
<1>8. TriedOK(m, heard) => TriedOK(m', heard)
  <2> SUFFICES ASSUME TriedOK(m, heard), NEW i \in Instances, NEW q \in m'.pending[i],
                      Untried(m', i, q)
               PROVE  Excused(heard, i, q) \/ ToBeDisabled(m', i, q)
    BY DEF TriedOK
  <2>1. q \in m.pending[i] /\ q \in Permissions
    BY <1>1
  <2>2. CASE q = p
    <3>1. OverAt(heard, Instances, p)
      BY <2>2 DEF Untried
    <3>2. phase[i] \in {"filled", "hydrated"}
      BY <2>1 DEF IInv, ManagerInv, ClearOK
    <3>3. Over(heard[i], p) => p \in overtaken[i]
      BY <2>1, <2>2 DEF IInv, ManagerInv, PendingOK
    <3>. QED  BY <2>2, <3>1, <3>3 DEF OverAt, Excused
  <2>3. CASE q # p
    <3>1. Untried(m, i, q)
      BY <1>1, <2>1, <2>3 DEF Untried, Knows, IsEnabled, FamilyRoot
    <3>2. ToBeDisabled(m, i, q) => ToBeDisabled(m', i, q)
      BY <1>1 DEF ToBeDisabled, FamilyRoot
    <3>. QED  BY <2>1, <3>1, <3>2 DEF TriedOK
  <2>. QED  BY <2>2, <2>3
<1>9. LostOK(m)'
  <2>1. ASSUME NEW q \in lost'
        PROVE  \/ q \in settled \/ sessions[SessionOf[q]] = "deleted"
               \/ m'.attempts[q] = MaxAttempts /\ m'.inFlight[q] = 0
    <3>1. CASE q = p
      BY <1>1, <2>1, <3>1
    <3>2. CASE q # p
      <4>1. q \in lost /\ q \in Permissions
        BY <2>1, <3>2 DEF IInv, TypeOK
      <4>. QED  BY <1>1, <3>2, <4>1 DEF IInv, ManagerInv, LostOK
    <3>. QED  BY <3>1, <3>2
  <2>. QED  BY <1>2, <2>1 DEF LostOK
<1>10. SentOK'
  <2>1. \A q \in sent' : q \in sent /\ q # p /\ q \in Permissions
    BY DEF IInv, TypeOK
  <2>. QED  BY <1>1, <2>1 DEF IInv, ManagerInv, SentOK
<1>11. HeardOK' /\ QueueOK'
  <2>1. HeardOK'
    BY <1>2 DEF IInv, ManagerInv, HeardOK, Happened
  <2>2. QueueOK'
    BY <1>2 DEF IInv, ManagerInv, QueueOK
  <2>. QED  BY <2>1, <2>2
<1>12. /\ (writeFailures = 0 => TriedOK(m, heard))' /\ FlightOK(m, heard)'
       /\ (\A i \in Instances : PendingOK(m, i, heard[i]))'
  BY <1>2, <1>6, <1>7, <1>8 DEF IInv, ManagerInv, TriedOK, Excused, PendingOK
<1>. QED  BY <1>3, <1>4, <1>5, <1>9, <1>10, <1>11, <1>12 DEF IInv, ManagerInv

LEMMA ReplyEndsMoves ==
  ASSUME IInv, NEW p \in Permissions, ReplyFails(p) \/ ReplySucceeds(p) \/ ReplyLost(p)
  PROVE  IInv'
<1>1. m \in Memory /\ 0 \in 0..MaxAttempts /\ MaxAttempts \in 0..MaxAttempts
      /\ MaxAttempts # 0
  BY LimitAssumption DEF IInv, TypeOK
<1>2. CASE ReplyFails(p)
  <2>1. /\ UNCHANGED <<hydrationVars, persisted, sent, daemonVars, heard, historyVars>>
        /\ m.inFlight[p] # 0 /\ p \notin sent
    BY <1>2 DEF ReplyFails
  <2>2. /\ sent' \subseteq sent \ {p} /\ lost' \subseteq lost \cup {p}
        /\ toggles' = toggles /\ writeFailures' = writeFailures /\ strayed' = strayed
        /\ overtaken' = overtaken
        /\ p \in lost' => p \in lost
    BY <2>1 DEF historyVars
  <2>3. p \in lost => p \in settled \/ sessions[SessionOf[p]] = "deleted"
    BY <2>1 DEF IInv, ManagerInv, LostOK
  <2>4. CASE m.inFlight[p] >= MaxAttempts
    <3>1. m' = [RemovePending(m, Instances, {p}) EXCEPT !.inFlight[p] = 0]
      BY <1>2, <2>4 DEF ReplyFails
    <3>2. Answered(m, m', p) /\ \A i \in Instances : p \notin m'.pending[i]
      BY <1>1, <3>1, AnsweredFields
    <3>. QED  BY <2>1, <2>2, <2>3, <3>2, AnswerMoves
  <2>5. CASE ~(m.inFlight[p] >= MaxAttempts)
    <3>1. m' = [m EXCEPT !.inFlight[p] = 0]
      BY <1>2, <2>5 DEF ReplyFails
    <3>2. Answered(m, m', p) /\ m'.attempts = m.attempts
      BY <1>1, <3>1, AnsweredFields
    <3>3. m'.attempts[p] # 0 \/ OverAt(heard, Instances, p)
      BY <2>1, <3>2 DEF IInv, ManagerInv, FlightOK
    <3>. QED  BY <2>1, <2>2, <2>3, <3>2, <3>3, AnswerMoves
  <2>. QED  BY <2>4, <2>5
<1>3. CASE ReplySucceeds(p)
  <2>1. /\ UNCHANGED <<hydrationVars, persisted, daemonVars, heard, historyVars>>
        /\ p \in settled /\ sent' = sent \ {p}
        /\ m' = Ended(m, p, 0)
    BY <1>3 DEF ReplySucceeds, Ended
  <2>2. /\ toggles' = toggles /\ writeFailures' = writeFailures /\ strayed' = strayed
        /\ overtaken' = overtaken /\ lost' \subseteq lost \cup {p}
    BY <2>1 DEF historyVars
  <2>3. Answered(m, m', p) /\ \A i \in Instances : p \notin m'.pending[i]
    BY <1>1, <2>1, AnsweredFields
  <2>. QED  BY <2>1, <2>2, <2>3, AnswerMoves
<1>4. CASE ReplyLost(p)
  <2>1. /\ UNCHANGED <<hydrationVars, persisted, daemonVars, heard, toggles,
                       writeFailures, strayed, overtaken>>
        /\ sent' = sent \ {p} /\ lost' = lost \cup {p}
        /\ m' = [GiveUp(p) EXCEPT !.inFlight[p] = 0]
    BY <1>4 DEF ReplyLost
  <2>2. m' = Ended(m, p, MaxAttempts)
    BY <2>1 DEF GiveUp, Ended
  <2>3. /\ Answered(m, m', p) /\ m'.attempts[p] = MaxAttempts
        /\ \A i \in Instances : p \notin m'.pending[i]
    BY <1>1, <2>2, AnsweredFields
  <2>. QED  BY <2>1, <2>3, AnswerMoves
<1>. QED  BY <1>2, <1>3, <1>4

LEMMA DispatchMoves ==
  ASSUME IInv, NEW p \in Permissions, ReplyDispatches(p)
  PROVE  IInv'
<1>1. /\ m' = m /\ phase' = phase /\ listed' = listed /\ queued' = queued
      /\ persisted' = persisted /\ heard' = heard /\ lost' = lost
      /\ toggles' = toggles /\ writeFailures' = writeFailures /\ strayed' = strayed
      /\ overtaken' = overtaken /\ sessions' = sessions /\ asked' = asked
      /\ sent' = sent \cup {p} /\ m.inFlight[p] # 0
      /\ settled \subseteq settled' /\ settled' \subseteq asked
  BY DEF ReplyDispatches, hydrationVars, historyVars, IInv, TypeOK
<1>2. TypeOK'
  BY <1>1 DEF IInv, TypeOK
<1>3. LostOK(m)' /\ SentOK'
  BY <1>1 DEF IInv, ManagerInv, LostOK, SentOK
<1>4. HeardOK'
  <2>1. \A i \in Instances : \A e \in heard[i] : e \in Events /\ Happened(e)'
    BY HappenedStays DEF IInv, ManagerInv, TypeOK, HeardOK
  <2>. QED  BY <1>1, <2>1 DEF HeardOK
<1>5. QueueOK'
  BY <1>1 DEF IInv, ManagerInv, QueueOK
<1>6. /\ ClearOK(m, phase)' /\ RootsOK(m)' /\ SeenOK(m)'
      /\ (writeFailures = 0 => TriedOK(m, heard))' /\ FlightOK(m, heard)'
      /\ (\A i \in Instances : PendingOK(m, i, heard[i]))'
  BY <1>1 DEF IInv, ManagerInv, TriedOK, Excused, PendingOK
<1>. QED  BY <1>2, <1>3, <1>4, <1>5, <1>6 DEF IInv, ManagerInv

LEMMA StutterMoves ==
  ASSUME IInv, UNCHANGED vars
  PROVE  IInv'
<1>1. /\ m' = m /\ phase' = phase /\ listed' = listed /\ queued' = queued
      /\ persisted' = persisted /\ sent' = sent /\ heard' = heard /\ lost' = lost
      /\ toggles' = toggles /\ writeFailures' = writeFailures /\ strayed' = strayed
      /\ overtaken' = overtaken
      /\ sessions' = sessions /\ asked' = asked /\ settled' = settled
  BY DEF vars, hydrationVars, daemonVars, historyVars
<1>2. TypeOK' /\ LostOK(m)' /\ SentOK'
  BY <1>1 DEF IInv, TypeOK, ManagerInv, LostOK, SentOK
<1>3. HeardOK'
  BY <1>1 DEF IInv, ManagerInv, HeardOK, Happened
<1>4. QueueOK'
  BY <1>1 DEF IInv, ManagerInv, QueueOK
<1>5. /\ ClearOK(m, phase)' /\ RootsOK(m)' /\ SeenOK(m)'
      /\ (writeFailures = 0 => TriedOK(m, heard))' /\ FlightOK(m, heard)'
      /\ (\A i \in Instances : PendingOK(m, i, heard[i]))'
  BY <1>1 DEF IInv, ManagerInv, TriedOK, Excused, PendingOK
<1>. QED  BY <1>2, <1>3, <1>4, <1>5 DEF IInv, ManagerInv

-----------------------------------------------------------------------------
(* The theorems *)

LEMMA NextKeeps == IInv /\ [Next]_vars => IInv'
<1> SUFFICES ASSUME IInv, [Next]_vars PROVE IInv'
  OBVIOUS
<1>1. CASE External
  <2>1. CASE DaemonStep
    BY <2>1, DaemonMoves
  <2>2. ASSUME NEW i \in Instances, \E e \in Events : Relay(i, e)
        PROVE  IInv'
    BY <2>2, RelayMoves
  <2>3. ASSUME NEW i \in Instances, \E s \in Sessions : RequestToggle(i, s)
        PROVE  IInv'
    BY <2>3, RequestMoves
  <2>4. ASSUME NEW i \in Instances, StartHydration(i)
        PROVE  IInv'
    BY <2>4, HydrationMoves
  <2>5. ASSUME NEW i \in Instances, ClearInstance(i)
        PROVE  IInv'
    BY <2>5, ClearMoves
  <2>. QED  BY <1>1, <2>1, <2>2, <2>3, <2>4, <2>5 DEF External, DaemonStep
<1>2. ASSUME NEW i \in Instances, Hydrate(i)
      PROVE  IInv'
  BY <1>2, HydrationMoves, FillMoves, ReplayMoves DEF Hydrate
<1>3. ASSUME NEW i \in Instances, Mutate(i)
      PROVE  IInv'
  BY <1>3, ToggleAwaitsMoves, ToggleLoadsMoves, ToggleWritesMoves, MigrationStartsMoves,
     MigrationWritesMoves, WriteFailsMoves DEF Mutate
<1>4. ASSUME NEW i \in Instances, NEW s \in Sessions,
             SessionFound(i, s) \/ SessionLoads(i, s) \/ SessionMissing(i, s)
      PROVE  IInv'
  BY <1>4, LoadMoves
<1>5. ASSUME NEW p \in Permissions, Reply(p)
      PROVE  IInv'
  BY <1>5, ReplyEndsMoves, DispatchMoves DEF Reply
<1>6. CASE UNCHANGED vars
  BY <1>6, StutterMoves
<1>. QED  BY <1>1, <1>2, <1>3, <1>4, <1>5, <1>6 DEF Next

\* What the manager remembers of workspaces, families, toggles and requests fits
\* together after every step.
THEOREM ManagerInductive == Spec => []IInv
<1>1. Init => IInv
  BY InitOK
<1>2. IInv /\ [Next]_vars => IInv'
  BY NextKeeps
<1>. QED  BY <1>1, <1>2, PTL DEF Spec

\* The variables keep their types.
THEOREM TypeCorrect == Spec => []TypeOK
<1>1. IInv => TypeOK
  BY DEF IInv
<1>. QED  BY <1>1, ManagerInductive, PTL

\* Nothing that was under way when a workspace stopped brings its state back.
THEOREM StoppedWorkspacesStayClear == Spec => []StoppedStaysClear
<1>1. IInv => StoppedStaysClear
  BY DEF IInv, ManagerInv, ClearOK, StoppedStaysClear, Knows
<1>. QED  BY <1>1, ManagerInductive, PTL

\* An enabled session is the root of its family, so a family is on or off as a whole.
EnabledAreRoots ==
  \A i \in Instances : \A r \in m.enabled[i] : FamilyRoot(m, i, r) = r

THEOREM EnabledSessionsAreRoots == Spec => []EnabledAreRoots
<1>1. IInv => EnabledAreRoots
  <2> SUFFICES ASSUME IInv, NEW i \in Instances, NEW r \in m.enabled[i]
               PROVE  FamilyRoot(m, i, r) = r
    BY DEF EnabledAreRoots
  <2>1. r \in Sessions /\ ~Climbs(m.tree[i], r)
    BY DEF IInv, TypeOK, Memory, ManagerInv, RootsOK
  <2>. QED  BY <2>1, RootOfRoot DEF FamilyRoot
<1>. QED  BY <1>1, ManagerInductive, PTL

\* Whatever order events, toggles and replies arrive in, a pending request of an
\* enabled family is answered or tried, and none that was answered stays pending;
\* but for requests that were overtaken while a hydration ended.
THEOREM PendingRequestsAreExact == Spec => []PendingIsExact
<1>1. IInv => EnabledPendingIsTried
  <2> SUFFICES ASSUME IInv, NEW i \in Instances, m.chain[i] = <<>>, writeFailures = 0,
                      NEW p \in m.pending[i] \ overtaken[i], Knows(m, i, SessionOf[p]),
                      IsEnabled(m, i, SessionOf[p]), ~OverElsewhere(i, p),
                      m.inFlight[p] = 0, m.attempts[p] = 0
               PROVE  FALSE
    BY DEF EnabledPendingIsTried
  <2>1. TriedOK(m, heard) /\ Untried(m, i, p)
    BY DEF IInv, ManagerInv, Untried
  <2>2. ~ToBeDisabled(m, i, p)
    BY DEF ToBeDisabled
  <2>3. Excused(heard, i, p)
    BY <2>1, <2>2 DEF TriedOK
  <2>. QED  BY <2>3 DEF Excused, OverAt, Over, Replied, SessionEnd, OverElsewhere
<1>2. IInv => SettledIsNotPending
  BY DEF IInv, ManagerInv, PendingOK, Over, Replied, SettledIsNotPending
<1>3. IInv => PendingIsExact
  BY <1>1, <1>2 DEF PendingIsExact
<1>. QED  BY <1>3, ManagerInductive, PTL

\* A reply that may have reached the daemon is never dispatched again.
THEOREM LostRepliesAreNotReplayed == Spec => LostReplyNotReplayed
<1>1. IInv /\ [Next]_vars => [\A p \in sent' \ sent : p \notin lost]_vars
  <2> SUFFICES ASSUME IInv, Next, NEW p \in sent' \ sent, p \in lost
               PROVE  FALSE
    OBVIOUS
  <2>1. ASSUME NEW q \in Permissions, Reply(q)
        PROVE  q = p /\ ReplyDispatches(p)
    BY <2>1 DEF Reply, ReplyFails, ReplyDispatches, ReplySucceeds, ReplyLost
  <2>2. CASE External
    <3>1. sent' = sent
      BY <2>2, ZenonT(40) DEF External, CreateSession, DeleteSession, Ask, UserReplies, Relay,
         RequestToggle, StartHydration, ClearInstance
    <3>. QED  BY <3>1, ZenonT(40)
  <2>3. ASSUME NEW i \in Instances, Hydrate(i) \/ Mutate(i)
        PROVE  sent' = sent
    BY <2>3 DEF Hydrate, HydrationLists, HydrationFails, HydrationFills, HydrationReplays, Mutate,
       ToggleFinds, ToggleLoads, ToggleEnds, ToggleWrites, MigrationStarts,
       MigrationWrites, WriteFails
  <2>4. ASSUME NEW i \in Instances, NEW s \in Sessions,
               SessionFound(i, s) \/ SessionLoads(i, s) \/ SessionMissing(i, s)
        PROVE  sent' = sent
    BY <2>4 DEF SessionFound, SessionLoads, SessionMissing
  <2>5. \E q \in Permissions : Reply(q)
    BY <2>2, <2>3, <2>4 DEF Next
  <2>6. ReplyDispatches(p)
    BY <2>1, <2>5
  <2>7. m.inFlight[p] # 0 /\ p \notin settled /\ sessions[SessionOf[p]] # "deleted"
    BY <2>6 DEF ReplyDispatches
  <2>. QED  BY <2>7 DEF IInv, ManagerInv, LostOK
<1>. QED  BY <1>1, ManagerInductive, PTL DEF Spec, LostReplyNotReplayed

-----------------------------------------------------------------------------
(* What one workspace stores *)

\* The workspaces over the same sessions share the stored flags, and each reads them
\* once: what is stored follows the memory of a workspace only if there is no other.
Alone == \A i, j \in Instances : i = j

\* A session is known as what it is.
KindsOK(tree) == \A s \in Sessions : tree[s] \in {"unknown", KindOf(s)}

Retiring(op) == op.session # NoSession /\ op.stage = "retire"

\* A toggle that retires the old root has stored the new one.
RetireOK(q, stored) ==
  q # <<>> /\ Retiring(q[1]) =>
    q[1].enable /\ q[1].target \in stored /\ q[1].target # q[1].last

\* All the roots a toggle met are in the family of its session, and of those only the
\* one being written may still be a root.
FamilyOK(tree, op) ==
  /\ tree[op.session] # "unknown" /\ op.last \in op.seen
  /\ \A r \in op.seen : tree[r] # "unknown" /\ RootIn(tree, r) = RootIn(tree, op.session)
  /\ op.target # op.last => Climbs(tree, op.last)

\* A migration adds what is known and removes what is no root, and once it has begun
\* what it adds is enabled as long as it is a root.
MigrationOK(tree, roots, op) ==
  /\ \A r \in op.adds : /\ tree[r] # "unknown"
                        /\ op.stage = "write" => Climbs(tree, r) \/ r \in roots
  /\ \A r \in op.removes : Climbs(tree, r)

\* The stored sessions, the enabled roots and the chain q of one workspace: an enabled
\* root that is not stored is about to be added, and a root that is stored and not
\* enabled is the one that a toggle has just written.
Stored(tree, roots, q, stored) ==
  /\ \A s \in stored \cup roots : tree[s] # "unknown"
  /\ \A s \in roots \ stored : \E n \in 1..Len(q) : q[n].session = NoSession /\ s \in q[n].adds
  /\ \A s \in stored \ roots :
       ~Climbs(tree, s) => q # <<>> /\ Retiring(q[1]) /\ q[1].target = s
  /\ \A n \in 1..Len(q) : q[n].session = NoSession => MigrationOK(tree, roots, q[n])
  /\ q # <<>> /\ Writing(q[1]) => FamilyOK(tree, q[1])

\* Nothing happened to i that the store need not follow.
Calm(i) ==
  /\ phase[i] = "hydrated" /\ ~strayed /\ writeFailures = 0
  /\ \A e \in heard[i] : e.type # "deleted"

\* Nothing is enabled in i, to be written or stored.
Bare(mem, i, stored) == mem.enabled[i] = {} /\ mem.chain[i] = <<>> /\ stored = {}

\* Until the hydration is over there is nothing to store.
StoreInv == \A i \in Instances :
  /\ KindsOK(m.tree[i])
  /\ phase[i] \notin {"hydrated", "stopped"} => Bare(m, i, persisted)
  /\ RetireOK(m.chain[i], persisted)
  /\ Calm(i) => Stored(m.tree[i], m.enabled[i], m.chain[i], persisted)

-----------------------------------------------------------------------------
(* Trees that grow *)

\* The root of a known session is known.
LEMMA KnownRoot ==
  ASSUME NEW tree
  PROVE  \A x \in Sessions : tree[x] # "unknown" => tree[RootIn(tree, x)] # "unknown"
<1> DEFINE S == {x \in Sessions : tree[x] # "unknown" => tree[RootIn(tree, x)] # "unknown"}
<1>1. ASSUME NEW x \in Sessions, Parent[x] \in Sessions => Parent[x] \in S
      PROVE  x \in S
  <2>1. CASE Climbs(tree, x)
    <3>1. /\ Parent[x] \in Sessions /\ tree[Parent[x]] # "unknown"
          /\ RootIn(tree, x) = RootIn(tree, Parent[x])
      BY <2>1, RootUnfolds DEF Climbs
    <3>. QED  BY <1>1, <3>1
  <2>2. CASE ~Climbs(tree, x)
    <3>1. RootIn(tree, x) = x
      BY <2>2, RootUnfolds
    <3>. QED  BY <3>1
  <2>. QED  BY <2>1, <2>2
<1>2. S = Sessions
  BY <1>1, TreeInduction
<1>. QED  BY <1>2

\* A session that is added takes nothing from a tree, and old roots lead to the new ones.
Grows(tree, grown) ==
  /\ KindsOK(grown)
  /\ \A x \in Sessions : /\ tree[x] # "unknown" => grown[x] # "unknown"
                         /\ Climbs(tree, x) => Climbs(grown, x)
                         /\ RootIn(grown, RootIn(tree, x)) = RootIn(grown, x)

LEMMA TreeGrows ==
  ASSUME NEW tree \in [Sessions -> {"unknown", "plain", "fork"}], KindsOK(tree),
         NEW s \in Sessions
  PROVE  LET grown == [tree EXCEPT ![s] = KindOf(s)]
         IN  Grows(tree, grown) /\ grown[s] # "unknown"
<1> DEFINE grown == [tree EXCEPT ![s] = KindOf(s)]
<1>1. KindOf(s) \in {"plain", "fork"}
  BY KindType
<1>2. /\ grown \in [Sessions -> {"unknown", "plain", "fork"}]
      /\ grown[s] = KindOf(s) /\ \A x \in Sessions \ {s} : grown[x] = tree[x]
  BY <1>1
<1>3. CASE tree[s] = "unknown"
  <2>1. [grown EXCEPT ![s] = "unknown"] = tree
    BY <1>3
  <2> HIDE DEF grown
  <2>2. \A x \in Sessions : RootIn(grown, RootIn(tree, x)) = RootIn(grown, x)
    BY <1>2, <2>1, RootsShrink
  <2>3. \A x \in Sessions : Climbs(tree, x) => x # s /\ Parent[x] # s
    BY <1>3 DEF Climbs
  <2>4. \A x \in Sessions : Climbs(tree, x) => Climbs(grown, x)
    BY <1>2, <2>3 DEF Climbs
  <2>5. KindsOK(grown)
    BY <1>2 DEF KindsOK
  <2>6. \A x \in Sessions : tree[x] # "unknown" => grown[x] # "unknown"
    BY <1>2, <1>3
  <2>. QED  BY <1>1, <1>2, <2>2, <2>4, <2>5, <2>6 DEF Grows, grown
<1>4. CASE tree[s] # "unknown"
  <2>1. tree[s] = KindOf(s)
    BY <1>4 DEF KindsOK
  <2>2. grown = tree
    BY <2>1
  <2> HIDE DEF grown
  <2>3. Grows(tree, tree)
    BY RootOfRoot DEF Grows
  <2>. QED  BY <1>4, <2>2, <2>3 DEF grown
<1>. QED  BY <1>3, <1>4

-----------------------------------------------------------------------------
(* What keeps a store in step with the memory *)

\* A migration that waits behind the first mutation adds s.
Later(q, s) == \E n \in 2..Len(q) : q[n].session = NoSession /\ s \in q[n].adds

\* What waits behind the first mutation has not begun.
Waits(tree, roots, q) ==
  /\ q \in Seq(Mutations) /\ q # <<>>
  /\ \A n \in 2..Len(q) :
       q[n].stage = "load" /\ (q[n].session = NoSession => MigrationOK(tree, roots, q[n]))

\* The chain goes on without its first mutation.
LEMMA TailStores ==
  ASSUME NEW tree, NEW roots, NEW q, Waits(tree, roots, q), NEW new, NEW stored,
         \A s \in stored \cup new : tree[s] # "unknown",
         \A s \in new \ stored : Later(q, s),
         \A s \in stored \ new : Climbs(tree, s)
  PROVE  Stored(tree, new, Tail(q), stored)
<1> DEFINE t == Tail(q)
<1>1. /\ t \in Seq(Mutations) /\ Len(t) \in Nat
      /\ \A n \in 1..Len(t) : n + 1 \in 2..Len(q) /\ t[n] = q[n + 1]
      /\ \A n \in 2..Len(q) : n - 1 \in 1..Len(t) /\ t[n - 1] = q[n]
  BY DEF Waits
<1> HIDE DEF t
<1>2. \A s \in new \ stored : \E n \in 1..Len(t) : t[n].session = NoSession /\ s \in t[n].adds
  BY <1>1 DEF Later
<1>3. \A n \in 1..Len(t) : t[n].stage = "load"
  BY <1>1 DEF Waits
<1>4. t # <<>> => ~Writing(t[1])
  BY <1>1, <1>3 DEF Writing
<1>5. \A n \in 1..Len(t) : t[n].session = NoSession => MigrationOK(tree, roots, t[n])
  BY <1>1 DEF Waits
<1>6. \A n \in 1..Len(t) : t[n].session = NoSession => MigrationOK(tree, new, t[n])
  BY <1>3, <1>5 DEF MigrationOK
<1>. QED  BY <1>2, <1>4, <1>6 DEF Stored, t

\* The first mutation goes on as op.
LEMMA ReplacedStores ==
  ASSUME NEW tree, NEW roots, NEW q, Waits(tree, roots, q), NEW stored,
         NEW op \in Mutations,
         \A s \in stored \cup roots : tree[s] # "unknown",
         \A s \in roots \ stored : Later(q, s) \/ (op.session = NoSession /\ s \in op.adds),
         \A s \in stored \ roots : ~Climbs(tree, s) => Retiring(op) /\ op.target = s,
         op.session = NoSession => MigrationOK(tree, roots, op),
         Writing(op) => FamilyOK(tree, op)
  PROVE  Stored(tree, roots, Replaced(q, op), stored)
<1> DEFINE t == Replaced(q, op)
<1>1. /\ t \in Seq(Mutations) /\ t # <<>> /\ t[1] = op /\ Len(t) = Len(q)
      /\ \A n \in 2..Len(q) : t[n] = q[n]
      /\ Len(q) \in Nat \ {0}
  BY ReplacedFirst DEF Waits
<1> HIDE DEF t
<1>2. \A n \in 1..Len(q) : n = 1 \/ n \in 2..Len(q)
  BY <1>1
<1>3. \A s \in roots \ stored : \E n \in 1..Len(t) : t[n].session = NoSession /\ s \in t[n].adds
  <2> SUFFICES ASSUME NEW s \in roots \ stored
               PROVE  \E n \in 1..Len(t) : t[n].session = NoSession /\ s \in t[n].adds
    OBVIOUS
  <2>1. CASE Later(q, s)
    <3>1. PICK n \in 2..Len(q) : q[n].session = NoSession /\ s \in q[n].adds
      BY <2>1 DEF Later
    <3>2. n \in 1..Len(t) /\ t[n] = q[n]
      BY <1>1
    <3>. QED  BY <3>1, <3>2
  <2>2. CASE op.session = NoSession /\ s \in op.adds
    <3>1. 1 \in 1..Len(t)
      BY <1>1
    <3>. QED  BY <1>1, <2>2, <3>1
  <2>. QED  BY <2>1, <2>2
<1>4. \A n \in 1..Len(t) : t[n].session = NoSession => MigrationOK(tree, roots, t[n])
  BY <1>1, <1>2 DEF Waits
<1>. QED  BY <1>1, <1>3, <1>4 DEF Stored, t

\* What a stored memory says of the mutations that wait.
LEMMA StoredWaits ==
  ASSUME NEW tree, NEW roots, NEW q \in Seq(Mutations), NEW stored,
         Stored(tree, roots, q, stored), q # <<>>, \A n \in 2..Len(q) : q[n].stage = "load"
  PROVE  /\ Waits(tree, roots, q)
         /\ \A s \in roots \ stored : Later(q, s) \/ (q[1].session = NoSession /\ s \in q[1].adds)
         /\ q[1].session = NoSession => MigrationOK(tree, roots, q[1])
<1>1. Len(q) \in Nat \ {0} /\ \A n \in 1..Len(q) : n = 1 \/ n \in 2..Len(q)
  OBVIOUS
<1>2. 1 \in 1..Len(q) /\ \A n \in 2..Len(q) : n \in 1..Len(q)
  BY <1>1
<1>3. Waits(tree, roots, q)
  BY <1>2 DEF Waits, Stored
<1>4. \A s \in roots \ stored : Later(q, s) \/ (q[1].session = NoSession /\ s \in q[1].adds)
  BY <1>1 DEF Stored, Later
<1>. QED  BY <1>2, <1>3, <1>4 DEF Stored

\* The chain new is q, or q with one mutation more that has not begun.
Longer(q, new, op) ==
  /\ new \in Seq(Mutations) /\ Len(q) \in Nat /\ Len(new) \in Nat /\ Len(q) <= Len(new)
  /\ \A n \in 1..Len(q) : new[n] = q[n]
  /\ \A n \in 1..Len(new) : n \in 1..Len(q) \/ new[n] = op
  /\ new # <<>> => new[1] = IF q = <<>> THEN op ELSE q[1]
  /\ q # <<>> => new # <<>>

LEMMA AppendLonger ==
  ASSUME NEW q \in Seq(Mutations), NEW op \in Mutations
  PROVE  /\ Longer(q, Append(q, op), op) /\ Longer(q, q, op)
         /\ Len(q) + 1 \in 1..Len(Append(q, op)) /\ Append(q, op)[Len(q) + 1] = op
<1> DEFINE new == Append(q, op)
<1>1. /\ new \in Seq(Mutations) /\ new # <<>> /\ Len(new) = Len(q) + 1 /\ Len(q) \in Nat
      /\ \A n \in 1..Len(q) : new[n] = q[n]
      /\ new[Len(q) + 1] = op
  OBVIOUS
<1>2. q # <<>> => 1 \in 1..Len(q)
  OBVIOUS
<1>3. q = <<>> => Len(q) = 0
  OBVIOUS
<1> HIDE DEF new
<1>4. \A n \in 1..Len(new) : n \in 1..Len(q) \/ n = Len(q) + 1
  BY <1>1
<1>5. new[1] = IF q = <<>> THEN op ELSE q[1]
  BY <1>1, <1>2, <1>3
<1>6. Longer(q, new, op)
  BY <1>1, <1>4, <1>5 DEF Longer
<1>7. Longer(q, q, op)
  BY <1>1 DEF Longer
<1>8. Len(q) + 1 \in 1..Len(new)
  BY <1>1
<1>. QED  BY <1>1, <1>6, <1>7, <1>8 DEF new

\* Families that grow, by a session whose enabled roots move with them: the chain needs
\* a migration only where roots did move.
LEMMA GrowStores ==
  ASSUME NEW tree \in [Sessions -> {"unknown", "plain", "fork"}], NEW grown, Grows(tree, grown),
         NEW roots \in SUBSET Sessions, \A r \in roots : ~Climbs(tree, r),
         NEW stored \in SUBSET Sessions, NEW q \in Seq(Mutations),
         Stored(tree, roots, q, stored)
  PROVE  LET moved == Migrated(grown, roots)
         IN  \A new : \/ new = q /\ moved = roots
                      \/ new = Append(q, Migration(roots, moved))
               => Stored(grown, moved, new, stored)
<1> DEFINE moved == Migrated(grown, roots)
           op == Migration(roots, moved)
<1>1. moved \in SUBSET Sessions
  BY RootIsARoot DEF Migrated
<1>2. \A r \in roots : Climbs(grown, r) \/ r \in moved
  <2>1. \A r \in roots : ~Climbs(grown, r) => RootIn(grown, r) = r
    BY RootOfRoot
  <2>. QED  BY <2>1 DEF Migrated
<1>3. \A r \in roots \ moved : Climbs(grown, r)
  BY <1>2
<1>4. \A r \in moved : grown[r] # "unknown"
  <2>1. \A r \in roots : grown[r] # "unknown"
    BY DEF Stored, Grows
  <2>. QED  BY <2>1, KnownRoot DEF Migrated
<1>5. op \in Mutations /\ op.session = NoSession /\ op.stage = "load"
  BY <1>1, MigrationType
<1>6. op.adds = moved \ roots /\ op.removes = roots \ moved
  BY DEF Migration, Toggle
<1> HIDE DEF moved, op
<1>7. MigrationOK(grown, moved, op)
  BY <1>3, <1>4, <1>5, <1>6 DEF MigrationOK
<1>8. ASSUME NEW x \in Mutations, MigrationOK(tree, roots, x)
      PROVE  MigrationOK(grown, moved, x)
  <2>1. x.adds \in SUBSET Sessions /\ x.removes \in SUBSET Sessions
    BY DEF Mutations
  <2>. QED  BY <1>2, <1>8, <2>1 DEF MigrationOK, Grows
<1>9. ASSUME NEW x \in Mutations, x.session # NoSession, Writing(x), FamilyOK(tree, x)
      PROVE  FamilyOK(grown, x)
  <2>1. x.session \in Sessions /\ x.seen \in SUBSET Sessions /\ x.last \in Sessions
    BY <1>9 DEF FamilyOK, Mutations
  <2>2. \A r \in x.seen : RootIn(grown, r) = RootIn(grown, x.session)
    BY <1>9, <2>1 DEF FamilyOK, Grows
  <2>. QED  BY <1>9, <2>1, <2>2 DEF FamilyOK, Grows
<1> SUFFICES ASSUME NEW new, (new = q /\ moved = roots) \/ new = Append(q, op)
             PROVE  Stored(grown, moved, new, stored)
  BY DEF moved, op
<1>10. Longer(q, new, op)
  BY <1>5, AppendLonger
<1>11. \A s \in moved \ stored :
         \E n \in 1..Len(new) : new[n].session = NoSession /\ s \in new[n].adds
  <2> SUFFICES ASSUME NEW s \in moved \ stored
               PROVE  \E n \in 1..Len(new) : new[n].session = NoSession /\ s \in new[n].adds
    OBVIOUS
  <2>1. CASE s \in roots
    <3>1. PICK n \in 1..Len(q) : q[n].session = NoSession /\ s \in q[n].adds
      BY <2>1 DEF Stored
    <3>2. n \in 1..Len(new) /\ new[n] = q[n]
      BY <1>10 DEF Longer
    <3>. QED  BY <3>1, <3>2
  <2>2. CASE s \notin roots
    <3>1. new = Append(q, op)
      BY <2>2
    <3>2. Len(q) + 1 \in 1..Len(new) /\ new[Len(q) + 1] = op
      BY <1>5, <3>1, AppendLonger
    <3>. QED  BY <1>5, <1>6, <2>2, <3>2
  <2>. QED  BY <2>1, <2>2
<1>12. \A s \in stored \ moved : ~Climbs(grown, s) =>
         new # <<>> /\ Retiring(new[1]) /\ new[1].target = s
  <2> SUFFICES ASSUME NEW s \in stored \ moved, ~Climbs(grown, s)
               PROVE  new # <<>> /\ Retiring(new[1]) /\ new[1].target = s
    OBVIOUS
  <2>1. s \in Sessions /\ s \notin roots /\ ~Climbs(tree, s)
    BY <1>2 DEF Grows
  <2>2. q # <<>> /\ Retiring(q[1]) /\ q[1].target = s
    BY <2>1 DEF Stored
  <2>3. new # <<>> /\ new[1] = q[1]
    BY <1>10, <2>2 DEF Longer
  <2>. QED  BY <2>2, <2>3
<1>13. \A n \in 1..Len(new) : new[n].session = NoSession => MigrationOK(grown, moved, new[n])
  <2> SUFFICES ASSUME NEW n \in 1..Len(new), new[n].session = NoSession
               PROVE  MigrationOK(grown, moved, new[n])
    OBVIOUS
  <2>1. CASE n \in 1..Len(q)
    <3>1. new[n] = q[n] /\ q[n] \in Mutations
      BY <1>10, <2>1 DEF Longer
    <3>2. MigrationOK(tree, roots, q[n])
      BY <2>1, <3>1 DEF Stored
    <3>. QED  BY <1>8, <3>1, <3>2
  <2>2. CASE n \notin 1..Len(q)
    <3>1. new[n] = op
      BY <1>10, <2>2 DEF Longer
    <3>. QED  BY <1>7, <3>1
  <2>. QED  BY <2>1, <2>2
<1>14. new # <<>> /\ Writing(new[1]) => FamilyOK(grown, new[1])
  <2> SUFFICES ASSUME new # <<>>, Writing(new[1]) PROVE FamilyOK(grown, new[1])
    OBVIOUS
  <2>1. q # <<>> /\ new[1] = q[1]
    BY <1>5, <1>10 DEF Longer, Writing
  <2>2. q[1] \in Mutations /\ FamilyOK(tree, q[1])
    BY <2>1 DEF Stored
  <2>. QED  BY <1>9, <2>1, <2>2 DEF Writing
<1>15. \A s \in stored \cup moved : grown[s] # "unknown"
  BY <1>4 DEF Stored, Grows
<1>. QED  BY <1>11, <1>12, <1>13, <1>14, <1>15 DEF Stored

\* A toggle that joins the chain changes nothing yet.
LEMMA AppendStores ==
  ASSUME NEW tree, NEW roots, NEW q \in Seq(Mutations), NEW stored,
         Stored(tree, roots, q, stored),
         NEW op \in Mutations, op.session # NoSession, op.stage = "load"
  PROVE  Stored(tree, roots, Append(q, op), stored)
<1> DEFINE new == Append(q, op)
<1>1. Longer(q, new, op)
  BY AppendLonger
<1> HIDE DEF new
<1>2. \A n \in 1..Len(q) : n \in 1..Len(new) /\ new[n] = q[n]
  BY <1>1 DEF Longer
<1>3. \A s \in roots \ stored :
        \E n \in 1..Len(new) : new[n].session = NoSession /\ s \in new[n].adds
  BY <1>2 DEF Stored
<1>4. q # <<>> => new # <<>> /\ new[1] = q[1]
  BY <1>1 DEF Longer
<1>5. new # <<>> /\ Writing(new[1]) => q # <<>> /\ new[1] = q[1]
  BY <1>1 DEF Longer, Writing
<1>6. \A n \in 1..Len(new) : new[n].session = NoSession => n \in 1..Len(q) /\ new[n] = q[n]
  BY <1>1 DEF Longer
<1>. QED  BY <1>3, <1>4, <1>5, <1>6 DEF Stored, new

-----------------------------------------------------------------------------
(* What events do to one workspace *)

\* The families and the chains of two memories are the same.
Alike(mem, new) ==
  new \in Memory /\ new.tree = mem.tree /\ new.enabled = mem.enabled /\ new.chain = mem.chain

\* No handler of requests touches families or chains.
LEMMA RequestsAlike ==
  ASSUME NEW mem \in Memory, NEW i \in Instances
  PROVE  /\ \A I \in SUBSET Instances, P \in SUBSET Permissions :
              Alike(mem, RemovePending(mem, I, P))
         /\ \A s \in Sessions : Alike(mem, DrainPending(mem, i, s))
<1>1. \A I \in SUBSET Instances, P \in SUBSET Permissions :
        Alike(mem, RemovePending(mem, I, P))
  <2> SUFFICES ASSUME NEW I \in SUBSET Instances, NEW P \in SUBSET Permissions
               PROVE  Alike(mem, RemovePending(mem, I, P))
    OBVIOUS
  <2> DEFINE new == RemovePending(mem, I, P)
  <2>1. Removed(mem, new, I, P)
    BY RemoveFields
  <2> HIDE DEF new
  <2>2. Alike(mem, new)
    BY <2>1 DEF Removed, Alike
  <2>. QED  BY <2>2 DEF new
<1>2. ASSUME NEW s \in Sessions PROVE Alike(mem, DrainPending(mem, i, s))
  <2> DEFINE P == {p \in mem.pending[i] :
                     /\ Knows(mem, i, SessionOf[p])
                     /\ FamilyRoot(mem, i, SessionOf[p]) = FamilyRoot(mem, i, s)}
  <2>1. P \in SUBSET Permissions
    BY DEF Memory
  <2>2. DrainPending(mem, i, s) = TryAutoAccept(mem, P)
    BY DEF DrainPending
  <2> HIDE DEF P
  <2>3. TookUp(mem, DrainPending(mem, i, s), P)
    BY <2>1, <2>2, TryTakesUp
  <2>. QED  BY <2>3 DEF TookUp, Alike
<1>. QED  BY <1>1, <1>2

LEMMA AskAlike ==
  ASSUME NEW mem \in Memory, NEW i \in Instances, NEW p \in Permissions
  PROVE  Alike(mem, AskPermission(mem, i, p))
<1> DEFINE s == SessionOf[p]
           left == [mem.pending EXCEPT ![i] = mem.pending[i] \cup {p}]
           noted == [mem EXCEPT !.pending = left]
           loading == [mem.loading EXCEPT ![i] = [mem.loading[i] EXCEPT ![s] = "asked"]]
           new == AskPermission(mem, i, p)
<1>0. s \in Sessions
  BY PermissionAssumption
<1>1. /\ left \in [Instances -> SUBSET Permissions]
      /\ loading \in [Instances -> [Sessions -> {"no", "asked", "found"}]]
  BY <1>0 DEF Memory
<1>2. new \in {[noted EXCEPT !.loading = loading], TryAutoAccept(noted, {p}), noted}
  <2>1. noted.loading = mem.loading
    BY DEF Memory
  <2>2. /\ mem.loading[i] \in [Sessions -> {"no", "asked", "found"}]
        /\ mem.loading \in [Instances -> [Sessions -> {"no", "asked", "found"}]]
    BY DEF Memory
  <2>. QED  BY <2>1, <2>2 DEF AskPermission
<1> HIDE DEF left, loading
<1>3. Alike(mem, noted) /\ Alike(mem, [noted EXCEPT !.loading = loading])
  BY <1>1 DEF Memory, Alike
<1> HIDE DEF noted
<1>4. noted \in Memory
  BY <1>3 DEF Alike
<1>5. TookUp(noted, TryAutoAccept(noted, {p}), {p})
  BY <1>4, TryTakesUp
<1>6. Alike(mem, TryAutoAccept(noted, {p}))
  BY <1>3, <1>5 DEF TookUp, Alike
<1>. QED  BY <1>2, <1>3, <1>6 DEF new

\* What an event does to the families and the chain of i.
Evented(mem, new, i, e) ==
  LET tree  == [mem.tree[i] EXCEPT ![e.id] = KindOf(e.id)]
      roots == Migrated(tree, mem.enabled[i])
  IN  /\ new \in Memory
      /\ \/ /\ e.type = "created" /\ new.tree[i] = tree /\ new.enabled[i] = roots
            /\ IF roots = mem.enabled[i] THEN new.chain[i] = mem.chain[i]
               ELSE new.chain[i] = Append(mem.chain[i], Migration(mem.enabled[i], roots))
         \/ /\ e.type = "deleted" /\ new.tree[i] = [mem.tree[i] EXCEPT ![e.id] = "unknown"]
            /\ new.enabled[i] = mem.enabled[i] /\ new.chain[i] = mem.chain[i]
         \/ e.type \in {"asked", "replied"} /\ Alike(mem, new)

LEMMA EventShape ==
  ASSUME NEW mem \in Memory, NEW i \in Instances, NEW e \in Events
  PROVE  Evented(mem, HandleInstanceEvent(mem, i, e), i, e)
<1> DEFINE new == HandleInstanceEvent(mem, i, e)
<1>1. /\ e.type \in {"created", "deleted", "asked", "replied"}
      /\ e.type \in {"created", "deleted"} => e.id \in Sessions
      /\ e.type \in {"asked", "replied"} => e.id \in Permissions
  BY DEF Events
<1>2. CASE e.type = "created"
  <2> DEFINE s == e.id
             kind == KindOf(s)
             tree == [mem.tree[i] EXCEPT ![s] = kind]
             roots == Migrated(tree, mem.enabled[i])
             grown == Upsert(mem, i, s, kind)
             moved == PersistRootMigration(grown, i, mem.enabled[i])
             op == Migration(mem.enabled[i], roots)
             q == Append(mem.chain[i], op)
  <2>1. new = DrainPending(moved, i, s)
    BY <1>2, Zenon DEF HandleInstanceEvent, IngestSession
  <2>2. s \in Sessions /\ kind \in {"plain", "fork"}
    BY <1>1, <1>2, KindType
  <2> HIDE DEF kind
  <2>3. Joined(mem, grown, i, s, kind)
    BY <2>2, UpsertFields, Zenon
  <2> HIDE DEF grown
  <2>4. /\ grown \in Memory /\ grown.chain = mem.chain /\ grown.tree[i] = tree
        /\ grown.enabled[i] = roots /\ mem.enabled[i] \in SUBSET Sessions
        /\ roots \in SUBSET Sessions /\ mem.chain[i] \in Seq(Mutations)
    <3>1. /\ mem.tree \in [Instances -> [Sessions -> {"unknown", "plain", "fork"}]]
          /\ mem.enabled \in [Instances -> SUBSET Sessions]
          /\ mem.chain \in [Instances -> Seq(Mutations)]
      BY DEF Memory
    <3>2. roots \in SUBSET Sessions
      BY <3>1, RootIsARoot DEF Migrated
    <3> HIDE DEF tree, roots
    <3>3. /\ grown \in Memory /\ grown.chain = mem.chain
          /\ grown.tree = [mem.tree EXCEPT ![i] = tree]
          /\ grown.enabled = [mem.enabled EXCEPT ![i] = roots]
      BY <2>3 DEF Joined, tree, roots
    <3>. QED  BY <3>1, <3>2, <3>3
  <2> HIDE DEF tree, roots
  <2>5. op \in Mutations
    BY <2>4, MigrationType
  <2>6. CASE roots = mem.enabled[i]
    <3>1. moved = grown
      BY <2>4, <2>6 DEF PersistRootMigration
    <3>2. Alike(grown, new)
      BY <2>1, <2>2, <2>4, <3>1, RequestsAlike
    <3>. QED  BY <1>2, <2>4, <2>6, <3>2 DEF Alike, Evented, tree, roots, kind
  <2>7. CASE roots # mem.enabled[i]
    <3>1. moved = [grown EXCEPT !.chain[i] = q]
      BY <2>4, <2>7 DEF PersistRootMigration
    <3>2. q \in Seq(Mutations)
      BY <2>4, <2>5
    <3> HIDE DEF q
    <3>3. Chained(grown, moved, i, q)
      BY <2>4, <3>1, <3>2, ChainFields
    <3>4. /\ moved \in Memory /\ moved.tree[i] = tree /\ moved.enabled[i] = roots
          /\ moved.chain[i] = q
      BY <2>4, <3>3 DEF Chained, Memory
    <3> HIDE DEF moved
    <3>5. Alike(moved, new)
      BY <2>1, <2>2, <3>4, RequestsAlike
    <3>. QED  BY <1>2, <2>7, <3>4, <3>5 DEF Alike, Evented, tree, roots, kind, q, op
  <2>. QED  BY <2>6, <2>7
<1>3. CASE e.type = "deleted"
  <2> DEFINE s == e.id
             P == {p \in Permissions : SessionOf[p] = s}
             cut == [mem.tree[i] EXCEPT ![s] = "unknown"]
             short == [mem EXCEPT !.tree[i][s] = "unknown"]
  <2>1. new = RemovePending(short, {i}, P)
    BY <1>3, Zenon DEF HandleInstanceEvent, RemoveSession
  <2>2. /\ mem.tree \in [Instances -> [Sessions -> {"unknown", "plain", "fork"}]]
        /\ s \in Sessions
    BY <1>1, <1>3 DEF Memory
  <2>3. /\ short \in Memory /\ short.tree = [mem.tree EXCEPT ![i] = cut]
        /\ short.enabled = mem.enabled /\ short.chain = mem.chain
    BY <2>2 DEF Memory
  <2> HIDE DEF short
  <2>4. P \in SUBSET Permissions
    OBVIOUS
  <2> HIDE DEF P
  <2>5. Alike(short, new)
    BY <2>1, <2>3, <2>4, RequestsAlike
  <2>. QED  BY <1>3, <2>2, <2>3, <2>5 DEF Alike, Evented
<1>4. CASE e.type = "asked"
  <2>1. new = AskPermission(mem, i, e.id)
    BY <1>4, Zenon DEF HandleInstanceEvent
  <2>2. Alike(mem, new)
    BY <1>1, <1>4, <2>1, AskAlike
  <2>. QED  BY <1>4, <2>2 DEF Alike, Evented
<1>5. CASE e.type = "replied"
  <2>1. new = RemovePending(mem, {i}, {e.id})
    BY <1>5, Zenon DEF HandleInstanceEvent
  <2>2. Alike(mem, new)
    BY <1>1, <1>5, <2>1, RequestsAlike
  <2>. QED  BY <1>5, <2>2 DEF Alike, Evented
<1>. QED  BY <1>1, <1>2, <1>3, <1>4, <1>5

\* The head of a chain is the same when a mutation that has not begun joins.
LEMMA AppendRetires ==
  ASSUME NEW q \in Seq(Mutations), NEW op \in Mutations, op.stage = "load", NEW stored,
         RetireOK(q, stored)
  PROVE  RetireOK(Append(q, op), stored)
BY AppendLonger DEF Longer, RetireOK, Retiring

\* An event that deletes nothing leaves the store in step with the memory.
LEMMA EventStores ==
  ASSUME NEW mem \in Memory, NEW i \in Instances, NEW e \in Events, NEW new,
         Evented(mem, new, i, e), KindsOK(mem.tree[i]),
         \A r \in mem.enabled[i] : ~Climbs(mem.tree[i], r),
         NEW stored \in SUBSET Sessions, RetireOK(mem.chain[i], stored)
  PROVE  /\ KindsOK(new.tree[i]) /\ RetireOK(new.chain[i], stored)
         /\ e.type # "deleted" /\ Stored(mem.tree[i], mem.enabled[i], mem.chain[i], stored)
              => Stored(new.tree[i], new.enabled[i], new.chain[i], stored)
<1> DEFINE tree  == [mem.tree[i] EXCEPT ![e.id] = KindOf(e.id)]
           roots == Migrated(tree, mem.enabled[i])
           op == Migration(mem.enabled[i], roots)
<1>1. /\ mem.tree[i] \in [Sessions -> {"unknown", "plain", "fork"}]
      /\ mem.enabled[i] \in SUBSET Sessions /\ mem.chain[i] \in Seq(Mutations)
  BY DEF Memory
<1>2. CASE e.type = "created"
  <2>1. e.id \in Sessions
    BY <1>2 DEF Events
  <2>2. Grows(mem.tree[i], tree)
    BY <1>1, <2>1, TreeGrows
  <2>3. roots \in SUBSET Sessions
    BY <1>1, RootIsARoot DEF Migrated
  <2>4. /\ new.tree[i] = tree /\ new.enabled[i] = roots
        /\ (new.chain[i] = mem.chain[i] /\ roots = mem.enabled[i])
              \/ new.chain[i] = Append(mem.chain[i], op)
    BY <1>2 DEF Evented
  <2>5. Stored(mem.tree[i], mem.enabled[i], mem.chain[i], stored)
          => Stored(new.tree[i], new.enabled[i], new.chain[i], stored)
    <3> HIDE DEF tree
    <3>. QED  BY <1>1, <2>2, <2>4, GrowStores
  <2> HIDE DEF tree, roots
  <2>6. op \in Mutations /\ op.stage = "load"
    BY <1>1, <2>3, MigrationType
  <2> HIDE DEF op
  <2>7. RetireOK(new.chain[i], stored)
    BY <1>1, <2>4, <2>6, AppendRetires
  <2>. QED  BY <2>2, <2>4, <2>5, <2>7 DEF Grows
<1>3. CASE e.type = "deleted"
  <2>1. e.id \in Sessions
    BY <1>3 DEF Events
  <2>. QED  BY <1>1, <1>3, <2>1 DEF Evented, KindsOK
<1>4. CASE e.type \in {"asked", "replied"}
  BY <1>4 DEF Evented, Alike
<1>. QED  BY <1>2, <1>3, <1>4 DEF Evented

\* Nothing is enabled in i, and nothing is to be written.
Blank(mem, i) == mem \in Memory /\ KindsOK(mem.tree[i]) /\ Bare(mem, i, {})

\* Events enable nothing.
LEMMA BlankEvent ==
  ASSUME NEW mem, NEW i \in Instances, NEW e \in Events, Blank(mem, i)
  PROVE  Blank(HandleInstanceEvent(mem, i, e), i)
<1> DEFINE new == HandleInstanceEvent(mem, i, e)
<1>1. mem \in Memory /\ Evented(mem, new, i, e)
  BY EventShape DEF Blank
<1> HIDE DEF new
<1>2. RetireOK(mem.chain[i], {})
  BY DEF Blank, Bare, RetireOK
<1>3. KindsOK(new.tree[i])
  BY <1>1, <1>2, EventStores DEF Blank, Bare
<1>4. \A tree : Migrated(tree, {}) = {}
  BY DEF Migrated
<1>5. new \in Memory /\ new.enabled[i] = {} /\ new.chain[i] = <<>>
  BY <1>1, <1>4 DEF Blank, Bare, Evented, Alike
<1>. QED  BY <1>3, <1>5 DEF Blank, Bare, new

LEMMA BlankReplay ==
  ASSUME NEW i \in Instances, queued[i] \in Seq(Events), Blank(m, i)
  PROVE  Blank(Replayed(i, Len(queued[i])), i)
<1> DEFINE q == queued[i]
           K == {n \in Nat : n <= Len(q) => Blank(Replayed(i, n), i)}
<1>1. Len(q) \in Nat /\ \A n \in 1..Len(q) : q[n] \in Events
  OBVIOUS
<1>2. 0 \in K
  BY ReplayUnfolds
<1>3. ASSUME NEW n \in K PROVE n + 1 \in K
  <2> SUFFICES ASSUME n + 1 <= Len(q) PROVE Blank(Replayed(i, n + 1), i)
    BY <1>3
  <2>1. n \in Nat /\ n + 1 \in 1..Len(q) /\ (n + 1) - 1 = n
    BY <1>1, <1>3
  <2>2. Blank(Replayed(i, n), i)
    BY <1>1, <1>3, <2>1
  <2>3. Replayed(i, n + 1) = HandleInstanceEvent(Replayed(i, n), i, q[n + 1])
    BY <2>1, ReplayUnfolds
  <2>. QED  BY <1>1, <2>1, <2>2, <2>3, BlankEvent
<1>4. K = Nat
  BY <1>2, <1>3, AllNaturals
<1>. QED  BY <1>1, <1>4

-----------------------------------------------------------------------------
(* The steps of a workspace that is alone: hydration and events *)

LEMMA OneHas ==
  ASSUME IInv, StoreInv, NEW i \in Instances
  PROVE  /\ m \in Memory /\ m.tree[i] \in [Sessions -> {"unknown", "plain", "fork"}]
         /\ m.enabled[i] \in SUBSET Sessions /\ m.chain[i] \in Seq(Mutations)
         /\ persisted \in SUBSET Sessions
         /\ \A r \in m.enabled[i] : ~Climbs(m.tree[i], r)
         /\ \A n \in 2..Len(m.chain[i]) : m.chain[i][n].stage = "load"
         /\ KindsOK(m.tree[i]) /\ RetireOK(m.chain[i], persisted)
         /\ phase[i] \notin {"hydrated", "stopped"} => Bare(m, i, persisted)
         /\ Calm(i) => Stored(m.tree[i], m.enabled[i], m.chain[i], persisted)
<1>1. m \in Memory /\ persisted \in SUBSET Sessions /\ RootsOK(m) /\ SeenOK(m)
  BY DEF IInv, TypeOK, ManagerInv
<1>2. /\ m.tree[i] \in [Sessions -> {"unknown", "plain", "fork"}]
      /\ m.enabled[i] \in SUBSET Sessions /\ m.chain[i] \in Seq(Mutations)
  BY <1>1 DEF Memory
<1>. QED  BY <1>1, <1>2 DEF RootsOK, SeenOK, StoreInv

\* What the memory of the only workspace and the store have to satisfy.
LEMMA OneMoves ==
  ASSUME Alone, NEW i \in Instances, KindsOK(m'.tree[i]),
         phase'[i] \notin {"hydrated", "stopped"} => Bare(m', i, persisted'),
         RetireOK(m'.chain[i], persisted'),
         Calm(i)' => Stored(m'.tree[i], m'.enabled[i], m'.chain[i], persisted')
  PROVE  StoreInv'
<1> SUFFICES ASSUME NEW j \in Instances
             PROVE  /\ KindsOK(m'.tree[j])
                    /\ phase'[j] \notin {"hydrated", "stopped"} => Bare(m', j, persisted')
                    /\ RetireOK(m'.chain[j], persisted')
                    /\ Calm(j)' => Stored(m'.tree[j], m'.enabled[j], m'.chain[j], persisted')
  BY DEF StoreInv
<1>1. j = i
  BY DEF Alone
<1>. QED  BY <1>1

\* A step that leaves families, chains and the store alone.
LEMMA SameMoves ==
  ASSUME StoreInv, m'.tree = m.tree, m'.enabled = m.enabled, m'.chain = m.chain,
         persisted' = persisted, phase' = phase, heard' = heard, strayed' = strayed,
         writeFailures' = writeFailures
  PROVE  StoreInv'
<1>1. \A i \in Instances : Calm(i)' => Calm(i)
  BY DEF Calm
<1>. QED  BY <1>1 DEF StoreInv, Bare

LEMMA DaemonStores ==
  ASSUME StoreInv, DaemonStep
  PROVE  StoreInv'
<1>1. UNCHANGED <<m, hydrationVars, persisted, heard, historyVars>>
  <2>1. ASSUME NEW s \in Sessions, CreateSession(s) \/ DeleteSession(s)
        PROVE  UNCHANGED <<m, hydrationVars, persisted, heard, historyVars>>
    BY <2>1 DEF CreateSession, DeleteSession
  <2>2. ASSUME NEW p \in Permissions, Ask(p) \/ UserReplies(p)
        PROVE  UNCHANGED <<m, hydrationVars, persisted, heard, historyVars>>
    BY <2>2 DEF Ask, UserReplies
  <2>. QED  BY <2>1, <2>2 DEF DaemonStep
<1>2. /\ m' = m /\ phase' = phase /\ persisted' = persisted /\ heard' = heard
      /\ strayed' = strayed /\ writeFailures' = writeFailures
  BY <1>1 DEF hydrationVars, historyVars
<1>. QED  BY <1>2, SameMoves

LEMMA ReplyAlike ==
  ASSUME IInv, NEW p \in Permissions, Reply(p)
  PROVE  m'.tree = m.tree /\ m'.enabled = m.enabled /\ m'.chain = m.chain
<1>1. m \in Memory /\ 0 \in 0..MaxAttempts /\ MaxAttempts \in 0..MaxAttempts
  BY LimitAssumption DEF IInv, TypeOK
<1>2. CASE ReplyFails(p)
  <2>1. CASE m.inFlight[p] >= MaxAttempts
    <3>1. m' = [RemovePending(m, Instances, {p}) EXCEPT !.inFlight[p] = 0]
      BY <1>2, <2>1 DEF ReplyFails
    <3>2. Answered(m, m', p)
      BY <1>1, <3>1, AnsweredFields
    <3>. QED  BY <3>2 DEF Answered
  <2>2. CASE ~(m.inFlight[p] >= MaxAttempts)
    <3>1. m' = [m EXCEPT !.inFlight[p] = 0]
      BY <1>2, <2>2 DEF ReplyFails
    <3>2. Answered(m, m', p)
      BY <1>1, <3>1, AnsweredFields
    <3>. QED  BY <3>2 DEF Answered
  <2>. QED  BY <2>1, <2>2
<1>3. CASE ReplySucceeds(p)
  <2>1. m' = Ended(m, p, 0)
    BY <1>3 DEF ReplySucceeds, Ended
  <2>2. Answered(m, m', p)
    BY <1>1, <2>1, AnsweredFields
  <2>. QED  BY <2>2 DEF Answered
<1>4. CASE ReplyLost(p)
  <2>1. m' = Ended(m, p, MaxAttempts)
    BY <1>4 DEF ReplyLost, GiveUp, Ended
  <2>2. Answered(m, m', p)
    BY <1>1, <2>1, AnsweredFields
  <2>. QED  BY <2>2 DEF Answered
<1>5. CASE ReplyDispatches(p)
  BY <1>5 DEF ReplyDispatches
<1>. QED  BY <1>2, <1>3, <1>4, <1>5 DEF Reply

LEMMA ReplyStores ==
  ASSUME IInv, StoreInv, NEW p \in Permissions, Reply(p)
  PROVE  StoreInv'
<1>1. /\ phase' = phase /\ persisted' = persisted /\ heard' = heard
      /\ strayed' = strayed /\ writeFailures' = writeFailures
  BY DEF Reply, ReplyFails, ReplySucceeds, ReplyLost, ReplyDispatches, hydrationVars,
     historyVars
<1>. QED  BY <1>1, ReplyAlike, SameMoves

LEMMA HydrationStores ==
  ASSUME Alone, IInv, StoreInv, NEW i \in Instances,
         StartHydration(i) \/ HydrationLists(i) \/ HydrationFails(i)
  PROVE  StoreInv'
<1>1. /\ m' = m /\ persisted' = persisted
      /\ phase[i] \notin {"hydrated", "stopped"} /\ phase'[i] \notin {"hydrated", "stopped"}
  <2>1. CASE StartHydration(i)
    BY <2>1 DEF StartHydration, IInv, TypeOK
  <2>2. CASE HydrationLists(i)
    BY <2>2 DEF HydrationLists, IInv, TypeOK
  <2>3. CASE HydrationFails(i)
    BY <2>3 DEF HydrationFails, IInv, TypeOK
  <2>. QED  BY <2>1, <2>2, <2>3
<1>2. ~Calm(i)'
  BY <1>1 DEF Calm
<1>. QED  BY <1>1, <1>2, OneHas, OneMoves

\* Nothing is stored before the only workspace is hydrated, so that it starts blank,
LEMMA FillStores ==
  ASSUME Alone, IInv, StoreInv, NEW i \in Instances, HydrationFills(i)
  PROVE  StoreInv'
<1> DEFINE known == [s \in Sessions |-> IF s \in listed[i] THEN KindOf(s) ELSE "unknown"]
           tree == [m.tree EXCEPT ![i] = known]
           filled == [m EXCEPT !.tree = tree]
           roots == {s \in listed[i] \cap persisted : FamilyRoot(filled, i, s) = s}
           enabled == [m.enabled EXCEPT ![i] = roots]
           new == [filled EXCEPT !.enabled = enabled]
<1>1. /\ phase[i] = "owning" /\ m' = Hydrated(i)
      /\ phase'[i] = "filled" /\ persisted' = persisted
  BY DEF HydrationFills, IInv, TypeOK
<1>2. m \in Memory /\ persisted = {} /\ m.chain[i] = <<>>
  BY <1>1, OneHas DEF Bare
<1>3. roots = {}
  BY <1>2
<1>4. KindsOK(known)
  BY DEF KindsOK
<1>5. /\ tree \in [Instances -> [Sessions -> {"unknown", "plain", "fork"}]]
      /\ tree[i] = known
  BY <1>2, KindType DEF Memory
<1>6. /\ enabled \in [Instances -> SUBSET Sessions] /\ enabled[i] = {}
  BY <1>2, <1>3 DEF Memory
<1>7. Hydrated(i) = new
  BY DEF Hydrated
<1> HIDE DEF tree, enabled, known
<1>8. /\ filled.enabled = m.enabled /\ filled.chain = m.chain /\ filled.tree = tree
      /\ filled \in Memory
  BY <1>2, <1>5 DEF Memory
<1> HIDE DEF filled
<1>9. new.tree = tree /\ new.enabled = enabled /\ new.chain = m.chain
  BY <1>6, <1>8 DEF Memory
<1> HIDE DEF new
<1>10. KindsOK(m'.tree[i]) /\ Bare(m', i, persisted') /\ m'.chain[i] = <<>>
  BY <1>1, <1>2, <1>4, <1>5, <1>6, <1>7, <1>9 DEF Bare
<1>11. ~Calm(i)' /\ RetireOK(<<>>, persisted')
  BY <1>1 DEF Calm, RetireOK
<1>. QED  BY <1>10, <1>11, OneMoves

\* and stays so through the events that were queued.
LEMMA ReplayStores ==
  ASSUME Alone, IInv, StoreInv, NEW i \in Instances, HydrationReplays(i)
  PROVE  StoreInv'
<1>1. /\ phase[i] = "filled" /\ m' = Replayed(i, Len(queued[i]))
      /\ phase'[i] = "hydrated" /\ persisted' = persisted
  BY DEF HydrationReplays, IInv, TypeOK
<1>2. queued[i] \in Seq(Events) /\ persisted = {} /\ Blank(m, i)
  BY <1>1, OneHas DEF Blank, Bare, IInv, TypeOK
<1>3. Blank(m', i)
  BY <1>1, <1>2, BlankReplay
<1>4. RetireOK(<<>>, {}) /\ \A t : Stored(t, {}, <<>>, {})
  BY DEF RetireOK, Stored
<1>. QED  BY <1>1, <1>2, <1>3, <1>4, OneMoves DEF Blank, Bare

LEMMA ClearStores ==
  ASSUME Alone, IInv, StoreInv, NEW i \in Instances, ClearInstance(i)
  PROVE  StoreInv'
<1> DEFINE none == [s \in Sessions |-> "unknown"]
           tree == [m.tree EXCEPT ![i] = none]
<1>1. m \in Memory
  BY OneHas
<1>2. m'.tree = tree /\ m'.chain = m.chain
  BY <1>1 DEF ClearInstance, Memory
<1>3. tree[i] = none
  BY <1>1 DEF Memory
<1>4. phase'[i] = "stopped" /\ persisted' = persisted
  BY DEF ClearInstance, IInv, TypeOK
<1>5. KindsOK(none) /\ ~Calm(i)'
  BY <1>4 DEF KindsOK, Calm
<1>. QED  BY <1>2, <1>3, <1>4, <1>5, OneHas, OneMoves

LEMMA RelayStores ==
  ASSUME Alone, IInv, StoreInv, NEW i \in Instances, NEW e \in Events, Relay(i, e)
  PROVE  StoreInv'
<1>1. /\ phase[i] \notin {"closed", "stopped"} /\ persisted' = persisted
      /\ heard' = [heard EXCEPT ![i] = heard[i] \cup {e}]
      /\ strayed' = strayed /\ writeFailures' = writeFailures
  BY DEF Relay, historyVars
<1>2. heard'[i] = heard[i] \cup {e}
  BY <1>1 DEF IInv, TypeOK
<1>3. CASE phase[i] = "hydrated"
  <2>1. m' = HandleInstanceEvent(m, i, e) /\ phase' = phase
    BY <1>3 DEF Relay, Ready
  <2>2. Evented(m, m', i, e)
    BY <2>1, OneHas, EventShape
  <2>3. /\ KindsOK(m'.tree[i]) /\ RetireOK(m'.chain[i], persisted)
        /\ e.type # "deleted" /\ Stored(m.tree[i], m.enabled[i], m.chain[i], persisted)
             => Stored(m'.tree[i], m'.enabled[i], m'.chain[i], persisted)
    BY <2>2, OneHas, EventStores
  <2>4. Calm(i)' => Calm(i) /\ e.type # "deleted"
    BY <1>1, <1>2, <2>1 DEF Calm
  <2>. QED  BY <1>1, <1>3, <2>1, <2>3, <2>4, OneHas, OneMoves
<1>4. CASE phase[i] = "filled"
  <2>1. m' = HandleInstanceEvent(m, i, e) /\ phase' = phase
    BY <1>4 DEF Relay, Ready
  <2>2. Blank(m, i) /\ persisted = {}
    BY <1>4, OneHas DEF Blank, Bare
  <2>3. Blank(m', i)
    BY <2>1, <2>2, BlankEvent
  <2>4. ~Calm(i)' /\ RetireOK(<<>>, persisted')
    BY <1>4, <2>1 DEF Calm, RetireOK
  <2>. QED  BY <1>1, <2>2, <2>3, <2>4, OneMoves DEF Blank, Bare
<1>5. CASE phase[i] \notin {"filled", "hydrated"}
  <2>1. m' = m /\ phase'[i] \notin {"hydrated", "stopped"}
    BY <1>1, <1>5 DEF Relay, Ready, IInv, TypeOK
  <2>2. ~Calm(i)'
    BY <2>1 DEF Calm
  <2>. QED  BY <1>1, <1>5, <2>1, <2>2, OneHas, OneMoves
<1>. QED  BY <1>3, <1>4, <1>5

LEMMA LoadStores ==
  ASSUME Alone, IInv, StoreInv, NEW i \in Instances, NEW s \in Sessions,
         SessionFound(i, s) \/ SessionLoads(i, s) \/ SessionMissing(i, s)
  PROVE  StoreInv' /\ m'.chain = m.chain
<1>1. /\ persisted' = persisted /\ phase' = phase /\ heard' = heard
      /\ writeFailures' = writeFailures
  BY DEF SessionFound, SessionLoads, SessionMissing, hydrationVars, historyVars
<1>2. \A v \in {"no", "found"} : LET new == [m EXCEPT !.loading[i][s] = v]
                                 IN  Alike(m, new)
  BY OneHas, LoadingFields DEF Alike
<1>3. CASE SessionFound(i, s) \/ SessionMissing(i, s)
  <2>1. strayed' = strayed /\ Alike(m, m')
    BY <1>2, <1>3 DEF SessionFound, SessionMissing, historyVars
  <2>. QED  BY <1>1, <2>1, SameMoves DEF Alike
<1>4. CASE SessionLoads(i, s) /\ ~Awaited(i, s)
  <2>1. Alike(m, m') /\ strayed' = (strayed \/ m'.enabled # m.enabled)
    BY <1>2, <1>4 DEF SessionLoads
  <2>2. strayed' = strayed
    BY <2>1 DEF Alike, IInv, TypeOK
  <2>. QED  BY <1>1, <2>1, <2>2, SameMoves DEF Alike
<1>5. CASE SessionLoads(i, s) /\ Awaited(i, s)
  <2> DEFINE done == [m EXCEPT !.loading[i][s] = "no"]
             kind == KindOf(s)
             grown == Upsert(done, i, s, kind)
             tree == [m.tree[i] EXCEPT ![s] = kind]
             roots == Migrated(tree, m.enabled[i])
  <2>1. Alike(m, done)
    BY <1>2
  <2>2. m' = DrainPending(grown, i, s) /\ strayed' = (strayed \/ m'.enabled # m.enabled)
    BY <1>5 DEF SessionLoads
  <2>3. kind \in {"plain", "fork"}
    BY KindType
  <2>4. Grows(m.tree[i], tree)
    BY OneHas, TreeGrows
  <2> HIDE DEF done, kind
  <2>5. Joined(done, grown, i, s, kind)
    BY <2>1, <2>3, UpsertFields, Zenon DEF Alike
  <2> HIDE DEF grown
  <2>6. Alike(grown, m')
    BY <2>2, <2>5, RequestsAlike DEF Joined
  <2>7. m'.tree[i] = tree /\ m'.enabled[i] = roots /\ m'.chain = m.chain
    <3>1. /\ m.tree \in [Instances -> [Sessions -> {"unknown", "plain", "fork"}]]
          /\ m.enabled \in [Instances -> SUBSET Sessions]
      BY OneHas DEF Memory
    <3>2. /\ m'.chain = m.chain /\ m'.tree = [m.tree EXCEPT ![i] = tree]
          /\ m'.enabled = [m.enabled EXCEPT ![i] = roots]
      BY <2>1, <2>5, <2>6 DEF Alike, Joined
    <3> HIDE DEF tree, roots
    <3>. QED  BY <3>1, <3>2
  <2> HIDE DEF tree
  <2>8. Calm(i)' => Calm(i) /\ roots = m.enabled[i]
    BY <1>1, <2>2, <2>7 DEF Calm
  <2>9. Calm(i)' => Stored(m'.tree[i], m'.enabled[i], m'.chain[i], persisted)
    BY <2>4, <2>7, <2>8, OneHas, GrowStores
  <2>10. KindsOK(m'.tree[i])
    BY <2>4, <2>7 DEF Grows
  <2>11. Bare(m, i, persisted) => Bare(m', i, persisted')
    BY <1>1, <2>7 DEF Bare, Migrated
  <2>. QED  BY <1>1, <2>7, <2>9, <2>10, <2>11, OneHas, OneMoves
<1>. QED  BY <1>3, <1>4, <1>5

-----------------------------------------------------------------------------
(* The steps of a workspace that is alone: the chain *)

LEMMA ChainedAt ==
  ASSUME NEW mem \in Memory, NEW i \in Instances, NEW q, NEW new, Chained(mem, new, i, q)
  PROVE  new.chain[i] = q /\ new.tree = mem.tree /\ new.enabled = mem.enabled
<1>1. mem.chain \in [Instances -> Seq(Mutations)]
  BY DEF Memory
<1>. QED  BY <1>1 DEF Chained

LEMMA CalmStays ==
  ASSUME phase' = phase, heard' = heard, strayed' = strayed, writeFailures' = writeFailures
  PROVE  \A i \in Instances : Calm(i)' => Calm(i)
BY DEF Calm

\* What is known of the mutation that runs, in a workspace that is calm.
LEMMA HeadHas ==
  ASSUME IInv, StoreInv, NEW i \in Instances, m.chain[i] # <<>>, Calm(i)
  PROVE  LET tree  == m.tree[i]
             roots == m.enabled[i]
             q     == m.chain[i]
             op    == First(i)
         IN  /\ Waits(tree, roots, q) /\ phase[i] = "hydrated"
             /\ \A s \in persisted \cup roots : tree[s] # "unknown"
             /\ \A s \in roots \ persisted :
                  Later(q, s) \/ (op.session = NoSession /\ s \in op.adds)
             /\ \A s \in persisted \ roots : ~Climbs(tree, s) => Retiring(op) /\ op.target = s
             /\ op.session = NoSession => MigrationOK(tree, roots, op)
             /\ Writing(op) => FamilyOK(tree, op)
<1>1. Stored(m.tree[i], m.enabled[i], m.chain[i], persisted)
  BY OneHas
<1>2. /\ m.chain[i] \in Seq(Mutations) /\ First(i) = m.chain[i][1]
      /\ \A n \in 2..Len(m.chain[i]) : m.chain[i][n].stage = "load"
  BY FirstOK
<1> DEFINE q == m.chain[i]
           tree == m.tree[i]
           roots == m.enabled[i]
<1>3. /\ Waits(tree, roots, q)
      /\ \A s \in roots \ persisted : Later(q, s) \/ (q[1].session = NoSession /\ s \in q[1].adds)
      /\ q[1].session = NoSession => MigrationOK(tree, roots, q[1])
  <2> HIDE DEF q, tree, roots
  <2>1. /\ q \in Seq(Mutations) /\ q # <<>> /\ Stored(tree, roots, q, persisted)
        /\ \A n \in 2..Len(q) : q[n].stage = "load"
    BY <1>1, <1>2 DEF q, tree, roots
  <2>. QED  BY <2>1, StoredWaits
<1>. QED  BY <1>1, <1>2, <1>3 DEF Stored, Calm

\* The first mutation is over, and new is enabled.
LEMMA TailMoves ==
  ASSUME Alone, IInv, StoreInv, NEW i \in Instances, m.chain[i] # <<>>, phase' = phase,
         m'.tree[i] = m.tree[i], m'.chain[i] = Tail(m.chain[i]),
         Calm(i)' => /\ Calm(i)
                     /\ \A s \in persisted' \cup m'.enabled[i] : m.tree[i][s] # "unknown"
                     /\ \A s \in m'.enabled[i] \ persisted' : Later(m.chain[i], s)
                     /\ \A s \in persisted' \ m'.enabled[i] : Climbs(m.tree[i], s)
  PROVE  StoreInv'
<1> DEFINE q == Tail(m.chain[i])
<1>1. /\ m.chain[i] \in Seq(Mutations) /\ phase[i] \in {"hydrated", "stopped"}
      /\ \A n \in 2..Len(m.chain[i]) : m.chain[i][n].stage = "load"
  BY FirstOK DEF StoreInv, Bare
<1>2. q # <<>> => q[1].stage = "load"
  BY <1>1
<1>3. RetireOK(q, persisted')
  BY <1>2 DEF RetireOK, Retiring
<1>4. Calm(i)' => Stored(m.tree[i], m'.enabled[i], q, persisted')
  <2> SUFFICES ASSUME Calm(i)' PROVE Stored(m.tree[i], m'.enabled[i], q, persisted')
    OBVIOUS
  <2>1. Waits(m.tree[i], m.enabled[i], m.chain[i])
    BY HeadHas
  <2>. QED  BY <2>1, TailStores
<1> HIDE DEF q
<1>5. m'.chain[i] = q
  BY DEF q
<1>. QED  BY <1>1, <1>3, <1>4, <1>5, OneHas, OneMoves

\* The first mutation goes on as op.
LEMMA HeadMoves ==
  ASSUME Alone, IInv, StoreInv, NEW i \in Instances, m.chain[i] # <<>>, phase' = phase,
         NEW op \in Mutations, m' = Become(m, i, op),
         Retiring(op) => op.enable /\ op.target \in persisted' /\ op.target # op.last,
         Calm(i)' =>
           /\ Calm(i)
           /\ \A s \in persisted' : m.tree[i][s] # "unknown"
           /\ \A s \in m.enabled[i] \ persisted' :
                Later(m.chain[i], s) \/ (op.session = NoSession /\ s \in op.adds)
           /\ \A s \in persisted' \ m.enabled[i] :
                ~Climbs(m.tree[i], s) => Retiring(op) /\ op.target = s
           /\ op.session = NoSession => MigrationOK(m.tree[i], m.enabled[i], op)
           /\ Writing(op) => FamilyOK(m.tree[i], op)
  PROVE  StoreInv'
<1> DEFINE q == Replaced(m.chain[i], op)
<1>1. /\ m \in Memory /\ m.chain[i] \in Seq(Mutations) /\ phase[i] \in {"hydrated", "stopped"}
  BY FirstOK DEF StoreInv, Bare
<1>2. Chained(m, m', i, q)
  BY <1>1, BecomeFields
<1>3. m'.chain[i] = q /\ m'.tree = m.tree /\ m'.enabled = m.enabled
  <2> HIDE DEF q
  <2>. QED  BY <1>1, <1>2, ChainedAt
<1>4. RetireOK(q, persisted')
  <2>1. q # <<>> /\ q[1] = op
    BY <1>1, ReplacedFirst
  <2>. QED  BY <2>1 DEF RetireOK
<1>5. Calm(i)' => Stored(m.tree[i], m.enabled[i], q, persisted')
  <2> SUFFICES ASSUME Calm(i)' PROVE Stored(m.tree[i], m.enabled[i], q, persisted')
    OBVIOUS
  <2>1. /\ Waits(m.tree[i], m.enabled[i], m.chain[i])
        /\ \A s \in persisted' \cup m.enabled[i] : m.tree[i][s] # "unknown"
    BY HeadHas
  <2>. QED  BY <2>1, ReplacedStores
<1> HIDE DEF q
<1>. QED  BY <1>1, <1>3, <1>4, <1>5, OneHas, OneMoves

LEMMA RequestStores ==
  ASSUME Alone, IInv, StoreInv, NEW i \in Instances, NEW s \in Sessions, RequestToggle(i, s)
  PROVE  StoreInv' /\ \E op \in Mutations : m'.chain[i] = Append(m.chain[i], op)
<1> DEFINE op == Toggle(s)
           q == Append(m.chain[i], op)
<1>1. m \in Memory /\ m.chain[i] \in Seq(Mutations)
  BY OneHas
<1>2. op \in Mutations /\ op.stage = "load" /\ op.session # NoSession
  BY TreeAssumption DEF Toggle, Mutations
<1>3. /\ phase[i] = "hydrated" /\ m' = [m EXCEPT !.chain[i] = q]
      /\ persisted' = persisted /\ phase' = phase /\ heard' = heard
      /\ strayed' = strayed /\ writeFailures' = writeFailures
  BY DEF RequestToggle, hydrationVars
<1> HIDE DEF op
<1>4. q \in Seq(Mutations)
  BY <1>1, <1>2
<1>5. RetireOK(q, persisted)
  BY <1>1, <1>2, OneHas, AppendRetires
<1>6. Calm(i) => Stored(m.tree[i], m.enabled[i], q, persisted)
  BY <1>1, <1>2, OneHas, AppendStores
<1> HIDE DEF q
<1>7. m'.chain[i] = q /\ m'.tree = m.tree /\ m'.enabled = m.enabled
  <2>1. Chained(m, m', i, q)
    BY <1>1, <1>3, <1>4, ChainFields
  <2>. QED  BY <1>1, <2>1, ChainedAt
<1>8. Calm(i)' => Calm(i)
  BY <1>3, CalmStays
<1>9. StoreInv'
  BY <1>3, <1>5, <1>6, <1>7, <1>8, OneHas, OneMoves
<1>. QED  BY <1>2, <1>7, <1>9 DEF q

\* The session of a toggle is looked for, or the toggle ends before it writes.
LEMMA AwaitStores ==
  ASSUME Alone, IInv, StoreInv, NEW i \in Instances, ToggleFinds(i) \/ ToggleEnds(i)
  PROVE  StoreInv'
<1> DEFINE op == [First(i) EXCEPT !.stage = "own"]
<1>1. /\ m.chain[i] # <<>> /\ First(i).session # NoSession /\ First(i).stage \in {"load", "own"}
      /\ persisted' = persisted /\ phase' = phase /\ heard' = heard
      /\ strayed' = strayed /\ writeFailures' = writeFailures
  BY DEF ToggleFinds, ToggleEnds, Toggling, hydrationVars, historyVars
<1>2. m \in Memory /\ First(i) \in Mutations /\ ~Retiring(First(i))
  BY <1>1, FirstOK DEF Retiring
<1>3. Calm(i)' =>
        /\ Calm(i)
        /\ \A s \in persisted \cup m.enabled[i] : m.tree[i][s] # "unknown"
        /\ \A s \in m.enabled[i] \ persisted : Later(m.chain[i], s)
        /\ \A s \in persisted \ m.enabled[i] : Climbs(m.tree[i], s)
  BY <1>1, <1>2, CalmStays, HeadHas
<1>4. CASE ToggleFinds(i)
  <2>1. m' = Become(m, i, op)
    BY <1>4 DEF ToggleFinds
  <2>2. op \in Mutations /\ op.session # NoSession /\ op.stage = "own"
    BY <1>1, <1>2 DEF Mutations
  <2> HIDE DEF op
  <2>3. ~Retiring(op) /\ ~Writing(op)
    BY <2>2 DEF Retiring, Writing
  <2>. QED  BY <1>1, <1>3, <2>1, <2>2, <2>3, HeadMoves
<1>5. CASE ToggleEnds(i)
  <2>1. m' = Pop(m, i)
    BY <1>5 DEF ToggleEnds
  <2>2. m'.chain[i] = Tail(m.chain[i]) /\ m'.tree = m.tree /\ m'.enabled = m.enabled
    BY <1>1, <1>2, <2>1, PopFields, ChainedAt
  <2>. QED  BY <1>1, <1>3, <2>2, TailMoves
<1>. QED  BY <1>4, <1>5

LEMMA FailStores ==
  ASSUME Alone, IInv, StoreInv, NEW i \in Instances, WriteFails(i)
  PROVE  StoreInv' /\ writeFailures' # writeFailures
<1>1. /\ m.chain[i] # <<>> /\ m' = Pop(m, i) /\ phase' = phase
      /\ writeFailures' = writeFailures + 1 /\ writeFailures \in Nat
  BY LimitAssumption DEF WriteFails, hydrationVars, IInv, TypeOK
<1>2. ~Calm(i)' /\ writeFailures' # writeFailures
  BY <1>1 DEF Calm
<1>3. m'.chain[i] = Tail(m.chain[i]) /\ m'.tree = m.tree
  BY <1>1, OneHas, PopFields, ChainedAt
<1>. QED  BY <1>1, <1>2, <1>3, TailMoves

LEMMA StartStores ==
  ASSUME Alone, IInv, StoreInv, NEW i \in Instances, MigrationStarts(i)
  PROVE  StoreInv'
<1> DEFINE op == [First(i) EXCEPT !.stage = "write",
                    !.adds = First(i).adds \cap m.enabled[i],
                    !.removes = First(i).removes \ m.enabled[i]]
<1>1. /\ m.chain[i] # <<>> /\ First(i).session = NoSession
      /\ persisted' = persisted /\ phase' = phase /\ heard' = heard
      /\ strayed' = strayed /\ writeFailures' = writeFailures
  BY DEF MigrationStarts, hydrationVars, historyVars
<1>2. m \in Memory /\ First(i) \in Mutations /\ ~Retiring(First(i)) /\ ~Writing(First(i))
  BY <1>1, FirstOK DEF Retiring, Writing
<1>3. /\ op \in Mutations /\ op.session = NoSession /\ op.stage = "write"
      /\ op.adds = First(i).adds \cap m.enabled[i]
      /\ op.removes = First(i).removes \ m.enabled[i]
  BY <1>1, <1>2 DEF Mutations
<1>4. \/ m' = Pop(m, i) /\ (phase[i] = "stopped" \/ op.adds \cup op.removes = {})
      \/ m' = Become(m, i, op)
  BY DEF MigrationStarts
<1> HIDE DEF op
<1>5. Calm(i)' =>
        /\ Calm(i) /\ phase[i] = "hydrated"
        /\ \A s \in persisted \cup m.enabled[i] : m.tree[i][s] # "unknown"
        /\ \A s \in m.enabled[i] \ persisted : Later(m.chain[i], s) \/ s \in op.adds
        /\ \A s \in persisted \ m.enabled[i] : Climbs(m.tree[i], s)
        /\ MigrationOK(m.tree[i], m.enabled[i], First(i))
  BY <1>1, <1>2, <1>3, CalmStays, HeadHas
<1>6. CASE m' = Pop(m, i) /\ (phase[i] = "stopped" \/ op.adds \cup op.removes = {})
  <2>1. m'.chain[i] = Tail(m.chain[i]) /\ m'.tree = m.tree /\ m'.enabled = m.enabled
    BY <1>1, <1>2, <1>6, PopFields, ChainedAt
  <2>. QED  BY <1>1, <1>5, <1>6, <2>1, TailMoves
<1>7. CASE m' = Become(m, i, op)
  <2>1. ~Retiring(op) /\ ~Writing(op)
    BY <1>3 DEF Retiring, Writing
  <2>2. Calm(i)' => MigrationOK(m.tree[i], m.enabled[i], op)
    BY <1>3, <1>5 DEF MigrationOK
  <2>. QED  BY <1>1, <1>3, <1>5, <1>7, <2>1, <2>2, HeadMoves
<1>. QED  BY <1>4, <1>6, <1>7

\* A root that a migration writes is enabled or no root any more.
LEMMA MigrateStores ==
  ASSUME Alone, IInv, StoreInv, NEW i \in Instances, NEW r \in Sessions, MigrationWrites(i, r)
  PROVE  StoreInv'
<1> DEFINE op == [First(i) EXCEPT !.adds = First(i).adds \ {r},
                                  !.removes = First(i).removes \ {r}]
           stop == First(i).adds = {} /\ phase[i] = "stopped"
<1>1. /\ m.chain[i] # <<>> /\ First(i).session = NoSession /\ First(i).stage = "write"
      /\ r \in First(i).adds \/ (First(i).adds = {} /\ r \in First(i).removes)
      /\ persisted' = IF r \in First(i).adds THEN persisted \cup {r}
                      ELSE IF stop THEN persisted ELSE persisted \ {r}
      /\ phase' = phase /\ heard' = heard
      /\ strayed' = strayed /\ writeFailures' = writeFailures
  BY DEF MigrationWrites, hydrationVars, historyVars
<1>2. m \in Memory /\ First(i) \in Mutations /\ ~Retiring(First(i)) /\ ~Writing(First(i))
  BY <1>1, FirstOK DEF Retiring, Writing
<1>3. /\ op \in Mutations /\ op.session = NoSession /\ op.stage = "write"
      /\ op.adds = First(i).adds \ {r} /\ op.removes = First(i).removes \ {r}
  BY <1>1, <1>2 DEF Mutations
<1>4. \/ m' = Pop(m, i) /\ (stop \/ op.adds \cup op.removes = {})
      \/ m' = Become(m, i, op)
  BY DEF MigrationWrites
<1> HIDE DEF op
<1>5. Calm(i)' =>
        /\ Calm(i) /\ ~stop
        /\ \A s \in persisted \cup m.enabled[i] : m.tree[i][s] # "unknown"
        /\ \A s \in m.enabled[i] \ persisted : Later(m.chain[i], s) \/ s \in First(i).adds
        /\ \A s \in persisted \ m.enabled[i] : Climbs(m.tree[i], s)
        /\ MigrationOK(m.tree[i], m.enabled[i], First(i))
  BY <1>1, <1>2, CalmStays, HeadHas
<1>6. ASSUME Calm(i)'
      PROVE  /\ \A s \in persisted' \cup m.enabled[i] : m.tree[i][s] # "unknown"
             /\ \A s \in m.enabled[i] \ persisted' : Later(m.chain[i], s) \/ s \in op.adds
             /\ \A s \in persisted' \ m.enabled[i] : Climbs(m.tree[i], s)
             /\ MigrationOK(m.tree[i], m.enabled[i], op)
  <2>1. MigrationOK(m.tree[i], m.enabled[i], op)
    BY <1>1, <1>3, <1>5, <1>6 DEF MigrationOK
  <2>2. CASE r \in First(i).adds
    <3>1. m.tree[i][r] # "unknown" /\ (Climbs(m.tree[i], r) \/ r \in m.enabled[i])
      BY <1>1, <1>5, <1>6, <2>2 DEF MigrationOK
    <3>. QED  BY <1>1, <1>3, <1>5, <1>6, <2>1, <2>2, <3>1
  <2>3. CASE r \notin First(i).adds
    <3>1. First(i).adds = {} /\ persisted' = persisted \ {r} /\ Climbs(m.tree[i], r)
      BY <1>1, <1>5, <1>6, <2>3 DEF MigrationOK
    <3>2. r \notin m.enabled[i]
      BY <3>1, OneHas
    <3>. QED  BY <1>3, <1>5, <1>6, <2>1, <3>1, <3>2
  <2>. QED  BY <2>2, <2>3
<1>7. Calm(i)' => Calm(i) /\ ~stop
  BY <1>5
<1> HIDE DEF stop
<1>8. CASE m' = Pop(m, i) /\ (stop \/ op.adds \cup op.removes = {})
  <2>1. m'.chain[i] = Tail(m.chain[i]) /\ m'.tree = m.tree /\ m'.enabled = m.enabled
    BY <1>1, <1>2, <1>8, PopFields, ChainedAt
  <2>. QED  BY <1>1, <1>6, <1>7, <1>8, <2>1, TailMoves
<1>9. CASE m' = Become(m, i, op)
  <2>1. ~Retiring(op) /\ ~Writing(op)
    BY <1>3 DEF Retiring, Writing
  <2>. QED  BY <1>1, <1>3, <1>6, <1>7, <1>9, <2>1, HeadMoves
<1>. QED  BY <1>4, <1>8, <1>9

\* The toggle decides on the root the session has now.
LEMMA DecideStores ==
  ASSUME Alone, IInv, StoreInv, NEW i \in Instances, ToggleLoads(i)
  PROVE  StoreInv' /\ \E op \in Mutations : m'.chain[i] = Replaced(m.chain[i], op)
<1> DEFINE s == First(i).session
           kind == KindOf(s)
           grown == Upsert(m, i, s, kind)
           tree == [m.tree[i] EXCEPT ![s] = kind]
           roots == Migrated(tree, m.enabled[i])
           root == FamilyRoot(grown, i, s)
           op == [First(i) EXCEPT !.stage = "write", !.last = root, !.target = root,
                    !.seen = {root}, !.enable = ~IsEnabled(grown, i, root)]
           q == Replaced(m.chain[i], op)
<1>1. /\ m.chain[i] # <<>> /\ s # NoSession /\ First(i).stage = "own"
      /\ m' = Become(grown, i, op) /\ strayed' = (strayed \/ m'.enabled # m.enabled)
      /\ persisted' = persisted /\ phase' = phase /\ heard' = heard
      /\ writeFailures' = writeFailures
  BY DEF ToggleLoads, Toggling, hydrationVars
<1>2. /\ m \in Memory /\ First(i) \in Mutations /\ First(i) = m.chain[i][1]
      /\ m.chain[i] \in Seq(Mutations) /\ phase[i] \in {"hydrated", "stopped"}
      /\ \A n \in 2..Len(m.chain[i]) : m.chain[i][n].stage = "load"
  BY <1>1, FirstOK DEF StoreInv, Bare
<1>3. s \in Sessions /\ kind \in {"plain", "fork"}
  BY <1>1, <1>2, KindType DEF Mutations
<1>4. Grows(m.tree[i], tree) /\ tree[s] # "unknown"
  BY <1>3, OneHas, TreeGrows
<1> HIDE DEF kind
<1>5. Joined(m, grown, i, s, kind)
  BY <1>2, <1>3, UpsertFields, Zenon
<1> HIDE DEF grown
<1>6. /\ grown \in Memory /\ grown.chain = m.chain
      /\ grown.tree[i] = tree /\ grown.enabled[i] = roots
  <2>1. /\ m.tree \in [Instances -> [Sessions -> {"unknown", "plain", "fork"}]]
        /\ m.enabled \in [Instances -> SUBSET Sessions]
    BY <1>2 DEF Memory
  <2>2. /\ grown \in Memory /\ grown.chain = m.chain
        /\ grown.tree = [m.tree EXCEPT ![i] = tree]
        /\ grown.enabled = [m.enabled EXCEPT ![i] = roots]
    BY <1>5 DEF Joined
  <2> HIDE DEF tree, roots
  <2>. QED  BY <2>1, <2>2
<1>7. root = RootIn(tree, s)
  <2> HIDE DEF tree
  <2>. QED  BY <1>6 DEF FamilyRoot
<1> HIDE DEF tree, root
<1>8. /\ root \in Sessions /\ tree[root] # "unknown" /\ RootIn(tree, root) = root
  BY <1>3, <1>4, <1>7, RootIsARoot, RootOfRoot, KnownRoot
<1>9. /\ op \in Mutations /\ op.stage = "write" /\ op.last = root /\ op.target = root
      /\ op.seen = {root} /\ op.session = s
  <2>1. IsEnabled(grown, i, root) \in BOOLEAN
    BY DEF IsEnabled
  <2>. QED  BY <1>2, <1>8, <2>1 DEF Mutations
<1> HIDE DEF op
<1>10. FamilyOK(tree, op) /\ ~Retiring(op)
  BY <1>4, <1>7, <1>8, <1>9 DEF FamilyOK, Retiring
<1>11. Chained(grown, m', i, q)
  BY <1>1, <1>6, <1>9, BecomeFields
<1>12. q # <<>> /\ q[1] = op
  BY <1>1, <1>2, <1>9, ReplacedFirst
<1>13. ASSUME Calm(i)'
       PROVE  Stored(tree, roots, q, persisted)
  <2>1. Calm(i) /\ m'.enabled = m.enabled
    BY <1>1, <1>13 DEF Calm
  <2>2. roots = m.enabled[i]
    BY <1>6, <1>11, <2>1 DEF Chained
  <2> DEFINE E == m.enabled[i]
             c == m.chain[i]
  <2> HIDE DEF q
  <2>3. Stored(tree, E, c, persisted)
    BY <1>4, <2>1, <2>2, OneHas, GrowStores
  <2>4. c \in Seq(Mutations) /\ c # <<>> /\ c[1] = First(i)
        /\ \A n \in 2..Len(c) : c[n].stage = "load"
    BY <1>1, <1>2
  <2> HIDE DEF E, c, roots, s
  <2>5. /\ Waits(tree, E, c)
        /\ \A x \in E \ persisted : Later(c, x) \/ (c[1].session = NoSession /\ x \in c[1].adds)
    BY <2>3, <2>4, StoredWaits
  <2>6. c[1].session # NoSession /\ ~Retiring(c[1])
    BY <1>1, <2>4 DEF Retiring, s
  <2>7. /\ \A x \in persisted \cup E : tree[x] # "unknown"
        /\ \A x \in E \ persisted : Later(c, x)
        /\ \A x \in persisted \ E : Climbs(tree, x)
    BY <2>3, <2>5, <2>6 DEF Stored
  <2>8. op.session # NoSession
    BY <1>1, <1>9
  <2>9. Stored(tree, E, Replaced(c, op), persisted)
    BY <1>9, <1>10, <2>5, <2>7, <2>8, ReplacedStores
  <2>. QED  BY <2>2, <2>9 DEF E, c, q
<1>14. RetireOK(q, persisted)
  BY <1>10, <1>12 DEF RetireOK
<1> HIDE DEF q
<1>15. m'.tree[i] = tree /\ m'.enabled[i] = roots /\ m'.chain[i] = q
  BY <1>6, <1>11, ChainedAt
<1>16. StoreInv'
  BY <1>1, <1>2, <1>4, <1>13, <1>14, <1>15, OneMoves DEF Grows
<1>. QED  BY <1>9, <1>15, <1>16 DEF q

\* What a toggle that ends leaves in a workspace that runs.
LEMMA FinishFields ==
  ASSUME IInv, NEW i \in Instances, m.chain[i] # <<>>, phase[i] = "hydrated",
         NEW op, op.last \in Sessions, m' = FinishToggle(i, op)
  PROVE  /\ m'.tree = m.tree /\ m'.chain[i] = Tail(m.chain[i])
         /\ m'.enabled[i] = IF op.enable THEN m.enabled[i] \cup {FamilyRoot(m, i, op.last)}
                            ELSE m.enabled[i] \ {FamilyRoot(m, i, r) : r \in op.seen}
<1> DEFINE done == Pop(m, i)
           root == FamilyRoot(m, i, op.last)
           gone == {FamilyRoot(m, i, r) : r \in op.seen}
           more == m.enabled[i] \cup {root}
           less == m.enabled[i] \ gone
<1>1. m \in Memory /\ m.enabled[i] \in SUBSET Sessions
  BY FirstOK DEF Memory
<1>2. done \in Memory /\ done.tree = m.tree /\ done.enabled = m.enabled
      /\ done.chain[i] = Tail(m.chain[i])
  <2>1. Chained(m, done, i, Tail(m.chain[i]))
    BY <1>1, PopFields
  <2> HIDE DEF done
  <2>2. done.chain[i] = Tail(m.chain[i]) /\ done.tree = m.tree /\ done.enabled = m.enabled
    BY <1>1, <2>1, ChainedAt
  <2>. QED  BY <2>1, <2>2 DEF Chained
<1>3. more \in SUBSET Sessions /\ less \in SUBSET Sessions
  BY <1>1, RootIsARoot DEF FamilyRoot
<1>4. m' = IF op.enable THEN DrainPending([done EXCEPT !.enabled[i] = more], i, op.last)
           ELSE [done EXCEPT !.enabled[i] = less]
  BY <1>2 DEF FinishToggle
<1> HIDE DEF done, more, less
<1>5. CASE op.enable
  <2> DEFINE new == [done EXCEPT !.enabled[i] = more]
  <2>1. Enabled(done, new, i, more)
    BY <1>2, <1>3, EnabledFields
  <2>2. m' = DrainPending(new, i, op.last)
    BY <1>4, <1>5
  <2> HIDE DEF new
  <2>3. Alike(new, m')
    BY <2>1, <2>2, RequestsAlike DEF Enabled
  <2>. QED  BY <1>2, <1>5, <2>1, <2>3 DEF Enabled, Alike, more
<1>6. CASE ~op.enable
  <2>1. m' = [done EXCEPT !.enabled[i] = less]
    BY <1>4, <1>6
  <2>2. Enabled(done, m', i, less)
    BY <1>2, <1>3, <2>1, EnabledFields
  <2>. QED  BY <1>2, <1>6, <2>2 DEF Enabled, less
<1>. QED  BY <1>5, <1>6

\* The toggle that runs goes on, or ends, when it has written its target and the store
\* has nothing else to follow: so it does when its family has still that root.
LEMMA FollowStores ==
  ASSUME Alone, IInv, StoreInv, NEW i \in Instances, m.chain[i] # <<>>, Writing(First(i)),
         m' = FollowRoot(i, Written(First(i))), phase' = phase,
         Calm(i)' =>
           /\ Calm(i) /\ persisted' \subseteq persisted \cup {First(i).target}
           /\ First(i).target \in persisted' <=> First(i).enable
           /\ \A s \in Sessions \ {First(i).target} :
                ~Climbs(m.tree[i], s) => (s \in persisted' <=> s \in persisted)
  PROVE  StoreInv'
<1> DEFINE tree == m.tree[i]
           roots == m.enabled[i]
           q == m.chain[i]
           target == First(i).target
           op == Written(First(i))
           current == FamilyRoot(m, i, op.session)
           next == [op EXCEPT !.stage = "write", !.target = current,
                              !.seen = op.seen \cup {current}]
<1>1. /\ First(i) \in Mutations /\ First(i).session \in Sessions
      /\ First(i).target \in First(i).seen /\ target \in Sessions
      /\ phase[i] \in {"hydrated", "stopped"} /\ m \in Memory
  BY FirstOK DEF Writing, Mutations, StoreInv, Bare
<1>2. /\ op \in Mutations /\ op.last = target /\ op.seen = First(i).seen
      /\ op.enable = First(i).enable /\ op.session = First(i).session
  BY <1>1 DEF Written, Mutations
<1>3. /\ First(i).session # NoSession /\ persisted \in SUBSET Sessions /\ roots \in SUBSET Sessions
      /\ \A r \in roots : ~Climbs(tree, r)
  BY OneHas DEF Writing
<1>4. current = RootIn(tree, First(i).session) /\ current \in Sessions /\ ~Climbs(tree, current)
      /\ RootIn(tree, current) = current
  BY <1>1, <1>2, RootIsARoot, RootOfRoot DEF FamilyRoot
<1>5. ~Climbs(tree, target) => RootIn(tree, target) = target
  BY <1>1, RootOfRoot
<1> HIDE DEF op
\* The memory and the store differ in the target at most.
<1>6. ASSUME Calm(i)'
      PROVE  /\ FamilyOK(tree, First(i)) /\ phase[i] = "hydrated"
             /\ \A s \in persisted' \cup roots : tree[s] # "unknown"
             /\ target \in persisted' <=> First(i).enable
             /\ \A s \in roots \ persisted' : s = target \/ Later(q, s)
             /\ \A s \in persisted' \ roots : s = target \/ Climbs(tree, s)
  <2>1. /\ FamilyOK(tree, First(i)) /\ phase[i] = "hydrated"
        /\ \A s \in persisted \cup roots : tree[s] # "unknown"
        /\ \A s \in roots \ persisted : Later(q, s)
        /\ \A s \in persisted \ roots : ~Climbs(tree, s) => First(i).target = s
    BY <1>3, <1>6, HeadHas
  <2>2. tree[target] # "unknown"
    BY <1>1, <2>1 DEF FamilyOK
  <2>. QED  BY <1>3, <1>6, <2>1, <2>2
<1>7. CASE current = target
  <2>1. m' = FinishToggle(i, op)
    BY <1>2, <1>7 DEF FollowRoot, op
  <2>2. CASE phase[i] = "stopped"
    <3>1. m' = Pop(m, i)
      BY <2>1, <2>2 DEF FinishToggle
    <3>2. m'.chain[i] = Tail(m.chain[i]) /\ m'.tree = m.tree
      BY <1>1, <3>1, PopFields, ChainedAt
    <3>3. ~Calm(i)'
      BY <2>2 DEF Calm
    <3>. QED  BY <3>2, <3>3, TailMoves
  <2>3. CASE phase[i] = "hydrated"
    <3> DEFINE gone == {FamilyRoot(m, i, r) : r \in op.seen}
    <3>1. /\ m'.tree = m.tree /\ m'.chain[i] = Tail(m.chain[i])
          /\ m'.enabled[i] = IF op.enable THEN roots \cup {FamilyRoot(m, i, op.last)}
                             ELSE roots \ gone
      BY <1>1, <1>2, <2>1, <2>3, FinishFields
    <3>2. FamilyRoot(m, i, op.last) = target
      BY <1>2, <1>4, <1>7 DEF FamilyRoot
    <3>3. Calm(i)' => gone = {target}
      <4> SUFFICES ASSUME Calm(i)' PROVE gone = {target}
        OBVIOUS
      <4>1. \A r \in op.seen : RootIn(tree, r) = target
        BY <1>2, <1>4, <1>6, <1>7 DEF FamilyOK
      <4>. QED  BY <1>1, <1>2, <4>1 DEF FamilyRoot
    <3> HIDE DEF gone, current
    <3>4. Calm(i)' => m'.enabled[i] = IF First(i).enable THEN roots \cup {target}
                                      ELSE roots \ {target}
      BY <1>2, <3>1, <3>2, <3>3
    <3>5. ASSUME Calm(i)'
          PROVE  /\ Calm(i)
                 /\ \A s \in persisted' \cup m'.enabled[i] : tree[s] # "unknown"
                 /\ \A s \in m'.enabled[i] \ persisted' : Later(q, s)
                 /\ \A s \in persisted' \ m'.enabled[i] : Climbs(tree, s)
      <4>1. tree[target] # "unknown"
        BY <1>1, <1>6, <3>5 DEF FamilyOK
      <4> HIDE DEF tree, roots, q, target
      <4>2. CASE First(i).enable
        <5>1. m'.enabled[i] = roots \cup {target} /\ target \in persisted'
          BY <1>6, <3>4, <3>5, <4>2
        <5>. QED  BY <1>6, <3>5, <4>1, <5>1
      <4>3. CASE ~First(i).enable
        <5>1. m'.enabled[i] = roots \ {target} /\ target \notin persisted'
          BY <1>6, <3>4, <3>5, <4>3
        <5>. QED  BY <1>6, <3>5, <4>1, <5>1
      <4>. QED  BY <4>2, <4>3
    <3>. QED  BY <3>1, <3>5, TailMoves
  <2>. QED  BY <1>1, <2>2, <2>3
<1>8. CASE current # target
  <2>1. m' = Become(m, i, next)
    BY <1>2, <1>8 DEF FollowRoot, op
  <2> HIDE DEF current
  <2>2. /\ next \in Mutations /\ next.stage = "write" /\ next.target = current
        /\ next.last = target /\ next.seen = First(i).seen \cup {current}
        /\ next.session = First(i).session
    BY <1>2, <1>4 DEF Mutations
  <2> HIDE DEF next
  <2>3. ~Retiring(next) /\ next.session # NoSession
    BY <1>3, <2>2 DEF Retiring
  <2>4. ASSUME Calm(i)'
        PROVE  /\ Calm(i) /\ FamilyOK(tree, next)
               /\ \A s \in persisted' : tree[s] # "unknown"
               /\ \A s \in roots \ persisted' : Later(q, s)
               /\ \A s \in persisted' \ roots : Climbs(tree, s)
    <3>1. /\ tree[First(i).session] # "unknown" /\ First(i).seen \in SUBSET Sessions
          /\ \A r \in First(i).seen :
               tree[r] # "unknown" /\ RootIn(tree, r) = RootIn(tree, First(i).session)
      BY <1>1, <1>6, <2>4 DEF FamilyOK, Mutations
    <3>2. tree[current] # "unknown"
      BY <1>1, <1>4, <3>1, KnownRoot
    <3>3. Climbs(tree, target)
      BY <1>1, <1>4, <1>5, <1>8, <3>1
    <3>4. FamilyOK(tree, next)
      BY <1>1, <1>4, <2>2, <3>1, <3>2, <3>3 DEF FamilyOK
    <3>. QED  BY <1>3, <1>6, <2>4, <3>3, <3>4
  <2>. QED  BY <2>1, <2>2, <2>3, <2>4, HeadMoves
<1>. QED  BY <1>7, <1>8

\* What a toggle writes.
LEMMA TogglePuts ==
  ASSUME IInv, StoreInv, NEW i \in Instances, ToggleWrites(i)
  PROVE  LET op == First(i)
         IN  /\ m.chain[i] # <<>> /\ Writing(op) /\ op.target \in Sessions
             /\ op.target \in op.seen /\ op.last \in op.seen
             /\ phase' = phase /\ heard' = heard /\ strayed' = strayed
             /\ writeFailures' = writeFailures
             /\ op.target \in persisted' <=> op.enable
             /\ persisted' \subseteq persisted \cup {op.target}
             /\ \/ op.target # op.last /\ op.stage = "retire" /\ persisted' = persisted \ {op.last}
                \/ \A s \in Sessions \ {op.target} : s \in persisted' <=> s \in persisted
             /\ \/ m' = FollowRoot(i, Written(op))
                \/ m' = Pop(m, i) /\ phase[i] = "stopped"
                \/ /\ m' = Become(m, i, [op EXCEPT !.stage = "retire"])
                   /\ op.stage = "write" /\ op.enable /\ op.target # op.last
<1> DEFINE op == First(i)
<1>1. /\ m.chain[i] # <<>> /\ op.session # NoSession /\ op.stage \in {"write", "retire"}
      /\ phase' = phase /\ heard' = heard /\ strayed' = strayed
      /\ writeFailures' = writeFailures
  BY DEF ToggleWrites, Toggling, hydrationVars, historyVars
<1>2. /\ op \in Mutations /\ Writing(op) /\ op.target \in Sessions
      /\ op.target \in op.seen /\ op.last \in op.seen
  BY <1>1, FirstOK DEF Writing, Mutations
<1>3. op.stage = "retire" => op.enable /\ op.target \in persisted /\ op.target # op.last
  BY <1>1, FirstOK, OneHas DEF RetireOK, Retiring
<1>4. CASE op.stage = "retire"
  <2>1. persisted' = persisted \ {op.last} /\ m' = FollowRoot(i, Written(op))
    BY <1>4 DEF ToggleWrites
  <2>. QED  BY <1>1, <1>2, <1>3, <1>4, <2>1
<1>5. CASE op.stage = "write"
  <2>1. /\ persisted' = IF op.enable THEN persisted \cup {op.target}
                        ELSE persisted \ {op.target}
        /\ \/ m' = FollowRoot(i, Written(op))
           \/ m' = Pop(m, i) /\ phase[i] = "stopped"
           \/ /\ m' = Become(m, i, [op EXCEPT !.stage = "retire"])
              /\ op.enable /\ op.target # op.last
    BY <1>5 DEF ToggleWrites
  <2>2. op.target \in persisted' <=> op.enable
    BY <1>2, <2>1
  <2>. QED  BY <1>1, <1>2, <1>5, <2>1, <2>2
<1>. QED  BY <1>1, <1>4, <1>5

LEMMA WriteStores ==
  ASSUME Alone, IInv, StoreInv, NEW i \in Instances, ToggleWrites(i)
  PROVE  StoreInv'
<1> DEFINE op == First(i)
           retired == [op EXCEPT !.stage = "retire"]
<1>1. /\ m.chain[i] # <<>> /\ Writing(op) /\ op.target \in Sessions /\ op.target \in op.seen
      /\ phase' = phase /\ heard' = heard /\ strayed' = strayed
      /\ writeFailures' = writeFailures
      /\ op.target \in persisted' <=> op.enable
      /\ persisted' \subseteq persisted \cup {op.target}
      /\ \/ op.target # op.last /\ op.stage = "retire" /\ persisted' = persisted \ {op.last}
         \/ \A s \in Sessions \ {op.target} : s \in persisted' <=> s \in persisted
      /\ \/ m' = FollowRoot(i, Written(op))
         \/ m' = Pop(m, i) /\ phase[i] = "stopped"
         \/ m' = Become(m, i, retired) /\ op.stage = "write" /\ op.enable /\ op.target # op.last
  BY TogglePuts
<1>2. m \in Memory /\ op \in Mutations /\ op.session # NoSession
  BY <1>1, FirstOK DEF Writing
<1>3. ASSUME Calm(i)'
      PROVE  /\ Calm(i) /\ phase[i] = "hydrated" /\ FamilyOK(m.tree[i], op)
             /\ \A s \in persisted \cup m.enabled[i] : m.tree[i][s] # "unknown"
             /\ \A s \in m.enabled[i] \ persisted : Later(m.chain[i], s)
             /\ \A s \in persisted \ m.enabled[i] : ~Climbs(m.tree[i], s) => Retiring(op)
  BY <1>1, <1>2, <1>3, CalmStays, HeadHas
<1>4. CASE m' = FollowRoot(i, Written(op))
  <2>1. ASSUME Calm(i)', NEW s \in Sessions \ {op.target}, ~Climbs(m.tree[i], s)
        PROVE  s \in persisted' <=> s \in persisted
    <3>1. op.target # op.last => s # op.last
      BY <1>3, <2>1 DEF FamilyOK
    <3>. QED  BY <1>1, <2>1, <3>1
  <2>. QED  BY <1>1, <1>3, <1>4, <2>1, FollowStores
<1>5. CASE m' = Pop(m, i) /\ phase[i] = "stopped"
  <2>1. m'.chain[i] = Tail(m.chain[i]) /\ m'.tree = m.tree
    BY <1>1, <1>2, <1>5, PopFields, ChainedAt
  <2>2. ~Calm(i)'
    BY <1>1, <1>5 DEF Calm
  <2>. QED  BY <1>1, <2>1, <2>2, TailMoves
<1>6. CASE m' = Become(m, i, retired) /\ op.stage = "write" /\ op.enable /\ op.target # op.last
  <2>1. /\ retired \in Mutations /\ retired.session = op.session /\ retired.stage = "retire"
        /\ retired.last = op.last /\ retired.target = op.target /\ retired.seen = op.seen
        /\ retired.enable = op.enable
    BY <1>2 DEF Mutations
  <2> HIDE DEF retired
  <2>2. Retiring(retired) /\ ~Retiring(op)
    BY <1>2, <1>6, <2>1 DEF Retiring
  <2>3. ASSUME Calm(i)'
        PROVE  /\ FamilyOK(m.tree[i], retired)
               /\ \A s \in persisted' : m.tree[i][s] # "unknown"
               /\ \A s \in m.enabled[i] \ persisted' : Later(m.chain[i], s)
               /\ \A s \in persisted' \ m.enabled[i] : ~Climbs(m.tree[i], s) => s = op.target
    <3>1. FamilyOK(m.tree[i], retired) /\ m.tree[i][op.target] # "unknown"
      BY <1>1, <1>3, <2>1, <2>3 DEF FamilyOK
    <3>2. \A s \in persisted : s \in persisted'
      BY <1>1, <1>6, OneHas
    <3>. QED  BY <1>1, <1>3, <2>2, <2>3, <3>1, <3>2
  <2>. QED  BY <1>1, <1>2, <1>3, <1>6, <2>1, <2>2, <2>3, HeadMoves
<1>. QED  BY <1>1, <1>4, <1>5, <1>6

-----------------------------------------------------------------------------
(* The theorems about a workspace that is alone *)

LEMMA StoreStarts == Init => StoreInv
<1> SUFFICES ASSUME Init, NEW i \in Instances
             PROVE  /\ KindsOK(m.tree[i])
                    /\ phase[i] \notin {"hydrated", "stopped"} => Bare(m, i, persisted)
                    /\ RetireOK(m.chain[i], persisted)
                    /\ Calm(i) => Stored(m.tree[i], m.enabled[i], m.chain[i], persisted)
  BY DEF StoreInv
<1>1. /\ phase[i] = "closed" /\ Bare(m, i, persisted) /\ m.chain[i] = <<>>
      /\ m.tree[i] = [s \in Sessions |-> "unknown"]
  BY DEF Init, Bare
<1>. QED  BY <1>1 DEF KindsOK, RetireOK, Calm

LEMMA StoreNext ==
  ASSUME Alone
  PROVE  IInv /\ StoreInv /\ [Next]_vars => StoreInv'
<1> SUFFICES ASSUME IInv, StoreInv, [Next]_vars PROVE StoreInv'
  OBVIOUS
<1>1. CASE External
  <2>1. CASE DaemonStep
    BY <2>1, DaemonStores
  <2>2. ASSUME NEW i \in Instances, \E e \in Events : Relay(i, e)
        PROVE  StoreInv'
    BY <2>2, RelayStores
  <2>3. ASSUME NEW i \in Instances, \E s \in Sessions : RequestToggle(i, s)
        PROVE  StoreInv'
    BY <2>3, RequestStores
  <2>4. ASSUME NEW i \in Instances, StartHydration(i)
        PROVE  StoreInv'
    BY <2>4, HydrationStores
  <2>5. ASSUME NEW i \in Instances, ClearInstance(i)
        PROVE  StoreInv'
    BY <2>5, ClearStores
  <2>. QED  BY <1>1, <2>1, <2>2, <2>3, <2>4, <2>5 DEF External, DaemonStep
<1>2. ASSUME NEW i \in Instances, Hydrate(i)
      PROVE  StoreInv'
  BY <1>2, HydrationStores, FillStores, ReplayStores DEF Hydrate
<1>3. ASSUME NEW i \in Instances, Mutate(i)
      PROVE  StoreInv'
  BY <1>3, AwaitStores, DecideStores, WriteStores, StartStores, MigrateStores,
     FailStores DEF Mutate
<1>4. ASSUME NEW i \in Instances, NEW s \in Sessions,
             SessionFound(i, s) \/ SessionLoads(i, s) \/ SessionMissing(i, s)
      PROVE  StoreInv'
  BY <1>4, LoadStores
<1>5. ASSUME NEW p \in Permissions, Reply(p)
      PROVE  StoreInv'
  BY <1>5, ReplyStores
<1>6. CASE UNCHANGED vars
  <2>1. /\ m' = m /\ phase' = phase /\ persisted' = persisted /\ heard' = heard
        /\ strayed' = strayed /\ writeFailures' = writeFailures
    BY <1>6 DEF vars, hydrationVars, historyVars
  <2>. QED  BY <2>1, SameMoves
<1>. QED  BY <1>1, <1>2, <1>3, <1>4, <1>5, <1>6 DEF Next

\* The store of a workspace that is alone differs from its memory by what its chain of
\* mutations is about to write, and by nothing else.
THEOREM StoreInductive == ASSUME Alone PROVE Spec => []StoreInv
<1>1. Init => StoreInv
  BY StoreStarts
<1>2. IInv /\ StoreInv /\ [Next]_vars => StoreInv'
  BY StoreNext
<1>. QED  BY <1>1, <1>2, ManagerInductive, PTL DEF Spec

\* The roots that new sessions move in memory are moved in the store as well: once the
\* chain is empty, a root is stored if it is enabled.
THEOREM StoreFollows == ASSUME Alone PROVE Spec => []StoreFollowsEvents
<1>1. IInv /\ StoreInv => StoreFollowsEvents
  <2> SUFFICES ASSUME IInv, StoreInv, ~strayed,
                      \A i \in Instances : \A e \in heard[i] : e.type # "deleted",
                      NEW i \in Instances, phase[i] = "hydrated", m.chain[i] = <<>>,
                      writeFailures = 0,
                      NEW s \in Sessions, Knows(m, i, s), FamilyRoot(m, i, s) = s
               PROVE  (s \in persisted) = (s \in m.enabled[i])
    BY DEF StoreFollowsEvents, StoreMatchesMemory
  <2>1. Stored(m.tree[i], m.enabled[i], <<>>, persisted)
    BY DEF StoreInv, Calm
  <2>2. ~Climbs(m.tree[i], s)
    BY RootIsARoot DEF FamilyRoot
  <2>3. Len(<<>>) = 0 /\ \A n \in 1..0 : FALSE
    OBVIOUS
  <2>4. s \in m.enabled[i] => s \in persisted
    BY <2>1, <2>3 DEF Stored
  <2>5. s \in persisted => s \in m.enabled[i]
    BY <2>1, <2>2 DEF Stored
  <2>. QED  BY <2>4, <2>5
<1>. QED  BY <1>1, ManagerInductive, StoreInductive, PTL

\* A chain without its first mutation is no chain that another step leaves.
LEMMA TailIsShort ==
  ASSUME NEW q \in Seq(Mutations), q # <<>>
  PROVE  /\ Tail(q) # q /\ \A op \in Mutations : Tail(q) # Replaced(q, op)
         /\ \A op \in Mutations : Tail(q) # Append(q, op)
<1> DEFINE t == Tail(q)
<1>1. Len(q) \in Nat /\ Len(t) = Len(q) - 1
  OBVIOUS
<1> HIDE DEF t
<1>2. t # q
  BY <1>1
<1>3. ASSUME NEW op \in Mutations PROVE t # Replaced(q, op)
  <2>1. Len(Replaced(q, op)) = Len(q)
    BY ReplacedFirst
  <2>. QED  BY <1>1, <2>1
<1>4. ASSUME NEW op \in Mutations PROVE t # Append(q, op)
  <2> DEFINE a == Append(q, op)
  <2>1. Len(a) = Len(q) + 1
    OBVIOUS
  <2> HIDE DEF a
  <2>2. t # a
    BY <1>1, <2>1
  <2>. QED  BY <2>2 DEF a
<1>. QED  BY <1>2, <1>3, <1>4 DEF t

\* A toggle that writes is ended by its last write or by a failure, in a workspace that
\* runs and is alone.
LEMMA OnlyWritesEnd ==
  ASSUME Alone, IInv, StoreInv, Next, NEW i \in Instances, m.chain[i] # <<>>,
         m'.chain[i] = Tail(m.chain[i]), Toggling(i, {"write", "retire"}),
         phase[i] = "hydrated", writeFailures' = writeFailures
  PROVE  ToggleWrites(i)
<1>1. /\ m \in Memory /\ m.chain[i] \in Seq(Mutations)
      /\ First(i).session # NoSession /\ First(i).stage \in {"write", "retire"}
  BY FirstOK DEF Toggling
<1>2. /\ m'.chain[i] # m.chain[i]
      /\ \A op \in Mutations : m'.chain[i] # Replaced(m.chain[i], op)
      /\ \A op \in Mutations : m'.chain[i] # Append(m.chain[i], op)
  BY <1>1, TailIsShort
<1>3. \A j \in Instances : j = i
  BY DEF Alone
<1>4. CASE External
  <2>1. ~DaemonStep
    <3>1. ASSUME NEW s \in Sessions, CreateSession(s) \/ DeleteSession(s) PROVE m' = m
      BY <3>1 DEF CreateSession, DeleteSession
    <3>2. ASSUME NEW p \in Permissions, Ask(p) \/ UserReplies(p) PROVE m' = m
      BY <3>2 DEF Ask, UserReplies
    <3>. QED  BY <1>2, <3>1, <3>2 DEF DaemonStep
  <2>2. ASSUME NEW e \in Events, Relay(i, e) PROVE FALSE
    <3> DEFINE tree == [m.tree[i] EXCEPT ![e.id] = KindOf(e.id)]
               roots == Migrated(tree, m.enabled[i])
    <3>1. Evented(m, m', i, e)
      BY <1>1, <2>2, EventShape DEF Relay, Ready
    <3>2. m.enabled[i] \in SUBSET Sessions
      BY OneHas
    <3> HIDE DEF tree
    <3>3. roots \in SUBSET Sessions
      BY <3>2, RootIsARoot DEF Migrated
    <3> HIDE DEF roots
    <3>4. Migration(m.enabled[i], roots) \in Mutations
      BY <3>2, <3>3, MigrationType
    <3>5. m'.chain[i] \in {m.chain[i], Append(m.chain[i], Migration(m.enabled[i], roots))}
      BY <3>1 DEF Evented, Alike, tree, roots
    <3>. QED  BY <1>2, <3>4, <3>5
  <2>3. ASSUME NEW s \in Sessions, RequestToggle(i, s) PROVE FALSE
    BY <1>2, <2>3, RequestStores
  <2>4. ~StartHydration(i)
    BY DEF StartHydration
  <2>5. ASSUME ClearInstance(i) PROVE FALSE
    <3>1. m'.chain = m.chain
      BY <1>1, <2>5 DEF ClearInstance, Memory
    <3>. QED  BY <1>2, <3>1
  <2>. QED  BY <1>3, <1>4, <2>1, <2>2, <2>3, <2>4, <2>5 DEF External, DaemonStep
<1>5. ~Hydrate(i)
  BY DEF Hydrate, HydrationLists, HydrationFails, HydrationFills,
     HydrationReplays
<1>6. Mutate(i) => ToggleWrites(i)
  <2>1. ~ToggleFinds(i) /\ ~ToggleEnds(i) /\ ~ToggleLoads(i)
    BY <1>1 DEF ToggleFinds, ToggleEnds, ToggleLoads, Toggling
  <2>2. ~MigrationStarts(i) /\ \A r \in Sessions : ~MigrationWrites(i, r)
    BY <1>1 DEF MigrationStarts, MigrationWrites
  <2>3. ~WriteFails(i)
    BY FailStores
  <2>. QED  BY <2>1, <2>2, <2>3 DEF Mutate
<1>7. ASSUME NEW s \in Sessions,
             SessionFound(i, s) \/ SessionLoads(i, s) \/ SessionMissing(i, s)
      PROVE  FALSE
  <2>1. m'.chain = m.chain
    BY <1>7, LoadStores
  <2>. QED  BY <1>2, <2>1
<1>8. ASSUME NEW p \in Permissions, Reply(p) PROVE FALSE
  <2>1. m'.chain = m.chain
    BY <1>8, ReplyAlike
  <2>. QED  BY <1>2, <2>1
<1>. QED  BY <1>3, <1>4, <1>5, <1>6, <1>7, <1>8 DEF Next

\* When a toggle ends in a workspace that is alone, its family is in the state it chose,
\* in memory and in the store, wherever the root of the family moved meanwhile.
THEOREM TogglesTakeEffect == ASSUME Alone PROVE Spec => ToggleTakesEffect
<1>1. ASSUME IInv, StoreInv, Next, NEW i \in Instances, m.chain[i] # <<>>,
             m'.chain[i] = Tail(m.chain[i]), Toggling(i, {"write", "retire"}),
             phase[i] = "hydrated", writeFailures' = writeFailures
      PROVE  /\ IsEnabled(m', i, First(i).session) = First(i).enable
             /\ (FamilyRoot(m', i, First(i).session) \in persisted') = First(i).enable
  <2> DEFINE op == Written(First(i))
             target == First(i).target
             s == First(i).session
  <2>1. /\ ToggleWrites(i) /\ m \in Memory /\ First(i) \in Mutations
        /\ m.chain[i] \in Seq(Mutations)
    BY <1>1, OnlyWritesEnd, FirstOK
  <2>2. /\ target \in Sessions /\ target \in First(i).seen /\ s \in Sessions
        /\ target \in persisted' <=> First(i).enable
    BY <1>1, <2>1, TogglePuts DEF Writing, Mutations
  <2>3. /\ op.last = target /\ op.seen = First(i).seen /\ op.enable = First(i).enable
        /\ op.session = s /\ op \in Mutations /\ First(i).enable \in BOOLEAN
    BY <2>1, <2>2 DEF Written, Mutations
  <2>4. m' = FollowRoot(i, op)
    <3> DEFINE retired == [First(i) EXCEPT !.stage = "retire"]
    <3>1. retired \in Mutations
      BY <2>1 DEF Mutations
    <3>2. \/ m' = FollowRoot(i, op)
          \/ m' = Become(m, i, retired)
      BY <1>1, <2>1, TogglePuts
    <3> HIDE DEF retired
    <3>3. m'.chain[i] # Replaced(m.chain[i], retired)
      BY <1>1, <2>1, <3>1, TailIsShort
    <3>4. m' # Become(m, i, retired)
      BY <1>1, <2>1, <3>1, <3>3, BecomeFields, ChainedAt
    <3>. QED  BY <3>2, <3>4
  <2> DEFINE current == FamilyRoot(m, i, s)
  <2>5. current \in Sessions /\ FamilyRoot(m, i, current) = current
    BY <2>2, RootIsARoot, RootOfRoot DEF FamilyRoot
  <2>6. current = target
    <3> DEFINE next == [op EXCEPT !.stage = "write", !.target = current,
                                  !.seen = op.seen \cup {current}]
    <3> SUFFICES ASSUME current # target PROVE FALSE
      OBVIOUS
    <3>1. m' = Become(m, i, next)
      BY <2>3, <2>4 DEF FollowRoot
    <3> HIDE DEF op, current
    <3>2. next \in Mutations
      BY <2>3, <2>5 DEF Mutations
    <3> HIDE DEF next
    <3>3. m'.chain[i] = Replaced(m.chain[i], next)
      BY <1>1, <2>1, <3>1, <3>2, BecomeFields, ChainedAt
    <3>. QED  BY <1>1, <2>1, <3>2, <3>3, TailIsShort
  <2>7. m' = FinishToggle(i, op)
    BY <2>3, <2>4, <2>6 DEF FollowRoot
  <2> HIDE DEF op
  <2>8. /\ m'.tree = m.tree
        /\ m'.enabled[i] = IF op.enable THEN m.enabled[i] \cup {FamilyRoot(m, i, op.last)}
                           ELSE m.enabled[i] \ {FamilyRoot(m, i, r) : r \in op.seen}
    BY <1>1, <2>2, <2>3, <2>7, FinishFields
  <2>9. FamilyRoot(m', i, s) = target /\ FamilyRoot(m, i, target) = target
    BY <2>5, <2>6, <2>8 DEF FamilyRoot
  <2> HIDE DEF target, current, s
  <2>10. target \in m'.enabled[i] <=> First(i).enable
    <3>1. CASE First(i).enable
      BY <2>3, <2>8, <2>9, <3>1
    <3>2. CASE ~First(i).enable
      <4>1. target \in {FamilyRoot(m, i, r) : r \in op.seen}
        BY <2>2, <2>3, <2>9
      <4>. QED  BY <2>3, <2>8, <3>2, <4>1
    <3>. QED  BY <3>1, <3>2
  <2>. QED  BY <2>2, <2>3, <2>9, <2>10 DEF IsEnabled, s
<1>2. IInv /\ StoreInv /\ [Next]_vars =>
        [\A i \in Instances :
           /\ m.chain[i] # <<>> /\ m'.chain[i] = Tail(m.chain[i])
           /\ Toggling(i, {"write", "retire"})
           /\ phase[i] = "hydrated" /\ writeFailures' = writeFailures
           => /\ IsEnabled(m', i, First(i).session) = First(i).enable
              /\ (FamilyRoot(m', i, First(i).session) \in persisted') = First(i).enable]_vars
  BY <1>1
<1>. QED  BY <1>2, ManagerInductive, StoreInductive, PTL DEF Spec, ToggleTakesEffect
=============================================================================
