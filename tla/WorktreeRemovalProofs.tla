------------------------ MODULE WorktreeRemovalProofs ------------------------
(***************************************************************************)
(* The fence of a worktree under removal, for any requests, mutations,     *)
(* sessions and directories: it excludes what the proxy admits, no session *)
(* is in the worktree when Git removes it, and a request that fails leaves *)
(* every session where it found it.                                        *)
(***************************************************************************)
EXTENDS WorktreeRemoval, SequenceTheorems, TLAPS

-----------------------------------------------------------------------------
(* The inductive invariant *)

Early    == {"idle", "queued", "fencing", "over"}
Waiting  == {"idle", "queued", "over"}

\* Only the request at the head of the lock is past the queue.
HolderOK == \A r \in Requests :
  request[r].phase \notin Waiting => lock # <<>> /\ Head(lock) = r

\* What the fields of one request have to do with its phase.
Local(x) ==
  /\ x.phase \in Early => x.fenced = {}
  /\ x.phase \in {"draining", "listing", "confirming", "removing"} => x.kind = "remove"
  /\ x.kind = "remove" /\ x.phase \notin Early => Tree \in x.fenced
  /\ x.phase = "fencing" => \A s \in x.todo : x.before[s] \in Directories

LocalOK == \A r \in Requests : Local(request[r])

\* No admitted mutation concerns one of the directories D.
Quiet(D) == \A m \in Mutations : mutation[m].phase = "admitted" =>
  \A d \in D : <<mutation[m].directory, d>> \notin Overlap

Drains(x) == x.kind = "remove" /\ x.phase \notin Early \cup {"draining"}

QuietOK == \A r \in Requests : Drains(request[r]) => Quiet(request[r].fenced)

\* After a removal has looked again only strays come into the worktree until it removes it.
ClearOK == \A r \in Requests :
  request[r].phase \in Emptied => \A s \in Sessions : where[s] # Tree \/ s \in strays

IInv == TypeOK /\ HolderOK /\ LocalOK /\ QuietOK /\ ClearOK

-----------------------------------------------------------------------------
(* Steps that requests share *)

LEMMA RequestFields ==
  ASSUME NEW x \in RequestStates
  PROVE  /\ x.kind \in {"remove", "move"} /\ x.phase \in Phases
         /\ x.seen \in 0..MaxCheckouts /\ x.session \in Sessions /\ x.goal \in Directories
         /\ x.fenced \in SUBSET Directories
         /\ x.todo \in SUBSET Sessions /\ x.moved \in SUBSET Sessions
         /\ x.before \in [Sessions -> Directories \cup {Nowhere}]
         /\ x.outcome \in {"none", "done", "failed", "unsure"}
BY DEF RequestStates

LEMMA FreshIsState == Fresh \in RequestStates
<1>1. FirstSession \in Sessions
  BY DirectoryAssumption DEF FirstSession
<1>2. Unplaced \in [Sessions -> Directories \cup {Nowhere}]
  BY DEF Unplaced
<1>3. Root \in Directories /\ 0 \in 0..MaxCheckouts
  BY DirectoryAssumption
<1>4. QED
  BY <1>1, <1>2, <1>3 DEF Fresh, RequestStates, Phases

LEMMA BecomesExactly ==
  ASSUME TypeOK, NEW r \in Requests, NEW x \in RequestStates, Becomes(r, x)
  PROVE  /\ request' \in [Requests -> RequestStates] /\ request'[r] = x
         /\ \A q \in Requests \ {r} : request'[q] = request[q]
BY DEF TypeOK, Becomes

\* The request at the head of the lock goes on, or ends and passes the lock on.
Steps(r) ==
  /\ request' \in [Requests -> RequestStates]
  /\ \A q \in Requests \ {r} : request'[q] = request[q]
  /\ \/ request'[r].phase = "over" /\ lock' = Tail(lock)
     \/ request'[r].phase \notin Waiting /\ lock' = lock
  /\ UNCHANGED mutation
  /\ Local(request'[r])
  /\ Drains(request'[r]) => Quiet(request'[r].fenced)
  /\ request'[r].phase \in Emptied => \A s \in Sessions : where'[s] # Tree \/ s \in strays'

LEMMA EndsStep ==
  ASSUME TypeOK, NEW r \in Requests, NEW o \in {"done", "failed", "unsure"}, Ends(r, o),
         UNCHANGED mutation
  PROVE  Steps(r)
<1> DEFINE x == [Fresh EXCEPT !.phase = "over", !.outcome = o]
<1>1. x \in RequestStates
  BY FreshIsState DEF RequestStates, Phases
<1>2. x.phase = "over" /\ x.fenced = {} /\ x.kind = "move"
  BY DEF Fresh
<1>3. /\ request' \in [Requests -> RequestStates] /\ request'[r] = x
      /\ \A q \in Requests \ {r} : request'[q] = request[q]
  BY <1>1, BecomesExactly DEF Ends
<1> HIDE DEF x
<1>4. Local(x) /\ ~Drains(x) /\ x.phase \notin Emptied
  BY <1>2 DEF Local, Drains, Emptied, Early
<1>5. QED
  BY <1>2, <1>3, <1>4 DEF Steps, Ends

\* The fields that a phase relies on are kept by a step to another phase.
LEMMA GoesStep ==
  ASSUME TypeOK, NEW r \in Requests, NEW x \in RequestStates, Becomes(r, x),
         x.phase \notin Waiting, UNCHANGED <<lock, mutation>>, Local(x),
         Drains(x) => Quiet(x.fenced),
         x.phase \in Emptied => \A s \in Sessions : where'[s] # Tree \/ s \in strays'
  PROVE  Steps(r)
BY BecomesExactly DEF Steps

\* What all steps of the holder preserve.
LEMMA StepsPreserve ==
  ASSUME IInv, NEW r \in Requests, Steps(r), lock # <<>>, Head(lock) = r
  PROVE  lock' \in Seq(Requests) /\ HolderOK' /\ LocalOK' /\ QuietOK' /\ ClearOK'
<1>1. \A q \in Requests \ {r} : request[q].phase \in Waiting /\ request'[q] = request[q]
  BY DEF IInv, HolderOK, Steps
<1>2. lock' \in Seq(Requests)
  <2>1. lock \in Seq(Requests) BY DEF IInv, TypeOK
  <2>2. Tail(lock) \in Seq(Requests) BY <2>1, HeadTailProperties
  <2>3. QED BY <2>1, <2>2 DEF Steps
<1>3. HolderOK'
  BY <1>1 DEF HolderOK, Steps, Waiting
<1>4. LocalOK'
  <2> SUFFICES ASSUME NEW q \in Requests
               PROVE  Local(request'[q])
    BY DEF LocalOK, Local
  <2>1. CASE q = r
    BY <2>1 DEF Steps
  <2>2. CASE q # r
    BY <1>1, <2>2 DEF LocalOK, IInv
  <2>3. QED
    BY <2>1, <2>2
<1>5. QuietOK'
  <2> SUFFICES ASSUME NEW q \in Requests, Drains(request'[q])
               PROVE  Quiet(request'[q].fenced)
    BY DEF QuietOK, Quiet, Drains, Steps
  <2>1. q = r
    BY <1>1 DEF Drains, Waiting, Early
  <2>2. QED
    BY <2>1 DEF Steps
<1>6. ClearOK'
  BY <1>1 DEF ClearOK, Steps, Waiting, Emptied
<1>7. QED
  BY <1>2, <1>3, <1>4, <1>5, <1>6

\* Past the queue a request has the lock.
LEMMA PastTheQueueHolds ==
  ASSUME IInv, NEW r \in Requests, request[r].phase \notin Waiting
  PROVE  lock # <<>> /\ Head(lock) = r
BY DEF IInv, HolderOK

\* From the end of the drain a request keeps its kind and its fence.
Late == {"listing", "asserting", "moving", "confirming", "removing", "undoing", "restoring"}

LEMMA LateStep ==
  ASSUME IInv, NEW r \in Requests, NEW x \in RequestStates, Becomes(r, x),
         UNCHANGED <<lock, mutation>>,
         request[r].phase \in Late, x.phase \in Late \ {"listing"},
         x.kind = request[r].kind, x.fenced = request[r].fenced,
         x.phase \in Emptied => x.kind = "remove" /\ \A s \in Sessions : where'[s] # Tree \/ s \in strays'
  PROVE  Steps(r)
<1>1. Local(request[r])
  BY DEF IInv, LocalOK
<1>2. Local(x)
  BY <1>1 DEF Local, Late, Early, Emptied
<1>3. Drains(x) => Drains(request[r])
  BY DEF Drains, Late, Early
<1>4. Drains(x) => Quiet(x.fenced)
  BY <1>3 DEF IInv, QuietOK
<1>5. x.phase \notin Waiting
  BY DEF Late, Waiting
<1>6. TypeOK
  BY DEF IInv
<1>7. QED
  BY <1>2, <1>4, <1>5, <1>6, GoesStep

LEMMA LockedSteps ==
  ASSUME IInv, NEW r \in Requests, Locked(r)
  PROVE  Steps(r) /\ lock # <<>> /\ Head(lock) = r
<1> DEFINE members == IF request[r].kind = "remove" THEN MatchingFamilies
                                                   ELSE FamilyOf(request[r].session)
           x == [request[r] EXCEPT !.phase = "fencing", !.todo = members,
                                   !.before = Located(members)]
<1>1. TypeOK /\ request[r] \in RequestStates /\ Local(request[r])
  BY DEF IInv, TypeOK, LocalOK
<1>2. UNCHANGED mutation /\ lock # <<>> /\ Head(lock) = r /\ request[r].phase = "queued"
  BY DEF Locked, At
<1>3. CASE Ends(r, "failed")
  BY <1>1, <1>2, <1>3, EndsStep
<1>4. CASE Becomes(r, x) /\ UNCHANGED lock
  <2>1. members \subseteq Sessions /\ \A s \in members : where[s] \in Directories
    BY <1>1 DEF MatchingFamilies, FamilyOf, Exists, TypeOK
  <2>2. Located(members) \in [Sessions -> Directories \cup {Nowhere}]
    BY <1>1 DEF Located, TypeOK
  <2> HIDE DEF members
  <2>3. x \in RequestStates
    BY <1>1, <2>1, <2>2 DEF RequestStates, Phases
  <2>4. /\ x.phase = "fencing" /\ x.fenced = request[r].fenced
        /\ x.todo = members /\ x.before = Located(members)
    BY <1>1, RequestFields DEF RequestStates
  <2>5. \A s \in x.todo : x.before[s] \in Directories
    BY <2>1, <2>4 DEF Located
  <2>6. x.fenced = {}
    BY <1>1, <1>2, <2>4 DEF Local, Early
  <2> HIDE DEF x
  <2>7. Local(x) /\ ~Drains(x) /\ x.phase \notin Emptied /\ x.phase \notin Waiting
    BY <2>4, <2>5, <2>6 DEF Local, Drains, Early, Emptied, Waiting
  <2>8. QED
    BY <1>1, <1>2, <1>4, <2>3, <2>7, GoesStep
<1>5. QED
  BY <1>3, <1>4 DEF Locked

LEMMA FenceSteps ==
  ASSUME IInv, NEW r \in Requests, Fence(r)
  PROVE  Steps(r)
<1>1. TypeOK /\ request[r] \in RequestStates /\ Local(request[r])
  BY DEF IInv, TypeOK, LocalOK
<1>2. request[r].phase = "fencing" /\ UNCHANGED mutation
  BY DEF Fence, At
<1>3. Concerned(r) \subseteq Directories
  <2>1. \A s \in request[r].todo : request[r].before[s] \in Directories
    BY <1>1, <1>2 DEF Local
  <2>2. request[r].goal \in Directories /\ {Tree, Root} \subseteq Directories
    BY <1>1, RequestFields, DirectoryAssumption
  <2>3. QED
    BY <2>1, <2>2 DEF Concerned
<1>4. request[r].kind = "remove" => Tree \in Concerned(r)
  BY DEF Concerned
<1>5. CASE Ends(r, "failed")
  BY <1>1, <1>2, <1>5, EndsStep
<1>6. ASSUME NEW p \in {"draining", "asserting"}, p = "draining" <=> request[r].kind = "remove",
             Becomes(r, [request[r] EXCEPT !.phase = p, !.fenced = Concerned(r)]), UNCHANGED lock
      PROVE  Steps(r)
  <2> DEFINE x == [request[r] EXCEPT !.phase = p, !.fenced = Concerned(r)]
  <2>1. x \in RequestStates
    BY <1>1, <1>3 DEF RequestStates, Phases
  <2>2. x.phase = p /\ x.fenced = Concerned(r) /\ x.kind = request[r].kind
    BY <1>1 DEF RequestStates
  <2>3. Becomes(r, x)
    BY <1>6
  <2> HIDE DEF x
  <2>4. Local(x) /\ ~Drains(x) /\ x.phase \notin Emptied /\ x.phase \notin Waiting
    BY <1>4, <1>6, <2>2 DEF Local, Drains, Early, Emptied, Waiting
  <2>5. QED
    BY <1>1, <1>2, <1>6, <2>1, <2>3, <2>4, GoesStep
<1>7. QED
  BY <1>5, <1>6 DEF Fence

\* The end of the drain: no admitted mutation is left in what the request blocks.
LEMMA DrainedSteps ==
  ASSUME IInv, NEW r \in Requests, Drained(r)
  PROVE  Steps(r)
<1> DEFINE x == [request[r] EXCEPT !.phase = "listing"]
<1>1. TypeOK /\ request[r] \in RequestStates /\ Local(request[r])
  BY DEF IInv, TypeOK, LocalOK
<1>2. /\ request[r].phase = "draining" /\ Becomes(r, x) /\ Idle(request[r].fenced)
      /\ UNCHANGED <<lock, mutation>>
  BY DEF Drained, At, Goes
<1>3. x \in RequestStates
  BY <1>1 DEF RequestStates, Phases
<1>4. x.phase = "listing" /\ x.fenced = request[r].fenced /\ x.kind = request[r].kind
  BY <1>1 DEF RequestStates
<1> HIDE DEF x
<1>5. Quiet(x.fenced)
  BY <1>2, <1>4 DEF Idle, Overlapping, Quiet
<1>6. Local(x) /\ x.phase \notin Emptied /\ x.phase \notin Waiting
  BY <1>1, <1>2, <1>4 DEF Local, Early, Emptied, Waiting
<1>7. QED
  BY <1>1, <1>2, <1>3, <1>5, <1>6, GoesStep

\* A late step to phase p that keeps everything else.
LEMMA LateGoes ==
  ASSUME IInv, NEW r \in Requests, NEW p \in Late \ {"listing"}, Goes(r, p),
         UNCHANGED <<lock, mutation>>, request[r].phase \in Late,
         p \in Emptied => request[r].kind = "remove" /\ \A s \in Sessions : where'[s] # Tree \/ s \in strays'
  PROVE  Steps(r)
<1> DEFINE x == [request[r] EXCEPT !.phase = p]
<1>1. request[r] \in RequestStates
  BY DEF IInv, TypeOK
<1>2. x \in RequestStates
  BY <1>1 DEF RequestStates, Phases, Late
<1>3. x.phase = p /\ x.fenced = request[r].fenced /\ x.kind = request[r].kind
  BY <1>1 DEF RequestStates
<1>4. Becomes(r, x)
  BY DEF Goes
<1> HIDE DEF x
<1>5. QED
  BY <1>2, <1>3, <1>4, LateStep

LEMMA ListFamiliesSteps ==
  ASSUME IInv, NEW r \in Requests, ListFamilies(r)
  PROVE  Steps(r)
<1> DEFINE x == [request[r] EXCEPT !.phase = "asserting", !.todo = MatchingFamilies,
                                   !.before = Located(MatchingFamilies)]
<1>1. TypeOK /\ request[r] \in RequestStates
  BY DEF IInv, TypeOK
<1>2. request[r].phase = "listing" /\ UNCHANGED mutation
  BY DEF ListFamilies, At
<1>3. CASE Ends(r, "failed")
  BY <1>1, <1>2, <1>3, EndsStep
<1>4. CASE Becomes(r, x) /\ UNCHANGED lock
  <2>1. MatchingFamilies \subseteq Sessions
    BY DEF MatchingFamilies
  <2>2. Located(MatchingFamilies) \in [Sessions -> Directories \cup {Nowhere}]
    BY <1>1 DEF Located, TypeOK
  <2>3. x \in RequestStates
    BY <1>1, <2>1, <2>2 DEF RequestStates, Phases
  <2>4. x.phase = "asserting" /\ x.fenced = request[r].fenced /\ x.kind = request[r].kind
    BY <1>1 DEF RequestStates
  <2> HIDE DEF x
  <2>5. x.phase \in Late \ {"listing"} /\ x.phase \notin Emptied /\ request[r].phase \in Late
    BY <1>2, <2>4 DEF Late, Emptied
  <2>6. QED
    BY <1>2, <1>4, <2>3, <2>4, <2>5, LateStep
<1>5. QED
  BY <1>3, <1>4 DEF ListFamilies

LEMMA AssertInactiveSteps ==
  ASSUME IInv, NEW r \in Requests, AssertInactive(r)
  PROVE  Steps(r)
<1>1. TypeOK /\ request[r].phase = "asserting" /\ UNCHANGED mutation
  BY DEF AssertInactive, At, IInv
<1>2. CASE Ends(r, "failed")
  BY <1>1, <1>2, EndsStep
<1>3. CASE Goes(r, "moving") /\ UNCHANGED lock
  <2>1. "moving" \in Late \ {"listing"} /\ "moving" \notin Emptied /\ "asserting" \in Late
    BY DEF Late, Emptied
  <2>2. QED
    BY <1>1, <1>3, <2>1, LateGoes
<1>4. QED
  BY <1>2, <1>3 DEF AssertInactive

\* A late step that also changes what is to do and what was moved.
LEMMA LateRecords ==
  ASSUME IInv, NEW r \in Requests, NEW p \in {"moving", "undoing", "restoring"},
         NEW T \in SUBSET Sessions, NEW M \in SUBSET Sessions, request[r].phase \in Late,
         Becomes(r, [request[r] EXCEPT !.phase = p, !.todo = T, !.moved = M]),
         UNCHANGED <<lock, mutation>>
  PROVE  Steps(r)
<1> DEFINE x == [request[r] EXCEPT !.phase = p, !.todo = T, !.moved = M]
<1>1. request[r] \in RequestStates
  BY DEF IInv, TypeOK
<1>2. x \in RequestStates
  BY <1>1 DEF RequestStates, Phases
<1>3. x.phase = p /\ x.fenced = request[r].fenced /\ x.kind = request[r].kind
  BY <1>1 DEF RequestStates
<1>4. Becomes(r, x)
  OBVIOUS
<1> HIDE DEF x
<1>5. x.phase \in Late \ {"listing"} /\ x.phase \notin Emptied
  BY <1>3 DEF Late, Emptied
<1>6. QED
  BY <1>2, <1>3, <1>4, <1>5, LateStep

LEMMA MoveMemberSteps ==
  ASSUME IInv, NEW r \in Requests, NEW s \in Sessions, MoveMember(r, s)
  PROVE  Steps(r)
<1>1. /\ request[r] \in RequestStates /\ request[r].todo \subseteq Sessions
      /\ request[r].moved \subseteq Sessions
  BY RequestFields DEF IInv, TypeOK
<1>2. request[r].phase = "moving" /\ request[r].phase \in Late /\ UNCHANGED <<lock, mutation>>
  BY DEF MoveMember, At, Late
<1>3. CASE Goes(r, "undoing")
  <2>1. "undoing" \in Late \ {"listing"} /\ "undoing" \notin Emptied
    BY DEF Late, Emptied
  <2>2. QED
    BY <1>2, <1>3, <2>1, LateGoes
<1>4. CASE Becomes(r, [request[r] EXCEPT !.todo = @ \ {s}, !.moved = @ \cup {s}])
  <2> DEFINE T == request[r].todo \ {s}
             M == request[r].moved \cup {s}
  <2>1. T \in SUBSET Sessions /\ M \in SUBSET Sessions
    BY <1>1
  <2>2. [request[r] EXCEPT !.todo = @ \ {s}, !.moved = @ \cup {s}]
          = [request[r] EXCEPT !.phase = "moving", !.todo = T, !.moved = M]
    BY <1>1, <1>2 DEF RequestStates
  <2> HIDE DEF T, M
  <2>3. QED
    BY <1>2, <1>4, <2>1, <2>2, LateRecords
<1>5. CASE Becomes(r, [request[r] EXCEPT !.phase = "undoing", !.moved = @ \cup {s}])
  <2> DEFINE T == request[r].todo
             M == request[r].moved \cup {s}
  <2>1. T \in SUBSET Sessions /\ M \in SUBSET Sessions
    BY <1>1
  <2>2. [request[r] EXCEPT !.phase = "undoing", !.moved = @ \cup {s}]
          = [request[r] EXCEPT !.phase = "undoing", !.todo = T, !.moved = M]
    BY <1>1 DEF RequestStates
  <2> HIDE DEF T, M
  <2>3. QED
    BY <1>2, <1>5, <2>1, <2>2, LateRecords
<1>6. QED
  BY <1>3, <1>4, <1>5 DEF MoveMember

\* The inventory after the moves: a removal goes on only if the worktree is empty.
LEMMA VerifySteps ==
  ASSUME IInv, NEW r \in Requests, Verify(r)
  PROVE  Steps(r)
<1>1. TypeOK /\ request[r] \in RequestStates
  BY DEF IInv, TypeOK
<1>2. request[r].phase \in Late /\ UNCHANGED mutation /\ UNCHANGED where
  BY DEF Verify, At, Late, daemon
<1>3. CASE Goes(r, "undoing") /\ UNCHANGED lock
  <2>1. "undoing" \in Late \ {"listing"} /\ "undoing" \notin Emptied
    BY DEF Late, Emptied
  <2>2. QED
    BY <1>2, <1>3, <2>1, LateGoes
<1>4. CASE Ends(r, "done")
  BY <1>1, <1>2, <1>4, EndsStep
<1>5. CASE Evacuated(r) /\ request[r].kind # "move" /\ Goes(r, "confirming") /\ UNCHANGED lock
  <2>1. request[r].kind = "remove"
    BY <1>1, <1>5, RequestFields
  <2>2. \A s \in Sessions : where'[s] # Tree \/ s \in strays'
    BY <1>2, <1>5, <2>1 DEF Evacuated, Places
  <2>3. "confirming" \in Late \ {"listing"}
    BY DEF Late
  <2>4. QED
    BY <1>2, <1>5, <2>1, <2>2, <2>3, LateGoes
<1>6. QED
  BY <1>3, <1>4, <1>5 DEF Verify

LEMMA ConfirmSteps ==
  ASSUME IInv, NEW r \in Requests, Confirm(r)
  PROVE  Steps(r)
<1>1. /\ request[r].phase = "confirming" /\ request[r].phase \in Late
      /\ UNCHANGED <<lock, mutation, where, strays>>
  BY DEF Confirm, At, Late, daemon
<1>2. request[r].kind = "remove" /\ \A s \in Sessions : where'[s] # Tree \/ s \in strays'
  BY <1>1 DEF IInv, LocalOK, Local, ClearOK, Emptied
<1>3. {"removing", "undoing"} \subseteq Late \ {"listing"}
  BY DEF Late
<1>4. PICK p \in {"removing", "undoing"} : Goes(r, p)
  BY DEF Confirm
<1>5. QED
  BY <1>1, <1>2, <1>3, <1>4, LateGoes

LEMMA RemoveCheckoutSteps ==
  ASSUME IInv, NEW r \in Requests, RemoveCheckout(r)
  PROVE  Steps(r)
<1>1. TypeOK /\ request[r].phase \in Late /\ UNCHANGED mutation
  BY DEF RemoveCheckout, At, Late, IInv
<1>2. CASE Ends(r, "done")
  BY <1>1, <1>2, EndsStep
<1>3. CASE Goes(r, "undoing") /\ UNCHANGED lock
  <2>1. "undoing" \in Late \ {"listing"} /\ "undoing" \notin Emptied
    BY DEF Late, Emptied
  <2>2. QED
    BY <1>1, <1>3, <2>1, LateGoes
<1>4. QED
  BY <1>2, <1>3 DEF RemoveCheckout

LEMMA UndoSteps ==
  ASSUME IInv, NEW r \in Requests, Undo(r)
  PROVE  Steps(r)
<1>1. TypeOK /\ request[r] \in RequestStates /\ request[r].moved \subseteq Sessions
  BY RequestFields DEF IInv, TypeOK
<1>2. request[r].phase \in Late /\ UNCHANGED mutation
  BY DEF Undo, At, Late
<1>3. ASSUME NEW o \in {"failed", "unsure"}, Ends(r, o)
      PROVE  Steps(r)
  BY <1>1, <1>2, <1>3, EndsStep
<1>4. CASE Becomes(r, [request[r] EXCEPT !.phase = "restoring", !.todo = Changed(r)])
           /\ UNCHANGED lock
  <2> DEFINE M == request[r].moved
  <2>1. Changed(r) \in SUBSET Sessions
    BY <1>1 DEF Changed
  <2>2. [request[r] EXCEPT !.phase = "restoring", !.todo = Changed(r)]
          = [request[r] EXCEPT !.phase = "restoring", !.todo = Changed(r), !.moved = M]
    BY <1>1 DEF RequestStates
  <2>3. QED
    BY <1>1, <1>2, <1>4, <2>1, <2>2, LateRecords
<1>5. QED
  BY <1>3, <1>4 DEF Undo

LEMMA RestoreSteps ==
  ASSUME IInv, NEW r \in Requests, NEW s \in Sessions, Restore(r, s)
  PROVE  Steps(r)
<1>1. /\ TypeOK /\ request[r] \in RequestStates /\ request[r].moved \subseteq Sessions
      /\ request[r].todo \subseteq Sessions
  BY RequestFields DEF IInv, TypeOK
<1>2. request[r].phase = "restoring" /\ request[r].phase \in Late /\ UNCHANGED mutation
  BY DEF Restore, At, Late
<1>3. CASE Ends(r, "unsure")
  BY <1>1, <1>2, <1>3, EndsStep
<1>4. CASE Becomes(r, [request[r] EXCEPT !.todo = @ \ {s}]) /\ UNCHANGED lock
  <2> DEFINE T == request[r].todo \ {s}
             M == request[r].moved
  <2>1. T \in SUBSET Sessions /\ M \in SUBSET Sessions
    BY <1>1
  <2>2. [request[r] EXCEPT !.todo = @ \ {s}]
          = [request[r] EXCEPT !.phase = "restoring", !.todo = T, !.moved = M]
    BY <1>1, <1>2 DEF RequestStates
  <2> HIDE DEF T, M
  <2>3. QED
    BY <1>2, <1>4, <2>1, <2>2, LateRecords
<1>5. QED
  BY <1>3, <1>4 DEF Restore

\* Every step of a request is one of the request at the head of the lock.
LEMMA RequestSteps ==
  ASSUME IInv, NEW r \in Requests, RequestStep(r)
  PROVE  Steps(r) /\ lock # <<>> /\ Head(lock) = r
<1>1. TypeOK
  BY DEF IInv
<1>2. CASE Locked(r)
  BY <1>2, LockedSteps
<1>3. CASE ~Locked(r)
  <2>1. request[r].phase \notin Waiting
    BY <1>3 DEF RequestStep, Fence, Drained, DrainTimesOut, ListFamilies, AssertInactive,
      Verify, Confirm, RemoveCheckout, Undo, Restored, GivesUp, MoveMember, Restore, At, Waiting
  <2>2. CASE DrainTimesOut(r) \/ Restored(r) \/ GivesUp(r)
    <3>1. Ends(r, "failed") /\ UNCHANGED mutation
      BY <2>2 DEF DrainTimesOut, Restored, GivesUp
    <3>2. QED
      BY <1>1, <2>1, <3>1, EndsStep, PastTheQueueHolds
  <2>3. CASE Fence(r) \/ Drained(r) \/ ListFamilies(r) \/ AssertInactive(r) \/ Verify(r)
             \/ Confirm(r) \/ RemoveCheckout(r) \/ Undo(r)
    BY <2>1, <2>3, PastTheQueueHolds, FenceSteps, DrainedSteps, ListFamiliesSteps,
      AssertInactiveSteps, VerifySteps, ConfirmSteps, RemoveCheckoutSteps, UndoSteps
  <2>4. CASE \E s \in Sessions : MoveMember(r, s) \/ Restore(r, s)
    BY <2>1, <2>4, PastTheQueueHolds, MoveMemberSteps, RestoreSteps
  <2>5. QED
    BY <1>3, <2>2, <2>3, <2>4 DEF RequestStep
<1>4. QED
  BY <1>2, <1>3

-----------------------------------------------------------------------------
(* What the daemon and Git keep *)

DataOK ==
  /\ where \in [Sessions -> Directories \cup {Nowhere}]
  /\ family \in [Sessions -> Sessions] /\ running \subseteq Sessions
  /\ strays \subseteq Sessions /\ checkout \in 0..MaxCheckouts /\ failures \in 0..MaxFailures

LEMMA FailsInBounds ==
  ASSUME failures \in 0..MaxFailures, Fails
  PROVE  failures' \in 0..MaxFailures
BY DirectoryAssumption DEF Fails

LEMMA RequestStepData ==
  ASSUME IInv, NEW r \in Requests, RequestStep(r)
  PROVE  DataOK'
<1>1. DataOK /\ TypeOK
  BY DEF DataOK, IInv, TypeOK
<1>2. failures' = failures \/ Fails
  BY DEF RequestStep, Locked, Fence, Drained, DrainTimesOut, ListFamilies, AssertInactive,
    Verify, Confirm, RemoveCheckout, Undo, Restored, GivesUp, MoveMember, Restore
<1>3. failures' \in 0..MaxFailures
  BY <1>1, <1>2, FailsInBounds DEF DataOK
<1>4. family' = family /\ running' = running /\ strays' \in {strays, {}}
  BY DEF RequestStep, Locked, Fence, Drained, DrainTimesOut, ListFamilies, AssertInactive,
    Verify, Confirm, RemoveCheckout, Undo, Restored, GivesUp, MoveMember, Restore, daemon
<1>5. checkout' \in {0, checkout}
  BY DEF RequestStep, Locked, Fence, Drained, DrainTimesOut, ListFamilies, AssertInactive,
    Verify, Confirm, RemoveCheckout, Undo, Restored, GivesUp, MoveMember, Restore
<1>6. checkout' \in 0..MaxCheckouts
  BY <1>1, <1>5, DirectoryAssumption DEF DataOK
<1>7. where' \in [Sessions -> Directories \cup {Nowhere}]
  <2>1. Goal(r) \in Directories
    BY <1>1, RequestFields, DirectoryAssumption DEF Goal, TypeOK
  <2>2. \A s \in Sessions : request[r].before[s] \in Directories \cup {Nowhere}
    BY <1>1, RequestFields DEF TypeOK
  <2>3. \/ where' = where
        \/ \E s \in Sessions, d \in Directories \cup {Nowhere} : where' = [where EXCEPT ![s] = d]
    BY <2>1, <2>2 DEF RequestStep, Locked, Fence, Drained, DrainTimesOut, ListFamilies,
      AssertInactive, Verify, Confirm, RemoveCheckout, Undo, Restored, GivesUp, MoveMember,
      Restore, daemon
  <2>4. QED
    BY <1>1, <2>3 DEF DataOK
<1>8. QED
  BY <1>1, <1>3, <1>4, <1>6, <1>7 DEF DataOK

LEMMA RequestStepPreserves ==
  ASSUME IInv, NEW r \in Requests, RequestStep(r)
  PROVE  IInv'
<1>1. Steps(r) /\ lock # <<>> /\ Head(lock) = r
  BY RequestSteps
<1>2. lock' \in Seq(Requests) /\ HolderOK' /\ LocalOK' /\ QuietOK' /\ ClearOK'
  BY <1>1, StepsPreserve
<1>3. DataOK'
  BY RequestStepData
<1>4. request' \in [Requests -> RequestStates] /\ mutation' \in [Mutations -> MutationStates]
  BY <1>1 DEF Steps, IInv, TypeOK
<1>5. QED
  BY <1>2, <1>3, <1>4 DEF IInv, TypeOK, DataOK

\* A request that joins the queue disturbs no other.
LEMMA JoinsPreserves ==
  ASSUME IInv, NEW r \in Requests, request[r].phase = "idle", NEW x \in RequestStates,
         x.phase = "queued", x.fenced = request[r].fenced, Becomes(r, x), lock' = Append(lock, r),
         UNCHANGED <<daemon, checkout, mutation, failures>>
  PROVE  IInv'
<1>1. TypeOK
  BY DEF IInv
<1>2. /\ request' \in [Requests -> RequestStates] /\ request'[r] = x
      /\ \A q \in Requests \ {r} : request'[q] = request[q]
  BY <1>1, BecomesExactly
<1>3. lock \in Seq(Requests)
  BY <1>1 DEF TypeOK
<1>4. lock' \in Seq(Requests) /\ lock' # <<>> /\ (lock # <<>> => Head(lock') = Head(lock))
  <2>1. Append(lock, r) \in Seq(Requests) /\ Append(lock, r) # <<>>
    BY <1>3, AppendProperties
  <2>2. ASSUME lock # <<>> PROVE Head(Append(lock, r)) = Head(lock)
    <3>1. Len(lock) \in Nat /\ Len(lock) > 0
      BY <1>3, <2>2, EmptySeq, LenProperties
    <3>2. Append(lock, r)[1] = lock[1]
      BY <1>3, <3>1, AppendProperties
    <3>3. QED
      BY <1>3, <2>1, <2>2, <3>2, HeadTailProperties
  <2>3. QED
    BY <2>1, <2>2
<1>5. TypeOK'
  BY <1>1, <1>2, <1>4 DEF TypeOK, daemon
<1>6. HolderOK'
  <2>1. \A q \in Requests \ {r} : request[q].phase \notin Waiting => Head(lock') = q
    BY <1>4 DEF IInv, HolderOK
  <2>2. \A q \in Requests : request'[q].phase \notin Waiting => lock' # <<>> /\ Head(lock') = q
    BY <1>2, <1>4, <2>1 DEF Waiting
  <2>3. QED
    BY <2>2 DEF HolderOK
<1>7. LocalOK'
  <2>1. x.fenced = {}
    BY DEF IInv, LocalOK, Local, Early
  <2>2. Local(x)
    BY <2>1 DEF Local, Early
  <2>3. \A q \in Requests : Local(request'[q])
    BY <1>2, <2>2 DEF IInv, LocalOK
  <2>4. QED
    BY <2>3 DEF LocalOK, Local
<1>8. QuietOK'
  <2>1. ~Drains(x)
    BY DEF Drains, Early
  <2>2. \A q \in Requests : Drains(request'[q]) => Quiet(request'[q].fenced)
    BY <1>2, <2>1 DEF IInv, QuietOK
  <2>3. QED
    BY <2>2 DEF QuietOK, Quiet, Drains
<1>9. ClearOK'
  BY <1>2 DEF IInv, ClearOK, Emptied, daemon
<1>10. QED
  BY <1>5, <1>6, <1>7, <1>8, <1>9 DEF IInv

LEMMA StartRemovalPreserves ==
  ASSUME IInv, NEW r \in Requests, StartRemoval(r)
  PROVE  IInv'
<1> DEFINE x == [request[r] EXCEPT !.kind = "remove", !.phase = "queued", !.seen = checkout]
<1>1. request[r] \in RequestStates /\ checkout \in 0..MaxCheckouts
  BY DEF IInv, TypeOK
<1>2. x \in RequestStates
  BY <1>1 DEF RequestStates, Phases
<1>3. x.phase = "queued" /\ x.fenced = request[r].fenced
  BY <1>1 DEF RequestStates
<1>4. /\ request[r].phase = "idle" /\ Becomes(r, x) /\ lock' = Append(lock, r)
      /\ UNCHANGED <<daemon, checkout, mutation, failures>>
  BY DEF StartRemoval, At
<1> HIDE DEF x
<1>5. QED
  BY <1>2, <1>3, <1>4, JoinsPreserves

LEMMA StartMovePreserves ==
  ASSUME IInv, NEW r \in Requests, NEW s \in Sessions, NEW d \in Directories, StartMove(r, s, d)
  PROVE  IInv'
<1> DEFINE n == IF d = Tree THEN checkout ELSE 0
           x == [request[r] EXCEPT !.kind = "move", !.phase = "queued", !.seen = n,
                                   !.session = s, !.goal = d]
<1>1. request[r] \in RequestStates /\ n \in 0..MaxCheckouts
  BY DirectoryAssumption DEF IInv, TypeOK
<1>2. Becomes(r, x)
  BY DEF StartMove
<1> HIDE DEF n
<1>3. x \in RequestStates
  BY <1>1 DEF RequestStates, Phases
<1>4. x.phase = "queued" /\ x.fenced = request[r].fenced
  BY <1>1 DEF RequestStates
<1>5. /\ request[r].phase = "idle" /\ lock' = Append(lock, r)
      /\ UNCHANGED <<daemon, checkout, mutation, failures>>
  BY DEF StartMove, At
<1> HIDE DEF x
<1>6. QED
  BY <1>2, <1>3, <1>4, <1>5, JoinsPreserves

-----------------------------------------------------------------------------
(* The proxy, the daemon and Git *)

\* Outside of the requests: nothing that is fenced is admitted, nothing enters what is emptied.
LEMMA OutsidePreserves ==
  ASSUME IInv, UNCHANGED <<lock, request>>, DataOK', mutation' \in [Mutations -> MutationStates],
         strays \subseteq strays',
         \A m \in Mutations, r \in Requests :
           mutation'[m].phase = "admitted" /\ Drains(request[r]) =>
             \/ mutation[m].phase = "admitted" /\ mutation'[m] = mutation[m]
             \/ \A d \in request[r].fenced : <<mutation'[m].directory, d>> \notin Overlap,
         \A s \in Sessions, r \in Requests :
           request[r].phase \in Emptied => where'[s] = where[s] \/ where'[s] # Tree \/ s \in strays'
  PROVE  IInv'
<1>1. TypeOK'
  BY DEF IInv, TypeOK, DataOK
<1>2. HolderOK' /\ LocalOK'
  BY DEF IInv, HolderOK, LocalOK, Local
<1>3. QuietOK'
  <2> SUFFICES ASSUME NEW r \in Requests, Drains(request[r]), NEW m \in Mutations,
                      mutation'[m].phase = "admitted", NEW d \in request[r].fenced
               PROVE  <<mutation'[m].directory, d>> \notin Overlap
    BY DEF QuietOK, Quiet, Drains
  <2>1. CASE mutation[m].phase = "admitted" /\ mutation'[m] = mutation[m]
    BY <2>1 DEF IInv, QuietOK, Quiet
  <2>2. QED
    BY <2>1
<1>4. ClearOK'
  BY DEF IInv, ClearOK
<1>5. QED
  BY <1>1, <1>2, <1>3, <1>4 DEF IInv

LEMMA PendingIsState ==
  ASSUME NEW p \in {"idle", "over"}
  PROVE  Pending(p) \in MutationStates /\ Pending(p).phase = p
BY DirectoryAssumption DEF Pending, MutationStates

LEMMA ResolvePreserves ==
  ASSUME IInv, NEW m \in Mutations, NEW s \in Sessions \cup {Nowhere}, NEW d \in Directories,
         Resolve(m, s, d)
  PROVE  IInv'
<1> DEFINE x == [phase |-> "resolved", session |-> s, directory |-> d]
<1>1. x \in MutationStates /\ x.phase # "admitted"
  BY DEF MutationStates
<1>2. mutation \in [Mutations -> MutationStates] /\ mutation' = [mutation EXCEPT ![m] = x]
  BY DEF Resolve, IInv, TypeOK
<1> HIDE DEF x
<1>3. /\ mutation' \in [Mutations -> MutationStates]
      /\ \A n \in Mutations : mutation'[n] = IF n = m THEN x ELSE mutation[n]
  BY <1>1, <1>2
<1>4. DataOK' /\ UNCHANGED <<where, strays, lock, request>>
  BY DEF Resolve, daemon, DataOK, IInv, TypeOK
<1>5. QED
  BY <1>1, <1>3, <1>4, OutsidePreserves

\* What is admitted overlaps nothing that a removal blocks.
LEMMA EnterPreserves ==
  ASSUME IInv, NEW m \in Mutations, Enter(m)
  PROVE  IInv'
<1> DEFINE x == IF IsBlocked({mutation[m].directory}) THEN Pending("over")
                ELSE [mutation[m] EXCEPT !.phase = "admitted"]
<1>1. mutation \in [Mutations -> MutationStates] /\ mutation' = [mutation EXCEPT ![m] = x]
  BY DEF Enter, IInv, TypeOK
<1>2. x \in MutationStates
  BY <1>1, PendingIsState DEF MutationStates
<1>3. x.phase = "admitted" =>
        ~IsBlocked({mutation[m].directory}) /\ x.directory = mutation[m].directory
  BY <1>1, PendingIsState DEF MutationStates
<1> HIDE DEF x
<1>4. /\ mutation' \in [Mutations -> MutationStates]
      /\ \A n \in Mutations : mutation'[n] = IF n = m THEN x ELSE mutation[n]
  BY <1>1, <1>2
<1>5. ASSUME NEW r \in Requests, Drains(request[r]), x.phase = "admitted",
             NEW d \in request[r].fenced
      PROVE  <<x.directory, d>> \notin Overlap
  <2>1. Fences(r)
    BY <1>5 DEF Drains, Fences
  <2>2. <<d, x.directory>> \notin Overlap
    BY <1>3, <1>5, <2>1 DEF IsBlocked, Overlapping
  <2>3. \A p \in Overlap : <<p[2], p[1]>> \in Overlap
    BY DirectoryAssumption
  <2>4. ASSUME <<x.directory, d>> \in Overlap PROVE <<d, x.directory>> \in Overlap
    BY <2>3, <2>4
  <2>5. QED
    BY <2>2, <2>4
<1>6. DataOK' /\ UNCHANGED <<where, strays, lock, request>>
  BY DEF Enter, daemon, DataOK, IInv, TypeOK
<1>7. QED
  BY <1>4, <1>5, <1>6, OutsidePreserves

\* A mutation that is cut off is no longer counted; what it may still do is seen below.
LEMMA DisconnectPreserves ==
  ASSUME IInv, NEW m \in Mutations, Disconnect(m)
  PROVE  IInv'
<1> DEFINE x == [mutation[m] EXCEPT !.phase = "adrift"]
<1>1. mutation \in [Mutations -> MutationStates] /\ mutation' = [mutation EXCEPT ![m] = x]
  BY DEF Disconnect, IInv, TypeOK
<1>2. x \in MutationStates /\ x.phase # "admitted"
  BY <1>1 DEF MutationStates
<1> HIDE DEF x
<1>3. /\ mutation' \in [Mutations -> MutationStates]
      /\ \A n \in Mutations : mutation'[n] = IF n = m THEN x ELSE mutation[n]
  BY <1>1, <1>2
<1>4. DataOK' /\ UNCHANGED <<where, strays, lock, request>>
  BY DEF Disconnect, daemon, DataOK, IInv, TypeOK
<1>5. QED
  BY <1>2, <1>3, <1>4, OutsidePreserves

\* A session that is added is one of the directory, and a stray if it went astray while a
\* removal relied on an empty worktree.
LEMMA AddsData ==
  ASSUME DataOK, NEW s \in Sessions \cup {Nowhere}, NEW d \in Directories \cup {Nowhere},
         NEW astray \in BOOLEAN, Adds(s, d, astray), UNCHANGED <<running, checkout, failures>>
  PROVE  /\ DataOK' /\ strays \subseteq strays'
         /\ \A t \in Sessions :
              \/ where'[t] = where[t]
              \/ /\ where'[t] = d
                 /\ astray /\ (\E r \in Requests : request[r].phase \in Emptied) => t \in strays'
<1>1. PICK new \in Sessions :
        /\ where' = [where EXCEPT ![new] = d]
        /\ family' = [family EXCEPT ![new] = IF s = Nowhere THEN new ELSE family[s]]
        /\ strays' = IF astray /\ \E r \in Requests : request[r].phase \in Emptied
                     THEN strays \cup {new} ELSE strays
  BY DEF Adds
<1>2. (IF s = Nowhere THEN new ELSE family[s]) \in Sessions
  BY DEF DataOK
<1>3. strays \subseteq strays' /\ strays' \subseteq Sessions
  BY <1>1 DEF DataOK
<1>4. DataOK'
  BY <1>1, <1>2, <1>3 DEF DataOK
<1>5. \A t \in Sessions : t # new => where'[t] = where[t]
  BY <1>1 DEF DataOK
<1>6. where'[new] = d
  BY <1>1 DEF DataOK
<1>7. astray /\ (\E r \in Requests : request[r].phase \in Emptied) => new \in strays'
  BY <1>1
<1>8. QED
  BY <1>3, <1>4, <1>5, <1>6, <1>7

\* While the worktree is emptied no admitted mutation is directed at it, and what one that
\* is adrift adds to it is a stray.
LEMMA CarryPreserves ==
  ASSUME IInv, NEW m \in Mutations, Carry(m)
  PROVE  IInv'
<1> DEFINE x == Pending("over")
<1>1. /\ mutation \in [Mutations -> MutationStates] /\ mutation' = [mutation EXCEPT ![m] = x]
      /\ mutation[m].phase \in {"admitted", "adrift"}
      /\ UNCHANGED <<lock, request, checkout, failures>>
  BY DEF Carry, IInv, TypeOK
<1>2. x \in MutationStates /\ x.phase = "over"
  BY PendingIsState
<1> HIDE DEF x
<1>3. /\ mutation' \in [Mutations -> MutationStates]
      /\ \A n \in Mutations : mutation'[n] = IF n = m THEN x ELSE mutation[n]
  BY <1>1, <1>2
<1>4. DataOK
  BY DEF IInv, TypeOK, DataOK
<1>5. mutation[m].session \in Sessions \cup {Nowhere} /\ mutation[m].directory \in Directories
  BY <1>1 DEF MutationStates
<1>6. ASSUME NEW r \in Requests, request[r].phase \in Emptied, mutation[m].phase = "admitted"
      PROVE  mutation[m].directory # Tree
  <2>1. request[r].kind = "remove" /\ Drains(request[r]) /\ Tree \in request[r].fenced
    BY <1>6 DEF IInv, LocalOK, Local, Emptied, Early, Drains
  <2>2. <<mutation[m].directory, Tree>> \notin Overlap
    BY <1>6, <2>1 DEF IInv, QuietOK, Quiet
  <2>3. QED
    BY <2>2, DirectoryAssumption
<1>7. /\ DataOK' /\ strays \subseteq strays'
      /\ \A s \in Sessions, r \in Requests :
           request[r].phase \in Emptied => \/ where'[s] = where[s]
                                           \/ where'[s] # Tree \/ s \in strays'
  <2>1. CASE mutation[m].session # Nowhere
    BY <1>1, <1>4, <1>5, <2>1 DEF Carry, DataOK
  <2>2. CASE mutation[m].session = Nowhere /\ UNCHANGED <<where, family, strays>>
    BY <1>1, <1>4, <2>2 DEF Carry, DataOK
  <2>3. CASE mutation[m].session = Nowhere
             /\ Adds(Nowhere, mutation[m].directory, mutation[m].phase = "adrift")
    <3>1. UNCHANGED <<running, checkout, failures>>
      BY <1>1, <2>3 DEF Carry
    <3>2. /\ DataOK' /\ strays \subseteq strays'
          /\ \A s \in Sessions :
               \/ where'[s] = where[s]
               \/ /\ where'[s] = mutation[m].directory
                  /\ mutation[m].phase = "adrift"
                       /\ (\E r \in Requests : request[r].phase \in Emptied) => s \in strays'
      BY <1>4, <1>5, <2>3, <3>1, AddsData
    <3>3. QED
      BY <1>1, <1>6, <3>2
  <2>4. QED
    BY <2>1, <2>2, <2>3 DEF Carry
<1>8. QED
  BY <1>1, <1>2, <1>3, <1>7, OutsidePreserves

\* An agent starts sessions beside its own, which is not in the emptied worktree or a stray.
LEMMA SpawnPreserves ==
  ASSUME IInv, NEW s \in Sessions, Spawn(s)
  PROVE  IInv'
<1>1. DataOK /\ where[s] \in Directories \cup {Nowhere}
  BY DEF IInv, TypeOK, DataOK
<1>0. PICK b \in BOOLEAN : b = (s \in strays)
  <2>1. (s \in strays) \in BOOLEAN
    OBVIOUS
  <2>2. QED
    BY <2>1, Zenon
<1>2. /\ Adds(s, where[s], b)
      /\ UNCHANGED <<running, checkout, lock, request, mutation, failures>>
  BY <1>0, Zenon DEF Spawn
<1>3. /\ DataOK' /\ strays \subseteq strays'
      /\ \A t \in Sessions :
           \/ where'[t] = where[t]
           \/ /\ where'[t] = where[s]
              /\ b /\ (\E r \in Requests : request[r].phase \in Emptied)
                   => t \in strays'
  BY <1>1, <1>2, AddsData
<1>4. \A r \in Requests : request[r].phase \in Emptied => where[s] # Tree \/ s \in strays
  BY DEF IInv, ClearOK
<1>5. mutation' \in [Mutations -> MutationStates] /\ mutation' = mutation
  BY <1>2 DEF IInv, TypeOK
<1>6. \A t \in Sessions, r \in Requests :
        request[r].phase \in Emptied => where'[t] = where[t] \/ where'[t] # Tree \/ t \in strays'
  BY <1>0, <1>3, <1>4
<1>7. QED
  BY <1>2, <1>3, <1>5, <1>6, OutsidePreserves

LEMMA OthersPreserve ==
  ASSUME IInv, (\E s \in Sessions : Settle(s)) \/ Replace \/ UNCHANGED vars
  PROVE  IInv'
<1>1. UNCHANGED <<where, strays, lock, request, mutation>>
  BY DEF Settle, Replace, vars, daemon
<1>2. DataOK'
  BY DirectoryAssumption DEF Settle, Replace, vars, daemon, DataOK, IInv, TypeOK
<1>3. mutation' \in [Mutations -> MutationStates]
  BY <1>1 DEF IInv, TypeOK
<1>4. QED
  BY <1>1, <1>2, <1>3, OutsidePreserves

-----------------------------------------------------------------------------
(* Theorems *)

LEMMA InitInvariant == Init => IInv
<1> SUFFICES ASSUME Init PROVE IInv
  OBVIOUS
<1>1. request = [r \in Requests |-> Fresh] /\ mutation = [m \in Mutations |-> Pending("idle")]
  BY DEF Init
<1>2. TypeOK
  BY <1>1, FreshIsState, PendingIsState, DirectoryAssumption, EmptySeq DEF Init, TypeOK
<1>3. \A r \in Requests :
        request[r].phase = "idle" /\ request[r].fenced = {} /\ request[r].kind = "move"
  BY <1>1 DEF Fresh
<1>4. QED
  BY <1>2, <1>3 DEF IInv, HolderOK, LocalOK, Local, QuietOK, Drains, ClearOK,
    Waiting, Early, Emptied

LEMMA NextInvariant == IInv /\ [Next]_vars => IInv'
<1> SUFFICES ASSUME IInv, [Next]_vars PROVE IInv'
  OBVIOUS
<1>1. CASE \E r \in Requests : RequestStep(r) \/ StartRemoval(r)
             \/ \E s \in Sessions, d \in Directories : StartMove(r, s, d)
  BY <1>1, RequestStepPreserves, StartRemovalPreserves, StartMovePreserves
<1>2. CASE \E m \in Mutations : Enter(m) \/ Disconnect(m) \/ Carry(m)
             \/ \E s \in Sessions \cup {Nowhere}, d \in Directories : Resolve(m, s, d)
  BY <1>2, EnterPreserves, DisconnectPreserves, CarryPreserves, ResolvePreserves
<1>3. CASE \E s \in Sessions : Spawn(s)
  BY <1>3, SpawnPreserves
<1>4. CASE (\E s \in Sessions : Settle(s)) \/ Replace \/ UNCHANGED vars
  BY <1>4, OthersPreserve
<1>5. QED
  BY <1>1, <1>2, <1>3, <1>4 DEF Next

\* project-session-families.ts and the fence keep their invariant in every behaviour.
THEOREM InvariantHolds == Spec => []IInv
BY InitInvariant, NextInvariant, PTL DEF Spec

\* Every variable has its type: nothing is moved to a place that is not a directory.
THEOREM TypeCorrect == Spec => []TypeOK
<1>1. IInv => TypeOK
  BY DEF IInv
<1>2. QED
  BY <1>1, InvariantHolds, PTL

\* WorktreeDeletionFence.run: from the end of the drain to its own end a removal shares
\* its directories with no admitted mutation and no family move.
THEOREM FenceExcludes == Spec => []FenceIsExclusive
<1>1. IInv => FenceIsExclusive
  <2> SUFFICES ASSUME IInv, NEW r \in Requests, request[r].kind = "remove",
                      request[r].phase \notin {"idle", "queued", "fencing", "draining", "over"}
               PROVE  Idle(request[r].fenced)
    BY DEF FenceIsExclusive
  <2>1. Quiet(request[r].fenced)
    BY DEF IInv, QuietOK, Drains, Early
  <2>2. ASSUME NEW q \in Requests, request[q].kind = "move"
        PROVE  request[q].fenced = {}
    <3>1. Head(lock) = r
      BY DEF IInv, HolderOK, Waiting
    <3>2. request[q].phase \in Waiting
      BY <2>2, <3>1 DEF IInv, HolderOK
    <3>3. QED
      BY <3>2 DEF IInv, LocalOK, Local, Waiting, Early
  <2>3. QED
    BY <2>1, <2>2 DEF Idle, Overlapping, Quiet
<1>2. QED
  BY <1>1, InvariantHolds, PTL

\* removeProjectWorktree: when Git removes the checkout no session is located in it, whatever
\* was admitted, spawned or moved meanwhile: but for one that came, after the last look, from
\* a mutation whose client went away (proxy.ts:26), or was spawned by such a one.
THEOREM NobodyIsStranded == Spec => NothingIsStranded
<1>1. IInv /\ [Next]_vars =>
        [checkout # 0 /\ checkout' = 0
           => \A s \in Sessions : where[s] = Tree => s \in strays]_vars
  <2> SUFFICES ASSUME IInv, [Next]_vars, checkout # 0, checkout' = 0
               PROVE  \A s \in Sessions : where[s] = Tree => s \in strays
    OBVIOUS
  <2>1. ASSUME NEW r \in Requests, RequestStep(r)
        PROVE  request[r].phase = "removing"
    <3>1. ASSUME ~RemoveCheckout(r) PROVE UNCHANGED checkout
      BY <2>1, <3>1 DEF RequestStep, Locked, Fence, Drained, DrainTimesOut, ListFamilies,
        AssertInactive, Verify, Confirm, Undo, Restored, GivesUp, MoveMember, Restore
    <3>2. RemoveCheckout(r)
      BY <3>1
    <3>3. QED
      BY <3>2 DEF RemoveCheckout, At
  <2>2. checkout \in 0..MaxCheckouts
    BY DEF IInv, TypeOK
  <2>3. \E r \in Requests : RequestStep(r)
    <3>1. ~UNCHANGED checkout
      OBVIOUS
    <3>2. ASSUME NEW r \in Requests, NEW s \in Sessions, NEW d \in Directories,
                 StartRemoval(r) \/ StartMove(r, s, d)
          PROVE  UNCHANGED checkout
      BY <3>2 DEF StartRemoval, StartMove
    <3>3. ASSUME NEW m \in Mutations, NEW s \in Sessions \cup {Nowhere}, NEW d \in Directories,
                 Enter(m) \/ Disconnect(m) \/ Carry(m) \/ Resolve(m, s, d)
          PROVE  UNCHANGED checkout
      BY <3>3 DEF Enter, Disconnect, Carry, Resolve
    <3>4. ASSUME NEW s \in Sessions, Spawn(s) \/ Settle(s)
          PROVE  UNCHANGED checkout
      BY <3>4 DEF Spawn, Settle
    <3>5. ~Replace
      BY <2>2, DirectoryAssumption DEF Replace
    <3>6. Next
      BY <3>1 DEF vars
    <3>7. Sessions # {} /\ Directories # {}
      BY DirectoryAssumption
    <3>8. QED
      BY <3>1, <3>2, <3>3, <3>4, <3>5, <3>6, <3>7 DEF Next
  <2>4. QED
    BY <2>1, <2>3 DEF IInv, ClearOK, Emptied
<1>2. QED
  BY <1>1, InvariantHolds, PTL DEF Spec, NothingIsStranded

-----------------------------------------------------------------------------
(* What a request that fails leaves behind *)

Looking == {"fencing", "draining", "listing", "asserting"}
Moving  == {"moving", "confirming", "removing", "undoing"}

Listed(x) == {s \in Sessions : x.before[s] # Nowhere}
GoalOf(x) == IF x.kind = "remove" THEN Root ELSE x.goal

\* Where the sessions are that a request x found, by the locations w: nothing but the
\* members it records as moved, and of a restoration what is left of it, is elsewhere.
Kept(x, w) ==
  /\ x.phase \in Waiting => Listed(x) = {}
  /\ x.phase \in Looking => \A s \in Listed(x) : w[s] = x.before[s]
  /\ x.phase \in Moving => \A s \in Listed(x) :
       \/ w[s] = x.before[s]
       \/ w[s] = GoalOf(x) /\ s \in x.moved
  /\ x.phase = "restoring" => \A s \in Listed(x) \ x.todo : w[s] = x.before[s]

KeptOK == \A r \in Requests : Kept(request[r], where)

LEMMA EndsExactly ==
  ASSUME TypeOK, NEW r \in Requests, NEW o \in {"done", "failed", "unsure"}, Ends(r, o)
  PROVE  /\ request'[r].phase = "over" /\ request'[r].before = Unplaced
         /\ request'[r].outcome = o
<1> DEFINE x == [Fresh EXCEPT !.phase = "over", !.outcome = o]
<1>1. x \in RequestStates
  BY FreshIsState DEF RequestStates, Phases
<1>2. x.phase = "over" /\ x.before = Unplaced /\ x.outcome = o
  BY DEF Fresh
<1>3. request'[r] = x
  BY <1>1, BecomesExactly DEF Ends
<1> HIDE DEF x
<1>4. QED
  BY <1>2, <1>3

LEMMA EndsKeeps ==
  ASSUME TypeOK, NEW r \in Requests, NEW o \in {"done", "failed", "unsure"}, Ends(r, o), NEW w
  PROVE  Kept(request'[r], w)
<1>1. request'[r].phase = "over" /\ request'[r].before = Unplaced
  BY EndsExactly
<1>2. Listed(request'[r]) = {}
  BY <1>1 DEF Listed, Unplaced
<1>3. QED
  BY <1>1, <1>2 DEF Kept, Looking, Moving

\* A request that only goes on has nothing more to put back.
LEMMA AdvanceKeeps ==
  ASSUME NEW x, NEW y, NEW w, Kept(x, w),
         y.before = x.before, y.kind = x.kind, y.goal = x.goal, y.moved = x.moved,
         \/ x.phase \in Looking /\ y.phase \in Looking \cup {"moving"}
         \/ x.phase \in Moving /\ y.phase \in Moving
  PROVE  Kept(y, w)
<1>1. Listed(y) = Listed(x) /\ GoalOf(y) = GoalOf(x)
  BY DEF Listed, GoalOf
<1>2. CASE x.phase \in Looking /\ y.phase \in Looking \cup {"moving"}
  BY <1>1, <1>2 DEF Kept, Looking, Moving, Waiting
<1>3. CASE x.phase \in Moving /\ y.phase \in Moving
  BY <1>1, <1>3 DEF Kept, Looking, Moving, Waiting
<1>4. QED
  BY <1>2, <1>3

LEMMA GoesKeeps ==
  ASSUME TypeOK, KeptOK, NEW r \in Requests, NEW p \in Phases, Goes(r, p), UNCHANGED where,
         \/ request[r].phase \in Looking /\ p \in Looking \cup {"moving"}
         \/ request[r].phase \in Moving /\ p \in Moving
  PROVE  Kept(request'[r], where')
<1> DEFINE x == [request[r] EXCEPT !.phase = p]
<1>1. request[r] \in RequestStates
  BY DEF TypeOK
<1>2. x \in RequestStates
  BY <1>1 DEF RequestStates
<1>3. /\ x.phase = p /\ x.before = request[r].before /\ x.kind = request[r].kind
      /\ x.goal = request[r].goal /\ x.moved = request[r].moved
  BY <1>1 DEF RequestStates
<1>4. Becomes(r, x)
  BY DEF Goes
<1> HIDE DEF x
<1>5. request'[r] = x
  BY <1>2, <1>4, BecomesExactly
<1>6. Kept(request[r], where)
  BY DEF KeptOK
<1>7. Kept(x, where)
  BY <1>3, <1>6, AdvanceKeeps
<1>8. QED
  BY <1>5, <1>7

\* An inventory is where the sessions are.
LEMMA LocatedKeeps ==
  ASSUME TypeOK, NEW r \in Requests, NEW p \in Looking, NEW S \in SUBSET Sessions,
         Becomes(r, [request[r] EXCEPT !.phase = p, !.todo = S, !.before = Located(S)]),
         UNCHANGED where
  PROVE  Kept(request'[r], where')
<1> DEFINE x == [request[r] EXCEPT !.phase = p, !.todo = S, !.before = Located(S)]
<1>1. request[r] \in RequestStates
  BY DEF TypeOK
<1>2. Located(S) \in [Sessions -> Directories \cup {Nowhere}]
  BY DEF Located, TypeOK
<1>3. x \in RequestStates
  BY <1>1, <1>2 DEF RequestStates, Looking, Phases
<1>4. x.phase = p /\ x.before = Located(S)
  BY <1>1 DEF RequestStates
<1> HIDE DEF x
<1>5. request'[r] = x
  BY <1>3, BecomesExactly DEF x
<1>6. \A s \in Listed(x) : where[s] = x.before[s]
  BY <1>4 DEF Listed, Located
<1>7. Kept(x, where)
  BY <1>4, <1>6 DEF Kept, Looking, Moving, Waiting
<1>8. QED
  BY <1>5, <1>7

LEMMA FenceKeeps ==
  ASSUME IInv, KeptOK, NEW r \in Requests, Fence(r)
  PROVE  Kept(request'[r], where')
<1>1. TypeOK /\ request[r] \in RequestStates /\ Kept(request[r], where)
  BY DEF IInv, TypeOK, KeptOK
<1>2. request[r].phase = "fencing" /\ where' = where
  BY DEF Fence, At, daemon
<1>3. CASE Ends(r, "failed")
  BY <1>1, <1>3, EndsKeeps
<1>4. ASSUME NEW p \in {"draining", "asserting"},
             Becomes(r, [request[r] EXCEPT !.phase = p, !.fenced = Concerned(r)])
      PROVE  Kept(request'[r], where')
  <2> DEFINE x == [request[r] EXCEPT !.phase = p, !.fenced = Concerned(r)]
  <2>1. request' = [request EXCEPT ![r] = x] /\ request \in [Requests -> RequestStates]
    BY <1>1, <1>4 DEF Becomes, TypeOK
  <2>2. /\ x.phase = p /\ x.before = request[r].before /\ x.kind = request[r].kind
        /\ x.goal = request[r].goal /\ x.moved = request[r].moved
    BY <1>1 DEF RequestStates
  <2> HIDE DEF x
  <2>3. request'[r] = x
    BY <2>1
  <2>4. Kept(x, where)
    BY <1>1, <1>2, <2>2, AdvanceKeeps DEF Looking
  <2>5. QED
    BY <1>2, <2>3, <2>4
<1>5. QED
  BY <1>3, <1>4 DEF Fence

\* A member that is moved, or may have been, is recorded as moved.
LEMMA MoveMemberKeeps ==
  ASSUME IInv, KeptOK, NEW r \in Requests, NEW s \in Sessions, MoveMember(r, s)
  PROVE  Kept(request'[r], where')
<1>1. /\ TypeOK /\ request[r] \in RequestStates /\ Kept(request[r], where)
      /\ where \in [Sessions -> Directories \cup {Nowhere}]
  BY DEF IInv, TypeOK, KeptOK
<1>2. request[r].phase = "moving"
  BY DEF MoveMember, At
<1>3. CASE Goes(r, "undoing") /\ UNCHANGED where
  <2>1. request[r].phase \in Moving /\ "undoing" \in Moving \cap Phases
    BY <1>2 DEF Moving, Phases
  <2>2. QED
    BY <1>1, <1>3, <2>1, GoesKeeps
<1>4. ASSUME NEW p \in {"moving", "undoing"}, NEW T \in SUBSET Sessions,
             Becomes(r, [request[r] EXCEPT !.phase = p, !.todo = T, !.moved = @ \cup {s}]),
             where' \in {where, [where EXCEPT ![s] = Goal(r)]}
      PROVE  Kept(request'[r], where')
  <2> DEFINE x == [request[r] EXCEPT !.phase = p, !.todo = T, !.moved = @ \cup {s}]
  <2>1. request' = [request EXCEPT ![r] = x] /\ request \in [Requests -> RequestStates]
    BY <1>1, <1>4 DEF Becomes, TypeOK
  <2>2. /\ x.phase = p /\ x.before = request[r].before /\ x.kind = request[r].kind
        /\ x.goal = request[r].goal /\ x.moved = request[r].moved \cup {s}
    BY <1>1 DEF RequestStates
  <2> HIDE DEF x
  <2>3. request'[r] = x
    BY <2>1
  <2>4. Listed(x) = Listed(request[r]) /\ GoalOf(x) = Goal(r) /\ GoalOf(request[r]) = Goal(r)
    BY <2>2 DEF Listed, GoalOf, Goal
  <2>5. \A t \in Sessions : where'[t] = where[t] \/ (t = s /\ where'[t] = Goal(r))
    BY <1>1, <1>4
  <2>6. \A t \in Listed(x) : where'[t] = x.before[t] \/ (where'[t] = GoalOf(x) /\ t \in x.moved)
    <3> SUFFICES ASSUME NEW t \in Listed(x)
                 PROVE  where'[t] = x.before[t] \/ (where'[t] = GoalOf(x) /\ t \in x.moved)
      OBVIOUS
    <3>1. t \in Sessions
      BY DEF Listed
    <3>2. \/ where[t] = request[r].before[t]
          \/ where[t] = Goal(r) /\ t \in request[r].moved
      BY <1>1, <1>2, <2>4 DEF Kept, Moving
    <3>3. QED
      BY <2>2, <2>4, <2>5, <3>1, <3>2
  <2>7. Kept(x, where')
    BY <2>2, <2>6 DEF Kept, Looking, Moving, Waiting
  <2>8. QED
    BY <2>3, <2>7
<1>5. CASE /\ Becomes(r, [request[r] EXCEPT !.todo = @ \ {s}, !.moved = @ \cup {s}])
           /\ where' = [where EXCEPT ![s] = Goal(r)]
  <2>1. request[r].todo \ {s} \in SUBSET Sessions
    BY <1>1, RequestFields
  <2>2. [request[r] EXCEPT !.todo = @ \ {s}, !.moved = @ \cup {s}]
          = [request[r] EXCEPT !.phase = "moving", !.todo = request[r].todo \ {s},
                               !.moved = @ \cup {s}]
    BY <1>1, <1>2 DEF RequestStates
  <2>3. QED
    BY <1>4, <1>5, <2>1, <2>2
<1>6. CASE /\ Becomes(r, [request[r] EXCEPT !.phase = "undoing", !.moved = @ \cup {s}])
           /\ where' \in {where, [where EXCEPT ![s] = Goal(r)]}
  <2>1. request[r].todo \in SUBSET Sessions
    BY <1>1, RequestFields
  <2>2. [request[r] EXCEPT !.phase = "undoing", !.moved = @ \cup {s}]
          = [request[r] EXCEPT !.phase = "undoing", !.todo = request[r].todo,
                               !.moved = @ \cup {s}]
    BY <1>1 DEF RequestStates
  <2>3. QED
    BY <1>4, <1>6, <2>1, <2>2
<1>7. QED
  BY <1>3, <1>5, <1>6 DEF MoveMember

\* What was recorded as moved, and is where it was moved to, is what is put back.
LEMMA UndoKeeps ==
  ASSUME IInv, KeptOK, NEW r \in Requests, Undo(r)
  PROVE  Kept(request'[r], where')
<1>1. TypeOK /\ request[r] \in RequestStates /\ Kept(request[r], where)
  BY DEF IInv, TypeOK, KeptOK
<1>2. request[r].phase = "undoing" /\ where' = where
  BY DEF Undo, At, daemon
<1>3. ASSUME NEW o \in {"failed", "unsure"}, Ends(r, o)
      PROVE  Kept(request'[r], where')
  BY <1>1, <1>3, EndsKeeps
<1>4. CASE Becomes(r, [request[r] EXCEPT !.phase = "restoring", !.todo = Changed(r)])
  <2> DEFINE x == [request[r] EXCEPT !.phase = "restoring", !.todo = Changed(r)]
  <2>1. request' = [request EXCEPT ![r] = x] /\ request \in [Requests -> RequestStates]
    BY <1>1, <1>4 DEF Becomes, TypeOK
  <2>2. x.phase = "restoring" /\ x.before = request[r].before /\ x.todo = Changed(r)
    BY <1>1 DEF RequestStates
  <2> HIDE DEF x
  <2>3. request'[r] = x
    BY <2>1
  <2>4. \A s \in Listed(x) \ x.todo : where[s] = x.before[s]
    <3> SUFFICES ASSUME NEW s \in Listed(x), s \notin Changed(r)
                 PROVE  where[s] = request[r].before[s]
      BY <2>2
    <3>1. s \in Sessions /\ request[r].before[s] # Nowhere /\ s \in Listed(request[r])
      BY <2>2 DEF Listed
    <3>2. \/ where[s] = request[r].before[s]
          \/ where[s] = Goal(r) /\ s \in request[r].moved
      BY <1>1, <1>2, <3>1 DEF Kept, Moving, GoalOf, Goal
    <3>3. ASSUME where[s] = Goal(r), s \in request[r].moved PROVE FALSE
      BY <3>1, <3>3 DEF Changed
    <3>4. QED
      BY <3>2, <3>3
  <2>5. Kept(x, where)
    BY <2>2, <2>4 DEF Kept, Looking, Moving, Waiting
  <2>6. QED
    BY <1>2, <2>3, <2>5
<1>5. QED
  BY <1>3, <1>4 DEF Undo

LEMMA RestoreKeeps ==
  ASSUME IInv, KeptOK, NEW r \in Requests, NEW s \in Sessions, Restore(r, s)
  PROVE  Kept(request'[r], where')
<1>1. /\ TypeOK /\ request[r] \in RequestStates /\ Kept(request[r], where)
      /\ where \in [Sessions -> Directories \cup {Nowhere}]
  BY DEF IInv, TypeOK, KeptOK
<1>2. request[r].phase = "restoring"
  BY DEF Restore, At
<1>3. CASE Ends(r, "unsure")
  BY <1>1, <1>3, EndsKeeps
<1>4. CASE /\ Becomes(r, [request[r] EXCEPT !.todo = @ \ {s}])
           /\ where' = [where EXCEPT ![s] = request[r].before[s]]
  <2> DEFINE x == [request[r] EXCEPT !.todo = @ \ {s}]
  <2>1. request' = [request EXCEPT ![r] = x] /\ request \in [Requests -> RequestStates]
    BY <1>1, <1>4 DEF Becomes, TypeOK
  <2>2. /\ x.phase = "restoring" /\ x.before = request[r].before
        /\ x.todo = request[r].todo \ {s}
    BY <1>1, <1>2 DEF RequestStates
  <2> HIDE DEF x
  <2>3. request'[r] = x
    BY <2>1
  <2>4. Listed(x) = Listed(request[r]) /\ Listed(x) \subseteq Sessions
    BY <2>2 DEF Listed
  <2>5. \A t \in Listed(request[r]) \ request[r].todo : where[t] = request[r].before[t]
    BY <1>1, <1>2 DEF Kept
  <2>6. \A t \in Sessions : where'[t] = IF t = s THEN request[r].before[s] ELSE where[t]
    BY <1>1, <1>4
  <2>7. \A t \in Listed(x) \ x.todo : where'[t] = x.before[t]
    BY <2>2, <2>4, <2>5, <2>6
  <2>8. Kept(x, where')
    BY <2>2, <2>7 DEF Kept, Looking, Moving, Waiting
  <2>9. QED
    BY <2>3, <2>8
<1>5. QED
  BY <1>3, <1>4 DEF Restore

\* The steps that move nothing.
LEMMA LookingKeeps ==
  ASSUME IInv, KeptOK, NEW r \in Requests,
         Locked(r) \/ Drained(r) \/ DrainTimesOut(r) \/ ListFamilies(r) \/ AssertInactive(r)
           \/ GivesUp(r)
  PROVE  Kept(request'[r], where')
<1>1. TypeOK
  BY DEF IInv
<1>2. where' = where
  BY DEF Locked, Drained, DrainTimesOut, ListFamilies, AssertInactive, GivesUp, daemon
<1>3. MatchingFamilies \subseteq Sessions /\ \A s : FamilyOf(s) \subseteq Sessions
  BY DEF MatchingFamilies, FamilyOf
<1>4. {"fencing", "listing", "asserting"} \subseteq Looking /\ "moving" \in Phases
      /\ Looking \subseteq Phases
  BY DEF Looking, Phases
<1>5. CASE Ends(r, "failed")
  BY <1>1, <1>5, EndsKeeps
<1>6. CASE Locked(r) /\ ~Ends(r, "failed")
  <2>1. PICK S \in SUBSET Sessions :
          Becomes(r, [request[r] EXCEPT !.phase = "fencing", !.todo = S, !.before = Located(S)])
    BY <1>3, <1>6 DEF Locked
  <2>2. QED
    BY <1>1, <1>2, <1>4, <2>1, LocatedKeeps
<1>7. CASE ListFamilies(r) /\ ~Ends(r, "failed")
  <2>1. Becomes(r, [request[r] EXCEPT !.phase = "asserting", !.todo = MatchingFamilies,
                                      !.before = Located(MatchingFamilies)])
    BY <1>7 DEF ListFamilies
  <2>2. QED
    BY <1>1, <1>2, <1>3, <1>4, <2>1, LocatedKeeps
<1>8. CASE Drained(r)
  <2>1. request[r].phase \in Looking /\ Goes(r, "listing")
    BY <1>8 DEF Drained, At, Looking
  <2>2. QED
    BY <1>1, <1>2, <1>4, <2>1, GoesKeeps
<1>9. CASE AssertInactive(r) /\ ~Ends(r, "failed")
  <2>1. request[r].phase \in Looking /\ Goes(r, "moving")
    BY <1>9 DEF AssertInactive, At, Looking
  <2>2. QED
    BY <1>1, <1>2, <1>4, <2>1, GoesKeeps
<1>10. QED
  BY <1>5, <1>6, <1>7, <1>8, <1>9 DEF DrainTimesOut, GivesUp

LEMMA ConfirmingKeeps ==
  ASSUME IInv, KeptOK, NEW r \in Requests,
         Verify(r) \/ Confirm(r) \/ RemoveCheckout(r) \/ Restored(r)
  PROVE  Kept(request'[r], where')
<1>1. TypeOK
  BY DEF IInv
<1>2. where' = where
  BY DEF Verify, Confirm, RemoveCheckout, Restored, daemon
<1>3. CASE Ends(r, "failed") \/ Ends(r, "done")
  BY <1>1, <1>3, EndsKeeps
<1>4. CASE ~Ends(r, "failed") /\ ~Ends(r, "done")
  <2>1. PICK p \in {"confirming", "removing", "undoing"} : Goes(r, p)
    BY <1>4 DEF Verify, Confirm, RemoveCheckout, Restored
  <2>2. request[r].phase \in Moving
    BY <1>4 DEF Verify, Confirm, RemoveCheckout, Restored, At, Moving
  <2>3. p \in Moving /\ p \in Phases
    BY DEF Moving, Phases
  <2>4. QED
    BY <1>1, <1>2, <2>1, <2>2, <2>3, GoesKeeps
<1>5. QED
  BY <1>3, <1>4

LEMMA RequestStepKeeps ==
  ASSUME IInv, KeptOK, NEW r \in Requests, RequestStep(r)
  PROVE  KeptOK'
<1>1. Kept(request'[r], where')
  BY FenceKeeps, MoveMemberKeeps, UndoKeeps, RestoreKeeps, LookingKeeps, ConfirmingKeeps
     DEF RequestStep
<1>2. Steps(r) /\ lock # <<>> /\ Head(lock) = r
  BY RequestSteps
<1>3. ASSUME NEW q \in Requests \ {r}
      PROVE  Kept(request'[q], where')
  <2>1. request'[q] = request[q] /\ request[q].phase \in Waiting
    BY <1>2 DEF IInv, HolderOK, Steps
  <2>2. Kept(request[q], where)
    BY DEF KeptOK
  <2>3. QED
    BY <2>1, <2>2 DEF Kept, Looking, Moving, Waiting
<1>4. \A q \in Requests : Kept(request'[q], where')
  BY <1>1, <1>3
<1>5. QED
  BY <1>4 DEF KeptOK, Kept, Listed

\* A session that comes into being is none that a request found.
LEMMA NewcomersKeep ==
  ASSUME IInv, KeptOK, request' = request,
         \A s \in Sessions : where'[s] = where[s] \/ where[s] = Nowhere
  PROVE  KeptOK'
<1> SUFFICES ASSUME NEW r \in Requests
             PROVE  Kept(request[r], where')
  BY DEF KeptOK, Kept, Listed
<1>1. Kept(request[r], where) /\ request[r] \in RequestStates
  BY DEF KeptOK, IInv, TypeOK
<1>2. GoalOf(request[r]) # Nowhere
  BY <1>1, RequestFields, DirectoryAssumption DEF GoalOf
<1>3. ASSUME NEW s \in Listed(request[r]),
             where[s] = request[r].before[s] \/ where[s] = GoalOf(request[r])
      PROVE  where'[s] = where[s]
  BY <1>2, <1>3 DEF Listed
<1>4. QED
  BY <1>1, <1>3 DEF Kept

\* A request that joins the queue has found nothing yet.
LEMMA JoiningKeeps ==
  ASSUME IInv, KeptOK, NEW r \in Requests,
         \/ StartRemoval(r)
         \/ \E s \in Sessions, d \in Directories : StartMove(r, s, d)
  PROVE  KeptOK' /\ request'[r].outcome = request[r].outcome
<1>1. /\ TypeOK /\ request[r] \in RequestStates /\ Kept(request[r], where)
      /\ request[r].phase = "idle" /\ where' = where
  BY DEF IInv, TypeOK, KeptOK, StartRemoval, StartMove, At, daemon
<1>2. /\ request'[r].phase = "queued" /\ request'[r].before = request[r].before
      /\ request'[r].outcome = request[r].outcome
      /\ \A q \in Requests \ {r} : request'[q] = request[q]
  <2>1. CASE StartRemoval(r)
    <3>1. PICK x : /\ x = [request[r] EXCEPT !.kind = "remove", !.phase = "queued", !.seen = checkout]
                   /\ request' = [request EXCEPT ![r] = x]
      BY <2>1 DEF StartRemoval, Becomes
    <3>2. x.phase = "queued" /\ x.before = request[r].before /\ x.outcome = request[r].outcome
      BY <1>1, <3>1 DEF RequestStates
    <3>3. QED
      BY <1>1, <3>1, <3>2 DEF TypeOK
  <2>2. CASE \E s \in Sessions, d \in Directories : StartMove(r, s, d)
    <3>1. PICK s \in Sessions, d \in Directories : StartMove(r, s, d)
      BY <2>2
    <3>2. PICK n : n = IF d = Tree THEN checkout ELSE 0
      OBVIOUS
    <3>3. PICK x : /\ x = [request[r] EXCEPT !.kind = "move", !.phase = "queued", !.seen = n,
                                             !.session = s, !.goal = d]
                   /\ request' = [request EXCEPT ![r] = x]
      BY <3>1, <3>2 DEF StartMove, Becomes
    <3>4. x.phase = "queued" /\ x.before = request[r].before /\ x.outcome = request[r].outcome
      BY <1>1, <3>3 DEF RequestStates
    <3>5. QED
      BY <1>1, <3>3, <3>4 DEF TypeOK
  <2>3. QED
    BY <2>1, <2>2
<1>3. Listed(request'[r]) = {}
  BY <1>1, <1>2 DEF Kept, Listed, Waiting
<1>4. \A q \in Requests : Kept(request'[q], where')
  BY <1>1, <1>2, <1>3 DEF KeptOK, Kept, Looking, Moving
<1>5. QED
  BY <1>2, <1>4 DEF KeptOK, Kept, Listed

LEMMA NextKeeps == IInv /\ KeptOK /\ [Next]_vars => KeptOK'
<1> SUFFICES ASSUME IInv, KeptOK, [Next]_vars PROVE KeptOK'
  OBVIOUS
<1>1. CASE \E r \in Requests : RequestStep(r) \/ StartRemoval(r)
             \/ \E s \in Sessions, d \in Directories : StartMove(r, s, d)
  BY <1>1, RequestStepKeeps, JoiningKeeps
<1>2. ASSUME NEW s \in Sessions \cup {Nowhere}, NEW d \in Directories \cup {Nowhere},
             NEW astray, Adds(s, d, astray)
      PROVE  \A t \in Sessions : where'[t] = where[t] \/ where[t] = Nowhere
  <2>1. where \in [Sessions -> Directories \cup {Nowhere}]
    BY DEF IInv, TypeOK
  <2>2. PICK new \in Sessions : where[new] = Nowhere /\ where' = [where EXCEPT ![new] = d]
    BY <1>2 DEF Adds, Exists
  <2>3. QED
    BY <2>1, <2>2
<1>3. CASE \E m \in Mutations : Carry(m)
  <2>1. PICK m \in Mutations : Carry(m)
    BY <1>3
  <2>2. mutation[m].directory \in Directories /\ request' = request
    BY <2>1 DEF Carry, IInv, TypeOK, MutationStates
  <2>3. Adds(Nowhere, mutation[m].directory, mutation[m].phase = "adrift") \/ where' = where
    BY <2>1 DEF Carry
  <2>4. QED
    BY <1>2, <2>2, <2>3, NewcomersKeep
<1>4. CASE \E s \in Sessions : Spawn(s)
  <2>1. PICK s \in Sessions : Spawn(s)
    BY <1>4
  <2>2. where[s] \in Directories \cup {Nowhere} /\ Adds(s, where[s], s \in strays) /\ request' = request
    BY <2>1 DEF Spawn, IInv, TypeOK
  <2>3. QED
    BY <1>2, <2>2, NewcomersKeep
<1>5. CASE UNCHANGED <<where, request>>
  BY <1>5, NewcomersKeep
<1>6. ASSUME \/ \E m \in Mutations : Enter(m) \/ Disconnect(m)
                  \/ \E s \in Sessions \cup {Nowhere}, d \in Directories : Resolve(m, s, d)
             \/ (\E s \in Sessions : Settle(s)) \/ Replace \/ UNCHANGED vars
      PROVE  UNCHANGED <<where, request>>
  BY <1>6 DEF Enter, Disconnect, Resolve, Settle, Replace, vars, daemon
<1>7. QED
  BY <1>1, <1>3, <1>4, <1>5, <1>6 DEF Next

\* Only a restoration that is over, or one that has nothing to do, reports a failure late.
LEMMA FailuresAreRestored ==
  ASSUME IInv, KeptOK, NEW r \in Requests, RequestStep(r), request[r].outcome = "none",
         request'[r].outcome = "failed", request[r].kind = "remove" => Registered(r)
  PROVE  \A s \in Listed(request[r]) : where[s] = request[r].before[s]
<1>1. TypeOK /\ request[r] \in RequestStates /\ Kept(request[r], where)
  BY DEF IInv, TypeOK, KeptOK
<1>2. ASSUME NEW o \in {"done", "unsure"}, Ends(r, o) PROVE FALSE
  BY <1>1, <1>2, EndsExactly
<1>3. ASSUME NEW x, Becomes(r, x), x.outcome = request[r].outcome PROVE FALSE
  <2>1. request'[r] = x
    BY <1>1, <1>3 DEF Becomes, TypeOK
  <2>2. QED
    BY <1>3, <2>1
<1>4. ASSUME NEW p, Goes(r, p) PROVE FALSE
  <2>1. [request[r] EXCEPT !.phase = p].outcome = request[r].outcome
    BY <1>1 DEF RequestStates
  <2>2. QED
    BY <1>3, <1>4, <2>1 DEF Goes
<1>5. CASE request[r].phase \in Waiting \cup Looking
  BY <1>1, <1>5 DEF Kept
<1>6. CASE request[r].phase = "restoring"
  <2>1. ASSUME NEW s \in Sessions, Restore(r, s) PROVE FALSE
    <3>1. [request[r] EXCEPT !.todo = @ \ {s}].outcome = request[r].outcome
      BY <1>1 DEF RequestStates
    <3>2. QED
      BY <1>2, <1>3, <2>1, <3>1 DEF Restore
  <2>2. Restored(r)
    BY <1>6, <2>1 DEF RequestStep, Locked, Fence, Drained, DrainTimesOut, ListFamilies,
      AssertInactive, Verify, Confirm, RemoveCheckout, Undo, GivesUp, MoveMember, At
  <2>3. request[r].todo = {}
    BY <2>2 DEF Restored
  <2>4. QED
    BY <1>1, <1>6, <2>3 DEF Kept
<1>7. CASE request[r].phase \in Moving
  <2>1. ASSUME NEW s \in Sessions, MoveMember(r, s) PROVE FALSE
    <3>1. /\ [request[r] EXCEPT !.todo = @ \ {s}, !.moved = @ \cup {s}].outcome
               = request[r].outcome
          /\ [request[r] EXCEPT !.phase = "undoing", !.moved = @ \cup {s}].outcome
               = request[r].outcome
      BY <1>1 DEF RequestStates
    <3>2. QED
      BY <1>3, <1>4, <2>1, <3>1 DEF MoveMember
  <2>2. ~Verify(r) /\ ~Confirm(r) /\ ~RemoveCheckout(r)
    BY <1>2, <1>4 DEF Verify, Confirm, RemoveCheckout
  <2>3. Undo(r)
    BY <1>7, <2>1, <2>2 DEF RequestStep, Locked, Fence, Drained, DrainTimesOut, ListFamilies,
      AssertInactive, Restore, Restored, GivesUp, At, Moving
  <2>4. [request[r] EXCEPT !.phase = "restoring", !.todo = Changed(r)].outcome
          = request[r].outcome
    BY <1>1 DEF RequestStates
  <2>5. /\ request[r].kind # "move"
        /\ ~(Changed(r) # {} /\ Registered(r))
    BY <1>2, <1>3, <2>3, <2>4 DEF Undo
  <2>6. request[r].kind = "remove" /\ Changed(r) = {}
    BY <1>1, <2>5, RequestFields
  <2>7. ASSUME NEW s \in Listed(request[r]), where[s] = Goal(r), s \in request[r].moved
        PROVE  FALSE
    BY <2>6, <2>7 DEF Changed, Listed
  <2>8. QED
    BY <1>1, <1>7, <2>7 DEF Kept, GoalOf, Goal
<1>8. QED
  BY <1>1, <1>5, <1>6, <1>7, RequestFields DEF Phases, Waiting, Looking, Moving

\* project-session-families.ts: what a request moved and did not restore is what it records.
THEOREM MovesAreRecorded == Spec => []KeptOK
<1>1. Init => KeptOK
  BY DEF Init, KeptOK, Kept, Listed, Fresh, Unplaced, Looking, Moving
<1>2. QED
  BY <1>1, InvariantHolds, NextKeeps, PTL DEF Spec

\* rollback: a request that reports an ordinary failure leaves every session where it was,
\* unless it is a removal whose checkout was replaced or removed.
THEOREM FailuresRestore == Spec => FailureRestores
<1>1. IInv /\ KeptOK /\ [Next]_vars =>
        [\A r \in Requests :
           request[r].outcome = "none" /\ request'[r].outcome = "failed"
           /\ (request[r].kind = "remove" => Registered(r)) =>
             \A s \in Sessions : request[r].before[s] # Nowhere
               => where[s] = request[r].before[s]]_vars
  <2> SUFFICES ASSUME IInv, KeptOK, [Next]_vars, NEW r \in Requests,
                      request[r].outcome = "none", request'[r].outcome = "failed",
                      request[r].kind = "remove" => Registered(r)
               PROVE  \A s \in Listed(request[r]) : where[s] = request[r].before[s]
    BY DEF Listed
  <2>1. ASSUME NEW q \in Requests, RequestStep(q)
        PROVE  q = r
    <3>1. Steps(q)
      BY <2>1, RequestSteps
    <3>2. QED
      BY <3>1 DEF Steps
  <2>2. ASSUME NEW q \in Requests,
               StartRemoval(q) \/ \E s \in Sessions, d \in Directories : StartMove(q, s, d)
        PROVE  FALSE
    <3>1. request'[q].outcome = request[q].outcome
      BY <2>2, JoiningKeeps
    <3>2. q # r => request'[r] = request[r]
      BY <2>2 DEF StartRemoval, StartMove, Becomes, IInv, TypeOK
    <3>3. QED
      BY <3>1, <3>2
  <2>3. RequestStep(r)
    <3>1. request' # request
      OBVIOUS
    <3>2. ~ \/ \E m \in Mutations : Enter(m) \/ Disconnect(m) \/ Carry(m)
                 \/ \E s \in Sessions \cup {Nowhere}, d \in Directories : Resolve(m, s, d)
            \/ (\E s \in Sessions : Spawn(s) \/ Settle(s)) \/ Replace \/ UNCHANGED vars
      BY <3>1 DEF Enter, Disconnect, Carry, Resolve, Spawn, Settle, Replace, vars
    <3>3. QED
      BY <2>1, <2>2, <3>2 DEF Next
  <2>4. QED
    BY <2>3, FailuresAreRestored
<1>2. QED
  BY <1>1, InvariantHolds, MovesAreRecorded, PTL DEF Spec, FailureRestores
=============================================================================
