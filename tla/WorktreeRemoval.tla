--------------------------- MODULE WorktreeRemoval ---------------------------
(***************************************************************************)
(* packages/server/src/workspaces/project-session-families.ts, the         *)
(* WorktreeDeletionFence of worktree-session-evacuation.ts and the routes  *)
(* of server/routes/worktrees.ts that move a session family to another     *)
(* worktree or remove a worktree.                                          *)
(*                                                                         *)
(* Requests of a project pass its lock one at a time.  A removal blocks    *)
(* the directories it concerns, waits for the mutations the proxy already  *)
(* admitted there, moves the families that have a session in the worktree  *)
(* to the root, looks again, and lets Git remove the checkout; a failure   *)
(* moves them back unless the checkout was replaced meanwhile.  Sessions   *)
(* belong to the OpenCode daemon, where an agent that runs may start       *)
(* another session of its family at any time.                              *)
(***************************************************************************)
EXTENDS Naturals, Sequences, FiniteSets

CONSTANTS
  Requests,      (* requests to remove the worktree or to move a family      *)
  Mutations,     (* requests the proxy forwards to the daemon                *)
  Sessions, Directories,
  Tree, Root,    (* the worktree that may be removed, the root of the project *)
  Nowhere,       (* the location of a session that does not exist            *)
  Overlap,       (* pairs of directories of which one contains the other     *)
  MaxFailures,   (* bound: answers of the daemon that fail                   *)
  MaxCheckouts   (* bound: checkouts at the path of the worktree             *)

ASSUME DirectoryAssumption ==
  /\ {Tree, Root} \subseteq Directories /\ Nowhere \notin Directories /\ Sessions # {}
  /\ \A d \in Directories : <<d, d>> \in Overlap
  /\ \A p \in Overlap : <<p[2], p[1]>> \in Overlap
  /\ MaxFailures \in Nat /\ MaxCheckouts \in Nat \ {0}

VARIABLES
  where, family,   (* location of each session, root session of its family   *)
  running,         (* sessions that client.session.active() lists            *)
  checkout,        (* what is registered at Tree: 0 nothing, n the n-th      *)
  lock,            (* projectLocks: requests in the order they joined        *)
  request,         (* progress of each request                               *)
  mutation,        (* progress of each proxied mutation                      *)
  strays,          (* history: sessions that came from a mutation the proxy no *)
                   (* longer waits for, after a removal found the tree empty  *)
  failures         (* history: for the bound                                 *)

daemon == <<where, family, running, strays>>
vars   == <<daemon, checkout, lock, request, mutation, failures>>

Phases == {"idle", "queued", "fencing", "draining", "listing", "asserting", "moving",
           "confirming", "removing", "undoing", "restoring", "over"}

RequestStates ==
  [kind : {"remove", "move"}, phase : Phases, seen : 0..MaxCheckouts,
   session : Sessions, goal : Directories,
   fenced : SUBSET Directories,      \* what this request blocks or has entered
   todo : SUBSET Sessions, moved : SUBSET Sessions,
   before : [Sessions -> Directories \cup {Nowhere}],
   outcome : {"none", "done", "failed", "unsure"}]      \* unsure: status 500

MutationStates ==
  [phase : {"idle", "resolved", "admitted", "adrift", "over"},   \* adrift: see Disconnect
   session : Sessions \cup {Nowhere},                   \* Nowhere: creates one
   directory : Directories]

TypeOK ==
  /\ where \in [Sessions -> Directories \cup {Nowhere}]
  /\ family \in [Sessions -> Sessions] /\ running \subseteq Sessions
  /\ strays \subseteq Sessions /\ checkout \in 0..MaxCheckouts
  /\ lock \in Seq(Requests) /\ request \in [Requests -> RequestStates]
  /\ mutation \in [Mutations -> MutationStates]
  /\ failures \in 0..MaxFailures

FirstSession == CHOOSE s \in Sessions : TRUE
Pending(phase) == [phase |-> phase, session |-> Nowhere, directory |-> Root]

Exists(s)  == where[s] # Nowhere
Unplaced   == [s \in Sessions |-> Nowhere]
Overlapping(A, B) == \E a \in A, b \in B : <<a, b>> \in Overlap

\* The families with a session in the worktree, complete.
MatchingFamilies == {s \in Sessions : \E t \in Sessions :
  Exists(s) /\ family[t] = family[s] /\ where[t] = Tree}

FamilyOf(s) == {t \in Sessions : Exists(t) /\ family[t] = family[s]}

Places(S) == {where[s] : s \in S}

(***************************************************************************)
(* WorktreeDeletionFence: `fenced` of a removal is what it counts in       *)
(* `blocked` until it ends; an admitted mutation is counted in `active`,   *)
(* and so is a family move while it runs.                                  *)
(***************************************************************************)
Fences(r) == request[r].kind = "remove" /\ request[r].fenced # {}

IsBlocked(D) == \E r \in Requests : Fences(r) /\ Overlapping(request[r].fenced, D)

Idle(D) ==
  /\ \A m \in Mutations : mutation[m].phase = "admitted" =>
       ~Overlapping({mutation[m].directory}, D)
  /\ \A r \in Requests : request[r].kind = "move" => ~Overlapping(request[r].fenced, D)

\* Request r is x from now on; or it only goes on to phase p.
Becomes(r, x) == request' = [request EXCEPT ![r] = x]
Goes(r, p) == Becomes(r, [request[r] EXCEPT !.phase = p])

Fresh == [kind |-> "move", phase |-> "idle", seen |-> 0, session |-> FirstSession,
          goal |-> Root, fenced |-> {}, todo |-> {}, moved |-> {},
          before |-> Unplaced, outcome |-> "none"]

\* Mutant: a request that fails keeps the lock.
EndsHolding(r, outcome) ==
  /\ Becomes(r, [Fresh EXCEPT !.phase = "over", !.outcome = outcome])
  /\ lock' = IF outcome = "done" THEN Tail(lock) ELSE lock

\* The fence is left, the lock passes on and the reservation is released.
Ends(r, outcome) ==
  /\ Becomes(r, [Fresh EXCEPT !.phase = "over", !.outcome = outcome])
  /\ lock' = Tail(lock)

\* An answer of the daemon, of Git or of the inventory that fails.
Fails == failures < MaxFailures /\ failures' = failures + 1

At(r, p) == request[r].phase = p

Init ==
  /\ where \in [Sessions -> Directories \cup {Nowhere}]
  /\ family \in [Sessions -> Sessions]
  /\ \A s \in Sessions : family[family[s]] = family[s]
  /\ \A s \in Sessions : IF Exists(s) THEN Exists(family[s]) ELSE family[s] = s
  /\ running = {} /\ strays = {} /\ checkout = 1 /\ lock = <<>> /\ failures = 0
  /\ request = [r \in Requests |-> Fresh]
  /\ mutation = [m \in Mutations |-> Pending("idle")]

-----------------------------------------------------------------------------
(* Requests *)

\* The worktree is found, its identity read, and its deletion reserved: one at a time.
StartRemoval(r) ==
  /\ At(r, "idle") /\ checkout # 0
  /\ \A q \in Requests : request[q].kind = "remove" => request[q].phase \in {"idle", "over"}
  /\ Becomes(r, [request[r] EXCEPT !.kind = "remove", !.phase = "queued", !.seen = checkout])
  /\ lock' = Append(lock, r)
  /\ UNCHANGED <<daemon, checkout, mutation, failures>>

\* A session stands for its family: the root is named.
StartMove(r, s, d) ==
  /\ At(r, "idle") /\ family[s] = s /\ (d = Tree => checkout # 0)
  /\ Becomes(r, [request[r] EXCEPT !.kind = "move", !.phase = "queued",
       !.seen = IF d = Tree THEN checkout ELSE 0, !.session = s, !.goal = d])
  /\ lock' = Append(lock, r)
  /\ UNCHANGED <<daemon, checkout, mutation, failures>>

\* validateTarget, isTargetRegistered: the worktree is still the one that was found.
Registered(r) ==
  (request[r].kind = "remove" \/ request[r].goal = Tree) => checkout = request[r].seen

\* Where the members of some families are now.
Located(members) == [s \in Sessions |-> IF s \in members THEN where[s] ELSE Nowhere]

\* withProject, once the lock is ours: the first inventory and the destination.
Locked(r) ==
  /\ At(r, "queued") /\ lock # <<>> /\ Head(lock) = r
  /\ LET remove  == request[r].kind = "remove"
         members == IF remove THEN MatchingFamilies ELSE FamilyOf(request[r].session)
     IN  IF ~remove /\ (~Registered(r) \/ members = {})
         THEN Ends(r, "failed")
         ELSE /\ Becomes(r, [request[r] EXCEPT !.phase = "fencing", !.todo = members,
                                                  !.before = Located(members)])
              /\ UNCHANGED lock
  /\ UNCHANGED <<daemon, checkout, mutation, failures>>

Concerned(r) ==
  {request[r].before[s] : s \in request[r].todo}
  \cup IF request[r].kind = "remove" THEN {Tree, Root} ELSE {request[r].goal}

\* fence.run of a removal, fence.enter of a move.
Fence(r) ==
  /\ At(r, "fencing")
  /\ IF request[r].kind = "remove"
     THEN /\ Becomes(r, [request[r] EXCEPT !.phase = "draining", !.fenced = Concerned(r)])
          /\ UNCHANGED lock
     ELSE IF IsBlocked(Concerned(r)) THEN Ends(r, "failed")
     ELSE /\ Becomes(r, [request[r] EXCEPT !.phase = "asserting", !.fenced = Concerned(r)])
          /\ UNCHANGED lock
  /\ UNCHANGED <<daemon, checkout, mutation, failures>>

\* Mutant: only the mutations of the worktree itself are waited for.
DrainedTree(r) ==
  /\ At(r, "draining") /\ Idle({Tree})
  /\ Goes(r, "listing")
  /\ UNCHANGED <<daemon, checkout, lock, mutation, failures>>

\* waitForIdle of every active directory.
Drained(r) ==
  /\ At(r, "draining") /\ Idle(request[r].fenced)
  /\ Goes(r, "listing")
  /\ UNCHANGED <<daemon, checkout, lock, mutation, failures>>

DrainTimesOut(r) ==
  /\ At(r, "draining") /\ ~Idle(request[r].fenced)
  /\ Ends(r, "failed")
  /\ UNCHANGED <<daemon, checkout, mutation, failures>>

\* The second inventory of a removal decides what is moved.
ListFamilies(r) ==
  /\ At(r, "listing")
  /\ IF Registered(r)
     THEN /\ Becomes(r, [request[r] EXCEPT !.phase = "asserting", !.todo = MatchingFamilies,
                                             !.before = Located(MatchingFamilies)])
          /\ UNCHANGED lock
     ELSE Ends(r, "failed")
  /\ UNCHANGED <<daemon, checkout, mutation, failures>>

\* assertInactive, validateBeforeRemove, validateTarget.
AssertInactive(r) ==
  /\ At(r, "asserting")
  /\ IF request[r].todo \cap running = {} /\ (request[r].kind = "move" => Registered(r))
     THEN Goes(r, "moving") /\ UNCHANGED lock
     ELSE Ends(r, "failed")
  /\ UNCHANGED <<daemon, checkout, mutation, failures>>

Goal(r) == IF request[r].kind = "remove" THEN Root ELSE request[r].goal

(* moveMembers: parents first, which the model leaves open.  A move that     *)
(* fails, or cannot be verified, may still have happened.                    *)
MoveMember(r, s) ==
  /\ At(r, "moving") /\ s \in request[r].todo
  /\ \/ /\ s \in running /\ Goes(r, "undoing") /\ UNCHANGED <<where, failures>>
     \/ /\ s \notin running /\ where' = [where EXCEPT ![s] = Goal(r)]
        /\ Becomes(r, [request[r] EXCEPT !.todo = @ \ {s}, !.moved = @ \cup {s}])
        /\ UNCHANGED failures
     \/ /\ s \notin running /\ Fails
        /\ where' \in {where, [where EXCEPT ![s] = Goal(r)]}
        /\ Becomes(r, [request[r] EXCEPT !.phase = "undoing", !.moved = @ \cup {s}])
  /\ UNCHANGED <<family, running, strays, checkout, lock, mutation>>

\* Mutant: the inventory after the moves is not looked at for new sessions.
EvacuatedAlone(r) == \A s \in request[r].moved : where[s] = Goal(r)

(* verifyInventory, then what a removal asks of the inventory after it (no    *)
(* session in the worktree) and a move of its family (complete, together).   *)
Evacuated(r) ==
  /\ \A s \in request[r].moved : where[s] = Goal(r)
  /\ IF request[r].kind = "remove" THEN Tree \notin Places(Sessions)
     ELSE Places(FamilyOf(request[r].session)) = {Goal(r)}

Verify(r) ==
  /\ At(r, "moving") /\ request[r].todo = {}
  /\ \/ /\ ~Evacuated(r) /\ Goes(r, "undoing") /\ UNCHANGED <<lock, strays, failures>>
     \/ Fails /\ Goes(r, "undoing") /\ UNCHANGED <<lock, strays>>
     \/ /\ Evacuated(r) /\ UNCHANGED failures
        /\ IF request[r].kind = "move" THEN Ends(r, "done") /\ UNCHANGED strays
           ELSE Goes(r, "confirming") /\ strays' = {} /\ UNCHANGED lock
  /\ UNCHANGED <<where, family, running, checkout, mutation>>

\* The last look before Git: inactive, no blockers, registered.
Confirm(r) ==
  /\ At(r, "confirming")
  /\ IF request[r].moved \cap running = {} /\ Registered(r)
     THEN Goes(r, "removing") ELSE Goes(r, "undoing")
  /\ UNCHANGED <<daemon, checkout, lock, mutation, failures>>

\* removeWorktree, which may fail after it removed the checkout.
RemoveCheckout(r) ==
  /\ At(r, "removing")
  /\ \/ checkout' = 0 /\ Ends(r, "done") /\ UNCHANGED failures
     \/ checkout' \in {0, checkout} /\ Fails /\ Goes(r, "undoing") /\ UNCHANGED lock
  /\ UNCHANGED <<daemon, mutation>>

-----------------------------------------------------------------------------
(* Failures *)

\* refreshChangedSessionIds: the sessions that are where the request moved them.
Changed(r) ==
  LET asked == IF request[r].kind = "remove" THEN request[r].moved
               ELSE {s \in Sessions : request[r].before[s] # Nowhere}
  IN  {s \in asked : where[s] = Goal(r)}

\* Sessions are moved back, by a removal only into the checkout they came from.
Undo(r) ==
  /\ At(r, "undoing")
  /\ \/ Fails /\ Ends(r, "unsure")
     \/ /\ UNCHANGED failures
        /\ IF request[r].kind = "move" \/ (Changed(r) # {} /\ Registered(r))
           THEN /\ Becomes(r, [request[r] EXCEPT !.phase = "restoring", !.todo = Changed(r)])
                /\ UNCHANGED lock
           ELSE Ends(r, "failed")
  /\ UNCHANGED <<daemon, checkout, mutation>>

\* Mutant: a session that cannot be moved back is skipped.
RestoreMost(r, s) ==
  /\ At(r, "restoring") /\ s \in request[r].todo
  /\ Becomes(r, [request[r] EXCEPT !.todo = @ \ {s}])
  /\ \/ where' = [where EXCEPT ![s] = request[r].before[s]] /\ UNCHANGED failures
     \/ Fails /\ UNCHANGED where
  /\ UNCHANGED <<family, running, strays, checkout, lock, mutation>>

\* rollback
Restore(r, s) ==
  /\ At(r, "restoring") /\ s \in request[r].todo
  /\ \/ /\ where' = [where EXCEPT ![s] = request[r].before[s]]
        /\ Becomes(r, [request[r] EXCEPT !.todo = @ \ {s}])
        /\ UNCHANGED <<lock, failures>>
     \/ /\ Fails /\ Ends(r, "unsure")
        /\ where' \in {where, [where EXCEPT ![s] = request[r].before[s]]}
  /\ UNCHANGED <<family, running, strays, checkout, mutation>>

Restored(r) ==
  /\ At(r, "restoring") /\ request[r].todo = {}
  /\ Ends(r, "failed")
  /\ UNCHANGED <<daemon, checkout, mutation, failures>>

\* A request of the first phases fails: location.get, session.list, an identity.
GivesUp(r) ==
  /\ request[r].phase \in {"fencing", "listing", "asserting"}
  /\ Fails /\ Ends(r, "failed")
  /\ UNCHANGED <<daemon, checkout, mutation>>

-----------------------------------------------------------------------------
(* Mutations of the proxy, the daemon's agents, and Git outside *)

\* The directory of a mutation is identified: of the session or of the body.
Resolve(m, s, d) ==
  /\ mutation[m].phase = "idle"
  /\ IF s = Nowhere THEN d = Tree => checkout # 0 ELSE Exists(s) /\ d = where[s]
  /\ mutation' = [mutation EXCEPT ![m] = [phase |-> "resolved", session |-> s, directory |-> d]]
  /\ UNCHANGED <<daemon, checkout, lock, request, failures>>

\* enter: admitted, or refused with 409.
Enter(m) ==
  /\ mutation[m].phase = "resolved"
  /\ mutation' = [mutation EXCEPT ![m] =
       IF IsBlocked({mutation[m].directory}) THEN Pending("over")
       ELSE [mutation[m] EXCEPT !.phase = "admitted"]]
  /\ UNCHANGED <<daemon, checkout, lock, request, failures>>

\* The client goes away, or the request to the daemon fails: the proxy waits no longer, but
\* the daemon may have the request, and carries it out when it comes to it.
Disconnect(m) ==
  /\ mutation[m].phase = "admitted"
  /\ mutation' = [mutation EXCEPT ![m].phase = "adrift"]
  /\ UNCHANGED <<daemon, checkout, lock, request, failures>>

\* A removal has found no session in the worktree.
Emptied == {"confirming", "removing"}

\* A new session, of the family of s unless s is Nowhere.
Adds(s, d, astray) == \E new \in Sessions :
  /\ ~Exists(new)
  /\ where' = [where EXCEPT ![new] = d]
  /\ family' = [family EXCEPT ![new] = IF s = Nowhere THEN new ELSE family[s]]
  /\ strays' = IF astray /\ \E r \in Requests : request[r].phase \in Emptied
               THEN strays \cup {new} ELSE strays

\* The daemon creates a session or runs a prompt; the answer releases the admission.
Carry(m) ==
  /\ mutation[m].phase \in {"admitted", "adrift"}
  /\ mutation' = [mutation EXCEPT ![m] = Pending("over")]
  /\ LET s == mutation[m].session
     IN  IF s = Nowhere
         THEN /\ \/ Adds(Nowhere, mutation[m].directory, mutation[m].phase = "adrift")
                 \/ UNCHANGED <<where, family, strays>>
              /\ UNCHANGED running
         ELSE running' = running \cup {s} /\ UNCHANGED <<where, family, strays>>
  /\ UNCHANGED <<checkout, lock, request, failures>>

\* A running agent starts another session of its family beside it.
Spawn(s) ==
  /\ s \in running
  /\ Adds(s, where[s], s \in strays)
  /\ UNCHANGED <<running, checkout, lock, request, mutation, failures>>

Settle(s) ==
  /\ s \in running /\ running' = running \ {s}
  /\ UNCHANGED <<where, family, strays, checkout, lock, request, mutation, failures>>

\* Outside of the program the worktree is removed and added again.
Replace ==
  /\ checkout \in 1..(MaxCheckouts - 1)
  /\ checkout' = checkout + 1
  /\ UNCHANGED <<daemon, lock, request, mutation, failures>>

RequestStep(r) ==
  \/ Locked(r) \/ Fence(r) \/ Drained(r) \/ DrainTimesOut(r) \/ ListFamilies(r)
  \/ AssertInactive(r) \/ Verify(r) \/ Confirm(r) \/ RemoveCheckout(r)
  \/ Undo(r) \/ Restored(r) \/ GivesUp(r)
  \/ \E s \in Sessions : MoveMember(r, s) \/ Restore(r, s)

Next ==
  \/ \E r \in Requests : RequestStep(r) \/ StartRemoval(r)
       \/ \E s \in Sessions, d \in Directories : StartMove(r, s, d)
  \/ \E m \in Mutations : Enter(m) \/ Disconnect(m) \/ Carry(m)
       \/ \E s \in Sessions \cup {Nowhere}, d \in Directories : Resolve(m, s, d)
  \/ \E s \in Sessions : Spawn(s) \/ Settle(s)
  \/ Replace

Spec == Init /\ [][Next]_vars

(* Every call a request makes is answered and its timer fires; nothing is     *)
(* assumed of the mutations, which may take for ever.                        *)
Fairness == \A r \in Requests : WF_vars(RequestStep(r))

FairSpec == Spec /\ Fairness

-----------------------------------------------------------------------------
(* Properties *)

\* removeProjectWorktree: when Git removes the checkout no session is located in it, whatever
\* was admitted, spawned or moved meanwhile: but for one that came, after the last look, from
\* a mutation whose client went away (proxy.ts:26), or was spawned by such a one.
NothingIsStranded ==
  [][checkout # 0 /\ checkout' = 0 => \A s \in Sessions : where[s] = Tree => s \in strays]_vars

\* WorktreeDeletionFence.run: from the end of the drain to its own end a removal shares
\* its directories with no admitted mutation and no family move.
FenceIsExclusive == \A r \in Requests :
  request[r].kind = "remove" /\ request[r].phase \notin {"idle", "queued", "fencing", "draining", "over"}
    => Idle(request[r].fenced)

\* rollback: a request that reports an ordinary failure leaves every session where it was,
\* unless it is a removal whose checkout was replaced or removed.
FailureRestores == [][\A r \in Requests :
  request[r].outcome = "none" /\ request'[r].outcome = "failed"
  /\ (request[r].kind = "remove" => Registered(r)) =>
    \A s \in Sessions : request[r].before[s] # Nowhere => where[s] = request[r].before[s]]_vars

\* A request that was queued ends, though an admitted mutation may never do.
RequestsEnd == \A r \in Requests : At(r, "queued") ~> At(r, "over")
=============================================================================
