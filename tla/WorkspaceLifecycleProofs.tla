---------------------- MODULE WorkspaceLifecycleProofs ----------------------
(***************************************************************************)
(* The safety of WorkspaceLifecycle for any calls, directories and caps.   *)
(* IInv strengthens LiveWorkspaceIsHeld until every step preserves it.     *)
(***************************************************************************)
EXTENDS WorkspaceLifecycle, FiniteSetTheorems, TLAPS

\* The counter is exact, and within its cap.
CountOK ==
  /\ IsFiniteSet(Unsettled)
  /\ active = Cardinality(Unsettled) /\ active <= MaxActive

\* What the progress of a launch says of its record.
LaunchOK ==
  \A c \in Calls :
    /\ call[c] \in {"unused", "resolving"} => launch[c] = "none"
    /\ launch[c] = "none" => c \notin records
    /\ c \in published <=> launch[c] = "ready"
    /\ launch[c] \in Running => c \in records \cup aborted

\* Only an aborted record is cleaned up, and a shutdown aborts every record.
AbortOK ==
  /\ \A c \in Calls : cleanup[c] \in {"settling", "evicting"} => c \in aborted
  /\ ShuttingDown => records \subseteq aborted

\* A queued eviction belongs to whoever awaits it, and nobody awaits two.
JobsOK ==
  /\ \A i \in 1..Len(evictions) :
       LET job == evictions[i] IN
         IF job.kind = "cleanup"
         THEN cleanup[job.ws] = "evicting" /\ launch[job.ws] \in Settled
         ELSE launch[job.ws] = "evicting"
  /\ \A i, j \in 1..Len(evictions) :
       evictions[i].ws = evictions[j].ws => i = j

IInv ==
  /\ TypeOK /\ CountOK /\ LaunchOK /\ AbortOK /\ JobsOK
  /\ EvictionIsExclusive /\ LiveWorkspaceIsHeld

-----------------------------------------------------------------------------

\* Appending to the queue keeps the jobs before, and their order.
LEMMA AppendJob ==
  ASSUME NEW S, NEW s \in Seq(S), NEW e \in S
  PROVE  /\ Append(s, e) \in Seq(S)
         /\ Len(Append(s, e)) = Len(s) + 1
         /\ \A i \in 1..Len(s) : Append(s, e)[i] = s[i]
         /\ Append(s, e)[Len(s) + 1] = e
         /\ s # <<>> => Head(Append(s, e)) = Head(s)
         /\ Append(s, e) # <<>>
  OBVIOUS

\* Popping the queue shifts the jobs behind its head.
LEMMA PopJob ==
  ASSUME NEW S, NEW s \in Seq(S), s # <<>>
  PROVE  /\ Tail(s) \in Seq(S)
         /\ Len(Tail(s)) = Len(s) - 1
         /\ \A i \in 1..Len(Tail(s)) : Tail(s)[i] = s[i + 1]
         /\ Head(s) = s[1] /\ Head(s) \in S /\ 1 \in 1..Len(s)
  OBVIOUS

\* Every element of a sequence has the type of its elements.
LEMMA ElementOf ==
  ASSUME NEW S, NEW s \in Seq(S), NEW i \in 1..Len(s)
  PROVE  s[i] \in S
  OBVIOUS

\* Every queued job names a call.
LEMMA JobTypes ==
  ASSUME TypeOK
  PROVE  \A i \in 1..Len(evictions) : evictions[i] \in Jobs /\ evictions[i].ws \in Calls
<1>1. \A i \in 1..Len(evictions) : evictions[i] \in Jobs
  BY ElementOf DEF TypeOK
<1>. QED  BY <1>1 DEF Jobs

\* The helpers of the actions keep their types.
LEMMA HelperTypes ==
  ASSUME TypeOK
  PROVE  /\ \A S \in SUBSET Calls, publish \in BOOLEAN :
              RemoveRecords(S, publish) =>
                records' \subseteq Calls /\ stopped' \subseteq Calls
         /\ \A S \in SUBSET Calls :
              DeleteRecords(S) =>
                /\ aborted' \subseteq Calls /\ deletePromise' \subseteq Calls
                /\ cleanup' \in [Calls -> {"none", "settling", "evicting", "done"}]
  BY DEF TypeOK, RemoveRecords, DeleteRecords

\* Type correctness, given that a decremented counter was positive.
LEMMA TypeStep ==
  ASSUME TypeOK, CountOK, JobsOK, EvictionIsExclusive, [Next]_vars
  PROVE  TypeOK'
<1> USE RequestAssumption, BoundAssumption
<1>p. ASSUME evictions # <<>>
      PROVE  /\ Tail(evictions) \in Seq(Jobs)
             /\ Head(evictions).ws \in Calls /\ Head(evictions).kind \in JobKinds
  <2>1. evictions \in Seq(Jobs)
    BY DEF TypeOK
  <2>2. Tail(evictions) \in Seq(Jobs) /\ Head(evictions) \in Jobs
    BY <1>p, <2>1, PopJob
  <2>. QED  BY <2>2 DEF Jobs
<1>e. ASSUME NEW c \in Calls, NEW kind \in JobKinds
      PROVE  Append(evictions, [ws |-> c, kind |-> kind]) \in Seq(Jobs)
  BY AppendJob DEF TypeOK, Jobs
<1>c. ASSUME NEW c \in Calls, launch[c] \in Running
      PROVE  active - 1 \in Nat
  <2>1. c \in Unsettled
    BY <1>c DEF Unsettled
  <2>2. Cardinality(Unsettled) # 0
    BY <2>1, FS_EmptySet DEF CountOK
  <2>. QED  BY <2>2 DEF CountOK, TypeOK
<1>1. CASE UNCHANGED vars
  BY <1>1 DEF TypeOK, vars, callVars, recordVars, claimVars, ownerVars,
              queueVars, deleteVars, seenVars
<1>2. ASSUME NEW c \in Calls, BeginCreate(c) \/ RejectDuplicate(c)
      PROVE  TypeOK'
  BY <1>2 DEF TypeOK, BeginCreate, RejectDuplicate, CallStates, recordVars,
              claimVars, ownerVars, queueVars, deleteVars, seenVars
<1>3. ASSUME NEW c \in Calls, Delete(c)
      PROVE  TypeOK'
  BY <1>3, HelperTypes DEF TypeOK, Delete, callVars, recordVars,
              claimVars, ownerVars, queueVars
<1>4. ASSUME NEW c \in Calls, ReleaseCreationRequest(c)
      PROVE  TypeOK'
  BY <1>4 DEF TypeOK, ReleaseCreationRequest, callVars, recordVars, ownerVars,
              queueVars, deleteVars, seenVars
<1>5. ASSUME NEW r \in Requests, CancelCreationRequest(r)
      PROVE  TypeOK'
  <2>1. Doomed(r) \in SUBSET Calls
    BY DEF TypeOK, Doomed, Victims, Claimed
  <2>. QED
    BY <1>5, <2>1, HelperTypes DEF TypeOK, CancelCreationRequest, MarkCancelled,
              recordVars, ownerVars, queueVars
<1>6. ASSUME NEW d \in Directories,
             ReserveWorktreeDeletion(d) \/ ReleaseWorktreeDeletion(d)
      PROVE  TypeOK'
  BY <1>6 DEF TypeOK, ReserveWorktreeDeletion, ReleaseWorktreeDeletion, callVars,
              recordVars, claimVars, ownerVars, queueVars, deleteVars, seenVars
<1>7. CASE BeginShutdown
  BY <1>7 DEF TypeOK, BeginShutdown, callVars, recordVars, claimVars, ownerVars,
              queueVars, deleteVars, seenVars
<1>8. ASSUME NEW result \in {"stopped", "failed"}, FinishShutdown(result)
      PROVE  TypeOK'
  BY <1>8 DEF TypeOK, FinishShutdown, RemoveRecords, claimVars, ownerVars,
              queueVars, deleteVars, seenVars
<1>9. ASSUME NEW c \in Calls, Reserve(c)
      PROVE  TypeOK'
  BY <1>9 DEF TypeOK, Reserve, CallStates, Running, Settled, ownerVars,
              queueVars, deleteVars, seenVars
<1>10. ASSUME NEW c \in Calls, RefuseCreate(c) \/ CreateRejects(c)
       PROVE  TypeOK'
  BY <1>10 DEF TypeOK, RefuseCreate, CreateRejects, FinishRequest, CallStates,
              recordVars, claimVars, ownerVars, queueVars, deleteVars, seenVars
<1>11. ASSUME NEW c \in Calls, LaunchTimesOut(c) \/ DeleteTimesOut(c) \/ DaemonLoads(c)
       PROVE  TypeOK'
  BY <1>11 DEF TypeOK, LaunchTimesOut, DeleteTimesOut, DaemonLoads, callVars,
              recordVars, claimVars, ownerVars, queueVars, deleteVars, seenVars
<1>12. ASSUME NEW c \in Calls, SetupSettles(c) \/ EnterLocation(c)
       PROVE  TypeOK'
  BY <1>12 DEF TypeOK, SetupSettles, EnterLocation, Running, Settled, callVars,
              recordVars, claimVars, ownerVars, queueVars, deleteVars, seenVars
<1>13. ASSUME NEW c \in Calls, NEW located \in BOOLEAN, NEW headers \in BOOLEAN,
              ValidationSettles(c, located, headers)
       PROVE  TypeOK'
  <2>1. active - 1 \in Nat
    BY <1>13, <1>c DEF ValidationSettles, Running
  <2>2. CASE LaunchSucceeds(c, located, headers)
    BY <1>13, <2>1, <2>2 DEF TypeOK, ValidationSettles, FinishCreation,
              FinishRequest, CallStates, Running, Settled, claimVars, queueVars,
              deleteVars, seenVars
  <2>3. CASE ~LaunchSucceeds(c, located, headers)
    BY <1>13, <2>3 DEF TypeOK, ValidationSettles, Running, Settled, claimVars,
              queueVars, deleteVars, seenVars
  <2>. QED  BY <2>2, <2>3
<1>14. ASSUME NEW c \in Calls, CatchLaunch(c)
       PROVE  TypeOK'
  <2>1. \/ UNCHANGED evictions
        \/ \E kind \in JobKinds : evictions' = Append(evictions, [ws |-> c, kind |-> kind])
    BY <1>14, Zenon DEF CatchLaunch, Enqueue, JobKinds
  <2>2. evictions' \in Seq(Jobs)
    BY <1>e, <2>1 DEF TypeOK
  <2>3. launch' \in [Calls -> {"none"} \cup Running \cup Settled]
    BY <1>14 DEF TypeOK, CatchLaunch, Running
  <2>4. UNCHANGED <<callVars, recordVars, claimVars, ownerVars, evicting,
                    evictFailures, deleteVars, aborted, cancelledLocation, active,
                    shutdown, deletingRoots, seenVars>>
    BY <1>14 DEF CatchLaunch
  <2>. QED
    BY <2>2, <2>3, <2>4 DEF TypeOK, callVars, recordVars, claimVars, ownerVars,
              deleteVars, seenVars
<1>15. ASSUME NEW c \in Calls, FailLaunch(c)
       PROVE  TypeOK'
  BY <1>15, <1>c DEF TypeOK, FailLaunch, RemoveRecords, Running, Settled,
              callVars, recordVars, claimVars, ownerVars, queueVars, deleteVars,
              seenVars
<1>16. ASSUME NEW c \in Calls, CleanupEvicts(c)
       PROVE  TypeOK'
  BY <1>16, <1>e DEF TypeOK, CleanupEvicts, Enqueue, RemoveRecords, JobKinds,
              callVars, recordVars, claimVars, ownerVars, seenVars
<1>17. CASE SkipEviction
  BY <1>17, <1>p DEF TypeOK, SkipEviction, EvictionReturns, RemoveRecords,
              Running, Settled, callVars, recordVars, claimVars, deleteVars, seenVars
<1>18. CASE StartEviction
  BY <1>18 DEF TypeOK, StartEviction, callVars, recordVars, claimVars, ownerVars,
              deleteVars, seenVars
<1>19. CASE EvictionSucceeds
  <2>1. evictions # <<>>
    BY <1>19 DEF EvictionSucceeds, EvictionIsExclusive
  <2>. QED
    BY <1>19, <1>p, <2>1 DEF TypeOK, EvictionSucceeds, EvictionReturns,
              RemoveRecords, Running, Settled, callVars, claimVars, recordVars,
              deleteVars, seenVars
<1>20. CASE EvictionFails
  <2>1. evictions # <<>>
    BY <1>20 DEF EvictionFails, EvictionIsExclusive
  <2>2. held' \subseteq Directories /\ evictFailures' \in Nat /\ evicting' = FALSE
    BY <1>20 DEF TypeOK, EvictionFails
  <2>3. /\ evictions' \in Seq(Jobs) /\ deletePromise' \subseteq Calls
        /\ launch' \in [Calls -> {"none"} \cup Running \cup Settled]
        /\ cleanup' \in [Calls -> {"none", "settling", "evicting", "done"}]
        /\ UNCHANGED recordVars
    BY <1>20, <1>p, <2>1 DEF TypeOK, EvictionFails, EvictionReturns, Running,
              Settled, deleteVars
  <2>. QED
    BY <1>20, <2>2, <2>3 DEF TypeOK, EvictionFails, callVars, claimVars,
              recordVars, seenVars
<1>. QED
  BY <1>1, <1>2, <1>3, <1>4, <1>5, <1>6, <1>7, <1>8, <1>9, <1>10, <1>11, <1>12,
     <1>13, <1>14, <1>15, <1>16, <1>17, <1>18, <1>19, <1>20
     DEF Next, ClientStep, LaunchStep, EvictionStep

-----------------------------------------------------------------------------

\* The counter: one slot is taken by Reserve and given back by the step that
\* settles the launch.
LEMMA CountStep ==
  ASSUME TypeOK, CountOK, LaunchOK, JobsOK, EvictionIsExclusive, [Next]_vars
  PROVE  CountOK'
<1> USE BoundAssumption
<1>same. ASSUME active' = active,
                \A c \in Calls : launch'[c] \in Running <=> launch[c] \in Running
         PROVE  CountOK'
  <2>1. Unsettled' = Unsettled
    BY <1>same DEF Unsettled
  <2>. QED  BY <1>same, <2>1 DEF CountOK
<1>down. ASSUME NEW c \in Calls, launch[c] \in Running, launch'[c] \notin Running,
                active' = active - 1,
                \A o \in Calls \ {c} : launch'[o] = launch[o]
         PROVE  CountOK'
  <2>1. Unsettled' = Unsettled \ {c} /\ c \in Unsettled
    BY <1>down DEF Unsettled
  <2>2. /\ IsFiniteSet(Unsettled \ {c})
        /\ Cardinality(Unsettled \ {c}) = Cardinality(Unsettled) - 1
    BY <2>1, FS_RemoveElement DEF CountOK
  <2>. QED  BY <1>down, <2>1, <2>2 DEF CountOK, TypeOK
<1>keep. ASSUME UNCHANGED <<active, launch>>
         PROVE  CountOK'
  BY <1>keep, <1>same
<1>pop. ASSUME NEW ok \in BOOLEAN, evictions # <<>>, active' = active,
               EvictionReturns(Head(evictions), ok)
        PROVE  CountOK'
  <2>1. Head(evictions) = evictions[1] /\ 1 \in 1..Len(evictions)
        /\ Head(evictions) \in Jobs
    BY <1>pop, PopJob DEF TypeOK
  <2>2. CASE Head(evictions).kind = "cleanup"
    BY <1>pop, <1>keep, <2>2 DEF EvictionReturns
  <2>3. CASE Head(evictions).kind # "cleanup"
    <3>1. launch[Head(evictions).ws] = "evicting"
      BY <2>1, <2>3 DEF JobsOK
    <3>2. launch' = [launch EXCEPT ![Head(evictions).ws] = "unwinding"]
      BY <1>pop, <2>3 DEF EvictionReturns
    <3>. QED  BY <1>pop, <1>same, <3>1, <3>2 DEF TypeOK, Running
  <2>. QED  BY <2>2, <2>3
<1>1. CASE UNCHANGED vars
  BY <1>1, <1>keep DEF vars
<1>2. CASE ClientStep
  BY <1>2, <1>keep DEF ClientStep, BeginCreate, RejectDuplicate, Delete,
     ReleaseCreationRequest, CancelCreationRequest, ReserveWorktreeDeletion,
     ReleaseWorktreeDeletion, BeginShutdown
<1>3. ASSUME NEW c \in Calls, Reserve(c)
      PROVE  CountOK'
  <2>1. launch[c] = "none"
    BY <1>3 DEF Reserve, LaunchOK
  <2>2. Unsettled' = Unsettled \cup {c} /\ c \notin Unsettled
    BY <1>3, <2>1 DEF Reserve, Unsettled, Running, TypeOK
  <2>3. /\ IsFiniteSet(Unsettled \cup {c})
        /\ Cardinality(Unsettled \cup {c}) = Cardinality(Unsettled) + 1
    BY <2>2, FS_AddElement DEF CountOK
  <2>. QED  BY <1>3, <2>2, <2>3 DEF Reserve, MayReserve, CountOK, TypeOK
<1>4. ASSUME NEW c \in Calls, \/ RefuseCreate(c) \/ LaunchTimesOut(c) \/ CreateRejects(c)
                              \/ CleanupEvicts(c) \/ DeleteTimesOut(c) \/ DaemonLoads(c)
      PROVE  CountOK'
  BY <1>4, <1>keep DEF RefuseCreate, LaunchTimesOut, CreateRejects, CleanupEvicts,
     DeleteTimesOut, DaemonLoads
<1>5. ASSUME NEW c \in Calls, SetupSettles(c) \/ EnterLocation(c) \/ CatchLaunch(c)
      PROVE  CountOK'
  BY <1>5, <1>same DEF SetupSettles, EnterLocation, CatchLaunch, Running, TypeOK
<1>6. ASSUME NEW c \in Calls, FailLaunch(c)
      PROVE  CountOK'
  BY <1>6, <1>down DEF FailLaunch, Running, TypeOK
<1>7. ASSUME NEW c \in Calls, NEW located \in BOOLEAN, NEW headers \in BOOLEAN,
             ValidationSettles(c, located, headers)
      PROVE  CountOK'
  <2>1. CASE LaunchSucceeds(c, located, headers)
    BY <1>7, <1>down, <2>1 DEF ValidationSettles, Running, TypeOK
  <2>2. CASE ~LaunchSucceeds(c, located, headers)
    BY <1>7, <1>same, <2>2 DEF ValidationSettles, Running, TypeOK
  <2>. QED  BY <2>1, <2>2
<1>8. CASE EvictionStep
  BY <1>8, <1>pop, <1>keep DEF EvictionStep, SkipEviction, StartEviction,
     EvictionSucceeds, EvictionFails, EvictionIsExclusive
<1>9. ASSUME NEW result \in {"stopped", "failed"}, FinishShutdown(result)
      PROVE  CountOK'
  BY <1>9, <1>keep DEF FinishShutdown
<1>. QED
  BY <1>1, <1>2, <1>3, <1>4, <1>5, <1>6, <1>7, <1>8, <1>9 DEF Next, LaunchStep

-----------------------------------------------------------------------------

\* A record exists only while its launch has begun, and a workspace is published
\* exactly when its launch became ready.
LEMMA LaunchOKStep ==
  ASSUME TypeOK, LaunchOK, AbortOK, JobsOK, EvictionIsExclusive, [Next]_vars
  PROVE  LaunchOK'
<1>keep. ASSUME UNCHANGED <<launch, published>>,
                records' \subseteq records,
                records \subseteq records' \cup aborted' \cup {c \in Calls : launch[c] \in Settled},
                aborted \subseteq aborted',
                \A c \in Calls : call'[c] \in {"unused", "resolving"} =>
                                call[c] \in {"unused", "resolving"}
         PROVE  LaunchOK'
  <2>. SUFFICES ASSUME NEW c \in Calls
                PROVE  /\ call'[c] \in {"unused", "resolving"} => launch[c] = "none"
                       /\ launch[c] = "none" => c \notin records'
                       /\ c \in published <=> launch[c] = "ready"
                       /\ launch[c] \in Running => c \in records' \cup aborted'
    BY <1>keep DEF LaunchOK
  <2>. QED  BY <1>keep DEF LaunchOK, Running, Settled
<1>pop. ASSUME NEW ok \in BOOLEAN, evictions # <<>>, UNCHANGED <<call, aborted>>,
               EvictionReturns(Head(evictions), ok)
        PROVE  LaunchOK'
  <2>1. Head(evictions) = evictions[1] /\ 1 \in 1..Len(evictions)
        /\ Head(evictions) \in Jobs
    BY <1>pop, PopJob DEF TypeOK
  <2>2. CASE Head(evictions).kind = "cleanup"
    <3>1. UNCHANGED <<launch, published>> /\ records' \subseteq records
          /\ records \subseteq records' \cup {Head(evictions).ws}
      BY <1>pop, <2>2 DEF EvictionReturns, RemoveRecords, recordVars
    <3>2. launch[Head(evictions).ws] \in Settled
      BY <2>1, <2>2 DEF JobsOK
    <3>. QED  BY <1>pop, <1>keep, <2>1, <3>1, <3>2 DEF Jobs, TypeOK
  <2>3. CASE Head(evictions).kind # "cleanup"
    <3>1. launch[Head(evictions).ws] = "evicting"
      BY <2>1, <2>3 DEF JobsOK
    <3>2. launch' = [launch EXCEPT ![Head(evictions).ws] = "unwinding"]
          /\ UNCHANGED <<records, published>>
      BY <1>pop, <2>3 DEF EvictionReturns, recordVars
    <3>. QED  BY <1>pop, <3>1, <3>2 DEF LaunchOK, TypeOK, Running
  <2>. QED  BY <2>2, <2>3
<1>1. CASE UNCHANGED vars
  BY <1>1, <1>keep DEF vars, callVars, recordVars
<1>2. ASSUME NEW c \in Calls, \/ BeginCreate(c) \/ RejectDuplicate(c)
                              \/ RefuseCreate(c) \/ CreateRejects(c)
      PROVE  LaunchOK'
  BY <1>2, <1>keep DEF BeginCreate, RejectDuplicate, RefuseCreate, CreateRejects,
     recordVars, TypeOK, CallStates
<1>3. ASSUME NEW S \in SUBSET Calls, DeleteRecords(S), UNCHANGED <<call, launch, recordVars>>
      PROVE  LaunchOK'
  BY <1>3, <1>keep DEF DeleteRecords, recordVars
<1>4. ASSUME NEW c \in Calls, Delete(c)
      PROVE  LaunchOK'
  BY <1>4, <1>3 DEF Delete, callVars
<1>5. ASSUME NEW r \in Requests, CancelCreationRequest(r)
      PROVE  LaunchOK'
  <2>1. Doomed(r) \in SUBSET Calls
    BY DEF TypeOK, Doomed, Victims, Claimed
  <2>. QED  BY <1>5, <1>3, <2>1 DEF CancelCreationRequest
<1>6. ASSUME UNCHANGED <<call, launch, recordVars>>, aborted \subseteq aborted'
      PROVE  LaunchOK'
  BY <1>6, <1>keep DEF recordVars
<1>7. ASSUME NEW c \in Calls, \/ ReleaseCreationRequest(c) \/ LaunchTimesOut(c)
                              \/ DeleteTimesOut(c) \/ DaemonLoads(c)
      PROVE  LaunchOK'
  BY <1>7, <1>6 DEF ReleaseCreationRequest, LaunchTimesOut, DeleteTimesOut, DaemonLoads, callVars
<1>8. ASSUME NEW d \in Directories,
             ReserveWorktreeDeletion(d) \/ ReleaseWorktreeDeletion(d)
      PROVE  LaunchOK'
  BY <1>8, <1>6 DEF ReserveWorktreeDeletion, ReleaseWorktreeDeletion, callVars
<1>9. CASE BeginShutdown
  BY <1>9, <1>6 DEF BeginShutdown, callVars
<1>10. ASSUME NEW result \in {"stopped", "failed"}, FinishShutdown(result)
       PROVE  LaunchOK'
  <2>1. records \subseteq aborted
    BY <1>10 DEF FinishShutdown, AbortOK, ShuttingDown
  <2>. QED  BY <1>10, <1>keep, <2>1 DEF FinishShutdown, RemoveRecords
<1>11. ASSUME NEW c \in Calls, Reserve(c)
       PROVE  LaunchOK'
  BY <1>11 DEF LaunchOK, Reserve, TypeOK, Running
<1>12. ASSUME NEW c \in Calls, SetupSettles(c) \/ EnterLocation(c) \/ CatchLaunch(c)
       PROVE  LaunchOK'
  <2>1. /\ launch[c] \in Running /\ UNCHANGED <<call, records, aborted, published>>
        /\ \E next \in Running : launch' = [launch EXCEPT ![c] = next]
    BY <1>12 DEF SetupSettles, EnterLocation, CatchLaunch, Running, callVars, recordVars
  <2>. QED  BY <2>1 DEF LaunchOK, TypeOK, Running
<1>13. ASSUME NEW c \in Calls, FailLaunch(c)
       PROVE  LaunchOK'
  <2>1. /\ launch[c] = "unwinding" /\ launch' = [launch EXCEPT ![c] = "failed"]
        /\ UNCHANGED <<call, aborted, published>>
        /\ records' \subseteq records /\ records \subseteq records' \cup {c}
    BY <1>13 DEF FailLaunch, RemoveRecords, callVars, recordVars
  <2>. QED  BY <2>1 DEF LaunchOK, TypeOK, Running
<1>14. ASSUME NEW c \in Calls, NEW located \in BOOLEAN, NEW headers \in BOOLEAN,
              ValidationSettles(c, located, headers)
       PROVE  LaunchOK'
  <2>1. CASE LaunchSucceeds(c, located, headers)
    BY <1>14, <2>1 DEF ValidationSettles, FinishCreation, LaunchOK, TypeOK, Running
  <2>2. CASE ~LaunchSucceeds(c, located, headers)
    BY <1>14, <2>2 DEF ValidationSettles, LaunchOK, TypeOK, Running
  <2>. QED  BY <2>1, <2>2
<1>15. ASSUME NEW c \in Calls, CleanupEvicts(c)
       PROVE  LaunchOK'
  <2>1. /\ launch[c] \in Settled /\ UNCHANGED <<call, launch, aborted, published>>
        /\ records' \subseteq records /\ records \subseteq records' \cup {c}
    BY <1>15 DEF CleanupEvicts, Settlement, RemoveRecords, callVars, recordVars
  <2>. QED  BY <2>1, <1>keep
<1>16. CASE EvictionStep
  <2>1. CASE StartEviction
    BY <2>1, <1>6 DEF StartEviction, callVars
  <2>2. CASE SkipEviction \/ EvictionSucceeds \/ EvictionFails
    BY <2>2, <1>pop DEF SkipEviction, EvictionSucceeds, EvictionFails, callVars,
       EvictionIsExclusive
  <2>. QED  BY <1>16, <2>1, <2>2 DEF EvictionStep
<1>. QED
  BY <1>1, <1>2, <1>4, <1>5, <1>7, <1>8, <1>9, <1>10, <1>11, <1>12, <1>13, <1>14,
     <1>15, <1>16 DEF Next, ClientStep, LaunchStep

-----------------------------------------------------------------------------

\* Nothing is cleaned up, and nothing is left open by a shutdown, unaborted.
LEMMA AbortOKStep ==
  ASSUME TypeOK, AbortOK, JobsOK, EvictionIsExclusive, [Next]_vars
  PROVE  AbortOK'
<1>mono. ASSUME aborted \subseteq aborted', UNCHANGED shutdown,
                \A c \in Calls : cleanup'[c] \in {"settling", "evicting"} =>
                    cleanup[c] \in {"settling", "evicting"} \/ c \in aborted',
                records' \subseteq records
         PROVE  AbortOK'
  BY <1>mono DEF AbortOK, ShuttingDown
<1>same. ASSUME UNCHANGED <<aborted, shutdown, cleanup, records>>
         PROVE  AbortOK'
  BY <1>same DEF AbortOK, ShuttingDown
<1>pop. ASSUME NEW ok \in BOOLEAN, UNCHANGED <<aborted, shutdown>>, evictions # <<>>,
               EvictionReturns(Head(evictions), ok)
        PROVE  AbortOK'
  <2>1. Head(evictions) \in Jobs
    BY <1>pop, PopJob DEF TypeOK
  <2>. QED
    BY <1>pop, <1>mono, <2>1 DEF EvictionReturns, RemoveRecords, recordVars,
       deleteVars, TypeOK, Jobs
<1>1. CASE UNCHANGED vars
  BY <1>1, <1>same DEF vars, recordVars, deleteVars
<1>2. ASSUME NEW c \in Calls, Delete(c)
      PROVE  AbortOK'
  BY <1>2, <1>mono DEF Delete, DeleteRecords, recordVars, TypeOK
<1>3. ASSUME NEW r \in Requests, CancelCreationRequest(r)
      PROVE  AbortOK'
  BY <1>3, <1>mono DEF CancelCreationRequest, DeleteRecords, recordVars, TypeOK
<1>4. ASSUME NEW c \in Calls, \/ BeginCreate(c) \/ RejectDuplicate(c)
                              \/ ReleaseCreationRequest(c) \/ RefuseCreate(c)
                              \/ CreateRejects(c) \/ DeleteTimesOut(c) \/ DaemonLoads(c)
                              \/ SetupSettles(c) \/ EnterLocation(c) \/ CatchLaunch(c)
      PROVE  AbortOK'
  BY <1>4, <1>same DEF BeginCreate, RejectDuplicate, ReleaseCreationRequest,
     RefuseCreate, CreateRejects, DeleteTimesOut, DaemonLoads, SetupSettles, EnterLocation,
     CatchLaunch, recordVars, deleteVars
<1>5. ASSUME NEW d \in Directories,
             ReserveWorktreeDeletion(d) \/ ReleaseWorktreeDeletion(d)
      PROVE  AbortOK'
  BY <1>5, <1>same DEF ReserveWorktreeDeletion, ReleaseWorktreeDeletion,
     recordVars, deleteVars
<1>6. CASE BeginShutdown
  BY <1>6 DEF BeginShutdown, AbortOK, recordVars, deleteVars
<1>7. ASSUME NEW result \in {"stopped", "failed"}, FinishShutdown(result)
      PROVE  AbortOK'
  BY <1>7 DEF FinishShutdown, RemoveRecords, AbortOK, deleteVars, ShuttingDown
<1>8. ASSUME NEW c \in Calls, Reserve(c)
      PROVE  AbortOK'
  BY <1>8 DEF Reserve, MayReserve, AbortOK, deleteVars, ShuttingDown
<1>9. ASSUME NEW c \in Calls, LaunchTimesOut(c)
      PROVE  AbortOK'
  BY <1>9, <1>mono DEF LaunchTimesOut, recordVars, deleteVars
<1>10. ASSUME NEW c \in Calls, NEW located \in BOOLEAN, NEW headers \in BOOLEAN,
              ValidationSettles(c, located, headers)
       PROVE  AbortOK'
  BY <1>10, <1>same DEF ValidationSettles, deleteVars
<1>11. ASSUME NEW c \in Calls, FailLaunch(c)
       PROVE  AbortOK'
  BY <1>11, <1>mono DEF FailLaunch, RemoveRecords, recordVars, deleteVars
<1>12. ASSUME NEW c \in Calls, CleanupEvicts(c)
       PROVE  AbortOK'
  <2>1. /\ UNCHANGED <<aborted, shutdown>> /\ records' \subseteq records
        /\ cleanup[c] = "settling"
        /\ \A o \in Calls \ {c} : cleanup'[o] = cleanup[o]
    BY <1>12 DEF CleanupEvicts, RemoveRecords, recordVars, TypeOK
  <2>. QED  BY <1>mono, <2>1
<1>13. CASE EvictionStep
  <2>1. CASE StartEviction
    BY <2>1, <1>same DEF StartEviction, recordVars, deleteVars
  <2>2. CASE SkipEviction \/ EvictionSucceeds \/ EvictionFails
    BY <2>2, <1>pop DEF SkipEviction, EvictionSucceeds, EvictionFails,
       EvictionIsExclusive
  <2>. QED  BY <1>13, <2>1, <2>2 DEF EvictionStep
<1>. QED
  BY <1>1, <1>2, <1>3, <1>4, <1>5, <1>6, <1>7, <1>8, <1>9, <1>10, <1>11, <1>12,
     <1>13 DEF Next, ClientStep, LaunchStep

-----------------------------------------------------------------------------

\* The queue: every job has its own waiter, which waits for that job only.
LEMMA JobsOKStep ==
  ASSUME TypeOK, LaunchOK, AbortOK, JobsOK, EvictionIsExclusive, [Next]_vars
  PROVE  JobsOK'
<1>keep. ASSUME UNCHANGED evictions,
                \A c \in Calls :
                  /\ cleanup[c] = "evicting" => cleanup'[c] = "evicting"
                  /\ launch[c] \in Settled \cup {"evicting"} => launch'[c] = launch[c]
         PROVE  JobsOK'
  <2>1. \A i \in 1..Len(evictions) : evictions[i].ws \in Calls
    BY JobTypes
  <2>. QED  BY <1>keep, <2>1 DEF JobsOK, Settled
<1>push. ASSUME NEW c \in Calls, NEW kind \in JobKinds, Enqueue(c, kind),
                IF kind = "cleanup" THEN cleanup'[c] = "evicting" /\ launch'[c] \in Settled
                                    ELSE launch'[c] = "evicting",
                cleanup[c] # "evicting" \/ launch[c] \notin Settled,
                launch[c] # "evicting",
                \A o \in Calls \ {c} : cleanup'[o] = cleanup[o] /\ launch'[o] = launch[o]
         PROVE  JobsOK'
  <2> DEFINE e == [ws |-> c, kind |-> kind]
  <2>1. /\ Len(evictions') = Len(evictions) + 1
        /\ \A i \in 1..Len(evictions) : evictions'[i] = evictions[i]
        /\ evictions'[Len(evictions) + 1] = e
    BY <1>push, AppendJob DEF Enqueue, TypeOK, Jobs
  <2>2. \A i \in 1..Len(evictions) : evictions[i].ws \in Calls \ {c}
    <3>1. \A i \in 1..Len(evictions) : evictions[i].ws \in Calls
      BY JobTypes
    <3>2. \A i \in 1..Len(evictions) : evictions[i].ws # c
      BY <1>push DEF JobsOK
    <3>. QED  BY <3>1, <3>2
  <2>3. Len(evictions) \in Nat
    BY DEF TypeOK
  <2>4. \A i \in 1..Len(evictions') :
          IF evictions'[i].kind = "cleanup"
          THEN cleanup'[evictions'[i].ws] = "evicting" /\ launch'[evictions'[i].ws] \in Settled
          ELSE launch'[evictions'[i].ws] = "evicting"
    <3>. SUFFICES ASSUME NEW i \in 1..Len(evictions')
                  PROVE  IF evictions'[i].kind = "cleanup"
                         THEN cleanup'[evictions'[i].ws] = "evicting"
                              /\ launch'[evictions'[i].ws] \in Settled
                         ELSE launch'[evictions'[i].ws] = "evicting"
      OBVIOUS
    <3>1. CASE i = Len(evictions) + 1
      BY <1>push, <2>1, <3>1
    <3>2. CASE i \in 1..Len(evictions)
      <4>1. evictions'[i] = evictions[i] /\ evictions[i].ws \in Calls \ {c}
        BY <2>1, <2>2, <3>2
      <4>2. /\ cleanup'[evictions[i].ws] = cleanup[evictions[i].ws]
            /\ launch'[evictions[i].ws] = launch[evictions[i].ws]
        BY <1>push, <4>1
      <4>. QED  BY <3>2, <4>1, <4>2 DEF JobsOK
    <3>. QED  BY <2>1, <2>3, <3>1, <3>2
  <2>5. \A i, j \in 1..Len(evictions') : evictions'[i].ws = evictions'[j].ws => i = j
    <3>. SUFFICES ASSUME NEW i \in 1..Len(evictions'), NEW j \in 1..Len(evictions'),
                         evictions'[i].ws = evictions'[j].ws
                  PROVE  i = j
      OBVIOUS
    <3>1. CASE i \in 1..Len(evictions) /\ j \in 1..Len(evictions)
      BY <2>1, <3>1 DEF JobsOK
    <3>2. CASE i = Len(evictions) + 1 \/ j = Len(evictions) + 1
      BY <2>1, <2>2, <2>3, <3>2
    <3>. QED  BY <2>1, <2>3, <3>1, <3>2
  <2>. QED  BY <2>4, <2>5 DEF JobsOK
<1>pop. ASSUME NEW ok \in BOOLEAN, evictions # <<>>,
               EvictionReturns(Head(evictions), ok)
        PROVE  JobsOK'
  <2> DEFINE w == Head(evictions).ws
  <2>1. /\ Head(evictions) = evictions[1] /\ 1 \in 1..Len(evictions)
        /\ Head(evictions) \in Jobs /\ Len(evictions') = Len(evictions) - 1
        /\ \A i \in 1..Len(evictions') : evictions'[i] = evictions[i + 1]
        /\ Len(evictions) \in Nat
    BY <1>pop, PopJob DEF TypeOK, EvictionReturns
  <2>2. \A i \in 1..Len(evictions') :
          i + 1 \in 1..Len(evictions) /\ evictions[i + 1].ws \in Calls \ {w}
    <3>. SUFFICES ASSUME NEW i \in 1..Len(evictions')
                  PROVE  i + 1 \in 1..Len(evictions) /\ evictions[i + 1].ws \in Calls \ {w}
      OBVIOUS
    <3>1. i + 1 \in 1..Len(evictions) /\ i + 1 # 1
      BY <2>1
    <3>2. evictions[i + 1].ws \in Calls
      BY <3>1, JobTypes
    <3>3. evictions[i + 1].ws # evictions[1].ws
      BY <2>1, <3>1 DEF JobsOK
    <3>. QED  BY <2>1, <3>1, <3>2, <3>3
  <2>3. \A o \in Calls \ {w} : cleanup'[o] = cleanup[o] /\ launch'[o] = launch[o]
    BY <1>pop DEF EvictionReturns, TypeOK, deleteVars
  <2>4. \A i \in 1..Len(evictions') :
          IF evictions'[i].kind = "cleanup"
          THEN cleanup'[evictions'[i].ws] = "evicting" /\ launch'[evictions'[i].ws] \in Settled
          ELSE launch'[evictions'[i].ws] = "evicting"
    <3>. SUFFICES ASSUME NEW i \in 1..Len(evictions')
                  PROVE  IF evictions'[i].kind = "cleanup"
                         THEN cleanup'[evictions'[i].ws] = "evicting"
                              /\ launch'[evictions'[i].ws] \in Settled
                         ELSE launch'[evictions'[i].ws] = "evicting"
      OBVIOUS
    <3>1. /\ evictions'[i] = evictions[i + 1] /\ i + 1 \in 1..Len(evictions)
          /\ evictions[i + 1].ws \in Calls \ {w}
      BY <2>1, <2>2
    <3>2. /\ cleanup'[evictions[i + 1].ws] = cleanup[evictions[i + 1].ws]
          /\ launch'[evictions[i + 1].ws] = launch[evictions[i + 1].ws]
      BY <2>3, <3>1
    <3>. QED  BY <3>1, <3>2 DEF JobsOK
  <2>5. \A i, j \in 1..Len(evictions') : evictions'[i].ws = evictions'[j].ws => i = j
    BY <2>1, <2>2 DEF JobsOK
  <2>. QED  BY <2>4, <2>5 DEF JobsOK
<1>same. ASSUME UNCHANGED <<evictions, launch, cleanup>>
         PROVE  JobsOK'
  BY <1>same, <1>keep
<1>1. CASE UNCHANGED vars
  BY <1>1, <1>same DEF vars, queueVars, deleteVars
<1>2. ASSUME NEW c \in Calls, Delete(c)
      PROVE  JobsOK'
  BY <1>2, <1>keep DEF Delete, DeleteRecords, queueVars
<1>3. ASSUME NEW r \in Requests, CancelCreationRequest(r)
      PROVE  JobsOK'
  BY <1>3, <1>keep DEF CancelCreationRequest, DeleteRecords, queueVars
<1>4. ASSUME NEW c \in Calls, \/ BeginCreate(c) \/ RejectDuplicate(c)
                              \/ ReleaseCreationRequest(c) \/ RefuseCreate(c)
                              \/ CreateRejects(c) \/ DeleteTimesOut(c) \/ DaemonLoads(c) \/ LaunchTimesOut(c)
      PROVE  JobsOK'
  BY <1>4, <1>same DEF BeginCreate, RejectDuplicate, ReleaseCreationRequest,
     RefuseCreate, CreateRejects, DeleteTimesOut, DaemonLoads, LaunchTimesOut, queueVars, deleteVars
<1>5. ASSUME NEW d \in Directories,
             ReserveWorktreeDeletion(d) \/ ReleaseWorktreeDeletion(d)
      PROVE  JobsOK'
  BY <1>5, <1>same DEF ReserveWorktreeDeletion, ReleaseWorktreeDeletion,
     queueVars, deleteVars
<1>6. CASE BeginShutdown
  BY <1>6, <1>same DEF BeginShutdown, queueVars, deleteVars
<1>7. ASSUME NEW result \in {"stopped", "failed"}, FinishShutdown(result)
      PROVE  JobsOK'
  BY <1>7, <1>same DEF FinishShutdown, queueVars, deleteVars
<1>8. ASSUME NEW c \in Calls, launch[c] \notin Settled \cup {"evicting"},
             UNCHANGED <<evictions, cleanup>>, \A o \in Calls \ {c} : launch'[o] = launch[o]
      PROVE  JobsOK'
  BY <1>8, <1>keep
<1>9. ASSUME NEW c \in Calls, SetupSettles(c) \/ EnterLocation(c) \/ FailLaunch(c)
      PROVE  JobsOK'
  BY <1>9, <1>8 DEF SetupSettles, EnterLocation, FailLaunch, queueVars, deleteVars,
     Settled, TypeOK
<1>10. ASSUME NEW c \in Calls, NEW located \in BOOLEAN, NEW headers \in BOOLEAN,
              ValidationSettles(c, located, headers)
       PROVE  JobsOK'
  BY <1>10, <1>8 DEF ValidationSettles, queueVars, deleteVars, Settled, TypeOK
<1>11. ASSUME NEW c \in Calls, Reserve(c)
       PROVE  JobsOK'
  <2>1. launch[c] = "none"
    BY <1>11 DEF Reserve, LaunchOK
  <2>. QED  BY <1>11, <1>8, <2>1 DEF Reserve, Settled, TypeOK, queueVars, deleteVars
<1>12. ASSUME NEW c \in Calls, CatchLaunch(c)
       PROVE  JobsOK'
  <2>1. CASE (c \in owned \/ c \in cancelledLocation) /\ ~ShuttingDown
    <3>1. PICK kind \in {"launch", "cancelled"} : Enqueue(c, kind)
      BY <1>12, <2>1, Zenon DEF CatchLaunch
    <3>2. launch[c] = "failing" /\ launch' = [launch EXCEPT ![c] = "evicting"]
          /\ UNCHANGED cleanup
      BY <1>12, <2>1 DEF CatchLaunch, deleteVars
    <3>. QED  BY <1>push, <3>1, <3>2 DEF JobKinds, Settled, TypeOK
  <2>2. CASE ~((c \in owned \/ c \in cancelledLocation) /\ ~ShuttingDown)
    BY <1>12, <2>2, <1>8 DEF CatchLaunch, deleteVars, Settled, TypeOK
  <2>. QED  BY <2>1, <2>2
<1>13. ASSUME NEW c \in Calls, CleanupEvicts(c)
       PROVE  JobsOK'
  <2>1. cleanup[c] = "settling" /\ launch[c] \in Settled /\ UNCHANGED launch
    BY <1>13 DEF CleanupEvicts, Settlement
  <2>2. CASE c \in owned
    <3>1. Enqueue(c, "cleanup") /\ cleanup' = [cleanup EXCEPT ![c] = "evicting"]
      BY <1>13, <2>2 DEF CleanupEvicts
    <3>. QED  BY <1>push, <2>1, <3>1 DEF JobKinds, Settled, TypeOK
  <2>3. CASE c \notin owned
    BY <1>13, <1>keep, <2>1, <2>3 DEF CleanupEvicts, TypeOK
  <2>. QED  BY <2>2, <2>3
<1>14. CASE EvictionStep
  <2>1. CASE StartEviction
    BY <2>1, <1>same DEF StartEviction, deleteVars
  <2>2. CASE SkipEviction \/ EvictionSucceeds \/ EvictionFails
    BY <2>2, <1>pop DEF SkipEviction, EvictionSucceeds, EvictionFails,
       EvictionIsExclusive
  <2>. QED  BY <1>14, <2>1, <2>2 DEF EvictionStep
<1>. QED
  BY <1>1, <1>2, <1>3, <1>4, <1>5, <1>6, <1>7, <1>9, <1>10, <1>11, <1>12, <1>13,
     <1>14 DEF Next, ClientStep, LaunchStep

-----------------------------------------------------------------------------

\* The workspace of a queued job is not live: it is aborted or was not published.
LEMMA JobIsNotLive ==
  ASSUME TypeOK, LaunchOK, AbortOK, JobsOK, evictions # <<>>
  PROVE  Head(evictions).ws \in Calls /\ Head(evictions).ws \notin Live
<1>1. Head(evictions) = evictions[1] /\ 1 \in 1..Len(evictions)
  BY PopJob DEF TypeOK
<1>2. Head(evictions).ws \in Calls
  BY <1>1, JobTypes
<1>3. CASE Head(evictions).kind = "cleanup"
  BY <1>1, <1>2, <1>3 DEF JobsOK, AbortOK, Live
<1>4. CASE Head(evictions).kind # "cleanup"
  BY <1>1, <1>2, <1>4 DEF JobsOK, LaunchOK, Live
<1>. QED  BY <1>2, <1>3, <1>4

\* A workspace becomes live in one way only, when its validation succeeds.
LEMMA LiveShrinks ==
  ASSUME TypeOK, LaunchOK, [Next]_vars
  PROVE  /\ UNCHANGED dir
         /\ \/ Live' \subseteq Live
            \/ \E c \in Calls : \E located, headers \in BOOLEAN :
                 /\ ValidationSettles(c, located, headers)
                 /\ LaunchSucceeds(c, located, headers)
                 /\ Live' \subseteq Live \cup {c}
<1>1. ASSUME UNCHANGED published, aborted \subseteq aborted',
             records' \subseteq records
      PROVE  Live' \subseteq Live
  BY <1>1 DEF Live
<1>2. ASSUME NEW c \in Calls, Reserve(c)
      PROVE  UNCHANGED dir /\ Live' \subseteq Live
  <2>1. c \notin published
    BY <1>2 DEF Reserve, LaunchOK
  <2>. QED  BY <1>2, <2>1 DEF Reserve, Live
<1>3. ASSUME NEW c \in Calls, NEW located \in BOOLEAN, NEW headers \in BOOLEAN,
             ValidationSettles(c, located, headers)
      PROVE  UNCHANGED dir /\ (\/ Live' \subseteq Live
                               \/ /\ LaunchSucceeds(c, located, headers)
                                  /\ Live' \subseteq Live \cup {c})
  BY <1>3 DEF ValidationSettles, Live
<1>4. ASSUME NEW ok \in BOOLEAN, NEW job \in Jobs, EvictionReturns(job, ok)
      PROVE  UNCHANGED published /\ records' \subseteq records
  BY <1>4 DEF EvictionReturns, RemoveRecords, recordVars
<1>5. ASSUME EvictionStep
      PROVE  UNCHANGED <<dir, published, aborted>> /\ records' \subseteq records
  <2>1. CASE StartEviction
    BY <2>1 DEF StartEviction, callVars, recordVars
  <2>2. CASE SkipEviction \/ EvictionSucceeds \/ EvictionFails
    BY <2>2 DEF SkipEviction, EvictionSucceeds, EvictionFails, EvictionReturns,
       RemoveRecords, callVars, recordVars
  <2>. QED  BY <1>5, <2>1, <2>2 DEF EvictionStep
<1>6. ASSUME ClientStep
      PROVE  UNCHANGED <<dir, published>> /\ aborted \subseteq aborted'
             /\ records' \subseteq records
  BY <1>6 DEF ClientStep, BeginCreate, RejectDuplicate, Delete, DeleteRecords,
     ReleaseCreationRequest, CancelCreationRequest, ReserveWorktreeDeletion,
     ReleaseWorktreeDeletion, BeginShutdown, callVars, recordVars
<1>7. ASSUME NEW c \in Calls, \/ RefuseCreate(c) \/ LaunchTimesOut(c) \/ CreateRejects(c)
                              \/ SetupSettles(c) \/ EnterLocation(c) \/ CatchLaunch(c)
                              \/ FailLaunch(c) \/ CleanupEvicts(c) \/ DeleteTimesOut(c) \/ DaemonLoads(c)
      PROVE  UNCHANGED <<dir, published>> /\ aborted \subseteq aborted'
             /\ records' \subseteq records
  BY <1>7 DEF RefuseCreate, LaunchTimesOut, CreateRejects, SetupSettles,
     EnterLocation, CatchLaunch, FailLaunch, CleanupEvicts, DeleteTimesOut, DaemonLoads,
     RemoveRecords, callVars, recordVars
<1>8. ASSUME NEW result \in {"stopped", "failed"}, FinishShutdown(result)
      PROVE  UNCHANGED <<dir, published, aborted>> /\ records' \subseteq records
  BY <1>8 DEF FinishShutdown, RemoveRecords
<1>9. ASSUME UNCHANGED vars
      PROVE  UNCHANGED <<dir, published, aborted, records>>
  BY <1>9 DEF vars, callVars, recordVars
<1>. QED
  BY <1>1, <1>2, <1>3, <1>5, <1>6, <1>7, <1>8, <1>9 DEF Next, LaunchStep

\* A location leaves, and is disowned by, records that are not live only.
LEMMA OwnershipShrinks ==
  ASSUME TypeOK, LaunchOK, AbortOK, JobsOK, EvictionIsExclusive, LiveWorkspaceIsHeld,
         [Next]_vars
  PROVE  \A c \in Live : c \in owned' /\ dir[c] \in held'
<1>. SUFFICES ASSUME NEW c \in Live
              PROVE  c \in owned' /\ dir[c] \in held'
  OBVIOUS
<1>1. c \in owned /\ dir[c] \in held /\ c \in Calls
  BY DEF LiveWorkspaceIsHeld, Live, TypeOK
<1>2. CASE UNCHANGED ownerVars
  BY <1>1, <1>2 DEF ownerVars
<1>3. ASSUME NEW o \in Calls, NEW located \in BOOLEAN, NEW headers \in BOOLEAN,
             ValidationSettles(o, located, headers)
      PROVE  c \in owned' /\ dir[c] \in held'
  BY <1>1, <1>3 DEF ValidationSettles
<1>4. CASE SkipEviction
  <2>1. Head(evictions).ws # c
    BY <1>4, JobIsNotLive DEF SkipEviction
  <2>. QED  BY <1>1, <1>4, <2>1 DEF SkipEviction
<1>5. CASE EvictionSucceeds \/ EvictionFails
  <2>1. dir[Head(evictions).ws] # dir[c]
    BY <1>5 DEF EvictionSucceeds, EvictionFails, EvictionIsExclusive
  <2>. QED  BY <1>1, <1>5, <2>1 DEF EvictionSucceeds, EvictionFails
<1>6. ASSUME NEW o \in Calls, DaemonLoads(o)
      PROVE  c \in owned' /\ dir[c] \in held'
  BY <1>1, <1>6 DEF DaemonLoads
<1>. QED
  BY <1>2, <1>3, <1>4, <1>5, <1>6 DEF Next, ClientStep, LaunchStep, EvictionStep, vars,
     BeginCreate, RejectDuplicate, Delete, ReleaseCreationRequest,
     CancelCreationRequest, ReserveWorktreeDeletion, ReleaseWorktreeDeletion,
     BeginShutdown, Reserve, RefuseCreate, LaunchTimesOut, CreateRejects,
     SetupSettles, EnterLocation, CatchLaunch, FailLaunch, CleanupEvicts,
     DeleteTimesOut, StartEviction, FinishShutdown

LEMMA LiveStep ==
  ASSUME TypeOK, LaunchOK, AbortOK, JobsOK, EvictionIsExclusive, LiveWorkspaceIsHeld,
         [Next]_vars
  PROVE  LiveWorkspaceIsHeld'
<1>1. ASSUME Live' \subseteq Live, UNCHANGED dir
      PROVE  LiveWorkspaceIsHeld'
  BY <1>1, OwnershipShrinks DEF LiveWorkspaceIsHeld
<1>2. ASSUME NEW c \in Calls, NEW located \in BOOLEAN, NEW headers \in BOOLEAN,
             ValidationSettles(c, located, headers),
             LaunchSucceeds(c, located, headers),
             Live' \subseteq Live \cup {c}, UNCHANGED dir
      PROVE  LiveWorkspaceIsHeld'
  <2>1. c \in owned' /\ dir[c] \in held'
    BY <1>2 DEF ValidationSettles, LaunchSucceeds
  <2>. QED  BY <1>2, <2>1, OwnershipShrinks DEF LiveWorkspaceIsHeld
<1>. QED  BY <1>1, <1>2, LiveShrinks

\* An eviction in flight keeps validations out, and starts on a location nobody
\* live shares.
LEMMA ExclusiveStep ==
  ASSUME TypeOK, LaunchOK, AbortOK, JobsOK, EvictionIsExclusive, LiveWorkspaceIsHeld,
         [Next]_vars
  PROVE  EvictionIsExclusive'
<1>keep. ASSUME evicting, Live' \subseteq Live, UNCHANGED dir,
                evictions' # <<>>, Head(evictions') = Head(evictions),
                \A c \in Calls : launch'[c] = "validating" => launch[c] = "validating"
         PROVE  EvictionIsExclusive'
  BY <1>keep DEF EvictionIsExclusive
<1>1. CASE StartEviction
  <2>1. /\ evictions # <<>> /\ UNCHANGED <<evictions, launch, dir, records, published, aborted>>
        /\ \A c \in Calls : launch[c] # "validating"
        /\ ~Shared(Head(evictions).ws)
    BY <1>1 DEF StartEviction, ActiveLocationCreations, MustEvict, callVars, recordVars
  <2>2. \A c \in Live : c \in records /\ c \in owned /\ c \notin aborted
                        /\ c # Head(evictions).ws
    BY <2>1, JobIsNotLive DEF LiveWorkspaceIsHeld, Live
  <2>3. \A c \in Live : dir[c] # dir[Head(evictions).ws]
    BY <2>1, <2>2 DEF Shared
  <2>. QED  BY <2>1, <2>3 DEF EvictionIsExclusive, Live
<1>2. CASE ~evicting'
  BY <1>2 DEF EvictionIsExclusive
<1>3. CASE evicting' /\ ~StartEviction
  <2>1. evicting /\ ~EvictionStep
    BY <1>3, ZenonT(40) DEF Next, ClientStep, LaunchStep, EvictionStep, vars, queueVars,
       SkipEviction, EvictionSucceeds, EvictionFails,
       BeginCreate, RejectDuplicate, Delete, ReleaseCreationRequest,
       CancelCreationRequest, ReserveWorktreeDeletion, ReleaseWorktreeDeletion,
       BeginShutdown, Reserve, RefuseCreate, LaunchTimesOut, CreateRejects,
       SetupSettles, EnterLocation, CatchLaunch, FailLaunch, CleanupEvicts,
       DeleteTimesOut, DaemonLoads, ValidationSettles, FinishShutdown
  <2>2. evictions # <<>> /\ \A c \in Calls : launch[c] # "validating"
    BY <2>1 DEF EvictionIsExclusive
  <2>3. UNCHANGED evictions \/ \E e \in Jobs : evictions' = Append(evictions, e)
    <3>1. ASSUME NEW c \in Calls, NEW kind \in JobKinds, Enqueue(c, kind)
          PROVE  \E e \in Jobs : evictions' = Append(evictions, e)
      <4>1. [ws |-> c, kind |-> kind] \in Jobs
        BY DEF Jobs
      <4>. QED  BY <3>1, <4>1 DEF Enqueue
    <3>2. ASSUME NEW c \in Calls, CatchLaunch(c)
          PROVE  UNCHANGED evictions \/ \E kind \in JobKinds : Enqueue(c, kind)
      BY <3>2, Zenon DEF CatchLaunch, JobKinds
    <3>3. ASSUME NEW c \in Calls, CleanupEvicts(c)
          PROVE  UNCHANGED evictions \/ \E kind \in JobKinds : Enqueue(c, kind)
      BY <3>3, Zenon DEF CleanupEvicts, JobKinds
    <3>. QED
      BY <2>1, <3>1, <3>2, <3>3, ZenonT(40) DEF Next, ClientStep, LaunchStep, vars, queueVars,
         BeginCreate, RejectDuplicate, Delete, ReleaseCreationRequest,
         CancelCreationRequest, ReserveWorktreeDeletion, ReleaseWorktreeDeletion,
         BeginShutdown, Reserve, RefuseCreate, LaunchTimesOut, CreateRejects,
         SetupSettles, EnterLocation, FailLaunch, DeleteTimesOut, DaemonLoads,
         ValidationSettles, FinishShutdown
  <2>4. evictions' # <<>> /\ Head(evictions') = Head(evictions)
    <3>1. evictions \in Seq(Jobs)
      BY DEF TypeOK
    <3>2. CASE UNCHANGED evictions
      BY <2>2, <3>2
    <3>3. ASSUME NEW e \in Jobs, evictions' = Append(evictions, e)
          PROVE  evictions' # <<>> /\ Head(evictions') = Head(evictions)
      <4>1. /\ evictions # <<>> => Head(Append(evictions, e)) = Head(evictions)
            /\ Append(evictions, e) # <<>>
        BY <3>1, <3>3, AppendJob, Zenon
      <4>. QED  BY <2>2, <3>3, <4>1, Zenon
    <3>. QED  BY <2>3, <3>2, <3>3
  <2>5. \A c \in Calls : launch'[c] # "validating"
    <3>1. launch \in [Calls -> {"none"} \cup Running \cup Settled]
      BY DEF TypeOK
    <3>2. ASSUME NEW c \in Calls, Reserve(c)
          PROVE  \A o \in Calls : launch'[o] # "validating"
      BY <2>2, <3>1, <3>2 DEF Reserve
    <3>3. ASSUME NEW c \in Calls, SetupSettles(c)
          PROVE  \A o \in Calls : launch'[o] # "validating"
      BY <2>2, <3>1, <3>3 DEF SetupSettles
    <3>4. ASSUME NEW c \in Calls, CatchLaunch(c)
          PROVE  \A o \in Calls : launch'[o] # "validating"
      BY <2>2, <3>1, <3>4 DEF CatchLaunch
    <3>5. ASSUME NEW c \in Calls, FailLaunch(c)
          PROVE  \A o \in Calls : launch'[o] # "validating"
      BY <2>2, <3>1, <3>5 DEF FailLaunch
    <3>6. ASSUME NEW c \in Calls, NEW located \in BOOLEAN, NEW headers \in BOOLEAN
          PROVE  ~ValidationSettles(c, located, headers) /\ ~EnterLocation(c)
      BY <2>2 DEF ValidationSettles, EnterLocation
    <3>7. \/ UNCHANGED launch
          \/ \E c \in Calls : Reserve(c) \/ SetupSettles(c) \/ CatchLaunch(c)
                               \/ FailLaunch(c)
      BY <2>1, <3>6 DEF Next, ClientStep, LaunchStep, vars, BeginCreate,
         RejectDuplicate, Delete, ReleaseCreationRequest, CancelCreationRequest,
         ReserveWorktreeDeletion, ReleaseWorktreeDeletion, BeginShutdown,
         RefuseCreate, LaunchTimesOut, CreateRejects, CleanupEvicts,
         DeleteTimesOut, DaemonLoads, FinishShutdown
    <3>. QED  BY <2>2, <3>2, <3>3, <3>4, <3>5, <3>7
  <2>6. Live' \subseteq Live /\ UNCHANGED dir
    BY <2>2, LiveShrinks DEF ValidationSettles
  <2>. QED  BY <1>keep, <2>1, <2>4, <2>5, <2>6
<1>. QED  BY <1>1, <1>2, <1>3

-----------------------------------------------------------------------------

\* IInv holds at the start and every step keeps it.
THEOREM Inductive == Spec => []IInv
<1>1. Init => IInv
  <2>. SUFFICES ASSUME Init PROVE IInv
    OBVIOUS
  <2>. USE DEF Init
  <2>1. TypeOK
    <3>1. <<>> \in Seq(Jobs)
      OBVIOUS
    <3>. QED  BY <3>1 DEF TypeOK, CallStates
  <2>2. CountOK
    <3>1. Unsettled = {}
      BY DEF Unsettled, Running
    <3>. QED  BY <3>1, BoundAssumption, FS_EmptySet DEF CountOK
  <2>3. LaunchOK /\ AbortOK /\ JobsOK
    BY DEF LaunchOK, AbortOK, JobsOK, Running, ShuttingDown
  <2>4. EvictionIsExclusive /\ LiveWorkspaceIsHeld
    BY DEF EvictionIsExclusive, LiveWorkspaceIsHeld, Live
  <2>. QED  BY <2>1, <2>2, <2>3, <2>4 DEF IInv
<1>2. IInv /\ [Next]_vars => IInv'
  BY TypeStep, CountStep, LaunchOKStep, AbortOKStep, JobsOKStep, ExclusiveStep,
     LiveStep DEF IInv
<1>. QED  BY <1>1, <1>2, PTL DEF Spec

\* Every variable keeps its type.
THEOREM TypeCorrect == Spec => []TypeOK
  BY Inductive, PTL DEF IInv

\* However many workspaces share however many directories, none that is open
\* ever loses the location the daemon holds for it.
THEOREM LiveWorkspacesStayHeld == Spec => []LiveWorkspaceIsHeld
  BY Inductive, PTL DEF IInv

\* An eviction in flight excludes validations and live users of its directory.
THEOREM EvictionsAreExclusive == Spec => []EvictionIsExclusive
  BY Inductive, PTL DEF IInv

\* The number of launches in progress never exceeds the cap, whatever its value,
\* and activeWorkspaceCreations is that number.
THEOREM ActiveIsExact == Spec => []ActiveCountsUnsettled
<1>1. IInv => ActiveCountsUnsettled
  BY DEF IInv, CountOK, ActiveCountsUnsettled
<1>. QED  BY <1>1, Inductive, PTL

\* Nothing is published for a launch that was aborted, nor once a shutdown began.
THEOREM PublishedWhileWanted == Spec => PublishedOnlyWhileWanted
<1>1. IInv /\ [Next]_vars =>
        [\A c \in published' \ published :
           c \in records /\ c \notin aborted /\ ~ShuttingDown]_vars
  <2>. SUFFICES ASSUME IInv, [Next]_vars, NEW c \in published' \ published
                PROVE  c \in records /\ c \notin aborted /\ ~ShuttingDown
    OBVIOUS
  <2>1. \/ UNCHANGED published
        \/ \E o \in Calls : \E located, headers \in BOOLEAN :
             ValidationSettles(o, located, headers)
    BY DEF Next, ClientStep, LaunchStep, EvictionStep, vars, recordVars,
       SkipEviction, EvictionSucceeds, EvictionFails, StartEviction, EvictionReturns,
       RemoveRecords, BeginCreate, RejectDuplicate, Delete, ReleaseCreationRequest,
       CancelCreationRequest, ReserveWorktreeDeletion, ReleaseWorktreeDeletion,
       BeginShutdown, Reserve, RefuseCreate, LaunchTimesOut, CreateRejects,
       SetupSettles, EnterLocation, CatchLaunch, FailLaunch, CleanupEvicts,
       DeleteTimesOut, DaemonLoads, FinishShutdown
  <2>2. c \notin aborted /\ launch[c] = "validating"
    <3>1. PICK o \in Calls, located \in BOOLEAN, headers \in BOOLEAN :
            ValidationSettles(o, located, headers)
      BY <2>1
    <3>2. LaunchSucceeds(o, located, headers) /\ c = o
      BY <3>1 DEF ValidationSettles
    <3>. QED  BY <3>1, <3>2 DEF ValidationSettles, LaunchSucceeds
  <2>3. c \in Calls
    BY <2>1 DEF ValidationSettles, IInv, TypeOK
  <2>4. c \in records
    BY <2>2, <2>3 DEF IInv, LaunchOK, Running
  <2>. QED  BY <2>2, <2>4 DEF IInv, AbortOK
<1>. QED  BY <1>1, Inductive, PTL DEF Spec, PublishedOnlyWhileWanted
-----------------------------------------------------------------------------
(* The requestIds: what makes a cancellation hit its call, and no other. *)

\* How far the call, its launch and its claim on the requestId go together.
ClaimOK ==
  \A c \in Calls :
    /\ launch[c] \in Running => call[c] = "launching" \/ c \in aborted
    /\ call[c] = "launching" =>
         launch[c] \notin {"none", "ready"} /\ (req[c] = NoRequest \/ claim[c] # "none")
    /\ c \in aborted \cup retained => launch[c] # "none"
    /\ c \in retained => claim[c] \in {"none", "released"}
    /\ c \in aborted /\ launch[c] = "ready" =>
         c \in deleteSeen \/ ShuttingDown \/ claim[c] = "cancelled"

\* The requestId of an unfinished call is pending.
PendingOK ==
  ~ShuttingDown => \A c \in Calls :
    call[c] \in {"resolving", "launching"} => req[c] \in pending \cup {NoRequest}

\* Why a cancelled call fails: its mark, its claim or its launch says so.
CancelOK ==
  \A c \in cancelSeen :
    \/ call[c] = "failed"
    \/ call[c] = "resolving" /\ (req[c] \in cancelled \/ ShuttingDown)
    \/ call[c] = "launching" /\ (claim[c] = "cancelled" \/ c \in aborted \/ launch[c] = "failed")

\* What a call needs to be counted among the users of its requestId.
Uses(c) ==
  call[c] \in {"resolving", "launching"} \/ (c \in records /\ claim[c] # "none")

RequestInv ==
  ClaimOK /\ PendingOK /\ CancelOK /\ CancellationHitsItsCall

\* Every step moves a call, its launch and its claim together.
LEMMA ClaimStep ==
  ASSUME IInv, ClaimOK, [Next]_vars
  PROVE  ClaimOK'
<1> USE DEF IInv
<1>same. ASSUME UNCHANGED <<call, launch, req, claim, retained, aborted, deleteSeen, shutdown>>
         PROVE  ClaimOK'
  BY <1>same DEF ClaimOK, ShuttingDown
<1>1. CASE UNCHANGED vars
  BY <1>1, <1>same DEF vars, callVars, claimVars, seenVars
<1>2. ASSUME NEW c \in Calls, \/ BeginCreate(c) \/ RejectDuplicate(c)
                              \/ RefuseCreate(c) \/ CreateRejects(c)
      PROVE  ClaimOK'
  <2>1. /\ UNCHANGED <<launch, req, claim, retained, aborted, deleteSeen, shutdown>>
        /\ \E to \in {"resolving", "failed"} : call' = [call EXCEPT ![c] = to]
        /\ call[c] = "launching" => launch[c] = "failed" \/ c \in aborted
        /\ call[c] \in {"unused", "resolving", "launching"}
    BY <1>2 DEF BeginCreate, RejectDuplicate, RefuseCreate, CreateRejects,
       claimVars, seenVars
  <2>2. call[c] \in {"unused", "resolving"} => launch[c] = "none"
    BY DEF LaunchOK
  <2>. QED  BY <2>1, <2>2 DEF ClaimOK, TypeOK, ShuttingDown, Running
<1>3. ASSUME NEW c \in Calls, Delete(c)
      PROVE  ClaimOK'
  <2>1. /\ UNCHANGED <<call, launch, req, claim, retained, shutdown>>
        /\ aborted' = aborted \cup {c} /\ deleteSeen' = deleteSeen \cup {c}
    BY <1>3 DEF Delete, DeleteRecords, callVars, claimVars
  <2>2. launch[c] # "none"
    BY <1>3 DEF Delete, LaunchOK
  <2>. QED  BY <2>1, <2>2 DEF ClaimOK, ShuttingDown
<1>4. ASSUME NEW c \in Calls, ReleaseCreationRequest(c)
      PROVE  ClaimOK'
  <2>1. /\ UNCHANGED <<call, launch, req, aborted, deleteSeen, shutdown>>
        /\ claim[c] = "owner" /\ claim' = [claim EXCEPT ![c] = "released"]
        /\ retained' = retained \cup {c} /\ c \in records
    BY <1>4 DEF ReleaseCreationRequest, callVars, seenVars
  <2>2. launch[c] # "none"
    BY <2>1 DEF LaunchOK
  <2>. QED  BY <2>1, <2>2 DEF ClaimOK, TypeOK, ShuttingDown
<1>5. ASSUME NEW r \in Requests, CancelCreationRequest(r)
      PROVE  ClaimOK'
  <2>1. /\ UNCHANGED <<call, launch, req, retained, deleteSeen, shutdown>>
        /\ claim' = [c \in Calls |-> IF c \in Victims(r) THEN "cancelled" ELSE claim[c]]
        /\ aborted' = aborted \cup Doomed(r)
    BY <1>5 DEF CancelCreationRequest, DeleteRecords
  <2>2. \A c \in Victims(r) : c \in records /\ claim[c] \notin {"none", "released"}
    BY DEF Victims, Claimed
  <2>3. \A c \in Doomed(r) : c \in Victims(r)
    BY DEF Doomed
  <2>4. \A c \in Calls : c \in Victims(r) => launch[c] # "none" /\ c \notin retained
    BY <2>2 DEF LaunchOK, ClaimOK
  <2>. QED  BY <2>1, <2>2, <2>3, <2>4 DEF ClaimOK, ShuttingDown
<1>6. ASSUME NEW d \in Directories,
             ReserveWorktreeDeletion(d) \/ ReleaseWorktreeDeletion(d)
      PROVE  ClaimOK'
  BY <1>6, <1>same DEF ReserveWorktreeDeletion, ReleaseWorktreeDeletion, callVars,
     claimVars, seenVars
<1>7. CASE BeginShutdown
  <2>1. /\ UNCHANGED <<call, launch, req, claim, retained, deleteSeen>>
        /\ aborted' = aborted \cup records /\ shutdown' = "stopping"
    BY <1>7 DEF BeginShutdown, callVars, claimVars, seenVars
  <2>. QED  BY <2>1 DEF ClaimOK, LaunchOK, ShuttingDown
<1>8. ASSUME NEW result \in {"stopped", "failed"}, FinishShutdown(result)
      PROVE  ClaimOK'
  BY <1>8 DEF FinishShutdown, claimVars, seenVars, ClaimOK, ShuttingDown
<1>9. ASSUME NEW c \in Calls, Reserve(c)
      PROVE  ClaimOK'
  <2>1. /\ UNCHANGED <<req, aborted, deleteSeen, shutdown>>
        /\ call' = [call EXCEPT ![c] = "launching"]
        /\ launch' = [launch EXCEPT ![c] = "setup"]
        /\ claim' = [claim EXCEPT ![c] = IF req[c] = NoRequest THEN "none" ELSE "owner"]
        /\ retained' = IF req[c] = NoRequest THEN retained \cup {c} ELSE retained
        /\ call[c] = "resolving"
    BY <1>9 DEF Reserve, seenVars
  <2>2. launch[c] = "none"
    BY <2>1 DEF LaunchOK
  <2>3. c \notin aborted /\ c \notin retained
    BY <2>2 DEF ClaimOK
  <2>4. \A o \in Calls \ {c} :
          /\ call'[o] = call[o] /\ launch'[o] = launch[o] /\ claim'[o] = claim[o]
          /\ o \in retained' <=> o \in retained
    BY <2>1 DEF TypeOK
  <2>5. /\ call'[c] = "launching" /\ launch'[c] = "setup"
        /\ claim'[c] = IF req[c] = NoRequest THEN "none" ELSE "owner"
        /\ c \in retained' => req[c] = NoRequest
    BY <2>1, <2>3 DEF TypeOK
  <2>. QED  BY <2>1, <2>3, <2>4, <2>5 DEF ClaimOK, ShuttingDown
<1>10. ASSUME NEW c \in Calls, LaunchTimesOut(c)
       PROVE  ClaimOK'
  <2>1. /\ UNCHANGED <<call, launch, req, claim, retained, deleteSeen, shutdown>>
        /\ aborted' = aborted \cup {c} /\ call[c] = "launching"
    BY <1>10 DEF LaunchTimesOut, callVars, claimVars, seenVars
  <2>. QED  BY <2>1 DEF ClaimOK, ShuttingDown
<1>launch. ASSUME NEW c \in Calls, launch[c] \in Running,
                  NEW to \in Running \cup {"failed"},
                  launch' = [launch EXCEPT ![c] = to],
                  UNCHANGED <<call, req, claim, retained, aborted, deleteSeen, shutdown>>
           PROVE  ClaimOK'
  BY <1>launch DEF ClaimOK, TypeOK, ShuttingDown, Running
<1>11. ASSUME NEW c \in Calls, \/ SetupSettles(c) \/ EnterLocation(c) \/ CatchLaunch(c)
                               \/ FailLaunch(c)
       PROVE  ClaimOK'
  <2>1. /\ launch[c] \in Running
        /\ UNCHANGED <<call, req, claim, retained, aborted, deleteSeen, shutdown>>
        /\ \E to \in Running \cup {"failed"} : launch' = [launch EXCEPT ![c] = to]
    BY <1>11 DEF SetupSettles, EnterLocation, CatchLaunch, FailLaunch, Running,
       callVars, claimVars, seenVars
  <2>. QED  BY <2>1, <1>launch
<1>12. ASSUME NEW c \in Calls, NEW located \in BOOLEAN, NEW headers \in BOOLEAN,
              ValidationSettles(c, located, headers)
       PROVE  ClaimOK'
  <2>1. /\ launch[c] \in Running
        /\ UNCHANGED <<req, claim, retained, aborted, deleteSeen, shutdown>>
    BY <1>12 DEF ValidationSettles, Running, claimVars, seenVars
  <2>2. CASE LaunchSucceeds(c, located, headers)
    <3>1. /\ launch' = [launch EXCEPT ![c] = "ready"] /\ c \notin aborted
          /\ \E to \in {"failed", "created"} : call' = [call EXCEPT ![c] = to]
      BY <1>12, <2>2 DEF ValidationSettles, LaunchSucceeds, FinishCreation
    <3>. QED  BY <2>1, <3>1 DEF ClaimOK, TypeOK, ShuttingDown, Running
  <2>3. CASE ~LaunchSucceeds(c, located, headers)
    <3>1. launch' = [launch EXCEPT ![c] = "failing"] /\ UNCHANGED call
      BY <1>12, <2>3 DEF ValidationSettles
    <3>. QED  BY <2>1, <3>1, <1>launch DEF Running
  <2>. QED  BY <2>2, <2>3
<1>13. ASSUME NEW c \in Calls, CleanupEvicts(c) \/ DeleteTimesOut(c) \/ DaemonLoads(c)
       PROVE  ClaimOK'
  BY <1>13, <1>same DEF CleanupEvicts, DeleteTimesOut, DaemonLoads, callVars, claimVars, seenVars
<1>14. CASE StartEviction
  BY <1>14, <1>same DEF StartEviction, callVars, claimVars, seenVars
<1>15. CASE SkipEviction \/ EvictionSucceeds \/ EvictionFails
  <2> DEFINE job == Head(evictions)
  <2>1. /\ UNCHANGED <<call, req, claim, retained, aborted, deleteSeen, shutdown>>
        /\ evictions # <<>>
        /\ UNCHANGED launch \/ (/\ job.kind # "cleanup"
                                /\ launch' = [launch EXCEPT ![job.ws] = "unwinding"])
    BY <1>15 DEF SkipEviction, EvictionSucceeds, EvictionFails, EvictionReturns,
       EvictionIsExclusive, callVars, claimVars, seenVars
  <2>2. job.kind # "cleanup" => launch[job.ws] = "evicting" /\ job.ws \in Calls
    <3>1. Head(evictions) = evictions[1] /\ 1 \in 1..Len(evictions)
      BY <2>1, PopJob DEF TypeOK
    <3>2. evictions[1].ws \in Calls
      BY <3>1, JobTypes
    <3>. QED  BY <3>1, <3>2 DEF JobsOK
  <2> HIDE DEF job
  <2>. QED  BY <2>1, <2>2, <1>same, <1>launch DEF Running
<1>. QED
  BY <1>1, <1>2, <1>3, <1>4, <1>5, <1>6, <1>7, <1>8, <1>9, <1>10, <1>11, <1>12,
     <1>13, <1>14, <1>15 DEF Next, ClientStep, LaunchStep, EvictionStep

\* How a step moves the unfinished calls, the users of a requestId, and the two
\* sets of requestIds.
Moved ==
  /\ UNCHANGED req
  /\ ShuttingDown => ShuttingDown'
  /\ \A c \in Calls :
       /\ Uses(c)' => Uses(c) \/ BeginCreate(c)
       /\ call'[c] \in {"resolving", "launching"} =>
            call[c] \in {"resolving", "launching"} \/ BeginCreate(c)
  /\ \/ ShuttingDown' /\ pending' = {} /\ cancelled' = {}
     \/ /\ pending \subseteq pending' /\ cancelled \subseteq cancelled'
        /\ cancelled' \subseteq cancelled \cup pending'
     \/ \E o \in Calls : /\ call[o] \in {"resolving", "launching"}
                         /\ FinishRequest(o)
                         /\ call'[o] \in {"failed", "created"}

LEMMA RequestsMove ==
  ASSUME IInv, ClaimOK, [Next]_vars
  PROVE  Moved
<1> USE DEF IInv, Moved
<1>same. ASSUME UNCHANGED <<callVars, claim>>, records' \subseteq records,
                shutdown' = shutdown \/ shutdown' = "stopping"
         PROVE  Moved
  BY <1>same DEF callVars, Uses, ShuttingDown
<1>1. CASE UNCHANGED vars
  BY <1>1, <1>same DEF vars, claimVars, recordVars
<1>2. ASSUME NEW c \in Calls, BeginCreate(c)
      PROVE  Moved
  <2>1. /\ UNCHANGED <<req, cancelled, records, claim, shutdown>>
        /\ call' = [call EXCEPT ![c] = "resolving"] /\ pending \subseteq pending'
    BY <1>2 DEF BeginCreate, recordVars, claimVars
  <2>2. \A o \in Calls \ {c} : call'[o] = call[o]
    BY <2>1 DEF TypeOK
  <2>. QED  BY <1>2, <2>1, <2>2 DEF Uses, ShuttingDown
<1>3. ASSUME NEW c \in Calls, RejectDuplicate(c)
      PROVE  Moved
  BY <1>3 DEF RejectDuplicate, recordVars, claimVars, Uses, ShuttingDown, TypeOK
<1>4. ASSUME NEW c \in Calls, RefuseCreate(c) \/ CreateRejects(c)
      PROVE  Moved
  <2>1. /\ UNCHANGED <<req, records, claim, shutdown>> /\ FinishRequest(c)
        /\ call' = [call EXCEPT ![c] = "failed"]
        /\ call[c] \in {"resolving", "launching"}
    BY <1>4 DEF RefuseCreate, CreateRejects, recordVars, claimVars
  <2>2. \A o \in Calls : call'[o] = IF o = c THEN "failed" ELSE call[o]
    BY <2>1 DEF TypeOK
  <2>. QED  BY <2>1, <2>2 DEF Uses, ShuttingDown
<1>5. ASSUME NEW c \in Calls, Delete(c)
      PROVE  Moved
  BY <1>5, <1>same DEF Delete, claimVars, recordVars
<1>6. ASSUME NEW c \in Calls, ReleaseCreationRequest(c)
      PROVE  Moved
  <2>1. /\ UNCHANGED <<callVars, records, shutdown>>
        /\ claim[c] = "owner" /\ claim' = [claim EXCEPT ![c] = "released"]
    BY <1>6 DEF ReleaseCreationRequest, recordVars
  <2>2. \A o \in Calls : claim'[o] # "none" => claim[o] # "none"
    BY <2>1 DEF TypeOK
  <2>. QED  BY <2>1, <2>2 DEF Uses, ShuttingDown, callVars
<1>7. ASSUME NEW r \in Requests, CancelCreationRequest(r)
      PROVE  Moved
  <2>1. /\ UNCHANGED <<call, req, pending, records, shutdown>>
        /\ claim' = [c \in Calls |-> IF c \in Victims(r) THEN "cancelled" ELSE claim[c]]
    BY <1>7 DEF CancelCreationRequest, recordVars
  <2>2. cancelled \subseteq cancelled' /\ cancelled' \subseteq cancelled \cup pending
    BY <1>7 DEF CancelCreationRequest, MarkCancelled
  <2>3. \A c \in Victims(r) : claim[c] # "none"
    BY DEF Victims, Claimed
  <2>4. \A c \in Calls : claim'[c] # "none" => claim[c] # "none"
    BY <2>1, <2>3
  <2>. QED  BY <2>1, <2>2, <2>4 DEF Uses, ShuttingDown
<1>8. ASSUME NEW d \in Directories,
             ReserveWorktreeDeletion(d) \/ ReleaseWorktreeDeletion(d)
      PROVE  Moved
  BY <1>8, <1>same DEF ReserveWorktreeDeletion, ReleaseWorktreeDeletion, claimVars, recordVars
<1>9. CASE BeginShutdown
  BY <1>9, <1>same DEF BeginShutdown, claimVars, recordVars
<1>10. ASSUME NEW result \in {"stopped", "failed"}, FinishShutdown(result)
       PROVE  Moved
  BY <1>10 DEF FinishShutdown, RemoveRecords, claimVars, Uses, ShuttingDown
<1>11. ASSUME NEW c \in Calls, Reserve(c)
       PROVE  Moved
  <2>1. /\ UNCHANGED <<req, pending, cancelled, shutdown>> /\ call[c] = "resolving"
        /\ call' = [call EXCEPT ![c] = "launching"] /\ records' = records \cup {c}
        /\ \E to \in {"none", "owner"} : claim' = [claim EXCEPT ![c] = to]
    BY <1>11 DEF Reserve
  <2>2. \A o \in Calls \ {c} : call'[o] = call[o] /\ claim'[o] = claim[o]
    BY <2>1 DEF TypeOK
  <2>. QED  BY <2>1, <2>2 DEF Uses, ShuttingDown
<1>12. ASSUME NEW c \in Calls, \/ LaunchTimesOut(c) \/ SetupSettles(c) \/ EnterLocation(c)
                               \/ CatchLaunch(c) \/ FailLaunch(c) \/ CleanupEvicts(c)
                               \/ DeleteTimesOut(c) \/ DaemonLoads(c)
       PROVE  Moved
  BY <1>12, <1>same DEF LaunchTimesOut, SetupSettles, EnterLocation, CatchLaunch,
     FailLaunch, CleanupEvicts, DeleteTimesOut, DaemonLoads, RemoveRecords, claimVars, recordVars
<1>13. ASSUME NEW c \in Calls, NEW located \in BOOLEAN, NEW headers \in BOOLEAN,
              ValidationSettles(c, located, headers)
       PROVE  Moved
  <2>1. UNCHANGED <<req, records, claim, shutdown>>
    BY <1>13 DEF ValidationSettles, claimVars
  <2>2. CASE LaunchSucceeds(c, located, headers)
    <3>1. /\ launch[c] = "validating" /\ c \notin aborted /\ FinishRequest(c)
          /\ \E to \in {"failed", "created"} : call' = [call EXCEPT ![c] = to]
      BY <1>13, <2>2 DEF ValidationSettles, LaunchSucceeds, FinishCreation
    <3>2. call[c] = "launching"
      BY <3>1 DEF ClaimOK, Running
    <3>3. /\ call'[c] \in {"failed", "created"}
          /\ \A o \in Calls \ {c} : call'[o] = call[o]
      BY <3>1 DEF TypeOK
    <3>. QED  BY <2>1, <3>1, <3>2, <3>3 DEF Uses, ShuttingDown
  <2>3. CASE ~LaunchSucceeds(c, located, headers)
    BY <1>13, <2>3, <2>1, <1>same DEF ValidationSettles, callVars
  <2>. QED  BY <2>2, <2>3
<1>14. CASE EvictionStep
  <2>1. CASE StartEviction
    BY <2>1, <1>same DEF StartEviction, claimVars, recordVars
  <2>2. CASE SkipEviction \/ EvictionSucceeds \/ EvictionFails
    BY <2>2, <1>same DEF SkipEviction, EvictionSucceeds, EvictionFails,
       EvictionReturns, RemoveRecords, claimVars, recordVars
  <2>. QED  BY <1>14, <2>1, <2>2 DEF EvictionStep
<1> HIDE DEF Moved
<1>. QED
  BY <1>1, <1>2, <1>3, <1>4, <1>5, <1>6, <1>7, <1>8, <1>9, <1>10, <1>11, <1>12,
     <1>13, <1>14 DEF Next, ClientStep, LaunchStep

\* A requestId stays pending until its own call ends.
LEMMA PendingStep ==
  ASSUME IInv, RequestInv, [Next]_vars
  PROVE  PendingOK'
<1> USE DEF RequestInv
<1>. SUFFICES ASSUME ~ShuttingDown', NEW c \in Calls,
                     call'[c] \in {"resolving", "launching"}, req[c] # NoRequest
              PROVE  req[c] \in pending'
  BY RequestsMove DEF Moved, PendingOK
<1>1. CASE BeginCreate(c)
  BY <1>1 DEF BeginCreate
<1>2. CASE ~BeginCreate(c)
  <2>1. ~ShuttingDown /\ call[c] \in {"resolving", "launching"} /\ req[c] \in pending
    BY <1>2, RequestsMove DEF Moved, PendingOK
  <2>2. ASSUME NEW o \in Calls, call[o] \in {"resolving", "launching"}, FinishRequest(o),
               call'[o] \in {"failed", "created"}
        PROVE  req[c] \in pending'
    <3>1. o # c
      BY <2>2
    <3>2. req[o] # req[c]
      BY <2>1, <2>2, <3>1 DEF CancellationHitsItsCall
    <3>. QED  BY <2>1, <2>2, <3>2 DEF FinishRequest
  <2>. QED  BY <2>1, <2>2, RequestsMove DEF Moved
<1>. QED  BY <1>1, <1>2

\* A mark lives with its pending requestId, and a requestId with one user.
LEMMA OneUserStep ==
  ASSUME IInv, RequestInv, [Next]_vars
  PROVE  CancellationHitsItsCall'
<1> USE DEF RequestInv
<1>1. (cancelled \subseteq pending)'
  <2>1. cancelled \subseteq pending
    BY DEF CancellationHitsItsCall
  <2>. QED  BY <2>1, RequestsMove DEF Moved, FinishRequest
<1>2. ASSUME ~ShuttingDown', NEW c \in Calls, NEW o \in Calls, c # o,
             Uses(c)', Uses(o)', req[c] = req[o], req[c] # NoRequest
      PROVE  FALSE
  <2>1. ~ShuttingDown
    BY <1>2, RequestsMove DEF Moved
  <2>2. ASSUME NEW x \in Calls, NEW y \in Calls, x # y, BeginCreate(x), Uses(y)',
               req[x] = req[y], req[x] # NoRequest
        PROVE  FALSE
    <3>1. call'[y] = call[y] /\ UNCHANGED <<records, claim>>
      BY <2>2 DEF BeginCreate, recordVars, claimVars, IInv, TypeOK
    <3>2. CASE call[y] \in {"resolving", "launching"}
      <4>1. req[y] \in pending
        BY <2>1, <2>2, <3>2 DEF PendingOK
      <4>. QED  BY <2>2, <4>1 DEF BeginCreate, InUse
    <3>3. CASE y \in records /\ claim[y] # "none"
      BY <2>2, <3>3 DEF BeginCreate, InUse
    <3>. QED  BY <2>2, <3>1, <3>2, <3>3 DEF Uses
  <2>3. ~BeginCreate(c) /\ ~BeginCreate(o)
    BY <1>2, <2>2
  <2>4. Uses(c) /\ Uses(o)
    BY <1>2, <2>3, RequestsMove DEF Moved
  <2>. QED  BY <1>2, <2>1, <2>4 DEF CancellationHitsItsCall, Uses
<1>3. UNCHANGED req
  BY RequestsMove DEF Moved
<1>. QED  BY <1>1, <1>2, <1>3 DEF CancellationHitsItsCall, Uses

\* A call moves forward only, and returns a workspace only when its claim stands.
LEMMA CallMoves ==
  ASSUME IInv, ClaimOK, [Next]_vars, NEW c \in Calls
  PROVE  \/ call'[c] = call[c]
         \/ call[c] = "unused" /\ call'[c] \in {"resolving", "failed"}
         \/ call[c] \in {"resolving", "launching"} /\ call'[c] = "failed"
         \/ Reserve(c)
         \/ /\ call[c] = "launching" /\ call'[c] = "created"
            /\ launch[c] = "validating" /\ claim[c] # "cancelled" /\ c \notin aborted
<1> USE DEF IInv
<1>1. ASSUME NEW o \in Calls, NEW to \in CallStates, call' = [call EXCEPT ![o] = to]
      PROVE  o # c => call'[c] = call[c]
  BY <1>1 DEF TypeOK
<1>2. ASSUME NEW o \in Calls, \/ BeginCreate(o) \/ RejectDuplicate(o) \/ Reserve(o)
                              \/ RefuseCreate(o) \/ CreateRejects(o)
      PROVE  \/ call'[c] = call[c]
             \/ call[c] = "unused" /\ call'[c] \in {"resolving", "failed"}
             \/ call[c] \in {"resolving", "launching"} /\ call'[c] = "failed"
             \/ Reserve(c)
  BY <1>2 DEF BeginCreate, RejectDuplicate, Reserve, RefuseCreate, CreateRejects, TypeOK
<1>3. ASSUME NEW o \in Calls, NEW located \in BOOLEAN, NEW headers \in BOOLEAN,
             ValidationSettles(o, located, headers), call'[c] # call[c]
      PROVE  \/ call[c] \in {"resolving", "launching"} /\ call'[c] = "failed"
             \/ /\ call[c] = "launching" /\ call'[c] = "created"
                /\ launch[c] = "validating" /\ claim[c] # "cancelled" /\ c \notin aborted
  <2>1. LaunchSucceeds(o, located, headers) /\ FinishCreation(o)
    BY <1>3 DEF ValidationSettles
  <2>2. launch[o] = "validating" /\ o \notin aborted
    BY <1>3, <2>1 DEF ValidationSettles, LaunchSucceeds
  <2>3. call[o] = "launching"
    BY <2>2 DEF ClaimOK, Running
  <2>4. o = c
    BY <1>1, <1>3, <2>1 DEF FinishCreation, CallStates
  <2>5. call'[c] = IF claim[c] = "cancelled" \/ req[c] \in cancelled THEN "failed" ELSE "created"
    BY <2>1, <2>4 DEF FinishCreation, TypeOK
  <2>. QED  BY <2>2, <2>3, <2>4, <2>5
<1>4. \/ UNCHANGED call
      \/ \E o \in Calls : \/ BeginCreate(o) \/ RejectDuplicate(o) \/ Reserve(o)
                          \/ RefuseCreate(o) \/ CreateRejects(o)
                          \/ \E located, headers \in BOOLEAN :
                               ValidationSettles(o, located, headers)
  BY DEF Next, ClientStep, LaunchStep, EvictionStep, vars, callVars,
     Delete, ReleaseCreationRequest, CancelCreationRequest, ReserveWorktreeDeletion,
     ReleaseWorktreeDeletion, BeginShutdown, LaunchTimesOut, SetupSettles,
     EnterLocation, CatchLaunch, FailLaunch, CleanupEvicts, DeleteTimesOut, DaemonLoads,
     SkipEviction, StartEviction, EvictionSucceeds, EvictionFails, FinishShutdown
<1>. QED  BY <1>2, <1>3, <1>4

\* The reasons for which a cancelled call fails do not go away.
LEMMA VerdictsStay ==
  ASSUME IInv, [Next]_vars
  PROVE  /\ aborted \subseteq aborted'
         /\ \A c \in Calls :
              /\ launch[c] = "failed" => launch'[c] = "failed"
              /\ claim[c] = "cancelled" /\ call[c] # "resolving" => claim'[c] = "cancelled"
         /\ \/ UNCHANGED cancelSeen
            \/ \E r \in Requests : CancelCreationRequest(r)
<1> USE DEF IInv
<1>1. aborted \subseteq aborted'
  BY DEF Next, ClientStep, LaunchStep, EvictionStep, vars, BeginCreate, RejectDuplicate,
     Delete, DeleteRecords, ReleaseCreationRequest, CancelCreationRequest,
     ReserveWorktreeDeletion, ReleaseWorktreeDeletion, BeginShutdown, Reserve,
     RefuseCreate, LaunchTimesOut, CreateRejects, SetupSettles, EnterLocation,
     CatchLaunch, FailLaunch, CleanupEvicts, DeleteTimesOut, DaemonLoads, ValidationSettles,
     SkipEviction, StartEviction, EvictionSucceeds, EvictionFails, FinishShutdown
<1>2. ASSUME NEW c \in Calls, claim[c] = "cancelled", call[c] # "resolving"
      PROVE  claim'[c] = "cancelled"
  <2>1. \/ UNCHANGED claim
        \/ \E o \in Calls : Reserve(o) \/ ReleaseCreationRequest(o)
        \/ \E r \in Requests : CancelCreationRequest(r)
    BY DEF Next, ClientStep, LaunchStep, EvictionStep, vars, claimVars, BeginCreate,
       RejectDuplicate, Delete, ReserveWorktreeDeletion, ReleaseWorktreeDeletion,
       BeginShutdown, RefuseCreate, LaunchTimesOut, CreateRejects, SetupSettles,
       EnterLocation, CatchLaunch, FailLaunch, CleanupEvicts, DeleteTimesOut, DaemonLoads,
       ValidationSettles, SkipEviction, StartEviction, EvictionSucceeds,
       EvictionFails, FinishShutdown
  <2>. QED
    BY <1>2, <2>1 DEF Reserve, ReleaseCreationRequest, CancelCreationRequest, TypeOK
<1>3. ASSUME NEW c \in Calls, launch[c] = "failed"
      PROVE  launch'[c] = "failed"
  <2>1. \/ UNCHANGED launch
        \/ \E o \in Calls : \/ Reserve(o) \/ SetupSettles(o) \/ EnterLocation(o)
                            \/ CatchLaunch(o) \/ FailLaunch(o)
                            \/ \E located, headers \in BOOLEAN :
                                 ValidationSettles(o, located, headers)
        \/ SkipEviction \/ EvictionSucceeds \/ EvictionFails
    BY DEF Next, ClientStep, LaunchStep, EvictionStep, vars, BeginCreate,
       RejectDuplicate, Delete, ReleaseCreationRequest, CancelCreationRequest,
       ReserveWorktreeDeletion, ReleaseWorktreeDeletion, BeginShutdown, RefuseCreate,
       LaunchTimesOut, CreateRejects, CleanupEvicts, DeleteTimesOut, DaemonLoads, StartEviction,
       FinishShutdown
  <2>2. ASSUME NEW o \in Calls, \/ Reserve(o) \/ SetupSettles(o) \/ EnterLocation(o)
                                \/ CatchLaunch(o) \/ FailLaunch(o)
                                \/ \E located, headers \in BOOLEAN :
                                     ValidationSettles(o, located, headers)
        PROVE  launch'[c] = launch[c]
    <3>1. /\ launch[o] # "failed"
          /\ \E to \in Running \cup Settled : launch' = [launch EXCEPT ![o] = to]
      BY <2>2 DEF Reserve, SetupSettles, EnterLocation, CatchLaunch, FailLaunch,
         ValidationSettles, Running, Settled, LaunchOK
    <3>. QED  BY <1>3, <3>1 DEF TypeOK
  <2>3. CASE SkipEviction \/ EvictionSucceeds \/ EvictionFails
    <3>1. /\ evictions # <<>>
          /\ \/ UNCHANGED launch
             \/ /\ Head(evictions).kind # "cleanup"
                /\ launch' = [launch EXCEPT ![Head(evictions).ws] = "unwinding"]
      BY <2>3 DEF SkipEviction, EvictionSucceeds, EvictionFails, EvictionReturns,
         EvictionIsExclusive
    <3>2. Head(evictions) = evictions[1] /\ 1 \in 1..Len(evictions)
      BY <3>1, PopJob DEF TypeOK
    <3>3. Head(evictions).kind # "cleanup" => launch[Head(evictions).ws] = "evicting"
      BY <3>2 DEF JobsOK
    <3>. QED  BY <1>3, <3>1, <3>3 DEF TypeOK
  <2>. QED  BY <1>3, <2>1, <2>2, <2>3
<1>4. UNCHANGED cancelSeen \/ \E r \in Requests : CancelCreationRequest(r)
  <2>1. CASE ClientStep
    BY <2>1 DEF ClientStep, seenVars, BeginCreate, RejectDuplicate, Delete,
       ReleaseCreationRequest, ReserveWorktreeDeletion, ReleaseWorktreeDeletion,
       BeginShutdown
  <2>2. ASSUME NEW c \in Calls, LaunchStep(c)
        PROVE  UNCHANGED cancelSeen
    BY <2>2 DEF LaunchStep, seenVars, SetupSettles, EnterLocation, CatchLaunch,
       FailLaunch, ValidationSettles
  <2>3. ASSUME NEW c \in Calls, \/ Reserve(c) \/ RefuseCreate(c) \/ LaunchTimesOut(c)
                                \/ CreateRejects(c) \/ CleanupEvicts(c) \/ DeleteTimesOut(c) \/ DaemonLoads(c)
        PROVE  UNCHANGED cancelSeen
    BY <2>3 DEF seenVars, Reserve, RefuseCreate, LaunchTimesOut, CreateRejects,
       CleanupEvicts, DeleteTimesOut, DaemonLoads
  <2>4. CASE EvictionStep
    BY <2>4 DEF EvictionStep, seenVars, SkipEviction, StartEviction,
       EvictionSucceeds, EvictionFails
  <2>5. ASSUME NEW result \in {"stopped", "failed"}, FinishShutdown(result)
        PROVE  UNCHANGED cancelSeen
    BY <2>5 DEF FinishShutdown, seenVars
  <2>6. CASE UNCHANGED vars
    BY <2>6 DEF vars, seenVars
  <2>. QED  BY <2>1, <2>2, <2>3, <2>4, <2>5, <2>6 DEF Next
<1>. QED  BY <1>1, <1>2, <1>3, <1>4

\* A cancellation reaches the call it names: by a mark before it reserves, by its
\* claim afterwards.
LEMMA CancelReaches ==
  ASSUME IInv, RequestInv, NEW r \in Requests, CancelCreationRequest(r), ~ShuttingDown,
         NEW c \in Calls, call[c] \in {"resolving", "launching"}, req[c] = r,
         claim[c] # "released"
  PROVE  \/ call'[c] = "resolving" /\ req'[c] \in cancelled'
         \/ /\ call'[c] = "launching"
            /\ claim'[c] = "cancelled" \/ c \in aborted' \/ launch'[c] = "failed"
<1> USE RequestAssumption DEF IInv, RequestInv
<1>1. /\ UNCHANGED <<call, req, launch>> /\ MarkCancelled(r) /\ aborted \subseteq aborted'
      /\ claim' = [x \in Calls |-> IF x \in Victims(r) THEN "cancelled" ELSE claim[x]]
  BY DEF CancelCreationRequest, DeleteRecords
<1>2. r # NoRequest /\ r \in pending
  BY DEF PendingOK
<1>3. CASE call[c] = "resolving"
  <2>1. c \notin records
    BY <1>3 DEF LaunchOK
  <2>2. \A o \in Calls \ {c} : ~(o \in records /\ claim[o] # "none" /\ req[o] = r)
    BY <1>2, <1>3 DEF CancellationHitsItsCall
  <2>3. Claimed(r) = {}
    BY <2>1, <2>2 DEF Claimed, TypeOK
  <2>4. Victims(r) = Claimed(r)
    BY <2>3 DEF Victims
  <2>. QED  BY <1>1, <1>2, <1>3, <2>4 DEF MarkCancelled
<1>4. CASE call[c] = "launching"
  <2>1. launch[c] \notin {"none", "ready"} /\ claim[c] # "none"
    BY <1>2, <1>4 DEF ClaimOK
  <2>2. CASE c \in records
    BY <1>1, <1>4, <2>1, <2>2 DEF Victims, Claimed
  <2>3. CASE c \notin records
    <3>1. launch[c] \in Running => c \in aborted
      BY <2>3 DEF LaunchOK
    <3>2. launch[c] \in Running \/ launch[c] = "failed"
      BY <2>1 DEF TypeOK, Settled
    <3>. QED  BY <1>1, <1>4, <3>1, <3>2
  <2>. QED  BY <2>2, <2>3
<1>. QED  BY <1>3, <1>4

LEMMA CancelStep ==
  ASSUME IInv, RequestInv, [Next]_vars
  PROVE  CancelOK'
<1> USE DEF RequestInv
<1>. SUFFICES ASSUME NEW c \in Calls, c \in cancelSeen'
              PROVE  \/ call'[c] = "failed"
                     \/ call'[c] = "resolving" /\ (req'[c] \in cancelled' \/ ShuttingDown')
                     \/ /\ call'[c] = "launching"
                        /\ claim'[c] = "cancelled" \/ c \in aborted' \/ launch'[c] = "failed"
  <2>1. cancelSeen' \subseteq Calls
    BY TypeStep DEF IInv, TypeOK
  <2>. QED  BY <2>1 DEF CancelOK
<1>1. CASE c \in cancelSeen
  <2>1. CASE call[c] = "failed"
    BY <2>1, CallMoves DEF Reserve
  <2>2. CASE call[c] = "resolving" /\ (req[c] \in cancelled \/ ShuttingDown)
    <3>1. ~Reserve(c)
      BY <2>2 DEF Reserve, MayReserve
    <3>2. call'[c] = "resolving" \/ call'[c] = "failed"
      BY <2>2, <3>1, CallMoves
    <3>3. ASSUME call'[c] = "resolving", ~ShuttingDown'
          PROVE  req'[c] \in cancelled'
      <4>1. ~ShuttingDown /\ UNCHANGED req
        BY <3>3, RequestsMove DEF Moved
      <4>2. req[c] \in cancelled
        BY <2>2, <4>1
      <4>3. ASSUME NEW o \in Calls, call[o] \in {"resolving", "launching"},
                   FinishRequest(o), call'[o] \in {"failed", "created"}
            PROVE  req[c] \in cancelled'
        <5>1. o # c
          BY <3>3, <4>3
        <5>2. req[c] \in Requests
          BY <4>2 DEF IInv, TypeOK
        <5>3. req[o] # req[c]
          BY <2>2, <4>1, <4>3, <5>1, <5>2, RequestAssumption DEF CancellationHitsItsCall
        <5>. QED  BY <4>2, <4>3, <5>3 DEF FinishRequest
      <4>. QED  BY <3>3, <4>1, <4>2, <4>3, RequestsMove DEF Moved
    <3>. QED  BY <3>2, <3>3
  <2>3. CASE /\ call[c] = "launching"
             /\ claim[c] = "cancelled" \/ c \in aborted \/ launch[c] = "failed"
    <3>1. call'[c] = "launching" \/ call'[c] = "failed"
      BY <2>3, CallMoves DEF Reserve
    <3>. QED  BY <2>3, <3>1, VerdictsStay
  <2>. QED  BY <1>1, <2>1, <2>2, <2>3 DEF CancelOK
<1>2. CASE c \notin cancelSeen
  <2>1. PICK r \in Requests : CancelCreationRequest(r)
    BY <1>2, VerdictsStay
  <2>2. /\ call[c] \in {"resolving", "launching"} /\ ~ShuttingDown
        /\ req[c] = r /\ claim[c] # "released"
    BY <1>2, <2>1 DEF CancelCreationRequest
  <2>. QED  BY <2>1, <2>2, CancelReaches
<1>. QED  BY <1>1, <1>2

\* The protocol of the requestIds holds at the start and every step keeps it.
THEOREM RequestsInductive == Spec => []RequestInv
<1>1. Init => RequestInv
  BY DEF Init, RequestInv, ClaimOK, PendingOK, CancelOK, CancellationHitsItsCall, Running
<1>2. IInv /\ RequestInv /\ [Next]_vars => RequestInv'
  <2>. SUFFICES ASSUME IInv, RequestInv, [Next]_vars PROVE RequestInv'
    OBVIOUS
  <2>1. ClaimOK
    BY DEF RequestInv
  <2>. QED  BY <2>1, ClaimStep, PendingStep, CancelStep, OneUserStep DEF RequestInv
<1>. QED  BY <1>1, <1>2, Inductive, PTL DEF Spec

\* A create() that was cancelled in time never returns a workspace, a workspace that
\* a client keeps survives every cancellation, and a mark never outlives its call.
THEOREM CancellationsAreExact == Spec => []CancellationIsExact
<1>1. IInv /\ RequestInv => CancellationIsExact
  <2>. SUFFICES ASSUME IInv, RequestInv PROVE CancellationIsExact
    OBVIOUS
  <2>1. CancelledCreateFails
    BY DEF RequestInv, CancelOK, CancelledCreateFails
  <2>2. KeptSurvivesCancel
    BY DEF IInv, TypeOK, RequestInv, ClaimOK, KeptSurvivesCancel
  <2>. QED  BY <2>1, <2>2 DEF RequestInv, CancellationIsExact
<1>. QED  BY <1>1, Inductive, RequestsInductive, PTL

-----------------------------------------------------------------------------
(* The locations: somebody who will give it back answers for each one held. *)

\* Who can hold a location, and which eviction gives it back.
OwnerOK ==
  /\ \A c \in owned \cup cancelledLocation :
       launch[c] \notin {"none", "setup", "waiting", "validating"}
  /\ owned \cap cancelledLocation = {}
  /\ \A i \in 1..Len(evictions) :
       /\ evictions[i].kind = "cancelled" => evictions[i].ws \in cancelledLocation
       /\ evictions[i].kind = "launch" => evictions[i].ws \notin cancelledLocation

\* A record that owns its location, or an aborted launch on its way to evict it.
AnswersFor(c, d) ==
  /\ dir[c] = d
  /\ \/ c \in owned /\ c \in records
     \/ c \in cancelledLocation /\ launch[c] \in {"failing", "evicting"}

\* While no eviction failed and the manager runs, nothing is held for nobody, except
\* what the daemon loaded for a validation that had been cut off.
HeldOK ==
  ~ShuttingDown /\ evictFailures = 0 =>
    /\ \A c \in owned : c \in records /\ launch[c] # "unwinding"
    /\ \A d \in held \ leaked : \E c \in Calls : AnswersFor(c, d)

\* The queue grows at its end and shrinks at its head.
LEMMA QueueMoves ==
  ASSUME IInv, [Next]_vars
  PROVE  \/ UNCHANGED evictions
         \/ \E c \in Calls :
              \/ /\ CatchLaunch(c)
                 /\ Enqueue(c, IF c \in cancelledLocation THEN "cancelled" ELSE "launch")
              \/ CleanupEvicts(c) /\ Enqueue(c, "cleanup")
         \/ /\ SkipEviction \/ EvictionSucceeds \/ EvictionFails
            /\ evictions # <<>> /\ evictions' = Tail(evictions)
<1>1. CASE ClientStep \/ UNCHANGED vars
  BY <1>1 DEF ClientStep, vars, queueVars, BeginCreate, RejectDuplicate, Delete,
     ReleaseCreationRequest, CancelCreationRequest, ReserveWorktreeDeletion,
     ReleaseWorktreeDeletion, BeginShutdown
<1>2. ASSUME NEW c \in Calls, \/ Reserve(c) \/ RefuseCreate(c) \/ LaunchTimesOut(c)
                              \/ CreateRejects(c) \/ DeleteTimesOut(c) \/ DaemonLoads(c)
                              \/ SetupSettles(c) \/ EnterLocation(c) \/ FailLaunch(c)
                              \/ \E located, headers \in BOOLEAN :
                                   ValidationSettles(c, located, headers)
      PROVE  UNCHANGED evictions
  BY <1>2 DEF queueVars, Reserve, RefuseCreate, LaunchTimesOut, CreateRejects,
     DeleteTimesOut, DaemonLoads, SetupSettles, EnterLocation, FailLaunch, ValidationSettles
<1>3. ASSUME NEW c \in Calls, CatchLaunch(c)
      PROVE  \/ UNCHANGED evictions
             \/ Enqueue(c, IF c \in cancelledLocation THEN "cancelled" ELSE "launch")
  BY <1>3, Zenon DEF CatchLaunch
<1>4. ASSUME NEW c \in Calls, CleanupEvicts(c)
      PROVE  UNCHANGED evictions \/ Enqueue(c, "cleanup")
  BY <1>4, Zenon DEF CleanupEvicts
<1>5. CASE EvictionStep
  BY <1>5 DEF EvictionStep, queueVars, StartEviction, SkipEviction, EvictionSucceeds,
     EvictionFails, EvictionReturns, IInv, EvictionIsExclusive
<1>6. ASSUME NEW result \in {"stopped", "failed"}, FinishShutdown(result)
      PROVE  UNCHANGED evictions
  BY <1>6 DEF FinishShutdown, queueVars
<1>. QED
  BY <1>1, <1>2, <1>3, <1>4, <1>5, <1>6 DEF Next, LaunchStep

\* A launch acquires its location at one point only.
LEMMA LocationMoves ==
  ASSUME IInv, [Next]_vars
  PROVE  /\ UNCHANGED dir
         /\ \/ UNCHANGED cancelledLocation /\ owned' \subseteq owned
            \/ \E c \in Calls : \E located, headers \in BOOLEAN :
                 ValidationSettles(c, located, headers)
<1>1. UNCHANGED dir
  BY LiveShrinks DEF IInv
<1>2. ASSUME ClientStep \/ UNCHANGED vars
      PROVE  UNCHANGED <<owned, cancelledLocation>>
  BY <1>2 DEF ClientStep, vars, ownerVars, BeginCreate, RejectDuplicate, Delete,
     ReleaseCreationRequest, CancelCreationRequest, ReserveWorktreeDeletion,
     ReleaseWorktreeDeletion, BeginShutdown
<1>3. ASSUME NEW c \in Calls, \/ Reserve(c) \/ RefuseCreate(c) \/ LaunchTimesOut(c)
                              \/ CreateRejects(c) \/ DeleteTimesOut(c) \/ DaemonLoads(c)
                              \/ SetupSettles(c) \/ EnterLocation(c) \/ FailLaunch(c)
                              \/ CatchLaunch(c) \/ CleanupEvicts(c)
      PROVE  UNCHANGED cancelledLocation /\ owned' \subseteq owned
  BY <1>3 DEF ownerVars, Reserve, RefuseCreate, LaunchTimesOut, CreateRejects,
     DeleteTimesOut, DaemonLoads, SetupSettles, EnterLocation, FailLaunch, CatchLaunch, CleanupEvicts
<1>4. ASSUME EvictionStep
      PROVE  UNCHANGED cancelledLocation /\ owned' \subseteq owned
  BY <1>4 DEF EvictionStep, ownerVars, StartEviction, SkipEviction, EvictionSucceeds,
     EvictionFails
<1>5. ASSUME NEW result \in {"stopped", "failed"}, FinishShutdown(result)
      PROVE  UNCHANGED cancelledLocation /\ owned' \subseteq owned
  BY <1>5 DEF FinishShutdown, ownerVars
<1>. QED
  BY <1>1, <1>2, <1>3, <1>4, <1>5 DEF Next, LaunchStep

\* A launch past its validation never goes back before it.
LEMMA LaunchMoves ==
  ASSUME IInv, [Next]_vars, NEW c \in Calls,
         launch[c] \notin {"none", "setup", "waiting", "validating"}
  PROVE  launch'[c] \notin {"none", "setup", "waiting", "validating"}
<1> USE DEF IInv
<1>1. CASE UNCHANGED launch
  BY <1>1
<1>2. ASSUME NEW o \in Calls, Reserve(o)
      PROVE  launch'[c] = launch[c]
  <2>1. launch[o] = "none"
    BY <1>2 DEF Reserve, LaunchOK
  <2>. QED  BY <1>2, <2>1 DEF Reserve, TypeOK
<1>3. ASSUME NEW o \in Calls, SetupSettles(o) \/ EnterLocation(o)
      PROVE  launch'[c] = launch[c]
  BY <1>3 DEF SetupSettles, EnterLocation, TypeOK
<1>4. ASSUME NEW o \in Calls, \/ CatchLaunch(o) \/ FailLaunch(o)
                              \/ \E located, headers \in BOOLEAN :
                                   ValidationSettles(o, located, headers)
      PROVE  launch'[c] \notin {"none", "setup", "waiting", "validating"}
  BY <1>4 DEF CatchLaunch, FailLaunch, ValidationSettles, TypeOK
<1>5. ASSUME SkipEviction \/ EvictionSucceeds \/ EvictionFails
      PROVE  launch'[c] \notin {"none", "setup", "waiting", "validating"}
  BY <1>5 DEF SkipEviction, EvictionSucceeds, EvictionFails, EvictionReturns, TypeOK
<1>. QED
  BY <1>1, <1>2, <1>3, <1>4, <1>5 DEF Next, ClientStep, LaunchStep, EvictionStep, vars,
     BeginCreate, RejectDuplicate, Delete, ReleaseCreationRequest,
     CancelCreationRequest, ReserveWorktreeDeletion, ReleaseWorktreeDeletion,
     BeginShutdown, RefuseCreate, LaunchTimesOut, CreateRejects, CleanupEvicts,
     DeleteTimesOut, DaemonLoads, StartEviction, FinishShutdown

LEMMA OwnerStep ==
  ASSUME IInv, OwnerOK, [Next]_vars
  PROVE  OwnerOK'
<1> USE DEF IInv
<1> DEFINE KindOK(job, set) ==
      (job.kind = "cancelled" => job.ws \in set) /\ (job.kind = "launch" => job.ws \notin set)
<1>1. ASSUME NEW c \in Calls, NEW located \in BOOLEAN, NEW headers \in BOOLEAN,
             ValidationSettles(c, located, headers)
      PROVE  OwnerOK'
  <2>1. /\ launch[c] = "validating" /\ UNCHANGED evictions
        /\ launch'[c] \in {"ready", "failing"}
        /\ \A o \in Calls \ {c} : launch'[o] = launch[o]
        /\ \/ UNCHANGED <<owned, cancelledLocation>>
           \/ owned' = owned \cup {c} /\ UNCHANGED cancelledLocation
           \/ cancelledLocation' = cancelledLocation \cup {c} /\ UNCHANGED owned
    BY <1>1 DEF ValidationSettles, queueVars, TypeOK
  <2>2. c \notin owned /\ c \notin cancelledLocation
    BY <2>1 DEF OwnerOK
  <2>3. \A i \in 1..Len(evictions) : evictions[i].ws # c
    BY <2>1 DEF JobsOK, Settled
  <2>4. owned \subseteq Calls /\ cancelledLocation \subseteq Calls
    BY DEF TypeOK
  <2>5. \A i \in 1..Len(evictions) : KindOK(evictions[i], cancelledLocation')
    BY <2>1, <2>3 DEF OwnerOK
  <2>6. /\ \A o \in owned' \cup cancelledLocation' :
             launch'[o] \notin {"none", "setup", "waiting", "validating"}
        /\ owned' \cap cancelledLocation' = {}
    BY <2>1, <2>2, <2>4 DEF OwnerOK
  <2>. QED  BY <2>1, <2>5, <2>6 DEF OwnerOK
<1>2. ASSUME UNCHANGED cancelledLocation, owned' \subseteq owned
      PROVE  OwnerOK'
  <2>1. /\ \A c \in owned' \cup cancelledLocation' :
             launch'[c] \notin {"none", "setup", "waiting", "validating"}
        /\ owned' \cap cancelledLocation' = {}
    BY <1>2, LaunchMoves DEF OwnerOK, TypeOK
  <2>2. \A i \in 1..Len(evictions') : KindOK(evictions'[i], cancelledLocation)
    <3>0. evictions \in Seq(Jobs) /\ \A i \in 1..Len(evictions) : KindOK(evictions[i], cancelledLocation)
      BY DEF TypeOK, OwnerOK
    <3>1. CASE UNCHANGED evictions
      BY <3>0, <3>1
    <3>2. ASSUME NEW c \in Calls, NEW kind \in JobKinds, Enqueue(c, kind),
                 kind = "cleanup" \/ (kind = "cancelled" <=> c \in cancelledLocation)
          PROVE  \A i \in 1..Len(evictions') : KindOK(evictions'[i], cancelledLocation)
      <4> DEFINE job == [ws |-> c, kind |-> kind]
      <4>1. /\ Len(evictions') = Len(evictions) + 1
            /\ \A i \in 1..Len(evictions) : evictions'[i] = evictions[i]
            /\ evictions'[Len(evictions) + 1] = job
        BY <3>0, <3>2, AppendJob DEF Enqueue, Jobs
      <4>2. KindOK(job, cancelledLocation)
        BY <3>2 DEF JobKinds
      <4>3. \A i \in 1..Len(evictions') : i \in 1..Len(evictions) \/ i = Len(evictions) + 1
        BY <3>0, <4>1
      <4> HIDE DEF job, KindOK
      <4>. QED  BY <3>0, <4>1, <4>2, <4>3
    <3>3. CASE evictions # <<>> /\ evictions' = Tail(evictions)
      <4>1. \A i \in 1..Len(evictions') :
              evictions'[i] = evictions[i + 1] /\ i + 1 \in 1..Len(evictions)
        BY <3>0, <3>3, PopJob
      <4> HIDE DEF KindOK
      <4>. QED  BY <3>0, <4>1
    <3>4. \A c \in Calls :
            Enqueue(c, IF c \in cancelledLocation THEN "cancelled" ELSE "launch")
              => \E kind \in JobKinds : /\ Enqueue(c, kind)
                                        /\ kind = "cancelled" <=> c \in cancelledLocation
      BY Zenon DEF JobKinds
    <3>5. "cleanup" \in JobKinds
      BY DEF JobKinds
    <3> HIDE DEF KindOK
    <3>. QED  BY <3>1, <3>2, <3>3, <3>4, <3>5, QueueMoves
  <2>. QED  BY <1>2, <2>1, <2>2 DEF OwnerOK
<1>. QED  BY <1>1, <1>2, LocationMoves

LEMMA HeldStep ==
  ASSUME IInv, OwnerOK, HeldOK, [Next]_vars
  PROVE  HeldOK'
<1> USE DEF IInv
<1>keep. ASSUME UNCHANGED <<dir, owned, held, leaked, cancelledLocation, evictFailures>>,
                ShuttingDown => ShuttingDown',
                \A c \in Calls :
                  /\ c \in owned => (c \in records => c \in records')
                  /\ c \in owned => (launch'[c] = "unwinding" => launch[c] = "unwinding")
                  /\ c \in cancelledLocation /\ launch[c] \in {"failing", "evicting"}
                       => launch'[c] \in {"failing", "evicting"}
         PROVE  HeldOK'
  <2>. SUFFICES ASSUME ~ShuttingDown', evictFailures' = 0
                PROVE  /\ \A c \in owned : c \in records' /\ launch'[c] # "unwinding"
                       /\ \A d \in held \ leaked : \E c \in Calls : AnswersFor(c, d)'
    BY <1>keep DEF HeldOK
  <2>1. /\ \A c \in owned : c \in records /\ launch[c] # "unwinding"
        /\ \A d \in held \ leaked : \E c \in Calls : AnswersFor(c, d)
    BY <1>keep DEF HeldOK
  <2>2. \A c \in Calls : \A d \in held : AnswersFor(c, d) => AnswersFor(c, d)'
    BY <1>keep DEF AnswersFor
  <2>. QED  BY <1>keep, <2>1, <2>2 DEF TypeOK
<1>same. ASSUME UNCHANGED <<dir, owned, held, leaked, cancelledLocation, evictFailures, launch>>,
                records \subseteq records', ShuttingDown => ShuttingDown'
         PROVE  HeldOK'
  BY <1>same, <1>keep
<1>void. ASSUME ShuttingDown' \/ evictFailures' # 0
         PROVE  HeldOK'
  BY <1>void DEF HeldOK
<1>1. CASE UNCHANGED vars
  BY <1>1, <1>same DEF vars, callVars, recordVars, ownerVars, queueVars, ShuttingDown
<1>2. CASE BeginShutdown
  BY <1>2, <1>void DEF BeginShutdown, ShuttingDown
<1>3. CASE ClientStep /\ ~BeginShutdown
  BY <1>3, <1>same DEF ClientStep, BeginCreate, RejectDuplicate, Delete,
     ReleaseCreationRequest, CancelCreationRequest, ReserveWorktreeDeletion,
     ReleaseWorktreeDeletion, callVars, recordVars, ownerVars, queueVars, ShuttingDown
<1>4. ASSUME NEW result \in {"stopped", "failed"}, FinishShutdown(result)
      PROVE  HeldOK'
  BY <1>4, <1>void DEF FinishShutdown, ShuttingDown
<1>5. ASSUME NEW c \in Calls, \/ RefuseCreate(c) \/ LaunchTimesOut(c) \/ CreateRejects(c)
                              \/ DeleteTimesOut(c)
      PROVE  HeldOK'
  BY <1>5, <1>same DEF RefuseCreate, LaunchTimesOut, CreateRejects, DeleteTimesOut,
     callVars, recordVars, ownerVars, queueVars, ShuttingDown
<1>launch. ASSUME NEW c \in Calls, NEW to, launch' = [launch EXCEPT ![c] = to],
                  UNCHANGED <<dir, owned, held, leaked, cancelledLocation, evictFailures, shutdown>>,
                  records \subseteq records' \cup {c},
                  c \in owned => c \in records' /\ to # "unwinding",
                  c \in cancelledLocation => \/ launch[c] = "failing" /\ to = "evicting"
                                             \/ launch[c] \notin {"failing", "evicting"}
           PROVE  HeldOK'
  <2>1. \A o \in Calls \ {c} : launch'[o] = launch[o]
    BY <1>launch DEF TypeOK
  <2>2. launch'[c] = to
    BY <1>launch DEF TypeOK
  <2>. QED  BY <1>launch, <2>1, <2>2, <1>keep DEF ShuttingDown
<1>6. ASSUME NEW c \in Calls, Reserve(c)
      PROVE  HeldOK'
  <2>1. c \notin owned \/ c \in records'
    BY <1>6 DEF Reserve
  <2>2. launch[c] = "none"
    BY <1>6 DEF Reserve, LaunchOK
  <2>. QED  BY <1>6, <2>1, <2>2, <1>launch DEF Reserve, ownerVars, queueVars
<1>7. ASSUME NEW c \in Calls, SetupSettles(c) \/ EnterLocation(c)
      PROVE  HeldOK'
  <2>1. /\ launch[c] \in {"setup", "waiting"}
        /\ \E to \in {"waiting", "failing", "validating"} : launch' = [launch EXCEPT ![c] = to]
        /\ UNCHANGED <<dir, owned, held, leaked, cancelledLocation, evictFailures, shutdown, records>>
    BY <1>7 DEF SetupSettles, EnterLocation, callVars, recordVars, ownerVars, queueVars
  <2>2. c \notin owned
    BY <2>1 DEF OwnerOK
  <2>. QED  BY <2>1, <2>2, <1>launch
<1>8. ASSUME NEW c \in Calls, CatchLaunch(c)
      PROVE  HeldOK'
  <2>1. /\ launch[c] = "failing"
        /\ UNCHANGED <<dir, owned, held, leaked, cancelledLocation, evictFailures, shutdown, records>>
    BY <1>8 DEF CatchLaunch, callVars, recordVars, ownerVars
  <2>2. CASE ShuttingDown
    BY <2>1, <2>2, <1>void DEF ShuttingDown
  <2>3. CASE evictFailures # 0
    BY <2>1, <2>3, <1>void
  <2>4. CASE ~ShuttingDown /\ evictFailures = 0
    <3>1. \/ launch' = [launch EXCEPT ![c] = "evicting"]
          \/ /\ c \notin owned /\ c \notin cancelledLocation
             /\ launch' = [launch EXCEPT ![c] = "unwinding"]
      BY <1>8, <2>4 DEF CatchLaunch
    <3>2. c \in owned => c \in records
      BY <2>4 DEF HeldOK
    <3>. QED  BY <2>1, <3>1, <3>2, <1>launch
  <2>. QED  BY <2>2, <2>3, <2>4
<1>9. ASSUME NEW c \in Calls, FailLaunch(c)
      PROVE  HeldOK'
  <2>1. /\ launch[c] = "unwinding" /\ launch' = [launch EXCEPT ![c] = "failed"]
        /\ UNCHANGED <<dir, owned, held, leaked, cancelledLocation, evictFailures, shutdown>>
        /\ records \subseteq records' \cup {c}
    BY <1>9 DEF FailLaunch, RemoveRecords, callVars, recordVars, ownerVars, queueVars
  <2>2. CASE ShuttingDown
    BY <2>1, <2>2, <1>void DEF ShuttingDown
  <2>3. CASE evictFailures # 0
    BY <2>1, <2>3, <1>void
  <2>4. CASE ~ShuttingDown /\ evictFailures = 0
    <3>1. c \notin owned
      BY <2>1, <2>4 DEF HeldOK
    <3>. QED  BY <2>1, <3>1, <1>launch
  <2>. QED  BY <2>2, <2>3, <2>4
<1>10. ASSUME NEW c \in Calls, CleanupEvicts(c)
       PROVE  HeldOK'
  <2>1. /\ UNCHANGED <<dir, owned, held, leaked, cancelledLocation, evictFailures, launch, shutdown>>
        /\ records \subseteq records' \cup {c} /\ (c \in owned => UNCHANGED records)
    BY <1>10 DEF CleanupEvicts, RemoveRecords, callVars, recordVars, ownerVars
  <2>. QED  BY <2>1, <1>keep DEF ShuttingDown
<1>11. ASSUME NEW c \in Calls, NEW located \in BOOLEAN, NEW headers \in BOOLEAN,
              ValidationSettles(c, located, headers)
       PROVE  HeldOK'
  <2>1. /\ launch[c] = "validating" /\ UNCHANGED <<dir, evictFailures, shutdown, records>>
        /\ \A o \in Calls \ {c} : launch'[o] = launch[o]
        /\ launch'[c] \in {"ready", "failing"}
        /\ c \in aborted /\ located => launch'[c] = "failing"
        /\ held' = IF located THEN held \cup {dir[c]} ELSE held
        /\ leaked' = IF located THEN leaked \ {dir[c]} ELSE leaked
        /\ cancelledLocation' =
             IF located /\ c \in aborted THEN cancelledLocation \cup {c} ELSE cancelledLocation
        /\ owned' = IF located /\ c \notin aborted THEN owned \cup {c} ELSE owned
    BY <1>11 DEF ValidationSettles, LaunchSucceeds, queueVars, TypeOK
  <2>2. c \notin owned /\ c \notin cancelledLocation
    BY <2>1 DEF OwnerOK
  <2>3. c \notin aborted => c \in records
    BY <2>1 DEF LaunchOK, Running
  <2>. SUFFICES ASSUME ~ShuttingDown, evictFailures = 0
                PROVE  /\ \A o \in owned' : o \in records /\ launch'[o] # "unwinding"
                       /\ \A d \in held' \ leaked' : \E o \in Calls : AnswersFor(o, d)'
    BY <2>1 DEF HeldOK, ShuttingDown
  <2>4. /\ \A o \in owned : o \in records /\ launch[o] # "unwinding"
        /\ \A d \in held \ leaked : \E o \in Calls : AnswersFor(o, d)
    BY DEF HeldOK
  <2>5. \A o \in owned' : o \in records /\ launch'[o] # "unwinding"
    BY <2>1, <2>3, <2>4 DEF TypeOK
  <2>6. ASSUME NEW o \in Calls, NEW d, AnswersFor(o, d)
        PROVE  AnswersFor(o, d)'
    BY <2>1, <2>2, <2>6 DEF AnswersFor
  <2>7. located => AnswersFor(c, dir[c])'
    BY <2>1, <2>3 DEF AnswersFor
  <2>. QED  BY <2>1, <2>4, <2>5, <2>6, <2>7
<1>12. CASE StartEviction
  BY <1>12, <1>same DEF StartEviction, callVars, recordVars, ownerVars, ShuttingDown
<1>13. CASE EvictionFails
  BY <1>13, <1>void DEF EvictionFails, TypeOK
<1>14. CASE SkipEviction \/ EvictionSucceeds
  <2> DEFINE job == Head(evictions)
  <2>1. /\ evictions # <<>> /\ UNCHANGED <<dir, cancelledLocation, evictFailures, shutdown>>
        /\ EvictionReturns(job, TRUE)
    BY <1>14 DEF SkipEviction, EvictionSucceeds, EvictionIsExclusive, callVars
  <2>2. Head(evictions) = evictions[1] /\ 1 \in 1..Len(evictions)
    BY <2>1, PopJob DEF TypeOK
  <2>3. job.ws \in Calls /\ job.kind \in JobKinds
    BY <2>2, JobTypes DEF Jobs
  <2>4. /\ job.kind = "cancelled" => job.ws \in cancelledLocation
        /\ job.kind = "launch" => job.ws \notin cancelledLocation
        /\ job.kind = "cleanup" => launch[job.ws] \in Settled
    BY <2>2 DEF OwnerOK, JobsOK
  <2>5. /\ records \subseteq records' \cup {job.ws}
        /\ \A o \in Calls \ {job.ws} : launch'[o] = launch[o]
    BY <2>1 DEF EvictionReturns, RemoveRecords, recordVars, TypeOK
  <2>6. ~(job.ws \in owned /\ job.ws \in cancelledLocation)
    BY DEF OwnerOK
  <2>. SUFFICES ASSUME ~ShuttingDown, evictFailures = 0
                PROVE  /\ \A o \in owned' : o \in records' /\ launch'[o] # "unwinding"
                       /\ \A d \in held' \ leaked' : \E o \in Calls : AnswersFor(o, d)'
    BY <2>1 DEF HeldOK, ShuttingDown
  <2>7. /\ \A o \in owned : o \in records /\ launch[o] # "unwinding"
        /\ \A d \in held \ leaked : \E o \in Calls : AnswersFor(o, d)
    BY DEF HeldOK
  <2>8. owned' \subseteq owned /\ job.ws \notin owned'
    <3>1. CASE SkipEviction
      BY <2>4, <2>6, <3>1 DEF SkipEviction
    <3>2. CASE EvictionSucceeds
      BY <2>4, <2>6, <2>7, <3>2 DEF EvictionSucceeds
    <3>. QED  BY <1>14, <3>1, <3>2
  <2>9. \A o \in owned' : o \in records' /\ launch'[o] # "unwinding"
    BY <2>5, <2>7, <2>8 DEF TypeOK
  <2>10. ASSUME NEW o \in Calls \ {job.ws}, NEW d, AnswersFor(o, d), o \in owned => o \in owned'
         PROVE  AnswersFor(o, d)'
    BY <2>1, <2>5, <2>10 DEF AnswersFor
  <2> HIDE DEF job
  <2>11. ASSUME EvictionSucceeds, NEW d \in held' \ leaked'
         PROVE  \E o \in Calls : AnswersFor(o, d)'
    <3>1. /\ d \in held \ leaked /\ d # dir[job.ws]
          /\ \A o \in owned : dir[o] # dir[job.ws] => o \in owned'
      BY <2>11 DEF EvictionSucceeds, job
    <3>2. PICK o \in Calls : AnswersFor(o, d)
      BY <2>7, <3>1
    <3>3. o # job.ws /\ dir[o] # dir[job.ws]
      BY <3>1, <3>2 DEF AnswersFor
    <3>. QED  BY <2>10, <3>1, <3>2, <3>3
  <2>12. ASSUME SkipEviction, NEW d \in held' \ leaked'
         PROVE  \E o \in Calls : AnswersFor(o, d)'
    <3>1. /\ d \in held \ leaked /\ ~MustEvict(job)
          /\ owned \subseteq owned' \cup {job.ws}
      BY <2>12 DEF SkipEviction, job
    <3>2. PICK o \in Calls : AnswersFor(o, d)
      BY <2>7, <3>1
    <3>3. CASE o # job.ws
      BY <2>10, <3>1, <3>2, <3>3
    <3>4. CASE o = job.ws
      <4>1. job.kind = "cancelled" \/ job.ws \in owned
        BY <2>3, <2>4, <3>2, <3>4 DEF AnswersFor, Settled, JobKinds
      <4>2. Shared(job.ws)
        BY <3>1, <4>1 DEF MustEvict
      <4>3. PICK x \in records \ {job.ws} : x \in owned /\ dir[x] = dir[job.ws]
        BY <4>2 DEF Shared
      <4>4. x \in Calls \ {job.ws} /\ AnswersFor(x, d) /\ x \in owned'
        BY <3>1, <3>2, <3>4, <4>3 DEF AnswersFor, TypeOK
      <4>. QED  BY <2>10, <4>4
    <3>. QED  BY <3>3, <3>4
  <2>. QED  BY <1>14, <2>9, <2>11, <2>12
<1>15. ASSUME NEW c \in Calls, DaemonLoads(c)
       PROVE  HeldOK'
  <2>1. /\ UNCHANGED <<dir, owned, cancelledLocation, evictFailures, launch, records, shutdown>>
        /\ held' \ leaked' \subseteq held \ leaked
    BY <1>15 DEF DaemonLoads, callVars, recordVars, queueVars
  <2>. QED  BY <2>1 DEF HeldOK, AnswersFor, ShuttingDown
<1>. QED
  BY <1>1, <1>2, <1>3, <1>4, <1>5, <1>6, <1>7, <1>8, <1>9, <1>10, <1>11, <1>12,
     <1>13, <1>14, <1>15 DEF Next, LaunchStep, EvictionStep

\* Somebody answers for each location that is held, but for those the daemon loaded
\* for a validation that had been cut off, and which nobody has validated since.
THEOREM LocationsInductive == Spec => [](OwnerOK /\ HeldOK)
<1>1. Init => OwnerOK /\ HeldOK
  BY DEF Init, OwnerOK, HeldOK
<1>2. IInv /\ OwnerOK /\ HeldOK /\ [Next]_vars => (OwnerOK /\ HeldOK)'
  BY OwnerStep, HeldStep
<1>. QED  BY <1>1, <1>2, Inductive, PTL DEF Spec

\* However launches are cancelled, fail and share their directories, once everything
\* is at rest the daemon holds no location that no workspace owns, except those it
\* loaded for a validation that had been cut off: the manager never heard of them.
THEOREM LocationsDoNotLeak == Spec => []NoLocationLeak
<1>1. IInv /\ OwnerOK /\ HeldOK => NoLocationLeak
  BY DEF IInv, TypeOK, HeldOK, AnswersFor, NoLocationLeak, Unsettled, Running
<1>. QED  BY <1>1, Inductive, LocationsInductive, PTL

-----------------------------------------------------------------------------
(* What the clients are promised. *)

\* A record appears only by Reserve, and a removal is reserved only by its step.
LEMMA RecordsGrow ==
  ASSUME IInv, [Next]_vars
  PROVE  /\ UNCHANGED dir
         /\ records' \subseteq records \/ \E c \in Calls : Reserve(c)
         /\ \/ deletingRoots' \subseteq deletingRoots
            \/ \E d \in Directories : ReserveWorktreeDeletion(d)
<1>1. UNCHANGED dir
  BY LiveShrinks DEF IInv
<1>2. ASSUME ClientStep \/ UNCHANGED vars
      PROVE  /\ UNCHANGED records
             /\ \/ deletingRoots' \subseteq deletingRoots
                \/ \E d \in Directories : ReserveWorktreeDeletion(d)
  BY <1>2 DEF ClientStep, vars, recordVars, BeginCreate, RejectDuplicate, Delete,
     ReleaseCreationRequest, CancelCreationRequest, ReleaseWorktreeDeletion,
     ReserveWorktreeDeletion, BeginShutdown
<1>3. ASSUME NEW c \in Calls, \/ RefuseCreate(c) \/ LaunchTimesOut(c) \/ CreateRejects(c)
                              \/ LaunchStep(c) \/ CleanupEvicts(c) \/ DeleteTimesOut(c) \/ DaemonLoads(c)
      PROVE  records' \subseteq records /\ UNCHANGED deletingRoots
  BY <1>3 DEF RefuseCreate, LaunchTimesOut, CreateRejects, LaunchStep, SetupSettles,
     EnterLocation, CatchLaunch, FailLaunch, ValidationSettles, CleanupEvicts,
     DeleteTimesOut, DaemonLoads, RemoveRecords, recordVars
<1>4. ASSUME NEW c \in Calls, Reserve(c)
      PROVE  UNCHANGED deletingRoots
  BY <1>4 DEF Reserve
<1>5. ASSUME EvictionStep
      PROVE  records' \subseteq records /\ UNCHANGED deletingRoots
  BY <1>5 DEF EvictionStep, StartEviction, SkipEviction, EvictionSucceeds,
     EvictionFails, EvictionReturns, RemoveRecords, recordVars
<1>6. ASSUME NEW result \in {"stopped", "failed"}, FinishShutdown(result)
      PROVE  records' \subseteq records /\ UNCHANGED deletingRoots
  BY <1>6 DEF FinishShutdown, RemoveRecords
<1>. QED  BY <1>1, <1>2, <1>3, <1>4, <1>5, <1>6 DEF Next

\* Whatever directories lie inside each other, no workspace is ever opened inside a
\* worktree under removal, and no two removals overlap.
THEOREM RemovedWorktreesAreEmpty == Spec => []NoWorkspaceInDeletedWorktree
<1>1. Init => NoWorkspaceInDeletedWorktree
  BY DEF Init, NoWorkspaceInDeletedWorktree
<1>2. IInv /\ NoWorkspaceInDeletedWorktree /\ [Next]_vars => NoWorkspaceInDeletedWorktree'
  <2>. SUFFICES ASSUME IInv, NoWorkspaceInDeletedWorktree, [Next]_vars
                PROVE  NoWorkspaceInDeletedWorktree'
    OBVIOUS
  <2>1. ASSUME NEW c \in Calls, Reserve(c)
        PROVE  NoWorkspaceInDeletedWorktree'
    <3>1. /\ UNCHANGED <<dir, deletingRoots>> /\ records' = records \cup {c}
          /\ \A root \in deletingRoots : ~Contains(root, dir[c])
      BY <2>1 DEF Reserve, MayReserve
    <3>. QED  BY <3>1 DEF NoWorkspaceInDeletedWorktree, Contains
  <2>2. ASSUME NEW d \in Directories, ReserveWorktreeDeletion(d)
        PROVE  NoWorkspaceInDeletedWorktree'
    <3>1. /\ UNCHANGED <<dir, records>> /\ deletingRoots' = deletingRoots \cup {d}
          /\ \A root \in deletingRoots : ~Contains(root, d) /\ ~Contains(d, root)
          /\ \A c \in records : ~Contains(d, dir[c])
      BY <2>2 DEF ReserveWorktreeDeletion, Overlaps, callVars, recordVars
    <3>. QED  BY <3>1 DEF NoWorkspaceInDeletedWorktree, Contains
  <2>3. CASE UNCHANGED dir /\ records' \subseteq records /\ deletingRoots' \subseteq deletingRoots
    BY <2>3 DEF NoWorkspaceInDeletedWorktree, Contains
  <2>. QED  BY <2>1, <2>2, <2>3, RecordsGrow
<1>. QED  BY <1>1, <1>2, Inductive, PTL DEF Spec

\* How one step changes what a subscriber can tell of the workspaces.
LEMMA StatusMoves ==
  ASSUME IInv, [Next]_vars
  PROVE  /\ UNCHANGED dir
         /\ \/ \* a launch ends its validation
               \E c \in Calls : \E located, headers \in BOOLEAN :
                 ValidationSettles(c, located, headers)
            \/ \* the daemon serves a request that was cut off
               /\ UNCHANGED <<published, records, aborted>>
               /\ \E c \in Calls : held' = held \cup {dir[c]}
            \/ \* workspaces are given up
               UNCHANGED <<published, records, held>> /\ aborted \subseteq aborted'
            \/ \* a record is reserved, or records that are not open are removed
               /\ UNCHANGED <<published, aborted>>
               /\ records' \subseteq records \cup (Calls \ published)
               /\ \A c \in records \ records' : c \in aborted \/ c \notin published
               /\ \/ UNCHANGED held
                  \/ /\ evicting /\ evictions # <<>> /\ records' \subseteq records
                     /\ held' = held \ {dir[Head(evictions).ws]}
<1> USE DEF IInv
<1> DEFINE Removal ==
      /\ UNCHANGED <<published, aborted>>
      /\ records' \subseteq records \cup (Calls \ published)
      /\ \A c \in records \ records' : c \in aborted \/ c \notin published
      /\ \/ UNCHANGED held
         \/ /\ evicting /\ evictions # <<>> /\ records' \subseteq records
            /\ held' = held \ {dir[Head(evictions).ws]}
<1>1. UNCHANGED dir
  BY LiveShrinks
<1>2. ASSUME ClientStep \/ UNCHANGED vars
      PROVE  UNCHANGED <<published, records, held>> /\ aborted \subseteq aborted'
  BY <1>2 DEF ClientStep, vars, recordVars, ownerVars, BeginCreate, RejectDuplicate,
     Delete, DeleteRecords, ReleaseCreationRequest, CancelCreationRequest,
     ReleaseWorktreeDeletion, ReserveWorktreeDeletion, BeginShutdown
<1>3. ASSUME NEW c \in Calls, \/ RefuseCreate(c) \/ LaunchTimesOut(c) \/ CreateRejects(c)
                              \/ SetupSettles(c) \/ EnterLocation(c) \/ CatchLaunch(c)
                              \/ DeleteTimesOut(c)
      PROVE  UNCHANGED <<published, records, held>> /\ aborted \subseteq aborted'
  BY <1>3 DEF RefuseCreate, LaunchTimesOut, CreateRejects, SetupSettles,
     EnterLocation, CatchLaunch, DeleteTimesOut, recordVars, ownerVars
<1>10. ASSUME NEW c \in Calls, DaemonLoads(c)
       PROVE  UNCHANGED <<published, records, aborted>> /\ held' = held \cup {dir[c]}
  BY <1>10 DEF DaemonLoads, recordVars
<1>4. ASSUME NEW c \in Calls, Reserve(c)
      PROVE  Removal
  <2>1. c \notin published
    BY <1>4 DEF Reserve, LaunchOK
  <2>. QED  BY <1>4, <2>1 DEF Reserve, ownerVars
<1>5. ASSUME NEW c \in Calls, FailLaunch(c)
      PROVE  Removal
  <2>1. c \notin published
    BY <1>5 DEF FailLaunch, LaunchOK
  <2>. QED  BY <1>5, <2>1 DEF FailLaunch, RemoveRecords, recordVars, ownerVars
<1>6. ASSUME NEW c \in Calls, CleanupEvicts(c)
      PROVE  Removal
  <2>1. c \in aborted
    BY <1>6 DEF CleanupEvicts, AbortOK
  <2>. QED  BY <1>6, <2>1 DEF CleanupEvicts, RemoveRecords, recordVars, ownerVars
<1>7. ASSUME NEW result \in {"stopped", "failed"}, FinishShutdown(result)
      PROVE  Removal
  <2>1. records \subseteq aborted
    BY <1>7 DEF FinishShutdown, AbortOK, ShuttingDown
  <2>. QED  BY <1>7, <2>1 DEF FinishShutdown, RemoveRecords, ownerVars
<1>8. ASSUME StartEviction
      PROVE  UNCHANGED <<published, records, held>> /\ aborted \subseteq aborted'
  BY <1>8 DEF StartEviction, recordVars, ownerVars
<1>9. ASSUME SkipEviction \/ EvictionSucceeds \/ EvictionFails
      PROVE  Removal
  <2> DEFINE job == Head(evictions)
  <2>1. /\ evictions # <<>> /\ UNCHANGED <<published, aborted>>
        /\ records' \subseteq records
        /\ \/ UNCHANGED records
           \/ job.kind = "cleanup" /\ records' = records \ {job.ws}
    BY <1>9 DEF SkipEviction, EvictionSucceeds, EvictionFails, EvictionReturns,
       RemoveRecords, recordVars, EvictionIsExclusive
  <2>2. UNCHANGED held \/ (evicting /\ held' = held \ {dir[job.ws]})
    BY <1>9 DEF SkipEviction, EvictionSucceeds, EvictionFails
  <2>3. Head(evictions) = evictions[1] /\ 1 \in 1..Len(evictions)
    BY <2>1, PopJob DEF TypeOK
  <2>4. job.ws \in Calls
    BY <2>3, JobTypes
  <2>5. job.kind = "cleanup" => job.ws \in aborted
    BY <2>3, <2>4 DEF JobsOK, AbortOK
  <2> HIDE DEF job
  <2>6. /\ records' \subseteq records \cup (Calls \ published)
        /\ \A c \in records \ records' : c \in aborted \/ c \notin published
    BY <2>1, <2>5
  <2>. QED  BY <2>1, <2>2, <2>6 DEF job
<1>. QED
  BY <1>1, <1>2, <1>3, <1>4, <1>5, <1>6, <1>7, <1>8, <1>9, <1>10
     DEF Next, LaunchStep, EvictionStep

\* The manager implements the contract its clients see: a workspace opens once and
\* with its location held, is given up before it closes, never comes back, and no
\* location is released under an open one.
THEOREM LifecycleImplementsContract == Spec => ImplementsContract
<1>1. Init => Contract!Init
  BY DEF Init, Contract!Init, Status
<1>2. IInv /\ [Next]_vars => [Contract!Next]_(Contract!contractVars)
  <2>. SUFFICES ASSUME IInv, [Next]_vars
                PROVE  Contract!Next \/ UNCHANGED Contract!contractVars
    OBVIOUS
  <2> USE DEF IInv
  <2> DEFINE st == [c \in Calls |-> Status(c)]
  <2>0. \A w \in Calls : st[w] = Status(w)
    OBVIOUS
  <2>1. Contract!Open = Live
    BY DEF Contract!Open, Status, Live, TypeOK
  <2>2. ASSUME NEW c \in Calls, NEW located \in BOOLEAN, NEW headers \in BOOLEAN,
               ValidationSettles(c, located, headers)
        PROVE  Contract!Next \/ UNCHANGED Contract!contractVars
    <3>1. /\ UNCHANGED <<dir, records, aborted>> /\ launch[c] = "validating"
          /\ held' = IF located THEN held \cup {dir[c]} ELSE held
          /\ published' = IF LaunchSucceeds(c, located, headers)
                          THEN published \cup {c} ELSE published
      BY <2>2 DEF ValidationSettles
    <3>2. CASE LaunchSucceeds(c, located, headers)
      <4>1. /\ c \notin published /\ c \in records /\ c \notin aborted
            /\ published' = published \cup {c} /\ held' = held \cup {dir[c]}
        BY <3>1, <3>2 DEF LaunchSucceeds, LaunchOK, Running
      <4>2. Status(c) = "absent"
        BY <4>1 DEF Status
      <4>3. \A w \in Calls : Status(w)' = IF w \in {c} THEN "open" ELSE Status(w)
        BY <3>1, <4>1 DEF Status
      <4>4. Contract!OpenWorkspace(c)
        BY <3>1, <4>1, <4>2, <4>3 DEF Contract!OpenWorkspace, Contract!Move
      <4>. QED  BY <4>4 DEF Contract!Next
    <3>3. CASE ~LaunchSucceeds(c, located, headers)
      <4>1. \A w \in Calls : Status(w)' = Status(w)
        BY <3>1, <3>3 DEF Status
      <4>2. st' = st
        BY <4>1
      <4>3. CASE located
        <5>1. Contract!Load(dir[c])
          BY <3>1, <4>2, <4>3 DEF Contract!Load
        <5>2. dir[c] \in Directories
          BY DEF TypeOK
        <5>. QED  BY <5>1, <5>2 DEF Contract!Next
      <4>4. CASE ~located
        BY <3>1, <4>2, <4>4 DEF Contract!contractVars
      <4>. QED  BY <4>3, <4>4
    <3>. QED  BY <3>2, <3>3
  <2>3. ASSUME UNCHANGED <<dir, published, records, held>>, aborted \subseteq aborted'
        PROVE  Contract!Next
    <3> DEFINE S == Live \cap aborted'
    <3>1. \A w \in S : w \in Calls /\ Status(w) = "open"
      BY DEF Live, Status, TypeOK
    <3>2. \A w \in Calls : Status(w)' = IF w \in S THEN "closing" ELSE Status(w)
      BY <2>3 DEF Status, Live
    <3> HIDE DEF S
    <3>3. Contract!GiveUp(S)
      BY <2>3, <3>1, <3>2 DEF Contract!GiveUp, Contract!Move
    <3>4. S \in SUBSET Calls
      BY <3>1
    <3>. QED  BY <3>3, <3>4 DEF Contract!Next
  <2>4. ASSUME UNCHANGED <<dir, published, aborted>>,
               records' \subseteq records \cup (Calls \ published),
               \A c \in records \ records' : c \in aborted \/ c \notin published,
               NEW released \in SUBSET Directories, held' = held \ released,
               \A w \in Live : dir[w] \notin released
        PROVE  Contract!Next
    <3> DEFINE S == {c \in Calls \cap published : c \in records /\ c \notin records'}
    <3>1. \A w \in S : w \in Calls /\ Status(w) = "closing"
      BY <2>4 DEF Status
    <3>2. \A w \in Calls : Status(w)' = IF w \in S THEN "closed" ELSE Status(w)
      BY <2>4 DEF Status
    <3> HIDE DEF S
    <3>3. Contract!Close(S, released)
      BY <2>1, <2>4, <3>1, <3>2 DEF Contract!Close, Contract!Move
    <3>4. S \in SUBSET Calls
      BY <3>1
    <3>. QED  BY <3>3, <3>4 DEF Contract!Next
  <2>5. ASSUME evicting, evictions # <<>>
        PROVE  /\ {dir[Head(evictions).ws]} \in SUBSET Directories
               /\ \A w \in Live : dir[w] \notin {dir[Head(evictions).ws]}
    <3>1. Head(evictions) = evictions[1] /\ 1 \in 1..Len(evictions)
      BY <2>5, PopJob DEF TypeOK
    <3>2. Head(evictions).ws \in Calls
      BY <3>1, JobTypes
    <3>. QED  BY <2>5, <3>2 DEF EvictionIsExclusive, TypeOK
  <2>6. CASE /\ UNCHANGED <<dir, published, aborted>>
             /\ records' \subseteq records \cup (Calls \ published)
             /\ \A c \in records \ records' : c \in aborted \/ c \notin published
             /\ \/ UNCHANGED held
                \/ /\ evicting /\ evictions # <<>>
                   /\ held' = held \ {dir[Head(evictions).ws]}
    <3>1. CASE UNCHANGED held
      <4>1. {} \in SUBSET Directories /\ held' = held \ {} /\ \A w \in Live : dir[w] \notin {}
        BY <3>1
      <4>. QED  BY <2>4, <2>6, <4>1
    <3>2. CASE evicting /\ evictions # <<>> /\ held' = held \ {dir[Head(evictions).ws]}
      BY <2>4, <2>5, <2>6, <3>2
    <3>. QED  BY <2>6, <3>1, <3>2
  <2>7. ASSUME UNCHANGED <<dir, published, records, aborted>>,
               NEW c \in Calls, held' = held \cup {dir[c]}
        PROVE  Contract!Next
    <3>1. \A w \in Calls : Status(w)' = Status(w)
      BY <2>7 DEF Status
    <3>2. st' = st
      BY <3>1
    <3>3. Contract!Load(dir[c])
      BY <2>7, <3>2 DEF Contract!Load
    <3>4. dir[c] \in Directories
      BY DEF TypeOK
    <3>. QED  BY <3>3, <3>4 DEF Contract!Next
  <2>. QED  BY <2>2, <2>3, <2>6, <2>7, StatusMoves
<1>. QED  BY <1>1, <1>2, Inductive, PTL DEF Spec, ImplementsContract, Contract!Spec

\* Every published workspace that leaves the map is announced as stopped, and none
\* that is still listed is.
THEOREM RemovalsAreAnnounced == Spec => []StoppedIffRemoved
<1>1. Init => StoppedIffRemoved
  BY DEF Init, StoppedIffRemoved
<1>2. IInv /\ StoppedIffRemoved /\ [Next]_vars => StoppedIffRemoved'
  <2>. SUFFICES ASSUME IInv, StoppedIffRemoved, [Next]_vars
                PROVE  StoppedIffRemoved'
    OBVIOUS
  <2> USE DEF IInv
  <2>remove. ASSUME NEW S, NEW publish \in BOOLEAN, RemoveRecords(S, publish),
                    publish \/ S \cap published = {}
             PROVE  StoppedIffRemoved'
    BY <2>remove DEF RemoveRecords, StoppedIffRemoved
  <2>same. ASSUME UNCHANGED recordVars
           PROVE  StoppedIffRemoved'
    BY <2>same DEF recordVars, StoppedIffRemoved
  <2>1. CASE ClientStep \/ UNCHANGED vars
    BY <2>1, <2>same DEF ClientStep, vars, BeginCreate, RejectDuplicate, Delete,
       ReleaseCreationRequest, CancelCreationRequest, ReleaseWorktreeDeletion,
       ReserveWorktreeDeletion, BeginShutdown
  <2>2. ASSUME NEW c \in Calls, \/ RefuseCreate(c) \/ LaunchTimesOut(c) \/ CreateRejects(c)
                                \/ SetupSettles(c) \/ EnterLocation(c) \/ CatchLaunch(c)
                                \/ DeleteTimesOut(c) \/ DaemonLoads(c)
        PROVE  StoppedIffRemoved'
    BY <2>2, <2>same DEF RefuseCreate, LaunchTimesOut, CreateRejects, SetupSettles,
       EnterLocation, CatchLaunch, DeleteTimesOut, DaemonLoads
  <2>3. ASSUME NEW c \in Calls, Reserve(c)
        PROVE  StoppedIffRemoved'
    BY <2>3 DEF Reserve, LaunchOK, StoppedIffRemoved
  <2>4. ASSUME NEW c \in Calls, NEW located \in BOOLEAN, NEW headers \in BOOLEAN,
               ValidationSettles(c, located, headers)
        PROVE  StoppedIffRemoved'
    <3>1. CASE LaunchSucceeds(c, located, headers)
      <4>1. c \in records
        BY <2>4, <3>1 DEF ValidationSettles, LaunchSucceeds, LaunchOK, Running
      <4>. QED  BY <2>4, <3>1, <4>1 DEF ValidationSettles, StoppedIffRemoved
    <3>2. CASE ~LaunchSucceeds(c, located, headers)
      BY <2>4, <3>2 DEF ValidationSettles, StoppedIffRemoved
    <3>. QED  BY <3>1, <3>2
  <2>5. ASSUME NEW c \in Calls, FailLaunch(c)
        PROVE  StoppedIffRemoved'
    <3>1. c \notin published
      BY <2>5 DEF FailLaunch, LaunchOK
    <3>2. UNCHANGED recordVars \/ RemoveRecords({c}, FALSE)
      BY <2>5, <3>1 DEF FailLaunch, RemoveRecords
    <3>. QED  BY <2>same, <2>remove, <3>1, <3>2
  <2>6. ASSUME NEW c \in Calls, CleanupEvicts(c)
        PROVE  StoppedIffRemoved'
    BY <2>6, <2>same, <2>remove DEF CleanupEvicts
  <2>7. CASE EvictionStep
    <3>1. UNCHANGED recordVars \/ \E S : RemoveRecords(S, TRUE)
      BY <2>7 DEF EvictionStep, StartEviction, SkipEviction, EvictionSucceeds,
         EvictionFails, EvictionReturns
    <3>. QED  BY <2>same, <2>remove, <3>1
  <2>8. ASSUME NEW result \in {"stopped", "failed"}, FinishShutdown(result)
        PROVE  StoppedIffRemoved'
    BY <2>8, <2>remove DEF FinishShutdown
  <2>. QED
    BY <2>1, <2>2, <2>3, <2>4, <2>5, <2>6, <2>7, <2>8 DEF Next, LaunchStep
<1>. QED  BY <1>1, <1>2, Inductive, PTL DEF Spec
=============================================================================
