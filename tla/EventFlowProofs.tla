--------------------------- MODULE EventFlowProofs ---------------------------
(***************************************************************************)
(* The fences of WorktreeInventory hold for any number of reads,           *)
(* invalidations, entries and versions of the disk; and a transcript that  *)
(* owes no snapshot is exact, for any number of events, sizes of the queue *)
(* and the page, failing reads and projections that are destroyed.         *)
(***************************************************************************)
EXTENDS EventFlow, FiniteSetTheorems, SequenceTheorems, WellFoundedInduction, TLAPS

\* The revision of an entry counts invalidations, so it stays below their bound.
RevisionOK == \A e \in Entries : entry[e].revision <= invalidations

\* A scan never knows a revision its entry has not reached, and one that is still
\* up to date answers with worktrees from after the last invalidation.
ScanOK ==
  /\ \A e \in Entries : scan[e].revision <= entry[e].revision
  /\ current # 0 /\ scan[current].stage = "answered" /\ ~Overtaken(current)
       => scan[current].result >= fence

\* Nobody touched an entry that was not created yet.
UnusedOK ==
  \A e \in Entries : e > created =>
    scan[e].stage = "none" /\ entry[e].value = 0 /\ entry[e].expired

\* Nobody remembers an invalidation that did not happen.
FenceOK ==
  /\ fence <= disk
  /\ \A c \in Readers : reader[c].fence <= fence

IInv ==
  /\ TypeOK /\ RevisionOK /\ ScanOK /\ UnusedOK /\ FenceOK
  /\ SnapshotIsFenced /\ StrictReadIsFenced

-----------------------------------------------------------------------------
(* What the records hold *)

\* The numbers of a state are numbers.
LEMMA FieldTypes ==
  ASSUME TypeOK
  PROVE  /\ disk \in Nat /\ fence \in Nat /\ created \in Nat /\ current \in Nat
         /\ MaxInvalidations \in Nat /\ MaxDisk \in Nat /\ invalidations \in Nat
         /\ disk \in Versions /\ fence \in Versions
         /\ current # 0 => current \in Entries
         /\ \A e \in Entries :
              /\ e \in Nat \ {0}
              /\ entry[e] \in EntryStates /\ scan[e] \in Scans
              /\ entry[e].revision \in Nat /\ entry[e].value \in Nat
              /\ scan[e].revision \in Nat /\ scan[e].result \in Nat
              /\ entry[e].value \in Versions /\ scan[e].result \in Versions
         /\ \A c \in Readers :
              /\ reader[c] \in ReaderStates
              /\ reader[c].fence \in Nat /\ reader[c].value \in Nat
<1>. USE BoundAssumption DEF TypeOK, Entries, Versions
<1>1. disk \in Nat /\ fence \in Nat /\ created \in Nat /\ current \in Nat
      /\ MaxInvalidations \in Nat /\ MaxDisk \in Nat /\ invalidations \in Nat
      /\ disk \in Versions /\ fence \in Versions
      /\ (current # 0 => current \in Entries)
  OBVIOUS
<1>2. \A e \in Entries : e \in Nat \ {0} /\ entry[e] \in EntryStates /\ scan[e] \in Scans
  OBVIOUS
<1>3. \A s \in EntryStates : s.revision \in Nat /\ s.value \in Nat /\ s.value \in Versions
  BY DEF EntryStates
<1>4. \A s \in Scans : s.revision \in Nat /\ s.result \in Nat /\ s.result \in Versions
  BY DEF Scans
<1>5. \A c \in Readers : reader[c] \in ReaderStates
  OBVIOUS
<1>6. \A s \in ReaderStates : s.fence \in Nat /\ s.value \in Nat
  BY DEF ReaderStates
<1>. QED  BY <1>1, <1>2, <1>3, <1>4, <1>5, <1>6

\* Putting one record in place of another.
LEMMA Put ==
  ASSUME NEW I, NEW S, NEW f \in [I -> S], NEW i \in I, NEW s \in S
  PROVE  /\ [f EXCEPT ![i] = s] \in [I -> S]
         /\ [f EXCEPT ![i] = s][i] = s
         /\ \A j \in I : j # i => [f EXCEPT ![i] = s][j] = f[j]
  OBVIOUS

\* When the scan of e ends, those who wait for it stop waiting, and keep the rest.
LEMMA SettleEffect ==
  ASSUME TypeOK, NEW e \in Entries, NEW stage \in {"done", "failed"},
         NEW value \in Versions, Settle(e, stage, value)
  PROVE  /\ reader' \in [Readers -> ReaderStates]
         /\ \A c \in Readers :
              /\ reader'[c].fence = reader[c].fence
              /\ reader'[c].strict = reader[c].strict
              /\ reader'[c].entry = reader[c].entry
              /\ \/ reader'[c] = reader[c]
                 \/ /\ reader[c].stage = "waiting" /\ reader[c].entry = e
                    /\ reader'[c].stage = stage /\ reader'[c].value = value
<1>1. \A r \in ReaderStates :
        LET q == [r EXCEPT !.stage = stage, !.value = value] IN
          /\ q \in ReaderStates
          /\ q.fence = r.fence /\ q.strict = r.strict /\ q.entry = r.entry
          /\ q.stage = stage /\ q.value = value
  BY DEF ReaderStates
<1>2. \A c \in Readers : reader[c] \in ReaderStates
  BY DEF TypeOK
<1>. QED  BY <1>1, <1>2 DEF Settle

-----------------------------------------------------------------------------
(* Every step preserves the invariant *)

\* A scan that load starts knows the revision of its entry.
LEMMA LoadEffect ==
  ASSUME TypeOK, NEW e \in Entries
  PROVE  /\ Load(e) \in [Entries -> Scans]
         /\ \A f \in Entries : f # e => Load(e)[f] = scan[f]
         /\ \/ Load(e)[e] = scan[e]
            \/ Load(e)[e].stage = "started" /\ Load(e)[e].revision = entry[e].revision
<1>. DEFINE s == [stage |-> "started", revision |-> entry[e].revision, result |-> 0]
<1>1. s \in Scans /\ s.stage = "started" /\ s.revision = entry[e].revision
  <2>1. \A x \in EntryStates : x.revision \in 0..MaxInvalidations
    BY DEF EntryStates
  <2>. QED  BY <2>1, FieldTypes, BoundAssumption DEF Scans, Versions
<1>. HIDE DEF s
<1>2. scan \in [Entries -> Scans]
  BY DEF TypeOK
<1>3. Load(e) = scan \/ Load(e) = [scan EXCEPT ![e] = s]
  BY DEF Load, s
<1>. QED  BY <1>1, <1>2, <1>3, Put

LEMMA ReadStep ==
  ASSUME IInv, NEW c \in Readers, NEW mode \in Modes, Read(c, mode)
  PROVE  IInv'
<1>. DEFINE e == current'
            strict == mode # "cached" \/ entry[e].requireValidation
<1>. USE FieldTypes DEF IInv
<1>1. /\ e \in Entries /\ e \in 1..created' /\ created' \in created..MaxEntries
      /\ ReadEntry(c, mode, e)
      /\ e = current \/ (current = 0 /\ e > created)
      /\ UNCHANGED <<disk, entry, fence, invalidations, failures>>
  <2>1. /\ ReadEntry(c, mode, e)
        /\ \/ current # 0 /\ e = current /\ created' = created
           \/ /\ current = 0 /\ created < MaxEntries
              /\ e = created + 1 /\ created' = created + 1
        /\ UNCHANGED <<disk, entry, fence, invalidations, failures>>
    BY DEF Read, bounds
  <2>2. current \in 0..created /\ created \in 0..MaxEntries
    BY DEF TypeOK
  <2>3. MaxEntries \in Nat
    BY BoundAssumption
  <2>. HIDE DEF e, strict
  <2>4. e \in 1..created' /\ created' \in created..MaxEntries
    BY <2>1, <2>2, <2>3
  <2>5. e \in Entries
    BY <2>2, <2>3, <2>4 DEF Entries
  <2>6. e = current \/ (current = 0 /\ e > created)
    BY <2>1, <2>2
  <2>. QED  BY ONLY <2>1, <2>4, <2>5, <2>6
<1>. HIDE DEF e, strict
<1>2. scan' = scan \/ scan' = Load(e)
  BY <1>1 DEF ReadEntry
<1>3. /\ scan' \in [Entries -> Scans]
      /\ \A f \in Entries : f # e => scan'[f] = scan[f]
      /\ \/ scan'[e] = scan[e]
         \/ scan'[e].stage = "started" /\ scan'[e].revision = entry[e].revision
  BY <1>1, <1>2, LoadEffect DEF TypeOK
<1>4. /\ reader' \in [Readers -> ReaderStates]
      /\ \A d \in Readers : d # c => reader'[d] = reader[d]
      /\ reader'[c].fence = fence
      /\ \/ reader'[c].stage = "waiting"
         \/ /\ reader'[c].value = entry[e].value
            /\ \/ ~entry[e].expired
               \/ ~reader'[c].strict
  <2>. DEFINE done == [Call(c, mode, e, strict) EXCEPT !.stage = "done",
                                                       !.value = entry[e].value]
              wait == [Call(c, mode, e, strict) EXCEPT !.stage = "waiting"]
  <2>1. strict \in BOOLEAN /\ e \in 0..MaxEntries
    BY <1>1 DEF Entries, strict
  <2>2. /\ done \in ReaderStates /\ done.fence = fence /\ done.value = entry[e].value
        /\ done.strict = strict
        /\ wait \in ReaderStates /\ wait.fence = fence /\ wait.stage = "waiting"
    BY <1>1, <2>1 DEF ReaderStates, Call
  <2>3. reader \in [Readers -> ReaderStates]
    BY DEF TypeOK
  <2>4. \/ /\ reader' = [reader EXCEPT ![c] = done]
           /\ \/ ~entry[e].expired
              \/ ~strict
        \/ reader' = [reader EXCEPT ![c] = wait]
    BY <1>1 DEF ReadEntry, Returns, Waits, Displays, strict
  <2>. HIDE DEF done, wait
  <2>. QED  BY <2>2, <2>3, <2>4, Put
<1>5. TypeOK'
  BY <1>1, <1>3, <1>4 DEF TypeOK, e
<1>6. RevisionOK'
  BY <1>1 DEF RevisionOK
<1>7. ScanOK'
  BY <1>1, <1>3 DEF ScanOK, Overtaken, UnusedOK, e
<1>8. UnusedOK'
  BY <1>1, <1>3 DEF UnusedOK
<1>9. FenceOK'
  BY <1>1, <1>4 DEF FenceOK
<1>10. SnapshotIsFenced'
  BY <1>1 DEF SnapshotIsFenced, UnusedOK, e
<1>11. StrictReadIsFenced'
  BY <1>1, <1>4 DEF StrictReadIsFenced, SnapshotIsFenced, UnusedOK
<1>. QED  BY <1>5, <1>6, <1>7, <1>8, <1>9, <1>10, <1>11

\* What a scan reads is from after every invalidation so far.
LEMMA ScanReadsStep ==
  ASSUME IInv, NEW e \in Entries, ScanReads(e)
  PROVE  IInv'
<1>. DEFINE s == [scan[e] EXCEPT !.stage = "answered", !.result = disk]
<1>. USE FieldTypes DEF IInv
<1>1. /\ s \in Scans /\ s.stage = "answered" /\ s.result = disk
      /\ s.revision = scan[e].revision
  BY DEF Scans
<1>2. /\ scan' = [scan EXCEPT ![e] = s] /\ scan[e].stage = "started"
      /\ UNCHANGED <<disk, current, created, entry, reader, fence, invalidations, failures>>
  BY DEF ScanReads, bounds
<1>. HIDE DEF s
<1>3. /\ scan' \in [Entries -> Scans] /\ scan'[e] = s
      /\ \A f \in Entries : f # e => scan'[f] = scan[f]
  BY <1>1, <1>2, Put DEF TypeOK
<1>4. TypeOK'
  BY <1>2, <1>3 DEF TypeOK
<1>5. RevisionOK' /\ FenceOK' /\ SnapshotIsFenced' /\ StrictReadIsFenced'
  BY <1>2 DEF RevisionOK, FenceOK, SnapshotIsFenced, StrictReadIsFenced
<1>6. ScanOK'
  BY <1>1, <1>2, <1>3 DEF ScanOK, Overtaken, FenceOK
<1>7. UnusedOK'
  BY <1>1, <1>2, <1>3 DEF UnusedOK
<1>. QED  BY <1>4, <1>5, <1>6, <1>7

\* A scan that fails, or finds its workspace gone.
LEMMA ScanGivesUpStep ==
  ASSUME IInv, NEW e \in Entries, ScanFails(e) \/ ScanIsDisposed(e)
  PROVE  IInv'
<1>. DEFINE b == entry[e].backoff \/ scan[e].revision = entry[e].revision
            x == [entry[e] EXCEPT !.backoff = b]
<1>. USE FieldTypes DEF IInv
<1>1. /\ NoScan \in Scans /\ NoScan.stage = "none" /\ NoScan.revision = 0
  BY DEF Scans, NoScan, Versions
<1>2. /\ x \in EntryStates /\ x.value = entry[e].value
      /\ x.expired = entry[e].expired /\ x.revision = entry[e].revision
  <2>1. b \in BOOLEAN
    BY DEF EntryStates
  <2>. QED  BY <2>1 DEF EntryStates
<1>3. /\ scan' = [scan EXCEPT ![e] = NoScan] /\ entry' = [entry EXCEPT ![e] = x]
      /\ Settle(e, "failed", 0) /\ scan[e].stage # "none"
      /\ UNCHANGED <<disk, current, created, fence, invalidations>>
      /\ failures' \in 0..MaxFailures
  BY BoundAssumption DEF ScanFails, ScanIsDisposed, bounds, TypeOK
<1>. HIDE DEF x
<1>4. /\ scan' \in [Entries -> Scans] /\ scan'[e] = NoScan
      /\ \A f \in Entries : f # e => scan'[f] = scan[f]
      /\ entry' \in [Entries -> EntryStates]
      /\ \A f \in Entries : /\ entry'[f].value = entry[f].value
                            /\ entry'[f].expired = entry[f].expired
                            /\ entry'[f].revision = entry[f].revision
  BY <1>1, <1>2, <1>3, Put DEF TypeOK
<1>5. /\ reader' \in [Readers -> ReaderStates]
      /\ \A c \in Readers :
           /\ reader'[c].fence = reader[c].fence
           /\ reader'[c] = reader[c] \/ reader'[c].stage = "failed"
  <2>1. 0 \in Versions
    BY BoundAssumption DEF Versions
  <2>. QED  BY <2>1, <1>3, SettleEffect
<1>6. TypeOK'
  BY <1>3, <1>4, <1>5 DEF TypeOK
<1>7. RevisionOK' /\ SnapshotIsFenced'
  BY <1>3, <1>4 DEF RevisionOK, SnapshotIsFenced
<1>8. FenceOK' /\ StrictReadIsFenced'
  BY <1>3, <1>5 DEF FenceOK, StrictReadIsFenced
<1>9. ScanOK'
  BY <1>1, <1>3, <1>4 DEF ScanOK, Overtaken
<1>10. UnusedOK'
  BY <1>1, <1>3, <1>4 DEF UnusedOK
<1>. QED  BY <1>6, <1>7, <1>8, <1>9, <1>10

LEMMA ScanRepeatsStep ==
  ASSUME IInv, NEW e \in Entries, ScanRepeats(e)
  PROVE  IInv'
<1>. USE FieldTypes DEF IInv
<1>1. /\ Repeated(e) \in Scans /\ Repeated(e).stage = "started"
      /\ Repeated(e).revision = entry[e].revision
  <2>1. \A x \in EntryStates : x.revision \in 0..MaxInvalidations
    BY DEF EntryStates
  <2>. QED  BY <2>1, BoundAssumption DEF Repeated, Scans, Versions
<1>2. /\ scan' = [scan EXCEPT ![e] = Repeated(e)] /\ scan[e].stage = "answered"
      /\ UNCHANGED <<disk, current, created, entry, reader, fence, invalidations, failures>>
  BY DEF ScanRepeats, bounds
<1>3. /\ scan' \in [Entries -> Scans] /\ scan'[e] = Repeated(e)
      /\ \A f \in Entries : f # e => scan'[f] = scan[f]
  BY <1>1, <1>2, Put DEF TypeOK
<1>4. TypeOK'
  BY <1>2, <1>3 DEF TypeOK
<1>5. RevisionOK' /\ FenceOK' /\ SnapshotIsFenced' /\ StrictReadIsFenced'
  BY <1>2 DEF RevisionOK, FenceOK, SnapshotIsFenced, StrictReadIsFenced
<1>6. ScanOK'
  BY <1>1, <1>2, <1>3 DEF ScanOK, Overtaken
<1>7. UnusedOK'
  BY <1>1, <1>2, <1>3 DEF UnusedOK
<1>. QED  BY <1>4, <1>5, <1>6, <1>7

\* The only step that ends a strict read of a running scan: the scan was not
\* overtaken, so what it read is from after every invalidation so far.
LEMMA ScanInstallsStep ==
  ASSUME IInv, NEW e \in Entries, ScanInstalls(e)
  PROVE  IInv'
<1>. DEFINE x == [entry[e] EXCEPT !.value = scan[e].result, !.expired = FALSE,
                                  !.backoff = FALSE, !.requireValidation = FALSE]
<1>. USE FieldTypes DEF IInv
<1>1. NoScan \in Scans /\ NoScan.stage = "none" /\ NoScan.revision = 0
  BY DEF Scans, NoScan, Versions
<1>2. /\ x \in EntryStates /\ x.value = scan[e].result
      /\ x.revision = entry[e].revision
  BY DEF EntryStates
<1>3. /\ scan' = [scan EXCEPT ![e] = NoScan] /\ entry' = [entry EXCEPT ![e] = x]
      /\ Settle(e, "done", scan[e].result)
      /\ UNCHANGED <<disk, current, created, fence, invalidations, failures>>
      /\ current = e /\ scan[e].stage = "answered" /\ ~Overtaken(e)
  BY DEF ScanInstalls, Disposed, bounds
<1>. HIDE DEF x
<1>4. /\ scan' \in [Entries -> Scans] /\ scan'[e] = NoScan
      /\ \A f \in Entries : f # e => scan'[f] = scan[f]
      /\ entry' \in [Entries -> EntryStates] /\ entry'[e] = x
      /\ \A f \in Entries : f # e => entry'[f] = entry[f]
  BY <1>1, <1>2, <1>3, Put DEF TypeOK
<1>5. /\ reader' \in [Readers -> ReaderStates]
      /\ \A c \in Readers :
           /\ reader'[c].fence = reader[c].fence
           /\ reader'[c] = reader[c] \/ reader'[c].value = scan[e].result
  BY <1>3, SettleEffect
<1>6. scan[e].result >= fence /\ e <= created
  BY <1>3 DEF ScanOK, TypeOK
<1>7. TypeOK'
  BY <1>3, <1>4, <1>5 DEF TypeOK
<1>8. RevisionOK'
  BY <1>2, <1>3, <1>4 DEF RevisionOK
<1>9. SnapshotIsFenced'
  BY <1>2, <1>3, <1>4, <1>6 DEF SnapshotIsFenced
<1>10. FenceOK'
  BY <1>3, <1>5 DEF FenceOK
<1>11. StrictReadIsFenced'
  BY <1>3, <1>5, <1>6 DEF StrictReadIsFenced, FenceOK
<1>12. ScanOK'
  BY <1>1, <1>2, <1>3, <1>4 DEF ScanOK, Overtaken
<1>13. UnusedOK'
  BY <1>1, <1>3, <1>4, <1>6 DEF UnusedOK
<1>. QED  BY <1>7, <1>8, <1>9, <1>10, <1>11, <1>12, <1>13

\* An invalidation raises the revision, so no running scan answers for it.
LEMMA InvalidateStep ==
  ASSUME IInv, NEW blocking \in BOOLEAN, Invalidate(blocking)
  PROVE  IInv'
<1>. DEFINE x == Invalidated(current, blocking)
<1>. USE FieldTypes DEF IInv
<1>1. /\ entry' = [entry EXCEPT ![current] = x] /\ fence' = disk
      /\ invalidations' = invalidations + 1 /\ invalidations' \in 0..MaxInvalidations
      /\ current \in Entries /\ current <= created
      /\ UNCHANGED <<disk, current, created, scan, reader, failures>>
  BY BoundAssumption DEF Invalidate, TypeOK
<1>2. /\ x \in EntryStates /\ x.value = entry[current].value
      /\ x.expired /\ x.revision = entry[current].revision + 1
  <2>1. (entry[current].requireValidation \/ blocking) \in BOOLEAN
    BY <1>1 DEF EntryStates
  <2>2. entry[current].revision + 1 \in 0..MaxInvalidations
    BY <1>1 DEF RevisionOK
  <2>. QED  BY <1>1, <2>1, <2>2 DEF EntryStates, Invalidated
<1>. HIDE DEF x
<1>3. /\ entry' \in [Entries -> EntryStates] /\ entry'[current] = x
      /\ \A f \in Entries : f # current => entry'[f] = entry[f]
  BY <1>1, <1>2, Put DEF TypeOK
<1>4. TypeOK'
  BY <1>1, <1>3 DEF TypeOK
<1>5. RevisionOK'
  BY <1>1, <1>2, <1>3 DEF RevisionOK
<1>6. ScanOK'
  BY <1>1, <1>2, <1>3 DEF ScanOK, Overtaken
<1>7. SnapshotIsFenced'
  BY <1>1, <1>2, <1>3 DEF SnapshotIsFenced
<1>8. FenceOK' /\ StrictReadIsFenced'
  BY <1>1 DEF FenceOK, StrictReadIsFenced
<1>9. UnusedOK'
  BY <1>1, <1>2, <1>3 DEF UnusedOK
<1>. QED  BY <1>4, <1>5, <1>6, <1>7, <1>8, <1>9

\* The clock passes expiresAt or retryAt.
LEMMA ClockStep ==
  ASSUME IInv, Expires \/ BackoffEnds
  PROVE  IInv'
<1>. DEFINE x == [entry[current] EXCEPT !.expired = TRUE]
            y == [entry[current] EXCEPT !.backoff = FALSE]
<1>. USE FieldTypes DEF IInv
<1>1. /\ entry' = [entry EXCEPT ![current] = x] \/ entry' = [entry EXCEPT ![current] = y]
      /\ current \in Entries
      /\ UNCHANGED <<disk, current, created, scan, reader, fence, invalidations, failures>>
  BY DEF Expires, BackoffEnds, bounds
<1>2. /\ x \in EntryStates /\ x.value = entry[current].value /\ x.expired
      /\ x.revision = entry[current].revision
      /\ y \in EntryStates /\ y.value = entry[current].value
      /\ y.expired = entry[current].expired /\ y.revision = entry[current].revision
  BY <1>1 DEF EntryStates
<1>. HIDE DEF x, y
<1>3. /\ entry' \in [Entries -> EntryStates]
      /\ \A f \in Entries : /\ entry'[f].value = entry[f].value
                            /\ entry[f].expired => entry'[f].expired
                            /\ entry'[f].revision = entry[f].revision
  BY <1>1, <1>2, Put DEF TypeOK
<1>4. TypeOK'
  BY <1>1, <1>3 DEF TypeOK
<1>5. RevisionOK' /\ ScanOK' /\ UnusedOK'
  BY <1>1, <1>3 DEF RevisionOK, ScanOK, Overtaken, UnusedOK
<1>6. SnapshotIsFenced' /\ FenceOK' /\ StrictReadIsFenced'
  BY <1>1, <1>3 DEF SnapshotIsFenced, FenceOK, StrictReadIsFenced
<1>. QED  BY <1>4, <1>5, <1>6

\* The steps that touch neither entries, nor scans, nor reads.
LEMMA OtherStep ==
  ASSUME IInv, Forget \/ ChangeDisk \/ UNCHANGED vars
  PROVE  IInv'
<1>. USE FieldTypes DEF IInv
<1>1. /\ UNCHANGED <<created, entry, scan, reader, fence, invalidations, failures>>
      /\ current' = current \/ current' = 0
      /\ disk' \in 1..MaxDisk /\ disk' >= disk
  BY DEF Forget, ChangeDisk, vars, bounds, TypeOK
<1>2. TypeOK'
  BY <1>1 DEF TypeOK
<1>3. RevisionOK' /\ UnusedOK' /\ FenceOK' /\ StrictReadIsFenced'
  BY <1>1 DEF RevisionOK, UnusedOK, FenceOK, StrictReadIsFenced
<1>4. ScanOK' /\ SnapshotIsFenced'
  BY <1>1 DEF ScanOK, SnapshotIsFenced, Overtaken
<1>. QED  BY <1>2, <1>3, <1>4

-----------------------------------------------------------------------------
(* The theorems *)

\* The inductive invariant: revisions order the scans of an entry against the
\* invalidations of it.
THEOREM Inductive == Spec => []IInv
<1>1. Init => IInv
  BY SMTT(30), BoundAssumption
  DEF Init, IInv, TypeOK, ScanOK, UnusedOK, FenceOK, RevisionOK, SnapshotIsFenced,
      StrictReadIsFenced, Entries, Versions, Modes, EntryStates, Scans, ReaderStates,
      NoScan
<1>2. IInv /\ [Next]_vars => IInv'
  BY ReadStep, ScanReadsStep, ScanGivesUpStep, ScanRepeatsStep, ScanInstallsStep,
     InvalidateStep, ClockStep, OtherStep
  DEF Next, Scan
<1>. QED  BY <1>1, <1>2, PTL DEF Spec

\* The entries, their scans and the reads keep their types.
THEOREM TypeCorrect == Spec => []TypeOK
  BY Inductive, PTL DEF IInv

\* No scan that an invalidation overtook replaces the snapshot, however many scans,
\* reads and invalidations there are.
THEOREM SnapshotsAreFenced == Spec => []SnapshotIsFenced
  BY Inductive, PTL DEF IInv

\* A read that authorizes a directory never answers with worktrees from before the
\* last invalidation that preceded it.
THEOREM StrictReadsAreFenced == Spec => []StrictReadIsFenced
  BY Inductive, PTL DEF IInv

\* Only a scan of the entry in the map ends a read with a result.
THEOREM ReturnsAreCurrent == Spec => OnlyCurrentIsReturned
<1>. DEFINE Returned ==
       \A c \in Readers :
         reader[c].stage = "waiting" /\ reader'[c].stage = "done"
           => reader[c].entry = current
<1>1. TypeOK /\ [Next]_vars => [Returned]_vars
  <2>. SUFFICES ASSUME TypeOK, Next
                PROVE  Returned
    OBVIOUS
  <2>1. ASSUME NEW c \in Readers, NEW mode \in Modes, Read(c, mode)
        PROVE  Returned
    <3>1. /\ reader[c].stage = "idle"
          /\ \A d \in Readers : d # c => reader'[d] = reader[d]
      BY <2>1 DEF Read, ReadEntry, Returns, Waits, TypeOK
    <3>. QED  BY <3>1
  <2>2. ASSUME NEW e \in Entries, Scan(e)
        PROVE  Returned
    <3>1. CASE ScanReads(e) \/ ScanRepeats(e)
      BY <3>1 DEF ScanReads, ScanRepeats
    <3>2. CASE ScanFails(e) \/ ScanIsDisposed(e)
      <4>1. 0 \in Versions /\ Settle(e, "failed", 0)
        BY <3>2, BoundAssumption DEF Versions, ScanFails, ScanIsDisposed
      <4>. QED  BY <4>1, SettleEffect
    <3>3. CASE ScanInstalls(e)
      <4>1. current = e /\ Settle(e, "done", scan[e].result)
        BY <3>3 DEF ScanInstalls, Disposed
      <4>. QED  BY <4>1, SettleEffect, FieldTypes
    <3>. QED  BY <2>2, <3>1, <3>2, <3>3 DEF Scan
  <2>3. ASSUME UNCHANGED reader
        PROVE  Returned
    BY <2>3
  <2>4. CASE (\E blocking \in BOOLEAN : Invalidate(blocking)) \/ Forget \/ Expires
             \/ BackoffEnds \/ ChangeDisk
    BY <2>3, <2>4 DEF Invalidate, Forget, Expires, BackoffEnds, ChangeDisk
  <2>. QED  BY <2>1, <2>2, <2>4 DEF Next
<1>. QED  BY <1>1, TypeCorrect, PTL DEF Spec, OnlyCurrentIsReturned

-----------------------------------------------------------------------------
(* The transcript *)

AnEvent == [ids : SUBSET Nat, kind : Replay!Kinds]

ASet   == SUBSET Nat
AQueue == Seq(AnEvent)

AnEntry ==
  [alive : BOOLEAN, epoch : Nat, content : ASet, size : Int, queue : AQueue,
   rotating : BOOLEAN, rotation : Nat, owed : BOOLEAN, resyncing : BOOLEAN,
   resync : Nat, timer : BOOLEAN, retire : BOOLEAN, buffer : ASet, revision : Nat,
   misapplied : BOOLEAN, early : ASet]

AReader ==
  [epoch : Nat, resync : Nat, revision : Nat, stage : {"reading", "read"},
   content : SUBSET Nat]

TranscriptTyped ==
  /\ t \in AnEntry /\ readers \in SUBSET AReader
  /\ delivered \in Nat /\ due \in SUBSET Nat /\ due \subseteq 1..delivered

Before(A, B) == \A a \in A, b \in B : a < b

\* The events that an entry shows or keeps for later.
Reflected(x) == x.content \cup x.buffer \cup UNION {x.queue[i].ids : i \in DOMAIN x.queue}

\* What is shown is older than what waits in the queue, in its order, and that is older than
\* the deltas in the buffer.
InOrder(x) ==
  /\ Before(x.content, x.buffer)
  /\ \A i \in DOMAIN x.queue :
       /\ Before(x.content, x.queue[i].ids) /\ Before(x.queue[i].ids, x.buffer)
       /\ \A j \in DOMAIN x.queue : i < j => Before(x.queue[i].ids, x.queue[j].ids)
  /\ ~x.misapplied

\* Events wait for a rotation only; one that owes a snapshot or is gone keeps no queue.
Settled(x) ==
  /\ x.resyncing => x.owed
  /\ x.owed \/ ~x.rotating => x.queue = <<>>
  /\ ~x.alive => x.buffer = {} /\ ~x.owed /\ ~x.rotating

\* The events of D are shown or wait, unless a snapshot is owed.
Covers(x, D) == x.alive /\ ~x.owed => D \subseteq Reflected(x)

\* An entry of a transcript of d events, which has to reflect those of D.
Good(x, d, D) ==
  /\ x \in AnEntry /\ Reflected(x) \subseteq 1..d
  /\ InOrder(x) /\ Settled(x) /\ Covers(x, D)

\* A snapshot that was read holds every event, unless one arrived since it was asked for;
\* and the numbers of the entry run ahead of those that the readers know.
ReaderOK(k) ==
  /\ k.epoch <= t.epoch
  /\ k.epoch = t.epoch => k.resync <= t.resync
  /\ t.alive /\ k.epoch = t.epoch => k.revision <= t.revision
  /\ Replay!Resyncs(k) /\ k.stage = "read" /\ k.revision = t.revision
       => 1..delivered \subseteq k.content /\ t.buffer = {}

ReadersOK == \A k \in readers : ReaderOK(k)

TranscriptInv == TranscriptTyped /\ Good(t, delivered, due) /\ ReadersOK

-----------------------------------------------------------------------------
(* What becomes of an entry *)

\* The numbers of an entry are numbers, its sets hold numbers.
LEMMA Numbers ==
  ASSUME NEW x \in AnEntry
  PROVE  /\ x.epoch \in Nat /\ x.rotation \in Nat /\ x.resync \in Nat /\ x.revision \in Nat
         /\ x.size \in Int /\ x.content \subseteq Nat /\ x.buffer \subseteq Nat
         /\ x.queue \in Seq(AnEvent)
         /\ x.rotation + 1 \in Nat /\ x.resync + 1 \in Nat
         /\ \A i \in DOMAIN x.queue : x.queue[i].ids \subseteq Nat
<1>1. /\ x.epoch \in Nat /\ x.rotation \in Nat /\ x.resync \in Nat /\ x.revision \in Nat
      /\ x.size \in Int /\ x.content \subseteq Nat /\ x.buffer \subseteq Nat
      /\ x.queue \in Seq(AnEvent)
  BY DEF AnEntry, ASet, AQueue
<1>2. \A i \in DOMAIN x.queue : x.queue[i] \in AnEvent
  BY <1>1
<1>3. \A e \in AnEvent : e.ids \subseteq Nat
  BY DEF AnEvent
<1>4. x.rotation + 1 \in Nat /\ x.resync + 1 \in Nat
  BY <1>1
<1>. QED  BY <1>1, <1>2, <1>3, <1>4, Zenon

LEMMA NoQueue == <<>> \in AQueue
BY DEF AQueue

\* What another entry for the same reads has in common with x.
Alike(x, y) ==
  /\ y.alive = x.alive /\ y.epoch = x.epoch /\ y.resync = x.resync
  /\ y.revision = x.revision /\ y.resyncing = x.resyncing

\* What is reflected, and its order, is a matter of four fields.
LEMMA ShowsTheSame ==
  ASSUME NEW x, NEW y, y.content = x.content, y.buffer = x.buffer, y.queue = x.queue,
         y.misapplied = x.misapplied
  PROVE  Reflected(y) = Reflected(x) /\ (InOrder(x) => InOrder(y))
<1>1. Reflected(y) = Reflected(x)
  BY Zenon DEF Reflected
<1>2. InOrder(x) => InOrder(y)
  BY ZenonT(60) DEF InOrder
<1>. QED  BY <1>1, <1>2

\* A resynchronization is scheduled.
LEMMA GoodSchedule ==
  ASSUME NEW d \in Nat, NEW D \in SUBSET Nat, NEW x, Good(x, d, D), x.alive, x.queue = <<>>
  PROVE  /\ Good(Replay!Schedule(x), d, D)
         /\ Alike(x, Replay!Schedule(x)) /\ Replay!Schedule(x).buffer = x.buffer
         /\ Replay!Schedule(x).owed
<1> DEFINE y == Replay!Schedule(x)
<1>1. x \in AnEntry
  BY DEF Good
<1>2. y = [x EXCEPT !.owed = TRUE, !.timer = x.timer \/ ~x.resyncing]
  BY Zenon DEF Replay!Schedule
<1> HIDE DEF y
<1>3. /\ y \in AnEntry /\ y.owed /\ Alike(x, y)
      /\ y.content = x.content /\ y.buffer = x.buffer /\ y.queue = x.queue
      /\ y.misapplied = x.misapplied /\ y.rotating = x.rotating
  <2>1. PICK c \in BOOLEAN : c = (x.timer \/ ~x.resyncing)
    OBVIOUS
  <2>2. y = [x EXCEPT !.owed = TRUE, !.timer = c]
    BY <1>2, <2>1, Zenon
  <2>. QED  BY ONLY <1>1, <2>2, ZenonT(60) DEF AnEntry, Alike
<1>4. Reflected(y) = Reflected(x) /\ InOrder(y)
  BY <1>3, ShowsTheSame, Zenon DEF Good
<1>5. Settled(y) /\ Covers(y, D)
  BY <1>3, <1>4, Zenon DEF Good, Settled, Covers, Alike
<1>. QED  BY <1>3, <1>4, <1>5, Zenon DEF Good, y

\* Without its queue an entry still is in order.
LEMMA WithoutQueue ==
  ASSUME NEW x \in AnEntry, NEW y \in AnEntry, InOrder(x),
         y.queue = <<>>, y.content = x.content, y.buffer = x.buffer,
         y.misapplied = x.misapplied
  PROVE  InOrder(y) /\ Reflected(y) = x.content \cup x.buffer
<1>1. DOMAIN y.queue = {}
  <2>1. DOMAIN <<>> = {}
    OBVIOUS
  <2>. QED  BY <2>1, Zenon
<1>2. InOrder(y)
  BY <1>1, Zenon DEF InOrder
<1>3. {y.queue[i].ids : i \in DOMAIN y.queue} = {}
  BY <1>1
<1>. QED  BY <1>2, <1>3 DEF Reflected

\* An entry y that is x without its queue is good once a snapshot is owed for it.
LEMMA GivenUp ==
  ASSUME NEW d \in Nat, NEW D \in SUBSET Nat, NEW x \in AnEntry, x.alive,
         Reflected(x) \subseteq 1..d, InOrder(x), x.resyncing => x.owed,
         NEW y \in AnEntry, Alike(x, y), y.queue = <<>>, y.content = x.content,
         y.buffer = x.buffer, y.misapplied = x.misapplied, y.owed = x.owed
  PROVE  /\ Good(Replay!Schedule(y), d, D) /\ Alike(x, Replay!Schedule(y))
         /\ Replay!Schedule(y).buffer = x.buffer /\ Replay!Schedule(y).owed
<1>1. InOrder(y) /\ Reflected(y) \subseteq 1..d
  BY WithoutQueue DEF Reflected
<1>2. Settled(y) /\ y.alive
  BY Zenon DEF Settled, Alike
<1>3. Good(y, d, {})
  BY <1>1, <1>2 DEF Good, Covers
<1>4. Good(Replay!Schedule(y), d, {}) /\ Replay!Schedule(y).owed /\ Alike(y, Replay!Schedule(y))
      /\ Replay!Schedule(y).buffer = y.buffer
  BY <1>2, <1>3, GoodSchedule
<1>5. Good(Replay!Schedule(y), d, D)
  BY <1>4, Zenon DEF Good, Covers
<1>. QED  BY <1>4, <1>5, Zenon DEF Alike

\* The queue and the rotation are given up for a snapshot.
LEMMA GoodCleared ==
  ASSUME NEW d \in Nat, NEW D \in SUBSET Nat, NEW x \in AnEntry, x.alive,
         Reflected(x) \subseteq 1..d, InOrder(x), x.resyncing => x.owed,
         NEW y, y = [x EXCEPT !.queue = <<>>, !.rotation = x.rotation + 1, !.rotating = FALSE]
  PROVE  /\ Good(Replay!Schedule(y), d, D) /\ Alike(x, Replay!Schedule(y))
         /\ Replay!Schedule(y).buffer = x.buffer /\ Replay!Schedule(y).owed
<1>1. PICK q \in AQueue, n \in Nat : q = <<>> /\ n = x.rotation + 1
  BY Numbers, NoQueue, Zenon
<1>2. y = [x EXCEPT !.queue = q, !.rotation = n, !.rotating = FALSE]
  BY <1>1, Zenon
<1>3. y \in AnEntry /\ y.alive = x.alive /\ y.epoch = x.epoch /\ y.resync = x.resync
      /\ y.revision = x.revision /\ y.resyncing = x.resyncing /\ y.owed = x.owed
      /\ y.content = x.content /\ y.buffer = x.buffer /\ y.misapplied = x.misapplied
      /\ y.queue = q
  BY <1>2, ZenonT(60) DEF AnEntry
<1>4. y \in AnEntry /\ Alike(x, y) /\ y.queue = <<>> /\ y.content = x.content
      /\ y.buffer = x.buffer /\ y.misapplied = x.misapplied /\ y.owed = x.owed
  BY <1>1, <1>3, Zenon DEF Alike
<1>. QED  BY <1>4, GivenUp

\* The queue is given up for a snapshot.
LEMMA GoodCollapse ==
  ASSUME NEW d \in Nat, NEW D \in SUBSET Nat, NEW x \in AnEntry, x.alive,
         Reflected(x) \subseteq 1..d, InOrder(x), x.resyncing => x.owed
  PROVE  /\ Good(Replay!Collapse(x), d, D)
         /\ Alike(x, Replay!Collapse(x)) /\ Replay!Collapse(x).buffer = x.buffer
         /\ Replay!Collapse(x).owed
<1>3. CASE x.owed
  <2> DEFINE y == [x EXCEPT !.queue = <<>>]
  <2>0. y = [x EXCEPT !.queue = <<>>]
    OBVIOUS
  <2>3. Replay!Collapse(x) = Replay!Schedule(y)
    BY <1>3, Zenon DEF Replay!Collapse
  <2> HIDE DEF y
  <2>1. PICK q \in AQueue : q = <<>>
    BY NoQueue, Zenon
  <2>4. y = [x EXCEPT !.queue = q]
    BY <2>0, <2>1, Zenon
  <2>5. y \in AnEntry /\ y.alive = x.alive /\ y.epoch = x.epoch /\ y.resync = x.resync
        /\ y.revision = x.revision /\ y.resyncing = x.resyncing /\ y.owed = x.owed
        /\ y.content = x.content /\ y.buffer = x.buffer /\ y.misapplied = x.misapplied
        /\ y.queue = q
    BY <2>4, ZenonT(60) DEF AnEntry
  <2>2. y \in AnEntry /\ Alike(x, y) /\ y.queue = <<>> /\ y.content = x.content
        /\ y.buffer = x.buffer /\ y.misapplied = x.misapplied /\ y.owed = x.owed
    BY <2>1, <2>5, Zenon DEF Alike
  <2>6. /\ Good(Replay!Schedule(y), d, D) /\ Alike(x, Replay!Schedule(y))
        /\ Replay!Schedule(y).buffer = x.buffer /\ Replay!Schedule(y).owed
    BY <2>2, GivenUp
  <2>. QED  BY <2>3, <2>6, Zenon
<1>4. CASE ~x.owed
  <2> DEFINE y == [x EXCEPT !.queue = <<>>, !.rotation = x.rotation + 1, !.rotating = FALSE]
  <2>1. Replay!Collapse(x) = Replay!Schedule(y)
    BY <1>4, Zenon DEF Replay!Collapse
  <2>2. /\ Good(Replay!Schedule(y), d, D) /\ Alike(x, Replay!Schedule(y))
        /\ Replay!Schedule(y).buffer = x.buffer /\ Replay!Schedule(y).owed
    BY GoodCleared
  <2> HIDE DEF y
  <2>. QED  BY <2>1, <2>2, Zenon
<1>. QED  BY <1>3, <1>4

\* Everything that was scheduled or waits is called off.
LEMMA WhenInvalidated ==
  ASSUME NEW x \in AnEntry, NEW y, y = Replay!Invalidated(x)
  PROVE  /\ y \in AnEntry /\ y.alive = x.alive /\ y.epoch = x.epoch
         /\ y.revision = x.revision /\ y.resync = x.resync + 1
         /\ ~y.owed /\ ~y.resyncing /\ ~y.rotating /\ y.queue = <<>>
         /\ y.content = x.content /\ y.buffer = x.buffer /\ y.misapplied = x.misapplied
<1>1. PICK q \in AQueue, n \in Nat, m \in Nat :
        q = <<>> /\ n = x.rotation + 1 /\ m = x.resync + 1
  BY Numbers, NoQueue, Zenon
<1>2. y = [x EXCEPT !.timer = FALSE, !.resync = x.resync + 1, !.rotation = x.rotation + 1,
                    !.owed = FALSE, !.resyncing = FALSE, !.rotating = FALSE,
                    !.queue = <<>>]
  BY Zenon DEF Replay!Invalidated
<1>3. y = [x EXCEPT !.timer = FALSE, !.resync = m, !.rotation = n, !.owed = FALSE,
                    !.resyncing = FALSE, !.rotating = FALSE, !.queue = q]
  BY <1>1, <1>2, Zenon
<1>4. /\ y \in AnEntry /\ y.alive = x.alive /\ y.epoch = x.epoch
      /\ y.revision = x.revision /\ y.resync = m
      /\ ~y.owed /\ ~y.resyncing /\ ~y.rotating /\ y.queue = q
      /\ y.content = x.content /\ y.buffer = x.buffer /\ y.misapplied = x.misapplied
  BY <1>3, ZenonT(60) DEF AnEntry
<1>. QED  BY <1>1, <1>4, Zenon

\* An entry that is destroyed is gone, its numbers stay.
LEMMA GoodDestroyed ==
  ASSUME NEW d \in Nat, NEW D, NEW E, NEW x, Good(x, d, D)
  PROVE  /\ Good(Replay!Destroyed(x), d, E) /\ ~Replay!Destroyed(x).alive
         /\ Replay!Destroyed(x).epoch = x.epoch
         /\ Replay!Destroyed(x).resync >= x.resync
<1> DEFINE z == Replay!Invalidated(x)
           y == Replay!Destroyed(x)
<1>1. x \in AnEntry /\ Reflected(x) \subseteq 1..d /\ InOrder(x)
  BY Zenon DEF Good
<1>2. /\ z \in AnEntry /\ z.epoch = x.epoch /\ z.resync = x.resync + 1
      /\ ~z.owed /\ ~z.resyncing /\ ~z.rotating /\ z.queue = <<>>
      /\ z.content = x.content /\ z.misapplied = x.misapplied
  BY <1>1, WhenInvalidated
<1>3. y = [z EXCEPT !.alive = FALSE, !.buffer = {}, !.retire = FALSE, !.revision = 0]
  BY Zenon DEF Replay!Destroyed
<1> HIDE DEF z, y
<1>4. /\ y \in AnEntry /\ y.epoch = x.epoch /\ y.resync = x.resync + 1 /\ ~y.alive
      /\ ~y.owed /\ ~y.resyncing /\ ~y.rotating /\ y.queue = <<>> /\ y.buffer = {}
      /\ y.content = x.content /\ y.misapplied = x.misapplied
  <2>1. PICK c \in ASet : c = {}
    BY DEF ASet
  <2>2. y = [z EXCEPT !.alive = FALSE, !.buffer = c, !.retire = FALSE, !.revision = 0]
    BY <1>3, <2>1, Zenon
  <2>. QED  BY <1>2, <2>1, <2>2, ZenonT(60) DEF AnEntry
<1>5. DOMAIN y.queue = {} /\ Reflected(y) = x.content
  <2>1. DOMAIN <<>> = {}
    OBVIOUS
  <2>2. DOMAIN y.queue = {}
    BY <1>4, <2>1, Zenon
  <2>. QED  BY <1>4, <2>2 DEF Reflected
<1>6. Reflected(y) \subseteq 1..d
  BY <1>1, <1>5 DEF Reflected
<1>7. InOrder(y) /\ Settled(y) /\ Covers(y, E)
  BY <1>1, <1>4, <1>5 DEF InOrder, Settled, Covers, Before
<1>8. y.resync >= x.resync
  BY <1>1, <1>4, Numbers
<1>. QED  BY <1>4, <1>6, <1>7, <1>8 DEF Good, y

\* Retiring destroys the entry or leaves it as it is.
LEMMA GoodRetired ==
  ASSUME NEW d \in Nat, NEW D, NEW x, Good(x, d, D)
  PROVE  /\ Good(Replay!Retired(x), d, D)
         /\ \/ Replay!Retired(x) = x
            \/ /\ ~Replay!Retired(x).alive /\ Replay!Retired(x).epoch = x.epoch
               /\ Replay!Retired(x).resync >= x.resync
<1>1. Replay!Retired(x) \in {x, Replay!Destroyed(x)}
  BY DEF Replay!Retired
<1>2. Good(Replay!Destroyed(x), d, D) /\ ~Replay!Destroyed(x).alive
      /\ Replay!Destroyed(x).epoch = x.epoch /\ Replay!Destroyed(x).resync >= x.resync
  BY GoodDestroyed
<1>. QED  BY <1>1, <1>2, Zenon

-----------------------------------------------------------------------------
(* Events *)

\* A new projection shows nothing and waits for nothing.
LEMMA GoodCreated ==
  ASSUME NEW d \in Nat, NEW x, Good(x, d, {}), ~x.alive
  PROVE  /\ Good(Replay!Created(x), d, {}) /\ Replay!Created(x).alive
         /\ Replay!Created(x).epoch = x.epoch + 1
         /\ Replay!Created(x).buffer = {}
<1> DEFINE y == Replay!Created(x)
<1>1. x \in AnEntry /\ ~x.misapplied
  BY Zenon DEF Good, InOrder
<1>2. PICK q \in AQueue, c \in ASet, n \in Nat, m \in Nat :
        q = <<>> /\ c = {} /\ n = x.epoch + 1 /\ m = x.revision
  <2>1. {} \in ASet /\ x.epoch + 1 \in Nat /\ x.revision \in Nat
    BY <1>1, Numbers DEF ASet
  <2>. QED  BY <2>1, NoQueue, Zenon
<1>3. y = [Replay!Absent EXCEPT !.alive = TRUE, !.epoch = n, !.revision = m,
                                !.misapplied = x.misapplied]
  BY <1>2, Zenon DEF Replay!Created
<1>4. Replay!Absent =
        [alive |-> FALSE, epoch |-> 0, content |-> c, size |-> 0, queue |-> q,
         rotating |-> FALSE, rotation |-> 0, owed |-> FALSE, resyncing |-> FALSE,
         resync |-> 0, timer |-> FALSE, retire |-> FALSE, buffer |-> c, revision |-> 0,
         misapplied |-> FALSE, early |-> c]
  BY <1>2, Zenon DEF Replay!Absent
<1>5. x.misapplied = FALSE
  BY <1>1, ZenonT(60) DEF AnEntry
<1> HIDE DEF y
<1>6. y = [alive |-> TRUE, epoch |-> n, content |-> c, size |-> 0, queue |-> q,
         rotating |-> FALSE, rotation |-> 0, owed |-> FALSE, resyncing |-> FALSE,
         resync |-> 0, timer |-> FALSE, retire |-> FALSE, buffer |-> c, revision |-> m,
         misapplied |-> FALSE, early |-> c]
  BY <1>3, <1>4, <1>5
<1>7. /\ y \in AnEntry /\ y.alive /\ y.epoch = n /\ y.content = c /\ y.buffer = c
      /\ y.queue = q /\ ~y.rotating /\ ~y.owed /\ ~y.resyncing /\ ~y.misapplied
  BY <1>6, SMTT(30) DEF AnEntry
<1>8. InOrder(y) /\ Reflected(y) = {}
  <2>1. DOMAIN <<>> = {}
    OBVIOUS
  <2>2. DOMAIN y.queue = {}
    BY <1>2, <1>7, <2>1, Zenon
  <2>. QED  BY <1>2, <1>7, <2>2 DEF InOrder, Reflected, Before
<1>9. Settled(y)
  BY <1>2, <1>7, Zenon DEF Settled
<1>10. Good(y, d, {})
  BY <1>7, <1>8, <1>9 DEF Good, Covers
<1>. QED  BY <1>2, <1>7, <1>10, Zenon DEF y

\* What the events of ids may come after: everything that is shown or in the queue.
After(x, ids) ==
  /\ Before(x.content, ids) /\ \A i \in DOMAIN x.queue : Before(x.queue[i].ids, ids)

\* An event is reduced while nothing waits, or joins the buffer.
LEMMA GoodReduce ==
  ASSUME NEW d \in Nat, NEW x, Good(x, d, {}), NEW ids \in SUBSET (1..d),
         After(x, ids), NEW D \in SUBSET Nat, Covers(x, D), x.queue = <<>>, x.alive,
         x.buffer = {}, NEW e \in AnEvent, e.ids = ids
  PROVE  /\ Good(Replay!Reduce(x, e), d, D \cup ids)
         /\ Alike(x, Replay!Reduce(x, e)) /\ Replay!Reduce(x, e).buffer = x.buffer
<1> DEFINE y == Replay!Reduce(x, e)
<1>1. x \in AnEntry /\ Reflected(x) \subseteq 1..d /\ InOrder(x) /\ Settled(x)
  BY Zenon DEF Good
<1>2. PICK c \in ASet, n \in Int, b \in BOOLEAN :
        /\ c = x.content \cup ids
        /\ n = x.size + (IF e.kind = "append" THEN 1 ELSE 0)
        /\ b = (x.misapplied \/ \E i \in ids, k \in x.content : k >= i)
  <2>1. x.content \cup ids \in ASet
    BY <1>1, Numbers DEF ASet, AnEvent
  <2>2. x.size + (IF e.kind = "append" THEN 1 ELSE 0) \in Int
    BY <1>1, Numbers
  <2>. QED  BY <2>1, <2>2
<1>3. y = [x EXCEPT !.content = c, !.size = n, !.misapplied = b]
  BY <1>2, Zenon DEF Replay!Reduce
<1> HIDE DEF y
<1>4. /\ y \in AnEntry /\ Alike(x, y) /\ y.content = c /\ y.buffer = x.buffer
      /\ y.queue = x.queue /\ y.misapplied = b /\ y.owed = x.owed
      /\ y.rotating = x.rotating
  BY <1>1, <1>3, ZenonT(60) DEF AnEntry, Alike
<1>5. ~b
  <2>1. ~x.misapplied /\ x.content \subseteq Nat /\ ids \subseteq Nat
    BY <1>1, Numbers DEF InOrder
  <2>2. \A k \in x.content, i \in ids : k < i
    BY Zenon DEF After, Before
  <2>4. \A k, i \in Nat : k < i => ~(k >= i)
    OBVIOUS
  <2>3. \A k \in x.content, i \in ids : ~(k >= i)
    BY <2>1, <2>2, <2>4, Zenon
  <2>. QED  BY <1>2, <2>1, <2>3, Zenon
<1>6. DOMAIN <<>> = {}
  OBVIOUS
<1>7. DOMAIN y.queue = {} /\ DOMAIN x.queue = {}
  BY <1>4, <1>6, Zenon
<1>8. InOrder(y) /\ Reflected(y) = Reflected(x) \cup ids
  BY <1>2, <1>4, <1>5, <1>7 DEF InOrder, Reflected, Before
<1>9. Settled(y)
  BY <1>1, <1>4, Zenon DEF Settled, Alike
<1>10. Covers(y, D \cup ids)
  BY <1>4, <1>8 DEF Covers, Alike
<1>11. Reflected(y) \subseteq 1..d
  BY <1>1, <1>8
<1>. QED  BY <1>4, <1>8, <1>9, <1>10, <1>11, Zenon DEF Good, y

\* A rotation begins where events wait for one.
LEMMA GoodRotate ==
  ASSUME NEW d \in Nat, NEW D \in SUBSET Nat, NEW x \in AnEntry, x.alive,
         Reflected(x) \subseteq 1..d, InOrder(x), x.resyncing => x.owed,
         x.owed => x.queue = <<>>, Covers(x, D)
  PROVE  /\ Good(Replay!Rotate(x), d, D)
         /\ Alike(x, Replay!Rotate(x)) /\ Replay!Rotate(x).buffer = x.buffer
<1>1. CASE x.rotating \/ x.owed \/ x.resyncing \/ x.queue = <<>>
  <2>1. Replay!Rotate(x) = x
    BY <1>1, Zenon DEF Replay!Rotate
  <2>2. Settled(x)
    BY <1>1, Zenon DEF Settled
  <2>. QED  BY <2>1, <2>2, Zenon DEF Good, Alike
<1>2. CASE ~(x.rotating \/ x.owed \/ x.resyncing \/ x.queue = <<>>)
  <2> DEFINE y == Replay!Rotate(x)
  <2>1. PICK n \in Nat : n = x.rotation + 1
    BY Numbers, Zenon
  <2>2. y = [x EXCEPT !.rotating = TRUE, !.rotation = n]
    BY <1>2, <2>1, Zenon DEF Replay!Rotate
  <2> HIDE DEF y
  <2>3. /\ y \in AnEntry /\ Alike(x, y) /\ y.content = x.content /\ y.buffer = x.buffer
        /\ y.queue = x.queue /\ y.misapplied = x.misapplied /\ y.owed = x.owed
        /\ y.rotating
    BY <2>2, ZenonT(60) DEF AnEntry, Alike
  <2>4. Reflected(y) = Reflected(x) /\ InOrder(y)
    BY <2>3, ShowsTheSame, Zenon
  <2>5. Settled(y) /\ Covers(y, D)
    BY <1>2, <2>3, <2>4, Zenon DEF Settled, Covers, Alike
  <2>. QED  BY <2>3, <2>4, <2>5, Zenon DEF Good, y
<1>. QED  BY <1>1, <1>2

\* An event joins the end of the queue, which begins a rotation or gives up.
LEMMA GoodEnqueue ==
  ASSUME NEW d \in Nat, NEW x, Good(x, d, {}), NEW e \in AnEvent, e.ids \subseteq 1..d,
         After(x, e.ids), NEW D \in SUBSET Nat, Covers(x, D), x.alive, ~x.owed,
         x.buffer = {}
  PROVE  /\ Good(Replay!Enqueue(x, e), d, D \cup e.ids)
         /\ Alike(x, Replay!Enqueue(x, e)) /\ Replay!Enqueue(x, e).buffer = x.buffer
<1>1. x \in AnEntry /\ Reflected(x) \subseteq 1..d /\ InOrder(x) /\ Settled(x)
  BY Zenon DEF Good
<1> DEFINE y == [x EXCEPT !.queue = Append(x.queue, e)]
           E == D \cup e.ids
<1>2. PICK q \in AQueue : q = Append(x.queue, e)
  <2>1. Append(x.queue, e) \in AQueue
    BY <1>1, Numbers, AppendProperties DEF AQueue
  <2>. QED  BY <2>1, Zenon
<1>3. y = [x EXCEPT !.queue = q]
  BY <1>2, Zenon
<1>4. Replay!Enqueue(x, e) =
        Replay!Rotate(IF Len(y.queue) >= MaxQueue THEN Replay!Collapse(y) ELSE y)
  BY Zenon DEF Replay!Enqueue
<1>5. E \in SUBSET Nat
  BY DEF AnEvent
<1> HIDE DEF y, E
<1>6. /\ y \in AnEntry /\ Alike(x, y) /\ y.content = x.content /\ y.buffer = x.buffer
      /\ y.queue = q /\ y.misapplied = x.misapplied /\ y.owed = x.owed
  BY <1>1, <1>3, ZenonT(60) DEF AnEntry, Alike
<1>7. PICK l \in Nat : l = Len(x.queue)
  BY <1>1, Numbers
<1>8. /\ DOMAIN x.queue = 1..l /\ DOMAIN y.queue = 1..(l + 1)
      /\ \A i \in 1..l : y.queue[i] = x.queue[i]
      /\ y.queue[l + 1] = e
  <2>1. x.queue \in Seq(AnEvent)
    BY <1>1, Numbers
  <2>. QED  BY <1>2, <1>6, <1>7, <2>1
<1>9. \A i \in DOMAIN y.queue :
        \/ i \in DOMAIN x.queue /\ y.queue[i] = x.queue[i]
        \/ i = l + 1 /\ y.queue[i] = e
  BY <1>7, <1>8
<1>10. \A i, j \in DOMAIN y.queue : i < j => i \in DOMAIN x.queue
  BY <1>7, <1>8
<1>11. InOrder(y)
  <2>1. Before(y.content, y.buffer) /\ ~y.misapplied
    BY <1>1, <1>6, Zenon DEF InOrder
  <2>2. \A i \in DOMAIN y.queue :
          Before(y.content, y.queue[i].ids) /\ Before(y.queue[i].ids, y.buffer)
    <3>1. \A A : Before(A, {})
      BY DEF Before
    <3>. QED  BY <1>1, <1>6, <1>9, <3>1, Zenon DEF InOrder, After
  <2>3. ASSUME NEW i \in DOMAIN y.queue, NEW j \in DOMAIN y.queue, i < j
        PROVE  Before(y.queue[i].ids, y.queue[j].ids)
    BY <1>1, <1>8, <1>9, <1>10, <2>3, Zenon DEF InOrder, After
  <2>. QED  BY <2>1, <2>2, <2>3, Zenon DEF InOrder
<1>12. Reflected(y) = Reflected(x) \cup e.ids
  <2>1. DOMAIN x.queue \subseteq DOMAIN y.queue /\ l + 1 \in DOMAIN y.queue
    BY <1>7, <1>8
  <2>. QED  BY <1>6, <1>8, <1>9, <2>1 DEF Reflected
<1>13. Reflected(y) \subseteq 1..d /\ Covers(y, E)
  BY <1>1, <1>6, <1>12 DEF Covers, Alike, E
<1>14. y.alive /\ ~y.owed /\ ~y.resyncing
  BY <1>1, <1>6, Zenon DEF Settled, Alike
<1>15. CASE Len(y.queue) >= MaxQueue
  <2>1. /\ Good(Replay!Collapse(y), d, E) /\ Alike(y, Replay!Collapse(y))
        /\ Replay!Collapse(y).buffer = y.buffer /\ Replay!Collapse(y).owed
    BY <1>5, <1>6, <1>11, <1>13, <1>14, GoodCollapse
  <2>2. Replay!Enqueue(x, e) = Replay!Collapse(y)
    BY <1>4, <1>15, <2>1, Zenon DEF Replay!Rotate
  <2>. QED  BY <1>6, <2>1, <2>2, Zenon DEF Alike, E
<1>16. CASE ~(Len(y.queue) >= MaxQueue)
  <2>1. /\ Good(Replay!Rotate(y), d, E) /\ Alike(y, Replay!Rotate(y))
        /\ Replay!Rotate(y).buffer = y.buffer
    BY <1>5, <1>6, <1>11, <1>13, <1>14, GoodRotate
  <2>. QED  BY <1>4, <1>6, <1>16, <2>1, Zenon DEF Alike, E
<1>. QED  BY <1>15, <1>16

\* What is the same in two entries that show the same.
SameView(x, y) ==
  /\ y \in AnEntry /\ y.alive = x.alive /\ y.resyncing = x.resyncing /\ y.content = x.content /\ y.buffer = x.buffer
  /\ y.queue = x.queue /\ y.misapplied = x.misapplied /\ y.owed = x.owed
  /\ y.rotating = x.rotating

LEMMA GoodSame ==
  ASSUME NEW d, NEW D, NEW x, NEW y, Good(x, d, D), SameView(x, y)
  PROVE  /\ Good(y, d, D) /\ Reflected(y) = Reflected(x)
         /\ \A ids : After(x, ids) => After(y, ids)
<1>1. Reflected(y) = Reflected(x) /\ InOrder(y)
  BY ShowsTheSame, Zenon DEF Good, SameView
<1>2. Settled(y) /\ Covers(y, D)
  BY <1>1, Zenon DEF Good, SameView, Settled, Covers
<1>. QED  BY <1>1, <1>2, Zenon DEF Good, SameView, After

\* Whether an entry is to be retired, and how much it shows, is no part of this.
LEMMA PutRetire ==
  ASSUME NEW x \in AnEntry, NEW b \in BOOLEAN, NEW y, y = [x EXCEPT !.retire = b]
  PROVE  SameView(x, y) /\ Alike(x, y)
BY ZenonT(60) DEF AnEntry, SameView, Alike

LEMMA PutSize ==
  ASSUME NEW x \in AnEntry, NEW n \in Int, NEW y, y = [x EXCEPT !.size = n]
  PROVE  SameView(x, y) /\ Alike(x, y)
BY ZenonT(60) DEF AnEntry, SameView, Alike

LEMMA PutTimer ==
  ASSUME NEW x \in AnEntry, NEW b \in BOOLEAN, NEW y, y = [x EXCEPT !.timer = b]
  PROVE  SameView(x, y) /\ Alike(x, y)
BY ZenonT(60) DEF AnEntry, SameView, Alike

LEMMA PutRevision ==
  ASSUME NEW x \in AnEntry, NEW n \in Nat, NEW y, y = [x EXCEPT !.revision = n]
  PROVE  SameView(x, y) /\ y.epoch = x.epoch /\ y.resync = x.resync /\ y.revision = n
BY ZenonT(60) DEF AnEntry, SameView

\* A delta waits in the buffer, with those that came before it.
LEMMA GoodBuffer ==
  ASSUME NEW d \in Nat, NEW x, Good(x, d, {}), NEW ids \in SUBSET (1..d),
         After(x, ids), NEW D \in SUBSET Nat, Covers(x, D), x.alive,
         NEW y, y = [x EXCEPT !.buffer = x.buffer \cup ids]
  PROVE  Good(y, d, D \cup ids) /\ Alike(x, y)
<1>1. x \in AnEntry /\ Reflected(x) \subseteq 1..d /\ InOrder(x) /\ Settled(x)
  BY Zenon DEF Good
<1>2. PICK c \in ASet : c = x.buffer \cup ids
  <2>1. x.buffer \cup ids \in ASet
    BY <1>1, Numbers DEF ASet
  <2>. QED  BY <2>1, Zenon
<1>3. y = [x EXCEPT !.buffer = c]
  BY <1>2, Zenon
<1>4. /\ y \in AnEntry /\ Alike(x, y) /\ y.content = x.content /\ y.buffer = c
      /\ y.queue = x.queue /\ y.misapplied = x.misapplied /\ y.owed = x.owed
      /\ y.rotating = x.rotating
  BY <1>1, <1>3, ZenonT(60) DEF AnEntry, Alike
<1>5. \A A : Before(A, x.buffer) /\ Before(A, ids) => Before(A, c)
  BY <1>2 DEF Before
<1>6. InOrder(y)
  BY <1>1, <1>4, <1>5, Zenon DEF InOrder, After
<1>7. Reflected(y) = Reflected(x) \cup ids
  BY <1>2, <1>4 DEF Reflected
<1>8. Settled(y)
  BY <1>1, <1>4, Zenon DEF Settled, Alike
<1>9. Reflected(y) \subseteq 1..d /\ Covers(y, D \cup ids)
  BY <1>1, <1>4, <1>7 DEF Covers, Alike
<1>. QED  BY <1>4, <1>6, <1>8, <1>9, Zenon DEF Good

\* Whatever becomes of an event that follows all others, none is lost and the order stays.
LEMMA GoodAccept ==
  ASSUME NEW d \in Nat, NEW x, Good(x, d, {}), NEW e \in AnEvent, e.ids \subseteq 1..d,
         After(x, e.ids), NEW D \in SUBSET Nat, Covers(x, D), x.alive,
         NEW coalesced \in BOOLEAN,
         x.buffer = {} \/ (e.kind = "delta" /\ ~coalesced)
  PROVE  /\ Good(Replay!Accept(x, e, coalesced), d, D \cup e.ids)
         /\ Alike(x, Replay!Accept(x, e, coalesced))
         /\ coalesced => Replay!Accept(x, e, coalesced).buffer = x.buffer
<1> DEFINE y == Replay!Revived(x, e.kind)
           z == Replay!Accept(x, e, coalesced)
<1>1. SameView(x, y) /\ Alike(x, y)
  <2>1. x \in AnEntry
    BY Zenon DEF Good
  <2>2. SameView(x, x) /\ Alike(x, x)
    BY <2>1, Zenon DEF SameView, Alike
  <2>3. CASE e.kind = "append"
    <3> DEFINE w == [x EXCEPT !.retire = FALSE]
    <3>1. SameView(x, w) /\ Alike(x, w)
      BY <2>1, PutRetire
    <3>. QED  BY <2>3, <3>1, Zenon DEF Replay!Revived
  <2>. QED  BY <2>2, <2>3, Zenon DEF Replay!Revived
<1>2. Good(y, d, {}) /\ After(y, e.ids) /\ Reflected(y) = Reflected(x)
  BY <1>1, GoodSame
<1>3. Covers(y, D) /\ y.alive /\ (y.buffer = {} \/ (e.kind = "delta" /\ ~coalesced))
  <2>2. y.alive = x.alive /\ y.owed = x.owed /\ y.buffer = x.buffer
    BY <1>1, Zenon DEF SameView, Alike
  <2> HIDE DEF y
  <2>. QED  BY <1>2, <2>2, Zenon DEF Covers
<1>4. z = IF y.owed \/ y.resyncing THEN Replay!Collapse(y)
          ELSE IF e.kind = "delta" /\ ~coalesced
               THEN [y EXCEPT !.buffer = y.buffer \cup e.ids]
          ELSE IF y.rotating \/ (e.kind = "append" /\ y.size >= MaxMessages)
               THEN Replay!Enqueue(y, e)
          ELSE Replay!Reduce(y, e)
  BY Zenon DEF Replay!Accept
<1> DEFINE Fine == /\ Good(z, d, D \cup e.ids) /\ Alike(y, z)
                   /\ coalesced => z.buffer = y.buffer
<1>5. Fine => /\ Good(z, d, D \cup e.ids) /\ Alike(x, z)
              /\ coalesced => z.buffer = x.buffer
  BY <1>1, Zenon DEF SameView, Alike
<1>6. D \cup e.ids \in SUBSET Nat
  BY DEF AnEvent
<1> HIDE DEF Fine
<1> SUFFICES Fine
  BY <1>5, Zenon
<1> USE DEF Fine
<1> HIDE DEF y, z
<1>7. CASE y.owed \/ y.resyncing
  <2>1. y \in AnEntry /\ Reflected(y) \subseteq 1..d /\ InOrder(y)
        /\ (y.resyncing => y.owed)
    BY <1>2, Zenon DEF Good, Settled
  <2>2. /\ Good(Replay!Collapse(y), d, D \cup e.ids) /\ Alike(y, Replay!Collapse(y))
        /\ Replay!Collapse(y).buffer = y.buffer
    BY <1>3, <1>6, <2>1, GoodCollapse
  <2>3. z = Replay!Collapse(y)
    BY <1>4, <1>7
  <2>. QED  BY <2>2, <2>3, Zenon
<1>8. CASE ~(y.owed \/ y.resyncing) /\ e.kind = "delta" /\ ~coalesced
  <2>1. z = [y EXCEPT !.buffer = y.buffer \cup e.ids]
    BY <1>4, <1>8
  <2>2. Good(z, d, D \cup e.ids) /\ Alike(y, z)
    BY <1>2, <1>3, <2>1, GoodBuffer
  <2>. QED  BY <1>8, <2>2, Zenon
<1>9. CASE ~(y.owed \/ y.resyncing) /\ ~(e.kind = "delta" /\ ~coalesced)
  <2>1. y.buffer = {}
    BY <1>3, <1>9, Zenon
  <2>2. CASE y.rotating \/ (e.kind = "append" /\ y.size >= MaxMessages)
    <3>1. /\ Good(Replay!Enqueue(y, e), d, D \cup e.ids) /\ Alike(y, Replay!Enqueue(y, e))
          /\ Replay!Enqueue(y, e).buffer = y.buffer
      BY <1>2, <1>3, <1>9, <2>1, GoodEnqueue
    <3>2. z = Replay!Enqueue(y, e)
      BY <1>4, <1>9, <2>2
    <3>. QED  BY <3>1, <3>2, Zenon
  <2>3. CASE ~(y.rotating \/ (e.kind = "append" /\ y.size >= MaxMessages))
    <3>1. y.queue = <<>>
      BY <1>2, <2>3, Zenon DEF Good, Settled
    <3>2. /\ Good(Replay!Reduce(y, e), d, D \cup e.ids) /\ Alike(y, Replay!Reduce(y, e))
          /\ Replay!Reduce(y, e).buffer = y.buffer
      BY <1>2, <1>3, <2>1, <3>1, GoodReduce
    <3>3. z = Replay!Reduce(y, e)
      BY <1>4, <1>9, <2>3
    <3>. QED  BY <3>2, <3>3, Zenon
  <2>. QED  BY <2>2, <2>3
<1>. QED  BY <1>7, <1>8, <1>9

\* The deltas leave the buffer together, in their place.
LEMMA GoodFlush ==
  ASSUME NEW d \in Nat, NEW D \in SUBSET Nat, NEW x, Good(x, d, D)
  PROVE  /\ Good(Replay!Flush(x), d, D) /\ Alike(x, Replay!Flush(x))
         /\ Replay!Flush(x).buffer = {}
<1>1. x \in AnEntry /\ Reflected(x) \subseteq 1..d /\ InOrder(x) /\ Settled(x) /\ Covers(x, D)
  BY Zenon DEF Good
<1>2. CASE x.buffer = {}
  <2>1. Replay!Flush(x) = x
    BY <1>2, Zenon DEF Replay!Flush
  <2>. QED  BY <1>2, <2>1, Zenon DEF Alike
<1>3. CASE x.buffer # {}
  <2> DEFINE y == [x EXCEPT !.buffer = {}]
             e == [ids |-> x.buffer, kind |-> "delta"]
             z == Replay!Flush(x)
  <2>1. z = Replay!Accept(y, e, TRUE)
    BY <1>3, Zenon DEF Replay!Flush
  <2>2. e \in AnEvent /\ e.ids = x.buffer
    BY <1>1, Numbers DEF AnEvent, Replay!Kinds
  <2>3. PICK c \in ASet : c = {}
    BY DEF ASet
  <2>4. y = [x EXCEPT !.buffer = c]
    BY <2>3, Zenon
  <2> HIDE DEF y, e, z
  <2>5. /\ y \in AnEntry /\ Alike(x, y) /\ y.content = x.content /\ y.buffer = c
        /\ y.queue = x.queue /\ y.misapplied = x.misapplied /\ y.owed = x.owed
        /\ y.rotating = x.rotating
    BY <1>1, <2>4, ZenonT(60) DEF AnEntry, Alike
  <2>6. InOrder(y) /\ After(y, x.buffer)
    <3>1. \A A : Before(A, {})
      BY DEF Before
    <3>2. y.buffer = {}
      BY <2>3, <2>5, Zenon
    <3>. QED  BY <1>1, <2>5, <3>1, <3>2, Zenon DEF InOrder, After
  <2>7. Reflected(x) = Reflected(y) \cup x.buffer
    BY <2>3, <2>5 DEF Reflected
  <2>8. Settled(y) /\ y.alive
    BY <1>1, <1>3, <2>3, <2>5, Zenon DEF Settled, Alike
  <2>9. Covers(y, D \ x.buffer)
    BY <1>1, <2>5, <2>7 DEF Covers, Alike
  <2>10. Reflected(y) \subseteq 1..d /\ x.buffer \subseteq 1..d
    BY <1>1, <2>7
  <2>11. Good(y, d, {})
    BY <2>5, <2>6, <2>8, <2>10 DEF Good, Covers
  <2>12. D \ x.buffer \in SUBSET Nat /\ TRUE \in BOOLEAN /\ y.buffer = {}
    BY <2>3, <2>5
  <2>13. /\ Good(Replay!Accept(y, e, TRUE), d, (D \ x.buffer) \cup e.ids)
         /\ Alike(y, Replay!Accept(y, e, TRUE))
         /\ TRUE => Replay!Accept(y, e, TRUE).buffer = y.buffer
    BY <2>2, <2>6, <2>8, <2>9, <2>10, <2>11, <2>12, GoodAccept
  <2>14. Good(z, d, (D \ x.buffer) \cup x.buffer) /\ Alike(x, z) /\ z.buffer = {}
    BY <2>1, <2>2, <2>5, <2>12, <2>13, Zenon DEF Alike
  <2>15. Covers(z, D)
    BY <2>14 DEF Good, Covers
  <2>. QED  BY <2>14, <2>15, Zenon DEF Good, z
<1>. QED  BY <1>2, <1>3

\* The first event of the queue is reduced in its turn.
LEMMA GoodEmit ==
  ASSUME NEW d \in Nat, NEW x, Good(x, d, {}), x.queue # <<>>
  PROVE  /\ Good(Replay!Emit(x), d, {}) /\ Alike(x, Replay!Emit(x))
         /\ Replay!Emit(x).buffer = x.buffer /\ Replay!Emit(x).owed = x.owed
         /\ Replay!Emit(x).queue = Tail(x.queue)
         /\ Reflected(Replay!Emit(x)) = Reflected(x)
<1>1. x \in AnEntry /\ Reflected(x) \subseteq 1..d /\ InOrder(x) /\ Settled(x)
  BY Zenon DEF Good
<1> DEFINE e == Head(x.queue)
           z == Replay!Emit(x)
<1>2. x.queue \in Seq(AnEvent) /\ e \in AnEvent /\ x.queue # <<>>
  BY <1>1, Numbers, HeadTailProperties
<1>3. PICK q \in AQueue, c \in ASet, n \in Int, b \in BOOLEAN :
        /\ q = Tail(x.queue)
        /\ c = x.content \cup e.ids
        /\ n = x.size + (IF e.kind = "append" THEN 1 ELSE 0)
        /\ b = (x.misapplied \/ \E i \in e.ids, k \in x.content : k >= i)
  <2>1. x.content \cup e.ids \in ASet
    BY <1>1, <1>2, Numbers DEF ASet, AnEvent
  <2>2. x.size + (IF e.kind = "append" THEN 1 ELSE 0) \in Int
    BY <1>1, Numbers
  <2>3. Tail(x.queue) \in AQueue
    BY <1>2, HeadTailProperties DEF AQueue
  <2> HIDE DEF e
  <2>. QED  BY <2>1, <2>2, <2>3
<1>4. PICK l \in Nat : l + 1 = Len(x.queue)
  <2>1. Len(x.queue) \in Nat \ {0}
    BY <1>2
  <2>. QED  BY <2>1
<1>5. /\ DOMAIN x.queue = 1..(l + 1) /\ DOMAIN q = 1..l /\ e = x.queue[1]
      /\ \A i \in 1..l : q[i] = x.queue[i + 1]
  BY <1>2, <1>3, <1>4
<1>6. z = [[x EXCEPT !.queue = q] EXCEPT !.content = [x EXCEPT !.queue = q].content \cup e.ids,
             !.size = [x EXCEPT !.queue = q].size + (IF e.kind = "append" THEN 1 ELSE 0),
             !.misapplied = [x EXCEPT !.queue = q].misapplied
               \/ \E i \in e.ids, k \in [x EXCEPT !.queue = q].content : k >= i]
  BY <1>3, Zenon DEF Replay!Emit, Replay!Reduce
<1> HIDE DEF e, z
<1>7. /\ [x EXCEPT !.queue = q].content = x.content
      /\ [x EXCEPT !.queue = q].size = x.size
      /\ [x EXCEPT !.queue = q].misapplied = x.misapplied
  BY <1>1, ZenonT(60) DEF AnEntry
<1>8. z = [x EXCEPT !.queue = q, !.content = c, !.size = n, !.misapplied = b]
  BY <1>3, <1>6, <1>7, Zenon
<1>9. /\ z \in AnEntry /\ Alike(x, z) /\ z.content = c /\ z.buffer = x.buffer
      /\ z.queue = q /\ z.misapplied = b /\ z.owed = x.owed /\ z.rotating = x.rotating
  BY <1>1, <1>8, ZenonT(60) DEF AnEntry, Alike
<1>10. /\ x.content \subseteq Nat /\ e.ids \subseteq Nat /\ ~x.misapplied
       /\ Before(x.content, x.buffer) /\ Before(x.content, e.ids)
       /\ Before(e.ids, x.buffer)
  <2>1. 1 \in DOMAIN x.queue
    BY <1>5
  <2>. QED  BY <1>1, <1>5, <2>1, Numbers DEF InOrder
<1>11. ~b
  <2>1. \A k, i \in Nat : k < i => ~(k >= i)
    OBVIOUS
  <2>2. \A k \in x.content, i \in e.ids : ~(k >= i)
    BY <1>10, <2>1, Zenon DEF Before
  <2>. QED  BY <1>3, <1>10, <2>2, Zenon
<1>12. \A A, B, C : Before(A, C) /\ Before(B, C) => Before(A \cup B, C)
  BY DEF Before
<1>13. ASSUME NEW i \in 1..l
       PROVE  i + 1 \in DOMAIN x.queue /\ q[i] = x.queue[i + 1] /\ 1 < i + 1
  BY <1>5, <1>13
<1>19. \A C : Before(x.content, C) /\ Before(e.ids, C) => Before(z.content, C)
  <2>1. z.content = x.content \cup e.ids
    BY <1>3, <1>9, Zenon
  <2>. QED  BY <1>12, <2>1, Zenon
<1>14. \A i \in 1..l :
         /\ Before(z.content, q[i].ids) /\ Before(q[i].ids, z.buffer)
         /\ \A j \in 1..l : i < j => Before(q[i].ids, q[j].ids)
  <2>0. 1 \in DOMAIN x.queue
    BY <1>5
  <2>1. ASSUME NEW i \in 1..l
        PROVE  /\ Before(x.content, q[i].ids) /\ Before(q[i].ids, x.buffer)
               /\ Before(e.ids, q[i].ids)
    <3>1. i + 1 \in DOMAIN x.queue /\ q[i] = x.queue[i + 1] /\ 1 < i + 1
      BY <1>13
    <3>. QED  BY <1>1, <1>5, <2>0, <3>1, Zenon DEF InOrder
  <2>2. ASSUME NEW i \in 1..l, NEW j \in 1..l, i < j PROVE Before(q[i].ids, q[j].ids)
    <3>1. i + 1 < j + 1
      BY <2>2
    <3>2. i + 1 \in DOMAIN x.queue /\ q[i] = x.queue[i + 1]
      BY <1>13
    <3>3. j + 1 \in DOMAIN x.queue /\ q[j] = x.queue[j + 1]
      BY <1>13
    <3>. QED  BY <1>1, <3>1, <3>2, <3>3, Zenon DEF InOrder
  <2>. QED  BY <1>9, <1>19, <2>1, <2>2, Zenon
<1>15. InOrder(z)
  <2>1. Before(z.content, z.buffer)
    BY <1>9, <1>10, <1>19, Zenon
  <2>2. DOMAIN z.queue = 1..l /\ z.queue = q /\ ~z.misapplied
    BY <1>5, <1>9, <1>11, Zenon
  <2>. QED  BY <1>14, <2>1, <2>2, Zenon DEF InOrder
<1>16. Reflected(z) = Reflected(x)
  <2>0. \A i \in 1..(l + 1) : i = 1 \/ (i - 1 \in 1..l /\ (i - 1) + 1 = i)
    OBVIOUS
  <2>1. \A i \in 1..(l + 1) : i = 1 \/ (i - 1 \in 1..l /\ x.queue[i] = q[i - 1])
    BY <1>5, <2>0, Zenon
  <2>2. UNION {x.queue[i].ids : i \in 1..(l + 1)} = e.ids \cup UNION {q[i].ids : i \in 1..l}
    <3>1. \A i \in 1..(l + 1) :
            x.queue[i].ids = e.ids \/ \E j \in 1..l : x.queue[i].ids = q[j].ids
      BY <1>5, <2>1, Zenon
    <3>2. 1 \in 1..(l + 1) /\ e.ids = x.queue[1].ids
      BY <1>5
    <3>3. \A j \in 1..l : \E i \in 1..(l + 1) : q[j].ids = x.queue[i].ids
      BY <1>5, <1>13, Zenon
    <3>4. \A a : (\E i \in 1..(l + 1) : a \in x.queue[i].ids)
                  <=> (a \in e.ids \/ \E j \in 1..l : a \in q[j].ids)
      BY <3>1, <3>2, <3>3, Zenon
    <3>5. \A a : a \in UNION {x.queue[i].ids : i \in 1..(l + 1)}
                  <=> \E i \in 1..(l + 1) : a \in x.queue[i].ids
      BY Zenon
    <3>6. \A a : a \in UNION {q[i].ids : i \in 1..l} <=> \E j \in 1..l : a \in q[j].ids
      BY Zenon
    <3>. QED  BY <3>4, <3>5, <3>6, Zenon
  <2>3. DOMAIN z.queue = 1..l /\ z.queue = q /\ z.content = x.content \cup e.ids
    BY <1>3, <1>5, <1>9, Zenon
  <2> DEFINE A == UNION {x.queue[i].ids : i \in 1..(l + 1)}
             B == UNION {q[i].ids : i \in 1..l}
  <2>4. Reflected(x) = x.content \cup x.buffer \cup A
    BY <1>5, Zenon DEF Reflected
  <2>5. Reflected(z) = (x.content \cup e.ids) \cup x.buffer \cup B
    BY <1>9, <2>3, Zenon DEF Reflected
  <2>6. A = e.ids \cup B
    BY <2>2, Zenon
  <2> HIDE DEF A, B
  <2>. QED  BY <2>4, <2>5, <2>6
<1>17. Settled(z)
  BY <1>1, <1>2, <1>9, Zenon DEF Settled, Alike
<1>18. Reflected(z) \subseteq 1..d /\ Covers(z, {})
  BY <1>1, <1>16 DEF Covers
<1>. QED  BY <1>3, <1>9, <1>15, <1>16, <1>17, <1>18, Zenon DEF Good, z

\* Every nonempty set of natural numbers has a least element.
LEMMA LeastNat ==
  ASSUME NEW S \in SUBSET Nat, S # {}
  PROVE  \E n \in S : \A k \in S : n <= k
<1> DEFINE R == OpToRel(<, Nat)
<1>1. IsWellFoundedOn(R, Nat)
  BY NatLessThanWellFounded, Zenon
<1>2. \A k, n \in Nat : <<k, n>> \in R <=> k < n
  BY DEF OpToRel
<1> HIDE DEF R
<1>3. PICK n \in S : \A k \in S : <<k, n>> \notin R
  BY <1>1, WFMin
<1>4. \A k \in S : k \in Nat /\ n \in Nat /\ ~(k < n)
  BY <1>2, <1>3
<1>5. \A k \in S : n <= k
  BY <1>4
<1>. QED  BY <1>5

\* A set of natural numbers with 0 and all its successors up to a bound has them all.
LEMMA UpTo ==
  ASSUME NEW S, NEW N \in Nat, 0 \in S, \A n \in 0..N : n \in S /\ n < N => n + 1 \in S
  PROVE  0..N \subseteq S
<1>. SUFFICES ASSUME ~(0..N \subseteq S) PROVE FALSE
  OBVIOUS
<1>1. PICK n \in (0..N) \ S : \A k \in (0..N) \ S : n <= k
  <2>1. (0..N) \ S # {} /\ (0..N) \ S \in SUBSET Nat
    OBVIOUS
  <2>. QED  BY <2>1, LeastNat
<1>2. n # 0 /\ n - 1 \in 0..N /\ n - 1 < N
  BY <1>1
<1>3. n - 1 \in S
  BY <1>1, <1>2
<1>. QED  BY <1>1, <1>2, <1>3

\* The entries that a chunk of n events goes through.
ChunkBy(x, n, f) == f = [i \in 0..n |-> IF i = 0 THEN x ELSE Replay!Emit(f[i - 1])]

LEMMA ChunkExists ==
  ASSUME NEW x, NEW n \in Nat
  PROVE  \E f : ChunkBy(x, n, f)
<1> DEFINE Solves(f, m) ==
             \A i \in 0..n : i <= m => f[i] = IF i = 0 THEN x ELSE Replay!Emit(f[i - 1])
           Step(f) == [i \in 0..n |-> IF i = 0 THEN x ELSE Replay!Emit(f[i - 1])]
           K == {m \in Nat : \E f : Solves(f, m)}
<1>1. 0 \in K
  <2>1. Solves([i \in 0..n |-> x], 0)
    OBVIOUS
  <2> HIDE DEF Solves
  <2>. QED  BY <2>1
<1>2. ASSUME NEW m \in 0..n, m \in K PROVE m + 1 \in K
  <2>1. PICK f : Solves(f, m)
    BY <1>2
  <2>2. ASSUME NEW i \in 0..n, i <= m + 1, i # 0
        PROVE  Step(f)[i] = Replay!Emit(Step(f)[i - 1])
    <3>1. i - 1 \in 0..n /\ i - 1 <= m
      BY <1>2, <2>2
    <3>2. Step(f)[i - 1] = f[i - 1]
      BY <2>1, <3>1
    <3>. QED  BY <2>2, <3>2
  <2>3. Step(f)[0] = x
    OBVIOUS
  <2>4. Solves(Step(f), m + 1)
    BY <2>2, <2>3
  <2> HIDE DEF Solves, Step
  <2>. QED  BY <2>4, <1>2
<1>3. n \in K
  <2> HIDE DEF K
  <2>1. 0..n \subseteq K
    BY <1>1, <1>2, UpTo
  <2>. QED  BY <2>1
<1>4. PICK f : Solves(f, n)
  BY <1>3
<1>5. \A i \in 0..n : Step(f)[i] = f[i]
  BY <1>4
<1>6. \A i \in 0..n : i # 0 => i - 1 \in 0..n
  OBVIOUS
<1>7. \A i \in 0..n : i # 0 => Step(f)[i] = Replay!Emit(Step(f)[i - 1])
  BY <1>5, <1>6
<1>8. ChunkBy(x, n, Step(f))
  BY <1>7 DEF ChunkBy
<1>. QED  BY <1>8

\* A chunk reduces events of the queue one by one.
LEMMA ChunkUnfold ==
  ASSUME NEW x, NEW n \in Nat
  PROVE  \E f : /\ f[0] = x /\ f[n] = Replay!Chunk(x, n)
                /\ \A i \in 1..n : f[i] = Replay!Emit(f[i - 1])
<1> DEFINE F == CHOOSE f : ChunkBy(x, n, f)
<1>1. ChunkBy(x, n, F)
  BY ChunkExists, Zenon
<1>2. Replay!Chunk(x, n) = F[n]
  BY DEF Replay!Chunk, ChunkBy
<1> HIDE DEF F
<1>3. 0 \in 0..n /\ \A i \in 1..n : i \in 0..n /\ i # 0
  OBVIOUS
<1>4. F[0] = x /\ \A i \in 1..n : F[i] = Replay!Emit(F[i - 1])
  BY <1>1, <1>3 DEF ChunkBy
<1>. QED  BY <1>2, <1>4

\* A chunk loses nothing and keeps the order.
LEMMA GoodChunk ==
  ASSUME NEW d \in Nat, NEW D, NEW x, Good(x, d, D), NEW n \in Nat, n <= Len(x.queue)
  PROVE  Good(Replay!Chunk(x, n), d, D) /\ Alike(x, Replay!Chunk(x, n))
         /\ Replay!Chunk(x, n).buffer = x.buffer
<1>1. PICK f : /\ f[0] = x /\ f[n] = Replay!Chunk(x, n)
               /\ \A i \in 1..n : f[i] = Replay!Emit(f[i - 1])
  BY ChunkUnfold
<1>2. x \in AnEntry
  BY Zenon DEF Good
<1>3. PICK l \in Nat : l = Len(x.queue)
  BY <1>2, Numbers
<1> DEFINE Fine(y, i) ==
             /\ Good(y, d, {}) /\ Alike(x, y) /\ y.buffer = x.buffer /\ y.owed = x.owed
             /\ Reflected(y) = Reflected(x) /\ Len(y.queue) = l - i
           K == {i \in 0..n : Fine(f[i], i)}
<1>4. 0 \in K
  <2>1. Good(x, d, {})
    BY DEF Good, Covers
  <2>2. Len(x.queue) = l - 0 /\ 0 \in 0..n
    BY <1>3
  <2>3. Fine(x, 0)
    BY <2>1, <2>2, Zenon DEF Alike
  <2> HIDE DEF Fine
  <2>. QED  BY <1>1, <2>2, <2>3, Zenon
<1>5. ASSUME NEW i \in 0..n, i \in K, i < n PROVE i + 1 \in K
  <2>1. Fine(f[i], i)
    BY <1>5
  <2>2. f[i + 1] = Replay!Emit(f[i]) /\ i + 1 \in 0..n
    <3>1. i + 1 \in 1..n /\ (i + 1) - 1 = i /\ i + 1 \in 0..n
      BY <1>5
    <3>. QED  BY <1>1, <3>1
  <2> DEFINE y == f[i]
             z == f[i + 1]
  <2>3. y \in AnEntry /\ y.queue \in Seq(AnEvent)
    <3>1. y \in AnEntry
      BY <2>1, Zenon DEF Good
    <3>. QED  BY <3>1, Numbers
  <2>4. Len(y.queue) = l - i
    BY <2>1, Zenon
  <2>5. l - i > 0 /\ l - (i + 1) = (l - i) - 1
    BY <1>3, <1>5
  <2> HIDE DEF y
  <2>6. y.queue # <<>> /\ Len(Tail(y.queue)) = l - (i + 1)
    <3>1. Len(<<>>) = 0
      OBVIOUS
    <3>. QED  BY <2>3, <2>4, <2>5, <3>1, HeadTailProperties
  <2>7. /\ Good(z, d, {}) /\ Alike(y, z) /\ z.buffer = y.buffer /\ z.owed = y.owed
        /\ z.queue = Tail(y.queue) /\ Reflected(z) = Reflected(y)
    <3>1. Good(y, d, {})
      BY <2>1, Zenon DEF y
    <3>2. z = Replay!Emit(y)
      BY <2>2, Zenon DEF y
    <3> HIDE DEF z
    <3>. QED  BY <2>6, <3>1, <3>2, GoodEmit
  <2>8. Fine(y, i)
    BY <2>1, Zenon DEF y
  <2> HIDE DEF z
  <2>9. Fine(z, i + 1)
    BY <2>6, <2>7, <2>8, Zenon DEF Alike
  <2> HIDE DEF Fine
  <2>. QED  BY <2>2, <2>9, Zenon DEF z
<1>6. n \in K
  <2> HIDE DEF K
  <2>1. 0..n \subseteq K
    BY <1>4, <1>5, UpTo
  <2>. QED  BY <2>1
<1>7. Fine(Replay!Chunk(x, n), n)
  BY <1>1, <1>6, Zenon
<1>8. Covers(Replay!Chunk(x, n), D)
  BY <1>7, Zenon DEF Good, Covers, Alike
<1>. QED  BY <1>7, <1>8, Zenon DEF Good

-----------------------------------------------------------------------------
(* Steps of the transcript *)

\* An event that follows all others.
LEMMA GoodLater ==
  ASSUME NEW d \in Nat, NEW D, NEW x, Good(x, d, D)
  PROVE  Good(x, d + 1, D) /\ After(x, {d + 1}) /\ d + 1 \in Nat
<1>1. x \in AnEntry /\ Reflected(x) \subseteq 1..d
  BY Zenon DEF Good
<1>2. 1..d \subseteq 1..(d + 1) /\ \A a \in 1..d : a < d + 1
  OBVIOUS
<1>3. x.content \subseteq Reflected(x)
      /\ \A i \in DOMAIN x.queue : x.queue[i].ids \subseteq Reflected(x)
  BY DEF Reflected
<1>4. After(x, {d + 1})
  BY <1>1, <1>2, <1>3 DEF After, Before
<1>5. Reflected(x) \subseteq 1..(d + 1)
  BY <1>1, <1>2
<1>6. d + 1 \in Nat
  OBVIOUS
<1>. QED  BY <1>4, <1>5, <1>6, Zenon DEF Good

\* Of fewer events none is lost either.
LEMMA GoodFewer ==
  ASSUME NEW d, NEW D, NEW E, NEW x, Good(x, d, D), E \subseteq D
  PROVE  Good(x, d, E)
BY DEF Good, Covers

\* A reader keeps what it knows as long as the entry counts on.
LEMMA ReaderStays ==
  ASSUME TranscriptInv, t' \in AnEntry, NEW k \in readers,
         \/ /\ t'.alive = t.alive /\ t'.epoch = t.epoch /\ t'.resync = t.resync
            /\ t'.revision = t.revision /\ (t'.resyncing => t.resyncing)
            /\ t.buffer = {} => t'.buffer = {}
            /\ delivered' = delivered
         \/ /\ t'.epoch = t.epoch /\ t'.resync >= t.resync
            /\ ~t'.alive \/ (t.alive /\ t'.revision > t.revision)
         \/ /\ t'.epoch = t.epoch /\ t'.resync > t.resync
            /\ t'.alive = t.alive /\ t'.revision = t.revision
         \/ t'.epoch > t.epoch
  PROVE  ReaderOK(k)'
<1> SUFFICES /\ k.epoch <= t'.epoch
             /\ k.epoch = t'.epoch => k.resync <= t'.resync
             /\ t'.alive /\ k.epoch = t'.epoch => k.revision <= t'.revision
             /\ Replay!Resyncs(k)' /\ k.stage = "read" /\ k.revision = t'.revision
                  => 1..delivered' \subseteq k.content /\ t'.buffer = {}
  BY DEF ReaderOK
<1>1. k \in AReader /\ t \in AnEntry
  BY DEF TranscriptInv, TranscriptTyped
<1>2. k.epoch \in Nat /\ k.resync \in Nat /\ k.revision \in Nat
  BY <1>1 DEF AReader
<1>3. /\ t.epoch \in Nat /\ t.resync \in Nat /\ t.revision \in Nat
      /\ t'.epoch \in Nat /\ t'.resync \in Nat /\ t'.revision \in Nat
  BY <1>1, Numbers
<1>4. /\ k.epoch <= t.epoch
      /\ k.epoch = t.epoch => k.resync <= t.resync
      /\ t.alive /\ k.epoch = t.epoch => k.revision <= t.revision
      /\ Replay!Resyncs(k) /\ k.stage = "read" /\ k.revision = t.revision
           => 1..delivered \subseteq k.content /\ t.buffer = {}
  BY DEF TranscriptInv, ReadersOK, ReaderOK
<1>5. Replay!Resyncs(k)' =
        (t'.alive /\ t'.epoch = k.epoch /\ t'.resyncing /\ t'.resync = k.resync)
  BY DEF Replay!Resyncs
<1>6. CASE /\ t'.alive = t.alive /\ t'.epoch = t.epoch /\ t'.resync = t.resync
           /\ t'.revision = t.revision /\ (t'.resyncing => t.resyncing)
           /\ t.buffer = {} => t'.buffer = {}
           /\ delivered' = delivered
  <2>1. Replay!Resyncs(k)' => Replay!Resyncs(k)
    BY <1>5, <1>6 DEF Replay!Resyncs
  <2>2. /\ k.epoch <= t'.epoch
        /\ k.epoch = t'.epoch => k.resync <= t'.resync
        /\ t'.alive /\ k.epoch = t'.epoch => k.revision <= t'.revision
    BY <1>4, <1>6
  <2>3. Replay!Resyncs(k)' /\ k.stage = "read" /\ k.revision = t'.revision
          => 1..delivered' \subseteq k.content /\ t'.buffer = {}
    BY <1>4, <1>6, <2>1
  <2>. QED  BY <2>2, <2>3
<1>7. CASE /\ t'.epoch = t.epoch /\ t'.resync >= t.resync
           /\ ~t'.alive \/ (t.alive /\ t'.revision > t.revision)
  <2>1. k.epoch <= t'.epoch /\ (k.epoch = t'.epoch => k.resync <= t'.resync)
    BY <1>2, <1>3, <1>4, <1>7
  <2>2. t'.alive /\ k.epoch = t'.epoch => k.revision < t'.revision
    BY <1>2, <1>3, <1>4, <1>7
  <2>3. k.revision \in Nat /\ t'.revision \in Nat /\ k.revision < t'.revision
          => k.revision <= t'.revision /\ k.revision # t'.revision
    OBVIOUS
  <2>4. t'.alive /\ k.epoch = t'.epoch
          => k.revision <= t'.revision /\ k.revision # t'.revision
    BY <1>2, <1>3, <2>2, <2>3
  <2>. QED  BY <1>5, <2>1, <2>4
<1>8. CASE t'.epoch > t.epoch
  <2>1. k.epoch < t'.epoch
    BY <1>2, <1>3, <1>4, <1>8
  <2>2. k.epoch <= t'.epoch /\ k.epoch # t'.epoch
    BY <1>2, <1>3, <2>1
  <2>. QED  BY <1>5, <2>2
<1>9. CASE /\ t'.epoch = t.epoch /\ t'.resync > t.resync
           /\ t'.alive = t.alive /\ t'.revision = t.revision
  <2>1. k.epoch = t'.epoch => k.resync <= t'.resync /\ k.resync # t'.resync
    BY <1>2, <1>3, <1>4, <1>9
  <2>2. /\ k.epoch <= t'.epoch
        /\ t'.alive /\ k.epoch = t'.epoch => k.revision <= t'.revision
    BY <1>4, <1>9
  <2>. QED  BY <1>5, <2>1, <2>2
<1>. QED  BY <1>6, <1>7, <1>8, <1>9

\* So do all of them.
LEMMA ReadersStay ==
  ASSUME TranscriptInv, t' \in AnEntry, readers' \subseteq readers,
         \/ /\ t'.alive = t.alive /\ t'.epoch = t.epoch /\ t'.resync = t.resync
            /\ t'.revision = t.revision /\ (t'.resyncing => t.resyncing)
            /\ t.buffer = {} => t'.buffer = {}
            /\ delivered' = delivered
         \/ /\ t'.epoch = t.epoch /\ t'.resync >= t.resync
            /\ ~t'.alive \/ (t.alive /\ t'.revision > t.revision)
         \/ t'.epoch > t.epoch
  PROVE  ReadersOK'
<1>1. \A k \in readers : ReaderOK(k)'
  BY ReaderStays
<1>2. \A k \in readers' : ReaderOK(k)'
  BY <1>1
<1>. QED  BY <1>2 DEF ReadersOK

\* The start of a transcript.
LEMMA TranscriptInit == Replay!Init => TranscriptInv
<1> SUFFICES ASSUME Replay!Init PROVE TranscriptInv
  OBVIOUS
<1>1. PICK q \in AQueue, c \in ASet : q = <<>> /\ c = {}
  <2>1. {} \in ASet
    BY DEF ASet
  <2>. QED  BY <2>1, NoQueue, Zenon
<1>2. t = [alive |-> FALSE, epoch |-> 0, content |-> c, size |-> 0, queue |-> q,
         rotating |-> FALSE, rotation |-> 0, owed |-> FALSE, resyncing |-> FALSE,
         resync |-> 0, timer |-> FALSE, retire |-> FALSE, buffer |-> c, revision |-> 0,
         misapplied |-> FALSE, early |-> c]
  BY <1>1, Zenon DEF Replay!Init, Replay!Absent
<1>3. /\ t \in AnEntry /\ ~t.alive /\ t.content = c /\ t.buffer = c
      /\ t.queue = q /\ ~t.rotating /\ ~t.owed /\ ~t.resyncing /\ ~t.misapplied
  BY <1>2, SMTT(30) DEF AnEntry
<1>4. readers = {} /\ delivered = 0 /\ due = {}
  BY DEF Replay!Init
<1>5. InOrder(t) /\ Reflected(t) = {}
  <2>1. DOMAIN <<>> = {}
    OBVIOUS
  <2>2. DOMAIN t.queue = {}
    BY <1>1, <1>3, <2>1, Zenon
  <2>. QED  BY <1>1, <1>3, <2>2 DEF InOrder, Reflected, Before
<1>6. Settled(t)
  BY <1>1, <1>3, Zenon DEF Settled
<1>7. Good(t, delivered, due)
  BY <1>3, <1>5, <1>6 DEF Good, Covers
<1>8. TranscriptTyped /\ ReadersOK
  BY <1>3, <1>4 DEF TranscriptTyped, ReadersOK
<1>. QED  BY <1>7, <1>8, Zenon DEF TranscriptInv

\* An event arrives.
LEMMA DeliverStep ==
  ASSUME TranscriptInv, NEW kind \in Replay!Kinds, Replay!Deliver(kind)
  PROVE  TranscriptInv'
<1> DEFINE d == delivered + 1
           e == [ids |-> {d}, kind |-> kind]
           ready == IF kind = "terminal" THEN [t EXCEPT !.buffer = {}]
                    ELSE IF kind = "delta" THEN t ELSE Replay!Flush(t)
           raised == [ready EXCEPT !.revision = ready.revision + 1]
           made == Replay!Created(raised)
           accepted == Replay!Accept(made, e, FALSE)
           E == IF kind = "terminal" THEN due \ t.buffer ELSE due
           F == IF t.alive THEN E ELSE {}
<1>1. /\ t' = IF kind = "idle" THEN Replay!Retired([accepted EXCEPT !.retire = TRUE])
              ELSE accepted
      /\ due' = e.ids \cup F /\ delivered' = d /\ readers' = readers
  BY Zenon DEF Replay!Deliver, Replay!Becomes
<1>2. /\ t \in AnEntry /\ Good(t, delivered, due) /\ delivered \in Nat /\ d \in Nat
      /\ due \in SUBSET Nat
  BY DEF TranscriptInv, TranscriptTyped
<1>3. e \in AnEvent /\ e.ids = {d} /\ e.ids \subseteq 1..d /\ e.kind = kind
  BY <1>2 DEF AnEvent
<1>4. F \in SUBSET Nat /\ E \in SUBSET Nat /\ due' = F \cup e.ids
  BY <1>1, <1>2
<1>5. /\ Good(ready, delivered, E) /\ Alike(t, ready)
      /\ ready.buffer = {} \/ kind = "delta"
  <2>1. CASE kind = "terminal"
    <3>1. PICK c \in ASet : c = {}
      BY DEF ASet
    <3>2. ready = [t EXCEPT !.buffer = c]
      BY <2>1, <3>1, Zenon
    <3> HIDE DEF ready
    <3>3. /\ ready \in AnEntry /\ Alike(t, ready) /\ ready.content = t.content
          /\ ready.buffer = c /\ ready.queue = t.queue /\ ready.misapplied = t.misapplied
          /\ ready.owed = t.owed /\ ready.rotating = t.rotating
      BY <1>2, <3>2, ZenonT(60) DEF AnEntry, Alike
    <3>4. /\ Reflected(t) \subseteq 1..delivered /\ InOrder(t) /\ Settled(t)
          /\ Covers(t, due)
      BY <1>2, Zenon DEF Good
    <3>5. InOrder(ready)
      <4>1. \A A : Before(A, {})
        BY DEF Before
      <4>. QED  BY <3>1, <3>3, <3>4, <4>1, Zenon DEF InOrder
    <3>6. Reflected(t) = Reflected(ready) \cup t.buffer
      BY <3>1, <3>3 DEF Reflected
    <3>7. Settled(ready)
      BY <3>1, <3>3, <3>4, Zenon DEF Settled, Alike
    <3>8. E = due \ t.buffer
      BY <2>1
    <3> HIDE DEF E
    <3>9. Covers(ready, E) /\ Reflected(ready) \subseteq 1..delivered
      BY <3>3, <3>4, <3>6, <3>8 DEF Covers, Alike
    <3>. QED  BY <3>1, <3>3, <3>5, <3>7, <3>9, Zenon DEF Good
  <2>2. CASE kind = "delta"
    BY <1>2, <2>2 DEF Alike
  <2>3. CASE kind # "terminal" /\ kind # "delta"
    <3>1. ready = Replay!Flush(t) /\ E = due
      BY <2>3
    <3>2. /\ Good(Replay!Flush(t), delivered, due) /\ Alike(t, Replay!Flush(t))
          /\ Replay!Flush(t).buffer = {}
      BY <1>2, GoodFlush
    <3>. QED  BY <3>1, <3>2, Zenon
  <2>. QED  BY <2>1, <2>2, <2>3
<1> HIDE DEF ready, E
<1>6. /\ SameView(ready, raised) /\ raised.epoch = t.epoch /\ raised.resync = t.resync
      /\ raised.revision = t.revision + 1 /\ raised.alive = t.alive
      /\ raised.buffer = ready.buffer
  <2>1. ready \in AnEntry
    BY <1>5, Zenon DEF Good
  <2>2. PICK n \in Nat : n = ready.revision + 1
    <3>1. ready.revision \in Nat
      BY <2>1, Numbers
    <3>. QED  BY <3>1
  <2>3. raised = [ready EXCEPT !.revision = n]
    BY <2>2, Zenon
  <2> HIDE DEF raised
  <2>4. SameView(ready, raised) /\ raised.epoch = ready.epoch
        /\ raised.resync = ready.resync /\ raised.revision = n
    BY <2>1, <2>3, PutRevision
  <2>. QED  BY <1>5, <2>2, <2>4, Zenon DEF SameView, Alike
<1> HIDE DEF raised
<1>7. Good(raised, delivered, E)
  BY <1>5, <1>6, GoodSame
<1>8. /\ Good(made, delivered, F) /\ made.alive
      /\ made.buffer = {} \/ kind = "delta"
      /\ \/ /\ made.epoch = t.epoch /\ made.resync = t.resync /\ t.alive
            /\ made.revision = t.revision + 1
         \/ made.epoch = t.epoch + 1
  <2>1. CASE t.alive
    <3>1. made = raised /\ F = E
      BY <1>6, <2>1, Zenon DEF Replay!Created
    <3>. QED  BY <1>5, <1>6, <1>7, <2>1, <3>1, Zenon
  <2>2. CASE ~t.alive
    <3>1. F = {}
      BY <2>2
    <3>2. Good(raised, delivered, {}) /\ ~raised.alive
      BY <1>6, <1>7, <2>2, GoodFewer
    <3>3. /\ Good(made, delivered, {}) /\ made.alive
          /\ made.epoch = raised.epoch + 1 /\ made.buffer = {}
      BY <1>2, <3>2, GoodCreated
    <3>. QED  BY <1>6, <3>1, <3>3, Zenon
  <2>. QED  BY <2>1, <2>2
<1> HIDE DEF made, F
<1>9. Good(made, d, {}) /\ After(made, e.ids) /\ Covers(made, F)
  <2>1. Good(made, d, F) /\ After(made, {d})
    BY <1>2, <1>8, GoodLater
  <2>2. Good(made, d, {})
    BY <2>1, GoodFewer
  <2>. QED  BY <1>3, <2>1, <2>2, Zenon DEF Good
<1> HIDE DEF e, d
<1>10. Good(accepted, d, due') /\ Alike(made, accepted)
  <2>1. FALSE \in BOOLEAN /\ (made.buffer = {} \/ (e.kind = "delta" /\ ~FALSE))
    BY <1>3, <1>8
  <2>. QED  BY <1>2, <1>3, <1>4, <1>8, <1>9, <2>1, GoodAccept
<1> HIDE DEF accepted
<1>11. /\ Good(t', d, due')
       /\ t' \in AnEntry
       /\ \/ t'.alive = accepted.alive /\ t'.epoch = accepted.epoch
             /\ t'.resync = accepted.resync /\ t'.revision = accepted.revision
          \/ ~t'.alive /\ t'.epoch = accepted.epoch /\ t'.resync >= accepted.resync
  <2>1. CASE kind = "idle"
    <3> DEFINE w == [accepted EXCEPT !.retire = TRUE]
    <3>1. SameView(accepted, w) /\ Alike(accepted, w)
      <4>1. accepted \in AnEntry /\ TRUE \in BOOLEAN
        BY <1>10 DEF Good
      <4>. QED  BY <4>1, PutRetire
    <3> HIDE DEF w
    <3>2. Good(w, d, due')
      BY <1>10, <3>1, GoodSame
    <3>3. t' = Replay!Retired(w)
      BY <1>1, <2>1, Zenon DEF w
    <3>4. /\ Good(Replay!Retired(w), d, due')
          /\ \/ Replay!Retired(w) = w
             \/ /\ ~Replay!Retired(w).alive /\ Replay!Retired(w).epoch = w.epoch
                /\ Replay!Retired(w).resync >= w.resync
      BY <1>2, <3>2, GoodRetired
    <3>5. t' \in AnEntry
      BY <3>3, <3>4, Zenon DEF Good
    <3>. QED  BY <3>1, <3>3, <3>4, <3>5, Zenon DEF Alike
  <2>2. CASE kind # "idle"
    <3>1. t' = accepted
      BY <1>1, <2>2, Zenon
    <3>. QED  BY <1>10, <3>1, Zenon DEF Good
  <2>. QED  BY <2>1, <2>2
<1>12. /\ t.epoch \in Nat /\ t.resync \in Nat /\ t.revision \in Nat
       /\ t'.epoch \in Nat /\ t'.resync \in Nat /\ t'.revision \in Nat
  BY <1>2, <1>11, Numbers
<1>13. \/ /\ t'.epoch = t.epoch /\ t'.resync >= t.resync
          /\ ~t'.alive \/ (t.alive /\ t'.revision > t.revision)
       \/ t'.epoch > t.epoch
  <2>1. \/ /\ accepted.epoch = t.epoch /\ accepted.resync = t.resync /\ t.alive
           /\ accepted.revision = t.revision + 1
        \/ accepted.epoch = t.epoch + 1
    BY <1>8, <1>10, Zenon DEF Alike
  <2>2. CASE accepted.epoch = t.epoch + 1
    <3>1. t'.epoch = t.epoch + 1
      BY <1>11, <2>2, Zenon
    <3>. QED  BY <1>12, <3>1
  <2>3. CASE /\ accepted.epoch = t.epoch /\ accepted.resync = t.resync /\ t.alive
             /\ accepted.revision = t.revision + 1
    <3>1. CASE /\ t'.epoch = accepted.epoch /\ t'.resync = accepted.resync
               /\ t'.revision = accepted.revision
      BY <1>12, <2>3, <3>1
    <3>2. CASE ~t'.alive /\ t'.epoch = accepted.epoch /\ t'.resync >= accepted.resync
      BY <1>12, <2>3, <3>2
    <3>. QED  BY <1>11, <3>1, <3>2, Zenon
  <2>. QED  BY <2>1, <2>2, <2>3, Zenon
<1>14. ReadersOK'
  BY <1>1, <1>11, <1>13, ReadersStay
<1>15. TranscriptTyped'
  <2>1. due \subseteq 1..d
    BY DEF TranscriptInv, TranscriptTyped, d
  <2>2. F \subseteq 1..d
    BY <2>1 DEF E, F
  <2>3. due' \subseteq 1..d
    BY <1>3, <1>4, <2>2
  <2>. QED  BY <1>1, <1>2, <1>3, <1>4, <1>11, <2>3 DEF TranscriptTyped, TranscriptInv
<1>. QED  BY <1>1, <1>11, <1>14, <1>15, Zenon DEF TranscriptInv

\* The content of the session is pruned.
LEMMA PruneStep ==
  ASSUME TranscriptInv, Replay!Prune
  PROVE  TranscriptInv'
<1> DEFINE d == delivered + 1
           y == Replay!Invalidated(t)
           z == [y EXCEPT !.content = {}, !.size = 0, !.buffer = {},
                          !.revision = y.revision + 1, !.early = {}]
<1>1. /\ t.alive /\ t' = Replay!Collapse(z) /\ delivered' = d
      /\ due' = due \cup {d} /\ readers' = readers
  BY Zenon DEF Replay!Prune, Replay!Becomes
<1>2. /\ t \in AnEntry /\ Good(t, delivered, due) /\ delivered \in Nat /\ d \in Nat
      /\ due \in SUBSET Nat /\ due' \in SUBSET Nat
  BY <1>1 DEF TranscriptInv, TranscriptTyped
<1>3. /\ y \in AnEntry /\ y.alive = t.alive /\ y.epoch = t.epoch
      /\ y.revision = t.revision /\ y.resync = t.resync + 1
      /\ ~y.owed /\ ~y.resyncing /\ ~y.rotating /\ y.queue = <<>>
      /\ y.misapplied = t.misapplied
  BY <1>2, WhenInvalidated
<1> HIDE DEF y
<1>4. PICK c \in ASet, n \in Nat, m \in Int : c = {} /\ n = y.revision + 1 /\ m = 0
  <2>1. {} \in ASet
    BY DEF ASet
  <2>2. y.revision + 1 \in Nat
    BY <1>3, Numbers
  <2>3. 0 \in Int
    OBVIOUS
  <2>. QED  BY <2>1, <2>2, <2>3, Zenon
<1>5. z = [y EXCEPT !.content = c, !.size = m, !.buffer = c, !.revision = n, !.early = c]
  BY <1>4, Zenon
<1>5a. y \in AnEntry
  BY <1>3, Zenon
<1> HIDE DEF z
<1>6. /\ z \in AnEntry /\ z.alive = y.alive /\ z.epoch = y.epoch /\ z.revision = n
      /\ z.resync = y.resync /\ z.owed = y.owed /\ z.resyncing = y.resyncing
      /\ z.queue = y.queue /\ z.misapplied = y.misapplied /\ z.content = c /\ z.buffer = c
  <2> DEFINE v == [y EXCEPT !.content = c, !.size = m]
  <2>1. /\ v = [y EXCEPT !.content = c, !.size = m]
        /\ z = [v EXCEPT !.buffer = c, !.revision = n, !.early = c]
    BY <1>5
  <2> HIDE DEF v
  <2>2. /\ v \in AnEntry /\ v.alive = y.alive /\ v.epoch = y.epoch
        /\ v.resync = y.resync /\ v.owed = y.owed /\ v.resyncing = y.resyncing
        /\ v.queue = y.queue /\ v.misapplied = y.misapplied /\ v.content = c
    BY <1>5a, <2>1, ZenonT(60) DEF AnEntry
  <2>3. /\ z \in AnEntry /\ z.alive = v.alive /\ z.epoch = v.epoch /\ z.revision = n
        /\ z.resync = v.resync /\ z.owed = v.owed /\ z.resyncing = v.resyncing
        /\ z.queue = v.queue /\ z.misapplied = v.misapplied /\ z.content = v.content
        /\ z.buffer = c
    BY <2>1, <2>2, ZenonT(60) DEF AnEntry
  <2>. QED  BY <2>2, <2>3, Zenon
<1>7. InOrder(z) /\ Reflected(z) = {}
  <2>1. DOMAIN <<>> = {}
    OBVIOUS
  <2>2. DOMAIN z.queue = {}
    BY <1>3, <1>6, <2>1, Zenon
  <2>3. ~t.misapplied
    BY <1>2, Zenon DEF Good, InOrder
  <2>. QED  BY <1>3, <1>4, <1>6, <2>2, <2>3 DEF InOrder, Reflected, Before
<1>8. /\ Good(Replay!Collapse(z), d, due') /\ Alike(z, Replay!Collapse(z))
      /\ Replay!Collapse(z).buffer = z.buffer
  <2>1. z.alive /\ Reflected(z) \subseteq 1..d /\ (z.resyncing => z.owed)
    BY <1>1, <1>3, <1>6, <1>7
  <2>. QED  BY <1>2, <1>6, <1>7, <2>1, GoodCollapse
<1>9. /\ t' \in AnEntry /\ t'.epoch = t.epoch /\ t'.resync = t.resync + 1
      /\ t'.revision = t.revision + 1
  BY <1>1, <1>3, <1>4, <1>6, <1>8, Zenon DEF Good, Alike
<1>10. t'.resync >= t.resync /\ t'.revision > t.revision
  BY <1>2, <1>9, Numbers
<1>11. ReadersOK'
  BY <1>1, <1>9, <1>10, ReadersStay
<1>12. TranscriptTyped'
  <2>1. due' \subseteq 1..d
    BY <1>1 DEF TranscriptInv, TranscriptTyped
  <2>. QED  BY <1>1, <1>2, <1>9, <2>1 DEF TranscriptTyped, TranscriptInv
<1>. QED  BY <1>1, <1>8, <1>11, <1>12, Zenon DEF TranscriptInv

\* A step that takes no event and begins no read: the entry that results is good, and
\* counts on or is gone.
LEMMA QuietStep ==
  ASSUME TranscriptInv, UNCHANGED <<delivered, due>>, readers' \subseteq readers,
         Good(t', delivered, due),
         \/ /\ t'.alive = t.alive /\ t'.epoch = t.epoch /\ t'.resync = t.resync
            /\ t'.revision = t.revision /\ (t'.resyncing => t.resyncing)
            /\ t.buffer = {} => t'.buffer = {}
         \/ ~t'.alive /\ t'.epoch = t.epoch /\ t'.resync >= t.resync
  PROVE  TranscriptInv'
<1>1. t' \in AnEntry
  BY Zenon DEF Good
<1>2. delivered' = delivered /\ due' = due
  OBVIOUS
<1>3. ReadersOK'
  BY <1>1, <1>2, ReadersStay
<1>4. TranscriptTyped'
  BY <1>1, <1>2 DEF TranscriptInv, TranscriptTyped
<1>. QED  BY <1>2, <1>3, <1>4, Zenon DEF TranscriptInv

\* The entry is destroyed.
LEMMA DestroyStep ==
  ASSUME TranscriptInv, Replay!Destroy
  PROVE  TranscriptInv'
<1>1. /\ t' = Replay!Destroyed(t) /\ readers' = readers
      /\ delivered' = delivered /\ due' = due
  BY Zenon DEF Replay!Destroy, Replay!Becomes
<1>2. Good(t, delivered, due) /\ delivered \in Nat
  BY DEF TranscriptInv, TranscriptTyped
<1>3. /\ Good(Replay!Destroyed(t), delivered, due) /\ ~Replay!Destroyed(t).alive
      /\ Replay!Destroyed(t).epoch = t.epoch /\ Replay!Destroyed(t).resync >= t.resync
  BY <1>2, GoodDestroyed
<1>. QED  BY <1>1, <1>3, QuietStep

\* The buffer is reduced, on its timer or before a page is read.
LEMMA FlushStep ==
  ASSUME TranscriptInv, UNCHANGED <<delivered, due>>, readers' \subseteq readers,
         t' = Replay!Flush(t)
  PROVE  TranscriptInv'
<1>1. Good(t, delivered, due) /\ delivered \in Nat /\ due \in SUBSET Nat
  BY DEF TranscriptInv, TranscriptTyped
<1>2. /\ Good(Replay!Flush(t), delivered, due) /\ Alike(t, Replay!Flush(t))
      /\ Replay!Flush(t).buffer = {}
  BY <1>1, GoodFlush
<1>3. /\ t'.alive = t.alive /\ t'.epoch = t.epoch /\ t'.resync = t.resync
      /\ t'.revision = t.revision /\ t'.resyncing = t.resyncing /\ t'.buffer = {}
      /\ Good(t', delivered, due)
  BY <1>2, Zenon DEF Alike
<1>. QED  BY <1>3, QuietStep

\* The entry may be retired at the end of a step.
LEMMA RetiredStep ==
  ASSUME TranscriptInv, UNCHANGED <<delivered, due>>, readers' \subseteq readers,
         NEW x, Good(x, delivered, due), t' \in {x, Replay!Retired(x)},
         x.alive = t.alive, x.epoch = t.epoch, x.resync = t.resync,
         x.revision = t.revision, x.resyncing => t.resyncing,
         t.buffer = {} => x.buffer = {}
  PROVE  TranscriptInv'
<1>1. delivered \in Nat
  BY DEF TranscriptInv, TranscriptTyped
<1>2. /\ Good(Replay!Retired(x), delivered, due)
      /\ \/ Replay!Retired(x) = x
         \/ /\ ~Replay!Retired(x).alive /\ Replay!Retired(x).epoch = x.epoch
            /\ Replay!Retired(x).resync >= x.resync
  BY <1>1, GoodRetired
<1>3. CASE t' = x
  BY <1>3, QuietStep
<1>4. CASE t' # x
  <2>1. /\ t' = Replay!Retired(x) /\ ~t'.alive /\ t'.epoch = t.epoch
        /\ t'.resync >= t.resync /\ Good(t', delivered, due)
    BY <1>2, <1>4, Zenon
  <2>. QED  BY <2>1, QuietStep
<1>. QED  BY <1>3, <1>4

\* A rotation ends once nothing waits for it.
LEMMA LeavesStep ==
  ASSUME TranscriptInv, UNCHANGED <<delivered, due>>, readers' \subseteq readers,
         NEW k, NEW x, Good(x, delivered, due), Replay!Leaves(x, k),
         x.alive /\ x.epoch = k.epoch /\ x.rotation = k.rotation => x.queue = <<>>,
         x.alive = t.alive, x.epoch = t.epoch, x.resync = t.resync,
         x.revision = t.revision, x.resyncing => t.resyncing,
         t.buffer = {} => x.buffer = {}
  PROVE  TranscriptInv'
<1> DEFINE y == IF x.alive /\ x.epoch = k.epoch /\ x.rotation = k.rotation
                THEN [x EXCEPT !.rotating = FALSE] ELSE x
<1>1. t' = Replay!Retired(y)
  BY Zenon DEF Replay!Leaves
<1>2. /\ Good(y, delivered, due) /\ y.alive = x.alive /\ y.epoch = x.epoch
      /\ y.resync = x.resync /\ y.revision = x.revision /\ y.resyncing = x.resyncing
      /\ y.buffer = x.buffer
  <2>1. CASE x.alive /\ x.epoch = k.epoch /\ x.rotation = k.rotation
    <3>1. y = [x EXCEPT !.rotating = FALSE] /\ x.queue = <<>>
      BY <2>1
    <3> HIDE DEF y
    <3>2. x \in AnEntry
      BY Zenon DEF Good
    <3>3. /\ y \in AnEntry /\ y.alive = x.alive /\ y.epoch = x.epoch
          /\ y.resync = x.resync /\ y.revision = x.revision /\ y.resyncing = x.resyncing
          /\ y.buffer = x.buffer /\ y.content = x.content /\ y.queue = x.queue
          /\ y.misapplied = x.misapplied /\ y.owed = x.owed
          /\ ~y.rotating
      BY <3>1, <3>2, ZenonT(60) DEF AnEntry
    <3>4. Reflected(y) = Reflected(x) /\ InOrder(y)
      BY <3>3, ShowsTheSame, Zenon DEF Good
    <3>5. Settled(y) /\ Covers(y, due)
      BY <3>1, <3>3, <3>4, Zenon DEF Good, Settled, Covers
    <3>. QED  BY <3>3, <3>4, <3>5, Zenon DEF Good
  <2>2. CASE ~(x.alive /\ x.epoch = k.epoch /\ x.rotation = k.rotation)
    <3>1. y = x
      BY <2>2, Zenon
    <3>. QED  BY <3>1, Zenon
  <2>. QED  BY <2>1, <2>2, Zenon
<1> HIDE DEF y
<1>3. t' \in {y, Replay!Retired(y)}
  BY <1>1
<1>. QED  BY <1>2, <1>3, RetiredStep

\* A rotation that is not current any more leaves.
LEMMA StaleLeaves ==
  ASSUME TranscriptInv, UNCHANGED <<delivered, due>>, readers' \subseteq readers,
         NEW k, ~Replay!Rotates(k), Replay!Leaves(t, k)
  PROVE  TranscriptInv'
<1>1. Good(t, delivered, due)
  BY DEF TranscriptInv
<1>2. t.alive /\ t.epoch = k.epoch /\ t.rotation = k.rotation => t.queue = <<>>
  BY <1>1, Zenon DEF Good, Settled, Replay!Rotates
<1>. QED  BY <1>1, <1>2, LeavesStep

\* The timer of the buffer fires.
LEMMA BufferTimerStep ==
  ASSUME TranscriptInv, Replay!BufferTimer
  PROVE  TranscriptInv'
<1>1. t' = Replay!Flush(t) /\ readers' \subseteq readers /\ UNCHANGED <<delivered, due>>
  BY DEF Replay!BufferTimer, Replay!Becomes
<1>. QED  BY <1>1, FlushStep

\* The smaller and the larger of two numbers are numbers.
LEMMA OfTwo ==
  ASSUME NEW a \in Int, NEW b \in Int
  PROVE  Replay!Min({a, b}) \in Int /\ Replay!Max({a, b}) \in Int
<1>1. \E x \in {a, b} : \A y \in {a, b} : x =< y
  <2>1. CASE a =< b
    BY <2>1
  <2>2. CASE b =< a
    BY <2>2
  <2>. QED  BY <2>1, <2>2
<1>2. \E x \in {a, b} : \A y \in {a, b} : x >= y
  <2>1. CASE a >= b
    BY <2>1
  <2>2. CASE b >= a
    BY <2>2
  <2>. QED  BY <2>1, <2>2
<1>3. Replay!Min({a, b}) \in {a, b}
  BY <1>1 DEF Replay!Min
<1>4. Replay!Max({a, b}) \in {a, b}
  BY <1>2 DEF Replay!Max
<1>. QED  BY <1>3, <1>4

\* How many messages a rotation leaves is a number.
LEMMA ReserveIsInt ==
  ASSUME TranscriptInv
  PROVE  MaxMessages - Replay!Reserve \in Int
<1> DEFINE S == {i \in DOMAIN t.queue : t.queue[i].kind = "append"}
           A == Replay!Appends
           m == Replay!Max({A, 1})
<1>1. t.queue \in Seq(AnEvent)
  <2>1. t \in AnEntry
    BY DEF TranscriptInv, TranscriptTyped
  <2>. QED  BY <2>1, Numbers
<1>2. Replay!Appends = Cardinality(S)
  BY DEF Replay!Appends, Replay!Cardinality, Cardinality
<1>3. IsFiniteSet(S)
  <2>1. PICK l \in Nat : DOMAIN t.queue = 1..l
    BY <1>1
  <2>2. IsFiniteSet(1..l) /\ S \subseteq 1..l
    BY <2>1, FS_Interval
  <2>. QED  BY <2>2, FS_Subset
<1>4. Cardinality(S) \in Nat
  BY <1>3, FS_CardinalityType
<1> HIDE DEF S
<1>5. A \in Int /\ 1 \in Int
  BY <1>2, <1>4
<1> HIDE DEF A
<1>6. m \in Int
  BY <1>5, OfTwo
<1>7. Replay!Reserve = Replay!Min({m, MaxReserve})
  BY Zenon DEF Replay!Reserve, A
<1> HIDE DEF m
<1>8. MaxReserve \in Int /\ MaxMessages \in Int
  BY TranscriptAssumption
<1>9. Replay!Reserve \in Int
  BY <1>6, <1>7, <1>8, OfTwo
<1>. QED  BY <1>8, <1>9

\* A rotation reads its page.
LEMMA RotatorReadsStep ==
  ASSUME TranscriptInv, NEW k, Replay!RotatorReads(k)
  PROVE  TranscriptInv'
<1>1. readers' \subseteq readers /\ UNCHANGED <<delivered, due>>
  BY DEF Replay!RotatorReads
<1>2. CASE ~Replay!Rotates(k)
  <2>1. Replay!Leaves(t, k)
    BY <1>2, Zenon DEF Replay!RotatorReads
  <2>. QED  BY <1>1, <1>2, <2>1, StaleLeaves
<1>3. CASE Replay!Rotates(k)
  <2> DEFINE x == Replay!Flush(t)
             n == Replay!Min({x.size, MaxMessages - Replay!Reserve})
  <2>1. t' = [x EXCEPT !.size = n]
    BY <1>3, Zenon DEF Replay!RotatorReads, Replay!Flushed
  <2>2. Good(t, delivered, due) /\ delivered \in Nat /\ due \in SUBSET Nat
    BY DEF TranscriptInv, TranscriptTyped
  <2>3. Good(x, delivered, due) /\ Alike(t, x) /\ x.buffer = {}
    BY <2>2, GoodFlush
  <2> HIDE DEF x
  <2>4. x \in AnEntry
    BY <2>3, Zenon DEF Good
  <2>5. n \in Int
    <3>1. x.size \in Int
      BY <2>4, Numbers
    <3>2. MaxMessages - Replay!Reserve \in Int
      BY ReserveIsInt
    <3>. QED  BY <3>1, <3>2, OfTwo
  <2> HIDE DEF n
  <2>6. SameView(x, t') /\ Alike(x, t')
    BY <2>1, <2>4, <2>5, PutSize
  <2>7. Good(t', delivered, due)
    BY <2>3, <2>6, GoodSame
  <2>8. /\ t'.alive = t.alive /\ t'.epoch = t.epoch /\ t'.resync = t.resync
        /\ t'.revision = t.revision /\ t'.resyncing = t.resyncing /\ t'.buffer = {}
    BY <2>3, <2>6, Zenon DEF Alike, SameView
  <2>. QED  BY <1>1, <2>7, <2>8, QuietStep
<1>. QED  BY <1>2, <1>3

\* A chunk of the queue is reduced.
LEMMA RotatorDrainsStep ==
  ASSUME TranscriptInv, NEW k, NEW n \in 0..MaxQueue, Replay!RotatorDrains(k, n)
  PROVE  TranscriptInv'
<1> DEFINE x == Replay!Chunk(t, n)
<1>1. /\ readers' \subseteq readers /\ UNCHANGED <<delivered, due>> /\ n <= Len(t.queue)
      /\ IF ~Replay!Rotates(k) \/ x.queue = <<>>
         THEN Replay!Leaves(IF Replay!Rotates(k) THEN x ELSE t, k)
         ELSE t' = x
  BY DEF Replay!RotatorDrains
<1>2. Good(t, delivered, due) /\ delivered \in Nat /\ due \in SUBSET Nat
  BY DEF TranscriptInv, TranscriptTyped
<1>3. n \in Nat
  BY TranscriptAssumption
<1>4. Good(x, delivered, due) /\ Alike(t, x) /\ x.buffer = t.buffer
  BY <1>1, <1>2, <1>3, GoodChunk
<1> HIDE DEF x
<1>5. /\ x.alive = t.alive /\ x.epoch = t.epoch /\ x.resync = t.resync
      /\ x.revision = t.revision /\ x.resyncing = t.resyncing
  BY <1>4, Zenon DEF Alike
<1>6. CASE ~Replay!Rotates(k)
  <2>1. Replay!Leaves(t, k)
    BY <1>1, <1>6
  <2>. QED  BY <1>1, <1>6, <2>1, StaleLeaves
<1>7. CASE Replay!Rotates(k) /\ x.queue = <<>>
  <2>1. Replay!Leaves(x, k)
    BY <1>1, <1>7
  <2>. QED  BY <1>1, <1>4, <1>5, <1>7, <2>1, LeavesStep
<1>8. CASE Replay!Rotates(k) /\ x.queue # <<>>
  <2>1. t' = x
    BY <1>1, <1>8
  <2>. QED  BY <1>1, <1>4, <1>5, <2>1, QuietStep
<1>. QED  BY <1>6, <1>7, <1>8

\* The read of a rotation fails.
LEMMA RotatorFailsStep ==
  ASSUME TranscriptInv, NEW k, Replay!RotatorFails(k)
  PROVE  TranscriptInv'
<1> DEFINE y == [t EXCEPT !.queue = <<>>, !.rotation = t.rotation + 1, !.rotating = FALSE]
           x == Replay!Schedule(y)
<1>1. readers' \subseteq readers /\ UNCHANGED <<delivered, due>>
  BY DEF Replay!RotatorFails
<1>2. CASE ~Replay!Rotates(k)
  <2>1. Replay!Leaves(t, k)
    BY <1>2, Zenon DEF Replay!RotatorFails
  <2>. QED  BY <1>1, <1>2, <2>1, StaleLeaves
<1>3. CASE Replay!Rotates(k)
  <2>1. Replay!Leaves(x, k)
    BY <1>3, Zenon DEF Replay!RotatorFails
  <2>2. Good(t, delivered, due) /\ delivered \in Nat /\ due \in SUBSET Nat /\ t \in AnEntry
    BY DEF TranscriptInv, TranscriptTyped
  <2>3. /\ t.alive /\ Reflected(t) \subseteq 1..delivered /\ InOrder(t)
        /\ (t.resyncing => t.owed)
    BY <1>3, <2>2, Zenon DEF Good, Settled, Replay!Rotates
  <2>4. Good(x, delivered, due) /\ Alike(t, x) /\ x.buffer = t.buffer /\ x.owed
    BY <2>2, <2>3, GoodCleared
  <2> HIDE DEF x
  <2>5. /\ x.alive = t.alive /\ x.epoch = t.epoch /\ x.resync = t.resync
        /\ x.revision = t.revision /\ x.resyncing = t.resyncing
    BY <2>4, Zenon DEF Alike
  <2>6. x.queue = <<>>
    BY <2>4, Zenon DEF Good, Settled
  <2>. QED  BY <1>1, <2>1, <2>4, <2>5, <2>6, LeavesStep
<1>. QED  BY <1>2, <1>3

-----------------------------------------------------------------------------
(* The reads of a snapshot *)

\* The read comes to nothing and another is scheduled.
LEMMA GivenBackStep ==
  ASSUME TranscriptInv, UNCHANGED <<delivered, due>>, readers' \subseteq readers,
         t.alive, t.resyncing, t' = Replay!Schedule([t EXCEPT !.resyncing = FALSE])
  PROVE  TranscriptInv'
<1> DEFINE y == [t EXCEPT !.resyncing = FALSE]
<1>1. /\ Good(t, delivered, due) /\ delivered \in Nat /\ due \in SUBSET Nat /\ t \in AnEntry
  BY DEF TranscriptInv, TranscriptTyped
<1>2. y = [t EXCEPT !.resyncing = FALSE]
  OBVIOUS
<1> HIDE DEF y
<1>3. /\ y \in AnEntry /\ y.alive = t.alive /\ y.epoch = t.epoch /\ y.resync = t.resync
      /\ y.revision = t.revision /\ ~y.resyncing /\ y.owed = t.owed
      /\ y.content = t.content /\ y.buffer = t.buffer /\ y.queue = t.queue
      /\ y.misapplied = t.misapplied /\ y.rotating = t.rotating
  BY <1>1, <1>2, ZenonT(60) DEF AnEntry
<1>4. Reflected(y) = Reflected(t) /\ InOrder(y)
  BY <1>1, <1>3, ShowsTheSame, Zenon DEF Good
<1>5. Settled(y) /\ Covers(y, due)
  BY <1>1, <1>3, <1>4, Zenon DEF Good, Settled, Covers
<1>6. Good(y, delivered, due)
  BY <1>1, <1>3, <1>4, <1>5, Zenon DEF Good
<1>7. y.alive /\ y.queue = <<>>
  BY <1>1, <1>3, Zenon DEF Good, Settled
<1>8. t' = Replay!Schedule(y)
  BY DEF y
<1>9. /\ Good(Replay!Schedule(y), delivered, due)
      /\ Alike(y, Replay!Schedule(y)) /\ Replay!Schedule(y).buffer = y.buffer
  BY <1>1, <1>6, <1>7, GoodSchedule
<1>10. /\ Good(t', delivered, due) /\ t'.alive = t.alive /\ t'.epoch = t.epoch
       /\ t'.resync = t.resync /\ t'.revision = t.revision /\ ~t'.resyncing
       /\ t'.buffer = t.buffer
  BY <1>3, <1>8, <1>9, Zenon DEF Alike
<1>. QED  BY <1>10, QuietStep

\* The timer of a resynchronization fires, and may begin a read.
LEMMA ResyncTimerStep ==
  ASSUME TranscriptInv, Replay!ResyncTimer
  PROVE  TranscriptInv'
<1> DEFINE start == t.owed /\ ~t.resyncing
<1>1. /\ Good(t, delivered, due) /\ delivered \in Nat /\ due \in SUBSET Nat /\ t \in AnEntry
      /\ due \subseteq 1..delivered /\ readers \in SUBSET AReader
  BY DEF TranscriptInv, TranscriptTyped
<1>2. CASE ~start
  <2>1. /\ t' = [t EXCEPT !.timer = FALSE] /\ readers' \subseteq readers
        /\ UNCHANGED <<delivered, due>>
    BY <1>2 DEF Replay!ResyncTimer
  <2>2. PICK b \in BOOLEAN : b = FALSE
    OBVIOUS
  <2>3. t' = [t EXCEPT !.timer = b]
    BY <2>1, <2>2, Zenon
  <2>4. SameView(t, t') /\ Alike(t, t')
    BY <1>1, <2>3, PutTimer
  <2>5. Good(t', delivered, due)
    BY <1>1, <2>4, GoodSame
  <2>6. /\ t'.alive = t.alive /\ t'.epoch = t.epoch /\ t'.resync = t.resync
        /\ t'.revision = t.revision /\ t'.resyncing = t.resyncing /\ t'.buffer = t.buffer
    BY <2>4, Zenon DEF Alike, SameView
  <2>. QED  BY <2>1, <2>5, <2>6, QuietStep
<1>3. CASE start
  <2>0. PICK m : m = [epoch |-> t.epoch, resync |-> t.resync + 1, revision |-> t.revision,
                      stage |-> "reading", content |-> {}]
    OBVIOUS
  <2>1. /\ t' = [t EXCEPT !.timer = FALSE, !.resyncing = TRUE, !.resync = t.resync + 1]
        /\ readers' = readers \cup {m} /\ delivered' = delivered /\ due' = due
    BY <1>3, <2>0, Zenon DEF Replay!ResyncTimer
  <2>2. PICK n \in Nat : n = t.resync + 1
    BY <1>1, Numbers, Zenon
  <2>3. t' = [t EXCEPT !.timer = FALSE, !.resyncing = TRUE, !.resync = n]
    BY <2>1, <2>2, Zenon
  <2>4. /\ t' \in AnEntry /\ t'.alive = t.alive /\ t'.epoch = t.epoch /\ t'.resync = n
        /\ t'.revision = t.revision /\ t'.resyncing /\ t'.owed = t.owed
        /\ t'.content = t.content /\ t'.buffer = t.buffer /\ t'.queue = t.queue
        /\ t'.misapplied = t.misapplied /\ t'.rotating = t.rotating
    BY <1>1, <2>3, ZenonT(60) DEF AnEntry
  <2>5. Reflected(t') = Reflected(t) /\ InOrder(t')
    BY <1>1, <2>4, ShowsTheSame, Zenon DEF Good
  <2>6. Settled(t') /\ Covers(t', due)
    BY <1>1, <1>3, <2>4, <2>5, Zenon DEF Good, Settled, Covers
  <2>7. Good(t', delivered, due)
    BY <1>1, <2>4, <2>5, <2>6, Zenon DEF Good
  <2>8. /\ t.epoch \in Nat /\ t.resync \in Nat /\ t.revision \in Nat
        /\ t'.epoch \in Nat /\ t'.resync \in Nat /\ t'.revision \in Nat
    BY <1>1, <2>4, Numbers
  <2>9. t'.resync > t.resync
    BY <2>2, <2>4, <2>8
  <2>10. \A k \in readers : ReaderOK(k)'
    BY <2>4, <2>9, ReaderStays
  <2>11. m \in AReader /\ ReaderOK(m)'
    <3>1. /\ m.epoch = t'.epoch /\ m.resync = t'.resync /\ m.revision = t'.revision
          /\ m.stage # "read"
      BY <2>0, <2>2, <2>4
    <3>2. m \in AReader
      BY <2>0, <2>2, <2>8 DEF AReader
    <3>3. \A a \in Nat : a <= a
      OBVIOUS
    <3>. QED  BY <2>8, <3>1, <3>2, <3>3, Zenon DEF ReaderOK
  <2>12. ReadersOK'
    BY <2>1, <2>10, <2>11 DEF ReadersOK
  <2>13. TranscriptTyped'
    BY <1>1, <2>1, <2>4, <2>11 DEF TranscriptTyped
  <2>. QED  BY <2>1, <2>7, <2>12, <2>13, Zenon DEF TranscriptInv
<1>. QED  BY <1>2, <1>3

\* A snapshot was read: it holds every event so far, if not more, and the buffer is empty.
LEMMA ReaderReadsStep ==
  ASSUME TranscriptInv, NEW k \in readers, Replay!ReaderReads(k)
  PROVE  TranscriptInv'
<1>0. PICK n, m :
        /\ n \in delivered..MaxDelivered
        /\ m = [k EXCEPT !.stage = "read", !.content = 1..n]
        /\ readers' = (readers \ {k}) \cup {m}
  BY Zenon DEF Replay!ReaderReads
<1>1. /\ t' = (IF Replay!Resyncs(k) THEN Replay!Flush(t) ELSE t)
      /\ readers' = (readers \ {k}) \cup {m} /\ delivered' = delivered /\ due' = due
  BY <1>0, Zenon DEF Replay!ReaderReads, Replay!Becomes, Replay!Flushed
<1>2. /\ Good(t, delivered, due) /\ delivered \in Nat /\ due \in SUBSET Nat /\ t \in AnEntry
      /\ due \subseteq 1..delivered /\ readers \in SUBSET AReader
  BY DEF TranscriptInv, TranscriptTyped
<1>3. /\ Good(Replay!Flush(t), delivered, due) /\ Alike(t, Replay!Flush(t))
      /\ Replay!Flush(t).buffer = {}
  BY <1>2, GoodFlush
<1>4. /\ Good(t', delivered, due) /\ t'.alive = t.alive /\ t'.epoch = t.epoch
      /\ t'.resync = t.resync /\ t'.revision = t.revision /\ t'.resyncing = t.resyncing
      /\ t.buffer = {} => t'.buffer = {}
      /\ Replay!Resyncs(k) => t'.buffer = {}
  <2>1. CASE Replay!Resyncs(k)
    <3>1. t' = Replay!Flush(t)
      BY <1>1, <2>1, Zenon
    <3>. QED  BY <1>3, <3>1, Zenon DEF Alike
  <2>2. CASE ~Replay!Resyncs(k)
    <3>1. t' = t
      BY <1>1, <2>2, Zenon
    <3>. QED  BY <1>2, <2>2, <3>1, Zenon
  <2>. QED  BY <2>1, <2>2
<1>5. t' \in AnEntry
  BY <1>4, Zenon DEF Good
<1>6. \A r \in readers : ReaderOK(r)'
  <2> SUFFICES ASSUME NEW r \in readers PROVE ReaderOK(r)'
    OBVIOUS
  <2>. QED  BY <1>1, <1>4, <1>5, ReaderStays
<1>7. /\ m \in AReader /\ m.epoch = k.epoch /\ m.resync = k.resync
      /\ m.revision = k.revision /\ m.content = 1..n
  <2>1. k \in AReader /\ 1..n \in SUBSET Nat
    BY <1>2, TranscriptAssumption
  <2>. QED  BY <1>0, <2>1 DEF AReader
<1>8. ReaderOK(m)'
  <2>1. Replay!Resyncs(m)' => Replay!Resyncs(k)
    BY <1>4, <1>7 DEF Replay!Resyncs
  <2>2. ReaderOK(k)'
    BY <1>6
  <2>3. /\ m.epoch <= t'.epoch
        /\ m.epoch = t'.epoch => m.resync <= t'.resync
        /\ t'.alive /\ m.epoch = t'.epoch => m.revision <= t'.revision
    BY <1>7, <2>2 DEF ReaderOK
  <2>4. Replay!Resyncs(m)' => 1..delivered' \subseteq m.content /\ t'.buffer = {}
    <3>1. 1..delivered \subseteq 1..n
      BY <1>0, <1>2, TranscriptAssumption
    <3>. QED  BY <1>1, <1>4, <1>7, <2>1, <3>1
  <2>. QED  BY <2>3, <2>4 DEF ReaderOK
<1>9. ReadersOK'
  BY <1>1, <1>6, <1>8 DEF ReadersOK
<1>10. TranscriptTyped'
  BY <1>1, <1>2, <1>5, <1>7 DEF TranscriptTyped
<1>. QED  BY <1>1, <1>4, <1>9, <1>10, Zenon DEF TranscriptInv

\* A snapshot that no event overtook replaces what is shown.
LEMMA ReaderEndsStep ==
  ASSUME TranscriptInv, NEW k \in readers, Replay!ReaderEnds(k)
  PROVE  TranscriptInv'
<1> DEFINE y == [t EXCEPT !.content = k.content \cap 1..delivered,
                          !.early = k.content \ 1..delivered, !.size = 0, !.owed = FALSE,
                          !.resyncing = FALSE]
<1>1. /\ readers' \subseteq readers /\ UNCHANGED <<delivered, due>> /\ k.stage = "read"
      /\ t' = IF ~Replay!Resyncs(k) THEN t
              ELSE IF ~Replay!Stable(k) THEN Replay!Schedule([t EXCEPT !.resyncing = FALSE])
              ELSE Replay!Retired(y)
  BY DEF Replay!ReaderEnds, Replay!Becomes
<1>2. /\ Good(t, delivered, due) /\ delivered \in Nat /\ due \in SUBSET Nat /\ t \in AnEntry
      /\ due \subseteq 1..delivered /\ ReaderOK(k) /\ k.content \in SUBSET Nat
  BY DEF TranscriptInv, TranscriptTyped, ReadersOK, AReader
<1>3. CASE ~Replay!Resyncs(k)
  <2>1. t' = t
    BY <1>1, <1>3
  <2>. QED  BY <1>1, <1>2, <2>1, QuietStep
<1>4. CASE Replay!Resyncs(k) /\ ~Replay!Stable(k)
  <2>1. t' = Replay!Schedule([t EXCEPT !.resyncing = FALSE])
    BY <1>1, <1>4
  <2>2. t.alive /\ t.resyncing
    BY <1>4 DEF Replay!Resyncs
  <2>. QED  BY <1>1, <2>1, <2>2, GivenBackStep
<1>5. CASE Replay!Resyncs(k) /\ Replay!Stable(k)
  <2>1. t' = Replay!Retired(y)
    BY <1>1, <1>5
  <2>2. 1..delivered \subseteq k.content /\ t.buffer = {} /\ t.alive /\ t.resyncing
    BY <1>1, <1>2, <1>5 DEF ReaderOK, Replay!Resyncs, Replay!Stable
  <2>3. t.queue = <<>> /\ ~t.misapplied
    BY <1>2, <2>2, Zenon DEF Good, Settled, InOrder
  <2>4. PICK c \in ASet, b \in ASet, n \in Int :
          /\ c = 1..delivered /\ c = k.content \cap 1..delivered
          /\ b = k.content \ 1..delivered /\ n = 0
    <3>1. /\ 1..delivered \in ASet /\ k.content \ 1..delivered \in ASet /\ 0 \in Int
          /\ k.content \cap 1..delivered = 1..delivered
      BY <1>2, <2>2 DEF ASet
    <3>. QED  BY <3>1, Zenon
  <2>5. y = [t EXCEPT !.content = c, !.early = b, !.size = n, !.owed = FALSE,
                      !.resyncing = FALSE]
    BY <2>4, Zenon
  <2> HIDE DEF y
  <2>6. /\ y \in AnEntry /\ y.alive = t.alive /\ y.epoch = t.epoch /\ y.resync = t.resync
        /\ y.revision = t.revision /\ ~y.resyncing /\ ~y.owed
        /\ y.content = c /\ y.buffer = t.buffer /\ y.queue = t.queue
        /\ y.misapplied = t.misapplied /\ y.rotating = t.rotating
    BY <1>2, <2>5, ZenonT(60) DEF AnEntry
  <2>7. InOrder(y) /\ Reflected(y) = 1..delivered
    <3>1. DOMAIN <<>> = {}
      OBVIOUS
    <3>2. DOMAIN y.queue = {}
      BY <2>3, <2>6, <3>1, Zenon
    <3>. QED  BY <2>2, <2>3, <2>4, <2>6, <3>2 DEF InOrder, Reflected, Before
  <2>8. Settled(y)
    BY <2>2, <2>3, <2>6, Zenon DEF Settled
  <2>9. Covers(y, due) /\ Reflected(y) \subseteq 1..delivered
    BY <1>2, <2>7 DEF Covers
  <2>10. Good(y, delivered, due)
    BY <2>6, <2>7, <2>8, <2>9, Zenon DEF Good
  <2>11. t' \in {y, Replay!Retired(y)}
    BY <2>1
  <2>. QED  BY <1>1, <2>6, <2>10, <2>11, RetiredStep
<1>. QED  BY <1>3, <1>4, <1>5

\* The read of a snapshot fails.
LEMMA ReaderFailsStep ==
  ASSUME TranscriptInv, NEW k \in readers, Replay!ReaderFails(k)
  PROVE  TranscriptInv'
<1>1. /\ readers' \subseteq readers /\ UNCHANGED <<delivered, due>>
      /\ t' = IF Replay!Resyncs(k) THEN Replay!Schedule([t EXCEPT !.resyncing = FALSE])
              ELSE t
  BY DEF Replay!ReaderFails, Replay!Becomes
<1>2. CASE ~Replay!Resyncs(k)
  <2>1. t' = t
    BY <1>1, <1>2
  <2>2. Good(t, delivered, due)
    BY DEF TranscriptInv
  <2>. QED  BY <1>1, <2>1, <2>2, QuietStep
<1>3. CASE Replay!Resyncs(k)
  <2>1. t' = Replay!Schedule([t EXCEPT !.resyncing = FALSE])
    BY <1>1, <1>3
  <2>2. t.alive /\ t.resyncing
    BY <1>3 DEF Replay!Resyncs
  <2>. QED  BY <1>1, <2>1, <2>2, GivenBackStep
<1>. QED  BY <1>2, <1>3

-----------------------------------------------------------------------------
(* The theorem of the transcript *)

\* Every step of the transcript keeps its invariant.
LEMMA TranscriptNext ==
  ASSUME TranscriptInv, Replay!Next
  PROVE  TranscriptInv'
<1>1. ASSUME NEW kind \in Replay!Kinds, Replay!Deliver(kind) PROVE TranscriptInv'
  BY <1>1, DeliverStep
<1>2. CASE Replay!Prune
  BY <1>2, PruneStep
<1>3. CASE Replay!Destroy
  BY <1>3, DestroyStep
<1>4. CASE Replay!BufferTimer
  BY <1>4, BufferTimerStep
<1>5. CASE Replay!ResyncTimer
  BY <1>5, ResyncTimerStep
<1>6. CASE Replay!RotatorStep
  <2>1. PICK k \in rotators :
          \/ Replay!RotatorReads(k)
          \/ \E n \in 0..MaxQueue : Replay!RotatorDrains(k, n)
    BY <1>6, Zenon DEF Replay!RotatorStep
  <2>2. CASE Replay!RotatorReads(k)
    BY <2>2, RotatorReadsStep
  <2>3. ASSUME NEW n \in 0..MaxQueue, Replay!RotatorDrains(k, n) PROVE TranscriptInv'
    BY <2>3, RotatorDrainsStep
  <2>. QED  BY <2>1, <2>2, <2>3, Zenon
<1>7. CASE Replay!ReaderStep
  <2>1. PICK k \in readers : Replay!ReaderReads(k) \/ Replay!ReaderEnds(k)
    BY <1>7, Zenon DEF Replay!ReaderStep
  <2>2. CASE Replay!ReaderReads(k)
    BY <2>2, ReaderReadsStep
  <2>3. CASE Replay!ReaderEnds(k)
    BY <2>3, ReaderEndsStep
  <2>. QED  BY <2>1, <2>2, <2>3, Zenon
<1>8. ASSUME NEW k \in rotators, Replay!RotatorFails(k) PROVE TranscriptInv'
  BY <1>8, RotatorFailsStep
<1>9. ASSUME NEW k \in readers, Replay!ReaderFails(k) PROVE TranscriptInv'
  BY <1>9, ReaderFailsStep
<1>. QED  BY <1>1, <1>2, <1>3, <1>4, <1>5, <1>6, <1>7, <1>8, <1>9, Zenon DEF Replay!Next

\* The invariant of the transcript: its order, what it covers, and what its readers know.
THEOREM TranscriptInductive == Replay!Spec => []TranscriptInv
<1>1. Replay!Init => TranscriptInv
  BY TranscriptInit
<1>2. TranscriptInv /\ [Replay!Next]_(Replay!vars) => TranscriptInv'
  <2> SUFFICES ASSUME TranscriptInv, [Replay!Next]_(Replay!vars) PROVE TranscriptInv'
    OBVIOUS
  <2>1. CASE Replay!Next
    BY <2>1, TranscriptNext
  <2>2. CASE UNCHANGED Replay!vars
    <3>1. UNCHANGED <<delivered, due>> /\ t' = t /\ readers' \subseteq readers
      BY <2>2 DEF Replay!vars
    <3>2. Good(t, delivered, due)
      BY DEF TranscriptInv
    <3>. QED  BY <3>1, <3>2, QuietStep
  <2>. QED  BY <2>1, <2>2
<1>. QED  BY <1>1, <1>2, PTL DEF Replay!Spec

\* opencode-data.ts: no event is missing from a projection that owes no snapshot, events are
\* reduced in their order, and once, but for one that a snapshot held before it was delivered.
THEOREM TranscriptsAreExact == Replay!Spec => []ProjectionIsExact
<1>1. TranscriptInv => ProjectionIsExact
  BY Zenon DEF TranscriptInv, Good, Covers, InOrder, Reflected, ProjectionIsExact,
     Replay!ProjectionIsExact, Replay!NothingIsSkipped, Replay!ReducedInOrder
<1>. QED  BY <1>1, TranscriptInductive, PTL
=============================================================================
