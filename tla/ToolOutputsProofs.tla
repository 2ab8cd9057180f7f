-------------------------- MODULE ToolOutputsProofs --------------------------
(***************************************************************************)
(* Proofs about ToolOutputs, and the scratch session it extends, for every *)
(* finite set of calls and any number of publishers.                       *)
(***************************************************************************)
EXTENDS ToolOutputs, FiniteSetTheorems, TLAPS

-----------------------------------------------------------------------------
(* The inductive invariant. *)

\* Who works on the hive or the scan holds its lock.
LockInv ==
  \A c \in Calls :
    /\ call[c] \in {<<"hive", "extracting">>, <<"hive", "parsing">>} => hiveLock = c
    /\ call[c] \in {<<"scan", "scanning">>, <<"scan", "publishing">>, <<"scan", "reading">>}
         => scanLock = c

\* An entry of the cache never names a partial hive, and is dropped before the copy
\* begins.
HiveInv ==
  /\ hiveCache => hive # "partial"
  /\ \A c \in Calls : At(c, "hive", "extracting") => ~hiveCache
  /\ \A c \in Calls : At(c, "hive", "parsing") => hive \in {"whole", "empty"}

\* The scan of the scratch is whole when it is named, or about to be.
ScanInv ==
  /\ scanCache = "scratch" => scan = "whole"
  /\ scanCache = "published" => final = Complete
  /\ \A c \in Calls : At(c, "scan", "scanning") => scanCache = "none"
  /\ \A c \in Calls : At(c, "scan", "publishing") => scan = "whole" /\ scanCache = "none"
  /\ \A c \in Calls : At(c, "scan", "reading") => scanCache # "none"

\* A staging directory has the manifest only after the features, and what was
\* published has both.
PublicationInv ==
  /\ \A p \in Publishers :
       /\ publisher[p] = "scanning" => staging[p] = {}
       /\ publisher[p] = "copied" => staging[p] = {"features"}
       /\ publisher[p] = "sealed" => staging[p] = Complete
       /\ publisher[p] = "built" => Sealed(final)
  /\ PublishedIsComplete

\* The session is closed once, after the last call.
RunInv ==
  /\ run # "running" => \A c \in Calls : call[c][2] \in {"idle", "done"}
  /\ over => run = "ending"
  /\ CloseIsAccountedFor

IInv == TypeOK /\ LockInv /\ HiveInv /\ ScanInv /\ PublicationInv /\ RunInv

-----------------------------------------------------------------------------
(* The scratch session. *)

\* What is handed out is finite: the owners are the calls and the runtime.
LEMMA OwnersAreFinite ==
  ASSUME ScratchTypeOK
  PROVE  /\ IsFiniteSet(active) /\ Cardinality(active) \in Nat
         /\ IsFiniteSet(retained) /\ Cardinality(retained) \in Nat
<1>1. IsFiniteSet(Calls \cup {Runtime})
  BY ScratchAssumption, FS_AddElement
<1>2. IsFiniteSet(Kinds)
  <2>1. Kinds = {Hives, Scans}
    BY OutputsAssumption
  <2>2. IsFiniteSet({Hives}) /\ {Hives, Scans} = {Hives} \cup {Scans}
    BY FS_Singleton
  <2>3. QED
    BY <2>1, <2>2, FS_AddElement
<1>3. IsFiniteSet(active) /\ IsFiniteSet(retained)
  BY <1>1, <1>2, FS_Subset DEF ScratchTypeOK
<1>4. QED
  BY <1>3, FS_CardinalityType

LEMMA AllocateStep ==
  ASSUME ScratchTypeOK, NEW o \in Calls \cup {Runtime}, Allocate(o)
  PROVE  ScratchTypeOK'
<1>1. Cardinality(active') = Cardinality(active) + 1
  BY OwnersAreFinite, FS_AddElement DEF Allocate
<1>2. QED
  BY <1>1, OwnersAreFinite DEF Allocate, ScratchTypeOK, counters

LEMMA AllocationFailsStep ==
  ASSUME ScratchTypeOK, AllocationFails
  PROVE  ScratchTypeOK'
BY DEF AllocationFails, ScratchTypeOK, counters

LEMMA ReleaseStep ==
  ASSUME ScratchTypeOK, NEW o, NEW ok \in BOOLEAN, Release(o, ok)
  PROVE  ScratchTypeOK'
<1>1. Cardinality(active') = Cardinality(active) - 1
  BY OwnersAreFinite, FS_RemoveElement DEF Release
<1>2. leftovers' \in BOOLEAN /\ cleanupOk' \in BOOLEAN
  BY DEF Release, ScratchTypeOK
<1>3. QED
  BY <1>1, <1>2, OwnersAreFinite DEF Release, ScratchTypeOK

LEMMA RetainStep ==
  ASSUME ScratchTypeOK, NEW kind \in Kinds, Retain(kind)
  PROVE  ScratchTypeOK'
<1>1. Cardinality(retained') = Cardinality(retained) + NewlyRetained(kind)
  <2>1. CASE kind \in retained
    <3>1. retained' = retained
      BY <2>1 DEF Retain
    <3>2. QED
      BY <2>1, <3>1, OwnersAreFinite DEF NewlyRetained
  <2>2. CASE kind \notin retained
    BY <2>2, OwnersAreFinite, FS_AddElement DEF Retain, NewlyRetained
  <2>3. QED
    BY <2>1, <2>2
<1>2. NewlyRetained(kind) \in Nat
  BY DEF NewlyRetained
<1>3. QED
  BY <1>1, <1>2, OwnersAreFinite DEF Retain, ScratchTypeOK

\* The first close keeps the books, and answers for everything it found.
LEMMA CloseStep ==
  ASSUME ScratchTypeOK, NEW current \in BOOLEAN, NEW errors, NEW stays \in BOOLEAN,
         NEW foreign \in BOOLEAN, Close(current, errors, stays, foreign)
  PROVE  ScratchTypeOK' /\ CloseIsAccountedFor' /\ over'
<1>1. CASE active # {} \/ ~current
  BY <1>1 DEF Close, ScratchTypeOK, CloseIsAccountedFor
<1>2. CASE active = {} /\ current
  <2>1. Cardinality(active') = 0 /\ Cardinality(retained') = 0
    BY <1>2, FS_EmptySet DEF Close
  <2>2. Cardinality(active) = 0
    BY <1>2, FS_EmptySet
  <2>3. allocations' = allocations /\ cleanups' = cleanups + Cardinality(retained)
    BY <1>2 DEF Close
  <2>4. allocations' = cleanups'
    BY <2>2, <2>3, OwnersAreFinite DEF ScratchTypeOK
  <2>5. {sessionDir', leftovers', cleanupOk', closed', over'} \subseteq BOOLEAN
    BY <1>2 DEF Close, CleanAfter, ScratchTypeOK
  <2>6. cleanupOk' => closed' /\ ~sessionDir'
    BY <1>2 DEF Close, CleanAfter
  <2>7. over' /\ active' = {} /\ retained' = {}
    BY <1>2 DEF Close
  <2>8. QED
    BY <2>1, <2>3, <2>4, <2>5, <2>6, <2>7, OwnersAreFinite DEF ScratchTypeOK, CloseIsAccountedFor
<1>3. QED
  BY <1>1, <1>2

-----------------------------------------------------------------------------
(* Steps. *)

LEMMA InitInv == Init => IInv
<1> SUFFICES ASSUME Init PROVE IInv
  OBVIOUS
<1>1. TypeOK
  <2>1. Cardinality({}) = 0
    BY FS_EmptySet
  <2>2. ScratchTypeOK
    <3>1. ScratchInit
      BY DEF Init
    <3>2. Cardinality(active) = 0 /\ Cardinality(retained) = 0
      BY <2>1, <3>1 DEF ScratchInit
    <3>3. {sessionDir, leftovers, cleanupOk, closed, over} \subseteq BOOLEAN
      BY <3>1, Zenon DEF ScratchInit
    <3>4. allocations = cleanups + Cardinality(active) + Cardinality(retained)
      BY <3>1, <3>2 DEF ScratchInit
    <3>5. QED
      BY <3>1, <3>3, <3>4 DEF ScratchInit, ScratchTypeOK
  <2>3. None \in Entries
    BY DEF Entries
  <2>4. QED
    BY <2>2, <2>3 DEF Init, TypeOK, Tools, Steps, PublisherSteps
<1>2. LockInv /\ HiveInv /\ ScanInv
  BY DEF Init, LockInv, HiveInv, ScanInv, At
<1>3. PublicationInv
  BY DEF Init, PublicationInv, PublishedIsComplete
<1>4. RunInv
  BY DEF Init, ScratchInit, RunInv, CloseIsAccountedFor
<1>5. QED
  BY <1>1, <1>2, <1>3, <1>4 DEF IInv

\* A call moves from one step to another, and no other call moves.
LEMMA GoesTo ==
  ASSUME call \in [Calls -> Tools \X Steps], NEW c \in Calls,
         NEW tool \in Tools, NEW step \in Steps, Goes(c, tool, step)
  PROVE  /\ call' \in [Calls -> Tools \X Steps]
         /\ call'[c] = <<tool, step>>
         /\ \A d \in Calls : d # c => call'[d] = call[d]
BY DEF Goes

LEMMA HiveStep ==
  ASSUME IInv, NEW c \in Calls,
         \/ ReuseHive(c) \/ BeginExtraction(c) \/ StagingRefused(c)
         \/ ExtractionEnds(c) \/ ExtractionFails(c) \/ ParseEnds(c)
  PROVE  IInv'
<1> USE DEF IInv
<1>1. /\ UNCHANGED <<scratch, run, scans, published>>
      /\ hiveLock' \in Calls \cup {None} /\ hiveCache' \in BOOLEAN
      /\ hive' \in {"none", "partial", "empty", "whole"}
      /\ \E step \in {"parsing", "extracting", "done"} : Goes(c, "hive", step)
      /\ \E step \in {"queued", "parsing", "extracting"} : At(c, "hive", step)
  BY DEF ReuseHive, BeginExtraction, StagingRefused, ExtractionEnds, ExtractionFails, ParseEnds,
         HeldWhileParsed, TypeOK
<1>2. PICK step \in {"parsing", "extracting", "done"} : Goes(c, "hive", step)
  BY <1>1
<1>3. /\ call' \in [Calls -> Tools \X Steps]
      /\ call'[c] = <<"hive", step>>
      /\ \A d \in Calls : d # c => call'[d] = call[d]
  BY <1>2, GoesTo DEF TypeOK, Tools, Steps
<1>4. TypeOK'
  BY <1>1, <1>3 DEF TypeOK, ScratchTypeOK, scratch, scans, published, counters
<1>5. run = "running"
  BY <1>1 DEF RunInv, At
<1>6. RunInv'
  BY <1>1, <1>5 DEF RunInv, CloseIsAccountedFor, scratch, counters
<1>7. PublicationInv' /\ ScanInv'
  BY <1>1, <1>3 DEF PublicationInv, PublishedIsComplete, ScanInv, Sealed, At, scans, published
<1>8. LockInv' /\ HiveInv'
  <2>1. CASE ReuseHive(c)
    BY <2>1, <1>1, <1>3, OutputsAssumption
       DEF ReuseHive, Goes, LockInv, HiveInv, Intact, HeldWhileParsed, At, TypeOK, scans
  <2>2. CASE BeginExtraction(c)
    BY <2>2, <1>1, <1>3, OutputsAssumption
       DEF BeginExtraction, Goes, LockInv, HiveInv, Intact, At, TypeOK, scans
  <2>3. CASE StagingRefused(c)
    BY <2>3, <1>1, <1>3, OutputsAssumption
       DEF StagingRefused, Goes, LockInv, HiveInv, Intact, At, TypeOK, scans
  <2>4. CASE ExtractionEnds(c)
    BY <2>4, <1>1, <1>3, OutputsAssumption
       DEF ExtractionEnds, Goes, LockInv, HiveInv, HeldWhileParsed, At, TypeOK, scans
  <2>5. CASE ExtractionFails(c)
    BY <2>5, <1>1, <1>3, OutputsAssumption
       DEF ExtractionFails, Goes, LockInv, HiveInv, At, TypeOK, scans
  <2>6. CASE ParseEnds(c)
    BY <2>6, <1>1, <1>3, OutputsAssumption
       DEF ParseEnds, Goes, LockInv, HiveInv, At, TypeOK, scans
  <2>7. QED
    BY <2>1, <2>2, <2>3, <2>4, <2>5, <2>6
<1>9. QED
  BY <1>4, <1>6, <1>7, <1>8

LEMMA ScanStep ==
  ASSUME IInv, NEW c \in Calls,
         \/ ReuseScan(c) \/ BeginScan(c) \/ ScanRefused(c)
         \/ ScanFails(c) \/ ScanEnds(c) \/ Published(c) \/ ReadEnds(c)
  PROVE  IInv'
<1> USE DEF IInv
<1>1. /\ UNCHANGED <<scratch, run, hives, staging, final>>
      /\ scanLock' \in Calls \cup {None} /\ scanCache' \in {"none", "scratch", "published"}
      /\ scan' \in {"none", "partial", "whole"}
      /\ publisher' \in {publisher, [publisher EXCEPT ![Run] = "idle"]}
      /\ \E step \in {"queued", "scanning", "publishing", "reading"} : At(c, "scan", step)
  BY DEF ReuseScan, BeginScan, ScanRefused, ScanFails, ScanEnds, Published, ReadEnds,
         TypeOK, scans, published
<1>2. PICK step \in {"scanning", "publishing", "reading", "done"} : Goes(c, "scan", step)
  BY DEF ReuseScan, BeginScan, ScanRefused, ScanFails, ScanEnds, Published, ReadEnds
<1>3. /\ call' \in [Calls -> Tools \X Steps]
      /\ call'[c] = <<"scan", step>>
      /\ \A d \in Calls : d # c => call'[d] = call[d]
  BY <1>2, GoesTo DEF TypeOK, Tools, Steps
<1>4. publisher' \in [Publishers -> PublisherSteps]
  BY <1>1, OutputsAssumption DEF TypeOK, PublisherSteps
<1>5. TypeOK'
  BY <1>1, <1>3, <1>4 DEF TypeOK, ScratchTypeOK, scratch, hives, counters
<1>6. run = "running"
  BY <1>1 DEF RunInv, At
<1>7. RunInv'
  BY <1>1, <1>6 DEF RunInv, CloseIsAccountedFor, scratch, counters
<1>8. PublicationInv'
  BY <1>1, OutputsAssumption DEF PublicationInv, PublishedIsComplete, Sealed, TypeOK
<1>9. HiveInv'
  BY <1>1, <1>3 DEF HiveInv, At, hives
<1>10. Sealed(final) => final = Complete
  BY DEF PublicationInv, PublishedIsComplete, Sealed
<1>11. LockInv' /\ ScanInv'
  <2> USE <1>1, <1>3, <1>10, OutputsAssumption DEF Goes, LockInv, ScanInv, At, hives
  <2>1. CASE ReuseScan(c)
    BY <2>1 DEF ReuseScan, Cached
  <2>2. CASE BeginScan(c)
    BY <2>2 DEF BeginScan
  <2>3. CASE ScanRefused(c)
    BY <2>3 DEF ScanRefused
  <2>4. CASE ScanFails(c)
    BY <2>4 DEF ScanFails
  <2>5. CASE ScanEnds(c)
    BY <2>5 DEF ScanEnds
  <2>6. CASE Published(c)
    BY <2>6 DEF Published, PublicationInv
  <2>7. CASE ReadEnds(c)
    BY <2>7 DEF ReadEnds
  <2>8. QED
    BY <2>1, <2>2, <2>3, <2>4, <2>5, <2>6, <2>7
<1>12. QED
  BY <1>5, <1>7, <1>8, <1>9, <1>11

LEMMA HiveSpoiledStep ==
  ASSUME IInv, HiveSpoiled
  PROVE  IInv'
<1> USE DEF IInv, HiveSpoiled, scratch, counters, scans, published
<1>1. \A c \in Calls : ~At(c, "hive", "extracting") /\ ~At(c, "hive", "parsing")
  BY OutputsAssumption DEF LockInv, At
<1>2. TypeOK'
  BY DEF TypeOK, ScratchTypeOK
<1>3. LockInv' /\ HiveInv'
  BY <1>1 DEF LockInv, HiveInv, At
<1>4. ScanInv' /\ PublicationInv'
  BY DEF ScanInv, PublicationInv, PublishedIsComplete, Sealed, At
<1>5. RunInv'
  BY DEF RunInv, CloseIsAccountedFor
<1>6. QED
  BY <1>2, <1>3, <1>4, <1>5

LEMMA PublisherInv ==
  ASSUME IInv, NEW p \in Publishers, PublisherStep(p)
  PROVE  IInv'
<1> USE DEF IInv, private, scratch, counters, hives, scans, StagingOf
<1>1. UNCHANGED private
  BY DEF PublisherStep, BeginPublication, Stage, Rename, PublicationFails, RemoveEntry, Removed,
         Again
<1>2. /\ publisher' \in [Publishers -> PublisherSteps]
      /\ staging' \in [Publishers -> Entries]
      /\ final' \in Entries
  <2>1. CASE BeginPublication(p)
    BY <2>1 DEF BeginPublication, Moves, TypeOK, PublisherSteps, Entries
  <2>2. CASE Stage(p, "scanning", "features", "copied")
    BY <2>2 DEF Stage, Moves, TypeOK, PublisherSteps, Entries, Complete
  <2>3. CASE Stage(p, "copied", "manifest", "sealed")
    BY <2>3 DEF Stage, Moves, TypeOK, PublisherSteps, Entries, Complete
  <2>4. CASE Rename(p)
    BY <2>4 DEF Rename, Moves, TypeOK, PublisherSteps, Entries
  <2>5. CASE PublicationFails(p) \/ Again(p)
    BY <2>5 DEF PublicationFails, Again, Moves, TypeOK, PublisherSteps
  <2>6. CASE RemoveEntry(p)
    BY <2>6 DEF RemoveEntry, TypeOK, Entries
  <2>7. CASE Removed(p)
    BY <2>7 DEF Removed, Moves, TypeOK, PublisherSteps, Entries
  <2>8. QED
    BY <2>1, <2>2, <2>3, <2>4, <2>5, <2>6, <2>7 DEF PublisherStep
<1>3. TypeOK'
  BY <1>1, <1>2 DEF TypeOK, ScratchTypeOK
<1>4. LockInv' /\ HiveInv' /\ RunInv'
  BY <1>1 DEF LockInv, HiveInv, RunInv, At, CloseIsAccountedFor
<1>5. PublicationInv' /\ (final' # final => final = None /\ final' = Complete)
  <2> USE DEF PublicationInv, PublishedIsComplete, Sealed, Moves, TypeOK
  <2>1. CASE BeginPublication(p)
    BY <2>1 DEF BeginPublication
  <2>2. CASE Stage(p, "scanning", "features", "copied")
    BY <2>2 DEF Stage
  <2>3. CASE Stage(p, "copied", "manifest", "sealed")
    BY <2>3 DEF Stage, Complete
  <2>4. CASE Rename(p)
    BY <2>4 DEF Rename, Complete
  <2>5. CASE PublicationFails(p) \/ Again(p)
    BY <2>5 DEF PublicationFails, Again
  <2>6. CASE RemoveEntry(p)
    BY <2>6 DEF RemoveEntry
  <2>7. CASE Removed(p)
    BY <2>7 DEF Removed
  <2>8. QED
    BY <2>1, <2>2, <2>3, <2>4, <2>5, <2>6, <2>7 DEF PublisherStep
<1>6. ScanInv'
  BY <1>1, <1>5 DEF ScanInv, At
<1>7. QED
  BY <1>3, <1>4, <1>5, <1>6

\* A step of the scratch session leaves what the calls share alone; a call that takes
\* one holds no lock before or after it.
LEMMA SharedUnchanged ==
  ASSUME IInv, ScratchTypeOK', RunInv', UNCHANGED <<hives, scans, published>>,
         run' \in {"starting", "running", "ending"},
         call' \in [Calls -> Tools \X Steps],
         \A d \in Calls :
           call'[d] = call[d]
             \/ call'[d] \in {"artifact", "hive", "scan"} \X {"writing", "queued", "done"}
  PROVE  IInv'
<1> USE DEF IInv, hives, scans, published
<1>1. TypeOK'
  BY DEF TypeOK
<1>2. LockInv' /\ HiveInv' /\ ScanInv'
  BY DEF LockInv, HiveInv, ScanInv, At
<1>3. PublicationInv'
  BY DEF PublicationInv, PublishedIsComplete, Sealed
<1>4. QED
  BY <1>1, <1>2, <1>3

\* The same step of a call, while the session is open.
LEMMA CallTakesScratch ==
  ASSUME IInv, ScratchTypeOK', UNCHANGED <<hives, scans, published, run, over>>,
         NEW c \in Calls, run = "running",
         NEW tool \in {"artifact", "hive", "scan"}, NEW step \in {"writing", "queued", "done"},
         Goes(c, tool, step)
  PROVE  IInv'
<1>1. /\ call' \in [Calls -> Tools \X Steps]
      /\ call'[c] = <<tool, step>>
      /\ \A d \in Calls : d # c => call'[d] = call[d]
  BY GoesTo DEF IInv, TypeOK, Tools, Steps
<1>2. RunInv'
  BY DEF IInv, RunInv, CloseIsAccountedFor
<1>3. QED
  BY <1>1, <1>2, SharedUnchanged

LEMMA CallInv ==
  ASSUME IInv, NEW c \in Calls, CallStep(c)
  PROVE  IInv'
<1>1. CASE StartArtifact(c)
  <2>1. ScratchTypeOK'
    BY <1>1, AllocateStep, AllocationFailsStep DEF StartArtifact, IInv, TypeOK
  <2>2. QED
    BY <1>1, <2>1, CallTakesScratch DEF StartArtifact, Allocate, AllocationFails
<1>2. CASE FinishArtifact(c)
  <2>1. ScratchTypeOK'
    BY <1>2, ReleaseStep DEF FinishArtifact, IInv, TypeOK
  <2>2. run = "running"
    BY <1>2 DEF FinishArtifact, IInv, RunInv, At
  <2>3. QED
    BY <1>2, <2>1, <2>2, CallTakesScratch DEF FinishArtifact, Release
<1>3. ASSUME NEW tool \in {"hive", "scan"}, NEW kind \in Kinds, Ask(c, tool, kind)
      PROVE  IInv'
  <2>1. ScratchTypeOK'
    BY <1>3, RetainStep, AllocationFailsStep DEF Ask, IInv, TypeOK
  <2>2. QED
    BY <1>3, <2>1, CallTakesScratch DEF Ask, Retain, AllocationFails
<1>4. QED
  BY <1>1, <1>2, <1>3, HiveStep, ScanStep, OutputsAssumption DEF CallStep

\* Every step keeps the invariant.
LEMMA InvStep ==
  ASSUME IInv, [Next]_vars
  PROVE  IInv'
<1>1. CASE StartRun
  <2>1. ScratchTypeOK' /\ ~over
    BY <1>1, AllocateStep, AllocationFailsStep DEF StartRun, IInv, TypeOK, RunInv
  <2>2. UNCHANGED <<over, call, hives, scans, published>> /\ run' \in {"running", "ending"}
    BY <1>1 DEF StartRun, Allocate, AllocationFails
  <2>3. RunInv'
    BY <1>1, <2>1, <2>2 DEF StartRun, IInv, RunInv, CloseIsAccountedFor
  <2>4. QED
    BY <2>1, <2>2, <2>3, SharedUnchanged DEF IInv, TypeOK
<1>2. CASE EndRun
  <2>1. ScratchTypeOK' /\ ~over
    BY <1>2, ReleaseStep DEF EndRun, IInv, TypeOK, RunInv
  <2>2. UNCHANGED <<over, call, hives, scans, published>> /\ run' = "ending"
    BY <1>2 DEF EndRun, Release
  <2>3. RunInv'
    BY <1>2, <2>1, <2>2 DEF EndRun, RunInv, CloseIsAccountedFor
  <2>4. QED
    BY <2>1, <2>2, <2>3, SharedUnchanged DEF IInv, TypeOK
<1>3. CASE CloseRun
  <2>1. ScratchTypeOK' /\ CloseIsAccountedFor' /\ over'
    BY <1>3, CloseStep DEF CloseRun, IInv, TypeOK
  <2>2. UNCHANGED <<run, call, hives, scans, published>> /\ run = "ending"
    BY <1>3 DEF CloseRun
  <2>3. RunInv'
    BY <2>1, <2>2 DEF IInv, RunInv
  <2>4. QED
    BY <2>1, <2>2, <2>3, SharedUnchanged DEF IInv, TypeOK
<1>4. CASE HiveSpoiled
  BY <1>4, HiveSpoiledStep
<1>5. CASE \E c \in Calls : CallStep(c)
  BY <1>5, CallInv
<1>6. CASE \E p \in Publishers : PublisherStep(p)
  BY <1>6, PublisherInv
<1>7. CASE UNCHANGED vars
  <2>1. UNCHANGED <<scratch, counters, run, call, hives, scans, published>>
    BY <1>7 DEF vars, scratch
  <2>2. ScratchTypeOK' /\ RunInv'
    BY <2>1 DEF IInv, TypeOK, ScratchTypeOK, RunInv, CloseIsAccountedFor, scratch, counters
  <2>3. QED
    BY <2>1, <2>2, SharedUnchanged DEF IInv, TypeOK
<1>8. QED
  BY <1>1, <1>2, <1>3, <1>4, <1>5, <1>6, <1>7 DEF Next

-----------------------------------------------------------------------------
(* Theorems. *)

\* The strengthening the properties follow from, with the types and the books of the
\* scratch session: every workspace handed out is in use, retained or cleaned up.
THEOREM Invariance == Spec => []IInv
<1>1. Init => IInv
  BY InitInv
<1>2. IInv /\ [Next]_vars => IInv'
  BY InvStep
<1>3. QED
  BY <1>1, <1>2, PTL DEF Spec

\* No call parses a hive or reads a scan that is missing or half written, whatever
\* the calls beside it find, leave or fail at (_staged_hive, bulk_extract).
THEOREM WholeOutputs == Spec => []ReadersSeeWholeOutputs
<1>1. IInv => ReadersSeeWholeOutputs
  BY DEF IInv, HiveInv, ScanInv, TypeOK, ReadersSeeWholeOutputs
<1>2. QED
  BY <1>1, Invariance, PTL

\* Whatever was published is complete, for any number of publishers that race, fail or
\* die between two steps (_publish_under, prewarm_default_scan).
THEOREM CompletePublication == Spec => []PublishedIsComplete
<1>1. IInv => PublishedIsComplete
  BY DEF IInv, PublicationInv
<1>2. QED
  BY <1>1, Invariance, PTL

\* A run whose telemetry calls its cleanup good has left nothing and got everything
\* back, for any number of calls and any failure of a release or of the close.
THEOREM AccountableClose == Spec => []CloseIsAccountedFor
<1>1. IInv => CloseIsAccountedFor
  BY DEF IInv, RunInv
<1>2. QED
  BY <1>1, Invariance, PTL
-----------------------------------------------------------------------------
(***************************************************************************)
(* The external programs whose output the calls store, as an instance of   *)
(* ExternalTools; what is assumed of its constants is a hypothesis.        *)
(*                                                                         *)
(* They keep what StoppableTools promises, but for its fairness: every     *)
(* step of a thread, of a program or of the cancel is a step of one tool,  *)
(* or of none.  For this the cancel must mark what it kills, in that       *)
(* order (SweptInv), and nothing may be marked, killed or told as stopped  *)
(* before the cells know (ToldInv).                                        *)
(***************************************************************************)

CONSTANT Streamed

VARIABLES at, child, register, marked, expired, report, cancelled, sweep

Ext == INSTANCE ExternalTools

\* The tools as StoppableTools sees them, by the mapping ExternalTools gives.
Told == [c \in Calls |-> Ext!ToolOf(c)]

Promise == INSTANCE StoppableTools WITH tool <- Told

USE DEF Ext!threads, Ext!stop

\* Where a call may be once the sweep has seen its child.
Swept == {"waiting", "reaped", "ended"}

\* What the sweep holds: children that were registered; the one in hand is marked before
\* it is killed.
SweptInv ==
  sweep # None =>
    /\ cancelled
    /\ sweep \in [todo : SUBSET Calls, child : Calls \cup {None},
                  step : {"next", "mark", "kill"}]
    /\ \A c \in sweep.todo : at[c] \in Swept
    /\ sweep.step # "next" => sweep.child \in Calls
    /\ sweep.child \in Calls => at[sweep.child] \in Swept
    /\ sweep.step = "kill" => sweep.child \in marked

\* What the cancel did to a tool follows the cells being told, and leaves its mark.
ToldInv ==
  /\ marked # {} => cancelled
  /\ \A c \in Calls :
       /\ c \in marked => at[c] \in Swept
       /\ child[c] = "stopped" => c \in marked
       /\ report[c] = "stopped" => c \in marked
       /\ at[c] = "reaped" => child[c] \in Ext!Dead

\* The inductive invariant.
StoppedInv == Ext!ToolsAssumption /\ Ext!TypeOK /\ SweptInv /\ ToldInv

\* It holds at first.
LEMMA StoppedStarts == Ext!ToolsAssumption /\ Ext!Init => StoppedInv
BY DEF Ext!ToolsAssumption, Ext!Init, Ext!TypeOK, Ext!Dead, Ext!Reports, StoppedInv, SweptInv,
       ToldInv

\* The thread of a call keeps the types,
LEMMA ThreadTypes ==
  ASSUME StoppedInv, NEW c \in Calls, Ext!Grant(c) \/ Ext!Thread(c) PROVE Ext!TypeOK'
<1> USE DEF StoppedInv, Ext!ToolsAssumption, Ext!TypeOK, Ext!Reports, Ext!Dead, Ext!At,
      Ext!Tell, Ext!ChildIs
<1>1. CASE Ext!Grant(c) BY <1>1 DEF Ext!Grant
<1>2. CASE Ext!Refuse(c) BY <1>2 DEF Ext!Refuse
<1>3. CASE Ext!CannotStart(c) BY <1>3 DEF Ext!CannotStart
<1>4. CASE Ext!Popen(c) BY <1>4 DEF Ext!Popen
<1>5. CASE Ext!Register(c) BY <1>5 DEF Ext!Register
<1>6. CASE Ext!TimeOut(c) BY <1>6 DEF Ext!TimeOut
<1>7. CASE Ext!Expire(c) BY <1>7 DEF Ext!Expire
<1>8. CASE Ext!Reap(c) BY <1>8 DEF Ext!Reap
<1>9. CASE Ext!Report(c)
  <2>1. at' = [at EXCEPT ![c] = "ended"] /\ at[c] = "reaped" /\ UNCHANGED <<child, register>>
        /\ UNCHANGED <<marked, expired>>
    BY <1>9 DEF Ext!Report
  <2>2. PICK what \in Ext!Reports : report' = [report EXCEPT ![c] = what]
    BY <1>9 DEF Ext!Report, Ext!Reports
  <2> QED BY <2>1, <2>2
<1> QED BY <1>1, <1>2, <1>3, <1>4, <1>5, <1>6, <1>7, <1>8, <1>9 DEF Ext!Thread

\* goes forward and leaves the sweep alone,
LEMMA ThreadForward ==
  ASSUME StoppedInv, NEW c \in Calls, Ext!Grant(c) \/ Ext!Thread(c)
  PROVE  /\ UNCHANGED <<marked, cancelled, sweep>>
         /\ \A d \in Calls : at[d] \in Swept => at'[d] \in Swept
<1> USE DEF StoppedInv, Ext!TypeOK, Ext!At, Ext!Tell, Swept
<1>1. CASE Ext!Grant(c) BY <1>1 DEF Ext!Grant
<1>2. CASE Ext!Refuse(c) BY <1>2 DEF Ext!Refuse
<1>3. CASE Ext!CannotStart(c) BY <1>3 DEF Ext!CannotStart
<1>4. CASE Ext!Popen(c) BY <1>4 DEF Ext!Popen
<1>5. CASE Ext!Register(c) BY <1>5 DEF Ext!Register
<1>6. CASE Ext!TimeOut(c) BY <1>6 DEF Ext!TimeOut
<1>7. CASE Ext!Expire(c) BY <1>7 DEF Ext!Expire
<1>8. CASE Ext!Reap(c) BY <1>8 DEF Ext!Reap
<1>9. CASE Ext!Report(c) BY <1>9 DEF Ext!Report
<1> QED BY <1>1, <1>2, <1>3, <1>4, <1>5, <1>6, <1>7, <1>8, <1>9 DEF Ext!Thread

\* and tells of a stop only what the cancel has marked.
LEMMA ThreadTells ==
  ASSUME StoppedInv, NEW c \in Calls, Ext!Grant(c) \/ Ext!Thread(c)
  PROVE  \A d \in Calls :
           /\ child'[d] = "stopped" => child[d] = "stopped"
           /\ report'[d] = "stopped" => report[d] = "stopped" \/ d \in marked
           /\ at'[d] = "reaped" => child'[d] \in Ext!Dead
<1> USE DEF StoppedInv, ToldInv, Ext!TypeOK, Ext!At, Ext!Tell, Ext!ChildIs, Ext!Dead
<1>1. CASE Ext!Grant(c) BY <1>1 DEF Ext!Grant
<1>2. CASE Ext!Refuse(c) BY <1>2 DEF Ext!Refuse
<1>3. CASE Ext!CannotStart(c) BY <1>3 DEF Ext!CannotStart
<1>4. CASE Ext!Popen(c) BY <1>4 DEF Ext!Popen
<1>5. CASE Ext!Register(c) BY <1>5 DEF Ext!Register
<1>6. CASE Ext!TimeOut(c) BY <1>6 DEF Ext!TimeOut
<1>7. CASE Ext!Expire(c) BY <1>7 DEF Ext!Expire
<1>8. CASE Ext!Reap(c) BY <1>8 DEF Ext!Reap
<1>9. CASE Ext!Report(c)
  <2>1. child' = child /\ at' = [at EXCEPT ![c] = "ended"] BY <1>9 DEF Ext!Report
  <2>2. PICK what \in Ext!Reports :
          report' = [report EXCEPT ![c] = what] /\ (what = "stopped" => c \in marked)
    BY <1>9 DEF Ext!Report, Ext!Reports
  <2> QED BY <2>1, <2>2
<1> QED BY <1>1, <1>2, <1>3, <1>4, <1>5, <1>6, <1>7, <1>8, <1>9 DEF Ext!Thread

\* So it keeps the invariant.
LEMMA ThreadKeeps ==
  ASSUME StoppedInv, NEW c \in Calls, Ext!Grant(c) \/ Ext!Thread(c) PROVE StoppedInv'
<1>1. SweptInv' BY ThreadForward DEF StoppedInv, SweptInv
<1>2. ToldInv' BY ThreadForward, ThreadTells DEF StoppedInv, ToldInv
<1> QED BY <1>1, <1>2, ThreadTypes DEF StoppedInv, Ext!ToolsAssumption

\* The programs that end by themselves, and the steps of the cancel.
LEMMA CancelKeeps ==
  ASSUME StoppedInv,
         \/ Ext!Cancel \/ Ext!Copy \/ Ext!Mark \/ Ext!Kill
         \/ \E c \in Calls : Ext!Exits(c) \/ Ext!Poll(c)
  PROVE  StoppedInv'
<1> USE DEF StoppedInv, Ext!ToolsAssumption, Ext!TypeOK, SweptInv, ToldInv, Swept, Ext!Dead
<1>1. CASE Ext!Cancel BY <1>1 DEF Ext!Cancel
<1>2. CASE Ext!Copy BY <1>2 DEF Ext!Copy, Ext!CellsAreTold
<1>3. CASE Ext!Mark BY <1>3 DEF Ext!Mark
<1>4. CASE Ext!Kill
  <2>1. /\ sweep # None /\ sweep.step = "kill" /\ UNCHANGED <<at, register, expired, report>>
        /\ UNCHANGED <<marked, cancelled>>
        /\ child' = [child EXCEPT ![sweep.child] = IF @ = "running" THEN "stopped" ELSE @]
        /\ sweep' = [sweep EXCEPT !.child = None, !.step = "next"]
    BY <1>4 DEF Ext!Kill
  <2>2. sweep.child \in marked BY <2>1
  <2>3. Ext!TypeOK' BY <2>1
  <2>4. SweptInv' BY <2>1
  <2>5. ToldInv' BY <2>1, <2>2
  <2> QED BY <2>3, <2>4, <2>5
<1>5. ASSUME NEW c \in Calls, Ext!Exits(c) PROVE StoppedInv' BY <1>5 DEF Ext!Exits, Ext!ChildIs
<1>6. ASSUME NEW c \in Calls, Ext!Poll(c) PROVE StoppedInv' BY <1>6 DEF Ext!Poll
<1> QED BY <1>1, <1>2, <1>3, <1>4, <1>5, <1>6

\* Every step keeps the invariant.
LEMMA StoppedSteps == StoppedInv /\ [Ext!Next]_(Ext!vars) => StoppedInv'
<1>1. StoppedInv /\ UNCHANGED Ext!vars => StoppedInv'
  BY DEF StoppedInv, Ext!ToolsAssumption, Ext!TypeOK, SweptInv, ToldInv, Ext!vars
<1> QED BY <1>1, ThreadKeeps, CancelKeeps DEF Ext!Next

\* The invariant of the external programs and of the cancel, for any finite set of calls,
\* any of them streamed.
THEOREM StoppedInvariance == Ext!ToolsAssumption /\ Ext!Spec => []StoppedInv
BY StoppedStarts, StoppedSteps, PTL DEF Ext!Spec

\* A step of the tool of one call.
OneTool(c) == Promise!Grant(c) \/ Promise!Start(c) \/ Promise!Stop(c) \/ Promise!End(c)

\* What is seen of the tools changes as that of one call does.
LEMMA ToldOfOne ==
  ASSUME NEW c \in Calls, \A d \in Calls \ {c} : Ext!ToolOf(d)' = Ext!ToolOf(d)
  PROVE  Told' = [Told EXCEPT ![c] = Ext!ToolOf(c)']
BY DEF Told

\* With none of them it does not change.
LEMMA ToldOfNone ==
  ASSUME \A d \in Calls : Ext!ToolOf(d)' = Ext!ToolOf(d)
  PROVE  Told' = Told
BY DEF Told

\* What the step of a thread leaves of the other calls.
LEMMA OthersStay ==
  ASSUME StoppedInv, NEW c \in Calls, Ext!Grant(c) \/ Ext!Thread(c)
  PROVE  \A d \in Calls \ {c} : Ext!ToolOf(d)' = Ext!ToolOf(d)
<1>1. /\ marked' = marked
      /\ \A d \in Calls \ {c} : at'[d] = at[d] /\ child'[d] = child[d] /\ report'[d] = report[d]
  <2> USE DEF StoppedInv, Ext!TypeOK, Ext!At, Ext!Tell, Ext!ChildIs
  <2>1. CASE Ext!Grant(c) BY <2>1 DEF Ext!Grant
  <2>2. CASE Ext!Refuse(c) BY <2>2 DEF Ext!Refuse
  <2>3. CASE Ext!CannotStart(c) BY <2>3 DEF Ext!CannotStart
  <2>4. CASE Ext!Popen(c) BY <2>4 DEF Ext!Popen
  <2>5. CASE Ext!Register(c) BY <2>5 DEF Ext!Register
  <2>6. CASE Ext!TimeOut(c) BY <2>6 DEF Ext!TimeOut
  <2>7. CASE Ext!Expire(c) BY <2>7 DEF Ext!Expire
  <2>8. CASE Ext!Reap(c) BY <2>8 DEF Ext!Reap
  <2>9. CASE Ext!Report(c) BY <2>9 DEF Ext!Report
  <2> QED BY <2>1, <2>2, <2>3, <2>4, <2>5, <2>6, <2>7, <2>8, <2>9 DEF Ext!Thread
<1> QED BY <1>1 DEF Ext!ToolOf

\* What a thread does is a step of the tool of its call, or is not seen.
LEMMA ThreadIsSeen ==
  ASSUME StoppedInv, NEW c \in Calls, Ext!Grant(c) \/ Ext!Thread(c)
  PROVE  \/ Ext!ToolOf(c)' = Ext!ToolOf(c)
         \/ /\ Ext!ToolOf(c) = "none" /\ Ext!ToolOf(c)' = "granted"
            /\ \A d \in Calls : Ext!ToolOf(d) \notin {"stopping", "stopped"}
         \/ Ext!ToolOf(c) = "granted" /\ Ext!ToolOf(c)' \in {"runs", "refused", "failed"}
         \/ Ext!ToolOf(c) = "runs" /\ Ext!ToolOf(c)' \in {"done", "failed", "timed out"}
         \/ Ext!ToolOf(c) = "stopping" /\ Ext!ToolOf(c)' \in {"stopped", "timed out"}
<1> USE DEF StoppedInv, Ext!TypeOK, ToldInv, Swept, Ext!Dead, Ext!Reports, Ext!ToolOf, Ext!At,
      Ext!Tell, Ext!ChildIs
<1>1. CASE Ext!Grant(c)
  <2>1. marked = {} /\ at[c] = "none" /\ at'[c] = "granted" BY <1>1 DEF Ext!Grant
  <2>2. \A d \in Calls : Ext!ToolOf(d) \notin {"stopping", "stopped"} BY <2>1
  <2> QED BY <2>1, <2>2
<1>2. CASE Ext!Refuse(c) BY <1>2 DEF Ext!Refuse
<1>3. CASE Ext!CannotStart(c) BY <1>3 DEF Ext!CannotStart
<1>4. CASE Ext!Popen(c) BY <1>4 DEF Ext!Popen
<1>5. CASE Ext!Register(c) BY <1>5 DEF Ext!Register
<1>6. CASE Ext!TimeOut(c) BY <1>6 DEF Ext!TimeOut
<1>7. CASE Ext!Expire(c) BY <1>7 DEF Ext!Expire
<1>8. CASE Ext!Reap(c) BY <1>8 DEF Ext!Reap
<1>9. CASE Ext!Report(c)
  <2>1. /\ at[c] = "reaped" /\ at'[c] = "ended"
        /\ UNCHANGED <<child, marked>> /\ child[c] \in Ext!Dead
    BY <1>9 DEF Ext!Report
  <2>2. CASE c \in marked
    <3>1. report'[c] = "stopped" BY <1>9, <2>2 DEF Ext!Report
    <3> QED BY <2>1, <2>2, <3>1
  <2>3. CASE c \notin marked
    <3>1. report'[c] \in {"timed out", "done", "failed"} BY <1>9, <2>3 DEF Ext!Report
    <3> QED BY <2>1, <2>3, <3>1
  <2> QED BY <2>2, <2>3
<1> QED BY <1>1, <1>2, <1>3, <1>4, <1>5, <1>6, <1>7, <1>8, <1>9 DEF Ext!Thread

\* As a step of the promise.
LEMMA ThreadRefines ==
  ASSUME StoppedInv, NEW c \in Calls, Ext!Grant(c) \/ Ext!Thread(c)
  PROVE  [Promise!Next]_Told
<1>1. Told' = [Told EXCEPT ![c] = Ext!ToolOf(c)'] BY OthersStay, ToldOfOne
<1>2. \A d \in Calls : Told[d] = Ext!ToolOf(d) BY DEF Told
<1>3. CASE Ext!ToolOf(c)' = Ext!ToolOf(c) BY <1>3, OthersStay, ToldOfNone
<1>4. CASE Ext!ToolOf(c)' # Ext!ToolOf(c)
  <2>1. OneTool(c)
    BY <1>1, <1>2, <1>4, ThreadIsSeen
       DEF OneTool, Promise!Grant, Promise!Start, Promise!End, Promise!Becomes
  <2> QED BY <2>1 DEF OneTool, Promise!Next
<1> QED BY <1>3, <1>4

\* The cancel stops the tool it marks; of all else it does, and of a program that ends,
\* nothing is seen before the thread has told it.
LEMMA CancelRefines ==
  ASSUME StoppedInv,
         \/ Ext!Cancel \/ Ext!Copy \/ Ext!Mark \/ Ext!Kill
         \/ \E c \in Calls : Ext!Exits(c) \/ Ext!Poll(c)
  PROVE  [Promise!Next]_Told
<1> USE DEF StoppedInv, Ext!TypeOK, SweptInv, ToldInv, Swept, Ext!Dead
<1>1. CASE Ext!Cancel \/ Ext!Copy \/ \E c \in Calls : Ext!Poll(c)
  <2>1. UNCHANGED <<at, child, report, marked>> BY <1>1 DEF Ext!Cancel, Ext!Copy, Ext!Poll
  <2> QED BY <2>1, ToldOfNone DEF Ext!ToolOf
<1>2. CASE Ext!Kill
  <2>1. /\ UNCHANGED <<at, report, marked>>
        /\ sweep.child \in Calls \cap marked
        /\ child' = [child EXCEPT ![sweep.child] = IF @ = "running" THEN "stopped" ELSE @]
    BY <1>2 DEF Ext!Kill
  <2>2. \A d \in Calls : Ext!ToolOf(d)' = Ext!ToolOf(d) BY <2>1 DEF Ext!ToolOf
  <2> QED BY <2>2, ToldOfNone
<1>3. CASE \E c \in Calls : Ext!Exits(c)
  <2>1. PICK c \in Calls : Ext!Exits(c) BY <1>3
  <2>2. /\ UNCHANGED <<at, report, marked>>
        /\ at[c] \in {"started", "waiting"} /\ child[c] = "running"
    BY <2>1 DEF Ext!Exits
  <2>3. PICK how \in {"zero", "nonzero"} : child' = [child EXCEPT ![c] = how]
    BY <2>1 DEF Ext!Exits, Ext!ChildIs
  <2>4. \A d \in Calls : Ext!ToolOf(d)' = Ext!ToolOf(d) BY <2>2, <2>3 DEF Ext!ToolOf
  <2> QED BY <2>4, ToldOfNone
<1>4. CASE Ext!Mark
  <2>1. PICK c \in Calls : /\ at[c] \in Swept
                           /\ marked' = marked \cup {c} /\ UNCHANGED <<at, child, report>>
    BY <1>4 DEF Ext!Mark
  <2>2. \A d \in Calls \ {c} : Ext!ToolOf(d)' = Ext!ToolOf(d) BY <2>1 DEF Ext!ToolOf
  <2>3. \/ Ext!ToolOf(c)' = Ext!ToolOf(c)
        \/ Ext!ToolOf(c) = "runs" /\ Ext!ToolOf(c)' = "stopping"
    BY <2>1 DEF Ext!ToolOf
  <2>4. CASE Ext!ToolOf(c)' = Ext!ToolOf(c) BY <2>1, <2>2, <2>4, ToldOfNone
  <2>5. CASE Ext!ToolOf(c) = "runs" /\ Ext!ToolOf(c)' = "stopping"
    <3>1. Told' = [Told EXCEPT ![c] = "stopping"] BY <2>1, <2>2, <2>5, ToldOfOne
    <3>2. Told[c] = "runs" BY <2>1, <2>5 DEF Told
    <3> QED BY <2>1, <3>1, <3>2 DEF Promise!Next, Promise!Stop, Promise!Becomes
  <2> QED BY <2>3, <2>4, <2>5
<1> QED BY <1>1, <1>2, <1>3, <1>4

\* The safety part of the property ToolsKeepThePromise: whatever the order in which children
\* of run_external and stream_external end, time out, are marked, killed and reported, every
\* step is one of the promise of StoppableTools, which reports no tool the cancel stopped as
\* failed or finished, and grants none after one was stopped.
THEOREM ToolsArePromised ==
  Ext!ToolsAssumption /\ Ext!Spec => Promise!Init /\ [][Promise!Next]_Told
<1>1. Ext!Init => Promise!Init BY DEF Ext!Init, Promise!Init, Told, Ext!ToolOf
<1>2. StoppedInv /\ [Ext!Next]_(Ext!vars) => [Promise!Next]_Told
  <2>1. UNCHANGED Ext!vars => Told' = Told BY ToldOfNone DEF Ext!vars, Ext!ToolOf
  <2> QED BY <2>1, ThreadRefines, CancelRefines DEF Ext!Next
<1> QED BY <1>1, <1>2, StoppedInvariance, PTL DEF Ext!Spec

(***************************************************************************)
(* The liveness of ToolsKeepThePromise rests on two facts: no thread ever  *)
(* waits for a child that nothing would end, and none goes in circles.     *)
(***************************************************************************)

\* A child that a thread waits for was started, and the watchdog that fired has killed it,
\* also when it fired before the child was registered.
WaitInv(c) ==
  /\ at[c] \in {"none", "granted"} => child[c] = "none"
  /\ at[c] \in {"started", "waiting"} => child[c] \in Ext!Dead \cup {"running"}
  /\ c \in expired => child[c] \in Ext!Dead

\* How many steps a thread has left at most.
PlacesLeft == [none |-> 0, granted |-> 5, started |-> 3, waiting |-> 2, reaped |-> 1, ended |-> 0]
ToolStepsLeft(c) ==
  PlacesLeft[at[c]] + (IF at[c] \in {"started", "waiting"} /\ c \notin expired THEN 1 ELSE 0)

\* The thread of a call keeps what it waits for, and each of its steps uses up one.
LEMMA ThreadGoesOn ==
  ASSUME StoppedInv, \A d \in Calls : WaitInv(d), NEW c \in Calls, Ext!Thread(c)
  PROVE  /\ \A d \in Calls : WaitInv(d)'
         /\ ToolStepsLeft(c)' \in 0 .. 5 /\ ToolStepsLeft(c)' < ToolStepsLeft(c)
         /\ \A d \in Calls \ {c} : ToolStepsLeft(d)' = ToolStepsLeft(d)
<1> USE DEF StoppedInv, Ext!TypeOK, Ext!At, Ext!Tell, Ext!ChildIs, Ext!Dead, WaitInv, ToolStepsLeft,
      PlacesLeft
<1>1. CASE Ext!Refuse(c) BY <1>1 DEF Ext!Refuse
<1>2. CASE Ext!CannotStart(c) BY <1>2 DEF Ext!CannotStart
<1>3. CASE Ext!Popen(c) BY <1>3 DEF Ext!Popen
<1>4. CASE Ext!Register(c) BY <1>4 DEF Ext!Register
<1>5. CASE Ext!TimeOut(c)
  <2>1. /\ at[c] = "waiting" /\ c \notin expired /\ expired' = expired
        /\ at' = [at EXCEPT ![c] = "ended"]
        /\ child' = [child EXCEPT ![c] = IF @ = "running" THEN "killed" ELSE @]
    BY <1>5 DEF Ext!TimeOut
  <2> QED BY <2>1
<1>6. CASE Ext!Expire(c) BY <1>6 DEF Ext!Expire
<1>7. CASE Ext!Reap(c) BY <1>7 DEF Ext!Reap
<1>8. CASE Ext!Report(c)
  <2>1. /\ at[c] = "reaped" /\ UNCHANGED <<child, expired>>
        /\ at' = [at EXCEPT ![c] = "ended"]
    BY <1>8 DEF Ext!Report
  <2> QED BY <2>1
<1> QED BY <1>1, <1>2, <1>3, <1>4, <1>5, <1>6, <1>7, <1>8 DEF Ext!Thread

\* So do the programs that end by themselves, and the cancel.
LEMMA CancelLetsThemGoOn ==
  ASSUME StoppedInv, \A d \in Calls : WaitInv(d), [Ext!Next]_(Ext!vars),
         ~\E c \in Calls : Ext!Grant(c) \/ Ext!Thread(c)
  PROVE  \A d \in Calls : WaitInv(d)' /\ ToolStepsLeft(d)' = ToolStepsLeft(d)
<1>1. UNCHANGED <<at, expired>>
  BY DEF Ext!Next, Ext!Exits, Ext!Poll, Ext!Cancel, Ext!Copy, Ext!Mark, Ext!Kill, Ext!vars
<1>2. \A d \in Calls : child'[d] # child[d] => child[d] = "running" /\ child'[d] \in Ext!Dead
  <2> USE DEF StoppedInv, Ext!TypeOK, Ext!Dead
  <2>1. ASSUME NEW c \in Calls, Ext!Exits(c)
        PROVE  \A d \in Calls : child'[d] # child[d] => child[d] = "running" /\ child'[d] \in Ext!Dead
    BY <2>1 DEF Ext!Exits, Ext!ChildIs
  <2>2. CASE Ext!Kill BY <2>2 DEF Ext!Kill
  <2>3. CASE ~Ext!Kill /\ ~\E c \in Calls : Ext!Exits(c)
    <3>1. child' = child
      BY <2>3 DEF Ext!Next, Ext!Poll, Ext!Cancel, Ext!Copy, Ext!Mark, Ext!vars
    <3> QED BY <3>1
  <2> QED BY <2>1, <2>2, <2>3
<1>3. \A d \in Calls : WaitInv(d)' BY <1>1, <1>2 DEF WaitInv
<1>4. \A d \in Calls : ToolStepsLeft(d)' = ToolStepsLeft(d) BY <1>1 DEF ToolStepsLeft
<1> QED BY <1>3, <1>4

\* Granting a call gives it its steps, and the others none.
LEMMA GrantLetsThemGoOn ==
  ASSUME StoppedInv, \A d \in Calls : WaitInv(d), NEW c \in Calls, Ext!Grant(c)
  PROVE  /\ \A d \in Calls : WaitInv(d)'
         /\ \A d \in Calls : at[d] # "none" => ToolStepsLeft(d)' = ToolStepsLeft(d)
BY DEF Ext!Grant, Ext!At, StoppedInv, Ext!TypeOK, WaitInv, ToolStepsLeft

\* Both facts, of any step.
LEMMA ToolsGoOn ==
  ASSUME StoppedInv, \A d \in Calls : WaitInv(d), [Ext!Next]_(Ext!vars)
  PROVE  /\ \A d \in Calls : WaitInv(d)'
         /\ \A d \in Calls : at[d] # "none" =>
              /\ ToolStepsLeft(d)' <= ToolStepsLeft(d)
              /\ Ext!Thread(d) => ToolStepsLeft(d)' < ToolStepsLeft(d)
<1>1. \A d \in Calls : ToolStepsLeft(d) \in 0 .. 5
  BY DEF StoppedInv, Ext!TypeOK, ToolStepsLeft, PlacesLeft
<1>2. ASSUME NEW c \in Calls, Ext!Grant(c)
      PROVE  \A d \in Calls : WaitInv(d)' /\ (at[d] # "none" => ToolStepsLeft(d)' = ToolStepsLeft(d))
  BY <1>2, GrantLetsThemGoOn
<1>3. CASE ~\E c \in Calls : Ext!Grant(c) \/ Ext!Thread(c)
  BY <1>1, <1>3, CancelLetsThemGoOn
<1>4. ASSUME NEW c \in Calls, Ext!Thread(c)
      PROVE  /\ \A d \in Calls : WaitInv(d)'
             /\ ToolStepsLeft(c)' \in 0 .. 5 /\ ToolStepsLeft(c)' < ToolStepsLeft(c)
             /\ \A d \in Calls \ {c} : ToolStepsLeft(d)' = ToolStepsLeft(d)
  BY <1>4, ThreadGoesOn
<1>5. CASE \E c \in Calls : Ext!Thread(c)
  <2>1. PICK c \in Calls : Ext!Thread(c) BY <1>5
  <2>2. \A d \in Calls : Ext!Thread(d) => ToolStepsLeft(d)' < ToolStepsLeft(d) BY <1>4
  <2> QED BY <1>1, <1>4, <2>1, <2>2
<1>6. CASE (\E c \in Calls : Ext!Grant(c)) /\ ~\E c \in Calls : Ext!Thread(c)
  BY <1>1, <1>2, <1>6
<1> QED BY <1>3, <1>5, <1>6

\* The watchdog that fires kills the child also when it was not registered yet, so that a
\* thread that waits for a streamed child after that finds it dead; and a blocking call has its
\* own timeout.
THEOREM NoThreadWaitsInVain ==
  Ext!ToolsAssumption /\ Ext!Spec => [](\A c \in Calls : WaitInv(c))
<1>1. Ext!Init => \A c \in Calls : WaitInv(c) BY DEF Ext!Init, WaitInv
<1>2. StoppedInv /\ (\A c \in Calls : WaitInv(c)) /\ [Ext!Next]_(Ext!vars)
        => (\A c \in Calls : WaitInv(c))'
  BY ToolsGoOn
<1> QED BY <1>1, <1>2, StoppedInvariance, PTL DEF Ext!Spec

\* And no thread goes in circles: each step uses up one of at most five, which neither another
\* thread, nor a program, nor the cancel gives back.
THEOREM EveryToolRunsOut ==
  Ext!ToolsAssumption /\ Ext!Spec =>
    [][\A c \in Calls : at[c] # "none" =>
         /\ ToolStepsLeft(c) \in 0 .. 5
         /\ ToolStepsLeft(c)' <= ToolStepsLeft(c)
         /\ Ext!Thread(c) => ToolStepsLeft(c)' < ToolStepsLeft(c)]_(Ext!vars)
<1>1. StoppedInv /\ (\A c \in Calls : WaitInv(c)) /\ [Ext!Next]_(Ext!vars) =>
        [\A c \in Calls : at[c] # "none" =>
           /\ ToolStepsLeft(c) \in 0 .. 5
           /\ ToolStepsLeft(c)' <= ToolStepsLeft(c)
           /\ Ext!Thread(c) => ToolStepsLeft(c)' < ToolStepsLeft(c)]_(Ext!vars)
  <2>1. StoppedInv => \A c \in Calls : ToolStepsLeft(c) \in 0 .. 5
    BY DEF StoppedInv, Ext!TypeOK, ToolStepsLeft, PlacesLeft
  <2> QED BY <2>1, ToolsGoOn
<1> QED BY <1>1, NoThreadWaitsInVain, StoppedInvariance, PTL DEF Ext!Spec
=============================================================================
