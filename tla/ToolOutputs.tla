----------------------------- MODULE ToolOutputs -----------------------------
(***************************************************************************)
(* What the tool calls of one run keep and share on disk: hives staged for *)
(* the registry parser (tools/registry_tool.py), the scan of the image     *)
(* (tools/bulk_extractor_tool.py), both below workspaces the scratch       *)
(* session of the run retains, and the store of finished scans that runs,  *)
(* case openings and other processes publish into.                         *)
(*                                                                         *)
(* The calls run concurrently between the opening and the release of the   *)
(* tool-runtime workspace; the run closes the session after the last one.  *)
(***************************************************************************)
EXTENDS ControlledScratch

CONSTANTS
  Hives, Scans,   \* the two kinds of retained workspace
  Publishers,     \* who publishes the scan: the run, case openings, other processes
  Run,            \* the publisher that stands for this run
  None

ASSUME OutputsAssumption ==
  /\ Kinds = {Hives, Scans} /\ Hives # Scans
  /\ Run \in Publishers
  /\ None \notin Calls \cup Publishers

VARIABLES
  run,         \* starting, running or ending
  call,        \* what each call does and where it is: <<tool, step>>
  hiveLock,    \* who holds the staging lock of the hive
  hiveCache,   \* the hive is in _HIVE_CACHE
  hive,        \* the staged file
  scanLock,    \* who holds the scan lock of (root, image)
  scanCache,   \* the directory _CACHE names: in the scratch, or the published one
  scan,        \* the scan directory in the scratch
  publisher,   \* where each publisher is
  staging,     \* the entries of each staging directory, None when there is none
  final        \* the entries of the published directory, None when there is none

hives     == <<hiveLock, hiveCache, hive>>
scans     == <<scanLock, scanCache, scan>>
published == <<publisher, staging, final>>
vars      == <<scratch, run, call, hives, scans, published>>

Complete == {"features", "manifest"}
Entries  == {None} \cup {e : e \in SUBSET Complete}

Tools == {"none", "artifact", "hive", "scan"}
Steps == {"idle", "writing", "queued", "extracting", "parsing", "scanning", "publishing",
          "reading", "done"}
PublisherSteps == {"idle", "scanning", "copied", "sealed", "removing", "built", "failed"}

TypeOK ==
  /\ ScratchTypeOK
  /\ run \in {"starting", "running", "ending"}
  /\ call \in [Calls -> Tools \X Steps]
  /\ {hiveLock, scanLock} \subseteq Calls \cup {None}
  /\ hiveCache \in BOOLEAN
  /\ hive \in {"none", "partial", "empty", "whole"}
  /\ scanCache \in {"none", "scratch", "published"}
  /\ scan \in {"none", "partial", "whole"}
  /\ publisher \in [Publishers -> PublisherSteps]
  /\ staging \in [Publishers -> Entries]
  /\ final \in Entries

Init ==
  /\ ScratchInit
  /\ run = "starting"
  /\ call = [c \in Calls |-> <<"none", "idle">>]
  /\ hiveLock = None /\ hiveCache = FALSE /\ hive = "none"
  /\ scanLock = None /\ scanCache = "none" /\ scan = "none"
  /\ publisher = [p \in Publishers |-> "idle"]
  /\ staging = [p \in Publishers |-> None]
  /\ final = None

At(c, tool, step) == call[c] = <<tool, step>>

Goes(c, tool, step) == call' = [call EXCEPT ![c] = <<tool, step>>]

-----------------------------------------------------------------------------
(* The run: its workspace, its calls, and the end. *)

\* _controlled_tool_runtime.
StartRun ==
  /\ run = "starting"
  /\ \/ Allocate(Runtime) /\ run' = "running"
     \/ AllocationFails /\ run' = "ending"
  /\ UNCHANGED <<call, hives, scans, published>>

\* The dispatcher has waited for every worker before the graph returns.
EndRun ==
  /\ run = "running"
  /\ \A c \in Calls : call[c][2] \in {"idle", "done"}
  /\ \E ok \in BOOLEAN : Release(Runtime, ok)
  /\ run' = "ending"
  /\ UNCHANGED <<call, hives, scans, published>>

CloseRun ==
  /\ run = "ending"
  /\ \E errors \in SUBSET retained, current, stays, foreign \in BOOLEAN :
       Close(current, errors, stays, foreign)
  /\ UNCHANGED <<run, call, hives, scans, published>>

\* A call that keeps an artifact of its own for as long as it runs.
StartArtifact(c) ==
  /\ run = "running" /\ call[c][2] = "idle"
  /\ \/ Allocate(c) /\ Goes(c, "artifact", "writing")
     \/ AllocationFails /\ Goes(c, "artifact", "done")
  /\ UNCHANGED <<run, hives, scans, published>>

FinishArtifact(c) ==
  /\ At(c, "artifact", "writing")
  /\ \E ok \in BOOLEAN : Release(c, ok)
  /\ Goes(c, "artifact", "done")
  /\ UNCHANGED <<run, hives, scans, published>>

\* A call that works in a retained workspace.
Ask(c, tool, kind) ==
  /\ run = "running" /\ call[c][2] = "idle"
  /\ \/ Retain(kind) /\ Goes(c, tool, "queued")
     \/ kind \notin retained /\ AllocationFails /\ Goes(c, tool, "done")
  /\ UNCHANGED <<run, hives, scans, published>>

-----------------------------------------------------------------------------
(* _staged_hive, for an image whose digest is known. *)

\* Mutant: the lock is given back once the copy is staged.
ReleasedOnceStaged(c) == None

\* The staging lock is held for as long as the caller parses.
HeldWhileParsed(c) == c

Intact == hiveCache /\ hive \in {"partial", "whole"}

ReuseHive(c) ==
  /\ At(c, "hive", "queued") /\ hiveLock = None
  /\ Intact
  /\ hiveLock' = HeldWhileParsed(c)
  /\ Goes(c, "hive", "parsing")
  /\ UNCHANGED <<scratch, run, hiveCache, hive, scans, published>>

\* The entry of a copy that is gone or empty is dropped, what lies there unlinked,
\* and the file created anew.
BeginExtraction(c) ==
  /\ At(c, "hive", "queued") /\ hiveLock = None
  /\ ~Intact
  /\ hiveCache' = FALSE
  /\ hive' = "partial"
  /\ hiveLock' = c
  /\ Goes(c, "hive", "extracting")
  /\ UNCHANGED <<scratch, run, scans, published>>

\* What lies there cannot be unlinked, or the file cannot be created.
StagingRefused(c) ==
  /\ At(c, "hive", "queued") /\ hiveLock = None
  /\ ~Intact
  /\ hiveCache' = FALSE
  /\ hive' \in {hive, "none"}
  /\ Goes(c, "hive", "done")
  /\ UNCHANGED <<scratch, run, hiveLock, scans, published>>

\* An empty copy is handed to the parser and not published.
ExtractionEnds(c) ==
  /\ At(c, "hive", "extracting")
  /\ hive' \in {"whole", "empty"}
  /\ hiveCache' = (hive' = "whole")
  /\ hiveLock' = HeldWhileParsed(c)
  /\ Goes(c, "hive", "parsing")
  /\ UNCHANGED <<scratch, run, scans, published>>

\* The partial copy is unlinked, unless that fails as well.
ExtractionFails(c) ==
  /\ At(c, "hive", "extracting")
  /\ hive' \in {"none", "partial"}
  /\ hiveLock' = None
  /\ Goes(c, "hive", "done")
  /\ UNCHANGED <<scratch, run, hiveCache, scans, published>>

ParseEnds(c) ==
  /\ At(c, "hive", "parsing")
  /\ hiveLock' = IF hiveLock = c THEN None ELSE hiveLock
  /\ Goes(c, "hive", "done")
  /\ UNCHANGED <<scratch, run, hiveCache, hive, scans, published>>

\* Something outside the program empties or removes a copy nobody is using.
HiveSpoiled ==
  /\ run = "running" /\ hiveLock = None /\ hive = "whole"
  /\ hive' \in {"none", "empty"}
  /\ UNCHANGED <<scratch, run, call, hiveLock, hiveCache, scans, published>>

-----------------------------------------------------------------------------
(* bulk_extract, for an image whose digest is known. *)

Sealed(directory) == directory # None /\ "manifest" \in directory

\* _cached_scan: a directory outside the controlled root is forgotten, and the
\* published one always is.
Cached == scanCache = "scratch" /\ scan # "none"

ReuseScan(c) ==
  /\ At(c, "scan", "queued") /\ scanLock = None
  /\ Cached \/ Sealed(final)
  /\ scanCache' = IF Cached THEN scanCache ELSE "published"
  /\ scanLock' = c
  /\ Goes(c, "scan", "reading")
  /\ UNCHANGED <<scratch, run, hives, scan, published>>

\* Leftovers of an interrupted scan are purged first.
BeginScan(c) ==
  /\ At(c, "scan", "queued") /\ scanLock = None
  /\ ~Cached /\ ~Sealed(final)
  /\ scanCache' = "none"
  /\ scan' = "partial"
  /\ scanLock' = c
  /\ Goes(c, "scan", "scanning")
  /\ UNCHANGED <<scratch, run, hives, published>>

ScanRefused(c) ==
  /\ At(c, "scan", "queued") /\ scanLock = None
  /\ ~Cached /\ ~Sealed(final)
  /\ scanCache' = "none"
  /\ Goes(c, "scan", "done")
  /\ UNCHANGED <<scratch, run, hives, scanLock, scan, published>>

\* A partial directory is left behind.
ScanFails(c) ==
  /\ At(c, "scan", "scanning")
  /\ scanLock' = None
  /\ Goes(c, "scan", "done")
  /\ UNCHANGED <<scratch, run, hives, scanCache, scan, published>>

ScanEnds(c) ==
  /\ At(c, "scan", "scanning")
  /\ scan' = "whole"
  /\ Goes(c, "scan", "publishing")
  /\ UNCHANGED <<scratch, run, hives, scanLock, scanCache, published>>

\* Publication is best effort: without it the run serves its own copy.
Published(c) ==
  /\ At(c, "scan", "publishing")
  /\ publisher[Run] \in {"built", "failed"}
  /\ scanCache' = IF publisher[Run] = "built" THEN "published" ELSE "scratch"
  /\ publisher' = [publisher EXCEPT ![Run] = "idle"]
  /\ Goes(c, "scan", "reading")
  /\ UNCHANGED <<scratch, run, hives, scanLock, scan, staging, final>>

ReadEnds(c) ==
  /\ At(c, "scan", "reading")
  /\ scanLock' = None
  /\ Goes(c, "scan", "done")
  /\ UNCHANGED <<scratch, run, hives, scanCache, scan, published>>

-----------------------------------------------------------------------------
(* _publish_under and prewarm_default_scan: a staging directory, its manifest last, *)
(* and the rename that decides.                                                     *)

\* Mutant: the name does not say who is staging.
OneStaging(p) == Run

\* The name carries the process, and whether a case opening made it.
StagingOf(p) == p

Moves(p, step) == publisher' = [publisher EXCEPT ![p] = step]

private == <<scratch, run, call, hives, scans>>

\* A case opening and another process begin when they like, the run when a call of
\* its own has scanned.  What is published already is taken as it is; a staging
\* directory that exists refuses the next one.
BeginPublication(p) ==
  /\ publisher[p] = "idle"
  /\ p = Run => \E c \in Calls : At(c, "scan", "publishing")
  /\ \/ Sealed(final) /\ Moves(p, "built") /\ UNCHANGED staging
     \/ /\ ~Sealed(final) /\ staging[StagingOf(p)] = None
        /\ staging' = [staging EXCEPT ![StagingOf(p)] = {}]
        /\ Moves(p, "scanning")
     \/ /\ ~Sealed(final) /\ staging[StagingOf(p)] # None
        /\ Moves(p, "removing")
        /\ UNCHANGED staging
  /\ UNCHANGED <<private, final>>

Stage(p, from, entry, to) ==
  /\ publisher[p] = from
  /\ staging[StagingOf(p)] # None
  /\ staging' = [staging EXCEPT ![StagingOf(p)] = @ \cup {entry}]
  /\ Moves(p, to)
  /\ UNCHANGED <<private, final>>

\* The rename succeeds only where nothing is.
Rename(p) ==
  /\ publisher[p] = "sealed"
  /\ staging[StagingOf(p)] # None /\ final = None
  /\ final' = staging[StagingOf(p)]
  /\ staging' = [staging EXCEPT ![StagingOf(p)] = None]
  /\ Moves(p, "built")
  /\ UNCHANGED private

\* The scan, a copy, the manifest or the rename fails.
PublicationFails(p) ==
  /\ publisher[p] \in {"scanning", "copied", "sealed"}
  /\ Moves(p, "removing")
  /\ UNCHANGED <<private, staging, final>>

\* rmtree, entry by entry.
RemoveEntry(p) ==
  /\ publisher[p] = "removing"
  /\ staging[StagingOf(p)] # None
  /\ \E e \in staging[StagingOf(p)] :
       staging' = [staging EXCEPT ![StagingOf(p)] = @ \ {e}]
  /\ UNCHANGED <<private, publisher, final>>

\* Errors of the removal are ignored, and another publisher may have won.
Removed(p) ==
  /\ publisher[p] = "removing"
  /\ staging' \in {staging, [staging EXCEPT ![StagingOf(p)] =
                               IF @ = {} THEN None ELSE @]}
  /\ Moves(p, IF Sealed(final) THEN "built" ELSE "failed")
  /\ UNCHANGED <<private, final>>

\* A process dies and the next one has its number; one that is done may return.
Again(p) ==
  /\ p # Run
  /\ publisher[p] # "idle"
  /\ Moves(p, "idle")
  /\ UNCHANGED <<private, staging, final>>

-----------------------------------------------------------------------------
CallStep(c) ==
  \/ StartArtifact(c) \/ FinishArtifact(c)
  \/ Ask(c, "hive", Hives) \/ Ask(c, "scan", Scans)
  \/ ReuseHive(c) \/ BeginExtraction(c) \/ StagingRefused(c)
  \/ ExtractionEnds(c) \/ ExtractionFails(c) \/ ParseEnds(c)
  \/ ReuseScan(c) \/ BeginScan(c) \/ ScanRefused(c) \/ ScanFails(c) \/ ScanEnds(c)
  \/ Published(c) \/ ReadEnds(c)

PublisherStep(p) ==
  \/ BeginPublication(p)
  \/ Stage(p, "scanning", "features", "copied")
  \/ Stage(p, "copied", "manifest", "sealed")
  \/ Rename(p) \/ PublicationFails(p) \/ RemoveEntry(p) \/ Removed(p) \/ Again(p)

Next ==
  \/ StartRun \/ EndRun \/ CloseRun \/ HiveSpoiled
  \/ \E c \in Calls : CallStep(c)
  \/ \E p \in Publishers : PublisherStep(p)

Spec == Init /\ [][Next]_vars

-----------------------------------------------------------------------------
\* No call parses a hive that is missing or half written, and none reads a scan
\* that is: the file a call was given stays what it was until the call is done,
\* whatever the calls beside it find missing, empty or unfinished.
ReadersSeeWholeOutputs ==
  \A c \in Calls :
    /\ At(c, "hive", "parsing") => hive \in {"whole", "empty"}
    /\ At(c, "scan", "reading") =>
         IF scanCache = "published" THEN final = Complete ELSE scan = "whole"

\* "a directory carrying one is complete by construction": what is published has
\* the features and the manifest, whoever raced, failed or died on the way.
PublishedIsComplete == final # None => final = Complete
=============================================================================
