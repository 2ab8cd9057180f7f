-------------------------- MODULE EvidenceCustody --------------------------
(***************************************************************************)
(* What stands behind a digest of the evidence: the pass that streams the  *)
(* medium, the record of an earlier pass, the opening of a disk image and  *)
(* the checks of a guarded run.                                            *)
(*                                                                         *)
(* A medium is one file or a set of segments.  Consoles open it, verify it *)
(* and examine it while anybody may write to the files, put others in      *)
(* their place or remove them.  Nothing is locked: a pass looks at the     *)
(* files before, while and after it reads, and later uses look whether     *)
(* they still are the files of the pass.                                   *)
(*                                                                         *)
(* Every change, a renaming too, moves the status time of the file it      *)
(* touches, which nobody can set, so the identity of a file never comes    *)
(* back once it is gone; a look at several files tells what a look at one  *)
(* moment would.  On some platforms and mounts the times stand still:      *)
(* these are the quiet writes.                                             *)
(***************************************************************************)
EXTENDS Integers, FiniteSets, Sequences

CONSTANTS
  Consoles,         \* the processes that open the medium
  VerifyEveryOpen,  \* those told never to rely on an earlier pass
  N,                \* segments a set may have
  B,                \* blocks of a segment
  MaxChanges,       \* bound: changes of the files
  None

ASSUME CustodyAssumption ==
  /\ {N, B} \subseteq Nat \ {0}
  /\ MaxChanges \in Nat
  /\ VerifyEveryOpen \subseteq Consoles

VARIABLES
  format,   \* "raw" or "ewf"
  quiet,    \* whether a write may leave the times of a file as they were
  files,    \* every file there has been: the versions of its blocks, its times
  path,     \* the file under the name of each segment, None when there is none
  changes,  \* how many changes there were, which also tells the time
  record,   \* the stored attestation, None before the first
  disk,     \* the disk image each console has open, None when it has none
  pass      \* the pass over the medium each console is in, None between passes

mediumVars == <<format, quiet, files, path, changes>>
vars == <<format, quiet, files, path, changes, record, disk, pass>>

Segments == 1 .. N
Purposes == {"open", "verify", "start", "completion"}
Stages   == {"attested", "held", "scanned", "ready", "running"}
Verdicts == {"none", "matches", "accepted"}

Identities   == [file : Nat \ {0}, mtime : Nat, ctime : Nat]
Attestations == [ids : Seq(Identities), content : Seq(Nat)]

\* An open image: what attests it, and what the parser or a tool has read of it.
Disks ==
  [stage : Stages, source : Attestations, seen : SUBSET (Nat \X Nat), verdict : Verdicts]

\* A pass: the files it began with, those it opened and what it has read.
Passes ==
  [purpose : Purposes, before : Seq(Identities), opened : Seq(Identities), got : Seq(Nat)]

ASSUME NoneAssumption == None \notin Nat \cup Attestations \cup Disks \cup Passes

TypeOK ==
  /\ format \in {"raw", "ewf"} /\ quiet \in BOOLEAN /\ changes \in 0 .. MaxChanges
  /\ \A f \in DOMAIN files : files[f] \in [blocks : [1 .. B -> Nat], mtime : Nat, ctime : Nat]
  /\ path \in [Segments -> DOMAIN files \cup {None}]
  /\ record \in Attestations \cup {None}
  /\ DOMAIN disk = Consoles
  /\ \A c \in Consoles : disk[c] # None =>
       /\ disk[c].stage \in Stages /\ disk[c].verdict \in Verdicts
       /\ disk[c].source \in Attestations
       /\ Len(disk[c].source.content) = B * Len(disk[c].source.ids)
  /\ DOMAIN pass = Consoles
  /\ \A c \in Consoles : pass[c] # None =>
       /\ pass[c].purpose \in Purposes
       /\ pass[c].purpose = "open" <=> disk[c] = None
       /\ pass[c].purpose = "completion" <=> (disk[c] # None /\ disk[c].stage = "running")

Fresh(v) == [blocks |-> [b \in 1 .. B |-> v], mtime |-> v, ctime |-> v]

Init ==
  /\ format \in {"raw", "ewf"} /\ quiet \in BOOLEAN
  /\ \E n \in Segments :
       /\ files = [f \in 1 .. n |-> Fresh(0)]
       /\ path = [s \in Segments |-> IF s <= n THEN s ELSE None]
  /\ changes = 0
  /\ record = None
  /\ disk = [c \in Consoles |-> None]
  /\ pass = [c \in Consoles |-> None]

-----------------------------------------------------------------------------
(* The files. *)

Identity(f) == [file |-> f, mtime |-> files[f].mtime, ctime |-> files[f].ctime]

\* Mutant: what a descriptor and a path can be compared by is taken everywhere.
WithoutStatusTime(id) == [file |-> id.file, mtime |-> id.mtime]

\* stable_file_identity: between two looks of the same kind the status time counts.
Strong(id) == id

\* _opened_path_identity: between a path and a descriptor it does not.
Loose(id) == [file |-> id.file, mtime |-> id.mtime]

\* The segments that follow one another from the first.
Lead ==
  CHOOSE n \in 0 .. N :
    /\ \A s \in 1 .. n : path[s] # None
    /\ n = N \/ path[n + 1] = None

\* _discover_raw_segments refuses a gap, libewf ends at it.
Discoverable ==
  /\ Lead > 0
  /\ format = "raw" => \A s \in Segments : path[s] # None => s <= Lead

Members == [s \in 1 .. Lead |-> Identity(path[s])]

SegmentOf(k) == ((k - 1) \div B) + 1
BlockOf(k)   == ((k - 1) % B) + 1

Medium == [k \in 1 .. B * Lead |-> files[path[SegmentOf(k)]].blocks[BlockOf(k)]]

StrongAll(ids) == [s \in DOMAIN ids |-> Strong(ids[s])]

\* assert_evidence_source_current
Current(source) == Discoverable /\ StrongAll(Members) = StrongAll(source.ids)

-----------------------------------------------------------------------------
(* Changes from outside. *)

Time == changes + 1

MayChange ==
  /\ changes < MaxChanges
  /\ changes' = Time
  /\ UNCHANGED <<format, quiet, record, disk, pass>>

Overwrite(f, b) ==
  /\ MayChange
  /\ files' = [files EXCEPT ![f] = [blocks |-> [@.blocks EXCEPT ![b] = Time],
                                    mtime |-> Time, ctime |-> Time]]
  /\ UNCHANGED path

\* It stays: one that is undone before the medium is read again leaves nothing that
\* could be found.
QuietWrite(f, b) ==
  /\ quiet
  /\ MayChange
  /\ files' = [files EXCEPT ![f].blocks[b] = Time]
  /\ UNCHANGED path

\* The time of the last write can be set back.
SetTimeBack(f) ==
  /\ MayChange
  /\ files' = [files EXCEPT ![f].mtime = 0, ![f].ctime = Time]
  /\ UNCHANGED path

\* Another file takes the name: a copy of one there has been or another medium,
\* with its own times or with those of the original.
PutInPlace(s) ==
  \E mtime \in {0, Time} :
  \E blocks \in {Fresh(Time).blocks} \cup {files[f].blocks : f \in DOMAIN files} :
    /\ MayChange
    /\ files' = Append(files, [blocks |-> blocks, mtime |-> mtime, ctime |-> Time])
    /\ path' = [path EXCEPT ![s] = Len(files')]

Remove(s) ==
  /\ path[s] # None
  /\ MayChange
  /\ path' = [path EXCEPT ![s] = None]
  /\ UNCHANGED files

Change ==
  \/ \E f \in DOMAIN files : SetTimeBack(f) \/ \E b \in 1 .. B : Overwrite(f, b) \/ QuietWrite(f, b)
  \/ \E s \in Segments : PutInPlace(s) \/ Remove(s)

-----------------------------------------------------------------------------
(* A pass over the medium. *)

Idle(c) == pass[c] = None

\* Mutant: a verification only reads.
LooksUnlessVerifying(c) == pass[c].purpose # "verify"

\* hash_image of an EWF set looks at no times: whatever it read is compared.
Looks(c) == format = "raw" \/ pass[c].purpose # "verify"

\* _attest_raw_segment_set_multihash and _attest_ewf begin with the identities of
\* every segment, which the pass will name if it succeeds.
Begin(c, purpose) ==
  /\ Idle(c)
  /\ Discoverable
  /\ pass' = [pass EXCEPT ![c] =
       [purpose |-> purpose, before |-> Members, opened |-> <<>>, got |-> <<>>]]

\* The descriptor of the last segment opened still is what it was.
Unmoved(c) ==
  LET last == Len(pass[c].opened)
  IN last > 0 =>
       Strong(Identity(pass[c].opened[last].file)) = Strong(pass[c].opened[last])

SegmentRead(c) == Len(pass[c].got) = B * Len(pass[c].opened)

\* What a path named is what was opened: compared for raw files only, libewf opens
\* the whole set by itself.
Expected(c, s) ==
  format = "raw" => Loose(Identity(path[s])) = Loose(pass[c].before[s])

\* A raw segment is opened when the one before it is read and found unmoved.
MayOpenNext(c) ==
  /\ Len(pass[c].opened) < Len(pass[c].before)
  /\ format = "raw" => SegmentRead(c)

Opens(c) ==
  LET s == Len(pass[c].opened) + 1
  IN /\ path[s] # None
     /\ Expected(c, s)
     /\ format = "raw" => Unmoved(c)
     /\ pass' = [pass EXCEPT ![c].opened = Append(@, Identity(path[s]))]

ReadBlock(c) ==
  /\ ~Idle(c)
  /\ ~SegmentRead(c)
  /\ format = "ewf" => ~MayOpenNext(c)
  /\ LET k == Len(pass[c].got) + 1
         f == pass[c].opened[SegmentOf(k)].file
     IN pass' = [pass EXCEPT ![c].got = Append(@, files[f].blocks[BlockOf(k)])]
  /\ UNCHANGED <<mediumVars, record, disk>>

AllRead(c) == Len(pass[c].got) = B * Len(pass[c].before)

SameSegments(c) ==
  \A s \in DOMAIN pass[c].before :
    path[s] # None /\ Strong(Identity(path[s])) = Strong(pass[c].before[s])

\* The looks after the last block.  A split raw set is discovered again; a single
\* file and an EWF set are not.
Stable(c) ==
  /\ format = "raw" => Unmoved(c)
  /\ SameSegments(c)
  /\ (format = "raw" /\ Len(pass[c].before) > 1) =>
       Discoverable /\ Lead = Len(pass[c].before)

Attested(c) == [ids |-> pass[c].before, content |-> pass[c].got]

\* The pass ends: with an attestation, or with an error of any look or read.
Finish(c) ==
  /\ ~Idle(c) /\ AllRead(c)
  /\ Looks(c) => Stable(c)
  /\ pass' = [pass EXCEPT ![c] = None]

-----------------------------------------------------------------------------
(* Opening a disk image. *)

Opened(stage, source) == [stage |-> stage, source |-> source, seen |-> {}, verdict |-> "none"]

\* load_reusable_attestation
Reuse(c) ==
  /\ Idle(c) /\ disk[c] = None
  /\ c \notin VerifyEveryOpen
  /\ record # None /\ Current(record)
  /\ disk' = [disk EXCEPT ![c] = Opened("held", record)]
  /\ UNCHANGED <<mediumVars, record, pass>>

\* Without a record that still holds, or one that can be read, the medium is streamed.
StreamForOpen(c) ==
  /\ disk[c] = None
  /\ Begin(c, "open")
  /\ UNCHANGED <<mediumVars, record, disk>>

FinishOpen(c) ==
  /\ ~Idle(c) /\ pass[c].purpose = "open"
  /\ Finish(c)
  /\ disk' = [disk EXCEPT ![c] = Opened("attested", Attested(c))]
  /\ UNCHANGED <<mediumVars, record>>

\* store_open_attestation replaces the record whole, or says nothing and does not.
Store(c) ==
  /\ disk[c] # None /\ disk[c].stage = "attested"
  /\ record' \in {record, disk[c].source}
  /\ disk' = [disk EXCEPT ![c].stage = "held"]
  /\ UNCHANGED <<mediumVars, pass>>

Blocks(c) == DOMAIN disk[c].source.content

\* What the parser reads of one block; one block of an image is watched.
Watch(c, k, file) ==
  /\ file # None
  /\ disk' = [disk EXCEPT ![c].seen  = {<<k, files[file].blocks[BlockOf(k)]>>},
                          ![c].stage = IF @ = "held" THEN "scanned" ELSE @]

\* _open_filesystems
Scan(c) ==
  /\ disk[c] # None /\ disk[c].stage = "held"
  /\ \E k \in Blocks(c) : Watch(c, k, path[SegmentOf(k)])
  /\ UNCHANGED <<mediumVars, record, pass>>

\* Mutant: what was found current before the scan is not looked at again.
TakenAsCurrent(source) == TRUE

\* The look after the scan.
StillCurrent(source) == Current(source)

Recheck(c) ==
  /\ disk[c] # None /\ disk[c].stage = "scanned"
  /\ disk' = [disk EXCEPT ![c] = IF StillCurrent(@.source) THEN [@ EXCEPT !.stage = "ready"] ELSE None]
  /\ UNCHANGED <<mediumVars, record, pass>>

-----------------------------------------------------------------------------
(* What is done with it. *)

Ready(c) == Idle(c) /\ disk[c] # None /\ disk[c].stage = "ready"

\* verify_evidence_integrity: the medium is streamed again, and compared.
Verify(c) ==
  /\ Ready(c)
  /\ Begin(c, "verify")
  /\ disk' = [disk EXCEPT ![c].verdict = "none"]
  /\ UNCHANGED <<mediumVars, record>>

FinishVerify(c) ==
  /\ ~Idle(c) /\ pass[c].purpose = "verify"
  /\ Finish(c)
  /\ disk' = [disk EXCEPT ![c].verdict =
                IF pass[c].got = disk[c].source.content THEN "matches" ELSE "none"]
  /\ UNCHANGED <<mediumVars, record>>

Guarding(c, purpose) ==
  /\ Current(disk[c].source)
  /\ Begin(c, purpose)
  /\ UNCHANGED <<mediumVars, record>>

\* The guard of a run begins and ends with its complete content.
StartRun(c) ==
  /\ Ready(c)
  /\ Guarding(c, "start")
  /\ disk' = [disk EXCEPT ![c].verdict = "none", ![c].seen = {}]

\* One block some tool reads, through the path or the file the parser keeps open.
\* The looks around each tool are those of OversightGate.
ToolReads(c) ==
  /\ Idle(c) /\ disk[c] # None /\ disk[c].stage = "running" /\ disk[c].seen = {}
  /\ \E k \in Blocks(c) :
       \E file \in {path[SegmentOf(k)], disk[c].source.ids[SegmentOf(k)].file} :
         Watch(c, k, file)
  /\ UNCHANGED <<mediumVars, record, pass>>

EndRun(c) ==
  /\ Idle(c) /\ disk[c] # None /\ disk[c].stage = "running"
  /\ Guarding(c, "completion")
  /\ UNCHANGED disk

\* Mutant: at the end the files are looked at and not read.
SameFiles(c) == TRUE

\* assert_evidence_source_content_current
SameContent(c) == pass[c].got = disk[c].source.content

FinishGuarded(c) ==
  /\ ~Idle(c) /\ pass[c].purpose \in {"start", "completion"}
  /\ SameContent(c)
  /\ Finish(c)
  /\ disk' = [disk EXCEPT ![c].stage   = IF @ = "ready" THEN "running" ELSE "ready",
                          ![c].verdict = IF disk[c].stage = "running" THEN "accepted" ELSE @]
  /\ UNCHANGED <<mediumVars, record>>

\* The run raises, or its answer is taken back: what it read backs nothing.
Revoked(c) ==
  [disk EXCEPT ![c].stage = "ready", ![c].verdict = "none", ![c].seen = {}]

\* The guard found a violation.
Violated(c) ==
  /\ disk[c] # None /\ Idle(c)
  /\ disk[c].stage = "running"
  /\ ~Current(disk[c].source)
  /\ disk' = Revoked(c)
  /\ UNCHANGED <<mediumVars, record, pass>>

Fails(c) ==
  /\ ~Idle(c)
  /\ pass' = [pass EXCEPT ![c] = None]
  /\ disk' = IF pass[c].purpose \in {"open", "verify"} THEN disk ELSE Revoked(c)
  /\ UNCHANGED <<mediumVars, record>>

\* The image is closed, its opening fails, or the console dies.
Leave(c) ==
  /\ disk[c] # None \/ ~Idle(c)
  /\ disk' = [disk EXCEPT ![c] = None]
  /\ pass' = [pass EXCEPT ![c] = None]
  /\ UNCHANGED <<mediumVars, record>>

OpenSegment(c) ==
  /\ ~Idle(c) /\ MayOpenNext(c)
  /\ Opens(c)
  /\ UNCHANGED <<mediumVars, record, disk>>

Streams(c) == OpenSegment(c) \/ ReadBlock(c) \/ Fails(c)
OpensDisk(c) == Reuse(c) \/ StreamForOpen(c) \/ FinishOpen(c) \/ Store(c) \/ Scan(c) \/ Recheck(c)
Examines(c) ==
  \/ Verify(c) \/ FinishVerify(c)
  \/ StartRun(c) \/ ToolReads(c) \/ EndRun(c) \/ FinishGuarded(c) \/ Violated(c)

Next == Change \/ \E c \in Consoles : Streams(c) \/ OpensDisk(c) \/ Examines(c) \/ Leave(c)

Spec == Init /\ [][Next]_vars

-----------------------------------------------------------------------------
(* What a digest is good for. *)

Sources == {disk[c].source : c \in {k \in Consoles : disk[k] # None}} \cup ({record} \ {None})

\* As long as the files are those of an attestation, the medium has the content
\* that was attested, however the pass and its record were raced by changes: what
\* every later use that only looks at the files relies on.
IdentityNamesContent ==
  ~quiet => \A a \in Sources : Current(a) => Medium = a.content

\* The files under the names of an attestation have its content.
Holds(source) ==
  \A k \in DOMAIN source.content :
    /\ path[SegmentOf(k)] # None
    /\ files[path[SegmentOf(k)]].blocks[BlockOf(k)] = source.content[k]

ReadAsAttested(c) == \A r \in disk[c].seen : r[2] = disk[c].source.content[r[1]]

\* What the parser resolved of an image it opened, it resolved from the attested
\* medium: no replacement straddles the opening.
OpenedAsAttested ==
  ~quiet => \A c \in Consoles :
    (disk[c] # None /\ disk[c].stage = "ready") => ReadAsAttested(c)

\* An answer accepted under the guard rests on reads of the attested content, even
\* where a write that stays leaves no trace in the times of the files.
AcceptedAsAttested ==
  \A c \in Consoles :
    (disk[c] # None /\ disk[c].verdict = "accepted") => ReadAsAttested(c)

\* A verification of a raw medium that finds the recorded digest ends on a medium
\* with the recorded content: a change behind the reader is not missed.
MatchesMeanUnchanged ==
  [][(format = "raw" /\ ~quiet) =>
       \A c \in Consoles :
         (~Idle(c) /\ pass[c].purpose = "verify" /\ disk'[c] # None /\ disk'[c].verdict = "matches")
           => Holds(disk[c].source)]_vars
=============================================================================
