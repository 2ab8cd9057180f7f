------------------------ MODULE EvidenceCustodyProofs ------------------------
(***************************************************************************)
(* Proofs about EvidenceCustody, for any consoles, any number of segments  *)
(* and blocks and any bound on the changes of the files.                   *)
(*                                                                         *)
(* Every action either changes the files or what one console has: the      *)
(* first kind is followed through one lemma about how files can grow, the  *)
(* second through one lemma for each action.                               *)
(***************************************************************************)
EXTENDS EvidenceCustody, WellFoundedInduction, TLAPS

-----------------------------------------------------------------------------
(* Blocks and segments. *)

LEMMA Division ==
  ASSUME NEW x \in Nat, NEW d \in Nat \ {0}
  PROVE  /\ x \div d \in Nat /\ x % d \in 0 .. d - 1
         /\ x = d * (x \div d) + (x % d)
OBVIOUS

LEMMA ProductGrows ==
  ASSUME NEW d \in Nat \ {0}, NEW m \in Nat, NEW n \in Nat, m <= n
  PROVE  /\ d * m \in Nat /\ d * n \in Nat /\ d * m <= d * n
OBVIOUS

LEMMA ProductDetermines ==
  ASSUME NEW d \in Nat \ {0}, NEW m \in Nat, NEW n \in Nat, d * m <= d * n
  PROVE  m <= n
<1>1. SUFFICES ASSUME n < m PROVE FALSE
  OBVIOUS
<1>2. d * (n + 1) <= d * m
  BY <1>1, ProductGrows
<1>3. d * (n + 1) = d * n + d /\ d * n \in Nat /\ d * m \in Nat
  OBVIOUS
<1>4. QED
  BY <1>2, <1>3

\* What is appended comes after all there was.
LEMMA Appended ==
  ASSUME NEW S, NEW q \in Seq(S), NEW e \in S
  PROVE  /\ Append(q, e) \in Seq(S) /\ Len(q) \in Nat /\ Len(Append(q, e)) = Len(q) + 1
         /\ Append(q, e)[Len(q) + 1] = e
         /\ \A i \in DOMAIN q : Append(q, e)[i] = q[i]
         /\ \A i \in DOMAIN Append(q, e) : i = Len(q) + 1 \/ i \in DOMAIN q
OBVIOUS

\* A block of n segments is a block of one of them.
LEMMA BlockPlaces ==
  ASSUME NEW n \in Nat, NEW k \in 1 .. B * n
  PROVE  SegmentOf(k) \in 1 .. n /\ BlockOf(k) \in 1 .. B
<1> DEFINE q == (k - 1) \div B
           r == (k - 1) % B
<1>1. B \in Nat \ {0} /\ B * n \in Nat
  BY CustodyAssumption
<1>2. k - 1 \in Nat
  BY <1>1
<1>3. q \in Nat /\ r \in 0 .. B - 1 /\ k - 1 = B * q + r
  BY <1>1, <1>2, Division
<1> HIDE DEF q, r
<1>4. q < n
  <2>1. SUFFICES ASSUME n <= q PROVE FALSE
    BY <1>3
  <2>2. B * n <= B * q /\ B * q \in Nat
    BY <2>1, <1>1, <1>3, ProductGrows
  <2>3. QED
    BY <2>2, <1>1, <1>3
<1>5. QED
  BY <1>1, <1>3, <1>4 DEF SegmentOf, BlockOf, q, r

\* The segments that follow one another from the first are well defined.
LEMMA LeadIsDefined ==
  /\ Lead \in 0 .. N
  /\ \A s \in 1 .. Lead : path[s] # None
<1> DEFINE Stop(n) == n = N \/ path[n + 1] = None
           T == {n \in 0 .. N : Stop(n)}
<1>1. N \in Nat
  BY CustodyAssumption
<1>2. PICK x \in T : \A y \in T : ~ (<<y, x>> \in OpToRel(<, Nat))
  <2>1. T \subseteq Nat /\ N \in T
    BY <1>1
  <2>2. QED
    BY <2>1, WFMin, NatLessThanWellFounded
<1>3. x \in Nat /\ x <= N
  <2>1. x \in 0 .. N
    OBVIOUS
  <2>2. QED
    BY <1>1, <2>1
<1>4. \A y \in T : ~(y < x)
  <2>1. ASSUME NEW y \in T, y < x PROVE <<y, x>> \in OpToRel(<, Nat)
    BY <2>1, <1>1, <1>3 DEF OpToRel
  <2>2. QED
    BY <2>1, <1>2
<1>5. \A s \in 1 .. x : path[s] # None
  <2>1. SUFFICES ASSUME NEW s \in 1 .. x, path[s] = None PROVE FALSE
    OBVIOUS
  <2>2. s - 1 \in 0 .. N /\ (s - 1) + 1 = s
    BY <1>1, <1>3
  <2>3. s - 1 \in T
    BY <2>1, <2>2
  <2>4. QED
    BY <2>3, <1>4, <1>3
<1>6. \E n \in 0 .. N : (\A s \in 1 .. n : path[s] # None) /\ Stop(n)
  <2>1. x \in 0 .. N /\ Stop(x)
    OBVIOUS
  <2>2. QED
    BY <2>1, <1>5
<1>7. QED
  BY <1>6 DEF Lead

-----------------------------------------------------------------------------
(* The inductive invariant.  Its parts speak of the files and the names they are *)
(* given, so that a change of the files is a change of their arguments.          *)

File == [blocks : [1 .. B -> Nat], mtime : Nat, ctime : Nat]

\* No file has a status time, or a content, of the future.
FilesInv ==
  /\ files \in Seq(File)
  /\ \A f \in DOMAIN files :
       files[f].ctime <= changes /\ \A b \in 1 .. B : files[f].blocks[b] <= changes

\* The identity was that of a file there has been.
Known(fs, id) == id.file \in DOMAIN fs /\ id.ctime <= fs[id.file].ctime

\* While the file has the identity, it has this content in this block.
Witness(fs, id, b, v) ==
  fs[id.file].ctime = id.ctime => fs[id.file].blocks[b] = v

\* An attestation: as long as the times of its files tell, they have its content.
SourceInv(fs, q, a) ==
  /\ a \in Attestations
  /\ Len(a.ids) <= N /\ Len(a.content) = B * Len(a.ids)
  /\ \A s \in DOMAIN a.ids : Known(fs, a.ids[s])
  /\ ~q => \A k \in DOMAIN a.content : Witness(fs, a.ids[SegmentOf(k)], BlockOf(k), a.content[k])

\* A pass: a segment that still has the file it began with was read from that file.
PassInv(fs, names, q, p) ==
  /\ p \in Passes
  /\ Len(p.opened) <= Len(p.before) /\ Len(p.before) <= N /\ Len(p.got) <= B * Len(p.opened)
  /\ \A s \in DOMAIN p.before : Known(fs, p.before[s])
  /\ \A s \in DOMAIN p.opened :
       /\ p.opened[s].file \in DOMAIN fs
       /\ names[s] = p.before[s].file => p.opened[s].file = p.before[s].file
  /\ \A k \in DOMAIN p.got :
       LET s == SegmentOf(k)
           b == BlockOf(k)
       IN /\ p.got[k] <= fs[p.opened[s].file].blocks[b]
          /\ (~q /\ p.opened[s].file = p.before[s].file) => Witness(fs, p.before[s], b, p.got[k])

AsAttested(d) == \A r \in d.seen : r[2] = d.source.content[r[1]]

\* What was scanned is what the files have, while they are those of the attestation.
ScannedInv(fs, names, d) ==
  \A r \in d.seen :
    LET id == d.source.ids[SegmentOf(r[1])]
    IN names[SegmentOf(r[1])] = id.file => Witness(fs, id, BlockOf(r[1]), r[2])

\* During a run the versions of a block only go up: the attested one is first, then
\* comes the one that was read, then the one the file has.
RunningInv(fs, names, d) ==
  /\ \A k \in DOMAIN d.source.content :
       d.source.content[k] <= fs[d.source.ids[SegmentOf(k)].file].blocks[BlockOf(k)]
  /\ \A r \in d.seen :
       LET id == d.source.ids[SegmentOf(r[1])]
       IN names[SegmentOf(r[1])] = id.file =>
            d.source.content[r[1]] <= r[2] /\ r[2] <= fs[id.file].blocks[BlockOf(r[1])]

DiskInv(fs, names, q, d) ==
  /\ d \in Disks /\ SourceInv(fs, q, d.source)
  /\ \A r \in d.seen : r[1] \in DOMAIN d.source.content
  /\ d.stage \in {"attested", "held"} => d.seen = {}
  /\ d.stage # "ready" => d.verdict = "none"
  /\ (d.stage = "scanned" /\ ~q) => ScannedInv(fs, names, d)
  /\ (d.stage = "ready" /\ ~q) => AsAttested(d)
  /\ d.verdict = "accepted" => AsAttested(d)
  /\ d.stage = "running" => RunningInv(fs, names, d)

\* What a pass is for, and what it can rely on.
PurposeInv(names, p, d) ==
  /\ p.purpose = "open" <=> d = None
  /\ p.purpose = "completion" <=> (d # None /\ d.stage = "running")
  /\ p.purpose \in {"verify", "start"} => d.stage = "ready" /\ d.verdict = "none"
  /\ p.purpose = "start" => d.seen = {}
  /\ p.purpose \in {"start", "completion"} => p.before = d.source.ids
  /\ p.purpose = "completion" =>
       \A r \in d.seen :
         (r[1] \in DOMAIN p.got /\ names[SegmentOf(r[1])] = p.before[SegmentOf(r[1])].file)
           => r[2] <= p.got[r[1]]

ConsoleInv(fs, names, q, p, d) ==
  /\ p # None => PassInv(fs, names, q, p) /\ PurposeInv(names, p, d)
  /\ d # None => DiskInv(fs, names, q, d)

MediumInv ==
  /\ format \in {"raw", "ewf"} /\ quiet \in BOOLEAN /\ changes \in 0 .. MaxChanges
  /\ path \in [Segments -> DOMAIN files \cup {None}]
  /\ FilesInv

IInv ==
  /\ MediumInv
  /\ record # None => SourceInv(files, quiet, record)
  /\ DOMAIN disk = Consoles /\ DOMAIN pass = Consoles
  /\ \A c \in Consoles : ConsoleInv(files, path, quiet, pass[c], disk[c])

-----------------------------------------------------------------------------
(* Changes of the files. *)

\* What every change keeps: a file stays, its status time moves forward and so do the
\* versions of its blocks; a name is not given back to a file there has been.
Grows(fs, names, gs, newNames, q) ==
  /\ DOMAIN fs \subseteq DOMAIN gs
  /\ \A f \in DOMAIN fs :
       /\ fs[f].ctime \in Nat /\ gs[f].ctime \in Nat /\ fs[f].ctime <= gs[f].ctime
       /\ \A b \in 1 .. B :
            /\ fs[f].blocks[b] \in Nat /\ gs[f].blocks[b] \in Nat
            /\ fs[f].blocks[b] <= gs[f].blocks[b]
            /\ (~q /\ gs[f].ctime = fs[f].ctime) => gs[f].blocks[b] = fs[f].blocks[b]
  /\ \A s \in Segments : newNames[s] \in DOMAIN fs => newNames[s] = names[s]

LEMMA SourceGrows ==
  ASSUME NEW fs, NEW names, NEW gs, NEW newNames, NEW q \in BOOLEAN,
         Grows(fs, names, gs, newNames, q), NEW a, SourceInv(fs, q, a)
  PROVE  SourceInv(gs, q, a)
<1>1. a \in Attestations /\ Len(a.ids) \in Nat /\ a.ids \in Seq(Identities)
  BY DEF SourceInv, Attestations
<1>2. \A k \in DOMAIN a.content : SegmentOf(k) \in DOMAIN a.ids /\ BlockOf(k) \in 1 .. B
  BY <1>1, BlockPlaces DEF SourceInv, Attestations
<1>3. \A s \in DOMAIN a.ids : a.ids[s].ctime \in Nat /\ a.ids[s].file \in DOMAIN fs
  <2>1. \A s \in DOMAIN a.ids : a.ids[s] \in Identities
    BY <1>1
  <2>2. QED
    BY <2>1 DEF SourceInv, Identities, Known
<1>4. \A s \in DOMAIN a.ids : Known(gs, a.ids[s])
  BY <1>3 DEF SourceInv, Known, Grows
<1>5. ASSUME ~q, NEW k \in DOMAIN a.content
      PROVE  Witness(gs, a.ids[SegmentOf(k)], BlockOf(k), a.content[k])
  BY <1>2, <1>3, <1>5 DEF SourceInv, Known, Grows, Witness
<1>6. QED
  BY <1>1, <1>4, <1>5 DEF SourceInv

LEMMA PassGrows ==
  ASSUME NEW fs, NEW names, NEW gs, NEW newNames, NEW q \in BOOLEAN,
         Grows(fs, names, gs, newNames, q), NEW p, PassInv(fs, names, q, p)
  PROVE  PassInv(gs, newNames, q, p)
<1>1. /\ p.before \in Seq(Identities) /\ p.opened \in Seq(Identities) /\ p.got \in Seq(Nat)
      /\ Len(p.before) \in Nat /\ Len(p.opened) \in Nat /\ Len(p.got) \in Nat
      /\ Len(p.opened) <= Len(p.before) /\ Len(p.before) <= N /\ Len(p.got) <= B * Len(p.opened)
  BY DEF PassInv, Passes
<1>2. \A k \in DOMAIN p.got :
        /\ SegmentOf(k) \in DOMAIN p.opened /\ SegmentOf(k) \in DOMAIN p.before
        /\ BlockOf(k) \in 1 .. B /\ p.got[k] \in Nat
  <2>1. SUFFICES ASSUME NEW k \in DOMAIN p.got
                 PROVE  SegmentOf(k) \in 1 .. Len(p.opened) /\ BlockOf(k) \in 1 .. B
    BY <1>1, SMTT(60)
  <2>2. B * Len(p.opened) \in Nat
    BY <1>1, CustodyAssumption
  <2>3. k \in 1 .. B * Len(p.opened)
    BY <1>1, <2>2, SMTT(60)
  <2>4. QED
    BY <1>1, <2>3, BlockPlaces
<1>3. \A s \in DOMAIN p.before :
        p.before[s].ctime \in Nat /\ p.before[s].file \in DOMAIN fs /\ s \in Segments
  <2>1. \A s \in DOMAIN p.before : p.before[s] \in Identities
    BY <1>1
  <2>2. \A s \in DOMAIN p.before : Known(fs, p.before[s])
    BY DEF PassInv
  <2>3. \A s \in DOMAIN p.before : s \in Segments
    BY <1>1, CustodyAssumption, SMTT(60) DEF Segments
  <2>4. QED
    BY <2>1, <2>2, <2>3 DEF Identities, Known
<1>4. \A s \in DOMAIN p.before : Known(gs, p.before[s])
  BY <1>3 DEF PassInv, Known, Grows
<1>5. ASSUME NEW s \in DOMAIN p.opened
      PROVE  /\ p.opened[s].file \in DOMAIN gs
             /\ newNames[s] = p.before[s].file => p.opened[s].file = p.before[s].file
  BY <1>1, <1>3, <1>5 DEF PassInv, Grows
<1>6. ASSUME NEW k \in DOMAIN p.got
      PROVE  p.got[k] <= gs[p.opened[SegmentOf(k)].file].blocks[BlockOf(k)]
  <2>1. p.opened[SegmentOf(k)].file \in DOMAIN fs
    BY <1>2 DEF PassInv
  <2>2. p.got[k] <= fs[p.opened[SegmentOf(k)].file].blocks[BlockOf(k)]
    BY DEF PassInv
  <2>3. QED
    BY <1>2, <2>1, <2>2 DEF Grows
<1>7. ASSUME ~q, NEW k \in DOMAIN p.got, p.opened[SegmentOf(k)].file = p.before[SegmentOf(k)].file
      PROVE  Witness(gs, p.before[SegmentOf(k)], BlockOf(k), p.got[k])
  <2> DEFINE id == p.before[SegmentOf(k)]
             b  == BlockOf(k)
  <2>1. /\ id.ctime \in Nat /\ id.file \in DOMAIN fs /\ b \in 1 .. B
        /\ id.ctime <= fs[id.file].ctime
    BY <1>2, <1>3, <1>7 DEF PassInv, Known
  <2>2. Witness(fs, id, b, p.got[k])
    BY <1>7 DEF PassInv
  <2>3. /\ fs[id.file].ctime \in Nat /\ gs[id.file].ctime \in Nat
        /\ fs[id.file].ctime <= gs[id.file].ctime
        /\ gs[id.file].ctime = fs[id.file].ctime => gs[id.file].blocks[b] = fs[id.file].blocks[b]
    BY <1>7, <2>1 DEF Grows
  <2> HIDE DEF id, b
  <2>4. gs[id.file].ctime = id.ctime => fs[id.file].ctime = id.ctime
    BY <2>1, <2>3
  <2>5. Witness(gs, id, b, p.got[k])
    BY <2>2, <2>3, <2>4 DEF Witness
  <2> QED
    BY <2>5 DEF id, b
<1>8. QED
  BY <1>1, <1>4, <1>5, <1>6, <1>7 DEF PassInv

\* What a block of an attested segment is.
LEMMA SourcePlaces ==
  ASSUME NEW fs, NEW q, NEW a, SourceInv(fs, q, a), NEW k \in DOMAIN a.content
  PROVE  /\ SegmentOf(k) \in DOMAIN a.ids /\ SegmentOf(k) \in Segments /\ BlockOf(k) \in 1 .. B
         /\ a.ids[SegmentOf(k)].file \in DOMAIN fs
         /\ a.ids[SegmentOf(k)].ctime \in Nat
         /\ a.ids[SegmentOf(k)].ctime <= fs[a.ids[SegmentOf(k)].file].ctime
         /\ a.content[k] \in Nat /\ k \in Nat
<1>1. /\ a.ids \in Seq(Identities) /\ a.content \in Seq(Nat)
      /\ Len(a.ids) \in Nat /\ Len(a.ids) <= N /\ Len(a.content) = B * Len(a.ids)
  BY DEF SourceInv, Attestations
<1>2. SegmentOf(k) \in 1 .. Len(a.ids) /\ BlockOf(k) \in 1 .. B
  BY <1>1, BlockPlaces
<1>3. a.ids[SegmentOf(k)] \in Identities
  BY <1>1, <1>2
<1>4. Known(fs, a.ids[SegmentOf(k)])
  BY <1>1, <1>2 DEF SourceInv
<1>5. SegmentOf(k) \in Segments
  BY <1>1, <1>2, CustodyAssumption DEF Segments
<1>6. a.content[k] \in Nat /\ k \in Nat
  BY <1>1
<1>7. QED
  BY <1>1, <1>2, <1>3, <1>4, <1>5, <1>6, SMTT(60) DEF Known, Identities

LEMMA DiskGrows ==
  ASSUME NEW fs, NEW names, NEW gs, NEW newNames, NEW q \in BOOLEAN,
         Grows(fs, names, gs, newNames, q), NEW d, DiskInv(fs, names, q, d)
  PROVE  DiskInv(gs, newNames, q, d)
<1>1. SourceInv(fs, q, d.source) /\ SourceInv(gs, q, d.source)
  BY SourceGrows DEF DiskInv
<1>2. \A r \in d.seen : r[1] \in DOMAIN d.source.content /\ r[2] \in Nat
  BY DEF DiskInv, Disks
<1>3. ASSUME ~q, ScannedInv(fs, names, d) PROVE ScannedInv(gs, newNames, d)
  <2>1. SUFFICES ASSUME NEW r \in d.seen,
                        newNames[SegmentOf(r[1])] = d.source.ids[SegmentOf(r[1])].file
                 PROVE  Witness(gs, d.source.ids[SegmentOf(r[1])], BlockOf(r[1]), r[2])
    BY DEF ScannedInv
  <2> DEFINE id == d.source.ids[SegmentOf(r[1])]
  <2>2. /\ SegmentOf(r[1]) \in Segments /\ BlockOf(r[1]) \in 1 .. B
        /\ id.file \in DOMAIN fs /\ id.ctime \in Nat /\ id.ctime <= fs[id.file].ctime
    BY <1>1, <1>2, SourcePlaces
  <2>3. Witness(fs, id, BlockOf(r[1]), r[2])
    BY <1>3, <2>1, <2>2 DEF ScannedInv, Grows
  <2> HIDE DEF id
  <2>4. Witness(gs, id, BlockOf(r[1]), r[2])
    BY <1>3, <2>2, <2>3 DEF Grows, Witness
  <2>5. QED
    BY <2>4 DEF id
<1>4. ASSUME RunningInv(fs, names, d) PROVE RunningInv(gs, newNames, d)
  <2>1. ASSUME NEW k \in DOMAIN d.source.content
        PROVE  d.source.content[k] <= gs[d.source.ids[SegmentOf(k)].file].blocks[BlockOf(k)]
    BY <1>1, <1>4, SourcePlaces DEF RunningInv, Grows
  <2>2. ASSUME NEW r \in d.seen,
               newNames[SegmentOf(r[1])] = d.source.ids[SegmentOf(r[1])].file
        PROVE  /\ d.source.content[r[1]] <= r[2]
               /\ r[2] <= gs[d.source.ids[SegmentOf(r[1])].file].blocks[BlockOf(r[1])]
    <3>1. names[SegmentOf(r[1])] = d.source.ids[SegmentOf(r[1])].file
      BY <1>1, <1>2, <2>2, SourcePlaces DEF Grows
    <3>2. QED
      BY <1>1, <1>2, <1>4, <3>1, SourcePlaces DEF RunningInv, Grows
  <2>3. QED
    BY <2>1, <2>2 DEF RunningInv
<1>5. QED
  BY <1>1, <1>3, <1>4 DEF DiskInv

LEMMA PurposeGrows ==
  ASSUME NEW fs, NEW names, NEW gs, NEW newNames, NEW q \in BOOLEAN,
         Grows(fs, names, gs, newNames, q), NEW p, NEW d, d # None => DiskInv(fs, names, q, d),
         PassInv(fs, names, q, p), PurposeInv(names, p, d)
  PROVE  PurposeInv(newNames, p, d)
<1>1. SUFFICES ASSUME p.purpose = "completion", NEW r \in d.seen, r[1] \in DOMAIN p.got,
                      newNames[SegmentOf(r[1])] = p.before[SegmentOf(r[1])].file
               PROVE  r[2] <= p.got[r[1]]
  BY DEF PurposeInv
<1>2. p.before = d.source.ids /\ d # None
  BY <1>1 DEF PurposeInv
<1>3. r[1] \in DOMAIN d.source.content /\ SourceInv(fs, q, d.source)
  BY <1>1, <1>2 DEF DiskInv
<1>4. names[SegmentOf(r[1])] = p.before[SegmentOf(r[1])].file
  BY <1>1, <1>2, <1>3, SourcePlaces DEF Grows
<1>5. QED
  BY <1>1, <1>4 DEF PurposeInv

LEMMA Counts ==
  /\ N \in Nat \ {0} /\ B \in Nat \ {0} /\ MaxChanges \in Nat
  /\ None \notin Nat /\ None \notin Attestations /\ None \notin Disks /\ None \notin Passes
BY CustodyAssumption, NoneAssumption

\* One file is written to, or gets other times.
LEMMA ReplacedFile ==
  ASSUME MediumInv, MayChange, NEW f \in DOMAIN files, NEW new \in File,
         new.ctime = Time \/ (quiet /\ new.ctime = files[f].ctime),
         \A b \in 1 .. B : new.blocks[b] \in {files[f].blocks[b], Time},
         files' = [files EXCEPT ![f] = new], path' = path
  PROVE  MediumInv' /\ Grows(files, path, files', path', quiet)
<1>1. /\ changes \in Nat /\ changes' = changes + 1 /\ changes' \in 0 .. MaxChanges /\ Time = changes + 1
      /\ files \in Seq(File) /\ path \in [Segments -> DOMAIN files \cup {None}]
  BY Counts DEF MediumInv, FilesInv, MayChange, Time
<1>2. /\ files' \in Seq(File) /\ DOMAIN files' = DOMAIN files
      /\ \A g \in DOMAIN files : files'[g] = IF g = f THEN new ELSE files[g]
  BY <1>1
<1>3. \A g \in DOMAIN files :
        /\ files[g] \in File /\ files'[g] \in File
        /\ files[g].ctime \in Nat /\ files'[g].ctime \in Nat /\ files[g].ctime <= changes
        /\ \A b \in 1 .. B :
             /\ files[g].blocks[b] \in Nat /\ files'[g].blocks[b] \in Nat
             /\ files[g].blocks[b] <= changes
  <2>1. \A g \in DOMAIN files : files[g] \in File /\ files'[g] \in File
    BY <1>1, <1>2
  <2>2. QED
    BY <2>1 DEF MediumInv, FilesInv, File
<1>4. \A g \in DOMAIN files :
        /\ files[g].ctime <= files'[g].ctime /\ files'[g].ctime <= changes + 1
        /\ \A b \in 1 .. B :
             files[g].blocks[b] <= files'[g].blocks[b] /\ files'[g].blocks[b] <= changes + 1
  <2>1. ASSUME NEW g \in DOMAIN files, g # f
        PROVE  /\ files[g].ctime <= files'[g].ctime /\ files'[g].ctime <= changes + 1
               /\ \A b \in 1 .. B :
                    files[g].blocks[b] <= files'[g].blocks[b] /\ files'[g].blocks[b] <= changes + 1
    BY <1>1, <1>2, <1>3, <2>1
  <2>2. /\ files[f].ctime <= files'[f].ctime /\ files'[f].ctime <= changes + 1
        /\ \A b \in 1 .. B :
             files[f].blocks[b] <= files'[f].blocks[b] /\ files'[f].blocks[b] <= changes + 1
    <3>1. files'[f] = new /\ f \in DOMAIN files
      BY <1>2
    <3>2. files[f].ctime <= new.ctime /\ new.ctime <= changes + 1
      BY <1>1, <1>3
    <3>3. ASSUME NEW b \in 1 .. B
          PROVE  files[f].blocks[b] <= new.blocks[b] /\ new.blocks[b] <= changes + 1
      BY <1>1, <1>3
    <3>4. QED
      BY <3>1, <3>2, <3>3
  <2>3. QED
    BY <2>1, <2>2
<1>5. ASSUME NEW g \in DOMAIN files, ~quiet, files'[g].ctime = files[g].ctime
      PROVE  files'[g] = files[g]
  <2>1. g # f
    BY <1>1, <1>2, <1>3, <1>5
  <2>2. QED
    BY <2>1, <1>2
<1>6. Grows(files, path, files', path', quiet)
  BY <1>2, <1>3, <1>4, <1>5 DEF Grows
<1>7. FilesInv'
  BY <1>1, <1>2, <1>4 DEF FilesInv
<1>8. QED
  BY <1>1, <1>2, <1>6, <1>7 DEF MediumInv, MayChange

\* Another file comes.
LEMMA PutInPlaceStep ==
  ASSUME MediumInv, NEW s \in Segments, PutInPlace(s)
  PROVE  MediumInv' /\ Grows(files, path, files', path', quiet)
<1>1. PICK mtime \in {0, Time},
           blocks \in {Fresh(Time).blocks} \cup {files[f].blocks : f \in DOMAIN files} :
        /\ MayChange
        /\ files' = Append(files, [blocks |-> blocks, mtime |-> mtime, ctime |-> Time])
        /\ path' = [path EXCEPT ![s] = Len(files')]
  BY DEF PutInPlace
<1>2. /\ changes \in Nat /\ changes' = changes + 1 /\ changes' \in 0 .. MaxChanges /\ Time = changes + 1
      /\ files \in Seq(File) /\ path \in [Segments -> DOMAIN files \cup {None}]
      /\ format \in {"raw", "ewf"} /\ quiet \in BOOLEAN /\ format' = format /\ quiet' = quiet
  BY <1>1, Counts DEF MediumInv, FilesInv, MayChange, Time
<1>3. \A f \in DOMAIN files :
        /\ files[f].ctime \in Nat /\ files[f].ctime <= changes
        /\ files[f].blocks \in [1 .. B -> Nat]
        /\ \A b \in 1 .. B : files[f].blocks[b] \in Nat /\ files[f].blocks[b] <= changes
  <2>1. \A f \in DOMAIN files : files[f] \in File
    BY <1>2
  <2>2. QED
    BY <2>1 DEF MediumInv, FilesInv, File
<1>4. blocks \in [1 .. B -> Nat] /\ \A b \in 1 .. B : blocks[b] <= changes + 1
  <2>1. CASE blocks = Fresh(Time).blocks
    BY <2>1, <1>2 DEF Fresh
  <2>2. CASE blocks \in {files[f].blocks : f \in DOMAIN files}
    BY <2>2, <1>2, <1>3, SMTT(60)
  <2>3. QED
    BY <2>1, <2>2
<1> DEFINE new == [blocks |-> blocks, mtime |-> mtime, ctime |-> Time]
<1>5. new \in File /\ new.ctime = changes + 1 /\ new.blocks = blocks
  BY <1>2, <1>4 DEF File
<1> HIDE DEF new
<1>6. /\ files' \in Seq(File) /\ Len(files') = Len(files) + 1 /\ Len(files) \in Nat
      /\ files'[Len(files) + 1] = new
      /\ \A f \in DOMAIN files : files'[f] = files[f]
  BY <1>1, <1>2, <1>5 DEF new
<1>7. DOMAIN files' = 1 .. Len(files) + 1 /\ DOMAIN files = 1 .. Len(files)
  BY <1>2, <1>6
<1>8. path' \in [Segments -> DOMAIN files' \cup {None}]
  BY <1>1, <1>2, <1>6, <1>7
<1>9. Grows(files, path, files', path', quiet)
  <2>1. \A t \in Segments : path'[t] \in DOMAIN files => path'[t] = path[t]
    BY <1>1, <1>2, <1>6, <1>7
  <2>2. QED
    BY <2>1, <1>3, <1>6, <1>7 DEF Grows
<1>10. FilesInv'
  <2>1. ASSUME NEW f \in DOMAIN files'
        PROVE  files'[f].ctime <= changes' /\ \A b \in 1 .. B : files'[f].blocks[b] <= changes'
    <3>1. CASE f \in DOMAIN files
      BY <3>1, <1>2, <1>3, <1>6
    <3>2. CASE f = Len(files) + 1
      <4>1. files'[f] = new
        BY <3>2, <1>6
      <4>2. new.ctime <= changes' /\ \A b \in 1 .. B : new.blocks[b] <= changes'
        BY <1>2, <1>4, <1>5
      <4>3. QED
        BY <4>1, <4>2
    <3>3. f \in DOMAIN files \/ f = Len(files) + 1
      BY <2>1, <1>6, <1>7
    <3>4. QED
      BY <3>1, <3>2, <3>3
  <2>2. QED
    BY <2>1, <1>6 DEF FilesInv
<1>11. QED
  BY <1>2, <1>8, <1>9, <1>10 DEF MediumInv

LEMMA RemoveStep ==
  ASSUME MediumInv, NEW s \in Segments, Remove(s)
  PROVE  MediumInv' /\ Grows(files, path, files', path', quiet)
<1>1. /\ changes \in Nat /\ changes' = changes + 1 /\ changes' \in 0 .. MaxChanges
      /\ format' = format /\ quiet' = quiet /\ files' = files /\ path' = [path EXCEPT ![s] = None]
      /\ files \in Seq(File) /\ path \in [Segments -> DOMAIN files \cup {None}]
  BY Counts DEF MediumInv, FilesInv, MayChange, Time, Remove
<1>2. \A f \in DOMAIN files :
        /\ files[f].ctime \in Nat /\ files[f].ctime <= changes
        /\ \A b \in 1 .. B : files[f].blocks[b] \in Nat /\ files[f].blocks[b] <= changes
  <2>1. \A f \in DOMAIN files : files[f] \in File
    BY <1>1
  <2>2. QED
    BY <2>1 DEF MediumInv, FilesInv, File
<1>3. DOMAIN files \subseteq Nat
  BY <1>1
<1>4. \A t \in Segments : path'[t] \in DOMAIN files => path'[t] = path[t]
  BY <1>1, <1>3, Counts
<1>5. Grows(files, path, files', path', quiet)
  BY <1>1, <1>2, <1>4 DEF Grows
<1>6. FilesInv' /\ path' \in [Segments -> DOMAIN files' \cup {None}]
  BY <1>1, <1>2 DEF FilesInv
<1>7. QED
  BY <1>1, <1>5, <1>6 DEF MediumInv

LEMMA ChangeStep ==
  ASSUME IInv, Change
  PROVE  IInv'
<1>1. /\ MediumInv /\ quiet \in BOOLEAN
      /\ UNCHANGED <<format, quiet, record, disk, pass>>
  BY DEF IInv, MediumInv, Change, SetTimeBack, Overwrite, QuietWrite, PutInPlace, Remove, MayChange
<1>2. \A f \in DOMAIN files :
        /\ files[f] \in File /\ files[f].blocks \in [1 .. B -> Nat]
        /\ files[f].mtime \in Nat /\ files[f].ctime \in Nat
  <2>1. \A f \in DOMAIN files : files[f] \in File
    BY <1>1 DEF MediumInv, FilesInv
  <2>2. QED
    BY <2>1 DEF File
<1>3. Time \in Nat
  BY <1>1, Counts DEF MediumInv, Time
<1>4. MediumInv' /\ Grows(files, path, files', path', quiet)
  <2>1. ASSUME NEW f \in DOMAIN files, SetTimeBack(f)
        PROVE  MediumInv' /\ Grows(files, path, files', path', quiet)
    <3> DEFINE new == [files[f] EXCEPT !.mtime = 0, !.ctime = Time]
    <3>1. new \in File /\ new.ctime = Time /\ new.blocks = files[f].blocks
      BY <1>2, <1>3 DEF File
    <3>2. MayChange /\ files' = [files EXCEPT ![f] = new] /\ path' = path
      BY <2>1, <1>1 DEF SetTimeBack, MediumInv, FilesInv
    <3> HIDE DEF new
    <3>3. QED
      BY <3>1, <3>2, <1>1, ReplacedFile
  <2>2. ASSUME NEW f \in DOMAIN files, NEW b \in 1 .. B, Overwrite(f, b)
        PROVE  MediumInv' /\ Grows(files, path, files', path', quiet)
    <3> DEFINE new == [blocks |-> [files[f].blocks EXCEPT ![b] = Time], mtime |-> Time, ctime |-> Time]
    <3>1. /\ new \in File /\ new.ctime = Time
          /\ \A i \in 1 .. B : new.blocks[i] \in {files[f].blocks[i], Time}
      BY <1>2, <1>3 DEF File
    <3>2. MayChange /\ files' = [files EXCEPT ![f] = new] /\ path' = path
      BY <2>2 DEF Overwrite
    <3> HIDE DEF new
    <3>3. QED
      BY <3>1, <3>2, <1>1, ReplacedFile
  <2>3. ASSUME NEW f \in DOMAIN files, NEW b \in 1 .. B, QuietWrite(f, b)
        PROVE  MediumInv' /\ Grows(files, path, files', path', quiet)
    <3> DEFINE new == [files[f] EXCEPT !.blocks = [files[f].blocks EXCEPT ![b] = Time]]
    <3>1. /\ new \in File /\ new.ctime = files[f].ctime
          /\ \A i \in 1 .. B : new.blocks[i] \in {files[f].blocks[i], Time}
      BY <1>2, <1>3 DEF File
    <3>2. MayChange /\ quiet /\ files' = [files EXCEPT ![f] = new] /\ path' = path
      BY <2>3 DEF QuietWrite
    <3> HIDE DEF new
    <3>3. QED
      BY <3>1, <3>2, <1>1, ReplacedFile
  <2>4. QED
    BY <1>1, <2>1, <2>2, <2>3, PutInPlaceStep, RemoveStep DEF Change
<1>5. record' # None => SourceInv(files', quiet', record')
  BY <1>1, <1>4, SourceGrows DEF IInv
<1>6. ASSUME NEW c \in Consoles
      PROVE  ConsoleInv(files', path', quiet', pass'[c], disk'[c])
  <2>1. ConsoleInv(files, path, quiet, pass[c], disk[c])
    BY DEF IInv
  <2>2. ConsoleInv(files', path', quiet, pass[c], disk[c])
    BY <1>1, <1>4, <2>1, PassGrows, PurposeGrows, DiskGrows DEF ConsoleInv
  <2>3. QED
    BY <2>2, <1>1
<1>7. QED
  BY <1>1, <1>4, <1>5, <1>6 DEF IInv

-----------------------------------------------------------------------------
(* Looks. *)

LEMMA MembersAreKnown ==
  ASSUME MediumInv
  PROVE  /\ Lead \in Nat /\ Lead <= N /\ Members \in Seq(Identities) /\ Len(Members) = Lead
         /\ \A s \in DOMAIN Members :
              /\ s \in Segments /\ path[s] \in DOMAIN files /\ Members[s].file = path[s]
              /\ Members[s].ctime = files[path[s]].ctime
              /\ Known(files, Members[s])
<1>1. Lead \in Nat /\ Lead <= N /\ \A s \in 1 .. Lead : s \in Segments /\ path[s] # None
  BY LeadIsDefined, Counts DEF Segments
<1>2. \A s \in 1 .. Lead : path[s] \in DOMAIN files
  BY <1>1 DEF MediumInv
<1>3. \A s \in 1 .. Lead : Identity(path[s]) \in Identities /\ files[path[s]].ctime \in Nat
  <2>1. \A f \in DOMAIN files : files[f] \in File /\ f \in Nat \ {0}
    BY DEF MediumInv, FilesInv
  <2>2. QED
    BY <2>1, <1>2 DEF File, Identity, Identities
<1>4. Members \in Seq(Identities) /\ Len(Members) = Lead /\ DOMAIN Members = 1 .. Lead
  BY <1>1, <1>3 DEF Members
<1>5. \A s \in 1 .. Lead : Members[s] = Identity(path[s])
  BY DEF Members
<1>6. QED
  BY <1>1, <1>2, <1>3, <1>4, <1>5 DEF Identity, Known

\* A look that finds the files of an attestation finds its identities.
LEMMA CurrentNamesMembers ==
  ASSUME MediumInv, NEW q, NEW a, SourceInv(files, q, a), Current(a)
  PROVE  Members = a.ids
<1>1. Members \in Seq(Identities) /\ a.ids \in Seq(Identities)
  BY MembersAreKnown DEF SourceInv, Attestations
<1>2. [s \in DOMAIN Members |-> Members[s]] = [s \in DOMAIN a.ids |-> a.ids[s]]
  BY DEF Current, StrongAll, Strong
<1>3. Members = [s \in DOMAIN Members |-> Members[s]] /\ a.ids = [s \in DOMAIN a.ids |-> a.ids[s]]
  BY <1>1
<1>4. QED
  BY <1>2, <1>3

\* While the times of the files tell, a medium that is current has the attested content.
LEMMA CurrentHasContent ==
  ASSUME MediumInv, ~quiet, NEW a, SourceInv(files, quiet, a), Current(a)
  PROVE  /\ Medium = a.content
         /\ \A k \in DOMAIN a.content :
              /\ path[SegmentOf(k)] = a.ids[SegmentOf(k)].file
              /\ files[path[SegmentOf(k)]].ctime = a.ids[SegmentOf(k)].ctime
              /\ files[path[SegmentOf(k)]].blocks[BlockOf(k)] = a.content[k]
<1>1. /\ Members = a.ids /\ a.content \in Seq(Nat) /\ Len(a.content) = B * Lead
      /\ DOMAIN a.content = 1 .. B * Lead
  <2>1. Members = a.ids
    BY CurrentNamesMembers
  <2>2. a.content \in Seq(Nat) /\ Len(a.content) = B * Len(a.ids)
    BY DEF SourceInv, Attestations
  <2>3. QED
    BY <2>1, <2>2, MembersAreKnown
<1>2. ASSUME NEW k \in DOMAIN a.content
      PROVE  /\ path[SegmentOf(k)] = a.ids[SegmentOf(k)].file
             /\ files[path[SegmentOf(k)]].ctime = a.ids[SegmentOf(k)].ctime
             /\ files[path[SegmentOf(k)]].blocks[BlockOf(k)] = a.content[k]
  <2>1. SegmentOf(k) \in DOMAIN Members
    BY <1>1, <1>2, SourcePlaces
  <2>2. Witness(files, a.ids[SegmentOf(k)], BlockOf(k), a.content[k])
    BY DEF SourceInv
  <2>3. QED
    BY <2>1, <2>2, <1>1, MembersAreKnown DEF Witness
<1>3. Medium = a.content
  <2>1. Medium = [k \in 1 .. B * Lead |-> a.content[k]]
    BY <1>1, <1>2 DEF Medium
  <2>2. a.content = [k \in 1 .. B * Lead |-> a.content[k]]
    BY <1>1
  <2>3. QED
    BY <2>1, <2>2
<1>4. QED
  BY <1>2, <1>3

\* Where a pass has read so far.
LEMMA PassPlaces ==
  ASSUME NEW fs, NEW names, NEW q, NEW p, PassInv(fs, names, q, p), NEW k \in DOMAIN p.got
  PROVE  /\ SegmentOf(k) \in DOMAIN p.opened /\ SegmentOf(k) \in DOMAIN p.before
         /\ BlockOf(k) \in 1 .. B /\ SegmentOf(k) \in Segments
         /\ p.opened[SegmentOf(k)].file \in DOMAIN fs
<1>1. /\ p.before \in Seq(Identities) /\ p.opened \in Seq(Identities) /\ p.got \in Seq(Nat)
      /\ Len(p.before) \in Nat /\ Len(p.opened) \in Nat /\ Len(p.got) \in Nat
      /\ Len(p.opened) <= Len(p.before) /\ Len(p.before) <= N /\ Len(p.got) <= B * Len(p.opened)
  BY DEF PassInv, Passes
<1>2. B * Len(p.opened) \in Nat
  BY <1>1, Counts
<1>3. k \in 1 .. B * Len(p.opened)
  BY <1>1, <1>2
<1>4. SegmentOf(k) \in 1 .. Len(p.opened) /\ BlockOf(k) \in 1 .. B
  BY <1>1, <1>3, BlockPlaces
<1>5. p.opened[SegmentOf(k)].file \in DOMAIN fs
  BY <1>1, <1>4 DEF PassInv
<1>6. QED
  BY <1>1, <1>4, <1>5, Counts DEF Segments

\* A pass that has read everything and finds every name where it began has read the files
\* it names.
LEMMA CompletePass ==
  ASSUME MediumInv, NEW c \in Consoles, PassInv(files, path, quiet, pass[c]),
         AllRead(c), SameSegments(c)
  PROVE  /\ SourceInv(files, quiet, Attested(c))
         /\ \A k \in DOMAIN pass[c].got :
              /\ path[SegmentOf(k)] # None
              /\ path[SegmentOf(k)] = pass[c].before[SegmentOf(k)].file
              /\ pass[c].got[k] <= files[path[SegmentOf(k)]].blocks[BlockOf(k)]
              /\ ~quiet => files[path[SegmentOf(k)]].blocks[BlockOf(k)] = pass[c].got[k]
<1> DEFINE p == pass[c]
<1>1. /\ p.before \in Seq(Identities) /\ p.got \in Seq(Nat)
      /\ Len(p.before) <= N /\ Len(p.got) = B * Len(p.before)
      /\ \A s \in DOMAIN p.before : Known(files, p.before[s])
  BY DEF PassInv, Passes, AllRead
<1>2. \A s \in DOMAIN p.before :
        path[s] # None /\ path[s] = p.before[s].file /\ files[path[s]].ctime = p.before[s].ctime
  <2>1. \A s \in DOMAIN p.before : path[s] # None /\ Identity(path[s]) = p.before[s]
    BY DEF SameSegments, Strong
  <2>2. \A f : Identity(f).file = f /\ Identity(f).ctime = files[f].ctime
    BY DEF Identity
  <2>3. QED
    BY <2>1, <2>2
<1>3. ASSUME NEW k \in DOMAIN p.got
      PROVE  /\ path[SegmentOf(k)] # None
             /\ path[SegmentOf(k)] = p.before[SegmentOf(k)].file
             /\ p.opened[SegmentOf(k)].file = path[SegmentOf(k)]
             /\ files[path[SegmentOf(k)]].ctime = p.before[SegmentOf(k)].ctime
             /\ p.got[k] <= files[path[SegmentOf(k)]].blocks[BlockOf(k)]
             /\ ~quiet => Witness(files, p.before[SegmentOf(k)], BlockOf(k), p.got[k])
  <2>1. SegmentOf(k) \in DOMAIN p.opened /\ SegmentOf(k) \in DOMAIN p.before
    BY <1>3, PassPlaces
  <2>2. p.opened[SegmentOf(k)].file = p.before[SegmentOf(k)].file
    BY <1>2, <2>1 DEF PassInv
  <2>3. /\ p.got[k] <= files[p.opened[SegmentOf(k)].file].blocks[BlockOf(k)]
        /\ ~quiet => Witness(files, p.before[SegmentOf(k)], BlockOf(k), p.got[k])
    BY <2>2 DEF PassInv
  <2>4. QED
    BY <1>2, <2>1, <2>2, <2>3
<1>4. SourceInv(files, quiet, Attested(c))
  <2>1. Attested(c) \in Attestations
    BY <1>1 DEF Attested, Attestations
  <2>2. Attested(c).ids = p.before /\ Attested(c).content = p.got
    BY DEF Attested
  <2>3. QED
    BY <1>1, <1>3, <2>1, <2>2 DEF SourceInv
<1>5. QED
  BY <1>3, <1>4 DEF Witness

-----------------------------------------------------------------------------
(* Steps of a pass. *)

\* What one console does leaves the others as they are.
OthersStay(c) ==
  /\ DOMAIN disk' = Consoles /\ DOMAIN pass' = Consoles
  /\ \A k \in Consoles \ {c} : disk'[k] = disk[k] /\ pass'[k] = pass[k]

LEMMA OneConsole ==
  ASSUME IInv, NEW c \in Consoles, UNCHANGED mediumVars,
         record' # None => SourceInv(files, quiet, record'),
         OthersStay(c), ConsoleInv(files, path, quiet, pass'[c], disk'[c])
  PROVE  IInv'
<1>1. files' = files /\ path' = path /\ quiet' = quiet /\ format' = format /\ changes' = changes
  BY DEF mediumVars
<1>2. MediumInv'
  BY <1>1 DEF IInv, MediumInv, FilesInv
<1>3. DOMAIN disk' = Consoles /\ DOMAIN pass' = Consoles
  BY DEF OthersStay
<1>4. ASSUME NEW k \in Consoles
      PROVE  ConsoleInv(files', path', quiet', pass'[k], disk'[k])
  <2>1. CASE k = c
    BY <2>1, <1>1
  <2>2. CASE k # c
    <3>1. disk'[k] = disk[k] /\ pass'[k] = pass[k]
      BY <2>2 DEF OthersStay
    <3>2. ConsoleInv(files, path, quiet, pass[k], disk[k])
      BY DEF IInv
    <3>3. QED
      BY <3>1, <3>2, <1>1
  <2>3. QED
    BY <2>1, <2>2
<1>5. QED
  BY <1>1, <1>2, <1>3, <1>4 DEF IInv

\* What is known of a console.
LEMMA OfConsole ==
  ASSUME IInv, NEW c \in Consoles
  PROVE  /\ MediumInv /\ quiet \in BOOLEAN
         /\ record # None => SourceInv(files, quiet, record)
         /\ DOMAIN disk = Consoles /\ DOMAIN pass = Consoles
         /\ pass[c] # None =>
              PassInv(files, path, quiet, pass[c]) /\ PurposeInv(path, pass[c], disk[c])
         /\ disk[c] # None => DiskInv(files, path, quiet, disk[c])
BY DEF IInv, ConsoleInv, MediumInv

LEMMA BeginPass ==
  ASSUME IInv, NEW c \in Consoles, NEW purpose \in Purposes, Begin(c, purpose)
  PROVE  /\ DOMAIN pass' = Consoles /\ \A k \in Consoles \ {c} : pass'[k] = pass[k]
         /\ pass'[c].purpose = purpose /\ pass'[c].before = Members /\ pass'[c].got = <<>>
         /\ PassInv(files, path, quiet, pass'[c])
<1>1. /\ pass'[c] = [purpose |-> purpose, before |-> Members, opened |-> <<>>, got |-> <<>>]
      /\ DOMAIN pass' = Consoles /\ \A k \in Consoles \ {c} : pass'[k] = pass[k]
  BY OfConsole DEF Begin
<1>2. /\ Members \in Seq(Identities) /\ Len(Members) <= N /\ Len(Members) \in Nat
      /\ \A s \in DOMAIN Members : Known(files, Members[s])
  BY OfConsole, MembersAreKnown
<1>3. <<>> \in Seq(Identities) /\ <<>> \in Seq(Nat) /\ Len(<<>>) = 0 /\ DOMAIN <<>> = {} /\ B * 0 = 0
  BY Counts
<1>4. pass'[c] \in Passes
  BY <1>1, <1>2, <1>3 DEF Passes
<1>5. PassInv(files, path, quiet, pass'[c])
  BY <1>1, <1>2, <1>3, <1>4 DEF PassInv
<1>6. QED
  BY <1>1, <1>5

LEMMA OpenSegmentStep ==
  ASSUME IInv, NEW c \in Consoles, OpenSegment(c)
  PROVE  IInv'
<1> DEFINE p == pass[c]
           s == Len(p.opened) + 1
           new == Append(p.opened, Identity(path[s]))
<1>1. /\ p # None /\ PassInv(files, path, quiet, p) /\ PurposeInv(path, p, disk[c]) /\ MediumInv
      /\ p \in Passes /\ p.opened \in Seq(Identities) /\ p.before \in Seq(Identities)
      /\ Len(p.opened) \in Nat /\ Len(p.before) \in Nat /\ Len(p.before) <= N
      /\ p.got \in Seq(Nat) /\ Len(p.got) \in Nat /\ Len(p.got) <= B * Len(p.opened)
  BY OfConsole DEF OpenSegment, Idle, PassInv, Passes
<1>2. /\ Len(p.opened) < Len(p.before) /\ path[s] # None
      /\ pass' = [pass EXCEPT ![c].opened = new] /\ disk' = disk /\ record' = record
  BY DEF OpenSegment, MayOpenNext, Opens
<1>3. s \in Segments /\ path[s] \in DOMAIN files
  <2>1. s \in Segments
    BY <1>1, <1>2, Counts, SMTT(60) DEF Segments
  <2>2. QED
    BY <2>1, <1>1, <1>2 DEF MediumInv
<1>4. Identity(path[s]) \in Identities /\ Identity(path[s]).file = path[s]
  <2>1. files[path[s]] \in File /\ path[s] \in Nat \ {0}
    BY <1>1, <1>3 DEF MediumInv, FilesInv
  <2>2. QED
    BY <2>1 DEF File, Identity, Identities
<1>5. /\ new \in Seq(Identities) /\ Len(new) = Len(p.opened) + 1 /\ new[s].file = path[s]
      /\ \A t \in DOMAIN p.opened : new[t] = p.opened[t]
      /\ DOMAIN new = 1 .. s /\ DOMAIN p.opened = 1 .. Len(p.opened)
  BY <1>1, <1>4
<1>6. /\ pass'[c] = [p EXCEPT !.opened = new]
      /\ pass'[c] \in Passes /\ pass'[c].opened = new /\ pass'[c].before = p.before
      /\ pass'[c].got = p.got /\ pass'[c].purpose = p.purpose
  BY <1>1, <1>2, <1>5, OfConsole DEF Passes
<1> HIDE DEF new
<1>7. Len(p.got) <= B * Len(new)
  <2>1. B * Len(p.opened) <= B * Len(new) /\ B * Len(p.opened) \in Nat /\ B * Len(new) \in Nat
    BY <1>1, <1>5, Counts, ProductGrows
  <2>2. QED
    BY <1>1, <2>1
<1>8. ASSUME NEW t \in DOMAIN new
      PROVE  /\ new[t].file \in DOMAIN files
             /\ path[t] = p.before[t].file => new[t].file = p.before[t].file
  <2>1. CASE t = s
    BY <2>1, <1>3, <1>5
  <2>2. CASE t # s
    <3>1. t \in DOMAIN p.opened
      BY <1>1, <1>5, <2>2
    <3>2. QED
      BY <3>1, <1>1, <1>5 DEF PassInv
  <2>3. QED
    BY <2>1, <2>2
<1>9. \A k \in DOMAIN p.got : new[SegmentOf(k)] = p.opened[SegmentOf(k)]
  BY <1>1, <1>5, PassPlaces
<1>10. PassInv(files, path, quiet, pass'[c])
  <2>1. /\ pass'[c] \in Passes /\ Len(new) <= Len(p.before) /\ Len(p.before) <= N
        /\ \A t \in DOMAIN p.before : Known(files, p.before[t])
    BY <1>1, <1>2, <1>5, <1>6 DEF PassInv
  <2>2. \A k \in DOMAIN p.got :
          /\ p.got[k] <= files[new[SegmentOf(k)].file].blocks[BlockOf(k)]
          /\ (~quiet /\ new[SegmentOf(k)].file = p.before[SegmentOf(k)].file)
               => Witness(files, p.before[SegmentOf(k)], BlockOf(k), p.got[k])
    BY <1>1, <1>9 DEF PassInv
  <2>3. QED
    BY <1>6, <1>7, <1>8, <2>1, <2>2 DEF PassInv
<1>11. PurposeInv(path, pass'[c], disk'[c]) /\ OthersStay(c)
  <2>1. OthersStay(c)
    BY <1>2, OfConsole DEF OthersStay
  <2>2. PurposeInv(path, pass'[c], disk[c])
    BY <1>1, <1>6 DEF PurposeInv
  <2>3. QED
    BY <1>2, <2>1, <2>2
<1>12. ConsoleInv(files, path, quiet, pass'[c], disk'[c])
  BY <1>2, <1>10, <1>11, OfConsole DEF ConsoleInv
<1>13. UNCHANGED mediumVars /\ (record' # None => SourceInv(files, quiet, record'))
  BY <1>2, OfConsole DEF OpenSegment
<1>14. QED
  BY <1>11, <1>12, <1>13, OneConsole

LEMMA ReadBlockStep ==
  ASSUME IInv, NEW c \in Consoles, ReadBlock(c)
  PROVE  IInv'
<1> DEFINE p == pass[c]
           k == Len(p.got) + 1
           v == files[p.opened[SegmentOf(k)].file].blocks[BlockOf(k)]
           new == Append(p.got, v)
<1>1. /\ p # None /\ PassInv(files, path, quiet, p) /\ PurposeInv(path, p, disk[c]) /\ MediumInv
      /\ p \in Passes /\ p.opened \in Seq(Identities) /\ p.before \in Seq(Identities)
      /\ Len(p.opened) \in Nat /\ Len(p.before) \in Nat /\ Len(p.opened) <= Len(p.before)
      /\ p.got \in Seq(Nat) /\ Len(p.got) \in Nat /\ Len(p.got) <= B * Len(p.opened)
      /\ B * Len(p.opened) \in Nat
  <2>1. p # None /\ PassInv(files, path, quiet, p) /\ PurposeInv(path, p, disk[c]) /\ MediumInv
    BY OfConsole DEF ReadBlock, Idle
  <2>2. /\ p \in Passes /\ p.opened \in Seq(Identities) /\ p.before \in Seq(Identities)
        /\ Len(p.opened) \in Nat /\ Len(p.before) \in Nat /\ Len(p.opened) <= Len(p.before)
        /\ p.got \in Seq(Nat) /\ Len(p.got) \in Nat /\ Len(p.got) <= B * Len(p.opened)
    BY <2>1 DEF PassInv, Passes
  <2>3. QED
    BY <2>1, <2>2, Counts
<1>2. /\ pass' = [pass EXCEPT ![c].got = new] /\ disk' = disk /\ record' = record
      /\ Len(p.got) # B * Len(p.opened)
  BY DEF ReadBlock, SegmentRead
<1>3. k \in 1 .. B * Len(p.opened)
  BY <1>1, <1>2, SMTT(60)
<1>4. SegmentOf(k) \in 1 .. Len(p.opened) /\ BlockOf(k) \in 1 .. B
  BY <1>1, <1>3, BlockPlaces
<1>5. p.opened[SegmentOf(k)].file \in DOMAIN files
  BY <1>1, <1>4, SMTT(60) DEF PassInv
<1>6. v \in Nat
  <2>1. files[p.opened[SegmentOf(k)].file] \in File
    BY <1>1, <1>5, SMTT(60) DEF MediumInv, FilesInv
  <2>2. QED
    BY <2>1, <1>4 DEF File
<1>9. v = files[p.opened[SegmentOf(k)].file].blocks[BlockOf(k)] /\ k = Len(p.got) + 1
  OBVIOUS
<1> HIDE DEF v, k
<1>7. /\ new \in Seq(Nat) /\ Len(new) = k /\ new[k] = v
      /\ \A i \in DOMAIN p.got : new[i] = p.got[i]
      /\ \A i \in DOMAIN new : i = k \/ i \in DOMAIN p.got
  <2>1. p.got \in Seq(Nat) /\ v \in Nat
    BY <1>1, <1>6
  <2> HIDE DEF p
  <2>2. /\ Append(p.got, v) \in Seq(Nat) /\ Len(Append(p.got, v)) = Len(p.got) + 1
        /\ Append(p.got, v)[Len(p.got) + 1] = v
        /\ \A i \in DOMAIN p.got : Append(p.got, v)[i] = p.got[i]
        /\ \A i \in DOMAIN Append(p.got, v) : i = Len(p.got) + 1 \/ i \in DOMAIN p.got
    BY <2>1, Appended
  <2>3. QED
    BY <2>2, <1>9
<1>8. /\ pass'[c] = [p EXCEPT !.got = new]
      /\ pass'[c] \in Passes /\ pass'[c].opened = p.opened /\ pass'[c].before = p.before
      /\ pass'[c].got = new /\ pass'[c].purpose = p.purpose
  BY <1>1, <1>2, <1>7, OfConsole DEF Passes
<1> HIDE DEF new
<1>11. ASSUME NEW i \in DOMAIN new
       PROVE  /\ new[i] <= files[p.opened[SegmentOf(i)].file].blocks[BlockOf(i)]
              /\ (~quiet /\ p.opened[SegmentOf(i)].file = p.before[SegmentOf(i)].file)
                   => Witness(files, p.before[SegmentOf(i)], BlockOf(i), new[i])
  <2>1. CASE i = k
    <3>1. new[i] = v /\ v = files[p.opened[SegmentOf(i)].file].blocks[BlockOf(i)]
      BY <2>1, <1>7, <1>9
    <3>2. QED
      BY <3>1, <1>6 DEF Witness
  <2>2. CASE i \in DOMAIN p.got
    <3>1. new[i] = p.got[i]
      BY <2>2, <1>7
    <3>2. QED
      BY <2>2, <3>1, <1>1 DEF PassInv
  <2>3. QED
    BY <1>7, <1>11, <2>1, <2>2
<1>12. PassInv(files, path, quiet, pass'[c])
  <2>1. /\ Len(new) <= B * Len(p.opened) /\ Len(p.before) <= N
        /\ \A t \in DOMAIN p.before : Known(files, p.before[t])
        /\ \A t \in DOMAIN p.opened :
             /\ p.opened[t].file \in DOMAIN files
             /\ path[t] = p.before[t].file => p.opened[t].file = p.before[t].file
    BY <1>1, <1>3, <1>7 DEF PassInv
  <2>2. QED
    BY <1>1, <1>8, <1>11, <2>1 DEF PassInv
<1>13. PurposeInv(path, pass'[c], disk'[c])
  <2>1. ASSUME p.purpose = "completion", NEW r \in disk[c].seen, r[1] \in DOMAIN new,
               path[SegmentOf(r[1])] = p.before[SegmentOf(r[1])].file
        PROVE  r[2] <= new[r[1]]
    <3>1. CASE r[1] = k
      <4>1. disk[c] # None /\ disk[c].stage = "running" /\ p.before = disk[c].source.ids
        BY <1>1, <2>1 DEF PurposeInv
      <4>2. RunningInv(files, path, disk[c])
        BY <4>1, OfConsole, SMTT(60) DEF DiskInv
      <4>3. r[2] <= files[p.before[SegmentOf(k)].file].blocks[BlockOf(k)]
        BY <4>1, <4>2, <2>1, <3>1 DEF RunningInv
      <4>4. p.opened[SegmentOf(k)].file = p.before[SegmentOf(k)].file
        BY <1>1, <1>4, <2>1, <3>1 DEF PassInv
      <4>5. QED
        BY <4>3, <4>4, <3>1, <1>7, <1>9
    <3>2. CASE r[1] \in DOMAIN p.got
      BY <3>2, <2>1, <1>1, <1>7 DEF PurposeInv
    <3>3. QED
      BY <1>7, <2>1, <3>1, <3>2
  <2>2. QED
    BY <1>1, <1>2, <1>8, <2>1, SMTT(60) DEF PurposeInv
<1>14. OthersStay(c)
  BY <1>2, OfConsole DEF OthersStay
<1>15. ConsoleInv(files, path, quiet, pass'[c], disk'[c])
  BY <1>2, <1>12, <1>13, OfConsole DEF ConsoleInv
<1>16. UNCHANGED mediumVars /\ (record' # None => SourceInv(files, quiet, record'))
  BY <1>2, OfConsole DEF ReadBlock
<1>17. QED
  BY <1>14, <1>15, <1>16, OneConsole

-----------------------------------------------------------------------------
(* Steps of an open image. *)

\* An image that begins with nothing read.
LEMMA OpenedDisk ==
  ASSUME NEW stage \in {"attested", "held"}, NEW a, SourceInv(files, quiet, a)
  PROVE  /\ DiskInv(files, path, quiet, Opened(stage, a)) /\ Opened(stage, a) # None
<1>1. /\ Opened(stage, a).seen = {} /\ Opened(stage, a).stage = stage
      /\ Opened(stage, a).verdict = "none" /\ Opened(stage, a).source = a
  BY DEF Opened
<1>2. Opened(stage, a) \in Disks
  BY DEF Opened, Disks, Stages, Verdicts, SourceInv
<1>3. QED
  BY <1>1, <1>2, Counts DEF DiskInv

\* Back to an image of which nothing has been used.
LEMMA RevokedDisk ==
  ASSUME NEW d, DiskInv(files, path, quiet, d),
         NEW e, e = [d EXCEPT !.stage = "ready", !.verdict = "none", !.seen = {}]
  PROVE  DiskInv(files, path, quiet, e) /\ e # None
<1>1. d \in Disks /\ SourceInv(files, quiet, d.source)
  BY DEF DiskInv
<1>2. /\ e \in Disks /\ e.stage = "ready" /\ e.verdict = "none" /\ e.seen = {}
      /\ e.source = d.source
  BY <1>1 DEF Disks, Stages, Verdicts
<1>3. QED
  BY <1>1, <1>2, Counts DEF DiskInv, AsAttested

LEMMA PurposeOfIdle ==
  ASSUME IInv, NEW c \in Consoles, disk[c] # None
  PROVE  /\ disk[c].stage \notin {"ready", "running"} => Idle(c)
         /\ disk[c] \in Disks /\ DiskInv(files, path, quiet, disk[c])
         /\ disk[c].source \in Attestations /\ SourceInv(files, quiet, disk[c].source)
<1>1. /\ DiskInv(files, path, quiet, disk[c])
      /\ disk[c] \in Disks /\ SourceInv(files, quiet, disk[c].source)
      /\ disk[c].source \in Attestations
  BY OfConsole DEF DiskInv, SourceInv
<1>2. ASSUME pass[c] # None, disk[c].stage \notin {"ready", "running"} PROVE FALSE
  <2>1. PurposeInv(path, pass[c], disk[c]) /\ pass[c].purpose \in Purposes
    BY <1>2, OfConsole DEF PassInv, Passes
  <2>2. QED
    BY <1>2, <2>1 DEF PurposeInv, Purposes
<1>3. QED
  BY <1>1, <1>2 DEF Idle

LEMMA ReuseStep ==
  ASSUME IInv, NEW c \in Consoles, Reuse(c)
  PROVE  IInv'
<1>1. /\ disk'[c] = Opened("held", record) /\ pass' = pass /\ pass[c] = None /\ record' = record
      /\ UNCHANGED mediumVars /\ record # None /\ OthersStay(c)
  BY OfConsole DEF Reuse, Idle, OthersStay
<1>2. ConsoleInv(files, path, quiet, pass'[c], disk'[c])
  BY <1>1, OfConsole, OpenedDisk DEF ConsoleInv
<1>3. QED
  BY <1>1, <1>2, OfConsole, OneConsole

LEMMA StreamForOpenStep ==
  ASSUME IInv, NEW c \in Consoles, StreamForOpen(c)
  PROVE  IInv'
<1>1. /\ disk' = disk /\ disk[c] = None /\ record' = record /\ UNCHANGED mediumVars
      /\ pass'[c].purpose = "open" /\ PassInv(files, path, quiet, pass'[c]) /\ OthersStay(c)
  BY OfConsole, BeginPass DEF StreamForOpen, Purposes, OthersStay
<1>2. PurposeInv(path, pass'[c], disk'[c])
  BY <1>1 DEF PurposeInv
<1>3. ConsoleInv(files, path, quiet, pass'[c], disk'[c])
  BY <1>1, <1>2 DEF ConsoleInv
<1>4. QED
  BY <1>1, <1>3, OfConsole, OneConsole

LEMMA FinishOpenStep ==
  ASSUME IInv, NEW c \in Consoles, FinishOpen(c)
  PROVE  IInv'
<1>1. /\ disk'[c] = Opened("attested", Attested(c)) /\ pass'[c] = None /\ record' = record
      /\ UNCHANGED mediumVars /\ OthersStay(c)
      /\ pass[c] # None /\ AllRead(c) /\ SameSegments(c)
  BY OfConsole DEF FinishOpen, Finish, Idle, Looks, Stable, OthersStay
<1>2. SourceInv(files, quiet, Attested(c))
  BY <1>1, OfConsole, CompletePass
<1>3. ConsoleInv(files, path, quiet, pass'[c], disk'[c])
  BY <1>1, <1>2, OpenedDisk DEF ConsoleInv
<1>4. QED
  BY <1>1, <1>3, OfConsole, OneConsole

LEMMA StoreStep ==
  ASSUME IInv, NEW c \in Consoles, Store(c)
  PROVE  IInv'
<1> DEFINE d == disk[c]
<1>1. /\ d # None /\ d.stage = "attested" /\ pass' = pass /\ UNCHANGED mediumVars
      /\ disk'[c] = [d EXCEPT !.stage = "held"] /\ OthersStay(c) /\ record' \in {record, d.source}
  BY OfConsole DEF Store, OthersStay
<1>2. d \in Disks /\ DiskInv(files, path, quiet, d) /\ SourceInv(files, quiet, d.source)
      /\ pass[c] = None
  BY <1>1, PurposeOfIdle DEF Idle
<1>3. /\ disk'[c] \in Disks /\ disk'[c].stage = "held" /\ disk'[c].seen = d.seen
      /\ disk'[c].source = d.source /\ disk'[c].verdict = d.verdict
  BY <1>1, <1>2 DEF Disks, Stages
<1>4. DiskInv(files, path, quiet, disk'[c])
  BY <1>1, <1>2, <1>3 DEF DiskInv, AsAttested
<1>5. ConsoleInv(files, path, quiet, pass'[c], disk'[c])
  BY <1>1, <1>2, <1>4 DEF ConsoleInv
<1>6. record' # None => SourceInv(files, quiet, record')
  BY <1>1, <1>2, OfConsole
<1>7. QED
  BY <1>1, <1>5, <1>6, OneConsole

\* A block is read, of a file there is.
LEMMA WatchedDisk ==
  ASSUME IInv, NEW c \in Consoles, disk[c] # None, NEW k \in Blocks(c), NEW file,
         file \in DOMAIN files \cup {None}, Watch(c, k, file)
  PROVE  /\ file \in DOMAIN files /\ (pass' = pass => OthersStay(c))
         /\ disk'[c].source = disk[c].source /\ disk'[c].verdict = disk[c].verdict
         /\ disk'[c].stage = IF disk[c].stage = "held" THEN "scanned" ELSE disk[c].stage
         /\ disk'[c].seen = {<<k, files[file].blocks[BlockOf(k)]>>}
         /\ disk'[c] \in Disks /\ files[file].blocks[BlockOf(k)] \in Nat
<1> DEFINE d == disk[c]
           v == files[file].blocks[BlockOf(k)]
<1>1. /\ d \in Disks /\ SourceInv(files, quiet, d.source) /\ k \in DOMAIN d.source.content
      /\ file \in DOMAIN files
  BY PurposeOfIdle DEF Blocks, Watch
<1>2. k \in Nat /\ BlockOf(k) \in 1 .. B
  BY <1>1, SourcePlaces
<1>3. v \in Nat
  <2>1. files[file] \in File
    BY <1>1, OfConsole DEF MediumInv, FilesInv
  <2>2. QED
    BY <2>1, <1>2 DEF File
<1>4. disk'[c] = [d EXCEPT !.seen = {<<k, v>>}, !.stage = IF @ = "held" THEN "scanned" ELSE @]
  BY OfConsole DEF Watch
<1> HIDE DEF v
<1>5. {<<k, v>>} \in SUBSET (Nat \X Nat)
  BY <1>2, <1>3
<1>6. QED
  BY <1>1, <1>3, <1>4, <1>5, OfConsole DEF Disks, Stages, OthersStay, Watch, v

LEMMA ScanStep ==
  ASSUME IInv, NEW c \in Consoles, Scan(c)
  PROVE  IInv'
<1> DEFINE d == disk[c]
           e == disk'[c]
<1>1. /\ d # None /\ d.stage = "held" /\ pass' = pass /\ record' = record /\ UNCHANGED mediumVars
      /\ pass[c] = None /\ DiskInv(files, path, quiet, d) /\ SourceInv(files, quiet, d.source)
  BY PurposeOfIdle DEF Scan, Idle
<1>2. PICK k \in Blocks(c) : Watch(c, k, path[SegmentOf(k)])
  BY DEF Scan
<1>3. k \in DOMAIN d.source.content /\ SegmentOf(k) \in Segments
  BY <1>1, SourcePlaces DEF Blocks
<1>4. path[SegmentOf(k)] \in DOMAIN files \cup {None}
  BY <1>3, OfConsole DEF MediumInv
<1>5. /\ OthersStay(c) /\ e.source = d.source /\ e.verdict = d.verdict /\ e.stage = "scanned"
      /\ e.seen = {<<k, files[path[SegmentOf(k)]].blocks[BlockOf(k)]>>} /\ e \in Disks
  BY <1>1, <1>2, <1>4, WatchedDisk
<1> HIDE DEF d, e
<1>6. ScannedInv(files, path, e)
  BY <1>5 DEF ScannedInv, Witness
<1>7. DiskInv(files, path, quiet, e)
  BY <1>1, <1>3, <1>5, <1>6 DEF DiskInv
<1>8. ConsoleInv(files, path, quiet, pass'[c], disk'[c])
  BY <1>1, <1>7 DEF ConsoleInv, e
<1>9. QED
  BY <1>1, <1>5, <1>8, OfConsole, OneConsole

LEMMA RecheckStep ==
  ASSUME IInv, NEW c \in Consoles, Recheck(c)
  PROVE  IInv'
<1> DEFINE d == disk[c]
           e == disk'[c]
<1>1. /\ d # None /\ d.stage = "scanned" /\ pass' = pass /\ record' = record /\ UNCHANGED mediumVars
      /\ pass[c] = None /\ DiskInv(files, path, quiet, d) /\ SourceInv(files, quiet, d.source)
      /\ d \in Disks
  BY PurposeOfIdle DEF Recheck, Idle
<1>2. /\ OthersStay(c)
      /\ e = IF StillCurrent(d.source) THEN [d EXCEPT !.stage = "ready"] ELSE None
  BY <1>1, OfConsole DEF Recheck, OthersStay
<1> HIDE DEF e
<1>3. ASSUME e # None PROVE DiskInv(files, path, quiet, e)
  <2>1. /\ e \in Disks /\ e.stage = "ready" /\ e.source = d.source /\ e.seen = d.seen
        /\ e.verdict = d.verdict /\ Current(d.source)
    BY <1>1, <1>2, <1>3 DEF StillCurrent, Disks, Stages
  <2>2. ASSUME ~quiet, NEW r \in d.seen PROVE r[2] = d.source.content[r[1]]
    <3>1. r[1] \in DOMAIN d.source.content /\ ScannedInv(files, path, d)
      BY <1>1, <2>2 DEF DiskInv
    <3>2. /\ path[SegmentOf(r[1])] = d.source.ids[SegmentOf(r[1])].file
          /\ files[path[SegmentOf(r[1])]].ctime = d.source.ids[SegmentOf(r[1])].ctime
          /\ files[path[SegmentOf(r[1])]].blocks[BlockOf(r[1])] = d.source.content[r[1]]
      BY <1>1, <2>1, <2>2, <3>1, OfConsole, CurrentHasContent, SMTT(60)
    <3>3. Witness(files, d.source.ids[SegmentOf(r[1])], BlockOf(r[1]), r[2])
      BY <2>2, <3>1, <3>2 DEF ScannedInv
    <3>4. QED
      BY <3>2, <3>3 DEF Witness
  <2>3. QED
    BY <1>1, <2>1, <2>2 DEF DiskInv, AsAttested
<1>4. ConsoleInv(files, path, quiet, pass'[c], disk'[c])
  BY <1>1, <1>3 DEF ConsoleInv, e
<1>5. QED
  BY <1>1, <1>2, <1>4, OfConsole, OneConsole

-----------------------------------------------------------------------------
(* Steps of what is done with it. *)

\* An image at rest gives up what was found of it.
LEMMA RestedDisk ==
  ASSUME NEW d, DiskInv(files, path, quiet, d), d.stage = "ready",
         NEW seen \in {d.seen, {}}, NEW e, e = [d EXCEPT !.verdict = "none", !.seen = seen]
  PROVE  /\ DiskInv(files, path, quiet, e) /\ e # None
         /\ e.stage = "ready" /\ e.verdict = "none" /\ e.seen = seen /\ e.source = d.source
<1>1. d \in Disks /\ SourceInv(files, quiet, d.source)
  BY DEF DiskInv
<1>2. /\ e \in Disks /\ e.stage = "ready" /\ e.verdict = "none" /\ e.seen = seen
      /\ e.source = d.source
  BY <1>1 DEF Disks, Verdicts
<1>3. QED
  BY <1>1, <1>2, Counts DEF DiskInv, AsAttested

LEMMA VerifyStep ==
  ASSUME IInv, NEW c \in Consoles, Verify(c)
  PROVE  IInv'
<1> DEFINE d == disk[c]
           e == disk'[c]
<1>1. /\ d # None /\ d.stage = "ready" /\ record' = record /\ UNCHANGED mediumVars
      /\ DiskInv(files, path, quiet, d) /\ d \in Disks
  BY PurposeOfIdle DEF Verify, Ready
<1>2. /\ pass'[c].purpose = "verify" /\ PassInv(files, path, quiet, pass'[c]) /\ OthersStay(c)
      /\ e = [d EXCEPT !.verdict = "none"]
  BY OfConsole, BeginPass DEF Verify, Purposes, OthersStay
<1>3. e = [d EXCEPT !.verdict = "none", !.seen = d.seen]
  BY <1>1, <1>2 DEF Disks
<1> HIDE DEF d, e
<1>4. DiskInv(files, path, quiet, e) /\ e # None /\ e.stage = "ready" /\ e.verdict = "none"
  BY <1>1, <1>3, RestedDisk
<1>5. PurposeInv(path, pass'[c], e)
  BY <1>2, <1>4 DEF PurposeInv
<1>6. ConsoleInv(files, path, quiet, pass'[c], disk'[c])
  BY <1>2, <1>4, <1>5 DEF ConsoleInv, e
<1>7. QED
  BY <1>1, <1>2, <1>6, OfConsole, OneConsole

LEMMA FinishVerifyStep ==
  ASSUME IInv, NEW c \in Consoles, FinishVerify(c)
  PROVE  IInv'
<1> DEFINE d == disk[c]
           e == disk'[c]
<1>1. /\ pass'[c] = None /\ record' = record /\ UNCHANGED mediumVars /\ OthersStay(c)
      /\ pass[c] # None /\ pass[c].purpose = "verify"
      /\ e = [d EXCEPT !.verdict = IF pass[c].got = d.source.content THEN "matches" ELSE "none"]
  BY OfConsole DEF FinishVerify, Finish, Idle, OthersStay
<1>2. d # None /\ d.stage = "ready" /\ DiskInv(files, path, quiet, d) /\ d \in Disks
  BY <1>1, OfConsole, PurposeOfIdle DEF PurposeInv
<1>3. /\ e \in Disks /\ e.stage = "ready" /\ e.seen = d.seen /\ e.source = d.source
      /\ e.verdict \in {"matches", "none"}
  BY <1>1, <1>2 DEF Disks, Verdicts
<1> HIDE DEF d, e
<1>4. DiskInv(files, path, quiet, e)
  BY <1>2, <1>3 DEF DiskInv, AsAttested
<1>5. ConsoleInv(files, path, quiet, pass'[c], disk'[c])
  BY <1>1, <1>4 DEF ConsoleInv, e
<1>6. QED
  BY <1>1, <1>5, OfConsole, OneConsole

LEMMA StartRunStep ==
  ASSUME IInv, NEW c \in Consoles, StartRun(c)
  PROVE  IInv'
<1> DEFINE d == disk[c]
           e == disk'[c]
<1>1. /\ d # None /\ d.stage = "ready" /\ record' = record /\ UNCHANGED mediumVars
      /\ DiskInv(files, path, quiet, d) /\ d \in Disks /\ SourceInv(files, quiet, d.source)
  BY PurposeOfIdle DEF StartRun, Ready, Guarding
<1>2. Begin(c, "start") /\ Current(d.source) /\ "start" \in Purposes
  BY DEF StartRun, Guarding, Purposes
<1>3. /\ pass'[c].purpose = "start" /\ pass'[c].before = Members
      /\ PassInv(files, path, quiet, pass'[c]) /\ OthersStay(c)
      /\ e = [d EXCEPT !.verdict = "none", !.seen = {}]
  BY <1>2, OfConsole, BeginPass DEF StartRun, OthersStay
<1>4. Members = d.source.ids
  BY <1>1, <1>2, OfConsole, CurrentNamesMembers, SMTT(60)
<1> HIDE DEF d, e
<1>5. /\ DiskInv(files, path, quiet, e) /\ e # None /\ e.stage = "ready" /\ e.verdict = "none"
      /\ e.seen = {} /\ e.source = d.source
  BY <1>1, <1>3, RestedDisk
<1>6. PurposeInv(path, pass'[c], e)
  BY <1>3, <1>4, <1>5 DEF PurposeInv
<1>7. ConsoleInv(files, path, quiet, pass'[c], disk'[c])
  BY <1>3, <1>5, <1>6 DEF ConsoleInv, e
<1>8. QED
  BY <1>1, <1>3, <1>7, OfConsole, OneConsole

\* What a tool reads is read after the attested version, and before later ones.
LEMMA ToolReadsStep ==
  ASSUME IInv, NEW c \in Consoles, ToolReads(c)
  PROVE  IInv'
<1> DEFINE d == disk[c]
           e == disk'[c]
<1>1. /\ d # None /\ d.stage = "running" /\ pass' = pass /\ record' = record /\ UNCHANGED mediumVars
      /\ pass[c] = None /\ DiskInv(files, path, quiet, d) /\ SourceInv(files, quiet, d.source)
      /\ RunningInv(files, path, d) /\ d.verdict = "none"
  BY PurposeOfIdle DEF ToolReads, Idle, DiskInv
<1>2. PICK k \in Blocks(c) :
        \E file \in {path[SegmentOf(k)], d.source.ids[SegmentOf(k)].file} : Watch(c, k, file)
  BY DEF ToolReads
<1>3. PICK file \in {path[SegmentOf(k)], d.source.ids[SegmentOf(k)].file} : Watch(c, k, file)
  BY <1>2
<1>4. /\ k \in DOMAIN d.source.content /\ SegmentOf(k) \in Segments
      /\ d.source.ids[SegmentOf(k)].file \in DOMAIN files /\ d.source.content[k] \in Nat
  BY <1>1, SourcePlaces DEF Blocks
<1>5. file \in DOMAIN files \cup {None}
  BY <1>3, <1>4, OfConsole DEF MediumInv
<1> DEFINE v == files[file].blocks[BlockOf(k)]
<1>6. /\ OthersStay(c) /\ e.source = d.source /\ e.verdict = "none" /\ e.stage = "running"
      /\ e.seen = {<<k, v>>} /\ e \in Disks /\ v \in Nat
  BY <1>1, <1>3, <1>5, WatchedDisk
<1>7. path[SegmentOf(k)] = d.source.ids[SegmentOf(k)].file
        => file = d.source.ids[SegmentOf(k)].file
  BY <1>3
<1>8. v = files[file].blocks[BlockOf(k)]
  OBVIOUS
<1> HIDE DEF d, e, v
<1>9. RunningInv(files, path, e)
  <2>1. \A i \in DOMAIN e.source.content :
          e.source.content[i] <= files[e.source.ids[SegmentOf(i)].file].blocks[BlockOf(i)]
    BY <1>1, <1>6 DEF RunningInv
  <2>2. ASSUME path[SegmentOf(k)] = d.source.ids[SegmentOf(k)].file
        PROVE  /\ d.source.content[k] <= v
               /\ v <= files[d.source.ids[SegmentOf(k)].file].blocks[BlockOf(k)]
    BY <1>4, <1>6, <1>7, <1>8, <2>1, <2>2
  <2>3. QED
    BY <1>6, <2>1, <2>2 DEF RunningInv
<1>10. DiskInv(files, path, quiet, e)
  BY <1>1, <1>4, <1>6, <1>9 DEF DiskInv
<1>11. ConsoleInv(files, path, quiet, pass'[c], disk'[c])
  BY <1>1, <1>10 DEF ConsoleInv, e
<1>12. QED
  BY <1>1, <1>6, <1>11, OfConsole, OneConsole

LEMMA EndRunStep ==
  ASSUME IInv, NEW c \in Consoles, EndRun(c)
  PROVE  IInv'
<1> DEFINE d == disk[c]
<1>1. /\ d # None /\ d.stage = "running" /\ record' = record /\ UNCHANGED mediumVars
      /\ disk' = disk /\ DiskInv(files, path, quiet, d) /\ SourceInv(files, quiet, d.source)
  BY PurposeOfIdle DEF EndRun, Guarding
<1>2. Begin(c, "completion") /\ Current(d.source) /\ "completion" \in Purposes
  BY DEF EndRun, Guarding, Purposes
<1>3. /\ pass'[c].purpose = "completion" /\ pass'[c].before = Members /\ pass'[c].got = <<>>
      /\ PassInv(files, path, quiet, pass'[c]) /\ OthersStay(c)
  BY <1>1, <1>2, OfConsole, BeginPass DEF OthersStay
<1>4. Members = d.source.ids
  BY <1>1, <1>2, OfConsole, CurrentNamesMembers
<1>5. DOMAIN <<>> = {}
  OBVIOUS
<1>6. PurposeInv(path, pass'[c], disk'[c])
  BY <1>1, <1>3, <1>4, <1>5 DEF PurposeInv
<1>7. ConsoleInv(files, path, quiet, pass'[c], disk'[c])
  BY <1>1, <1>3, <1>6 DEF ConsoleInv
<1>8. QED
  BY <1>1, <1>3, <1>7, OfConsole, OneConsole

\* At its end, a run has read what its first and its last pass have: the versions in
\* between are the same.
LEMMA FinishGuardedStep ==
  ASSUME IInv, NEW c \in Consoles, FinishGuarded(c)
  PROVE  IInv'
<1> DEFINE d == disk[c]
           e == disk'[c]
           p == pass[c]
<1>1. /\ p # None /\ p.purpose \in {"start", "completion"} /\ p.got = d.source.content
      /\ pass'[c] = None /\ record' = record /\ UNCHANGED mediumVars /\ OthersStay(c)
      /\ AllRead(c) /\ SameSegments(c)
      /\ e = [d EXCEPT !.stage = IF @ = "ready" THEN "running" ELSE "ready",
                       !.verdict = IF d.stage = "running" THEN "accepted" ELSE @]
  BY OfConsole DEF FinishGuarded, Finish, Idle, Looks, Stable, SameContent, OthersStay
<1>2. PassInv(files, path, quiet, p) /\ PurposeInv(path, p, d) /\ d # None
  BY <1>1, OfConsole DEF PurposeInv
<1>3. /\ DiskInv(files, path, quiet, d) /\ d \in Disks /\ SourceInv(files, quiet, d.source)
      /\ p.before = d.source.ids
  BY <1>1, <1>2, PurposeOfIdle DEF PurposeInv
<1>4. \A k \in DOMAIN d.source.content :
        /\ path[SegmentOf(k)] = d.source.ids[SegmentOf(k)].file
        /\ d.source.content[k] \in Nat
        /\ d.source.content[k] <= files[path[SegmentOf(k)]].blocks[BlockOf(k)]
  BY <1>1, <1>2, <1>3, OfConsole, CompletePass, SourcePlaces
<1> HIDE DEF d, e, p
<1>5. CASE p.purpose = "start"
  <2>1. d.stage = "ready" /\ d.verdict = "none" /\ d.seen = {}
    BY <1>2, <1>5 DEF PurposeInv
  <2>2. /\ e \in Disks /\ e.stage = "running" /\ e.verdict = "none" /\ e.seen = {}
        /\ e.source = d.source
    BY <1>1, <1>3, <2>1 DEF Disks, Stages
  <2>3. RunningInv(files, path, e)
    BY <1>4, <2>2 DEF RunningInv
  <2>4. QED
    <3>1. DiskInv(files, path, quiet, e)
      BY <1>3, <2>2, <2>3 DEF DiskInv
    <3>2. ConsoleInv(files, path, quiet, pass'[c], disk'[c])
      BY <1>1, <3>1 DEF ConsoleInv, e
    <3>3. QED
      BY <1>1, <3>2, OfConsole, OneConsole
<1>6. CASE p.purpose = "completion"
  <2>1. d.stage = "running"
    BY <1>2, <1>6 DEF PurposeInv
  <2>2. /\ e \in Disks /\ e.stage = "ready" /\ e.verdict = "accepted" /\ e.seen = d.seen
        /\ e.source = d.source
    BY <1>1, <1>3, <2>1 DEF Disks, Stages, Verdicts
  <2>3. ASSUME NEW r \in d.seen PROVE r[2] = d.source.content[r[1]]
    <3>1. r[1] \in DOMAIN d.source.content /\ RunningInv(files, path, d) /\ r[2] \in Nat
      BY <1>3, <2>1, <2>3 DEF DiskInv, Disks
    <3>2. d.source.content[r[1]] <= r[2]
      BY <1>4, <2>3, <3>1 DEF RunningInv
    <3>3. r[2] <= p.got[r[1]]
      BY <1>1, <1>2, <1>3, <1>4, <1>6, <2>3, <3>1 DEF PurposeInv
    <3>4. QED
      BY <1>1, <1>4, <3>1, <3>2, <3>3
  <2>4. DiskInv(files, path, quiet, e)
    BY <1>3, <2>2, <2>3 DEF DiskInv, AsAttested
  <2>5. ConsoleInv(files, path, quiet, pass'[c], disk'[c])
    BY <1>1, <2>4 DEF ConsoleInv, e
  <2>6. QED
    BY <1>1, <2>5, OfConsole, OneConsole
<1>7. QED
  BY <1>1, <1>5, <1>6

LEMMA ViolatedStep ==
  ASSUME IInv, NEW c \in Consoles, Violated(c)
  PROVE  IInv'
<1>1. /\ disk[c] # None /\ pass[c] = None /\ pass' = pass /\ record' = record /\ UNCHANGED mediumVars
      /\ disk'[c] = [disk[c] EXCEPT !.stage = "ready", !.verdict = "none", !.seen = {}]
      /\ OthersStay(c)
  BY OfConsole DEF Violated, Idle, Revoked, OthersStay
<1>2. ConsoleInv(files, path, quiet, pass'[c], disk'[c])
  BY <1>1, OfConsole, RevokedDisk DEF ConsoleInv
<1>3. QED
  BY <1>1, <1>2, OfConsole, OneConsole

LEMMA FailsStep ==
  ASSUME IInv, NEW c \in Consoles, Fails(c)
  PROVE  IInv'
<1>1. /\ pass[c] # None /\ pass'[c] = None /\ record' = record /\ UNCHANGED mediumVars
      /\ OthersStay(c)
  BY OfConsole DEF Fails, Idle, Revoked, OthersStay
<1>2. CASE pass[c].purpose \in {"open", "verify"}
  <2>1. ConsoleInv(files, path, quiet, pass'[c], disk'[c])
    BY <1>1, <1>2, OfConsole DEF Fails, ConsoleInv
  <2>2. QED
    BY <1>1, <2>1, OfConsole, OneConsole
<1>3. CASE pass[c].purpose \notin {"open", "verify"}
  <2>1. /\ disk[c] # None
        /\ disk'[c] = [disk[c] EXCEPT !.stage = "ready", !.verdict = "none", !.seen = {}]
    BY <1>1, <1>3, OfConsole DEF Fails, Revoked, PurposeInv
  <2>2. ConsoleInv(files, path, quiet, pass'[c], disk'[c])
    BY <1>1, <2>1, OfConsole, RevokedDisk DEF ConsoleInv
  <2>3. QED
    BY <1>1, <2>2, OfConsole, OneConsole
<1>4. QED
  BY <1>2, <1>3

LEMMA LeaveStep ==
  ASSUME IInv, NEW c \in Consoles, Leave(c)
  PROVE  IInv'
<1>1. /\ pass'[c] = None /\ disk'[c] = None /\ record' = record /\ UNCHANGED mediumVars
      /\ OthersStay(c)
  BY OfConsole DEF Leave, OthersStay
<1>2. ConsoleInv(files, path, quiet, pass'[c], disk'[c])
  BY <1>1 DEF ConsoleInv
<1>3. QED
  BY <1>1, <1>2, OfConsole, OneConsole

-----------------------------------------------------------------------------
(* The theorems. *)

LEMMA InitInv == Init => IInv
<1> SUFFICES ASSUME Init PROVE IInv
  OBVIOUS
<1>1. PICK n \in Segments :
        /\ files = [f \in 1 .. n |-> Fresh(0)]
        /\ path = [s \in Segments |-> IF s <= n THEN s ELSE None]
  BY DEF Init
<1>2. n \in Nat /\ n >= 1
  BY Counts DEF Segments
<1>3. Fresh(0) \in File /\ Fresh(0).ctime = 0 /\ \A b \in 1 .. B : Fresh(0).blocks[b] = 0
  BY DEF Fresh, File
<1>4. files \in Seq(File) /\ DOMAIN files = 1 .. n
  BY <1>1, <1>2, <1>3
<1>5. FilesInv
  BY <1>1, <1>3, <1>4 DEF Init, FilesInv
<1>6. path \in [Segments -> DOMAIN files \cup {None}]
  <2>1. \A s \in Segments : s \in Nat /\ 1 <= s
    BY Counts DEF Segments
  <2>2. QED
    BY <1>1, <1>2, <1>4, <2>1
<1>7. MediumInv
  BY <1>5, <1>6, Counts DEF Init, MediumInv
<1>8. QED
  BY <1>7 DEF Init, IInv, ConsoleInv

LEMMA InvStep ==
  ASSUME IInv, [Next]_vars
  PROVE  IInv'
<1>1. CASE Change
  BY <1>1, ChangeStep
<1>2. ASSUME NEW c \in Consoles, Streams(c) PROVE IInv'
  BY <1>2, OpenSegmentStep, ReadBlockStep, FailsStep DEF Streams
<1>3. ASSUME NEW c \in Consoles, OpensDisk(c) PROVE IInv'
  BY <1>3, ReuseStep, StreamForOpenStep, FinishOpenStep, StoreStep, ScanStep, RecheckStep
     DEF OpensDisk
<1>4. ASSUME NEW c \in Consoles, Examines(c) PROVE IInv'
  BY <1>4, VerifyStep, FinishVerifyStep, StartRunStep, ToolReadsStep, EndRunStep,
     FinishGuardedStep, ViolatedStep DEF Examines
<1>5. CASE UNCHANGED vars
  <2>1. /\ format' = format /\ quiet' = quiet /\ files' = files /\ path' = path
        /\ changes' = changes /\ record' = record /\ disk' = disk /\ pass' = pass
    BY <1>5 DEF vars
  <2>2. QED
    BY <2>1 DEF IInv, MediumInv, FilesInv
<1>6. QED
  BY <1>1, <1>2, <1>3, <1>4, <1>5, LeaveStep DEF Next

\* The inductive invariant: an attestation is a witness of the files it names, a pass of
\* those it has read, an open image of its source and of what was read of it since.
THEOREM Invariance == Spec => []IInv
<1>1. QED
  BY InitInv, InvStep, PTL DEF Spec

\* The variables keep their types: a pass opens an image that is not there yet, one that ends
\* a run finds it running, and an attestation has as many blocks as its segments have.
THEOREM TypeCorrect == Spec => []TypeOK
<1>1. ASSUME IInv PROVE TypeOK
  <2>1. MediumInv /\ DOMAIN disk = Consoles /\ DOMAIN pass = Consoles
    BY <1>1 DEF IInv
  <2>2. \A f \in DOMAIN files : files[f] \in [blocks : [1 .. B -> Nat], mtime : Nat, ctime : Nat]
    <3>1. \A f \in DOMAIN files : files[f] \in File
      BY <2>1 DEF MediumInv, FilesInv
    <3>2. QED
      BY <3>1 DEF File
  <2>3. record \in Attestations \cup {None}
    BY <1>1 DEF IInv, SourceInv
  <2>4. ASSUME NEW c \in Consoles, disk[c] # None
        PROVE  /\ disk[c].stage \in Stages /\ disk[c].verdict \in Verdicts
               /\ disk[c].source \in Attestations
               /\ Len(disk[c].source.content) = B * Len(disk[c].source.ids)
    BY <1>1, <2>4, PurposeOfIdle DEF Disks, SourceInv
  <2>5. ASSUME NEW c \in Consoles, pass[c] # None
        PROVE  /\ pass[c].purpose \in Purposes
               /\ pass[c].purpose = "open" <=> disk[c] = None
               /\ pass[c].purpose = "completion" <=> (disk[c] # None /\ disk[c].stage = "running")
    <3>1. pass[c] \in Passes /\ PurposeInv(path, pass[c], disk[c])
      BY <1>1, <2>5, OfConsole DEF PassInv
    <3>2. pass[c].purpose \in Purposes
      BY <3>1 DEF Passes
    <3>3. QED
      BY <3>1, <3>2 DEF PurposeInv
  <2>6. QED
    BY <2>1, <2>2, <2>3, <2>4, <2>5 DEF TypeOK, MediumInv
<1>2. QED
  BY <1>1, Invariance, PTL

\* While the files are those of an attestation, of the record or of an open image, the medium
\* has the content that was attested, for any number of consoles, segments and changes.
THEOREM IdentitiesNameContent == Spec => []IdentityNamesContent
<1>1. ASSUME IInv PROVE IdentityNamesContent
  <2>1. SUFFICES ASSUME ~quiet, NEW a \in Sources, Current(a) PROVE Medium = a.content
    BY DEF IdentityNamesContent
  <2>2. SourceInv(files, quiet, a)
    <3>1. CASE a \in {record} \ {None}
      BY <3>1, <1>1 DEF IInv
    <3>2. CASE a \in {disk[c].source : c \in {k \in Consoles : disk[k] # None}}
      BY <3>2, <1>1, PurposeOfIdle
    <3>3. QED
      BY <2>1, <3>1, <3>2 DEF Sources
  <2>3. QED
    BY <1>1, <2>1, <2>2, CurrentHasContent DEF IInv
<1>2. QED
  BY <1>1, Invariance, PTL

\* What the parser resolved of an image that is ready is what was attested: the look after the
\* scan finds every replacement that came before or during it.
THEOREM OpenedIsAttested == Spec => []OpenedAsAttested
<1>1. ASSUME IInv PROVE OpenedAsAttested
  BY <1>1, OfConsole DEF OpenedAsAttested, ReadAsAttested, DiskInv, AsAttested
<1>2. QED
  BY <1>1, Invariance, PTL

\* An accepted answer rests on reads of the attested content, quiet writes or not: a read lies
\* between the passes that begin and end the run, and those are equal.
THEOREM AcceptedIsAttested == Spec => []AcceptedAsAttested
<1>1. ASSUME IInv PROVE AcceptedAsAttested
  BY <1>1, OfConsole DEF AcceptedAsAttested, ReadAsAttested, DiskInv, AsAttested
<1>2. QED
  BY <1>1, Invariance, PTL

\* Only the end of a verification makes it match.
LEMMA MatchesAtTheEnd ==
  ASSUME IInv, [Next]_vars, NEW c \in Consoles, ~Idle(c), pass[c].purpose = "verify",
         disk'[c] # None, disk'[c].verdict = "matches"
  PROVE  FinishVerify(c)
<1>1. disk[c] # None /\ disk[c].stage = "ready" /\ disk[c].verdict = "none"
  BY OfConsole DEF Idle, PurposeInv
<1>2. disk'[c] # disk[c]
  BY <1>1
<1>3. ~Change /\ ~UNCHANGED vars
  BY <1>2 DEF Change, SetTimeBack, Overwrite, QuietWrite, PutInPlace, Remove, MayChange, vars
<1>4. PICK k \in Consoles : Streams(k) \/ OpensDisk(k) \/ Examines(k) \/ Leave(k)
  BY <1>3 DEF Next
<1>5. k = c
  <2>1. SUFFICES ASSUME k # c PROVE disk'[c] = disk[c]
    BY <1>2
  <2>2. DOMAIN disk = Consoles
    BY SMTT(60) DEF IInv
  <2>3. Streams(k) => disk'[c] = disk[c]
    BY <2>1, <2>2 DEF Streams, OpenSegment, ReadBlock, Fails, Revoked
  <2>4. OpensDisk(k) => disk'[c] = disk[c]
    BY <2>1, <2>2 DEF OpensDisk, Reuse, StreamForOpen, FinishOpen, Store, Scan, Watch, Recheck
  <2>5. Examines(k) => disk'[c] = disk[c]
    BY <2>1, <2>2 DEF Examines, Verify, FinishVerify, StartRun, ToolReads, Watch, EndRun,
       FinishGuarded, Violated, Revoked
  <2>6. Leave(k) => disk'[c] = disk[c]
    BY <2>1, <2>2 DEF Leave
  <2>7. QED
    BY <1>4, <2>3, <2>4, <2>5, <2>6
<1>6. ~Streams(c) /\ ~Leave(c)
  BY <1>2, OfConsole DEF Streams, OpenSegment, ReadBlock, Fails, Leave
<1>7. ~OpensDisk(c)
  BY <1>1 DEF OpensDisk, Reuse, StreamForOpen, FinishOpen, Store, Scan, Recheck, Idle
<1>8. QED
  BY <1>4, <1>5, <1>6, <1>7
     DEF Examines, Verify, Ready, StartRun, ToolReads, EndRun, FinishGuarded, Violated

\* A verification of a raw medium that finds the recorded content ends while the files under
\* the names have it.
THEOREM MatchingIsUnchanged == Spec => MatchesMeanUnchanged
<1>1. ASSUME IInv, [Next]_vars, format = "raw", ~quiet, NEW c \in Consoles, ~Idle(c),
             pass[c].purpose = "verify", disk'[c] # None, disk'[c].verdict = "matches"
      PROVE  Holds(disk[c].source)
  <2>1. FinishVerify(c)
    BY <1>1, MatchesAtTheEnd
  <2>2. AllRead(c) /\ SameSegments(c) /\ PassInv(files, path, quiet, pass[c])
    BY <1>1, <2>1, OfConsole DEF FinishVerify, Finish, Looks, Stable, Idle
  <2>3. pass[c].got = disk[c].source.content
    BY <1>1, <2>1, OfConsole DEF FinishVerify
  <2>4. QED
    BY <1>1, <2>2, <2>3, CompletePass DEF Holds, IInv
<1>2. ASSUME IInv, [Next]_vars
      PROVE  (format = "raw" /\ ~quiet) =>
               \A c \in Consoles :
                 (~Idle(c) /\ pass[c].purpose = "verify" /\ disk'[c] # None /\ disk'[c].verdict = "matches")
                   => Holds(disk[c].source)
  BY <1>1, <1>2
<1>3. QED
  BY <1>2, Invariance, PTL DEF MatchesMeanUnchanged, Spec
=============================================================================
