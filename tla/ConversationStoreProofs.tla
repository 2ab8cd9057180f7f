------------------------ MODULE ConversationStoreProofs ------------------------
(***************************************************************************)
(* Proofs about ConversationStore, for any number of consoles and          *)
(* conversations, any older files and any failures of a save; and about    *)
(* InvestigationConsole, for any questions, operations and models.         *)
(***************************************************************************)
EXTENDS ConversationStore, InvestigationConsole, FiniteSetTheorems, FunctionTheorems, TLAPS

-----------------------------------------------------------------------------
(* Turns. *)

Turn == [id : Nat, included : BOOLEAN]

Kept(before, after) ==
  IF Len(after) > 0 /\ after[Len(after)].id \notin ToSet(TurnIds(before))
  THEN Front(after) ELSE after

\* What a save may do to the turns of a conversation.
Grown(before, after) ==
  LET kept == Kept(before, after)
  IN /\ IsSuffix(TurnIds(kept), TurnIds(before))
     /\ Len(kept) < Len(before) => Len(after) = MaxTurns
     /\ \A k \in DOMAIN kept :
          kept[k].included => before[Len(before) - Len(kept) + k].included

LEMMA SuffixByIndex ==
  ASSUME NEW S, NEW s \in Seq(S), NEW t \in Seq(S), Len(s) <= Len(t),
         \A k \in 1 .. Len(s) : s[k] = t[Len(t) - Len(s) + k]
  PROVE  IsSuffix(s, t)
<1>1. PICK m \in Nat, n \in Nat : m = Len(s) /\ n = Len(t) /\ m <= n OBVIOUS
<1>2. /\ Reverse(s) = [i \in 1 .. m |-> s[(m - i) + 1]]
      /\ Reverse(t) = [i \in 1 .. n |-> t[(n - i) + 1]]
  BY <1>1 DEF Reverse
<1>3. Len(Reverse(s)) = m /\ Len(Reverse(t)) = n BY <1>1, <1>2
<1>4. \A i \in 1 .. m : Reverse(s)[i] = Reverse(t)[i]
  <2> TAKE i \in 1 .. m
  <2>1. (m - i) + 1 \in 1 .. m /\ i \in 1 .. n BY <1>1
  <2>2. s[(m - i) + 1] = t[n - m + ((m - i) + 1)] BY <1>1, <2>1
  <2>3. n - m + ((m - i) + 1) = (n - i) + 1 BY <1>1
  <2> QED BY <1>2, <2>1, <2>2, <2>3
<1>5. /\ SubSeq(Reverse(s), 1, m) = [i \in 1 .. m |-> Reverse(s)[i]]
      /\ SubSeq(Reverse(t), 1, m) = [i \in 1 .. m |-> Reverse(t)[i]]
  BY <1>1, <1>2, <1>3
<1>6. SubSeq(Reverse(s), 1, m) = SubSeq(Reverse(t), 1, m) BY <1>4, <1>5
<1> QED BY <1>1, <1>3, <1>6 DEF IsSuffix, IsPrefix

LEMMA IdsOfTurns ==
  ASSUME NEW t \in Turns
  PROVE  /\ TurnIds(t) \in Seq(Nat) /\ Len(TurnIds(t)) = Len(t)
         /\ DOMAIN t = 1 .. Len(t) /\ Len(t) \in Nat
         /\ \A k \in 1 .. Len(t) : /\ TurnIds(t)[k] = t[k].id /\ t[k].id \in Nat
                                   /\ t[k].id \in ToSet(TurnIds(t))
<1>1. t \in Seq(Turn) BY DEF Turns, Turn
<1>2. DOMAIN t = 1 .. Len(t) /\ Len(t) \in Nat /\ \A k \in 1 .. Len(t) : t[k] \in Turn BY <1>1
<1>3. \A k \in 1 .. Len(t) : t[k].id \in Nat BY <1>2 DEF Turn
<1>4. TurnIds(t) = [k \in 1 .. Len(t) |-> t[k].id] BY <1>2 DEF TurnIds
<1>5. TurnIds(t) \in Seq(Nat) /\ Len(TurnIds(t)) = Len(t) BY <1>2, <1>3, <1>4
<1>6. \A k \in 1 .. Len(t) : TurnIds(t)[k] = t[k].id /\ t[k].id \in ToSet(TurnIds(t))
  BY <1>4 DEF ToSet
<1> QED BY <1>2, <1>3, <1>5, <1>6

\* Turns that keep their ids and only leave the context.
LEMMA GrownInPlace ==
  ASSUME NEW t \in Turns, NEW u \in Turns, Len(u) = Len(t),
         \A k \in 1 .. Len(t) : u[k].id = t[k].id /\ (u[k].included => t[k].included)
  PROVE  Grown(t, u)
<1>1. /\ TurnIds(t) \in Seq(Nat) /\ TurnIds(u) \in Seq(Nat)
      /\ Len(TurnIds(t)) = Len(t) /\ Len(TurnIds(u)) = Len(t)
      /\ DOMAIN u = 1 .. Len(t) /\ Len(t) \in Nat
  BY IdsOfTurns
<1>2. \A k \in 1 .. Len(t) : TurnIds(u)[k] = TurnIds(t)[k] /\ u[k].id \in ToSet(TurnIds(t))
  BY IdsOfTurns
<1>3. Kept(t, u) = u BY <1>1, <1>2 DEF Kept
<1>4. IsSuffix(TurnIds(u), TurnIds(t)) BY <1>1, <1>2, SuffixByIndex
<1>5. \A k \in DOMAIN u : u[k].included => t[Len(t) - Len(u) + k].included BY <1>1
<1> QED BY <1>1, <1>3, <1>4, <1>5 DEF Grown

LEMMA AppendedAt ==
  ASSUME NEW S, NEW q \in Seq(S), NEW e \in S
  PROVE  /\ Append(q, e) \in Seq(S) /\ Len(q) \in Nat /\ Len(Append(q, e)) = Len(q) + 1
         /\ Append(q, e)[Len(q) + 1] = e
         /\ \A i \in 1 .. Len(q) : Append(q, e)[i] = q[i]
  OBVIOUS

\* A turn of its own at the end, and the oldest gone if there is no room for it.
LEMMA GrownByOne ==
  ASSUME NEW t \in Turns, Len(t) <= MaxTurns, NEW n \in Nat, n \notin ToSet(TurnIds(t))
  PROVE  Appended(t, n) \in Turns /\ Len(Appended(t, n)) <= MaxTurns /\ Grown(t, Appended(t, n))
<1> DEFINE new    == [id |-> n, included |-> TRUE]
           longer == Append(t, new)
           after  == Appended(t, n)
<1>1. new \in Turn /\ new.id = n BY DEF Turn
<1>2. after = IF Len(longer) > MaxTurns THEN Tail(longer) ELSE longer BY DEF Appended
<1> HIDE DEF new, after
<1>3. PICK m \in Nat : m = Len(t) /\ DOMAIN t = 1 .. m BY IdsOfTurns
<1>4. t \in Seq(Turn) BY DEF Turns, Turn
<1>5. /\ longer \in Seq(Turn) /\ Len(longer) = m + 1 /\ longer[m + 1] = new
      /\ \A i \in 1 .. m : longer[i] = t[i]
  BY <1>1, <1>3, <1>4, AppendedAt
<1> HIDE DEF longer
<1>6. MaxTurns \in Nat /\ MaxTurns >= 1 BY StoreAssumption
<1>7. PICK d \in Nat, h \in Nat :
        /\ m = h + d /\ h + 1 <= MaxTurns /\ (d # 0 => h + 1 = MaxTurns)
        /\ after \in Seq(Turn) /\ Len(after) = h + 1
        /\ \A k \in 1 .. h + 1 : after[k] = longer[k + d]
  <2>1. CASE m + 1 > MaxTurns
    <3>1. after = Tail(longer) BY <1>2, <1>5, <2>1
    <3>2. m = MaxTurns /\ m - 1 \in Nat /\ m = (m - 1) + 1 BY <1>3, <1>6, <2>1
    <3>3. after \in Seq(Turn) /\ Len(after) = m /\ \A k \in 1 .. m : after[k] = longer[k + 1]
      BY <1>5, <3>1
    <3> QED BY <1>3, <3>2, <3>3, ZenonT(60)
  <2>2. CASE ~(m + 1 > MaxTurns)
    <3>1. after = longer BY <1>2, <1>5, <2>2
    <3>2. \A k \in 1 .. m + 1 : k + 0 = k OBVIOUS
    <3>3. m = m + 0 /\ m + 1 <= MaxTurns BY <1>3, <1>6, <2>2
    <3> QED BY <1>3, <1>5, <3>1, <3>2, <3>3
  <2> QED BY <2>1, <2>2
<1>8. after[h + 1] = new /\ \A k \in 1 .. h : after[k] = t[k + d]
  <2>1. h + 1 \in 1 .. h + 1 /\ (h + 1) + d = m + 1 BY <1>7
  <2>2. after[h + 1] = new BY <1>5, <1>7, <2>1
  <2>3. \A k \in 1 .. h : k \in 1 .. h + 1 /\ k + d \in 1 .. m BY <1>7
  <2> QED BY <1>5, <1>7, <2>2, <2>3
<1> DEFINE kept == Kept(t, after)
<1>9. kept = Front(after)
  <2>1. Len(after) > 0 /\ after[Len(after)].id = n BY <1>1, <1>7, <1>8
  <2> QED BY <2>1 DEF Kept
<1>10. kept \in Seq(Turn) /\ Len(kept) = h /\ \A k \in 1 .. h : kept[k] = t[k + d]
  <2>1. kept = SubSeq(after, 1, h) BY <1>7, <1>9 DEF Front
  <2>2. kept \in Seq(Turn) /\ Len(kept) = h /\ \A k \in 1 .. h : kept[k] = after[k]
    BY <1>7, <2>1
  <2> QED BY <1>8, <2>2
<1> HIDE DEF kept
<1>11. kept \in Turns /\ after \in Turns BY <1>7, <1>10 DEF Turns, Turn
<1>12. /\ TurnIds(kept) \in Seq(Nat) /\ TurnIds(t) \in Seq(Nat)
       /\ Len(TurnIds(kept)) = h /\ Len(TurnIds(t)) = m /\ DOMAIN kept = 1 .. h
  BY <1>3, <1>10, <1>11, IdsOfTurns
<1>13. m - h = d /\ \A k \in 1 .. h : k + d \in 1 .. m /\ m - h + k = k + d BY <1>7
<1>14. \A k \in 1 .. h : TurnIds(kept)[k] = TurnIds(t)[m - h + k]
  <2> TAKE k \in 1 .. h
  <2>1. TurnIds(kept)[k] = kept[k].id BY <1>10, <1>11, IdsOfTurns
  <2>2. TurnIds(t)[k + d] = t[k + d].id BY <1>3, <1>13, IdsOfTurns
  <2> QED BY <1>10, <1>13, <2>1, <2>2
<1>15. IsSuffix(TurnIds(kept), TurnIds(t))
  <2>1. h <= m BY <1>7
  <2> QED BY <1>12, <1>14, <2>1, SuffixByIndex
<1>16. Len(kept) < Len(t) => Len(after) = MaxTurns BY <1>3, <1>7, <1>10
<1>17. \A k \in DOMAIN kept : kept[k].included => t[Len(t) - Len(kept) + k].included
  BY <1>3, <1>10, <1>12, <1>13
<1>18. Grown(t, after) BY <1>15, <1>16, <1>17 DEF Grown, kept
<1> QED BY <1>7, <1>11, <1>18 DEF after

LEMMA GrownByUndo ==
  ASSUME NEW t \in Turns
  PROVE  Undone(t) \in Turns /\ Len(Undone(t)) = Len(t) /\ Grown(t, Undone(t))
<1> DEFINE last == CHOOSE k \in IncludedAt(t) : \A j \in IncludedAt(t) : j <= k
<1>1. Undone(t) = [t EXCEPT ![last].included = FALSE] BY DEF Undone
<1> HIDE DEF last
<1>2. t \in Seq(Turn) BY DEF Turns, Turn
<1>3. PICK m \in Nat : m = Len(t) /\ DOMAIN t = 1 .. m /\ \A k \in 1 .. m : t[k] \in Turn BY <1>2
<1>4. \A k \in 1 .. m : Undone(t)[k] = IF k = last THEN [t[k] EXCEPT !.included = FALSE] ELSE t[k]
  BY <1>1, <1>3
<1>5. \A k \in 1 .. m : /\ Undone(t)[k] \in Turn /\ Undone(t)[k].id = t[k].id
                        /\ Undone(t)[k].included => t[k].included
  BY <1>3, <1>4, ZenonT(60) DEF Turn
<1>6. Undone(t) \in Seq(Turn) /\ Len(Undone(t)) = m
  <2>1. Undone(t) = [k \in 1 .. m |-> Undone(t)[k]] BY <1>1, <1>3
  <2>2. Undone(t) \in [1 .. m -> Turn] BY <1>5, <2>1
  <2> QED BY <2>2
<1>7. Undone(t) \in Turns BY <1>6 DEF Turns, Turn
<1> QED BY <1>3, <1>5, <1>6, <1>7, GrownInPlace

-----------------------------------------------------------------------------
(* Documents and the names of what is new in them. *)

Owners == {Identity[c] : c \in Consoles} \cup {None}
Record == [schema : Schemas, identity : Owners, created : Nat, revision : Nat, turns : Turns,
           noted : BOOLEAN]

LEMMA DocumentFields ==
  ASSUME NEW d \in Documents
  PROVE  /\ d \in Record /\ Len(d.turns) <= MaxTurns
         /\ d.schema \in Schemas /\ d.identity \in Owners /\ d.created \in Nat
         /\ d.revision \in Nat /\ d.turns \in Turns /\ d.noted \in BOOLEAN
         /\ d # None
<1>1. d \in Record /\ Len(d.turns) <= MaxTurns BY DEF Documents, Record, Owners
<1>2. d # None BY StoreAssumption
<1> QED BY <1>1, <1>2 DEF Record

LEMMA RecordIsDocument ==
  ASSUME NEW d \in Record, Len(d.turns) <= MaxTurns
  PROVE  d \in Documents
  BY DEF Documents, Record, Owners

LEMMA LoadedFields ==
  ASSUME NEW d \in Documents
  PROVE  /\ Loaded(d) \in Documents /\ Loaded(d) # None
         /\ Loaded(d).schema = Schema /\ Loaded(d).created = d.created
         /\ Loaded(d).revision = d.revision /\ Loaded(d).turns = d.turns
         /\ d.schema = Schema => Loaded(d) = d
<1>1. d \in Record /\ Len(d.turns) <= MaxTurns BY DocumentFields
<1>2. None \in Owners /\ Schema \in Schemas BY DEF Owners, Schema, Schemas
<1>3. PICK o \in Owners :
        /\ Loaded(d) = [d EXCEPT !.schema = Schema, !.identity = o]
        /\ d.schema = Schema => o = d.identity
  BY <1>1, <1>2 DEF Loaded, Record
<1>4. /\ Loaded(d) \in Record /\ Loaded(d).schema = Schema /\ Loaded(d).created = d.created
      /\ Loaded(d).revision = d.revision /\ Loaded(d).turns = d.turns
  BY <1>1, <1>2, <1>3 DEF Record
<1>5. Loaded(d) \in Documents BY <1>1, <1>4, RecordIsDocument
<1>6. d.schema = Schema => Loaded(d) = d BY <1>1, <1>3 DEF Record
<1> QED BY <1>4, <1>5, <1>6, DocumentFields

\* The image of a finite set is finite.
LEMMA ImageIsFinite ==
  ASSUME NEW S, IsFiniteSet(S), NEW f, DOMAIN f = S
  PROVE  IsFiniteSet({f[x] : x \in S})
<1> DEFINE T == {f[x] : x \in S}
           g == [x \in S |-> f[x]]
<1>1. g \in Surjection(S, T) BY DEF Surjection
<1> QED BY <1>1, FS_Surjection

\* Unused names something that is not there yet.
LEMMA UnusedIsUnused ==
  ASSUME NEW names, IsFiniteSet(names)
  PROVE  Unused(names) \in Nat /\ Unused(names) \notin names
<1> DEFINE n == Cardinality(names)
<1>1. n \in Nat BY FS_CardinalityType
<1>2. \E k \in 1 .. n + 1 : k \notin names
  <2> SUFFICES ASSUME 1 .. n + 1 \subseteq names PROVE FALSE
    OBVIOUS
  <2>1. Cardinality(1 .. n + 1) <= n BY FS_Subset
  <2>2. Cardinality(1 .. n + 1) = n + 1
    <3>1. 1 \in Int /\ n + 1 \in Int /\ ~(1 > n + 1) /\ (n + 1) - 1 + 1 = n + 1 BY <1>1
    <3> HIDE DEF n
    <3>2. Cardinality(1 .. n + 1) = IF 1 > n + 1 THEN 0 ELSE (n + 1) - 1 + 1 BY <3>1, FS_Interval
    <3> QED BY <3>1, <3>2
  <2> QED BY <1>1, <2>1, <2>2
<1>3. Unused(names) \in 1 .. n + 1 /\ Unused(names) \notin names BY <1>2 DEF Unused
<1> QED BY <1>1, <1>3

LEMMA PresentIsFinite == TypeOK => IsFiniteSet(Present)
<1> SUFFICES ASSUME TypeOK PROVE IsFiniteSet(Present)
  OBVIOUS
<1> DEFINE K == {k \in Consoles : mem[k] # None}
           O == {k \in Consoles : op[k] # None}
           files == {file[i] : i \in Ids}
           mems  == {mem[c].doc : c \in K}
           docs  == {op[c].doc : c \in O}
           olds  == {op[c].old : c \in O}
           fm == [c \in K |-> mem[c].doc]
           fd == [c \in O |-> op[c].doc]
           fo == [c \in O |-> op[c].old]
<1>1. IsFiniteSet(Ids) /\ IsFiniteSet(Consoles) BY StoreAssumption
<1>2. IsFiniteSet(K) /\ IsFiniteSet(O) BY <1>1, FS_Subset
<1>3. IsFiniteSet(files)
  <2>1. DOMAIN file = Ids BY DEF TypeOK
  <2> QED BY <1>1, <2>1, ImageIsFinite
<1>4. IsFiniteSet(mems)
  <2>1. mems = {fm[c] : c \in K} OBVIOUS
  <2>2. DOMAIN fm = K OBVIOUS
  <2> HIDE DEF fm, K, O, mems
  <2> QED BY <1>2, <2>1, <2>2, ImageIsFinite
<1>5. IsFiniteSet(docs)
  <2>1. docs = {fd[c] : c \in O} OBVIOUS
  <2>2. DOMAIN fd = O OBVIOUS
  <2> HIDE DEF fd, K, O, docs
  <2> QED BY <1>2, <2>1, <2>2, ImageIsFinite
<1>6. IsFiniteSet(olds)
  <2>1. olds = {fo[c] : c \in O} OBVIOUS
  <2>2. DOMAIN fo = O OBVIOUS
  <2> HIDE DEF fo, K, O, olds
  <2> QED BY <1>2, <2>1, <2>2, ImageIsFinite
<1>7. Present = ((files \cup mems) \cup docs) \cup olds BY DEF Present
<1> HIDE DEF files, mems, docs, olds
<1> QED BY <1>3, <1>4, <1>5, <1>6, <1>7, FS_Union

LEMMA PresentAreDocuments ==
  ASSUME TypeOK
  PROVE  /\ Present \ {None} \subseteq Documents
         /\ \A i \in Ids : file[i] \in Present
         /\ \A c \in Consoles : mem[c] # None => mem[c].doc \in Present
         /\ \A c \in Consoles : op[c] # None => op[c].doc \in Present /\ op[c].old \in Present
<1>1. \A i \in Ids : file[i] \in Documents \cup {None} BY DEF TypeOK
<1>2. \A c \in Consoles : mem[c] # None => mem[c] \in Sessions BY DEF TypeOK
<1>3. \A c \in Consoles : mem[c] # None => mem[c].doc \in Documents BY <1>2 DEF Sessions
<1>4. \A c \in Consoles : op[c] # None => op[c] \in Pending BY DEF TypeOK
<1>5. \A c \in Consoles : op[c] # None => /\ op[c].doc \in Documents
                                          /\ op[c].old \in Documents \cup {None}
  BY <1>4 DEF Pending
<1> QED BY <1>1, <1>3, <1>5 DEF Present

LEMMA NewBirthIsNew ==
  ASSUME TypeOK
  PROVE  /\ NewBirth \in Nat
         /\ \A d \in Present : d # None => d.created # NewBirth
<1> DEFINE docs == Present \ {None}
           births == {d.created : d \in docs}
           f == [d \in docs |-> d.created]
<1>1. IsFiniteSet(docs) BY PresentIsFinite, FS_Subset
<1> HIDE DEF docs
<1>2. IsFiniteSet({f[d] : d \in docs}) BY <1>1, ImageIsFinite
<1>3. births = {f[d] : d \in docs} OBVIOUS
<1>4. IsFiniteSet(births) BY <1>2, <1>3
<1>5. NewBirth = Unused(births) BY DEF NewBirth, docs
<1> HIDE DEF births
<1>6. NewBirth \in Nat /\ NewBirth \notin births BY <1>4, <1>5, UnusedIsUnused
<1> QED BY <1>6 DEF births, docs

LEMMA NewTurnIsNew ==
  ASSUME TypeOK
  PROVE  /\ NewTurn \in Nat
         /\ \A d \in Present : d # None => NewTurn \notin ToSet(TurnIds(d.turns))
<1> DEFINE docs == Present \ {None}
           f == [d \in docs |-> ToSet(d.turns)]
           turns == UNION {ToSet(d.turns) : d \in docs}
           g == [t \in turns |-> t.id]
           ids == {t.id : t \in turns}
<1>1. IsFiniteSet(docs) /\ docs \subseteq Documents BY PresentIsFinite, PresentAreDocuments, FS_Subset
<1> HIDE DEF docs
<1>2. ASSUME NEW d \in docs PROVE IsFiniteSet(ToSet(d.turns))
  <2>1. DOMAIN d.turns = 1 .. Len(d.turns) /\ Len(d.turns) \in Nat
    BY <1>1, DocumentFields, IdsOfTurns
  <2>2. 1 \in Int /\ Len(d.turns) \in Int BY <2>1
  <2>3. IsFiniteSet(DOMAIN d.turns) BY <2>1, <2>2, FS_Interval
  <2> QED BY <2>3, ImageIsFinite DEF ToSet
<1>3. IsFiniteSet({f[d] : d \in docs}) BY <1>1, ImageIsFinite
<1>4. {f[d] : d \in docs} = {ToSet(d.turns) : d \in docs} OBVIOUS
<1>5. IsFiniteSet(turns) BY <1>2, <1>3, <1>4, FS_UNION
<1>6. NewTurn = Unused(ids) BY DEF NewTurn, docs
<1>7. \A d \in docs : ToSet(d.turns) \subseteq turns OBVIOUS
<1> HIDE DEF turns
<1>8. IsFiniteSet({g[t] : t \in turns}) BY <1>5, ImageIsFinite
<1>9. ids = {g[t] : t \in turns} OBVIOUS
<1>10. IsFiniteSet(ids) BY <1>8, <1>9
<1>11. \A t \in turns : t.id \in ids OBVIOUS
<1> HIDE DEF ids
<1>12. NewTurn \in Nat /\ NewTurn \notin ids BY <1>6, <1>10, UnusedIsUnused
<1>13. ASSUME NEW d \in docs PROVE ToSet(TurnIds(d.turns)) \subseteq ids
  <2>1. DOMAIN TurnIds(d.turns) = DOMAIN d.turns BY DEF TurnIds
  <2>2. \A k \in DOMAIN d.turns : TurnIds(d.turns)[k] = d.turns[k].id /\ d.turns[k] \in ToSet(d.turns)
    BY DEF TurnIds, ToSet
  <2>3. \A k \in DOMAIN d.turns : TurnIds(d.turns)[k] \in ids BY <1>7, <1>11, <2>2
  <2> QED BY <2>1, <2>3 DEF ToSet
<1> QED BY <1>12, <1>13 DEF docs

-----------------------------------------------------------------------------
(* The inductive invariant. *)

Saving(c, kinds) == op[c] # None /\ op[c].kind \in kinds
Changes == {"append", "undo", "note"}

\* A pending change and the session it is a change of.
SessionInv(c) ==
  /\ mem[c] # None => mem[c].doc.schema = Schema
  /\ op[c] # None => op[c].doc.schema = Schema
  /\ Saving(c, Changes) =>
       /\ mem[c] # None /\ op[c].id = mem[c].id /\ op[c].doc = mem[c].doc
       /\ op[c].old # None /\ op[c].old.schema = Schema
       /\ op[c].old.created = op[c].doc.created /\ op[c].old.identity = op[c].doc.identity
       /\ op[c].expected = op[c].old.revision
       /\ op[c].doc.revision = op[c].old.revision + 1
       /\ Grown(op[c].old.turns, op[c].doc.turns)

\* The birth of a conversation that is being created is nobody else's.
UnsharedInv(c) ==
  Saving(c, {"create"}) =>
    /\ \A i \in Ids : file[i] # None => file[i].created # op[c].doc.created
    /\ \A e \in Consoles : mem[e] # None => mem[e].doc.created # op[c].doc.created
    /\ \A e \in Consoles \ {c} : op[e] # None => op[e].doc.created # op[c].doc.created

\* What a console has seen is at most as new as the newest of that conversation, d, and is d
\* when it is as new.
Behind(s, i, d) ==
  (s # None /\ s.id = i /\ s.doc.created = d.created) =>
    s.doc.revision <= d.revision /\ (s.doc.revision = d.revision => s.doc = d)

FilesInv == \A i \in Ids : file[i] # None => \A c \in Consoles : Behind(Seen(c), i, Loaded(file[i]))

\* Once the comparison was made nobody has seen anything newer than what it compared with.
ComparedInv(c) ==
  (Saving(c, Changes) /\ op[c].step = "checked") =>
    /\ file[op[c].id] = None \/ Loaded(file[op[c].id]) = op[c].old
    /\ \A e \in Consoles : Behind(Seen(e), op[c].id, op[c].old)

IInv ==
  /\ TypeOK
  /\ \A c \in Consoles : SessionInv(c) /\ UnsharedInv(c) /\ ComparedInv(c)
  /\ FilesInv

LEMMA SessionFields ==
  ASSUME TypeOK, NEW c \in Consoles, mem[c] # None
  PROVE  /\ mem[c] \in Sessions /\ mem[c].id \in Ids /\ mem[c].doc \in Documents
         /\ mem[c] = [id |-> mem[c].id, doc |-> mem[c].doc]
<1>1. mem[c] \in Sessions BY DEF TypeOK
<1> QED BY <1>1 DEF Sessions

LEMMA PendingFields ==
  ASSUME TypeOK, NEW c \in Consoles, op[c] # None
  PROVE  /\ op[c] \in Pending /\ op[c].kind \in Kinds /\ op[c].step \in Steps /\ op[c].id \in Ids
         /\ op[c].doc \in Documents /\ op[c].old \in Documents \cup {None}
         /\ op[c].expected \in Nat \cup {None}
<1>1. op[c] \in Pending BY DEF TypeOK
<1> QED BY <1>1 DEF Pending

LEMMA SomethingIsNotNone == \A x : x \in Pending \/ x \in Sessions \/ x \in Documents => x # None
  BY StoreAssumption

LEMMA SeenFields ==
  ASSUME TypeOK, NEW c \in Consoles, SessionInv(c)
  PROVE  /\ ~Saving(c, Changes) => Seen(c) = mem[c]
         /\ Saving(c, Changes) => /\ Seen(c) = [id |-> mem[c].id, doc |-> op[c].old]
                                  /\ Seen(c) # None /\ mem[c] # None
         /\ Seen(c) # None => /\ mem[c] # None
                              /\ Seen(c).id = mem[c].id /\ Seen(c).doc.created = mem[c].doc.created
                              /\ Seen(c) \in Sessions /\ Seen(c).doc.schema = Schema
<1>1. CASE Saving(c, Changes)
  <2>1. /\ op[c] # None /\ op[c].kind # "create" /\ mem[c] # None /\ op[c].id = mem[c].id
        /\ op[c].old # None /\ op[c].doc = mem[c].doc /\ op[c].old.created = op[c].doc.created
        /\ op[c].old.schema = Schema
    BY <1>1 DEF SessionInv, Saving, Changes
  <2>2. Seen(c) = [id |-> mem[c].id, doc |-> op[c].old] BY <2>1 DEF Seen
  <2>3. op[c].old \in Documents BY <2>1, PendingFields
  <2>4. Seen(c) \in Sessions
    <3>1. mem[c].id \in Ids BY <2>1, SessionFields
    <3> QED BY <2>2, <2>3, <3>1 DEF Sessions
  <2>5. Seen(c) # None BY <2>4, SomethingIsNotNone
  <2>6. /\ Seen(c).id = mem[c].id /\ Seen(c).doc.created = mem[c].doc.created
        /\ Seen(c).doc.schema = Schema
    BY <2>1, <2>2
  <2> QED BY <1>1, <2>1, <2>2, <2>4, <2>5, <2>6
<1>2. CASE ~Saving(c, Changes)
  <2>1. op[c] = None \/ op[c].kind = "create"
    BY <1>2, PendingFields DEF Saving, Changes, Kinds
  <2>2. Seen(c) = mem[c] BY <2>1 DEF Seen
  <2> QED BY <1>2, <2>2, SessionFields DEF SessionInv
<1> QED BY <1>1, <1>2

-----------------------------------------------------------------------------
(* Steps that write no file. *)

\* A console goes on seeing what it saw, sees nothing, or sees what is in a file.
SeesNothingNew(e) ==
  \/ Seen(e)' \in {Seen(e), None}
  \/ \E i \in Ids : file[i] # None /\ Seen(e)' = [id |-> i, doc |-> Loaded(file[i])]

FilesOnlyGo == \A i \in Ids : file'[i] \in {file[i], None}

LEMMA BehindItself ==
  ASSUME NEW i, NEW d \in Documents, NEW j, NEW f \in Documents, j = i => d = f
  PROVE  Behind([id |-> i, doc |-> d], j, f)
<1>1. d.revision \in Nat BY DocumentFields
<1> QED BY <1>1 DEF Behind

LEMMA FilesStay ==
  ASSUME IInv, FilesOnlyGo, \A e \in Consoles : SeesNothingNew(e)
  PROVE  FilesInv'
<1> SUFFICES ASSUME NEW i \in Ids, file'[i] # None, NEW c \in Consoles
             PROVE  Behind(Seen(c)', i, Loaded(file'[i]))
  BY DEF FilesInv
<1>1. file'[i] = file[i] /\ file[i] \in Documents BY DEF FilesOnlyGo, IInv, TypeOK
<1>2. Behind(Seen(c), i, Loaded(file[i])) BY <1>1 DEF IInv, FilesInv
<1>3. CASE Seen(c)' = Seen(c) BY <1>1, <1>2, <1>3
<1>4. CASE Seen(c)' = None BY <1>4 DEF Behind
<1>5. ASSUME NEW j \in Ids, file[j] # None, Seen(c)' = [id |-> j, doc |-> Loaded(file[j])]
      PROVE  Behind(Seen(c)', i, Loaded(file'[i]))
  <2>1. file[j] \in Documents BY <1>5 DEF IInv, TypeOK
  <2>2. Loaded(file[j]) \in Documents /\ Loaded(file[i]) \in Documents BY <1>1, <2>1, LoadedFields
  <2> QED BY <1>1, <1>5, <2>2, BehindItself
<1> QED BY <1>3, <1>4, <1>5 DEF SeesNothingNew

LEMMA ComparedStays ==
  ASSUME IInv, FilesOnlyGo, \A e \in Consoles : SeesNothingNew(e),
         NEW c \in Consoles, op'[c] = op[c]
  PROVE  ComparedInv(c)'
<1> SUFFICES ASSUME Saving(c, Changes), op[c].step = "checked"
             PROVE  /\ file'[op[c].id] = None \/ Loaded(file'[op[c].id]) = op[c].old
                    /\ \A e \in Consoles : Behind(Seen(e)', op[c].id, op[c].old)
  BY DEF ComparedInv, Saving
<1>1. /\ file[op[c].id] = None \/ Loaded(file[op[c].id]) = op[c].old
      /\ \A e \in Consoles : Behind(Seen(e), op[c].id, op[c].old)
  BY DEF IInv, ComparedInv
<1>2. op[c] # None /\ op[c].old # None BY DEF IInv, SessionInv, Saving
<1>3. op[c].id \in Ids /\ op[c].old \in Documents BY <1>2, PendingFields DEF IInv
<1>4. file'[op[c].id] = None \/ Loaded(file'[op[c].id]) = op[c].old BY <1>1, <1>3 DEF FilesOnlyGo
<1>5. ASSUME NEW e \in Consoles PROVE Behind(Seen(e)', op[c].id, op[c].old)
  <2>1. CASE Seen(e)' = Seen(e) BY <1>1, <2>1
  <2>2. CASE Seen(e)' = None BY <2>2 DEF Behind
  <2>3. ASSUME NEW j \in Ids, file[j] # None, Seen(e)' = [id |-> j, doc |-> Loaded(file[j])]
        PROVE  Behind(Seen(e)', op[c].id, op[c].old)
    <3>1. file[j] \in Documents BY <2>3 DEF IInv, TypeOK
    <3>2. Loaded(file[j]) \in Documents BY <3>1, LoadedFields
    <3>3. op[c].id = j => Loaded(file[j]) = op[c].old BY <1>1, <2>3
    <3> QED BY <1>3, <2>3, <3>2, <3>3, BehindItself
  <2> QED BY <2>1, <2>2, <2>3 DEF SeesNothingNew
<1> QED BY <1>4, <1>5

\* A step of console c that writes no file owes the invariant only what is about c.
LEMMA OneConsole ==
  ASSUME IInv, NEW c \in Consoles, FilesOnlyGo, TypeOK',
         \A e \in Consoles \ {c} : mem'[e] = mem[e] /\ op'[e] = op[e],
         \A e \in Consoles \ {c} : Saving(e, {"create"}) =>
           /\ mem'[c] # None => mem'[c].doc.created # op[e].doc.created
           /\ op'[c] # None => op'[c].doc.created # op[e].doc.created,
         SeesNothingNew(c), SessionInv(c)', UnsharedInv(c)', ComparedInv(c)'
  PROVE  IInv'
<1>1. \A e \in Consoles \ {c} : Seen(e)' = Seen(e) BY DEF Seen
<1>2. \A e \in Consoles : SeesNothingNew(e) BY <1>1 DEF SeesNothingNew
<1>3. FilesInv' BY <1>2, FilesStay
<1>4. ASSUME NEW e \in Consoles \ {c} PROVE SessionInv(e)' /\ UnsharedInv(e)' /\ ComparedInv(e)'
  <2>1. SessionInv(e) /\ UnsharedInv(e) BY DEF IInv
  <2>2. SessionInv(e)' BY <2>1 DEF SessionInv, Saving
  <2>3. UnsharedInv(e)'
    <3>1. \A i \in Ids : file'[i] # None => file'[i] = file[i] BY DEF FilesOnlyGo
    <3> QED BY <2>1, <3>1 DEF UnsharedInv, Saving
  <2>4. ComparedInv(e)' BY <1>2, ComparedStays
  <2> QED BY <2>2, <2>3, <2>4
<1> QED BY <1>3, <1>4 DEF IInv

LEMMA IdleHoldsNoLock ==
  ASSUME TypeOK, NEW c \in Consoles, op[c] = None
  PROVE  lock # c
<1>1. c # None BY StoreAssumption
<1> QED BY <1>1 DEF TypeOK

LEMMA NewSessionStep ==
  ASSUME IInv, NEW c \in Consoles, NEW i \in Ids, NewSession(c, i)
  PROVE  IInv' /\ Seen(c)' = Seen(c)
<1> DEFINE new == [kind |-> "create", step |-> "sealed", id |-> i, doc |-> NewDocument(c),
                   old |-> None, expected |-> None]
<1> USE DEF NewSession, Idle
<1>1. TypeOK /\ op[c] = None /\ mem' = mem /\ file' = file /\ damaged' = damaged /\ lock' = lock
  BY DEF IInv
<1>2. op' = [op EXCEPT ![c] = new] OBVIOUS
<1>3. op'[c] = new /\ \A e \in Consoles \ {c} : op'[e] = op[e] BY <1>1, <1>2 DEF TypeOK
<1>4. NewBirth \in Nat /\ \A d \in Present : d # None => d.created # NewBirth
  BY <1>1, NewBirthIsNew
<1>5. NewDocument(c) \in Documents
  <2>1. <<>> \in Turns /\ Len(<<>>) = 0 BY DEF Turns
  <2>2. NewDocument(c) \in Record
    BY <1>4, <2>1 DEF NewDocument, Record, Schema, Schemas, Owners
  <2>3. Len(NewDocument(c).turns) <= MaxTurns BY <2>1, StoreAssumption DEF NewDocument
  <2> QED BY <2>2, <2>3, RecordIsDocument
<1>6. NewDocument(c).created = NewBirth /\ NewDocument(c).schema = Schema BY DEF NewDocument
<1>7. new \in Pending BY <1>5 DEF Pending, Kinds, Steps
<1>8. /\ new.kind = "create" /\ new.step = "sealed" /\ new.doc = NewDocument(c) OBVIOUS
<1> HIDE DEF new
<1>9. new # None BY <1>7, SomethingIsNotNone
<1>10. lock # c BY <1>1, IdleHoldsNoLock
<1>11. TypeOK' BY <1>1, <1>2, <1>3, <1>7, <1>8, <1>9, <1>10 DEF TypeOK
<1>12. Seen(c)' = Seen(c) BY <1>1, <1>3, <1>8 DEF Seen
<1>13. SessionInv(c)' BY <1>1, <1>3, <1>6, <1>8 DEF SessionInv, Saving, Changes, IInv
<1>14. ComparedInv(c)' BY <1>3, <1>8 DEF ComparedInv
<1>15. /\ \A k \in Ids : file[k] # None => file[k].created # NewBirth
       /\ \A e \in Consoles : mem[e] # None => mem[e].doc.created # NewBirth
       /\ \A e \in Consoles : op[e] # None => op[e].doc.created # NewBirth
  <2>1. \A e \in Consoles : mem[e] # None => mem[e].doc # None
    BY <1>1, SessionFields, SomethingIsNotNone
  <2>2. \A e \in Consoles : op[e] # None => op[e].doc # None
    BY <1>1, PendingFields, SomethingIsNotNone
  <2> QED BY <1>1, <1>4, <2>1, <2>2, PresentAreDocuments
<1>16. UnsharedInv(c)' BY <1>1, <1>3, <1>6, <1>8, <1>15 DEF UnsharedInv
<1>17. \A e \in Consoles \ {c} : Saving(e, {"create"}) =>
         /\ mem'[c] # None => mem'[c].doc.created # op[e].doc.created
         /\ op'[c] # None => op'[c].doc.created # op[e].doc.created
  <2>1. \A e \in Consoles : UnsharedInv(e) BY DEF IInv
  <2> QED BY <1>1, <1>3, <1>6, <1>8, <1>15, <2>1 DEF UnsharedInv, Saving
<1>18. SeesNothingNew(c) /\ FilesOnlyGo BY <1>1, <1>12 DEF SeesNothingNew, FilesOnlyGo
<1>19. \A e \in Consoles \ {c} : mem'[e] = mem[e] /\ op'[e] = op[e] BY <1>1, <1>3
<1>20. IInv' BY <1>11, <1>13, <1>14, <1>16, <1>17, <1>18, <1>19, OneConsole
<1> QED BY <1>12, <1>20

\* A change of the session that keeps whose conversation it is.
LEMMA ChangeKeeps ==
  ASSUME IInv, NEW c \in Consoles, Idle(c), mem[c] # None, NEW kind \in Changes,
         NEW changed \in Documents, changed.schema = mem[c].doc.schema,
         changed.identity = mem[c].doc.identity, changed.created = mem[c].doc.created,
         Grown(mem[c].doc.turns, changed.turns),
         Change(c, kind, changed), UNCHANGED <<file, damaged, lock>>
  PROVE  IInv' /\ Seen(c)' = Seen(c)
<1> DEFINE old == mem[c].doc
           new == [changed EXCEPT !.revision = old.revision + 1]
           save == [kind |-> kind, step |-> "sealed", id |-> mem[c].id, doc |-> new,
                    old |-> old, expected |-> old.revision]
           held == [id |-> mem[c].id, doc |-> new]
<1>1. TypeOK /\ op[c] = None /\ file' = file /\ damaged' = damaged /\ lock' = lock
  BY DEF IInv, Idle
<1>2. /\ mem[c].id \in Ids /\ old \in Documents /\ mem[c] = [id |-> mem[c].id, doc |-> old]
      /\ old.revision \in Nat
  BY <1>1, SessionFields, DocumentFields
<1>3. /\ new \in Documents /\ new.schema = old.schema /\ new.identity = old.identity
      /\ new.created = old.created /\ new.revision = old.revision + 1 /\ new.turns = changed.turns
  <2>1. changed \in Record /\ Len(changed.turns) <= MaxTurns BY DocumentFields
  <2>2. old.revision + 1 \in Nat BY <1>2
  <2>3. /\ new \in Record /\ new.turns = changed.turns /\ new.revision = old.revision + 1
        /\ new.schema = changed.schema /\ new.identity = changed.identity
        /\ new.created = changed.created
    BY <2>1, <2>2 DEF Record
  <2> QED BY <2>1, <2>3, RecordIsDocument
<1>4. op' = [op EXCEPT ![c] = save] BY DEF Change
<1>5. mem' = [mem EXCEPT ![c].doc = new] BY DEF Change
<1> HIDE DEF new
<1>6. mem'[c] = held /\ \A e \in Consoles \ {c} : mem'[e] = mem[e]
  <2>1. DOMAIN mem = Consoles BY <1>1 DEF TypeOK
  <2> QED BY <1>2, <1>5, <2>1
<1>7. held \in Sessions /\ held.doc = new /\ held.id = mem[c].id BY <1>2, <1>3 DEF Sessions
<1>8. save \in Pending BY <1>2, <1>3 DEF Pending, Kinds, Steps, Changes
<1>9. /\ save.kind = kind /\ save.step = "sealed" /\ save.doc = new /\ save.old = old
      /\ save.id = mem[c].id /\ save.expected = old.revision
  OBVIOUS
<1> HIDE DEF save, held, old
<1>10. save # None /\ held # None /\ old # None BY <1>2, <1>7, <1>8, SomethingIsNotNone
<1>11. op'[c] = save /\ \A e \in Consoles \ {c} : op'[e] = op[e] BY <1>1, <1>4 DEF TypeOK
<1>12. lock # c BY <1>1, IdleHoldsNoLock
<1>13. TypeOK'
  <2>1. op' \in [Consoles -> Pending \cup {None}] BY <1>1, <1>4, <1>8 DEF TypeOK
  <2>2. mem' = [mem EXCEPT ![c] = held]
    BY <1>2, <1>5, <1>7 DEF held, old
  <2>3. mem' \in [Consoles -> Sessions \cup {None}] BY <1>1, <1>7, <2>2 DEF TypeOK
  <2> QED BY <1>1, <1>9, <1>10, <1>11, <1>12, <2>1, <2>3 DEF TypeOK
<1>14. Seen(c)' = Seen(c)
  <2>1. Seen(c) = mem[c] BY <1>1 DEF Seen
  <2>2. kind # "create" BY DEF Changes
  <2>3. Seen(c)' = [id |-> mem[c].id, doc |-> old] BY <1>9, <1>10, <1>11, <2>2 DEF Seen
  <2> QED BY <1>2, <2>1, <2>3
<1>15. SessionInv(c)'
  <2>1. old.schema = Schema BY DEF IInv, SessionInv, old
  <2>2. Grown(old.turns, new.turns) BY <1>3 DEF old
  <2> QED BY <1>3, <1>6, <1>7, <1>9, <1>10, <1>11, <2>1, <2>2 DEF SessionInv
<1>16. UnsharedInv(c)' BY <1>9, <1>11 DEF UnsharedInv, Saving, Changes
<1>17. ComparedInv(c)' BY <1>9, <1>11 DEF ComparedInv
<1>18. \A e \in Consoles \ {c} : Saving(e, {"create"}) =>
         /\ mem'[c] # None => mem'[c].doc.created # op[e].doc.created
         /\ op'[c] # None => op'[c].doc.created # op[e].doc.created
  <2>1. \A e \in Consoles : UnsharedInv(e) BY DEF IInv
  <2>2. \A e \in Consoles : Saving(e, {"create"}) => old.created # op[e].doc.created
    BY <2>1 DEF UnsharedInv, old
  <2> QED BY <1>3, <1>6, <1>7, <1>9, <1>11, <2>2
<1>19. SeesNothingNew(c) /\ FilesOnlyGo BY <1>1, <1>14 DEF SeesNothingNew, FilesOnlyGo
<1>20. IInv' BY <1>6, <1>11, <1>13, <1>15, <1>16, <1>17, <1>18, <1>19, OneConsole
<1> QED BY <1>14, <1>20

LEMMA AppendTurnStep ==
  ASSUME IInv, NEW c \in Consoles, AppendTurn(c)
  PROVE  IInv' /\ Seen(c)' = Seen(c)
<1> DEFINE d == mem[c].doc
           longer == Appended(d.turns, NewTurn)
           changed == [d EXCEPT !.turns = longer]
<1>1. TypeOK /\ Idle(c) /\ mem[c] # None BY DEF IInv, AppendTurn
<1>2. /\ d \in Documents /\ d \in Record /\ d.turns \in Turns /\ Len(d.turns) <= MaxTurns
      /\ d # None /\ d \in Present
  BY <1>1, SessionFields, DocumentFields, PresentAreDocuments
<1>3. NewTurn \in Nat /\ NewTurn \notin ToSet(TurnIds(d.turns)) BY <1>1, <1>2, NewTurnIsNew
<1>4. longer \in Turns /\ Len(longer) <= MaxTurns /\ Grown(d.turns, longer)
  BY <1>2, <1>3, GrownByOne
<1>5. Change(c, "append", changed) /\ UNCHANGED <<file, damaged, lock>> BY DEF AppendTurn
<1> HIDE DEF longer
<1>6. /\ changed \in Record /\ changed.turns = longer /\ changed.schema = d.schema
      /\ changed.identity = d.identity /\ changed.created = d.created
  BY <1>2, <1>4 DEF Record
<1>7. changed \in Documents BY <1>4, <1>6, RecordIsDocument
<1>8. "append" \in Changes BY DEF Changes
<1> QED BY <1>1, <1>4, <1>5, <1>6, <1>7, <1>8, ChangeKeeps

LEMMA UndoStep ==
  ASSUME IInv, NEW c \in Consoles, UndoFromContext(c)
  PROVE  IInv' /\ Seen(c)' = Seen(c)
<1> DEFINE d == mem[c].doc
           undone == Undone(d.turns)
           changed == [d EXCEPT !.turns = undone]
<1>1. TypeOK /\ Idle(c) /\ mem[c] # None BY DEF IInv, UndoFromContext
<1>2. d \in Documents /\ d \in Record /\ d.turns \in Turns /\ Len(d.turns) <= MaxTurns
  BY <1>1, SessionFields, DocumentFields
<1>3. undone \in Turns /\ Len(undone) <= MaxTurns /\ Grown(d.turns, undone)
  BY <1>2, GrownByUndo
<1>4. Change(c, "undo", changed) /\ UNCHANGED <<file, damaged, lock>> BY DEF UndoFromContext
<1> HIDE DEF undone
<1>5. /\ changed \in Record /\ changed.turns = undone /\ changed.schema = d.schema
      /\ changed.identity = d.identity /\ changed.created = d.created
  BY <1>2, <1>3 DEF Record
<1>6. changed \in Documents BY <1>3, <1>5, RecordIsDocument
<1>7. "undo" \in Changes BY DEF Changes
<1> QED BY <1>1, <1>3, <1>4, <1>5, <1>6, <1>7, ChangeKeeps

LEMMA NoteStep ==
  ASSUME IInv, NEW c \in Consoles, NEW value \in BOOLEAN, Note(c, value)
  PROVE  IInv' /\ Seen(c)' = Seen(c)
<1> DEFINE d == mem[c].doc
           changed == [d EXCEPT !.noted = value]
<1>1. TypeOK /\ Idle(c) /\ mem[c] # None BY DEF IInv, Note
<1>2. d \in Documents /\ d \in Record /\ d.turns \in Turns /\ Len(d.turns) <= MaxTurns
  BY <1>1, SessionFields, DocumentFields
<1>3. Grown(d.turns, d.turns) BY <1>2, GrownInPlace
<1>4. Change(c, "note", changed) /\ UNCHANGED <<file, damaged, lock>> BY DEF Note
<1>5. /\ changed \in Record /\ changed.turns = d.turns /\ changed.schema = d.schema
      /\ changed.identity = d.identity /\ changed.created = d.created
  BY <1>2 DEF Record
<1>6. changed \in Documents BY <1>2, <1>5, RecordIsDocument
<1>7. "note" \in Changes BY DEF Changes
<1> QED BY <1>1, <1>3, <1>4, <1>5, <1>6, <1>7, ChangeKeeps

\* A save that is given up leaves the session what it was before the change.
LEMMA GiveUpStep ==
  ASSUME IInv, NEW c \in Consoles, op[c] # None, GiveUp(c)
  PROVE  IInv' /\ Seen(c)' = Seen(c)
<1>1. /\ TypeOK /\ file' = file /\ damaged' = damaged /\ SessionInv(c)
      /\ op' = [op EXCEPT ![c] = None] /\ lock' = IF lock = c THEN None ELSE lock
  BY DEF IInv, GiveUp
<1>2. op'[c] = None /\ \A e \in Consoles \ {c} : op'[e] = op[e] BY <1>1 DEF TypeOK
<1>3. /\ mem'[c] = Seen(c) /\ \A e \in Consoles \ {c} : mem'[e] = mem[e]
      /\ mem' \in [Consoles -> Sessions \cup {None}]
  <2>1. CASE op[c].kind = "create"
    <3>1. mem' = mem BY <2>1 DEF GiveUp
    <3> QED BY <1>1, <2>1, <3>1 DEF TypeOK, Seen
  <2>2. CASE op[c].kind # "create"
    <3>1. mem' = [mem EXCEPT ![c].doc = op[c].old] BY <2>2 DEF GiveUp, RolledBack
    <3>2. Saving(c, Changes) BY <1>1, <2>2, PendingFields DEF Saving, Changes, Kinds
    <3>3. /\ Seen(c) = [id |-> mem[c].id, doc |-> op[c].old] /\ Seen(c) \in Sessions
          /\ mem[c] # None
      BY <1>1, <3>2, SeenFields
    <3>4. mem[c] = [id |-> mem[c].id, doc |-> mem[c].doc] BY <1>1, <3>3, SessionFields
    <3>5. [mem[c] EXCEPT !.doc = op[c].old] = Seen(c) BY <3>3, <3>4
    <3>6. DOMAIN mem = Consoles BY <1>1 DEF TypeOK
    <3>7. mem' = [mem EXCEPT ![c] = Seen(c)] BY <3>1, <3>5, <3>6
    <3> QED BY <1>1, <3>3, <3>7 DEF TypeOK
  <2> QED BY <2>1, <2>2
<1>4. Seen(c)' = Seen(c) BY <1>2, <1>3 DEF Seen
<1>5. TypeOK'
  <2>1. op' \in [Consoles -> Pending \cup {None}] BY <1>1 DEF TypeOK
  <2>2. lock' \in Consoles \cup {None} /\ lock' # c BY <1>1, StoreAssumption DEF TypeOK
  <2>3. \A e \in Consoles \ {c} : lock' = e <=> lock = e BY <1>1, StoreAssumption
  <2> QED BY <1>1, <1>2, <1>3, <2>1, <2>2, <2>3 DEF TypeOK
<1>6. SessionInv(c)' BY <1>1, <1>2, <1>3, SeenFields DEF SessionInv, Saving
<1>7. UnsharedInv(c)' /\ ComparedInv(c)' BY <1>2 DEF UnsharedInv, ComparedInv, Saving
<1>8. \A e \in Consoles \ {c} : Saving(e, {"create"}) =>
        /\ mem'[c] # None => mem'[c].doc.created # op[e].doc.created
        /\ op'[c] # None => op'[c].doc.created # op[e].doc.created
  <2>1. \A e \in Consoles : UnsharedInv(e) BY DEF IInv
  <2> QED BY <1>1, <1>2, <1>3, <2>1, SeenFields DEF UnsharedInv
<1>9. SeesNothingNew(c) /\ FilesOnlyGo BY <1>1, <1>4 DEF SeesNothingNew, FilesOnlyGo
<1>10. IInv' BY <1>2, <1>3, <1>5, <1>6, <1>7, <1>8, <1>9, OneConsole
<1> QED BY <1>4, <1>10

\* The next step of a save: only the stage of the save changes, and who holds the lock.
LEMMA AdvanceStep ==
  ASSUME IInv, NEW c \in Consoles, op[c] # None, NEW step \in {"locked", "checked"},
         op' = [op EXCEPT ![c].step = step], lock' = c, lock \in {c, None},
         UNCHANGED <<file, damaged, mem>>,
         (Saving(c, Changes) /\ step = "checked") =>
           /\ Loaded(file[op[c].id]) = op[c].old
           /\ \A e \in Consoles : Behind(Seen(e), op[c].id, op[c].old)
  PROVE  IInv' /\ Seen(c)' = Seen(c)
<1> DEFINE next == [op[c] EXCEPT !.step = step]
<1>1. /\ TypeOK /\ SessionInv(c) /\ UnsharedInv(c) /\ op[c] \in Pending
      /\ file' = file /\ damaged' = damaged /\ mem' = mem
  BY PendingFields DEF IInv
<1>2. /\ next \in Pending /\ next.step = step /\ next.kind = op[c].kind /\ next.id = op[c].id
      /\ next.doc = op[c].doc /\ next.old = op[c].old /\ next.expected = op[c].expected
  BY <1>1 DEF Pending, Steps
<1>3. op' = [op EXCEPT ![c] = next] BY <1>1 DEF TypeOK
<1> HIDE DEF next
<1>4. op'[c] = next /\ \A e \in Consoles \ {c} : op'[e] = op[e] BY <1>1, <1>3 DEF TypeOK
<1>5. next # None BY <1>2, SomethingIsNotNone
<1>6. TypeOK'
  <2>1. op' \in [Consoles -> Pending \cup {None}] BY <1>1, <1>2, <1>3 DEF TypeOK
  <2>2. \A e \in Consoles \ {c} : lock # e /\ lock' # e BY StoreAssumption
  <2> QED BY <1>1, <1>2, <1>4, <1>5, <2>1, <2>2 DEF TypeOK
<1>7. Seen(c)' = Seen(c) /\ \A e \in Consoles \ {c} : Seen(e)' = Seen(e)
  BY <1>1, <1>2, <1>4, <1>5 DEF Seen
<1>8. SessionInv(c)' BY <1>1, <1>2, <1>4, <1>5 DEF SessionInv, Saving
<1>9. UnsharedInv(c)' BY <1>1, <1>2, <1>4, <1>5 DEF UnsharedInv, Saving
<1>10. ComparedInv(c)'
  <2> SUFFICES ASSUME Saving(c, Changes), step = "checked"
               PROVE  /\ file'[next.id] = None \/ Loaded(file'[next.id]) = next.old
                      /\ \A e \in Consoles : Behind(Seen(e)', next.id, next.old)
    BY <1>2, <1>4, <1>5 DEF ComparedInv, Saving
  <2> QED BY <1>1, <1>2, <1>7
<1>11. \A e \in Consoles \ {c} : Saving(e, {"create"}) =>
         /\ mem'[c] # None => mem'[c].doc.created # op[e].doc.created
         /\ op'[c] # None => op'[c].doc.created # op[e].doc.created
  <2>1. \A e \in Consoles : UnsharedInv(e) BY DEF IInv
  <2> QED BY <1>1, <1>2, <1>4, <2>1 DEF UnsharedInv
<1>12. SeesNothingNew(c) /\ FilesOnlyGo BY <1>1, <1>7 DEF SeesNothingNew, FilesOnlyGo
<1>13. IInv' BY <1>1, <1>4, <1>6, <1>8, <1>9, <1>10, <1>11, <1>12, OneConsole
<1> QED BY <1>7, <1>13

LEMMA LockStep ==
  ASSUME IInv, NEW c \in Consoles, Lock(c)
  PROVE  IInv' /\ Seen(c)' = Seen(c)
  BY AdvanceStep DEF Lock, LockFree

\* What the comparison established: the file is what the save is a change of.
LEMMA ComparedWith ==
  ASSUME IInv, NEW c \in Consoles, Saving(c, Changes), MayBeWritten(c)
  PROVE  /\ file[op[c].id] # None /\ Loaded(file[op[c].id]) = op[c].old
         /\ \A e \in Consoles : Behind(Seen(e), op[c].id, op[c].old)
<1> DEFINE i == op[c].id
<1>1. file[i] # None /\ Unchanged(c, Loaded(file[i]))
  BY DEF MayBeWritten, Saving, Changes
<1>2. i \in Ids /\ file[i] \in Documents BY <1>1, PendingFields DEF IInv, TypeOK, Saving
<1>3. \A e \in Consoles : Behind(Seen(e), i, Loaded(file[i])) BY <1>1, <1>2 DEF IInv, FilesInv
<1>4. /\ op[c].id = mem[c].id /\ op[c].expected = op[c].old.revision
      /\ op[c].old.created = op[c].doc.created
  BY DEF IInv, SessionInv
<1>5. Seen(c) = [id |-> mem[c].id, doc |-> op[c].old] /\ Seen(c) # None BY SeenFields DEF IInv
<1>6. Loaded(file[i]).created = op[c].old.created /\ Loaded(file[i]).revision = op[c].old.revision
  BY <1>1, <1>4 DEF Unchanged
<1>7. Behind(Seen(c), i, Loaded(file[i])) BY <1>3
<1>8. Seen(c).id = i /\ Seen(c).doc = op[c].old BY <1>4, <1>5
<1>9. Loaded(file[i]) = op[c].old BY <1>5, <1>6, <1>7, <1>8 DEF Behind
<1> QED BY <1>1, <1>3, <1>9

LEMMA CompareStep ==
  ASSUME IInv, NEW c \in Consoles, Compare(c)
  PROVE  IInv' /\ Seen(c)' = Seen(c)
<1>1. op[c] # None /\ op[c].step = "locked" /\ MayBeWritten(c) BY DEF Compare
<1>2. lock = c BY <1>1 DEF IInv, TypeOK
<1>3. op' = [op EXCEPT ![c].step = "checked"] /\ UNCHANGED <<file, damaged, mem>> /\ lock' = lock
  BY DEF Compare
<1>4. Saving(c, Changes) => /\ Loaded(file[op[c].id]) = op[c].old
                            /\ \A e \in Consoles : Behind(Seen(e), op[c].id, op[c].old)
  BY <1>1, ComparedWith
<1> QED BY <1>1, <1>2, <1>3, <1>4, AdvanceStep

LEMMA ResumeStep ==
  ASSUME IInv, NEW c \in Consoles, NEW i \in Ids, Resume(c, i)
  PROVE  /\ IInv' /\ Stored(i) # None
         /\ Seen(c)' = [id |-> i, doc |-> Stored(i)]
<1> DEFINE d == Loaded(file[i])
           held == [id |-> i, doc |-> d]
<1>1. /\ TypeOK /\ op[c] = None /\ file[i] # None /\ i \notin damaged
      /\ mem' = [mem EXCEPT ![c] = held]
      /\ file' = file /\ damaged' = damaged /\ op' = op /\ lock' = lock
  BY DEF Resume, Idle, IInv
<1>2. file[i] \in Documents BY <1>1 DEF TypeOK
<1>3. d \in Documents /\ d # None /\ d.schema = Schema /\ d.created = file[i].created
  BY <1>2, LoadedFields
<1>4. Stored(i) = d BY <1>1 DEF Stored
<1> HIDE DEF d
<1>5. held \in Sessions /\ held.doc = d BY <1>3 DEF Sessions
<1> HIDE DEF held
<1>6. mem'[c] = held /\ \A e \in Consoles \ {c} : mem'[e] = mem[e] BY <1>1 DEF TypeOK
<1>7. TypeOK' BY <1>1, <1>5 DEF TypeOK
<1>8. Seen(c)' = held BY <1>1, <1>6 DEF Seen
<1>9. SessionInv(c)' BY <1>1, <1>3, <1>5, <1>6 DEF SessionInv, Saving
<1>10. UnsharedInv(c)' /\ ComparedInv(c)' BY <1>1 DEF UnsharedInv, ComparedInv, Saving
<1>11. \A e \in Consoles \ {c} : Saving(e, {"create"}) =>
         /\ mem'[c] # None => mem'[c].doc.created # op[e].doc.created
         /\ op'[c] # None => op'[c].doc.created # op[e].doc.created
  <2>1. \A e \in Consoles : UnsharedInv(e) BY DEF IInv
  <2> QED BY <1>1, <1>3, <1>5, <1>6, <2>1 DEF UnsharedInv
<1>12. SeesNothingNew(c) /\ FilesOnlyGo BY <1>1, <1>8 DEF SeesNothingNew, FilesOnlyGo, held, d
<1>13. IInv' BY <1>1, <1>6, <1>7, <1>9, <1>10, <1>11, <1>12, OneConsole
<1> QED BY <1>3, <1>4, <1>8, <1>13 DEF held

LEMMA CrashStep ==
  ASSUME IInv, NEW c \in Consoles, Crash(c)
  PROVE  IInv' /\ Seen(c)' = None
<1>1. /\ TypeOK /\ mem' = [mem EXCEPT ![c] = None] /\ op' = [op EXCEPT ![c] = None]
      /\ lock' = (IF lock = c THEN None ELSE lock) /\ file' = file /\ damaged' = damaged
  BY DEF Crash, LockAfter, IInv
<1>2. /\ mem'[c] = None /\ op'[c] = None
      /\ \A e \in Consoles \ {c} : mem'[e] = mem[e] /\ op'[e] = op[e]
  BY <1>1 DEF TypeOK
<1>3. Seen(c)' = None BY <1>2 DEF Seen
<1>4. TypeOK'
  <2>1. lock' \in Consoles \cup {None} /\ lock' # c BY <1>1, StoreAssumption DEF TypeOK
  <2>2. \A e \in Consoles \ {c} : lock' = e <=> lock = e BY <1>1, StoreAssumption
  <2> QED BY <1>1, <1>2, <2>1, <2>2 DEF TypeOK
<1>5. SessionInv(c)' /\ UnsharedInv(c)' /\ ComparedInv(c)'
  BY <1>2 DEF SessionInv, UnsharedInv, ComparedInv, Saving
<1>6. SeesNothingNew(c) /\ FilesOnlyGo BY <1>1, <1>3 DEF SeesNothingNew, FilesOnlyGo
<1>7. IInv' BY <1>2, <1>4, <1>5, <1>6, OneConsole
<1> QED BY <1>3, <1>7

\* A file removed or damaged from outside.
LEMMA OutsideStep ==
  ASSUME IInv, NEW i \in Ids, RemoveFile(i) \/ DamageFile(i)
  PROVE  IInv' /\ \A e \in Consoles : Seen(e)' = Seen(e)
<1>1. /\ mem' = mem /\ op' = op /\ lock' = lock /\ TypeOK
      /\ \A e \in Consoles : SessionInv(e) /\ UnsharedInv(e)
  BY DEF RemoveFile, DamageFile, IInv
<1>2. FilesOnlyGo /\ TypeOK'
  <2>1. CASE RemoveFile(i) BY <1>1, <2>1 DEF RemoveFile, FilesOnlyGo, TypeOK
  <2>2. CASE DamageFile(i) BY <1>1, <2>2 DEF DamageFile, FilesOnlyGo, TypeOK
  <2> QED BY <2>1, <2>2
<1>3. \A e \in Consoles : Seen(e)' = Seen(e) BY <1>1 DEF Seen
<1>4. \A e \in Consoles : SeesNothingNew(e) BY <1>3 DEF SeesNothingNew
<1>5. \A e \in Consoles : SessionInv(e)' /\ UnsharedInv(e)'
  <2>1. \A k \in Ids : file'[k] # None => file'[k] = file[k] BY <1>2 DEF FilesOnlyGo
  <2>2. \A e \in Consoles : SessionInv(e)' BY <1>1 DEF SessionInv, Saving
  <2>3. \A e \in Consoles : UnsharedInv(e)' BY <1>1, <2>1 DEF UnsharedInv, Saving
  <2> QED BY <2>2, <2>3
<1>6. \A e \in Consoles : ComparedInv(e)' BY <1>1, <1>2, <1>4, ComparedStays
<1>7. FilesInv' BY <1>2, <1>4, FilesStay
<1> QED BY <1>2, <1>3, <1>5, <1>6, <1>7 DEF IInv

-----------------------------------------------------------------------------
(* The step that writes a file. *)

\* The compare and swap: what is replaced is what the console saw, or is not there.
LEMMA ReplaceStep ==
  ASSUME IInv, NEW c \in Consoles, Replace(c), NEW i, i = op[c].id, NEW doc, doc = op[c].doc
  PROVE  /\ IInv'
         /\ i \in Ids /\ doc \in Documents /\ Stored(i)' = doc
         /\ \A j \in Ids \ {i} : Stored(j)' = Stored(j)
         /\ \A e \in Consoles \ {c} : Seen(e)' = Seen(e)
         /\ Seen(c)' = [id |-> i, doc |-> doc]
         /\ \/ Stored(i) = None /\ Saving(c, {"create"})
            \/ /\ Saving(c, Changes) /\ Seen(c) = [id |-> i, doc |-> op[c].old]
               /\ Seen(c) # None /\ Stored(i) \in {op[c].old, None}
<1> DEFINE held == [id |-> i, doc |-> doc]
<1>1. /\ op[c] # None /\ op[c].step = "checked" /\ (op[c].kind = "create" => file[i] = None)
      /\ file' = [file EXCEPT ![i] = doc] /\ damaged' = damaged \ {i}
      /\ op' = [op EXCEPT ![c] = None] /\ lock' = None
  BY DEF Replace
<1>2. /\ TypeOK /\ SessionInv(c) /\ UnsharedInv(c) /\ ComparedInv(c) /\ FilesInv
      /\ \A e \in Consoles : SessionInv(e) /\ UnsharedInv(e)
  BY DEF IInv
<1>3. i \in Ids /\ doc \in Documents /\ doc # None /\ doc.schema = Schema /\ doc.revision \in Nat
  BY <1>1, <1>2, PendingFields, DocumentFields DEF SessionInv
<1>4. Loaded(doc) = doc BY <1>3, LoadedFields
<1>5. Saving(c, {"create"}) \/ Saving(c, Changes)
  BY <1>1, <1>2, PendingFields DEF Saving, Changes, Kinds
<1>6. Saving(c, Changes) => /\ mem' = mem /\ mem[c] = held
                            /\ Seen(c) = [id |-> i, doc |-> op[c].old] /\ Seen(c) # None
  <2> SUFFICES ASSUME Saving(c, Changes)
               PROVE  /\ mem' = mem /\ mem[c] = held
                      /\ Seen(c) = [id |-> i, doc |-> op[c].old] /\ Seen(c) # None
    OBVIOUS
  <2>1. mem' = mem BY DEF Replace, Saving, Changes
  <2>2. mem[c] # None /\ i = mem[c].id /\ doc = mem[c].doc BY <1>2 DEF SessionInv
  <2>3. mem[c] = held BY <1>2, <2>2, SessionFields
  <2> QED BY <1>2, <2>1, <2>2, <2>3, SeenFields
<1>7. Saving(c, {"create"}) => mem' = [mem EXCEPT ![c] = held] BY DEF Replace, Saving
<1>8. held \in Sessions BY <1>3 DEF Sessions
<1>9. held.id = i /\ held.doc = doc OBVIOUS
<1> HIDE DEF held
<1>10. /\ mem'[c] = held /\ \A e \in Consoles \ {c} : mem'[e] = mem[e]
       /\ mem' \in [Consoles -> Sessions \cup {None}]
  BY <1>2, <1>5, <1>6, <1>7, <1>8 DEF TypeOK
<1>11. op'[c] = None /\ \A e \in Consoles \ {c} : op'[e] = op[e] BY <1>1, <1>2 DEF TypeOK
<1>12. file'[i] = doc /\ \A j \in Ids \ {i} : file'[j] = file[j] BY <1>1, <1>2, <1>3 DEF TypeOK
<1>13. lock = c BY <1>1, <1>2 DEF TypeOK
<1>14. \A e \in Consoles \ {c} : op[e] # None => op[e].step = "sealed"
  BY <1>2, <1>13 DEF TypeOK
<1>15. TypeOK'
  <2>1. file' \in [Ids -> Documents \cup {None}] BY <1>1, <1>2, <1>3 DEF TypeOK
  <2>2. op' \in [Consoles -> Pending \cup {None}] BY <1>1, <1>2 DEF TypeOK
  <2>3. damaged' \subseteq {j \in Ids : file'[j] # None} BY <1>1, <1>2, <1>12 DEF TypeOK
  <2>4. \A e \in Consoles : lock' # e BY <1>1, StoreAssumption
  <2> QED BY <1>1, <1>10, <1>11, <1>14, <2>1, <2>2, <2>3, <2>4 DEF TypeOK
<1>16. Seen(c)' = held /\ \A e \in Consoles \ {c} : Seen(e)' = Seen(e)
  BY <1>10, <1>11 DEF Seen
<1>17. Stored(i)' = doc /\ \A j \in Ids \ {i} : Stored(j)' = Stored(j)
  <2>1. i \notin damaged' /\ \A j \in Ids \ {i} : j \in damaged' <=> j \in damaged BY <1>1
  <2>2. Stored(i)' = IF file'[i] = None \/ i \in damaged' THEN None ELSE Loaded(file'[i])
    BY DEF Stored
  <2>3. Stored(i)' = doc BY <1>3, <1>4, <1>12, <2>1, <2>2
  <2>4. \A j \in Ids \ {i} : Stored(j)' = Stored(j) BY <1>12, <2>1 DEF Stored
  <2> QED BY <2>3, <2>4
<1>18. Saving(c, Changes) => /\ op[c].old \in Documents /\ op[c].old.created = doc.created
                             /\ doc.revision = op[c].old.revision + 1
                             /\ file[i] = None \/ Loaded(file[i]) = op[c].old
                             /\ \A e \in Consoles : Behind(Seen(e), i, op[c].old)
  BY <1>1, <1>2, PendingFields DEF SessionInv, ComparedInv, Saving
<1>19. FilesInv'
  <2> SUFFICES ASSUME NEW j \in Ids, file'[j] # None, NEW e \in Consoles
               PROVE  Behind(Seen(e)', j, Loaded(file'[j]))
    BY DEF FilesInv
  <2>1. CASE j # i /\ e # c
    BY <1>2, <1>12, <1>16, <2>1 DEF FilesInv
  <2>2. CASE j # i /\ e = c BY <1>9, <1>16, <2>2 DEF Behind
  <2>3. CASE j = i /\ e = c BY <1>3, <1>4, <1>9, <1>12, <1>16, <2>3 DEF Behind
  <2>4. CASE j = i /\ e # c
    <3>1. Seen(e)' = Seen(e) /\ Loaded(file'[j]) = doc BY <1>4, <1>12, <1>16, <2>4
    <3>2. CASE Saving(c, Changes)
      <4>1. Behind(Seen(e), i, op[c].old) /\ op[c].old.revision \in Nat
        BY <1>18, <3>2, DocumentFields
      <4>2. Seen(e) # None => Seen(e).doc.revision \in Nat
        <5>1. Seen(e) # None => Seen(e).doc \in Documents BY <1>2, SeenFields DEF Sessions
        <5> QED BY <5>1, DocumentFields
      <4>3. Behind(Seen(e), i, doc) BY <1>18, <3>2, <4>1, <4>2 DEF Behind
      <4> QED BY <2>4, <3>1, <4>3
    <3>3. CASE Saving(c, {"create"})
      <4>1. mem[e] # None => mem[e].doc.created # doc.created BY <1>2, <3>3 DEF UnsharedInv
      <4>2. Seen(e) # None => Seen(e).doc.created # doc.created BY <1>2, <4>1, SeenFields
      <4> QED BY <3>1, <4>2 DEF Behind
    <3> QED BY <1>5, <3>2, <3>3
  <2> QED BY <2>1, <2>2, <2>3, <2>4
<1>20. ASSUME NEW e \in Consoles PROVE SessionInv(e)' /\ UnsharedInv(e)' /\ ComparedInv(e)'
  <2>1. CASE e = c
    BY <1>3, <1>9, <1>10, <1>11, <2>1 DEF SessionInv, UnsharedInv, ComparedInv, Saving
  <2>2. CASE e # c
    <3>1. SessionInv(e)' BY <1>2, <1>10, <1>11, <2>2 DEF SessionInv, Saving
    <3>2. ComparedInv(e)' BY <1>11, <1>14, <2>2 DEF ComparedInv, Saving
    <3>3. Saving(e, {"create"}) => doc.created # op[e].doc.created
      BY <1>1, <1>2, <2>2 DEF UnsharedInv
    <3>4. \A j \in Ids : file'[j] # None => file'[j] = file[j] \/ file'[j] = doc BY <1>12
    <3>5. \A k \in Consoles : mem'[k] # None => mem'[k] = mem[k] \/ mem'[k].doc = doc
      BY <1>9, <1>10
    <3>6. \A k \in Consoles : op'[k] # None => k # c /\ op'[k] = op[k] BY <1>11
    <3>7. UnsharedInv(e)'
      BY <1>2, <1>11, <2>2, <3>3, <3>4, <3>5, <3>6 DEF UnsharedInv, Saving
    <3> QED BY <3>1, <3>2, <3>7
  <2> QED BY <2>1, <2>2
<1>21. IInv' BY <1>15, <1>19, <1>20 DEF IInv
<1>22. \/ Stored(i) = None /\ Saving(c, {"create"})
       \/ /\ Saving(c, Changes) /\ Seen(c) = [id |-> i, doc |-> op[c].old] /\ Seen(c) # None
          /\ Stored(i) \in {op[c].old, None}
  <2>1. CASE Saving(c, {"create"}) BY <1>1, <2>1 DEF Stored, Saving
  <2>2. CASE Saving(c, Changes) BY <1>6, <1>18, <2>2 DEF Stored
  <2> QED BY <1>5, <2>1, <2>2
<1> QED BY <1>3, <1>16, <1>17, <1>21, <1>22 DEF held

-----------------------------------------------------------------------------
(* The invariant. *)

LEMMA InitInv == Init => IInv
<1> SUFFICES ASSUME Init PROVE IInv
  OBVIOUS
<1>1. \A c \in Consoles : mem[c] = None /\ op[c] = None BY DEF Init
<1>2. TypeOK BY <1>1, StoreAssumption DEF Init, TypeOK
<1>3. \A c \in Consoles : Seen(c) = None BY <1>1 DEF Seen
<1>4. FilesInv BY <1>3 DEF FilesInv, Behind
<1>5. \A c \in Consoles : SessionInv(c) /\ UnsharedInv(c) /\ ComparedInv(c)
  BY <1>1 DEF SessionInv, UnsharedInv, ComparedInv, Saving
<1> QED BY <1>2, <1>4, <1>5 DEF IInv

LEMMA InvStep == IInv /\ [Next]_vars => IInv'
<1> SUFFICES ASSUME IInv, [Next]_vars PROVE IInv'
  OBVIOUS
<1>1. ASSUME NEW c \in Consoles, Begins(c) \/ Lock(c) \/ Saves(c) \/ Fail(c) \/ Crash(c)
      PROVE  IInv'
  <2>1. CASE Begins(c)
    BY <2>1, NewSessionStep, ResumeStep, NoteStep, AppendTurnStep, UndoStep DEF Begins
  <2>2. CASE Lock(c) BY <2>2, LockStep
  <2>3. CASE Saves(c)
    BY <2>3, CompareStep, GiveUpStep, ReplaceStep DEF Saves, Conflict
  <2>4. CASE Fail(c) BY <2>4, GiveUpStep DEF Fail
  <2>5. CASE Crash(c) BY <2>5, CrashStep
  <2> QED BY <1>1, <2>1, <2>2, <2>3, <2>4, <2>5
<1>2. ASSUME NEW i \in Ids, RemoveFile(i) \/ DamageFile(i) PROVE IInv'
  BY <1>2, OutsideStep
<1>3. CASE UNCHANGED vars
  <2>1. FilesOnlyGo /\ \A e \in Consoles : Seen(e)' = Seen(e)
    BY <1>3 DEF vars, FilesOnlyGo, Seen
  <2>2. \A e \in Consoles : SeesNothingNew(e) BY <2>1 DEF SeesNothingNew
  <2>3. FilesInv' BY <2>1, <2>2, FilesStay
  <2>4. \A e \in Consoles : ComparedInv(e)' BY <1>3, <2>1, <2>2, ComparedStays DEF vars
  <2>5. TypeOK' BY <1>3 DEF vars, TypeOK, IInv
  <2>6. \A e \in Consoles : SessionInv(e)' /\ UnsharedInv(e)'
    BY <1>3 DEF vars, SessionInv, UnsharedInv, Saving, IInv
  <2> QED BY <2>3, <2>4, <2>5, <2>6 DEF IInv
<1> QED BY <1>1, <1>2, <1>3 DEF Next

\* Every reachable state of the store satisfies the inductive invariant: no console has seen
\* anything newer than the file, and once a save compared the file, nothing newer than that.
THEOREM Invariance == Spec => []IInv
  BY InitInv, InvStep, PTL DEF Spec

\* The property TypeOK of the store: in particular the lock is held by the one console whose
\* save has taken it, and by nobody after a death.
THEOREM TypeCorrect == Spec => []TypeOK
<1>1. IInv => TypeOK BY DEF IInv
<1> QED BY <1>1, Invariance, PTL

\* The property RevisionNamesContent: a session between two saves whose number and birth are
\* those of the file holds what the file holds, whatever failed, died, was removed or was
\* saved by another console.
THEOREM RevisionsNameContent == Spec => []RevisionNamesContent
<1>1. IInv => RevisionNamesContent
  <2> SUFFICES ASSUME IInv, NEW c \in Consoles, mem[c] # None, op[c] = None,
                      Stored(mem[c].id) # None,
                      Stored(mem[c].id).created = mem[c].doc.created,
                      Stored(mem[c].id).revision = mem[c].doc.revision
               PROVE  Stored(mem[c].id) = mem[c].doc
    BY DEF RevisionNamesContent, Idle
  <2>1. mem[c].id \in Ids BY SessionFields DEF IInv
  <2>2. file[mem[c].id] # None /\ Stored(mem[c].id) = Loaded(file[mem[c].id]) BY DEF Stored
  <2>3. Behind(Seen(c), mem[c].id, Loaded(file[mem[c].id])) BY <2>1, <2>2 DEF IInv, FilesInv
  <2>4. Seen(c) = mem[c] BY DEF Seen
  <2> QED BY <2>2, <2>3, <2>4 DEF Behind
<1> QED BY <1>1, Invariance, PTL

-----------------------------------------------------------------------------
(* The store implements the register. *)

\* No console sees anything else and no file reads otherwise: a stutter of the register.
SameView ==
  /\ \A i \in Ids : Stored(i)' = Stored(i)
  /\ \A c \in Consoles : Seen(c)' = Seen(c)

StoredNow == [i \in Ids |-> Stored(i)]
SeenNow   == [c \in Consoles |-> Seen(c)]

LEMMA QuietView ==
  ASSUME NEW c \in Consoles, Seen(c)' = Seen(c), UNCHANGED <<file, damaged>>,
         \A e \in Consoles \ {c} : mem'[e] = mem[e] /\ op'[e] = op[e]
  PROVE  SameView
<1>1. \A e \in Consoles \ {c} : Seen(e)' = Seen(e) BY DEF Seen
<1>2. \A i \in Ids : Stored(i)' = Stored(i) BY DEF Stored
<1> QED BY <1>1, <1>2 DEF SameView

\* The steps of a save before its file is written, and after it failed.
LEMMA PendingView ==
  ASSUME IInv, NEW c \in Consoles,
         \/ \E i \in Ids : NewSession(c, i)
         \/ \E value \in BOOLEAN : Note(c, value)
         \/ AppendTurn(c) \/ UndoFromContext(c)
         \/ Lock(c) \/ Compare(c) \/ Conflict(c) \/ Fail(c)
  PROVE  SameView
<1>1. DOMAIN mem = Consoles /\ DOMAIN op = Consoles BY DEF IInv, TypeOK
<1>2. Seen(c)' = Seen(c)
  BY NewSessionStep, NoteStep, AppendTurnStep, UndoStep, LockStep, CompareStep, GiveUpStep
  DEF Conflict, Fail
<1>3. UNCHANGED <<file, damaged>>
  BY DEF NewSession, Note, AppendTurn, UndoFromContext, Lock, Compare, Conflict, Fail, GiveUp
<1>4. \A e \in Consoles \ {c} : mem'[e] = mem[e] /\ op'[e] = op[e]
  BY <1>1 DEF NewSession, Note, AppendTurn, UndoFromContext, Change, Lock, Compare, Conflict,
     Fail, GiveUp, RolledBack
<1> QED BY <1>2, <1>3, <1>4, QuietView

LEMMA ReplaceRefines ==
  ASSUME IInv, NEW c \in Consoles, Replace(c)
  PROVE  Register!Next
<1>1. PICK i, doc : i = op[c].id /\ doc = op[c].doc OBVIOUS
<1>2. /\ i \in Ids /\ doc \in Documents /\ Stored(i)' = doc
      /\ \A j \in Ids \ {i} : Stored(j)' = Stored(j)
      /\ \A e \in Consoles \ {c} : Seen(e)' = Seen(e)
      /\ Seen(c)' = [id |-> i, doc |-> doc]
      /\ \/ Stored(i) = None /\ Saving(c, {"create"})
         \/ /\ Saving(c, Changes) /\ Seen(c) = [id |-> i, doc |-> op[c].old]
            /\ Seen(c) # None /\ Stored(i) \in {op[c].old, None}
  BY <1>1, ReplaceStep
<1>3. doc # None BY <1>2, SomethingIsNotNone
<1>4. SeenNow' = [SeenNow EXCEPT ![c] = [id |-> i, doc |-> StoredNow'[i]]]
  BY <1>2 DEF SeenNow, StoredNow
<1>5. \A j \in Ids \ {i} : StoredNow'[j] = StoredNow[j] BY <1>2 DEF StoredNow
<1>6. StoredNow'[i] = doc /\ StoredNow[i] = Stored(i) /\ SeenNow[c] = Seen(c)
  BY <1>2 DEF StoredNow, SeenNow
<1>7. CASE Stored(i) = None /\ Saving(c, {"create"})
  <2>1. Register!Create(c, i)
    BY <1>3, <1>4, <1>5, <1>6, <1>7 DEF Register!Create, Register!OnlyWrites, StoredNow, SeenNow
  <2> QED BY <1>2, <2>1 DEF Register!Next
<1>8. CASE /\ Saving(c, Changes) /\ Seen(c) = [id |-> i, doc |-> op[c].old]
           /\ Seen(c) # None /\ Stored(i) \in {op[c].old, None}
  <2>1. /\ doc.revision = op[c].old.revision + 1 /\ doc.created = op[c].old.created
        /\ doc.identity = op[c].old.identity
    BY <1>1, <1>8 DEF IInv, SessionInv
  <2>2. SeenNow[c].id = i /\ SeenNow[c].doc = op[c].old /\ SeenNow[c] # None BY <1>6, <1>8
  <2>3. Register!Update(c)
    BY <1>3, <1>4, <1>5, <1>6, <1>8, <2>1, <2>2
    DEF Register!Update, Register!OnlyWrites, StoredNow, SeenNow
  <2> QED BY <2>3 DEF Register!Next
<1> QED BY <1>2, <1>7, <1>8

LEMMA ResumeRefines ==
  ASSUME IInv, NEW c \in Consoles, NEW i \in Ids, Resume(c, i)
  PROVE  Register!Next
<1>1. Stored(i) # None /\ Seen(c)' = [id |-> i, doc |-> Stored(i)] BY ResumeStep
<1>2. \A e \in Consoles \ {c} : Seen(e)' = Seen(e)
  BY DEF Resume, Seen, IInv, TypeOK
<1>3. \A j \in Ids : Stored(j)' = Stored(j) BY DEF Resume, Stored
<1>4. SeenNow' = [SeenNow EXCEPT ![c] = [id |-> i, doc |-> StoredNow[i]]] /\ StoredNow' = StoredNow
      /\ StoredNow[i] # None
  BY <1>1, <1>2, <1>3 DEF SeenNow, StoredNow
<1>5. Register!Read(c, i) BY <1>4 DEF Register!Read, SeenNow, StoredNow
<1> QED BY <1>5 DEF Register!Next

LEMMA CrashRefines ==
  ASSUME IInv, NEW c \in Consoles, Crash(c)
  PROVE  Register!Next
<1>1. Seen(c)' = None BY CrashStep
<1>2. \A e \in Consoles \ {c} : Seen(e)' = Seen(e)
  BY DEF Crash, Seen, IInv, TypeOK
<1>3. \A j \in Ids : Stored(j)' = Stored(j) BY DEF Crash, Stored
<1>4. SeenNow' = [SeenNow EXCEPT ![c] = None] /\ StoredNow' = StoredNow
  BY <1>1, <1>2, <1>3 DEF SeenNow, StoredNow
<1>5. Register!Forget(c) BY <1>4 DEF Register!Forget, SeenNow, StoredNow
<1> QED BY <1>5 DEF Register!Next

LEMMA OutsideRefines ==
  ASSUME IInv, NEW i \in Ids, RemoveFile(i) \/ DamageFile(i)
  PROVE  Register!Next
<1>1. \A e \in Consoles : Seen(e)' = Seen(e) BY OutsideStep
<1>2. Stored(i)' = None /\ \A j \in Ids \ {i} : Stored(j)' = Stored(j)
  BY DEF RemoveFile, DamageFile, Stored, IInv, TypeOK
<1>3. StoredNow' = [StoredNow EXCEPT ![i] = None] /\ SeenNow' = SeenNow
  BY <1>1, <1>2 DEF SeenNow, StoredNow
<1>4. Register!Remove(i) BY <1>3 DEF Register!Remove, SeenNow, StoredNow
<1> QED BY <1>4 DEF Register!Next

\* The property StoreIsARegister: whatever fails, dies or is removed, a console that saves
\* replaces exactly the document it has seen by its successor (ConversationStore._persist).
THEOREM StoreRefinesTheRegister == Spec => StoreIsARegister
<1>1. Init => Register!Init
  <2> SUFFICES ASSUME Init PROVE Register!Init
    OBVIOUS
  <2>1. \A c \in Consoles : Seen(c) = None BY DEF Init, Seen
  <2> QED BY <2>1 DEF Register!Init
<1>2. IInv /\ [Next]_vars =>
        [Register!Next]_<<[i \in Ids |-> Stored(i)], [c \in Consoles |-> Seen(c)]>>
  <2> SUFFICES ASSUME IInv, [Next]_vars
               PROVE  Register!Next \/ (StoredNow' = StoredNow /\ SeenNow' = SeenNow)
    BY DEF StoredNow, SeenNow
  <2>1. SameView => StoredNow' = StoredNow /\ SeenNow' = SeenNow
    BY DEF SameView, StoredNow, SeenNow
  <2>2. ASSUME NEW c \in Consoles, Begins(c) \/ Lock(c) \/ Saves(c) \/ Fail(c) \/ Crash(c)
        PROVE  Register!Next \/ SameView
    <3>1. CASE Crash(c) BY <3>1, CrashRefines
    <3>2. CASE Replace(c) BY <3>2, ReplaceRefines
    <3>3. ASSUME NEW i \in Ids, Resume(c, i) PROVE Register!Next BY <3>3, ResumeRefines
    <3> QED BY <2>2, <3>1, <3>2, <3>3, PendingView DEF Begins, Saves
  <2>3. ASSUME NEW i \in Ids, RemoveFile(i) \/ DamageFile(i) PROVE Register!Next
    BY <2>3, OutsideRefines
  <2>4. CASE UNCHANGED vars
    <3>1. SameView BY <2>4 DEF vars, SameView, Stored, Seen
    <3> QED BY <2>1, <3>1
  <2> QED BY <2>1, <2>2, <2>3, <2>4 DEF Next
<1> QED BY <1>1, <1>2, Invariance, PTL DEF StoreIsARegister, Register!Spec, Spec

-----------------------------------------------------------------------------
(* Turns are kept. *)

\* The property TurnsAreKept: while a conversation keeps its birth, a save only appends one
\* turn, takes turns out of the context, and drops the oldest when there are more than
\* max_turns, whichever of the consoles saves.
THEOREM NoTurnIsLost == Spec => TurnsAreKept
<1> DEFINE SameBirth(i) == /\ Stored(i) # None /\ Stored(i)' # None
                           /\ Stored(i)'.created = Stored(i).created
<1>1. ASSUME NEW i \in Ids, IInv, Stored(i) # None PROVE Stored(i).turns \in Turns
  <2>1. file[i] # None /\ file[i] \in Documents /\ Stored(i) = Loaded(file[i])
    BY <1>1 DEF Stored, IInv, TypeOK
  <2> QED BY <2>1, LoadedFields, DocumentFields
<1>2. ASSUME IInv, [Next]_vars, NEW i \in Ids, SameBirth(i)
      PROVE  Grown(Stored(i).turns, Stored(i)'.turns)
  <2>1. Stored(i).turns \in Turns BY <1>1, <1>2
  <2>2. Stored(i)' = Stored(i) => Grown(Stored(i).turns, Stored(i)'.turns)
    BY <2>1, GrownInPlace
  <2>3. ASSUME NEW c \in Consoles, Replace(c) PROVE Grown(Stored(i).turns, Stored(i)'.turns)
    <3>1. PICK k, doc : k = op[c].id /\ doc = op[c].doc OBVIOUS
    <3>2. /\ Stored(k)' = doc /\ \A j \in Ids \ {k} : Stored(j)' = Stored(j)
          /\ Stored(k) = None \/ (Saving(c, Changes) /\ Stored(k) \in {op[c].old, None})
      BY <1>2, <2>3, <3>1, ReplaceStep
    <3>3. CASE i # k BY <2>2, <3>2, <3>3
    <3>4. CASE i = k
      <4>1. Saving(c, Changes) /\ Stored(i) = op[c].old BY <1>2, <3>2, <3>4
      <4>2. Grown(op[c].old.turns, doc.turns) BY <1>2, <3>1, <4>1 DEF IInv, SessionInv
      <4> QED BY <3>2, <3>4, <4>1, <4>2
    <3> QED BY <3>3, <3>4
  <2>4. ASSUME NEW k \in Ids, RemoveFile(k) \/ DamageFile(k) PROVE Stored(i)' = Stored(i)
    <3>1. i # k BY <1>2, <2>4 DEF RemoveFile, DamageFile, Stored, IInv, TypeOK
    <3>2. file'[i] = file[i] /\ (i \in damaged' <=> i \in damaged)
      <4>1. CASE RemoveFile(k) BY <3>1, <4>1 DEF RemoveFile, IInv, TypeOK
      <4>2. CASE DamageFile(k) BY <3>1, <4>2 DEF DamageFile
      <4> QED BY <2>4, <4>1, <4>2
    <3> QED BY <3>2 DEF Stored
  <2>5. CASE UNCHANGED <<file, damaged>> BY <2>2, <2>5 DEF Stored
  <2>6. \/ UNCHANGED <<file, damaged>>
        \/ \E c \in Consoles : Replace(c)
        \/ \E k \in Ids : RemoveFile(k) \/ DamageFile(k)
    BY <1>2 DEF Next, vars, Begins, Saves, NewSession, Resume, Note, AppendTurn, UndoFromContext,
       Lock, Compare, Conflict, Fail, GiveUp, Crash
  <2> QED BY <2>2, <2>3, <2>4, <2>5, <2>6
<1>3. IInv /\ [Next]_vars =>
      [\A i \in Ids :
           (Stored(i) # None /\ Stored(i)' # None /\ Stored(i)'.created = Stored(i).created) =>
             LET before == Stored(i).turns
                 after  == Stored(i)'.turns
                 kept   == IF Len(after) > 0 /\ after[Len(after)].id \notin ToSet(TurnIds(before))
                           THEN Front(after) ELSE after
             IN /\ IsSuffix(TurnIds(kept), TurnIds(before))
                /\ Len(kept) < Len(before) => Len(after) = MaxTurns
                /\ \A k \in DOMAIN kept :
                     kept[k].included => before[Len(before) - Len(kept) + k].included
      ]_vars
  <2> SUFFICES ASSUME IInv, [Next]_vars, NEW i \in Ids, SameBirth(i)
               PROVE  Grown(Stored(i).turns, Stored(i)'.turns)
    BY DEF Grown, Kept
  <2> QED BY <1>2
<1> QED BY <1>3, Invariance, PTL DEF TurnsAreKept, Spec
-----------------------------------------------------------------------------
(***************************************************************************)
(* The console that asks the questions whose turns are saved: proofs about *)
(* InvestigationConsole, for any questions, operations and models.         *)
(*                                                                         *)
(* The type invariant of the console already says that one question holds  *)
(* the gate and that the flag tells when it is inside session.ask().  To   *)
(* this QuestionInv adds what the session says of that question.  Every    *)
(* step is either one of the question that holds the gate (Inner), or one  *)
(* beside it (Beside), which can at most clear the last run.               *)
(***************************************************************************)

USE DEF flags, queue, questions, about, latest, session, workers

\* One part of the type: a question holds the gate, and the flag says when it is inside.
Gates ==
  /\ \A k \in Questions : stage[k] \in Holds <=> gate = k
  /\ alive <=> \E k \in Questions : stage[k] \in Inside

\* The other: the fields alone.
Fields ==
  /\ {running, alive, caseAlive, armed, evidence} \subseteq BOOLEAN
  /\ {token, gate, lastRun} \subseteq Questions \cup {Absent}
  /\ deferred \in Seq(Models) /\ Len(deferred) <= MaxDeferred
  /\ stage \in [Questions -> Stages]
  /\ result \in [Questions -> Questions \cup {Absent}]
  /\ model \in Models
  /\ {runner, active, ground} \subseteq Models \cup {Absent}
  /\ outcome \in Outcomes
  /\ operation \in [Operations -> OpSteps]
  /\ change \in [step : ChangeSteps, to : Models] \cup {Absent}

\* What the session says of the question that is inside it.
QuestionInv(k) ==
  /\ stage[k] \in {"inside", "examining", "recording"} => outcome = "not attempted"
  /\ stage[k] = "recording" => lastRun \in {Absent, k}
  /\ (stage[k] = "leaving" /\ outcome \in {"answered", "unpublished"}) => lastRun \in {Absent, k}
  /\ result[k] \in {Absent, k}

\* The inductive invariant.
ConsoleInv == ConsoleTypeOK /\ \A k \in Questions : QuestionInv(k)

(* The queue of deferred commands. *)

\* The drained queue is well typed.
LEMMA EmptyQueue == <<>> \in Seq(Models) /\ Len(<<>>) <= MaxDeferred
<1>1. MaxDeferred \in Nat BY ConsoleAssumption
<1> QED BY <1>1

\* A command taken while a message is in flight keeps the queue typed and bounded.
LEMMA QueueGrows ==
  ASSUME ConsoleTypeOK, NEW m \in Selectable, DeferModelChange(m)
  PROVE  deferred' \in Seq(Models) /\ Len(deferred') <= MaxDeferred
<1>1. deferred \in Seq(Models) /\ m \in Models BY DEF ConsoleTypeOK, Models
<1>2. deferred' = Append(deferred, m) /\ Len(deferred) < MaxDeferred BY DEF DeferModelChange
<1>3. MaxDeferred \in Nat BY ConsoleAssumption
<1>4. /\ Append(deferred, m) \in Seq(Models) /\ Len(deferred) \in Nat
      /\ Len(Append(deferred, m)) = Len(deferred) + 1
  BY <1>1, AppendedAt
<1> QED BY <1>2, <1>3, <1>4

\* The command the drain runs is one that was taken.
LEMMA LastDeferred ==
  ASSUME ConsoleTypeOK, deferred # <<>>
  PROVE  deferred[Len(deferred)] \in Models
<1>1. deferred \in Seq(Models) BY DEF ConsoleTypeOK
<1> QED BY <1>1

\* The invariant holds as the console opens.
LEMMA ConsoleStarts == ConsoleInit => ConsoleInv
<1> SUFFICES ASSUME ConsoleInit PROVE ConsoleInv OBVIOUS
<1>1. ConsoleTypeOK
  <2>1. deferred \in Seq(Models) /\ Len(deferred) <= MaxDeferred
    BY EmptyQueue DEF ConsoleInit
  <2>2. \A k \in Questions : stage[k] \in Holds <=> gate = k
    BY ConsoleAssumption DEF ConsoleInit, Holds, Inside
  <2>3. alive <=> \E k \in Questions : stage[k] \in Inside
    BY DEF ConsoleInit, Inside
  <2> QED
    BY <2>1, <2>2, <2>3 DEF ConsoleInit, ConsoleTypeOK, Models, Stages,
           OpSteps, Outcomes
<1> QED BY <1>1 DEF ConsoleInit, ConsoleInv, QuestionInv

\* The operator, the loop and the workers of operations: the question inside the session
\* is left alone, or finds that its last run was cleared.
Beside ==
  /\ UNCHANGED <<gate, alive, outcome>> /\ lastRun' \in {lastRun, Absent}
  /\ DOMAIN stage' = Questions
  /\ \A k \in Questions :
       /\ stage'[k] = stage[k] \/ (stage[k] \notin Holds /\ stage'[k] \notin Holds)
       /\ result'[k] \in {result[k], Absent}

\* Nothing the operator does reaches into the question that holds the gate.
LEMMA OperatorTypes ==
  ASSUME ConsoleTypeOK, Operator PROVE ConsoleTypeOK' /\ Beside
<1> USE DEF ConsoleTypeOK, Beside, Models, Stages, Holds, Inside, ChangeSteps
<1>1. ASSUME NEW k \in Questions, Ask(k) PROVE ConsoleTypeOK' /\ Beside BY <1>1 DEF Ask
<1>2. ASSUME Interrupt PROVE ConsoleTypeOK' /\ Beside BY <1>2 DEF Interrupt, StopRunning
<1>3. ASSUME NewInvestigation PROVE ConsoleTypeOK' /\ Beside BY <1>3 DEF NewInvestigation
<1>4. ASSUME NEW o \in Operations, StartCaseOperation(o) PROVE ConsoleTypeOK' /\ Beside
  BY <1>4 DEF StartCaseOperation, Advance, OpSteps
<1>5. ASSUME NEW m \in Selectable, StartModelChange(m) PROVE ConsoleTypeOK' /\ Beside
  BY <1>5 DEF StartModelChange, BeginChange
<1>6. ASSUME NEW m \in Selectable, DeferModelChange(m) PROVE ConsoleTypeOK' /\ Beside
  BY <1>6, QueueGrows DEF DeferModelChange
<1>7. ASSUME NEW m \in Selectable, OpenDialog(m) PROVE ConsoleTypeOK' /\ Beside
  BY <1>7 DEF OpenDialog
<1>8. CASE TakeChoice BY <1>8 DEF TakeChoice, Choosing
<1>9. CASE CloseDialog BY <1>9 DEF CloseDialog
<1>10. ASSUME NEW o \in Operations, CommitSelection(o) PROVE ConsoleTypeOK' /\ Beside
  BY <1>10 DEF CommitSelection, Advance, OpSteps
<1>11. ASSUME NEW o \in Operations, CancelSelection(o) PROVE ConsoleTypeOK' /\ Beside
  BY <1>11 DEF CancelSelection, Advance, OpSteps
<1> QED
  BY <1>1, <1>2, <1>3, <1>4, <1>5, <1>6, <1>7, <1>8, <1>9, <1>10, <1>11 DEF Operator

\* Neither does the drain of the deferred commands,
LEMMA DrainTypes == ASSUME ConsoleTypeOK, Drain PROVE ConsoleTypeOK' /\ Beside
<1> USE DEF ConsoleTypeOK, Beside, Stages
<1>1. CASE Free /\ deferred # <<>>
  <2>1. deferred' \in Seq(Models) /\ Len(deferred') <= MaxDeferred
    BY <1>1, EmptyQueue DEF Drain
  <2>2. change' \in [step : ChangeSteps, to : Models]
    BY <1>1, LastDeferred DEF Drain, BeginChange, ChangeSteps
  <2> QED BY <1>1, <2>1, <2>2 DEF Drain
<1>2. CASE ~(Free /\ deferred # <<>>)
  BY <1>2 DEF Drain, RearmedWhileBusy
<1> QED BY <1>1, <1>2

\* nor the worker of a case operation, which clears the last run with the evidence,
LEMMA OperationTypes ==
  ASSUME ConsoleTypeOK, NEW o \in Operations, OperationStep(o) PROVE ConsoleTypeOK' /\ Beside
<1> USE DEF ConsoleTypeOK, Beside, Advance, OpSteps
<1>1. CASE RaiseFlag(o) BY <1>1 DEF RaiseFlag
<1>2. CASE OperationRefused(o) BY <1>2 DEF OperationRefused
<1>3. CASE ExchangeEvidence(o) BY <1>3 DEF ExchangeEvidence
<1>4. CASE LetGo(o) BY <1>4 DEF LetGo
<1>5. CASE CloseRaises(o) BY <1>5 DEF CloseRaises
<1>6. CASE BeginConversation(o) BY <1>6 DEF BeginConversation
<1>7. CASE CompleteCase(o) BY <1>7 DEF CompleteCase
<1>8. CASE LowerFlag(o) BY <1>8 DEF LowerFlag
<1>9. CASE StageSelection(o) BY <1>9 DEF StageSelection
<1>10. CASE ShowSelection(o) BY <1>10 DEF ShowSelection
<1> QED BY <1>1, <1>2, <1>3, <1>4, <1>5, <1>6, <1>7, <1>8, <1>9, <1>10 DEF OperationStep

\* nor the worker of a change of the model.
LEMMA ChangeTypes == ASSUME ConsoleTypeOK, ChangeStep PROVE ConsoleTypeOK' /\ Beside
<1> USE DEF ConsoleTypeOK, Beside, ChangeSteps
<1>1. CASE ModelRefused BY <1>1 DEF ModelRefused
<1>2. CASE PrepareConversation BY <1>2 DEF PrepareConversation
<1>3. CASE ActivateConversation BY <1>3 DEF ActivateConversation
<1>4. CASE SetModel BY <1>4 DEF SetModel
<1> QED BY <1>1, <1>2, <1>3, <1>4 DEF ChangeStep

\* Steps of a question that is not inside the session.
Outer(k) == NeverBegins(k) \/ GateTimeout(k) \/ Report(k) \/ Render(k)

\* A question outside the session does not reach into the one that is inside.
LEMMA OuterTypes ==
  ASSUME ConsoleTypeOK, NEW k \in Questions, Outer(k) PROVE ConsoleTypeOK' /\ Beside
<1> USE DEF ConsoleTypeOK, Beside, Stages, Holds, Inside
<1>1. CASE NeverBegins(k) BY <1>1 DEF NeverBegins
<1>2. CASE GateTimeout(k) BY <1>2 DEF GateTimeout, Reported
<1>3. CASE Report(k) BY <1>3 DEF Report, Reported
<1>4. CASE Render(k) BY <1>4 DEF Render, StopRunning
<1> QED BY <1>1, <1>2, <1>3, <1>4 DEF Outer

\* Whatever is done beside the question that holds the gate keeps the invariant.
LEMMA BesideKeeps ==
  ASSUME ConsoleInv, ConsoleTypeOK', Beside PROVE ConsoleInv'
<1> SUFFICES ASSUME NEW k \in Questions PROVE QuestionInv(k)' BY DEF ConsoleInv
<1>1. QuestionInv(k) BY DEF ConsoleInv
<1>2. /\ outcome' = outcome /\ lastRun' \in {lastRun, Absent} /\ result'[k] \in {result[k], Absent}
      /\ stage'[k] = stage[k] \/ stage'[k] \notin Holds
  BY DEF Beside
<1> QED BY <1>1, <1>2 DEF QuestionInv, Holds, Inside

\* Steps of the question that holds the gate, or takes it.
Alone(k) ==
  /\ DOMAIN stage' = Questions
  /\ \A j \in Questions \ {k} :
       stage'[j] = stage[j] /\ result'[j] = result[j] /\ stage[j] \notin Holds

Inner(k) ==
  \/ TakeGate(k) \/ Enter(k) \/ Decline(k) \/ Examine(k)
  \/ \E how \in {"answered", "unpublished", "failed"} : RunEnds(k, how)
  \/ RecordAnswer(k) \/ AnswerNotRecorded(k) \/ CatchFault(k)
  \/ RenderFault(k)
  \/ Leave(k) \/ ReleaseGate(k)

\* While a question takes or holds the gate, no other holds it.
LEMMA InnerIsAlone ==
  ASSUME ConsoleTypeOK, NEW k \in Questions, Inner(k) PROVE Alone(k)
<1>1. gate = k \/ gate = Absent
  BY DEF ConsoleTypeOK, Inner, TakeGate, GateFree, Enter, Decline,
         Examine, RunEnds, RecordAnswer, AnswerNotRecorded, CatchFault,
         RenderFault, Leave, ReleaseGate, Holds, Inside
<1>2. \A j \in Questions \ {k} : stage[j] \notin Holds
  BY <1>1, ConsoleAssumption DEF ConsoleTypeOK
<1>3. /\ DOMAIN stage' = Questions
      /\ \A j \in Questions \ {k} : stage'[j] = stage[j] /\ result'[j] = result[j]
  BY DEF ConsoleTypeOK, Inner, TakeGate, Enter, Decline, Examine,
         RunEnds, RecordAnswer, AnswerNotRecorded, CatchFault,
         RenderFault, Leave, ReleaseGate
<1> QED BY <1>2, <1>3 DEF Alone

\* The question that holds the gate keeps the fields typed,
LEMMA InnerFields ==
  ASSUME Fields, NEW k \in Questions, Inner(k) PROVE Fields'
<1> USE DEF Fields, Stages, Holds, Inside
<1>1. CASE TakeGate(k) BY <1>1 DEF TakeGate
<1>2. CASE Enter(k) BY <1>2 DEF Enter, Outcomes
<1>3. CASE Decline(k) BY <1>3 DEF Decline
<1>4. CASE Examine(k) BY <1>4 DEF Examine
<1>5. ASSUME NEW how \in {"answered", "unpublished", "failed"}, RunEnds(k, how) PROVE Fields'
  BY <1>5 DEF RunEnds, Outcomes
<1>6. CASE RecordAnswer(k) BY <1>6 DEF RecordAnswer, Outcomes
<1>7. CASE AnswerNotRecorded(k) BY <1>7 DEF AnswerNotRecorded, Outcomes
<1>8. CASE CatchFault(k) BY <1>8 DEF CatchFault
<1>9. CASE RenderFault(k) BY <1>9 DEF RenderFault, StopRunning
<1>10. CASE Leave(k) BY <1>10 DEF Leave, ResultOf
<1>11. CASE ReleaseGate(k) BY <1>11 DEF ReleaseGate
<1> QED BY <1>1, <1>2, <1>3, <1>4, <1>5, <1>6, <1>7, <1>8, <1>9, <1>10, <1>11 DEF Inner

\* and hands over gate and flag together.
LEMMA InnerGates ==
  ASSUME ConsoleTypeOK, NEW k \in Questions, Inner(k) PROVE Gates'
<1>1. Alone(k) /\ Gates /\ stage \in [Questions -> Stages] /\ alive \in BOOLEAN
  BY InnerIsAlone DEF ConsoleTypeOK, Gates
<1>2. /\ alive <=> stage[k] \in Inside
      /\ (stage[k] \in Holds /\ gate = k) \/ (stage[k] \notin Holds /\ gate # k)
  BY <1>1 DEF Gates, Alone, Holds
<1>3. SUFFICES /\ stage'[k] \in Holds => gate' = k
               /\ stage'[k] \notin Holds => gate' = Absent
               /\ alive' <=> stage'[k] \in Inside
  <2>1. \A j \in Questions \ {k} : stage'[j] \notin Holds /\ stage'[j] \notin Inside
    BY <1>1 DEF Alone, Holds
  <2>2. Absent \notin Questions BY ConsoleAssumption
  <2> QED BY <2>1, <2>2 DEF Gates
<1> USE <1>1, <1>2 DEF Gates, Holds, Inside
<1>4. CASE TakeGate(k) BY <1>4 DEF TakeGate
<1>5. CASE Enter(k) BY <1>5 DEF Enter
<1>6. CASE Decline(k) BY <1>6 DEF Decline
<1>7. CASE Examine(k) BY <1>7 DEF Examine
<1>8. ASSUME NEW how \in {"answered", "unpublished", "failed"}, RunEnds(k, how)
      PROVE  /\ stage'[k] \in Holds => gate' = k
             /\ stage'[k] \notin Holds => gate' = Absent
             /\ alive' <=> stage'[k] \in Inside
  BY <1>8 DEF RunEnds
<1>9. CASE RecordAnswer(k) BY <1>9 DEF RecordAnswer
<1>10. CASE AnswerNotRecorded(k) BY <1>10 DEF AnswerNotRecorded
<1>11. CASE CatchFault(k) BY <1>11 DEF CatchFault
<1>12. CASE RenderFault(k) BY <1>12 DEF RenderFault
<1>13. CASE Leave(k) BY <1>13 DEF Leave
<1>14. CASE ReleaseGate(k) BY <1>14 DEF ReleaseGate
<1> QED BY <1>4, <1>5, <1>6, <1>7, <1>8, <1>9, <1>10, <1>11, <1>12, <1>13, <1>14 DEF Inner

\* Both parts of the type, for the question that holds the gate.
LEMMA InnerTypes ==
  ASSUME ConsoleTypeOK, NEW k \in Questions, Inner(k) PROVE ConsoleTypeOK'
<1>1. Fields BY DEF ConsoleTypeOK, Fields
<1> QED BY <1>1, InnerFields, InnerGates DEF ConsoleTypeOK, Fields, Gates

\* The question that holds the gate keeps the invariant.
LEMMA InnerKeeps ==
  ASSUME ConsoleInv, NEW k \in Questions, Inner(k) PROVE ConsoleInv'
<1>1. ConsoleTypeOK /\ ConsoleTypeOK' /\ Alone(k) BY InnerTypes, InnerIsAlone DEF ConsoleInv
<1>2. ASSUME NEW j \in Questions \ {k} PROVE QuestionInv(j)'
  BY <1>1, <1>2 DEF ConsoleInv, QuestionInv, Alone, Holds, Inside
<1>3. QuestionInv(k)'
  <2> USE <1>1 DEF QuestionInv, ConsoleTypeOK
  <2>0. QuestionInv(k) BY DEF ConsoleInv
  <2>1. CASE TakeGate(k) BY <2>0, <2>1 DEF TakeGate
  <2>2. CASE Enter(k) BY <2>0, <2>2 DEF Enter
  <2>3. CASE Decline(k) BY <2>0, <2>3 DEF Decline
  <2>4. CASE Examine(k) BY <2>0, <2>4 DEF Examine
  <2>5. ASSUME NEW how \in {"answered", "unpublished", "failed"}, RunEnds(k, how)
        PROVE  QuestionInv(k)'
    BY <2>0, <2>5 DEF RunEnds
  <2>6. CASE RecordAnswer(k) BY <2>0, <2>6 DEF RecordAnswer
  <2>7. CASE AnswerNotRecorded(k) BY <2>0, <2>7 DEF AnswerNotRecorded
  <2>8. CASE CatchFault(k) BY <2>0, <2>8 DEF CatchFault
  <2>9. CASE RenderFault(k) BY <2>0, <2>9 DEF RenderFault
  <2>10. CASE Leave(k)
    <3>1. stage'[k] \in {"out", "faulted out"} BY <2>10 DEF Leave
    <3>2. CASE stage[k] = "leaving"
      <4>1. result'[k] = ResultOf BY <2>10, <3>2 DEF Leave
      <4> QED BY <2>0, <3>1, <3>2, <4>1 DEF ResultOf
    <3>3. CASE stage[k] = "faulted"
      <4>1. result'[k] = result[k] BY <2>10, <3>3 DEF Leave
      <4> QED BY <2>0, <3>1, <4>1
    <3> QED BY <2>10, <3>2, <3>3 DEF Leave
  <2>11. CASE ReleaseGate(k) BY <2>0, <2>11 DEF ReleaseGate
  <2> QED BY <2>1, <2>2, <2>3, <2>4, <2>5, <2>6, <2>7, <2>8, <2>9, <2>10, <2>11 DEF Inner
<1> QED BY <1>1, <1>2, <1>3 DEF ConsoleInv

\* Every step of the console keeps the invariant.
LEMMA ConsoleSteps == ConsoleInv /\ [ConsoleNext]_consoleVars => ConsoleInv'
<1> SUFFICES ASSUME ConsoleInv, [ConsoleNext]_consoleVars PROVE ConsoleInv' OBVIOUS
<1>1. ConsoleTypeOK BY DEF ConsoleInv
<1>2. CASE Operator BY <1>1, <1>2, OperatorTypes, BesideKeeps
<1>3. CASE Drain BY <1>1, <1>3, DrainTypes, BesideKeeps
<1>4. ASSUME NEW k \in Questions, QuestionStep(k) \/ Render(k) \/ RenderFault(k)
      PROVE  ConsoleInv'
  <2>1. Outer(k) \/ Inner(k) BY <1>4 DEF QuestionStep, Outer, Inner
  <2> QED BY <1>1, <2>1, OuterTypes, BesideKeeps, InnerKeeps
<1>5. ASSUME NEW o \in Operations, OperationStep(o) PROVE ConsoleInv'
  BY <1>1, <1>5, OperationTypes, BesideKeeps
<1>6. CASE ChangeStep BY <1>1, <1>6, ChangeTypes, BesideKeeps
<1>7. CASE UNCHANGED consoleVars
  BY <1>7 DEF ConsoleInv, QuestionInv, ConsoleTypeOK, consoleVars
<1> QED BY <1>2, <1>3, <1>4, <1>5, <1>6, <1>7 DEF ConsoleNext

\* The invariant of the console, for any questions, operations and models.
THEOREM ConsoleInvariance == ConsoleSpec => []ConsoleInv
BY ConsoleStarts, ConsoleSteps, PTL DEF ConsoleSpec

\* The property NoCommandEntersOverAQuestion: dispatch_command and _drain_deferred take no
\* case operation, no change of the model and no dialog that may end in one while a question is
\* inside session.ask(), be it the orphan of a cancelled one.  The choice of a dialog that was
\* open before, and the commit of a staged selection, are taken, and are not claimed here.
THEOREM CommandsStayOut ==
  ConsoleSpec => NoCommandEntersOverAQuestion
<1>0. ASSUME ConsoleTypeOK, NEW o \in Operations, operation[o] # "not begun",
             \E step : operation' = [operation EXCEPT ![o] = step]
      PROVE  \A p \in Operations : operation[p] = "not begun" => operation'[p] = operation[p]
  BY <1>0 DEF ConsoleTypeOK
<1>1. ASSUME ConsoleTypeOK, NEW k \in Questions, stage[k] \in Inside, [ConsoleNext]_consoleVars
      PROVE  /\ \A o \in Operations : operation[o] = "not begun" => operation'[o] = "not begun"
             /\ change = Absent => change' = Absent
  <2>1. ~Free BY <1>1 DEF ConsoleTypeOK, Free
  <2> USE <2>1
  <2>2. CASE Operator
    <3>1. CASE \E o \in Operations : CommitSelection(o) \/ CancelSelection(o)
      <4>1. PICK o \in Operations : CommitSelection(o) \/ CancelSelection(o) BY <3>1
      <4>2. /\ change' = change /\ operation[o] # "not begun"
            /\ \E step : operation' = [operation EXCEPT ![o] = step]
        BY <4>1 DEF CommitSelection, CancelSelection, Advance
      <4> QED BY <1>0, <1>1, <4>2
    <3>2. CASE ~\E o \in Operations : CommitSelection(o) \/ CancelSelection(o)
      BY <2>2, <3>2 DEF Operator, Ask, Interrupt, NewInvestigation, StartCaseOperation,
             StartModelChange, DeferModelChange, OpenDialog, TakeChoice, CloseDialog, Choosing
    <3> QED BY <3>1, <3>2
  <2>3. CASE Drain BY <2>3 DEF Drain
  <2>4. ASSUME NEW j \in Questions, QuestionStep(j) \/ Render(j) \/ RenderFault(j)
        PROVE  UNCHANGED <<operation, change>>
    BY <2>4 DEF QuestionStep, NeverBegins, TakeGate, GateTimeout,
           Enter, Decline, Examine, RunEnds, RecordAnswer,
           AnswerNotRecorded, CatchFault, Leave, ReleaseGate, Report,
           Render, RenderFault
  <2>5. ASSUME NEW o \in Operations, OperationStep(o)
        PROVE  /\ change' = change
               /\ \A p \in Operations : operation[p] = "not begun" => operation'[p] = "not begun"
    <3>1. /\ change' = change /\ operation[o] # "not begun"
          /\ \E step : operation' = [operation EXCEPT ![o] = step]
      BY <2>5 DEF OperationStep, Advance, Opens, RaiseFlag, StageSelection, ShowSelection,
             OperationRefused, ExchangeEvidence, LetGo, CloseRaises,
             BeginConversation, CompleteCase, LowerFlag
    <3> QED BY <1>0, <1>1, <3>1
  <2>6. CASE ChangeStep
    BY <2>6 DEF ChangeStep, ModelRefused, PrepareConversation,
           ActivateConversation, SetModel
  <2>7. CASE UNCHANGED consoleVars BY <2>7 DEF consoleVars
  <2> QED BY <1>1, <2>2, <2>3, <2>4, <2>5, <2>6, <2>7 DEF ConsoleNext
<1>2. ConsoleInv /\ [ConsoleNext]_consoleVars =>
        [(\E k \in Questions : stage[k] \in Inside)
          => /\ \A o \in Operations : operation[o] = "not begun" => operation'[o] = "not begun"
             /\ change = Absent => change' = Absent]_consoleVars
  BY <1>1 DEF ConsoleInv
<1> QED BY <1>2, ConsoleInvariance, PTL DEF NoCommandEntersOverAQuestion, ConsoleSpec

\* The property NoAnswerIsReplayed: what controller.run hands to the prompt for a question is
\* the run of that question or nothing, whatever was cancelled, changed or cleared meanwhile.
THEOREM NoAnswerOfAnother == ConsoleSpec => []NoAnswerIsReplayed
<1>1. ConsoleInv => NoAnswerIsReplayed BY DEF ConsoleInv, QuestionInv, NoAnswerIsReplayed
<1> QED BY <1>1, ConsoleInvariance, PTL

\* A step leaves the current question in a stage it has yet to end, or the prompt is free.
LEMMA AwaitedStays ==
  ASSUME ConsoleTypeOK, NothingIsForgotten, [ConsoleNext]_consoleVars, running'
  PROVE  token' \in Questions /\ stage'[token'] \in Awaited
<1> DEFINE Goal == token' \in Questions /\ stage'[token'] \in Awaited
<1> USE ConsoleAssumption DEF ConsoleTypeOK, NothingIsForgotten, Awaited, Stages, Holds, Inside
<1>1. ASSUME NEW k \in Questions, Ask(k) PROVE Goal BY <1>1 DEF Ask
<1>2. ASSUME UNCHANGED <<token, running, stage>> PROVE Goal BY <1>2
<1>3. CASE Operator
  <2>1. CASE Interrupt BY <2>1 DEF Interrupt, StopRunning
  <2>2. CASE ~Interrupt /\ ~\E k \in Questions : Ask(k)
    BY <1>2, <1>3, <2>2 DEF Operator, NewInvestigation, StartCaseOperation, StartModelChange,
           DeferModelChange, OpenDialog, TakeChoice, CloseDialog, CommitSelection, CancelSelection
  <2> QED BY <1>1, <2>1, <2>2
<1>4. ASSUME NEW k \in Questions, QuestionStep(k) \/ Render(k) \/ RenderFault(k) PROVE Goal
  <2>0. CASE Render(k) \/ RenderFault(k) BY <2>0 DEF Render, RenderFault, StopRunning
  <2> SUFFICES ASSUME QuestionStep(k) PROVE Goal BY <1>4, <2>0
  <2>1. /\ token' = token /\ running' = running
        /\ \A j \in Questions \ {k} : stage'[j] = stage[j]
    BY DEF QuestionStep, NeverBegins, TakeGate, GateTimeout, Enter, Decline, Examine, RunEnds,
           RecordAnswer, AnswerNotRecorded, CatchFault, Leave, ReleaseGate, Report
  <2>2. token \in Questions /\ stage[token] \in Awaited BY <2>1
  <2>3. CASE token # k BY <2>1, <2>2, <2>3
  <2>4. CASE token = k
    <3> SUFFICES stage'[k] \in Awaited BY <2>1, <2>4
    <3>0. stage \in [Questions -> Stages] /\ stage[k] \in Awaited /\ Current(k)
      BY <2>2, <2>4 DEF Current
    <3> HIDE DEF ConsoleTypeOK, NothingIsForgotten
    <3> USE <3>0 DEF Reported
    <3>1. CASE NeverBegins(k) BY <3>1 DEF NeverBegins
    <3>2. CASE TakeGate(k) BY <3>2 DEF TakeGate
    <3>3. CASE GateTimeout(k) BY <3>3 DEF GateTimeout
    <3>4. CASE Enter(k) BY <3>4 DEF Enter
    <3>5. CASE Decline(k) \/ Examine(k) BY <3>5 DEF Decline, Examine
    <3>6. ASSUME NEW how \in {"answered", "unpublished", "failed"}, RunEnds(k, how)
          PROVE  stage'[k] \in Awaited
      BY <3>6 DEF RunEnds
    <3>7. CASE RecordAnswer(k) BY <3>7 DEF RecordAnswer
    <3>8. CASE AnswerNotRecorded(k) BY <3>8 DEF AnswerNotRecorded
    <3>9. CASE CatchFault(k) BY <3>9 DEF CatchFault
    <3>10. CASE Leave(k) BY <3>10 DEF Leave
    <3>11. CASE ReleaseGate(k) BY <3>11 DEF ReleaseGate
    <3>12. CASE Report(k) BY <3>12 DEF Report
    <3> QED
      BY <3>1, <3>2, <3>3, <3>4, <3>5, <3>6, <3>7, <3>8, <3>9, <3>10, <3>11, <3>12
      DEF QuestionStep
  <2> QED BY <2>3, <2>4
<1>5. CASE Drain BY <1>2, <1>5 DEF Drain
<1>6. ASSUME NEW o \in Operations, OperationStep(o) PROVE Goal
  BY <1>2, <1>6 DEF OperationStep, RaiseFlag, StageSelection, ShowSelection,
         OperationRefused, ExchangeEvidence, LetGo,
         CloseRaises, BeginConversation, CompleteCase, LowerFlag
<1>7. CASE ChangeStep
  BY <1>2, <1>7 DEF ChangeStep, ModelRefused, PrepareConversation, ActivateConversation, SetModel
<1>8. CASE UNCHANGED consoleVars BY <1>2, <1>8 DEF consoleVars
<1> QED BY <1>3, <1>4, <1>5, <1>6, <1>7, <1>8 DEF ConsoleNext

\* Only the drain stops the timer, and only when nothing waits any more.
LEMMA TimerStays ==
  ASSUME ConsoleTypeOK, NothingIsForgotten, [ConsoleNext]_consoleVars
  PROVE  deferred' # <<>> => armed'
<1> USE DEF NothingIsForgotten
<1>1. CASE Drain
  <2>1. CASE Free /\ deferred # <<>> BY <1>1, <2>1 DEF Drain
  <2>2. CASE ~(Free /\ deferred # <<>>) BY <1>1, <2>2 DEF Drain, RearmedWhileBusy
  <2> QED BY <2>1, <2>2
<1>2. ASSUME NEW m \in Selectable, DeferModelChange(m) PROVE armed'
  BY <1>2 DEF DeferModelChange
<1>3. ASSUME deferred' = deferred, armed' = armed \/ armed' = (armed \/ (running /\ deferred # <<>>))
      PROVE  deferred' # <<>> => armed'
  BY <1>3
<1>4. CASE Operator /\ ~\E m \in Selectable : DeferModelChange(m)
  BY <1>3, <1>4 DEF Operator, Ask, Interrupt, StopRunning, NewInvestigation, StartCaseOperation,
         StartModelChange, OpenDialog, TakeChoice, CloseDialog, CommitSelection, CancelSelection
<1>5. ASSUME NEW k \in Questions, QuestionStep(k) \/ Render(k) \/ RenderFault(k)
      PROVE  deferred' # <<>> => armed'
  BY <1>3, <1>5 DEF Render, RenderFault, StopRunning, QuestionStep, NeverBegins, TakeGate,
         GateTimeout, Enter, Decline, Examine, RunEnds, RecordAnswer, AnswerNotRecorded,
         CatchFault, Leave, ReleaseGate, Report
<1>6. ASSUME NEW o \in Operations, OperationStep(o) PROVE deferred' # <<>> => armed'
  BY <1>3, <1>6 DEF OperationStep, RaiseFlag, StageSelection, ShowSelection,
         OperationRefused, ExchangeEvidence, LetGo,
         CloseRaises, BeginConversation, CompleteCase, LowerFlag
<1>7. CASE ChangeStep \/ UNCHANGED consoleVars
  BY <1>3, <1>7 DEF ChangeStep, ModelRefused, PrepareConversation, ActivateConversation,
         SetModel, consoleVars
<1> QED BY <1>1, <1>2, <1>4, <1>5, <1>6, <1>7 DEF ConsoleNext

\* The property NothingIsForgotten: while the prompt says that a message is being
\* investigated its question has yet to show its end, and a deferred command has a timer, for
\* any number of questions, operations and commands.
THEOREM SomebodyIsAtIt == ConsoleSpec => []NothingIsForgotten
<1>1. ConsoleInit => NothingIsForgotten BY DEF ConsoleInit, NothingIsForgotten
<1>2. ConsoleInv /\ NothingIsForgotten /\ [ConsoleNext]_consoleVars => NothingIsForgotten'
  <2> SUFFICES ASSUME ConsoleInv, NothingIsForgotten, [ConsoleNext]_consoleVars
               PROVE  NothingIsForgotten'
    OBVIOUS
  <2>1. ConsoleTypeOK BY DEF ConsoleInv
  <2> QED BY <2>1, AwaitedStays, TimerStays DEF NothingIsForgotten, Awaited
<1> QED BY <1>1, <1>2, ConsoleInvariance, PTL DEF ConsoleSpec

\* How many steps of its worker and of the loop a question has left at most.
QuestionStepsLeft(k) ==
  IF stage[k] = "waiting" THEN 10
  ELSE IF stage[k] = "admitted" THEN 9
  ELSE IF stage[k] = "inside" THEN 8
  ELSE IF stage[k] = "examining" THEN 7
  ELSE IF stage[k] = "recording" THEN 6
  ELSE IF stage[k] = "raised" THEN 5
  ELSE IF stage[k] \in {"told", "leaving"} THEN 4
  ELSE IF stage[k] \in {"faulted", "out"} THEN 3
  ELSE IF stage[k] \in {"faulted out", "left"} THEN 2
  ELSE IF stage[k] = "posted" THEN 1 ELSE 0

\* Each of its steps brings a question nearer to its end, and moves no other question.
LEMMA QuestionNearsItsEnd ==
  ASSUME ConsoleTypeOK, NEW k \in Questions, QuestionStep(k) \/ Render(k) \/ RenderFault(k)
  PROVE  /\ QuestionStepsLeft(k)' < QuestionStepsLeft(k)
         /\ \A j \in Questions \ {k} : stage'[j] = stage[j]
<1>1. stage \in [Questions -> Stages] BY DEF ConsoleTypeOK
<1> USE <1>1 DEF QuestionStepsLeft, Reported
<1>2. CASE NeverBegins(k) BY <1>2 DEF NeverBegins
<1>3. CASE TakeGate(k) BY <1>3 DEF TakeGate
<1>4. CASE GateTimeout(k) BY <1>4 DEF GateTimeout
<1>5. CASE Enter(k)
  <2>1. stage[k] = "admitted" /\ stage' = [stage EXCEPT ![k] = "inside"] BY <1>5 DEF Enter
  <2> QED BY ONLY <1>1, <2>1, k \in Questions DEF QuestionStepsLeft
<1>6. CASE Decline(k) \/ Examine(k)
  <2>1. /\ stage[k] = "inside"
        /\ \/ stage' = [stage EXCEPT ![k] = "leaving"]
           \/ stage' = [stage EXCEPT ![k] = "examining"]
    BY <1>6 DEF Decline, Examine
  <2> QED BY ONLY <1>1, <2>1, k \in Questions DEF QuestionStepsLeft
<1>7. ASSUME NEW how \in {"answered", "unpublished", "failed"}, RunEnds(k, how)
      PROVE  /\ QuestionStepsLeft(k)' < QuestionStepsLeft(k)
             /\ \A j \in Questions \ {k} : stage'[j] = stage[j]
  BY <1>7 DEF RunEnds
<1>8. CASE RecordAnswer(k) BY <1>8 DEF RecordAnswer
<1>9. CASE AnswerNotRecorded(k) BY <1>9 DEF AnswerNotRecorded
<1>10. CASE CatchFault(k) BY <1>10 DEF CatchFault
<1>11. CASE Leave(k)
  <2>1. \/ stage[k] = "leaving" /\ stage' = [stage EXCEPT ![k] = "out"]
        \/ stage[k] = "faulted" /\ stage' = [stage EXCEPT ![k] = "faulted out"]
    BY <1>11 DEF Leave
  <2>2. CASE stage[k] = "leaving"
    <3>1. /\ stage'[k] = "out"
          /\ \A j \in Questions \ {k} : stage'[j] = stage[j]
      BY <2>1, <2>2
    <3> QED BY <2>2, <3>1
  <2>3. CASE stage[k] = "faulted"
    <3>1. /\ stage'[k] = "faulted out"
          /\ \A j \in Questions \ {k} : stage'[j] = stage[j]
      BY <2>1, <2>3
    <3>2. QuestionStepsLeft(k) = 3 BY ONLY <2>3 DEF QuestionStepsLeft
    <3>3. QuestionStepsLeft(k)' = 2 BY ONLY <3>1 DEF QuestionStepsLeft
    <3> HIDE DEF QuestionStepsLeft
    <3>4. QuestionStepsLeft(k)' < QuestionStepsLeft(k) BY ONLY <3>2, <3>3
    <3> QED BY ONLY <3>1, <3>4
  <2> QED BY <2>1, <2>2, <2>3
<1>12. CASE ReleaseGate(k)
  <2>1. \/ stage[k] = "out" /\ stage' = [stage EXCEPT ![k] = "left"]
        \/ stage[k] = "faulted out" /\ stage' = [stage EXCEPT ![k] = "done"]
    BY <1>12 DEF ReleaseGate
  <2>2. CASE stage[k] = "out"
    <3>1. /\ stage'[k] = "left"
          /\ \A j \in Questions \ {k} : stage'[j] = stage[j]
      BY <2>1, <2>2
    <3> QED BY <2>2, <3>1
  <2>3. CASE stage[k] = "faulted out"
    <3>1. /\ stage'[k] = "done"
          /\ \A j \in Questions \ {k} : stage'[j] = stage[j]
      BY <2>1, <2>3
    <3>2. QuestionStepsLeft(k) = 2 BY ONLY <2>3 DEF QuestionStepsLeft
    <3>3. QuestionStepsLeft(k)' = 0 BY ONLY <3>1 DEF QuestionStepsLeft
    <3> HIDE DEF QuestionStepsLeft
    <3> QED BY ONLY <3>1, <3>2, <3>3
  <2> QED BY <2>1, <2>2, <2>3
<1>13. CASE Report(k) BY <1>13 DEF Report
<1>14. CASE Render(k) BY <1>14 DEF Render
<1>15. CASE RenderFault(k) BY <1>15 DEF RenderFault
<1> QED
  BY <1>2, <1>3, <1>4, <1>5, <1>6, <1>7, <1>8, <1>9, <1>10, <1>11, <1>12, <1>13, <1>14, <1>15
  DEF QuestionStep

\* What is not a step of a question that was asked leaves its stage.
LEMMA QuestionIsLeftAlone ==
  ASSUME ConsoleTypeOK, [ConsoleNext]_consoleVars, NEW k \in Questions, stage[k] # "unasked",
         ~(QuestionStep(k) \/ Render(k) \/ RenderFault(k))
  PROVE  stage'[k] = stage[k]
<1>1. CASE Operator
  BY <1>1 DEF Operator, Ask, Interrupt, NewInvestigation, StartCaseOperation, StartModelChange,
         DeferModelChange, OpenDialog, TakeChoice, CloseDialog, CommitSelection, CancelSelection,
         ConsoleTypeOK
<1>2. CASE Drain BY <1>2 DEF Drain
<1>3. ASSUME NEW j \in Questions, QuestionStep(j) \/ Render(j) \/ RenderFault(j)
      PROVE  stage'[k] = stage[k]
  <2>1. j # k BY <1>3
  <2> QED BY <1>3, <2>1, QuestionNearsItsEnd
<1>4. ASSUME NEW o \in Operations, OperationStep(o) PROVE stage'[k] = stage[k]
  BY <1>4 DEF OperationStep, RaiseFlag, StageSelection, ShowSelection,
         OperationRefused, ExchangeEvidence, LetGo,
         CloseRaises, BeginConversation, CompleteCase, LowerFlag
<1>5. CASE ChangeStep \/ UNCHANGED consoleVars
  BY <1>5 DEF ChangeStep, ModelRefused, PrepareConversation, ActivateConversation, SetModel,
         consoleVars
<1> QED BY <1>1, <1>2, <1>3, <1>4, <1>5 DEF ConsoleNext

\* PromptComesBack rests on this beside NothingIsForgotten: a question comes to its end in at
\* most ten steps of its worker and of the loop, which neither the operator, nor another
\* question, nor an operation or a change of the model gives back.
THEOREM EveryQuestionRunsOut ==
  ConsoleSpec =>
    [][\A k \in Questions : stage[k] # "unasked" =>
         /\ QuestionStepsLeft(k) \in 0 .. 10
         /\ QuestionStepsLeft(k)' <= QuestionStepsLeft(k)
         /\ (QuestionStep(k) \/ Render(k) \/ RenderFault(k))
              => QuestionStepsLeft(k)' < QuestionStepsLeft(k)]_consoleVars
<1>1. ASSUME ConsoleInv, [ConsoleNext]_consoleVars, NEW k \in Questions, stage[k] # "unasked"
      PROVE  /\ QuestionStepsLeft(k) \in 0 .. 10
             /\ QuestionStepsLeft(k)' <= QuestionStepsLeft(k)
             /\ (QuestionStep(k) \/ Render(k) \/ RenderFault(k))
                  => QuestionStepsLeft(k)' < QuestionStepsLeft(k)
  <2>1. ConsoleTypeOK BY <1>1 DEF ConsoleInv
  <2>2. QuestionStepsLeft(k) \in 0 .. 10 /\ QuestionStepsLeft(k)' \in 0 .. 10
    BY DEF QuestionStepsLeft
  <2>3. CASE QuestionStep(k) \/ Render(k) \/ RenderFault(k)
    BY <2>1, <2>2, <2>3, QuestionNearsItsEnd
  <2>4. CASE ~(QuestionStep(k) \/ Render(k) \/ RenderFault(k))
    <3>1. stage'[k] = stage[k] BY <1>1, <2>1, <2>4, QuestionIsLeftAlone
    <3>2. QuestionStepsLeft(k)' = QuestionStepsLeft(k) BY <3>1 DEF QuestionStepsLeft
    <3> QED BY <2>2, <2>4, <3>2
  <2> QED BY <2>3, <2>4
<1>2. ConsoleInv /\ [ConsoleNext]_consoleVars =>
        [\A k \in Questions : stage[k] # "unasked" =>
           /\ QuestionStepsLeft(k) \in 0 .. 10
           /\ QuestionStepsLeft(k)' <= QuestionStepsLeft(k)
           /\ (QuestionStep(k) \/ Render(k) \/ RenderFault(k))
                => QuestionStepsLeft(k)' < QuestionStepsLeft(k)]_consoleVars
  BY <1>1
<1> QED BY <1>2, ConsoleInvariance, PTL DEF ConsoleSpec
=============================================================================
