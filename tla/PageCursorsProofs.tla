-------------------------- MODULE PageCursorsProofs --------------------------
(***************************************************************************)
(* Proofs about PageCursors, for any workers and any bounds: a model that  *)
(* goes on where documents and cursors say misses no record, and no page is given twice.  *)
(***************************************************************************)
EXTENDS PageCursors, FiniteSetTheorems, TLAPS

-----------------------------------------------------------------------------
(* The inductive invariant. *)

Results == [since : Nat, from : Nat, to : Nat]

Views ==
  [result : Nat, from : Nat, kept : Nat, next : Nat \cup {None}, opened : Nat \cup {None}]

Jobs == [at : {"idle", "found", "shaping"}, cursor : Nat \cup {None},
         result : Nat \cup {None}, from : Nat \cup {None}]

\* Every record before this place has been shown, since the reading began that the
\* result is of.
ReadUpTo(r, o) == results[r].since .. o - 1 \subseteq Shown

ResultInv ==
  /\ results \in Seq(Results)
  /\ \A r \in DOMAIN results : results[r].from < results[r].to /\ ReadUpTo(r, results[r].from)

\* A document shows records of its result, and ends where it goes on, if it does.
ViewInv ==
  /\ views \in Seq(Views)
  /\ \A t \in DOMAIN views :
       /\ views[t].result \in DOMAIN results
       /\ results[views[t].result].from <= views[t].from
       /\ views[t].from + views[t].kept <= results[views[t].result].to
       /\ views[t].next # None => views[t].next > views[t].from /\ ReadUpTo(views[t].result, views[t].next)
       /\ views[t].opened # None => views[t].opened \in served

BindingInv ==
  /\ DOMAIN bindings \subseteq DOMAIN views
  /\ \A t \in DOMAIN bindings :
       /\ bindings[t].result \in DOMAIN results /\ bindings[t].offset \in Nat
       /\ HoldsMore(bindings[t].result, bindings[t].offset)
       /\ ReadUpTo(bindings[t].result, bindings[t].offset)
  /\ served \subseteq DOMAIN bindings

\* A thread shapes what its call returned, or what the cursor it spent opens.
WorkerInv ==
  /\ worker \in [Workers -> Jobs]
  /\ \A w \in Workers :
       /\ worker[w].at # "idle" =>
            /\ worker[w].result \in DOMAIN results /\ worker[w].from \in Nat
            /\ results[worker[w].result].from <= worker[w].from
            /\ worker[w].from < results[worker[w].result].to
            /\ ReadUpTo(worker[w].result, worker[w].from)
       /\ worker[w].at = "found" =>
            /\ worker[w].cursor \in DOMAIN bindings
            /\ worker[w].result = bindings[worker[w].cursor].result
            /\ worker[w].from = bindings[worker[w].cursor].offset
       /\ (worker[w].at = "shaping" /\ worker[w].cursor # None) => worker[w].cursor \in served

\* A cursor that was spent is with one thread, or in one document.
OnceInv ==
  /\ \A k, l \in DOMAIN views :
       (views[k].opened # None /\ views[k].opened = views[l].opened) => k = l
  /\ \A v, w \in Workers :
       (/\ worker[v].at = "shaping" /\ worker[w].at = "shaping"
        /\ worker[v].cursor # None /\ worker[v].cursor = worker[w].cursor) => v = w
  /\ \A k \in DOMAIN views, w \in Workers :
       (worker[w].at = "shaping" /\ worker[w].cursor # None) => views[k].opened # worker[w].cursor

IInv ==
  /\ ResultInv /\ ViewInv /\ BindingInv /\ WorkerInv /\ OnceInv /\ WithheldIsReachable
  /\ answered \subseteq Nat /\ pointed \subseteq Nat

-----------------------------------------------------------------------------
(* Steps. *)

LEMMA Counts ==
  /\ Size \in Nat /\ Reach \in Nat /\ MaxResults \in Nat /\ MaxViews \in Nat /\ None \notin Nat
BY PagesAssumption

\* What is appended comes after all there was.
LEMMA Appended ==
  ASSUME NEW S, NEW q \in Seq(S), NEW e \in S
  PROVE  /\ Append(q, e) \in Seq(S) /\ Len(q) \in Nat /\ Len(Append(q, e)) = Len(q) + 1
         /\ Append(q, e)[Len(q) + 1] = e
         /\ \A i \in DOMAIN q : Append(q, e)[i] = q[i] /\ i \in DOMAIN Append(q, e)
         /\ \A i \in DOMAIN Append(q, e) : i = Len(q) + 1 \/ i \in DOMAIN q
         /\ Len(q) + 1 \in DOMAIN Append(q, e) /\ Len(q) + 1 \notin DOMAIN q
OBVIOUS

LEMMA InitInv == Init => IInv
<1> SUFFICES ASSUME Init PROVE IInv
  OBVIOUS
<1>1. /\ results = <<>> /\ views = <<>> /\ bindings = <<>> /\ served = {} /\ answered = {}
      /\ pointed = {} /\ DOMAIN <<>> = {}
  BY DEF Init
<1>2. worker \in [Workers -> Jobs] /\ \A w \in Workers : worker[w].at = "idle"
  BY DEF Init, Jobs, Idle
<1>3. QED
  BY <1>1, <1>2 DEF IInv, ResultInv, ViewInv, BindingInv, WorkerInv, OnceInv, WithheldIsReachable

LEMMA CallToolStep ==
  ASSUME IInv, NEW w \in Workers, CallTool(w)
  PROVE  IInv'
<1>1. /\ worker[w] = Idle /\ views' = views /\ bindings' = bindings /\ served' = served
      /\ answered' = answered /\ lost' = lost /\ pointed' = pointed
  BY DEF CallTool
<1>2. PICK o \in 0 .. Size - 1 : \E since \in Origins(o), to \in (o + 1) .. Size :
        /\ results' = Append(results, [since |-> since, from |-> o, to |-> to])
        /\ worker' = [worker EXCEPT ![w] = [at |-> "shaping", cursor |-> None,
                                            result |-> Len(results'), from |-> o]]
  BY DEF CallTool
<1>3. PICK since \in Origins(o), to \in (o + 1) .. Size :
        /\ results' = Append(results, [since |-> since, from |-> o, to |-> to])
        /\ worker' = [worker EXCEPT ![w] = [at |-> "shaping", cursor |-> None,
                                            result |-> Len(results'), from |-> o]]
  BY <1>2
<1>4. Shown' = Shown
  BY <1>1 DEF Shown
<1>5. o \in Nat /\ since \in Nat /\ since .. o - 1 \subseteq Shown
  <2>0. o \in Nat
    BY <1>2, Counts
  <2>1. CASE since = o
    BY <2>0, <2>1
  <2>2. ASSUME NEW t \in DOMAIN views, o = views[t].next, since = results[views[t].result].since
        PROVE  since \in Nat /\ since .. o - 1 \subseteq Shown
    <3>1. views[t].result \in DOMAIN results /\ ReadUpTo(views[t].result, views[t].next)
      BY <2>0, <2>2, Counts DEF IInv, ViewInv
    <3>2. results[views[t].result] \in Results
      BY <3>1 DEF IInv, ResultInv
    <3>3. QED
      BY <2>2, <3>1, <3>2 DEF ReadUpTo, Results
  <2>3. QED
    BY <2>0, <2>1, <2>2 DEF Origins
<1>6. to \in Nat /\ o < to
  BY <1>3, <1>5, Counts
<1> DEFINE new == [since |-> since, from |-> o, to |-> to]
           n == Len(results) + 1
<1>7. new \in Results /\ new.since = since /\ new.from = o /\ new.to = to
  BY <1>5, <1>6 DEF Results
<1> HIDE DEF new
<1>8. /\ results' \in Seq(Results) /\ results'[n] = new /\ n \in Nat /\ Len(results') = n
      /\ n \in DOMAIN results' /\ n \notin DOMAIN results
      /\ \A r \in DOMAIN results : results'[r] = results[r] /\ r \in DOMAIN results'
      /\ \A r \in DOMAIN results' : r = n \/ r \in DOMAIN results
  <2>1. results \in Seq(Results)
    BY DEF IInv, ResultInv
  <2>2. results' = Append(results, new)
    BY <1>3 DEF new
  <2>3. QED
    BY <1>7, <2>1, <2>2, Appended
<1> HIDE DEF n
<1>9. /\ worker' = [worker EXCEPT ![w] = [at |-> "shaping", cursor |-> None, result |-> n, from |-> o]]
      /\ worker \in [Workers -> Jobs]
  BY <1>3, <1>8 DEF IInv, WorkerInv
<1>10. /\ worker' \in [Workers -> Jobs]
       /\ worker'[w].at = "shaping" /\ worker'[w].cursor = None /\ worker'[w].result = n
       /\ worker'[w].from = o
       /\ \A v \in Workers \ {w} : worker'[v] = worker[v]
  BY <1>5, <1>8, <1>9 DEF Jobs
<1>11. \A v \in Workers : worker[v].at # "idle" => v # w
  BY <1>1 DEF Idle
<1>12. ResultInv'
  BY <1>4, <1>5, <1>6, <1>7, <1>8 DEF IInv, ResultInv, ReadUpTo
<1>13. ViewInv'
  BY <1>1, <1>4, <1>8 DEF IInv, ViewInv, ReadUpTo
<1>14. BindingInv'
  BY <1>1, <1>4, <1>8 DEF IInv, BindingInv, ReadUpTo, HoldsMore
<1>15. WorkerInv'
  <2>1. ASSUME NEW v \in Workers
        PROVE  /\ worker'[v].at # "idle" =>
                    /\ worker'[v].result \in DOMAIN results' /\ worker'[v].from \in Nat
                    /\ results'[worker'[v].result].from <= worker'[v].from
                    /\ worker'[v].from < results'[worker'[v].result].to
                    /\ results'[worker'[v].result].since .. worker'[v].from - 1 \subseteq Shown
               /\ worker'[v].at = "found" =>
                    /\ worker'[v].cursor \in DOMAIN bindings
                    /\ worker'[v].result = bindings[worker'[v].cursor].result
                    /\ worker'[v].from = bindings[worker'[v].cursor].offset
               /\ (worker'[v].at = "shaping" /\ worker'[v].cursor # None)
                    => worker'[v].cursor \in served
    <3>1. CASE v = w
      BY <3>1, <1>5, <1>6, <1>7, <1>8, <1>10
    <3>2. CASE v # w
      BY <3>2, <1>8, <1>10 DEF IInv, WorkerInv, ReadUpTo
    <3>3. QED
      BY <3>1, <3>2
  <2>2. QED
    BY <2>1, <1>1, <1>4, <1>10 DEF WorkerInv, ReadUpTo
<1>16. OnceInv'
  BY <1>1, <1>10 DEF IInv, OnceInv
<1>17. WithheldIsReachable'
  <2>1. ASSUME NEW r \in DOMAIN results, NEW i \in results[r].from .. results[r].to - 1
        PROVE  \/ i \in Shown
               \/ \E v \in Workers : worker'[v].at = "shaping" /\ worker'[v].result = r /\ worker'[v].from <= i
               \/ \E t \in DOMAIN bindings \ served : bindings[t].result = r /\ bindings[t].offset <= i
               \/ r \in lost
               \/ \E t \in DOMAIN views : views[t].result = r /\ views[t].kept = 0
    BY <1>10, <1>11 DEF IInv, WithheldIsReachable
  <2>2. ASSUME NEW i \in o .. to - 1
        PROVE  worker'[w].at = "shaping" /\ worker'[w].result = n /\ worker'[w].from <= i
    BY <1>5, <1>10
  <2>3. QED
    BY <2>1, <2>2, <1>1, <1>4, <1>7, <1>8 DEF WithheldIsReachable
<1>18. QED
  BY <1>1, <1>12, <1>13, <1>14, <1>15, <1>16, <1>17 DEF IInv

\* What is retained and shown stays as it is.
LEMMA SameDocuments ==
  ASSUME IInv, UNCHANGED <<results, views, bindings, answered, lost>>, pointed' \subseteq Nat, served \subseteq served',
         served' \subseteq DOMAIN bindings, WorkerInv', OnceInv', WithheldIsReachable'
  PROVE  IInv'
<1>1. Shown' = Shown
  BY DEF Shown
<1>2. ResultInv' /\ ViewInv'
  BY <1>1 DEF IInv, ResultInv, ViewInv, ReadUpTo
<1>3. BindingInv'
  BY <1>1 DEF IInv, BindingInv, ReadUpTo, HoldsMore
<1>4. QED
  BY <1>2, <1>3 DEF IInv

LEMMA FindPageStep ==
  ASSUME IInv, NEW w \in Workers, NEW t \in Numbers, FindPage(w, t)
  PROVE  IInv'
<1>1. /\ worker[w] = Idle /\ t \in DOMAIN bindings /\ served' = served
      /\ UNCHANGED <<results, views, bindings, answered, lost, pointed>>
  BY DEF FindPage
<1>2. /\ bindings[t].result \in DOMAIN results /\ bindings[t].offset \in Nat
      /\ HoldsMore(bindings[t].result, bindings[t].offset) /\ ReadUpTo(bindings[t].result, bindings[t].offset)
      /\ results[bindings[t].result].from \in Nat /\ t \in Nat /\ bindings[t].result \in Nat
  <2>1. /\ bindings[t].result \in DOMAIN results /\ bindings[t].offset \in Nat
        /\ HoldsMore(bindings[t].result, bindings[t].offset) /\ ReadUpTo(bindings[t].result, bindings[t].offset)
    BY <1>1 DEF IInv, BindingInv
  <2>2. results[bindings[t].result] \in Results /\ bindings[t].result \in Nat
    BY <2>1 DEF IInv, ResultInv
  <2>3. t \in Nat
    BY Counts DEF Numbers
  <2>4. QED
    BY <2>1, <2>2, <2>3 DEF Results
<1>3. /\ worker' \in [Workers -> Jobs]
      /\ worker'[w].at = "found" /\ worker'[w].cursor = t
      /\ worker'[w].result = bindings[t].result /\ worker'[w].from = bindings[t].offset
      /\ \A v \in Workers \ {w} : worker'[v] = worker[v]
  BY <1>2 DEF FindPage, IInv, WorkerInv, Jobs
<1>4. Shown' = Shown
  BY <1>1 DEF Shown
<1>5. \A v \in Workers : worker[v].at # "idle" => v # w
  BY <1>1 DEF Idle
<1>6. WorkerInv'
  BY <1>1, <1>2, <1>3, <1>4 DEF IInv, WorkerInv, ReadUpTo, HoldsMore
<1>7. OnceInv'
  BY <1>1, <1>3 DEF IInv, OnceInv
<1>8. WithheldIsReachable'
  BY <1>1, <1>3, <1>4, <1>5 DEF IInv, WithheldIsReachable
<1>9. QED
  BY <1>1, <1>6, <1>7, <1>8, SameDocuments DEF IInv, BindingInv

LEMMA ServePageStep ==
  ASSUME IInv, NEW w \in Workers, ServePage(w)
  PROVE  IInv'
<1> DEFINE t == worker[w].cursor
<1>1. /\ worker[w].at = "found" /\ t \notin served /\ served' = served \cup {t}
      /\ UNCHANGED <<results, views, bindings, answered, lost, pointed>>
  BY DEF ServePage, Spent
<1>2. /\ t \in DOMAIN bindings /\ worker[w].result = bindings[t].result
      /\ worker[w].from = bindings[t].offset /\ t # None
  <2>1. t \in DOMAIN bindings
    BY <1>1 DEF IInv, WorkerInv
  <2>2. t \in Nat
    BY <2>1 DEF IInv, BindingInv, ViewInv
  <2>3. QED
    BY <1>1, <2>1, <2>2, Counts DEF IInv, WorkerInv
<1>3. /\ worker' \in [Workers -> Jobs]
      /\ worker'[w].at = "shaping" /\ worker'[w].cursor = t
      /\ worker'[w].result = worker[w].result /\ worker'[w].from = worker[w].from
      /\ \A v \in Workers \ {w} : worker'[v] = worker[v]
  BY DEF ServePage, IInv, WorkerInv, Jobs
<1>4. Shown' = Shown
  BY <1>1 DEF Shown
<1> HIDE DEF t
<1>5. WorkerInv'
  BY <1>1, <1>2, <1>3, <1>4 DEF IInv, WorkerInv, ReadUpTo
<1>6. \A k \in DOMAIN views : views[k].opened # t
  BY <1>1, <1>2 DEF IInv, ViewInv
<1>7. \A v \in Workers : (worker[v].at = "shaping" /\ worker[v].cursor # None) => worker[v].cursor # t
  BY <1>1 DEF IInv, WorkerInv
<1>8. OnceInv'
  BY <1>1, <1>2, <1>3, <1>6, <1>7 DEF IInv, OnceInv
<1>9. WithheldIsReachable'
  <2>1. SUFFICES ASSUME NEW r \in DOMAIN results, NEW i \in results[r].from .. results[r].to - 1
                 PROVE  \/ i \in Shown
                        \/ \E v \in Workers : worker'[v].at = "shaping" /\ worker'[v].result = r
                                              /\ worker'[v].from <= i
                        \/ \E k \in DOMAIN bindings \ served' :
                             bindings[k].result = r /\ bindings[k].offset <= i
                        \/ r \in lost
                        \/ \E k \in DOMAIN views : views[k].result = r /\ views[k].kept = 0
    BY <1>1, <1>4 DEF WithheldIsReachable
  <2>2. ASSUME NEW v \in Workers, worker[v].at = "shaping", worker[v].result = r, worker[v].from <= i
        PROVE  worker'[v].at = "shaping" /\ worker'[v].result = r /\ worker'[v].from <= i
    BY <1>1, <1>3, <2>2
  <2>3. ASSUME NEW k \in DOMAIN bindings \ served, bindings[k].result = r, bindings[k].offset <= i
        PROVE  \/ k \in DOMAIN bindings \ served'
               \/ worker'[w].at = "shaping" /\ worker'[w].result = r /\ worker'[w].from <= i
    BY <1>1, <1>2, <1>3, <2>3
  <2>4. QED
    BY <2>2, <2>3 DEF IInv, WithheldIsReachable
<1>10. QED
  BY <1>1, <1>2, <1>5, <1>8, <1>9, SameDocuments DEF IInv, BindingInv

LEMMA RefusePageStep ==
  ASSUME IInv, NEW w \in Workers, RefusePage(w)
  PROVE  IInv'
<1>1. /\ worker[w].at = "found" /\ served' = served
      /\ UNCHANGED <<results, views, bindings, answered, lost>>
  BY DEF RefusePage
<1>2. /\ worker' \in [Workers -> Jobs] /\ worker'[w].at = "idle"
      /\ \A v \in Workers \ {w} : worker'[v] = worker[v]
  BY DEF RefusePage, IInv, WorkerInv, Jobs, Idle
<1>3. Shown' = Shown
  BY <1>1 DEF Shown
<1>4. WorkerInv'
  BY <1>1, <1>2, <1>3 DEF IInv, WorkerInv, ReadUpTo
<1>5. OnceInv'
  BY <1>1, <1>2 DEF IInv, OnceInv
<1>6. \A v \in Workers : worker[v].at = "shaping" => v # w
  BY <1>1
<1>7. WithheldIsReachable'
  BY <1>1, <1>2, <1>3, <1>6 DEF IInv, WithheldIsReachable
<1>8. pointed' \subseteq Nat
  <2>1. results[worker[w].result] \in Results
    BY <1>1 DEF IInv, ResultInv, WorkerInv
  <2>2. QED
    BY <2>1 DEF RefusePage, IInv, Results
<1>9. QED
  BY <1>1, <1>4, <1>5, <1>7, <1>8, SameDocuments DEF IInv, BindingInv

\* A thread that shaped something is idle again.
LEMMA AnswerGiven ==
  ASSUME IInv, NEW w \in Workers, worker[w].at = "shaping", Answer(w)
  PROVE  /\ results' = results /\ served' = served /\ answered' \subseteq Nat /\ pointed' \subseteq Nat
         /\ worker' \in [Workers -> Jobs] /\ worker'[w].at = "idle"
         /\ \A v \in Workers \ {w} : worker'[v] = worker[v]
         /\ worker[w].result \in DOMAIN results /\ worker[w].from \in Nat
         /\ worker[w].cursor \in Nat \cup {None}
         /\ results[worker[w].result].since \in Nat
         /\ results[worker[w].result].from \in Nat /\ results[worker[w].result].to \in Nat
         /\ results[worker[w].result].from <= worker[w].from
         /\ worker[w].from < results[worker[w].result].to
         /\ ReadUpTo(worker[w].result, worker[w].from)
<1>1. worker[w].result \in DOMAIN results /\ worker[w].from \in Nat /\ worker[w] \in Jobs
  BY DEF IInv, WorkerInv
<1>2. results[worker[w].result] \in Results
  BY <1>1 DEF IInv, ResultInv
<1>3. /\ worker' \in [Workers -> Jobs] /\ worker'[w].at = "idle"
      /\ \A v \in Workers \ {w} : worker'[v] = worker[v]
  BY DEF Answer, IInv, WorkerInv, Jobs, Idle
<1>4. results' = results /\ served' = served /\ answered' \subseteq Nat /\ pointed' \subseteq Nat
  BY <1>1 DEF Answer, IInv
<1>5. worker[w].cursor \in Nat \cup {None}
  BY <1>1 DEF Jobs
<1>6. QED
  BY <1>1, <1>2, <1>3, <1>4, <1>5 DEF Results, IInv, WorkerInv

LEMMA StandInStep ==
  ASSUME IInv, NEW w \in Workers, StandIn(w)
  PROVE  IInv'
<1>1. /\ worker[w].at = "shaping" /\ Answer(w) /\ lost' = lost \cup {worker[w].result}
      /\ views' = views /\ bindings' = bindings
  BY DEF StandIn
<1>2. /\ results' = results /\ served' = served /\ answered' \subseteq Nat /\ pointed' \subseteq Nat
      /\ worker' \in [Workers -> Jobs] /\ worker'[w].at = "idle"
      /\ \A v \in Workers \ {w} : worker'[v] = worker[v]
  BY <1>1, AnswerGiven
<1>3. Shown' = Shown
  BY <1>1 DEF Shown
<1>4. ResultInv' /\ ViewInv'
  BY <1>1, <1>2, <1>3 DEF IInv, ResultInv, ViewInv, ReadUpTo
<1>5. BindingInv'
  BY <1>1, <1>2, <1>3 DEF IInv, BindingInv, ReadUpTo, HoldsMore
<1>6. WorkerInv'
  BY <1>1, <1>2, <1>3 DEF IInv, WorkerInv, ReadUpTo
<1>7. OnceInv'
  BY <1>1, <1>2 DEF IInv, OnceInv
<1>8. WithheldIsReachable'
  BY <1>1, <1>2, <1>3 DEF IInv, WithheldIsReachable
<1>9. QED
  BY <1>2, <1>4, <1>5, <1>6, <1>7, <1>8 DEF IInv

\* What is issued with a document is either nothing or a cursor with its number.
LEMMA IssuedWithNext ==
  ASSUME NEW r, NEW from, NEW kept, NEW t
  PROVE  /\ DOMAIN BindingOf(r, from, kept) \subseteq {Len(views) + 1}
         /\ t \in DOMAIN BindingOf(r, from, kept) =>
              /\ from + kept < results[r].to /\ NextOf(r, from, kept) # None
              /\ HoldsMore(r, NextOf(r, from, kept))
              /\ BindingOf(r, from, kept)[t] = [result |-> r, offset |-> NextOf(r, from, kept)]
         /\ (/\ from + kept < results[r].to /\ NextOf(r, from, kept) # None
             /\ HoldsMore(r, NextOf(r, from, kept)))
              => Len(views) + 1 \in DOMAIN BindingOf(r, from, kept)
<1>1. DOMAIN <<>> = {}
  OBVIOUS
<1>2. QED
  BY <1>1 DEF BindingOf

LEMMA DeliverStep ==
  ASSUME IInv, NEW w \in Workers, Deliver(w)
  PROVE  IInv'
<1> DEFINE r == worker[w].result
           from == worker[w].from
           n == Len(views) + 1
<1>1. worker[w].at = "shaping" /\ Answer(w) /\ lost' = lost
  BY DEF Deliver
<1>2. PICK kept \in 0 .. results[r].to - from :
        /\ views' = Append(views, [result |-> r, from |-> from, kept |-> kept,
                                   next |-> NextOf(r, from, kept), opened |-> worker[w].cursor])
        /\ bindings' = [t \in DOMAIN bindings \cup DOMAIN BindingOf(r, from, kept) |->
                          IF t \in DOMAIN BindingOf(r, from, kept)
                          THEN BindingOf(r, from, kept)[t] ELSE bindings[t]]
  BY DEF Deliver
<1>3. /\ results' = results /\ served' = served /\ answered' \subseteq Nat /\ pointed' \subseteq Nat
      /\ worker' \in [Workers -> Jobs] /\ worker'[w].at = "idle"
      /\ \A v \in Workers \ {w} : worker'[v] = worker[v]
      /\ r \in DOMAIN results /\ from \in Nat /\ worker[w].cursor \in Nat \cup {None}
      /\ results[r].from \in Nat /\ results[r].to \in Nat /\ r \in Nat /\ results[r].since \in Nat
      /\ results[r].from <= from /\ from < results[r].to /\ ReadUpTo(r, from)
  BY <1>1, AnswerGiven DEF IInv, ResultInv
<1>4. kept \in Nat /\ from + kept <= results[r].to
  BY <1>2, <1>3
<1> DEFINE next == NextOf(r, from, kept)
           issued == BindingOf(r, from, kept)
           view == [result |-> r, from |-> from, kept |-> kept, next |-> next,
                    opened |-> worker[w].cursor]
<1>5. /\ next \in Nat \cup {None}
      /\ next # None => next = from + kept /\ next > from
      /\ (from + kept < results[r].to /\ kept # 0) => next = from + kept
  BY <1>3, <1>4, Counts DEF NextOf
<1>6. /\ DOMAIN issued \subseteq {n}
      /\ \A t \in DOMAIN issued :
           /\ next # None /\ HoldsMore(r, next)
           /\ issued[t] = [result |-> r, offset |-> next]
      /\ (from + kept < results[r].to /\ next # None /\ HoldsMore(r, next)) => n \in DOMAIN issued
  BY IssuedWithNext
<1>7. /\ bindings' = [t \in DOMAIN bindings \cup DOMAIN issued |->
                        IF t \in DOMAIN issued THEN issued[t] ELSE bindings[t]]
      /\ views' = Append(views, view)
  BY <1>2
<1> HIDE DEF next, issued
<1>8. /\ view \in Views /\ view.result = r /\ view.from = from /\ view.kept = kept
      /\ view.next = next /\ view.opened = worker[w].cursor
  BY <1>3, <1>4, <1>5 DEF Views
<1> HIDE DEF view
<1>9. /\ views' \in Seq(Views) /\ views'[n] = view /\ n \in DOMAIN views' /\ n \notin DOMAIN views
      /\ n \in Nat
      /\ \A t \in DOMAIN views : views'[t] = views[t] /\ t \in DOMAIN views'
      /\ \A t \in DOMAIN views' : t = n \/ t \in DOMAIN views
  <2>1. views \in Seq(Views)
    BY DEF IInv, ViewInv
  <2>2. QED
    BY <1>7, <1>8, <2>1, Appended
<1> HIDE DEF n
<1>10. n \notin DOMAIN bindings /\ n \notin served
  BY <1>9 DEF IInv, BindingInv
<1>11. /\ DOMAIN bindings' = DOMAIN bindings \cup DOMAIN issued
       /\ \A t \in DOMAIN bindings : bindings'[t] = bindings[t]
       /\ \A t \in DOMAIN issued : bindings'[t].result = r /\ bindings'[t].offset = next
  BY <1>6, <1>7, <1>10
<1>12. Shown \subseteq Shown' /\ from .. from + kept - 1 \subseteq Shown'
  <2>1. \A t \in DOMAIN views' : views'[t].from .. views'[t].from + views'[t].kept - 1 \subseteq Shown'
    BY DEF Shown
  <2>2. QED
    BY <2>1, <1>8, <1>9 DEF Shown
<1>13. /\ results[r].since .. from + kept - 1 \subseteq Shown'
       /\ \A q, o : ReadUpTo(q, o) => results[q].since .. o - 1 \subseteq Shown'
  <2>1. \A q, o : ReadUpTo(q, o) => results[q].since .. o - 1 \subseteq Shown'
    BY <1>12 DEF ReadUpTo
  <2>2. \A i \in results[r].since .. from + kept - 1 :
          i \in results[r].since .. from - 1 \/ i \in from .. from + kept - 1
    BY <1>3, <1>4
  <2>3. results[r].since .. from + kept - 1 \subseteq Shown'
    BY <2>1, <2>2, <1>3, <1>12
  <2>4. QED
    BY <2>1, <2>3
<1>14. ResultInv'
  BY <1>3, <1>13 DEF IInv, ResultInv, ReadUpTo
<1>15. ViewInv'
  <2>1. ASSUME NEW t \in DOMAIN views'
        PROVE  /\ views'[t].result \in DOMAIN results
               /\ results[views'[t].result].from <= views'[t].from
               /\ views'[t].from + views'[t].kept <= results[views'[t].result].to
               /\ views'[t].next # None =>
                    /\ views'[t].next > views'[t].from
                    /\ results[views'[t].result].since .. views'[t].next - 1 \subseteq Shown'
               /\ views'[t].opened # None => views'[t].opened \in served
    <3>1. CASE t = n
      <4>1. worker[w].cursor # None => worker[w].cursor \in served
        BY <1>1 DEF IInv, WorkerInv
      <4>2. view.next # None => view.next > from /\ results[r].since .. view.next - 1 \subseteq Shown'
        <5>1. next # None => next > from /\ next - 1 = from + kept - 1
          BY <1>3, <1>4, <1>5
        <5>2. next # None => next > from /\ results[r].since .. next - 1 \subseteq Shown'
          BY <5>1, <1>13
        <5>3. QED
          BY <5>2, <1>8
      <4>3. views'[t] = view
        BY <3>1, <1>9
      <4>4. QED
        BY <4>1, <4>2, <4>3, <1>3, <1>4, <1>8
    <3>2. CASE t \in DOMAIN views
      BY <3>2, <1>9, <1>13 DEF IInv, ViewInv
    <3>3. QED
      BY <3>1, <3>2, <1>9
  <2>2. QED
    BY <2>1, <1>3, <1>9 DEF ViewInv, ReadUpTo
<1>16. BindingInv'
  <2>1. ASSUME NEW t \in DOMAIN bindings'
        PROVE  /\ bindings'[t].result \in DOMAIN results /\ bindings'[t].offset \in Nat
               /\ HoldsMore(bindings'[t].result, bindings'[t].offset)
               /\ results[bindings'[t].result].since .. bindings'[t].offset - 1 \subseteq Shown'
    <3>1. CASE t \in DOMAIN bindings
      BY <3>1, <1>11, <1>13 DEF IInv, BindingInv
    <3>2. CASE t \in DOMAIN issued
      BY <3>2, <1>3, <1>5, <1>6, <1>11, <1>13
    <3>3. QED
      BY <3>1, <3>2, <1>11
  <2>2. DOMAIN bindings' \subseteq DOMAIN views' /\ served' \subseteq DOMAIN bindings'
    BY <1>3, <1>6, <1>9, <1>11 DEF IInv, BindingInv
  <2>3. QED
    BY <2>1, <2>2, <1>3 DEF BindingInv, ReadUpTo, HoldsMore
<1>17. WorkerInv'
  <2>1. ASSUME NEW v \in Workers, v # w
        PROVE  /\ worker[v].at # "idle" => results[worker[v].result].since .. worker[v].from - 1 \subseteq Shown'
               /\ worker[v].at = "found" =>
                    /\ worker[v].cursor \in DOMAIN bindings'
                    /\ worker[v].result = bindings'[worker[v].cursor].result
                    /\ worker[v].from = bindings'[worker[v].cursor].offset
    BY <2>1, <1>11, <1>13 DEF IInv, WorkerInv
  <2>2. QED
    BY <2>1, <1>3 DEF IInv, WorkerInv, ReadUpTo
<1>18. OnceInv'
  <2>1. ASSUME NEW k \in DOMAIN views, worker[w].cursor # None
        PROVE  views[k].opened # worker[w].cursor
    BY <1>1, <2>1 DEF IInv, OnceInv
  <2>2. ASSUME NEW v \in Workers \ {w}, worker[v].at = "shaping", worker[v].cursor # None
        PROVE  worker[v].cursor # worker[w].cursor
    BY <1>1, <2>2 DEF IInv, OnceInv
  <2>3. \A k, l \in DOMAIN views' :
          (views'[k].opened # None /\ views'[k].opened = views'[l].opened) => k = l
    BY <2>1, <1>8, <1>9 DEF IInv, OnceInv
  <2>4. \A v \in Workers : worker'[v].at = "shaping" => v # w /\ worker'[v] = worker[v]
    BY <1>3
  <2>5. \A k \in DOMAIN views', v \in Workers :
          (worker'[v].at = "shaping" /\ worker'[v].cursor # None) => views'[k].opened # worker'[v].cursor
    BY <2>2, <2>4, <1>8, <1>9 DEF IInv, OnceInv
  <2>6. QED
    BY <2>3, <2>4, <2>5 DEF IInv, OnceInv
<1>19. WithheldIsReachable'
  <2>1. SUFFICES ASSUME NEW s \in DOMAIN results, NEW i \in results[s].from .. results[s].to - 1
                 PROVE  \/ i \in Shown'
                        \/ \E v \in Workers : worker'[v].at = "shaping" /\ worker'[v].result = s
                                              /\ worker'[v].from <= i
                        \/ \E k \in DOMAIN bindings' \ served :
                             bindings'[k].result = s /\ bindings'[k].offset <= i
                        \/ s \in lost
                        \/ \E k \in DOMAIN views' : views'[k].result = s /\ views'[k].kept = 0
    BY <1>1, <1>3 DEF WithheldIsReachable
  <2>2. i \in Int /\ results[s].to \in Int
    <3>1. results[s] \in Results
      BY DEF IInv, ResultInv
    <3>2. QED
      BY <3>1 DEF Results
  <2>3. CASE i \in Shown
    BY <2>3, <1>12
  <2>4. ASSUME NEW v \in Workers, worker[v].at = "shaping", worker[v].result = s, worker[v].from <= i,
               v # w
        PROVE  worker'[v].at = "shaping" /\ worker'[v].result = s /\ worker'[v].from <= i
    BY <2>4, <1>3
  <2>5. CASE s = r /\ from <= i
    <3>1. CASE kept = 0
      BY <3>1, <2>5, <1>8, <1>9
    <3>2. CASE i < from + kept
      BY <3>2, <2>2, <2>5, <1>3, <1>4, <1>12
    <3>3. CASE kept # 0 /\ from + kept <= i
      <4>1. from + kept < results[r].to
        BY <3>3, <2>2, <2>5, <1>3, <1>4
      <4>2. next = from + kept /\ next # None /\ HoldsMore(r, next)
        BY <4>1, <3>3, <1>3, <1>4, <1>5, Counts DEF HoldsMore
      <4>3. n \in DOMAIN bindings' \ served /\ bindings'[n].result = r /\ bindings'[n].offset = next
        BY <4>1, <4>2, <1>6, <1>10, <1>11
      <4>4. QED
        BY <4>2, <4>3, <3>3, <2>5
    <3>4. QED
      BY <3>1, <3>2, <3>3, <2>2, <1>3, <1>4
  <2>6. ASSUME NEW k \in DOMAIN bindings \ served, bindings[k].result = s, bindings[k].offset <= i
        PROVE  /\ k \in DOMAIN bindings' \ served
               /\ bindings'[k].result = s /\ bindings'[k].offset <= i
    BY <2>6, <1>11
  <2>7. ASSUME NEW k \in DOMAIN views, views[k].result = s, views[k].kept = 0
        PROVE  k \in DOMAIN views' /\ views'[k].result = s /\ views'[k].kept = 0
    BY <2>7, <1>9
  <2>8. QED
    BY <2>3, <2>4, <2>5, <2>6, <2>7 DEF IInv, WithheldIsReachable
<1>20. QED
  BY <1>3, <1>14, <1>15, <1>16, <1>17, <1>18, <1>19 DEF IInv

LEMMA InvStep ==
  ASSUME IInv, [Next]_vars
  PROVE  IInv'
<1>1. CASE UNCHANGED vars
  <2>1. /\ UNCHANGED <<results, views, bindings, answered, lost>> /\ pointed' = pointed /\ served' = served
        /\ worker' = worker /\ Shown' = Shown
    BY <1>1 DEF vars, Shown
  <2>2. WorkerInv' /\ OnceInv' /\ WithheldIsReachable'
    BY <2>1 DEF IInv, WorkerInv, OnceInv, WithheldIsReachable, ReadUpTo
  <2>3. QED
    BY <2>1, <2>2, SameDocuments DEF IInv, BindingInv
<1>2. QED
  BY <1>1, CallToolStep, FindPageStep, ServePageStep, RefusePageStep, DeliverStep, StandInStep
     DEF Next

-----------------------------------------------------------------------------
(* The theorems. *)

\* The inductive invariant: documents, cursors and threads begin where everything before has
\* been shown, a cursor that was spent is with one thread or in one document, and what was
\* withheld can be reached.
THEOREM Invariance == Spec => []IInv
<1>1. QED
  BY InitInv, InvStep, PTL DEF Spec

\* The property DocumentsSkipNothing: no document and no cursor goes on behind a record that
\* was not shown since its reading began, however many threads serve pages beside one another.
\* Where a refused cursor sends the model is such a beginning, and not covered.
THEOREM DocumentsSkipNoRecord == Spec => []DocumentsSkipNothing
<1>1. ASSUME IInv PROVE DocumentsSkipNothing
  BY <1>1 DEF IInv, ViewInv, BindingInv, ReadUpTo, DocumentsSkipNothing
<1>2. QED
  BY <1>1, Invariance, PTL

\* Calls that carry the same cursor get one page between them.
THEOREM OnePagePerCursor == Spec => []PagesAreServedOnce
<1>1. ASSUME IInv, NEW t \in DOMAIN bindings
      PROVE  Cardinality({k \in DOMAIN views : views[k].opened = t})
               + Cardinality({w \in Workers : worker[w].at = "shaping" /\ worker[w].cursor = t}) <= 1
  <2> DEFINE K == {k \in DOMAIN views : views[k].opened = t}
             W == {w \in Workers : worker[w].at = "shaping" /\ worker[w].cursor = t}
  <2>1. t # None
    <3>1. t \in Nat
      BY <1>1 DEF IInv, BindingInv, ViewInv
    <3>2. QED
      BY <3>1, Counts
  <2>2. (K = {} \/ \E k : K = {k}) /\ (W = {} \/ \E w : W = {w}) /\ (K = {} \/ W = {})
    <3>1. K = {} \/ \E k : K = {k}
      BY <1>1, <2>1 DEF IInv, OnceInv
    <3>2. W = {} \/ \E w : W = {w}
      <4>1. \A v, w \in W : v = w
        BY <1>1, <2>1 DEF IInv, OnceInv
      <4>2. QED
        BY <4>1
    <3>3. K = {} \/ W = {}
      BY <1>1, <2>1 DEF IInv, OnceInv
    <3>4. QED
      BY <3>1, <3>2, <3>3
  <2> HIDE DEF K, W
  <2>3. \A S : (S = {} => Cardinality(S) = 0) /\ ((\E x : S = {x}) => Cardinality(S) = 1)
    BY FS_EmptySet, FS_Singleton
  <2>4. Cardinality(K) + Cardinality(W) <= 1
    BY <2>2, <2>3
  <2>5. QED
    BY <2>4 DEF K, W
<1>2. ASSUME IInv PROVE PagesAreServedOnce
  BY <1>1, <1>2 DEF PagesAreServedOnce
<1>3. QED
  BY <1>2, Invariance, PTL

\* What the run retains and has not shown can still be read, unless a document of it failed.
THEOREM WithheldCanBeRead == Spec => []WithheldIsReachable
<1>1. ASSUME IInv PROVE WithheldIsReachable
  BY <1>1 DEF IInv
<1>2. QED
  BY <1>1, Invariance, PTL
=============================================================================
