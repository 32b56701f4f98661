-------------------------- MODULE TripEditorProofs --------------------------
(***************************************************************************)
(* Theorems about TripEditor, for any number of editors, any requests and  *)
(* batches, any length of the trip and whatever a batch computes.          *)
(*                                                                         *)
(* AnswersAreTrue is not inductive: an answer is given one or two awaits   *)
(* after what it is about was read.  What carries it over the awaits is    *)
(* that the history of a trip only grows at its end (HistoryEnds) and that *)
(* an editor remembers a revision that is not after the current one        *)
(* (JobsAreSane).                                                          *)
(*                                                                         *)
(* The other three properties are about what a batch computes.  They rest  *)
(* on EInv (stored requests are valid, and an editor holds what Apply      *)
(* answered to the request it read) and on walking a batch operation by    *)
(* operation: UpTo and FromThenOn are the inductions along a list, by      *)
(* LeastElement.                                                           *)
(***************************************************************************)
EXTENDS TripEditor, FiniteSetTheorems, WellFoundedInduction, TLAPS

Domains == DOMAIN history = Revisions /\ DOMAIN stage = Editors /\ DOMAIN job = Editors

HistoryEnds ==
  /\ head \in Revisions \cup {None}
  /\ head # None => \A r \in Revisions : r > head => history[r] = None

(* The revision an editor was asked to edit is not ahead of the trip, or   *)
(* has been left behind.                                                   *)
Reached(r) == r \in Revisions /\ (head # None => r <= head)
LeftBehind(r) == r \in Revisions /\ (head # None => r < head)

Sane(e) ==
  /\ stage[e] \in {"optimize", "persist"} =>
       Reached(job[e].expected) /\ history[job[e].expected] = job[e].before
  /\ stage[e] \in {"recheck", "conflict"} => LeftBehind(job[e].expected)
  /\ stage[e] = "deleted" => head = None
  /\ stage[e] = "applied" =>
       /\ Reached(job[e].expected)
       /\ history[job[e].expected] = job[e].before
       /\ job[e].after # job[e].before =>
            /\ Reached(job[e].expected + 1)
            /\ history[job[e].expected + 1] = job[e].after

JobsAreSane == \A e \in Editors : Sane(e)

IInv == Domains /\ HistoryEnds /\ JobsAreSane

-----------------------------------------------------------------------------
(* A new revision is put behind the last one and changes none before it.   *)
LEMMA NextRevision ==
  ASSUME Domains, HistoryEnds, NEW q, head # None, head < MaxRevision,
         head' = head + 1, history' = [history EXCEPT ![head + 1] = q]
  PROVE  /\ DOMAIN history' = Revisions
         /\ HistoryEnds'
         /\ head' # None /\ head + 1 \in Revisions /\ history'[head + 1] = q
         /\ \A r \in Revisions : r <= head => history'[r] = history[r]
<1>1. head \in 0..MaxRevision /\ MaxRevision \in Nat
  BY BoundAssumption DEF HistoryEnds, Revisions
<1>2. head + 1 \in Revisions /\ DOMAIN history = Revisions
  BY <1>1 DEF Revisions, Domains
<1>3. head' # None
  BY <1>2, NoneAssumption
<1>4. \A r \in Revisions : r # head + 1 => history'[r] = history[r]
  BY <1>2
<1>5. \A r \in Revisions : r > head' => history'[r] = None
  BY <1>1, <1>4 DEF HistoryEnds, Revisions
<1>6. \A r \in Revisions : r <= head => history'[r] = history[r]
  BY <1>1, <1>4 DEF Revisions
<1> QED
  BY <1>2, <1>3, <1>5, <1>6 DEF HistoryEnds

(* What the trip's other writers may do to it while an editor waits.       *)
Grows ==
  /\ head' # None => head # None /\ head <= head'
  /\ head' \in Revisions \cup {None}
  /\ \A r \in Revisions : Reached(r) => history'[r] = history[r]

(* What an editor read stays true while others add revisions.              *)
LEMMA WaitingIsSafe ==
  ASSUME HistoryEnds, NEW e \in Editors, Sane(e), Grows,
         stage'[e] = stage[e], job'[e] = job[e]
  PROVE  Sane(e)'
<1>1. \A r : Reached(r) => Reached(r)' /\ history'[r] = history[r]
  BY BoundAssumption, NoneAssumption DEF Reached, Grows, HistoryEnds, Revisions
<1>2. \A r : LeftBehind(r) => LeftBehind(r)'
  BY BoundAssumption, NoneAssumption DEF LeftBehind, Grows, HistoryEnds, Revisions
<1> QED
  BY <1>1, <1>2 DEF Sane, Grows

(* A write at the head, a deletion, and leaving the trip alone.            *)
LEMMA NextRevisionGrows ==
  ASSUME Domains, HistoryEnds, NEW q, head # None, head < MaxRevision,
         head' = head + 1, history' = [history EXCEPT ![head + 1] = q]
  PROVE  Grows
<1>1. head \in 0..MaxRevision /\ MaxRevision \in Nat
  BY BoundAssumption DEF HistoryEnds, Revisions
<1>2. /\ head + 1 \in Revisions
      /\ \A r \in Revisions : r <= head => history'[r] = history[r]
  BY NextRevision
<1>3. head' \in Revisions /\ head <= head'
  BY <1>1, <1>2
<1> QED
  BY <1>2, <1>3 DEF Grows, Reached

(* A step that writes no revision keeps those there are.                   *)
LEMMA UnchangedGrows ==
  ASSUME HistoryEnds, UNCHANGED <<head, history>>
  PROVE  Grows
<1>1. head # None => head \in Nat
  BY BoundAssumption DEF HistoryEnds, Revisions
<1> QED
  BY <1>1 DEF Grows, HistoryEnds

-----------------------------------------------------------------------------
(* One revision, no editor at work.                                        *)
LEMMA InitIInv == Init => IInv
<1> SUFFICES ASSUME Init PROVE IInv
  OBVIOUS
<1>1. PICK q \in Requests : history = [r \in Revisions |-> IF r = 0 THEN q ELSE None]
  BY DEF Init
<1>2. Domains
  BY <1>1 DEF Init, Domains
<1>3. HistoryEnds
  BY <1>1, BoundAssumption DEF Init, HistoryEnds, Revisions
<1>4. JobsAreSane
  BY DEF Init, JobsAreSane, Sane
<1> QED
  BY <1>2, <1>3, <1>4 DEF IInv

(* The trip is as it was and one editor goes on: the invariant is kept if  *)
(* that editor is sane.                                                    *)
LEMMA OneEditorMoves ==
  ASSUME IInv, NEW e \in Editors, NEW s, UNCHANGED <<head, history>>, Go(e, s),
         DOMAIN job' = Editors, \A d \in Editors \ {e} : job'[d] = job[d],
         Sane(e)'
  PROVE  IInv'
<1>1. Domains' /\ HistoryEnds'
  BY DEF IInv, Domains, HistoryEnds, Go
<1>2. \A d \in Editors \ {e} : stage'[d] = stage[d]
  BY DEF IInv, Domains, Go
<1>3. ASSUME NEW d \in Editors \ {e} PROVE Sane(d)'
  BY <1>2, <1>3, UnchangedGrows, WaitingIsSafe DEF IInv, JobsAreSane
<1> QED
  BY <1>1, <1>3 DEF IInv, JobsAreSane

(* The editor takes what the current revision says, or refuses.            *)
LEMMA LoadKeeps ==
  ASSUME IInv, NEW e \in Editors, NEW batch, NEW expected \in Revisions,
         Load(e, batch, expected)
  PROVE  IInv'
<1>1. Domains /\ HistoryEnds /\ DOMAIN stage = Editors /\ DOMAIN job = Editors
  BY DEF IInv, Domains
<1>2. UNCHANGED <<head, history>>
  BY DEF Load
<1>3. CASE head = None
  <2>1. Go(e, "deleted") /\ UNCHANGED job
    BY <1>3 DEF Load
  <2>2. Sane(e)'
    BY <1>1, <1>2, <1>3, <2>1 DEF Go, Sane
  <2> QED
    BY <1>1, <1>2, <2>1, <2>2, OneEditorMoves
<1>4. CASE head # None /\ head # expected
  <2>1. /\ Go(e, "conflict")
        /\ job' = [job EXCEPT ![e] = [batch |-> <<>>, expected |-> expected, before |-> None,
                                      after |-> None, dropped |-> {}]]
    BY <1>4 DEF Load
  <2>2. stage'[e] = "conflict" /\ job'[e].expected = expected
    BY <1>1, <2>1 DEF Go
  <2>3. expected < head
    BY <1>1, <1>4, BoundAssumption DEF Load, HistoryEnds, Revisions
  <2>4. Sane(e)'
    BY <1>2, <2>2, <2>3 DEF Sane, LeftBehind
  <2>5. DOMAIN job' = Editors /\ \A d \in Editors \ {e} : job'[d] = job[d]
    BY <1>1, <2>1
  <2> QED
    BY <1>2, <2>1, <2>4, <2>5, OneEditorMoves
<1>5. CASE head # None /\ head = expected /\ Apply(history[head], batch).ok
  <2> DEFINE out == Apply(history[head], batch)
  <2>1. /\ Go(e, "optimize")
        /\ job' = [job EXCEPT ![e] =
             [batch |-> batch, expected |-> expected, before |-> history[head],
              after |-> out.request, dropped |-> out.dropped]]
    BY <1>5 DEF Load
  <2> HIDE DEF out
  <2>2. /\ stage'[e] = "optimize" /\ job'[e].expected = expected
        /\ job'[e].before = history[head]
    BY <1>1, <2>1 DEF Go
  <2>3. Reached(expected)'
    BY <1>2, <1>5, BoundAssumption DEF Reached, Revisions
  <2>4. Sane(e)'
    BY <1>2, <1>5, <2>2, <2>3 DEF Sane
  <2>5. DOMAIN job' = Editors /\ \A d \in Editors \ {e} : job'[d] = job[d]
    BY <1>1, <2>1
  <2> QED
    BY <1>2, <2>1, <2>4, <2>5, OneEditorMoves
<1>6. CASE head # None /\ head = expected /\ ~Apply(history[head], batch).ok
  <2>1. Go(e, "rejected") /\ UNCHANGED job
    BY <1>6 DEF Load
  <2>2. Sane(e)'
    BY <1>1, <2>1 DEF Go, Sane
  <2> QED
    BY <1>1, <1>2, <2>1, <2>2, OneEditorMoves
<1> QED
  BY <1>3, <1>4, <1>5, <1>6

(* The steps after which only the editor's own answer is new.              *)
LEMMA OptimizeKeeps ==
  ASSUME IInv, NEW e \in Editors, Optimize(e)
  PROVE  IInv'
<1>1. PICK s \in {"persist", "failed"} : Go(e, s)
  BY DEF Optimize
<1>2. stage'[e] = s /\ stage[e] = "optimize" /\ UNCHANGED <<head, history, job>>
  BY <1>1 DEF Optimize, IInv, Domains, Go
<1>3. Sane(e)'
  BY <1>2 DEF IInv, JobsAreSane, Sane, Reached
<1> QED
  BY <1>1, <1>2, <1>3, OneEditorMoves DEF IInv, Domains

(* The driver's failure stores nothing.                                    *)
LEMMA PersistFailsKeeps ==
  ASSUME IInv, NEW e \in Editors, PersistFails(e)
  PROVE  IInv'
<1>1. stage'[e] = "failed" /\ UNCHANGED <<head, history, job>>
  BY DEF PersistFails, IInv, Domains, Go
<1>2. Sane(e)'
  BY <1>1 DEF Sane
<1> QED
  BY <1>1, <1>2, OneEditorMoves DEF PersistFails, IInv, Domains

(* The second read tells a deleted trip from one that moved on.            *)
LEMMA RecheckKeeps ==
  ASSUME IInv, NEW e \in Editors, Recheck(e)
  PROVE  IInv'
<1> DEFINE s == IF head = None THEN "deleted" ELSE "conflict"
<1>1. stage'[e] = s /\ stage[e] = "recheck" /\ UNCHANGED <<head, history, job>>
  BY DEF Recheck, IInv, Domains, Go
<1>2. Sane(e)'
  BY <1>1 DEF IInv, JobsAreSane, Sane, LeftBehind
<1> QED
  BY <1>1, <1>2, OneEditorMoves DEF Recheck, IInv, Domains

-----------------------------------------------------------------------------
(* update() stores the edit after the revision that was confirmed, or not  *)
(* at all.                                                                 *)
LEMMA PersistKeeps ==
  ASSUME IInv, NEW e \in Editors, Persist(e)
  PROVE  IInv'
<1>1. /\ Domains /\ HistoryEnds /\ DOMAIN stage = Editors /\ DOMAIN job = Editors
      /\ stage[e] = "persist" /\ UNCHANGED job
  BY DEF IInv, Domains, Persist
<1>2. Reached(job[e].expected) /\ history[job[e].expected] = job[e].before
  BY <1>1 DEF IInv, JobsAreSane, Sane
<1>3. CASE head = None
  <2>1. Go(e, "deleted") /\ UNCHANGED <<head, history>>
    BY <1>2, <1>3, NoneAssumption DEF Persist, Reached
  <2>2. Sane(e)'
    BY <1>1, <1>3, <2>1 DEF Go, Sane
  <2> QED
    BY <1>1, <2>1, <2>2, OneEditorMoves
<1>4. CASE head # None /\ head # job[e].expected
  <2>1. Go(e, "recheck") /\ UNCHANGED <<head, history>>
    BY <1>4 DEF Persist
  <2>2. LeftBehind(job[e].expected)
    BY <1>1, <1>2, <1>4, BoundAssumption DEF Reached, LeftBehind, HistoryEnds, Revisions
  <2>3. Sane(e)'
    BY <1>1, <2>1, <2>2 DEF Go, Sane, LeftBehind
  <2> QED
    BY <1>1, <2>1, <2>3, OneEditorMoves
<1>5. CASE /\ head # None /\ head = job[e].expected /\ job[e].after = history[head]
           /\ Go(e, "applied") /\ UNCHANGED <<head, history>>
  <2>1. Go(e, "applied") /\ UNCHANGED <<head, history>>
    BY <1>5
  <2>2. Sane(e)'
    BY <1>1, <1>2, <1>5, <2>1 DEF Go, Sane, Reached
  <2> QED
    BY <1>1, <2>1, <2>2, OneEditorMoves
<1>6. CASE /\ head # None /\ head = job[e].expected /\ head < MaxRevision
           /\ head' = head + 1 /\ history' = [history EXCEPT ![head + 1] = job[e].after]
           /\ Go(e, "applied")
  <2>1. /\ head < MaxRevision /\ head' = head + 1
        /\ history' = [history EXCEPT ![head + 1] = job[e].after]
        /\ Go(e, "applied")
    BY <1>6
  <2>2. head \in Nat /\ head \in Revisions
    BY <1>1, <1>6, BoundAssumption DEF HistoryEnds, Revisions
  <2>3. /\ DOMAIN history' = Revisions
        /\ HistoryEnds'
        /\ head' # None /\ head + 1 \in Revisions /\ history'[head + 1] = job[e].after
        /\ \A r \in Revisions : r <= head => history'[r] = history[r]
    BY <1>1, <1>6, <2>1, NextRevision
  <2>4. Domains'
    BY <1>1, <2>1, <2>3 DEF Domains, Go
  <2>5. stage'[e] = "applied" /\ \A d \in Editors \ {e} : stage'[d] = stage[d]
    BY <1>1, <2>1 DEF Go
  <2>6. history'[head] = history[head]
    BY <2>2, <2>3
  <2>7. Sane(e)'
    <3>1. Reached(job[e].expected)'
      BY <1>1, <1>6, <2>1, <2>2 DEF Reached
    <3>2. Reached(job[e].expected + 1)'
      BY <1>1, <1>6, <2>1, <2>2, <2>3 DEF Reached
    <3> QED
      BY <1>1, <1>2, <1>6, <2>3, <2>5, <2>6, <3>1, <3>2 DEF Sane
  <2>8. ASSUME NEW d \in Editors \ {e} PROVE Sane(d)'
    <3>1. Grows
      BY <1>1, <1>6, <2>1, NextRevisionGrows
    <3> QED
      BY <1>1, <2>5, <2>8, <3>1, WaitingIsSafe DEF IInv, JobsAreSane
  <2> QED
    BY <2>3, <2>4, <2>7, <2>8 DEF IInv, JobsAreSane
<1> QED
  BY <1>3, <1>4, <1>5, <1>6 DEF Persist

(* A page stores a revision: the editors' conflicts stay conflicts.        *)
LEMMA SaveKeeps ==
  ASSUME IInv, NEW q, Save(q)
  PROVE  IInv'
<1>1. Domains /\ HistoryEnds
  BY DEF IInv
<1>2. DOMAIN history' = Revisions /\ HistoryEnds' /\ Grows
  BY <1>1, NextRevision, NextRevisionGrows DEF Save
<1>3. Domains'
  BY <1>1, <1>2 DEF Domains, Save
<1>4. ASSUME NEW d \in Editors PROVE Sane(d)'
  BY <1>1, <1>2, <1>4, WaitingIsSafe DEF Save, IInv, JobsAreSane
<1> QED
  BY <1>2, <1>3, <1>4 DEF IInv, JobsAreSane

(* A deleted trip never comes back under its number.                       *)
LEMMA DeleteKeeps ==
  ASSUME IInv, Delete
  PROVE  IInv'
<1>1. Domains' /\ HistoryEnds' /\ Grows
  BY DEF IInv, Domains, HistoryEnds, Delete, Grows
<1>2. ASSUME NEW d \in Editors PROVE Sane(d)'
  BY <1>1, <1>2, WaitingIsSafe DEF Delete, IInv, JobsAreSane
<1> QED
  BY <1>1, <1>2 DEF IInv, JobsAreSane

(* Nothing happens.                                                        *)
LEMMA StutterKeeps ==
  ASSUME IInv, UNCHANGED vars
  PROVE  IInv'
<1>1. Domains' /\ HistoryEnds' /\ Grows
  BY UnchangedGrows DEF vars, IInv, Domains, HistoryEnds
<1>2. ASSUME NEW d \in Editors PROVE Sane(d)'
  BY <1>1, <1>2, WaitingIsSafe DEF vars, IInv, JobsAreSane
<1> QED
  BY <1>1, <1>2 DEF IInv, JobsAreSane

(* A set of natural numbers that is not empty has a least element.         *)
LEMMA LeastElement ==
  ASSUME NEW S, S \subseteq Nat, S # {}
  PROVE  \E n \in S : \A m \in S : n <= m
<1> DEFINE R == {ss \in Nat \X Nat : ss[1] < ss[2]}
<1>1. IsWellFoundedOn(R, Nat)
  BY NatLessThanWellFounded, Zenon DEF OpToRel
<1>2. \A x, y \in Nat : <<y, x>> \notin R => x <= y
  OBVIOUS
<1> HIDE DEF R
<1>3. \E x \in S : \A y \in S : ~(<<y, x>> \in R)
  BY <1>1, WFMin
<1>4. QED
  BY <1>2, <1>3

(* Induction up to a bound, over a set of numbers instead of a predicate.  *)
LEMMA UpTo ==
  ASSUME NEW L \in Nat, NEW G, 0 \in G, \A n \in Nat : n < L /\ n \in G => n + 1 \in G
  PROVE  \A n \in 0..L : n \in G
<1> DEFINE Bad == {n \in Nat : n <= L /\ n \notin G}
<1>1. SUFFICES ASSUME Bad # {} PROVE FALSE
  OBVIOUS
<1>2. PICK n \in Bad : \A m \in Bad : n <= m
  BY <1>1, LeastElement
<1>3. n # 0 /\ n - 1 \in Nat /\ n - 1 < L /\ n - 1 \in 0..L
  BY <1>2
<1>4. n - 1 \in G
  BY <1>2, <1>3
<1>5. (n - 1) + 1 \in G
  BY <1>3, <1>4
<1>6. QED
  BY <1>2, <1>5

(* How many come before i, by the value v gives them.                      *)
Rank(v, i) == Cardinality({j \in DOMAIN v : v[j] < v[i]})

(* No two things are given the same value.                                 *)
Distinct(v) == \A i, j \in DOMAIN v : v[i] = v[j] => i = j

(* Different values count the things they are given to from 0.             *)
LEMMA Ranks ==
  ASSUME NEW S, IsFiniteSet(S), NEW v \in [S -> Int], Distinct(v)
  PROVE  /\ \A i \in S : Rank(v, i) \in 0..(Cardinality(S) - 1)
         /\ \A i, j \in S : Rank(v, i) = Rank(v, j) => i = j
         /\ \A k \in 0..(Cardinality(S) - 1) : \E i \in S : Rank(v, i) = k
<1> DEFINE Below(i) == {j \in S : v[j] < v[i]}
           r == [i \in S |-> Cardinality(Below(i))]
           T == 0..(Cardinality(S) - 1)
<1>0. \A i \in S : Rank(v, i) = r[i]
  BY DEF Rank
<1>1. Cardinality(S) \in Nat
  BY FS_CardinalityType
<1>2. ASSUME NEW i \in S PROVE r[i] \in T /\ IsFiniteSet(Below(i))
  <2>1. Below(i) \in SUBSET S /\ i \notin Below(i)
    OBVIOUS
  <2>2. IsFiniteSet(Below(i)) /\ Cardinality(Below(i)) <= Cardinality(S)
        /\ (Cardinality(S) = Cardinality(Below(i)) => S = Below(i))
    BY <2>1, FS_Subset
  <2>3. Cardinality(Below(i)) \in Nat
    BY <2>2, FS_CardinalityType
  <2>4. QED
    BY <1>1, <2>1, <2>2, <2>3
<1>3. ASSUME NEW i \in S, NEW j \in S, v[i] < v[j] PROVE r[i] < r[j]
  <2>1. Below(i) \in SUBSET Below(j) /\ Below(i) # Below(j)
    BY <1>3
  <2>2. Cardinality(Below(i)) <= Cardinality(Below(j))
        /\ (Cardinality(Below(j)) = Cardinality(Below(i)) => Below(j) = Below(i))
    BY <1>2, <2>1, FS_Subset
  <2>3. r[i] \in Int /\ r[j] \in Int
    BY <1>2
  <2>4. QED
    BY <2>1, <2>2, <2>3
<1>4. \A i, j \in S : r[i] = r[j] => i = j
  <2>1. ASSUME NEW i \in S, NEW j \in S, r[i] = r[j] PROVE i = j
    <3>1. v[i] \in Int /\ v[j] \in Int /\ r[i] \in Int
      BY <1>2
    <3>2. ~(v[i] < v[j]) /\ ~(v[j] < v[i])
      BY <1>3, <2>1, <3>1
    <3>3. QED
      BY <3>1, <3>2 DEF Distinct
  <2>2. QED
    BY <2>1
<1>5. r \in [S -> T]
  BY <1>2
<1> HIDE DEF r
<1>6. r \in Injection(S, T)
  BY <1>4, <1>5 DEF Injection, IsInjective
<1>7. IsFiniteSet(T) /\ Cardinality(T) = Cardinality(S)
  BY <1>1, FS_Interval
<1>8. r \in Surjection(S, T)
  BY <1>6, <1>7, FS_Injection
<1>9. QED
  BY <1>0, <1>4, <1>5, <1>8 DEF Surjection

(* Every rank is that of something.                                        *)
LEMMA RankOfSome ==
  ASSUME NEW S, IsFiniteSet(S), NEW v \in [S -> Int], Distinct(v),
         NEW k \in 0..(Cardinality(S) - 1)
  PROVE  \E i \in S : Rank(v, i) = k
BY Ranks

(* The positions of a set are its elements, each once.                     *)
LEMMA PositionsAre ==
  ASSUME NEW S \in SUBSET Nat, IsFiniteSet(S)
  PROVE  /\ DOMAIN Positions(S) = 1..Cardinality(S)
         /\ \A k \in 1..Cardinality(S) : Positions(S)[k] \in S
         /\ \A i \in S : \E k \in 1..Cardinality(S) : Positions(S)[k] = i
<1>1. PICK v : v = [i \in S |-> i]
  OBVIOUS
<1>2. v \in [S -> Int] /\ Distinct(v)
  BY <1>1 DEF Distinct
<1>3. \A i \in S : Rank(v, i) = Cardinality({j \in S : j < i})
  <2>1. ASSUME NEW i \in S PROVE Rank(v, i) = Cardinality({j \in S : j < i})
    <3>1. {j \in DOMAIN v : v[j] < v[i]} = {j \in S : j < i}
      BY <1>1
    <3>2. QED
      BY <3>1 DEF Rank
  <2>2. QED
    BY <2>1
<1>4. Cardinality(S) \in Nat
  BY FS_CardinalityType
<1>5. /\ \A i \in S : Rank(v, i) \in 0..(Cardinality(S) - 1)
      /\ \A i, j \in S : Rank(v, i) = Rank(v, j) => i = j
  BY <1>2, Ranks
<1>6. ASSUME NEW k \in 1..Cardinality(S)
      PROVE  Positions(S)[k] \in S /\ Rank(v, Positions(S)[k]) = k - 1
  <2>1. k - 1 \in 0..(Cardinality(S) - 1)
    BY <1>4
  <2>2. PICK i \in S : Rank(v, i) = k - 1
    BY <1>2, <2>1, RankOfSome, Zenon
  <2>3. /\ Positions(S)[k] \in S
        /\ Cardinality({j \in S : j < Positions(S)[k]}) = k - 1
    BY <1>3, <2>2 DEF Positions
  <2>4. QED
    BY <1>3, <2>3
<1>7. ASSUME NEW i \in S
      PROVE  \E k \in 1..Cardinality(S) : Positions(S)[k] = i
  <2>1. Rank(v, i) + 1 \in 1..Cardinality(S)
    BY <1>4, <1>5
  <2>2. (Rank(v, i) + 1) - 1 = Rank(v, i)
    BY <1>4, <1>5
  <2>3. Positions(S)[Rank(v, i) + 1] = i
    BY <1>5, <1>6, <2>1, <2>2
  <2>4. QED
    BY <2>1, <2>3
<1>8. QED
  BY <1>6, <1>7 DEF Positions

(* What is picked from a list.                                             *)
LEMMA PickIs ==
  ASSUME NEW list, NEW S \in SUBSET Nat, IsFiniteSet(S)
  PROVE  /\ Cardinality(S) \in Nat
         /\ DOMAIN Pick(list, S) = 1..Cardinality(S)
         /\ Len(Pick(list, S)) = Cardinality(S)
         /\ ToSet(Pick(list, S)) = {list[i] : i \in S}
         /\ Pick(list, S) \in Seq(ToSet(Pick(list, S)))
<1>1. Cardinality(S) \in Nat
  BY FS_CardinalityType
<1>2. PICK n \in Nat : n = Cardinality(S)
  BY <1>1
<1>3. PICK pos : pos = Positions(S)
  OBVIOUS
<1>4. /\ \A k \in 1..n : pos[k] \in S
      /\ \A i \in S : \E k \in 1..n : pos[k] = i
  BY <1>2, <1>3, PositionsAre
<1>5. PICK s : s = [k \in 1..n |-> list[pos[k]]]
  OBVIOUS
<1>6. Pick(list, S) = s
  BY <1>2, <1>3, <1>5 DEF Pick
<1>7. ToSet(s) = {list[i] : i \in S}
  BY <1>4, <1>5 DEF ToSet
<1>8. s \in [1..n -> ToSet(s)]
  BY <1>5 DEF ToSet
<1>9. s \in Seq(ToSet(s)) /\ Len(s) = n /\ DOMAIN s = 1..n
  BY <1>5, <1>8
<1>10. QED
  BY <1>1, <1>2, <1>6, <1>7, <1>9

-----------------------------------------------------------------------------
(* A list's positions, and what is at them.                                *)
LEMMA ListIs ==
  ASSUME NEW s, IsList(s)
  PROVE  /\ Len(s) \in Nat /\ DOMAIN s = 1..Len(s)
         /\ \A i \in DOMAIN s : s[i] \in ToSet(s)
         /\ \A x \in ToSet(s) : \E i \in DOMAIN s : s[i] = x
         /\ DOMAIN s \in SUBSET Nat /\ IsFiniteSet(DOMAIN s) /\ Cardinality(DOMAIN s) = Len(s)
<1>1. PICK T : T = ToSet(s)
  OBVIOUS
<1>2. s \in Seq(T)
  BY <1>1 DEF IsList
<1>3. Len(s) \in Nat /\ DOMAIN s = 1..Len(s) /\ \A i \in DOMAIN s : s[i] \in T
  BY <1>2
<1>4. IsFiniteSet(1..Len(s)) /\ Cardinality(1..Len(s)) = Len(s)
  BY <1>3, FS_Interval
<1>5. \A x \in ToSet(s) : \E i \in DOMAIN s : s[i] = x
  BY DEF ToSet
<1> QED
  BY <1>1, <1>3, <1>4, <1>5

(* What the loop of apply_operations() has after each operation.           *)
Loop(g, q, batch, m) ==
  g = [n \in 0..m |->
        IF n = 0 THEN [q |-> q, ok |-> TRUE]
        ELSE LET acc == g[n - 1]
             IN IF acc.ok /\ ~Refused(acc.q, batch[n])
                THEN [q |-> Handled(acc.q, batch[n]), ok |-> TRUE]
                ELSE [q |-> acc.q, ok |-> FALSE]]

(* The loop runs to the end of the list.                                   *)
LEMMA LoopRuns ==
  ASSUME NEW q, NEW batch, Len(batch) \in Nat
  PROVE  /\ \E g : Loop(g, q, batch, Len(batch))
         /\ InOrder(q, batch) = (CHOOSE g : Loop(g, q, batch, Len(batch)))[Len(batch)]
<1> DEFINE After(acc, op) ==
             IF acc.ok /\ ~Refused(acc.q, op)
             THEN [q |-> Handled(acc.q, op), ok |-> TRUE] ELSE [q |-> acc.q, ok |-> FALSE]
           Done == {m \in Nat : \E g : Loop(g, q, batch, m)}
           first == [q |-> q, ok |-> TRUE]
<1>0. \A g, m : Loop(g, q, batch, m) <=>
        g = [n \in 0..m |-> IF n = 0 THEN first ELSE After(g[n - 1], batch[n])]
  BY DEF Loop
<1> HIDE DEF After, first
<1>1. 0 \in Done
  <2>1. PICK g : g = [n \in 0..0 |-> first]
    OBVIOUS
  <2>2. g = [n \in 0..0 |-> IF n = 0 THEN first ELSE After(g[n - 1], batch[n])]
    BY <2>1
  <2> QED
    BY <1>0, <2>2
<1>2. ASSUME NEW m \in Nat, m \in Done PROVE m + 1 \in Done
  <2>1. PICK g : g = [n \in 0..m |-> IF n = 0 THEN first ELSE After(g[n - 1], batch[n])]
    BY <1>0, <1>2
  <2>2. PICK h : h = [n \in 0..(m + 1) |-> IF n = 0 THEN first ELSE After(g[n - 1], batch[n])]
    OBVIOUS
  <2>3. \A n \in 0..m : h[n] = g[n]
    BY <2>1, <2>2
  <2>4. \A n \in 0..(m + 1) : n # 0 => n - 1 \in 0..m
    OBVIOUS
  <2>5. h = [n \in 0..(m + 1) |-> IF n = 0 THEN first ELSE After(h[n - 1], batch[n])]
    BY <2>2, <2>3, <2>4
  <2>6. Loop(h, q, batch, m + 1)
    BY <1>0, <2>5, Zenon
  <2> QED
    BY <2>6
<1>3. Len(batch) \in Done
  <2>1. PICK L \in Nat : L = Len(batch)
    OBVIOUS
  <2>2. \A m \in Nat : m < L /\ m \in Done => m + 1 \in Done
    BY <1>2
  <2> HIDE DEF Done
  <2>3. \A m \in 0..L : m \in Done
    BY <1>1, <2>2, UpTo
  <2>4. L \in 0..L
    OBVIOUS
  <2> QED
    BY <2>1, <2>3, <2>4
<1>4. InOrder(q, batch) = (CHOOSE g : Loop(g, q, batch, Len(batch)))[Len(batch)]
  BY DEF InOrder, Loop
<1> QED
  BY <1>3, <1>4

(* The requests r before, between and after the operations of a batch none *)
(* of which was refused.                                                   *)
Whole(r, q, batch) ==
  /\ r[0] = q
  /\ \A n \in 1..Len(batch) :
       ~Refused(r[n - 1], batch[n]) /\ r[n] = Handled(r[n - 1], batch[n])

(* A batch that is not refused was carried out one operation after another.*)
LEMMA InOrderIsWhole ==
  ASSUME NEW q, NEW batch, Len(batch) \in Nat, InOrder(q, batch).ok
  PROVE  \E r : Whole(r, q, batch) /\ InOrder(q, batch).q = r[Len(batch)]
<1>1. PICK g : Loop(g, q, batch, Len(batch)) /\ InOrder(q, batch) = g[Len(batch)]
  BY LoopRuns
<1>2. PICK L \in Nat : L = Len(batch)
  OBVIOUS
<1>3. g[0] = [q |-> q, ok |-> TRUE]
  BY <1>1, <1>2 DEF Loop
<1>4. ASSUME NEW n \in 1..L
      PROVE  g[n] = IF g[n - 1].ok /\ ~Refused(g[n - 1].q, batch[n])
                    THEN [q |-> Handled(g[n - 1].q, batch[n]), ok |-> TRUE]
                    ELSE [q |-> g[n - 1].q, ok |-> FALSE]
  <2>1. n \in 0..L /\ n # 0
    OBVIOUS
  <2> QED
    BY <1>1, <1>2, <2>1 DEF Loop
<1>5. \A n \in 1..L : g[n].ok =>
        /\ g[n - 1].ok /\ ~Refused(g[n - 1].q, batch[n])
        /\ g[n].q = Handled(g[n - 1].q, batch[n])
  <2>1. ASSUME NEW n \in 1..L, g[n].ok, ~(g[n - 1].ok /\ ~Refused(g[n - 1].q, batch[n]))
        PROVE  FALSE
    <3>1. g[n] = [q |-> g[n - 1].q, ok |-> FALSE]
      BY <1>4, <2>1
    <3> QED
      BY <2>1, <3>1
  <2>2. ASSUME NEW n \in 1..L, g[n - 1].ok, ~Refused(g[n - 1].q, batch[n])
        PROVE  g[n].q = Handled(g[n - 1].q, batch[n])
    <3>1. g[n] = [q |-> Handled(g[n - 1].q, batch[n]), ok |-> TRUE]
      BY <1>4, <2>2
    <3> QED
      BY <3>1
  <2> QED
    BY <2>1, <2>2
<1>6. \A m \in 0..L : g[L - m].ok
  <2> DEFINE G == {m \in Nat : g[L - m].ok}
  <2>1. 0 \in G
    BY <1>1, <1>2
  <2>2. ASSUME NEW m \in Nat, m < L, m \in G PROVE m + 1 \in G
    <3>1. L - m \in 1..L /\ (L - m) - 1 = L - (m + 1)
      BY <2>2
    <3> QED
      BY <1>5, <2>2, <3>1
  <2>3. \A m \in 0..L : m \in G
    <3> HIDE DEF G
    <3> QED
      BY <2>1, <2>2, UpTo
  <2> QED
    BY <2>3
<1>7. \A n \in 1..L : g[n].ok
  <2>1. ASSUME NEW n \in 1..L PROVE g[n].ok
    <3>1. L - n \in 0..L /\ L - (L - n) = n
      OBVIOUS
    <3>2. g[L - (L - n)].ok
      BY <1>6, <3>1
    <3> QED
      BY <3>1, <3>2
  <2> QED
    BY <2>1
<1>8. PICK r : r = [n \in 0..L |-> g[n].q]
  OBVIOUS
<1>9. Whole(r, q, batch)
  <2>1. r[0] = q
    BY <1>3, <1>8
  <2>2. ASSUME NEW n \in 1..L
        PROVE  ~Refused(r[n - 1], batch[n]) /\ r[n] = Handled(r[n - 1], batch[n])
    <3>1. r[n] = g[n].q /\ r[n - 1] = g[n - 1].q
      BY <1>8
    <3> QED
      BY <1>5, <1>7, <3>1
  <2> QED
    BY <1>2, <2>1, <2>2 DEF Whole
<1>10. InOrder(q, batch).q = r[L]
  BY <1>1, <1>2, <1>8
<1> QED
  BY <1>2, <1>9, <1>10

-----------------------------------------------------------------------------
PlaceOps == {"set_place_auto", "set_place_pinned", "set_place_flexible", "remove_place"}
TransferOps == {"add_transfer", "update_transfer", "remove_transfer"}

(* An operation changes the part of the request it is about, and no other. *)
LEMMA HandledFrame ==
  ASSUME NEW q, Shaped(q), NEW op, WellFormed(op)
  PROVE  LET h == Handled(q, op)
         IN /\ DOMAIN h = {"places", "days", "mode", "stays", "transfers"}
            /\ h.stays = q.stays
            /\ op.op \notin PlaceOps => h.places = q.places
            /\ op.op # "update_day_window" => h.days = q.days
            /\ op.op # "set_transport_mode" => h.mode = q.mode
            /\ op.op \notin TransferOps => h.transfers = q.transfers
<1>1. DOMAIN q = {"places", "days", "mode", "stays", "transfers"} /\ op.op \in OpNames
  BY DEF Shaped, WellFormed
<1>2. CASE op.op \in PlaceOps
  BY <1>1, <1>2 DEF Handled, PlaceOps, TransferOps
<1>3. CASE op.op \in TransferOps
  BY <1>1, <1>3 DEF Handled, PlaceOps, TransferOps
<1>4. CASE op.op \notin PlaceOps \cup TransferOps
  BY <1>1, <1>4 DEF Handled, PlaceOps, TransferOps
<1> QED
  BY <1>2, <1>3, <1>4

(* The least of some positions is one of them.                             *)
LEMMA MinIn ==
  ASSUME NEW S \in SUBSET Nat, S # {}
  PROVE  Min(S) \in S
<1>1. \E n \in S : \A m \in S : n <= m
  BY LeastElement
<1> QED
  BY <1>1 DEF Min

(* What the operations on transfers do to the list.                        *)
LEMMA HandledTransfers ==
  ASSUME NEW q, Shaped(q), NEW op, WellFormed(op)
  PROVE  LET h == Handled(q, op).transfers
         IN /\ op.op = "add_transfer" => h = Append(q.transfers, op.transfer)
            /\ op.op = "update_transfer" =>
                 LET i == Min(OnDate(q, op.date))
                 IN h = [q.transfers EXCEPT ![i] = Patched(q.transfers[i], op)]
            /\ op.op = "remove_transfer" =>
                 h = Pick(q.transfers, DOMAIN q.transfers \ OnDate(q, op.date))
<1>1. DOMAIN q = {"places", "days", "mode", "stays", "transfers"}
  BY DEF Shaped
<1>2. CASE op.op = "add_transfer"
  BY <1>1, <1>2 DEF Handled
<1>3. CASE op.op = "update_transfer"
  BY <1>1, <1>3 DEF Handled
<1>4. CASE op.op = "remove_transfer"
  BY <1>1, <1>4 DEF Handled
<1> QED
  BY <1>2, <1>3, <1>4

(* A list of transfers, and the dates there is one on.                     *)
DatedList(s) == IsList(s) /\ \A t \in ToSet(s) : "date" \in DOMAIN t
Dates(s) == {t.date : t \in ToSet(s)}

(* There is a transfer on the dates of the list.                           *)
LEMMA OnDateIs ==
  ASSUME NEW q, NEW d
  PROVE  OnDate(q, d) # {} <=> d \in Dates(q.transfers)
BY DEF OnDate, Dates, ToSet

(* One more.                                                               *)
LEMMA AppendDates ==
  ASSUME NEW s, DatedList(s), NEW t, "date" \in DOMAIN t
  PROVE  DatedList(Append(s, t)) /\ Dates(Append(s, t)) = Dates(s) \cup {t.date}
<1>1. Len(s) \in Nat /\ DOMAIN s = 1..Len(s)
  BY ListIs DEF DatedList
<1>2. PICK T : T = ToSet(s)
  OBVIOUS
<1>3. s \in Seq(T \cup {t})
  <2>1. s \in Seq(T)
    BY <1>2 DEF DatedList, IsList
  <2> QED
    BY <2>1
<1>4. PICK a : a = Append(s, t)
  OBVIOUS
<1>5. /\ a \in Seq(T \cup {t}) /\ Len(a) = Len(s) + 1 /\ DOMAIN a = 1..(Len(s) + 1)
      /\ \A i \in 1..Len(s) : a[i] = s[i]
      /\ a[Len(s) + 1] = t
  BY <1>1, <1>3, <1>4
<1>6. ToSet(a) = T \cup {t}
  <2>1. \A i \in DOMAIN a : i \in DOMAIN s \/ i = Len(s) + 1
    BY <1>1, <1>5
  <2>2. \A i \in DOMAIN s : i \in DOMAIN a
    BY <1>1, <1>5
  <2>3. Len(s) + 1 \in DOMAIN a
    BY <1>1, <1>5
  <2> QED
    BY <1>1, <1>2, <1>5, <2>1, <2>2, <2>3 DEF ToSet
<1>7. IsList(a)
  BY <1>5, <1>6 DEF IsList
<1>8. Dates(a) = Dates(s) \cup {t.date}
  BY <1>2, <1>6 DEF Dates
<1> QED
  BY <1>2, <1>4, <1>6, <1>7, <1>8 DEF DatedList

(* One replaced by another of its date.                                    *)
LEMMA ExceptDates ==
  ASSUME NEW s, DatedList(s), NEW i \in DOMAIN s, NEW t, "date" \in DOMAIN t, t.date = s[i].date
  PROVE  DatedList([s EXCEPT ![i] = t]) /\ Dates([s EXCEPT ![i] = t]) = Dates(s)
<1>1. Len(s) \in Nat /\ DOMAIN s = 1..Len(s)
  BY ListIs DEF DatedList
<1>2. PICK a : a = [s EXCEPT ![i] = t]
  OBVIOUS
<1>3. /\ DOMAIN a = DOMAIN s /\ a[i] = t
      /\ \A j \in DOMAIN s : j # i => a[j] = s[j]
      /\ a \in [1..Len(s) -> ToSet(a)]
  BY <1>1, <1>2 DEF ToSet
<1>4. IsList(a)
  BY <1>1, <1>3 DEF IsList
<1>5. \A j \in DOMAIN s : a[j].date = s[j].date
  BY <1>3
<1>6. Dates(a) = Dates(s)
  BY <1>3, <1>5 DEF Dates, ToSet
<1>7. \A x \in ToSet(a) : "date" \in DOMAIN x
  <2>1. \A j \in DOMAIN s : "date" \in DOMAIN s[j]
    BY DEF DatedList, ToSet
  <2> QED
    BY <1>3, <2>1 DEF ToSet
<1> QED
  BY <1>2, <1>4, <1>6, <1>7 DEF DatedList

(* Those at some positions.                                                *)
LEMMA PickDates ==
  ASSUME NEW s, DatedList(s), NEW S \in SUBSET DOMAIN s
  PROVE  DatedList(Pick(s, S)) /\ Dates(Pick(s, S)) = {s[i].date : i \in S}
<1>1. S \in SUBSET Nat /\ IsFiniteSet(S)
  BY ListIs, FS_Subset DEF DatedList
<1>2. PICK a : a = Pick(s, S)
  OBVIOUS
<1>3. ToSet(a) = {s[i] : i \in S} /\ IsList(a)
  BY <1>1, <1>2, PickIs DEF IsList
<1>4. Dates(a) = {s[i].date : i \in S}
  BY <1>3 DEF Dates
<1>5. \A x \in ToSet(a) : "date" \in DOMAIN x
  BY <1>3 DEF DatedList, ToSet
<1> QED
  BY <1>2, <1>3, <1>4, <1>5 DEF DatedList

(* An operation that is not refused adds its date, takes its date away, or *)
(* leaves the dates as they are.                                           *)
LEMMA HandledDates ==
  ASSUME NEW q, Shaped(q), NEW op, WellFormed(op), ~Refused(q, op)
  PROVE  LET before == Dates(q.transfers)
             after == Dates(Handled(q, op).transfers)
         IN /\ DatedList(Handled(q, op).transfers)
            /\ op.op = "add_transfer" => after = before \cup {op.transfer.date}
            /\ op.op = "remove_transfer" => after = before \ {op.date}
            /\ op.op \notin {"add_transfer", "remove_transfer"} => after = before
<1> DEFINE h == Handled(q, op).transfers
<1>1. DatedList(q.transfers)
  BY DEF Shaped, DatedList, IsList
<1>2. CASE op.op = "add_transfer"
  <2>1. h = Append(q.transfers, op.transfer)
    BY <1>2, HandledTransfers
  <2>2. "date" \in DOMAIN op.transfer
    BY <1>2 DEF WellFormed
  <2> QED
    BY <1>1, <1>2, <2>1, <2>2, AppendDates
<1>3. CASE op.op = "remove_transfer"
  <2>1. h = Pick(q.transfers, DOMAIN q.transfers \ OnDate(q, op.date))
    BY <1>3, HandledTransfers
  <2>2. PICK S : S = DOMAIN q.transfers \ OnDate(q, op.date)
    OBVIOUS
  <2>3. DatedList(h) /\ Dates(h) = {q.transfers[i].date : i \in S}
    BY <1>1, <2>1, <2>2, PickDates
  <2>4. {q.transfers[i].date : i \in S} = Dates(q.transfers) \ {op.date}
    BY <2>2 DEF OnDate, Dates, ToSet
  <2> QED
    BY <1>3, <2>3, <2>4
<1>4. CASE op.op = "update_transfer"
  <2>1. PICK i : i = Min(OnDate(q, op.date))
    OBVIOUS
  <2>2. h = [q.transfers EXCEPT ![i] = Patched(q.transfers[i], op)]
    BY <1>4, <2>1, HandledTransfers
  <2>3. OnDate(q, op.date) # {}
    BY <1>4 DEF Refused
  <2>4. OnDate(q, op.date) \in SUBSET DOMAIN q.transfers /\ DOMAIN q.transfers \in SUBSET Nat
    BY <1>1, ListIs DEF OnDate, DatedList
  <2>5. i \in DOMAIN q.transfers
    BY <2>1, <2>3, <2>4, MinIn
  <2>6. "date" \in DOMAIN q.transfers[i]
    BY <1>1, <2>5 DEF DatedList, ToSet
  <2>7. "date" \notin op.clear \cup DOMAIN op.set
    BY <1>4 DEF WellFormed
  <2>8. PICK t : t = Patched(q.transfers[i], op)
    OBVIOUS
  <2>9. "date" \in DOMAIN t /\ t.date = q.transfers[i].date
    BY <2>6, <2>7, <2>8 DEF Patched
  <2>10. DatedList(h) /\ Dates(h) = Dates(q.transfers)
    BY <1>1, <2>2, <2>5, <2>8, <2>9, ExceptDates
  <2> QED
    BY <1>4, <2>10
<1>5. CASE op.op \notin TransferOps
  <2>1. h = q.transfers
    BY <1>5, HandledFrame
  <2> QED
    BY <1>1, <1>5, <2>1 DEF TransferOps
<1> QED
  BY <1>2, <1>3, <1>4, <1>5 DEF TransferOps

(* An operation leaves a request in shape.                                 *)
LEMMA HandledShaped ==
  ASSUME NEW q, Shaped(q), NEW op, WellFormed(op), ~Refused(q, op)
  PROVE  Shaped(Handled(q, op))
<1> DEFINE h == Handled(q, op)
<1>1. DOMAIN h = {"places", "days", "mode", "stays", "transfers"} /\ h.stays = q.stays
  BY HandledFrame
<1>2. DatedList(h.transfers)
  BY HandledDates
<1>3. DOMAIN h.days = Days
  <2>1. CASE op.op = "update_day_window"
    <3>1. h.days = [q.days EXCEPT ![op.day] = Patched(@, op)]
      BY <2>1 DEF Handled, Shaped
    <3> QED
      BY <3>1 DEF Shaped
  <2>2. CASE op.op # "update_day_window"
    BY <2>2, HandledFrame DEF Shaped
  <2> QED
    BY <2>1, <2>2
<1> HIDE DEF h
<1>4. Shaped(h)
  BY <1>1, <1>2, <1>3 DEF Shaped, DatedList, IsList
<1> QED
  BY <1>4 DEF h

-----------------------------------------------------------------------------
(* Stays of which no two begin on one day.                                 *)
ApartStays(stays) ==
  /\ IsList(stays)
  /\ \A s \in ToSet(stays) : {"check_in", "check_out"} \subseteq DOMAIN s /\ Dated(s)
  /\ \A i, j \in DOMAIN stays : stays[i].check_in = stays[j].check_in => i = j

(* The validators do not let two stays begin on one day.                   *)
LEMMA ValidStaysAreApart ==
  ASSUME NEW q, Shaped(q), Valid(q)
  PROVE  ApartStays(q.stays)
<1>1. \A i \in DOMAIN q.stays : Dated(q.stays[i]) /\ ValidStay(q.stays[i])
  BY DEF Shaped, Valid, ToSet
<1>2. ASSUME NEW i \in DOMAIN q.stays, NEW j \in DOMAIN q.stays,
             q.stays[i].check_in = q.stays[j].check_in, i # j
      PROVE  FALSE
  <2>1. \/ q.stays[i].check_out <= q.stays[j].check_in
        \/ q.stays[j].check_out <= q.stays[i].check_in
    BY <1>2 DEF Valid
  <2> QED
    BY <1>1, <1>2, <2>1 DEF Dated, ValidStay
<1> QED
  BY <1>2 DEF ApartStays, Shaped

(* How many stays begin before s, as the property counts them.             *)
Earlier(old, s) == Cardinality({t \in ToSet(old) : t.check_in < s.check_in})

(* A selector finds the one stay that so many others begin before.         *)
LEMMA SelectedIs ==
  ASSUME NEW stays, ApartStays(stays), NEW n \in Nat, n < Len(stays)
  PROVE  /\ Selected(stays, n) \in DOMAIN stays
         /\ \A k \in DOMAIN stays : Earlier(stays, stays[k]) = n <=> k = Selected(stays, n)
<1>1. PICK S : S = DOMAIN stays
  OBVIOUS
<1>2. IsFiniteSet(S) /\ Cardinality(S) = Len(stays) /\ Len(stays) \in Nat
  BY <1>1, ListIs DEF ApartStays
<1>3. PICK v : v = [i \in S |-> stays[i].check_in]
  OBVIOUS
<1>4. v \in [S -> Int]
  BY <1>1, <1>3 DEF ApartStays, Dated, ToSet
<1>5. Distinct(v)
  BY <1>1, <1>3 DEF ApartStays, Distinct
<1>6. ASSUME NEW k \in S
      PROVE  /\ Rank(v, k) = Cardinality({j \in S : stays[j].check_in < stays[k].check_in})
             /\ Rank(v, k) = Earlier(stays, stays[k])
  <2>1. PICK A : A = {j \in S : stays[j].check_in < stays[k].check_in}
    OBVIOUS
  <2>2. PICK B : B = {t \in ToSet(stays) : t.check_in < stays[k].check_in}
    OBVIOUS
  <2>3. {j \in DOMAIN v : v[j] < v[k]} = A
    BY <1>3, <2>1
  <2>4. PICK f : f = [j \in A |-> stays[j]]
    OBVIOUS
  <2>5. f \in Bijection(A, B)
    <3>1. f \in [A -> B]
      BY <1>1, <2>1, <2>2, <2>4 DEF ToSet
    <3>2. \A i, j \in A : f[i] = f[j] => i = j
      BY <1>1, <2>1, <2>4 DEF ApartStays
    <3>3. \A t \in B : \E j \in A : f[j] = t
      BY <1>1, <2>1, <2>2, <2>4 DEF ToSet
    <3> QED
      BY <3>1, <3>2, <3>3 DEF Bijection, Injection, Surjection, IsInjective
  <2>6. IsFiniteSet(A)
    BY <1>2, <2>1, FS_Subset
  <2>7. Cardinality(A) = Cardinality(B)
    BY <2>5, <2>6, FS_Bijection DEF ExistsBijection
  <2> QED
    BY <2>1, <2>2, <2>3, <2>7 DEF Rank, Earlier
<1>7. PICK i \in S : Rank(v, i) = n
  <2>1. n \in 0..(Cardinality(S) - 1)
    BY <1>2
  <2> QED
    BY <1>2, <1>4, <1>5, <2>1, RankOfSome
<1>8. \A k, j \in S : Rank(v, k) = Rank(v, j) => k = j
  BY <1>2, <1>4, <1>5, Ranks
<1>9. PICK m : m = Selected(stays, n)
  OBVIOUS
<1>10. m \in S /\ Cardinality({j \in S : stays[j].check_in < stays[m].check_in}) = n
  <2>1. Cardinality({j \in S : stays[j].check_in < stays[i].check_in}) = n
    BY <1>6, <1>7
  <2> QED
    BY <1>1, <1>9, <2>1 DEF Selected
<1>11. Rank(v, m) = n
  BY <1>6, <1>10
<1> QED
  BY <1>1, <1>6, <1>8, <1>9, <1>10, <1>11

(* Two lists one after the other.                                          *)
LEMMA ConcatIs ==
  ASSUME NEW s, IsList(s), NEW t, IsList(t)
  PROVE  /\ IsList(s \o t) /\ ToSet(s \o t) = ToSet(s) \cup ToSet(t)
         /\ Len(s \o t) = Len(s) + Len(t)
<1>1. PICK T : T = ToSet(s) \cup ToSet(t)
  OBVIOUS
<1>2. PICK m \in Nat, n \in Nat : m = Len(s) /\ n = Len(t)
  BY ListIs
<1>3. DOMAIN s = 1..m /\ DOMAIN t = 1..n
  BY <1>2, ListIs
<1>4. s \in Seq(T) /\ t \in Seq(T)
  <2>1. s \in [1..m -> T] /\ t \in [1..n -> T]
    <3>1. PICK A : A = ToSet(s)
      OBVIOUS
    <3>2. PICK B : B = ToSet(t)
      OBVIOUS
    <3>3. s \in Seq(A) /\ t \in Seq(B)
      BY <3>1, <3>2 DEF IsList
    <3>4. s \in [1..m -> A] /\ t \in [1..n -> B]
      BY <1>2, <3>3
    <3> QED
      BY <1>1, <3>1, <3>2, <3>4
  <2> QED
    BY <2>1
<1>5. PICK a : a = s \o t
  OBVIOUS
<1>6. /\ a \in Seq(T) /\ Len(a) = m + n /\ DOMAIN a = 1..(m + n)
      /\ \A i \in 1..m : a[i] = s[i]
      /\ \A i \in 1..n : a[m + i] = t[i]
  BY <1>2, <1>4, <1>5
<1>7. ToSet(a) = T
  <2>1. ASSUME NEW i \in DOMAIN a PROVE a[i] \in T
    BY <1>6
  <2>2. ASSUME NEW i \in 1..m PROVE i \in DOMAIN a /\ a[i] = s[i]
    BY <1>6
  <2>3. ASSUME NEW i \in 1..n PROVE m + i \in DOMAIN a /\ a[m + i] = t[i]
    BY <1>6
  <2> QED
    BY <1>1, <1>3, <2>1, <2>2, <2>3 DEF ToSet
<1> QED
  BY <1>1, <1>2, <1>5, <1>6, <1>7 DEF IsList

(* Which operations of the batch mean s, which stays no operation removes, *)
(* and what becomes of s: as StaysAreThoseMeant says it.                   *)
Meant(old, batch, s) == {i \in Selecting(batch) : batch[i].stay_index = Earlier(old, s)}
Survivors(old, batch) ==
  {s \in ToSet(old) : \A i \in Meant(old, batch, s) : batch[i].op # "remove_accommodation"}
Changed(old, batch, s) ==
  IF Meant(old, batch, s) = {} THEN s
  ELSE Patched(s, batch[CHOOSE i \in Meant(old, batch, s) : TRUE])

ProperBatch(batch) == IsList(batch) /\ \A op \in ToSet(batch) : WellFormed(op)

(* Of the operations that mean a stay there is one, and it selects it.     *)
LEMMA MeantIsChosen ==
  ASSUME NEW stays, ApartStays(stays), NEW batch, ProperBatch(batch),
         ~SelectorsFail(stays, batch)
  PROVE  /\ \A i \in Selecting(batch) : Selected(stays, batch[i].stay_index) \in DOMAIN stays
         /\ \A k \in DOMAIN stays : \A i \in Selecting(batch) :
              Selected(stays, batch[i].stay_index) = k <=> i \in Meant(stays, batch, stays[k])
         /\ \A s : \A i, j \in Meant(stays, batch, s) : i = j
<1>1. ASSUME NEW i \in Selecting(batch)
      PROVE  batch[i].stay_index \in Nat /\ batch[i].stay_index < Len(stays)
  <2>1. i \in DOMAIN batch /\ batch[i].op \in {"update_accommodation", "remove_accommodation"}
    BY DEF Selecting, Named
  <2>2. WellFormed(batch[i])
    BY <2>1 DEF ProperBatch, ToSet
  <2>3. "stay_index" \in DOMAIN batch[i]
    BY <2>1, <2>2 DEF WellFormed, Keys
  <2>4. batch[i].stay_index \in Nat
    BY <2>2, <2>3 DEF WellFormed
  <2>5. ~(batch[i].stay_index >= Len(stays)) /\ Len(stays) \in Nat
    BY ListIs DEF SelectorsFail, ApartStays
  <2> QED
    BY <2>4, <2>5
<1>2. \A i \in Selecting(batch) : Selected(stays, batch[i].stay_index) \in DOMAIN stays
  BY <1>1, SelectedIs
<1>3. \A k \in DOMAIN stays : \A i \in Selecting(batch) :
        Selected(stays, batch[i].stay_index) = k <=> Earlier(stays, stays[k]) = batch[i].stay_index
  BY <1>1, SelectedIs
<1>4. \A s : \A i, j \in Meant(stays, batch, s) : i = j
  BY DEF Meant, SelectorsFail
<1> QED
  BY <1>2, <1>3, <1>4 DEF Meant

(* A patch keeps the fields of a stay, and that its days are days.         *)
LEMMA PatchedStay ==
  ASSUME NEW s, {"check_in", "check_out"} \subseteq DOMAIN s, Dated(s),
         NEW op, WellFormed(op), op.op = "update_accommodation"
  PROVE  {"check_in", "check_out"} \subseteq DOMAIN Patched(s, op) /\ Dated(Patched(s, op))
<1>1. \A f \in {"check_in", "check_out"} :
        f \notin op.clear /\ (f \in DOMAIN op.set => op.set[f] \in Int)
  BY DEF WellFormed
<1>2. PICK t : t = Patched(s, op)
  OBVIOUS
<1>3. DOMAIN t = DOMAIN s
  BY <1>2 DEF Patched
<1>4. \A f \in {"check_in", "check_out"} :
        t[f] = IF f \in DOMAIN op.set THEN op.set[f] ELSE s[f]
  BY <1>1, <1>2 DEF Patched
<1>5. t.check_in \in Int /\ t.check_out \in Int
  BY <1>1, <1>4 DEF Dated
<1> QED
  BY <1>2, <1>3, <1>5 DEF Dated

(* _apply_accommodation_ops() does to each stay what the operation that    *)
(* means it says.                                                          *)
LEMMA StaysAfterAre ==
  ASSUME NEW stays, ApartStays(stays), NEW batch, ProperBatch(batch),
         ~SelectorsFail(stays, batch)
  PROVE  LET adds == Named(batch, "add_accommodation")
             after == StaysAfter(stays, batch)
         IN /\ IsList(after)
            /\ ToSet(after) = {Changed(stays, batch, s) : s \in Survivors(stays, batch)}
                              \cup {batch[i].stay : i \in adds}
            /\ Len(after) = Cardinality(Survivors(stays, batch)) + Cardinality(adds)
<1> DEFINE chosen(i) == Selected(stays, batch[i].stay_index)
           updates == Named(batch, "update_accommodation")
           removes == Named(batch, "remove_accommodation")
           meant(s) == Meant(stays, batch, s)
<1>1. Selecting(batch) = updates \cup removes
  BY DEF Selecting
<1>2. /\ \A i \in updates : batch[i].op = "update_accommodation"
      /\ \A i \in removes : batch[i].op = "remove_accommodation"
      /\ updates \in SUBSET DOMAIN batch
  BY DEF Named
<1>3. /\ \A i \in updates \cup removes : chosen(i) \in DOMAIN stays
      /\ \A k \in DOMAIN stays : \A i \in updates \cup removes :
           chosen(i) = k <=> i \in meant(stays[k])
      /\ \A s : \A i, j \in meant(s) : i = j
      /\ \A s : meant(s) \subseteq updates \cup removes
  BY <1>1, MeantIsChosen DEF Meant
<1>4. PICK updated : updated = [k \in DOMAIN stays |->
        IF \E i \in updates : chosen(i) = k
        THEN Patched(stays[k], batch[CHOOSE i \in updates : chosen(i) = k])
        ELSE stays[k]]
  OBVIOUS
<1>5. PICK kept : kept = DOMAIN stays \ {chosen(i) : i \in removes}
  OBVIOUS
<1>6. PICK adds : adds = Named(batch, "add_accommodation")
  OBVIOUS
<1>7. PICK added : added = [k \in DOMAIN Pick(batch, adds) |-> Pick(batch, adds)[k].stay]
  OBVIOUS
<1>8. StaysAfter(stays, batch) = Pick(updated, kept) \o added
  BY <1>4, <1>5, <1>6, <1>7 DEF StaysAfter
<1> HIDE DEF chosen, updates, removes, meant
<1>9. \A k \in kept : meant(stays[k]) \subseteq updates
  BY <1>3, <1>5
<1>10. \A k \in kept : updated[k] = Changed(stays, batch, stays[k])
  <2>1. ASSUME NEW k \in kept, meant(stays[k]) = {}
        PROVE  updated[k] = Changed(stays, batch, stays[k])
    <3>1. ~\E i \in updates : chosen(i) = k
      BY <1>3, <1>5, <2>1
    <3> QED
      BY <1>4, <1>5, <2>1, <3>1 DEF Changed, meant
  <2>2. ASSUME NEW k \in kept, NEW i \in meant(stays[k])
        PROVE  updated[k] = Changed(stays, batch, stays[k])
    <3>1. i \in updates /\ chosen(i) = k
      BY <1>3, <1>5, <1>9, <2>2
    <3>2. \A j \in updates : chosen(j) = k => j = i
      BY <1>3, <1>5, <2>2
    <3>3. (CHOOSE j \in updates : chosen(j) = k) = i
      BY <3>1, <3>2
    <3>4. (CHOOSE j \in meant(stays[k]) : TRUE) = i
      BY <1>3, <2>2
    <3>5. updated[k] = Patched(stays[k], batch[i])
      BY <1>4, <1>5, <3>1, <3>3
    <3>6. Changed(stays, batch, stays[k]) = Patched(stays[k], batch[i])
      BY <2>2, <3>4 DEF Changed, meant
    <3> QED
      BY <3>5, <3>6
  <2> QED
    BY <2>1, <2>2
<1>11. \A k \in DOMAIN stays : k \in kept <=>
         \A i \in meant(stays[k]) : batch[i].op # "remove_accommodation"
  <2>1. \A i \in updates : batch[i].op # "remove_accommodation"
    BY <1>2
  <2>2. ASSUME NEW k \in DOMAIN stays, k \notin kept
        PROVE  \E i \in meant(stays[k]) : batch[i].op = "remove_accommodation"
    BY <1>2, <1>3, <1>5, <2>2
  <2> QED
    BY <1>9, <2>1, <2>2
<1>12. Survivors(stays, batch) = {stays[k] : k \in kept}
  <2>1. kept \subseteq DOMAIN stays
    BY <1>5
  <2> QED
    BY <1>11, <2>1 DEF Survivors, ToSet, meant
<1>13. kept \in SUBSET DOMAIN stays /\ kept \in SUBSET Nat /\ IsFiniteSet(kept)
  <2>1. DOMAIN stays \in SUBSET Nat /\ IsFiniteSet(DOMAIN stays)
    BY ListIs DEF ApartStays
  <2>2. kept \in SUBSET DOMAIN stays
    BY <1>5
  <2> QED
    BY <2>1, <2>2, FS_Subset
<1>14. adds \in SUBSET DOMAIN batch /\ adds \in SUBSET Nat /\ IsFiniteSet(adds)
  <2>1. DOMAIN batch \in SUBSET Nat /\ IsFiniteSet(DOMAIN batch)
    BY ListIs DEF ProperBatch
  <2>2. adds \in SUBSET DOMAIN batch
    BY <1>6 DEF Named
  <2> QED
    BY <2>1, <2>2, FS_Subset
<1>15. Cardinality(Survivors(stays, batch)) = Cardinality(kept)
  <2>1. PICK T : T = Survivors(stays, batch)
    OBVIOUS
  <2>2. PICK f : f = [k \in kept |-> stays[k]]
    OBVIOUS
  <2>3. f \in [kept -> T] /\ \A t \in T : \E k \in kept : f[k] = t
    BY <1>12, <2>1, <2>2
  <2>4. \A i, j \in kept : f[i] = f[j] => i = j
    BY <1>13, <2>2 DEF ApartStays
  <2>5. f \in Bijection(kept, T)
    BY <2>3, <2>4 DEF Bijection, Injection, Surjection, IsInjective
  <2>6. Cardinality(T) = Cardinality(kept)
    BY <1>13, <2>5, FS_Bijection DEF ExistsBijection
  <2> QED
    BY <2>1, <2>6
<1>16. PICK a : a = Pick(updated, kept)
  OBVIOUS
<1>17. IsList(a) /\ ToSet(a) = {updated[k] : k \in kept} /\ Len(a) = Cardinality(kept)
  BY <1>13, <1>16, PickIs DEF IsList
<1>18. ToSet(a) = {Changed(stays, batch, s) : s \in Survivors(stays, batch)}
  BY <1>10, <1>12, <1>17
<1>19. PICK b : b = Pick(batch, adds)
  OBVIOUS
<1>20. IsList(b) /\ ToSet(b) = {batch[i] : i \in adds} /\ Len(b) = Cardinality(adds)
  BY <1>14, <1>19, PickIs DEF IsList
<1>21. Len(b) \in Nat /\ DOMAIN b = 1..Len(b)
  BY <1>20, ListIs
<1>22. ToSet(added) = {batch[i].stay : i \in adds}
  <2>1. DOMAIN added = DOMAIN b /\ \A k \in DOMAIN b : added[k] = b[k].stay
    BY <1>7, <1>19
  <2>2. ToSet(added) = {x.stay : x \in ToSet(b)}
    BY <2>1 DEF ToSet
  <2> QED
    BY <1>20, <2>2
<1>23. IsList(added) /\ Len(added) = Cardinality(adds)
  <2>1. added \in [1..Len(b) -> ToSet(added)]
    BY <1>7, <1>19, <1>21 DEF ToSet
  <2> QED
    BY <1>20, <1>21, <2>1 DEF IsList
<1>24. /\ IsList(a \o added) /\ ToSet(a \o added) = ToSet(a) \cup ToSet(added)
       /\ Len(a \o added) = Len(a) + Len(added)
  BY <1>17, <1>23, ConcatIs
<1> QED
  BY <1>6, <1>8, <1>15, <1>16, <1>17, <1>18, <1>22, <1>23, <1>24

(* Stays keep their shape.                                                 *)
LEMMA StaysAfterShaped ==
  ASSUME NEW stays, ApartStays(stays), NEW batch, ProperBatch(batch),
         ~SelectorsFail(stays, batch)
  PROVE  /\ IsList(StaysAfter(stays, batch))
         /\ \A s \in ToSet(StaysAfter(stays, batch)) :
              {"check_in", "check_out"} \subseteq DOMAIN s /\ Dated(s)
<1>1. \A s \in ToSet(stays) : {"check_in", "check_out"} \subseteq DOMAIN s /\ Dated(s)
  BY DEF ApartStays
<1>2. ASSUME NEW s \in Survivors(stays, batch)
      PROVE  /\ {"check_in", "check_out"} \subseteq DOMAIN Changed(stays, batch, s)
             /\ Dated(Changed(stays, batch, s))
  <2>1. s \in ToSet(stays)
    BY DEF Survivors
  <2>2. CASE Meant(stays, batch, s) = {}
    BY <1>1, <2>1, <2>2 DEF Changed
  <2>3. CASE Meant(stays, batch, s) # {}
    <3>1. PICK i : i = CHOOSE j \in Meant(stays, batch, s) : TRUE
      OBVIOUS
    <3>2. i \in Meant(stays, batch, s)
      BY <2>3, <3>1
    <3>3. i \in DOMAIN batch /\ batch[i].op = "update_accommodation"
      BY <3>2 DEF Survivors, Meant, Selecting, Named
    <3>4. WellFormed(batch[i])
      BY <3>3 DEF ProperBatch, ToSet
    <3>5. Changed(stays, batch, s) = Patched(s, batch[i])
      BY <2>3, <3>1 DEF Changed
    <3> QED
      BY <1>1, <2>1, <3>3, <3>4, <3>5, PatchedStay
  <2> QED
    BY <2>2, <2>3
<1>3. ASSUME NEW i \in Named(batch, "add_accommodation")
      PROVE  {"check_in", "check_out"} \subseteq DOMAIN batch[i].stay /\ Dated(batch[i].stay)
  <2>1. i \in DOMAIN batch /\ batch[i].op = "add_accommodation"
    BY DEF Named
  <2>2. WellFormed(batch[i])
    BY <2>1 DEF ProperBatch, ToSet
  <2> QED
    BY <2>1, <2>2 DEF WellFormed
<1> QED
  BY <1>2, <1>3, StaysAfterAre

-----------------------------------------------------------------------------
(* The requests r between the operations of a batch that is applied to     *)
(* before, and what is answered then.                                      *)
Carried(before, batch, r) ==
  /\ ~SelectorsFail(before.stays, batch)
  /\ Whole(r, [before EXCEPT !.stays = StaysAfter(before.stays, batch)], batch)
  /\ \A n \in 0..Len(batch) :
       Shaped(r[n]) /\ r[n].stays = StaysAfter(before.stays, batch)

Left(before, last) ==
  Pick(last.transfers, {i \in DOMAIN last.transfers : last.transfers[i] \notin Orphaned(before, last)})

Answered(before, last, out) ==
  /\ out.request = [last EXCEPT !.transfers = Left(before, last)]
  /\ out.dropped = {t.date : t \in Orphaned(before, last)}
  /\ Valid(out.request)

(* What is left of the transfers.                                          *)
LEMMA LeftIs ==
  ASSUME NEW last, Shaped(last), NEW before
  PROVE  /\ DatedList(Left(before, last))
         /\ Dates(Left(before, last)) =
              Dates(last.transfers) \ {t.date : t \in Orphaned(before, last)}
<1>1. PICK s : s = last.transfers
  OBVIOUS
<1>2. DatedList(s)
  BY <1>1 DEF Shaped, DatedList
<1>3. PICK S : S = {i \in DOMAIN s : s[i] \notin Orphaned(before, last)}
  OBVIOUS
<1>4. DatedList(Pick(s, S)) /\ Dates(Pick(s, S)) = {s[i].date : i \in S}
  BY <1>2, <1>3, PickDates
<1>5. \A t \in ToSet(s) : t \in Orphaned(before, last) <=>
        ~Changeover(last.stays, t.date) /\ OnDate(before, t.date) # {}
  BY <1>1 DEF Orphaned
<1>6. Orphaned(before, last) \subseteq ToSet(s)
  BY <1>1 DEF Orphaned
<1>7. {s[i].date : i \in S} = Dates(s) \ {t.date : t \in Orphaned(before, last)}
  <2>1. ASSUME NEW i \in S PROVE s[i].date \notin {t.date : t \in Orphaned(before, last)}
    <3>1. s[i] \in ToSet(s)
      BY <1>3 DEF ToSet
    <3> QED
      BY <1>3, <1>5, <1>6, <3>1
  <2>2. ASSUME NEW x \in ToSet(s), x.date \notin {t.date : t \in Orphaned(before, last)}
        PROVE  \E i \in S : s[i].date = x.date
    <3>1. PICK i \in DOMAIN s : s[i] = x
      BY DEF ToSet
    <3> QED
      BY <1>3, <2>2, <3>1
  <2>3. \A i \in S : s[i] \in ToSet(s)
    BY <1>3 DEF ToSet
  <2> QED
    BY <2>1, <2>2, <2>3 DEF Dates
<1> QED
  BY <1>1, <1>3, <1>4, <1>7 DEF Left

(* A request with other transfers.                                         *)
LEMMA WithTransfers ==
  ASSUME NEW q, Shaped(q), NEW s, DatedList(s)
  PROVE  /\ Shaped([q EXCEPT !.transfers = s]) /\ [q EXCEPT !.transfers = s].transfers = s
         /\ [q EXCEPT !.transfers = s].stays = q.stays
         /\ [q EXCEPT !.transfers = s].places = q.places
         /\ [q EXCEPT !.transfers = s].days = q.days
         /\ [q EXCEPT !.transfers = s].mode = q.mode
<1>1. PICK h : h = [q EXCEPT !.transfers = s]
  OBVIOUS
<1>2. /\ DOMAIN h = DOMAIN q /\ h.transfers = s /\ h.stays = q.stays
      /\ h.places = q.places /\ h.days = q.days /\ h.mode = q.mode
  BY <1>1 DEF Shaped
<1>3. Shaped(h)
  BY <1>2 DEF Shaped, DatedList
<1> QED
  BY <1>1, <1>2, <1>3

(* A request with other stays.                                             *)
LEMMA WithStays ==
  ASSUME NEW q, Shaped(q), NEW s, IsList(s),
         \A x \in ToSet(s) : {"check_in", "check_out"} \subseteq DOMAIN x /\ Dated(x)
  PROVE  /\ Shaped([q EXCEPT !.stays = s]) /\ [q EXCEPT !.stays = s].stays = s
         /\ [q EXCEPT !.stays = s].transfers = q.transfers
         /\ [q EXCEPT !.stays = s].places = q.places
         /\ [q EXCEPT !.stays = s].days = q.days
         /\ [q EXCEPT !.stays = s].mode = q.mode
<1>1. PICK h : h = [q EXCEPT !.stays = s]
  OBVIOUS
<1>2. /\ DOMAIN h = DOMAIN q /\ h.stays = s /\ h.transfers = q.transfers
      /\ h.places = q.places /\ h.days = q.days /\ h.mode = q.mode
  BY <1>1 DEF Shaped
<1>3. Shaped(h)
  BY <1>2 DEF Shaped
<1> QED
  BY <1>1, <1>2, <1>3

(* The requests between the operations are in shape and have their stays.  *)
LEMMA WholeShaped ==
  ASSUME NEW q, Shaped(q), NEW batch, ProperBatch(batch), NEW r, Whole(r, q, batch)
  PROVE  \A n \in 0..Len(batch) : Shaped(r[n]) /\ r[n].stays = q.stays
<1>1. PICK L \in Nat : L = Len(batch)
  BY ListIs DEF ProperBatch
<1>2. \A n \in 1..L : WellFormed(batch[n])
  BY <1>1, ListIs DEF ProperBatch
<1> DEFINE G == {n \in Nat : Shaped(r[n]) /\ r[n].stays = q.stays}
<1>3. 0 \in G
  BY DEF Whole
<1>4. ASSUME NEW n \in Nat, n < L, n \in G PROVE n + 1 \in G
  <2>1. n + 1 \in 1..L /\ (n + 1) - 1 = n
    BY <1>4
  <2>2. PICK m \in 1..L : m = n + 1
    BY <2>1
  <2>3. ~Refused(r[n], batch[m]) /\ r[m] = Handled(r[n], batch[m])
    BY <1>1, <2>1, <2>2 DEF Whole
  <2>4. Shaped(r[n]) /\ r[n].stays = q.stays /\ WellFormed(batch[m])
    BY <1>2, <1>4
  <2>5. Shaped(r[m])
    BY <2>3, <2>4, HandledShaped
  <2>6. r[m].stays = q.stays
    BY <2>3, <2>4, HandledFrame
  <2> QED
    BY <2>2, <2>5, <2>6
<1>5. \A n \in 0..L : n \in G
  <2> HIDE DEF G
  <2> QED
    BY <1>3, <1>4, UpTo
<1> QED
  BY <1>1, <1>5

(* What apply_operations() does when it does not refuse.                   *)
LEMMA ApplyIs ==
  ASSUME NEW before, Shaped(before), Valid(before), NEW batch, ProperBatch(batch),
         Apply(before, batch).ok
  PROVE  /\ \E r : Carried(before, batch, r) /\ Answered(before, r[Len(batch)], Apply(before, batch))
         /\ Shaped(Apply(before, batch).request) /\ Valid(Apply(before, batch).request)
<1>1. ~SelectorsFail(before.stays, batch)
  BY DEF Apply, Rejected
<1>2. ApartStays(before.stays)
  BY ValidStaysAreApart
<1>3. PICK stays : stays = StaysAfter(before.stays, batch)
  OBVIOUS
<1>4. /\ IsList(stays)
      /\ \A s \in ToSet(stays) : {"check_in", "check_out"} \subseteq DOMAIN s /\ Dated(s)
  BY <1>1, <1>2, <1>3, StaysAfterShaped
<1>5. PICK q : q = [before EXCEPT !.stays = stays]
  OBVIOUS
<1>6. Shaped(q) /\ q.stays = stays
  BY <1>4, <1>5, WithStays
<1>7. PICK run : run = InOrder(q, batch)
  OBVIOUS
<1>8. PICK gone : gone = Orphaned(before, run.q)
  OBVIOUS
<1>9. PICK after : after = [run.q EXCEPT !.transfers =
                             Pick(run.q.transfers, {i \in DOMAIN run.q.transfers : run.q.transfers[i] \notin gone})]
  OBVIOUS
<1>10. Apply(before, batch) =
         IF run.ok /\ (\A i \in DOMAIN stays : ValidStay(stays[i])) /\ Valid(after)
         THEN [ok |-> TRUE, request |-> after, dropped |-> {t.date : t \in gone}]
         ELSE Rejected
  <2>1. after = [run.q EXCEPT !.transfers = Pick(@, {i \in DOMAIN @ : @[i] \notin gone})]
    BY <1>9
  <2> QED
    BY <1>1, <1>3, <1>5, <1>7, <1>8, <2>1 DEF Apply
<1>11. run.ok /\ Valid(after)
  BY <1>10 DEF Rejected
<1>12. Apply(before, batch).request = after /\ Apply(before, batch).dropped = {t.date : t \in gone}
  <2>1. Apply(before, batch) = [ok |-> TRUE, request |-> after, dropped |-> {t.date : t \in gone}]
    BY <1>10 DEF Rejected
  <2> QED
    BY <2>1
<1>13. PICK r : Whole(r, q, batch) /\ run.q = r[Len(batch)]
  <2>1. Len(batch) \in Nat
    BY ListIs DEF ProperBatch
  <2> QED
    BY <1>7, <1>11, <2>1, InOrderIsWhole
<1>14. \A n \in 0..Len(batch) : Shaped(r[n]) /\ r[n].stays = stays
  BY <1>6, <1>13, WholeShaped
<1>15. Carried(before, batch, r)
  BY <1>1, <1>3, <1>5, <1>13, <1>14 DEF Carried
<1>16. Answered(before, r[Len(batch)], Apply(before, batch))
  BY <1>8, <1>9, <1>11, <1>12, <1>13 DEF Answered, Left
<1>17. Shaped(run.q)
  <2>1. Len(batch) \in 0..Len(batch)
    BY ListIs DEF ProperBatch
  <2> QED
    BY <1>13, <1>14, <2>1
<1>18. Shaped(after)
  <2>1. PICK q2 : q2 = run.q
    OBVIOUS
  <2>2. PICK s : s = Left(before, q2)
    OBVIOUS
  <2>3. Shaped(q2) /\ DatedList(s)
    BY <1>17, <2>1, <2>2, LeftIs
  <2>4. after = [q2 EXCEPT !.transfers = s]
    BY <1>8, <1>9, <2>1, <2>2 DEF Left
  <2> QED
    BY <2>3, <2>4, WithTransfers
<1> QED
  BY <1>11, <1>12, <1>15, <1>16, <1>18

-----------------------------------------------------------------------------
(* What is so after an operation and is kept by the ones after it is so at *)
(* the end of the batch.                                                   *)
LEMMA FromThenOn ==
  ASSUME NEW L \in Nat, NEW i \in 0..L, NEW G, i \in G,
         \A n \in i..(L - 1) : n \in G => n + 1 \in G
  PROVE  L \in G
<1> DEFINE H == {m \in Nat : i + m \in G}
<1>1. 0 \in H
  OBVIOUS
<1>2. L - i \in Nat /\ i + (L - i) = L
  OBVIOUS
<1>3. ASSUME NEW m \in Nat, m < L - i, m \in H PROVE m + 1 \in H
  <2>1. i + m \in i..(L - 1) /\ (i + m) + 1 = i + (m + 1)
    BY <1>3
  <2> QED
    BY <1>3, <2>1
<1>4. PICK M \in Nat : M = L - i
  BY <1>2
<1>5. \A m \in 0..M : m \in H
  <2> HIDE DEF H
  <2> QED
    BY <1>1, <1>3, <1>4, UpTo
<1>6. M \in H
  BY <1>5
<1> QED
  BY <1>2, <1>4, <1>6

(* The date has a transfer after n operations: it had one before or was    *)
(* given one, and was not robbed of it since.                              *)
Adds(batch, d, n) ==
  {j \in Named(batch, "add_transfer") : j <= n /\ batch[j].transfer.date = d}
Removes(batch, d, n) ==
  {i \in Named(batch, "remove_transfer") : i <= n /\ batch[i].date = d}
Robbed(batch, d, n) ==
  \E i \in Removes(batch, d, n) : \A j \in Adds(batch, d, n) : j < i

(* The dates of the transfers after any number of operations.              *)
LEMMA DatesFollow ==
  ASSUME NEW before, NEW batch, ProperBatch(batch), NEW r, Carried(before, batch, r),
         NEW n \in 0..Len(batch), NEW d
  PROVE  d \in Dates(r[n].transfers) <=>
           /\ d \in Dates(r[0].transfers) \/ Adds(batch, d, n) # {}
           /\ ~Robbed(batch, d, n)
<1>1. PICK L \in Nat : L = Len(batch)
  BY ListIs DEF ProperBatch
<1>2. DOMAIN batch = 1..L /\ \A m \in 1..L : WellFormed(batch[m])
  BY <1>1, ListIs DEF ProperBatch
<1> DEFINE Follows(m) == d \in Dates(r[m].transfers) <=>
             /\ d \in Dates(r[0].transfers) \/ Adds(batch, d, m) # {}
             /\ ~Robbed(batch, d, m)
           G == {m \in Nat : Follows(m)}
<1>3. 0 \in G
  <2>1. Adds(batch, d, 0) = {} /\ Removes(batch, d, 0) = {}
    BY <1>2 DEF Adds, Removes, Named
  <2> QED
    BY <2>1 DEF Robbed
<1>4. ASSUME NEW p \in Nat, p < L, p \in G PROVE p + 1 \in G
  <2>1. PICK m \in 1..L : m = p + 1 /\ m - 1 = p /\ p \in 0..L
    BY <1>4
  <2>2. PICK op : op = batch[m]
    OBVIOUS
  <2>3. ~Refused(r[p], op) /\ r[m] = Handled(r[p], op) /\ Shaped(r[p]) /\ WellFormed(op)
    BY <1>1, <1>2, <2>1, <2>2 DEF Carried, Whole
  <2>4. /\ op.op = "add_transfer" => Dates(r[m].transfers) = Dates(r[p].transfers) \cup {op.transfer.date}
        /\ op.op = "remove_transfer" => Dates(r[m].transfers) = Dates(r[p].transfers) \ {op.date}
        /\ op.op \notin {"add_transfer", "remove_transfer"} => Dates(r[m].transfers) = Dates(r[p].transfers)
    BY <2>3, HandledDates
  <2>5. /\ Adds(batch, d, m) = Adds(batch, d, p) \cup
             (IF op.op = "add_transfer" /\ op.transfer.date = d THEN {m} ELSE {})
        /\ Removes(batch, d, m) = Removes(batch, d, p) \cup
             (IF op.op = "remove_transfer" /\ op.date = d THEN {m} ELSE {})
    BY <1>2, <2>1, <2>2 DEF Adds, Removes, Named
  <2>6. \A k \in Adds(batch, d, p) \cup Removes(batch, d, p) : k \in Nat /\ k < m
    BY <1>2, <2>1 DEF Adds, Removes, Named
  <2>7. Follows(p)
    BY <1>4
  <2>8. CASE op.op = "add_transfer" /\ op.transfer.date = d
    <3>1. Adds(batch, d, m) = Adds(batch, d, p) \cup {m} /\ Removes(batch, d, m) = Removes(batch, d, p)
      BY <2>5, <2>8
    <3>2. ~Robbed(batch, d, m)
      BY <2>1, <2>6, <3>1 DEF Robbed
    <3>3. Follows(m)
      BY <2>4, <2>8, <3>1, <3>2
    <3> QED
      BY <2>1, <3>3
  <2>9. CASE op.op = "remove_transfer" /\ op.date = d
    <3>1. Adds(batch, d, m) = Adds(batch, d, p) /\ Removes(batch, d, m) = Removes(batch, d, p) \cup {m}
      BY <2>5, <2>9
    <3>2. Robbed(batch, d, m)
      BY <2>6, <3>1 DEF Robbed
    <3>3. Follows(m)
      BY <2>4, <2>9, <3>2
    <3> QED
      BY <2>1, <3>3
  <2>10. CASE /\ ~(op.op = "add_transfer" /\ op.transfer.date = d)
              /\ ~(op.op = "remove_transfer" /\ op.date = d)
    <3>1. Adds(batch, d, m) = Adds(batch, d, p) /\ Removes(batch, d, m) = Removes(batch, d, p)
      BY <2>5, <2>10
    <3>2. Robbed(batch, d, m) <=> Robbed(batch, d, p)
      BY <3>1 DEF Robbed
    <3>3. d \in Dates(r[m].transfers) <=> d \in Dates(r[p].transfers)
      BY <2>4, <2>10
    <3>4. Follows(m)
      BY <2>7, <3>1, <3>2, <3>3
    <3> QED
      BY <2>1, <3>4
  <2> QED
    BY <2>8, <2>9, <2>10
<1>5. \A m \in 0..L : m \in G
  <2> HIDE DEF G
  <2> QED
    BY <1>3, <1>4, UpTo
<1>6. n \in G
  BY <1>1, <1>5
<1> QED
  BY <1>6

(* What NoTransferLostSilently says of one batch.                          *)
NoneLost(before, batch, after, dropped) ==
  LET adds(d) == {j \in Named(batch, "add_transfer") : batch[j].transfer.date = d}
  IN /\ \A d \in {t.date : t \in ToSet(before.transfers)}
                 \cup {batch[j].transfer.date : j \in Named(batch, "add_transfer")} :
          TakenOff(batch, d) <=> (OnDate(after, d) = {} /\ d \notin dropped)
     /\ \A d \in dropped :
          /\ OnDate(before, d) # {} /\ OnDate(after, d) = {} /\ ~Changeover(after.stays, d)
          /\ \A j \in adds(d) : \E i \in Named(batch, "remove_transfer") :
                                i < j /\ batch[i].date = d

(* No transfer is lost silently between a request and what is answered.    *)
LEMMA TransfersKept ==
  ASSUME NEW before, Shaped(before), Valid(before), NEW batch, ProperBatch(batch),
         Apply(before, batch).ok
  PROVE  NoneLost(before, batch, Apply(before, batch).request, Apply(before, batch).dropped)
<1>1. PICK out : out = Apply(before, batch)
  OBVIOUS
<1>2. PICK r : Carried(before, batch, r) /\ Answered(before, r[Len(batch)], out)
  BY <1>1, ApplyIs
<1>3. PICK last : last = r[Len(batch)]
  OBVIOUS
<1>4. PICK L \in Nat : L = Len(batch) /\ DOMAIN batch = 1..L
  BY ListIs DEF ProperBatch
<1>5. Shaped(last)
  BY <1>2, <1>3, <1>4 DEF Carried
<1>6. PICK after : after = out.request
  OBVIOUS
<1>7. after.transfers = Left(before, last) /\ after.stays = last.stays
  BY <1>2, <1>3, <1>5, <1>6, LeftIs, WithTransfers DEF Answered
<1>8. out.dropped = {t.date : t \in Orphaned(before, last)}
  BY <1>2, <1>3 DEF Answered
<1>9. Dates(after.transfers) = Dates(last.transfers) \ out.dropped
  BY <1>5, <1>7, <1>8, LeftIs
<1>10. out.dropped \subseteq Dates(last.transfers)
  BY <1>8 DEF Orphaned, Dates
<1>11. r[0].transfers = before.transfers
  <2>1. ApartStays(before.stays) /\ ~SelectorsFail(before.stays, batch)
    BY <1>2, ValidStaysAreApart DEF Carried
  <2>2. PICK s : s = StaysAfter(before.stays, batch)
    OBVIOUS
  <2>3. r[0] = [before EXCEPT !.stays = s]
    BY <1>2, <2>2 DEF Carried, Whole
  <2> QED
    BY <2>3 DEF Shaped
<1>12. ASSUME NEW d,
              d \in Dates(before.transfers) \/ \E j \in Named(batch, "add_transfer") : batch[j].transfer.date = d
       PROVE  TakenOff(batch, d) <=> d \notin Dates(last.transfers)
  <2>1. /\ Adds(batch, d, L) = {j \in Named(batch, "add_transfer") : batch[j].transfer.date = d}
        /\ Removes(batch, d, L) = {i \in Named(batch, "remove_transfer") : batch[i].date = d}
    BY <1>4 DEF Adds, Removes, Named
  <2>2. Robbed(batch, d, L) <=> TakenOff(batch, d)
    BY <2>1 DEF Robbed, TakenOff
  <2>3. d \in Dates(r[0].transfers) \/ Adds(batch, d, L) # {}
    BY <1>11, <1>12, <2>1
  <2>4. L \in 0..Len(batch) /\ last = r[L]
    BY <1>3, <1>4
  <2> QED
    BY <1>2, <2>2, <2>3, <2>4, DatesFollow
<1>13. ASSUME NEW d \in out.dropped
       PROVE  OnDate(before, d) # {} /\ d \notin Dates(after.transfers) /\ ~Changeover(after.stays, d)
  BY <1>7, <1>8, <1>9 DEF Orphaned
<1>14. ASSUME NEW d \in out.dropped, NEW j \in Named(batch, "add_transfer"), batch[j].transfer.date = d
       PROVE  \E i \in Named(batch, "remove_transfer") : i < j /\ batch[i].date = d
  <2>1. j \in 1..L /\ batch[j].op = "add_transfer" /\ j - 1 \in 0..Len(batch)
    BY <1>4 DEF Named
  <2>2. ~Refused(r[j - 1], batch[j])
    BY <1>2, <1>4, <2>1 DEF Carried, Whole
  <2>3. OnDate(r[j - 1], d) = {}
    BY <1>14, <2>1, <2>2 DEF Refused
  <2>4. d \notin Dates(r[j - 1].transfers)
    BY <2>3, OnDateIs
  <2>5. d \in Dates(r[0].transfers)
    BY <1>11, <1>13, OnDateIs
  <2>6. Robbed(batch, d, j - 1)
    BY <1>2, <2>1, <2>4, <2>5, DatesFollow
  <2>7. PICK i \in Removes(batch, d, j - 1) : TRUE
    BY <2>6 DEF Robbed
  <2>8. i \in Named(batch, "remove_transfer") /\ i <= j - 1 /\ batch[i].date = d /\ i \in 1..L
    BY <1>4, <2>7 DEF Removes, Named
  <2> QED
    BY <2>1, <2>8
<1>15. \A d \in {t.date : t \in ToSet(before.transfers)}
               \cup {batch[j].transfer.date : j \in Named(batch, "add_transfer")} :
         TakenOff(batch, d) <=> (d \notin Dates(after.transfers) /\ d \notin out.dropped)
  BY <1>9, <1>10, <1>12 DEF Dates
<1>16. \A d : OnDate(after, d) # {} <=> d \in Dates(after.transfers)
  BY OnDateIs
<1> QED
  BY <1>1, <1>6, <1>13, <1>14, <1>15, <1>16 DEF NoneLost

-----------------------------------------------------------------------------
(* An operation on a place touches no other one, and makes none.           *)
LEMMA HandledPlaces ==
  ASSUME NEW q, Shaped(q), NEW op, WellFormed(op), ~Refused(q, op)
  PROVE  /\ DOMAIN Handled(q, op).places \subseteq DOMAIN q.places
         /\ \A p \in DOMAIN q.places : op.op \notin PlaceOps \/ p # op.place =>
              p \in DOMAIN Handled(q, op).places /\ Handled(q, op).places[p] = q.places[p]
<1> DEFINE h == Handled(q, op)
<1>1. DOMAIN q = {"places", "days", "mode", "stays", "transfers"}
  BY DEF Shaped
<1>2. CASE op.op = "set_place_auto"
  <2>1. h.places = [q.places EXCEPT ![op.place] = <<>>]
    BY <1>1, <1>2 DEF Handled
  <2> HIDE DEF h
  <2> QED
    BY <2>1, <1>2 DEF h, PlaceOps
<1>3. CASE op.op = "set_place_pinned"
  <2>1. h.places = [q.places EXCEPT ![op.place] = <<Pinned(q.places[op.place], op.slot)>>]
    BY <1>1, <1>3 DEF Handled
  <2> QED
    BY <2>1, <1>3 DEF PlaceOps
<1>4. CASE op.op = "set_place_flexible"
  <2>1. h.places = [q.places EXCEPT ![op.place] =
                      [i \in DOMAIN op.slots |-> Merged(q.places[op.place], op.slots[i])]]
    BY <1>1, <1>4 DEF Handled
  <2> QED
    BY <2>1, <1>4 DEF PlaceOps
<1>5. CASE op.op = "remove_place"
  <2>1. h.places = [p \in DOMAIN q.places \ {op.place} |-> q.places[p]]
    BY <1>1, <1>5 DEF Handled
  <2> QED
    BY <2>1, <1>5 DEF PlaceOps
<1>6. CASE op.op \notin PlaceOps
  <2>1. h.places = q.places
    BY <1>6, HandledFrame
  <2> QED
    BY <2>1
<1> QED
  BY <1>2, <1>3, <1>4, <1>5, <1>6 DEF PlaceOps

(* An operation on a day touches no other one.                             *)
LEMMA HandledDays ==
  ASSUME NEW q, Shaped(q), NEW op, WellFormed(op),
         NEW d \in Days, op.op # "update_day_window" \/ d # op.day
  PROVE  Handled(q, op).days[d] = q.days[d]
<1>1. CASE op.op = "update_day_window"
  <2>1. Handled(q, op).days = [q.days EXCEPT ![op.day] = Patched(@, op)]
    BY <1>1 DEF Handled, Shaped
  <2> QED
    BY <1>1, <2>1 DEF Shaped
<1>2. CASE op.op # "update_day_window"
  BY <1>2, HandledFrame
<1> QED
  BY <1>1, <1>2

(* What an operation is about, for each kind.                              *)
LEMMA SubjectIs ==
  ASSUME NEW op, WellFormed(op)
  PROVE  /\ op.op \in PlaceOps => Subject(op) = <<"place", op.place>>
         /\ op.op = "update_day_window" => Subject(op) = <<"day", op.day>>
         /\ op.op = "set_transport_mode" => Subject(op) = <<"mode">>
<1>1. DOMAIN op = Keys(op.op) /\ op.op \in OpNames
  BY DEF WellFormed
<1>2. CASE op.op \in PlaceOps
  <2>1. "place" \in DOMAIN op /\ "day" \notin DOMAIN op /\ "mode" \notin DOMAIN op
    <3>1. CASE op.op \in {"set_place_auto", "remove_place"}
      <4>1. DOMAIN op = {"op", "place"}
        BY <1>1, <3>1 DEF Keys
      <4> QED
        BY <4>1
    <3>2. CASE op.op = "set_place_pinned"
      <4>1. DOMAIN op = {"op", "place", "slot"}
        BY <1>1, <3>2 DEF Keys
      <4> QED
        BY <4>1
    <3>3. CASE op.op = "set_place_flexible"
      <4>1. DOMAIN op = {"op", "place", "slots"}
        BY <1>1, <3>3 DEF Keys
      <4> QED
        BY <4>1
    <3> QED
      BY <1>2, <3>1, <3>2, <3>3 DEF PlaceOps
  <2> QED
    BY <1>2, <2>1 DEF Subject, PlaceOps
<1>3. CASE op.op = "update_day_window"
  <2>1. DOMAIN op = {"op", "day", "set", "clear"}
    BY <1>1, <1>3 DEF Keys
  <2>2. "place" \notin DOMAIN op /\ "day" \in DOMAIN op /\ "mode" \notin DOMAIN op
    BY <2>1
  <2> QED
    BY <1>3, <2>2 DEF Subject, PlaceOps
<1>4. CASE op.op = "set_transport_mode"
  <2>1. DOMAIN op = {"op", "mode"}
    BY <1>1, <1>4 DEF Keys
  <2>2. "place" \notin DOMAIN op /\ "day" \notin DOMAIN op /\ "mode" \in DOMAIN op
    BY <2>1
  <2> QED
    BY <1>4, <2>2 DEF Subject, PlaceOps
<1> QED
  BY <1>2, <1>3, <1>4

(* The operation shows, on a day of the trip.                              *)
ShowsIn(q, op) == Shows(q, op) /\ (op.op = "update_day_window" => op.day \in Days)

(* An operation shows right after it was carried out.                      *)
LEMMA ShowsAtOnce ==
  ASSUME NEW q, Shaped(q), NEW op, WellFormed(op), ~Refused(q, op)
  PROVE  ShowsIn(Handled(q, op), op)
<1>1. DOMAIN q = {"places", "days", "mode", "stays", "transfers"} /\ DOMAIN q.days = Days
  BY DEF Shaped
<1>2. op.op \in PlaceOps => op.place \in DOMAIN q.places
  BY DEF Refused, PlaceOps
<1>3. CASE op.op = "set_place_auto"
  <2>1. Handled(q, op).places = [q.places EXCEPT ![op.place] = <<>>]
    BY <1>1, <1>3 DEF Handled
  <2> QED
    BY <1>2, <1>3, <2>1 DEF ShowsIn, Shows, PlaceOps
<1>4. CASE op.op = "remove_place"
  <2>1. Handled(q, op).places = [p \in DOMAIN q.places \ {op.place} |-> q.places[p]]
    BY <1>1, <1>4 DEF Handled
  <2> QED
    BY <1>4, <2>1 DEF ShowsIn, Shows
<1>5. CASE op.op = "set_place_pinned"
  <2>1. PICK slot : slot = Pinned(q.places[op.place], op.slot)
    OBVIOUS
  <2>2. slot.day = op.slot.day
    <3>1. PICK m : m = Merged(q.places[op.place], op.slot)
      OBVIOUS
    <3>2. DOMAIN m = {"day", "from", "to"} /\ m.day = op.slot.day
      BY <3>1 DEF Merged
    <3>3. slot = m \/ \E a, b : slot = [m EXCEPT !.from = a, !.to = b]
      BY <2>1, <3>1 DEF Pinned
    <3> QED
      BY <3>2, <3>3
  <2>3. Handled(q, op).places = [q.places EXCEPT ![op.place] = <<slot>>]
    BY <1>1, <1>5, <2>1 DEF Handled
  <2>4. Handled(q, op).places[op.place] = <<slot>> /\ op.place \in DOMAIN Handled(q, op).places
    BY <1>2, <1>5, <2>3 DEF PlaceOps
  <2> QED
    BY <1>5, <2>2, <2>4 DEF ShowsIn, Shows
<1>6. CASE op.op = "set_place_flexible"
  <2>1. PICK slots : slots = [i \in DOMAIN op.slots |-> Merged(q.places[op.place], op.slots[i])]
    OBVIOUS
  <2>2. DOMAIN slots = DOMAIN op.slots /\ \A i \in DOMAIN slots : slots[i].day = op.slots[i].day
    BY <2>1 DEF Merged
  <2>3. Handled(q, op).places = [q.places EXCEPT ![op.place] = slots]
    BY <1>1, <1>6, <2>1 DEF Handled
  <2>4. Handled(q, op).places[op.place] = slots /\ op.place \in DOMAIN Handled(q, op).places
    BY <1>2, <1>6, <2>3 DEF PlaceOps
  <2>5. [i \in DOMAIN slots |-> slots[i].day] = [i \in DOMAIN op.slots |-> op.slots[i].day]
    BY <2>2
  <2> QED
    BY <1>6, <2>4, <2>5 DEF ShowsIn, Shows
<1>7. CASE op.op = "update_day_window"
  <2>1. op.day \in Days
    BY <1>7 DEF Refused
  <2>2. PICK rec : rec = q.days[op.day]
    OBVIOUS
  <2>3. Handled(q, op).days = [q.days EXCEPT ![op.day] = Patched(rec, op)]
    BY <1>1, <1>7, <2>2 DEF Handled
  <2>4. Handled(q, op).days[op.day] = Patched(rec, op)
    BY <1>1, <2>1, <2>3
  <2>5. Patched(Patched(rec, op), op) = Patched(rec, op)
    BY DEF Patched
  <2> QED
    BY <1>7, <2>1, <2>4, <2>5 DEF ShowsIn, Shows
<1>8. CASE op.op = "set_transport_mode"
  BY <1>1, <1>8 DEF Handled, ShowsIn, Shows
<1>9. CASE op.op \notin PlaceOps \cup {"update_day_window", "set_transport_mode"}
  BY <1>9 DEF ShowsIn, Shows, PlaceOps
<1> QED
  BY <1>3, <1>4, <1>5, <1>6, <1>7, <1>8, <1>9 DEF PlaceOps

(* An operation about something else does not undo it.                     *)
LEMMA ShowsStill ==
  ASSUME NEW q, Shaped(q), NEW op, WellFormed(op), ~Refused(q, op),
         NEW o, WellFormed(o), ShowsIn(q, o), Subject(op) # Subject(o)
  PROVE  ShowsIn(Handled(q, op), o)
<1> DEFINE h == Handled(q, op)
<1>1. CASE o.op \in PlaceOps
  <2>1. op.op \notin PlaceOps \/ op.place # o.place
    BY <1>1, SubjectIs
  <2>2. o.place \in DOMAIN h.places <=> o.place \in DOMAIN q.places
    BY <2>1, HandledPlaces
  <2>3. o.place \in DOMAIN q.places => h.places[o.place] = q.places[o.place]
    BY <2>1, HandledPlaces
  <2> HIDE DEF h
  <2> QED
    BY <1>1, <2>2, <2>3 DEF ShowsIn, Shows, PlaceOps, h
<1>2. CASE o.op = "update_day_window"
  <2>1. op.op # "update_day_window" \/ o.day # op.day
    BY <1>2, SubjectIs
  <2>2. o.day \in Days
    BY <1>2 DEF ShowsIn
  <2>3. h.days[o.day] = q.days[o.day]
    BY <2>1, <2>2, HandledDays
  <2> HIDE DEF h
  <2> QED
    BY <1>2, <2>3 DEF ShowsIn, Shows, h
<1>3. CASE o.op = "set_transport_mode"
  <2>1. op.op # "set_transport_mode"
    BY <1>3, SubjectIs
  <2>2. h.mode = q.mode
    BY <2>1, HandledFrame
  <2> HIDE DEF h
  <2> QED
    BY <1>3, <2>2 DEF ShowsIn, Shows, h
<1>4. CASE o.op \notin PlaceOps \cup {"update_day_window", "set_transport_mode"}
  BY <1>4 DEF ShowsIn, Shows, PlaceOps
<1> QED
  BY <1>1, <1>2, <1>3, <1>4

(* Each operation of a batch shows at its end, unless a later one is about *)
(* the same thing.                                                         *)
LEMMA EachShows ==
  ASSUME NEW before, NEW batch, ProperBatch(batch), NEW r, Carried(before, batch, r),
         NEW i \in DOMAIN batch,
         ~\E j \in DOMAIN batch : j > i /\ Subject(batch[j]) = Subject(batch[i])
  PROVE  ShowsIn(r[Len(batch)], batch[i])
<1>1. PICK L \in Nat : L = Len(batch)
  BY ListIs DEF ProperBatch
<1>2. DOMAIN batch = 1..L /\ \A n \in 1..L : WellFormed(batch[n])
  BY <1>1, ListIs DEF ProperBatch
<1>3. ASSUME NEW m \in 1..L
      PROVE  ~Refused(r[m - 1], batch[m]) /\ r[m] = Handled(r[m - 1], batch[m]) /\ Shaped(r[m - 1])
  <2>1. m - 1 \in 0..L
    OBVIOUS
  <2> QED
    BY <1>1, <2>1 DEF Carried, Whole
<1> DEFINE G == {n \in Nat : ShowsIn(r[n], batch[i])}
<1>4. i \in G /\ i \in 0..L
  <2>1. i \in 1..L /\ i \in Nat
    BY <1>2
  <2>2. ShowsIn(r[i], batch[i])
    BY <1>2, <1>3, <2>1, ShowsAtOnce
  <2> QED
    BY <2>1, <2>2
<1>5. ASSUME NEW n \in i..(L - 1), n \in G PROVE n + 1 \in G
  <2>1. PICK m \in 1..L : m = n + 1 /\ m - 1 = n /\ m > i
    BY <1>4
  <2>2. ~Refused(r[n], batch[m]) /\ r[m] = Handled(r[n], batch[m]) /\ Shaped(r[n])
    BY <1>3, <2>1
  <2>3. Subject(batch[m]) # Subject(batch[i])
    BY <1>2, <2>1
  <2>4. ShowsIn(Handled(r[n], batch[m]), batch[i])
    BY <1>2, <1>5, <2>2, <2>3, ShowsStill
  <2> QED
    BY <2>1, <2>2, <2>4
<1>6. L \in G
  <2> HIDE DEF G
  <2> QED
    BY <1>4, <1>5, FromThenOn
<1> QED
  BY <1>1, <1>6

(* What no operation of the batch is about stays.                          *)
Spared(q, last, batch) ==
  /\ DOMAIN last.places \subseteq DOMAIN q.places
  /\ \A p \in DOMAIN q.places :
       (\A i \in DOMAIN batch : Subject(batch[i]) # <<"place", p>>) =>
         p \in DOMAIN last.places /\ last.places[p] = q.places[p]
  /\ \A d \in Days :
       (\A i \in DOMAIN batch : Subject(batch[i]) # <<"day", d>>) => last.days[d] = q.days[d]
  /\ (\A i \in DOMAIN batch : Subject(batch[i]) # <<"mode">>) => last.mode = q.mode

(* One more operation spares what it is not about.                         *)
LEMMA SparedStill ==
  ASSUME NEW batch, ProperBatch(batch), NEW m \in DOMAIN batch,
         NEW q, NEW last, Shaped(last), Spared(q, last, batch), ~Refused(last, batch[m])
  PROVE  Spared(q, Handled(last, batch[m]), batch)
<1>1. WellFormed(batch[m])
  BY DEF ProperBatch, ToSet
<1>2. PICK op : op = batch[m]
  OBVIOUS
<1>3. PICK h : h = Handled(last, op)
  OBVIOUS
<1>4. /\ op.op \in PlaceOps => Subject(op) = <<"place", op.place>>
      /\ op.op = "update_day_window" => Subject(op) = <<"day", op.day>>
      /\ op.op = "set_transport_mode" => Subject(op) = <<"mode">>
  BY <1>1, <1>2, SubjectIs
<1>5. /\ DOMAIN h.places \subseteq DOMAIN last.places
      /\ \A p \in DOMAIN last.places : op.op \notin PlaceOps \/ p # op.place =>
           p \in DOMAIN h.places /\ h.places[p] = last.places[p]
  BY <1>1, <1>2, <1>3, HandledPlaces
<1>6. \A d \in Days : op.op # "update_day_window" \/ d # op.day => h.days[d] = last.days[d]
  BY <1>1, <1>2, <1>3, HandledDays
<1>7. op.op # "set_transport_mode" => h.mode = last.mode
  BY <1>1, <1>2, <1>3, HandledFrame
<1>8. ASSUME NEW p \in DOMAIN q.places,
             \A i \in DOMAIN batch : Subject(batch[i]) # <<"place", p>>
      PROVE  p \in DOMAIN h.places /\ h.places[p] = q.places[p]
  <2>1. p \in DOMAIN last.places /\ last.places[p] = q.places[p]
    BY <1>8 DEF Spared
  <2>2. op.op \notin PlaceOps \/ p # op.place
    BY <1>2, <1>4, <1>8
  <2> QED
    BY <1>5, <2>1, <2>2
<1>9. ASSUME NEW d \in Days,
             \A i \in DOMAIN batch : Subject(batch[i]) # <<"day", d>>
      PROVE  h.days[d] = q.days[d]
  <2>1. last.days[d] = q.days[d]
    BY <1>9 DEF Spared
  <2>2. op.op # "update_day_window" \/ d # op.day
    BY <1>2, <1>4, <1>9
  <2> QED
    BY <1>6, <2>1, <2>2
<1>10. ASSUME \A i \in DOMAIN batch : Subject(batch[i]) # <<"mode">>
       PROVE  h.mode = q.mode
  <2>1. last.mode = q.mode
    BY <1>10 DEF Spared
  <2>2. op.op # "set_transport_mode"
    BY <1>2, <1>4, <1>10
  <2> QED
    BY <1>7, <2>1, <2>2
<1>11. DOMAIN h.places \subseteq DOMAIN q.places
  BY <1>5 DEF Spared
<1> QED
  BY <1>2, <1>3, <1>8, <1>9, <1>10, <1>11 DEF Spared

(* And so for the whole batch.                                             *)
LEMMA AllSpared ==
  ASSUME NEW before, NEW batch, ProperBatch(batch), NEW r, Carried(before, batch, r)
  PROVE  Spared(r[0], r[Len(batch)], batch)
<1>1. PICK L \in Nat : L = Len(batch)
  BY ListIs DEF ProperBatch
<1>2. DOMAIN batch = 1..L
  BY <1>1, ListIs DEF ProperBatch
<1> DEFINE G == {n \in Nat : Spared(r[0], r[n], batch)}
<1>3. 0 \in G
  BY DEF Spared
<1>4. ASSUME NEW n \in Nat, n < L, n \in G PROVE n + 1 \in G
  <2>1. PICK m \in 1..L : m = n + 1 /\ m - 1 = n /\ n \in 0..L
    BY <1>4
  <2>2. ~Refused(r[n], batch[m]) /\ r[m] = Handled(r[n], batch[m]) /\ Shaped(r[n])
    BY <1>1, <2>1 DEF Carried, Whole
  <2>3. Spared(r[0], Handled(r[n], batch[m]), batch)
    BY <1>2, <1>4, <2>2, SparedStill
  <2> QED
    BY <2>1, <2>2, <2>3
<1>5. \A n \in 0..L : n \in G
  <2> HIDE DEF G
  <2> QED
    BY <1>3, <1>4, UpTo
<1>6. L \in G
  BY <1>5
<1> QED
  BY <1>1, <1>6

(* A batch that is applied shows whole, and nothing else has changed.      *)
LEMMA ShowsWhole ==
  ASSUME NEW before, Shaped(before), Valid(before), NEW batch, ProperBatch(batch),
         Apply(before, batch).ok
  PROVE  LET after == Apply(before, batch).request
         IN /\ \A i \in DOMAIN batch :
                 \/ Shows(after, batch[i])
                 \/ \E j \in DOMAIN batch : j > i /\ Subject(batch[j]) = Subject(batch[i])
            /\ Spared(before, after, batch)
<1>1. PICK out : out = Apply(before, batch)
  OBVIOUS
<1>2. PICK r : Carried(before, batch, r) /\ Answered(before, r[Len(batch)], out)
  BY <1>1, ApplyIs
<1>3. PICK last : last = r[Len(batch)]
  OBVIOUS
<1>4. PICK L \in Nat : L = Len(batch)
  BY ListIs DEF ProperBatch
<1>5. Shaped(last)
  BY <1>2, <1>3, <1>4 DEF Carried
<1>6. PICK after : after = out.request
  OBVIOUS
<1>7. after.places = last.places /\ after.days = last.days /\ after.mode = last.mode
  BY <1>2, <1>3, <1>5, <1>6, LeftIs, WithTransfers DEF Answered
<1>8. \A op : Shows(last, op) => Shows(after, op)
  BY <1>7 DEF Shows
<1>9. r[0].places = before.places /\ r[0].days = before.days /\ r[0].mode = before.mode
  <2>1. PICK s : s = StaysAfter(before.stays, batch)
    OBVIOUS
  <2>2. r[0] = [before EXCEPT !.stays = s]
    BY <1>2, <2>1 DEF Carried, Whole
  <2> QED
    BY <2>2 DEF Shaped
<1>10. Spared(r[0], last, batch)
  BY <1>2, <1>3, AllSpared
<1>11. Spared(before, after, batch)
  BY <1>7, <1>9, <1>10 DEF Spared
<1>12. ASSUME NEW i \in DOMAIN batch,
              ~\E j \in DOMAIN batch : j > i /\ Subject(batch[j]) = Subject(batch[i])
       PROVE  Shows(after, batch[i])
  <2>1. ShowsIn(last, batch[i])
    BY <1>2, <1>3, <1>12, EachShows
  <2> QED
    BY <1>8, <2>1 DEF ShowsIn
<1> QED
  BY <1>1, <1>6, <1>11, <1>12

(* The inductive invariant holds in every reachable state.                 *)
THEOREM Invariant == Spec => []IInv
<1>1. ASSUME IInv, [Next]_vars PROVE IInv'
  <2> USE <1>1
  <2>1. ASSUME NEW e \in Editors, NEW batch \in Batches[e], NEW expected \in Revisions,
               Load(e, batch, expected)
        PROVE  IInv'
    BY <2>1, LoadKeeps
  <2>2. ASSUME NEW e \in Editors, Optimize(e) PROVE IInv'
    BY <2>2, OptimizeKeeps
  <2>3. ASSUME NEW e \in Editors, Persist(e) PROVE IInv'
    BY <2>3, PersistKeeps
  <2>4. ASSUME NEW e \in Editors, PersistFails(e) PROVE IInv'
    BY <2>4, PersistFailsKeeps
  <2>5. ASSUME NEW e \in Editors, Recheck(e) PROVE IInv'
    BY <2>5, RecheckKeeps
  <2>6. ASSUME NEW q \in Requests, Save(q) PROVE IInv'
    BY <2>6, SaveKeeps
  <2>7. CASE Delete
    BY <2>7, DeleteKeeps
  <2>8. CASE UNCHANGED vars
    BY <2>8, StutterKeeps
  <2> QED
    BY <2>1, <2>2, <2>3, <2>4, <2>5, <2>6, <2>7, <2>8 DEF Next
<1> QED
  BY <1>1, InitIInv, PTL DEF Spec

(* What apply() answers is so, however many editors work on the trip and   *)
(* whatever the pages write between its awaits.                            *)
THEOREM TrueAnswers == Spec => []AnswersAreTrue
<1>1. IInv => AnswersAreTrue
  <2> SUFFICES ASSUME IInv, NEW e \in Editors
               PROVE  /\ stage[e] = "deleted" => head = None
                      /\ stage[e] = "conflict" => head # job[e].expected
                      /\ stage[e] = "applied" =>
                           /\ history[job[e].expected] = job[e].before
                           /\ job[e].after # job[e].before =>
                                history[job[e].expected + 1] = job[e].after
    BY DEF AnswersAreTrue
  <2>1. Sane(e)
    BY DEF IInv, JobsAreSane
  <2>2. LeftBehind(job[e].expected) => head # job[e].expected
    BY NoneAssumption, BoundAssumption DEF IInv, HistoryEnds, LeftBehind, Revisions
  <2> QED
    BY <2>1, <2>2 DEF Sane
<1> QED
  BY <1>1, Invariant, PTL

-----------------------------------------------------------------------------
(* The requests that were stored are valid ones, and what an editor works  *)
(* with is what apply_operations() answered it.                            *)
StoredAreValid ==
  \A r \in Revisions : history[r] # None => Shaped(history[r]) /\ Valid(history[r])

Worked(e) ==
  Computed(e) =>
    LET before == job[e].before
        batch == job[e].batch
    IN /\ ProperBatch(batch) /\ Shaped(before) /\ Valid(before)
       /\ Apply(before, batch).ok
       /\ job[e].after = Apply(before, batch).request
       /\ job[e].dropped = Apply(before, batch).dropped

EInv == Domains /\ HistoryEnds /\ StoredAreValid /\ \A e \in Editors : Worked(e)

(* What is stored next is valid.                                           *)
LEMMA StoredStayValid ==
  ASSUME Domains, HistoryEnds, StoredAreValid, NEW q, Shaped(q), Valid(q),
         head # None, head < MaxRevision,
         head' = head + 1, history' = [history EXCEPT ![head + 1] = q]
  PROVE  StoredAreValid'
<1>1. \A r \in Revisions : history'[r] = IF r = head + 1 THEN q ELSE history[r]
  BY DEF Domains
<1> QED
  BY <1>1 DEF StoredAreValid

(* One editor goes on, without computing anything new.                     *)
LEMMA WorkStays ==
  ASSUME \A e \in Editors : Worked(e), NEW d \in Editors, DOMAIN stage = Editors,
         NEW s, Go(d, s), UNCHANGED job, Computed(d) \/ s \notin {"optimize", "persist", "recheck", "applied"}
  PROVE  \A e \in Editors : Worked(e)'
<1>1. ASSUME NEW e \in Editors, Computed(e)' PROVE Computed(e)
  BY <1>1 DEF Go, Computed
<1> QED
  BY <1>1 DEF Worked

(* An editor computes what apply_operations() answers.                     *)
LEMMA LoadWorks ==
  ASSUME EInv, NEW e \in Editors, NEW batch \in Batches[e], NEW expected \in Revisions,
         Load(e, batch, expected)
  PROVE  StoredAreValid' /\ \A d \in Editors : Worked(d)'
<1>1. Domains /\ HistoryEnds /\ StoredAreValid /\ DOMAIN stage = Editors /\ DOMAIN job = Editors
      /\ \A d \in Editors : Worked(d)
  BY DEF EInv, Domains
<1>2. UNCHANGED <<head, history>> /\ history[expected] # None
  BY DEF Load
<1>3. StoredAreValid'
  BY <1>1, <1>2 DEF StoredAreValid
<1>4. CASE stage'[e] \notin {"optimize", "persist", "recheck", "applied"}
  <2>1. \A d \in Editors \ {e} : stage'[d] = stage[d] /\ job'[d] = job[d]
    BY <1>1 DEF Load, Go
  <2>2. Worked(e)'
    BY <1>4 DEF Worked, Computed
  <2>3. \A d \in Editors \ {e} : Worked(d)'
    BY <1>1, <2>1 DEF Worked, Computed
  <2> QED
    BY <1>3, <2>2, <2>3
<1>5. CASE head # None /\ head = expected /\ Apply(history[head], batch).ok
  <2> DEFINE out == Apply(history[head], batch)
  <2>1. /\ Go(e, "optimize")
        /\ job' = [job EXCEPT ![e] =
             [batch |-> batch, expected |-> expected, before |-> history[head],
              after |-> out.request, dropped |-> out.dropped]]
    BY <1>5 DEF Load
  <2>2. ProperBatch(batch)
    BY BatchesAssumption DEF ProperBatch
  <2>3. Shaped(history[head]) /\ Valid(history[head])
    BY <1>1, <1>2, <1>5 DEF StoredAreValid
  <2>4. out.ok
    BY <1>5
  <2> HIDE DEF out
  <2>5. /\ job'[e].batch = batch /\ job'[e].before = history[head]
        /\ job'[e].after = out.request /\ job'[e].dropped = out.dropped
    BY <1>1, <2>1
  <2>6. Worked(e)'
    BY <2>2, <2>3, <2>4, <2>5 DEF Worked, out
  <2>7. \A d \in Editors \ {e} : stage'[d] = stage[d] /\ job'[d] = job[d]
    BY <1>1, <2>1 DEF Go
  <2>8. \A d \in Editors \ {e} : Worked(d)'
    BY <1>1, <2>7 DEF Worked, Computed
  <2> QED
    BY <1>3, <2>6, <2>8
<1>6. \/ stage'[e] \notin {"optimize", "persist", "recheck", "applied"}
      \/ head # None /\ head = expected /\ Apply(history[head], batch).ok
  BY <1>1 DEF Load, Go
<1> QED
  BY <1>4, <1>5, <1>6

(* Every step keeps it.                                                    *)
LEMMA EInvKept ==
  ASSUME EInv, IInv, Domains', HistoryEnds', [Next]_vars
  PROVE  EInv'
<1>0. Domains /\ HistoryEnds /\ StoredAreValid /\ DOMAIN stage = Editors
      /\ \A d \in Editors : Worked(d)
  BY DEF EInv, Domains
<1>1. ASSUME NEW e \in Editors, NEW batch \in Batches[e], NEW expected \in Revisions,
             Load(e, batch, expected)
      PROVE  EInv'
  BY <1>1, LoadWorks DEF EInv
<1>2. ASSUME NEW e \in Editors, Optimize(e) PROVE EInv'
  <2>1. StoredAreValid'
    BY <1>0, <1>2 DEF Optimize, StoredAreValid
  <2>2. PICK s : Go(e, s)
    BY <1>2 DEF Optimize
  <2>3. \A d \in Editors : Worked(d)'
    BY <1>0, <1>2, <2>2, WorkStays DEF Optimize, Computed
  <2> QED
    BY <2>1, <2>3 DEF EInv
<1>3. ASSUME NEW e \in Editors, Persist(e) PROVE EInv'
  <2>1. Computed(e) /\ UNCHANGED job
    BY <1>3 DEF Persist, Computed
  <2>2. Shaped(job[e].after) /\ Valid(job[e].after)
    BY <1>0, <2>1, ApplyIs DEF Worked
  <2>3. \/ UNCHANGED <<head, history>>
        \/ /\ head # None /\ head < MaxRevision /\ head' = head + 1
           /\ history' = [history EXCEPT ![head + 1] = job[e].after]
    <3>1. job[e].expected # None
      BY <1>3, NoneAssumption DEF Persist, IInv, JobsAreSane, Sane, Reached
    <3> QED
      BY <1>3, <3>1 DEF Persist
  <2>4. StoredAreValid'
    <3>1. CASE UNCHANGED <<head, history>>
      BY <1>0, <3>1 DEF StoredAreValid
    <3>2. CASE ~UNCHANGED <<head, history>>
      BY <1>0, <2>2, <2>3, <3>2, StoredStayValid
    <3> QED
      BY <3>1, <3>2
  <2>5. PICK s : Go(e, s)
    BY <1>3 DEF Persist
  <2>6. \A d \in Editors : Worked(d)'
    BY <1>0, <2>1, <2>5, WorkStays
  <2> QED
    BY <2>4, <2>6 DEF EInv
<1>4. ASSUME NEW e \in Editors, PersistFails(e) PROVE EInv'
  <2>1. StoredAreValid'
    BY <1>0, <1>4 DEF PersistFails, StoredAreValid
  <2>2. \A d \in Editors : Worked(d)'
    BY <1>0, <1>4, WorkStays DEF PersistFails
  <2> QED
    BY <2>1, <2>2 DEF EInv
<1>5. ASSUME NEW e \in Editors, Recheck(e) PROVE EInv'
  <2>1. StoredAreValid'
    BY <1>0, <1>5 DEF Recheck, StoredAreValid
  <2>2. PICK s : Go(e, s) /\ s \in {"deleted", "conflict"}
    BY <1>5 DEF Recheck
  <2>3. \A d \in Editors : Worked(d)'
    BY <1>0, <1>5, <2>2, WorkStays DEF Recheck
  <2> QED
    BY <2>1, <2>3 DEF EInv
<1>6. ASSUME NEW q \in Requests, Save(q) PROVE EInv'
  <2>1. Shaped(q) /\ Valid(q)
    BY RequestsAssumption
  <2>2. StoredAreValid'
    BY <1>0, <1>6, <2>1, StoredStayValid DEF Save
  <2>3. \A d \in Editors : Worked(d)'
    BY <1>0, <1>6 DEF Save, Worked, Computed
  <2> QED
    BY <2>2, <2>3 DEF EInv
<1>7. CASE Delete
  <2>1. StoredAreValid' /\ \A d \in Editors : Worked(d)'
    BY <1>0, <1>7 DEF Delete, StoredAreValid, Worked, Computed
  <2> QED
    BY <2>1 DEF EInv
<1>8. CASE UNCHANGED vars
  <2>1. StoredAreValid' /\ \A d \in Editors : Worked(d)'
    BY <1>0, <1>8 DEF vars, StoredAreValid, Worked, Computed
  <2> QED
    BY <2>1 DEF EInv
<1> QED
  BY <1>1, <1>2, <1>3, <1>4, <1>5, <1>6, <1>7, <1>8 DEF Next

(* Whatever is stored is a valid request, and whatever an editor waits or  *)
(* has answered with was computed from what it read, by the whole batch.   *)
THEOREM EditsAreComputed == Spec => []EInv
<1>1. Init => StoredAreValid /\ \A e \in Editors : Worked(e)
  <2> SUFFICES ASSUME Init PROVE StoredAreValid /\ \A e \in Editors : Worked(e)
    OBVIOUS
  <2>1. PICK q \in Requests : history = [r \in Revisions |-> IF r = 0 THEN q ELSE None]
    BY DEF Init
  <2>2. StoredAreValid
    BY <2>1, RequestsAssumption DEF StoredAreValid
  <2>3. \A e \in Editors : Worked(e)
    BY DEF Init, Worked, Computed
  <2> QED
    BY <2>2, <2>3
<1>2. IInv => Domains /\ HistoryEnds
  BY DEF IInv
<1>3. Domains /\ HistoryEnds /\ StoredAreValid /\ (\A e \in Editors : Worked(e)) => EInv
  BY DEF EInv
<1>4. EInv /\ IInv /\ [Next]_vars /\ Domains' /\ HistoryEnds' => EInv'
  BY EInvKept
<1> QED
  BY <1>1, <1>2, <1>3, <1>4, InitIInv, Invariant, PTL DEF Spec

(* "stay_index counts positions" before the batch: whatever the order and  *)
(* the mix of its operations, the stays the user meant are the ones that   *)
(* were changed or removed.                                                *)
THEOREM StaysMeant == Spec => []StaysAreThoseMeant
<1>1. EInv => StaysAreThoseMeant
  <2> SUFFICES ASSUME EInv, NEW e \in Editors, Computed(e)
               PROVE  LET old == job[e].before.stays
                          batch == job[e].batch
                          adds == Named(batch, "add_accommodation")
                      IN /\ ToSet(job[e].after.stays) =
                              {Changed(old, batch, s) : s \in Survivors(old, batch)}
                                \cup {batch[i].stay : i \in adds}
                         /\ Len(job[e].after.stays) =
                              Cardinality(Survivors(old, batch)) + Cardinality(adds)
    BY DEF StaysAreThoseMeant, Changed, Survivors, Meant, Earlier
  <2>1. PICK before, batch : before = job[e].before /\ batch = job[e].batch
    OBVIOUS
  <2>2. /\ ProperBatch(batch) /\ Shaped(before) /\ Valid(before) /\ Apply(before, batch).ok
        /\ job[e].after = Apply(before, batch).request
    BY <2>1 DEF EInv, Worked
  <2>3. PICK r : Carried(before, batch, r) /\ Answered(before, r[Len(batch)], Apply(before, batch))
    BY <2>2, ApplyIs
  <2>4. ApartStays(before.stays)
    BY <2>2, ValidStaysAreApart
  <2>5. job[e].after.stays = StaysAfter(before.stays, batch)
    <3>1. PICK last : last = r[Len(batch)]
      OBVIOUS
    <3>2. Shaped(last) /\ last.stays = StaysAfter(before.stays, batch)
      <4>1. Len(batch) \in 0..Len(batch)
        BY <2>2, ListIs DEF ProperBatch
      <4> QED
        BY <2>3, <3>1, <4>1 DEF Carried
    <3>3. job[e].after = [last EXCEPT !.transfers = Left(before, last)]
      BY <2>2, <2>3, <3>1 DEF Answered
    <3> QED
      BY <3>2, <3>3, LeftIs, WithTransfers
  <2> QED
    BY <2>1, <2>2, <2>3, <2>4, <2>5, StaysAfterAre DEF Carried
<1> QED
  BY <1>1, EditsAreComputed, PTL

(* A transfer never disappears in silence, and none is reported as dropped *)
(* that had not lost its changeover.                                       *)
THEOREM TransfersAreNotLost == Spec => []NoTransferLostSilently
<1>1. EInv => NoTransferLostSilently
  <2> SUFFICES ASSUME EInv, NEW e \in Editors, Computed(e)
               PROVE  NoneLost(job[e].before, job[e].batch, job[e].after, job[e].dropped)
    BY DEF NoTransferLostSilently, NoneLost
  <2>1. PICK before, batch : before = job[e].before /\ batch = job[e].batch
    OBVIOUS
  <2>2. /\ ProperBatch(batch) /\ Shaped(before) /\ Valid(before) /\ Apply(before, batch).ok
        /\ job[e].after = Apply(before, batch).request
        /\ job[e].dropped = Apply(before, batch).dropped
    BY <2>1 DEF EInv, Worked
  <2> QED
    BY <2>1, <2>2, TransfersKept
<1> QED
  BY <1>1, EditsAreComputed, PTL

(* A batch shows whole in what is stored, and what no operation of it is   *)
(* about is as it was.                                                     *)
THEOREM BatchesApplyWhole == Spec => []BatchIsAppliedWhole
<1>1. EInv => BatchIsAppliedWhole
  <2> SUFFICES ASSUME EInv, NEW e \in Editors, Computed(e)
               PROVE  LET before == job[e].before
                          after == job[e].after
                          batch == job[e].batch
                      IN /\ \A i \in DOMAIN batch :
                              \/ Shows(after, batch[i])
                              \/ \E j \in DOMAIN batch : j > i /\ Subject(batch[j]) = Subject(batch[i])
                         /\ Spared(before, after, batch)
    BY DEF BatchIsAppliedWhole, Spared, ToSet
  <2>1. PICK before, batch : before = job[e].before /\ batch = job[e].batch
    OBVIOUS
  <2>2. /\ ProperBatch(batch) /\ Shaped(before) /\ Valid(before) /\ Apply(before, batch).ok
        /\ job[e].after = Apply(before, batch).request
    BY <2>1 DEF EInv, Worked
  <2> QED
    BY <2>1, <2>2, ShowsWhole
<1> QED
  BY <1>1, EditsAreComputed, PTL
=============================================================================
