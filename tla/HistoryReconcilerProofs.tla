---------------------- MODULE HistoryReconcilerProofs ----------------------
(***************************************************************************)
(* Theorems about HistoryReconciler, for any history, requests and bounds:   *)
(* what the computations with intervals return, what coverage proves, and    *)
(* when a job's row may go.                                                  *)
(***************************************************************************)
EXTENDS HistoryReconciler, SequenceTheorems, FiniteSetTheorems, WellFoundedInduction, TLAPS

-----------------------------------------------------------------------------
(* The invariants *)

Selectors == RangeSelector \cup PageSelector

(* A job stands for the selector of its request, or for a wider range. *)
Fits(r, selector) ==
  /\ selector.kind = r.selector.kind
  /\ selector.kind = "page" => selector = r.selector
  /\ selector.kind = "range" =>
       selector.startAt <= r.selector.startAt /\ r.selector.endAt <= selector.endAt

AtWork == JobSteps \cup {"completing", "reviving", "deferring", "failing"}

(* Only the runner deletes rows: the one it has in hand is there, and stands   *)
(* for the request it was claimed with.                                      *)
InHand ==
  /\ pc = "claiming" => work.id \in Requests /\ jobs[work.id] # NoJob
  /\ pc \in AtWork =>
       /\ work.id \in Requests /\ work.selector \in Selectors /\ work.attempts \in Nat
       /\ jobs[work.id] # NoJob
       /\ Fits(work.id, work.selector)

(* Rows and calls that are to write rows. *)
AllFit ==
  /\ \A r \in Requests : jobs[r] # NoJob => Fits(r, jobs[r].selector)
  /\ \A c \in Callers : call[c].pc = "merging" => Fits(call[c].target, call[c].selector)
  /\ \A c \in Callers : call[c].pc = "overlapping" => call[c].request.selector.kind = "range"

(* What is fetched is a piece of the owner's history, and one interval at most. *)
PageFits ==
  /\ pc = "persisting" => page.messages \subseteq DOMAIN History[owner]
  /\ pc \in {"persisting", "covering"} => \A i, j \in page.covered : i = j

(* The seconds of the rows are bounded. *)
Bounded(segments) == \E bound \in Nat : \A i \in segments : i.endAt <= bound

AllBounded == \A o \in Owners : Bounded(coverage[o])

(* What was found readable stays so until the row is gone. *)
ReadyToEnd == pc \in {"publishing", "completing"} => Ready(owner, work.selector)

HInv == TypeOK /\ InHand /\ AllFit /\ PageFits /\ AllBounded /\ ReadyToEnd

(* An owner whose ranges TDLib finds by date, or one that is read from the      *)
(* present backwards only.                                                   *)
ReadByRanges(o) ==
  o \in Anchored /\ \A r \in Requests : r.owner = o => r.selector.kind = "range"

ReadBackwards(o) ==
  \A r \in Requests :
    r.owner = o => \/ r.selector.kind = "range" /\ o \notin Anchored
                   \/ r.selector.kind = "page" /\ r.selector.before = Latest

ReadOneWay == \A o \in Owners : ReadByRanges(o) \/ ReadBackwards(o)

(* Read backwards, what is stored are the newest messages without a hole. *)
NoHole(o, messages) ==
  \A m \in messages : \A k \in DOMAIN History[o] : k > m => k \in messages

(* Covered is what is stored, at every stage of a page. *)
PageProves ==
  /\ pc = "persisting" =>
       MessagesIn(owner, Covered(page.covered)) \subseteq stored[owner] \cup page.messages
  /\ pc = "covering" => MessagesIn(owner, Covered(page.covered)) \subseteq stored[owner]

Backwards ==
  /\ \A o \in Owners : ReadBackwards(o) => NoHole(o, stored[o])
  /\ pc = "persisting" /\ ReadBackwards(owner) => NoHole(owner, stored[owner] \cup page.messages)
  /\ pc = "fetching" /\ work.selector.kind = "page" /\ ReadBackwards(owner) /\ stored[owner] = {} =>
       missing \subseteq {OpenPast(Present)}

StoredInv == CoveredMeansStored /\ PageProves /\ Backwards

-----------------------------------------------------------------------------
(* Natural numbers *)

(* Every set of natural numbers that is not empty has a least element. *)
LEMMA Least ==
  ASSUME NEW S \in SUBSET Nat, S # {}
  PROVE  \E m \in S : \A k \in S : m <= k
<1> DEFINE Below(m) == S \cap (0..m)
           T == {Below(m) : m \in S}
<1>1. ASSUME NEW m \in S PROVE Below(m) \in FiniteSubsetsOf(Nat)
  <2>1. m \in Int /\ 0 \in Int /\ Below(m) \subseteq 0..m /\ Below(m) \subseteq Nat
    OBVIOUS
  <2>2. IsFiniteSet(0..m)
    BY <2>1, FS_Interval
  <2>3. IsFiniteSet(Below(m))
    BY <2>1, <2>2, FS_Subset
  <2> QED
    BY <2>1, <2>3 DEF FiniteSubsetsOf
<1>2. T \subseteq FiniteSubsetsOf(Nat) /\ T # {}
  BY <1>1
<1>3. IsWellFoundedOn(StrictSubsetOrdering(Nat), FiniteSubsetsOf(Nat))
  BY FS_StrictSubsetOrderingWellFounded
<1> HIDE DEF T
<1>4. PICK X \in T : \A Y \in T : <<Y, X>> \notin StrictSubsetOrdering(Nat)
  BY <1>2, <1>3, WFMin
<1>5. PICK m \in S : X = Below(m)
  BY DEF T
<1>6. ASSUME NEW k \in S, k < m PROVE FALSE
  <2>1. Below(k) \in T
    BY DEF T
  <2>2. Below(k) \subseteq Below(m) /\ Below(k) \in SUBSET Nat /\ Below(m) \in SUBSET Nat
    BY <1>6
  <2>3. m \in Below(m) /\ m \notin Below(k)
    BY <1>6
  <2>4. Below(k) # Below(m)
    BY <2>3
  <2> HIDE DEF Below
  <2>5. <<Below(k), Below(m)>> \in StrictSubsetOrdering(Nat)
    BY <2>2, <2>4 DEF StrictSubsetOrdering
  <2> QED
    BY <1>4, <1>5, <2>1, <2>5
<1>7. \A k \in S : m <= k
  BY <1>6
<1> QED
  BY <1>7

(* Where it is bounded it has a greatest one. *)
LEMMA Greatest ==
  ASSUME NEW S \in SUBSET Nat, S # {}, NEW bound \in Nat, \A k \in S : k <= bound
  PROVE  \E m \in S : \A k \in S : k <= m
<1> DEFINE T == {bound - k : k \in S}
<1>1. T \in SUBSET Nat /\ T # {}
  <2>1. \A k \in S : bound - k \in Nat
    OBVIOUS
  <2> QED
    BY <2>1
<1>2. PICK d \in T : \A e \in T : d <= e
  BY <1>1, Least
<1>3. PICK m \in S : d = bound - m
  BY <1>2
<1>4. ASSUME NEW k \in S PROVE k <= m
  <2>1. d <= bound - k
    BY <1>2
  <2> QED
    BY <1>3, <2>1
<1> QED
  BY <1>4

(* The run of numbers in C that holds x begins ... *)
LEMMA RunBegins ==
  ASSUME NEW C \in SUBSET Nat, NEW x \in C
  PROVE  \E s \in 0..x : s..x \subseteq C /\ s - 1 \notin C
<1> DEFINE S == {s \in 0..x : s..x \subseteq C}
<1>1. x \in S /\ S \in SUBSET Nat
  OBVIOUS
<1>2. PICK s \in S : \A k \in S : s <= k
  BY <1>1, Least
<1>3. ASSUME s - 1 \in C PROVE FALSE
  <2>1. s \in Nat /\ s - 1 \in 0..x /\ (s - 1)..x \subseteq C
    BY <1>2, <1>3
  <2>2. s - 1 \in S
    BY <2>1
  <2>3. s <= s - 1
    BY <1>2, <2>2
  <2> QED
    BY <2>1, <2>3
<1> QED
  BY <1>2, <1>3

(* ... and ends, where C is bounded. *)
LEMMA RunEnds ==
  ASSUME NEW C \in SUBSET Nat, NEW x \in C, NEW bound \in Nat, \A k \in C : k < bound
  PROVE  \E e \in Nat : x < e /\ x..(e - 1) \subseteq C /\ e \notin C
<1> DEFINE S == {e \in Nat : x < e /\ e \notin C}
<1>1. bound \in S /\ S \in SUBSET Nat
  OBVIOUS
<1>2. PICK e \in S : \A k \in S : e <= k
  BY <1>1, Least
<1>3. ASSUME NEW k \in x..(e - 1) PROVE k \in C
  <2>1. k \in Nat /\ k < e /\ x <= k
    OBVIOUS
  <2>2. k \notin S
    BY <1>2, <2>1
  <2> QED
    BY <2>1, <2>2
<1> QED
  BY <1>2, <1>3

-----------------------------------------------------------------------------
(* Coverage *)

(* Covered seconds are natural numbers, and a bound is past them. *)
LEMMA CoveredIs ==
  ASSUME NEW S \in SUBSET Interval
  PROVE  /\ Covered(S) \in SUBSET Nat
         /\ \A x \in Covered(S) :
              \E i \in S : i.startAt <= x /\ x < i.endAt /\ i.startAt \in Nat /\ i.endAt \in Nat
         /\ \A i \in S : \A x \in Nat : i.startAt <= x /\ x < i.endAt => x \in Covered(S)
         /\ \A bound \in Nat : (\A i \in S : i.endAt <= bound) => \A x \in Covered(S) : x < bound
<1>1. \A i \in S : i.startAt \in Nat /\ i.endAt \in Nat
  BY DEF Interval
<1>2. \A i \in S : Seconds(i) = {x \in Nat : i.startAt <= x /\ x < i.endAt}
  BY <1>1 DEF Seconds
<1>3. \A x : x \in Covered(S) <=> \E i \in S : x \in Seconds(i)
  BY DEF Covered
<1>4. \A x \in Covered(S) :
        /\ x \in Nat
        /\ \E i \in S : i.startAt <= x /\ x < i.endAt /\ i.startAt \in Nat /\ i.endAt \in Nat
  BY <1>1, <1>2, <1>3
<1>5. ASSUME NEW bound \in Nat, \A i \in S : i.endAt <= bound, NEW x \in Covered(S)
      PROVE  x < bound
  BY <1>4, <1>5
<1> QED
  BY <1>2, <1>3, <1>4, <1>5

(* A run of covered seconds begins where a segment does, and ends where one does. *)
LEMMA RunOfSegments ==
  ASSUME NEW S \in SUBSET Interval, NEW x \in Nat
  PROVE  /\ x \in Covered(S) /\ x - 1 \notin Covered(S) => x \in {i.startAt : i \in S}
         /\ x \notin Covered(S) /\ x - 1 \in Covered(S) => x \in {i.endAt : i \in S}
<1>1. ASSUME x \in Covered(S), x - 1 \notin Covered(S) PROVE x \in {i.startAt : i \in S}
  <2>1. PICK i \in S : i.startAt <= x /\ x < i.endAt /\ i.startAt \in Nat /\ i.endAt \in Nat
    BY <1>1, CoveredIs
  <2>2. CASE i.startAt = x
    BY <2>2
  <2>3. CASE i.startAt # x
    <3>1. x - 1 \in Nat /\ i.startAt <= x - 1 /\ x - 1 < i.endAt
      BY <2>1, <2>3
    <3> QED
      BY <1>1, <3>1, CoveredIs
  <2> QED
    BY <2>2, <2>3
<1>2. ASSUME x \notin Covered(S), x - 1 \in Covered(S) PROVE x \in {i.endAt : i \in S}
  <2>1. PICK i \in S :
          i.startAt <= x - 1 /\ x - 1 < i.endAt /\ i.startAt \in Nat /\ i.endAt \in Nat
    BY <1>2, CoveredIs
  <2>2. ~(i.startAt <= x /\ x < i.endAt)
    BY <1>2, CoveredIs
  <2>3. i.endAt = x
    BY <2>1, <2>2
  <2> QED
    BY <2>3
<1> QED
  BY <1>1, <1>2

(* Merged segments cover what they covered apart (mergeSegments). *)
LEMMA MergeCovers ==
  ASSUME NEW S \in SUBSET Interval, Bounded(S)
  PROVE  /\ MergeSegments(S) \in SUBSET Interval /\ Bounded(MergeSegments(S))
         /\ Covered(MergeSegments(S)) = Covered(S)
<1> DEFINE M == MergeSegments(S)
<1>1. PICK bound \in Nat : \A i \in S : i.endAt <= bound
  BY DEF Bounded
<1>2. /\ {s.startAt : s \in S} \subseteq Nat /\ {s.endAt : s \in S} \subseteq Nat
      /\ \A e \in {s.endAt : s \in S} : e <= bound
  BY <1>1 DEF Interval
<1>3. M \in SUBSET Interval /\ \A i \in M : i.endAt <= bound
  BY <1>2 DEF MergeSegments, Interval
<1>4. Covered(M) \subseteq Covered(S)
  <2>1. \A i \in M : Seconds(i) \subseteq Covered(S)
    BY DEF MergeSegments
  <2> QED
    BY <2>1 DEF Covered
<1>5. ASSUME NEW x \in Covered(S) PROVE x \in Covered(M)
  <2>1. Covered(S) \in SUBSET Nat /\ \A k \in Covered(S) : k < bound
    BY <1>1, CoveredIs
  <2>2. PICK b \in 0..x : b..x \subseteq Covered(S) /\ b - 1 \notin Covered(S)
    BY <2>1, RunBegins
  <2>3. PICK e \in Nat : x < e /\ x..(e - 1) \subseteq Covered(S) /\ e \notin Covered(S)
    BY <2>1, RunEnds
  <2>4. x \in Nat /\ b \in Nat /\ b <= x /\ b < e
    BY <2>1, <2>2, <2>3
  <2>5. b..(e - 1) \subseteq Covered(S)
    <3>1. \A k \in b..(e - 1) : k \in b..x \/ k \in x..(e - 1)
      BY <2>4
    <3> QED
      BY <2>2, <2>3, <3>1
  <2>6. b \in Covered(S) /\ e - 1 \in Covered(S)
    BY <2>4, <2>5
  <2>7. b \in {i.startAt : i \in S} /\ e \in {i.endAt : i \in S}
    BY <2>2, <2>3, <2>4, <2>6, RunOfSegments
  <2> DEFINE run == [startAt |-> b, endAt |-> e]
  <2>8. run \in [startAt : {i.startAt : i \in S}, endAt : {i.endAt : i \in S}]
    BY <2>7
  <2>9. run.startAt = b /\ run.endAt = e /\ Seconds(run) = b..(e - 1)
    BY DEF Seconds
  <2> HIDE DEF run
  <2>10. run \in M
    BY <2>2, <2>3, <2>4, <2>5, <2>8, <2>9 DEF MergeSegments
  <2>11. x \in Seconds(run)
    <3>1. x \in b..(e - 1)
      BY <2>3, <2>4
    <3> QED
      BY <2>9, <3>1
  <2> QED
    BY <2>10, <2>11 DEF Covered
<1> QED
  BY <1>3, <1>4, <1>5 DEF Bounded

(* What is subtracted is what no segment covers (subtractSegments). *)
LEMMA SubtractCovers ==
  ASSUME NEW d \in Interval, NEW S \in SUBSET Interval
  PROVE  /\ SubtractSegments(d, S) \in SUBSET Interval
         /\ \A i \in SubtractSegments(d, S) :
              d.startAt <= i.startAt /\ i.startAt < i.endAt /\ i.endAt <= d.endAt
         /\ Covered(SubtractSegments(d, S)) = Seconds(d) \ Covered(S)
<1> DEFINE D == SubtractSegments(d, S)
           C == Seconds(d) \ Covered(S)
<1>1. d.startAt \in Nat /\ d.endAt \in Nat /\ \A i \in S : i.startAt \in Nat /\ i.endAt \in Nat
  BY DEF Interval
<1>2. C \in SUBSET Nat /\ \A x \in C : d.startAt <= x /\ x < d.endAt
  BY <1>1 DEF Seconds
<1>3. D \in SUBSET Interval /\ \A i \in D : i.startAt < i.endAt /\ Seconds(i) \subseteq C
  <2>1. /\ {d.startAt} \cup {s.endAt : s \in S} \subseteq Nat
        /\ {d.endAt} \cup {s.startAt : s \in S} \subseteq Nat
    BY <1>1
  <2> QED
    BY <2>1 DEF SubtractSegments, Interval
<1>4. ASSUME NEW i \in D PROVE d.startAt <= i.startAt /\ i.endAt <= d.endAt
  <2>1. i.startAt \in Nat /\ i.endAt \in Nat /\ i.startAt < i.endAt
    BY <1>3 DEF Interval
  <2>2. i.startAt \in Seconds(i) /\ i.endAt - 1 \in Seconds(i)
    BY <2>1 DEF Seconds
  <2>3. i.startAt \in C /\ i.endAt - 1 \in C
    BY <1>3, <2>2
  <2> QED
    BY <1>1, <1>2, <2>1, <2>3
<1>5. Covered(D) \subseteq C
  BY <1>3 DEF Covered
<1>6. ASSUME NEW x \in C PROVE x \in Covered(D)
  <2>1. PICK b \in 0..x : b..x \subseteq C /\ b - 1 \notin C
    BY <1>2, RunBegins
  <2>2. PICK e \in Nat : x < e /\ x..(e - 1) \subseteq C /\ e \notin C
    <3>1. \A k \in C : k < d.endAt
      BY <1>2
    <3> QED
      BY <1>1, <1>2, <3>1, RunEnds
  <2>3. x \in Nat /\ b \in Nat /\ b <= x /\ b < e
    BY <1>2, <2>1, <2>2
  <2>4. b..(e - 1) \subseteq C
    <3>1. \A k \in b..(e - 1) : k \in b..x \/ k \in x..(e - 1)
      BY <2>3
    <3> QED
      BY <2>1, <2>2, <3>1
  <2>5. b \in C /\ e - 1 \in C
    BY <2>3, <2>4
  <2>6. b \notin Covered(S) /\ e - 1 \notin Covered(S)
    BY <2>5
  <2>7. d.startAt <= b /\ e <= d.endAt
    BY <1>1, <1>2, <2>3, <2>5
  <2>8. b = d.startAt \/ b - 1 \in Covered(S)
    BY <1>1, <2>1, <2>3, <2>5, <2>7, <1>2 DEF Seconds
  <2>9. e = d.endAt \/ e \in Covered(S)
    BY <1>1, <2>2, <2>3, <2>7 DEF Seconds
  <2>10. b \in {d.startAt} \cup {i.endAt : i \in S}
    BY <2>3, <2>6, <2>8, RunOfSegments
  <2>11. e \in {d.endAt} \cup {i.startAt : i \in S}
    BY <2>3, <2>6, <2>9, RunOfSegments
  <2> DEFINE run == [startAt |-> b, endAt |-> e]
  <2>12. run \in [startAt : {d.startAt} \cup {i.endAt : i \in S},
                  endAt : {d.endAt} \cup {i.startAt : i \in S}]
    BY <2>10, <2>11
  <2>13. run.startAt = b /\ run.endAt = e /\ Seconds(run) = b..(e - 1)
    BY DEF Seconds
  <2> HIDE DEF run
  <2>14. run \in D
    BY <2>3, <2>4, <2>8, <2>9, <2>12, <2>13 DEF SubtractSegments
  <2>15. x \in Seconds(run)
    <3>1. x \in b..(e - 1)
      BY <2>2, <2>3
    <3> QED
      BY <2>13, <3>1
  <2> QED
    BY <2>14, <2>15 DEF Covered
<1> QED
  BY <1>3, <1>4, <1>5, <1>6

(* A write adds the seconds of its segment and takes none away. *)
LEMMA WriteCovers ==
  ASSUME NEW rows \in SUBSET Interval, Bounded(rows), NEW segment \in Interval
  PROVE  /\ WriteSegment(rows, segment) \in SUBSET Interval
         /\ Bounded(WriteSegment(rows, segment))
         /\ Covered(WriteSegment(rows, segment)) = Covered(rows) \cup Seconds(segment)
<1> DEFINE reached == {row \in rows : /\ row.startAt <= segment.endAt + 1
                                      /\ row.endAt >= segment.startAt - 1}
           M == MergeSegments(reached \cup {segment})
<1>1. PICK bound \in Nat : \A i \in rows : i.endAt <= bound
  BY DEF Bounded
<1>2. segment.endAt \in Nat /\ segment.startAt \in Nat /\ \A i \in rows : i.endAt \in Nat
  BY DEF Interval
<1>3. reached \in SUBSET Interval /\ reached \subseteq rows
  OBVIOUS
<1>4. Bounded(reached \cup {segment})
  <2>1. Larger(bound, segment.endAt) \in Nat
    BY <1>2 DEF Larger
  <2>2. \A i \in reached \cup {segment} : i.endAt <= Larger(bound, segment.endAt)
    BY <1>1, <1>2, <1>3 DEF Larger
  <2> QED
    BY <2>1, <2>2 DEF Bounded
<1>5. reached \cup {segment} \in SUBSET Interval
  BY <1>3
<1> HIDE DEF reached
<1>6. /\ M \in SUBSET Interval /\ Bounded(M) /\ Covered(M) = Covered(reached \cup {segment})
  BY <1>4, <1>5, MergeCovers
<1>7. WriteSegment(rows, segment) = (rows \ reached) \cup M
  BY DEF WriteSegment, reached
<1> HIDE DEF M
<1>8. Bounded((rows \ reached) \cup M)
  <2>1. PICK most \in Nat : \A i \in M : i.endAt <= most
    BY <1>6 DEF Bounded
  <2>2. Larger(bound, most) \in Nat /\ \A i \in M : i.endAt \in Nat
    BY <1>6, <2>1 DEF Larger, Interval
  <2>3. \A i \in (rows \ reached) \cup M : i.endAt <= Larger(bound, most)
    BY <1>1, <1>2, <2>1, <2>2 DEF Larger
  <2> QED
    BY <2>2, <2>3 DEF Bounded
<1>9. /\ Covered((rows \ reached) \cup M) = Covered(rows \ reached) \cup Covered(M)
      /\ Covered(reached \cup {segment}) = Covered(reached) \cup Seconds(segment)
      /\ Covered(rows \ reached) \cup Covered(reached) = Covered(rows)
  BY <1>3 DEF Covered
<1> QED
  BY <1>6, <1>7, <1>8, <1>9

-----------------------------------------------------------------------------
(* Histories and pages *)

(* A history is finite, its messages have numbers from 1 and dates that do not   *)
(* fall, before the present.                                                 *)
LEMMA HistoryIs ==
  ASSUME NEW o \in Owners
  PROVE  /\ DOMAIN History[o] \in SUBSET Nat /\ IsFiniteSet(DOMAIN History[o])
         /\ \E n \in Nat : DOMAIN History[o] = 1..n
         /\ Latest \notin DOMAIN History[o]
         /\ \A m \in DOMAIN History[o] :
              /\ History[o][m] \in Nat /\ 0 < History[o][m] /\ History[o][m] < Present
              /\ After(o, m) = History[o][m] + 1 /\ After(o, m) \in Nat /\ After(o, m) <= Present
         /\ \A m, n \in DOMAIN History[o] : m <= n => History[o][m] <= History[o][n]
         /\ Present \in Nat
<1>1. History[o] \in Seq(1..(Present - 1)) /\ Present \in Nat \ {0}
  BY HistoryAssumption
<1>2. PICK n \in Nat : n = Len(History[o]) /\ DOMAIN History[o] = 1..n
  BY <1>1, LenProperties
<1>3. IsFiniteSet(1..n)
  BY FS_Interval
<1>4. \A m \in 1..n : History[o][m] \in 1..(Present - 1)
  BY <1>1, <1>2, ElementOfSeq
<1>5. \A m \in 1..n : /\ History[o][m] \in Nat /\ 0 < History[o][m] /\ History[o][m] < Present
                      /\ History[o][m] + 1 \in Nat /\ History[o][m] + 1 <= Present
  BY <1>1, <1>4
<1>6. \A m, k \in DOMAIN History[o] : m <= k => History[o][m] <= History[o][k]
  BY HistoryAssumption
<1> QED
  BY <1>1, <1>2, <1>3, <1>5, <1>6 DEF After, Latest

LEMMA OldestIs ==
  ASSUME NEW S \in SUBSET Nat, S # {}
  PROVE  Oldest(S) \in S /\ \A k \in S : Oldest(S) <= k
BY Least DEF Oldest

(* The newest of some messages are some, if there are any, and no other of them *)
(* is newer.                                                                 *)
LEMMA NewestIs ==
  ASSUME NEW o \in Owners, NEW S \in SUBSET (DOMAIN History[o]), NEW n \in Nat \ {0}
  PROVE  /\ Newest(S, n) \subseteq S
         /\ S # {} => Newest(S, n) # {}
         /\ \A m \in Newest(S, n) : \A k \in S : k > m => k \in Newest(S, n)
<1> DEFINE above(m) == {k \in S : k > m}
<1>1. S \in SUBSET Nat /\ IsFiniteSet(S) /\ \E b \in Nat : \A k \in S : k <= b
  <2>1. DOMAIN History[o] \in SUBSET Nat /\ IsFiniteSet(DOMAIN History[o])
    BY HistoryIs
  <2>2. PICK b \in Nat : DOMAIN History[o] = 1..b
    BY HistoryIs
  <2> QED
    BY <2>1, <2>2, FS_Subset
<1>2. Newest(S, n) = {m \in S : Cardinality(above(m)) < n}
  BY DEF Newest
<1>3. ASSUME NEW m \in S PROVE IsFiniteSet(above(m)) /\ Cardinality(above(m)) \in Nat
  BY <1>1, FS_Subset, FS_CardinalityType
<1>4. ASSUME S # {} PROVE Newest(S, n) # {}
  <2>1. PICK b \in Nat : \A k \in S : k <= b
    BY <1>1
  <2>2. PICK m \in S : \A k \in S : k <= m
    BY <1>1, <1>4, <2>1, Greatest
  <2>3. above(m) = {}
    <3>1. m \in Nat /\ \A k \in S : k \in Nat /\ k <= m
      BY <1>1, <2>2
    <3>2. \A k \in S : ~(k > m)
      BY <3>1
    <3> QED
      BY <3>2
  <2>4. Cardinality(above(m)) = 0
    BY <2>3, FS_EmptySet
  <2> QED
    BY <1>2, <2>4
<1>5. ASSUME NEW m \in Newest(S, n), NEW k \in S, k > m
      PROVE  k \in Newest(S, n)
  <2>1. m \in S /\ Cardinality(above(m)) < n
    BY <1>2
  <2>2. above(k) \subseteq above(m)
    <3>1. m \in Nat /\ k \in Nat /\ \A j \in S : j \in Nat
      BY <1>1, <2>1
    <3>2. ASSUME NEW j \in S, j > k PROVE j > m
      <4>1. j \in Nat /\ m \in Nat /\ k \in Nat /\ k > m /\ j > k
        BY <1>5, <3>1, <3>2
      <4> QED
        BY <4>1
    <3> QED
      BY <3>2
  <2>3. Cardinality(above(k)) <= Cardinality(above(m))
    BY <1>3, <2>1, <2>2, FS_Subset
  <2>4. Cardinality(above(k)) \in Nat /\ Cardinality(above(m)) \in Nat
    BY <1>3, <2>1
  <2>5. Cardinality(above(k)) < n
    BY <2>1, <2>3, <2>4
  <2> QED
    BY <1>2, <2>5
<1> QED
  BY <1>2, <1>4, <1>5

(* The newest one is the last. *)
LEMMA NewestOne ==
  ASSUME NEW o \in Owners, NEW S \in SUBSET (DOMAIN History[o]), NEW m \in Newest(S, 1)
  PROVE  m \in S /\ \A k \in S : k <= m
<1> DEFINE above == {k \in S : k > m}
<1>1. DOMAIN History[o] \in SUBSET Nat /\ IsFiniteSet(DOMAIN History[o])
  BY HistoryIs
<1>2. IsFiniteSet(above) /\ Cardinality(above) \in Nat
  BY <1>1, FS_Subset, FS_CardinalityType
<1>3. m \in S /\ Cardinality(above) < 1
  BY DEF Newest
<1>4. Cardinality(above) = 0
  BY <1>2, <1>3
<1>5. above = {}
  BY <1>2, <1>4, FS_EmptySet
<1> QED
  BY <1>1, <1>3, <1>5

(* There is an interval closest to the present.                               *)
LEMMA ClosestIs ==
  ASSUME NEW S \in SUBSET Interval, S # {}, Bounded(S)
  PROVE  ClosestToPresent(S) \in S
<1> DEFINE E == {i.endAt : i \in S}
<1>1. PICK bound \in Nat : \A i \in S : i.endAt <= bound
  BY DEF Bounded
<1>2. E \in SUBSET Nat /\ E # {} /\ \A e \in E : e <= bound
  BY <1>1 DEF Interval
<1>3. PICK e \in E : \A d \in E : d <= e
  BY <1>2, Greatest
<1>4. \E i \in S : \A j \in S : j.endAt <= i.endAt
  BY <1>3
<1> QED
  BY <1>4 DEF ClosestToPresent

(* The tables hold intervals and messages of the histories. *)
Stores(o) ==
  coverage[o] \in SUBSET Interval /\ stored[o] \in SUBSET (DOMAIN History[o])

(* A page is read from the stored messages, and the second it ends before is known *)
(* with the message it ends with.                                            *)
LEMMA PageRowsAre ==
  ASSUME NEW o \in Owners, Stores(o), NEW selector \in PageSelector
  PROVE  /\ PageRows(o, selector) \in SUBSET stored[o]
         /\ PageRows(o, selector) \in SUBSET Nat
         /\ selector.before = Latest /\ stored[o] # {} => PageRows(o, selector) # {}
         /\ \A e \in PageEnd(o, selector) : e \in Nat /\ e <= Present
         /\ stored[o] = {} => PageRows(o, selector) = {} /\ PageEnd(o, selector) = {}
<1> DEFINE S == {m \in stored[o] : selector.before = Latest \/ m < selector.before}
<1>1. stored[o] \in SUBSET (DOMAIN History[o]) /\ S \in SUBSET (DOMAIN History[o])
  BY DEF Stores
<1>2. selector.count \in Nat \ {0} /\ 1 \in Nat \ {0}
  BY DEF PageSelector
<1>3. PageRows(o, selector) = Newest(S, selector.count)
  BY DEF PageRows
<1>4. DOMAIN History[o] \in SUBSET Nat
  BY HistoryIs
<1>5. /\ Newest(S, selector.count) \subseteq S
      /\ S # {} => Newest(S, selector.count) # {}
      /\ Newest(stored[o], 1) \subseteq stored[o]
  BY <1>1, <1>2, NewestIs
<1>6. \A m \in stored[o] : After(o, m) \in Nat /\ After(o, m) <= Present
  BY <1>1, HistoryIs
<1>7. \A e \in PageEnd(o, selector) : \E m \in stored[o] : e = After(o, m)
  BY <1>5 DEF PageEnd
<1> QED
  BY <1>3, <1>4, <1>1, <1>5, <1>6, <1>7

(* What is missing are intervals, up to the end asked for or the present. *)
LEMMA MissingIs ==
  ASSUME NEW o \in Owners, Stores(o), NEW selector \in Selectors
  PROVE  Missing(o, selector) \in SUBSET Interval /\ Bounded(Missing(o, selector))
<1>1. coverage[o] \in SUBSET Interval
  BY DEF Stores
<1>2. ASSUME NEW d \in Interval
      PROVE  /\ Uncovered(o, d) \in SUBSET Interval
             /\ \A i \in Uncovered(o, d) : i.endAt <= d.endAt
  BY <1>1, SubtractCovers DEF Uncovered
<1>3. CASE selector \in RangeSelector
  <2>1. RangeOf(selector) \in Interval /\ RangeOf(selector).endAt \in Nat
    BY <1>3 DEF RangeSelector, RangeOf, Interval
  <2>2. Missing(o, selector) = Uncovered(o, RangeOf(selector))
    BY <1>3 DEF RangeSelector, Missing
  <2> QED
    BY <1>2, <2>1, <2>2 DEF Bounded
<1>4. CASE selector \in PageSelector
  <2> DEFINE rows == PageRows(o, selector)
             start == IF Cardinality(rows) < selector.count
                      THEN PastBoundary ELSE After(o, Oldest(rows))
  <2>1. Missing(o, selector) = PageMissing(o, selector) /\ Present \in Nat
    BY <1>4, HistoryIs DEF PageSelector, Missing
  <2>2. start \in Nat
    <3>1. CASE Cardinality(rows) < selector.count
      BY <3>1 DEF PastBoundary
    <3>2. CASE ~(Cardinality(rows) < selector.count)
      <4>1. selector.count \in Nat \ {0}
        BY <1>4 DEF PageSelector
      <4>2. rows # {}
        BY <3>2, <4>1, FS_EmptySet
      <4>3. rows \in SUBSET Nat /\ rows \in SUBSET stored[o]
        BY <1>4, PageRowsAre
      <4> HIDE DEF rows
      <4>4. Oldest(rows) \in DOMAIN History[o]
        BY <4>2, <4>3, OldestIs DEF Stores
      <4>5. After(o, Oldest(rows)) \in Nat
        BY <4>4, HistoryIs
      <4> QED
        BY <3>2, <4>5
    <3> QED
      BY <3>1, <3>2
  <2>3. \A e \in PageEnd(o, selector) : e \in Nat /\ e <= Present
    BY <1>4, PageRowsAre
  <2>4. OpenPast(Present) \in Interval /\ OpenPast(Present).endAt <= Present
    BY <2>1 DEF OpenPast, Interval, PastBoundary
  <2>5. \/ PageMissing(o, selector) =
             UNION {Uncovered(o, [startAt |-> start, endAt |-> e]) : e \in PageEnd(o, selector)}
        \/ PageMissing(o, selector) \in {{}, {OpenPast(Present)}}
    BY DEF PageMissing
  <2> HIDE DEF start, rows
  <2>6. ASSUME NEW e \in PageEnd(o, selector),
               NEW i \in Uncovered(o, [startAt |-> start, endAt |-> e])
        PROVE  i \in Interval /\ i.endAt <= Present
    <3>1. [startAt |-> start, endAt |-> e] \in Interval
      BY <2>2, <2>3 DEF Interval
    <3>2. i \in Interval /\ i.endAt <= e
      BY <1>2, <2>6, <3>1
    <3> QED
      BY <2>1, <2>3, <3>2 DEF Interval
  <2>7. \A i \in PageMissing(o, selector) : i \in Interval /\ i.endAt <= Present
    BY <2>4, <2>5, <2>6
  <2> QED
    BY <2>1, <2>7 DEF Bounded
<1> QED
  BY <1>3, <1>4 DEF Selectors

(* Without stored messages the newest page lacks everything up to the present. *)
LEMMA MissingAtFirst ==
  ASSUME NEW o \in Owners, Stores(o), stored[o] = {}, NEW selector \in PageSelector
  PROVE  Missing(o, selector) \subseteq {OpenPast(Present)}
<1>1. Missing(o, selector) = PageMissing(o, selector)
  BY DEF PageSelector, Missing
<1>2. PageEnd(o, selector) = {}
  BY PageRowsAre
<1> QED
  BY <1>1, <1>2 DEF PageMissing

(* A page TDLib may return from a message backwards holds messages of the owner,  *)
(* some if there are any, and none is left out between two of them.           *)
LEMMA PagesAre ==
  ASSUME NEW o \in Owners, NEW from \in Nat, NEW messages \in HistoryPages(o, from)
  PROVE  /\ messages \in SUBSET (DOMAIN History[o]) /\ messages \in SUBSET Nat
         /\ \A m \in DOMAIN History[o] :
              from = Latest \/ m <= from =>
                /\ messages # {}
                /\ m \in messages \/ \A k \in messages : m < k
<1> DEFINE older == {m \in DOMAIN History[o] : from = Latest \/ m <= from}
<1>1. PICK n \in 1..PageSize : messages = Newest(older, n)
  BY DEF HistoryPages
<1>2. n \in Nat \ {0} /\ older \in SUBSET (DOMAIN History[o])
  BY HistoryAssumption
<1>3. DOMAIN History[o] \in SUBSET Nat
  BY HistoryIs
<1>4. /\ messages \subseteq older
      /\ older # {} => messages # {}
      /\ \A m \in messages : \A k \in older : k > m => k \in messages
  BY <1>1, <1>2, NewestIs
<1>5. ASSUME NEW m \in older PROVE m \in messages \/ \A k \in messages : m < k
  <2>1. \A k \in messages : k \in Nat /\ m \in Nat /\ (m > k => m \in messages)
    BY <1>3, <1>4
  <2>2. \A k \in messages : m # k => m < k \/ m \in messages
    BY <2>1
  <2> QED
    BY <2>2
<1>6. messages \in SUBSET (DOMAIN History[o]) /\ messages \in SUBSET Nat
  BY <1>2, <1>3, <1>4
<1>7. ASSUME NEW m \in DOMAIN History[o], from = Latest \/ m <= from PROVE m \in older
  BY <1>7
<1> HIDE DEF older
<1> QED
  BY <1>4, <1>5, <1>6, <1>7

(* The message the anchor of an interval is, no message of the interval is newer. *)
LEMMA AnchorIs ==
  ASSUME NEW o \in Owners, NEW interval \in Interval
  PROVE  /\ DateAnchor(o, interval) \in SUBSET (DOMAIN History[o])
         /\ \A m \in DOMAIN History[o] :
              History[o][m] < interval.endAt =>
                DateAnchor(o, interval) # {} /\ \A a \in DateAnchor(o, interval) : m <= a
<1> DEFINE S == MessagesIn(o, 0..(interval.endAt - 1))
<1>1. S \in SUBSET (DOMAIN History[o]) /\ DateAnchor(o, interval) = Newest(S, 1)
  BY DEF MessagesIn, DateAnchor
<1>2. ASSUME NEW m \in DOMAIN History[o], History[o][m] < interval.endAt PROVE m \in S
  <2>1. History[o][m] \in Nat /\ interval.endAt \in Nat
    BY HistoryIs DEF Interval
  <2>2. History[o][m] \in 0..(interval.endAt - 1)
    BY <1>2, <2>1
  <2> QED
    BY <2>2 DEF MessagesIn
<1> HIDE DEF S
<1>3. 1 \in Nat \ {0}
  OBVIOUS
<1>4. Newest(S, 1) \subseteq S /\ (S # {} => Newest(S, 1) # {})
  BY <1>1, <1>3, NewestIs
<1>5. \A a \in Newest(S, 1) : \A k \in S : k <= a
  BY <1>1, NewestOne
<1> QED
  BY <1>1, <1>2, <1>4, <1>5

(* A cursor starts at a message or at the latest one, with one end at most, or  *)
(* is proof of an interval.                                                  *)
CursorHas(o, c) ==
  \/ c.known = {} /\ c.from \in Nat /\ c.end \in SUBSET Nat /\ \A d, e \in c.end : d = e
  \/ c.known \in SUBSET Interval /\ c.known # {} /\ \A i, j \in c.known : i = j

LEMMA CursorIs ==
  ASSUME NEW o \in Owners, Stores(o), NEW selector \in Selectors, NEW interval \in Interval
  PROVE  CursorHas(o, Cursor(o, selector, interval))
<1> DEFINE rows == IF selector.kind = "page" THEN PageRows(o, selector) ELSE {}
           anchor == DateAnchor(o, interval)
           at(m, end) == [from |-> m, end |-> end, known |-> {}]
           proved(i) == [from |-> Latest, end |-> {}, known |-> {i}]
<1>1. interval.startAt \in Nat /\ interval.endAt \in Nat /\ OpenPast(interval.endAt) \in Interval
  BY DEF Interval, OpenPast, PastBoundary
<1>2. selector.kind = "page" => selector \in PageSelector /\ selector.before \in Nat
  BY DEF Selectors, RangeSelector, PageSelector
<1>3. rows \in SUBSET Nat
  BY <1>2, PageRowsAre
<1>4. /\ DOMAIN History[o] \in SUBSET Nat /\ anchor \in SUBSET Nat
      /\ stored[o] \in SUBSET Nat /\ stored[o] \in SUBSET (DOMAIN History[o])
      /\ Latest \in Nat
  BY HistoryIs, AnchorIs DEF Stores, Latest
<1>5. rows # {} => Oldest(rows) \in Nat
  BY <1>3, OldestIs
<1>6. anchor # {} => Oldest(anchor) \in Nat
  BY <1>4, OldestIs
<1>7. stored[o] # {} => Oldest(stored[o]) \in Nat /\ After(o, Oldest(stored[o])) \in Nat
  <2>1. stored[o] # {} => Oldest(stored[o]) \in stored[o]
    BY <1>4, OldestIs
  <2> QED
    BY <1>4, <2>1, HistoryIs
<1>8. ASSUME NEW m \in Nat, NEW end \in SUBSET Nat, \A d, e \in end : d = e
      PROVE  CursorHas(o, at(m, end))
  BY <1>8 DEF CursorHas
<1>9. ASSUME NEW i \in Interval PROVE CursorHas(o, proved(i))
  BY DEF CursorHas
<1>10. \/ rows # {} /\ Cursor(o, selector, interval) = at(Oldest(rows), {interval.endAt})
       \/ selector.kind = "page" /\ Cursor(o, selector, interval) = at(selector.before, {})
       \/ Cursor(o, selector, interval) = at(Latest, {interval.endAt})
       \/ /\ stored[o] # {}
          /\ Cursor(o, selector, interval) =
               at(Oldest(stored[o]), {After(o, Oldest(stored[o]))})
       \/ Cursor(o, selector, interval) = proved(OpenPast(interval.endAt))
       \/ Cursor(o, selector, interval) = proved(interval)
       \/ anchor # {} /\ Cursor(o, selector, interval) = at(Oldest(anchor), {interval.endAt})
  BY DEF Cursor
<1> HIDE DEF at, proved, rows, anchor
<1>11. /\ {interval.endAt} \in SUBSET Nat /\ \A d, e \in {interval.endAt} : d = e
       /\ {} \in SUBSET Nat /\ \A d, e \in {} : d = e
       /\ stored[o] # {} =>
            /\ {After(o, Oldest(stored[o]))} \in SUBSET Nat
            /\ \A d, e \in {After(o, Oldest(stored[o]))} : d = e
  BY <1>1, <1>7
<1> QED
  BY <1>1, <1>2, <1>4, <1>5, <1>6, <1>7, <1>8, <1>9, <1>10, <1>11

-----------------------------------------------------------------------------
(* What a fetch proves *)

(* A range of an owner whose messages are found by date. *)
ReadByDate(o, selector) == o \in Anchored /\ selector \in RangeSelector

(* A range or the newest page, read from the present backwards. *)
ReadBack(o, selector, interval) ==
  /\ NoHole(o, stored[o])
  /\ \/ o \notin Anchored /\ selector \in RangeSelector
     \/ /\ selector \in PageSelector /\ selector.before = Latest
        /\ stored[o] = {} => interval = OpenPast(Present)

(* The messages before the cursor's end are reached from it, or are stored; in   *)
(* the interval it is proof of there are none.                               *)
CursorReaches(o, c) ==
  \/ /\ c.known = {} /\ c.end # {}
     /\ \A e \in c.end : \A m \in DOMAIN History[o] :
          History[o][m] < e => c.from = Latest \/ m <= c.from \/ m \in stored[o]
  \/ c.known # {} /\ \A i \in c.known : MessagesIn(o, Seconds(i)) = {}

(* What is newer than the message it starts at is stored. *)
CursorGoesBack(o, c) ==
  c.known = {} =>
    \A m \in DOMAIN History[o] : c.from # Latest /\ m > c.from => m \in stored[o]

LEMMA CursorProves ==
  ASSUME NEW o \in Owners, Stores(o), NEW selector \in Selectors, NEW interval \in Interval,
         ReadByDate(o, selector) \/ ReadBack(o, selector, interval)
  PROVE  /\ CursorReaches(o, Cursor(o, selector, interval))
         /\ ReadBack(o, selector, interval) =>
              CursorGoesBack(o, Cursor(o, selector, interval))
<1> DEFINE rows == IF selector.kind = "page" THEN PageRows(o, selector) ELSE {}
           anchor == DateAnchor(o, interval)
           at(m, end) == [from |-> m, end |-> end, known |-> {}]
           proved(i) == [from |-> Latest, end |-> {}, known |-> {i}]
           C == Cursor(o, selector, interval)
           Proves == CursorReaches(o, C) /\ (ReadBack(o, selector, interval) => CursorGoesBack(o, C))
<1> SUFFICES Proves
  OBVIOUS
<1>1. interval.startAt \in Nat /\ interval.endAt \in Nat
  BY DEF Interval
<1>2. /\ selector \in RangeSelector <=> selector.kind = "range"
      /\ selector \in PageSelector <=> selector.kind = "page"
  BY DEF Selectors, RangeSelector, PageSelector
<1>3. selector \in PageSelector => rows \in SUBSET Nat /\ rows \in SUBSET stored[o]
  BY <1>2, PageRowsAre
<1>4. /\ DOMAIN History[o] \in SUBSET Nat /\ Latest \notin DOMAIN History[o]
      /\ anchor \in SUBSET Nat /\ anchor \in SUBSET (DOMAIN History[o])
      /\ stored[o] \in SUBSET Nat /\ stored[o] \in SUBSET (DOMAIN History[o])
      /\ \A m \in DOMAIN History[o] : History[o][m] \in Nat /\ History[o][m] < Present
      /\ \A m, n \in DOMAIN History[o] : m <= n => History[o][m] <= History[o][n]
  BY HistoryIs, AnchorIs DEF Stores
<1>5. ASSUME NEW from \in stored[o], NEW end, end # {}, C = at(from, end),
             ReadBack(o, selector, interval)
      PROVE  Proves
  <2>1. C.known = {} /\ C.from = from /\ C.end = end
    BY <1>5
  <2>2. \A m \in DOMAIN History[o] : m > from => m \in stored[o]
    BY <1>5 DEF ReadBack, NoHole
  <2>3. \A m \in DOMAIN History[o] : m <= from \/ m \in stored[o]
    BY <1>4, <2>2
  <2> HIDE DEF C, at
  <2> QED
    BY <1>5, <2>1, <2>2, <2>3 DEF CursorReaches, CursorGoesBack
<1>6. ASSUME NEW end, end # {}, C = at(Latest, end)
      PROVE  Proves
  <2>1. C.known = {} /\ C.from = Latest /\ C.end = end
    BY <1>6
  <2> HIDE DEF C, at
  <2> QED
    BY <1>6, <2>1 DEF CursorReaches, CursorGoesBack
<1>7. ASSUME NEW i, MessagesIn(o, Seconds(i)) = {}, C = proved(i)
      PROVE  Proves
  <2>1. C.known = {i}
    BY <1>7
  <2> HIDE DEF C, proved
  <2> QED
    BY <1>7, <2>1 DEF CursorReaches, CursorGoesBack
<1>8. CASE rows # {}
  <2>1. selector \in PageSelector /\ ReadBack(o, selector, interval)
    BY <1>2, <1>8 DEF ReadByDate
  <2>2. Oldest(rows) \in stored[o]
    BY <1>3, <1>8, <2>1, OldestIs
  <2>3. C = at(Oldest(rows), {interval.endAt})
    BY <1>8 DEF Cursor
  <2> HIDE DEF C, at, rows
  <2> QED
    BY <1>5, <2>1, <2>2, <2>3
<1>9. CASE rows = {} /\ o \notin Anchored
  <2>1. ReadBack(o, selector, interval)
    BY <1>9 DEF ReadByDate
  <2>2. selector.kind = "page" => selector.before = Latest
    BY <1>2, <2>1 DEF ReadBack
  <2>3. C = IF stored[o] = {} THEN at(Latest, {interval.endAt})
            ELSE at(Oldest(stored[o]), {After(o, Oldest(stored[o]))})
    BY <1>9, <2>2 DEF Cursor
  <2>4. stored[o] # {} => Oldest(stored[o]) \in stored[o]
    BY <1>4, OldestIs
  <2> HIDE DEF C, at
  <2> QED
    BY <1>5, <1>6, <2>1, <2>3, <2>4
<1>10. CASE rows = {} /\ o \in Anchored
  <2>1. selector.kind = "page" => selector.before = Latest
    BY <1>2 DEF ReadByDate, ReadBack
  <2>2. C = IF anchor = {} THEN proved(OpenPast(interval.endAt))
            ELSE IF /\ selector.kind = "range"
                    /\ \A m \in anchor : History[o][m] < interval.startAt
            THEN proved(interval)
            ELSE at(Oldest(anchor), {interval.endAt})
    BY <1>10, <2>1 DEF Cursor
  <2>3. \A m \in DOMAIN History[o] :
          History[o][m] < interval.endAt => anchor # {} /\ \A a \in anchor : m <= a
    BY AnchorIs
  <2>4. CASE anchor = {}
    <3>1. MessagesIn(o, Seconds(OpenPast(interval.endAt))) = {}
      <4>1. \A x \in Seconds(OpenPast(interval.endAt)) : x < interval.endAt
        BY <1>1 DEF Seconds, OpenPast, PastBoundary
      <4> QED
        BY <2>3, <2>4, <4>1 DEF MessagesIn
    <3> HIDE DEF C, proved
    <3> QED
      BY <1>7, <2>2, <2>4, <3>1
  <2>5. CASE /\ anchor # {} /\ selector.kind = "range"
             /\ \A m \in anchor : History[o][m] < interval.startAt
    <3>1. PICK a \in anchor : TRUE
      BY <2>5
    <3>2. a \in DOMAIN History[o] /\ History[o][a] < interval.startAt
      BY <1>4, <2>5, <3>1
    <3>3. ASSUME NEW m \in DOMAIN History[o], History[o][m] \in Seconds(interval) PROVE FALSE
      <4>1. History[o][m] < interval.endAt /\ interval.startAt <= History[o][m]
        BY <1>1, <3>3 DEF Seconds
      <4>2. m <= a
        BY <2>3, <3>1, <4>1
      <4>3. History[o][m] <= History[o][a]
        BY <1>4, <3>2, <4>2
      <4>4. History[o][m] \in Nat /\ History[o][a] \in Nat
        BY <1>4, <3>2
      <4> QED
        BY <1>1, <3>2, <4>1, <4>3, <4>4
    <3>4. MessagesIn(o, Seconds(interval)) = {}
      BY <3>3 DEF MessagesIn
    <3> HIDE DEF C, proved
    <3> QED
      BY <1>7, <2>2, <2>5, <3>4
  <2>6. CASE /\ anchor # {}
             /\ ~(selector.kind = "range" /\ \A m \in anchor : History[o][m] < interval.startAt)
    <3>1. C = at(Oldest(anchor), {interval.endAt})
      BY <2>2, <2>6
    <3>2. C.known = {} /\ C.from = Oldest(anchor) /\ C.end = {interval.endAt}
      BY <3>1
    <3>3. Oldest(anchor) \in anchor
      BY <1>4, <2>6, OldestIs
    <3> HIDE DEF C, at
    <3>4. CursorReaches(o, C)
      BY <2>3, <3>2, <3>3 DEF CursorReaches
    <3>5. ASSUME ReadBack(o, selector, interval) PROVE CursorGoesBack(o, C)
      <4>1. selector \in PageSelector /\ selector.before = Latest
        BY <1>10, <3>5 DEF ReadBack
      <4>2. stored[o] = {}
        BY <1>2, <1>10, <4>1, PageRowsAre
      <4>3. interval.endAt = Present
        BY <3>5, <4>1, <4>2 DEF ReadBack, RangeSelector, PageSelector, OpenPast
      <4>4. \A m \in DOMAIN History[o] : m <= Oldest(anchor)
        BY <1>4, <2>3, <3>3, <4>3
      <4>5. \A m \in DOMAIN History[o] : ~(m > Oldest(anchor))
        BY <1>4, <3>3, <4>4
      <4> QED
        BY <3>2, <4>5 DEF CursorGoesBack
    <3> QED
      BY <3>4, <3>5
  <2> QED
    BY <2>4, <2>5, <2>6
<1> QED
  BY <1>8, <1>9, <1>10

(* The interval a page proves: it ends before the cursor's end, and every message *)
(* in it that lies before the cursor is in the page.                          *)
LEMMA PageCoverageIs ==
  ASSUME NEW o \in Owners, NEW interval \in Interval, NEW c, c.known = {}, CursorHas(o, c),
         NEW messages \in HistoryPages(o, c.from)
  PROVE  /\ PageCoverage(o, c, interval, messages) \in SUBSET Interval
         /\ \A i, j \in PageCoverage(o, c, interval, messages) : i = j
         /\ c.end # {} =>
              \A i \in PageCoverage(o, c, interval, messages) :
                /\ i.endAt \in c.end
                /\ \A m \in DOMAIN History[o] :
                     /\ i.startAt <= History[o][m]
                     /\ c.from = Latest \/ m <= c.from
                     => m \in messages
<1> DEFINE ends == IF c.end # {} THEN c.end
                   ELSE {After(o, m) : m \in messages \cap {c.from}}
           crosses == \E m \in messages : History[o][m] < interval.startAt
           start == IF messages = {} THEN PastBoundary
                    ELSE IF crosses THEN interval.startAt
                    ELSE After(o, Oldest(messages))
           P == PageCoverage(o, c, interval, messages)
<1>1. c.from \in Nat /\ c.end \in SUBSET Nat /\ \A d, e \in c.end : d = e
  BY DEF CursorHas
<1>2. /\ messages \in SUBSET (DOMAIN History[o]) /\ messages \in SUBSET Nat
      /\ \A m \in DOMAIN History[o] :
           c.from = Latest \/ m <= c.from =>
             /\ messages # {}
             /\ m \in messages \/ \A k \in messages : m < k
  BY <1>1, PagesAre
<1>3. /\ DOMAIN History[o] \in SUBSET Nat
      /\ \A m \in DOMAIN History[o] :
           /\ History[o][m] \in Nat
           /\ After(o, m) = History[o][m] + 1 /\ After(o, m) \in Nat
      /\ \A m, n \in DOMAIN History[o] : m <= n => History[o][m] <= History[o][n]
  BY HistoryIs
<1>4. messages # {} => Oldest(messages) \in messages /\ Oldest(messages) \in DOMAIN History[o]
  BY <1>2, OldestIs
<1>5. P = {[startAt |-> start, endAt |-> e] : e \in {d \in ends : start < d}}
  BY DEF PageCoverage
<1>6. interval.startAt \in Nat /\ start \in Nat
  <2>1. interval.startAt \in Nat
    BY DEF Interval
  <2>2. messages # {} => After(o, Oldest(messages)) \in Nat
    BY <1>3, <1>4
  <2> QED
    BY <2>1, <2>2 DEF PastBoundary
<1>7. ends \in SUBSET Nat /\ \A d, e \in ends : d = e
  <2>1. CASE c.end # {}
    BY <1>1, <2>1
  <2>2. CASE c.end = {}
    BY <1>2, <1>3, <2>2
  <2> QED
    BY <2>1, <2>2
<1> DEFINE Start == start
           Ends == ends
<1> HIDE DEF P, Start, Ends
<1>8. P = {[startAt |-> Start, endAt |-> e] : e \in {d \in Ends : Start < d}}
  BY <1>5 DEF Start, Ends
<1>9. Start \in Nat /\ Ends \in SUBSET Nat /\ \A d, e \in Ends : d = e
  BY <1>6, <1>7 DEF Start, Ends
<1>10. \A i \in P : /\ i.startAt = Start /\ i.endAt \in Ends
                    /\ i = [startAt |-> Start, endAt |-> i.endAt]
  BY <1>8
<1>11. \A i \in P : i \in Interval
  BY <1>9, <1>10 DEF Interval
<1>12. \A i, j \in P : i = j
  BY <1>9, <1>10
<1>13. ASSUME NEW m \in DOMAIN History[o], Start <= History[o][m], c.from = Latest \/ m <= c.from,
              m \notin messages
       PROVE  FALSE
  <2>1. messages # {} /\ \A k \in messages : m < k
    BY <1>2, <1>13
  <2>2. \A k \in messages : m \in Nat /\ k \in Nat /\ m <= k
    BY <1>2, <1>3, <2>1
  <2>3. \A k \in messages :
          History[o][m] <= History[o][k] /\ History[o][k] \in Nat /\ History[o][m] \in Nat
    BY <1>2, <1>3, <2>2
  <2>4. CASE crosses
    <3>1. PICK k \in messages : History[o][k] < interval.startAt
      BY <2>4
    <3>2. Start = interval.startAt
      BY <2>1, <2>4 DEF Start
    <3> QED
      BY <1>6, <1>13, <2>3, <3>1, <3>2
  <2>5. CASE ~crosses
    <3>1. Start = After(o, Oldest(messages)) /\ Oldest(messages) \in messages
      BY <1>4, <2>1, <2>5 DEF Start
    <3>2. Start = History[o][Oldest(messages)] + 1
      BY <1>2, <1>3, <3>1
    <3> QED
      BY <1>13, <2>3, <3>1, <3>2
  <2> QED
    BY <2>4, <2>5
<1>14. c.end # {} => Ends = c.end
  BY DEF Ends
<1>15. P = PageCoverage(o, c, interval, messages)
  BY DEF P
<1>16. P \in SUBSET Interval
  BY <1>11
<1>17. ASSUME c.end # {}, NEW i \in P
       PROVE  /\ i.endAt \in c.end
              /\ \A m \in DOMAIN History[o] :
                   i.startAt <= History[o][m] /\ (c.from = Latest \/ m <= c.from) => m \in messages
  BY <1>10, <1>13, <1>14, <1>17
<1> QED
  BY <1>12, <1>15, <1>16, <1>17

(* What a fetch returns are messages of the owner and one interval at most. *)
LEMMA FetchIs ==
  ASSUME NEW o \in Owners, Stores(o), NEW selector \in Selectors, NEW interval \in Interval,
         NEW r \in FetchResults(o, selector, interval)
  PROVE  /\ r.messages \in SUBSET (DOMAIN History[o]) /\ r.messages \in SUBSET Nat
         /\ r.covered \in SUBSET Interval /\ \A i, j \in r.covered : i = j
<1> DEFINE c == Cursor(o, selector, interval)
<1>1. CursorHas(o, c)
  BY CursorIs
<1>2. CASE c.known # {}
  <2>1. r = [messages |-> {}, covered |-> c.known]
    BY <1>2 DEF FetchResults
  <2>2. c.known \in SUBSET Interval /\ \A i, j \in c.known : i = j
    BY <1>1, <1>2 DEF CursorHas
  <2> HIDE DEF c
  <2> QED
    BY <2>1, <2>2
<1>3. CASE c.known = {}
  <2>1. PICK messages \in HistoryPages(o, c.from) :
          r = [messages |-> messages, covered |-> PageCoverage(o, c, interval, messages)]
    BY <1>3 DEF FetchResults
  <2> HIDE DEF c
  <2>2. c.from \in Nat
    BY <1>1, <1>3 DEF CursorHas
  <2>3. messages \in SUBSET (DOMAIN History[o]) /\ messages \in SUBSET Nat
    BY <2>2, PagesAre
  <2>4. /\ PageCoverage(o, c, interval, messages) \in SUBSET Interval
        /\ \A i, j \in PageCoverage(o, c, interval, messages) : i = j
    BY <1>1, <1>3, PageCoverageIs
  <2> QED
    BY <2>1, <2>3, <2>4
<1> QED
  BY <1>2, <1>3

(* The messages of the interval a fetch proves are stored or in the page        *)
(* (coverageInterval); read backwards, the page leaves no hole.               *)
LEMMA FetchProves ==
  ASSUME NEW o \in Owners, Stores(o), NEW selector \in Selectors, NEW interval \in Interval,
         ReadByDate(o, selector) \/ ReadBack(o, selector, interval),
         NEW r \in FetchResults(o, selector, interval)
  PROVE  /\ MessagesIn(o, Covered(r.covered)) \subseteq stored[o] \cup r.messages
         /\ ReadBack(o, selector, interval) => NoHole(o, stored[o] \cup r.messages)
<1> DEFINE c == Cursor(o, selector, interval)
<1>1. /\ CursorHas(o, c) /\ CursorReaches(o, c)
      /\ ReadBack(o, selector, interval) => CursorGoesBack(o, c)
  BY CursorIs, CursorProves
<1>2. CASE c.known # {}
  <2>1. r = [messages |-> {}, covered |-> c.known]
    BY <1>2 DEF FetchResults
  <2>2. \A i \in c.known : MessagesIn(o, Seconds(i)) = {}
    BY <1>1, <1>2 DEF CursorReaches
  <2> HIDE DEF c
  <2>3. MessagesIn(o, Covered(c.known)) = {}
    BY <2>2 DEF MessagesIn, Covered
  <2>4. ReadBack(o, selector, interval) => NoHole(o, stored[o])
    BY DEF ReadBack
  <2>5. r.messages = {} /\ r.covered = c.known /\ stored[o] \cup {} = stored[o]
    BY <2>1
  <2> QED
    BY <2>3, <2>4, <2>5
<1>3. CASE c.known = {}
  <2>1. PICK messages \in HistoryPages(o, c.from) :
          r = [messages |-> messages, covered |-> PageCoverage(o, c, interval, messages)]
    BY <1>3 DEF FetchResults
  <2> HIDE DEF c
  <2> DEFINE P == PageCoverage(o, c, interval, messages)
  <2>2. c.from \in Nat
    BY <1>1, <1>3 DEF CursorHas
  <2>3. /\ messages \in SUBSET (DOMAIN History[o]) /\ messages \in SUBSET Nat
        /\ \A m \in DOMAIN History[o] :
             c.from = Latest \/ m <= c.from => m \in messages \/ \A k \in messages : m < k
    BY <2>2, PagesAre
  <2>4. /\ c.end # {}
        /\ \A e \in c.end : \A m \in DOMAIN History[o] :
             History[o][m] < e => c.from = Latest \/ m <= c.from \/ m \in stored[o]
    BY <1>1, <1>3 DEF CursorReaches
  <2>5. /\ P \in SUBSET Interval
        /\ \A i \in P :
             /\ i.endAt \in c.end
             /\ \A m \in DOMAIN History[o] :
                  i.startAt <= History[o][m] /\ (c.from = Latest \/ m <= c.from) => m \in messages
    BY <1>1, <1>3, <2>4, PageCoverageIs
  <2> HIDE DEF P
  <2>6. ASSUME NEW m \in MessagesIn(o, Covered(P)) PROVE m \in stored[o] \cup messages
    <3>1. m \in DOMAIN History[o] /\ History[o][m] \in Covered(P)
      BY DEF MessagesIn
    <3>2. PICK i \in P : i.startAt <= History[o][m] /\ History[o][m] < i.endAt
      BY <2>5, <3>1, CoveredIs
    <3> QED
      BY <2>4, <2>5, <3>1, <3>2
  <2>7. ASSUME ReadBack(o, selector, interval),
               NEW m \in stored[o] \cup messages, NEW k \in DOMAIN History[o], k > m
        PROVE  k \in stored[o] \cup messages
    <3>1. CASE m \in stored[o]
      BY <2>7, <3>1 DEF ReadBack, NoHole
    <3>2. CASE m \in messages /\ (c.from = Latest \/ k <= c.from)
      <4>1. k \in Nat /\ m \in Nat /\ ~(k < m)
        BY <2>3, <2>7, <3>2, HistoryIs
      <4> QED
        BY <2>3, <3>2, <4>1
    <3>3. CASE ~(c.from = Latest \/ k <= c.from)
      <4>1. k > c.from
        BY <2>2, <3>3, HistoryIs
      <4> QED
        BY <1>1, <1>3, <2>7, <3>3, <4>1 DEF CursorGoesBack
    <3> QED
      BY <3>1, <3>2, <3>3
  <2>8. r.messages = messages /\ r.covered = P
    BY <2>1 DEF P
  <2>9. ReadBack(o, selector, interval) => NoHole(o, stored[o] \cup messages)
    BY <2>7 DEF NoHole
  <2> QED
    BY <2>6, <2>8, <2>9
<1> QED
  BY <1>2, <1>3

-----------------------------------------------------------------------------
(* Requests, rows and calls *)

LEMMA RequestsAre ==
  ASSUME NEW r \in Requests
  PROVE  /\ r.owner \in Owners /\ r.selector \in Selectors
         /\ r.selector.kind \in {"range", "page"}
         /\ Fits(r, r.selector) /\ r # NoRequest
BY RequestsAssumption DEF Request, Selectors, Fits, RangeSelector, PageSelector

LEMMA TablesAre ==
  ASSUME TypeOK, NEW o \in Owners
  PROVE  Stores(o)
BY DEF TypeOK, Stores

(* The calls at each step, and the row of a call that merges. *)
LEMMA CallsAre ==
  ASSUME call \in [Callers -> Call], NEW c \in Callers
  PROVE  /\ call[c].pc \in {"looking", "overlapping", "inserting", "requeueing"} =>
              call[c].request \in Requests
         /\ call[c].pc = "merging" =>
              /\ call[c].request \in Requests /\ call[c].target \in Requests
              /\ call[c].selector \in RangeSelector
<1>1. call[c] \in Call
  OBVIOUS
<1> QED
  BY <1>1 DEF Call, Idle

(* Rows of the table of jobs, each for its request. *)
RowsOK(rows) ==
  /\ rows \in [Requests -> Job \cup {NoJob}]
  /\ \A r \in Requests : rows[r] # NoJob => Fits(r, rows[r].selector)

LEMMA RowIsWritten ==
  ASSUME RowsOK(jobs), NEW r \in Requests, NEW row \in Job \cup {NoJob},
         row # NoJob => Fits(r, row.selector),
         jobs' = [jobs EXCEPT ![r] = row]
  PROVE  /\ RowsOK(jobs') /\ jobs'[r] = row
         /\ \A q \in Requests : q # r => jobs'[q] = jobs[q]
<1>1. jobs \in [Requests -> Job \cup {NoJob}]
  BY DEF RowsOK
<1>2. /\ jobs' \in [Requests -> Job \cup {NoJob}] /\ jobs'[r] = row
      /\ \A q \in Requests : q # r => jobs'[q] = jobs[q]
  BY <1>1
<1>3. \A q \in Requests : jobs'[q] # NoJob => Fits(q, jobs'[q].selector)
  BY <1>2 DEF RowsOK
<1> QED
  BY <1>2, <1>3 DEF RowsOK

LEMMA QueuedFits ==
  ASSUME NEW r \in Requests, NEW selector \in Selectors, Fits(r, selector)
  PROVE  Queued(selector) \in Job /\ Queued(selector) # NoJob /\ Fits(r, Queued(selector).selector)
<1>1. Queued(selector) \in Job
  BY DEF Queued, Job, Selectors, ActiveStatuses
<1>2. Queued(selector).selector = selector
  BY DEF Queued
<1> QED
  BY <1>1, <1>2, RowsAssumption

(* The rows after a step, and the only step that deletes one. *)
RowsKept ==
  /\ RowsOK(jobs')
  /\ \A r \in Requests :
       jobs[r] # NoJob => jobs'[r] # NoJob \/ (Complete /\ r = work.id)

LEMMA RowKept ==
  ASSUME TypeOK, AllFit, NEW r \in Requests, NEW row \in Job, row # NoJob, Fits(r, row.selector),
         jobs' = [jobs EXCEPT ![r] = row]
  PROVE  RowsKept
<1>1. RowsOK(jobs)
  BY DEF TypeOK, AllFit, RowsOK
<1>2. row \in Job \cup {NoJob}
  OBVIOUS
<1>3. /\ RowsOK(jobs') /\ jobs'[r] = row
      /\ \A q \in Requests : q # r => jobs'[q] = jobs[q]
  BY <1>1, <1>2, RowIsWritten
<1> QED
  BY <1>3 DEF RowsKept

LEMMA RowsAlone ==
  ASSUME TypeOK, AllFit, jobs' = jobs
  PROVE  RowsKept
BY DEF TypeOK, AllFit, RowsOK, RowsKept

(* The job in hand has a row. *)
LEMMA RowInHand ==
  ASSUME TypeOK, InHand, pc \in AtWork \cup {"claiming"}
  PROVE  work.id \in Requests /\ jobs[work.id] \in Job /\ jobs[work.id] # NoJob
BY DEF TypeOK, InHand

LEMMA RunnerKeepsRows ==
  ASSUME TypeOK, InHand, AllFit, Tick \/ Failing
  PROVE  RowsKept
<1> USE DEF tables, bounds, Goto, FinishTick
<1>0. ASSUME pc \in AtWork \cup {"claiming"},
             NEW status \in ActiveStatuses \cup {"failed"}, NEW attempts \in Nat,
             NEW due \in BOOLEAN,
             jobs' = [jobs EXCEPT ![work.id] =
                        [jobs[work.id] EXCEPT !.status = status, !.attempts = attempts, !.due = due]]
      PROVE  RowsKept
  <2> DEFINE row == [jobs[work.id] EXCEPT !.status = status, !.attempts = attempts, !.due = due]
  <2>1. work.id \in Requests /\ jobs[work.id] \in Job /\ jobs[work.id] # NoJob
    BY <1>0, RowInHand
  <2>2. Fits(work.id, jobs[work.id].selector)
    BY <2>1 DEF AllFit
  <2>3. row \in Job
    BY <1>0, <2>1 DEF Job
  <2>4. row.selector = jobs[work.id].selector
    BY <2>1 DEF Job
  <2>5. jobs' = [jobs EXCEPT ![work.id] = row]
    BY <1>0
  <2> HIDE DEF row
  <2>6. row # NoJob
    BY <2>3, RowsAssumption
  <2> QED
    BY <2>1, <2>2, <2>3, <2>4, <2>5, <2>6, RowKept
<1>1. CASE ClaimCandidate
  <2>1. work.id \in Requests /\ jobs[work.id] \in Job /\ pc = "claiming"
    BY <1>1, RowInHand DEF ClaimCandidate
  <2>2. /\ jobs[work.id].attempts \in Nat /\ "running" \in ActiveStatuses \cup {"failed"}
        /\ jobs[work.id] = [jobs[work.id] EXCEPT !.attempts = jobs[work.id].attempts]
    BY <2>1 DEF Job, ActiveStatuses
  <2>3. jobs' = [jobs EXCEPT ![work.id] =
                   [jobs[work.id] EXCEPT !.status = "running", !.due = FALSE]]
    BY <1>1, <2>1 DEF ClaimCandidate, TypeOK
  <2>4. [jobs[work.id] EXCEPT !.status = "running", !.due = FALSE] =
          [jobs[work.id] EXCEPT !.status = "running", !.attempts = jobs[work.id].attempts,
                                !.due = FALSE]
    BY <2>1 DEF Job
  <2>5. jobs' = [jobs EXCEPT ![work.id] =
                   [jobs[work.id] EXCEPT !.status = "running", !.attempts = jobs[work.id].attempts,
                                         !.due = FALSE]]
    BY <2>3, <2>4
  <2> QED
    BY <1>0, <2>1, <2>2, <2>5
<1>2. CASE Complete
  <2>1. work.id \in Requests /\ RowsOK(jobs)
    BY <1>2, RowInHand DEF Complete, AtWork, TypeOK, AllFit, RowsOK
  <2>2. jobs' = [jobs EXCEPT ![work.id] = NoJob]
    BY <1>2 DEF Complete, Settle
  <2>3. RowsOK(jobs') /\ \A q \in Requests : q # work.id => jobs'[q] = jobs[q]
    BY <2>1, <2>2, RowIsWritten
  <2> QED
    BY <1>2, <2>3 DEF RowsKept
<1>4. pc \in AtWork =>
        /\ jobs[work.id].attempts \in Nat /\ jobs[work.id].attempts + 1 \in Nat
        /\ jobs[work.id].due \in BOOLEAN
        /\ jobs[work.id].status \in ActiveStatuses \cup {"failed"}
        /\ jobs[work.id] \in Job
  BY RowInHand DEF Job
<1>5. CASE pc \in {"releasing", "reviving"} /\ Settle(Released)
  <2>1. pc \in AtWork /\ "queued" \in ActiveStatuses \cup {"failed"}
    BY <1>5 DEF AtWork, JobSteps, ActiveStatuses
  <2>2. jobs' = [jobs EXCEPT ![work.id] =
                   [jobs[work.id] EXCEPT !.status = "queued", !.attempts = 0, !.due = TRUE]]
    BY <1>5 DEF Settle, Released
  <2> QED
    BY <1>0, <2>1, <2>2
<1>6. CASE pc = "reviving" /\ Settle(jobs[work.id])
  <2>1. pc \in AtWork
    BY <1>6 DEF AtWork
  <2>2. jobs' = jobs
    BY <1>6, <2>1, RowInHand DEF Settle, TypeOK
  <2> QED
    BY <2>2, RowsAlone
<1>7. CASE Defer
  <2>1. pc \in AtWork /\ "deferred" \in ActiveStatuses \cup {"failed"}
    BY <1>7 DEF Defer, AtWork, ActiveStatuses
  <2>2. jobs' = [jobs EXCEPT ![work.id] =
                   [jobs[work.id] EXCEPT !.status = "deferred",
                                         !.attempts = jobs[work.id].attempts + 1, !.due = FALSE]]
    BY <1>7, <2>1, <1>4 DEF Defer, Deferred
  <2> QED
    BY <1>0, <1>4, <2>1, <2>2
<1>8. CASE Fail
  <2>1. pc \in AtWork /\ "failed" \in ActiveStatuses \cup {"failed"}
    BY <1>8 DEF Fail, AtWork
  <2>2. [jobs[work.id] EXCEPT !.status = "failed"] =
          [jobs[work.id] EXCEPT !.status = "failed", !.attempts = jobs[work.id].attempts,
                                !.due = jobs[work.id].due]
    BY <1>4, <2>1 DEF Job
  <2>3. jobs' = [jobs EXCEPT ![work.id] =
                   [jobs[work.id] EXCEPT !.status = "failed", !.attempts = jobs[work.id].attempts,
                                         !.due = jobs[work.id].due]]
    BY <1>8, <2>2 DEF Fail, Settle
  <2> QED
    BY <1>0, <1>4, <2>1, <2>3
<1>9. CASE (\E r \in Requests : SelectCandidate(r)) \/ SelectNothing
  BY <1>9, RowsAlone DEF SelectCandidate, SelectNothing
<1>10. CASE Check \/ Measure \/ Fetch \/ Persist \/ Cover \/ Recheck \/ Publish
  BY <1>10, RowsAlone DEF Check, Measure, Fetch, Persist, Cover, Recheck, Publish
<1>11. CASE ReadStats \/ ScheduleNextActiveJob
  BY <1>11, RowsAlone DEF ReadStats, ScheduleNextActiveJob
<1>12. CASE Failing
  BY <1>12, RowsAlone DEF Failing, TickFails, StageFails, CompleteFails, Crash
<1>13. CASE Release
  BY <1>5, <1>13 DEF Release
<1>14. CASE Revive
  BY <1>5, <1>6, <1>14 DEF Revive
<1> QED
  BY <1>1, <1>2, <1>7, <1>8, <1>9, <1>10, <1>11, <1>12, <1>13, <1>14
  DEF Tick, Claiming, Processing

CallStep(c) == (\E r \in Requests : Ask(c, r)) \/ Enqueueing(c) \/ CallFails(c)

LEMMA CallsKeepRows ==
  ASSUME TypeOK, AllFit, NEW c \in Callers, CallStep(c)
  PROVE  RowsKept
<1>1. call \in [Callers -> Call]
  BY DEF TypeOK
<1>2. ASSUME NEW r \in Requests, NEW selector \in Selectors, Fits(r, selector),
             jobs' = [jobs EXCEPT ![r] = Queued(selector)]
      PROVE  RowsKept
  <2> DEFINE row == Queued(selector)
  <2>1. row \in Job /\ row # NoJob /\ Fits(r, row.selector)
    BY <1>2, QueuedFits
  <2>2. jobs' = [jobs EXCEPT ![r] = row]
    BY <1>2
  <2> HIDE DEF row
  <2> QED
    BY <2>1, <2>2, RowKept
<1>3. ASSUME NEW r \in Requests, NEW selector \in Selectors, Fits(r, selector),
             jobs' = [jobs EXCEPT ![r] = IF @ = NoJob THEN NoJob ELSE Queued(selector)]
      PROVE  RowsKept
  <2>1. CASE jobs[r] = NoJob
    <3>1. jobs' = jobs
      BY <1>3, <2>1 DEF TypeOK
    <3> QED
      BY <3>1, RowsAlone
  <2>2. CASE jobs[r] # NoJob
    <3>1. jobs' = [jobs EXCEPT ![r] = Queued(selector)]
      BY <1>3, <2>2
    <3> QED
      BY <1>2, <1>3, <3>1
  <2> QED
    BY <2>1, <2>2
<1>4. CASE Merge(c)
  <2>1. call[c].target \in Requests /\ call[c].selector \in RangeSelector
    BY <1>1, <1>4, CallsAre DEF Merge
  <2>2. call[c].selector \in Selectors /\ Fits(call[c].target, call[c].selector)
    BY <1>4, <2>1 DEF Merge, AllFit, Selectors
  <2> QED
    BY <1>3, <1>4, <2>1, <2>2 DEF Merge
<1>5. CASE Insert(c)
  <2>1. call[c].request \in Requests
    BY <1>1, <1>5, CallsAre DEF Insert
  <2>2. PICK r \in Requests : r = call[c].request
    BY <2>1
  <2>3. r.selector \in Selectors /\ Fits(r, r.selector)
    BY RequestsAre
  <2>4. jobs' = [jobs EXCEPT ![r] = Queued(r.selector)] \/ jobs' = jobs
    BY <1>5, <2>2 DEF Insert
  <2> QED
    BY <1>2, <2>3, <2>4, RowsAlone
<1>6. CASE Requeue(c)
  <2>1. call[c].request \in Requests
    BY <1>1, <1>6, CallsAre DEF Requeue
  <2>2. PICK r \in Requests : r = call[c].request
    BY <2>1
  <2>3. r.selector \in Selectors /\ Fits(r, r.selector)
    BY RequestsAre
  <2>4. jobs' = [jobs EXCEPT ![r] = IF @ = NoJob THEN NoJob ELSE Queued(r.selector)]
    BY <1>6, <2>2 DEF Requeue
  <2> QED
    BY <1>3, <2>3, <2>4
<1>7. CASE LookUp(c) \/ FindOverlap(c) \/ CallFails(c) \/ \E r \in Requests : Ask(c, r)
  BY <1>7, RowsAlone DEF LookUp, FindOverlap, CallFails, Ask
<1> QED
  BY <1>4, <1>5, <1>6, <1>7 DEF CallStep, Enqueueing

LEMMA StepKeepsRows ==
  ASSUME TypeOK, InHand, AllFit, Next
  PROVE  RowsKept
<1>1. CASE TimerFires \/ QueueChanged \/ Restart
  BY <1>1, RowsAlone DEF TimerFires, QueueChanged, Restart, tables
<1>2. ASSUME NEW r \in Requests, Ripen(r) PROVE RowsKept
  <2> DEFINE row == [jobs[r] EXCEPT !.due = TRUE]
  <2>1. jobs[r] \in Job /\ jobs[r] # NoJob /\ Fits(r, jobs[r].selector)
    BY <1>2 DEF Ripen, TypeOK, AllFit
  <2>2. row \in Job
    BY <2>1 DEF Job
  <2>3. row.selector = jobs[r].selector
    BY <2>1 DEF Job
  <2>4. jobs' = [jobs EXCEPT ![r] = row]
    BY <1>2 DEF Ripen, TypeOK
  <2> HIDE DEF row
  <2>5. row # NoJob
    BY <2>2, RowsAssumption
  <2> QED
    BY <2>1, <2>2, <2>3, <2>4, <2>5, RowKept
<1> QED
  BY <1>1, <1>2, RunnerKeepsRows, CallsKeepRows DEF Next, CallStep

(* The calls after a step. *)
CallsOK(calls) ==
  /\ calls \in [Callers -> Call]
  /\ \A c \in Callers : /\ calls[c].pc = "merging" => Fits(calls[c].target, calls[c].selector)
                        /\ calls[c].pc = "overlapping" => calls[c].request.selector.kind = "range"

LEMMA CallIsWritten ==
  ASSUME CallsOK(call), NEW c \in Callers, NEW new \in Call,
         new.pc = "merging" => Fits(new.target, new.selector),
         new.pc = "overlapping" => new.request.selector.kind = "range",
         call' = [call EXCEPT ![c] = new]
  PROVE  CallsOK(call')
<1>1. call \in [Callers -> Call]
  BY DEF CallsOK
<1>2. /\ call' \in [Callers -> Call] /\ call'[c] = new
      /\ \A d \in Callers : d # c => call'[d] = call[d]
  BY <1>1
<1> QED
  BY <1>2 DEF CallsOK

LEMMA StepKeepsCalls ==
  ASSUME TypeOK, AllFit, Next
  PROVE  CallsOK(call')
<1> USE DEF tables, bounds, Goto, FinishTick
<1>1. CallsOK(call)
  BY DEF TypeOK, AllFit, CallsOK
<1>2. CASE UNCHANGED call
  BY <1>1, <1>2
<1>3. ASSUME NEW c \in Callers, call' = [call EXCEPT ![c] = Idle]
      PROVE  CallsOK(call')
  <2>1. Idle \in Call /\ Idle.pc = "idle"
    BY DEF Call, Idle
  <2> QED
    BY <1>1, <1>3, <2>1, CallIsWritten
<1>4. ASSUME NEW c \in Callers, NEW r \in Requests,
             NEW step \in {"looking", "overlapping", "inserting", "requeueing"},
             step = "overlapping" => r.selector.kind = "range",
             call' = [call EXCEPT ![c] = [pc |-> step, request |-> r]]
      PROVE  CallsOK(call')
  <2> DEFINE new == [pc |-> step, request |-> r]
  <2>1. new \in Call /\ new.pc # "merging" /\ new.pc = step /\ new.request = r
    BY <1>4 DEF Call
  <2>2. call' = [call EXCEPT ![c] = new]
    BY <1>4
  <2> HIDE DEF new
  <2> QED
    BY <1>1, <1>4, <2>1, <2>2, CallIsWritten
<1>5. CASE TimerFires \/ QueueChanged \/ Restart \/ \E r \in Requests : Ripen(r)
  BY <1>2, <1>5 DEF TimerFires, QueueChanged, Restart, Ripen
<1>6. CASE Tick
  <2>1. CASE Claiming
    BY <1>2, <2>1 DEF Claiming, SelectCandidate, SelectNothing, ClaimCandidate
  <2>2. CASE Check \/ Measure \/ Fetch \/ Persist \/ Cover \/ Recheck \/ Publish
    BY <1>2, <2>2 DEF Check, Measure, Fetch, Persist, Cover, Recheck, Publish
  <2>3. CASE Complete \/ Release \/ Revive \/ Defer \/ Fail
    BY <1>2, <2>3 DEF Complete, Release, Revive, Defer, Fail
  <2>4. CASE ReadStats \/ ScheduleNextActiveJob
    BY <1>2, <2>4 DEF ReadStats, ScheduleNextActiveJob
  <2> QED
    BY <1>6, <2>1, <2>2, <2>3, <2>4 DEF Tick, Processing
<1>7. CASE TickFails \/ (\E transient \in BOOLEAN : StageFails(transient)) \/ CompleteFails
  BY <1>2, <1>7 DEF TickFails, StageFails, CompleteFails
<1>8. CASE Crash
  <2>1. call' = [c \in Callers |-> Idle]
    BY <1>8 DEF Crash
  <2>2. Idle \in Call /\ Idle.pc = "idle"
    BY DEF Call, Idle
  <2> QED
    BY <2>1, <2>2 DEF CallsOK
<1>9. ASSUME NEW c \in Callers, NEW r \in Requests, Ask(c, r) PROVE CallsOK(call')
  <2>1. call' = [call EXCEPT ![c] = [pc |-> "looking", request |-> r]]
    BY <1>9 DEF Ask
  <2> QED
    BY <1>4, <2>1
<1>10. ASSUME NEW c \in Callers, CallFails(c) PROVE CallsOK(call')
  BY <1>3, <1>10 DEF CallFails
<1>11. ASSUME NEW c \in Callers, NEW r \in Requests, call[c].request = r,
              NEW step \in {"looking", "overlapping", "inserting", "requeueing"},
              step = "overlapping" => r.selector.kind = "range",
              CallGoes(c, step)
       PROVE  CallsOK(call')
  <2>1. call' = [call EXCEPT ![c] = [pc |-> step, request |-> r]]
    BY <1>11 DEF CallGoes
  <2> QED
    BY <1>4, <1>11, <2>1
<1>12. ASSUME NEW c \in Callers, Accepted(c) PROVE CallsOK(call')
  BY <1>3, <1>12 DEF Accepted
<1>13. ASSUME NEW c \in Callers, Enqueueing(c) PROVE CallsOK(call')
  <2>1. \/ call[c].pc \in {"looking", "overlapping", "inserting", "requeueing"}
        \/ call[c].pc = "merging"
    BY <1>13 DEF Enqueueing, LookUp, FindOverlap, Merge, Insert, Requeue
  <2>2. PICK r \in Requests : r = call[c].request
    BY <1>1, <2>1, CallsAre DEF CallsOK
  <2>3. CASE LookUp(c)
    BY <1>11, <1>12, <2>2, <2>3 DEF LookUp
  <2>4. CASE FindOverlap(c)
    <3>1. CASE CallGoes(c, "inserting")
      BY <1>11, <2>2, <3>1
    <3>2. CASE ~CallGoes(c, "inserting")
      <4> DEFINE merged(t) ==
                   LET hull == Hull(RangeOf(jobs[t].selector), RangeOf(r.selector))
                   IN  [kind |-> "range", startAt |-> hull.startAt, endAt |-> hull.endAt]
      <4>1. PICK t \in Waiting(r.owner) :
              call' = [call EXCEPT ![c] = [pc |-> "merging", request |-> r, target |-> t,
                                           selector |-> merged(t)]]
        BY <2>2, <2>4, <3>2 DEF FindOverlap
      <4>2. /\ t \in Requests /\ jobs[t] \in Job /\ jobs[t].selector.kind = "range"
            /\ t.selector.kind = "range" /\ t.selector \in Selectors
            /\ jobs[t].selector.startAt <= t.selector.startAt
            /\ t.selector.endAt <= jobs[t].selector.endAt
        BY RequestsAre DEF Waiting, Active, TypeOK, AllFit, Fits
      <4>3. r.selector.kind = "range" /\ r.selector \in Selectors
        BY <2>2, <2>4, RequestsAre DEF FindOverlap, AllFit
      <4>4. /\ jobs[t].selector.startAt \in Nat /\ jobs[t].selector.endAt \in Nat
            /\ r.selector.startAt \in Nat /\ r.selector.endAt \in Nat
            /\ t.selector.startAt \in Nat /\ t.selector.endAt \in Nat
        BY <4>2, <4>3 DEF Job, Selectors, RangeSelector, PageSelector
      <4>5. /\ merged(t) \in RangeSelector /\ merged(t).kind = "range"
            /\ merged(t).startAt <= t.selector.startAt
            /\ t.selector.endAt <= merged(t).endAt
        BY <4>2, <4>4 DEF RangeSelector, Hull, RangeOf, Smaller, Larger
      <4> HIDE DEF merged
      <4> DEFINE new == [pc |-> "merging", request |-> r, target |-> t, selector |-> merged(t)]
      <4>6. new \in Call /\ new.pc = "merging" /\ Fits(new.target, new.selector)
        BY <4>2, <4>5 DEF Call, Fits
      <4>7. call' = [call EXCEPT ![c] = new]
        BY <4>1
      <4> HIDE DEF new
      <4> QED
        BY <1>1, <4>6, <4>7, CallIsWritten
    <3> QED
      BY <3>1, <3>2
  <2>5. CASE Merge(c) \/ Insert(c) \/ Requeue(c)
    BY <1>11, <1>12, <2>2, <2>5 DEF Merge, Insert, Requeue
  <2> QED
    BY <1>13, <2>3, <2>4, <2>5 DEF Enqueueing
<1> QED
  BY <1>5, <1>6, <1>7, <1>8, <1>9, <1>10, <1>13 DEF Next, Failing

-----------------------------------------------------------------------------
(* The tables of messages and coverage *)

LEMMA OwnerIs ==
  ASSUME TypeOK, InHand, pc \in AtWork
  PROVE  /\ owner \in Owners /\ Stores(owner)
         /\ work.id \in Requests /\ work.selector \in Selectors
BY RequestsAre, TablesAre DEF InHand, owner

(* The steps that write them. *)
LEMMA TablesMove ==
  ASSUME Next
  PROVE  Persist \/ Cover \/ UNCHANGED <<coverage, stored>>
<1> USE DEF tables, bounds, Goto, FinishTick, runner
<1>1. CASE TimerFires \/ QueueChanged \/ Restart \/ \E r \in Requests : Ripen(r)
  BY <1>1 DEF TimerFires, QueueChanged, Restart, Ripen
<1>2. CASE Claiming
  BY <1>2 DEF Claiming, SelectCandidate, SelectNothing, ClaimCandidate
<1>3. CASE Check \/ Measure \/ Fetch \/ Recheck \/ Publish
  BY <1>3 DEF Check, Measure, Fetch, Recheck, Publish
<1>4. CASE Complete \/ Release \/ Revive \/ Defer \/ Fail
  BY <1>4 DEF Complete, Release, Revive, Defer, Fail, Settle
<1>5. CASE ReadStats \/ ScheduleNextActiveJob
  BY <1>5 DEF ReadStats, ScheduleNextActiveJob
<1>6. CASE Failing
  BY <1>6 DEF Failing, TickFails, StageFails, CompleteFails, Crash
<1>7. ASSUME NEW c \in Callers, CallStep(c) PROVE UNCHANGED <<coverage, stored>>
  BY <1>7 DEF CallStep, Enqueueing, LookUp, FindOverlap, Merge, Insert, Requeue, CallFails, Ask
<1> QED
  BY <1>1, <1>2, <1>3, <1>4, <1>5, <1>6, <1>7 DEF Next, Tick, Processing, CallStep

(* The coverage a page adds to. *)
LEMMA CoverWrites ==
  ASSUME TypeOK, InHand, PageFits, AllBounded, Cover
  PROVE  /\ DOMAIN coverage' = Owners
         /\ coverage'[owner] \in SUBSET Interval /\ Bounded(coverage'[owner])
         /\ Covered(coverage'[owner]) = Covered(coverage[owner]) \cup Covered(page.covered)
         /\ \A o \in Owners : o # owner => coverage'[o] = coverage[o]
<1>1. pc = "covering" /\ pc \in AtWork
  BY DEF Cover, AtWork, JobSteps
<1>2. owner \in Owners /\ coverage[owner] \in SUBSET Interval /\ Bounded(coverage[owner])
  BY <1>1, OwnerIs DEF Stores, AllBounded
<1>3. DOMAIN coverage = Owners /\ page.covered \in SUBSET Interval
  BY DEF TypeOK
<1>4. coverage' = [coverage EXCEPT ![owner] =
                     IF page.covered = {} THEN coverage[owner]
                     ELSE UNION {WriteSegment(coverage[owner], segment) : segment \in page.covered}]
  BY DEF Cover
<1>5. /\ DOMAIN coverage' = Owners
      /\ \A o \in Owners : o # owner => coverage'[o] = coverage[o]
      /\ coverage'[owner] =
           IF page.covered = {} THEN coverage[owner]
           ELSE UNION {WriteSegment(coverage[owner], segment) : segment \in page.covered}
  BY <1>2, <1>3, <1>4
<1>6. CASE page.covered = {}
  <2>1. coverage'[owner] = coverage[owner] /\ Covered(page.covered) = {}
    BY <1>5, <1>6 DEF Covered
  <2> QED
    BY <1>2, <1>5, <2>1
<1>7. CASE page.covered # {}
  <2>1. PICK segment \in page.covered : TRUE
    BY <1>7
  <2>2. page.covered = {segment} /\ segment \in Interval
    BY <1>1, <1>3, <2>1 DEF PageFits
  <2>3. coverage'[owner] = WriteSegment(coverage[owner], segment)
    BY <1>5, <2>2
  <2>4. Covered(page.covered) = Seconds(segment)
    BY <2>2 DEF Covered
  <2>5. /\ WriteSegment(coverage[owner], segment) \in SUBSET Interval
        /\ Bounded(WriteSegment(coverage[owner], segment))
        /\ Covered(WriteSegment(coverage[owner], segment))
             = Covered(coverage[owner]) \cup Seconds(segment)
    BY <1>2, <2>2, WriteCovers
  <2> QED
    BY <1>5, <2>3, <2>4, <2>5
<1> QED
  BY <1>6, <1>7

LEMMA PersistStores ==
  ASSUME TypeOK, InHand, PageFits, Persist
  PROVE  /\ DOMAIN stored' = Owners /\ coverage' = coverage /\ page' = page
         /\ stored'[owner] = stored[owner] \cup page.messages
         /\ stored'[owner] \subseteq DOMAIN History[owner]
         /\ \A o \in Owners : o # owner => stored'[o] = stored[o]
<1>1. pc = "persisting" /\ pc \in AtWork
  BY DEF Persist, AtWork, JobSteps
<1>2. /\ owner \in Owners /\ stored[owner] \subseteq DOMAIN History[owner]
      /\ page.messages \subseteq DOMAIN History[owner]
  BY <1>1, OwnerIs DEF Stores, PageFits
<1>3. DOMAIN stored = Owners
  BY DEF TypeOK
<1>4. /\ stored' = [stored EXCEPT ![owner] = stored[owner] \cup page.messages]
      /\ coverage' = coverage /\ page' = page
  BY DEF Persist
<1>5. /\ DOMAIN stored' = Owners
      /\ stored'[owner] = stored[owner] \cup page.messages
      /\ \A o \in Owners : o # owner => stored'[o] = stored[o]
  BY <1>2, <1>3, <1>4
<1> QED
  BY <1>2, <1>4, <1>5

(* Coverage and messages are only added to. *)
LEMMA TablesGrow ==
  ASSUME HInv, Next
  PROVE  /\ DOMAIN coverage' = Owners /\ DOMAIN stored' = Owners
         /\ \A o \in Owners :
              /\ coverage'[o] \in SUBSET Interval /\ Bounded(coverage'[o])
              /\ stored'[o] \in SUBSET (DOMAIN History[o])
              /\ Covered(coverage[o]) \subseteq Covered(coverage'[o])
              /\ stored[o] \subseteq stored'[o]
<1>1. /\ TypeOK /\ InHand /\ PageFits /\ AllBounded
      /\ DOMAIN coverage = Owners /\ DOMAIN stored = Owners
      /\ \A o \in Owners : /\ coverage[o] \in SUBSET Interval /\ Bounded(coverage[o])
                           /\ stored[o] \in SUBSET (DOMAIN History[o])
  BY DEF HInv, TypeOK, AllBounded
<1>2. CASE Persist
  <2>1. /\ DOMAIN stored' = Owners /\ coverage' = coverage
        /\ stored'[owner] = stored[owner] \cup page.messages
        /\ stored'[owner] \subseteq DOMAIN History[owner]
        /\ \A o \in Owners : o # owner => stored'[o] = stored[o]
    BY <1>1, <1>2, PersistStores
  <2> QED
    BY <1>1, <2>1
<1>3. CASE Cover
  <2>1. /\ DOMAIN coverage' = Owners
        /\ coverage'[owner] \in SUBSET Interval /\ Bounded(coverage'[owner])
        /\ Covered(coverage'[owner]) = Covered(coverage[owner]) \cup Covered(page.covered)
        /\ \A o \in Owners : o # owner => coverage'[o] = coverage[o]
    BY <1>1, <1>3, CoverWrites
  <2>2. stored' = stored
    BY <1>3 DEF Cover
  <2> QED
    BY <1>1, <2>1, <2>2
<1>4. CASE UNCHANGED <<coverage, stored>>
  BY <1>1, <1>4
<1> QED
  BY <1>2, <1>3, <1>4, TablesMove

-----------------------------------------------------------------------------
(* The runner *)

Steps == {"idle", "completing", "reviving"} \cup TickSteps \cup JobSteps

LEMMA SoonerIs ==
  ASSUME NEW a, NEW b
  PROVE  Sooner(a, b) \in Delays
BY DEF Sooner, Delays

(* Timers, counters and the step the runner is at. *)
LEMMA StepKeepsClock ==
  ASSUME TypeOK, Next
  PROVE  /\ up' \in BOOLEAN /\ timer' \in Delays /\ wake' \in Delays /\ pc' \in Steps
         /\ asks' \in 0..MaxAsks /\ faults' \in 0..MaxFaults
<1> USE DEF tables, memory, bounds, Goto, runner, TickSteps, JobSteps, Steps
<1>1. /\ up \in BOOLEAN /\ timer \in Delays /\ wake \in Delays /\ pc \in Steps
      /\ asks \in 0..MaxAsks /\ faults \in 0..MaxFaults
      /\ MaxAsks \in Nat /\ MaxFaults \in Nat
  BY RequestsAssumption DEF TypeOK
<1>2. {"none", "soon", "later"} \subseteq Delays
  BY DEF Delays
<1>3. ASSUME NEW next, FinishTick(next)
      PROVE  timer' \in Delays /\ wake' \in Delays /\ pc' \in Steps
  BY <1>2, <1>3, SoonerIs DEF FinishTick
<1>4. ASSUME NEW delay, Schedule(delay)
      PROVE  timer' \in Delays /\ wake' \in Delays
  BY <1>1, <1>4, SoonerIs DEF Schedule
<1>5. Fault => asks' \in 0..MaxAsks /\ faults' \in 0..MaxFaults
  BY <1>1 DEF Fault
<1>6. CASE TimerFires \/ Restart \/ \E r \in Requests : Ripen(r)
  BY <1>1, <1>2, <1>6 DEF TimerFires, Restart, Ripen
<1>7. CASE QueueChanged
  <2>1. timer' \in Delays /\ wake' \in Delays
    BY <1>4, <1>7 DEF QueueChanged
  <2> QED
    BY <1>1, <1>7, <2>1 DEF QueueChanged
<1>8. CASE Claiming
  BY <1>1, <1>8 DEF Claiming, SelectCandidate, SelectNothing, ClaimCandidate
<1>9. CASE Check \/ Measure \/ Fetch \/ Persist \/ Cover
  BY <1>1, <1>9 DEF Check, Measure, Fetch, Persist, Cover
<1>10. CASE Recheck \/ Publish
  BY <1>1, <1>10 DEF Recheck, Publish
<1>11. CASE Complete \/ Release \/ Fail
  BY <1>1, <1>11 DEF Complete, Release, Fail, Settle
<1>12. CASE Defer
  <2>1. wake' \in Delays
    BY <1>12, SoonerIs DEF Defer
  <2> QED
    BY <1>1, <1>12, <2>1 DEF Defer
<1>13. CASE Revive
  <2>1. wake' \in Delays
    BY <1>13, SoonerIs DEF Revive
  <2>2. asks' \in 0..MaxAsks /\ faults' \in 0..MaxFaults
    BY <1>1, <1>13 DEF Revive
  <2> QED
    BY <1>1, <1>13, <2>1, <2>2 DEF Revive, Settle
<1>14. CASE ReadStats
  <2>1. CASE FinishTick(IF wake = "none" THEN "soon" ELSE "none")
    BY <1>1, <1>3, <1>14, <2>1 DEF ReadStats
  <2>2. CASE ~FinishTick(IF wake = "none" THEN "soon" ELSE "none")
    BY <1>1, <1>14, <2>2 DEF ReadStats
  <2> QED
    BY <2>1, <2>2
<1>15. CASE ScheduleNextActiveJob
  BY <1>1, <1>3, <1>15 DEF ScheduleNextActiveJob
<1>16. CASE TickFails \/ Crash
  BY <1>1, <1>2, <1>5, <1>16 DEF TickFails, Crash
<1>17. CASE (\E transient \in BOOLEAN : StageFails(transient)) \/ CompleteFails
  BY <1>1, <1>5, <1>17 DEF StageFails, CompleteFails
<1>18. ASSUME NEW c \in Callers, NEW r \in Requests, Ask(c, r)
       PROVE  /\ up' \in BOOLEAN /\ timer' \in Delays /\ wake' \in Delays /\ pc' \in Steps
              /\ asks' \in 0..MaxAsks /\ faults' \in 0..MaxFaults
  BY <1>1, <1>18 DEF Ask
<1>19. ASSUME NEW c \in Callers, CallFails(c)
       PROVE  /\ up' \in BOOLEAN /\ timer' \in Delays /\ wake' \in Delays /\ pc' \in Steps
              /\ asks' \in 0..MaxAsks /\ faults' \in 0..MaxFaults
  BY <1>1, <1>5, <1>19 DEF CallFails
<1>20. ASSUME NEW c \in Callers, Enqueueing(c)
       PROVE  /\ up' \in BOOLEAN /\ timer' \in Delays /\ wake' \in Delays /\ pc' \in Steps
              /\ asks' \in 0..MaxAsks /\ faults' \in 0..MaxFaults
  <2>1. UNCHANGED <<up, pc, asks, faults>>
    BY <1>20 DEF Enqueueing, LookUp, FindOverlap, Merge, Insert, Requeue
  <2>2. Accepted(c) \/ UNCHANGED <<timer, wake>>
    BY <1>20 DEF Enqueueing, LookUp, FindOverlap, Merge, Insert, Requeue, CallGoes
  <2>3. timer' \in Delays /\ wake' \in Delays
    BY <1>1, <1>4, <2>2 DEF Accepted
  <2> QED
    BY <1>1, <2>1, <2>3
<1> QED
  BY <1>6, <1>7, <1>8, <1>9, <1>10, <1>11, <1>12, <1>13, <1>14, <1>15, <1>16, <1>17,
     <1>18, <1>19, <1>20 DEF Next, Tick, Processing, Failing

(* What the runner has in hand. *)
RunnerOK ==
  /\ work \in Work /\ missing \subseteq Interval
  /\ page.messages \subseteq Nat /\ page.covered \subseteq Interval
  /\ InHand /\ PageFits /\ ReadyToEnd

LEMMA ReadyStays ==
  ASSUME UNCHANGED <<coverage, stored, work>>
  PROVE  /\ Ready(owner, work.selector)' = Ready(owner, work.selector)
         /\ Missing(owner, work.selector)' = Missing(owner, work.selector)
         /\ owner' = owner
<1>1. owner' = owner /\ work.selector' = work.selector
  BY DEF owner
<1>2. Missing(owner, work.selector)' = Missing(owner, work.selector)
  BY <1>1 DEF Missing, PageMissing, PageRows, PageEnd, Uncovered
<1> QED
  BY <1>1, <1>2 DEF Ready

(* Nothing is in hand between jobs. *)
LEMMA NothingInHand ==
  ASSUME pc' \notin AtWork \cup {"claiming"},
         work' \in Work, missing' \subseteq Interval,
         page'.messages \subseteq Nat, page'.covered \subseteq Interval
  PROVE  RunnerOK'
<1>1. pc' \notin AtWork /\ pc' # "claiming"
  OBVIOUS
<1>2. pc' \notin {"persisting", "covering", "publishing", "completing"}
  BY <1>1 DEF AtWork, JobSteps
<1>3. InHand'
  BY <1>1 DEF InHand
<1>4. PageFits'
  BY <1>2 DEF PageFits
<1>5. ReadyToEnd'
  BY <1>2 DEF ReadyToEnd
<1> QED
  BY <1>3, <1>4, <1>5 DEF RunnerOK

(* The job stays in hand from step to step. *)
LEMMA InHandStays ==
  ASSUME TypeOK, InHand, RowsKept, pc \in AtWork, ~Complete, work' = work, pc' # "claiming"
  PROVE  InHand'
<1>1. /\ work.id \in Requests /\ work.selector \in Selectors /\ work.attempts \in Nat
      /\ jobs[work.id] # NoJob /\ Fits(work.id, work.selector)
  BY DEF InHand
<1>2. jobs'[work.id] # NoJob
  BY <1>1 DEF RowsKept
<1> QED
  BY <1>1, <1>2 DEF InHand

(* Steps of others. *)
LEMMA RunnerStays ==
  ASSUME HInv, RowsKept, UNCHANGED <<coverage, stored, pc, work, missing, page>>
  PROVE  RunnerOK'
<1>1. TypeOK /\ InHand /\ PageFits /\ ReadyToEnd
  BY DEF HInv
<1>2. ~Complete
  BY DEF Complete, Settle
<1>3. InHand'
  <2>1. CASE pc \in AtWork
    <3>1. pc' # "claiming"
      BY <2>1 DEF AtWork, JobSteps
    <3> QED
      BY <1>1, <1>2, <2>1, <3>1, InHandStays
  <2>2. CASE pc = "claiming"
    <3>1. work.id \in Requests /\ jobs[work.id] # NoJob
      BY <1>1, <2>2 DEF InHand
    <3>2. jobs'[work.id] # NoJob
      BY <1>2, <3>1 DEF RowsKept
    <3> QED
      BY <2>2, <3>1, <3>2 DEF InHand, AtWork, JobSteps
  <2>3. CASE pc \notin AtWork \cup {"claiming"}
    BY <2>3 DEF InHand
  <2> QED
    BY <2>1, <2>2, <2>3
<1>4. PageFits'
  BY <1>1 DEF PageFits, owner
<1>5. ReadyToEnd'
  BY <1>1, ReadyStays DEF ReadyToEnd
<1> QED
  BY <1>1, <1>3, <1>4, <1>5 DEF RunnerOK, TypeOK

(* Steps of the runner, from the job in hand to the next step. *)
LEMMA RunnerSteps ==
  ASSUME HInv, RowsKept, Processing
  PROVE  RunnerOK'
<1> USE DEF Goto, bounds, tables
<1>1. /\ TypeOK /\ InHand /\ PageFits /\ AllBounded /\ ReadyToEnd
      /\ work \in Work /\ missing \subseteq Interval
      /\ page.messages \subseteq Nat /\ page.covered \subseteq Interval
  BY DEF HInv, TypeOK
<1>2. /\ NoPage.messages \subseteq Nat /\ NoPage.covered \subseteq Interval
      /\ NoPage.messages = {} /\ NoPage.covered = {}
  BY DEF NoPage
<1>3. ASSUME pc \in AtWork
      PROVE  /\ owner \in Owners /\ Stores(owner)
             /\ work.selector \in Selectors
             /\ Missing(owner, work.selector) \in SUBSET Interval
             /\ Bounded(Missing(owner, work.selector))
  <2>1. owner \in Owners /\ Stores(owner) /\ work.selector \in Selectors
    BY <1>1, <1>3, OwnerIs
  <2> QED
    BY <2>1, MissingIs
<1>4. CASE Complete \/ Release \/ Revive \/ Defer \/ Fail
  <2>1. pc' = "settling" /\ UNCHANGED <<work, missing, page>>
    BY <1>4 DEF Complete, Release, Revive, Defer, Fail, Settle
  <2>2. pc' \notin AtWork \cup {"claiming"}
    BY <2>1 DEF AtWork, JobSteps
  <2> QED
    BY <1>1, <2>1, <2>2, NothingInHand
<1>5. ASSUME pc \in JobSteps, pc' \in JobSteps \cup {"completing"}, work' = work
      PROVE  InHand'
  <2>1. pc \in AtWork /\ pc' # "claiming" /\ ~Complete
    BY <1>5 DEF AtWork, JobSteps, Complete
  <2> QED
    BY <1>1, <1>5, <2>1, InHandStays
<1>6. CASE Check \/ Measure
  <2> DEFINE found == Missing(owner, work.selector)
  <2>1. /\ pc \in {"checking", "measuring"}
        /\ UNCHANGED <<coverage, stored, work, page>>
        /\ \/ /\ found = {} /\ pc' \in {"publishing", "releasing"} /\ missing' = missing
           \/ /\ found # {} /\ pc' = "measuring" /\ missing' = missing
           \/ /\ found # {} /\ pc' = "fetching" /\ missing' = {ClosestToPresent(found)}
    BY <1>6 DEF Check, Measure
  <2>2. found \in SUBSET Interval /\ Bounded(found)
    BY <1>3, <2>1 DEF AtWork, JobSteps
  <2>3. pc' = "publishing" => Ready(owner, work.selector)
    BY <2>1 DEF Ready
  <2> HIDE DEF found
  <2>4. missing' \subseteq Interval
    BY <1>1, <2>1, <2>2, ClosestIs
  <2>5. InHand'
    BY <1>5, <2>1 DEF JobSteps
  <2>6. PageFits'
    BY <2>1 DEF PageFits
  <2>7. ReadyToEnd'
    BY <2>1, <2>3, ReadyStays DEF ReadyToEnd
  <2> QED
    BY <1>1, <2>1, <2>4, <2>5, <2>6, <2>7 DEF RunnerOK
<1>7. CASE Fetch
  <2>1. PICK interval \in missing : page' \in FetchResults(owner, work.selector, interval)
    BY <1>7 DEF Fetch
  <2>2. pc = "fetching" /\ pc' = "persisting" /\ missing' = {} /\ work' = work
    BY <1>7 DEF Fetch
  <2>3. pc \in AtWork /\ interval \in Interval
    BY <1>1, <2>1, <2>2 DEF AtWork, JobSteps
  <2>4. /\ page'.messages \in SUBSET (DOMAIN History[owner]) /\ page'.messages \in SUBSET Nat
        /\ page'.covered \in SUBSET Interval /\ \A i, j \in page'.covered : i = j
    BY <1>3, <2>1, <2>3, FetchIs
  <2>5. InHand'
    BY <1>5, <2>2 DEF JobSteps
  <2>6. PageFits'
    BY <2>2, <2>4 DEF PageFits, owner
  <2>7. ReadyToEnd'
    BY <2>2 DEF ReadyToEnd
  <2> QED
    BY <1>1, <2>2, <2>4, <2>5, <2>6, <2>7 DEF RunnerOK
<1>8. CASE Persist \/ Cover
  <2>1. /\ pc \in {"persisting", "covering"} /\ pc' \in {"covering", "rechecking"}
        /\ pc' = "covering" => pc = "persisting" /\ page' = page
        /\ missing' = missing /\ work' = work /\ page' \in {page, NoPage}
    BY <1>8 DEF Persist, Cover
  <2>2. InHand'
    BY <1>5, <2>1 DEF JobSteps
  <2>3. PageFits'
    BY <1>1, <2>1 DEF PageFits
  <2>4. ReadyToEnd'
    BY <2>1 DEF ReadyToEnd
  <2> QED
    BY <1>1, <1>2, <2>1, <2>2, <2>3, <2>4 DEF RunnerOK
<1>9. CASE Recheck \/ Publish
  <2>1. /\ pc \in {"rechecking", "publishing"} /\ pc' \in {"publishing", "releasing", "completing"}
        /\ pc' = "publishing" => Ready(owner, work.selector)
        /\ pc' = "completing" => pc = "publishing"
        /\ UNCHANGED <<coverage, stored, missing, work, page>>
    BY <1>9 DEF Recheck, Publish
  <2>2. InHand'
    BY <1>5, <2>1 DEF JobSteps
  <2>3. PageFits'
    BY <2>1 DEF PageFits
  <2>4. ReadyToEnd'
    BY <1>1, <2>1, ReadyStays DEF ReadyToEnd
  <2> QED
    BY <1>1, <2>1, <2>2, <2>3, <2>4 DEF RunnerOK
<1> QED
  BY <1>4, <1>6, <1>7, <1>8, <1>9 DEF Processing

(* Whatever happens, what is in hand is what the runner took. *)
LEMMA StepKeepsRunner ==
  ASSUME HInv, RowsKept, Next
  PROVE  RunnerOK'
<1> USE DEF tables, bounds, runner
<1>1. /\ TypeOK /\ InHand /\ PageFits /\ ReadyToEnd
      /\ work \in Work /\ missing \subseteq Interval
      /\ page.messages \subseteq Nat /\ page.covered \subseteq Interval
  BY DEF HInv, TypeOK
<1>2. /\ NoPage.messages \subseteq Nat /\ NoPage.covered \subseteq Interval
      /\ {} \subseteq Interval /\ NoWork \in Work
  BY DEF NoPage, Work
<1>3. CASE TimerFires \/ SelectNothing
  <2>1. pc' \in {"selecting", "settling"} /\ UNCHANGED <<work, missing, page>>
    BY <1>3 DEF TimerFires, SelectNothing
  <2> QED
    BY <1>1, <2>1, NothingInHand DEF AtWork, JobSteps
<1>4. CASE ReadStats \/ ScheduleNextActiveJob \/ TickFails \/ Crash
  <2>1. /\ pc' \in {"idle", "looking"}
        /\ \/ UNCHANGED <<work, missing, page>>
           \/ work' = NoWork /\ missing' = {} /\ page' = NoPage
    BY <1>4 DEF ReadStats, ScheduleNextActiveJob, TickFails, Crash, FinishTick
  <2>2. /\ work' \in Work /\ missing' \subseteq Interval
        /\ page'.messages \subseteq Nat /\ page'.covered \subseteq Interval
    BY <1>1, <1>2, <2>1
  <2> QED
    BY <2>1, <2>2, NothingInHand DEF AtWork, JobSteps
<1>5. CASE QueueChanged \/ Restart \/ \E r \in Requests : Ripen(r)
  <2>1. UNCHANGED <<coverage, stored, pc, work, missing, page>>
    BY <1>5 DEF QueueChanged, Restart, Ripen, memory
  <2> QED
    BY <2>1, RunnerStays
<1>6. ASSUME NEW c \in Callers, CallStep(c) PROVE RunnerOK'
  <2>1. UNCHANGED <<coverage, stored, pc, work, missing, page>>
    BY <1>6 DEF CallStep, Enqueueing, LookUp, FindOverlap, Merge, Insert, Requeue, CallFails, Ask
  <2> QED
    BY <2>1, RunnerStays
<1>7. ASSUME NEW r \in Requests, SelectCandidate(r) PROVE RunnerOK'
  <2>1. /\ jobs[r] # NoJob /\ jobs' = jobs /\ work' = [id |-> r] /\ pc' = "claiming"
        /\ UNCHANGED <<missing, page>>
    BY <1>7 DEF SelectCandidate, Due
  <2>2. work' \in Work /\ work'.id = r
    BY <2>1 DEF Work
  <2>3. InHand'
    BY <2>1, <2>2 DEF InHand, AtWork, JobSteps
  <2>4. PageFits' /\ ReadyToEnd'
    BY <2>1 DEF PageFits, ReadyToEnd
  <2> QED
    BY <1>1, <2>1, <2>2, <2>3, <2>4 DEF RunnerOK
<1>8. CASE ClaimCandidate
  <2>1. /\ pc = "claiming" /\ pc' = "checking" /\ UNCHANGED <<missing, page>>
        /\ work' = [id |-> work.id, selector |-> jobs[work.id].selector,
                    attempts |-> jobs[work.id].attempts]
    BY <1>8 DEF ClaimCandidate
  <2>2. work.id \in Requests /\ jobs[work.id] \in Job /\ jobs[work.id] # NoJob
    BY <1>1, <2>1, RowInHand
  <2>3. /\ jobs[work.id].selector \in Selectors /\ jobs[work.id].attempts \in Nat
        /\ Fits(work.id, jobs[work.id].selector)
    BY <2>2 DEF Job, Selectors, HInv, AllFit
  <2>4. jobs'[work.id] # NoJob
    BY <2>1, <2>2 DEF RowsKept, Complete
  <2>5. /\ work' \in Work /\ work'.id = work.id /\ work'.selector = jobs[work.id].selector
        /\ work'.attempts = jobs[work.id].attempts
    BY <2>1, <2>2, <2>3 DEF Work, Selectors
  <2>6. InHand'
    BY <2>1, <2>2, <2>3, <2>4, <2>5 DEF InHand
  <2>7. PageFits' /\ ReadyToEnd'
    BY <2>1 DEF PageFits, ReadyToEnd
  <2> QED
    BY <1>1, <2>1, <2>5, <2>6, <2>7 DEF RunnerOK
<1>9. CASE (\E transient \in BOOLEAN : StageFails(transient)) \/ CompleteFails
  <2>1. /\ pc \in JobSteps \cup {"completing"} /\ pc' \in {"deferring", "failing", "reviving"}
        /\ jobs' = jobs /\ UNCHANGED <<work, missing, page>>
    BY <1>9 DEF StageFails, CompleteFails
  <2>2. pc \in AtWork /\ pc' # "claiming"
    BY <2>1 DEF AtWork
  <2>3. ~Complete
    BY <2>1 DEF Complete, Settle
  <2>4. InHand'
    BY <1>1, <2>1, <2>2, <2>3, InHandStays
  <2>5. PageFits' /\ ReadyToEnd'
    BY <2>1 DEF PageFits, ReadyToEnd
  <2> QED
    BY <1>1, <2>1, <2>4, <2>5 DEF RunnerOK
<1> QED
  BY <1>3, <1>4, <1>5, <1>6, <1>7, <1>8, <1>9, RunnerSteps
  DEF Next, Tick, Claiming, Failing, CallStep

-----------------------------------------------------------------------------
(* Types, growth and the end of jobs *)

LEMMA HInvInductive == Spec => []HInv
<1>1. Init => HInv
  <2> SUFFICES ASSUME Init PROVE HInv
    OBVIOUS
  <2>1. TypeOK
    <3>1. /\ work \in Work /\ page.messages = {} /\ page.covered = {}
          /\ call \in [Callers -> Call] /\ jobs \in [Requests -> Job \cup {NoJob}]
      BY DEF Init, Work, NoPage, Call
    <3>2. /\ \A o \in Owners : /\ coverage[o] \subseteq Interval
                               /\ stored[o] \subseteq DOMAIN History[o]
          /\ DOMAIN coverage = Owners /\ DOMAIN stored = Owners
      BY DEF Init
    <3>3. asks \in 0..MaxAsks /\ faults \in 0..MaxFaults
      BY RequestsAssumption DEF Init
    <3> QED
      BY <3>1, <3>2, <3>3 DEF Init, TypeOK, Delays
  <2>2. InHand /\ PageFits /\ ReadyToEnd
    BY DEF Init, InHand, PageFits, ReadyToEnd, AtWork, JobSteps
  <2>3. AllFit
    BY DEF Init, AllFit, Idle
  <2>4. AllBounded
    <3>1. \A o \in Owners : coverage[o] = {}
      BY DEF Init
    <3>2. 0 \in Nat
      OBVIOUS
    <3> QED
      BY <3>1, <3>2 DEF AllBounded, Bounded
  <2> QED
    BY <2>1, <2>2, <2>3, <2>4 DEF HInv
<1>2. ASSUME HInv, Next PROVE HInv'
  <2>1. TypeOK /\ InHand /\ AllFit
    BY <1>2 DEF HInv
  <2>2. RowsKept
    BY <1>2, <2>1, StepKeepsRows
  <2>3. CallsOK(call')
    BY <1>2, <2>1, StepKeepsCalls
  <2>4. RunnerOK'
    BY <1>2, <2>2, StepKeepsRunner
  <2>5. /\ up' \in BOOLEAN /\ timer' \in Delays /\ wake' \in Delays /\ pc' \in Steps
        /\ asks' \in 0..MaxAsks /\ faults' \in 0..MaxFaults
    BY <1>2, <2>1, StepKeepsClock
  <2>6. /\ DOMAIN coverage' = Owners /\ DOMAIN stored' = Owners
        /\ \A o \in Owners :
             /\ coverage'[o] \in SUBSET Interval /\ Bounded(coverage'[o])
             /\ stored'[o] \in SUBSET (DOMAIN History[o])
    BY <1>2, TablesGrow
  <2>7. TypeOK'
    BY <2>2, <2>3, <2>4, <2>5, <2>6 DEF RowsKept, RowsOK, CallsOK, RunnerOK, Steps, TypeOK
  <2>8. AllFit'
    BY <2>2, <2>3 DEF RowsKept, RowsOK, CallsOK, AllFit
  <2>9. AllBounded'
    BY <2>6 DEF AllBounded
  <2> QED
    BY <2>4, <2>7, <2>8, <2>9 DEF HInv, RunnerOK
<1>3. ASSUME HInv, UNCHANGED vars PROVE HInv'
  <2>1. UNCHANGED <<jobs, coverage, stored, up, timer, wake, pc, work, missing, page, call,
                    asks, faults>>
    BY <1>3 DEF vars, tables, memory, bounds
  <2>2. ReadyToEnd'
    BY <1>3, <2>1, ReadyStays DEF HInv, ReadyToEnd
  <2>3. TypeOK' /\ InHand' /\ AllFit' /\ AllBounded'
    BY <1>3, <2>1 DEF HInv, TypeOK, InHand, AllFit, AllBounded
  <2>4. PageFits'
    BY <1>3, <2>1 DEF HInv, PageFits, owner
  <2> QED
    BY <2>2, <2>3, <2>4 DEF HInv
<1> QED
  BY <1>1, <1>2, <1>3, PTL DEF Spec

(* Rows, tables, calls and what the runner has in hand are of their types.      *)
THEOREM TypeCorrect == Spec => []TypeOK
<1>1. HInv => TypeOK
  BY DEF HInv
<1> QED
  BY <1>1, HInvInductive, PTL

(* Whatever pages TDLib returns, whatever fails and however often the process    *)
(* crashes, no step takes back coverage or stored messages: the rows a write    *)
(* replaces cover, merged, what they covered before (writeOwnerCoverage).      *)
THEOREM CoverageNeverShrinks == Spec => CoverageOnlyGrows
<1> DEFINE Grows == \A o \in Owners : /\ Covered(coverage[o]) \subseteq Covered(coverage'[o])
                                      /\ stored[o] \subseteq stored'[o]
<1>1. HInv /\ [Next]_vars => [Grows]_vars
  BY TablesGrow
<1>2. Spec => [][Grows]_vars
  BY <1>1, HInvInductive, PTL DEF Spec
<1> QED
  BY <1>2 DEF CoverageOnlyGrows

(* A job row disappears only when the selector it was claimed with is readable,  *)
(* although reading it, publishing and deleting are separate steps that calls    *)
(* of getMessages interleave with (processJob).                               *)
THEOREM CompletedJobsAreReady == Spec => CompletedMeansReady
<1> DEFINE IsReady == \A r \in Requests :
                        jobs[r] # NoJob /\ jobs'[r] = NoJob => Ready(r.owner, work.selector)
<1>1. ASSUME HInv, Next PROVE IsReady
  <2> SUFFICES ASSUME NEW r \in Requests, jobs[r] # NoJob, jobs'[r] = NoJob
               PROVE  Ready(r.owner, work.selector)
    OBVIOUS
  <2>1. RowsKept
    BY <1>1, StepKeepsRows DEF HInv
  <2>2. Complete /\ r = work.id
    BY <2>1 DEF RowsKept
  <2>3. Ready(owner, work.selector)
    BY <1>1, <2>2 DEF Complete, HInv, ReadyToEnd
  <2> QED
    BY <2>2, <2>3 DEF owner
<1>2. HInv /\ [Next]_vars => [IsReady]_vars
  BY <1>1
<1>3. Spec => [][IsReady]_vars
  BY <1>2, HInvInductive, PTL DEF Spec
<1> QED
  BY <1>3 DEF CompletedMeansReady

-----------------------------------------------------------------------------
(* Coverage proves *)

(* A step fetches, writes what was fetched, finds what to fetch next, or leaves   *)
(* the page and the tables as they are.                                      *)
LEMMA PageMoves ==
  ASSUME Next
  PROVE  \/ Fetch \/ Persist \/ Cover \/ Check \/ Measure
         \/ /\ UNCHANGED <<coverage, stored>>
            /\ \/ UNCHANGED <<pc, work, missing, page>>
               \/ pc' \notin {"fetching", "persisting", "covering"}
<1> DEFINE Elsewhere == /\ UNCHANGED <<coverage, stored>>
                        /\ \/ UNCHANGED <<pc, work, missing, page>>
                           \/ pc' \notin {"fetching", "persisting", "covering"}
<1> USE DEF tables, bounds, memory, Goto, FinishTick, runner
<1>1. CASE TimerFires \/ QueueChanged \/ Restart \/ \E r \in Requests : Ripen(r)
  BY <1>1 DEF TimerFires, QueueChanged, Restart, Ripen
<1>2. CASE Claiming
  BY <1>2 DEF Claiming, SelectCandidate, SelectNothing, ClaimCandidate
<1>3. CASE Recheck \/ Publish
  BY <1>3 DEF Recheck, Publish
<1>4. CASE Complete \/ Release \/ Revive \/ Defer \/ Fail
  BY <1>4 DEF Complete, Release, Revive, Defer, Fail, Settle
<1>5. CASE ReadStats \/ ScheduleNextActiveJob
  BY <1>5 DEF ReadStats, ScheduleNextActiveJob
<1>6. CASE Failing
  BY <1>6 DEF Failing, TickFails, StageFails, CompleteFails, Crash
<1>7. ASSUME NEW c \in Callers, CallStep(c) PROVE Elsewhere
  BY <1>7 DEF CallStep, Enqueueing, LookUp, FindOverlap, Merge, Insert, Requeue, CallFails, Ask
<1> QED
  BY <1>1, <1>2, <1>3, <1>4, <1>5, <1>6, <1>7 DEF Next, Tick, Processing, CallStep

(* A fetch of an owner that is read one way is one of the two that prove.        *)
LEMMA FetchIsOneWay ==
  ASSUME ReadOneWay, HInv, StoredInv, pc = "fetching", NEW interval \in missing
  PROVE  /\ ReadByDate(owner, work.selector) \/ ReadBack(owner, work.selector, interval)
         /\ ReadBackwards(owner) => ReadBack(owner, work.selector, interval)
<1>1. /\ pc \in AtWork /\ work.id \in Requests /\ owner \in Owners /\ owner = work.id.owner
      /\ work.selector \in Selectors /\ Fits(work.id, work.selector)
  BY OwnerIs DEF HInv, InHand, AtWork, JobSteps, owner
<1>2. /\ work.selector \in RangeSelector <=> work.selector.kind = "range"
      /\ work.selector \in PageSelector <=> work.selector.kind = "page"
  BY <1>1 DEF Selectors, RangeSelector, PageSelector
<1>3. ASSUME ReadByRanges(owner) PROVE ReadByDate(owner, work.selector)
  BY <1>1, <1>2, <1>3 DEF ReadByRanges, ReadByDate, Fits
<1>4. ASSUME ReadBackwards(owner) PROVE ReadBack(owner, work.selector, interval)
  <2>1. NoHole(owner, stored[owner])
    BY <1>1, <1>4 DEF StoredInv, Backwards
  <2>2. \/ work.id.selector.kind = "range" /\ owner \notin Anchored
        \/ work.id.selector.kind = "page" /\ work.id.selector.before = Latest
    BY <1>1, <1>4 DEF ReadBackwards
  <2>3. \/ owner \notin Anchored /\ work.selector \in RangeSelector
        \/ work.selector \in PageSelector /\ work.selector.before = Latest
    BY <1>1, <1>2, <2>2 DEF Fits
  <2>4. work.selector \in PageSelector /\ stored[owner] = {} => interval = OpenPast(Present)
    BY <1>2, <1>4 DEF StoredInv, Backwards
  <2> QED
    BY <2>1, <2>3, <2>4 DEF ReadBack
<1>5. ReadByRanges(owner) \/ ReadBackwards(owner)
  BY <1>1 DEF ReadOneWay
<1> QED
  BY <1>3, <1>4, <1>5

LEMMA StoredInvKept ==
  ASSUME ReadOneWay, HInv, StoredInv, Next
  PROVE  StoredInv'
<1> USE DEF Goto, tables
<1>1. /\ TypeOK /\ InHand /\ PageFits /\ AllBounded
      /\ CoveredMeansStored /\ PageProves /\ Backwards
      /\ \A o \in Owners : ReadBackwards(o) => NoHole(o, stored[o])
  BY DEF HInv, StoredInv, Backwards
<1>2. CASE Fetch
  <2>1. PICK interval \in missing : page' \in FetchResults(owner, work.selector, interval)
    BY <1>2 DEF Fetch
  <2>2. /\ pc = "fetching" /\ pc' = "persisting" /\ UNCHANGED <<coverage, stored, work>>
        /\ owner' = owner
    BY <1>2 DEF Fetch, owner
  <2>3. owner \in Owners /\ Stores(owner) /\ work.selector \in Selectors /\ interval \in Interval
    BY <1>1, <2>1, <2>2, OwnerIs DEF AtWork, JobSteps, TypeOK
  <2>4. /\ ReadByDate(owner, work.selector) \/ ReadBack(owner, work.selector, interval)
        /\ ReadBackwards(owner) => ReadBack(owner, work.selector, interval)
    BY <2>2, FetchIsOneWay
  <2>5. /\ MessagesIn(owner, Covered(page'.covered)) \subseteq stored[owner] \cup page'.messages
        /\ ReadBack(owner, work.selector, interval) =>
             NoHole(owner, stored[owner] \cup page'.messages)
    BY <2>1, <2>3, <2>4, FetchProves
  <2>6. CoveredMeansStored'
    BY <1>1, <2>2 DEF CoveredMeansStored
  <2>7. PageProves'
    BY <2>2, <2>5 DEF PageProves
  <2>8. Backwards'
    BY <1>1, <2>2, <2>4, <2>5 DEF Backwards
  <2> QED
    BY <2>6, <2>7, <2>8 DEF StoredInv
<1>3. CASE Persist
  <2>1. /\ coverage' = coverage /\ page' = page
        /\ stored'[owner] = stored[owner] \cup page.messages
        /\ \A o \in Owners : o # owner => stored'[o] = stored[o]
    BY <1>1, <1>3, PersistStores
  <2>2. pc = "persisting" /\ pc' = "covering" /\ work' = work /\ owner' = owner
    BY <1>3 DEF Persist, owner
  <2>3. \A o \in Owners : stored[o] \subseteq stored'[o]
    BY <2>1
  <2>4. CoveredMeansStored'
    BY <1>1, <2>1, <2>3 DEF CoveredMeansStored
  <2>5. PageProves'
    BY <1>1, <2>1, <2>2 DEF PageProves
  <2>6. ASSUME NEW o \in Owners, ReadBackwards(o) PROVE NoHole(o, stored'[o])
    <3>1. CASE o = owner
      BY <1>1, <2>1, <2>2, <2>6, <3>1 DEF Backwards
    <3>2. CASE o # owner
      BY <1>1, <2>1, <2>6, <3>2
    <3> QED
      BY <3>1, <3>2
  <2>7. Backwards'
    BY <2>2, <2>6 DEF Backwards
  <2> QED
    BY <2>4, <2>5, <2>7 DEF StoredInv
<1>4. CASE Cover
  <2>1. /\ Covered(coverage'[owner]) = Covered(coverage[owner]) \cup Covered(page.covered)
        /\ \A o \in Owners : o # owner => coverage'[o] = coverage[o]
    BY <1>1, <1>4, CoverWrites
  <2>2. pc = "covering" /\ pc' = "rechecking" /\ stored' = stored
    BY <1>4 DEF Cover
  <2>3. ASSUME NEW o \in Owners PROVE MessagesIn(o, Covered(coverage'[o])) \subseteq stored[o]
    <3>1. CASE o = owner
      <4>1. MessagesIn(o, Covered(page.covered)) \subseteq stored[o]
        BY <1>1, <2>2, <3>1 DEF PageProves
      <4>2. MessagesIn(o, Covered(coverage[o])) \subseteq stored[o]
        BY <1>1 DEF CoveredMeansStored
      <4>3. MessagesIn(o, Covered(coverage'[o])) =
              MessagesIn(o, Covered(coverage[o])) \cup MessagesIn(o, Covered(page.covered))
        BY <2>1, <3>1 DEF MessagesIn
      <4> QED
        BY <4>1, <4>2, <4>3
    <3>2. CASE o # owner
      BY <1>1, <2>1, <3>2 DEF CoveredMeansStored
    <3> QED
      BY <3>1, <3>2
  <2>4. CoveredMeansStored'
    BY <2>2, <2>3 DEF CoveredMeansStored
  <2>5. PageProves' /\ Backwards'
    BY <1>1, <2>2 DEF PageProves, Backwards
  <2> QED
    BY <2>4, <2>5 DEF StoredInv
<1>5. CASE Check \/ Measure
  <2> DEFINE found == Missing(owner, work.selector)
  <2>1. /\ pc \in {"checking", "measuring"}
        /\ UNCHANGED <<coverage, stored, work, page>> /\ owner' = owner
        /\ pc' \in {"publishing", "releasing", "measuring", "fetching"}
        /\ pc' = "fetching" => found # {} /\ missing' = {ClosestToPresent(found)}
    BY <1>5 DEF Check, Measure, owner
  <2>2. owner \in Owners /\ Stores(owner) /\ work.selector \in Selectors
    BY <1>1, <2>1, OwnerIs DEF AtWork, JobSteps
  <2>3. found \in SUBSET Interval /\ Bounded(found)
    BY <2>2, MissingIs
  <2>4. work.selector.kind = "page" => work.selector \in PageSelector
    BY <2>2 DEF Selectors, RangeSelector, PageSelector
  <2>5. work.selector.kind = "page" /\ stored[owner] = {} => found \subseteq {OpenPast(Present)}
    BY <2>2, <2>4, MissingAtFirst
  <2> HIDE DEF found
  <2>6. pc' = "fetching" => missing' \subseteq found
    BY <2>1, <2>3, ClosestIs
  <2>7. CoveredMeansStored' /\ PageProves'
    BY <1>1, <2>1 DEF CoveredMeansStored, PageProves
  <2>8. Backwards'
    BY <1>1, <2>1, <2>5, <2>6 DEF Backwards
  <2> QED
    BY <2>7, <2>8 DEF StoredInv
<1>6. CASE /\ UNCHANGED <<coverage, stored>>
           /\ \/ UNCHANGED <<pc, work, missing, page>>
              \/ pc' \notin {"fetching", "persisting", "covering"}
  <2>1. CoveredMeansStored'
    BY <1>1, <1>6 DEF CoveredMeansStored
  <2>2. CASE UNCHANGED <<pc, work, missing, page>>
    <3>1. PageProves' /\ Backwards'
      BY <1>1, <1>6, <2>2 DEF PageProves, Backwards, owner
    <3> QED
      BY <2>1, <3>1 DEF StoredInv
  <2>3. CASE pc' \notin {"fetching", "persisting", "covering"}
    <3>1. PageProves' /\ Backwards'
      BY <1>1, <1>6, <2>3 DEF PageProves, Backwards
    <3> QED
      BY <2>1, <3>1 DEF StoredInv
  <2> QED
    BY <1>6, <2>2, <2>3
<1> QED
  BY <1>2, <1>3, <1>4, <1>5, <1>6, PageMoves

(* Of owners that TDLib finds by date and that are asked for ranges, and of      *)
(* owners that are read from the present backwards, durable coverage is a proof: *)
(* every message in a covered second is stored, wherever a page was cut and      *)
(* whichever stage failed after it (fetchOwnerHistoryStep, persistMessages before *)
(* writeOwnerCoverage).  MCHistoryHoles shows an owner read both ways.      *)
THEOREM CoverageProves == ReadOneWay => (Spec => []CoveredMeansStored)
<1> SUFFICES ASSUME ReadOneWay PROVE Spec => []CoveredMeansStored
  OBVIOUS
<1>1. Init => StoredInv
  <2> SUFFICES ASSUME Init PROVE StoredInv
    OBVIOUS
  <2>1. \A o \in Owners : coverage[o] = {} /\ stored[o] = {}
    BY DEF Init
  <2>2. \A o \in Owners : MessagesIn(o, Covered(coverage[o])) = {}
    BY <2>1 DEF MessagesIn, Covered
  <2>3. \A o \in Owners : NoHole(o, stored[o])
    BY <2>1 DEF NoHole
  <2>4. pc = "idle"
    BY DEF Init
  <2> QED
    BY <2>2, <2>3, <2>4 DEF StoredInv, CoveredMeansStored, PageProves, Backwards
<1>2. ASSUME HInv, StoredInv, [Next]_vars PROVE StoredInv'
  <2>1. CASE Next
    BY <1>2, <2>1, StoredInvKept
  <2>2. CASE UNCHANGED vars
    <3>1. UNCHANGED <<coverage, stored, pc, work, missing, page>>
      BY <2>2 DEF vars, tables, memory
    <3> QED
      BY <1>2, <3>1 DEF StoredInv, CoveredMeansStored, PageProves, Backwards, owner
  <2> QED
    BY <1>2, <2>1, <2>2
<1>3. StoredInv => CoveredMeansStored
  BY DEF StoredInv
<1> QED
  BY <1>1, <1>2, <1>3, HInvInductive, PTL DEF Spec

(* When the row of a range job disappears, the range its request asked for is    *)
(* stored.                                                                   *)
CompletedRangesStored ==
  [][\A r \in Requests :
       r.selector.kind = "range" /\ jobs[r] # NoJob /\ jobs'[r] = NoJob =>
         MessagesIn(r.owner, Seconds(RangeOf(r.selector))) \subseteq stored[r.owner]]_vars

(* Of such an owner every message in the range a request asked for is stored     *)
(* when the request's row disappears, although other requests may have been       *)
(* merged into the job meanwhile: its range still holds that of its request       *)
(* (coalesceOverlappingActiveRangeJob, completeHistoryJob).                   *)
THEOREM CompletedRangesAreStored == ReadOneWay => (Spec => CompletedRangesStored)
<1> DEFINE Deleted(r) == r.selector.kind = "range" /\ jobs[r] # NoJob /\ jobs'[r] = NoJob
           Whole == \A r \in Requests :
                      Deleted(r) =>
                        MessagesIn(r.owner, Seconds(RangeOf(r.selector))) \subseteq stored[r.owner]
<1>1. ASSUME HInv, CoveredMeansStored, Next PROVE Whole
  <2> SUFFICES ASSUME NEW r \in Requests, Deleted(r)
               PROVE  MessagesIn(r.owner, Seconds(RangeOf(r.selector))) \subseteq stored[r.owner]
    OBVIOUS
  <2>1. Complete /\ r = work.id
    BY <1>1, StepKeepsRows DEF HInv, RowsKept
  <2>2. pc = "completing" /\ pc \in AtWork /\ r.owner = owner
    BY <2>1 DEF Complete, AtWork, owner
  <2>3. /\ owner \in Owners /\ Stores(owner) /\ r.selector \in Selectors
        /\ work.selector \in Selectors /\ Fits(r, work.selector)
        /\ Missing(owner, work.selector) = {}
    BY <1>1, <2>1, <2>2, OwnerIs, RequestsAre DEF HInv, InHand, ReadyToEnd, Ready
  <2>4. /\ work.selector.kind = "range" /\ work.selector \in RangeSelector
        /\ r.selector \in RangeSelector
        /\ work.selector.startAt <= r.selector.startAt
        /\ r.selector.endAt <= work.selector.endAt
    BY <2>3 DEF Fits, Selectors, RangeSelector, PageSelector
  <2> DEFINE asked == RangeOf(r.selector)
             claimed == RangeOf(work.selector)
  <2>5. /\ asked.startAt \in Nat /\ asked.endAt \in Nat
        /\ claimed.startAt \in Nat /\ claimed.endAt \in Nat /\ claimed \in Interval
        /\ claimed.startAt <= asked.startAt /\ asked.endAt <= claimed.endAt
    BY <2>4 DEF RangeSelector, RangeOf, Interval
  <2>6. SubtractSegments(claimed, coverage[owner]) = {}
    BY <2>3, <2>4 DEF Missing, Uncovered
  <2> HIDE DEF asked, claimed
  <2>7. Seconds(asked) \subseteq Seconds(claimed)
    BY <2>5 DEF Seconds
  <2>8. Seconds(claimed) \subseteq Covered(coverage[owner])
    <3>1. Covered(SubtractSegments(claimed, coverage[owner]))
            = Seconds(claimed) \ Covered(coverage[owner])
      BY <2>3, <2>5, SubtractCovers DEF Stores
    <3>2. Covered({}) = {}
      BY DEF Covered
    <3> QED
      BY <2>6, <3>1, <3>2
  <2>9. MessagesIn(owner, Covered(coverage[owner])) \subseteq stored[owner]
    BY <1>1, <2>3 DEF CoveredMeansStored
  <2>10. MessagesIn(owner, Seconds(asked)) \subseteq stored[owner]
    BY <2>7, <2>8, <2>9 DEF MessagesIn
  <2> QED
    BY <2>2, <2>10 DEF asked
<1>2. HInv /\ CoveredMeansStored /\ [Next]_vars => [Whole]_vars
  BY <1>1
<1> HIDE DEF Whole
<1>3. ReadOneWay => (Spec => [][Whole]_vars)
  <2> SUFFICES ASSUME ReadOneWay PROVE Spec => [][Whole]_vars
    OBVIOUS
  <2>1. Spec => []CoveredMeansStored
    BY CoverageProves
  <2> QED
    BY <1>2, <2>1, HInvInductive, PTL DEF Spec
<1> QED
  BY <1>3 DEF Whole, CompletedRangesStored
=============================================================================
