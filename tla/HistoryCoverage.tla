-------------------------- MODULE HistoryCoverage --------------------------
(***************************************************************************)
(* Intervals of whole seconds, and the two computations the history         *)
(* subsystem makes with them (packages/telegram/src/history/time.ts,         *)
(* storage/reconcilerCoverageStorage.ts, storage/historyCoverageStorage.ts). *)
(*                                                                         *)
(* An interval is half open.  The code sorts and sweeps lists; what its     *)
(* sweeps compute is defined here as the maximal runs of covered seconds,    *)
(* or of the desired seconds that are not covered.                           *)
(***************************************************************************)
EXTENDS Integers

(* HISTORY_PAST_BOUNDARY, the second no message is older than. *)
PastBoundary == 0

Interval == [startAt : Nat, endAt : Nat]

Seconds(i) == i.startAt..(i.endAt - 1)

Covered(segments) == UNION {Seconds(i) : i \in segments}

Overlap(i, j) == i.startAt <= j.endAt /\ j.startAt <= i.endAt

Smaller(m, n) == IF m <= n THEN m ELSE n

Larger(m, n) == IF m >= n THEN m ELSE n

(* The smallest interval that holds both. *)
Hull(i, j) ==
  [startAt |-> Smaller(i.startAt, j.startAt), endAt |-> Larger(i.endAt, j.endAt)]

(* Segments that overlap or touch become one; empty ones disappear. *)
MergeSegments(segments) ==
  {i \in [startAt : {s.startAt : s \in segments}, endAt : {s.endAt : s \in segments}] :
     /\ i.startAt < i.endAt
     /\ Seconds(i) \subseteq Covered(segments)
     /\ i.startAt - 1 \notin Covered(segments)
     /\ i.endAt \notin Covered(segments)}

(* The parts of `desired` no segment covers. *)
SubtractSegments(desired, segments) ==
  {i \in [startAt : {desired.startAt} \cup {s.endAt : s \in segments},
          endAt : {desired.endAt} \cup {s.startAt : s \in segments}] :
     /\ i.startAt < i.endAt
     /\ Seconds(i) \subseteq Seconds(desired) \ Covered(segments)
     /\ i.startAt = desired.startAt \/ i.startAt - 1 \in Covered(segments)
     /\ i.endAt = desired.endAt \/ i.endAt \in Covered(segments)}

ClosestToPresent(intervals) ==
  CHOOSE i \in intervals : \A j \in intervals : j.endAt <= i.endAt

(* Mutant: the new segment replaces the rows it reaches. *)
WriteSegmentOver(rows, segment) ==
  LET reached == {row \in rows : /\ row.startAt <= segment.endAt + 1
                                 /\ row.endAt >= segment.startAt - 1}
  IN  (rows \ reached) \cup {segment}

(* The rows after one write: those the new segment reaches are replaced by  *)
(* what they and the segment merge to, the others are left alone.            *)
WriteSegment(rows, segment) ==
  LET reached == {row \in rows : /\ row.startAt <= segment.endAt + 1
                                 /\ row.endAt >= segment.startAt - 1}
  IN  (rows \ reached) \cup MergeSegments(reached \cup {segment})

=============================================================================
