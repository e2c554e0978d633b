------------------------ MODULE MCHistoryReconciler ------------------------
(* Small instances of HistoryReconciler: a chat read by ranges, a topic read *)
(* by pages, and one chat read both ways.                                    *)
EXTENDS HistoryReconciler, TLC

CONSTANTS o1, o2, c1, c2

RangeRequest(o, from, to) ==
  [owner |-> o, selector |-> [kind |-> "range", startAt |-> from, endAt |-> to]]

PageRequest(o, before, count) ==
  [owner |-> o, selector |-> [kind |-> "page", before |-> before, count |-> count]]

MCHistory == (o1 :> <<1, 3, 3, 4>>) @@ (o2 :> <<2, 3>>)

(* The last of them reaches the first message of the topic. *)
RangesAndPages ==
  {RangeRequest(o1, 2, 4), RangeRequest(o1, 3, 5), PageRequest(o2, Latest, 2),
   PageRequest(o2, Latest, 3)}

BothWays ==
  {RangeRequest(o1, 1, 2), RangeRequest(o1, 4, 5), PageRequest(o1, Latest, 4)}

=============================================================================
