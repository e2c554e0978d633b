------------------------- MODULE ProviderContract -------------------------
(***************************************************************************)
(* What an asynchronous action provider promises the pipelines that wait   *)
(* for it: an accepted run gets one result, which can be read from then on *)
(* and never becomes another.  PipelineRuns models its provider by this;   *)
(* LlmRunner implements it.                                                *)
(***************************************************************************)

CONSTANT Runs

VARIABLE result      \* result[r]: "none", "active", "completed" or "failed"

Init == result = [r \in Runs |-> "none"]

Accept(r) ==
  /\ result[r] = "none"
  /\ result' = [result EXCEPT ![r] = "active"]

Finish(r) ==
  /\ result[r] = "active"
  /\ \E kind \in {"completed", "failed"} : result' = [result EXCEPT ![r] = kind]

Next == \E r \in Runs : Accept(r) \/ Finish(r)

Spec == Init /\ [][Next]_result
=============================================================================
