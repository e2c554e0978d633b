--------------------------- MODULE RunLifecycle ---------------------------
(***************************************************************************)
(* The life of a pipeline run as docs/03-domains/pipelines.md ("Run        *)
(* Lifecycle") has it: created once, it runs, waits for a provider and     *)
(* runs again, and ends once.                                              *)
(*                                                                         *)
(* PipelineRuns refines this specification when results do not overtake    *)
(* the recording of the dispatch (PipelineRuns!PatientSpec).               *)
(***************************************************************************)

CONSTANT Runs

VARIABLE status

RunStatuses == {"absent", "accepted", "running", "waiting", "completed", "failed"}

Init == status = [r \in Runs |-> "absent"]

Move(r, from, to) ==
  /\ status[r] \in from
  /\ status' = [status EXCEPT ![r] = to]

Create(r) == Move(r, {"absent"}, "accepted")

(* The execution starts, or is taken up again. *)
Run(r) == Move(r, {"accepted", "waiting"}, "running")

Wait(r) == Move(r, {"running"}, "waiting")

Complete(r) == Move(r, {"running"}, "completed")

Fail(r) == Move(r, {"running", "waiting"}, "failed")

Next == \E r \in Runs : Create(r) \/ Run(r) \/ Wait(r) \/ Complete(r) \/ Fail(r)

Spec == Init /\ [][Next]_status
=============================================================================
