------------------------ MODULE OccurrenceLifecycle ------------------------
(***************************************************************************)
(* The life of a trigger occurrence as its owner promises it, with no      *)
(* workers, leases, clock or database: an occurrence is created once,      *)
(* moves along the transitions of docs/03-domains/triggers.md ("Occurrence *)
(* Lifecycle") and never leaves a terminal state.  A claimed or            *)
(* dispatching occurrence may be claimed again: "reclaiming an expired     *)
(* lease reuses the stored occurrence".                                    *)
(*                                                                         *)
(* Triggers refines this specification when every batch ends before its    *)
(* leases do (Triggers!TimelySpec).                                        *)
(***************************************************************************)

CONSTANT Keys        \* the occurrence keys: registrationKey + scheduledAt

VARIABLE status      \* status[k]: the state of occurrence k

ClaimableStatuses == {"scheduled", "claimed", "dispatching", "retryWaiting"}

TerminalStatuses == {"accepted", "rejected", "failed", "cancelled"}

OccurrenceStatuses == ClaimableStatuses \cup TerminalStatuses

Init == status = [k \in Keys |-> "absent"]

(* Every occurrence of S takes the transition from -> to; the others stay. *)
Move(S, from, to) ==
  /\ \A k \in S : status[k] \in from
  /\ status' = [k \in Keys |-> IF k \in S THEN to ELSE status[k]]

(* A tick creates all the occurrences it finds due with one insert. *)
Create == \E S \in SUBSET Keys : Move(S, {"absent"}, "scheduled")

Claim(k) == Move({k}, ClaimableStatuses, "claimed")

Dispatch(k) == Move({k}, {"claimed"}, "dispatching")

Settle(k) ==
  \E to \in {"accepted", "rejected", "failed", "retryWaiting"} :
    Move({k}, {"dispatching"}, to)

(* Removing registrations cancels all that waits for them. *)
Cancel == \E S \in SUBSET Keys : Move(S, {"scheduled", "retryWaiting"}, "cancelled")

Next ==
  \/ Create
  \/ Cancel
  \/ \E k \in Keys : Claim(k) \/ Dispatch(k) \/ Settle(k)

Spec == Init /\ [][Next]_status
=============================================================================
