--------------------------- MODULE FileLifecycle ---------------------------
(***************************************************************************)
(* What the telegram module shows of a file: the status of a FileRef         *)
(* (effectiveFileStatus) and the state machine docs/03-domains/               *)
(* telegramFiles.md draws for it.  "stalled" is a failure at the retry limit.  *)
(*                                                                         *)
(* The drawing has Discover, Enqueue, Request, Claim, Finish and Fail.  The     *)
(* other steps are not in it: Retry and RetryLate queue a failed file again    *)
(* that nobody requested; Drop, Forget and Straggle end a job otherwise.       *)
(***************************************************************************)
CONSTANT Assets

VARIABLES
  status,  \* what is shown of each file
  wanted,  \* the jobs that are about to be queued, and by what
  strays   \* the files a row is still worked off for after its tick has failed

vars == <<status, wanted, strays>>

Wants == [asset : Assets, by : {"slot", "request"}]

Init == status = [a \in Assets |-> "absent"] /\ wanted = {} /\ strays = {}

Becomes(a, from, to) ==
  /\ status[a] \in from
  /\ status' = [status EXCEPT ![a] = to]

(* Somebody decides that a file is to be queued: a slot is recorded for one     *)
(* that has not failed for good, or one that is not ready is requested.         *)
Want(a, by) ==
  /\ status'[a] \notin {"absent", "ready"}
  /\ by = "slot" => status'[a] # "failed"
  /\ wanted' = wanted \cup {[asset |-> a, by |-> by]}
  /\ UNCHANGED strays

Discover(a) ==
  /\ Becomes(a, {"absent"}, "known")
  /\ Want(a, "slot") \/ UNCHANGED <<wanted, strays>>

Decide(a) == UNCHANGED status /\ \E by \in {"slot", "request"} : Want(a, by)

(* A job is queued for a file that is wanted. *)
Queue(a, from, by) ==
  /\ [asset |-> a, by |-> by] \in wanted
  /\ Becomes(a, from, "queued")
  /\ wanted' \in {wanted, wanted \ {[asset |-> a, by |-> by]}}
  /\ UNCHANGED strays

Enqueue(a) == \E by \in {"slot", "request"} : Queue(a, {"known"}, by)

Request(a) == Queue(a, {"failed", "stalled"}, "request")

(* A slot retries a failure at the retry limit ... *)
Retry(a) == Queue(a, {"stalled"}, "slot")

(* ... and one recorded before any failure retries this too. *)
RetryLate(a) == Queue(a, {"failed"}, "slot")

Moves(a, from, to) == Becomes(a, from, to) /\ UNCHANGED <<wanted, strays>>

Claim(a) == Moves(a, {"queued"}, "downloading")

(* A queued file is ready too once TDLib has completed it for another reason. *)
Finish(a) == Moves(a, {"queued", "downloading"}, "ready")

Fail(a) == \E to \in {"failed", "stalled"} : Moves(a, {"downloading"}, to)

(* A completed file that cannot be stored, or a second report of a failure,   *)
(* fails a file whose job was not claimed or is there no more.               *)
Drop(a) == Moves(a, {"known", "queued"}, "failed")

(* The reset that follows an enqueue meets a failure that is being reported:   *)
(* neither the failure nor the enqueued job is left.                         *)
Forget(a) == Moves(a, {"failed", "stalled", "queued", "downloading"}, "known")

(* A row that outlived its tick ends, whatever has become of its file. *)
Straggle(a) ==
  /\ a \in strays /\ status[a] \notin {"absent", "ready"}
  /\ \E to \in {"ready", "failed", "stalled"} : Moves(a, {status[a]}, to)

(* A tick leaves rows behind, an enqueuer gives up, or the process ends. *)
LeaveBehind == strays' \subseteq Assets /\ strays \subseteq strays' /\ UNCHANGED <<status, wanted>>

GiveUp == wanted' \subseteq wanted /\ UNCHANGED <<status, strays>>

End == wanted' = {} /\ strays' = {} /\ UNCHANGED status

Moved(a) ==
  /\ status'[a] # status[a]
  /\ \/ Discover(a) \/ Enqueue(a) \/ Request(a) \/ Retry(a) \/ RetryLate(a)
     \/ Claim(a) \/ Finish(a) \/ Fail(a) \/ Drop(a) \/ Forget(a) \/ Straggle(a)

Next ==
  \/ \E a \in Assets : Moved(a)
  \/ UNCHANGED status /\ (LeaveBehind \/ GiveUp \/ End \/ \E a \in Assets : Decide(a))

Spec == Init /\ [][Next]_vars

=============================================================================
