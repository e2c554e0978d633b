----------------------------- MODULE LlmRunner -----------------------------
(***************************************************************************)
(* llm-runner: durable LLM runs, processed in the background by the worker *)
(* process that claimed them under a lease it keeps refreshing, and taken  *)
(* over by a recovery loop once the lease has gone stale                   *)
(* (packages/llm-runner/src/runtime.ts, store.ts).                         *)
(*                                                                         *)
(* updatedAt is modelled by its age.  `now`, captured when a recovery tick *)
(* begins, is modelled by how long ago that was (lag).                     *)
(***************************************************************************)
EXTENDS Integers

CONSTANTS
  Workers,           \* processes running the module
  Runs,              \* runs, by the call that creates them
  Stale,             \* claimStaleMs
  TelemetryEnabled,  \* recordCurrentStats reads the table, or does nothing
  MaxLag,            \* bound: how long a recovery tick lasts
  MaxFaults          \* bound: crashes and failed statements

MaxAge == Stale + MaxLag

ASSUME LeaseAssumption ==
  /\ Stale \in Nat \ {0} /\ MaxLag \in Nat /\ MaxFaults \in Nat
  /\ TelemetryEnabled \in BOOLEAN

VARIABLES
  run,         \* table llm_runner_runs: the status of each run
  age,         \* the time since updatedAt, as far as it matters
  up,          \* the processes that run
  created,     \* runs each process has inserted and not yet tried to claim
  proc,        \* what each process does for each run; activeRuns
  recovering,  \* processes in a recovery tick
  listed,      \* active runs the tick found and has not yet looked at
  lag,         \* the time since the tick took `now`
  published,   \* terminal events published for each run
  faults

rows == <<run, age>>
tick == <<recovering, listed, lag>>
vars == <<rows, up, created, proc, tick, published, faults>>

Statuses == {"absent", "accepted", "processing", "completed", "failed"}

FinalStatuses == {"completed", "failed"}

(* "processing": provider calls are out; "failing": an exception is to be    *)
(* stored; "completed", "failed": stored, to be published; "noProfile": the  *)
(* recovery loop fails a run whose profile is gone.                         *)
Labels == {"none", "processing", "failing", "completed", "failed", "noProfile"}

TypeOK ==
  /\ run \in [Runs -> Statuses]
  /\ age \in [Runs -> 0..MaxAge]
  /\ up \in SUBSET Workers
  /\ created \in [Workers -> SUBSET Runs]
  /\ proc \in [Workers -> [Runs -> Labels]]
  /\ recovering \in SUBSET Workers
  /\ listed \in [Workers -> SUBSET Runs]
  /\ lag \in [Workers -> 0..MaxLag]
  /\ published \in [Runs -> SUBSET FinalStatuses]
  /\ faults \in 0..MaxFaults

Init ==
  /\ run = [r \in Runs |-> "absent"]
  /\ age = [r \in Runs |-> 0]
  /\ up = Workers
  /\ created = [w \in Workers |-> {}]
  /\ proc = [w \in Workers |-> [r \in Runs |-> "none"]]
  /\ recovering = {}
  /\ listed = [w \in Workers |-> {}]
  /\ lag = [w \in Workers |-> 0]
  /\ published = [r \in Runs |-> {}]
  /\ faults = 0

Goto(w, r, label) == proc' = [proc EXCEPT ![w][r] = label]

SetRow(r, status, seconds) ==
  /\ run' = [run EXCEPT ![r] = status]
  /\ age' = [age EXCEPT ![r] = seconds]

-----------------------------------------------------------------------------
(* llm.run *)

CreateRun(w, r) ==
  /\ w \in up
  /\ run[r] = "absent"
  /\ SetRow(r, "accepted", 0)
  /\ created' = [created EXCEPT ![w] = @ \cup {r}]
  /\ UNCHANGED <<up, proc, tick, published, faults>>

(* The call's own `now` is the run's updatedAt: it claims the run only      *)
(* while nobody has, and the lease counts from then.                        *)
ClaimCreated(w, r) ==
  /\ r \in created[w]
  /\ created' = [created EXCEPT ![w] = @ \ {r}]
  /\ IF run[r] = "accepted"
     THEN SetRow(r, "processing", age[r]) /\ Goto(w, r, "processing")
     ELSE UNCHANGED <<rows, proc>>
  /\ UNCHANGED <<up, tick, published, faults>>

-----------------------------------------------------------------------------
(* processRun *)

(* Mutant: the end of the lease is written instead of the time. *)
RefreshAhead(w, r) ==
  /\ proc[w][r] \in Labels \ {"none", "noProfile"}
  /\ run[r] = "processing"
  /\ age' = [age EXCEPT ![r] = -Stale]
  /\ UNCHANGED <<run, up, created, proc, tick, published, faults>>

(* The lease refresh: the interval runs for as long as processRun does.     *)
Refresh(w, r) ==
  /\ proc[w][r] \in Labels \ {"none", "noProfile"}
  /\ run[r] = "processing"
  /\ age' = [age EXCEPT ![r] = 0]
  /\ UNCHANGED <<run, up, created, proc, tick, published, faults>>

(* Every row has its output. *)
MarkCompleted(w, r) ==
  /\ proc[w][r] = "processing"
  /\ SetRow(r, "completed", 0)
  /\ Goto(w, r, "completed")
  /\ UNCHANGED <<up, created, tick, published, faults>>

(* Mutant: the failure is announced and not stored. *)
ProviderFailsUnstored(w, r) ==
  /\ proc[w][r] = "processing"
  /\ Goto(w, r, "failed")
  /\ UNCHANGED <<rows, up, created, tick, published, faults>>

(* The provider's last attempt fails, times out or returns invalid JSON. *)
ProviderFails(w, r) ==
  /\ proc[w][r] = "processing"
  /\ Goto(w, r, "failing")
  /\ UNCHANGED <<rows, up, created, tick, published, faults>>

MarkFailed(w, r) ==
  /\ proc[w][r] \in {"failing", "noProfile"}
  /\ SetRow(r, "failed", 0)
  /\ Goto(w, r, "failed")
  /\ UNCHANGED <<up, created, tick, published, faults>>

Publish(w, r) ==
  /\ proc[w][r] \in FinalStatuses
  /\ published' = [published EXCEPT ![r] = @ \cup {proc[w][r]}]
  /\ Goto(w, r, "none")
  /\ UNCHANGED <<rows, up, created, tick, faults>>

-----------------------------------------------------------------------------
(* recoverActiveRuns *)

BeginRecovery(w) ==
  /\ w \in up \ recovering
  /\ recovering' = recovering \cup {w}
  /\ listed' = [listed EXCEPT ![w] = {r \in Runs : run[r] \in {"accepted", "processing"}}]
  /\ lag' = [lag EXCEPT ![w] = 0]
  /\ UNCHANGED <<rows, up, created, proc, published, faults>>

(* Mutant: the age of the lease does not count. *)
ClaimableIfActive(w, r) == run[r] \in {"accepted", "processing"}

(* Mutant: the update has no condition. *)
ClaimableAsListed(w, r) == TRUE

(* Mutant: a run in progress is never taken over. *)
ClaimableIfNew(w, r) == run[r] = "accepted"

Claimable(w, r) ==
  \/ run[r] = "accepted"
  \/ run[r] = "processing" /\ age[r] - lag[w] >= Stale

ClaimListed(w, r) ==
  /\ r \in listed[w]
  /\ \A s \in Runs : proc[w][s] # "noProfile"
  /\ listed' = [listed EXCEPT ![w] = @ \ {r}]
  /\ IF proc[w][r] = "none" /\ Claimable(w, r)
     THEN /\ SetRow(r, "processing", lag[w])
          /\ Goto(w, r, "processing") \/ Goto(w, r, "noProfile")
     ELSE UNCHANGED <<rows, proc>>
  /\ UNCHANGED <<up, created, recovering, lag, published, faults>>

EndRecovery(w) ==
  /\ w \in recovering
  /\ listed[w] = {}
  /\ \A s \in Runs : proc[w][s] # "noProfile"
  /\ recovering' = recovering \ {w}
  /\ lag' = [lag EXCEPT ![w] = 0]
  /\ UNCHANGED <<rows, up, created, proc, listed, published, faults>>

-----------------------------------------------------------------------------
(* Failures, restarts and time *)

(* A statement fails.  In processRun's try block, the table read for the     *)
(* telemetry included, the run is to be marked failed; in its catch block,   *)
(* processing ends there, and so does a recovery tick.                       *)
StatementFails(w, r) ==
  /\ faults < MaxFaults
  /\ faults' = faults + 1
  /\ \/ /\ \/ proc[w][r] = "processing"
           \/ proc[w][r] = "completed" /\ TelemetryEnabled
        /\ Goto(w, r, "failing")
        /\ UNCHANGED <<created, tick>>
     \/ /\ \/ proc[w][r] = "failing"
           \/ proc[w][r] = "failed" /\ TelemetryEnabled
        /\ Goto(w, r, "none")
        /\ UNCHANGED <<created, tick>>
     \/ /\ r \in created[w]
        /\ created' = [created EXCEPT ![w] = @ \ {r}]
        /\ UNCHANGED <<proc, tick>>
     \/ /\ r \in listed[w] \/ proc[w][r] = "noProfile"
        /\ proc' = [proc EXCEPT ![w][r] = IF @ = "noProfile" THEN "none" ELSE @]
        /\ recovering' = recovering \ {w}
        /\ listed' = [listed EXCEPT ![w] = {}]
        /\ lag' = [lag EXCEPT ![w] = 0]
        /\ UNCHANGED created
  /\ UNCHANGED <<rows, up, published>>

Crash(w) ==
  /\ w \in up
  /\ faults < MaxFaults
  /\ faults' = faults + 1
  /\ up' = up \ {w}
  /\ created' = [created EXCEPT ![w] = {}]
  /\ proc' = [proc EXCEPT ![w] = [r \in Runs |-> "none"]]
  /\ recovering' = recovering \ {w}
  /\ listed' = [listed EXCEPT ![w] = {}]
  /\ lag' = [lag EXCEPT ![w] = 0]
  /\ UNCHANGED <<rows, published>>

Restart(w) ==
  /\ w \notin up
  /\ up' = up \cup {w}
  /\ UNCHANGED <<rows, created, proc, tick, published, faults>>

Tick ==
  /\ \A w \in recovering : lag[w] < MaxLag
  /\ age' = [r \in Runs |->
       IF run[r] \in {"accepted", "processing"} /\ age[r] < MaxAge THEN age[r] + 1 ELSE age[r]]
  /\ lag' = [w \in Workers |-> IF w \in recovering THEN lag[w] + 1 ELSE lag[w]]
  /\ UNCHANGED <<run, up, created, proc, recovering, listed, published, faults>>

ProcessStep(w, r) ==
  MarkCompleted(w, r) \/ ProviderFails(w, r) \/ MarkFailed(w, r) \/ Publish(w, r)

Next ==
  \/ \E w \in Workers, r \in Runs :
       \/ CreateRun(w, r) \/ ClaimCreated(w, r) \/ ClaimListed(w, r)
       \/ ProcessStep(w, r) \/ Refresh(w, r) \/ StatementFails(w, r)
  \/ \E w \in Workers : BeginRecovery(w) \/ EndRecovery(w) \/ Crash(w) \/ Restart(w)
  \/ Tick

Spec == Init /\ [][Next]_vars

(* A refresh gets through in every Stale seconds: three are tried.  A       *)
(* process whose event loop or database connection hangs for longer breaks  *)
(* this, and nothing then tells it that its run was taken over.             *)
Processing(w, r) == proc[w][r] \in {"processing", "failing", "noProfile"}

RefreshedInTime ==
  \A w \in Workers, r \in Runs : Processing(w, r) /\ run[r] = "processing" => age[r] < Stale

TimelyNext == Next /\ RefreshedInTime'

TimelySpec == Init /\ [][TimelyNext]_vars

(* Provider calls end or time out, recovery ticks come and go, and a process  *)
(* that died is started again.                                               *)
LiveSpec ==
  /\ Spec
  /\ WF_vars(Tick)
  /\ \A w \in Workers :
       /\ WF_vars(BeginRecovery(w)) /\ WF_vars(EndRecovery(w)) /\ WF_vars(Restart(w))
       /\ \A r \in Runs :
            WF_vars(ClaimCreated(w, r)) /\ WF_vars(ClaimListed(w, r)) /\ WF_vars(ProcessStep(w, r))

-----------------------------------------------------------------------------
(* Properties *)

(* A run is in the hands of one process at a time: its provider calls are    *)
(* not repeated beside each other, and only one outcome is stored.           *)
OneProcessor ==
  \A v, w \in Workers, r \in Runs :
    proc[v][r] # "none" /\ proc[w][r] # "none" /\ run[r] \notin FinalStatuses => v = w

(* What an event announces is what getRunResult returns from then on.        *)
AnnouncedIsStored == \A r \in Runs : published[r] \subseteq {run[r]}

(* Every run ends, whichever process dies or loses its database: an active   *)
(* run is taken over when its lease is stale.                                *)
EveryRunEnds == \A r \in Runs : run[r] # "absent" ~> run[r] \in FinalStatuses

(* The contract pipelines rely on. *)
Provider ==
  INSTANCE ProviderContract WITH
    result <- [r \in Runs |->
      IF run[r] = "absent" THEN "none"
      ELSE IF run[r] \in FinalStatuses THEN run[r]
      ELSE "active"]

KeepsContract == Provider!Spec
=============================================================================
