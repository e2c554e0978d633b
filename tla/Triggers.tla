----------------------------- MODULE Triggers -----------------------------
(***************************************************************************)
(* The triggers module: registrations, due occurrences, and the workers    *)
(* that claim them under a lease and dispatch them to an action provider   *)
(* (packages/triggers/src).                                                *)
(*                                                                         *)
(* A worker is one process of the module.  Inside a process, `serialize`   *)
(* (runtime.ts) runs replaceRegistrations, reconcile and runDueTriggers    *)
(* one at a time, so a worker has one program counter; across processes    *)
(* only the database is shared, and every statement sent to it is a step.  *)
(***************************************************************************)
EXTENDS Integers, FiniteSets

CONSTANTS
  Workers,              \* processes running the module
  Registrations,        \* registration keys
  Owners,               \* registration owners
  OwnerOf,              \* the owner a registration key belongs to
  Schedules,            \* the periodic conditions an owner may register
  LeaseSeconds,         \* config.leaseSeconds
  LookbackSeconds,      \* config.lookbackSeconds
  MaxDispatchAttempts,  \* config.maxDispatchAttempts
  ClaimLimit,           \* defaultClaimLimit
  NoWorker,             \* a null lease owner
  NoStart,              \* a condition without startAt
  NoRegistration,       \* a registration key with no row
  QueueWait,            \* how long an operation may wait in its process's queue
  MaxClock,             \* bound: the clock stops here
  MaxFaults,            \* bound: crashes and failed statements
  MaxReplacements       \* bound: calls of replaceRegistrations

Time == 0..MaxClock

ASSUME NumbersAssumption ==
  /\ MaxClock \in Nat /\ MaxFaults \in Nat /\ MaxReplacements \in Nat
  /\ LeaseSeconds \in Nat \ {0} /\ LookbackSeconds \in Nat
  /\ MaxDispatchAttempts \in Nat /\ ClaimLimit \in Nat \ {0} /\ QueueWait \in Nat

ASSUME RegistrationsAssumption ==
  /\ OwnerOf \in [Registrations -> Owners]
  /\ Schedules \subseteq [everySeconds : Nat \ {0}, startAt : Time \cup {NoStart}]
  /\ NoWorker \notin Workers /\ NoStart \notin Time
  /\ NoRegistration \notin [anchorAt : Time, schedule : Schedules]

VARIABLES
  clock,           \* the wall clock, in seconds
  registration,    \* table triggers_registrations
  occurrence,      \* table triggers_occurrences
  pc,              \* where each worker is
  now,             \* `now` as the worker's current operation captured it
  listed,          \* occurrence keys found due, not yet inserted
  selected,        \* rows claimDue selected and has not yet tried to claim
  claimed,         \* rows claimed and not yet settled, as `returning` gave them
  current,         \* the key being dispatched, one element or none
  calls,           \* keys some dispatch sent to the provider
  runs,            \* keys the provider has a run for
  faults, replacements

tables == <<registration, occurrence>>
batch == <<now, listed, selected, claimed, current>>
provider == <<calls, runs>>
bounds == <<faults, replacements>>
vars == <<clock, tables, pc, batch, provider, bounds>>

-----------------------------------------------------------------------------
(* Values *)

Keys == [registrationKey : Registrations, scheduledAt : Time]

ClaimableStatuses == {"scheduled", "claimed", "dispatching", "retryWaiting"}

TerminalStatuses == {"accepted", "rejected", "failed", "cancelled"}

Occurrence ==
  [status : {"absent"} \cup ClaimableStatuses \cup TerminalStatuses,
   attemptCount : Nat,
   nextAttemptAt : Nat,
   leaseOwner : Workers \cup {NoWorker},
   leaseExpiresAt : Nat]

(* A key with no row. *)
NoOccurrence ==
  [status |-> "absent", attemptCount |-> 0, nextAttemptAt |-> 0,
   leaseOwner |-> NoWorker, leaseExpiresAt |-> 0]

Registration == [anchorAt : Time, schedule : Schedules]

PcValues ==
  {"down", "reconciling", "idle", "listed", "created", "claiming", "dispatching",
   "marked", "calling"}

TypeOK ==
  /\ clock \in Time
  /\ registration \in [Registrations -> Registration \cup {NoRegistration}]
  /\ occurrence \in [Keys -> Occurrence]
  /\ pc \in [Workers -> PcValues]
  /\ now \in [Workers -> Time]
  /\ listed \in [Workers -> SUBSET Keys]
  /\ selected \in [Workers -> SUBSET Keys]
  /\ claimed \in [Workers -> SUBSET [key : Keys, attemptCount : Nat]]
  /\ current \in [Workers -> SUBSET [key : Keys, attemptCount : Nat]]
  /\ calls \in SUBSET Keys
  /\ runs \in SUBSET Keys
  /\ faults \in 0..MaxFaults
  /\ replacements \in 0..MaxReplacements

Init ==
  /\ clock = 0
  /\ registration = [r \in Registrations |-> NoRegistration]
  /\ occurrence = [k \in Keys |-> NoOccurrence]
  /\ pc = [w \in Workers |-> "down"]
  /\ now = [w \in Workers |-> 0]
  /\ listed = [w \in Workers |-> {}]
  /\ selected = [w \in Workers |-> {}]
  /\ claimed = [w \in Workers |-> {}]
  /\ current = [w \in Workers |-> {}]
  /\ calls = {}
  /\ runs = {}
  /\ faults = 0
  /\ replacements = 0

-----------------------------------------------------------------------------
(* The scheduler: the periods of a registration that are due *)

Anchor(reg) ==
  IF reg.schedule.startAt = NoStart THEN reg.anchorAt ELSE reg.schedule.startAt

(* Mutant: the period before the window instead of the one after it. *)
FirstCandidateFloor(reg, t) ==
  LET every == reg.schedule.everySeconds
      behind == (t - LookbackSeconds) - Anchor(reg)
  IN  IF behind > 0 THEN Anchor(reg) + (behind \div every) * every ELSE Anchor(reg)

(* The first period at or after the start of the lookback window. *)
FirstCandidate(reg, t) ==
  LET every == reg.schedule.everySeconds
      behind == (t - LookbackSeconds) - Anchor(reg)
  IN  IF behind > 0
      THEN Anchor(reg) + ((behind + every - 1) \div every) * every
      ELSE Anchor(reg)

DueTimes(reg, t) ==
  IF Anchor(reg) > t
  THEN {}
  ELSE {u \in FirstCandidate(reg, t)..t :
          (u - FirstCandidate(reg, t)) % reg.schedule.everySeconds = 0}

DueKeys(t) ==
  {k \in Keys : /\ registration[k.registrationKey] # NoRegistration
                /\ k.scheduledAt \in DueTimes(registration[k.registrationKey], t)}

-----------------------------------------------------------------------------
(* Claiming *)

(* Mutant: a lease that only its holder can end. *)
LeaseFreeOnlyIfReleased(row, t) == row.leaseOwner = NoWorker

LeaseFree(row, t) == row.leaseOwner = NoWorker \/ row.leaseExpiresAt <= t

DueOccurrences(t) ==
  {k \in Keys : /\ occurrence[k].status \in ClaimableStatuses
                /\ occurrence[k].nextAttemptAt <= t
                /\ LeaseFree(occurrence[k], t)}

(* The first ClaimLimit rows by scheduledAt; the choice among rows of the  *)
(* same second, which the code makes by key, is left open.                 *)
FirstRows(S) ==
  {T \in SUBSET S :
     /\ Cardinality(T) = (IF Cardinality(S) < ClaimLimit THEN Cardinality(S) ELSE ClaimLimit)
     /\ \A k \in T, j \in S \ T : k.scheduledAt <= j.scheduledAt}

Earliest(S) == {k \in S : \A j \in S : k.scheduledAt <= j.scheduledAt}

EarliestClaims(C) == {c \in C : \A d \in C : c.key.scheduledAt <= d.key.scheduledAt}

-----------------------------------------------------------------------------
(* Steps of a worker *)

Goto(w, label) == pc' = [pc EXCEPT ![w] = label]

(* A worker that stops working keeps nothing of its batch. *)
DropBatch(w) ==
  /\ now' = [now EXCEPT ![w] = 0]
  /\ listed' = [listed EXCEPT ![w] = {}]
  /\ selected' = [selected EXCEPT ![w] = {}]
  /\ claimed' = [claimed EXCEPT ![w] = {}]
  /\ current' = [current EXCEPT ![w] = {}]

(* `now` is the moment of the call, and the call may have waited in the     *)
(* queue behind other operations of the process.                            *)
CallTimes == {t \in Time : t <= clock /\ clock <= t + QueueWait}

(* reconcile at startup and runDueTriggers begin alike: list the            *)
(* registrations and compute what is due at `now`.                          *)
ListRegistrations(w, from, to) ==
  /\ pc[w] = from
  /\ Goto(w, to)
  /\ \E t \in CallTimes :
       /\ now' = [now EXCEPT ![w] = t]
       /\ listed' = [listed EXCEPT ![w] = DueKeys(t)]
  /\ UNCHANGED <<clock, tables, selected, claimed, current, provider, bounds>>

Start(w) == ListRegistrations(w, "down", "reconciling")

RunDueTriggers(w) == ListRegistrations(w, "idle", "listed")

(* Mutant: insert ... on conflict do update. *)
UpsertOccurrences(S) ==
  occurrence' = [k \in Keys |->
    IF k \in S
    THEN [NoOccurrence EXCEPT !.status = "scheduled", !.nextAttemptAt = k.scheduledAt]
    ELSE occurrence[k]]

(* insert ... on conflict do nothing: the rows that exist stay as they are. *)
InsertOccurrences(S) ==
  occurrence' = [k \in Keys |->
    IF k \in S /\ occurrence[k].status = "absent"
    THEN [NoOccurrence EXCEPT !.status = "scheduled", !.nextAttemptAt = k.scheduledAt]
    ELSE occurrence[k]]

CreateOccurrences(w) ==
  /\ pc[w] = "listed"
  /\ InsertOccurrences(listed[w])
  /\ listed' = [listed EXCEPT ![w] = {}]
  /\ Goto(w, "created")
  /\ UNCHANGED <<clock, registration, now, selected, claimed, current, provider, bounds>>

Reconcile(w) ==
  /\ pc[w] = "reconciling"
  /\ InsertOccurrences(listed[w])
  /\ DropBatch(w)
  /\ Goto(w, "idle")
  /\ UNCHANGED <<clock, registration, provider, bounds>>

SelectDue(w) ==
  /\ pc[w] = "created"
  /\ \E T \in FirstRows(DueOccurrences(now[w])) :
       selected' = [selected EXCEPT ![w] = T]
  /\ Goto(w, "claiming")
  /\ UNCHANGED <<clock, tables, now, listed, claimed, current, provider, bounds>>

(* The guarded update of one selected row.  It looks at the status and the *)
(* lease again, and not at nextAttemptAt.                                  *)
ClaimRow(w) ==
  /\ pc[w] = "claiming"
  /\ \E k \in Earliest(selected[w]) :
       /\ selected' = [selected EXCEPT ![w] = @ \ {k}]
       /\ \/ /\ occurrence[k].status \in ClaimableStatuses
             /\ LeaseFree(occurrence[k], now[w])
             /\ occurrence' = [occurrence EXCEPT
                  ![k].status = "claimed",
                  ![k].leaseOwner = w,
                  ![k].leaseExpiresAt = now[w] + LeaseSeconds]
             /\ claimed' = [claimed EXCEPT
                  ![w] = @ \cup {[key |-> k, attemptCount |-> occurrence[k].attemptCount]}]
          \/ /\ ~(/\ occurrence[k].status \in ClaimableStatuses
                  /\ LeaseFree(occurrence[k], now[w]))
             /\ UNCHANGED <<occurrence, claimed>>
  /\ UNCHANGED <<clock, registration, pc, now, listed, current, provider, bounds>>

ClaimsDone(w) ==
  /\ pc[w] = "claiming"
  /\ selected[w] = {}
  /\ Goto(w, "dispatching")
  /\ UNCHANGED <<clock, tables, batch, provider, bounds>>

(* where key = ...: whoever holds the lease, whatever the status. *)
MarkDispatching(w) ==
  /\ pc[w] = "dispatching"
  /\ \E c \in EarliestClaims(claimed[w]) :
       /\ occurrence' = [occurrence EXCEPT ![c.key].status = "dispatching",
                                           ![c.key].attemptCount = @ + 1]
       /\ current' = [current EXCEPT ![w] = {c}]
  /\ Goto(w, "marked")
  /\ UNCHANGED <<clock, registration, now, listed, selected, claimed, provider, bounds>>

CallProvider(w) ==
  /\ pc[w] = "marked"
  /\ calls' = calls \cup {c.key : c \in current[w]}
  /\ Goto(w, "calling")
  /\ UNCHANGED <<clock, tables, batch, runs, bounds>>

(* updateTerminal and markRetryWaiting clear the lease, where key = ... *)
Settle(w, c, status, nextAttemptAt) ==
  /\ occurrence' = [occurrence EXCEPT
       ![c.key].status = status,
       ![c.key].leaseOwner = NoWorker,
       ![c.key].leaseExpiresAt = 0,
       ![c.key].nextAttemptAt = nextAttemptAt]
  /\ claimed' = [claimed EXCEPT ![w] = @ \ {c}]
  /\ current' = [current EXCEPT ![w] = {}]
  /\ Goto(w, "dispatching")
  /\ UNCHANGED <<clock, registration, now, listed, selected, provider, bounds>>

Accepted(w) ==
  /\ pc[w] = "calling"
  /\ \E c \in current[w] :
       /\ c.key \in runs
       /\ Settle(w, c, "accepted", occurrence[c.key].nextAttemptAt)

Rejected(w) ==
  /\ pc[w] = "calling"
  /\ \E c \in current[w] : Settle(w, c, "rejected", occurrence[c.key].nextAttemptAt)

(* unknown_action_module and unknown_action_procedure before the call,     *)
(* procedure_result_invalid after it: failures no retry can mend.          *)
PermanentFailure(w) ==
  /\ pc[w] \in {"marked", "calling"}
  /\ \E c \in current[w] : Settle(w, c, "failed", occurrence[c.key].nextAttemptAt)

RetryAt(t, attemptNumber) == t + (IF attemptNumber < 30 THEN attemptNumber ELSE 30)

AttemptsLeft(attemptNumber) == attemptNumber < MaxDispatchAttempts

(* A transport or protocol failure, the timeout included.  The attempts    *)
(* counted are those of the row as it was claimed.                         *)
TransientFailure(w) ==
  /\ pc[w] = "calling"
  /\ \E c \in current[w] :
       IF AttemptsLeft(c.attemptCount + 1)
       THEN Settle(w, c, "retryWaiting", RetryAt(now[w], c.attemptCount + 1))
       ELSE Settle(w, c, "failed", occurrence[c.key].nextAttemptAt)

EndBatch(w) ==
  /\ pc[w] = "dispatching"
  /\ claimed[w] = {}
  /\ DropBatch(w)
  /\ Goto(w, "idle")
  /\ UNCHANGED <<clock, tables, provider, bounds>>

(* A statement fails: the tick is abandoned where it stands (runTick logs  *)
(* the error), or the startup is.                                          *)
StoreFails(w) ==
  /\ pc[w] \notin {"down", "idle"}
  /\ faults < MaxFaults
  /\ faults' = faults + 1
  /\ DropBatch(w)
  /\ Goto(w, IF pc[w] = "reconciling" THEN "down" ELSE "idle")
  /\ UNCHANGED <<clock, tables, provider, replacements>>

Crash(w) ==
  /\ pc[w] # "down"
  /\ faults < MaxFaults
  /\ faults' = faults + 1
  /\ DropBatch(w)
  /\ Goto(w, "down")
  /\ UNCHANGED <<clock, tables, provider, replacements>>

-----------------------------------------------------------------------------
(* replaceRegistrations: one transaction; an existing anchor survives an    *)
(* update that brings no startAt.                                           *)

(* Mutant: every update writes the anchor, null when there is no startAt. *)
RegisteredAnew(r, schedule, t) == [anchorAt |-> schedule.startAt, schedule |-> schedule]

Registered(r, schedule, t) ==
  [anchorAt |->
     IF schedule.startAt # NoStart THEN schedule.startAt
     ELSE IF registration[r] # NoRegistration THEN registration[r].anchorAt
     ELSE t,
   schedule |-> schedule]

(* Mutant: what a worker holds is cancelled too. *)
CancelEvenHeld(removed) ==
  occurrence' = [k \in Keys |->
    IF k.registrationKey \in removed /\ occurrence[k].status \in ClaimableStatuses
    THEN [occurrence[k] EXCEPT !.status = "cancelled"]
    ELSE occurrence[k]]

CancelRemoved(removed) ==
  occurrence' = [k \in Keys |->
    IF k.registrationKey \in removed /\ occurrence[k].status \in {"scheduled", "retryWaiting"}
    THEN [occurrence[k] EXCEPT !.status = "cancelled"]
    ELSE occurrence[k]]

OwnedBy(owner) == {r \in Registrations : OwnerOf[r] = owner}

(* Mutant: a call does not wait for the operation that is under way. *)
UpAtAll(w) == pc[w] # "down"

(* serialize: an operation starts when the one before it has ended. *)
InTurn(w) == pc[w] = "idle"

ReplaceRegistrations(w, owner) ==
  LET owned == OwnedBy(owner)
  IN  /\ InTurn(w)
      /\ replacements < MaxReplacements
      /\ replacements' = replacements + 1
      /\ \E active \in SUBSET owned : \E schedule \in [active -> Schedules], t \in CallTimes :
           /\ registration' = [r \in Registrations |->
                IF r \in active THEN Registered(r, schedule[r], t)
                ELSE IF r \in owned THEN NoRegistration
                ELSE registration[r]]
           /\ CancelRemoved({r \in owned \ active : registration[r] # NoRegistration})
      /\ UNCHANGED <<clock, pc, batch, provider, faults>>

-----------------------------------------------------------------------------
(* The action provider (pipelines.runTriggered in this system), and time    *)

(* The provider handles a call it was sent, at any later moment: before or *)
(* after the caller gave up, or crashed.  The occurrence key makes a second *)
(* call find the first call's run.                                         *)
ProviderStartsRun ==
  \E k \in calls \ runs :
    /\ runs' = runs \cup {k}
    /\ UNCHANGED <<clock, tables, pc, batch, calls, bounds>>

Tick ==
  /\ clock < MaxClock
  /\ clock' = clock + 1
  /\ UNCHANGED <<tables, pc, batch, provider, bounds>>

WorkerStep(w) ==
  \/ Start(w) \/ Reconcile(w)
  \/ RunDueTriggers(w) \/ CreateOccurrences(w) \/ SelectDue(w)
  \/ ClaimRow(w) \/ ClaimsDone(w) \/ MarkDispatching(w) \/ CallProvider(w)
  \/ Accepted(w) \/ Rejected(w) \/ PermanentFailure(w) \/ TransientFailure(w)
  \/ EndBatch(w)

Next ==
  \/ \E w \in Workers : WorkerStep(w) \/ StoreFails(w) \/ Crash(w)
  \/ \E w \in Workers, owner \in Owners : ReplaceRegistrations(w, owner)
  \/ ProviderStartsRun
  \/ Tick

Spec == Init /\ [][Next]_vars

(* The timing the leases are meant for: with several workers, a batch ends  *)
(* before the leases it took can expire.  The code does not enforce it: a   *)
(* batch is up to 50 calls of up to 30 seconds under leases of 60.          *)
Working(w) == pc[w] \notin {"down", "idle"}

BatchesWithinLeases ==
  \A w \in Workers : Working(w) /\ Workers # {w} => clock < now[w] + LeaseSeconds

TimelyNext == Next /\ BatchesWithinLeases'

TimelySpec == Init /\ [][TimelyNext]_vars

(* Liveness needs a clock that does not stop: the last second stands for    *)
(* every later one, at which all that was due after it has become due.      *)
LongAfter ==
  LET past(t) == IF t > MaxClock THEN MaxClock ELSE t
  IN  /\ clock = MaxClock
      /\ occurrence' = [k \in Keys |->
           [occurrence[k] EXCEPT !.nextAttemptAt = past(@), !.leaseExpiresAt = past(@)]]
      /\ UNCHANGED <<clock, registration, pc, batch, provider, bounds>>

(* A process that runs keeps running and one that is down is started again; *)
(* a call returns or times out (dispatchTimeoutMs), and not every operation *)
(* waits in the queue of its process for as long as one may.                *)
LiveSpec ==
  /\ Init /\ [][Next \/ LongAfter]_vars
  /\ WF_vars(Tick) /\ WF_vars(LongAfter)
  /\ \A w \in Workers :
       WF_vars(WorkerStep(w)) /\ SF_vars(RunDueTriggers(w) /\ now'[w] = clock)

-----------------------------------------------------------------------------
(* Properties *)

(* The row behind every claim a worker still holds is leased to that worker *)
(* and waits for it: nobody else may settle it (store.ts: the marks carry   *)
(* no lease or status check, so everything rests on this).                  *)
HolderOwnsRow ==
  \A w \in Workers : \A c \in claimed[w] :
    /\ occurrence[c.key].status \in {"claimed", "dispatching"}
    /\ occurrence[c.key].leaseOwner = w

(* Why HolderOwnsRow holds, worker by worker: the claims of a batch are      *)
(* distinct rows under the lease the batch took, only the one being          *)
(* dispatched is marked so, and a worker outside a batch holds nothing.      *)
LeasedClaims(w) ==
  \A c \in claimed[w] :
    /\ occurrence[c.key].status = IF c \in current[w] THEN "dispatching" ELSE "claimed"
    /\ occurrence[c.key].leaseOwner = w
    /\ occurrence[c.key].leaseExpiresAt = now[w] + LeaseSeconds

DistinctClaims(w) ==
  /\ \A c, d \in claimed[w] : c.key = d.key => c = d
  /\ \A c, d \in current[w] : c = d
  /\ \A c \in claimed[w] : c.key \notin selected[w]

BatchShape(w) ==
  /\ now[w] <= clock
  /\ current[w] \subseteq claimed[w]
  /\ pc[w] # "claiming" => selected[w] = {}
  /\ pc[w] \notin {"claiming", "dispatching", "marked", "calling"} => claimed[w] = {}
  /\ pc[w] \notin {"marked", "calling"} => current[w] = {}

Ownership == \A w \in Workers : LeasedClaims(w) /\ DistinctClaims(w) /\ BatchShape(w)

(* No two workers hold the same occurrence ("Only one worker can hold an    *)
(* active occurrence lease", triggers.md:411).                              *)
OneHolder ==
  \A v, w \in Workers : \A c \in claimed[v], d \in claimed[w] :
    c.key = d.key => v = w

(* An accepted, rejected, failed or cancelled occurrence stays as it is     *)
(* ("Terminal occurrences are never dispatched again", triggers.md:420).    *)
TerminalStays ==
  \A k \in Keys :
    occurrence[k].status \in TerminalStatuses => occurrence'[k].status = occurrence[k].status

TerminalIsFinal == [][TerminalStays]_vars

(* An occurrence is accepted only when the provider holds a run for it,     *)
(* however many attempts, timeouts and crashes came before; and a run       *)
(* exists only for an occurrence that was dispatched.                       *)
AcceptedHasRun ==
  /\ \A k \in Keys : occurrence[k].status = "accepted" => k \in runs
  /\ \A k \in runs : occurrence[k].attemptCount > 0

(* "Removing a registration stops future occurrence creation for that key"  *)
(* (triggers.md:397): a row appears only for a registration that is there.  *)
CreatedForRegistered ==
  \A k \in Keys :
    occurrence[k].status = "absent" /\ occurrence'[k].status # "absent"
      => registration[k.registrationKey] # NoRegistration

NoneCreatedAfterRemoval == [][CreatedForRegistered]_vars

(* However a worker dies or a statement fails, every occurrence that exists *)
(* is settled in the end: leases expire, retries are counted.               *)
EveryOccurrenceSettles ==
  \A k \in Keys :
    occurrence[k].status \in ClaimableStatuses ~> occurrence[k].status \in TerminalStatuses

(* Docs: missed periods after downtime are made up, and no further back     *)
(* than the lookback.  Reference definition of the periods a worker that    *)
(* ran at second t owes registration reg.                                   *)
PeriodsOwed(reg, t) ==
  {u \in Time : /\ u <= t /\ u >= t - LookbackSeconds /\ u >= Anchor(reg)
                /\ \E n \in 0..MaxClock : u = Anchor(reg) + n * reg.schedule.everySeconds}

(* The insert of a tick creates every period it owes and no other.          *)
CreatesWhatIsOwed ==
  \A w \in Workers : \A r \in Registrations :
    (/\ pc[w] = "listed" /\ pc'[w] = "created"
     /\ registration[r] # NoRegistration) =>
      LET owed == [registrationKey : {r}, scheduledAt : PeriodsOwed(registration[r], now[w])]
          new == {k \in [registrationKey : {r}, scheduledAt : Time] :
                    occurrence[k].status = "absent" /\ occurrence'[k].status # "absent"}
      IN  /\ new \subseteq owed
          /\ \A k \in owed : occurrence'[k].status # "absent"

MissedPeriodsMadeUp == [][CreatesWhatIsOwed]_vars

(* The lifecycle the documentation promises. *)
Lifecycle == INSTANCE OccurrenceLifecycle
               WITH status <- [k \in Keys |-> occurrence[k].status]

RefinesLifecycle == Lifecycle!Spec
=============================================================================
