--------------------------- MODULE TriggersProofs ---------------------------
(***************************************************************************)
(* Theorems about Triggers, for any workers, registrations and bounds.     *)
(***************************************************************************)
EXTENDS Triggers, TLAPS

-----------------------------------------------------------------------------
(* Type correctness *)

(* Every key's row keeps its shape when one field group of one row changes. *)
LEMMA InsertTyped ==
  ASSUME TypeOK, NEW S \in SUBSET Keys, InsertOccurrences(S)
  PROVE  occurrence' \in [Keys -> Occurrence]
<1>1. ASSUME NEW k \in Keys
      PROVE  [NoOccurrence EXCEPT !.status = "scheduled", !.nextAttemptAt = k.scheduledAt]
               \in Occurrence
  <2>1. k.scheduledAt \in Nat
    BY DEF Keys, Time
  <2> QED
    BY <2>1 DEF NoOccurrence, Occurrence, ClaimableStatuses
<1> QED
  BY <1>1 DEF TypeOK, InsertOccurrences

(* Recording the outcome of a call leaves every row, batch and call well typed. *)
LEMMA SettleTyped ==
  ASSUME TypeOK, NEW w \in Workers, NEW c \in current[w], NEW n \in Nat,
         NEW s \in {"accepted", "rejected", "failed", "retryWaiting"},
         Settle(w, c, s, n)
  PROVE  TypeOK'
<1>1. c.key \in Keys
  BY DEF TypeOK
<1>2. occurrence' \in [Keys -> Occurrence]
  BY <1>1 DEF TypeOK, Settle, Occurrence, ClaimableStatuses, TerminalStatuses
<1>3. /\ claimed' \in [Workers -> SUBSET [key : Keys, attemptCount : Nat]]
      /\ current' \in [Workers -> SUBSET [key : Keys, attemptCount : Nat]]
      /\ pc' \in [Workers -> PcValues]
  BY DEF TypeOK, Settle, Goto, PcValues
<1> QED
  BY <1>2, <1>3 DEF TypeOK, Settle, provider, bounds

(* What a replacement leaves in a registration row is a registration. *)
LEMMA RegisteredTyped ==
  ASSUME TypeOK, NEW r \in Registrations, NEW s \in Schedules, NEW t \in Time
  PROVE  Registered(r, s, t) \in Registration
BY RegistrationsAssumption DEF TypeOK, Registered, Registration

(* An abandoned batch leaves the worker with an empty, well typed one. *)
LEMMA DropBatchTyped ==
  ASSUME TypeOK, NEW w \in Workers, DropBatch(w)
  PROVE  /\ now' \in [Workers -> Time]
         /\ listed' \in [Workers -> SUBSET Keys]
         /\ selected' \in [Workers -> SUBSET Keys]
         /\ claimed' \in [Workers -> SUBSET [key : Keys, attemptCount : Nat]]
         /\ current' \in [Workers -> SUBSET [key : Keys, attemptCount : Nat]]
BY NumbersAssumption DEF TypeOK, DropBatch, Time

(* Every step of a tick, its failure and its crash included, keeps the types. *)
LEMMA WorkerStepTyped ==
  ASSUME TypeOK, NEW w \in Workers, WorkerStep(w)
  PROVE  TypeOK'
<1> USE DEF tables, batch, provider, bounds, Goto
<1>1. CASE Start(w) \/ RunDueTriggers(w)
  BY <1>1 DEF TypeOK, Start, RunDueTriggers, ListRegistrations, CallTimes, DueKeys, PcValues
<1>2. CASE CreateOccurrences(w)
  <2>1. occurrence' \in [Keys -> Occurrence]
    BY <1>2, InsertTyped DEF TypeOK, CreateOccurrences
  <2> QED
    BY <1>2, <2>1 DEF TypeOK, CreateOccurrences, PcValues
<1>3. CASE Reconcile(w)
  <2>1. occurrence' \in [Keys -> Occurrence]
    BY <1>3, InsertTyped DEF TypeOK, Reconcile
  <2> QED
    BY <1>3, <2>1, DropBatchTyped DEF TypeOK, Reconcile, PcValues
<1>4. CASE SelectDue(w)
  BY <1>4 DEF TypeOK, SelectDue, FirstRows, DueOccurrences, PcValues
<1>5. CASE ClaimRow(w)
  <2>1. PICK k \in Earliest(selected[w]) :
          /\ selected' = [selected EXCEPT ![w] = @ \ {k}]
          /\ \/ /\ occurrence' = [occurrence EXCEPT
                     ![k].status = "claimed",
                     ![k].leaseOwner = w,
                     ![k].leaseExpiresAt = now[w] + LeaseSeconds]
                /\ claimed' = [claimed EXCEPT
                     ![w] = @ \cup {[key |-> k, attemptCount |-> occurrence[k].attemptCount]}]
             \/ UNCHANGED <<occurrence, claimed>>
    BY <1>5 DEF ClaimRow
  <2>2. k \in Keys
    BY DEF Earliest, TypeOK
  <2>3. now[w] + LeaseSeconds \in Nat
    BY NumbersAssumption DEF TypeOK, Time
  <2>4. occurrence' \in [Keys -> Occurrence]
    BY <2>1, <2>2, <2>3 DEF TypeOK, Occurrence, ClaimableStatuses
  <2>5. [key |-> k, attemptCount |-> occurrence[k].attemptCount]
          \in [key : Keys, attemptCount : Nat]
    BY <2>2 DEF TypeOK, Occurrence
  <2>6. claimed' \in [Workers -> SUBSET [key : Keys, attemptCount : Nat]]
    BY <2>1, <2>5 DEF TypeOK
  <2> QED
    BY <1>5, <2>1, <2>4, <2>6 DEF TypeOK, ClaimRow
<1>6. CASE ClaimsDone(w)
  BY <1>6 DEF TypeOK, ClaimsDone, PcValues
<1>7. CASE MarkDispatching(w)
  <2>1. PICK c \in EarliestClaims(claimed[w]) :
          /\ occurrence' = [occurrence EXCEPT ![c.key].status = "dispatching",
                                              ![c.key].attemptCount = @ + 1]
          /\ current' = [current EXCEPT ![w] = {c}]
    BY <1>7 DEF MarkDispatching
  <2>2. c \in [key : Keys, attemptCount : Nat] /\ c.key \in Keys
    BY DEF EarliestClaims, TypeOK
  <2>3. occurrence' \in [Keys -> Occurrence]
    <3>1. occurrence[c.key] \in Occurrence
      BY <2>2 DEF TypeOK
    <3>2. occurrence[c.key].attemptCount + 1 \in Nat
      BY <3>1 DEF Occurrence
    <3>3. [occurrence[c.key] EXCEPT !.status = "dispatching", !.attemptCount = @ + 1]
            \in Occurrence
      BY <3>1, <3>2 DEF Occurrence, ClaimableStatuses
    <3> QED
      BY <2>1, <3>3 DEF TypeOK
  <2>4. current' \in [Workers -> SUBSET [key : Keys, attemptCount : Nat]]
    BY <2>1, <2>2 DEF TypeOK
  <2>5. pc' \in [Workers -> PcValues]
    BY <1>7 DEF TypeOK, MarkDispatching, PcValues
  <2> QED
    BY <1>7, <2>3, <2>4, <2>5 DEF TypeOK, MarkDispatching
<1>8. CASE CallProvider(w)
  BY <1>8 DEF TypeOK, CallProvider, PcValues
<1>9. CASE Accepted(w) \/ Rejected(w) \/ PermanentFailure(w) \/ TransientFailure(w)
  <2>1. \A c \in current[w] : occurrence[c.key].nextAttemptAt \in Nat
    BY DEF TypeOK, Occurrence
  <2>2. \A n \in Nat : RetryAt(now[w], n) \in Nat
    BY DEF RetryAt, TypeOK, Time
  <2>3. \A c \in current[w] : c.attemptCount + 1 \in Nat
    BY DEF TypeOK
  <2>4. PICK c \in current[w], n \in Nat,
              s \in {"accepted", "rejected", "failed", "retryWaiting"} : Settle(w, c, s, n)
    BY <1>9, <2>1, <2>2, <2>3 DEF Accepted, Rejected, PermanentFailure, TransientFailure
  <2> QED
    BY <2>4, SettleTyped
<1>10. CASE EndBatch(w)
  BY <1>10, DropBatchTyped DEF TypeOK, EndBatch, PcValues
<1> QED
  BY <1>1, <1>2, <1>3, <1>4, <1>5, <1>6, <1>7, <1>8, <1>9, <1>10 DEF WorkerStep

(* So does every step of the system. *)
LEMMA NextTyped ==
  ASSUME TypeOK, [Next]_vars
  PROVE  TypeOK'
<1> USE DEF tables, batch, provider, bounds, Goto
<1>1. ASSUME NEW w \in Workers, StoreFails(w) \/ Crash(w)
      PROVE  TypeOK'
  BY <1>1, DropBatchTyped, NumbersAssumption DEF TypeOK, StoreFails, Crash, PcValues
<1>2. ASSUME NEW w \in Workers, NEW owner \in Owners, ReplaceRegistrations(w, owner)
      PROVE  TypeOK'
  <2>1. registration' \in [Registrations -> Registration \cup {NoRegistration}]
    BY <1>2, RegisteredTyped DEF ReplaceRegistrations, TypeOK, CallTimes
  <2>2. occurrence' \in [Keys -> Occurrence]
    BY <1>2 DEF ReplaceRegistrations, CancelRemoved, TypeOK, Occurrence, TerminalStatuses
  <2> QED
    BY <1>2, <2>1, <2>2, NumbersAssumption DEF TypeOK, ReplaceRegistrations
<1>3. CASE ProviderStartsRun
  BY <1>3 DEF TypeOK, ProviderStartsRun
<1>4. CASE Tick
  BY <1>4, NumbersAssumption DEF TypeOK, Tick, Time
<1>5. CASE UNCHANGED vars
  BY <1>5 DEF TypeOK, vars
<1> QED
  BY <1>1, <1>2, <1>3, <1>4, <1>5, WorkerStepTyped DEF Next

(* The empty store and the idle workers are well typed. *)
LEMMA InitTyped == Init => TypeOK
BY NumbersAssumption DEF Init, TypeOK, Time, PcValues, Occurrence, NoOccurrence, ClaimableStatuses

(* The tables, the workers' batches and the provider keep their types in    *)
(* every behaviour, timely or not.                                          *)
THEOREM TypeCorrect == Spec => []TypeOK
BY InitTyped, NextTyped, PTL DEF Spec

-----------------------------------------------------------------------------
(* Ownership of claimed rows, when batches end before their leases *)

TimelyInv == TypeOK /\ Ownership /\ BatchesWithinLeases

(* A claim stays leased while its row and its worker's batch stay as they are. *)
LEMMA UntouchedClaims ==
  ASSUME Ownership, NEW w \in Workers,
         claimed'[w] \subseteq claimed[w], now'[w] = now[w],
         \A c \in claimed[w] : occurrence'[c.key] = occurrence[c.key],
         current'[w] = current[w]
  PROVE  LeasedClaims(w)'
<1>1. SUFFICES ASSUME NEW c \in claimed'[w]
      PROVE /\ occurrence'[c.key].status = IF c \in current'[w] THEN "dispatching" ELSE "claimed"
            /\ occurrence'[c.key].leaseOwner = w
            /\ occurrence'[c.key].leaseExpiresAt = now'[w] + LeaseSeconds
  BY DEF LeasedClaims
<1>2. c \in claimed[w] /\ occurrence'[c.key] = occurrence[c.key]
  OBVIOUS
<1>3. LeasedClaims(w)
  BY DEF Ownership
<1> QED
  BY <1>2, <1>3 DEF LeasedClaims

(* A row that is leased to one worker is in no other worker's batch, and not *)
(* twice in its own.                                                         *)
LEMMA OneRowOneClaim ==
  ASSUME Ownership, NEW v \in Workers, NEW w \in Workers,
         NEW c \in claimed[v], NEW d \in claimed[w], c.key = d.key
  PROVE  v = w /\ c = d
BY DEF Ownership, LeasedClaims, DistinctClaims

(* The lease of a row in someone's batch has not expired for anybody else.  *)
LEMMA HeldLeaseNotFree ==
  ASSUME TimelyInv, NEW v \in Workers, NEW w \in Workers, v # w,
         NEW c \in claimed[w]
  PROVE  ~LeaseFree(occurrence[c.key], now[v])
<1>1. /\ occurrence[c.key].leaseOwner = w
      /\ occurrence[c.key].leaseExpiresAt = now[w] + LeaseSeconds
      /\ now[v] <= clock
      /\ pc[w] \in {"claiming", "dispatching", "marked", "calling"}
  BY DEF TimelyInv, Ownership, LeasedClaims, BatchShape
<1>2. clock < now[w] + LeaseSeconds
  BY <1>1 DEF TimelyInv, BatchesWithinLeases, Working
<1>3. now[v] \in Int /\ now[w] + LeaseSeconds \in Int /\ clock \in Int
  BY NumbersAssumption DEF TimelyInv, TypeOK, Time
<1> QED
  BY <1>1, <1>2, <1>3, RegistrationsAssumption DEF LeaseFree

(* A step of worker v leaves the batches, and the rows, of the others alone. *)
OthersUntouched(v) ==
  /\ clock' = clock
  /\ \A w \in Workers \ {v} :
       /\ now'[w] = now[w] /\ selected'[w] = selected[w] /\ claimed'[w] = claimed[w]
       /\ current'[w] = current[w] /\ pc'[w] = pc[w]
       /\ \A c \in claimed[w] : occurrence'[c.key] = occurrence[c.key]

(* A worker that leaves the others alone keeps the ownership invariant when *)
(* what it holds itself is leased, without duplicates and of the right shape. *)
LEMMA StepOwns ==
  ASSUME TimelyInv, NEW v \in Workers, OthersUntouched(v),
         LeasedClaims(v)', DistinctClaims(v)', BatchShape(v)'
  PROVE  Ownership'
<1>1. ASSUME NEW w \in Workers, w # v
      PROVE  LeasedClaims(w)' /\ DistinctClaims(w)' /\ BatchShape(w)'
  <2>1. LeasedClaims(w)'
    BY <1>1, UntouchedClaims DEF TimelyInv, OthersUntouched
  <2> QED
    BY <1>1, <2>1 DEF TimelyInv, Ownership, DistinctClaims, BatchShape, OthersUntouched
<1> QED
  BY <1>1 DEF Ownership

(* A worker that drops its batch holds nothing, so nothing can be lost of it. *)
LEMMA DroppedBatchOwns ==
  ASSUME TimelyInv, NEW v \in Workers, DropBatch(v), OthersUntouched(v)
  PROVE  Ownership'
<1>1. /\ now'[v] = 0 /\ selected'[v] = {} /\ claimed'[v] = {} /\ current'[v] = {}
  BY DEF DropBatch, TimelyInv, TypeOK
<1>2. LeasedClaims(v)' /\ DistinctClaims(v)' /\ BatchShape(v)'
  BY <1>1, NumbersAssumption
  DEF LeasedClaims, DistinctClaims, BatchShape, TimelyInv, TypeOK, Time, OthersUntouched
<1> QED
  BY <1>2, StepOwns

(* Rows in somebody's batch exist, so no insert and no cancellation of       *)
(* waiting occurrences reaches them.                                         *)
LEMMA HeldRowIsActive ==
  ASSUME Ownership, NEW w \in Workers, NEW c \in claimed[w]
  PROVE  occurrence[c.key].status \in {"claimed", "dispatching"}
BY DEF Ownership, LeasedClaims

(* INSERT ... ON CONFLICT DO NOTHING leaves the rows of every batch alone. *)
LEMMA InsertLeavesHeld ==
  ASSUME TimelyInv, NEW S, InsertOccurrences(S), NEW w \in Workers, NEW c \in claimed[w]
  PROVE  occurrence'[c.key] = occurrence[c.key]
<1>1. c.key \in Keys
  BY DEF TimelyInv, TypeOK
<1>2. occurrence[c.key].status # "absent"
  BY HeldRowIsActive DEF TimelyInv
<1> QED
  BY <1>1, <1>2 DEF InsertOccurrences

(* Reading the registrations touches no batch: the worker has none yet. *)
LEMMA ListingOwns ==
  ASSUME TimelyInv, NEW v \in Workers,
         NEW from \in {"down", "idle"}, NEW to \in {"reconciling", "listed"},
         ListRegistrations(v, from, to)
  PROVE  Ownership'
<1>1. OthersUntouched(v)
  BY DEF OthersUntouched, ListRegistrations, Goto, TimelyInv, TypeOK, tables
<1>2. /\ selected'[v] = {} /\ claimed'[v] = {} /\ current'[v] = {} /\ pc'[v] = to
      /\ now'[v] <= clock' /\ claimed[v] = {}
  BY DEF ListRegistrations, Goto, TimelyInv, TypeOK, Ownership, BatchShape, CallTimes
<1> QED
  BY <1>1, <1>2, StepOwns DEF LeasedClaims, DistinctClaims, BatchShape

(* Inserting what is due, and ending a batch. *)
LEMMA InsertOwns ==
  ASSUME TimelyInv, NEW v \in Workers, CreateOccurrences(v) \/ Reconcile(v)
  PROVE  Ownership'
<1>1. CASE CreateOccurrences(v)
  <2>1. OthersUntouched(v)
    BY <1>1, InsertLeavesHeld
    DEF OthersUntouched, CreateOccurrences, Goto, TimelyInv, TypeOK
  <2>2. /\ now'[v] = now[v] /\ selected'[v] = {} /\ claimed'[v] = {} /\ current'[v] = {}
        /\ pc'[v] = "created"
    BY <1>1 DEF CreateOccurrences, Goto, TimelyInv, TypeOK, Ownership, BatchShape
  <2>3. now'[v] <= clock'
    BY <1>1 DEF CreateOccurrences, TimelyInv, Ownership, BatchShape
  <2> QED
    BY <2>1, <2>2, <2>3, StepOwns DEF LeasedClaims, DistinctClaims, BatchShape
<1>2. CASE Reconcile(v)
  <2>1. OthersUntouched(v)
    BY <1>2, InsertLeavesHeld
    DEF OthersUntouched, Reconcile, DropBatch, Goto, TimelyInv, TypeOK
  <2> QED
    BY <1>2, <2>1, DroppedBatchOwns DEF Reconcile
<1> QED
  BY <1>1, <1>2

(* Reading the due occurrences claims nothing. *)
LEMMA SelectOwns ==
  ASSUME TimelyInv, NEW v \in Workers, SelectDue(v)
  PROVE  Ownership'
<1>1. OthersUntouched(v)
  BY DEF OthersUntouched, SelectDue, Goto, TimelyInv, TypeOK, tables
<1>2. /\ now'[v] = now[v] /\ claimed'[v] = {} /\ current'[v] = {} /\ pc'[v] = "claiming"
  BY DEF SelectDue, Goto, TimelyInv, TypeOK, Ownership, BatchShape
<1>3. now'[v] <= clock'
  BY DEF SelectDue, TimelyInv, Ownership, BatchShape
<1> QED
  BY <1>1, <1>2, <1>3, StepOwns DEF LeasedClaims, DistinctClaims, BatchShape

(* The guard of the claiming update is what keeps two workers apart: a row    *)
(* in another's batch is under a lease that has not run out.                 *)
LEMMA ClaimRowOwns ==
  ASSUME TimelyInv, NEW v \in Workers, ClaimRow(v)
  PROVE  Ownership'
<1> USE DEF ClaimRow
<1>1. PICK k \in selected[v] :
        /\ selected' = [selected EXCEPT ![v] = @ \ {k}]
        /\ \/ /\ LeaseFree(occurrence[k], now[v])
              /\ occurrence' = [occurrence EXCEPT
                   ![k].status = "claimed",
                   ![k].leaseOwner = v,
                   ![k].leaseExpiresAt = now[v] + LeaseSeconds]
              /\ claimed' = [claimed EXCEPT
                   ![v] = @ \cup {[key |-> k, attemptCount |-> occurrence[k].attemptCount]}]
           \/ UNCHANGED <<occurrence, claimed>>
  BY DEF Earliest
<1>2. /\ now'[v] = now[v] /\ current'[v] = {} /\ pc'[v] = "claiming"
      /\ selected'[v] = selected[v] \ {k} /\ now'[v] <= clock' /\ k \in Keys
  BY <1>1 DEF TimelyInv, TypeOK, Ownership, BatchShape
<1>3. BatchShape(v)'
  BY <1>2 DEF BatchShape
<1>4. CASE UNCHANGED <<occurrence, claimed>>
  <2>1. OthersUntouched(v)
    BY <1>1, <1>4 DEF OthersUntouched, TimelyInv, TypeOK
  <2>2. LeasedClaims(v)' /\ DistinctClaims(v)'
    BY <1>1, <1>2, <1>4 DEF TimelyInv, TypeOK, Ownership, LeasedClaims, DistinctClaims, BatchShape
  <2> QED
    BY <1>3, <2>1, <2>2, StepOwns
<1>5. CASE /\ LeaseFree(occurrence[k], now[v])
           /\ occurrence' = [occurrence EXCEPT
                ![k].status = "claimed",
                ![k].leaseOwner = v,
                ![k].leaseExpiresAt = now[v] + LeaseSeconds]
           /\ claimed' = [claimed EXCEPT
                ![v] = @ \cup {[key |-> k, attemptCount |-> occurrence[k].attemptCount]}]
  <2> DEFINE new == [key |-> k, attemptCount |-> occurrence[k].attemptCount]
  <2>1. \A w \in Workers \ {v} : \A c \in claimed[w] : c.key # k /\ c.key \in Keys
    BY <1>5, HeldLeaseNotFree DEF TimelyInv, TypeOK
  <2>2. OthersUntouched(v)
    BY <1>1, <1>5, <2>1 DEF OthersUntouched, TimelyInv, TypeOK
  <2>3. claimed'[v] = claimed[v] \cup {new}
    BY <1>5 DEF TimelyInv, TypeOK
  <2>4. \A c \in claimed[v] : c.key # k /\ c.key \in Keys
    BY <1>1 DEF TimelyInv, TypeOK, Ownership, DistinctClaims
  <2>5. /\ occurrence'[k].status = "claimed" /\ occurrence'[k].leaseOwner = v
        /\ occurrence'[k].leaseExpiresAt = now[v] + LeaseSeconds
    BY <1>2, <1>5 DEF TimelyInv, TypeOK, Occurrence
  <2>6. \A c \in claimed[v] : occurrence'[c.key] = occurrence[c.key]
    BY <1>5, <2>4 DEF TimelyInv, TypeOK
  <2>7. LeasedClaims(v)'
    <3>1. SUFFICES ASSUME NEW c \in claimed'[v]
          PROVE /\ occurrence'[c.key].status = "claimed"
                /\ occurrence'[c.key].leaseOwner = v
                /\ occurrence'[c.key].leaseExpiresAt = now[v] + LeaseSeconds
      BY <1>2 DEF LeasedClaims
    <3>2. CASE c = new
      BY <2>5, <3>2
    <3>3. CASE c \in claimed[v]
      <4>1. LeasedClaims(v) /\ current[v] = {}
        BY DEF TimelyInv, Ownership, BatchShape
      <4> QED
        BY <2>6, <3>3, <4>1 DEF LeasedClaims
    <3> QED
      BY <2>3, <3>2, <3>3
  <2>8. DistinctClaims(v)'
    BY <1>2, <2>3, <2>4 DEF TimelyInv, Ownership, DistinctClaims
  <2> QED
    BY <1>3, <2>2, <2>7, <2>8, StepOwns
<1> QED
  BY <1>1, <1>4, <1>5

(* A worker that writes the row of one of its claims writes no other claim's. *)
LEMMA OwnRowOnly ==
  ASSUME TimelyInv, NEW v \in Workers, NEW c \in claimed[v],
         NEW w \in Workers, NEW d \in claimed[w], d # c
  PROVE  d.key # c.key /\ d.key \in Keys
<1>1. d.key # c.key
  BY OneRowOneClaim DEF TimelyInv
<1>2. d.key \in Keys
  BY DEF TimelyInv, TypeOK
<1> QED
  BY <1>1, <1>2

(* markOccurrenceDispatching writes the row of the worker's own claim, so the *)
(* leases of the other batches stay. *)
LEMMA MarkOwns ==
  ASSUME TimelyInv, NEW v \in Workers, MarkDispatching(v)
  PROVE  Ownership'
<1> USE DEF MarkDispatching, Goto
<1>1. PICK c \in claimed[v] :
        /\ occurrence' = [occurrence EXCEPT ![c.key].status = "dispatching",
                                            ![c.key].attemptCount = @ + 1]
        /\ current' = [current EXCEPT ![v] = {c}]
  BY DEF EarliestClaims
<1>2. \A w \in Workers : \A d \in claimed[w] : d # c => occurrence'[d.key] = occurrence[d.key]
  BY <1>1, OwnRowOnly DEF TimelyInv, TypeOK
<1>3. \A w \in Workers \ {v} : \A d \in claimed[w] : d # c
  BY OneRowOneClaim DEF TimelyInv
<1>4. OthersUntouched(v)
  BY <1>1, <1>2, <1>3 DEF OthersUntouched, TimelyInv, TypeOK
<1>5. /\ now'[v] = now[v] /\ claimed'[v] = claimed[v] /\ current'[v] = {c}
      /\ selected'[v] = selected[v] /\ pc'[v] = "marked" /\ now'[v] <= clock'
      /\ selected[v] = {} /\ current[v] = {}
  BY <1>1 DEF TimelyInv, TypeOK, Ownership, BatchShape
<1>6. /\ occurrence'[c.key].status = "dispatching"
      /\ occurrence'[c.key].leaseOwner = occurrence[c.key].leaseOwner
      /\ occurrence'[c.key].leaseExpiresAt = occurrence[c.key].leaseExpiresAt
  <2>1. c.key \in Keys
    BY DEF TimelyInv, TypeOK
  <2> QED
    BY <1>1, <2>1 DEF TimelyInv, TypeOK, Occurrence
<1>7. LeasedClaims(v)'
  <2>1. LeasedClaims(v)
    BY DEF TimelyInv, Ownership
  <2> QED
    BY <1>2, <1>5, <1>6, <2>1 DEF LeasedClaims
<1>8. DistinctClaims(v)' /\ BatchShape(v)'
  BY <1>5 DEF TimelyInv, Ownership, DistinctClaims, BatchShape
<1> QED
  BY <1>4, <1>7, <1>8, StepOwns

(* Recording an outcome writes the worker's own row and gives the claim up. *)
LEMMA SettleOwns ==
  ASSUME TimelyInv, NEW v \in Workers, NEW c \in current[v], NEW s, NEW n, Settle(v, c, s, n)
  PROVE  Ownership'
<1> USE DEF Settle, Goto
<1>1. c \in claimed[v] /\ selected[v] = {} /\ now[v] <= clock
  BY DEF TimelyInv, Ownership, BatchShape, DistinctClaims
<1>2. \A w \in Workers : \A d \in claimed[w] : d # c => occurrence'[d.key] = occurrence[d.key]
  BY <1>1, OwnRowOnly DEF TimelyInv, TypeOK
<1>3. \A w \in Workers \ {v} : \A d \in claimed[w] : d # c
  BY <1>1, OneRowOneClaim DEF TimelyInv
<1>4. OthersUntouched(v)
  BY <1>2, <1>3 DEF OthersUntouched, TimelyInv, TypeOK
<1>5. /\ now'[v] = now[v] /\ claimed'[v] = claimed[v] \ {c} /\ current'[v] = {}
      /\ selected'[v] = {} /\ pc'[v] = "dispatching" /\ now'[v] <= clock'
  BY <1>1 DEF TimelyInv, TypeOK
<1>6. LeasedClaims(v)'
  <2>1. SUFFICES ASSUME NEW d \in claimed[v], d # c
        PROVE /\ occurrence'[d.key].status = "claimed"
              /\ occurrence'[d.key].leaseOwner = v
              /\ occurrence'[d.key].leaseExpiresAt = now'[v] + LeaseSeconds
    BY <1>5 DEF LeasedClaims
  <2>2. LeasedClaims(v) /\ d \notin current[v]
    BY <2>1 DEF TimelyInv, Ownership, DistinctClaims
  <2> QED
    BY <1>2, <1>5, <2>1, <2>2 DEF LeasedClaims
<1>7. DistinctClaims(v)' /\ BatchShape(v)'
  BY <1>5 DEF TimelyInv, Ownership, DistinctClaims, BatchShape
<1> QED
  BY <1>4, <1>6, <1>7, StepOwns

(* Every step of a tick keeps each held row leased to its holder. *)
LEMMA WorkerStepOwns ==
  ASSUME TimelyInv, NEW v \in Workers, WorkerStep(v)
  PROVE  Ownership'
<1> USE DEF Goto
<1>1. CASE Start(v) \/ RunDueTriggers(v)
  BY <1>1, ListingOwns DEF Start, RunDueTriggers
<1>2. CASE ClaimsDone(v) \/ CallProvider(v)
  <2>1. /\ UNCHANGED <<clock, occurrence, now, selected, claimed, current>>
        /\ \A w \in Workers \ {v} : pc'[w] = pc[w]
    BY <1>2 DEF ClaimsDone, CallProvider, tables, batch, TimelyInv, TypeOK
  <2>2. OthersUntouched(v)
    BY <2>1 DEF OthersUntouched
  <2>3. pc'[v] \in {"dispatching", "calling"} /\ selected[v] = {}
    BY <1>2 DEF ClaimsDone, CallProvider, TimelyInv, TypeOK, Ownership, BatchShape
  <2>4. pc'[v] = "dispatching" => current[v] = {}
    BY <1>2 DEF ClaimsDone, CallProvider, TimelyInv, TypeOK, Ownership, BatchShape
  <2>5. LeasedClaims(v)' /\ DistinctClaims(v)'
    BY <2>1 DEF TimelyInv, Ownership, LeasedClaims, DistinctClaims
  <2>6. BatchShape(v)'
    BY <2>1, <2>3, <2>4 DEF TimelyInv, Ownership, BatchShape
  <2> QED
    BY <2>2, <2>5, <2>6, StepOwns
<1>3. CASE Accepted(v) \/ Rejected(v) \/ PermanentFailure(v) \/ TransientFailure(v)
  BY <1>3, SettleOwns DEF Accepted, Rejected, PermanentFailure, TransientFailure
<1>4. CASE EndBatch(v)
  <2>1. OthersUntouched(v)
    BY <1>4 DEF OthersUntouched, EndBatch, DropBatch, TimelyInv, TypeOK, tables
  <2> QED
    BY <1>4, <2>1, DroppedBatchOwns DEF EndBatch
<1> QED
  BY <1>1, <1>2, <1>3, <1>4, InsertOwns, SelectOwns, ClaimRowOwns, MarkOwns DEF WorkerStep

(* So does every step of the system: a replacement cancels only waiting rows, *)
(* and time passes only within the leases of the batches under way. *)
LEMMA NextOwns ==
  ASSUME TimelyInv, [Next]_vars
  PROVE  Ownership'
<1> USE DEF Goto
<1>1. ASSUME NEW v \in Workers, StoreFails(v) \/ Crash(v)
      PROVE  Ownership'
  <2>1. OthersUntouched(v)
    BY <1>1 DEF OthersUntouched, StoreFails, Crash, DropBatch, TimelyInv, TypeOK, tables
  <2> QED
    BY <1>1, <2>1, DroppedBatchOwns DEF StoreFails, Crash
<1>2. ASSUME NEW v \in Workers, NEW owner \in Owners, ReplaceRegistrations(v, owner)
      PROVE  Ownership'
  <2>1. \A w \in Workers : \A c \in claimed[w] : occurrence'[c.key] = occurrence[c.key]
    <3> TAKE w \in Workers
    <3> TAKE c \in claimed[w]
    <3>2. c.key \in Keys /\ occurrence[c.key].status \in {"claimed", "dispatching"}
      BY HeldRowIsActive DEF TimelyInv, TypeOK
    <3> QED
      BY <1>2, <3>2 DEF ReplaceRegistrations, CancelRemoved
  <2>2. UNCHANGED <<clock, pc, batch>>
    BY <1>2 DEF ReplaceRegistrations
  <2>3. ASSUME NEW w \in Workers PROVE LeasedClaims(w)'
    BY <2>1, <2>2, UntouchedClaims DEF batch, TimelyInv
  <2> QED
    BY <2>2, <2>3 DEF TimelyInv, Ownership, DistinctClaims, BatchShape, batch
<1>3. CASE ProviderStartsRun \/ UNCHANGED vars
  BY <1>3 DEF ProviderStartsRun, vars, tables, batch, TimelyInv, Ownership, LeasedClaims,
              DistinctClaims, BatchShape
<1>4. CASE Tick
  <2>1. UNCHANGED <<occurrence, pc, now, selected, claimed, current>> /\ clock' = clock + 1
    BY <1>4 DEF Tick, tables, batch
  <2>2. \A w \in Workers : now[w] <= clock + 1
    BY NumbersAssumption DEF TimelyInv, TypeOK, Time, Ownership, BatchShape
  <2> QED
    BY <2>1, <2>2 DEF TimelyInv, Ownership, LeasedClaims, DistinctClaims, BatchShape
<1> QED
  BY <1>1, <1>2, <1>3, <1>4, WorkerStepOwns DEF Next

(* The strengthened invariant is inductive under the timely steps. *)
LEMMA TimelyStep ==
  ASSUME TimelyInv, [TimelyNext]_vars
  PROVE  TimelyInv'
<1>1. [Next]_vars
  BY DEF TimelyNext
<1>2. BatchesWithinLeases'
  BY DEF TimelyNext, TimelyInv, BatchesWithinLeases, Working, vars, batch
<1> QED
  BY <1>1, <1>2, NextTyped, NextOwns DEF TimelyInv

(* It holds at the start, when nobody holds anything. *)
LEMMA InitOwns == Init => TimelyInv
<1> SUFFICES ASSUME Init PROVE TimelyInv
  OBVIOUS
<1>1. TypeOK
  BY InitTyped
<1>2. Ownership
  BY NumbersAssumption DEF Init, Ownership, LeasedClaims, DistinctClaims, BatchShape
<1>3. BatchesWithinLeases
  BY DEF Init, BatchesWithinLeases, Working
<1> QED
  BY <1>1, <1>2, <1>3 DEF TimelyInv

(* As long as batches end within their leases, every row in a worker's hands is *)
(* leased to it until after the present, in the status its step expects, and no *)
(* row is in two hands: the inductive invariant the three theorems rest on. *)
THEOREM TimelyInvariant == TimelySpec => []TimelyInv
BY InitOwns, TimelyStep, PTL DEF TimelySpec

(* Every claim in a worker's hands stays leased to it, for any number of      *)
(* workers, occurrences and ticks, as long as batches end within their       *)
(* leases: the marks of store.ts, which check nothing, are then safe.        *)
THEOREM HoldersOwnTheirRows == TimelySpec => []HolderOwnsRow
<1>1. TimelyInv => HolderOwnsRow
  BY DEF TimelyInv, Ownership, LeasedClaims, HolderOwnsRow
<1> QED
  BY <1>1, TimelyInvariant, PTL

(* No two workers ever hold the same occurrence ("Only one worker can hold   *)
(* an active occurrence lease", triggers.md:411), under the same condition.  *)
THEOREM OnlyOneHolder == TimelySpec => []OneHolder
<1>1. TimelyInv => OneHolder
  BY DEF TimelyInv, Ownership, LeasedClaims, OneHolder
<1> QED
  BY <1>1, TimelyInvariant, PTL

-----------------------------------------------------------------------------
(* The lifecycle *)

(* A write of one row that an action is entitled to is a move of the         *)
(* lifecycle.                                                                *)
LEMMA MoveOne ==
  ASSUME TypeOK, NEW k \in Keys, NEW from, NEW to,
         occurrence[k].status \in from, occurrence'[k].status = to,
         \A j \in Keys \ {k} : occurrence'[j].status = occurrence[j].status
  PROVE  Lifecycle!Move({k}, from, to)
BY DEF Lifecycle!Move

(* An insert creates the absent rows among those it was given. *)
LEMMA InsertIsCreate ==
  ASSUME TypeOK, NEW S, InsertOccurrences(S)
  PROVE  Lifecycle!Create
<1> DEFINE new == {k \in Keys : k \in S /\ occurrence[k].status = "absent"}
<1>1. \A k \in Keys : occurrence'[k].status = IF k \in new THEN "scheduled" ELSE occurrence[k].status
  BY DEF InsertOccurrences, NoOccurrence
<1>2. Lifecycle!Move(new, {"absent"}, "scheduled")
  BY <1>1 DEF Lifecycle!Move
<1> QED
  BY <1>2 DEF Lifecycle!Create

(* cancelPendingOccurrences is the abstract cancellation of waiting rows. *)
LEMMA CancelIsCancel ==
  ASSUME TypeOK, NEW R, CancelRemoved(R)
  PROVE  Lifecycle!Cancel
<1> DEFINE gone == {k \in Keys : /\ k.registrationKey \in R
                                 /\ occurrence[k].status \in {"scheduled", "retryWaiting"}}
<1>1. \A k \in Keys : occurrence'[k].status = IF k \in gone THEN "cancelled" ELSE occurrence[k].status
  BY DEF CancelRemoved, TypeOK, Occurrence
<1>2. Lifecycle!Move(gone, {"scheduled", "retryWaiting"}, "cancelled")
  BY <1>1 DEF Lifecycle!Move
<1> QED
  BY <1>2 DEF Lifecycle!Cancel

(* The claiming update is the abstract claim: its guard admits a due row, or one *)
(* whose lease ran out, and nothing terminal. *)
LEMMA ClaimIsClaim ==
  ASSUME TypeOK, NEW v \in Workers, ClaimRow(v)
  PROVE  Lifecycle!Next \/ UNCHANGED occurrence
<1>1. CASE UNCHANGED occurrence
  BY <1>1
<1>2. ASSUME NEW k \in Keys, occurrence[k].status \in ClaimableStatuses,
             occurrence' = [occurrence EXCEPT
               ![k].status = "claimed",
               ![k].leaseOwner = v,
               ![k].leaseExpiresAt = now[v] + LeaseSeconds]
      PROVE  Lifecycle!Claim(k)
  <2>1. occurrence'[k].status = "claimed"
    BY <1>2 DEF TypeOK, Occurrence
  <2>2. \A j \in Keys \ {k} : occurrence'[j].status = occurrence[j].status
    BY <1>2 DEF TypeOK
  <2> QED
    BY <1>2, <2>1, <2>2, MoveOne DEF Lifecycle!Claim, Lifecycle!ClaimableStatuses, ClaimableStatuses
<1> QED
  BY <1>1, <1>2 DEF ClaimRow, Earliest, TypeOK, Lifecycle!Next

(* The marks test nothing: that the row is in the state they leave is what   *)
(* the invariant says of a row in a batch.                                   *)
LEMMA MarkIsDispatch ==
  ASSUME TimelyInv, NEW v \in Workers, MarkDispatching(v)
  PROVE  Lifecycle!Next
<1>1. PICK c \in claimed[v] :
        occurrence' = [occurrence EXCEPT ![c.key].status = "dispatching",
                                         ![c.key].attemptCount = @ + 1]
  BY DEF EarliestClaims, MarkDispatching
<1>2. c.key \in Keys /\ occurrence[c.key].status = "claimed"
  BY DEF MarkDispatching, TimelyInv, TypeOK, Ownership, LeasedClaims, BatchShape
<1>3. occurrence'[c.key].status = "dispatching"
  BY <1>1, <1>2 DEF TimelyInv, TypeOK, Occurrence
<1>4. \A j \in Keys \ {c.key} : occurrence'[j].status = occurrence[j].status
  BY <1>1, <1>2 DEF TimelyInv, TypeOK
<1>5. Lifecycle!Dispatch(c.key)
  BY <1>2, <1>3, <1>4, MoveOne DEF Lifecycle!Dispatch, TimelyInv
<1> QED
  BY <1>2, <1>5 DEF Lifecycle!Next

(* Recording an outcome settles a dispatching row, as the invariant says it is. *)
LEMMA SettleIsSettle ==
  ASSUME TimelyInv, NEW v \in Workers, NEW c \in current[v], NEW n,
         NEW s \in {"accepted", "rejected", "failed", "retryWaiting"}, Settle(v, c, s, n)
  PROVE  Lifecycle!Next
<1>1. c.key \in Keys /\ occurrence[c.key].status = "dispatching"
  BY DEF TimelyInv, TypeOK, Ownership, LeasedClaims, BatchShape
<1>2. occurrence'[c.key].status = s
  BY <1>1 DEF Settle, TimelyInv, TypeOK, Occurrence
<1>3. \A j \in Keys \ {c.key} : occurrence'[j].status = occurrence[j].status
  BY <1>1 DEF Settle, TimelyInv, TypeOK
<1>4. Lifecycle!Settle(c.key)
  BY <1>1, <1>2, <1>3, MoveOne DEF Lifecycle!Settle, TimelyInv
<1> QED
  BY <1>1, <1>4 DEF Lifecycle!Next

(* Every timely step of the tables and workers is a step of the lifecycle of *)
(* the occurrences, or leaves them all as they are. *)
LEMMA StepIsLifecycleStep ==
  ASSUME TimelyInv, [Next]_vars
  PROVE  Lifecycle!Next \/ UNCHANGED occurrence
<1>1. ASSUME NEW v \in Workers, WorkerStep(v)
      PROVE  Lifecycle!Next \/ UNCHANGED occurrence
  <2>1. CASE Start(v) \/ RunDueTriggers(v) \/ SelectDue(v) \/ ClaimsDone(v) \/ CallProvider(v)
             \/ EndBatch(v)
    BY <2>1 DEF Start, RunDueTriggers, ListRegistrations, SelectDue, ClaimsDone, CallProvider,
                EndBatch, tables
  <2>2. CASE Reconcile(v) \/ CreateOccurrences(v)
    BY <2>2, InsertIsCreate DEF Reconcile, CreateOccurrences, TimelyInv, Lifecycle!Next
  <2>3. CASE Accepted(v) \/ Rejected(v) \/ PermanentFailure(v) \/ TransientFailure(v)
    BY <2>3, SettleIsSettle DEF Accepted, Rejected, PermanentFailure, TransientFailure
  <2> QED
    BY <1>1, <2>1, <2>2, <2>3, ClaimIsClaim, MarkIsDispatch DEF WorkerStep, TimelyInv
<1>2. ASSUME NEW v \in Workers, NEW owner \in Owners, ReplaceRegistrations(v, owner)
      PROVE  Lifecycle!Next
  BY <1>2, CancelIsCancel DEF ReplaceRegistrations, TimelyInv, Lifecycle!Next
<1>3. ASSUME \/ \E v \in Workers : StoreFails(v) \/ Crash(v)
             \/ ProviderStartsRun \/ Tick \/ UNCHANGED vars
      PROVE  UNCHANGED occurrence
  BY <1>3 DEF StoreFails, Crash, ProviderStartsRun, Tick, vars, tables
<1> QED
  BY <1>1, <1>2, <1>3 DEF Next

(* The tables, leases and workers carry out the lifecycle the documentation  *)
(* gives an occurrence: created once, dispatched only after a claim, settled *)
(* only by the dispatch, cancelled only while it waits (triggers.md,         *)
(* "Occurrence Lifecycle").                                                  *)
THEOREM ImplementsLifecycle == TimelySpec => RefinesLifecycle
<1>1. Init => Lifecycle!Init
  BY DEF Init, Lifecycle!Init, NoOccurrence
<1>2. TimelyInv /\ [TimelyNext]_vars => [Lifecycle!Next]_[k \in Keys |-> occurrence[k].status]
  BY StepIsLifecycleStep DEF TimelyNext
<1> QED
  BY <1>1, <1>2, TimelyInvariant, PTL DEF TimelySpec, RefinesLifecycle, Lifecycle!Spec

(* An accepted, rejected, failed or cancelled occurrence stays what it is    *)
(* ("Terminal occurrences are never dispatched again", triggers.md:420).     *)
THEOREM TerminalForGood == TimelySpec => TerminalIsFinal
<1>1. TimelyInv /\ [TimelyNext]_vars => [TerminalStays]_vars
  <2> SUFFICES ASSUME TimelyInv, [Next]_vars, NEW k \in Keys,
                      occurrence[k].status \in TerminalStatuses
               PROVE  occurrence'[k].status = occurrence[k].status
    BY DEF TimelyNext, TerminalStays
  <2>1. CASE UNCHANGED occurrence
    BY <2>1
  <2>2. CASE Lifecycle!Next
    BY <2>2 DEF Lifecycle!Next, Lifecycle!Create, Lifecycle!Cancel, Lifecycle!Claim,
                Lifecycle!Dispatch, Lifecycle!Settle, Lifecycle!Move,
                Lifecycle!ClaimableStatuses, TerminalStatuses
  <2> QED
    BY <2>1, <2>2, StepIsLifecycleStep
<1> QED
  BY <1>1, TimelyInvariant, PTL DEF TimelySpec, TerminalIsFinal

-----------------------------------------------------------------------------
(* Accepted occurrences and the provider's runs, without any timing          *)

Attempted(k) == occurrence[k].status # "absent" /\ occurrence[k].attemptCount > 0

AttemptsInv ==
  /\ TypeOK
  /\ runs \subseteq calls
  /\ \A k \in calls : Attempted(k)
  /\ \A w \in Workers : \A c \in current[w] : Attempted(c.key)
  /\ \A k \in Keys : occurrence[k].status = "accepted" => k \in runs

(* No step takes an attempt back. *)
LEMMA AttemptedStays ==
  ASSUME TypeOK, [Next]_vars, NEW k \in Keys, Attempted(k)
  PROVE  Attempted(k)'
<1> USE DEF Attempted
<1>1. ASSUME NEW S, InsertOccurrences(S)
      PROVE  Attempted(k)'
  BY <1>1 DEF InsertOccurrences
<1>2. ASSUME NEW w \in Workers, ClaimRow(w)
      PROVE  Attempted(k)'
  <2>1. PICK j \in selected[w] :
          \/ UNCHANGED occurrence
          \/ occurrence' = [occurrence EXCEPT ![j].status = "claimed", ![j].leaseOwner = w,
                                              ![j].leaseExpiresAt = now[w] + LeaseSeconds]
    BY <1>2 DEF ClaimRow, Earliest
  <2> QED
    BY <2>1 DEF TypeOK, Occurrence
<1>3. ASSUME NEW w \in Workers, MarkDispatching(w)
      PROVE  Attempted(k)'
  <2>1. PICK c \in claimed[w] :
          occurrence' = [occurrence EXCEPT ![c.key].status = "dispatching",
                                           ![c.key].attemptCount = @ + 1]
    BY <1>3 DEF MarkDispatching, EarliestClaims
  <2>2. occurrence[k] \in Occurrence /\ occurrence[k].attemptCount + 1 > 0
    BY DEF TypeOK, Occurrence
  <2> QED
    BY <2>1, <2>2 DEF TypeOK, Occurrence
<1>4. ASSUME NEW w \in Workers, NEW c \in current[w], NEW n,
             NEW s \in {"accepted", "rejected", "failed", "retryWaiting"}, Settle(w, c, s, n)
      PROVE  Attempted(k)'
  BY <1>4 DEF Settle, TypeOK, Occurrence
<1>5. ASSUME NEW w \in Workers, NEW owner \in Owners, ReplaceRegistrations(w, owner)
      PROVE  Attempted(k)'
  BY <1>5 DEF ReplaceRegistrations, CancelRemoved, TypeOK, Occurrence
<1>6. ASSUME UNCHANGED occurrence
      PROVE  Attempted(k)'
  BY <1>6
<1>7. ASSUME NEW w \in Workers, WorkerStep(w)
      PROVE  Attempted(k)'
  <2>1. CASE Start(w) \/ RunDueTriggers(w) \/ SelectDue(w) \/ ClaimsDone(w) \/ CallProvider(w)
             \/ EndBatch(w)
    BY <2>1, <1>6 DEF Start, RunDueTriggers, ListRegistrations, SelectDue, ClaimsDone,
                      CallProvider, EndBatch, tables
  <2>2. CASE Reconcile(w) \/ CreateOccurrences(w)
    BY <2>2, <1>1 DEF Reconcile, CreateOccurrences
  <2>3. CASE Accepted(w) \/ Rejected(w) \/ PermanentFailure(w) \/ TransientFailure(w)
    BY <2>3, <1>4 DEF Accepted, Rejected, PermanentFailure, TransientFailure
  <2> QED
    BY <1>2, <1>3, <1>7, <2>1, <2>2, <2>3 DEF WorkerStep
<1>8. ASSUME \/ \E w \in Workers : StoreFails(w) \/ Crash(w)
             \/ ProviderStartsRun \/ Tick \/ UNCHANGED vars
      PROVE  Attempted(k)'
  BY <1>6, <1>8 DEF StoreFails, Crash, ProviderStartsRun, Tick, vars, tables
<1> QED
  BY <1>5, <1>7, <1>8 DEF Next

(* A worker's current occurrence is one it had, or the one it just marked.   *)
LEMMA CurrentAttempted ==
  ASSUME AttemptsInv, [Next]_vars, NEW w \in Workers, NEW c \in current'[w]
  PROVE  Attempted(c.key)'
<1> USE DEF AttemptsInv
<1>1. CASE c \in current[w]
  BY <1>1, AttemptedStays DEF TypeOK
<1>2. CASE c \notin current[w]
  <2>1. MarkDispatching(w)
    <3>1. ASSUME NEW v \in Workers, WorkerStep(v), ~MarkDispatching(v)
          PROVE  current'[w] \subseteq current[w]
      <4> USE DEF TypeOK
      <4>1. CASE Start(v) \/ RunDueTriggers(v) \/ CreateOccurrences(v) \/ SelectDue(v)
                 \/ ClaimRow(v) \/ ClaimsDone(v) \/ CallProvider(v)
        BY <4>1 DEF Start, RunDueTriggers, ListRegistrations, CreateOccurrences, SelectDue,
                    ClaimRow, ClaimsDone, CallProvider, batch
      <4>2. CASE Reconcile(v) \/ EndBatch(v)
        BY <4>2 DEF Reconcile, EndBatch, DropBatch
      <4>3. CASE Accepted(v) \/ Rejected(v) \/ PermanentFailure(v) \/ TransientFailure(v)
        BY <4>3 DEF Accepted, Rejected, PermanentFailure, TransientFailure, Settle
      <4> QED
        BY <3>1, <4>1, <4>2, <4>3 DEF WorkerStep
    <3>2. ASSUME NEW v \in Workers, MarkDispatching(v), v # w
          PROVE  current'[w] = current[w]
      BY <3>2 DEF MarkDispatching, TypeOK
    <3>3. ASSUME NEW v \in Workers, StoreFails(v) \/ Crash(v)
          PROVE  current'[w] \subseteq current[w]
      BY <3>3 DEF StoreFails, Crash, DropBatch, TypeOK
    <3>4. ASSUME NEW v \in Workers, NEW owner \in Owners, ReplaceRegistrations(v, owner)
          PROVE  current'[w] = current[w]
      BY <3>4 DEF ReplaceRegistrations, batch
    <3>5. ASSUME ProviderStartsRun \/ Tick \/ UNCHANGED vars
          PROVE  current'[w] = current[w]
      BY <3>5 DEF ProviderStartsRun, Tick, vars, batch
    <3> QED
      BY <1>2, <3>1, <3>2, <3>3, <3>4, <3>5 DEF Next, WorkerStep
  <2>2. /\ c \in claimed[w]
        /\ occurrence' = [occurrence EXCEPT ![c.key].status = "dispatching",
                                            ![c.key].attemptCount = @ + 1]
    BY <2>1 DEF MarkDispatching, EarliestClaims, TypeOK
  <2>3. c.key \in Keys /\ occurrence[c.key].attemptCount + 1 > 0
    BY <2>2 DEF TypeOK, Occurrence
  <2> QED
    BY <2>2, <2>3 DEF Attempted, TypeOK, Occurrence
<1> QED
  BY <1>1, <1>2

(* What a step sends to the provider had its attempt counted, and a run is   *)
(* started only for what was sent.                                           *)
LEMMA CallsAttempted ==
  ASSUME AttemptsInv, [Next]_vars
  PROVE  runs' \subseteq calls' /\ \A k \in calls' : Attempted(k)'
<1> USE DEF AttemptsInv
<1>1. ASSUME NEW w \in Workers, CallProvider(w)
      PROVE  /\ runs' \subseteq calls'
             /\ calls' \subseteq calls \cup {c.key : c \in current[w]}
  BY <1>1 DEF CallProvider
<1>2. ASSUME UNCHANGED provider
      PROVE  runs' \subseteq calls' /\ calls' = calls
  BY <1>2 DEF provider
<1>3. ASSUME ProviderStartsRun
      PROVE  runs' \subseteq calls' /\ calls' = calls
  BY <1>3 DEF ProviderStartsRun
<1>4. ASSUME NEW w \in Workers, WorkerStep(w), ~CallProvider(w)
      PROVE  UNCHANGED provider
  <2>1. CASE Start(w) \/ RunDueTriggers(w) \/ CreateOccurrences(w) \/ SelectDue(w)
             \/ ClaimRow(w) \/ ClaimsDone(w) \/ MarkDispatching(w) \/ Reconcile(w) \/ EndBatch(w)
    BY <2>1 DEF Start, RunDueTriggers, ListRegistrations, CreateOccurrences, SelectDue,
                ClaimRow, ClaimsDone, MarkDispatching, Reconcile, EndBatch
  <2>2. CASE Accepted(w) \/ Rejected(w) \/ PermanentFailure(w) \/ TransientFailure(w)
    BY <2>2 DEF Accepted, Rejected, PermanentFailure, TransientFailure, Settle
  <2> QED
    BY <1>4, <2>1, <2>2 DEF WorkerStep
<1>5. ASSUME \/ \E w \in Workers : StoreFails(w) \/ Crash(w)
             \/ \E w \in Workers, owner \in Owners : ReplaceRegistrations(w, owner)
             \/ Tick \/ UNCHANGED vars
      PROVE  UNCHANGED provider
  BY <1>5 DEF StoreFails, Crash, ReplaceRegistrations, Tick, vars, provider
<1>6. /\ runs' \subseteq calls'
      /\ \A k \in calls' : k \in calls \/ \E w \in Workers : \E c \in current[w] : k = c.key
  BY <1>1, <1>2, <1>3, <1>4, <1>5 DEF Next, WorkerStep
<1>7. \A k \in calls' : k \in Keys /\ Attempted(k)
  BY <1>6 DEF TypeOK
<1> QED
  BY <1>6, <1>7, AttemptedStays

(* What is sent was attempted, what ran was sent, and what was accepted ran: *)
(* an inductive invariant of every step, timely or not. *)
LEMMA AcceptedWithRun ==
  ASSUME AttemptsInv, [Next]_vars, NEW k \in Keys, occurrence'[k].status = "accepted"
  PROVE  k \in runs'
<1> USE DEF AttemptsInv, TypeOK
<1>1. runs \subseteq runs'
  <2>1. ASSUME NEW w \in Workers, WorkerStep(w)
        PROVE  runs' = runs
    <3>1. CASE Start(w) \/ RunDueTriggers(w) \/ CreateOccurrences(w) \/ SelectDue(w)
               \/ ClaimRow(w) \/ ClaimsDone(w) \/ MarkDispatching(w) \/ CallProvider(w)
               \/ Reconcile(w) \/ EndBatch(w)
      BY <3>1 DEF Start, RunDueTriggers, ListRegistrations, CreateOccurrences, SelectDue,
                  ClaimRow, ClaimsDone, MarkDispatching, CallProvider, Reconcile, EndBatch, provider
    <3>2. CASE Accepted(w) \/ Rejected(w) \/ PermanentFailure(w) \/ TransientFailure(w)
      BY <3>2 DEF Accepted, Rejected, PermanentFailure, TransientFailure, Settle, provider
    <3> QED
      BY <2>1, <3>1, <3>2 DEF WorkerStep
  <2>2. ASSUME \/ \E w \in Workers : StoreFails(w) \/ Crash(w)
               \/ \E w \in Workers, owner \in Owners : ReplaceRegistrations(w, owner)
               \/ ProviderStartsRun \/ Tick \/ UNCHANGED vars
        PROVE  runs \subseteq runs'
    BY <2>2 DEF StoreFails, Crash, ReplaceRegistrations, ProviderStartsRun, Tick, vars, provider
  <2> QED
    BY <2>1, <2>2 DEF Next
<1>2. CASE occurrence[k].status = "accepted"
  BY <1>1, <1>2
<1>3. CASE occurrence[k].status # "accepted"
  <2>1. ASSUME NEW S, InsertOccurrences(S)
        PROVE  FALSE
    BY <1>3, <2>1 DEF InsertOccurrences, NoOccurrence
  <2>2. ASSUME NEW w \in Workers, ClaimRow(w)
        PROVE  FALSE
    <3>1. PICK j \in Keys :
            \/ UNCHANGED occurrence
            \/ occurrence' = [occurrence EXCEPT ![j].status = "claimed", ![j].leaseOwner = w,
                                                ![j].leaseExpiresAt = now[w] + LeaseSeconds]
      BY <2>2 DEF ClaimRow, Earliest
    <3> QED
      BY <1>3, <3>1 DEF Occurrence
  <2>3. ASSUME NEW w \in Workers, MarkDispatching(w)
        PROVE  FALSE
    <3>1. PICK c \in claimed[w] :
            occurrence' = [occurrence EXCEPT ![c.key].status = "dispatching",
                                             ![c.key].attemptCount = @ + 1]
      BY <2>3 DEF MarkDispatching, EarliestClaims
    <3> QED
      BY <1>3, <3>1 DEF Occurrence
  <2>4. ASSUME NEW w \in Workers, NEW c \in current[w], NEW s, NEW n, Settle(w, c, s, n),
               s = "accepted" => c.key \in runs
        PROVE  k \in runs
    <3>1. c.key \in Keys /\ c.key = k /\ s = "accepted"
      BY <1>3, <2>4 DEF Settle, Occurrence
    <3> QED
      BY <2>4, <3>1
  <2>5. ASSUME NEW w \in Workers, NEW owner \in Owners, ReplaceRegistrations(w, owner)
        PROVE  FALSE
    BY <1>3, <2>5 DEF ReplaceRegistrations, CancelRemoved, Occurrence
  <2>6. ASSUME UNCHANGED occurrence
        PROVE  FALSE
    BY <1>3, <2>6
  <2>7. ASSUME NEW w \in Workers, WorkerStep(w)
        PROVE  k \in runs
    <3>1. CASE Start(w) \/ RunDueTriggers(w) \/ SelectDue(w) \/ ClaimsDone(w) \/ CallProvider(w)
               \/ EndBatch(w)
      BY <3>1, <2>6 DEF Start, RunDueTriggers, ListRegistrations, SelectDue, ClaimsDone,
                        CallProvider, EndBatch, tables
    <3>2. CASE Reconcile(w) \/ CreateOccurrences(w)
      BY <3>2, <2>1 DEF Reconcile, CreateOccurrences
    <3>3. CASE Accepted(w) \/ Rejected(w) \/ PermanentFailure(w) \/ TransientFailure(w)
      BY <3>3, <2>4 DEF Accepted, Rejected, PermanentFailure, TransientFailure
    <3> QED
      BY <2>2, <2>3, <2>7, <3>1, <3>2, <3>3 DEF WorkerStep
  <2>8. ASSUME \/ \E w \in Workers : StoreFails(w) \/ Crash(w)
               \/ ProviderStartsRun \/ Tick \/ UNCHANGED vars
        PROVE  FALSE
    BY <2>6, <2>8 DEF StoreFails, Crash, ProviderStartsRun, Tick, vars, tables
  <2> QED
    BY <1>1, <2>5, <2>7, <2>8 DEF Next
<1> QED
  BY <1>2, <1>3

LEMMA AttemptsStep ==
  ASSUME AttemptsInv, [Next]_vars
  PROVE  AttemptsInv'
<1>1. TypeOK'
  BY NextTyped DEF AttemptsInv
<1> QED
  BY <1>1, CallsAttempted, CurrentAttempted, AcceptedWithRun DEF AttemptsInv

(* However many attempts time out or die with their worker, and even when    *)
(* two workers dispatch the same row, an occurrence is accepted only when    *)
(* the provider holds a run for it, and runs exist only for occurrences      *)
(* with a counted attempt.                                                   *)
THEOREM AcceptedAlwaysHasRun == Spec => []AcceptedHasRun
<1>1. Init => AttemptsInv
  BY InitTyped DEF Init, AttemptsInv, NoOccurrence
<1>2. AttemptsInv /\ [Next]_vars => AttemptsInv'
  BY AttemptsStep
<1>3. AttemptsInv => AcceptedHasRun
  BY DEF AttemptsInv, AcceptedHasRun, Attempted
<1> QED
  BY <1>1, <1>2, <1>3, PTL DEF Spec
-----------------------------------------------------------------------------
(* Products and quotients of whole numbers                                   *)

LEMMA Division ==
  ASSUME NEW x \in Int, NEW e \in Nat \ {0}
  PROVE  /\ x \div e \in Int /\ x % e \in Int
         /\ x = e * (x \div e) + (x % e) /\ 0 <= x % e /\ x % e < e
OBVIOUS

LEMMA Products ==
  ASSUME NEW m \in Int, NEW n \in Int, NEW e \in Nat \ {0}
  PROVE  /\ (m + n) * e = m * e + n * e /\ (m - n) * e = m * e - n * e
         /\ m * e \in Int /\ e * m = m * e
OBVIOUS

LEMMA Positive ==
  ASSUME NEW m \in Int, NEW e \in Nat \ {0}
  PROVE  /\ m >= 1 => m * e >= e
         /\ m >= 0 => m * e >= m
         /\ m <= 0 => m * e <= 0
OBVIOUS

LEMMA MultipleMod ==
  ASSUME NEW m \in Int, NEW e \in Nat \ {0}
  PROVE  (m * e) % e = 0
<1> DEFINE x == m * e
<1> DEFINE d == x \div e
<1>1. x \in Int
  OBVIOUS
<1>2. d \in Int /\ x = e * d + (x % e) /\ 0 <= x % e /\ x % e < e /\ x % e \in Int
  BY <1>1, Division
<1>3. (m - d) * e = m * e - d * e /\ e * d = d * e /\ d * e \in Int
  BY <1>2, Products
<1>4. x % e = (m - d) * e
  <2> HIDE DEF d
  <2> QED BY <1>1, <1>2, <1>3
<1>5. m - d \in Int
  BY <1>2
<1>6. (m - d >= 1 => (m - d) * e >= e) /\ (m - d <= 0 => (m - d) * e <= 0)
  <2> HIDE DEF d, x
  <2> QED BY <1>5, Positive
<1> HIDE DEF x, d
<1>7. (m - d) * e < e
  BY <1>2, <1>4
<1>8. m - d <= 0
  BY <1>2, <1>4, <1>5, <1>6, <1>7
<1>9. x % e = 0
  BY <1>2, <1>4, <1>6, <1>8
<1> QED
  BY <1>9 DEF x
-----------------------------------------------------------------------------
(* The periods of a schedule, by computation and by definition *)

(* The least multiple of e that is not below b is the rounded quotient's. *)
LEMMA RoundedUp ==
  ASSUME NEW b \in Int, NEW e \in Nat \ {0}, NEW q, q = (b + e - 1) \div e
  PROVE  /\ q \in Int
         /\ \A n \in Int : n * e >= b <=> n >= q
<1>1. /\ q \in Int /\ b + e - 1 \in Int /\ (b + e - 1) % e \in Int
      /\ b + e - 1 = e * q + ((b + e - 1) % e) /\ 0 <= (b + e - 1) % e /\ (b + e - 1) % e < e
  BY Division
<1>2. q * e \in Int /\ e * q = q * e
  BY <1>1, Products
<1>3. b <= q * e /\ q * e < b + e
  BY <1>1, <1>2
<1>4. ASSUME NEW n \in Int PROVE n * e >= b <=> n >= q
  <2>1. n - q \in Int /\ (n - q) * e = n * e - q * e /\ n * e \in Int
    BY <1>1, Products
  <2>2. /\ n - q >= 0 => (n - q) * e >= n - q
        /\ q - n >= 1 => (q - n) * e >= e
    BY <1>1, <2>1, Positive
  <2>3. (q - n) * e = q * e - n * e
    BY <1>1, Products
  <2>4. CASE n >= q
    <3>1. (n - q) * e >= 0
      BY <1>1, <2>1, <2>2, <2>4
    <3> QED
      BY <1>2, <1>3, <2>1, <2>4, <3>1
  <2>5. CASE n < q
    <3>1. q * e - n * e >= e
      BY <1>1, <2>2, <2>3, <2>5
    <3> QED
      BY <1>1, <1>2, <1>3, <2>1, <2>5, <3>1
  <2> QED
    BY <1>1, <2>4, <2>5
<1> QED
  BY <1>1, <1>4

(* The first candidate is the first period that is not before the window.  *)
LEMMA FirstCandidateIsFirst ==
  ASSUME NEW reg \in Registration, NEW t \in Time
  PROVE  \E q \in Nat :
           /\ FirstCandidate(reg, t) = Anchor(reg) + q * reg.schedule.everySeconds
           /\ \A n \in Nat :
                Anchor(reg) + n * reg.schedule.everySeconds >= t - LookbackSeconds <=> n >= q
<1> DEFINE e == reg.schedule.everySeconds
           a == Anchor(reg)
           b == (t - LookbackSeconds) - a
<1>1. a \in Nat /\ e \in Nat \ {0} /\ t \in Nat /\ LookbackSeconds \in Nat
  BY NumbersAssumption, RegistrationsAssumption DEF Anchor, Registration, Time
<1>2. b \in Int /\ FirstCandidate(reg, t) = IF b > 0 THEN a + ((b + e - 1) \div e) * e ELSE a
  BY <1>1 DEF FirstCandidate
<1> HIDE DEF b, e, a
<1>3. \A n \in Nat : n * e \in Int /\ n * e >= n
  BY <1>1, Products, Positive
<1>4. \A n \in Nat : a + n * e >= t - LookbackSeconds <=> n * e >= b
  BY <1>1, <1>3 DEF b
<1>5. CASE b > 0
  <2> DEFINE q == (b + e - 1) \div e
  <2>1. q \in Int /\ \A n \in Int : n * e >= b <=> n >= q
    BY <1>1, <1>2, RoundedUp
  <2>2. FirstCandidate(reg, t) = a + q * e
    BY <1>2, <1>5
  <2> HIDE DEF q
  <2>3. q * e >= b
    BY <2>1
  <2>4. q <= 0 => q * e <= 0
    BY <1>1, <2>1, Positive
  <2>5. q \in Nat
    BY <1>1, <1>2, <1>5, <2>1, <2>3, <2>4, Products
  <2> QED
    BY <1>4, <2>1, <2>2, <2>5 DEF a, e
<1>6. CASE ~(b > 0)
  <2>1. 0 * e = 0 /\ a + 0 = a
    BY <1>1
  <2>2. \A n \in Nat : n * e >= b <=> n >= 0
    BY <1>2, <1>3, <1>6
  <2> QED
    BY <1>2, <1>4, <1>6, <2>1, <2>2 DEF a, e
<1> QED
  BY <1>5, <1>6

(* What dueTimes computes by division are the periods that are owed, neither  *)
(* one more nor one less, whatever the schedule, the anchor and the lookback. *)
LEMMA DueIsOwed ==
  ASSUME NEW reg \in Registration, NEW t \in Time
  PROVE  DueTimes(reg, t) = PeriodsOwed(reg, t)
<1> DEFINE e == reg.schedule.everySeconds
           a == Anchor(reg)
           f == FirstCandidate(reg, t)
           from == t - LookbackSeconds
<1>1. /\ a \in Nat /\ e \in Nat \ {0} /\ t \in Nat /\ t <= MaxClock /\ MaxClock \in Nat
      /\ from \in Int
  BY NumbersAssumption, RegistrationsAssumption DEF Anchor, Registration, Time
<1>2. PICK q \in Nat : f = a + q * e /\ \A n \in Nat : a + n * e >= from <=> n >= q
  BY FirstCandidateIsFirst
<1>3. DueTimes(reg, t) = IF a > t THEN {} ELSE {u \in f..t : (u - f) % e = 0}
  BY DEF DueTimes
<1>4. PeriodsOwed(reg, t) = {u \in 0..MaxClock : /\ u <= t /\ u >= from /\ u >= a
                                                 /\ \E n \in 0..MaxClock : u = a + n * e}
  BY DEF PeriodsOwed, Time
<1> HIDE DEF e, a, f, from
<1>5. q * e \in Int /\ q * e >= q
  BY <1>1, Products, Positive
<1>6. f \in Nat /\ f >= a
  BY <1>1, <1>2, <1>5
<1>7. ASSUME NEW u \in f..t, (u - f) % e = 0, ~(a > t)
      PROVE  u \in PeriodsOwed(reg, t)
  <2> DEFINE d == (u - f) \div e
  <2>1. u \in Int /\ f <= u /\ u <= t /\ u - f \in Int
    BY <1>1, <1>6
  <2>2. d \in Int /\ u - f = e * d + 0
    BY <1>1, <1>7, <2>1, Division
  <2> HIDE DEF d
  <2>3. (d <= -1 => e * d <= -e) /\ e * d = d * e /\ d * e \in Int
    <3>1. -d \in Int /\ (-d >= 1 => (-d) * e >= e)
      BY <1>1, <2>2, Positive
    <3>2. (0 - d) * e = 0 * e - d * e /\ e * d = d * e /\ d * e \in Int /\ 0 * e = 0
      BY <1>1, <2>2, Products
    <3> QED
      BY <1>1, <2>2, <3>1, <3>2
  <2>4. d \in Nat
    <3>1. u - f >= 0 /\ u - f = e * d /\ e * d \in Int
      BY <1>6, <2>1, <2>2, <2>3
    <3>2. ~(d <= -1)
      BY <1>1, <2>3, <3>1
    <3> QED
      BY <2>2, <3>2
  <2>5. (q + d) * e = q * e + d * e /\ q + d \in Nat /\ (q + d) * e \in Int
    BY <1>1, <2>4, Products
  <2>6. u = a + (q + d) * e
    BY <1>1, <1>2, <1>5, <2>1, <2>2, <2>3, <2>5
  <2>7. (q + d) * e >= q + d
    BY <1>1, <2>5, Positive
  <2>8. q + d \in 0..MaxClock
    BY <1>1, <2>1, <2>5, <2>6, <2>7
  <2>9. u >= from
    <3>1. q + d >= q
      BY <2>4
    <3> QED
      BY <1>2, <2>5, <2>6, <3>1
  <2>10. u \in 0..MaxClock /\ u >= a
    BY <1>1, <1>6, <2>1
  <2> QED
    BY <1>4, <2>1, <2>6, <2>8, <2>9, <2>10
<1>8. ASSUME NEW u \in PeriodsOwed(reg, t)
      PROVE  u \in f..t /\ (u - f) % e = 0 /\ ~(a > t)
  <2>1. /\ u \in Nat /\ u <= t /\ u >= from /\ u >= a
    BY <1>1, <1>4
  <2>2. PICK n \in 0..MaxClock : u = a + n * e
    BY <1>4
  <2>3. n \in Nat /\ n >= q
    BY <1>1, <1>2, <2>1, <2>2
  <2>4. (n - q) * e = n * e - q * e /\ n - q \in Nat /\ n * e \in Int /\ (n - q) * e \in Int
    BY <1>1, <2>3, Products
  <2>5. (n - q) * e >= n - q
    BY <1>1, <2>4, Positive
  <2>6. u - f = (n - q) * e
    BY <1>1, <1>2, <1>5, <2>2, <2>4
  <2>7. (u - f) % e = 0
    BY <1>1, <2>4, <2>6, MultipleMod
  <2> QED
    BY <1>1, <1>6, <2>1, <2>4, <2>5, <2>6, <2>7
<1>9. DueTimes(reg, t) \subseteq PeriodsOwed(reg, t)
  BY <1>3, <1>7
<1>10. PeriodsOwed(reg, t) \subseteq DueTimes(reg, t)
  BY <1>3, <1>8
<1> QED
  BY <1>9, <1>10

-----------------------------------------------------------------------------
(* What a tick creates, when one worker runs                                 *)

OneWorker == \A v, w \in Workers : v = w

(* What a worker holds is in the table, and what it is about to insert is    *)
(* what the registrations make due at its `now`: nothing comes between them, *)
(* because replacements wait in the same queue.                              *)
CreationInv ==
  /\ AttemptsInv
  /\ \A w \in Workers : \A c \in claimed[w] : occurrence[c.key].status # "absent"
  /\ \A w \in Workers : pc[w] \in {"listed", "reconciling"} => listed[w] = DueKeys(now[w])

(* A row appears only where a worker inserts what it has listed.             *)
LEMMA AppearsByInsert ==
  ASSUME CreationInv, [Next]_vars, NEW k \in Keys,
         occurrence[k].status = "absent", occurrence'[k].status # "absent"
  PROVE  \E w \in Workers : (CreateOccurrences(w) \/ Reconcile(w)) /\ k \in listed[w]
<1> USE DEF CreationInv, AttemptsInv, TypeOK
<1>1. ASSUME NEW w \in Workers, CreateOccurrences(w) \/ Reconcile(w)
      PROVE  k \in listed[w]
  BY <1>1 DEF CreateOccurrences, Reconcile, InsertOccurrences
<1>2. ASSUME NEW w \in Workers, ClaimRow(w)
      PROVE  FALSE
  <2>1. PICK j \in Keys :
          \/ UNCHANGED occurrence
          \/ /\ occurrence[j].status \in ClaimableStatuses
             /\ occurrence' = [occurrence EXCEPT ![j].status = "claimed", ![j].leaseOwner = w,
                                                 ![j].leaseExpiresAt = now[w] + LeaseSeconds]
    BY <1>2 DEF ClaimRow, Earliest
  <2> QED
    BY <2>1 DEF ClaimableStatuses
<1>3. ASSUME NEW w \in Workers, MarkDispatching(w)
      PROVE  FALSE
  <2>1. PICK c \in claimed[w] :
          occurrence' = [occurrence EXCEPT ![c.key].status = "dispatching",
                                           ![c.key].attemptCount = @ + 1]
    BY <1>3 DEF MarkDispatching, EarliestClaims
  <2> QED
    BY <2>1
<1>4. ASSUME NEW w \in Workers, NEW c \in current[w], NEW s, NEW n, Settle(w, c, s, n)
      PROVE  FALSE
  BY <1>4 DEF Settle, Attempted
<1>5. ASSUME NEW w \in Workers, NEW owner \in Owners, ReplaceRegistrations(w, owner)
      PROVE  FALSE
  BY <1>5 DEF ReplaceRegistrations, CancelRemoved
<1>6. ASSUME UNCHANGED occurrence
      PROVE  FALSE
  BY <1>6
<1>7. ASSUME NEW w \in Workers, WorkerStep(w)
      PROVE  CreateOccurrences(w) \/ Reconcile(w)
  <2>1. CASE Start(w) \/ RunDueTriggers(w) \/ SelectDue(w) \/ ClaimsDone(w) \/ CallProvider(w)
             \/ EndBatch(w)
    BY <2>1, <1>6 DEF Start, RunDueTriggers, ListRegistrations, SelectDue, ClaimsDone,
                      CallProvider, EndBatch, tables
  <2>2. CASE Accepted(w) \/ Rejected(w) \/ PermanentFailure(w) \/ TransientFailure(w)
    BY <2>2, <1>4 DEF Accepted, Rejected, PermanentFailure, TransientFailure
  <2> QED
    BY <1>2, <1>3, <1>7, <2>1, <2>2 DEF WorkerStep
<1>8. ASSUME \/ \E w \in Workers : StoreFails(w) \/ Crash(w)
             \/ ProviderStartsRun \/ Tick \/ UNCHANGED vars
      PROVE  FALSE
  BY <1>6, <1>8 DEF StoreFails, Crash, ProviderStartsRun, Tick, vars, tables
<1> QED
  BY <1>1, <1>5, <1>7, <1>8 DEF Next

(* No row disappears: a status is overwritten, never removed.                *)
LEMMA RowsStay ==
  ASSUME TypeOK, [Next]_vars, NEW k \in Keys, occurrence[k].status # "absent"
  PROVE  occurrence'[k].status # "absent"
<1> USE DEF TypeOK
<1>1. ASSUME NEW S, InsertOccurrences(S)
      PROVE  occurrence'[k].status # "absent"
  BY <1>1 DEF InsertOccurrences
<1>2. ASSUME NEW w \in Workers, ClaimRow(w)
      PROVE  occurrence'[k].status # "absent"
  <2>1. PICK j \in Keys :
          \/ UNCHANGED occurrence
          \/ occurrence' = [occurrence EXCEPT ![j].status = "claimed", ![j].leaseOwner = w,
                                              ![j].leaseExpiresAt = now[w] + LeaseSeconds]
    BY <1>2 DEF ClaimRow, Earliest
  <2> QED
    BY <2>1 DEF Occurrence
<1>3. ASSUME NEW w \in Workers, MarkDispatching(w)
      PROVE  occurrence'[k].status # "absent"
  <2>1. PICK c \in claimed[w] :
          occurrence' = [occurrence EXCEPT ![c.key].status = "dispatching",
                                           ![c.key].attemptCount = @ + 1]
    BY <1>3 DEF MarkDispatching, EarliestClaims
  <2>2. c.key \in Keys /\ occurrence[k] \in Occurrence
    BY <2>1
  <2> QED
    BY <2>1, <2>2 DEF Occurrence
<1>4. ASSUME NEW w \in Workers, NEW c \in current[w], NEW n,
             NEW s \in {"accepted", "rejected", "failed", "retryWaiting"}, Settle(w, c, s, n)
      PROVE  occurrence'[k].status # "absent"
  BY <1>4 DEF Settle
<1>5. ASSUME NEW w \in Workers, NEW owner \in Owners, ReplaceRegistrations(w, owner)
      PROVE  occurrence'[k].status # "absent"
  BY <1>5 DEF ReplaceRegistrations, CancelRemoved
<1>6. ASSUME UNCHANGED occurrence
      PROVE  occurrence'[k].status # "absent"
  BY <1>6
<1>7. ASSUME NEW w \in Workers, WorkerStep(w)
      PROVE  occurrence'[k].status # "absent"
  <2>1. CASE Start(w) \/ RunDueTriggers(w) \/ SelectDue(w) \/ ClaimsDone(w) \/ CallProvider(w)
             \/ EndBatch(w)
    BY <2>1, <1>6 DEF Start, RunDueTriggers, ListRegistrations, SelectDue, ClaimsDone,
                      CallProvider, EndBatch, tables
  <2>2. CASE Reconcile(w) \/ CreateOccurrences(w)
    BY <2>2, <1>1 DEF Reconcile, CreateOccurrences
  <2>3. CASE Accepted(w) \/ Rejected(w) \/ PermanentFailure(w) \/ TransientFailure(w)
    BY <2>3, <1>4 DEF Accepted, Rejected, PermanentFailure, TransientFailure
  <2> QED
    BY <1>2, <1>3, <1>7, <2>1, <2>2, <2>3 DEF WorkerStep
<1>8. ASSUME \/ \E w \in Workers : StoreFails(w) \/ Crash(w)
             \/ ProviderStartsRun \/ Tick \/ UNCHANGED vars
      PROVE  occurrence'[k].status # "absent"
  BY <1>6, <1>8 DEF StoreFails, Crash, ProviderStartsRun, Tick, vars, tables
<1> QED
  BY <1>5, <1>7, <1>8 DEF Next

(* A worker takes into its hands only rows it finds claimable.               *)
LEMMA ClaimedExist ==
  ASSUME CreationInv, [Next]_vars, NEW w \in Workers, NEW c \in claimed'[w]
  PROVE  occurrence'[c.key].status # "absent"
<1> USE DEF CreationInv, AttemptsInv, TypeOK
<1>1. CASE c \in claimed[w]
  BY <1>1, RowsStay
<1>2. ASSUME NEW v \in Workers, ClaimRow(v)
      PROVE  c \in claimed[w] \/ (c.key \in Keys /\ occurrence[c.key].status # "absent")
  <2>1. PICK k \in Keys :
          \/ UNCHANGED claimed
          \/ /\ occurrence[k].status \in ClaimableStatuses
             /\ claimed' = [claimed EXCEPT
                  ![v] = @ \cup {[key |-> k, attemptCount |-> occurrence[k].attemptCount]}]
    BY <1>2 DEF ClaimRow, Earliest
  <2>2. \/ c \in claimed[w]
        \/ /\ c = [key |-> k, attemptCount |-> occurrence[k].attemptCount]
           /\ occurrence[k].status \in ClaimableStatuses
    BY <2>1
  <2> QED
    BY <2>2 DEF ClaimableStatuses
<1>3. ASSUME NEW v \in Workers, WorkerStep(v), ~ClaimRow(v)
      PROVE  c \in claimed[w]
  <2>1. CASE Start(v) \/ RunDueTriggers(v) \/ CreateOccurrences(v) \/ SelectDue(v)
             \/ ClaimsDone(v) \/ MarkDispatching(v) \/ CallProvider(v)
    BY <2>1 DEF Start, RunDueTriggers, ListRegistrations, CreateOccurrences, SelectDue,
                ClaimsDone, MarkDispatching, CallProvider, batch
  <2>2. CASE Reconcile(v) \/ EndBatch(v)
    BY <2>2 DEF Reconcile, EndBatch, DropBatch
  <2>3. CASE Accepted(v) \/ Rejected(v) \/ PermanentFailure(v) \/ TransientFailure(v)
    <3>1. ASSUME NEW d, NEW s, NEW n, Settle(v, d, s, n)
          PROVE  c \in claimed[w]
      BY <3>1 DEF Settle
    <3> QED
      BY <2>3, <3>1 DEF Accepted, Rejected, PermanentFailure, TransientFailure
  <2> QED
    BY <1>3, <2>1, <2>2, <2>3 DEF WorkerStep
<1>4. ASSUME \/ \E v \in Workers : StoreFails(v) \/ Crash(v)
             \/ \E v \in Workers, owner \in Owners : ReplaceRegistrations(v, owner)
             \/ ProviderStartsRun \/ Tick \/ UNCHANGED vars
      PROVE  c \in claimed[w]
  BY <1>4 DEF StoreFails, Crash, DropBatch, ReplaceRegistrations, ProviderStartsRun, Tick, vars,
              batch
<1>5. c \in claimed[w] \/ (c.key \in Keys /\ occurrence[c.key].status # "absent")
  BY <1>2, <1>3, <1>4 DEF Next
<1> QED
  BY <1>1, <1>5, RowsStay

(* The registrations stay as they are from the listing to the insert.        *)
LEMMA ListedStaysDue ==
  ASSUME OneWorker, CreationInv, [Next]_vars, NEW w \in Workers,
         pc'[w] \in {"listed", "reconciling"}
  PROVE  (listed[w] = DueKeys(now[w]))'
<1> USE DEF CreationInv, AttemptsInv, TypeOK
<1>1. CASE Start(w) \/ RunDueTriggers(w)
  <2>1. PICK t \in CallTimes : /\ now' = [now EXCEPT ![w] = t]
                               /\ listed' = [listed EXCEPT ![w] = DueKeys(t)]
    BY <1>1 DEF Start, RunDueTriggers, ListRegistrations
  <2>2. now'[w] = t /\ listed'[w] = DueKeys(t)
    BY <2>1
  <2>3. registration' = registration
    BY <1>1 DEF Start, RunDueTriggers, ListRegistrations, tables
  <2> QED
    BY <2>2, <2>3 DEF DueKeys
<1>2. ASSUME UNCHANGED <<pc, listed, now, registration>>
      PROVE  (listed[w] = DueKeys(now[w]))'
  BY <1>2 DEF DueKeys
<1>3. ASSUME WorkerStep(w), ~(Start(w) \/ RunDueTriggers(w)), ~ClaimRow(w)
      PROVE  FALSE
  BY <1>3 DEF WorkerStep, CreateOccurrences, Reconcile, SelectDue, ClaimsDone, MarkDispatching,
              CallProvider, Accepted, Rejected, PermanentFailure, TransientFailure, Settle,
              EndBatch, Goto
<1>4. CASE ClaimRow(w)
  BY <1>2, <1>4 DEF ClaimRow
<1>5. CASE StoreFails(w) \/ Crash(w)
  BY <1>5 DEF StoreFails, Crash, Goto
<1>6. ASSUME NEW owner \in Owners, ReplaceRegistrations(w, owner)
      PROVE  FALSE
  BY <1>6 DEF ReplaceRegistrations, InTurn
<1>7. CASE ProviderStartsRun \/ Tick \/ UNCHANGED vars
  BY <1>2, <1>7 DEF ProviderStartsRun, Tick, vars, tables, batch
<1>8. \A v \in Workers : v = w
  BY DEF OneWorker
<1> QED
  BY <1>1, <1>3, <1>4, <1>5, <1>6, <1>7, <1>8 DEF Next

(* The invariant of one worker's ticks and replacements.                     *)
LEMMA CreationInvariant == OneWorker => (Spec => []CreationInv)
<1> SUFFICES ASSUME OneWorker PROVE Spec => []CreationInv
  OBVIOUS
<1>1. Init => CreationInv
  <2>1. Init => AttemptsInv
    BY InitTyped DEF Init, AttemptsInv, NoOccurrence
  <2> QED
    BY <2>1 DEF Init, CreationInv
<1>2. CreationInv /\ [Next]_vars => CreationInv'
  <2> SUFFICES ASSUME CreationInv, [Next]_vars PROVE CreationInv'
    OBVIOUS
  <2>1. AttemptsInv'
    BY AttemptsStep DEF CreationInv
  <2> QED
    BY <2>1, ClaimedExist, ListedStaysDue DEF CreationInv
<1> QED
  BY <1>1, <1>2, PTL DEF Spec

(* With one worker, a row appears only for a registration that is there:     *)
(* "Removing a registration stops future occurrence creation for that key"   *)
(* (triggers.md:397), also for what was found due before the removal.        *)
THEOREM NoneAfterRemoval == OneWorker => (Spec => NoneCreatedAfterRemoval)
<1> SUFFICES ASSUME OneWorker PROVE Spec => NoneCreatedAfterRemoval
  OBVIOUS
<1>1. CreationInv /\ [Next]_vars => [CreatedForRegistered]_vars
  <2> SUFFICES ASSUME CreationInv, [Next]_vars, NEW k \in Keys,
                      occurrence[k].status = "absent", occurrence'[k].status # "absent"
               PROVE  registration[k.registrationKey] # NoRegistration
    BY DEF CreatedForRegistered
  <2>1. PICK w \in Workers : (CreateOccurrences(w) \/ Reconcile(w)) /\ k \in listed[w]
    BY AppearsByInsert
  <2>2. listed[w] = DueKeys(now[w])
    BY <2>1 DEF CreationInv, CreateOccurrences, Reconcile
  <2> QED
    BY <2>1, <2>2 DEF DueKeys
<1> QED
  BY <1>1, CreationInvariant, PTL DEF Spec, NoneCreatedAfterRemoval

(* With one worker, the insert of a tick creates every period within the     *)
(* lookback that its registrations owe and that has no row yet, and no other *)
(* (triggers.md: missed periods after a downtime are made up).               *)
THEOREM MissedAreMadeUp == OneWorker => (Spec => MissedPeriodsMadeUp)
<1> SUFFICES ASSUME OneWorker PROVE Spec => MissedPeriodsMadeUp
  OBVIOUS
<1>1. CreationInv /\ [Next]_vars => [CreatesWhatIsOwed]_vars
  <2> SUFFICES ASSUME CreationInv, Next, NEW w \in Workers, NEW r \in Registrations,
                      pc[w] = "listed", pc'[w] = "created", registration[r] # NoRegistration
               PROVE  LET owed == [registrationKey : {r},
                                   scheduledAt : PeriodsOwed(registration[r], now[w])]
                          new == {k \in [registrationKey : {r}, scheduledAt : Time] :
                                    /\ occurrence[k].status = "absent"
                                    /\ occurrence'[k].status # "absent"}
                      IN  /\ new \subseteq owed
                          /\ \A k \in owed : occurrence'[k].status # "absent"
    BY DEF CreatesWhatIsOwed, vars
  <2> USE DEF CreationInv, AttemptsInv, TypeOK
  <2>1. listed[w] = DueKeys(now[w])
    OBVIOUS
  <2>2. registration[r] \in Registration /\ now[w] \in Time
    OBVIOUS
  <2>3. DueTimes(registration[r], now[w]) = PeriodsOwed(registration[r], now[w])
    BY <2>2, DueIsOwed
  <2>4. PeriodsOwed(registration[r], now[w]) \subseteq Time
    BY DEF PeriodsOwed
  <2>5. ASSUME NEW k \in [registrationKey : {r}, scheduledAt : Time],
               occurrence[k].status = "absent", occurrence'[k].status # "absent"
        PROVE  k \in [registrationKey : {r},
                      scheduledAt : PeriodsOwed(registration[r], now[w])]
    <3>1. k \in Keys /\ k.registrationKey = r
      BY <2>5 DEF Keys
    <3>2. PICK v \in Workers : k \in listed[v]
      BY <2>5, <3>1, AppearsByInsert
    <3>3. k \in DueKeys(now[w])
      BY <2>1, <3>2 DEF OneWorker
    <3>4. k.scheduledAt \in PeriodsOwed(registration[r], now[w])
      BY <2>3, <3>1, <3>3 DEF DueKeys
    <3> QED
      BY <2>5, <3>4
  <2>6. ASSUME NEW k \in [registrationKey : {r},
                          scheduledAt : PeriodsOwed(registration[r], now[w])]
        PROVE  occurrence'[k].status # "absent"
    <3>1. k \in Keys /\ k \in DueKeys(now[w])
      BY <2>3, <2>4 DEF Keys, DueKeys
    <3>2. CreateOccurrences(w)
      <4>1. ASSUME NEW v \in Workers, WorkerStep(v), ~CreateOccurrences(v)
            PROVE  FALSE
        <5>1. v = w
          BY DEF OneWorker
        <5> QED
          BY <4>1, <5>1
             DEF WorkerStep, Start, RunDueTriggers, ListRegistrations, Reconcile, SelectDue,
                 ClaimRow, ClaimsDone, MarkDispatching, CallProvider, Accepted, Rejected,
                 PermanentFailure, TransientFailure, EndBatch, Settle, Goto
      <4>2. ASSUME NEW v \in Workers, StoreFails(v) \/ Crash(v)
            PROVE  FALSE
        BY <4>2 DEF StoreFails, Crash, Goto
      <4>3. ASSUME \/ \E v \in Workers, owner \in Owners : ReplaceRegistrations(v, owner)
                   \/ ProviderStartsRun \/ Tick
            PROVE  FALSE
        BY <4>3 DEF ReplaceRegistrations, ProviderStartsRun, Tick
      <4> QED
        BY <4>1, <4>2, <4>3 DEF Next, WorkerStep, OneWorker
    <3> QED
      BY <2>1, <3>1, <3>2 DEF CreateOccurrences, InsertOccurrences, NoOccurrence
  <2> QED
    BY <2>5, <2>6
<1> QED
  BY <1>1, CreationInvariant, PTL DEF Spec, MissedPeriodsMadeUp
=============================================================================
