-------------------------- MODULE PolicyPipelines --------------------------
(***************************************************************************)
(* The pipelines module under its policy: the rules it reconciles are the  *)
(* live value of PipelineAutomationRule, its onChange is                   *)
(* reconcilePolicyRules (pipelines/src/module.ts), and its calls are       *)
(* answered once the first reconciliation is over                          *)
(* (framework/src/module.ts).                                              *)
(***************************************************************************)
EXTENDS PipelineDefinitions

CONSTANTS
  Unparsable,    \* documents the policy accepts and parseDefinition refuses
  Callers, NoMutation, NoValue, MaxMutations, MaxDisturbances

VARIABLES
  file, served, serverUp, mutation, announced, subscribed, ready, queued, refresh,
  fetched, live, missed, mutations, disturbances

Policy == INSTANCE PolicyRules WITH Values <- Wanted \cup {NoRule}

ASSUME MutationAssumption == NoMutation \notin Policy!Mutations

ASSUME BoundsAssumption == MaxMutations \in Nat /\ MaxDisturbances \in Nat

policyVars ==
  <<file, served, serverUp, mutation, announced, subscribed, ready, queued, refresh, fetched,
    live, missed, mutations, disturbances>>

SystemTypeOK == TypeOK /\ Policy!TypeOK

SystemInit == Init /\ Policy!Init

-----------------------------------------------------------------------------
Unusable(value) == \E n \in Names : value[n] \in Unparsable

ServerStep ==
  \/ \E c \in Callers : Policy!Store(c) \/ Policy!Apply(c)
  \/ Policy!ServerStart

ServerFails == Policy!ServerCrash \/ \E c \in Callers : Policy!StoreFails(c)

Mutate ==
  \E c \in Callers, n \in Names, value \in Wanted \cup {NoRule} : Policy!Prepare(c, n, value)

PolicyMoves ==
  /\ ServerStep \/ Policy!Deliver \/ Policy!Start \/ Policy!Fetch
  /\ UNCHANGED vars

PolicyDisturbed ==
  /\ Mutate \/ ServerFails \/ Policy!Lose \/ Policy!FetchFails
  /\ UNCHANGED vars

ManualCall ==
  /\ ready
  /\ \E n \in Names : DeletePipeline(n) \/ \E d \in Documents \ Unparsable : SetPipeline(n, d)
  /\ UNCHANGED policyVars

(* The operation queue has come to the reconciliation of the refresh. *)
ReconcileFetched ==
  /\ Policy!Handle
  /\ ~Unusable(fetched)
  /\ ReconcilePolicyRules(fetched)

(* parseDefinition throws before anything is replaced. *)
RefuseFetched ==
  /\ refresh = "fetched"
  /\ operation = "none"
  /\ Unusable(fetched)
  /\ Policy!Refuse
  /\ UNCHANGED <<vars, disturbances>>

OperationStep ==
  /\ ReplaceRegistrations \/ StoreDefinition \/ FindUnruled
  /\ UNCHANGED policyVars

CallEnds ==
  /\ operation # "reconcile"
  /\ Finish
  /\ UNCHANGED policyVars

ReconcileEnds ==
  /\ operation = "reconcile"
  /\ Finish
  /\ Policy!Accept

CallBreaksOff ==
  /\ operation # "reconcile"
  /\ Fails
  /\ UNCHANGED policyVars

ReconcileBreaksOff ==
  /\ operation = "reconcile"
  /\ Fails
  /\ Policy!Refuse
  /\ UNCHANGED disturbances

(* The process of the module dies, in an operation or between two. *)
Crash ==
  /\ subscribed
  /\ Fails \/ Dies
  /\ Policy!Stop
  /\ UNCHANGED disturbances

SystemNext ==
  \/ PolicyMoves \/ PolicyDisturbed
  \/ ManualCall \/ ReconcileFetched \/ RefuseFetched
  \/ OperationStep \/ CallEnds \/ ReconcileEnds \/ CallBreaksOff \/ ReconcileBreaksOff \/ Crash

SystemVars == <<vars, policyVars>>

SystemSpec == SystemInit /\ [][SystemNext]_SystemVars

(* Processes come back, the server finishes what it began, events that are not *)
(* lost arrive, and the refresh and operation queues go on.                   *)
Fairness ==
  /\ WF_policyVars(ServerStep) /\ WF_policyVars(Policy!Deliver)
  /\ WF_policyVars(Policy!Start) /\ WF_policyVars(Policy!Fetch)
  /\ WF_SystemVars(ReconcileFetched \/ RefuseFetched \/ OperationStep \/ CallEnds \/ ReconcileEnds)

SystemLiveSpec == SystemSpec /\ Fairness

-----------------------------------------------------------------------------
(* Properties *)

(* When the rules stop changing, the pipelines live by them in the end, unless *)
(* the module missed the last change and was told of nothing since: no crash,  *)
(* failed refresh or broken reconciliation leaves a later one waiting.        *)
RulesTakeEffect ==
  <>[](\/ live = served
       \/ missed /\ announced = 0 /\ queued = 0
       \/ Unusable(served))

ServedIsStored == Policy!ServedIsStored

SettledIsCurrent == Policy!SettledIsCurrent
=============================================================================
