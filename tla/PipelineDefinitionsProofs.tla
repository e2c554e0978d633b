--------------------- MODULE PipelineDefinitionsProofs ---------------------
(***************************************************************************)
(* Theorems about PipelineDefinitions, for any names, documents and bounds. *)
(***************************************************************************)
EXTENDS PipelineDefinitions, TLAPS

(* The one definition between its two writes: its registrations are already *)
(* those of the document to be stored.                                      *)
Registering ==
  /\ \A m, n \in current : m = n
  /\ \A n \in current : registered[n] = wanted[n] /\ n \notin pending
  /\ operation = "none" => current = {} /\ pending = {} /\ swept

AgreementInv == TypeOK /\ Registering /\ RegistrationsAgree

(* What is left to do of a reconciliation is in pending and current: every   *)
(* other name is as its rule says, and once the names without a rule were    *)
(* looked for, none of the others is the policy's.  A name without a rule is *)
(* handled only while its definition is the policy's.                        *)
Settled(n) ==
  IF rules[n] = NoRule
  THEN definition[n].source # "policy"
  ELSE /\ registered[n] = rules[n]
       /\ definition[n] = IF rules[n] = NoDocument THEN NoDefinition
                          ELSE [source |-> "policy", document |-> rules[n]]

Reconciling ==
  operation = "reconcile" =>
    /\ \A n \in Names : wanted[n] = IF rules[n] = NoRule THEN NoDocument ELSE rules[n]
    /\ \A n \in Names :
         rules[n] # NoRule \/ swept => n \in pending \cup current \/ Settled(n)
    /\ \A n \in pending \cup current : rules[n] = NoRule => definition[n].source = "policy"

ReconcileInv == AgreementInv /\ Reconciling

-----------------------------------------------------------------------------
(* Registrations and definitions agree *)

(* Nothing is defined or registered at first. *)
LEMMA InitAgrees == Init => ReconcileInv
BY DocumentsAssumption
   DEF Init, ReconcileInv, AgreementInv, TypeOK, Registering, RegistrationsAgree, Reconciling,
       Wanted, NoDefinition

(* Every step keeps the types of the tables and of the operation's progress. *)
LEMMA StepTyped ==
  ASSUME TypeOK, Next
  PROVE  TypeOK'
<1> USE DocumentsAssumption DEF TypeOK, Wanted
<1>1. ASSUME NEW n \in Names, DeletePipeline(n) \/ \E d \in Documents : SetPipeline(n, d)
      PROVE  TypeOK'
  BY <1>1 DEF DeletePipeline, SetPipeline, CountCall, Begin
<1>2. ASSUME NEW value \in [Names -> Wanted \cup {NoRule}], ReconcilePolicyRules(value)
      PROVE  TypeOK'
  <2>1. \A n \in Names : (IF value[n] = NoRule THEN NoDocument ELSE value[n]) \in Wanted
    BY <1>2
  <2>2. wanted' = [n \in Names |-> IF value[n] = NoRule THEN NoDocument ELSE value[n]]
    BY <1>2 DEF ReconcilePolicyRules, Begin
  <2>3. wanted' \in [Names -> Wanted]
    BY <2>1, <2>2
  <2>4. pending' \in SUBSET Names
    BY <1>2 DEF ReconcilePolicyRules, Begin
  <2>5. /\ operation' = "reconcile" /\ operations' = operations
        /\ swept' = FALSE /\ rules' = value
        /\ UNCHANGED <<definition, registered, current, torn, faults>>
    BY <1>2 DEF ReconcilePolicyRules, Begin
  <2> QED
    <3>1. rules' \in [Names -> Wanted \cup {NoRule}]
      BY <1>2, <2>5
    <3>2. operations' \in 0..MaxOperations
      BY <2>5
    <3>3. operation' \in {"none", "set", "delete", "reconcile"} /\ swept' \in BOOLEAN
      BY <2>5
    <3>4. /\ definition' \in [Names -> [source : {"none", "manual", "policy"}, document : Wanted]]
          /\ registered' \in [Names -> Wanted]
      BY <2>5
    <3> QED
      BY <2>3, <2>4, <2>5, <3>1, <3>2, <3>3, <3>4
<1>3. CASE ReplaceRegistrations
  BY <1>3 DEF ReplaceRegistrations, Register
<1>4. CASE StoreDefinition
  BY <1>4 DEF StoreDefinition, Source, NoDefinition
<1>5. CASE FindUnruled \/ Finish
  BY <1>5 DEF FindUnruled, Finish, Unruled
<1>6. CASE Fails
  BY <1>6 DEF Fails
<1>7. CASE Dies
  BY <1>7 DEF Dies, progress
<1> QED
  BY <1>1, <1>2, <1>3, <1>4, <1>5, <1>6, <1>7 DEF Next

(* The definitions, the registrations and the operation keep their types.    *)
THEOREM TypeCorrect == Spec => []TypeOK
<1>1. Init => TypeOK
  BY InitAgrees DEF ReconcileInv, AgreementInv
<1>2. TypeOK /\ [Next]_vars => TypeOK'
  BY StepTyped DEF TypeOK, vars, progress
<1> QED
  BY <1>1, <1>2, PTL DEF Spec

(* Every step leaves at most one name between its two writes, and breaks the *)
(* agreement of no other, except those it records as torn.                   *)
LEMMA StepAgrees ==
  ASSUME AgreementInv, Next
  PROVE  Registering' /\ RegistrationsAgree'
<1> USE DocumentsAssumption DEF AgreementInv, TypeOK, Registering, RegistrationsAgree
<1>1. ASSUME NEW n \in Names, DeletePipeline(n) \/ \E d \in Documents : SetPipeline(n, d)
      PROVE  Registering' /\ RegistrationsAgree'
  BY <1>1 DEF DeletePipeline, SetPipeline, CountCall, Begin
<1>2. ASSUME NEW value \in [Names -> Wanted \cup {NoRule}], ReconcilePolicyRules(value)
      PROVE  Registering' /\ RegistrationsAgree'
  BY <1>2 DEF ReconcilePolicyRules, Begin
<1>3. CASE ReplaceRegistrations
  BY <1>3 DEF ReplaceRegistrations, Register
<1>4. CASE StoreDefinition
  BY <1>4 DEF StoreDefinition, Source, NoDefinition
<1>5. CASE FindUnruled \/ Finish
  BY <1>5 DEF FindUnruled, Finish
<1>6. CASE Fails
  BY <1>6 DEF Fails
<1>7. CASE Dies
  BY <1>7 DEF Dies, progress
<1> QED
  BY <1>1, <1>2, <1>3, <1>4, <1>5, <1>6, <1>7 DEF Next

(* The triggers module fires for the documents that are stored, whatever     *)
(* fails, except for the names an operation left half done.                  *)
THEOREM RegistrationsAlwaysAgree == Spec => []RegistrationsAgree
<1>1. Init => AgreementInv
  BY InitAgrees DEF ReconcileInv
<1>2. AgreementInv /\ [Next]_vars => AgreementInv'
  <2>1. ASSUME AgreementInv, UNCHANGED vars
        PROVE  AgreementInv'
    BY <2>1 DEF AgreementInv, TypeOK, Registering, RegistrationsAgree, vars, progress
  <2>2. ASSUME AgreementInv, Next
        PROVE  AgreementInv'
    BY <2>2, StepTyped, StepAgrees DEF AgreementInv
  <2> QED
    BY <2>1, <2>2
<1>3. AgreementInv => RegistrationsAgree
  BY DEF AgreementInv
<1> QED
  BY <1>1, <1>2, <1>3, PTL DEF Spec

-----------------------------------------------------------------------------
(* A reconciliation leaves what the rules say *)

(* A step of a reconciliation settles the name it stores and unsettles none. *)
LEMMA StepReconciles ==
  ASSUME ReconcileInv, Next
  PROVE  Reconciling'
<1> USE DocumentsAssumption DEF ReconcileInv, AgreementInv, TypeOK, Registering, Reconciling,
                                Settled, Wanted
<1>1. ASSUME NEW n \in Names, DeletePipeline(n) \/ \E d \in Documents : SetPipeline(n, d)
      PROVE  Reconciling'
  BY <1>1 DEF DeletePipeline, SetPipeline, CountCall, Begin
<1>2. ASSUME NEW value \in [Names -> Wanted \cup {NoRule}], ReconcilePolicyRules(value)
      PROVE  Reconciling'
  BY <1>2 DEF ReconcilePolicyRules, Begin
<1>3. CASE ReplaceRegistrations
  BY <1>3 DEF ReplaceRegistrations, Register
<1>4. CASE StoreDefinition
  BY <1>4 DEF StoreDefinition, Source, NoDefinition
<1>5. CASE FindUnruled \/ Finish
  BY <1>5 DEF FindUnruled, Finish, Unruled
<1>6. CASE Fails
  BY <1>6 DEF Fails
<1>7. CASE Dies
  BY <1>7 DEF Dies, progress
<1> QED
  BY <1>1, <1>2, <1>3, <1>4, <1>5, <1>6, <1>7 DEF Next

(* Only Finish ends an operation without a fault, and then nothing is left.  *)
LEMMA FinishedIsMaterialized ==
  ASSUME ReconcileInv, [Next]_vars
  PROVE  RulesMaterialized
<1> SUFFICES ASSUME operation = "reconcile", operation' = "none", faults' = faults
             PROVE  \A n \in Names : Settled(n)
  <2>1. ASSUME NEW n \in Names, Settled(n), rules[n] \in Documents
        PROVE  definition[n] = [source |-> "policy", document |-> rules[n]]
    BY <2>1, DocumentsAssumption DEF Settled
  <2>2. ASSUME NEW n \in Names, Settled(n), rules[n] \notin Documents
        PROVE  rules[n] \in {NoDocument, NoRule}
    BY <2>2 DEF ReconcileInv, AgreementInv, TypeOK, Wanted
  <2>3. ASSUME NEW n \in Names, Settled(n), rules[n] = NoDocument
        PROVE  definition[n].source # "policy" /\ registered[n] = NoDocument
    BY <2>3, DocumentsAssumption DEF Settled, NoDefinition
  <2> QED
    BY <2>1, <2>2, <2>3, DocumentsAssumption DEF RulesMaterialized, Settled
<1>1. Finish
  <2>1. ~Fails /\ ~Dies
    BY DEF Fails, Dies, ReconcileInv, AgreementInv, TypeOK
  <2> QED
    BY <2>1 DEF Next, vars, progress, SetPipeline, DeletePipeline, ReconcilePolicyRules, Begin,
                ReplaceRegistrations, StoreDefinition, FindUnruled
<1> QED
  BY <1>1 DEF Finish, ReconcileInv, Reconciling

(* A reconciliation writes no name without a rule but the policy's.          *)
LEMMA ManualIsKept ==
  ASSUME ReconcileInv, [Next]_vars
  PROVE  ManualKept
<1> SUFFICES ASSUME operation = "reconcile", NEW n \in Names, rules[n] = NoRule,
                    definition[n].source = "manual"
             PROVE  definition'[n] = definition[n] /\ registered'[n] = registered[n]
  BY DEF ManualKept
<1>1. n \notin pending \cup current
  BY DEF ReconcileInv, Reconciling
<1>2. CASE ReplaceRegistrations
  BY <1>1, <1>2 DEF ReplaceRegistrations, Register, ReconcileInv, AgreementInv, TypeOK
<1>3. CASE StoreDefinition
  BY <1>1, <1>3 DEF StoreDefinition, ReconcileInv, AgreementInv, TypeOK
<1>4. CASE Fails
  BY <1>1, <1>4 DEF Fails, ReconcileInv, AgreementInv, TypeOK
<1>5. CASE UNCHANGED <<definition, registered>>
  BY <1>5
<1> QED
  BY <1>2, <1>3, <1>4, <1>5
     DEF Next, vars, progress, SetPipeline, DeletePipeline, ReconcilePolicyRules, Begin,
         FindUnruled, Finish, Dies

(* A reconciliation that ends without an error leaves every enabled rule     *)
(* materialized and nothing of the policy's under any other name, however    *)
(* earlier operations broke off, and no manual definition without a rule is  *)
(* touched by one.                                                           *)
THEOREM ReconciliationMaterializes == Spec => ReconcileMaterializes
<1>1. ReconcileInv /\ [Next]_vars => ReconcileInv'
  <2>1. ASSUME ReconcileInv, UNCHANGED vars
        PROVE  ReconcileInv'
    BY <2>1 DEF ReconcileInv, AgreementInv, TypeOK, Registering, RegistrationsAgree, Reconciling,
                Settled, vars, progress
  <2>2. ASSUME ReconcileInv, Next
        PROVE  ReconcileInv'
    BY <2>2, StepTyped, StepAgrees, StepReconciles DEF ReconcileInv, AgreementInv
  <2> QED
    BY <2>1, <2>2
<1>2. ReconcileInv /\ [Next]_vars => [RulesMaterialized /\ ManualKept]_vars
  BY FinishedIsMaterialized, ManualIsKept
<1> QED
  BY <1>1, <1>2, InitAgrees, PTL DEF Spec, ReconcileMaterializes
=============================================================================
