------------------------ MODULE PipelineDefinitions ------------------------
(***************************************************************************)
(* Pipeline definitions and the trigger registrations that go with them:   *)
(* setPipeline, deletePipeline and the reconciliation of policy rules      *)
(* (packages/pipelines/src/runtime.ts).  Each of them first replaces the   *)
(* registrations in the triggers module, by a call, and then writes the    *)
(* definition and its trigger bindings, in one transaction of its own      *)
(* database; `serialize` runs one operation at a time.                     *)
(***************************************************************************)
EXTENDS Integers

CONSTANTS
  Names,         \* pipeline names
  Documents,     \* pipeline documents
  NoDocument,    \* no definition, no registrations, or a disabled rule
  NoRule,        \* a name without a policy rule
  MaxFaults,     \* bound: failed calls and statements, and crashes
  MaxOperations  \* bound: calls of setPipeline and deletePipeline

ASSUME DocumentsAssumption ==
  /\ NoDocument \notin Documents /\ NoRule \notin Documents \cup {NoDocument}
  /\ MaxFaults \in Nat /\ MaxOperations \in Nat

VARIABLES
  definition,   \* table pipelines_definitions, with pipelines_trigger_bindings
  registered,   \* what the triggers module has registered for each pipeline
  operation,    \* the kind of the operation in progress
  wanted,       \* the document it wants each name to have
  pending,      \* names it has still to handle
  current,      \* the name whose registrations it replaced, at most one
  swept,        \* it has no more names to find
  rules,        \* the policy value a reconciliation was called with
  torn,         \* names left half done by the last operation on them
  faults, operations

progress == <<operation, wanted, pending, current, swept, rules>>
vars == <<definition, registered, progress, torn, faults, operations>>

Wanted == Documents \cup {NoDocument}

NoDefinition == [source |-> "none", document |-> NoDocument]

TypeOK ==
  /\ definition \in [Names -> [source : {"none", "manual", "policy"}, document : Wanted]]
  /\ registered \in [Names -> Wanted]
  /\ operation \in {"none", "set", "delete", "reconcile"}
  /\ wanted \in [Names -> Wanted]
  /\ pending \in SUBSET Names /\ current \in SUBSET Names
  /\ swept \in BOOLEAN
  /\ rules \in [Names -> Wanted \cup {NoRule}]
  /\ torn \in SUBSET Names
  /\ faults \in 0..MaxFaults /\ operations \in 0..MaxOperations

Init ==
  /\ definition = [n \in Names |-> NoDefinition]
  /\ registered = [n \in Names |-> NoDocument]
  /\ operation = "none"
  /\ wanted = [n \in Names |-> NoDocument]
  /\ pending = {} /\ current = {} /\ swept = TRUE
  /\ rules = [n \in Names |-> NoRule]
  /\ torn = {}
  /\ faults = 0 /\ operations = 0

-----------------------------------------------------------------------------
(* Operations *)

Begin(kind, names, document) ==
  /\ operation = "none"
  /\ operation' = kind
  /\ pending' = names
  /\ wanted' = document
  /\ UNCHANGED <<definition, registered, current, torn, faults>>

CountCall ==
  /\ operations < MaxOperations
  /\ operations' = operations + 1

SetPipeline(n, d) ==
  /\ CountCall
  /\ Begin("set", {n}, [wanted EXCEPT ![n] = d])
  /\ UNCHANGED <<swept, rules>>

DeletePipeline(n) ==
  /\ CountCall
  /\ Begin("delete", {n}, [wanted EXCEPT ![n] = NoDocument])
  /\ UNCHANGED <<swept, rules>>

(* reconcilePolicyRules handles the names that have a rule, enabled or not, *)
(* and looks for the others afterwards.                                     *)
ReconcilePolicyRules(value) ==
  /\ Begin("reconcile", {n \in Names : value[n] # NoRule},
           [n \in Names |-> IF value[n] = NoRule THEN NoDocument ELSE value[n]])
  /\ swept' = FALSE
  /\ rules' = value
  /\ UNCHANGED operations

(* Mutant: nothing is sent for a pipeline without a document. *)
RegisterIfAny(n) ==
  registered' = [registered EXCEPT ![n] = IF wanted[n] = NoDocument THEN @ ELSE wanted[n]]

Register(n) == registered' = [registered EXCEPT ![n] = wanted[n]]

ReplaceRegistrations ==
  /\ current = {}
  /\ \E n \in pending :
       /\ Register(n)
       /\ pending' = pending \ {n}
       /\ current' = {n}
  /\ UNCHANGED <<definition, operation, wanted, swept, rules, torn, faults, operations>>

(* Mutant: the name of the operation is stored. *)
SourceByOperation == operation

Source == IF operation = "reconcile" THEN "policy" ELSE "manual"

(* replaceDefinition or deleteDefinition, whoever wrote what is there. *)
StoreDefinition ==
  /\ \E n \in current :
       /\ definition' = [definition EXCEPT ![n] =
            IF wanted[n] = NoDocument
            THEN NoDefinition
            ELSE [source |-> Source, document |-> wanted[n]]]
       /\ torn' = torn \ {n}
  /\ current' = {}
  /\ UNCHANGED <<registered, operation, wanted, pending, swept, rules, faults, operations>>

(* Mutant: disabled rules are looked for instead of missing ones. *)
UnruledIfDisabled == {n \in Names : definition[n].source = "policy" /\ rules[n] = NoDocument}

(* The definitions of source policy whose rule is gone. *)
Unruled == {n \in Names : definition[n].source = "policy" /\ rules[n] = NoRule}

FindUnruled ==
  /\ ~swept /\ pending = {} /\ current = {}
  /\ pending' = Unruled
  /\ swept' = TRUE
  /\ UNCHANGED <<definition, registered, operation, wanted, current, rules, torn, faults,
                 operations>>

Finish ==
  /\ operation # "none"
  /\ swept /\ pending = {} /\ current = {}
  /\ operation' = "none"
  /\ UNCHANGED <<definition, registered, wanted, pending, current, swept, rules, torn, faults,
                 operations>>

(* A call or a statement fails, or the process dies: the operation ends     *)
(* where it is.  A call that failed may have had its effect.                *)
Fails ==
  /\ operation # "none"
  /\ faults < MaxFaults
  /\ faults' = faults + 1
  /\ \/ /\ torn' = torn \cup current
        /\ UNCHANGED registered
     \/ /\ current = {}
        /\ \E n \in pending :
             /\ torn' = torn \cup {n}
             /\ registered' = [registered EXCEPT ![n] = wanted[n]]
  /\ operation' = "none" /\ pending' = {} /\ current' = {} /\ swept' = TRUE
  /\ UNCHANGED <<definition, wanted, rules, operations>>

(* The process dies between two operations. *)
Dies ==
  /\ operation = "none"
  /\ faults < MaxFaults
  /\ faults' = faults + 1
  /\ UNCHANGED <<definition, registered, progress, torn, operations>>

Next ==
  \/ \E n \in Names : DeletePipeline(n) \/ \E d \in Documents : SetPipeline(n, d)
  \/ \E value \in [Names -> Wanted \cup {NoRule}] : ReconcilePolicyRules(value)
  \/ ReplaceRegistrations \/ StoreDefinition \/ FindUnruled \/ Finish
  \/ Fails \/ Dies

Spec == Init /\ [][Next]_vars

-----------------------------------------------------------------------------
(* Properties *)

(* The triggers module fires for the document that is stored, except for a   *)
(* name whose last operation broke off between the two; and repeating any    *)
(* operation on such a name, with any outcome, mends it.                     *)
RegistrationsAgree ==
  \A n \in Names \ (torn \cup current) : registered[n] = definition[n].document

(* A reconciliation that ends without an error leaves the definition and the *)
(* registrations of every enabled rule, and none that are of the policy for   *)
(* any other name ("materializes enabled rules", "removes disabled or deleted *)
(* policy-owned definitions and trigger registrations", pipelines.md:496-498). *)
(* What a disabled rule does to a manual definition is left open: the code     *)
(* removes it (runtime.ts:133), which pipelines.md:499 forbids.                *)
RulesMaterialized ==
  operation = "reconcile" /\ operation' = "none" /\ faults' = faults =>
    \A n \in Names :
      /\ rules[n] \in Documents =>
           /\ definition[n] = [source |-> "policy", document |-> rules[n]]
           /\ registered[n] = rules[n]
      /\ rules[n] \notin Documents => definition[n].source # "policy"
      /\ rules[n] = NoDocument /\ definition[n].source = "none" => registered[n] = NoDocument

(* "Policy reconciliation does not delete source: manual definitions"          *)
(* (pipelines.md:499), as far as the code keeps to it: at no step of one is a  *)
(* manual definition touched that no rule names, nor what is registered for it. *)
ManualKept ==
  operation = "reconcile" =>
    \A n \in Names :
      rules[n] = NoRule /\ definition[n].source = "manual" =>
        definition'[n] = definition[n] /\ registered'[n] = registered[n]

ReconcileMaterializes == [][RulesMaterialized /\ ManualKept]_vars
=============================================================================
