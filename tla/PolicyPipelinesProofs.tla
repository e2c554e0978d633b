----------------------- MODULE PolicyPipelinesProofs -----------------------
(***************************************************************************)
(* Theorems about PolicyPipelines, for any names, documents, callers and   *)
(* bounds: what is proved of PipelineDefinitions holds of it, and the      *)
(* server and the live value stay with the files.                          *)
(***************************************************************************)
EXTENDS PolicyPipelines, PipelineDefinitionsProofs

(* The types the steps of the server and the refresh rely on. *)
PolicyTyped ==
  /\ file \in Policy!Rules /\ served \in Policy!Rules
  /\ mutation \in [Callers -> Policy!Mutations \cup {NoMutation}]
  /\ announced \in Nat /\ queued \in Nat
  /\ refresh # "none" => fetched \in Policy!Rules

(* One mutation at a time, prepared from the state that is served; what it   *)
(* stored is what it prepared, and what nobody is storing is served.         *)
FilesInv ==
  /\ \A c, d \in Callers : mutation[c] # NoMutation /\ mutation[d] # NoMutation => c = d
  /\ \A c \in Callers :
       mutation[c] # NoMutation =>
         /\ serverUp
         /\ mutation[c].prepared = [served EXCEPT ![mutation[c].name] = mutation[c].value]
         /\ file = IF mutation[c].stored THEN mutation[c].prepared ELSE served
  /\ serverUp /\ (\A c \in Callers : mutation[c] = NoMutation) => served = file

(* Unless word of a change is under way or was missed, the refresh in        *)
(* progress carries what is served, and without one the module lives by it.  *)
WordUnderWay == announced > 0 \/ queued > 0 \/ missed

LiveInv ==
  /\ ready \/ queued > 0 \/ refresh # "none" => subscribed
  /\ subscribed /\ ~WordUnderWay /\ refresh # "none" => fetched = served
  /\ ready /\ ~WordUnderWay /\ refresh = "none" => live = served

(* What is announced or queued was accepted before, so that the queues stay   *)
(* within the mutations there are, and one refresh that a start asks for.     *)
Owed == IF \E c \in Callers : mutation[c] # NoMutation THEN 1 ELSE 0

CountInv ==
  /\ mutations \in 0..MaxMutations /\ disturbances \in 0..MaxDisturbances
  /\ announced + Owed <= mutations
  /\ announced + queued + Owed <= mutations + 1

MemoryTyped ==
  /\ serverUp \in BOOLEAN
  /\ subscribed \in BOOLEAN /\ ready \in BOOLEAN /\ missed \in BOOLEAN
  /\ refresh \in {"none", "fetched", "handling"}
  /\ fetched \in Policy!Rules \cup {NoValue} /\ live \in Policy!Rules \cup {NoValue}

-----------------------------------------------------------------------------
(* Every step of the system is one step of the server, its events or the live   *)
(* value, or leaves them alone.                                               *)
LEMMA PolicyStep ==
  ASSUME SystemNext
  PROVE  \/ \E c \in Callers : \/ Policy!Store(c) \/ Policy!Apply(c) \/ Policy!StoreFails(c)
                               \/ \E n \in Names, value \in Wanted \cup {NoRule} :
                                    Policy!Prepare(c, n, value)
         \/ Policy!ServerStart \/ Policy!ServerCrash
         \/ Policy!Deliver \/ Policy!Lose
         \/ Policy!Start \/ Policy!Fetch \/ Policy!FetchFails \/ Policy!Handle \/ Policy!Accept
         \/ Policy!Refuse \/ Policy!Stop
         \/ UNCHANGED policyVars
BY DEF SystemNext, PolicyMoves, PolicyDisturbed, ServerStep, ServerFails, Mutate, ManualCall,
       ReconcileFetched, RefuseFetched, OperationStep, CallEnds, ReconcileEnds, CallBreaksOff,
       ReconcileBreaksOff, Crash

(* A system that starts has its types, its files served and nothing to miss.   *)
LEMMA InitTyped ==
  SystemInit => PolicyTyped /\ FilesInv /\ LiveInv /\ CountInv /\ MemoryTyped
<1> SUFFICES ASSUME SystemInit
             PROVE  PolicyTyped /\ FilesInv /\ LiveInv /\ CountInv /\ MemoryTyped
  OBVIOUS
<1> USE DEF SystemInit, Policy!Init, Policy!Empty
<1>1. PolicyTyped /\ FilesInv /\ LiveInv
  BY DEF PolicyTyped, FilesInv, LiveInv, Policy!Rules
<1>2. Owed = 0
  BY DEF Owed
<1>3. CountInv
  BY <1>2, BoundsAssumption DEF CountInv
<1>4. MemoryTyped
  BY DEF MemoryTyped
<1> QED
  BY <1>1, <1>3, <1>4

(* Every step keeps the types of the server's state and of the refresh.        *)
LEMMA StepPolicyTyped ==
  ASSUME PolicyTyped, SystemNext
  PROVE  PolicyTyped'
<1> USE DEF PolicyTyped, Policy!Rules, Policy!Mutations
<1>1. ASSUME NEW c \in Callers, Policy!Store(c) PROVE PolicyTyped'
  BY <1>1 DEF Policy!Store, Policy!client
<1>2. ASSUME NEW c \in Callers, Policy!Apply(c) PROVE PolicyTyped'
  BY <1>2 DEF Policy!Apply, Policy!client
<1>3. ASSUME NEW c \in Callers, Policy!StoreFails(c) PROVE PolicyTyped'
  BY <1>3 DEF Policy!StoreFails, Policy!client, Policy!Disturb
<1>4. ASSUME NEW c \in Callers, NEW n \in Names, NEW value \in Wanted \cup {NoRule},
             Policy!Prepare(c, n, value)
      PROVE  PolicyTyped'
  BY <1>4 DEF Policy!Prepare, Policy!client
<1>5. CASE Policy!ServerStart \/ Policy!ServerCrash
  BY <1>5 DEF Policy!ServerStart, Policy!ServerCrash, Policy!client, Policy!Disturb
<1>6. CASE Policy!Deliver \/ Policy!Lose
  BY <1>6 DEF Policy!Deliver, Policy!Lose, Policy!server, Policy!Disturb, Policy!Receives
<1>7. CASE Policy!Start \/ Policy!Fetch \/ Policy!Handle
  BY <1>7 DEF Policy!Start, Policy!Fetch, Policy!Handle, Policy!server
<1>8. CASE Policy!FetchFails
  BY <1>8 DEF Policy!FetchFails, Policy!Stop, Policy!server
<1>9. CASE Policy!Accept \/ Policy!Refuse \/ Policy!Stop
  BY <1>9 DEF Policy!Accept, Policy!Refuse, Policy!KeepOld, Policy!Refreshed, Policy!Stop,
              Policy!server
<1>10. CASE UNCHANGED policyVars
  BY <1>10 DEF policyVars
<1> QED
  BY <1>1, <1>2, <1>3, <1>4, <1>5, <1>6, <1>7, <1>8, <1>9, <1>10, PolicyStep

(* The mutation queue, and the order of write and assignment in setInstance and *)
(* deleteInstance, keep answers and files together over crashes and failures.  *)
LEMMA StepFiles ==
  ASSUME PolicyTyped, FilesInv, SystemNext
  PROVE  FilesInv'
<1> USE DEF PolicyTyped, FilesInv, Policy!Rules, Policy!Mutations
<1>1. ASSUME NEW c \in Callers, Policy!Store(c) PROVE FilesInv'
  <2>1. /\ mutation[c] # NoMutation /\ mutation[c] \in Policy!Mutations
        /\ file = served /\ mutation[c].prepared = file'
        /\ serverUp' = serverUp /\ served' = served /\ serverUp
    BY <1>1 DEF Policy!Store
  <2>2. \A d \in Callers : d # c => mutation[d] = NoMutation /\ mutation'[d] = NoMutation
    BY <1>1 DEF Policy!Store
  <2>3. /\ mutation'[c].stored = TRUE
        /\ mutation'[c].name = mutation[c].name /\ mutation'[c].value = mutation[c].value
        /\ mutation'[c].prepared = mutation[c].prepared
    <3> DEFINE m == mutation[c]
    <3>1. m \in Policy!Mutations
      BY <2>1
    <3>2. mutation'[c] = [m EXCEPT !.stored = TRUE]
      BY <1>1 DEF Policy!Store
    <3> HIDE DEF m
    <3>3. /\ mutation'[c].stored = TRUE
          /\ mutation'[c].name = m.name /\ mutation'[c].value = m.value
          /\ mutation'[c].prepared = m.prepared
      BY <3>1, <3>2
    <3> QED
      BY <3>3 DEF m
  <2>4. mutation'[c] # NoMutation
    BY <1>1, StepPolicyTyped, MutationAssumption DEF Policy!Store
  <2>5. mutation[c].prepared = [served EXCEPT ![mutation[c].name] = mutation[c].value]
    BY <2>1
  <2>6. /\ serverUp'
        /\ mutation'[c].prepared = [served' EXCEPT ![mutation'[c].name] = mutation'[c].value]
        /\ file' = IF mutation'[c].stored THEN mutation'[c].prepared ELSE served'
    BY <2>1, <2>3, <2>5
  <2>7. \A d, e \in Callers : mutation'[d] # NoMutation /\ mutation'[e] # NoMutation => d = e
    BY <2>2
  <2> QED
    BY <2>2, <2>4, <2>6, <2>7
<1>2. ASSUME NEW c \in Callers, Policy!Apply(c) PROVE FilesInv'
  <2>1. \A d \in Callers : mutation'[d] = NoMutation
    BY <1>2 DEF Policy!Apply
  <2>2. served' = file'
    BY <1>2 DEF Policy!Apply
  <2> QED
    BY <2>1, <2>2
<1>3. ASSUME NEW c \in Callers, Policy!StoreFails(c) PROVE FilesInv'
  BY <1>3 DEF Policy!StoreFails
<1>4. ASSUME NEW c \in Callers, NEW n \in Names, NEW value \in Wanted \cup {NoRule},
             Policy!Prepare(c, n, value)
      PROVE  FilesInv'
  BY <1>4 DEF Policy!Prepare, Policy!InTurn
<1>5. CASE Policy!ServerStart \/ Policy!ServerCrash
  BY <1>5 DEF Policy!ServerStart, Policy!ServerCrash
<1>6. ASSUME UNCHANGED <<file, served, serverUp, mutation>> PROVE FilesInv'
  BY <1>6
<1>7. \/ Policy!Deliver \/ Policy!Lose
      \/ Policy!Start \/ Policy!Fetch \/ Policy!FetchFails \/ Policy!Handle \/ Policy!Accept
      \/ Policy!Refuse \/ Policy!Stop
      \/ UNCHANGED policyVars
      => UNCHANGED <<file, served, serverUp, mutation>>
  BY DEF Policy!Deliver, Policy!Lose, Policy!Start, Policy!Fetch, Policy!FetchFails,
         Policy!Handle, Policy!Accept, Policy!Refuse, Policy!KeepOld, Policy!Stop,
         Policy!server, policyVars
<1> QED
  BY <1>1, <1>2, <1>3, <1>4, <1>5, <1>6, <1>7, PolicyStep

(* A mutation that applies sends word of it; a fetch takes all word there is, *)
(* and a refresh that fails leaves a note that something was missed.          *)
LEMMA StepLive ==
  ASSUME PolicyTyped, FilesInv, LiveInv, SystemNext
  PROVE  LiveInv'
<1> USE DEF LiveInv, WordUnderWay, PolicyTyped
<1>1. ASSUME NEW c \in Callers, Policy!Apply(c) PROVE LiveInv'
  BY <1>1 DEF Policy!Apply, Policy!client
<1>2. ASSUME UNCHANGED <<served, Policy!client, announced>> PROVE LiveInv'
  BY <1>2 DEF Policy!client
<1>3. ASSUME NEW c \in Callers,
             \/ Policy!Store(c) \/ Policy!StoreFails(c)
             \/ \E n \in Names, value \in Wanted \cup {NoRule} : Policy!Prepare(c, n, value)
      PROVE  LiveInv'
  BY <1>2, <1>3 DEF Policy!Store, Policy!StoreFails, Policy!Prepare
<1>4. CASE Policy!ServerCrash \/ UNCHANGED policyVars
  BY <1>2, <1>4 DEF Policy!ServerCrash, policyVars, Policy!client
<1>5. CASE Policy!ServerStart
  BY <1>5 DEF Policy!ServerStart
<1>6. CASE Policy!Deliver \/ Policy!Lose
  BY <1>6 DEF Policy!Deliver, Policy!Lose, Policy!server, Policy!Receives
<1>7. CASE Policy!Start
  BY <1>7 DEF Policy!Start, Policy!server
<1>8. CASE Policy!Fetch
  <2>1. /\ queued > 0 /\ queued' \in Nat
        /\ missed' = FALSE /\ refresh' = "fetched" /\ fetched' = served
        /\ UNCHANGED <<served, subscribed, ready>>
    BY <1>8 DEF Policy!Fetch, Policy!server
  <2> QED
    BY <2>1
<1>9. CASE Policy!Handle
  BY <1>9 DEF Policy!Handle, Policy!server
<1>10. CASE Policy!Stop
  BY <1>10 DEF Policy!Stop, Policy!server
<1>11. CASE Policy!FetchFails
  <2>1. CASE ready
    <3>1. /\ queued > 0 /\ missed' = TRUE
          /\ UNCHANGED <<subscribed, ready, refresh>>
      BY <1>11, <2>1 DEF Policy!FetchFails
    <3> QED
      BY <3>1
  <2>2. CASE ~ready
    BY <1>11, <1>10, <2>2 DEF Policy!FetchFails
  <2> QED
    BY <2>1, <2>2
<1>12. CASE Policy!Accept
  BY <1>12 DEF Policy!Accept, Policy!Refreshed, Policy!server
<1>13. CASE Policy!Refuse
  BY <1>10, <1>13 DEF Policy!Refuse, Policy!KeepOld, Policy!Refreshed, Policy!server
<1> QED
  BY <1>1, <1>3, <1>4, <1>5, <1>6, <1>7, <1>8, <1>9, <1>10, <1>11, <1>12, <1>13,
     PolicyStep

(* A mutation is counted before it is announced, and what is announced before *)
(* it is queued: the queues never hold more than was accepted.                *)
LEMMA StepCounts ==
  ASSUME PolicyTyped, FilesInv, LiveInv, CountInv, SystemNext
  PROVE  CountInv'
<1>1. /\ Owed \in 0..1 /\ Owed' \in 0..1
      /\ announced \in Nat /\ queued \in Nat /\ mutations \in Nat /\ disturbances \in Nat
      /\ MaxMutations \in Nat /\ MaxDisturbances \in Nat
  BY BoundsAssumption DEF Owed, PolicyTyped, CountInv
<1>2. disturbances' \in 0..MaxDisturbances
  <2>1. disturbances' = disturbances \/ Policy!Disturb
    BY DEF SystemNext, PolicyMoves, PolicyDisturbed, ServerStep, ServerFails, Mutate, ManualCall,
           ReconcileFetched, RefuseFetched, OperationStep, CallEnds, ReconcileEnds, CallBreaksOff,
           ReconcileBreaksOff, Crash, policyVars, Policy!Store, Policy!Apply, Policy!StoreFails,
           Policy!Prepare, Policy!ServerStart, Policy!ServerCrash, Policy!Deliver, Policy!Lose,
           Policy!Start, Policy!Fetch, Policy!FetchFails, Policy!Handle, Policy!Accept
  <2> QED
    BY <1>1, <2>1 DEF CountInv, Policy!Disturb
<1>3. ASSUME UNCHANGED mutation PROVE Owed' = Owed
  BY <1>3 DEF Owed
<1>4. ASSUME NEW c \in Callers, NEW n \in Names, NEW value \in Wanted \cup {NoRule},
             Policy!Prepare(c, n, value)
      PROVE  /\ Owed = 0 /\ mutations < MaxMutations /\ mutations' = mutations + 1
             /\ UNCHANGED <<announced, queued>>
  BY <1>4 DEF Policy!Prepare, Policy!InTurn, Policy!client, Owed
<1>5. ASSUME NEW c \in Callers, Policy!Apply(c)
      PROVE  /\ Owed = 1 /\ Owed' = 0 /\ announced' = announced + 1
             /\ UNCHANGED <<mutations, queued>>
  <2>1. Owed = 1
    BY <1>5 DEF Policy!Apply, Owed
  <2>2. \A d \in Callers : mutation'[d] = NoMutation
    BY <1>5 DEF Policy!Apply, FilesInv, PolicyTyped
  <2>3. Owed' = 0
    BY <2>2 DEF Owed
  <2> QED
    BY <1>5, <2>1, <2>3 DEF Policy!Apply, Policy!client
<1>6. ASSUME \/ \E c \in Callers : Policy!Store(c) \/ Policy!StoreFails(c)
             \/ Policy!ServerCrash
      PROVE  Owed' <= Owed /\ UNCHANGED <<mutations, announced, queued>>
  <2>1. CASE Policy!ServerCrash
    <3>1. Owed' = 0
      BY <2>1 DEF Policy!ServerCrash, Owed
    <3> QED
      BY <1>1, <2>1, <3>1 DEF Policy!ServerCrash, Policy!client
  <2>2. ASSUME NEW c \in Callers, Policy!Store(c) \/ Policy!StoreFails(c)
        PROVE  Owed' <= Owed /\ UNCHANGED <<mutations, announced, queued>>
    <3>1. Owed = 1
      BY <2>2 DEF Policy!Store, Policy!StoreFails, Owed
    <3> QED
      BY <1>1, <2>2, <3>1 DEF Policy!Store, Policy!StoreFails, Policy!client
  <2> QED
    BY <1>6, <2>1, <2>2
<1>7. ASSUME Policy!Deliver \/ Policy!Lose
      PROVE  /\ Owed' = Owed /\ announced > 0 /\ announced' = announced - 1
             /\ queued' \in {queued, queued + 1} /\ mutations' = mutations
  BY <1>3, <1>7 DEF Policy!Deliver, Policy!Lose, Policy!server
<1>8. ASSUME Policy!Start
      PROVE  Owed' = Owed /\ queued = 0 /\ queued' = 1 /\ UNCHANGED <<mutations, announced>>
  <2>1. ~(queued > 0)
    BY <1>8 DEF Policy!Start, LiveInv
  <2> QED
    BY <1>1, <1>3, <1>8, <2>1 DEF Policy!Start, Policy!server
<1>9. ASSUME \/ Policy!ServerStart \/ Policy!Fetch \/ Policy!FetchFails \/ Policy!Handle
             \/ Policy!Accept \/ Policy!Refuse \/ Policy!Stop
             \/ UNCHANGED policyVars
      PROVE  /\ Owed' = Owed /\ UNCHANGED <<mutations, announced>>
             /\ \/ queued' = queued
                \/ queued > 0 /\ queued' = queued - 1
                \/ queued' = 0
  <2>1. UNCHANGED <<mutation, mutations, announced>>
    BY <1>9 DEF Policy!ServerStart, Policy!Fetch, Policy!FetchFails, Policy!Handle,
                Policy!Accept, Policy!Refuse, Policy!KeepOld, Policy!Stop, Policy!server,
                policyVars
  <2>2. CASE Policy!ServerStart \/ Policy!Handle \/ Policy!Accept \/ UNCHANGED policyVars
    BY <1>3, <2>1, <2>2 DEF Policy!ServerStart, Policy!Handle, Policy!Accept,
                            Policy!Refreshed, policyVars
  <2>3. CASE Policy!Fetch \/ Policy!FetchFails \/ Policy!Refuse \/ Policy!Stop
    BY <1>3, <2>1, <2>3 DEF Policy!Fetch, Policy!FetchFails, Policy!Refuse, Policy!KeepOld,
                            Policy!Refreshed, Policy!Stop
  <2> QED
    BY <1>9, <2>2, <2>3
<1> QED
  <2>1. CASE \E c \in Callers, n \in Names, value \in Wanted \cup {NoRule} :
               Policy!Prepare(c, n, value)
    BY <1>1, <1>2, <1>4, <2>1 DEF CountInv
  <2>2. CASE \E c \in Callers : Policy!Apply(c)
    BY <1>1, <1>2, <1>5, <2>2 DEF CountInv
  <2>3. CASE \/ \E c \in Callers : Policy!Store(c) \/ Policy!StoreFails(c)
             \/ Policy!ServerCrash
    BY <1>1, <1>2, <1>6, <2>3 DEF CountInv
  <2>4. CASE Policy!Deliver \/ Policy!Lose
    BY <1>1, <1>2, <1>7, <2>4 DEF CountInv
  <2>5. CASE Policy!Start
    BY <1>1, <1>2, <1>8, <2>5 DEF CountInv
  <2>6. CASE \/ Policy!ServerStart \/ Policy!Fetch \/ Policy!FetchFails \/ Policy!Handle
             \/ Policy!Accept \/ Policy!Refuse \/ Policy!Stop
             \/ UNCHANGED policyVars
    BY <1>1, <1>2, <1>9, <2>6 DEF CountInv
  <2> QED
    BY <2>1, <2>2, <2>3, <2>4, <2>5, <2>6, PolicyStep

LEMMA StepMemory ==
  ASSUME PolicyTyped, MemoryTyped, SystemNext
  PROVE  MemoryTyped'
<1> USE DEF MemoryTyped
<1>1. ASSUME UNCHANGED <<serverUp, subscribed, ready, missed, refresh, fetched, live>>
      PROVE  MemoryTyped'
  BY <1>1
<1>2. ASSUME NEW c \in Callers,
             \/ Policy!Store(c) \/ Policy!Apply(c) \/ Policy!StoreFails(c)
             \/ \E n \in Names, value \in Wanted \cup {NoRule} : Policy!Prepare(c, n, value)
      PROVE  MemoryTyped'
  BY <1>1, <1>2 DEF Policy!Store, Policy!Apply, Policy!StoreFails, Policy!Prepare, Policy!client
<1>3. CASE Policy!ServerStart \/ Policy!ServerCrash
  BY <1>3 DEF Policy!ServerStart, Policy!ServerCrash, Policy!client
<1>4. CASE Policy!Deliver \/ Policy!Lose
  BY <1>4 DEF Policy!Deliver, Policy!Lose, Policy!server
<1>5. CASE Policy!Start \/ Policy!Handle \/ UNCHANGED policyVars
  BY <1>5 DEF Policy!Start, Policy!Handle, Policy!server, policyVars
<1>6. CASE Policy!Fetch
  BY <1>6 DEF Policy!Fetch, Policy!server, PolicyTyped
<1>7. CASE Policy!Accept
  BY <1>7 DEF Policy!Accept, Policy!Refreshed, Policy!server, PolicyTyped
<1>8. CASE Policy!Stop
  BY <1>8 DEF Policy!Stop, Policy!server
<1>9. CASE Policy!Refuse
  BY <1>8, <1>9 DEF Policy!Refuse, Policy!KeepOld, Policy!Refreshed, Policy!server
<1>10. CASE Policy!FetchFails
  BY <1>8, <1>10 DEF Policy!FetchFails, Policy!server
<1> QED
  BY <1>2, <1>3, <1>4, <1>5, <1>6, <1>7, <1>8, <1>9, <1>10, PolicyStep

-----------------------------------------------------------------------------
(* A step of an operation is a step of PipelineDefinitions, which any other   *)
(* step leaves alone.                                                         *)
LEMMA StepOfDefinitions ==
  ASSUME PolicyTyped, SystemNext
  PROVE  [Next]_vars
<1>1. CASE ManualCall
  BY <1>1 DEF ManualCall, Next
<1>2. CASE ReconcileFetched
  BY <1>2 DEF ReconcileFetched, Policy!Handle, PolicyTyped, Policy!Rules, Next
<1>3. CASE RefuseFetched \/ PolicyMoves \/ PolicyDisturbed
  BY <1>3 DEF RefuseFetched, PolicyMoves, PolicyDisturbed
<1>4. CASE OperationStep \/ CallEnds \/ ReconcileEnds \/ CallBreaksOff \/ ReconcileBreaksOff
  BY <1>4 DEF OperationStep, CallEnds, ReconcileEnds, CallBreaksOff, ReconcileBreaksOff, Next
<1>5. CASE Crash
  BY <1>5 DEF Crash, Next
<1> QED
  BY <1>1, <1>2, <1>3, <1>4, <1>5 DEF SystemNext

SystemInv == PolicyTyped /\ FilesInv /\ LiveInv /\ CountInv /\ MemoryTyped

(* The inductive invariant of the server and the live value.                   *)
LEMMA SystemInvariant == SystemSpec => []SystemInv
<1>1. SystemInv /\ [SystemNext]_SystemVars => SystemInv'
  <2>1. ASSUME SystemInv, UNCHANGED SystemVars
        PROVE  SystemInv'
    BY <2>1 DEF SystemVars, policyVars, SystemInv, PolicyTyped, FilesInv, LiveInv, WordUnderWay,
                   CountInv, Owed, MemoryTyped
  <2>2. ASSUME SystemInv, SystemNext
        PROVE  SystemInv'
    BY <2>2, StepPolicyTyped, StepFiles, StepLive, StepCounts, StepMemory DEF SystemInv
  <2> QED
    BY <2>1, <2>2
<1> QED
  BY <1>1, InitTyped, PTL DEF SystemSpec, SystemInv

(* Under its policy the pipelines module does to definitions and registrations *)
(* nothing that PipelineDefinitions does not: all that is proved of it holds.  *)
THEOREM ImplementsDefinitions == SystemSpec => Spec
<1>1. SystemInv /\ [SystemNext]_SystemVars => [Next]_vars
  BY StepOfDefinitions DEF SystemInv, SystemVars
<1>2. SystemInit => Init
  BY DEF SystemInit
<1> QED
  BY <1>1, <1>2, SystemInvariant, PTL DEF SystemSpec, Spec

(* The server, its events and the live value keep their types: the events      *)
(* under way and the refreshes queued are never more than the mutations that   *)
(* were accepted, and one for a start.                                        *)
THEOREM SystemTypeCorrect == SystemSpec => []SystemTypeOK
<1>1. SystemInv => Policy!TypeOK
  <2> SUFFICES ASSUME SystemInv PROVE Policy!TypeOK
    OBVIOUS
  <2>1. Owed \in Nat
    BY DEF Owed
  <2>2. announced \in 0..MaxMutations /\ queued \in 0..MaxMutations + 1
    BY <2>1, BoundsAssumption DEF SystemInv, PolicyTyped, CountInv
  <2> QED
    BY <2>2 DEF SystemInv, PolicyTyped, CountInv, MemoryTyped, Policy!TypeOK
<1>2. SystemSpec => []TypeOK
  BY ImplementsDefinitions, TypeCorrect
<1> QED
  BY <1>1, <1>2, SystemInvariant, PTL DEF SystemTypeOK

(* "Serialized concurrent mutations cannot leave the file store and resolved   *)
(* value out of sync" (policies.md): whoever mutates, whatever fails and       *)
(* whenever the server dies, it serves its files, but for a mutation that has  *)
(* stored its file and is about to apply.                                     *)
THEOREM FilesAreServed == SystemSpec => []ServedIsStored
<1>1. SystemInv => ServedIsStored
  BY DEF SystemInv, FilesInv, ServedIsStored, Policy!ServedIsStored
<1> QED
  BY <1>1, SystemInvariant, PTL

(* A module that no event is under way to, that refreshes nothing and missed    *)
(* nothing lives by the value the server answers.                              *)
THEOREM SettledModuleIsCurrent == SystemSpec => []SettledIsCurrent
<1>1. SystemInv => SettledIsCurrent
  BY DEF SystemInv, LiveInv, WordUnderWay, PolicyTyped, SettledIsCurrent,
         Policy!SettledIsCurrent, Policy!Settled
<1> QED
  BY <1>1, SystemInvariant, PTL

(* The registrations are those of the stored definitions under a live policy.   *)
THEOREM AgreementUnderPolicy == SystemSpec => []RegistrationsAgree
BY ImplementsDefinitions, RegistrationsAlwaysAgree

(* A refresh that is accepted materialized the rules it fetched.                *)
THEOREM MaterializedUnderPolicy == SystemSpec => ReconcileMaterializes
BY ImplementsDefinitions, ReconciliationMaterializes
=============================================================================
