---------------------------- MODULE PolicyRules ----------------------------
(***************************************************************************)
(* The instances of one policy kind: the server that keeps them            *)
(* (framework/src/policies/server.ts) over a directory of files            *)
(* (policies/src/store.ts), and the value a module lives by                *)
(* (framework/src/policies/live.ts), which it fetches when it starts and   *)
(* again whenever the server announces a change.                           *)
(*                                                                         *)
(* The resolved value is the function from names to instances: the         *)
(* resolver of pipelines.automation.rules maps them one by one.            *)
(***************************************************************************)
EXTENDS Naturals

CONSTANTS
  Names,           \* metadata.name of the instances
  Values,          \* what an instance may say, absence included
  NoRule,          \* no instance of a name
  Callers,         \* of setInstance and deleteInstance
  NoMutation,      \* a caller without a mutation
  NoValue,         \* the value before the first refresh
  MaxMutations,    \* bound: mutations
  MaxDisturbances  \* bound: crashes, lost events, failing writes and fetches

VARIABLES
  file,        \* the files of the kind
  served,      \* server.ts state: what getPolicyValue answers
  serverUp,
  mutation,    \* the mutation of each caller, with the state it prepared
  announced,   \* events policies.instances.changed under way
  subscribed,  \* the module has subscribed to them
  ready,       \* its first refresh is over
  queued,      \* refreshes in refreshQueue that have not begun
  refresh,     \* "none", "fetched" or "handling"
  fetched,     \* the value of the refresh that has begun
  live,     \* live.ts current
  missed,      \* auxiliary: a change may have gone by since the last fetch
  mutations, disturbances

server == <<file, served, serverUp, mutation, mutations>>
client == <<subscribed, ready, queued, refresh, fetched, live, missed>>
vars == <<server, announced, client, disturbances>>

Rules == [Names -> Values]

Mutations == [name : Names, value : Values, prepared : Rules, stored : BOOLEAN]

TypeOK ==
  /\ file \in Rules /\ served \in Rules /\ serverUp \in BOOLEAN
  /\ mutation \in [Callers -> Mutations \cup {NoMutation}]
  /\ announced \in 0..MaxMutations /\ queued \in 0..MaxMutations + 1
  /\ subscribed \in BOOLEAN /\ ready \in BOOLEAN /\ missed \in BOOLEAN
  /\ refresh \in {"none", "fetched", "handling"}
  /\ fetched \in Rules \cup {NoValue} /\ live \in Rules \cup {NoValue}
  /\ mutations \in 0..MaxMutations /\ disturbances \in 0..MaxDisturbances

Empty == [n \in Names |-> NoRule]

Init ==
  /\ file = Empty /\ served = Empty /\ serverUp = TRUE
  /\ mutation = [c \in Callers |-> NoMutation]
  /\ announced = 0
  /\ subscribed = FALSE /\ ready = FALSE /\ queued = 0
  /\ refresh = "none" /\ fetched = NoValue /\ live = NoValue /\ missed = FALSE
  /\ mutations = 0 /\ disturbances = 0

Disturb ==
  /\ disturbances < MaxDisturbances
  /\ disturbances' = disturbances + 1

-----------------------------------------------------------------------------
(* The server *)

(* Mutant: mutations are not queued. *)
OutOfTurn(c) == mutation[c] = NoMutation

(* mutationQueue runs one operation at a time. *)
InTurn(c) == \A d \in Callers : mutation[d] = NoMutation

(* setInstance and deleteInstance: prepareSet or prepareDelete resolves the *)
(* state that is to come before anything is written.                        *)
Prepare(c, n, value) ==
  /\ serverUp
  /\ InTurn(c)
  /\ mutations < MaxMutations
  /\ mutations' = mutations + 1
  /\ mutation' = [mutation EXCEPT ![c] =
       [name |-> n, value |-> value, prepared |-> [served EXCEPT ![n] = value], stored |-> FALSE]]
  /\ UNCHANGED <<file, served, serverUp, announced, client, disturbances>>

(* A set renames a temporary file over the instance's, a delete removes it. *)
Store(c) ==
  /\ mutation[c] # NoMutation
  /\ ~mutation[c].stored
  /\ file' = [file EXCEPT ![mutation[c].name] = mutation[c].value]
  /\ mutation' = [mutation EXCEPT ![c].stored = TRUE]
  /\ UNCHANGED <<served, serverUp, mutations, announced, client, disturbances>>

(* store_conflict: the mutation is rejected. *)
StoreFails(c) ==
  /\ mutation[c] # NoMutation
  /\ ~mutation[c].stored
  /\ Disturb
  /\ mutation' = [mutation EXCEPT ![c] = NoMutation]
  /\ UNCHANGED <<file, served, serverUp, mutations, announced, client>>

(* The prepared state replaces the old one and the event goes out; a        *)
(* failing publish is logged, which is to lose the event.                   *)
Apply(c) ==
  /\ mutation[c] # NoMutation
  /\ mutation[c].stored
  /\ served' = mutation[c].prepared
  /\ mutation' = [mutation EXCEPT ![c] = NoMutation]
  /\ announced' = announced + 1
  /\ UNCHANGED <<file, serverUp, mutations, client, disturbances>>

ServerCrash ==
  /\ serverUp
  /\ Disturb
  /\ serverUp' = FALSE
  /\ mutation' = [c \in Callers |-> NoMutation]
  /\ UNCHANGED <<file, served, mutations, announced, client>>

(* loadAll; nobody is told what changed. *)
ServerStart ==
  /\ ~serverUp
  /\ serverUp' = TRUE
  /\ served' = file
  /\ missed' = (missed \/ served # file)
  /\ UNCHANGED <<file, mutation, mutations, announced, subscribed, ready, queued, refresh,
                 fetched, live, disturbances>>

-----------------------------------------------------------------------------
(* Events *)

(* Mutant: the subscription begins after the first refresh. *)
ReceivesWhenReady == ready

Receives == subscribed

Deliver ==
  /\ announced > 0
  /\ announced' = announced - 1
  /\ queued' = IF Receives THEN queued + 1 ELSE queued
  /\ UNCHANGED <<server, subscribed, ready, refresh, fetched, live, missed, disturbances>>

Lose ==
  /\ announced > 0
  /\ Disturb
  /\ announced' = announced - 1
  /\ missed' = TRUE
  /\ UNCHANGED <<server, subscribed, ready, queued, refresh, fetched, live>>

-----------------------------------------------------------------------------
(* The live value *)

(* live.ts start: the subscription, then the required refresh. *)
Start ==
  /\ ~subscribed
  /\ subscribed' = TRUE
  /\ queued' = 1
  /\ UNCHANGED <<server, announced, ready, refresh, fetched, live, missed, disturbances>>

(* The next refresh of the queue asks the server, which answers from memory. *)
Fetch ==
  /\ queued > 0 /\ refresh = "none"
  /\ serverUp
  /\ queued' = queued - 1
  /\ refresh' = "fetched"
  /\ fetched' = served
  /\ missed' = FALSE
  /\ UNCHANGED <<server, announced, subscribed, ready, live, disturbances>>

(* onChange begins, with the value or, when it cannot be used, an error.     *)
Handle ==
  /\ refresh = "fetched"
  /\ refresh' = "handling"
  /\ UNCHANGED <<server, announced, subscribed, ready, queued, fetched, live, missed,
                 disturbances>>

Refreshed ==
  /\ queued' = queued
  /\ refresh' = "none" /\ fetched' = NoValue

(* onChange has returned. *)
Accept ==
  /\ refresh = "handling"
  /\ live' = fetched
  /\ ready' = TRUE
  /\ Refreshed
  /\ UNCHANGED <<server, announced, subscribed, missed, disturbances>>

(* The process of the module ends: all it knew is gone. *)
Stop ==
  /\ subscribed' = FALSE /\ ready' = FALSE /\ queued' = 0
  /\ refresh' = "none" /\ fetched' = NoValue /\ live' = NoValue
  /\ missed' = FALSE
  /\ UNCHANGED <<server, announced>>

(* Mutant: a refresh that failed is never over. *)
KeepOldHolding ==
  /\ missed' = TRUE
  /\ UNCHANGED <<server, announced, subscribed, ready, queued, refresh, fetched, live>>

KeepOld ==
  /\ missed' = TRUE
  /\ Refreshed
  /\ UNCHANGED <<server, announced, subscribed, ready, live>>

(* onChange or the fetch failed: a running module keeps the value it has, a  *)
(* module that starts does not start.                                        *)
Refuse ==
  /\ refresh \in {"fetched", "handling"}
  /\ IF ready THEN KeepOld ELSE Stop

FetchFails ==
  /\ queued > 0 /\ refresh = "none"
  /\ IF serverUp THEN Disturb ELSE UNCHANGED disturbances
  /\ IF ready
     THEN /\ queued' = queued - 1
          /\ missed' = TRUE
          /\ UNCHANGED <<server, announced, subscribed, ready, refresh, fetched, live>>
     ELSE Stop

-----------------------------------------------------------------------------
(* Nothing of a change is on its way to the module. *)
Settled == ready /\ announced = 0 /\ queued = 0 /\ refresh = "none"

(* The files and the answers agree while no mutation is between the two.      *)
ServedIsStored ==
  serverUp /\ (\A c \in Callers : mutation[c] # NoMutation => ~mutation[c].stored)
    => served = file

(* A module that waits for nothing and missed nothing lives by what the server *)
(* answers: no order of events, refreshes and mutations leaves it behind.      *)
SettledIsCurrent == Settled /\ ~missed => live = served
=============================================================================
