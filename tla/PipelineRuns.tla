--------------------------- MODULE PipelineRuns ---------------------------
(***************************************************************************)
(* Pipeline runs: creating a run for an idempotency key, executing its     *)
(* nodes one after the other, waiting for an asynchronous action provider  *)
(* (llm-runner), and resuming from the provider's events or at startup     *)
(* (packages/pipelines/src/runtime.ts, store.ts).                          *)
(*                                                                         *)
(* The process is one event loop: every RPC call, every event subscription *)
(* and the startup resume is a task of its own, and tasks interleave at    *)
(* each statement, read or call they await.  `serialize` lets one task at  *)
(* a time create a run or settle a waiting node; executions are outside    *)
(* it.  Definitions change by PipelineDefinitions; here they just change.  *)
(***************************************************************************)
EXTENDS Integers, Sequences, FiniteSets

CONSTANTS
  Runs,          \* runs, by idempotency key (a manual run without one has its own)
  Calls,         \* calls of runPipeline and runTriggered
  RunOf,         \* the run a call asks for
  Names,         \* pipeline names
  NameOf,        \* the pipeline a run belongs to
  Plans,         \* documents, as the kinds of their nodes in executionOrder
  NoPlan,        \* a name without definition
  NoRun,         \* the run of a task that has none
  MaxNodes,      \* the longest document
  TelemetryEnabled, \* recordCurrentStats reads the tables, or does nothing
  MaxFaults,     \* bound: crashes and failed statements
  MaxLost,       \* bound: events and results lost on the way
  MaxChanges     \* bound: changes of definitions

Subscriptions == {"completed", "failed"}

Tasks == Calls \cup Subscriptions \cup {"startup"}

Positions == 1..MaxNodes

Kinds == {"data", "llm"}

ASSUME TasksAssumption ==
  /\ Calls \cap (Subscriptions \cup {"startup"}) = {}
  /\ RunOf \in [Calls -> Runs] /\ NameOf \in [Runs -> Names] /\ NoRun \notin Runs

ASSUME PlansAssumption ==
  /\ TelemetryEnabled \in BOOLEAN
  /\ MaxNodes \in Nat /\ MaxFaults \in Nat /\ MaxLost \in Nat /\ MaxChanges \in Nat
  /\ Plans \subseteq {p \in Seq(Kinds) : Len(p) \in Positions}
  /\ NoPlan \notin Plans

VARIABLES
  up,            \* the process runs
  definition,    \* table pipelines_definitions
  run,           \* table pipelines_runs
  node,          \* table pipelines_node_runs
  task,          \* where each task of the process is
  todo,          \* startup: waiting nodes listed and not yet settled
  resumed,       \* startup: runs to execute once all are settled
  holder,        \* the task inside `serialize`, a set of at most one
  answer,        \* what each call was answered
  sent,          \* dispatches of a node sent to its provider
  provider,      \* the provider's run for a node
  events,        \* provider events on their way to a subscription
  faults, lost, changes

tables == <<definition, run, node>>
startup == <<todo, resumed>>
world == <<sent, provider, events>>
bounds == <<faults, lost, changes>>
vars == <<up, tables, task, startup, holder, answer, world, bounds>>

-----------------------------------------------------------------------------
(* Values *)

RunStatuses == {"absent", "accepted", "running", "waiting", "completed", "failed"}

NodeStatuses == {"absent", "running", "waiting", "completed", "failed"}

FinalStatuses == {"completed", "failed"}

SettleLabels == {"reading", "completing", "failingNode", "failingRun", "settled", "resuming"}

TryLabels ==
  {"node", "dispatching", "calling", "ready", "accepted", "parking", "rejected", "failing",
   "counting", "finishing"}

ExecutionLabels == {"starting", "listing"} \cup TryLabels \cup {"catch", "catchRun", "returning"}

Labels ==
  {"idle", "new", "answered", "lost", "listWaiting", "settling", "executing"}
    \cup SettleLabels \cup ExecutionLabels

NodeRows == [Positions -> NodeStatuses]

NoRows == [n \in Positions |-> "absent"]

Task == [at : Labels, run : Runs \cup {NoRun}, pos : Positions \cup {0, MaxNodes + 1},
         seen : NodeRows]

IdleTask(label) == [at |-> label, run |-> NoRun, pos |-> 0, seen |-> NoRows]

Event == [kind : Subscriptions, run : Runs, pos : Positions]

TypeOK ==
  /\ up \in BOOLEAN
  /\ definition \in [Names -> Plans \cup {NoPlan}]
  /\ run \in [Runs -> [status : RunStatuses, plan : Plans \cup {NoPlan}]]
  /\ node \in [Runs -> NodeRows]
  /\ task \in [Tasks -> Task]
  /\ todo \in SUBSET (Runs \X Positions)
  /\ resumed \in SUBSET Runs
  /\ holder \in SUBSET Tasks
  /\ answer \in [Calls -> {"none", "accepted", "rejected"}]
  /\ sent \in [Runs -> [Positions -> Nat]]
  /\ provider \in [Runs -> [Positions -> {"none", "active", "completed", "failed"}]]
  /\ events \in SUBSET Event
  /\ faults \in 0..MaxFaults /\ lost \in 0..MaxLost /\ changes \in 0..MaxChanges

Init ==
  /\ up = FALSE
  /\ definition \in [Names -> Plans \cup {NoPlan}]
  /\ run = [r \in Runs |-> [status |-> "absent", plan |-> NoPlan]]
  /\ node = [r \in Runs |-> NoRows]
  /\ task = [t \in Tasks |-> IdleTask(IF t \in Calls THEN "new" ELSE "idle")]
  /\ todo = {} /\ resumed = {} /\ holder = {}
  /\ answer = [c \in Calls |-> "none"]
  /\ sent = [r \in Runs |-> [n \in Positions |-> 0]]
  /\ provider = [r \in Runs |-> [n \in Positions |-> "none"]]
  /\ events = {}
  /\ faults = 0 /\ lost = 0 /\ changes = 0

-----------------------------------------------------------------------------
(* Where a task goes *)

At(t, label) == task[t].at = label

Goto(t, label) == task' = [task EXCEPT ![t].at = label]

(* executeRun is over: a call is answered (runTriggered turns an exception into *)
(* a rejection), a subscription takes its next event, and the startup goes  *)
(* on with the next run, unless an exception ended it.                      *)
AfterExecution(t, ok) ==
  /\ task' = [task EXCEPT ![t] =
       IdleTask(IF t \in Calls THEN "answered"
                ELSE IF t = "startup" /\ ok THEN "executing" ELSE "idle")]
  /\ answer' = [c \in Calls |->
       IF c = t THEN (IF ok THEN "accepted" ELSE "rejected") ELSE answer[c]]

(* Mutant: the queue is not released. *)
AfterSettlingHolding(t) ==
  /\ task' = [task EXCEPT ![t] = IdleTask(IF t = "startup" THEN "settling" ELSE "idle")]
  /\ holder' = {t}

(* The serialized settling of one node is over without a run to resume. *)
AfterSettling(t) ==
  /\ task' = [task EXCEPT ![t] = IdleTask(IF t = "startup" THEN "settling" ELSE "idle")]
  /\ holder' = {}

(* executeRun is called, or, at startup, put off until all nodes are settled. *)
Execute(t, r) ==
  /\ task' = [task EXCEPT ![t] = [IdleTask("starting") EXCEPT !.run = r]]

SetRun(r, status) == run' = [run EXCEPT ![r].status = status]

SetNode(r, n, status) == node' = [node EXCEPT ![r][n] = status]

-----------------------------------------------------------------------------
(* Calls *)

Exists(r) == run[r].status # "absent"

(* runPipeline and runTriggered: getDefinition and createRun, serialized.   *)
(* The definition is looked up even for a key that has its run.             *)
CreateRun(t) ==
  LET r == RunOf[t] IN
  /\ up /\ At(t, "new") /\ holder = {}
  /\ \/ /\ definition[NameOf[r]] = NoPlan
        /\ AfterExecution(t, FALSE)
        /\ UNCHANGED run
     \/ /\ definition[NameOf[r]] # NoPlan
        /\ Exists(r)
        /\ AfterExecution(t, TRUE)
        /\ UNCHANGED run
     \/ /\ definition[NameOf[r]] # NoPlan
        /\ ~Exists(r)
        /\ run' = [run EXCEPT ![r] = [status |-> "accepted", plan |-> definition[NameOf[r]]]]
        /\ Execute(t, r)
        /\ UNCHANGED answer
  /\ UNCHANGED <<up, definition, node, startup, holder, world, bounds>>

-----------------------------------------------------------------------------
(* executeRun *)

MarkRunning(t) ==
  /\ At(t, "starting")
  /\ SetRun(task[t].run, "running")
  /\ Goto(t, "listing")
  /\ UNCHANGED <<up, definition, node, startup, holder, answer, world, bounds>>

(* The node runs as they are now; what the loop decides, it decides by them. *)
ListNodes(t) ==
  /\ At(t, "listing")
  /\ task' = [task EXCEPT ![t].at = "node", ![t].pos = 1, ![t].seen = node[task[t].run]]
  /\ UNCHANGED <<up, tables, startup, holder, answer, world, bounds>>

PlanOf(t) == run[task[t].run].plan

(* Mutant: the first node is skipped. *)
RemainingAfter(t) ==
  {n \in 1..Len(PlanOf(t)) : n > task[t].pos /\ task[t].seen[n] # "completed"}

(* The nodes of the plan from task t's position on that were not complete. *)
Remaining(t) ==
  {n \in 1..Len(PlanOf(t)) : n >= task[t].pos /\ task[t].seen[n] # "completed"}

IsNext(t, n) == n \in Remaining(t) /\ \A m \in Remaining(t) : n <= m

RunNode(t) ==
  /\ At(t, "node")
  /\ \E n \in Positions :
       /\ IsNext(t, n)
       /\ task[t].seen[n] \in {"absent", "running"}
       /\ SetNode(task[t].run, n, "running")
       /\ task' = [task EXCEPT ![t].at = "dispatching", ![t].pos = n]
  /\ UNCHANGED <<up, definition, run, startup, holder, answer, world, bounds>>

(* A node that waits belongs to whoever settles it; behind a failed one the  *)
(* run has failed.                                                           *)
StopAtUnfinished(t) ==
  /\ At(t, "node")
  /\ \E n \in Positions :
       /\ IsNext(t, n)
       /\ task[t].seen[n] \in {"waiting", "failed"}
       /\ IF task[t].seen[n] = "failed" THEN SetRun(task[t].run, "failed") ELSE UNCHANGED run
  /\ Goto(t, "returning")
  /\ UNCHANGED <<up, definition, node, startup, holder, answer, world, bounds>>

AllNodesDone(t) ==
  /\ At(t, "node")
  /\ Remaining(t) = {}
  /\ Goto(t, "finishing")
  /\ UNCHANGED <<up, tables, startup, holder, answer, world, bounds>>

(* A $context path of `with` has no value. *)
ContextUnavailable(t) ==
  /\ At(t, "dispatching")
  /\ Goto(t, "catch")
  /\ UNCHANGED <<up, tables, startup, holder, answer, world, bounds>>

Dispatch(t) ==
  /\ At(t, "dispatching")
  /\ sent' = [sent EXCEPT ![task[t].run][task[t].pos] = @ + 1]
  /\ Goto(t, "calling")
  /\ UNCHANGED <<up, tables, startup, holder, answer, provider, events, bounds>>

(* The provider answers, or the call fails or times out, which the          *)
(* dispatcher reports as a rejection whatever the provider did.             *)
Answered(t) ==
  /\ At(t, "calling")
  /\ \/ /\ PlanOf(t)[task[t].pos] = "data"
        /\ Goto(t, "ready")
     \/ /\ provider[task[t].run][task[t].pos] # "none"
        /\ Goto(t, "accepted")
     \/ Goto(t, "rejected")
  /\ UNCHANGED <<up, tables, startup, holder, answer, world, bounds>>

MarkNodeCompleted(t) ==
  /\ At(t, "ready")
  /\ SetNode(task[t].run, task[t].pos, "completed")
  /\ task' = [task EXCEPT ![t].at = "node", ![t].pos = @ + 1]
  /\ UNCHANGED <<up, definition, run, startup, holder, answer, world, bounds>>

(* Mutant: the node is left in the state its provider reported. *)
MarkNodeAsAnswered(t) ==
  /\ At(t, "accepted")
  /\ SetNode(task[t].run, task[t].pos, "accepted")
  /\ Goto(t, "parking")
  /\ UNCHANGED <<up, definition, run, startup, holder, answer, world, bounds>>

MarkNodeAccepted(t) ==
  /\ At(t, "accepted")
  /\ SetNode(task[t].run, task[t].pos, "waiting")
  /\ Goto(t, "parking")
  /\ UNCHANGED <<up, definition, run, startup, holder, answer, world, bounds>>

MarkRunWaiting(t) ==
  /\ At(t, "parking")
  /\ SetRun(task[t].run, "waiting")
  /\ Goto(t, "counting")
  /\ UNCHANGED <<up, definition, node, startup, holder, answer, world, bounds>>

MarkNodeFailed(t) ==
  /\ At(t, "rejected")
  /\ SetNode(task[t].run, task[t].pos, "failed")
  /\ Goto(t, "failing")
  /\ UNCHANGED <<up, definition, run, startup, holder, answer, world, bounds>>

MarkRunFailed(t) ==
  /\ \/ At(t, "failing") /\ Goto(t, "counting")
     \/ At(t, "catchRun") /\ Goto(t, "returning")
  /\ SetRun(task[t].run, "failed")
  /\ UNCHANGED <<up, definition, node, startup, holder, answer, world, bounds>>

MarkRunCompleted(t) ==
  /\ At(t, "finishing")
  /\ SetRun(task[t].run, "completed")
  /\ Goto(t, "returning")
  /\ UNCHANGED <<up, definition, node, startup, holder, answer, world, bounds>>

(* recordCurrentStats, still in the try block, before a return. *)
CountRuns(t) ==
  /\ At(t, "counting")
  /\ Goto(t, "returning")
  /\ UNCHANGED <<up, tables, startup, holder, answer, world, bounds>>

(* recordCurrentStats of the finally block, and the caller's last read.     *)
Return(t) ==
  /\ At(t, "returning")
  /\ AfterExecution(t, TRUE)
  /\ UNCHANGED <<up, tables, startup, holder, world, bounds>>

(* The catch block: the active node fails, if it has a row, then the run. *)
CatchNode(t) ==
  /\ At(t, "catch")
  /\ IF node[task[t].run][task[t].pos] = "absent"
     THEN UNCHANGED node
     ELSE SetNode(task[t].run, task[t].pos, "failed")
  /\ Goto(t, "catchRun")
  /\ UNCHANGED <<up, definition, run, startup, holder, answer, world, bounds>>

ExecutionStep(t) ==
  \/ MarkRunning(t) \/ ListNodes(t)
  \/ RunNode(t) \/ StopAtUnfinished(t) \/ AllNodesDone(t)
  \/ ContextUnavailable(t) \/ Dispatch(t) \/ Answered(t)
  \/ MarkNodeCompleted(t) \/ MarkNodeAccepted(t) \/ MarkRunWaiting(t)
  \/ MarkNodeFailed(t) \/ MarkRunFailed(t) \/ MarkRunCompleted(t) \/ CatchNode(t)
  \/ CountRuns(t) \/ Return(t)

-----------------------------------------------------------------------------
(* Settling a waiting node, serialized *)

(* resumeProviderRun: an event counts only if its node waits when it is     *)
(* handled.  A subscription handles one event at a time, execution included.*)
TakeEvent(t) ==
  /\ up /\ At(t, "idle") /\ holder = {}
  /\ \E e \in events :
       /\ e.kind = t
       /\ events' = events \ {e}
       /\ IF node[e.run][e.pos] = "waiting"
          THEN /\ task' = [task EXCEPT ![t] =
                    [IdleTask("reading") EXCEPT !.run = e.run, !.pos = e.pos]]
               /\ holder' = {t}
          ELSE UNCHANGED <<task, holder>>
  /\ UNCHANGED <<up, tables, startup, answer, sent, provider, bounds>>

ReadResult(t) ==
  /\ At(t, "reading")
  /\ LET result == provider[task[t].run][task[t].pos]
     IN  \/ /\ result \in {"none", "active"}
            /\ AfterSettling(t)
         \/ /\ result = "completed"
            /\ Goto(t, "completing") /\ UNCHANGED holder
         \/ /\ result = "failed"
            /\ Goto(t, "failingNode") /\ UNCHANGED holder
  /\ UNCHANGED <<up, tables, startup, answer, world, bounds>>

(* A result that could not be read counts as a failed one. *)
ReadFails(t) ==
  /\ At(t, "reading")
  /\ lost < MaxLost
  /\ lost' = lost + 1
  /\ Goto(t, "failingNode")
  /\ UNCHANGED <<up, tables, startup, holder, answer, world, faults, changes>>

(* Mutant: the update has no condition on the status. *)
WaitedWhenRead(t) == TRUE

StillWaiting(t) == node[task[t].run][task[t].pos] = "waiting"

(* completeWaitingNode and failWaitingNode update the node only while it waits. *)
SettleWaiting(t, from, status, to) ==
  /\ At(t, from)
  /\ IF StillWaiting(t)
     THEN /\ SetNode(task[t].run, task[t].pos, status)
          /\ Goto(t, to)
          /\ UNCHANGED holder
     ELSE /\ AfterSettling(t)
          /\ UNCHANGED node
  /\ UNCHANGED <<up, definition, run, startup, answer, world, bounds>>

CompleteWaitingNode(t) == SettleWaiting(t, "completing", "completed", "resuming")

FailWaitingNode(t) == SettleWaiting(t, "failingNode", "failed", "failingRun")

FailSettledRun(t) ==
  /\ At(t, "failingRun")
  /\ SetRun(task[t].run, "failed")
  /\ Goto(t, "settled")
  /\ UNCHANGED <<up, definition, node, startup, holder, answer, world, bounds>>

CountSettled(t) ==
  /\ At(t, "settled")
  /\ AfterSettling(t)
  /\ UNCHANGED <<up, tables, startup, answer, world, bounds>>

(* Mutant: only a run that is executing goes on. *)
OverUnlessRunning(r) == run[r].status # "running"

Over(r) == run[r].status \in FinalStatuses

(* A run that is not over is executed again from its first unfinished node: *)
(* by the handler of the event, or, at startup, once every node is settled. *)
ResumeRun(t) ==
  /\ At(t, "resuming")
  /\ holder' = {}
  /\ LET r == task[t].run
     IN  \/ /\ Over(r)
            /\ AfterSettling(t)
            /\ UNCHANGED resumed
         \/ /\ ~Over(r) /\ t # "startup"
            /\ Execute(t, r)
            /\ UNCHANGED resumed
         \/ /\ ~Over(r) /\ t = "startup"
            /\ AfterSettling(t)
            /\ resumed' = resumed \cup {r}
  /\ UNCHANGED <<up, tables, todo, answer, world, bounds>>

SettleStep(t) ==
  \/ ReadResult(t) \/ CompleteWaitingNode(t) \/ FailWaitingNode(t) \/ FailSettledRun(t)
  \/ CountSettled(t) \/ ResumeRun(t)

-----------------------------------------------------------------------------
(* resumeWaitingRuns, once, at startup *)

Start ==
  /\ ~up
  /\ up' = TRUE
  /\ Goto("startup", "listWaiting")
  /\ UNCHANGED <<tables, startup, holder, answer, world, bounds>>

(* Mutant: the nodes of waiting runs. *)
WaitingInWaitingRuns ==
  {w \in Runs \X Positions : node[w[1]][w[2]] = "waiting" /\ run[w[1]].status = "waiting"}

WaitingNodes == {w \in Runs \X Positions : node[w[1]][w[2]] = "waiting"}

ListWaiting ==
  /\ At("startup", "listWaiting")
  /\ todo' = WaitingNodes
  /\ Goto("startup", "settling")
  /\ UNCHANGED <<up, tables, resumed, holder, answer, world, bounds>>

SettleNext ==
  /\ At("startup", "settling") /\ holder = {}
  /\ \E w \in todo :
       /\ todo' = todo \ {w}
       /\ task' = [task EXCEPT !["startup"] =
            [IdleTask("reading") EXCEPT !.run = w[1], !.pos = w[2]]]
  /\ holder' = {"startup"}
  /\ UNCHANGED <<up, tables, resumed, answer, world, bounds>>

AllSettled ==
  /\ At("startup", "settling") /\ todo = {}
  /\ Goto("startup", "executing")
  /\ UNCHANGED <<up, tables, startup, holder, answer, world, bounds>>

ExecuteNext ==
  /\ At("startup", "executing")
  /\ \E r \in resumed :
       /\ resumed' = resumed \ {r}
       /\ Execute("startup", r)
  /\ UNCHANGED <<up, tables, todo, holder, answer, world, bounds>>

AllExecuted ==
  /\ At("startup", "executing") /\ resumed = {}
  /\ Goto("startup", "idle")
  /\ UNCHANGED <<up, tables, startup, holder, answer, world, bounds>>

StartupStep ==
  ListWaiting \/ SettleNext \/ AllSettled \/ ExecuteNext \/ AllExecuted

-----------------------------------------------------------------------------
(* The asynchronous provider (llm-runner) and the definitions *)

LlmAccepts ==
  \E r \in Runs, n \in Positions :
    /\ sent[r][n] > 0 /\ provider[r][n] = "none"
    /\ run[r].plan[n] = "llm"
    /\ provider' = [provider EXCEPT ![r][n] = "active"]
    /\ UNCHANGED <<up, tables, task, startup, holder, answer, sent, events, bounds>>

(* The result is stored and published; nobody hears it while the process is *)
(* down.                                                                    *)
LlmFinishes ==
  \E r \in Runs, n \in Positions, kind \in Subscriptions :
    /\ provider[r][n] = "active"
    /\ provider' = [provider EXCEPT ![r][n] = kind]
    /\ events' = IF up THEN events \cup {[kind |-> kind, run |-> r, pos |-> n]} ELSE events
    /\ UNCHANGED <<up, tables, task, startup, holder, answer, sent, bounds>>

LoseEvent ==
  /\ lost < MaxLost
  /\ lost' = lost + 1
  /\ \E e \in events : events' = events \ {e}
  /\ UNCHANGED <<up, tables, task, startup, holder, answer, sent, provider, faults, changes>>

ChangeDefinition ==
  /\ up /\ holder = {}
  /\ changes < MaxChanges
  /\ changes' = changes + 1
  /\ \E name \in Names, plan \in Plans \cup {NoPlan} :
       definition' = [definition EXCEPT ![name] = plan]
  /\ UNCHANGED <<up, run, node, task, startup, holder, answer, world, faults, lost>>

-----------------------------------------------------------------------------
(* Failures *)

Writes(t) ==
  \/ At(t, "node") /\ \E n \in Positions : IsNext(t, n) /\ task[t].seen[n] # "waiting"
  \/ task[t].at \in {"ready", "accepted", "parking", "rejected", "failing"}

Counts(t, label) == At(t, label) /\ TelemetryEnabled

(* A statement inside the try block fails: the catch block marks the active *)
(* node; after the last node there is none.                                 *)
TryFails(t) ==
  /\ \/ /\ Writes(t) \/ Counts(t, "counting")
        /\ \/ /\ At(t, "node")
              /\ \E n \in Positions :
                   /\ IsNext(t, n)
                   /\ task' = [task EXCEPT ![t].at = "catch", ![t].pos = n]
           \/ ~At(t, "node") /\ Goto(t, "catch")
     \/ At(t, "finishing") /\ Goto(t, "catchRun")
  /\ UNCHANGED <<startup, holder, answer>>

(* A statement outside the try block fails, or one of the catch block: the  *)
(* exception leaves executeRun.  At startup no other run is resumed then.   *)
ExecutionFails(t) ==
  /\ \/ task[t].at \in {"starting", "listing", "catch", "catchRun"}
     \/ Counts(t, "returning")
     \/ At(t, "returning") /\ t \in Calls
  /\ AfterExecution(t, FALSE)
  /\ resumed' = IF t = "startup" THEN {} ELSE resumed
  /\ UNCHANGED <<todo, holder>>

(* A statement of the settling fails: an event is dropped, and the startup  *)
(* forgets the nodes it has not settled and the runs it has not resumed.    *)
SettlingFails(t) ==
  /\ \/ task[t].at \in {"completing", "failingNode", "failingRun", "resuming", "listWaiting"}
     \/ Counts(t, "settled")
  /\ task' = [task EXCEPT ![t] = IdleTask("idle")]
  /\ holder' = holder \ {t}
  /\ todo' = IF t = "startup" THEN {} ELSE todo
  /\ resumed' = IF t = "startup" THEN {} ELSE resumed
  /\ UNCHANGED answer

CallFails(t) ==
  /\ up /\ t \in Calls /\ At(t, "new") /\ holder = {}
  /\ AfterExecution(t, FALSE)
  /\ UNCHANGED <<startup, holder>>

StatementFails(t) ==
  /\ faults < MaxFaults
  /\ faults' = faults + 1
  /\ TryFails(t) \/ ExecutionFails(t) \/ SettlingFails(t) \/ CallFails(t)
  /\ UNCHANGED <<up, tables, world, lost, changes>>

(* Executions die with the process, and nothing takes them up again: only   *)
(* nodes that wait are looked for at startup.                               *)
Crash ==
  /\ up
  /\ faults < MaxFaults
  /\ faults' = faults + 1
  /\ up' = FALSE
  /\ task' = [t \in Tasks |->
       IF t \in Calls
       THEN IF task[t].at \in {"new", "answered"} THEN task[t] ELSE IdleTask("lost")
       ELSE IdleTask("idle")]
  /\ todo' = {} /\ resumed' = {} /\ holder' = {}
  /\ events' = {}
  /\ UNCHANGED <<tables, answer, sent, provider, lost, changes>>

-----------------------------------------------------------------------------

TaskStep(t) == ExecutionStep(t) \/ SettleStep(t)

Next ==
  \/ \E t \in Tasks : TaskStep(t) \/ ReadFails(t) \/ StatementFails(t)
  \/ \E c \in Calls : CreateRun(c)
  \/ \E s \in Subscriptions : TakeEvent(s)
  \/ StartupStep \/ Start \/ Crash
  \/ LlmAccepts \/ LlmFinishes \/ LoseEvent \/ ChangeDefinition

Spec == Init /\ [][Next]_vars

(* The event loop runs every task it has; the process is started again when *)
(* it is down; the provider finishes what it accepted, one way or the other.*)
LiveSpec ==
  /\ Spec
  /\ \A t \in Tasks : WF_vars(TaskStep(t))
  /\ \A s \in Subscriptions : WF_vars(TakeEvent(s))
  /\ WF_vars(StartupStep) /\ WF_vars(Start)
  /\ WF_vars(LlmAccepts) /\ WF_vars(LlmFinishes)

(* The provider takes seconds where the database takes milliseconds: its    *)
(* result, or the failure to read it, does not come before the execution    *)
(* that dispatched the node has recorded the answer.  Nothing in the code   *)
(* waits for that.                                                          *)
Recording(r, n) ==
  \E t \in Tasks :
    /\ task[t].at \in {"calling", "accepted", "parking", "counting", "catch", "catchRun"}
    /\ task[t].run = r /\ task[t].pos = n

Patient ==
  /\ \A r \in Runs, n \in Positions :
       provider[r][n] = "active" /\ Recording(r, n) => provider'[r][n] = "active"
  /\ \A t \in Tasks :
       At(t, "reading") /\ Recording(task[t].run, task[t].pos)
         => task'[t].at # "failingNode"

PatientNext == Next /\ Patient

PatientSpec == Init /\ [][PatientNext]_vars

PatientLiveSpec ==
  /\ PatientSpec
  /\ \A t \in Tasks : WF_vars(TaskStep(t))
  /\ \A s \in Subscriptions : WF_vars(TakeEvent(s))
  /\ WF_vars(StartupStep) /\ WF_vars(Start)
  /\ WF_vars(LlmAccepts) /\ WF_vars(PatientNext /\ LlmFinishes)

-----------------------------------------------------------------------------
(* Properties *)

(* No node of a run is dispatched twice, whatever calls are repeated, events *)
(* cross, statements fail and processes restart: an action provider has no   *)
(* key to recognise a repetition by (data.write*, llm.run).                  *)
DispatchedOnce == \A r \in Runs, n \in Positions : sent[r][n] <= 1

(* A completed run has completed all nodes of the plan it started with.      *)
CompletedThroughout ==
  \A r \in Runs :
    run[r].status = "completed" =>
      \A n \in 1..Len(run[r].plan) : node[r][n] = "completed"

(* "marks the node and run as waiting until the provider result is read"     *)
(* (pipelines.md:370): a run left waiting has a node that waits, unless a    *)
(* crash or a failing statement came between the two.                        *)
AtWork(r) == r \in resumed \/ \E t \in Tasks : task[t].run = r

WaitingForANode ==
  \A r \in Runs :
    faults = 0 /\ run[r].status = "waiting" /\ ~AtWork(r) => \E n \in Positions : node[r][n] = "waiting"

(* Every run that was created ends, when no process, statement or event is   *)
(* lost on the way: no order of calls, results and resumptions strands it.   *)
EveryRunEnds ==
  \A r \in Runs :
    run[r].status # "absent" ~> run[r].status \in FinalStatuses \/ faults > 0 \/ lost > 0

(* A start of the process that nothing disturbs settles the nodes it finds   *)
(* waiting for a result that is there, however their event was lost          *)
(* ("Consumers recover state through read procedures after live event loss", *)
(* llmRunner.md:261).                                                        *)
RestartSettles ==
  \A r \in Runs, n \in Positions :
    (/\ faults = MaxFaults
     /\ At("startup", "listWaiting")
     /\ node[r][n] = "waiting" /\ provider[r][n] \in FinalStatuses) ~> node[r][n] # "waiting"

(* The lifecycle of a run without tasks, nodes and events. *)
Lifecycle == INSTANCE RunLifecycle WITH status <- [r \in Runs |-> run[r].status]

RefinesLifecycle == Lifecycle!Spec
=============================================================================
