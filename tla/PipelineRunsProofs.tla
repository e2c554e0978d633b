------------------------- MODULE PipelineRunsProofs -------------------------
(***************************************************************************)
(* Theorems about PipelineRuns, for any calls, runs, documents and bounds:  *)
(* its types and the single dispatch of a node hold whatever fails and in   *)
(* whatever order events come; what else a run promises holds as long as    *)
(* results do not overtake the recording of their dispatch.                 *)
(***************************************************************************)
EXTENDS PipelineRuns, TLAPS

-----------------------------------------------------------------------------
(* What a task carries *)

(* Where a task works on a run, and on a node of it. *)
RunLabels == SettleLabels \cup ExecutionLabels

NodeLabels ==
  {"reading", "completing", "failingNode", "dispatching", "calling", "ready", "accepted",
   "parking", "rejected", "failing", "counting", "catch"}

Carries(t) ==
  /\ task[t].at \in RunLabels => task[t].run \in Runs
  /\ task[t].at \in NodeLabels => task[t].pos \in Positions
  /\ At(t, "node") => task[t].pos \in Positions \cup {MaxNodes + 1}

Typed == TypeOK /\ \A t \in Tasks : Carries(t)

-----------------------------------------------------------------------------
(* The types *)

(* All of TypeOK but what it says of the tasks. *)
RestTyped ==
  /\ up \in BOOLEAN
  /\ definition \in [Names -> Plans \cup {NoPlan}]
  /\ run \in [Runs -> [status : RunStatuses, plan : Plans \cup {NoPlan}]]
  /\ node \in [Runs -> NodeRows]
  /\ todo \in SUBSET (Runs \X Positions)
  /\ resumed \in SUBSET Runs
  /\ holder \in SUBSET Tasks
  /\ answer \in [Calls -> {"none", "accepted", "rejected"}]
  /\ sent \in [Runs -> [Positions -> Nat]]
  /\ provider \in [Runs -> [Positions -> {"none", "active", "completed", "failed"}]]
  /\ events \in SUBSET Event
  /\ faults \in 0..MaxFaults /\ lost \in 0..MaxLost /\ changes \in 0..MaxChanges

(* What a task may become. *)
Fit(rec) ==
  /\ rec \in Task
  /\ rec.at \in RunLabels => rec.run \in Runs
  /\ rec.at \in NodeLabels => rec.pos \in Positions
  /\ rec.at = "node" => rec.pos \in Positions \cup {MaxNodes + 1}

(* Only task t moves, and to rec. *)
Becomes(t, rec) ==
  /\ task' = [task EXCEPT ![t] = rec]
  /\ task'[t] = rec
  /\ \A u \in Tasks : u # t => task'[u] = task[u]

Idle == {"idle", "new", "answered", "lost", "listWaiting", "settling", "executing"}

(* The labels and where each belongs. *)
LEMMA LabelSets ==
  /\ RunLabels \subseteq Labels /\ NodeLabels \subseteq Labels /\ Idle \subseteq Labels
  /\ NodeLabels \subseteq RunLabels
  /\ Idle \cap RunLabels = {} /\ Idle \cap NodeLabels = {} /\ "node" \notin Idle
BY DEF RunLabels, NodeLabels, Idle, Labels, SettleLabels, ExecutionLabels, TryLabels

(* The rows and the tasks are what they may be exactly when each task is fit. *)
LEMMA TypedParts == Typed <=> RestTyped /\ task \in [Tasks -> Task] /\ \A t \in Tasks : Fit(task[t])
BY DEF Typed, TypeOK, RestTyped, Fit, Carries, At

(* The same of the state after a step. *)
LEMMA TypedPartsNext ==
  Typed' <=> RestTyped' /\ task' \in [Tasks -> Task] /\ \A t \in Tasks : Fit(task'[t])
BY DEF Typed, TypeOK, RestTyped, Fit, Carries, At

(* A task that becomes something fit leaves the tasks fit. *)
LEMMA BecomesTyped ==
  ASSUME Typed, NEW t \in Tasks, NEW rec, Fit(rec), Becomes(t, rec), RestTyped'
  PROVE  Typed'
<1>1. task' \in [Tasks -> Task]
  BY DEF Becomes, Fit, Typed, TypeOK
<1>2. \A u \in Tasks : Fit(task'[u])
  BY TypedParts DEF Becomes
<1> QED
  BY <1>1, <1>2, TypedPartsNext

(* A task at rest carries nothing. *)
LEMMA IdleFits ==
  ASSUME NEW label \in Idle
  PROVE  /\ Fit(IdleTask(label)) /\ IdleTask(label).at = label
         /\ IdleTask(label).run = NoRun
<1>1. NoRows \in NodeRows
  BY DEF NoRows, NodeRows, NodeStatuses
<1>2. IdleTask(label) \in Task
  BY <1>1, LabelSets DEF IdleTask, Task
<1> QED
  BY <1>2, LabelSets DEF IdleTask, Fit

(* Goto changes the label of the task alone. *)
LEMMA GotoBecomes ==
  ASSUME Typed, NEW t \in Tasks, NEW label, Goto(t, label)
  PROVE  /\ Becomes(t, [task[t] EXCEPT !.at = label])
         /\ \A u \in Tasks : u # t => task'[u] = task[u]
         /\ task'[t].at = label /\ task'[t].run = task[t].run
         /\ task'[t].pos = task[t].pos /\ task'[t].seen = task[t].seen
<1>1. task[t] \in Task /\ task \in [Tasks -> Task]
  BY DEF Typed, TypeOK
<1> QED
  BY <1>1 DEF Goto, Becomes, Task

(* A task that goes where it may go with the run and the node it has is fit. *)
LEMMA GotoTyped ==
  ASSUME Typed, NEW t \in Tasks, NEW label \in Labels, Goto(t, label), RestTyped',
         label \in RunLabels => task[t].run \in Runs,
         label \in NodeLabels => task[t].pos \in Positions,
         label # "node"
  PROVE  Typed'
<1>1. task[t] \in Task
  BY DEF Typed, TypeOK
<1>2. Fit([task[t] EXCEPT !.at = label])
  BY <1>1 DEF Fit, Task
<1> QED
  BY <1>2, GotoBecomes, BecomesTyped

(* The end of an execution leaves the task at rest. *)
LEMMA AfterExecutionBecomes ==
  ASSUME Typed, NEW t \in Tasks, NEW ok \in BOOLEAN, AfterExecution(t, ok)
  PROVE  /\ \E label \in {"answered", "executing", "idle"} : Becomes(t, IdleTask(label))
         /\ answer' \in [Calls -> {"none", "accepted", "rejected"}]
<1>1. task \in [Tasks -> Task] /\ answer \in [Calls -> {"none", "accepted", "rejected"}]
  BY DEF Typed, TypeOK
<1>2. \E label \in {"answered", "executing", "idle"} : task' = [task EXCEPT ![t] = IdleTask(label)]
  <2>1. CASE t \in Calls
    BY <2>1 DEF AfterExecution
  <2>2. CASE t \notin Calls /\ t = "startup" /\ ok
    BY <2>2 DEF AfterExecution
  <2>3. CASE t \notin Calls /\ ~(t = "startup" /\ ok)
    BY <2>3 DEF AfterExecution
  <2> QED
    BY <2>1, <2>2, <2>3
<1>3. answer' \in [Calls -> {"none", "accepted", "rejected"}]
  BY <1>1 DEF AfterExecution
<1>4. PICK label \in {"answered", "executing", "idle"} : task' = [task EXCEPT ![t] = IdleTask(label)]
  BY <1>2
<1>5. Becomes(t, IdleTask(label))
  BY <1>1, <1>4 DEF Becomes
<1> QED
  BY <1>3, <1>5

(* So does the end of a settling, which leaves the queue. *)
LEMMA AfterSettlingBecomes ==
  ASSUME Typed, NEW t \in Tasks, AfterSettling(t)
  PROVE  (\E label \in {"settling", "idle"} : Becomes(t, IdleTask(label))) /\ holder' = {}
<1>1. task \in [Tasks -> Task]
  BY DEF Typed, TypeOK
<1> QED
  BY <1>1 DEF AfterSettling, Becomes

(* An execution starts with its run and no node. *)
LEMMA ExecuteBecomes ==
  ASSUME Typed, NEW t \in Tasks, NEW r \in Runs, Execute(t, r)
  PROVE  /\ Becomes(t, [IdleTask("starting") EXCEPT !.run = r])
         /\ task'[t].at = "starting" /\ task'[t].run = r
         /\ Fit([IdleTask("starting") EXCEPT !.run = r])
<1>1. NoRows \in NodeRows /\ task \in [Tasks -> Task]
  BY DEF NoRows, NodeRows, NodeStatuses, Typed, TypeOK
<1>2. "starting" \in Labels /\ "starting" \notin NodeLabels
  BY DEF Labels, ExecutionLabels, NodeLabels
<1>3. [IdleTask("starting") EXCEPT !.run = r]
        = [at |-> "starting", run |-> r, pos |-> 0, seen |-> NoRows]
  BY DEF IdleTask
<1> QED
  BY <1>1, <1>2, <1>3 DEF Execute, Becomes, Fit, Task

ReadingTask(r, n) == [IdleTask("reading") EXCEPT !.run = r, !.pos = n]

(* A settling starts with its run and node. *)
LEMMA ReadingBecomes ==
  ASSUME Typed, NEW t \in Tasks, NEW r \in Runs, NEW n \in Positions,
         task' = [task EXCEPT ![t] = ReadingTask(r, n)]
  PROVE  /\ Becomes(t, ReadingTask(r, n))
         /\ task'[t].at = "reading" /\ task'[t].run = r /\ task'[t].pos = n
         /\ Fit(ReadingTask(r, n))
<1>1. NoRows \in NodeRows /\ task \in [Tasks -> Task]
  BY DEF NoRows, NodeRows, NodeStatuses, Typed, TypeOK
<1>2. "reading" \in Labels
  BY DEF Labels, SettleLabels
<1>3. /\ IdleTask("reading") \in Task /\ IdleTask("reading").at = "reading"
  BY <1>1, <1>2 DEF IdleTask, Task
<1>4. /\ ReadingTask(r, n) \in Task /\ ReadingTask(r, n).at = "reading"
      /\ ReadingTask(r, n).run = r /\ ReadingTask(r, n).pos = n
  BY <1>3 DEF Task, ReadingTask
<1>5. task'[t] = ReadingTask(r, n) /\ \A u \in Tasks : u # t => task'[u] = task[u]
  BY <1>1
<1>6. Fit(ReadingTask(r, n)) /\ Becomes(t, ReadingTask(r, n))
  BY <1>4, <1>5 DEF Fit, Becomes
<1> QED
  BY <1>4, <1>5, <1>6

(* One row of the runs is written. *)
LEMMA SetRunWrites ==
  ASSUME Typed, NEW r \in Runs, NEW status \in RunStatuses, SetRun(r, status)
  PROVE  /\ run' \in [Runs -> [status : RunStatuses, plan : Plans \cup {NoPlan}]]
         /\ run'[r].status = status /\ run'[r].plan = run[r].plan
         /\ \A s \in Runs : s # r => run'[s] = run[s]
<1>1. run \in [Runs -> [status : RunStatuses, plan : Plans \cup {NoPlan}]]
  BY DEF Typed, TypeOK
<1> QED
  BY <1>1 DEF SetRun

(* One row of the nodes is written. *)
LEMMA SetNodeWrites ==
  ASSUME Typed, NEW r \in Runs, NEW n \in Positions, NEW status \in NodeStatuses,
         SetNode(r, n, status)
  PROVE  /\ node' \in [Runs -> NodeRows]
         /\ node'[r][n] = status
         /\ \A s \in Runs, m \in Positions : s # r \/ m # n => node'[s][m] = node[s][m]
<1>1. node \in [Runs -> [Positions -> NodeStatuses]]
  BY DEF Typed, TypeOK, NodeRows
<1> QED
  BY <1>1 DEF SetNode, NodeRows

(* What a task at a label carries. *)
LEMMA CarriesWhat ==
  ASSUME Typed, NEW t \in Tasks
  PROVE  /\ task[t] \in Task
         /\ task[t].at \in RunLabels => task[t].run \in Runs
         /\ task[t].at \in NodeLabels => task[t].pos \in Positions
         /\ At(t, "node") => task[t].pos \in Positions \cup {MaxNodes + 1}
         /\ RestTyped
BY TypedParts DEF Typed, TypeOK, Carries

(* The steps of an execution keep the types. *)
LEMMA ExecutionTyped ==
  ASSUME Typed, NEW t \in Tasks, ExecutionStep(t)
  PROVE  Typed'
<1> USE CarriesWhat
<1> USE DEF RunLabels, NodeLabels, SettleLabels, ExecutionLabels, TryLabels, Labels
<1>1. CASE MarkRunning(t) \/ MarkRunWaiting(t) \/ MarkRunFailed(t) \/ MarkRunCompleted(t)
  <2>1. PICK status \in RunStatuses, label \in {"listing", "counting", "returning"} :
          /\ SetRun(task[t].run, status) /\ Goto(t, label)
          /\ task[t].run \in Runs
          /\ label = "counting" => task[t].pos \in Positions
          /\ UNCHANGED <<up, definition, node, startup, holder, answer, world, bounds>>
    <3>1. CASE MarkRunning(t)
      BY <3>1 DEF MarkRunning, At, RunStatuses
    <3>2. CASE MarkRunWaiting(t)
      BY <3>2 DEF MarkRunWaiting, At, RunStatuses
    <3>3. CASE MarkRunFailed(t)
      BY <3>3 DEF MarkRunFailed, At, RunStatuses
    <3>4. CASE MarkRunCompleted(t)
      BY <3>4 DEF MarkRunCompleted, At, RunStatuses
    <3> QED
      BY <1>1, <3>1, <3>2, <3>3, <3>4
  <2>2. RestTyped'
    BY <2>1, SetRunWrites DEF RestTyped, startup, world, bounds
  <2> QED
    BY <2>1, <2>2, GotoTyped
<1>2. CASE ListNodes(t)
  <2> DEFINE rec == [task[t] EXCEPT !.at = "node", !.pos = 1, !.seen = node[task[t].run]]
  <2>1. RestTyped' /\ task[t].run \in Runs
    BY <1>2 DEF ListNodes, At, RestTyped, tables, startup, world, bounds
  <2>2. 1 \in Positions \cup {MaxNodes + 1}
    BY PlansAssumption DEF Positions
  <2>3. node[task[t].run] \in NodeRows /\ task[t] \in Task
    BY <2>1 DEF RestTyped
  <2>4. rec \in Task /\ rec.at = "node" /\ rec.run = task[t].run /\ rec.pos = 1
    BY <2>2, <2>3 DEF Task
  <2>5. Becomes(t, rec)
    BY <1>2 DEF ListNodes, Becomes, Typed, TypeOK
  <2> HIDE DEF rec
  <2>6. Fit(rec)
    BY <2>1, <2>2, <2>4 DEF Fit
  <2> QED
    BY <2>1, <2>5, <2>6, BecomesTyped
<1>3. CASE RunNode(t)
  <2>1. PICK n \in Positions :
          /\ SetNode(task[t].run, n, "running")
          /\ task' = [task EXCEPT ![t].at = "dispatching", ![t].pos = n]
    BY <1>3 DEF RunNode
  <2> DEFINE rec == [task[t] EXCEPT !.at = "dispatching", !.pos = n]
  <2>2. task[t].run \in Runs
    BY <1>3 DEF RunNode, At
  <2>3. RestTyped'
    BY <1>3, <2>1, <2>2, SetNodeWrites DEF RunNode, RestTyped, startup, world, bounds, NodeStatuses
  <2>4. Fit(rec)
    BY <2>2 DEF Fit, Task
  <2>5. Becomes(t, rec)
    BY <2>1 DEF Becomes, Typed, TypeOK
  <2> QED
    BY <2>3, <2>4, <2>5, BecomesTyped
<1>4. CASE StopAtUnfinished(t)
  <2>1. task[t].run \in Runs /\ Goto(t, "returning")
    BY <1>4 DEF StopAtUnfinished, At
  <2>2. run' \in [Runs -> [status : RunStatuses, plan : Plans \cup {NoPlan}]]
    BY <1>4, <2>1, SetRunWrites DEF StopAtUnfinished, RestTyped, RunStatuses
  <2>3. RestTyped'
    BY <1>4, <2>2 DEF StopAtUnfinished, RestTyped, startup, world, bounds
  <2> QED
    BY <2>1, <2>3, GotoTyped
<1>5. CASE AllNodesDone(t) \/ ContextUnavailable(t) \/ Answered(t) \/ CountRuns(t)
  <2>1. PICK label \in {"finishing", "catch", "ready", "accepted", "rejected", "returning"} :
          /\ Goto(t, label) /\ task[t].run \in Runs
          /\ label \notin {"finishing", "returning"} => task[t].pos \in Positions
    BY <1>5 DEF AllNodesDone, ContextUnavailable, Answered, CountRuns, At
  <2>2. RestTyped'
    BY <1>5 DEF AllNodesDone, ContextUnavailable, Answered, CountRuns, RestTyped, tables, startup,
                world, bounds
  <2> QED
    BY <2>1, <2>2, GotoTyped
<1>6. CASE Dispatch(t)
  <2>1. Goto(t, "calling") /\ task[t].run \in Runs /\ task[t].pos \in Positions
    BY <1>6 DEF Dispatch, At
  <2>2. sent' \in [Runs -> [Positions -> Nat]]
    BY <1>6, <2>1 DEF Dispatch, RestTyped
  <2>3. RestTyped'
    BY <1>6, <2>2 DEF Dispatch, RestTyped, tables, startup, bounds
  <2> QED
    BY <2>1, <2>3, GotoTyped
<1>7. CASE MarkNodeCompleted(t)
  <2> DEFINE rec == [task[t] EXCEPT !.at = "node", !.pos = @ + 1]
  <2>1. task[t].run \in Runs /\ task[t].pos \in Positions
    BY <1>7 DEF MarkNodeCompleted, At
  <2>2. RestTyped'
    BY <1>7, <2>1, SetNodeWrites
       DEF MarkNodeCompleted, RestTyped, startup, world, bounds, NodeStatuses
  <2>3. task[t].pos + 1 \in Positions \cup {MaxNodes + 1}
    BY <2>1, PlansAssumption DEF Positions
  <2>4. Fit(rec)
    BY <2>1, <2>3 DEF Fit, Task
  <2>5. Becomes(t, rec)
    BY <1>7 DEF MarkNodeCompleted, Becomes, Typed, TypeOK
  <2> QED
    BY <2>2, <2>4, <2>5, BecomesTyped
<1>8. CASE MarkNodeAccepted(t) \/ MarkNodeFailed(t) \/ CatchNode(t)
  <2>1. PICK label \in {"parking", "failing", "catchRun"} : Goto(t, label)
    BY <1>8 DEF MarkNodeAccepted, MarkNodeFailed, CatchNode
  <2>2. task[t].run \in Runs /\ task[t].pos \in Positions
    BY <1>8 DEF MarkNodeAccepted, MarkNodeFailed, CatchNode, At
  <2>3. /\ node' \in [Runs -> NodeRows]
        /\ UNCHANGED <<up, definition, run, startup, holder, answer, world, bounds>>
    BY <1>8, <2>2, SetNodeWrites
       DEF MarkNodeAccepted, MarkNodeFailed, CatchNode, RestTyped, NodeStatuses
  <2>4. RestTyped'
    BY <2>3 DEF RestTyped, startup, world, bounds
  <2> QED
    BY <2>1, <2>2, <2>4, GotoTyped
<1>9. CASE Return(t)
  <2>1. PICK label \in {"answered", "executing", "idle"} : Becomes(t, IdleTask(label))
    BY <1>9, AfterExecutionBecomes DEF Return
  <2>2. RestTyped'
    BY <1>9, AfterExecutionBecomes DEF Return, RestTyped, tables, startup, world, bounds
  <2> QED
    BY <2>1, <2>2, IdleFits, BecomesTyped DEF Idle
<1> QED
  BY <1>1, <1>2, <1>3, <1>4, <1>5, <1>6, <1>7, <1>8, <1>9 DEF ExecutionStep

(* The steps of a settling keep the types. *)
LEMMA SettlingTyped ==
  ASSUME Typed, NEW t \in Tasks,
         SettleStep(t) \/ ReadFails(t) \/ (t \in Subscriptions /\ TakeEvent(t))
  PROVE  Typed'
<1> USE CarriesWhat
<1> USE DEF RunLabels, NodeLabels, SettleLabels, ExecutionLabels, TryLabels, Labels
<1>1. CASE ReadResult(t) \/ CompleteWaitingNode(t) \/ FailWaitingNode(t)
  <2>0. task[t].run \in Runs /\ task[t].pos \in Positions
    BY <1>1 DEF ReadResult, CompleteWaitingNode, FailWaitingNode, SettleWaiting, At
  <2>1. node' \in [Runs -> NodeRows]
    BY <1>1, <2>0, SetNodeWrites DEF ReadResult, CompleteWaitingNode, FailWaitingNode, SettleWaiting,
         tables, NodeStatuses, RestTyped
  <2>2. \/ AfterSettling(t)
        \/ /\ \E label \in {"completing", "failingNode", "resuming", "failingRun"} : Goto(t, label)
           /\ UNCHANGED holder
    BY <1>1 DEF ReadResult, CompleteWaitingNode, FailWaitingNode, SettleWaiting
  <2>3. UNCHANGED <<up, definition, run, startup, answer, world, bounds>>
    BY <1>1 DEF ReadResult, CompleteWaitingNode, FailWaitingNode, SettleWaiting, tables
  <2>4. CASE AfterSettling(t)
    <3>1. PICK label \in {"settling", "idle"} : Becomes(t, IdleTask(label))
      BY <2>4, AfterSettlingBecomes
    <3>2. RestTyped'
      BY <2>1, <2>3, <2>4, AfterSettlingBecomes DEF RestTyped, startup, world, bounds
    <3> QED
      BY <3>1, <3>2, IdleFits, BecomesTyped DEF Idle
  <2>5. ASSUME NEW label \in {"completing", "failingNode", "resuming", "failingRun"},
               Goto(t, label), UNCHANGED holder
        PROVE  Typed'
    <3>1. RestTyped'
      BY <2>1, <2>3, <2>5 DEF RestTyped, startup, world, bounds
    <3> QED
      BY <2>0, <2>5, <3>1, GotoTyped
  <2> QED
    BY <2>2, <2>4, <2>5
<1>2. CASE FailSettledRun(t)
  <2>1. task[t].run \in Runs /\ Goto(t, "settled")
    BY <1>2 DEF FailSettledRun, At
  <2>2. RestTyped'
    BY <1>2, <2>1, SetRunWrites DEF FailSettledRun, RestTyped, startup, world, bounds, RunStatuses
  <2> QED
    BY <2>1, <2>2, GotoTyped
<1>3. CASE CountSettled(t)
  <2>1. PICK label \in {"settling", "idle"} : Becomes(t, IdleTask(label))
    BY <1>3, AfterSettlingBecomes DEF CountSettled
  <2>2. RestTyped'
    BY <1>3, AfterSettlingBecomes DEF CountSettled, RestTyped, tables, startup, world, bounds
  <2> QED
    BY <2>1, <2>2, IdleFits, BecomesTyped DEF Idle
<1>4. CASE ResumeRun(t)
  <2>1. task[t].run \in Runs
    BY <1>4 DEF ResumeRun, At
  <2>2. RestTyped'
    BY <1>4, <2>1 DEF ResumeRun, RestTyped, tables, world, bounds
  <2>3. CASE AfterSettling(t)
    <3>1. PICK label \in {"settling", "idle"} : Becomes(t, IdleTask(label))
      BY <2>3, AfterSettlingBecomes
    <3> QED
      BY <2>2, <3>1, IdleFits, BecomesTyped DEF Idle
  <2>4. CASE Execute(t, task[t].run)
    BY <2>1, <2>2, <2>4, ExecuteBecomes, BecomesTyped
  <2> QED
    BY <1>4, <2>3, <2>4 DEF ResumeRun
<1>5. CASE ReadFails(t)
  <2>1. task[t].run \in Runs /\ task[t].pos \in Positions /\ Goto(t, "failingNode")
    BY <1>5 DEF ReadFails, At
  <2>2. lost' \in 0..MaxLost
    BY <1>5, PlansAssumption DEF ReadFails, RestTyped
  <2>3. RestTyped'
    BY <1>5, <2>2 DEF ReadFails, RestTyped, tables, startup, world
  <2> QED
    BY <2>1, <2>3, GotoTyped
<1>6. CASE t \in Subscriptions /\ TakeEvent(t)
  <2>1. PICK e \in events :
          /\ events' = events \ {e}
          /\ IF node[e.run][e.pos] = "waiting"
             THEN /\ task' = [task EXCEPT ![t] =
                       ReadingTask(e.run, e.pos)]
                  /\ holder' = {t}
             ELSE UNCHANGED <<task, holder>>
    BY <1>6 DEF TakeEvent, ReadingTask
  <2>2. e.run \in Runs /\ e.pos \in Positions
    BY <2>1 DEF RestTyped, Event
  <2>3. RestTyped'
    BY <1>6, <2>1 DEF TakeEvent, RestTyped, tables, startup, bounds
  <2>4. CASE node[e.run][e.pos] = "waiting"
    BY <2>1, <2>2, <2>3, <2>4, ReadingBecomes, BecomesTyped
  <2>5. CASE UNCHANGED task
    BY <2>3, <2>5, TypedParts, TypedPartsNext
  <2> QED
    BY <2>1, <2>4, <2>5
<1> QED
  BY <1>1, <1>2, <1>3, <1>4, <1>5, <1>6 DEF SettleStep

(* Calls, and the steps of the startup, keep the types. *)
LEMMA StartingTyped ==
  ASSUME Typed, StartupStep \/ Start \/ \E c \in Calls : CreateRun(c)
  PROVE  Typed'
<1> USE CarriesWhat
<1>0. "startup" \in Tasks /\ Calls \subseteq Tasks /\ RestTyped
  BY TypedParts DEF Tasks
<1>1. ASSUME NEW t \in Calls, CreateRun(t)
      PROVE  Typed'
  <2> DEFINE r == RunOf[t]
  <2>0. r \in Runs /\ NameOf[r] \in Names /\ t \in Tasks
    BY <1>0, TasksAssumption
  <2>1. CASE \E ok \in BOOLEAN : AfterExecution(t, ok) /\ UNCHANGED run
    <3>1. PICK label \in {"answered", "executing", "idle"} : Becomes(t, IdleTask(label))
      BY <2>0, <2>1, AfterExecutionBecomes
    <3>2. RestTyped'
      BY <1>0, <1>1, <2>0, <2>1, AfterExecutionBecomes
         DEF CreateRun, RestTyped, startup, world, bounds
    <3> QED
      BY <2>0, <3>1, <3>2, IdleFits, BecomesTyped DEF Idle
  <2>2. CASE /\ run' = [run EXCEPT ![r] = [status |-> "accepted", plan |-> definition[NameOf[r]]]]
             /\ Execute(t, r) /\ UNCHANGED answer
    <3>1. run' \in [Runs -> [status : RunStatuses, plan : Plans \cup {NoPlan}]]
      BY <1>0, <2>0, <2>2 DEF RestTyped, RunStatuses
    <3>2. RestTyped'
      BY <1>0, <1>1, <2>2, <3>1 DEF CreateRun, RestTyped, startup, world, bounds
    <3> QED
      BY <2>0, <2>2, <3>2, ExecuteBecomes, BecomesTyped
  <2> QED
    BY <1>1, <2>1, <2>2 DEF CreateRun
<1>2. CASE Start \/ ListWaiting \/ AllSettled \/ AllExecuted
  <2>1. PICK label \in {"listWaiting", "settling", "executing", "idle"} : Goto("startup", label)
    BY <1>2 DEF Start, ListWaiting, AllSettled, AllExecuted
  <2>2. RestTyped'
    BY <1>0, <1>2 DEF Start, ListWaiting, AllSettled, AllExecuted, WaitingNodes, RestTyped, tables,
                      startup, world, bounds
  <2> QED
    BY <1>0, <2>1, <2>2, GotoTyped, LabelSets DEF Idle
<1>3. CASE SettleNext
  <2>1. PICK w \in todo :
          todo' = todo \ {w} /\ task' = [task EXCEPT !["startup"] = ReadingTask(w[1], w[2])]
    BY <1>3 DEF SettleNext, ReadingTask
  <2>2. PICK r \in Runs, n \in Positions : r = w[1] /\ n = w[2]
    BY <1>0, <2>1 DEF RestTyped
  <2>3. RestTyped'
    BY <1>0, <1>3, <2>1 DEF SettleNext, RestTyped, tables, world, bounds
  <2>4. task' = [task EXCEPT !["startup"] = ReadingTask(r, n)]
    BY <2>1, <2>2
  <2>5. Becomes("startup", ReadingTask(r, n)) /\ Fit(ReadingTask(r, n))
    BY <1>0, <2>4, ReadingBecomes
  <2> QED
    BY <1>0, <2>3, <2>5, BecomesTyped
<1>4. CASE ExecuteNext
  <2>1. PICK r \in resumed : resumed' = resumed \ {r} /\ Execute("startup", r)
    BY <1>4 DEF ExecuteNext
  <2>2. RestTyped' /\ r \in Runs
    BY <1>0, <1>4, <2>1 DEF ExecuteNext, RestTyped, tables, world, bounds
  <2> QED
    BY <1>0, <2>1, <2>2, ExecuteBecomes, BecomesTyped
<1> QED
  BY <1>1, <1>2, <1>3, <1>4 DEF StartupStep

(* Failing statements keep the types. *)
LEMMA FailureTyped ==
  ASSUME Typed, NEW t \in Tasks, StatementFails(t)
  PROVE  Typed'
<1> USE CarriesWhat
<1>0. faults' \in 0..MaxFaults /\ UNCHANGED <<up, tables, world, lost, changes>>
  BY PlansAssumption DEF StatementFails, RestTyped
<1>1. CASE TryFails(t)
  <2>0. RestTyped'
    BY <1>0, <1>1 DEF TryFails, RestTyped, tables, startup, world
  <2>1. task[t].run \in Runs
    BY <1>1 DEF TryFails, Writes, Counts, At, RunLabels, ExecutionLabels, TryLabels
  <2>2. CASE \E n \in Positions : task' = [task EXCEPT ![t].at = "catch", ![t].pos = n]
    <3>1. PICK n \in Positions : task' = [task EXCEPT ![t].at = "catch", ![t].pos = n]
      BY <2>2
    <3> DEFINE rec == [task[t] EXCEPT !.at = "catch", !.pos = n]
    <3>2. Fit(rec)
      BY <2>1 DEF Fit, Task, Labels, ExecutionLabels
    <3>3. Becomes(t, rec)
      BY <3>1 DEF Becomes, Typed, TypeOK
    <3> QED
      BY <2>0, <3>2, <3>3, BecomesTyped
  <2>3. CASE Goto(t, "catch") /\ task[t].pos \in Positions
    BY <2>0, <2>1, <2>3, GotoTyped DEF Labels, ExecutionLabels
  <2>4. CASE Goto(t, "catchRun")
    BY <2>0, <2>1, <2>4, GotoTyped DEF Labels, ExecutionLabels, NodeLabels
  <2>5. \/ \E n \in Positions : task' = [task EXCEPT ![t].at = "catch", ![t].pos = n]
        \/ Goto(t, "catch") /\ task[t].pos \in Positions
        \/ Goto(t, "catchRun")
    BY <1>1 DEF TryFails, Writes, Counts, At, NodeLabels
  <2> QED
    BY <2>2, <2>3, <2>4, <2>5
<1>2. CASE ExecutionFails(t) \/ CallFails(t)
  <2>1. AfterExecution(t, FALSE) /\ UNCHANGED holder /\ UNCHANGED todo
        /\ resumed' \in SUBSET Runs
    BY <1>2 DEF ExecutionFails, CallFails, RestTyped, startup
  <2>2. PICK label \in {"answered", "executing", "idle"} : Becomes(t, IdleTask(label))
    BY <2>1, AfterExecutionBecomes
  <2>3. RestTyped'
    BY <1>0, <2>1, AfterExecutionBecomes DEF RestTyped, tables, world
  <2> QED
    BY <2>2, <2>3, IdleFits, BecomesTyped DEF Idle
<1>3. CASE SettlingFails(t)
  <2>1. RestTyped'
    BY <1>0, <1>3 DEF SettlingFails, RestTyped, tables, world
  <2>2. Becomes(t, IdleTask("idle"))
    BY <1>3 DEF SettlingFails, Becomes, Typed, TypeOK
  <2> QED
    BY <2>1, <2>2, IdleFits, BecomesTyped DEF Idle
<1> QED
  BY <1>1, <1>2, <1>3 DEF StatementFails

(* So do crashes, the provider, lost events and changes of definitions. *)
LEMMA WorldTyped ==
  ASSUME Typed, Crash \/ LlmAccepts \/ LlmFinishes \/ LoseEvent \/ ChangeDefinition
  PROVE  Typed'
<1>0. RestTyped
  BY TypedParts
<1>1. CASE Crash
  <2>0. faults' \in 0..MaxFaults
    BY <1>0, <1>1, PlansAssumption DEF Crash, RestTyped
  <2>1. RestTyped'
    BY <1>0, <1>1, <2>0 DEF Crash, RestTyped, tables
  <2>2. task' = [t \in Tasks |->
          IF t \in Calls
          THEN IF task[t].at \in {"new", "answered"} THEN task[t] ELSE IdleTask("lost")
          ELSE IdleTask("idle")]
    BY <1>1 DEF Crash
  <2>3. \A t \in Tasks : Fit(task'[t])
    BY <2>2, TypedParts, IdleFits DEF Idle
  <2>4. task' \in [Tasks -> Task]
    BY <2>2, <2>3 DEF Fit
  <2> QED
    BY <2>1, <2>3, <2>4, TypedPartsNext
<1>2. CASE LlmAccepts \/ LlmFinishes \/ LoseEvent \/ ChangeDefinition
  <2>1. provider' \in [Runs -> [Positions -> {"none", "active", "completed", "failed"}]]
    <3>1. CASE LlmAccepts
      BY <1>0, <3>1 DEF LlmAccepts, RestTyped
    <3>2. CASE LlmFinishes
      BY <1>0, <3>2 DEF LlmFinishes, RestTyped, Subscriptions
    <3>3. CASE LoseEvent \/ ChangeDefinition
      BY <1>0, <3>3 DEF LoseEvent, ChangeDefinition, RestTyped, world
    <3> QED
      BY <1>2, <3>1, <3>2, <3>3
  <2>2. events' \in SUBSET Event
    BY <1>0, <1>2 DEF LlmAccepts, LlmFinishes, LoseEvent, ChangeDefinition, RestTyped, Event, world
  <2>3. lost' \in 0..MaxLost /\ changes' \in 0..MaxChanges /\ faults' = faults
    BY <1>0, <1>2, PlansAssumption
       DEF LlmAccepts, LlmFinishes, LoseEvent, ChangeDefinition, RestTyped, bounds
  <2>4. definition' \in [Names -> Plans \cup {NoPlan}]
    BY <1>0, <1>2 DEF LlmAccepts, LlmFinishes, LoseEvent, ChangeDefinition, RestTyped, tables
  <2>5. UNCHANGED <<up, run, node, task, startup, holder, answer, sent>>
    BY <1>2 DEF LlmAccepts, LlmFinishes, LoseEvent, ChangeDefinition, tables, world
  <2>6. RestTyped'
    BY <1>0, <2>1, <2>2, <2>3, <2>4, <2>5 DEF RestTyped, startup
  <2> QED
    BY <2>5, <2>6, TypedParts, TypedPartsNext
<1> QED
  BY <1>1, <1>2

(* Every step keeps the types. *)
LEMMA StepTyped == Typed /\ [Next]_vars => Typed'
<1> SUFFICES ASSUME Typed, [Next]_vars PROVE Typed'
  OBVIOUS
<1>1. CASE UNCHANGED vars
  BY <1>1 DEF vars, tables, startup, world, bounds, Typed, TypeOK, Carries, At
<1>2. CASE Next
  BY <1>2, ExecutionTyped, SettlingTyped, StartingTyped, FailureTyped, WorldTyped
     DEF Next, TaskStep, Tasks
<1> QED
  BY <1>1, <1>2

(* A system that starts has its types. *)
LEMMA InitTyped == Init => Typed
<1> SUFFICES ASSUME Init PROVE Typed
  OBVIOUS
<1>1. RestTyped
  <2>1. /\ run \in [Runs -> [status : RunStatuses, plan : Plans \cup {NoPlan}]]
        /\ node \in [Runs -> NodeRows]
    BY DEF Init, RunStatuses, NoRows, NodeRows, NodeStatuses
  <2>2. /\ sent \in [Runs -> [Positions -> Nat]]
        /\ provider \in [Runs -> [Positions -> {"none", "active", "completed", "failed"}]]
        /\ answer \in [Calls -> {"none", "accepted", "rejected"}]
    BY DEF Init
  <2>3. faults \in 0..MaxFaults /\ lost \in 0..MaxLost /\ changes \in 0..MaxChanges
    BY PlansAssumption DEF Init
  <2> QED
    BY <2>1, <2>2, <2>3 DEF Init, RestTyped
<1>2. task = [t \in Tasks |-> IdleTask(IF t \in Calls THEN "new" ELSE "idle")]
  BY DEF Init
<1>3. \A t \in Tasks : Fit(task[t])
  BY <1>2, IdleFits DEF Idle
<1> QED
  BY <1>1, <1>2, <1>3, TypedParts DEF Fit

(* Rows, tasks and what is on the way stay what they may be, whatever fails and  *)
(* crashes: no step works on a run or a node that its task does not have.       *)
THEOREM TypeCorrect == Spec => []TypeOK
<1>1. Typed => TypeOK
  BY DEF Typed
<1> QED
  BY <1>1, InitTyped, StepTyped, PTL DEF Spec

-----------------------------------------------------------------------------
(* Whose turn it is to take a run further *)

TurnLabels ==
  {"starting", "listing", "node", "dispatching", "calling", "ready", "accepted", "resuming"}

InFlight == {"calling", "ready", "accepted"}

HasTurn(t, r) == task[t].at \in TurnLabels /\ task[t].run = r

Parked(r) == \E n \in Positions : node[r][n] = "waiting"

(* The turn is with one task, or with the startup's list, or with a node that *)
(* waits, or with the call that is to create the run.                         *)
OneTurn ==
  /\ \A t, u \in Tasks, r \in Runs : HasTurn(t, r) /\ HasTurn(u, r) => t = u
  /\ \A t \in Tasks, r \in Runs : HasTurn(t, r) => r \notin resumed /\ ~Parked(r) /\ Exists(r)
  /\ \A r \in Runs : r \in resumed => ~Parked(r) /\ Exists(r)
  /\ \A r \in Runs, m, n \in Positions :
       node[r][m] = "waiting" /\ node[r][n] = "waiting" => m = n /\ Exists(r)

(* Who has the turn finds no node open that was sent, but the one it is       *)
(* sending.                                                                   *)
Unsent(status, r, n) == status \in {"absent", "running"} => sent[r][n] = 0

Fresh(r) == \A n \in Positions : Unsent(node[r][n], r, n)

SeesUnsent(t) ==
  LET r == task[t].run IN
  /\ \A n \in Positions :
       \/ Unsent(node[r][n], r, n)
       \/ task[t].at \in InFlight /\ n = task[t].pos
  /\ task[t].at \in {"node", "dispatching"} \cup InFlight =>
       \A n \in Positions :
         n > task[t].pos \/ (n = task[t].pos /\ At(t, "node")) => Unsent(task[t].seen[n], r, n)
  /\ At(t, "dispatching") => sent[r][task[t].pos] = 0

SentOnce ==
  /\ DispatchedOnce
  /\ \A r \in Runs : ~Exists(r) \/ r \in resumed \/ Parked(r) => Fresh(r)
  /\ \A t \in Tasks : task[t].at \in TurnLabels => SeesUnsent(t)

TurnInv == Typed /\ OneTurn /\ SentOnce

(* Nobody has a turn when the system starts. *)
LEMMA InitTurn == Init => TurnInv
<1> SUFFICES ASSUME Init PROVE TurnInv
  OBVIOUS
<1>1. \A t \in Tasks : task[t].at \notin TurnLabels
  BY DEF Init, IdleTask, TurnLabels
<1>2. /\ resumed = {} /\ \A r \in Runs : ~Exists(r)
      /\ \A r \in Runs, n \in Positions : node[r][n] = "absent" /\ sent[r][n] = 0
  BY DEF Init, NoRows, Exists
<1>3. OneTurn
  BY <1>1, <1>2 DEF OneTurn, HasTurn, Parked
<1>4. SentOnce
  BY <1>1, <1>2 DEF SentOnce, DispatchedOnce, Fresh, Unsent
<1> QED
  BY <1>3, <1>4, InitTyped DEF TurnInv

(* A step that gives no turn leaves the turns, and what was sent. *)
LEMMA TurnsGivenUp ==
  ASSUME TurnInv,
         \A u \in Tasks : task'[u] = task[u] \/ task'[u].at \notin TurnLabels,
         \A r \in Runs : run'[r].status = "absent" => run[r].status = "absent",
         \A r \in Runs, n \in Positions :
           node'[r][n] = node[r][n] \/ node'[r][n] \in {"completed", "failed"},
         resumed' \subseteq resumed, sent' = sent
  PROVE  OneTurn' /\ SentOnce'
<1>1. \A u \in Tasks : task'[u].at \in TurnLabels => task'[u] = task[u]
  OBVIOUS
<1>2. \A r \in Runs, n \in Positions : node'[r][n] = "waiting" => node[r][n] = "waiting"
  OBVIOUS
<1>3. OneTurn'
  BY <1>1, <1>2 DEF TurnInv, OneTurn, HasTurn, Parked, Exists
<1>4. \A r \in Runs, n \in Positions :
        Unsent(node[r][n], r, n) => Unsent(node[r][n], r, n)'
  BY DEF Unsent
<1>5. \A r \in Runs : Fresh(r) => Fresh(r)'
  BY <1>4 DEF Fresh
<1>6. \A r \in Runs : ~Exists(r)' \/ r \in resumed' \/ Parked(r)' => Fresh(r)'
  BY <1>2, <1>5 DEF TurnInv, SentOnce, Exists, Parked
<1>7. ASSUME NEW t \in Tasks, task'[t].at \in TurnLabels
      PROVE  SeesUnsent(t)'
  <2>1. task'[t] = task[t] /\ SeesUnsent(t)
    BY <1>1, <1>7 DEF TurnInv, SentOnce
  <2>2. task[t].run \in Runs
    BY <1>7, <2>1 DEF TurnInv, Typed, Carries, TurnLabels, RunLabels, SettleLabels, ExecutionLabels,
                      TryLabels
  <2> QED
    BY <2>1, <2>2 DEF SeesUnsent, Unsent, At
<1>8. DispatchedOnce'
  BY DEF TurnInv, SentOnce, DispatchedOnce
<1> QED
  BY <1>3, <1>6, <1>7, <1>8 DEF SentOnce

(* What one step for run r leaves alone of the others. *)
OthersStay(r) ==
  \A s \in Runs : s # r =>
    /\ run'[s] = run[s] /\ (s \in resumed' <=> s \in resumed)
    /\ \A n \in Positions : node'[s][n] = node[s][n] /\ sent'[s][n] = sent[s][n]

(* The turns of the other runs stay, if theirs tasks do. *)
LEMMA OtherTurns ==
  ASSUME TurnInv, NEW r \in Runs, OthersStay(r),
         \A u \in Tasks : task'[u] = task[u] \/ task'[u].at \notin TurnLabels \/ task'[u].run = r
  PROVE  \A s \in Runs : s # r =>
           /\ \A t, u \in Tasks : HasTurn(t, s)' /\ HasTurn(u, s)' => t = u
           /\ \A t \in Tasks : HasTurn(t, s)' => s \notin resumed' /\ ~Parked(s)' /\ Exists(s)'
           /\ s \in resumed' => ~Parked(s)' /\ Exists(s)'
           /\ \A m, n \in Positions :
                node'[s][m] = "waiting" /\ node'[s][n] = "waiting" => m = n /\ Exists(s)'
           /\ \A n \in Positions : sent'[s][n] <= 1
           /\ ~Exists(s)' \/ s \in resumed' \/ Parked(s)' => Fresh(s)'
           /\ \A t \in Tasks : HasTurn(t, s)' => SeesUnsent(t)'
<1> SUFFICES ASSUME NEW s \in Runs, s # r
             PROVE  /\ \A t, u \in Tasks : HasTurn(t, s)' /\ HasTurn(u, s)' => t = u
                    /\ \A t \in Tasks :
                         HasTurn(t, s)' => s \notin resumed' /\ ~Parked(s)' /\ Exists(s)'
                    /\ s \in resumed' => ~Parked(s)' /\ Exists(s)'
                    /\ \A m, n \in Positions :
                         node'[s][m] = "waiting" /\ node'[s][n] = "waiting" => m = n /\ Exists(s)'
                    /\ \A n \in Positions : sent'[s][n] <= 1
                    /\ ~Exists(s)' \/ s \in resumed' \/ Parked(s)' => Fresh(s)'
                    /\ \A t \in Tasks : HasTurn(t, s)' => SeesUnsent(t)'
  OBVIOUS
<1>1. /\ run'[s] = run[s] /\ (s \in resumed' <=> s \in resumed)
      /\ \A n \in Positions : node'[s][n] = node[s][n] /\ sent'[s][n] = sent[s][n]
  BY DEF OthersStay
<1>2. \A t \in Tasks : HasTurn(t, s)' => task'[t] = task[t] /\ HasTurn(t, s)
  BY DEF HasTurn
<1>3. (Parked(s)' <=> Parked(s)) /\ (Exists(s)' <=> Exists(s)) /\ (Fresh(s) => Fresh(s)')
  BY <1>1 DEF Parked, Exists, Fresh, Unsent
<1>4. ASSUME NEW t \in Tasks, HasTurn(t, s)'
      PROVE  SeesUnsent(t)'
  <2>1. SeesUnsent(t) /\ task'[t] = task[t] /\ task[t].run = s
    BY <1>2, <1>4 DEF TurnInv, SentOnce, HasTurn
  <2>2. task[t].at = "dispatching" => task[t].pos \in Positions
    BY DEF TurnInv, Typed, Carries, NodeLabels
  <2> QED
    BY <1>1, <2>1, <2>2 DEF SeesUnsent, Unsent, At
<1>5. \A t, u \in Tasks : HasTurn(t, s)' /\ HasTurn(u, s)' => t = u
  BY <1>2 DEF TurnInv, OneTurn
<1>6. \A t \in Tasks : HasTurn(t, s)' => s \notin resumed' /\ ~Parked(s)' /\ Exists(s)'
  BY <1>1, <1>2, <1>3 DEF TurnInv, OneTurn
<1>7. /\ s \in resumed' => ~Parked(s)' /\ Exists(s)'
      /\ \A m, n \in Positions :
           node'[s][m] = "waiting" /\ node'[s][n] = "waiting" => m = n /\ Exists(s)'
  BY <1>1, <1>3 DEF TurnInv, OneTurn
<1>8. /\ \A n \in Positions : sent'[s][n] <= 1
      /\ ~Exists(s)' \/ s \in resumed' \/ Parked(s)' => Fresh(s)'
  BY <1>1, <1>3 DEF TurnInv, SentOnce, DispatchedOnce
<1> QED
  BY <1>4, <1>5, <1>6, <1>7, <1>8

(* A step by which task t has the turn for r, which no other task had. *)
LEMMA TurnTaken ==
  ASSUME TurnInv, Typed', NEW t \in Tasks, NEW r \in Runs, OthersStay(r),
         \A u \in Tasks : u # t => task'[u] = task[u] /\ ~HasTurn(u, r),
         task'[t].run = r, SeesUnsent(t)',
         Exists(r)', ~Parked(r)', r \notin resumed',
         \A n \in Positions : sent'[r][n] <= 1
  PROVE  OneTurn' /\ SentOnce'
<1>1. \A u \in Tasks : task'[u] = task[u] \/ task'[u].at \notin TurnLabels \/ task'[u].run = r
  OBVIOUS
<1>2. \A u \in Tasks : HasTurn(u, r)' => u = t
  BY DEF HasTurn
<1>3. OneTurn'
  BY <1>1, <1>2, OtherTurns DEF OneTurn, Parked
<1>4. ASSUME NEW u \in Tasks, task'[u].at \in TurnLabels
      PROVE  SeesUnsent(u)'
  <2>1. task'[u].run \in Runs
    BY <1>4 DEF Typed, Carries, TurnLabels, RunLabels, SettleLabels, ExecutionLabels, TryLabels
  <2>2. CASE task'[u].run = r
    BY <1>2, <1>4, <2>2 DEF HasTurn
  <2>3. CASE task'[u].run # r
    BY <1>1, <1>4, <2>1, <2>3, OtherTurns DEF HasTurn
  <2> QED
    BY <2>2, <2>3
<1>5. /\ DispatchedOnce'
      /\ \A s \in Runs : ~Exists(s)' \/ s \in resumed' \/ Parked(s)' => Fresh(s)'
  BY <1>1, OtherTurns DEF DispatchedOnce
<1> QED
  BY <1>3, <1>4, <1>5 DEF SentOnce

(* A step by which the turn for r goes from a task to its row, or to the list. *)
LEMMA TurnPutDown ==
  ASSUME TurnInv, Typed', NEW r \in Runs, OthersStay(r), sent' = sent,
         \A u \in Tasks : task'[u] = task[u] \/ task'[u].at \notin TurnLabels,
         \A u \in Tasks : ~HasTurn(u, r)',
         Exists(r)', Fresh(r)', r \in resumed' => ~Parked(r)',
         \A m, n \in Positions : node'[r][m] = "waiting" /\ node'[r][n] = "waiting" => m = n
  PROVE  OneTurn' /\ SentOnce'
<1>1. \A u \in Tasks : task'[u] = task[u] \/ task'[u].at \notin TurnLabels \/ task'[u].run = r
  OBVIOUS
<1>2. OneTurn'
  BY <1>1, OtherTurns DEF OneTurn, Parked
<1>3. ASSUME NEW u \in Tasks, task'[u].at \in TurnLabels
      PROVE  SeesUnsent(u)'
  <2>1. task'[u].run \in Runs
    BY <1>3 DEF Typed, Carries, TurnLabels, RunLabels, SettleLabels, ExecutionLabels, TryLabels
  <2>2. task'[u].run # r
    BY <1>3 DEF HasTurn
  <2> QED
    BY <1>1, <1>3, <2>1, <2>2, OtherTurns DEF HasTurn
<1>4. /\ DispatchedOnce'
      /\ \A s \in Runs : ~Exists(s)' \/ s \in resumed' \/ Parked(s)' => Fresh(s)'
  BY <1>1, OtherTurns DEF DispatchedOnce, TurnInv, SentOnce
<1> QED
  BY <1>2, <1>3, <1>4 DEF SentOnce

(* A task that has the turn is the only one, and knows what was not sent. *)
LEMMA HavingTurn ==
  ASSUME TurnInv, NEW t \in Tasks, task[t].at \in TurnLabels
  PROVE  LET r == task[t].run IN
         /\ r \in Runs /\ HasTurn(t, r) /\ SeesUnsent(t)
         /\ \A u \in Tasks : u # t => ~HasTurn(u, r)
         /\ r \notin resumed /\ ~Parked(r) /\ Exists(r)
         /\ task[t].at \in NodeLabels => task[t].pos \in Positions
         /\ task[t] \in Task
         /\ \A n \in Positions : sent[r][n] \in Nat /\ sent[r][n] <= 1
<1>1. task[t].run \in Runs /\ HasTurn(t, task[t].run)
  BY DEF TurnInv, Typed, Carries, HasTurn, TurnLabels, RunLabels, SettleLabels, ExecutionLabels,
         TryLabels
<1>2. task[t].at \in NodeLabels => task[t].pos \in Positions
  BY DEF TurnInv, Typed, Carries
<1>3. /\ task[t] \in Task
      /\ \A n \in Positions : sent[task[t].run][n] \in Nat /\ sent[task[t].run][n] <= 1
  BY <1>1 DEF TurnInv, SentOnce, DispatchedOnce, Typed, TypeOK
<1> QED
  BY <1>1, <1>2, <1>3 DEF TurnInv, OneTurn, SentOnce

(* The steps that take a run further keep one turn. *)
LEMMA ExecutionKeepsTurn ==
  ASSUME TurnInv, Typed', NEW t \in Tasks,
         \/ MarkRunning(t) \/ ListNodes(t) \/ RunNode(t) \/ Dispatch(t) \/ MarkNodeCompleted(t)
         \/ Answered(t) \/ MarkNodeAccepted(t)
  PROVE  OneTurn' /\ SentOnce'
<1>0. Typed
  BY DEF TurnInv
<1>1. PICK r \in Runs :
      /\ r = task[t].run /\ HasTurn(t, r) /\ SeesUnsent(t)
      /\ \A u \in Tasks : u # t => ~HasTurn(u, r)
      /\ r \notin resumed /\ ~Parked(r) /\ Exists(r)
      /\ task[t].at \in NodeLabels => task[t].pos \in Positions
      /\ task[t] \in Task
      /\ \A n \in Positions : sent[r][n] \in Nat /\ sent[r][n] <= 1
  BY HavingTurn DEF MarkRunning, ListNodes, RunNode, Dispatch, MarkNodeCompleted, Answered,
                    MarkNodeAccepted, At, TurnLabels
<1>2. r = task[t].run
  BY <1>1
<1>3. CASE MarkRunning(t)
  <2>1. /\ SetRun(r, "running") /\ Goto(t, "listing")
        /\ UNCHANGED <<node, resumed, sent>> /\ At(t, "starting")
    BY <1>1, <1>3 DEF MarkRunning, startup, world
  <2>2. /\ \A s \in Runs : s # r => run'[s] = run[s]
        /\ run'[r].status = "running"
    BY <1>0, <1>1, <2>1, SetRunWrites DEF RunStatuses
  <2>3. /\ \A u \in Tasks : u # t => task'[u] = task[u]
        /\ task'[t].at = "listing" /\ task'[t].run = r
    BY <1>0, <1>2, <2>1, GotoBecomes
  <2>4. SeesUnsent(t)'
    BY <1>1, <2>1, <2>3 DEF SeesUnsent, Unsent, At, InFlight
  <2>5. Exists(r)' /\ ~Parked(r)' /\ OthersStay(r)
    BY <1>1, <2>1, <2>2 DEF Exists, Parked, OthersStay
  <2> QED
    BY <1>1, <2>1, <2>3, <2>4, <2>5, TurnTaken
<1>4. CASE ListNodes(t)
  <2>1. /\ task' = [task EXCEPT ![t].at = "node", ![t].pos = 1, ![t].seen = node[task[t].run]]
        /\ UNCHANGED <<run, node, resumed, sent>> /\ At(t, "listing")
    BY <1>4 DEF ListNodes, startup, world, tables
  <2>2. /\ \A u \in Tasks : u # t => task'[u] = task[u]
        /\ task'[t].at = "node" /\ task'[t].run = r /\ task'[t].seen = node[r]
    BY <1>0, <1>1, <2>1 DEF Typed, TypeOK, Task
  <2>3. SeesUnsent(t)'
    <3>1. \A n \in Positions : Unsent(node[r][n], r, n)
      BY <1>1, <2>1 DEF SeesUnsent, At, InFlight
    <3>2. \A n \in Positions : Unsent(node[r][n], r, n)' /\ task'[t].seen[n] = node'[r][n]
      BY <2>1, <2>2, <3>1 DEF Unsent
    <3> QED
      BY <2>2, <3>2 DEF SeesUnsent, Unsent, At, InFlight
  <2>4. Exists(r)' /\ ~Parked(r)' /\ OthersStay(r)
    BY <1>1, <2>1 DEF Exists, Parked, OthersStay
  <2> QED
    BY <1>1, <2>1, <2>2, <2>3, <2>4, TurnTaken
<1>5. CASE RunNode(t)
  <2>1. PICK n \in Positions :
          /\ IsNext(t, n) /\ task[t].seen[n] \in {"absent", "running"}
          /\ SetNode(r, n, "running")
          /\ task' = [task EXCEPT ![t].at = "dispatching", ![t].pos = n]
    BY <1>1, <1>5 DEF RunNode
  <2>2. UNCHANGED <<run, resumed, sent>> /\ At(t, "node")
    BY <1>5 DEF RunNode, startup, world
  <2>3. /\ \A u \in Tasks : u # t => task'[u] = task[u]
        /\ task'[t].at = "dispatching" /\ task'[t].run = r
        /\ task'[t].pos = n /\ task'[t].seen = task[t].seen
    BY <1>0, <1>1, <2>1 DEF Typed, TypeOK, Task
  <2>4. /\ node'[r][n] = "running"
        /\ \A s \in Runs, m \in Positions : s # r \/ m # n => node'[s][m] = node[s][m]
    BY <1>0, <1>1, <2>1, SetNodeWrites DEF NodeStatuses
  <2>5. n > task[t].pos \/ n = task[t].pos
    BY <1>0, <2>1, <2>2, PlansAssumption DEF IsNext, Remaining, Typed, Carries, At, Positions
  <2>6. sent[r][n] = 0
    BY <1>1, <2>1, <2>2, <2>5 DEF SeesUnsent, Unsent, At
  <2>7. \A m \in Positions : m > n => m > task[t].pos
    BY <1>0, <2>1, <2>2, <2>5, PlansAssumption DEF Typed, Carries, At, Positions
  <2>8. \A m \in Positions : m > n => Unsent(task[t].seen[m], r, m)
    BY <1>1, <2>2, <2>7 DEF SeesUnsent, At
  <2>9. \A m \in Positions : Unsent(node[r][m], r, m)
    BY <1>1, <2>2 DEF SeesUnsent, At, InFlight
  <2>10. SeesUnsent(t)'
    BY <2>2, <2>3, <2>4, <2>6, <2>8, <2>9 DEF SeesUnsent, Unsent, At, InFlight
  <2>11. Exists(r)' /\ ~Parked(r)' /\ OthersStay(r)
    BY <1>1, <2>2, <2>4 DEF Exists, Parked, OthersStay
  <2> QED
    BY <1>1, <2>2, <2>3, <2>10, <2>11, TurnTaken
<1>6. CASE Dispatch(t)
  <2>1. /\ sent' = [sent EXCEPT ![r][task[t].pos] = @ + 1] /\ Goto(t, "calling")
        /\ UNCHANGED <<run, node, resumed>> /\ At(t, "dispatching")
    BY <1>1, <1>6 DEF Dispatch, startup, tables
  <2>2. /\ \A u \in Tasks : u # t => task'[u] = task[u]
        /\ task'[t].at = "calling" /\ task'[t].run = r
        /\ task'[t].pos = task[t].pos /\ task'[t].seen = task[t].seen
    BY <1>0, <1>2, <2>1, GotoBecomes
  <2>3. task[t].pos \in Positions /\ sent[r][task[t].pos] = 0
    BY <1>1, <2>1 DEF SeesUnsent, At, NodeLabels
  <2>4. /\ sent'[r][task[t].pos] = 1
        /\ \A s \in Runs, m \in Positions : s # r \/ m # task[t].pos => sent'[s][m] = sent[s][m]
    BY <1>0, <1>1, <2>1, <2>3 DEF Typed, TypeOK
  <2>5. \A n \in Positions : n > task[t].pos => n # task[t].pos
    BY <2>3, PlansAssumption DEF Positions
  <2>6. SeesUnsent(t)'
    BY <1>1, <2>1, <2>2, <2>3, <2>4, <2>5 DEF SeesUnsent, Unsent, At, InFlight
  <2>7. Exists(r)' /\ ~Parked(r)' /\ OthersStay(r)
    BY <1>1, <2>1, <2>4 DEF Exists, Parked, OthersStay
  <2>8. \A n \in Positions : sent'[r][n] <= 1
    BY <1>1, <2>3, <2>4
  <2> QED
    BY <1>1, <2>1, <2>2, <2>6, <2>7, <2>8, TurnTaken
<1>7. CASE MarkNodeCompleted(t)
  <2>1. /\ SetNode(r, task[t].pos, "completed")
        /\ task' = [task EXCEPT ![t].at = "node", ![t].pos = @ + 1]
        /\ UNCHANGED <<run, resumed, sent>> /\ At(t, "ready") /\ task[t].pos \in Positions
    BY <1>1, <1>7 DEF MarkNodeCompleted, startup, world, At, NodeLabels
  <2>2. /\ \A u \in Tasks : u # t => task'[u] = task[u]
        /\ task'[t].at = "node" /\ task'[t].run = r
        /\ task'[t].pos = task[t].pos + 1 /\ task'[t].seen = task[t].seen
    BY <1>0, <1>1, <2>1 DEF Typed, TypeOK, Task
  <2>3. /\ node'[r][task[t].pos] = "completed"
        /\ \A s \in Runs, m \in Positions : s # r \/ m # task[t].pos => node'[s][m] = node[s][m]
    BY <1>0, <1>1, <2>1, SetNodeWrites DEF NodeStatuses
  <2>4. \A n \in Positions :
          n > task[t].pos + 1 \/ n = task[t].pos + 1 => n > task[t].pos
    BY <2>1, PlansAssumption DEF Positions
  <2>5. SeesUnsent(t)'
    <3>1. \A n \in Positions : Unsent(node[r][n], r, n)'
      BY <1>1, <2>1, <2>3 DEF SeesUnsent, Unsent
    <3>2. \A n \in Positions : n > task[t].pos => Unsent(task[t].seen[n], r, n)
      BY <1>1, <2>1 DEF SeesUnsent, At, InFlight
    <3>3. \A n \in Positions :
            n > task[t].pos + 1 \/ n = task[t].pos + 1 => Unsent(task[t].seen[n], r, n)'
      BY <2>1, <2>2, <2>4, <3>2 DEF Unsent
    <3> QED
      BY <2>2, <3>1, <3>3 DEF SeesUnsent, Unsent, At, InFlight
  <2>6. Exists(r)' /\ ~Parked(r)' /\ OthersStay(r)
    BY <1>1, <2>1, <2>3 DEF Exists, Parked, OthersStay
  <2> QED
    BY <1>1, <2>1, <2>2, <2>5, <2>6, TurnTaken
<1>8. CASE Answered(t)
  <2>1. /\ Goto(t, "ready") \/ Goto(t, "accepted") \/ Goto(t, "rejected")
        /\ UNCHANGED <<run, node, resumed, sent>> /\ At(t, "calling")
    BY <1>8 DEF Answered, startup, tables, world
  <2>2. CASE Goto(t, "rejected")
    <3>1. \A u \in Tasks : task'[u] = task[u] \/ task'[u].at = "rejected"
      BY <1>0, <2>2, GotoBecomes
    <3> QED
      BY <2>1, <3>1, TurnsGivenUp DEF TurnLabels
  <2>3. ASSUME NEW label \in {"ready", "accepted"}, Goto(t, label)
        PROVE  OneTurn' /\ SentOnce'
    <3>1. /\ \A u \in Tasks : u # t => task'[u] = task[u]
          /\ task'[t].at = label /\ task'[t].run = r
          /\ task'[t].pos = task[t].pos /\ task'[t].seen = task[t].seen
      BY <1>0, <1>2, <2>3, GotoBecomes
    <3>2. SeesUnsent(t)'
      BY <1>1, <2>1, <3>1 DEF SeesUnsent, Unsent, At, InFlight
    <3>3. Exists(r)' /\ ~Parked(r)' /\ OthersStay(r)
      BY <1>1, <2>1 DEF Exists, Parked, OthersStay
    <3> QED
      BY <1>1, <2>1, <3>1, <3>2, <3>3, TurnTaken
  <2> QED
    BY <2>1, <2>2, <2>3
<1>9. CASE MarkNodeAccepted(t)
  <2>1. /\ SetNode(r, task[t].pos, "waiting") /\ Goto(t, "parking")
        /\ UNCHANGED <<run, resumed, sent>> /\ At(t, "accepted") /\ task[t].pos \in Positions
    BY <1>1, <1>9 DEF MarkNodeAccepted, startup, world, At, NodeLabels
  <2>2. /\ \A u \in Tasks : u # t => task'[u] = task[u]
        /\ task'[t].at = "parking"
    BY <1>0, <1>2, <2>1, GotoBecomes
  <2>3. /\ node'[r][task[t].pos] = "waiting"
        /\ \A s \in Runs, m \in Positions : s # r \/ m # task[t].pos => node'[s][m] = node[s][m]
    BY <1>0, <1>1, <2>1, SetNodeWrites DEF NodeStatuses
  <2>4. Fresh(r)'
    BY <1>1, <2>1, <2>3 DEF SeesUnsent, Unsent, Fresh, At
  <2>5. Exists(r)' /\ OthersStay(r)
    BY <1>1, <2>1, <2>3 DEF Exists, OthersStay
  <2>6. \A u \in Tasks : ~HasTurn(u, r)'
    BY <1>1, <2>2 DEF HasTurn, TurnLabels
  <2>7. \A m, n \in Positions : node'[r][m] = "waiting" /\ node'[r][n] = "waiting" => m = n
    BY <1>1, <2>3 DEF Parked
  <2> QED
    BY <1>1, <2>1, <2>2, <2>4, <2>5, <2>6, <2>7, TurnPutDown DEF TurnLabels
<1> QED
  BY <1>3, <1>4, <1>5, <1>6, <1>7, <1>8, <1>9

(* The turn is taken by the call that creates the run, by who settles the node *)
(* that waits, and from the list of the startup.                              *)
LEMMA TurnBegins ==
  ASSUME TurnInv, Typed', NEW t \in Tasks,
         \/ t \in Calls /\ CreateRun(t)
         \/ CompleteWaitingNode(t) \/ ResumeRun(t)
         \/ t = "startup" /\ ExecuteNext
  PROVE  OneTurn' /\ SentOnce'
<1>0. Typed
  BY DEF TurnInv
<1>1. CASE t \in Calls /\ CreateRun(t)
  <2>1. PICK r \in Runs : r = RunOf[t]
    BY <1>1, TasksAssumption
  <2>2. UNCHANGED <<node, resumed, sent>>
    BY <1>1 DEF CreateRun, startup, world
  <2>3. CASE \E ok \in BOOLEAN : AfterExecution(t, ok) /\ UNCHANGED run
    <3>1. PICK label \in {"answered", "executing", "idle"} : Becomes(t, IdleTask(label))
      BY <1>0, <2>3, AfterExecutionBecomes
    <3>2. \A u \in Tasks : task'[u] = task[u] \/ task'[u].at \notin TurnLabels
      BY <3>1, IdleFits DEF Becomes, Idle, TurnLabels
    <3> QED
      BY <2>2, <2>3, <3>2, TurnsGivenUp
  <2>4. CASE /\ ~Exists(r)
             /\ run' = [run EXCEPT ![r] = [status |-> "accepted", plan |-> definition[NameOf[r]]]]
             /\ Execute(t, r)
    <3>1. /\ \A u \in Tasks : u # t => task'[u] = task[u]
          /\ task'[t].at = "starting" /\ task'[t].run = r
      BY <1>0, <2>4, ExecuteBecomes DEF Becomes
    <3>2. /\ \A s \in Runs : s # r => run'[s] = run[s]
          /\ run'[r].status = "accepted"
      BY <1>0, <2>4 DEF Typed, TypeOK
    <3>3. /\ \A u \in Tasks : ~HasTurn(u, r)
          /\ r \notin resumed /\ ~Parked(r) /\ Fresh(r)
          /\ \A n \in Positions : sent[r][n] <= 1
      BY <2>4 DEF TurnInv, OneTurn, SentOnce, DispatchedOnce, Parked
    <3>4. SeesUnsent(t)'
      BY <2>2, <3>1, <3>3 DEF SeesUnsent, Unsent, Fresh, At, InFlight
    <3>5. Exists(r)' /\ ~Parked(r)' /\ OthersStay(r)
      BY <2>2, <3>2, <3>3 DEF Exists, Parked, OthersStay
    <3> QED
      BY <2>2, <3>1, <3>3, <3>4, <3>5, TurnTaken
  <2> QED
    BY <1>1, <2>1, <2>3, <2>4 DEF CreateRun
<1>2. CASE CompleteWaitingNode(t)
  <2>1. PICK r \in Runs, n \in Positions : r = task[t].run /\ n = task[t].pos
    BY <1>0, <1>2, CarriesWhat
       DEF CompleteWaitingNode, SettleWaiting, At, RunLabels, SettleLabels, NodeLabels
  <2>2. UNCHANGED <<run, resumed, sent>>
    BY <1>2 DEF CompleteWaitingNode, SettleWaiting, startup, world
  <2>3. CASE node[r][n] = "waiting"
    <3>0. SetNode(r, n, "completed") /\ Goto(t, "resuming")
      BY <1>2, <2>1, <2>3 DEF CompleteWaitingNode, SettleWaiting, StillWaiting
    <3>1. /\ \A u \in Tasks : u # t => task'[u] = task[u]
          /\ task'[t].at = "resuming" /\ task'[t].run = r
      BY <1>0, <2>1, <3>0, GotoBecomes
    <3>2. /\ node'[r][n] = "completed"
          /\ \A s \in Runs, m \in Positions : s # r \/ m # n => node'[s][m] = node[s][m]
      BY <1>0, <3>0, SetNodeWrites DEF NodeStatuses
    <3>3. Parked(r)
      BY <2>3 DEF Parked
    <3>4. /\ \A u \in Tasks : ~HasTurn(u, r)
          /\ r \notin resumed /\ Exists(r)
          /\ \A m \in Positions : node[r][m] = "waiting" => m = n
      BY <2>3, <3>3 DEF TurnInv, OneTurn
    <3>5. Fresh(r) /\ \A m \in Positions : sent[r][m] <= 1
      BY <3>3 DEF TurnInv, SentOnce, DispatchedOnce
    <3>6. SeesUnsent(t)'
      BY <2>2, <3>1, <3>2, <3>5 DEF SeesUnsent, Unsent, Fresh, At, InFlight
    <3>7. Exists(r)' /\ ~Parked(r)' /\ OthersStay(r)
      BY <2>2, <3>2, <3>4 DEF Exists, Parked, OthersStay
    <3> QED
      BY <2>2, <3>1, <3>4, <3>5, <3>6, <3>7, TurnTaken
  <2>4. CASE node[r][n] # "waiting"
    <3>1. AfterSettling(t) /\ UNCHANGED node
      BY <1>2, <2>1, <2>4 DEF CompleteWaitingNode, SettleWaiting, StillWaiting
    <3>2. \A u \in Tasks : task'[u] = task[u] \/ task'[u].at \notin TurnLabels
      BY <1>0, <3>1, AfterSettlingBecomes, IdleFits DEF Becomes, Idle, TurnLabels
    <3> QED
      BY <2>2, <3>1, <3>2, TurnsGivenUp
  <2> QED
    BY <2>3, <2>4
<1>3. CASE ResumeRun(t)
  <2>1. PICK r \in Runs :
        /\ r = task[t].run /\ HasTurn(t, r) /\ SeesUnsent(t)
        /\ \A u \in Tasks : u # t => ~HasTurn(u, r)
        /\ r \notin resumed /\ ~Parked(r) /\ Exists(r)
        /\ \A n \in Positions : sent[r][n] \in Nat /\ sent[r][n] <= 1
    BY <1>3, HavingTurn DEF ResumeRun, At, TurnLabels
  <2>2. UNCHANGED <<run, node, sent>> /\ At(t, "resuming")
    BY <1>3 DEF ResumeRun, tables, world
  <2>3. Fresh(r)
    BY <2>1, <2>2 DEF SeesUnsent, Fresh, At, InFlight
  <2>4. CASE AfterSettling(t) /\ UNCHANGED resumed
    <3>1. \A u \in Tasks : task'[u] = task[u] \/ task'[u].at \notin TurnLabels
      BY <1>0, <2>4, AfterSettlingBecomes, IdleFits DEF Becomes, Idle, TurnLabels
    <3> QED
      BY <2>2, <2>4, <3>1, TurnsGivenUp
  <2>5. CASE Execute(t, r) /\ UNCHANGED resumed
    <3>1. /\ \A u \in Tasks : u # t => task'[u] = task[u]
          /\ task'[t].at = "starting" /\ task'[t].run = r
      BY <1>0, <2>5, ExecuteBecomes DEF Becomes
    <3>2. SeesUnsent(t)'
      BY <2>2, <2>3, <3>1 DEF SeesUnsent, Unsent, Fresh, At, InFlight
    <3>3. Exists(r)' /\ ~Parked(r)' /\ OthersStay(r)
      BY <2>1, <2>2, <2>5 DEF Exists, Parked, OthersStay
    <3> QED
      BY <2>1, <2>2, <2>5, <3>1, <3>2, <3>3, TurnTaken
  <2>6. CASE AfterSettling(t) /\ resumed' = resumed \cup {r}
    <3>1. PICK label \in {"settling", "idle"} : Becomes(t, IdleTask(label))
      BY <1>0, <2>6, AfterSettlingBecomes
    <3>2. /\ \A u \in Tasks : u # t => task'[u] = task[u]
          /\ task'[t].at \notin TurnLabels
      BY <3>1, IdleFits DEF Becomes, Idle, TurnLabels
    <3>3. \A u \in Tasks : ~HasTurn(u, r)'
      BY <2>1, <3>2 DEF HasTurn
    <3>4. Exists(r)' /\ ~Parked(r)' /\ Fresh(r)' /\ OthersStay(r)
      BY <2>1, <2>2, <2>3, <2>6 DEF Exists, Parked, OthersStay, Fresh, Unsent
    <3>5. \A m, n \in Positions : node'[r][m] = "waiting" /\ node'[r][n] = "waiting" => m = n
      BY <3>4 DEF Parked
    <3> QED
      BY <2>2, <3>2, <3>3, <3>4, <3>5, TurnPutDown
  <2> QED
    BY <1>3, <2>1, <2>4, <2>5, <2>6 DEF ResumeRun
<1>4. CASE t = "startup" /\ ExecuteNext
  <2>1. PICK r \in Runs : r \in resumed /\ resumed' = resumed \ {r} /\ Execute(t, r)
    BY <1>0, <1>4 DEF ExecuteNext, Typed, TypeOK
  <2>2. UNCHANGED <<run, node, sent>>
    BY <1>4 DEF ExecuteNext, tables, world
  <2>3. /\ \A u \in Tasks : ~HasTurn(u, r)
        /\ ~Parked(r) /\ Exists(r) /\ Fresh(r)
        /\ \A n \in Positions : sent[r][n] <= 1
    BY <2>1 DEF TurnInv, OneTurn, SentOnce, DispatchedOnce
  <2>4. /\ \A u \in Tasks : u # t => task'[u] = task[u]
        /\ task'[t].at = "starting" /\ task'[t].run = r
    BY <1>0, <2>1, ExecuteBecomes DEF Becomes
  <2>5. SeesUnsent(t)'
    BY <2>2, <2>3, <2>4 DEF SeesUnsent, Unsent, Fresh, At, InFlight
  <2>6. Exists(r)' /\ ~Parked(r)' /\ OthersStay(r)
    BY <2>1, <2>2, <2>3 DEF Exists, Parked, OthersStay
  <2> QED
    BY <2>1, <2>2, <2>3, <2>4, <2>5, <2>6, TurnTaken
<1> QED
  BY <1>1, <1>2, <1>3, <1>4

(* Every other step takes no turn: it writes final statuses of nodes at most.  *)
LEMMA TurnIsGivenUp ==
  ASSUME TurnInv, NEW t \in Tasks,
         \/ StopAtUnfinished(t) \/ AllNodesDone(t) \/ ContextUnavailable(t) \/ MarkRunWaiting(t)
         \/ MarkNodeFailed(t) \/ MarkRunFailed(t) \/ MarkRunCompleted(t) \/ CatchNode(t)
         \/ CountRuns(t) \/ Return(t)
         \/ ReadResult(t) \/ FailWaitingNode(t) \/ FailSettledRun(t) \/ CountSettled(t)
         \/ ReadFails(t) \/ (t \in Subscriptions /\ TakeEvent(t)) \/ StatementFails(t)
  PROVE  OneTurn' /\ SentOnce'
<1>0. Typed
  BY DEF TurnInv
<1> DEFINE TasksYield == \A u \in Tasks : task'[u] = task[u] \/ task'[u].at \notin TurnLabels
           RowsEnd == \A r \in Runs, n \in Positions :
                        node'[r][n] = node[r][n] \/ node'[r][n] \in {"completed", "failed"}
           RunsStay == \A r \in Runs : run'[r].status = "absent" => run[r].status = "absent"
<1>1. ASSUME NEW label, label \notin TurnLabels, Goto(t, label)
      PROVE  TasksYield
  BY <1>0, <1>1, GotoBecomes
<1>2. ASSUME NEW ok \in BOOLEAN, AfterExecution(t, ok)
      PROVE  TasksYield
  BY <1>0, <1>2, AfterExecutionBecomes, IdleFits DEF Becomes, Idle, TurnLabels
<1>3. ASSUME AfterSettling(t)
      PROVE  TasksYield
  BY <1>0, <1>3, AfterSettlingBecomes, IdleFits DEF Becomes, Idle, TurnLabels
<1>4. ASSUME NEW status \in RunStatuses \ {"absent"}, SetRun(task[t].run, status),
             task[t].run \in Runs
      PROVE  RunsStay
  BY <1>0, <1>4, SetRunWrites
<1>5. ASSUME NEW status \in {"completed", "failed"}, SetNode(task[t].run, task[t].pos, status),
             task[t].run \in Runs, task[t].pos \in Positions
      PROVE  RowsEnd
  BY <1>0, <1>5, SetNodeWrites DEF NodeStatuses
<1>6. task[t].at \in RunLabels => task[t].run \in Runs
  BY <1>0, CarriesWhat
<1>7. task[t].at \in NodeLabels => task[t].pos \in Positions
  BY <1>0, CarriesWhat
<1> HIDE DEF TasksYield, RowsEnd, RunsStay
<1>8. run' = run => RunsStay
  BY DEF RunsStay
<1>9. node' = node => RowsEnd
  BY DEF RowsEnd
<1>10. ASSUME TasksYield, RowsEnd, RunsStay, sent' = sent, resumed' \subseteq resumed
       PROVE  OneTurn' /\ SentOnce'
  BY <1>10, TurnsGivenUp DEF TasksYield, RowsEnd, RunsStay
<1>11. CASE StopAtUnfinished(t) \/ MarkRunWaiting(t) \/ MarkRunFailed(t) \/ MarkRunCompleted(t)
            \/ FailSettledRun(t)
  <2>1. task[t].run \in Runs
    BY <1>6, <1>11 DEF StopAtUnfinished, MarkRunWaiting, MarkRunFailed, MarkRunCompleted,
                       FailSettledRun, At, RunLabels, SettleLabels, ExecutionLabels, TryLabels
  <2>2. RunsStay
    <3>1. \/ run' = run
          \/ \E status \in RunStatuses \ {"absent"} : SetRun(task[t].run, status)
      BY <1>11 DEF StopAtUnfinished, MarkRunWaiting, MarkRunFailed, MarkRunCompleted,
                   FailSettledRun, RunStatuses
    <3> QED
      BY <1>4, <1>8, <2>1, <3>1
  <2>3. TasksYield
    <3>1. \E label \in {"returning", "counting", "settled"} : Goto(t, label)
      BY <1>11 DEF StopAtUnfinished, MarkRunWaiting, MarkRunFailed, MarkRunCompleted, FailSettledRun
    <3> QED
      BY <1>1, <3>1 DEF TurnLabels
  <2>4. node' = node /\ sent' = sent /\ resumed' = resumed
    BY <1>11 DEF StopAtUnfinished, MarkRunWaiting, MarkRunFailed, MarkRunCompleted,
                 FailSettledRun, startup, world
  <2> QED
    BY <1>9, <1>10, <2>2, <2>3, <2>4
<1>12. CASE AllNodesDone(t) \/ ContextUnavailable(t) \/ CountRuns(t) \/ ReadFails(t)
  <2>1. \E label \in {"finishing", "catch", "returning", "failingNode"} : Goto(t, label)
    BY <1>12 DEF AllNodesDone, ContextUnavailable, CountRuns, ReadFails
  <2>2. TasksYield
    BY <1>1, <2>1 DEF TurnLabels
  <2>3. run' = run /\ node' = node /\ sent' = sent /\ resumed' = resumed
    BY <1>12 DEF AllNodesDone, ContextUnavailable, CountRuns, ReadFails, tables, startup, world
  <2> QED
    BY <1>8, <1>9, <1>10, <2>2, <2>3
<1>13. CASE MarkNodeFailed(t) \/ CatchNode(t) \/ FailWaitingNode(t)
  <2>1. task[t].run \in Runs /\ task[t].pos \in Positions
    BY <1>6, <1>7, <1>13 DEF MarkNodeFailed, CatchNode, FailWaitingNode, SettleWaiting, At, RunLabels,
                       SettleLabels, ExecutionLabels, TryLabels, NodeLabels
  <2>2. RowsEnd
    <3>1. node' = node \/ SetNode(task[t].run, task[t].pos, "failed")
      BY <1>13 DEF MarkNodeFailed, CatchNode, FailWaitingNode, SettleWaiting
    <3> QED
      BY <1>5, <1>9, <2>1, <3>1
  <2>3. TasksYield
    <3>1. AfterSettling(t) \/ \E label \in {"failing", "catchRun", "failingRun"} : Goto(t, label)
      BY <1>13 DEF MarkNodeFailed, CatchNode, FailWaitingNode, SettleWaiting
    <3> QED
      BY <1>1, <1>3, <3>1 DEF TurnLabels
  <2>4. run' = run /\ sent' = sent /\ resumed' = resumed
    BY <1>13 DEF MarkNodeFailed, CatchNode, FailWaitingNode, SettleWaiting, startup, world
  <2> QED
    BY <1>8, <1>10, <2>2, <2>3, <2>4
<1>14. CASE Return(t) \/ ReadResult(t) \/ CountSettled(t)
  <2>1. \/ AfterExecution(t, TRUE) \/ AfterSettling(t)
        \/ \E label \in {"completing", "failingNode"} : Goto(t, label)
    BY <1>14 DEF Return, ReadResult, CountSettled
  <2>2. TasksYield
    BY <1>1, <1>2, <1>3, <2>1 DEF TurnLabels
  <2>3. run' = run /\ node' = node /\ sent' = sent /\ resumed' = resumed
    BY <1>14 DEF Return, ReadResult, CountSettled, tables, startup, world
  <2> QED
    BY <1>8, <1>9, <1>10, <2>2, <2>3
<1>15. CASE t \in Subscriptions /\ TakeEvent(t)
  <2>1. PICK e \in events :
          \/ task' = [task EXCEPT ![t] = ReadingTask(e.run, e.pos)]
          \/ task' = task
    BY <1>15 DEF TakeEvent, ReadingTask
  <2>2. e.run \in Runs /\ e.pos \in Positions
    BY <1>0, <2>1 DEF Typed, TypeOK, Event
  <2>3. TasksYield
    <3>1. CASE task' = [task EXCEPT ![t] = ReadingTask(e.run, e.pos)]
      BY <1>0, <2>2, <3>1, ReadingBecomes DEF TasksYield, Becomes, TurnLabels
    <3> QED
      BY <2>1, <3>1 DEF TasksYield
  <2>4. run' = run /\ node' = node /\ sent' = sent /\ resumed' = resumed
    BY <1>15 DEF TakeEvent, tables, startup
  <2> QED
    BY <1>8, <1>9, <1>10, <2>3, <2>4
<1>16. CASE StatementFails(t)
  <2>1. run' = run /\ node' = node /\ sent' = sent
    BY <1>16 DEF StatementFails, tables, world
  <2>2. resumed' \subseteq resumed
    BY <1>16 DEF StatementFails, TryFails, ExecutionFails, SettlingFails, CallFails, startup
  <2>3. TasksYield
    <3>1. CASE TryFails(t)
      <4>1. CASE \E label \in {"catch", "catchRun"} : Goto(t, label)
        BY <1>1, <4>1 DEF TurnLabels
      <4>2. CASE \E n \in Positions : task' = [task EXCEPT ![t].at = "catch", ![t].pos = n]
        BY <1>0, <4>2 DEF TasksYield, Typed, TypeOK, Task, TurnLabels
      <4> QED
        BY <3>1, <4>1, <4>2 DEF TryFails
    <3>2. CASE ExecutionFails(t) \/ CallFails(t)
      BY <1>2, <3>2 DEF ExecutionFails, CallFails
    <3>3. CASE SettlingFails(t)
      <4>1. task' = [task EXCEPT ![t] = IdleTask("idle")]
        BY <3>3 DEF SettlingFails
      <4> QED
        BY <1>0, <4>1, IdleFits DEF TasksYield, Typed, TypeOK, Idle, TurnLabels
    <3> QED
      BY <1>16, <3>1, <3>2, <3>3 DEF StatementFails
  <2> QED
    BY <1>8, <1>9, <1>10, <2>1, <2>2, <2>3
<1> QED
  BY <1>11, <1>12, <1>13, <1>14, <1>15, <1>16

(* Neither do the other steps of the startup, a crash, the provider, lost      *)
(* events and changes of definitions.                                         *)
LEMMA TurnIsLeftAlone ==
  ASSUME TurnInv,
         \/ ListWaiting \/ SettleNext \/ AllSettled \/ AllExecuted \/ Start \/ Crash
         \/ LlmAccepts \/ LlmFinishes \/ LoseEvent \/ ChangeDefinition
  PROVE  OneTurn' /\ SentOnce'
<1>0. Typed /\ task \in [Tasks -> Task] /\ "startup" \in Tasks
  BY DEF TurnInv, Typed, TypeOK, Tasks
<1>1. run' = run /\ node' = node /\ sent' = sent /\ resumed' \subseteq resumed
  BY DEF ListWaiting, SettleNext, AllSettled, AllExecuted, Start, Crash, LlmAccepts, LlmFinishes,
         LoseEvent, ChangeDefinition, tables, startup, world
<1>2. \A u \in Tasks : task'[u] = task[u] \/ task'[u].at \notin TurnLabels
  <2>1. CASE ListWaiting \/ AllSettled \/ AllExecuted \/ Start
    <3>1. PICK label \in {"settling", "executing", "idle", "listWaiting"} : Goto("startup", label)
      BY <2>1 DEF ListWaiting, AllSettled, AllExecuted, Start
    <3>2. task'["startup"].at = label /\ \A u \in Tasks : u # "startup" => task'[u] = task[u]
      BY <1>0, <3>1, GotoBecomes
    <3> QED
      BY <3>1, <3>2 DEF TurnLabels
  <2>2. CASE SettleNext
    <3>1. PICK w \in todo : task' = [task EXCEPT !["startup"] = ReadingTask(w[1], w[2])]
      BY <2>2 DEF SettleNext, ReadingTask
    <3>2. PICK r \in Runs, n \in Positions : r = w[1] /\ n = w[2]
      BY <1>0, <3>1 DEF Typed, TypeOK
    <3>3. task' = [task EXCEPT !["startup"] = ReadingTask(r, n)]
      BY <3>1, <3>2
    <3> QED
      BY <1>0, <3>3, ReadingBecomes DEF Becomes, TurnLabels
  <2>3. CASE Crash
    BY <1>0, <2>3, IdleFits DEF Crash, Idle, TurnLabels
  <2>4. CASE LlmAccepts \/ LlmFinishes \/ LoseEvent \/ ChangeDefinition
    BY <2>4 DEF LlmAccepts, LlmFinishes, LoseEvent, ChangeDefinition
  <2> QED
    BY <2>1, <2>2, <2>3, <2>4
<1> QED
  BY <1>1, <1>2, TurnsGivenUp

(* Every step keeps one turn, and what was sent. *)
LEMMA StepTurn == TurnInv /\ [Next]_vars => TurnInv'
<1> SUFFICES ASSUME TurnInv, [Next]_vars PROVE TurnInv'
  OBVIOUS
<1>1. Typed'
  BY StepTyped DEF TurnInv
<1>2. OneTurn' /\ SentOnce'
  <2>1. CASE UNCHANGED vars
    BY <2>1, TurnsGivenUp DEF vars, tables, startup, world
  <2>2. ASSUME NEW t \in Tasks, ExecutionStep(t)
        PROVE  OneTurn' /\ SentOnce'
    BY <1>1, <2>2, ExecutionKeepsTurn, TurnIsGivenUp DEF ExecutionStep
  <2>3. ASSUME NEW t \in Tasks, SettleStep(t) \/ ReadFails(t) \/ StatementFails(t)
        PROVE  OneTurn' /\ SentOnce'
    BY <1>1, <2>3, TurnBegins, TurnIsGivenUp DEF SettleStep
  <2>4. CASE \E c \in Calls : CreateRun(c)
    BY <1>1, <2>4, TurnBegins DEF Tasks
  <2>5. CASE \E s \in Subscriptions : TakeEvent(s)
    BY <2>5, TurnIsGivenUp DEF Tasks
  <2>6. CASE StartupStep \/ Start \/ Crash
    BY <1>1, <2>6, TurnBegins, TurnIsLeftAlone DEF StartupStep, Tasks
  <2>7. CASE LlmAccepts \/ LlmFinishes \/ LoseEvent \/ ChangeDefinition
    BY <2>7, TurnIsLeftAlone
  <2> QED
    BY <2>1, <2>2, <2>3, <2>4, <2>5, <2>6, <2>7 DEF Next, TaskStep
<1> QED
  BY <1>1, <1>2 DEF TurnInv

(* A node is sent to its provider once, in any order of calls, events and      *)
(* restarts and whatever fails: what takes a run further is one at a time, and *)
(* what it finds open was never sent.                                         *)
THEOREM NoNodeIsDispatchedTwice == Spec => []DispatchedOnce
<1>1. TurnInv => DispatchedOnce
  BY DEF TurnInv, SentOnce
<1> QED
  BY <1>1, InitTurn, StepTurn, PTL DEF Spec

-----------------------------------------------------------------------------
(* Who writes a run, as long as results do not overtake recordings *)

WriterLabels == (ExecutionLabels \ {"returning"}) \cup {"resuming", "failingRun"}

WritesRun(t, r) == task[t].at \in WriterLabels /\ task[t].run = r

Active == {"running", "waiting"}

RecordingLabels == {"calling", "accepted", "parking", "counting", "catch", "catchRun"}

ReadingLabels == {"reading", "completing", "failingNode"}

(* One task at a time writes a run.  Beside it only a node may wait that the   *)
(* task is still recording; nobody settles it meanwhile.                       *)
OneWriter(r) ==
  /\ \A t, u \in Tasks : WritesRun(t, r) /\ WritesRun(u, r) => t = u
  /\ r \in resumed =>
       ~Parked(r) /\ run[r].status \in Active /\ \A t \in Tasks : ~WritesRun(t, r)
  /\ \A n \in Positions : node[r][n] = "waiting" =>
       /\ run[r].status \in Active
       /\ \A t \in Tasks : WritesRun(t, r) =>
            task[t].at \in {"parking", "counting", "catch"} /\ task[t].pos = n
       /\ \A t \in Tasks :
            task[t].at \in {"completing", "failingNode"} /\ task[t].run = r /\ task[t].pos = n
              => \A u \in Tasks : ~WritesRun(u, r)

(* What the status of a run is while task t writes it. *)
StatusFits(t) ==
  LET status == run[task[t].run].status IN
  /\ At(t, "starting") => status \in Active \cup {"accepted"}
  /\ task[t].at \in {"listing", "node", "dispatching", "calling", "ready", "accepted", "rejected",
                     "failing", "finishing", "parking"} => status = "running"
  /\ At(t, "counting") => status \in {"waiting", "failed"}
  /\ task[t].at \in {"catch", "catchRun"} =>
       status \in {"running", "failed"} \/ (status = "waiting" /\ faults > 0)
  /\ task[t].at \in {"resuming", "failingRun"} => status \in Active

(* What its rows are: as the task saw them from its node on, complete before   *)
(* it.                                                                         *)
RowsFit(t) ==
  LET r == task[t].run IN
  /\ task[t].at \in {"dispatching", "calling", "ready", "accepted", "rejected"} =>
       node[r][task[t].pos] = "running"
  /\ At(t, "parking") => node[r][task[t].pos] = "waiting"
  /\ At(t, "counting") /\ run[r].status = "waiting" => node[r][task[t].pos] = "waiting"
  /\ task[t].at \in {"node", "dispatching"} \cup InFlight =>
       \A n \in Positions :
         /\ n > task[t].pos \/ (n = task[t].pos /\ At(t, "node"))
              => task[t].seen[n] = node[r][n]
         /\ n < task[t].pos /\ n \in 1..Len(run[r].plan) => node[r][n] = "completed"
  /\ At(t, "finishing") => \A n \in 1..Len(run[r].plan) : node[r][n] = "completed"

(* What is to be settled has waited. *)
Once(r, n) == node[r][n] \in {"waiting", "completed", "failed"}

OnceWaited(r) ==
  /\ \A n \in Positions : <<r, n>> \in todo => Once(r, n)
  /\ \A t \in Tasks : task[t].at \in ReadingLabels /\ task[t].run = r => Once(r, task[t].pos)

(* What is being recorded has no result yet. *)
NoResultYet(t) ==
  LET r == task[t].run
      n == task[t].pos IN
  /\ task[t].at \in {"calling", "accepted"} => provider[r][n] \notin FinalStatuses
  /\ task[t].at \in RecordingLabels /\ n \in Positions =>
       (node[r][n] = "waiting" => provider[r][n] \notin FinalStatuses)

ResultsOfSent(r) == \A n \in Positions : provider[r][n] # "none" => sent[r][n] > 0

CompletedAll(r) ==
  run[r].status = "completed" => \A n \in 1..Len(run[r].plan) : node[r][n] = "completed"

PlanKnown(r) == Exists(r) => run[r].plan \in Plans

(* A run that waits has a node that does, or somebody takes it further. *)
Accounted(r) ==
  run[r].status = "waiting" =>
    \/ faults > 0 \/ Parked(r) \/ r \in resumed
    \/ \E t \in Tasks : task[t].at \in {"starting", "resuming", "failingRun"} /\ task[t].run = r

RunInv(r) ==
  /\ OneWriter(r)
  /\ \A t \in Tasks : WritesRun(t, r) => StatusFits(t) /\ RowsFit(t) /\ NoResultYet(t)
  /\ OnceWaited(r) /\ ResultsOfSent(r) /\ CompletedAll(r) /\ PlanKnown(r) /\ Accounted(r)

(* While the process is down every task is at rest. *)
RestLabels == {"idle", "new", "answered", "lost"}

AtRestWhenDown == up \/ \A t \in Tasks : task[t].at \in RestLabels

PatientInv == TurnInv /\ AtRestWhenDown /\ \A r \in Runs : RunInv(r)

(* Nobody writes a run when the system starts. *)
LEMMA InitPatient == Init => PatientInv
<1> SUFFICES ASSUME Init PROVE PatientInv
  OBVIOUS
<1>0. AtRestWhenDown
  BY DEF Init, IdleTask, AtRestWhenDown, RestLabels
<1> SUFFICES ASSUME NEW r \in Runs PROVE RunInv(r)
  BY <1>0, InitTurn DEF PatientInv
<1>1. \A t \in Tasks : task[t].at \notin WriterLabels /\ task[t].at \notin ReadingLabels
  BY DEF Init, IdleTask, WriterLabels, ReadingLabels, ExecutionLabels, TryLabels
<1>2. /\ resumed = {} /\ todo = {} /\ run[r].status = "absent"
      /\ \A n \in Positions : node[r][n] = "absent" /\ provider[r][n] = "none"
  BY DEF Init, NoRows
<1>3. OneWriter(r)
  BY <1>1, <1>2 DEF OneWriter, WritesRun
<1> QED
  BY <1>1, <1>2, <1>3 DEF RunInv, OnceWaited, ResultsOfSent, CompletedAll, PlanKnown, Exists,
                           Accounted, WritesRun

(* The nodes of a plan are positions. *)
LEMMA PlanIsShort ==
  ASSUME NEW p \in Plans
  PROVE  1..Len(p) \subseteq Positions
<1>1. Len(p) \in Positions
  BY PlansAssumption
<1> QED
  BY <1>1, PlansAssumption DEF Positions

(* What a step has to leave of run s, for its invariant to hold on.  Tasks may *)
(* turn to something else.                                                     *)
StaysAsItWas(s) ==
  /\ run'[s] = run[s] /\ node'[s] = node[s] /\ provider'[s] = provider[s]
  /\ \A n \in Positions : sent'[s][n] >= sent[s][n]
  /\ \A n \in Positions : <<s, n>> \in todo' => <<s, n>> \in todo \/ Once(s, n)
  /\ s \in resumed' => s \in resumed
  /\ faults' >= faults

Turns(u, s) ==
  \/ task'[u] = task[u] \/ task'[u].run # s
  \/ task'[u].at \notin WriterLabels \cup ReadingLabels

(* Then its invariant is kept, if somebody still takes it further. *)
LEMMA RunIsKept ==
  ASSUME Typed, Typed', NEW s \in Runs, RunInv(s), StaysAsItWas(s),
         \A u \in Tasks : Turns(u, s), Accounted(s)'
  PROVE  RunInv(s)'
<1>1. \A u \in Tasks : WritesRun(u, s)' => task'[u] = task[u] /\ WritesRun(u, s)
  BY DEF Turns, WritesRun
<1>2. \A u \in Tasks : task'[u].at \in ReadingLabels /\ task'[u].run = s => task'[u] = task[u]
  BY DEF Turns
<1>3. run'[s] = run[s] /\ node'[s] = node[s] /\ provider'[s] = provider[s]
  BY DEF StaysAsItWas
<1>4. OneWriter(s)'
  <2>1. Parked(s)' => Parked(s)
    BY <1>3 DEF Parked
  <2>2. s \in resumed' =>
          ~Parked(s)' /\ run'[s].status \in Active /\ \A t \in Tasks : ~WritesRun(t, s)'
    BY <1>1, <1>3, <2>1 DEF RunInv, OneWriter, StaysAsItWas
  <2>3. \A n \in Positions : node'[s][n] = "waiting" =>
          /\ run'[s].status \in Active
          /\ \A t \in Tasks : WritesRun(t, s)' =>
               task'[t].at \in {"parking", "counting", "catch"} /\ task'[t].pos = n
          /\ \A t \in Tasks :
               task'[t].at \in {"completing", "failingNode"} /\ task'[t].run = s /\ task'[t].pos = n
                 => \A u \in Tasks : ~WritesRun(u, s)'
    BY <1>1, <1>2, <1>3 DEF RunInv, OneWriter, ReadingLabels
  <2>4. \A t, u \in Tasks : WritesRun(t, s)' /\ WritesRun(u, s)' => t = u
    BY <1>1 DEF RunInv, OneWriter
  <2> QED
    BY <2>2, <2>3, <2>4 DEF OneWriter
<1>5. ASSUME NEW t \in Tasks, WritesRun(t, s)'
      PROVE  StatusFits(t)' /\ RowsFit(t)' /\ NoResultYet(t)'
  <2>1. /\ task'[t] = task[t] /\ task[t].run = s
        /\ StatusFits(t) /\ RowsFit(t) /\ NoResultYet(t)
    BY <1>1, <1>5 DEF RunInv, WritesRun
  <2>2. task[t].at \in NodeLabels => task[t].pos \in Positions
    BY CarriesWhat
  <2>3. faults' >= faults /\ faults \in Nat /\ faults' \in Nat
    BY PlansAssumption DEF StaysAsItWas, Typed, TypeOK
  <2>4. StatusFits(t)'
    BY <1>3, <2>1, <2>3 DEF StatusFits, At
  <2>5. RowsFit(t)'
    <3>1. /\ task[t].at \in {"dispatching", "calling", "ready", "accepted", "rejected"} =>
               node'[s][task[t].pos] = "running"
          /\ At(t, "parking") => node'[s][task[t].pos] = "waiting"
          /\ At(t, "counting") /\ run[s].status = "waiting" => node'[s][task[t].pos] = "waiting"
      BY <1>3, <2>1, <2>2 DEF RowsFit, NodeLabels, At
    <3>2. task[t].at \in {"node", "dispatching"} \cup InFlight =>
            \A n \in Positions :
              /\ n > task[t].pos \/ (n = task[t].pos /\ At(t, "node"))
                   => task[t].seen[n] = node'[s][n]
              /\ n < task[t].pos /\ n \in 1..Len(run[s].plan) => node'[s][n] = "completed"
      BY <1>3, <2>1 DEF RowsFit
    <3>3. At(t, "finishing") => \A n \in 1..Len(run[s].plan) : node'[s][n] = "completed"
      BY <1>3, <2>1 DEF RowsFit
    <3> QED
      BY <1>3, <2>1, <3>1, <3>2, <3>3 DEF RowsFit, At
  <2>6. NoResultYet(t)'
    BY <1>3, <2>1, <2>2 DEF NoResultYet, NodeLabels
  <2> QED
    BY <2>4, <2>5, <2>6
<1>6. OnceWaited(s)'
  <2>1. \A n \in Positions : Once(s, n)' <=> Once(s, n)
    BY <1>3 DEF Once
  <2>2. \A n \in Positions : <<s, n>> \in todo' => Once(s, n)'
    BY <2>1 DEF StaysAsItWas, RunInv, OnceWaited
  <2>3. ASSUME NEW t \in Tasks, task'[t].at \in ReadingLabels, task'[t].run = s
        PROVE  Once(s, task[t].pos)'
    <3>1. task'[t] = task[t] /\ Once(s, task[t].pos)
      BY <1>2, <2>3 DEF RunInv, OnceWaited
    <3> QED
      BY <1>3, <3>1 DEF Once
  <2> QED
    BY <2>2, <2>3 DEF OnceWaited, Once
<1>7. ResultsOfSent(s)'
  <2>1. \A n \in Positions : sent[s][n] \in Nat /\ sent'[s][n] \in Nat /\ sent'[s][n] >= sent[s][n]
    BY DEF StaysAsItWas, Typed, TypeOK
  <2> QED
    BY <1>3, <2>1 DEF RunInv, ResultsOfSent
<1>8. CompletedAll(s)'
  BY <1>3 DEF RunInv, CompletedAll
<1>9. PlanKnown(s)'
  BY <1>3 DEF RunInv, PlanKnown, Exists
<1> QED
  BY <1>4, <1>5, <1>6, <1>7, <1>8, <1>9 DEF RunInv

(* Somebody does as long as nobody who did turns away. *)
LEMMA StaysAccounted ==
  ASSUME Typed, Typed', NEW s \in Runs, Accounted(s), StaysAsItWas(s),
         s \in resumed => s \in resumed',
         \A u \in Tasks :
           task[u].at \in {"starting", "resuming", "failingRun"} /\ task[u].run = s
             => task'[u] = task[u]
  PROVE  Accounted(s)'
<1>1. faults > 0 => faults' > 0
  BY PlansAssumption DEF StaysAsItWas, Typed, TypeOK
<1>2. Parked(s) => Parked(s)'
  BY DEF StaysAsItWas, Parked
<1> QED
  BY <1>1, <1>2 DEF Accounted, StaysAsItWas

(* A step of task t for run r keeps the invariant of the other runs. *)
LEMMA OtherRunsAreKept ==
  ASSUME PatientInv, Typed', NEW t \in Tasks, NEW r \in Runs,
         \A u \in Tasks : u # t => task'[u] = task[u],
         task[t].at \in {"starting", "resuming", "failingRun"} => task[t].run = r,
         task'[t].run = r \/ task'[t].at \notin WriterLabels \cup ReadingLabels,
         \A s \in Runs : s # r => StaysAsItWas(s) /\ (s \in resumed => s \in resumed')
  PROVE  \A s \in Runs : s # r => RunInv(s)'
<1> SUFFICES ASSUME NEW s \in Runs, s # r PROVE RunInv(s)'
  OBVIOUS
<1>1. Typed /\ RunInv(s) /\ StaysAsItWas(s)
  BY DEF PatientInv, TurnInv
<1>2. \A u \in Tasks : Turns(u, s)
  BY DEF Turns
<1>3. Accounted(s)'
  BY <1>1, StaysAccounted DEF RunInv
<1> QED
  BY <1>1, <1>2, <1>3, RunIsKept

(* What may wait beside the task that writes the run. *)
WaitsBeside(t, r) ==
  \A n \in Positions : node[r][n] = "waiting" =>
    /\ run[r].status \in Active
    /\ WritesRun(t, r) => task[t].at \in {"parking", "counting", "catch"} /\ task[t].pos = n
    /\ \A u \in Tasks :
         task[u].at \in {"completing", "failingNode"} /\ task[u].run = r /\ task[u].pos = n
           => ~WritesRun(t, r)

(* What a step of task t has to leave, for the invariant of the run r it alone *)
(* writes, or may begin to write, to hold on.                                  *)
Recorded(t, r) ==
  /\ OnceWaited(r) /\ ResultsOfSent(r) /\ CompletedAll(r) /\ PlanKnown(r) /\ Accounted(r)
  /\ r \notin resumed
  /\ WritesRun(t, r) => StatusFits(t) /\ RowsFit(t) /\ NoResultYet(t)
  /\ WaitsBeside(t, r)

LEMMA WriterKeepsRun ==
  ASSUME NEW t \in Tasks, NEW r \in Runs,
         \A u \in Tasks : u # t => task'[u] = task[u] /\ ~WritesRun(u, r),
         Recorded(t, r)'
  PROVE  RunInv(r)'
<1>1. \A u \in Tasks : WritesRun(u, r)' => u = t
  BY DEF WritesRun
<1>2. OneWriter(r)'
  BY <1>1 DEF OneWriter, Recorded, WaitsBeside
<1>3. ASSUME NEW u \in Tasks, WritesRun(u, r)'
      PROVE  StatusFits(u)' /\ RowsFit(u)' /\ NoResultYet(u)'
  BY <1>1, <1>3 DEF Recorded
<1> QED
  BY <1>2, <1>3 DEF RunInv, Recorded

(* What has waited once is not opened again, so what is to be settled fits.    *)
LEMMA StaysOnce ==
  ASSUME Typed, NEW t \in Tasks, NEW r \in Runs, OnceWaited(r),
         \A u \in Tasks : u # t => task'[u] = task[u],
         task'[t].at \notin ReadingLabels,
         todo' \subseteq todo,
         \A n \in Positions : Once(r, n) => Once(r, n)'
  PROVE  OnceWaited(r)'
<1>1. \A u \in Tasks : task'[u].at \in ReadingLabels => task'[u] = task[u]
  OBVIOUS
<1>2. \A u \in Tasks : task[u].at \in ReadingLabels => task[u].pos \in Positions
  BY CarriesWhat DEF ReadingLabels, NodeLabels
<1>3. ASSUME NEW u \in Tasks, task'[u].at \in ReadingLabels, task'[u].run = r
      PROVE  Once(r, task[u].pos)' /\ task'[u].pos = task[u].pos
  BY <1>1, <1>2, <1>3 DEF OnceWaited, Once
<1> QED
  BY <1>3 DEF OnceWaited, Once

(* What a step of a task for run r leaves of the others. *)
Elsewhere(r) ==
  /\ \A s \in Runs : s # r => run'[s] = run[s] /\ node'[s] = node[s]
  /\ \A s \in Runs, n \in Positions : sent'[s][n] >= sent[s][n]
  /\ \A s \in Runs : s # r => (s \in resumed' <=> s \in resumed)
  /\ provider' = provider /\ todo' \subseteq todo /\ faults' >= faults

(* A step by which task t goes on, or begins, to write run r. *)
LEMMA WriterStep ==
  ASSUME PatientInv, Typed', NEW t \in Tasks, NEW r \in Runs, Elsewhere(r),
         \A u \in Tasks : u # t => task'[u] = task[u] /\ ~WritesRun(u, r),
         task[t].at \in {"starting", "resuming", "failingRun"} => task[t].run = r,
         task'[t].run = r, task'[t].at \notin ReadingLabels, r \notin resumed',
         PlanKnown(r)', CompletedAll(r)', Accounted(r)', WaitsBeside(t, r)',
         \A n \in Positions : Once(r, n) => Once(r, n)',
         task'[t].at \in WriterLabels => StatusFits(t)' /\ RowsFit(t)' /\ NoResultYet(t)'
  PROVE  \A s \in Runs : RunInv(s)'
<1>1. Typed /\ RunInv(r)
  BY DEF PatientInv, TurnInv
<1>2. ASSUME NEW s \in Runs, s # r
      PROVE  StaysAsItWas(s) /\ (s \in resumed => s \in resumed')
  BY <1>2 DEF Elsewhere, StaysAsItWas
<1>3. \A s \in Runs : s # r => RunInv(s)'
  BY <1>2, OtherRunsAreKept
<1>4. OnceWaited(r)'
  BY <1>1, StaysOnce DEF RunInv, Elsewhere
<1>5. ResultsOfSent(r)'
  <2>1. \A n \in Positions : sent[r][n] \in Nat /\ sent'[r][n] \in Nat /\ sent'[r][n] >= sent[r][n]
    BY <1>1 DEF Elsewhere, Typed, TypeOK
  <2> QED
    BY <1>1, <2>1 DEF RunInv, ResultsOfSent, Elsewhere
<1>6. Recorded(t, r)'
  BY <1>4, <1>5 DEF Recorded, WritesRun
<1>7. RunInv(r)'
  BY <1>6, WriterKeepsRun
<1> QED
  BY <1>3, <1>7

(* A task that writes a run is alone with it. *)
LEMMA Writing ==
  ASSUME PatientInv, NEW t \in Tasks, task[t].at \in WriterLabels
  PROVE  LET r == task[t].run IN
         /\ r \in Runs /\ WritesRun(t, r) /\ RunInv(r)
         /\ StatusFits(t) /\ RowsFit(t) /\ NoResultYet(t)
         /\ \A u \in Tasks : u # t => ~WritesRun(u, r)
         /\ r \notin resumed /\ WaitsBeside(t, r) /\ Exists(r) /\ run[r].plan \in Plans
         /\ task[t].at \in NodeLabels => task[t].pos \in Positions
         /\ task[t] \in Task /\ Typed
<1>1. task[t].run \in Runs /\ Typed
  BY DEF PatientInv, TurnInv, Typed, Carries, WriterLabels, RunLabels, SettleLabels
<1>2. WritesRun(t, task[t].run) /\ RunInv(task[t].run)
  BY <1>1 DEF PatientInv, WritesRun
<1>3. task[t] \in Task /\ (task[t].at \in NodeLabels => task[t].pos \in Positions)
  BY <1>1, CarriesWhat
<1>4. StatusFits(t) /\ RowsFit(t) /\ NoResultYet(t)
  BY <1>2 DEF RunInv
<1>5. Exists(task[t].run)
  BY <1>4 DEF StatusFits, Exists, Active, At, WriterLabels, ExecutionLabels, TryLabels
<1>6. WaitsBeside(t, task[t].run) /\ task[t].run \notin resumed
      /\ \A u \in Tasks : u # t => ~WritesRun(u, task[t].run)
  BY <1>2 DEF RunInv, OneWriter, WaitsBeside
<1>7. run[task[t].run].plan \in Plans
  BY <1>2, <1>5 DEF RunInv, PlanKnown
<1> QED
  BY <1>1, <1>2, <1>3, <1>4, <1>5, <1>6, <1>7

(* What a step of the execution leaves of everything but its own run. *)
OnlyRun(r) ==
  /\ \A s \in Runs : s # r => run'[s] = run[s] /\ node'[s] = node[s]
  /\ \A s \in Runs, n \in Positions : sent'[s][n] >= sent[s][n]
  /\ run'[r].plan = run[r].plan
  /\ UNCHANGED <<provider, todo, resumed>>
  /\ faults' >= faults

(* A step of the task that writes the run. *)
LEMMA WriterGoesOn ==
  ASSUME PatientInv, Typed', NEW t \in Tasks, task[t].at \in WriterLabels,
         NEW r \in Runs, r = task[t].run, OnlyRun(r),
         \A u \in Tasks : u # t => task'[u] = task[u],
         task'[t].run = r, task'[t].at \notin ReadingLabels,
         CompletedAll(r)', Accounted(r)', WaitsBeside(t, r)',
         \A n \in Positions : Once(r, n) => Once(r, n)',
         task'[t].at \in WriterLabels => StatusFits(t)' /\ RowsFit(t)' /\ NoResultYet(t)'
  PROVE  \A s \in Runs : RunInv(s)'
<1>1. /\ \A u \in Tasks : u # t => ~WritesRun(u, r)
      /\ r \notin resumed /\ run[r].plan \in Plans
  BY Writing
<1>2. Elsewhere(r) /\ PlanKnown(r)' /\ r \notin resumed'
  BY <1>1 DEF OnlyRun, Elsewhere, PlanKnown
<1> QED
  BY <1>1, <1>2, WriterStep

(* What the task that writes run r knows of it. *)
Knows(t, r) ==
  /\ r = task[t].run /\ WritesRun(t, r) /\ RunInv(r)
  /\ StatusFits(t) /\ RowsFit(t) /\ NoResultYet(t) /\ WaitsBeside(t, r)
  /\ task[t].at \notin {"parking", "counting", "catch"} => ~Parked(r)
  /\ 1..Len(run[r].plan) \subseteq Positions
  /\ task[t].at \in NodeLabels => task[t].pos \in Positions
  /\ task[t] \in Task /\ Typed

LEMMA WriterKnows ==
  ASSUME PatientInv, NEW t \in Tasks, task[t].at \in WriterLabels
  PROVE  \E r \in Runs : Knows(t, r)
<1>1. task[t].run \in Runs /\ WritesRun(t, task[t].run) /\ WaitsBeside(t, task[t].run)
  BY Writing
<1>2. task[t].at \notin {"parking", "counting", "catch"} => ~Parked(task[t].run)
  BY <1>1 DEF WaitsBeside, Parked
<1>3. 1..Len(run[task[t].run].plan) \subseteq Positions
  BY Writing, PlanIsShort
<1> QED
  BY <1>1, <1>2, <1>3, Writing DEF Knows

(* Steps that write the row of the run. *)
LEMMA StatusStepKeepsRuns ==
  ASSUME PatientInv, Typed', NEW t \in Tasks, task[t].at \in WriterLabels,
         \/ MarkRunning(t) \/ MarkRunWaiting(t) \/ MarkRunFailed(t) \/ MarkRunCompleted(t)
         \/ FailSettledRun(t)
  PROVE  \A s \in Runs : RunInv(s)'
<1>1. PICK r \in Runs : Knows(t, r)
  BY WriterKnows
<1>2. r = task[t].run /\ Typed
  BY <1>1 DEF Knows
<1>3. /\ node' = node /\ UNCHANGED <<provider, todo, resumed, sent, faults>>
  BY DEF MarkRunning, MarkRunWaiting, MarkRunFailed, MarkRunCompleted, FailSettledRun,
         startup, world, bounds
<1>4. \E status \in RunStatuses, label \in Labels : SetRun(r, status) /\ Goto(t, label)
  BY <1>2 DEF MarkRunning, MarkRunWaiting, MarkRunFailed, MarkRunCompleted, FailSettledRun,
              RunStatuses, Labels, SettleLabels, ExecutionLabels, TryLabels
<1>5. /\ \A s \in Runs : s # r => run'[s] = run[s]
      /\ run'[r].plan = run[r].plan
      /\ \A u \in Tasks : u # t => task'[u] = task[u]
      /\ task'[t].run = r /\ task'[t].pos = task[t].pos /\ task'[t].seen = task[t].seen
  BY <1>2, <1>4, SetRunWrites, GotoBecomes
<1>6. OnlyRun(r)
  BY <1>2, <1>3, <1>5, PlansAssumption DEF OnlyRun, Typed, TypeOK
<1>7. \A n \in Positions : Once(r, n) => Once(r, n)'
  BY <1>3 DEF Once
<1>8. CASE MarkRunning(t)
  <2>0. At(t, "starting") /\ SetRun(r, "running") /\ Goto(t, "listing")
    BY <1>2, <1>8 DEF MarkRunning
  <2>1. At(t, "starting") /\ run'[r].status = "running" /\ task'[t].at = "listing"
    <3>1. run'[r].status = "running"
      BY <1>2, <2>0, SetRunWrites DEF RunStatuses
    <3>2. task'[t].at = "listing"
      BY <1>2, <2>0, GotoBecomes
    <3> QED
      BY <2>0, <3>1, <3>2
  <2>2. ~Parked(r)'
    BY <1>1, <1>3, <2>1 DEF Knows, At, Parked
  <2>3. CompletedAll(r)' /\ Accounted(r)' /\ WaitsBeside(t, r)'
    BY <2>1, <2>2 DEF CompletedAll, Accounted, WaitsBeside, Parked
  <2>4. StatusFits(t)' /\ RowsFit(t)' /\ NoResultYet(t)'
    BY <1>5, <2>1 DEF StatusFits, RowsFit, NoResultYet, At, InFlight, RecordingLabels
  <2> QED
    BY <1>2, <1>5, <1>6, <1>7, <2>1, <2>3, <2>4, WriterGoesOn DEF ReadingLabels
<1>9. CASE MarkRunWaiting(t)
  <2>0. At(t, "parking") /\ SetRun(r, "waiting") /\ Goto(t, "counting")
    BY <1>2, <1>9 DEF MarkRunWaiting
  <2>1. At(t, "parking") /\ run'[r].status = "waiting" /\ task'[t].at = "counting"
    <3>1. run'[r].status = "waiting"
      BY <1>2, <2>0, SetRunWrites DEF RunStatuses
    <3>2. task'[t].at = "counting"
      BY <1>2, <2>0, GotoBecomes
    <3> QED
      BY <2>0, <3>1, <3>2
  <2>2. node[r][task[t].pos] = "waiting" /\ task[t].pos \in Positions
    BY <1>1, <2>1 DEF Knows, RowsFit, At, NodeLabels
  <2>3. CompletedAll(r)' /\ Accounted(r)'
    BY <1>3, <2>1, <2>2 DEF CompletedAll, Accounted, Parked
  <2>4. WaitsBeside(t, r)'
    <3>1. ASSUME NEW u \in Tasks, NEW n \in Positions, node[r][n] = "waiting",
                 task'[u].at \in {"completing", "failingNode"}, task'[u].run = r, task'[u].pos = n
          PROVE  FALSE
      BY <1>1, <1>5, <2>1, <3>1 DEF Knows, WaitsBeside
    <3>2. \A n \in Positions : node[r][n] = "waiting" => n = task[t].pos
      BY <1>1 DEF Knows, WaitsBeside
    <3> QED
      BY <1>3, <1>5, <2>1, <3>1, <3>2 DEF WaitsBeside, Active
  <2>5. StatusFits(t)' /\ RowsFit(t)'
    BY <1>3, <1>5, <2>1, <2>2 DEF StatusFits, RowsFit, At, InFlight
  <2>6. NoResultYet(t)'
    BY <1>1, <1>3, <1>5, <2>1 DEF Knows, NoResultYet, At, RecordingLabels
  <2> QED
    BY <1>2, <1>5, <1>6, <1>7, <2>1, <2>3, <2>4, <2>5, <2>6, WriterGoesOn DEF ReadingLabels
<1>10. CASE MarkRunFailed(t) \/ FailSettledRun(t)
  <2>1. /\ task[t].at \in {"failing", "catchRun", "failingRun"} /\ run'[r].status = "failed"
        /\ task'[t].at \in {"counting", "returning", "settled"}
    BY <1>2, <1>10, SetRunWrites, GotoBecomes DEF MarkRunFailed, FailSettledRun, RunStatuses, At
  <2>2. ~Parked(r)'
    BY <1>1, <1>3, <2>1 DEF Knows, Parked
  <2>3. CompletedAll(r)' /\ Accounted(r)' /\ WaitsBeside(t, r)'
    BY <2>1, <2>2 DEF CompletedAll, Accounted, WaitsBeside, Parked
  <2>4. task'[t].at \in WriterLabels => task'[t].at = "counting"
    BY <2>1 DEF WriterLabels, ExecutionLabels, TryLabels
  <2>5. task'[t].at = "counting" => StatusFits(t)' /\ RowsFit(t)' /\ NoResultYet(t)'
    BY <1>5, <2>1, <2>2 DEF StatusFits, RowsFit, NoResultYet, At, InFlight, Parked
  <2> QED
    BY <1>2, <1>5, <1>6, <1>7, <2>1, <2>3, <2>4, <2>5, WriterGoesOn DEF ReadingLabels
<1>11. CASE MarkRunCompleted(t)
  <2>0. At(t, "finishing") /\ SetRun(r, "completed") /\ Goto(t, "returning")
    BY <1>2, <1>11 DEF MarkRunCompleted
  <2>1. At(t, "finishing") /\ run'[r].status = "completed" /\ task'[t].at = "returning"
    <3>1. run'[r].status = "completed"
      BY <1>2, <2>0, SetRunWrites DEF RunStatuses
    <3>2. task'[t].at = "returning"
      BY <1>2, <2>0, GotoBecomes
    <3> QED
      BY <2>0, <3>1, <3>2
  <2>2. ~Parked(r)'
    BY <1>1, <1>3, <2>1 DEF Knows, At, Parked
  <2>3. Accounted(r)' /\ WaitsBeside(t, r)'
    BY <2>1, <2>2 DEF Accounted, WaitsBeside, Parked
  <2>4. CompletedAll(r)'
    BY <1>1, <1>3, <1>5, <2>1 DEF Knows, RowsFit, CompletedAll
  <2>5. task'[t].at \notin WriterLabels
    BY <2>1 DEF WriterLabels
  <2> QED
    BY <1>2, <1>5, <1>6, <1>7, <2>1, <2>3, <2>4, <2>5, WriterGoesOn DEF ReadingLabels
<1> QED
  BY <1>8, <1>9, <1>10, <1>11

(* Steps that write the row of a node. *)
LEMMA NodeStepKeepsRuns ==
  ASSUME PatientInv, Typed', NEW t \in Tasks, task[t].at \in WriterLabels,
         \/ RunNode(t) \/ MarkNodeCompleted(t) \/ MarkNodeAccepted(t) \/ MarkNodeFailed(t)
         \/ CatchNode(t)
  PROVE  \A s \in Runs : RunInv(s)'
<1>1. PICK r \in Runs : Knows(t, r)
  BY WriterKnows
<1>2. r = task[t].run /\ Typed /\ task[t] \in Task /\ task \in [Tasks -> Task]
  BY <1>1 DEF Knows, Typed, TypeOK
<1>3. /\ run' = run /\ UNCHANGED <<provider, todo, resumed, sent, faults>>
  BY DEF RunNode, MarkNodeCompleted, MarkNodeAccepted, MarkNodeFailed, CatchNode,
         startup, world, bounds
<1>4. ASSUME \A s \in Runs : s # r => node'[s] = node[s]
      PROVE  OnlyRun(r)
  BY <1>2, <1>3, <1>4, PlansAssumption DEF OnlyRun, Typed, TypeOK
<1>5. ASSUME NEW n \in Positions, NEW status \in NodeStatuses, SetNode(r, n, status)
      PROVE  /\ OnlyRun(r) /\ node'[r][n] = status
             /\ \A m \in Positions : m # n => node'[r][m] = node[r][m]
  <2>1. /\ node'[r][n] = status /\ \A m \in Positions : m # n => node'[r][m] = node[r][m]
    BY <1>2, <1>5, SetNodeWrites
  <2>2. \A s \in Runs : s # r => node'[s] = node[s]
    BY <1>2, <1>5 DEF SetNode, Typed, TypeOK
  <2> QED
    BY <1>4, <2>1, <2>2
<1>6. CASE RunNode(t)
  <2>1. PICK n \in Positions :
          /\ IsNext(t, n) /\ task[t].seen[n] \in {"absent", "running"}
          /\ SetNode(r, n, "running")
          /\ task' = [task EXCEPT ![t].at = "dispatching", ![t].pos = n]
    BY <1>2, <1>6 DEF RunNode
  <2>2. At(t, "node") /\ task[t].pos \in Positions \cup {MaxNodes + 1}
    BY <1>2, <1>6, CarriesWhat DEF RunNode
  <2>3. /\ \A u \in Tasks : u # t => task'[u] = task[u]
        /\ task'[t].at = "dispatching" /\ task'[t].run = r
        /\ task'[t].pos = n /\ task'[t].seen = task[t].seen
    BY <1>2, <2>1 DEF Task
  <2>4. /\ OnlyRun(r) /\ node'[r][n] = "running"
        /\ \A m \in Positions : m # n => node'[r][m] = node[r][m]
    BY <1>5, <2>1 DEF NodeStatuses
  <2>5. run[r].status = "running" /\ ~Parked(r) /\ ~Parked(r)'
    BY <1>1, <2>2, <2>4 DEF Knows, StatusFits, At, Parked
  <2>6. task[t].pos \in Int /\ n \in Int /\ \A m \in Positions : m \in Int
    BY <2>2, PlansAssumption DEF Positions
  <2>7. n >= task[t].pos /\ n \in 1..Len(run[r].plan)
    BY <1>2, <2>1 DEF IsNext, Remaining, PlanOf
  <2>8. /\ \A m \in Positions : m > task[t].pos \/ m = task[t].pos => task[t].seen[m] = node[r][m]
        /\ \A m \in Positions :
             m < task[t].pos /\ m \in 1..Len(run[r].plan) => node[r][m] = "completed"
    BY <1>1, <1>2, <2>2 DEF Knows, RowsFit, At
  <2>9. ~Once(r, n)
    BY <2>1, <2>6, <2>7, <2>8 DEF Once
  <2>10. \A m \in Positions : Once(r, m) => Once(r, m)'
    BY <2>4, <2>9 DEF Once
  <2>11. ASSUME NEW m \in Positions, m < n, m \in 1..Len(run[r].plan)
         PROVE  node'[r][m] = "completed"
    <3>1. CASE m < task[t].pos
      BY <2>4, <2>6, <2>8, <2>11, <3>1
    <3>2. CASE m >= task[t].pos
      <4>1. m \notin Remaining(t)
        BY <2>1, <2>6, <2>11 DEF IsNext
      <4>2. task[t].seen[m] = "completed"
        BY <1>2, <2>11, <3>2, <4>1 DEF Remaining, PlanOf
      <4>3. m > task[t].pos \/ m = task[t].pos
        BY <2>6, <2>11, <3>2
      <4>4. node[r][m] = "completed"
        BY <2>8, <4>2, <4>3
      <4>5. m # n
        BY <2>6, <2>11
      <4> QED
        BY <2>4, <4>4, <4>5
    <3> QED
      BY <2>6, <2>11, <3>1, <3>2
  <2>12. \A m \in Positions : m > n => task[t].seen[m] = node'[r][m]
    <3>1. \A m \in Positions : m > n => m # n /\ m > task[t].pos
      BY <2>6, <2>7
    <3> QED
      BY <2>4, <2>8, <3>1
  <2>13. RowsFit(t)'
    BY <1>3, <2>3, <2>4, <2>11, <2>12 DEF RowsFit, At, InFlight
  <2>14. StatusFits(t)' /\ NoResultYet(t)'
    BY <1>3, <2>3, <2>5 DEF StatusFits, NoResultYet, At, RecordingLabels
  <2>15. CompletedAll(r)' /\ Accounted(r)' /\ WaitsBeside(t, r)'
    BY <1>3, <2>5 DEF CompletedAll, Accounted, WaitsBeside, Parked
  <2> QED
    BY <1>2, <2>3, <2>4, <2>10, <2>13, <2>14, <2>15, WriterGoesOn DEF ReadingLabels
<1>7. CASE MarkNodeCompleted(t)
  <2>1. /\ SetNode(r, task[t].pos, "completed") /\ At(t, "ready")
        /\ task' = [task EXCEPT ![t].at = "node", ![t].pos = @ + 1]
    BY <1>2, <1>7 DEF MarkNodeCompleted
  <2>2. task[t].pos \in Positions
    BY <1>1, <2>1 DEF Knows, At, NodeLabels
  <2>3. /\ \A u \in Tasks : u # t => task'[u] = task[u]
        /\ task'[t].at = "node" /\ task'[t].run = r
        /\ task'[t].pos = task[t].pos + 1 /\ task'[t].seen = task[t].seen
    BY <1>2, <2>1 DEF Task
  <2>4. /\ OnlyRun(r) /\ node'[r][task[t].pos] = "completed"
        /\ \A m \in Positions : m # task[t].pos => node'[r][m] = node[r][m]
    BY <1>5, <2>1, <2>2 DEF NodeStatuses
  <2>5. run[r].status = "running" /\ ~Parked(r)'
    BY <1>1, <2>1, <2>4 DEF Knows, StatusFits, At, Parked
  <2>6. task[t].pos \in Int /\ \A m \in Positions : m \in Int
    BY <2>2, PlansAssumption DEF Positions
  <2>7. /\ \A m \in Positions : m > task[t].pos => task[t].seen[m] = node[r][m]
        /\ \A m \in Positions :
             m < task[t].pos /\ m \in 1..Len(run[r].plan) => node[r][m] = "completed"
    BY <1>1, <1>2, <2>1 DEF Knows, RowsFit, At, InFlight
  <2>8. \A m \in Positions : Once(r, m) => Once(r, m)'
    BY <2>4 DEF Once
  <2>9. \A m \in Positions :
          m > task[t].pos + 1 \/ m = task[t].pos + 1 => task[t].seen[m] = node'[r][m]
    <3>1. \A m \in Positions :
            m > task[t].pos + 1 \/ m = task[t].pos + 1 => m # task[t].pos /\ m > task[t].pos
      BY <2>6
    <3> QED
      BY <2>4, <2>7, <3>1
  <2>10. \A m \in Positions :
           m < task[t].pos + 1 /\ m \in 1..Len(run[r].plan) => node'[r][m] = "completed"
    <3>1. \A m \in Positions : m < task[t].pos + 1 => m = task[t].pos \/ m < task[t].pos
      BY <2>6
    <3> QED
      BY <2>4, <2>7, <3>1
  <2>11. RowsFit(t)'
    BY <1>3, <2>3, <2>9, <2>10 DEF RowsFit, At, InFlight
  <2>12. StatusFits(t)' /\ NoResultYet(t)'
    BY <1>3, <2>3, <2>5 DEF StatusFits, NoResultYet, At, RecordingLabels
  <2>13. CompletedAll(r)' /\ Accounted(r)' /\ WaitsBeside(t, r)'
    BY <1>3, <2>5 DEF CompletedAll, Accounted, WaitsBeside, Parked
  <2> QED
    BY <1>2, <2>3, <2>4, <2>8, <2>11, <2>12, <2>13, WriterGoesOn DEF ReadingLabels
<1>8. CASE MarkNodeAccepted(t)
  <2>1. SetNode(r, task[t].pos, "waiting") /\ At(t, "accepted") /\ Goto(t, "parking")
    BY <1>2, <1>8 DEF MarkNodeAccepted
  <2>2. task[t].pos \in Positions
    BY <1>1, <2>1 DEF Knows, At, NodeLabels
  <2>3. /\ \A u \in Tasks : u # t => task'[u] = task[u]
        /\ task'[t].at = "parking" /\ task'[t].run = r /\ task'[t].pos = task[t].pos
    BY <1>2, <2>1, GotoBecomes
  <2>4. /\ OnlyRun(r) /\ node'[r][task[t].pos] = "waiting"
        /\ \A m \in Positions : m # task[t].pos => node'[r][m] = node[r][m]
    BY <1>5, <2>1, <2>2 DEF NodeStatuses
  <2>5. /\ run[r].status = "running" /\ ~Parked(r) /\ node[r][task[t].pos] = "running"
        /\ provider[r][task[t].pos] \notin FinalStatuses
    BY <1>1, <1>2, <2>1 DEF Knows, StatusFits, RowsFit, NoResultYet, At
  <2>6. \A m \in Positions : Once(r, m) => Once(r, m)'
    BY <2>4 DEF Once
  <2>7. WaitsBeside(t, r)'
    <3>1. \A m \in Positions : node'[r][m] = "waiting" => m = task[t].pos
      BY <2>4, <2>5 DEF Parked
    <3>2. \A u \in Tasks : task'[u].at \in {"completing", "failingNode"} => task'[u] = task[u]
      BY <2>3
    <3>3. \A u \in Tasks :
            ~(task[u].at \in {"completing", "failingNode"} /\ task[u].run = r
                /\ task[u].pos = task[t].pos)
      BY <1>1, <2>5 DEF Knows, RunInv, OnceWaited, Once, ReadingLabels
    <3> QED
      BY <1>3, <2>3, <2>5, <3>1, <3>2, <3>3 DEF WaitsBeside, Active
  <2>8. StatusFits(t)' /\ RowsFit(t)' /\ NoResultYet(t)'
    BY <1>3, <2>3, <2>4, <2>5 DEF StatusFits, RowsFit, NoResultYet, At, InFlight
  <2>9. CompletedAll(r)' /\ Accounted(r)'
    BY <1>3, <2>5 DEF CompletedAll, Accounted
  <2> QED
    BY <1>2, <2>3, <2>4, <2>6, <2>7, <2>8, <2>9, WriterGoesOn DEF ReadingLabels
<1>9. CASE MarkNodeFailed(t)
  <2>1. SetNode(r, task[t].pos, "failed") /\ At(t, "rejected") /\ Goto(t, "failing")
    BY <1>2, <1>9 DEF MarkNodeFailed
  <2>2. task[t].pos \in Positions
    BY <1>1, <2>1 DEF Knows, At, NodeLabels
  <2>3. /\ \A u \in Tasks : u # t => task'[u] = task[u]
        /\ task'[t].at = "failing" /\ task'[t].run = r
    BY <1>2, <2>1, GotoBecomes
  <2>4. /\ OnlyRun(r) /\ node'[r][task[t].pos] = "failed"
        /\ \A m \in Positions : m # task[t].pos => node'[r][m] = node[r][m]
    BY <1>5, <2>1, <2>2 DEF NodeStatuses
  <2>5. run[r].status = "running" /\ ~Parked(r)'
    BY <1>1, <2>1, <2>4 DEF Knows, StatusFits, At, Parked
  <2>6. \A m \in Positions : Once(r, m) => Once(r, m)'
    BY <2>4 DEF Once
  <2>7. StatusFits(t)' /\ RowsFit(t)' /\ NoResultYet(t)'
    BY <1>3, <2>3, <2>5 DEF StatusFits, RowsFit, NoResultYet, At, InFlight, RecordingLabels
  <2>8. CompletedAll(r)' /\ Accounted(r)' /\ WaitsBeside(t, r)'
    BY <1>3, <2>5 DEF CompletedAll, Accounted, WaitsBeside, Parked
  <2> QED
    BY <1>2, <2>3, <2>4, <2>6, <2>7, <2>8, WriterGoesOn DEF ReadingLabels
<1>10. CASE CatchNode(t)
  <2>1. At(t, "catch") /\ Goto(t, "catchRun") /\ task[t].pos \in Positions
    BY <1>1, <1>10 DEF CatchNode, Knows, At, NodeLabels
  <2>2. /\ \A u \in Tasks : u # t => task'[u] = task[u]
        /\ task'[t].at = "catchRun" /\ task'[t].run = r
    BY <1>2, <2>1, GotoBecomes
  <2>3. /\ OnlyRun(r) /\ \A m \in Positions : Once(r, m) => Once(r, m)'
        /\ \A m \in Positions : node'[r][m] = "waiting" => node[r][m] = "waiting" /\ m # task[t].pos
    <3>1. CASE node[r][task[t].pos] = "absent"
      <4>1. node' = node
        BY <1>2, <1>10, <3>1 DEF CatchNode
      <4> QED
        BY <1>4, <3>1, <4>1 DEF Once
    <3>2. CASE node[r][task[t].pos] # "absent"
      <4>1. SetNode(r, task[t].pos, "failed")
        BY <1>2, <1>10, <3>2 DEF CatchNode
      <4>2. OnlyRun(r) /\ node'[r][task[t].pos] = "failed"
            /\ \A m \in Positions : m # task[t].pos => node'[r][m] = node[r][m]
        BY <1>5, <2>1, <4>1 DEF NodeStatuses
      <4> QED
        BY <4>2 DEF Once
    <3> QED
      BY <3>1, <3>2
  <2>4. ~Parked(r)'
    BY <1>1, <1>2, <2>3 DEF Knows, WaitsBeside, Parked
  <2>5. /\ run[r].status \in {"running", "failed"} \/ (run[r].status = "waiting" /\ faults > 0)
    BY <1>1, <2>1 DEF Knows, StatusFits, At
  <2>6. StatusFits(t)' /\ RowsFit(t)' /\ NoResultYet(t)'
    BY <1>3, <2>2, <2>4, <2>5 DEF StatusFits, RowsFit, NoResultYet, At, InFlight, Parked
  <2>7. CompletedAll(r)' /\ Accounted(r)' /\ WaitsBeside(t, r)'
    BY <1>3, <2>4, <2>5 DEF CompletedAll, Accounted, WaitsBeside, Parked
  <2> QED
    BY <1>2, <2>2, <2>3, <2>6, <2>7, WriterGoesOn DEF ReadingLabels
<1> QED
  BY <1>6, <1>7, <1>8, <1>9, <1>10

(* Steps that leave the tables, or fail the run behind a failed node. *)
LEMMA MoveKeepsRuns ==
  ASSUME PatientInv, Typed', NEW t \in Tasks, task[t].at \in WriterLabels,
         \/ ListNodes(t) \/ StopAtUnfinished(t) \/ AllNodesDone(t) \/ ContextUnavailable(t)
         \/ Dispatch(t) \/ Answered(t) \/ CountRuns(t)
  PROVE  \A s \in Runs : RunInv(s)'
<1>1. PICK r \in Runs : Knows(t, r)
  BY WriterKnows
<1>2. r = task[t].run /\ Typed /\ task[t] \in Task /\ task \in [Tasks -> Task]
  BY <1>1 DEF Knows, Typed, TypeOK
<1>3. node' = node /\ UNCHANGED <<provider, todo, resumed, faults>>
  BY DEF ListNodes, StopAtUnfinished, AllNodesDone, ContextUnavailable, Dispatch, Answered,
         CountRuns, tables, startup, world, bounds
<1>4. \A n \in Positions : Once(r, n) => Once(r, n)'
  BY <1>3 DEF Once
<1>5. ASSUME run' = run, sent' = sent
      PROVE  OnlyRun(r)
  BY <1>2, <1>3, <1>5, PlansAssumption DEF OnlyRun, Typed, TypeOK
<1>6. CASE ListNodes(t)
  <2>1. /\ task' = [task EXCEPT ![t].at = "node", ![t].pos = 1, ![t].seen = node[r]]
        /\ run' = run /\ sent' = sent /\ At(t, "listing")
    BY <1>2, <1>6 DEF ListNodes, tables, world
  <2>2. /\ \A u \in Tasks : u # t => task'[u] = task[u]
        /\ task'[t].at = "node" /\ task'[t].run = r /\ task'[t].pos = 1 /\ task'[t].seen = node[r]
    BY <1>2, <2>1 DEF Task
  <2>3. run[r].status = "running" /\ ~Parked(r)'
    BY <1>1, <1>3, <2>1 DEF Knows, StatusFits, At, Parked
  <2>4. \A m \in Positions : ~(m < 1)
    BY PlansAssumption DEF Positions
  <2>5. StatusFits(t)' /\ RowsFit(t)' /\ NoResultYet(t)'
    BY <1>3, <2>1, <2>2, <2>3, <2>4
    DEF StatusFits, RowsFit, NoResultYet, At, InFlight, RecordingLabels
  <2>6. CompletedAll(r)' /\ Accounted(r)' /\ WaitsBeside(t, r)'
    BY <2>1, <2>3 DEF CompletedAll, Accounted, WaitsBeside, Parked
  <2> QED
    BY <1>2, <1>4, <1>5, <2>1, <2>2, <2>5, <2>6, WriterGoesOn DEF ReadingLabels
<1>7. CASE StopAtUnfinished(t)
  <2>1. /\ SetRun(r, "failed") \/ run' = run
        /\ sent' = sent /\ At(t, "node") /\ Goto(t, "returning")
    BY <1>2, <1>7 DEF StopAtUnfinished, world
  <2>2. /\ \A u \in Tasks : u # t => task'[u] = task[u]
        /\ task'[t].at = "returning" /\ task'[t].run = r
    BY <1>2, <2>1, GotoBecomes
  <2>3. run[r].status = "running" /\ ~Parked(r)'
    BY <1>1, <1>3, <2>1 DEF Knows, StatusFits, At, Parked
  <2>4. OnlyRun(r) /\ run'[r].status \in {"running", "failed"}
    <3>1. CASE SetRun(r, "failed")
      <4>1. /\ run'[r].status = "failed" /\ run'[r].plan = run[r].plan
            /\ \A s \in Runs : s # r => run'[s] = run[s]
        BY <1>2, <3>1, SetRunWrites DEF RunStatuses
      <4> QED
        BY <1>2, <1>3, <2>1, <4>1, PlansAssumption DEF OnlyRun, Typed, TypeOK
    <3>2. CASE run' = run
      BY <1>5, <2>1, <2>3, <3>2
    <3> QED
      BY <2>1, <3>1, <3>2
  <2>5. CompletedAll(r)' /\ Accounted(r)' /\ WaitsBeside(t, r)'
    BY <2>3, <2>4 DEF CompletedAll, Accounted, WaitsBeside, Parked
  <2>6. task'[t].at \notin WriterLabels
    BY <2>2 DEF WriterLabels
  <2> QED
    BY <1>2, <1>4, <2>2, <2>4, <2>5, <2>6, WriterGoesOn DEF ReadingLabels
<1>8. CASE AllNodesDone(t)
  <2>1. /\ run' = run /\ sent' = sent /\ At(t, "node") /\ Goto(t, "finishing")
        /\ Remaining(t) = {}
    BY <1>8 DEF AllNodesDone, tables, world
  <2>2. /\ \A u \in Tasks : u # t => task'[u] = task[u]
        /\ task'[t].at = "finishing" /\ task'[t].run = r
    BY <1>2, <2>1, GotoBecomes
  <2>3. run[r].status = "running" /\ ~Parked(r)'
    BY <1>1, <1>3, <2>1 DEF Knows, StatusFits, At, Parked
  <2>4. task[t].pos \in Int /\ \A m \in Positions : m \in Int
    BY <1>2, <2>1, CarriesWhat, PlansAssumption DEF Positions
  <2>5. ASSUME NEW m \in 1..Len(run[r].plan)
        PROVE  node[r][m] = "completed"
    <3>1. m \in Positions /\ m \in Int
      BY <1>1 DEF Knows
    <3>2. CASE m < task[t].pos
      BY <1>1, <1>2, <2>1, <3>1, <3>2 DEF Knows, RowsFit, At
    <3>3. CASE m >= task[t].pos
      <4>1. task[t].seen[m] = "completed"
        BY <1>2, <2>1, <3>3 DEF Remaining, PlanOf
      <4>2. m > task[t].pos \/ m = task[t].pos
        BY <2>4, <3>1, <3>3
      <4> QED
        BY <1>1, <1>2, <2>1, <3>1, <4>1, <4>2 DEF Knows, RowsFit, At
    <3> QED
      BY <2>4, <3>1, <3>2, <3>3
  <2>6. RowsFit(t)'
    BY <1>3, <2>1, <2>2, <2>5 DEF RowsFit, At, InFlight
  <2>7. StatusFits(t)' /\ NoResultYet(t)'
    BY <2>1, <2>2, <2>3 DEF StatusFits, NoResultYet, At, RecordingLabels
  <2>8. CompletedAll(r)' /\ Accounted(r)' /\ WaitsBeside(t, r)'
    BY <2>1, <2>3 DEF CompletedAll, Accounted, WaitsBeside, Parked
  <2> QED
    BY <1>2, <1>4, <1>5, <2>1, <2>2, <2>6, <2>7, <2>8, WriterGoesOn DEF ReadingLabels
<1>9. CASE ContextUnavailable(t)
  <2>1. run' = run /\ sent' = sent /\ At(t, "dispatching") /\ Goto(t, "catch")
    BY <1>9 DEF ContextUnavailable, tables, world
  <2>2. /\ \A u \in Tasks : u # t => task'[u] = task[u]
        /\ task'[t].at = "catch" /\ task'[t].run = r
    BY <1>2, <2>1, GotoBecomes
  <2>3. run[r].status = "running" /\ ~Parked(r)'
    BY <1>1, <1>3, <2>1 DEF Knows, StatusFits, At, Parked
  <2>4. StatusFits(t)' /\ RowsFit(t)' /\ NoResultYet(t)'
    BY <2>1, <2>2, <2>3 DEF StatusFits, RowsFit, NoResultYet, At, InFlight, Parked
  <2>5. CompletedAll(r)' /\ Accounted(r)' /\ WaitsBeside(t, r)'
    BY <2>1, <2>3 DEF CompletedAll, Accounted, WaitsBeside, Parked
  <2> QED
    BY <1>2, <1>4, <1>5, <2>1, <2>2, <2>4, <2>5, WriterGoesOn DEF ReadingLabels
<1>10. CASE Dispatch(t)
  <2>1. /\ sent' = [sent EXCEPT ![r][task[t].pos] = @ + 1] /\ run' = run
        /\ At(t, "dispatching") /\ Goto(t, "calling")
    BY <1>2, <1>10 DEF Dispatch, tables
  <2>2. /\ \A u \in Tasks : u # t => task'[u] = task[u]
        /\ task'[t].at = "calling" /\ task'[t].run = r
        /\ task'[t].pos = task[t].pos /\ task'[t].seen = task[t].seen
    BY <1>2, <2>1, GotoBecomes
  <2>3. run[r].status = "running" /\ ~Parked(r)'
    BY <1>1, <1>3, <2>1 DEF Knows, StatusFits, At, Parked
  <2>4. task[t].pos \in Positions
    BY <1>1, <2>1 DEF Knows, At, NodeLabels
  <2>5. OnlyRun(r)
    <3>1. \A s \in Runs, n \in Positions : sent'[s][n] >= sent[s][n]
      BY <1>2, <2>1, <2>4 DEF Typed, TypeOK
    <3> QED
      BY <1>2, <1>3, <2>1, <3>1, PlansAssumption DEF OnlyRun, Typed, TypeOK
  <2>6. provider[r][task[t].pos] = "none"
    <3>1. sent[r][task[t].pos] = 0
      BY <1>2, <2>1 DEF PatientInv, TurnInv, SentOnce, SeesUnsent, At, TurnLabels
    <3> QED
      BY <1>1, <2>4, <3>1 DEF Knows, RunInv, ResultsOfSent
  <2>7. RowsFit(t)'
    BY <1>1, <1>2, <1>3, <2>1, <2>2 DEF Knows, RowsFit, At, InFlight
  <2>8. StatusFits(t)' /\ NoResultYet(t)'
    BY <1>3, <2>1, <2>2, <2>3, <2>6 DEF StatusFits, NoResultYet, At, Parked, FinalStatuses
  <2>9. CompletedAll(r)' /\ Accounted(r)' /\ WaitsBeside(t, r)'
    BY <2>1, <2>3 DEF CompletedAll, Accounted, WaitsBeside, Parked
  <2> QED
    BY <1>2, <1>4, <2>2, <2>5, <2>7, <2>8, <2>9, WriterGoesOn DEF ReadingLabels
<1>11. CASE Answered(t)
  <2>1. run' = run /\ sent' = sent /\ At(t, "calling")
    BY <1>11 DEF Answered, tables, world
  <2>2. PICK label \in {"ready", "accepted", "rejected"} : Goto(t, label)
    BY <1>11 DEF Answered
  <2>3. /\ \A u \in Tasks : u # t => task'[u] = task[u]
        /\ task'[t].at = label /\ task'[t].run = r
        /\ task'[t].pos = task[t].pos /\ task'[t].seen = task[t].seen
    BY <1>2, <2>2, GotoBecomes
  <2>4. run[r].status = "running" /\ ~Parked(r)'
    BY <1>1, <1>3, <2>1 DEF Knows, StatusFits, At, Parked
  <2>5. RowsFit(t)'
    BY <1>1, <1>2, <1>3, <2>1, <2>3 DEF Knows, RowsFit, At, InFlight
  <2>6. NoResultYet(t)'
    BY <1>1, <1>2, <1>3, <2>1, <2>3, <2>4 DEF Knows, NoResultYet, At, Parked
  <2>7. StatusFits(t)'
    BY <2>1, <2>3, <2>4 DEF StatusFits, At
  <2>8. CompletedAll(r)' /\ Accounted(r)' /\ WaitsBeside(t, r)'
    BY <2>1, <2>4 DEF CompletedAll, Accounted, WaitsBeside, Parked
  <2> QED
    BY <1>2, <1>4, <1>5, <2>1, <2>3, <2>5, <2>6, <2>7, <2>8, WriterGoesOn DEF ReadingLabels
<1>12. CASE CountRuns(t)
  <2>1. run' = run /\ sent' = sent /\ At(t, "counting") /\ Goto(t, "returning")
    BY <1>12 DEF CountRuns, tables, world
  <2>2. /\ \A u \in Tasks : u # t => task'[u] = task[u]
        /\ task'[t].at = "returning" /\ task'[t].run = r
    BY <1>2, <2>1, GotoBecomes
  <2>3. task'[t].at \notin WriterLabels
    BY <2>2 DEF WriterLabels
  <2>4. WaitsBeside(t, r)'
    BY <1>1, <1>3, <2>1, <2>3 DEF Knows, WaitsBeside, WritesRun
  <2>5. run[r].status \in {"waiting", "failed"} /\ (run[r].status = "waiting" => Parked(r)')
    BY <1>1, <1>2, <1>3, <2>1 DEF Knows, StatusFits, RowsFit, At, Parked, NodeLabels
  <2>6. CompletedAll(r)' /\ Accounted(r)'
    BY <2>1, <2>5 DEF CompletedAll, Accounted
  <2> QED
    BY <1>2, <1>4, <1>5, <2>1, <2>2, <2>3, <2>4, <2>6, WriterGoesOn DEF ReadingLabels
<1> QED
  BY <1>6, <1>7, <1>8, <1>9, <1>10, <1>11, <1>12

(* A statement inside the try block fails. *)
LEMMA CatchKeepsRuns ==
  ASSUME PatientInv, Typed', NEW t \in Tasks, TryFails(t), faults' = faults + 1,
         UNCHANGED <<tables, world>>
  PROVE  \A s \in Runs : RunInv(s)'
<1>0. task[t].at \in {"node", "ready", "accepted", "parking", "rejected", "failing", "counting",
                      "finishing"}
  BY DEF TryFails, Writes, Counts, At
<1>1. task[t].at \in WriterLabels
  BY <1>0 DEF WriterLabels, ExecutionLabels, TryLabels
<1>2. PICK r \in Runs : Knows(t, r)
  BY <1>1, WriterKnows
<1>3. r = task[t].run /\ Typed /\ task[t] \in Task /\ task \in [Tasks -> Task]
  BY <1>2 DEF Knows, Typed, TypeOK
<1>4. /\ run' = run /\ node' = node /\ provider' = provider /\ sent' = sent
      /\ todo' = todo /\ resumed' = resumed
  BY DEF TryFails, tables, world, startup
<1>5. faults \in Nat /\ faults' > 0 /\ faults' >= faults
  BY <1>3, PlansAssumption DEF Typed, TypeOK
<1>6. OnlyRun(r)
  BY <1>3, <1>4, <1>5, PlansAssumption DEF OnlyRun, Typed, TypeOK
<1>7. \A n \in Positions : Once(r, n) => Once(r, n)'
  BY <1>4 DEF Once
<1>8. /\ \A u \in Tasks : u # t => task'[u] = task[u]
      /\ task'[t].at \in {"catch", "catchRun"} /\ task'[t].run = r
      /\ task[t].at \in {"parking", "counting"} => task'[t].pos = task[t].pos /\ task'[t].at = "catch"
  <2>1. CASE At(t, "node")
    <3>1. PICK n \in Positions : task' = [task EXCEPT ![t].at = "catch", ![t].pos = n]
      BY <2>1 DEF TryFails, At
    <3> QED
      BY <1>3, <2>1, <3>1 DEF Task, At
  <2>2. CASE At(t, "finishing")
    <3>1. Goto(t, "catchRun")
      BY <2>2 DEF TryFails, Writes, Counts, At
    <3> QED
      BY <1>3, <2>2, <3>1, GotoBecomes DEF At
  <2>3. CASE ~At(t, "node") /\ ~At(t, "finishing")
    <3>1. Goto(t, "catch")
      BY <2>3 DEF TryFails
    <3> QED
      BY <1>3, <3>1, GotoBecomes
  <2> QED
    BY <2>1, <2>2, <2>3
<1>9. \A n \in Positions : node[r][n] = "waiting" =>
        /\ task[t].at \in {"parking", "counting"} /\ task[t].pos = n /\ run[r].status \in Active
        /\ provider[r][n] \notin FinalStatuses
  BY <1>0, <1>2 DEF Knows, WaitsBeside, NoResultYet, RecordingLabels
<1>10. run[r].status \in {"running", "waiting", "failed"}
  BY <1>0, <1>2, <1>3 DEF Knows, StatusFits, At
<1>11. StatusFits(t)' /\ RowsFit(t)' /\ NoResultYet(t)'
  BY <1>4, <1>5, <1>8, <1>9, <1>10 DEF StatusFits, RowsFit, NoResultYet, At, InFlight
<1>12. CompletedAll(r)' /\ Accounted(r)'
  BY <1>4, <1>5, <1>10 DEF CompletedAll, Accounted
<1>13. WaitsBeside(t, r)'
  <2>1. \A u \in Tasks, n \in Positions : node[r][n] = "waiting" =>
          ~(task[u].at \in {"completing", "failingNode"} /\ task[u].run = r /\ task[u].pos = n)
    BY <1>2 DEF Knows, WaitsBeside
  <2>2. \A u \in Tasks : task'[u].at \in {"completing", "failingNode"} => task'[u] = task[u]
    BY <1>8
  <2> QED
    BY <1>4, <1>8, <1>9, <2>1, <2>2 DEF WaitsBeside
<1> QED
  BY <1>1, <1>3, <1>6, <1>7, <1>8, <1>11, <1>12, <1>13, WriterGoesOn DEF ReadingLabels

(* An execution that starts, where nobody writes the run. *)
LEMMA StartKeepsRuns ==
  ASSUME PatientInv, Typed', NEW t \in Tasks, NEW r \in Runs, Execute(t, r),
         \A u \in Tasks : u # t => ~WritesRun(u, r),
         task[t].at \in {"starting", "resuming", "failingRun"} => task[t].run = r,
         \A s \in Runs : s # r => run'[s] = run[s],
         \A s \in Runs : s # r => (s \in resumed' <=> s \in resumed),
         r \notin resumed', ~Parked(r), PlanKnown(r)', run'[r].status \in Active \cup {"accepted"},
         UNCHANGED <<node, provider, sent, todo, faults>>
  PROVE  \A s \in Runs : RunInv(s)'
<1>1. Typed
  BY DEF PatientInv, TurnInv
<1>2. Elsewhere(r)
  BY <1>1, PlansAssumption DEF Elsewhere, Typed, TypeOK
<1>3. /\ \A u \in Tasks : u # t => task'[u] = task[u]
      /\ task'[t].run = r /\ task'[t].at = "starting"
  BY <1>1, ExecuteBecomes DEF Becomes
<1>4. \A n \in Positions : Once(r, n) => Once(r, n)'
  BY DEF Once
<1>5. CompletedAll(r)' /\ Accounted(r)' /\ WaitsBeside(t, r)'
  BY <1>3 DEF CompletedAll, Accounted, WaitsBeside, Parked, Active
<1>6. StatusFits(t)' /\ RowsFit(t)' /\ NoResultYet(t)'
  BY <1>3 DEF StatusFits, RowsFit, NoResultYet, At, InFlight, RecordingLabels
<1> QED
  BY <1>2, <1>3, <1>4, <1>5, <1>6, WriterStep DEF ReadingLabels

(* Tasks that turn away from their runs leave them as they are. *)
LEMMA LettingGoKeepsRuns ==
  ASSUME PatientInv, Typed',
         \A u \in Tasks : task'[u] = task[u] \/ task'[u].at \notin WriterLabels \cup ReadingLabels,
         \A s \in Runs : StaysAsItWas(s),
         \/ faults' > 0
         \/ /\ \A s \in Runs : s \in resumed => s \in resumed'
            /\ \A u \in Tasks :
                 task[u].at \in {"starting", "resuming", "failingRun"} => task'[u] = task[u]
  PROVE  \A s \in Runs : RunInv(s)'
<1> SUFFICES ASSUME NEW s \in Runs PROVE RunInv(s)'
  OBVIOUS
<1>1. Typed /\ RunInv(s) /\ StaysAsItWas(s) /\ \A u \in Tasks : Turns(u, s)
  BY DEF PatientInv, TurnInv, Turns
<1>2. Accounted(s)'
  <2>1. CASE faults' > 0
    BY <2>1 DEF Accounted
  <2>2. CASE /\ \A u \in Runs : u \in resumed => u \in resumed'
             /\ \A u \in Tasks :
                  task[u].at \in {"starting", "resuming", "failingRun"} => task'[u] = task[u]
    BY <1>1, <2>2, StaysAccounted DEF RunInv
  <2> QED
    BY <2>1, <2>2
<1> QED
  BY <1>1, <1>2, RunIsKept

(* A task turns to a node that has waited, or finds its result while nobody   *)
(* writes the run.                                                             *)
LEMMA ReadingKeepsRuns ==
  ASSUME PatientInv, Typed', NEW t \in Tasks, NEW r \in Runs, NEW n \in Positions,
         \A u \in Tasks : u # t => task'[u] = task[u],
         task[t].at \notin {"starting", "resuming", "failingRun"},
         task'[t].at \in ReadingLabels, task'[t].run = r, task'[t].pos = n, Once(r, n),
         task'[t].at # "reading" /\ node[r][n] = "waiting" =>
           \A u \in Tasks : u # t => ~WritesRun(u, r),
         UNCHANGED <<run, node, provider, sent, resumed, faults>>, todo' \subseteq todo
  PROVE  \A s \in Runs : RunInv(s)'
<1>1. Typed /\ RunInv(r)
  BY DEF PatientInv, TurnInv
<1>2. \A s \in Runs : StaysAsItWas(s)
  BY <1>1, PlansAssumption DEF StaysAsItWas, Typed, TypeOK
<1>3. \A s \in Runs : s # r => RunInv(s)'
  BY <1>2, OtherRunsAreKept
<1>4. ReadingLabels \cap WriterLabels = {}
  BY DEF ReadingLabels, WriterLabels, ExecutionLabels, TryLabels
<1>5. \A u \in Tasks : WritesRun(u, r)' => u # t /\ task'[u] = task[u] /\ WritesRun(u, r)
  BY <1>4 DEF WritesRun
<1>6. OneWriter(r)'
  <2>1. \A u, v \in Tasks : WritesRun(u, r)' /\ WritesRun(v, r)' => u = v
    BY <1>1, <1>5 DEF RunInv, OneWriter
  <2>2. r \in resumed' =>
          ~Parked(r)' /\ run'[r].status \in Active /\ \A u \in Tasks : ~WritesRun(u, r)'
    BY <1>1, <1>5 DEF RunInv, OneWriter, Parked
  <2>3. ASSUME NEW m \in Positions, node'[r][m] = "waiting"
        PROVE  /\ run'[r].status \in Active
               /\ \A u \in Tasks : WritesRun(u, r)' =>
                    task'[u].at \in {"parking", "counting", "catch"} /\ task'[u].pos = m
    BY <1>1, <1>5, <2>3 DEF RunInv, OneWriter
  <2>4. ASSUME NEW m \in Positions, node'[r][m] = "waiting", NEW u \in Tasks, NEW v \in Tasks,
               task'[u].at \in {"completing", "failingNode"}, task'[u].run = r, task'[u].pos = m,
               WritesRun(v, r)'
        PROVE  FALSE
    <3>1. v # t /\ WritesRun(v, r)
      BY <1>5, <2>4
    <3>2. CASE u = t
      BY <2>4, <3>1, <3>2
    <3>3. CASE u # t
      BY <1>1, <2>4, <3>1, <3>3 DEF RunInv, OneWriter
    <3> QED
      BY <3>2, <3>3
  <2> QED
    BY <2>1, <2>2, <2>3, <2>4 DEF OneWriter
<1>7. \A u \in Tasks : WritesRun(u, r)' => StatusFits(u)' /\ RowsFit(u)' /\ NoResultYet(u)'
  <2> SUFFICES ASSUME NEW u \in Tasks, WritesRun(u, r)'
               PROVE  StatusFits(u)' /\ RowsFit(u)' /\ NoResultYet(u)'
    OBVIOUS
  <2>1. task'[u] = task[u] /\ StatusFits(u) /\ RowsFit(u) /\ NoResultYet(u)
    BY <1>1, <1>5 DEF RunInv
  <2>2. StatusFits(u)'
    BY <2>1 DEF StatusFits, At
  <2>3. RowsFit(u)'
    BY <2>1 DEF RowsFit, At
  <2>4. NoResultYet(u)'
    BY <2>1 DEF NoResultYet
  <2> QED
    BY <2>2, <2>3, <2>4
<1>8. OnceWaited(r)'
  <2>1. \A m \in Positions : Once(r, m) <=> Once(r, m)'
    BY DEF Once
  <2>2. \A m \in Positions : <<r, m>> \in todo' => Once(r, m)'
    BY <1>1, <2>1 DEF RunInv, OnceWaited
  <2>3. ASSUME NEW u \in Tasks, task'[u].at \in ReadingLabels, task'[u].run = r
        PROVE  Once(r, task[u].pos)' \/ u = t
    <3>1. CASE u # t
      BY <1>1, <2>3, <3>1 DEF RunInv, OnceWaited, Once
    <3> QED
      BY <3>1
  <2>4. Once(r, n)'
    BY <2>1
  <2> QED
    BY <2>2, <2>3, <2>4 DEF OnceWaited, Once
<1>9. ResultsOfSent(r)' /\ CompletedAll(r)' /\ PlanKnown(r)'
  BY <1>1 DEF RunInv, ResultsOfSent, CompletedAll, PlanKnown, Exists
<1>10. Accounted(r)'
  BY <1>1, <1>2, StaysAccounted DEF RunInv
<1> QED
  BY <1>3, <1>6, <1>7, <1>8, <1>9, <1>10 DEF RunInv

(* A waiting node is settled: the settler alone writes the run from then on. *)
LEMMA SettleKeepsRuns ==
  ASSUME PatientInv, Typed', NEW t \in Tasks, CompleteWaitingNode(t) \/ FailWaitingNode(t)
  PROVE  \A s \in Runs : RunInv(s)'
<1>1. Typed /\ task[t].at \in {"completing", "failingNode"}
  BY DEF PatientInv, TurnInv, CompleteWaitingNode, FailWaitingNode, SettleWaiting, At
<1>2. PICK r \in Runs : r = task[t].run /\ task[t].pos \in Positions /\ task[t] \in Task
  BY <1>1, CarriesWhat DEF RunLabels, SettleLabels, NodeLabels
<1>3. PICK n \in Positions : n = task[t].pos
  BY <1>2
<1>4. /\ UNCHANGED <<run, provider, sent, todo, resumed, faults>>
      /\ faults \in Nat /\ \A s \in Runs, m \in Positions : sent[s][m] \in Nat
  BY <1>1, PlansAssumption DEF CompleteWaitingNode, FailWaitingNode, SettleWaiting, startup, world,
                               bounds, Typed, TypeOK
<1>5. CASE node[r][n] = "waiting"
  <2>1. PICK status \in {"completed", "failed"}, label \in {"resuming", "failingRun"} :
          SetNode(r, n, status) /\ Goto(t, label)
    BY <1>2, <1>3, <1>5 DEF CompleteWaitingNode, FailWaitingNode, SettleWaiting, StillWaiting
  <2>2. /\ \A u \in Tasks : u # t => task'[u] = task[u]
        /\ task'[t].at = label /\ task'[t].run = r
    BY <1>1, <1>2, <2>1, GotoBecomes
  <2>3. /\ node'[r][n] = status /\ \A m \in Positions : m # n => node'[r][m] = node[r][m]
    BY <1>1, <2>1, SetNodeWrites DEF NodeStatuses
  <2>4. \A s \in Runs : s # r => node'[s] = node[s]
    BY <1>1, <2>1 DEF SetNode, Typed, TypeOK
  <2>5. Elsewhere(r)
    BY <1>4, <2>4 DEF Elsewhere
  <2>6. RunInv(r) /\ OneTurn
    BY DEF PatientInv, TurnInv
  <2>7. run[r].status \in Active /\ \A u \in Tasks : ~WritesRun(u, r)
    BY <1>1, <1>2, <1>3, <1>5, <2>6 DEF RunInv, OneWriter
  <2>8. ~Parked(r)'
    BY <1>5, <2>3, <2>6 DEF OneTurn, Parked
  <2>9. \A m \in Positions : Once(r, m) => Once(r, m)'
    BY <2>3 DEF Once
  <2>10. r \notin resumed
    BY <1>5, <2>6 DEF RunInv, OneWriter, Parked
  <2>11. PlanKnown(r)' /\ CompletedAll(r)' /\ WaitsBeside(t, r)'
    BY <1>4, <2>6, <2>7, <2>8
    DEF RunInv, PlanKnown, Exists, CompletedAll, WaitsBeside, Parked, Active
  <2>12. Accounted(r)'
    BY <2>2 DEF Accounted
  <2>13. StatusFits(t)' /\ RowsFit(t)' /\ NoResultYet(t)'
    BY <1>4, <2>2, <2>7 DEF StatusFits, RowsFit, NoResultYet, At, InFlight, RecordingLabels
  <2> QED
    BY <1>1, <1>4, <2>2, <2>5, <2>7, <2>9, <2>10, <2>11, <2>12, <2>13, WriterStep
    DEF ReadingLabels
<1>6. CASE node[r][n] # "waiting"
  <2>1. AfterSettling(t) /\ node' = node
    BY <1>2, <1>3, <1>6 DEF CompleteWaitingNode, FailWaitingNode, SettleWaiting, StillWaiting
  <2>2. \A u \in Tasks : u # t => task'[u] = task[u]
    BY <1>1, <2>1, AfterSettlingBecomes DEF Becomes
  <2>3. task'[t].at \in {"settling", "idle"}
    <3>1. PICK label \in {"settling", "idle"} : Becomes(t, IdleTask(label))
      BY <1>1, <2>1, AfterSettlingBecomes
    <3> QED
      BY <3>1, IdleFits DEF Idle, Becomes
  <2>4. \A s \in Runs : StaysAsItWas(s)
    BY <1>4, <2>1 DEF StaysAsItWas
  <2>5. task'[t].at \notin WriterLabels \cup ReadingLabels
    BY <2>3 DEF WriterLabels, ReadingLabels, ExecutionLabels, TryLabels
  <2> QED
    BY <1>1, <1>4, <2>2, <2>4, <2>5, LettingGoKeepsRuns
<1> QED
  BY <1>5, <1>6

(* The settled run is executed again, or put on the list of the startup. *)
LEMMA ResumeKeepsRuns ==
  ASSUME PatientInv, Typed', NEW t \in Tasks, ResumeRun(t)
  PROVE  \A s \in Runs : RunInv(s)'
<1>1. task[t].at = "resuming" /\ task[t].at \in WriterLabels
  BY DEF ResumeRun, At, WriterLabels
<1>2. PICK r \in Runs : Knows(t, r)
  BY <1>1, WriterKnows
<1>3. r = task[t].run /\ Typed /\ RunInv(r)
  BY <1>2 DEF Knows
<1>4. run[r].status \in Active /\ ~Parked(r) /\ WritesRun(t, r) /\ WaitsBeside(t, r)
  BY <1>1, <1>2 DEF Knows, StatusFits, At
<1>5. r \notin resumed /\ \A u \in Tasks : u # t => ~WritesRun(u, r)
  BY <1>1, <1>3, Writing
<1>6. ~Over(r)
  BY <1>4 DEF Over, FinalStatuses, Active
<1>7. UNCHANGED <<run, node, provider, sent, todo, faults>>
  BY DEF ResumeRun, tables, world, bounds
<1>8. faults \in Nat /\ \A s \in Runs, m \in Positions : sent[s][m] \in Nat
  BY <1>3, PlansAssumption DEF Typed, TypeOK
<1>9. CASE t # "startup"
  <2>1. Execute(t, r) /\ resumed' = resumed
    BY <1>3, <1>6, <1>9 DEF ResumeRun
  <2>2. PlanKnown(r)'
    BY <1>3, <1>7 DEF RunInv, PlanKnown, Exists
  <2> QED
    BY <1>3, <1>4, <1>5, <1>7, <2>1, <2>2, StartKeepsRuns
<1>10. CASE t = "startup"
  <2>1. AfterSettling(t) /\ resumed' = resumed \cup {r}
    BY <1>3, <1>6, <1>10 DEF ResumeRun
  <2>2. \A u \in Tasks : u # t => task'[u] = task[u]
    BY <1>3, <2>1, AfterSettlingBecomes DEF Becomes
  <2>3. task'[t].at \in {"settling", "idle"}
    <3>1. PICK label \in {"settling", "idle"} : Becomes(t, IdleTask(label))
      BY <1>3, <2>1, AfterSettlingBecomes
    <3> QED
      BY <3>1, IdleFits DEF Idle, Becomes
  <2>4. task'[t].at \notin WriterLabels \cup ReadingLabels
    BY <2>3 DEF WriterLabels, ReadingLabels, ExecutionLabels, TryLabels
  <2>5. \A s \in Runs : s # r => StaysAsItWas(s) /\ (s \in resumed => s \in resumed')
    BY <1>7, <1>8, <2>1 DEF StaysAsItWas
  <2>6. \A s \in Runs : s # r => RunInv(s)'
    BY <1>3, <2>2, <2>4, <2>5, OtherRunsAreKept
  <2>7. \A u \in Tasks : ~WritesRun(u, r)'
    BY <1>5, <2>2, <2>4 DEF WritesRun
  <2>8. OneWriter(r)'
    BY <1>4, <1>7, <2>7 DEF OneWriter, Parked
  <2>9. OnceWaited(r)'
    BY <1>3, <1>7, <2>2, <2>4, StaysOnce DEF RunInv, Once
  <2>10. ResultsOfSent(r)' /\ CompletedAll(r)' /\ PlanKnown(r)'
    BY <1>3, <1>7 DEF RunInv, ResultsOfSent, CompletedAll, PlanKnown, Exists
  <2>11. Accounted(r)'
    BY <2>1 DEF Accounted
  <2> QED
    BY <2>6, <2>7, <2>8, <2>9, <2>10, <2>11 DEF RunInv
<1> QED
  BY <1>9, <1>10

(* The startup takes a run of its list. *)
LEMMA ListedRunKeepsRuns ==
  ASSUME PatientInv, Typed', ExecuteNext
  PROVE  \A s \in Runs : RunInv(s)'
<1>1. Typed /\ resumed \subseteq Runs
  BY DEF PatientInv, TurnInv, Typed, TypeOK
<1>2. PICK r \in resumed : resumed' = resumed \ {r} /\ Execute("startup", r)
  BY DEF ExecuteNext
<1>3. /\ UNCHANGED <<run, node, provider, sent, todo, faults>>
      /\ "startup" \in Tasks /\ task["startup"].at = "executing"
  BY DEF ExecuteNext, tables, world, bounds, At, Tasks
<1>4. r \in Runs /\ RunInv(r)
  BY <1>1, <1>2 DEF PatientInv
<1>5. /\ ~Parked(r) /\ run[r].status \in Active /\ \A u \in Tasks : ~WritesRun(u, r)
  BY <1>2, <1>4 DEF RunInv, OneWriter
<1>6. PlanKnown(r)'
  BY <1>3, <1>4 DEF RunInv, PlanKnown, Exists
<1> QED
  BY <1>2, <1>3, <1>4, <1>5, <1>6, StartKeepsRuns

(* A call creates its run, or finds it. *)
LEMMA CreateKeepsRuns ==
  ASSUME PatientInv, Typed', NEW t \in Calls, CreateRun(t)
  PROVE  \A s \in Runs : RunInv(s)'
<1>1. Typed /\ t \in Tasks /\ task[t].at = "new"
  BY DEF PatientInv, TurnInv, CreateRun, At, Tasks
<1>2. PICK r \in Runs : r = RunOf[t]
  BY TasksAssumption
<1>3. UNCHANGED <<node, provider, sent, todo, resumed, faults, definition>>
  BY DEF CreateRun, startup, world, bounds
<1>4. faults \in Nat /\ \A s \in Runs, m \in Positions : sent[s][m] \in Nat
  BY <1>1, PlansAssumption DEF Typed, TypeOK
<1>5. CASE ~Exists(r) /\ definition[NameOf[r]] # NoPlan /\ Execute(t, r)
           /\ run' = [run EXCEPT ![r] = [status |-> "accepted", plan |-> definition[NameOf[r]]]]
  <2>1. /\ run'[r].status = "accepted" /\ run'[r].plan \in Plans
        /\ \A s \in Runs : s # r => run'[s] = run[s]
    BY <1>1, <1>5, TasksAssumption DEF Typed, TypeOK
  <2>2. RunInv(r) /\ OneTurn
    BY DEF PatientInv, TurnInv
  <2>3. \A u \in Tasks : ~WritesRun(u, r)
    <3> SUFFICES ASSUME NEW u \in Tasks, WritesRun(u, r) PROVE FALSE
      OBVIOUS
    <3>1. task[u].at \in WriterLabels /\ task[u].run = r
      BY DEF WritesRun
    <3> QED
      BY <1>5, <3>1, Writing
  <2>4. ~Parked(r) /\ r \notin resumed
    BY <1>5, <2>2 DEF OneTurn, Parked
  <2>5. PlanKnown(r)'
    BY <2>1 DEF PlanKnown
  <2> QED
    BY <1>1, <1>3, <1>5, <2>1, <2>3, <2>4, <2>5, StartKeepsRuns
<1>6. CASE run' = run /\ (AfterExecution(t, TRUE) \/ AfterExecution(t, FALSE))
  <2>1. PICK label \in {"answered", "executing", "idle"} : Becomes(t, IdleTask(label))
    BY <1>1, <1>6, AfterExecutionBecomes
  <2>2. task'[t].at \notin WriterLabels \cup ReadingLabels
    BY <2>1, IdleFits DEF Becomes, Idle, WriterLabels, ReadingLabels, ExecutionLabels, TryLabels
  <2>3. \A s \in Runs : StaysAsItWas(s)
    BY <1>3, <1>4, <1>6 DEF StaysAsItWas
  <2> QED
    BY <1>1, <1>3, <2>1, <2>2, <2>3, LettingGoKeepsRuns DEF Becomes
<1> QED
  BY <1>2, <1>5, <1>6 DEF CreateRun

(* A node is taken up for settling, and its result read. *)
LEMMA ReadingStartsKeepsRuns ==
  ASSUME PatientInv, Typed', NEW t \in Tasks,
         \/ t \in Subscriptions /\ TakeEvent(t)
         \/ t = "startup" /\ SettleNext
  PROVE  \A s \in Runs : RunInv(s)'
<1>1. Typed
  BY DEF PatientInv, TurnInv
<1>2. /\ UNCHANGED <<run, node, provider, sent, resumed, faults>> /\ todo' \subseteq todo
      /\ task[t].at \in {"idle", "settling"}
  BY DEF TakeEvent, SettleNext, tables, startup, bounds, world, At
<1>3. \/ task' = task
      \/ \E r \in Runs, n \in Positions :
           task' = [task EXCEPT ![t] = ReadingTask(r, n)] /\ Once(r, n)
  <2>1. CASE TakeEvent(t)
    <3>1. PICK e \in events :
            \/ task' = task
            \/ /\ node[e.run][e.pos] = "waiting"
               /\ task' = [task EXCEPT ![t] = ReadingTask(e.run, e.pos)]
      BY <2>1 DEF TakeEvent, ReadingTask
    <3>2. e.run \in Runs /\ e.pos \in Positions
      BY <1>1 DEF Typed, TypeOK, Event
    <3> QED
      BY <3>1, <3>2 DEF Once
  <2>2. CASE t = "startup" /\ SettleNext
    <3>1. PICK w \in todo : task' = [task EXCEPT ![t] = ReadingTask(w[1], w[2])]
      BY <2>2 DEF SettleNext, ReadingTask
    <3>2. w[1] \in Runs /\ w[2] \in Positions /\ w = <<w[1], w[2]>>
      BY <1>1 DEF Typed, TypeOK
    <3>3. Once(w[1], w[2])
      BY <3>2 DEF PatientInv, RunInv, OnceWaited
    <3> QED
      BY <3>1, <3>2, <3>3
  <2> QED
    BY <2>1, <2>2
<1>4. CASE task' = task
  <2>1. \A s \in Runs : StaysAsItWas(s)
    BY <1>1, <1>2, PlansAssumption DEF StaysAsItWas, Typed, TypeOK
  <2> QED
    BY <1>2, <1>4, <2>1, LettingGoKeepsRuns
<1>5. ASSUME NEW r \in Runs, NEW n \in Positions,
             task' = [task EXCEPT ![t] = ReadingTask(r, n)], Once(r, n)
      PROVE  \A s \in Runs : RunInv(s)'
  <2>1. /\ Becomes(t, ReadingTask(r, n))
        /\ task'[t].at = "reading" /\ task'[t].run = r /\ task'[t].pos = n
    BY <1>1, <1>5, ReadingBecomes
  <2>2. \A u \in Tasks : u # t => task'[u] = task[u]
    BY <2>1 DEF Becomes
  <2>3. task'[t].at \in ReadingLabels
    BY <2>1 DEF ReadingLabels
  <2> QED
    BY <1>2, <1>5, <2>1, <2>2, <2>3, ReadingKeepsRuns
<1> QED
  BY <1>3, <1>4, <1>5

LEMMA ReadingGoesOnKeepsRuns ==
  ASSUME PatientInv, Typed', NEW t \in Tasks, ReadResult(t) \/ (ReadFails(t) /\ Patient)
  PROVE  \A s \in Runs : RunInv(s)'
<1>1. Typed /\ task[t].at = "reading"
  BY DEF PatientInv, TurnInv, ReadResult, ReadFails, At
<1>2. PICK r \in Runs : r = task[t].run /\ RunInv(r)
  BY <1>1, CarriesWhat DEF RunLabels, SettleLabels, PatientInv
<1>3. PICK n \in Positions : n = task[t].pos
  BY <1>1, CarriesWhat DEF NodeLabels
<1>4. UNCHANGED <<run, node, provider, sent, todo, resumed, faults>>
  BY DEF ReadResult, ReadFails, tables, startup, bounds, world
<1>5. Once(r, n)
  BY <1>1, <1>2, <1>3 DEF RunInv, OnceWaited, ReadingLabels
<1>6. CASE AfterSettling(t)
  <2>1. PICK label \in {"settling", "idle"} : Becomes(t, IdleTask(label))
    BY <1>1, <1>6, AfterSettlingBecomes
  <2>2. task'[t].at \notin WriterLabels \cup ReadingLabels
    BY <2>1, IdleFits DEF Becomes, Idle, WriterLabels, ReadingLabels, ExecutionLabels, TryLabels
  <2>3. \A s \in Runs : StaysAsItWas(s)
    BY <1>1, <1>4, PlansAssumption DEF StaysAsItWas, Typed, TypeOK
  <2> QED
    BY <1>1, <1>4, <2>1, <2>2, <2>3, LettingGoKeepsRuns DEF Becomes
<1>7. ASSUME NEW label \in {"completing", "failingNode"}, Goto(t, label),
             \/ provider[r][n] \in FinalStatuses
             \/ Patient /\ label = "failingNode"
      PROVE  \A s \in Runs : RunInv(s)'
  <2>1. /\ \A u \in Tasks : u # t => task'[u] = task[u]
        /\ task'[t].at = label /\ task'[t].run = r /\ task'[t].pos = n
    BY <1>1, <1>2, <1>3, <1>7, GotoBecomes
  <2>2. ASSUME node[r][n] = "waiting", NEW u \in Tasks, WritesRun(u, r)
        PROVE  FALSE
    <3>1. task[u].at \in {"parking", "counting", "catch"} /\ task[u].pos = n /\ task[u].run = r
      BY <1>2, <2>2 DEF RunInv, OneWriter, WritesRun
    <3>2. provider[r][n] \notin FinalStatuses
      BY <1>2, <2>2, <3>1 DEF RunInv, NoResultYet, RecordingLabels
    <3>3. Recording(r, n)
      BY <3>1 DEF Recording
    <3> QED
      BY <1>1, <1>2, <1>3, <1>7, <2>1, <3>2, <3>3 DEF Patient, At
  <2>3. task'[t].at \in ReadingLabels
    BY <2>1 DEF ReadingLabels
  <2> QED
    BY <1>1, <1>4, <1>5, <2>1, <2>2, <2>3, ReadingKeepsRuns
<1>8. \/ AfterSettling(t)
      \/ provider[r][n] = "completed" /\ Goto(t, "completing")
      \/ provider[r][n] = "failed" /\ Goto(t, "failingNode")
      \/ Patient /\ Goto(t, "failingNode")
  BY <1>2, <1>3 DEF ReadResult, ReadFails
<1> QED
  BY <1>6, <1>7, <1>8 DEF FinalStatuses

(* The provider takes up what was sent, and finishes what nobody records. *)
LEMMA ProviderKeepsRuns ==
  ASSUME PatientInv, Typed', LlmAccepts \/ (LlmFinishes /\ Patient)
  PROVE  \A s \in Runs : RunInv(s)'
<1>1. Typed
  BY DEF PatientInv, TurnInv
<1>2. UNCHANGED <<run, node, task, sent, todo, resumed, faults>>
  BY DEF LlmAccepts, LlmFinishes, tables, startup, bounds
<1>3. \A r \in Runs, n \in Positions : provider'[r][n] # "none" => sent[r][n] > 0
  <2>1. CASE LlmAccepts
    <3>1. PICK r \in Runs, n \in Positions :
            sent[r][n] > 0 /\ provider' = [provider EXCEPT ![r][n] = "active"]
      BY <2>1 DEF LlmAccepts
    <3>2. \A s \in Runs, m \in Positions : s # r \/ m # n => provider'[s][m] = provider[s][m]
      BY <1>1, <3>1 DEF Typed, TypeOK
    <3> QED
      BY <3>1, <3>2 DEF PatientInv, RunInv, ResultsOfSent
  <2>2. CASE LlmFinishes
    <3>1. PICK r \in Runs, n \in Positions, kind \in Subscriptions :
            provider[r][n] = "active" /\ provider' = [provider EXCEPT ![r][n] = kind]
      BY <2>2 DEF LlmFinishes
    <3>2. \A s \in Runs, m \in Positions : s # r \/ m # n => provider'[s][m] = provider[s][m]
      BY <1>1, <3>1 DEF Typed, TypeOK
    <3> QED
      BY <3>1, <3>2 DEF PatientInv, RunInv, ResultsOfSent
  <2> QED
    BY <2>1, <2>2
<1>4. \A r \in Runs, n \in Positions :
        Recording(r, n) /\ provider[r][n] \notin FinalStatuses => provider'[r][n] \notin FinalStatuses
  <2>1. CASE LlmAccepts
    <3>1. PICK r \in Runs, n \in Positions : provider' = [provider EXCEPT ![r][n] = "active"]
      BY <2>1 DEF LlmAccepts
    <3>2. /\ \A s \in Runs, m \in Positions : s # r \/ m # n => provider'[s][m] = provider[s][m]
          /\ provider'[r][n] = "active"
      BY <1>1, <3>1 DEF Typed, TypeOK
    <3> QED
      BY <3>2 DEF FinalStatuses
  <2>2. CASE LlmFinishes /\ Patient
    <3>1. PICK r \in Runs, n \in Positions, kind \in Subscriptions :
            provider[r][n] = "active" /\ provider' = [provider EXCEPT ![r][n] = kind]
      BY <2>2 DEF LlmFinishes
    <3>2. \A s \in Runs, m \in Positions : s # r \/ m # n => provider'[s][m] = provider[s][m]
      BY <1>1, <3>1 DEF Typed, TypeOK
    <3>3. Recording(r, n) => provider'[r][n] = "active"
      BY <2>2, <3>1 DEF Patient
    <3> QED
      BY <3>2, <3>3 DEF FinalStatuses
  <2> QED
    BY <2>1, <2>2
<1> SUFFICES ASSUME NEW s \in Runs PROVE RunInv(s)'
  OBVIOUS
<1>5. RunInv(s)
  BY DEF PatientInv
<1>6. OneWriter(s)'
  BY <1>2, <1>5 DEF RunInv, OneWriter, WritesRun, Parked
<1>7. ASSUME NEW t \in Tasks, WritesRun(t, s)'
      PROVE  StatusFits(t)' /\ RowsFit(t)' /\ NoResultYet(t)'
  <2>1. WritesRun(t, s) /\ task[t].run = s
    BY <1>2, <1>7 DEF WritesRun
  <2>2. StatusFits(t) /\ RowsFit(t) /\ NoResultYet(t)
    BY <1>5, <2>1 DEF RunInv
  <2>3. StatusFits(t)' /\ RowsFit(t)'
    BY <1>2, <2>2 DEF StatusFits, RowsFit, At
  <2>4. task[t].at \in RecordingLabels /\ task[t].pos \in Positions => Recording(s, task[t].pos)
    BY <2>1 DEF Recording, RecordingLabels
  <2>5. task[t].at \in {"calling", "accepted"} => task[t].pos \in Positions
    BY <1>1, CarriesWhat DEF NodeLabels
  <2>6. NoResultYet(t)'
    BY <1>2, <1>4, <2>1, <2>2, <2>4, <2>5 DEF NoResultYet, RecordingLabels
  <2> QED
    BY <2>3, <2>6
<1>8. OnceWaited(s)' /\ CompletedAll(s)' /\ PlanKnown(s)' /\ Accounted(s)'
  BY <1>2, <1>5 DEF RunInv, OnceWaited, Once, CompletedAll, PlanKnown, Exists, Accounted, Parked
<1>9. ResultsOfSent(s)'
  BY <1>2, <1>3 DEF ResultsOfSent
<1> QED
  BY <1>6, <1>7, <1>8, <1>9 DEF RunInv

(* Nothing but the start moves a task while the process is down. *)
LEMMA StepRest == Typed /\ AtRestWhenDown /\ [Next]_vars => AtRestWhenDown'
<1> SUFFICES ASSUME Typed, AtRestWhenDown, [Next]_vars, ~up' PROVE AtRestWhenDown'
  BY DEF AtRestWhenDown
<1>1. CASE Crash
  <2>1. \A t \in Tasks : task'[t].at \in RestLabels
    BY <1>1, IdleFits DEF Crash, Idle, RestLabels
  <2> QED
    BY <2>1 DEF AtRestWhenDown
<1>2. CASE UNCHANGED vars
  BY <1>2 DEF vars, AtRestWhenDown
<1>3. CASE up /\ Next /\ ~Crash
  <2>1. up' = up \/ up'
    <3>1. ASSUME NEW t \in Tasks, TaskStep(t) PROVE up' = up
      BY <3>1 DEF TaskStep, ExecutionStep, SettleStep, MarkRunning, ListNodes, RunNode,
        StopAtUnfinished, AllNodesDone, ContextUnavailable, Dispatch, Answered, MarkNodeCompleted,
        MarkNodeAccepted, MarkRunWaiting, MarkNodeFailed, MarkRunFailed, MarkRunCompleted,
        CatchNode, CountRuns, Return, ReadResult, CompleteWaitingNode, FailWaitingNode,
        SettleWaiting, FailSettledRun, CountSettled, ResumeRun
    <3>2. ASSUME NEW t \in Tasks, ReadFails(t) \/ StatementFails(t) PROVE up' = up
      BY <3>2 DEF ReadFails, StatementFails
    <3> QED
      BY <1>3, <3>1, <3>2 DEF Next, StartupStep, CreateRun, TakeEvent, ListWaiting, SettleNext,
        AllSettled, ExecuteNext, AllExecuted, Start, LlmAccepts, LlmFinishes, LoseEvent,
        ChangeDefinition
  <2> QED
    BY <1>3, <2>1
<1>4. CASE ~up /\ Next
  <2>1. \A t \in Tasks : task[t].at \in RestLabels
    BY <1>4 DEF AtRestWhenDown
  <2>2. \A t \in Tasks : ~ExecutionStep(t)
    <3>1. \A t \in Tasks :
            ~(\/ MarkRunning(t) \/ ListNodes(t) \/ RunNode(t) \/ StopAtUnfinished(t)
              \/ AllNodesDone(t) \/ ContextUnavailable(t) \/ Dispatch(t) \/ Answered(t))
      BY <2>1 DEF MarkRunning, ListNodes, RunNode, StopAtUnfinished, AllNodesDone,
        ContextUnavailable, Dispatch, Answered, At, RestLabels
    <3>2. \A t \in Tasks :
            ~(\/ MarkNodeCompleted(t) \/ MarkNodeAccepted(t) \/ MarkRunWaiting(t)
              \/ MarkNodeFailed(t) \/ MarkRunFailed(t) \/ MarkRunCompleted(t) \/ CatchNode(t)
              \/ CountRuns(t) \/ Return(t))
      BY <2>1 DEF MarkNodeCompleted, MarkNodeAccepted, MarkRunWaiting, MarkNodeFailed,
        MarkRunFailed, MarkRunCompleted, CatchNode, CountRuns, Return, At, RestLabels
    <3> QED
      BY <3>1, <3>2 DEF ExecutionStep
  <2>3. \A t \in Tasks : ~SettleStep(t) /\ ~ReadFails(t)
    BY <2>1 DEF SettleStep, ReadResult, CompleteWaitingNode, FailWaitingNode, SettleWaiting,
      FailSettledRun, CountSettled, ResumeRun, ReadFails, At, RestLabels
  <2>4. \A t \in Tasks : ~StatementFails(t)
    <3>1. \A t \in Tasks : ~TryFails(t)
      BY <2>1 DEF TryFails, Writes, Counts, At, RestLabels
    <3>2. \A t \in Tasks : ~ExecutionFails(t) /\ ~SettlingFails(t) /\ ~CallFails(t)
      BY <1>4, <2>1 DEF ExecutionFails, SettlingFails, CallFails, Counts, At, RestLabels
    <3> QED
      BY <3>1, <3>2 DEF StatementFails
  <2>5. ~StartupStep
    BY <2>1 DEF StartupStep, ListWaiting, SettleNext, AllSettled, ExecuteNext, AllExecuted, At,
      RestLabels, Tasks
  <2>6. LlmAccepts \/ LlmFinishes \/ LoseEvent
    BY <1>4, <2>2, <2>3, <2>4, <2>5
    DEF Next, TaskStep, CreateRun, TakeEvent, Start, Crash, ChangeDefinition
  <2>7. task' = task
    BY <2>6 DEF LlmAccepts, LlmFinishes, LoseEvent
  <2> QED
    BY <2>1, <2>7 DEF AtRestWhenDown
<1> QED
  BY <1>1, <1>2, <1>3, <1>4

(* Task u stays, or comes to rest from where it kept no account of a run. *)
Leaves(u) ==
  \/ task'[u] = task[u]
  \/ /\ task'[u].at \in {"answered", "executing", "idle", "settling", "listWaiting"}
     /\ task[u].at \notin {"starting", "resuming", "failingRun"}

(* The end of an execution or a settling, what fails outside the try block, a  *)
(* crash, and what concerns no run.                                            *)
LEMMA LeavingKeepsRuns ==
  ASSUME PatientInv, Typed',
         \/ \E t \in Tasks : Return(t) \/ CountSettled(t)
         \/ ListWaiting \/ AllSettled \/ AllExecuted \/ Start \/ LoseEvent \/ ChangeDefinition
  PROVE  \A s \in Runs : RunInv(s)'
<1>1. Typed /\ "startup" \in Tasks
  BY DEF PatientInv, TurnInv, Tasks
<1>2. UNCHANGED <<run, node, provider, sent, resumed, faults>>
  BY DEF Return, CountSettled, ListWaiting, AllSettled, AllExecuted, Start, LoseEvent,
         ChangeDefinition, tables, startup, world, bounds
<1>3. todo' = todo \/ todo' = WaitingNodes
  BY DEF Return, CountSettled, ListWaiting, AllSettled, AllExecuted, Start, LoseEvent,
         ChangeDefinition, startup
<1>4. \A s \in Runs : StaysAsItWas(s)
  <2>1. \A s \in Runs, n \in Positions : <<s, n>> \in WaitingNodes => Once(s, n)
    BY DEF WaitingNodes, Once
  <2>2. faults' >= faults /\ \A s \in Runs, n \in Positions : sent'[s][n] >= sent[s][n]
    BY <1>1, <1>2, PlansAssumption DEF Typed, TypeOK
  <2> QED
    BY <1>2, <1>3, <2>1, <2>2 DEF StaysAsItWas
<1>5. \A u \in Tasks : Leaves(u)
  <2>1. ASSUME NEW t \in Tasks, Return(t)
        PROVE  \A u \in Tasks : Leaves(u)
    <3>1. AfterExecution(t, TRUE) /\ At(t, "returning")
      BY <2>1 DEF Return
    <3>2. PICK label \in {"answered", "executing", "idle"} : Becomes(t, IdleTask(label))
      BY <1>1, <3>1, AfterExecutionBecomes
    <3> QED
      BY <3>1, <3>2, IdleFits DEF Becomes, Idle, At, Leaves
  <2>2. ASSUME NEW t \in Tasks, CountSettled(t)
        PROVE  \A u \in Tasks : Leaves(u)
    <3>1. AfterSettling(t) /\ At(t, "settled")
      BY <2>2 DEF CountSettled
    <3>2. PICK label \in {"settling", "idle"} : Becomes(t, IdleTask(label))
      BY <1>1, <3>1, AfterSettlingBecomes
    <3> QED
      BY <3>1, <3>2, IdleFits DEF Becomes, Idle, At, Leaves
  <2>3. CASE ListWaiting \/ AllSettled \/ AllExecuted \/ Start
    <3>1. PICK label \in {"settling", "executing", "idle", "listWaiting"} : Goto("startup", label)
      BY <2>3 DEF ListWaiting, AllSettled, AllExecuted, Start
    <3>2. task["startup"].at \notin {"starting", "resuming", "failingRun"}
      BY <1>1, <2>3 DEF ListWaiting, AllSettled, AllExecuted, Start, At, PatientInv, AtRestWhenDown,
        RestLabels
    <3> QED
      BY <1>1, <3>1, <3>2, GotoBecomes DEF Leaves
  <2>4. CASE LoseEvent \/ ChangeDefinition
    BY <2>4 DEF LoseEvent, ChangeDefinition, Leaves
  <2> QED
    BY <2>1, <2>2, <2>3, <2>4
<1>6. \A u \in Tasks : task'[u] = task[u] \/ task'[u].at \notin WriterLabels \cup ReadingLabels
  BY <1>5 DEF Leaves, WriterLabels, ReadingLabels, ExecutionLabels, TryLabels
<1> QED
  BY <1>2, <1>4, <1>5, <1>6, LettingGoKeepsRuns DEF Leaves

LEMMA FailingKeepsRuns ==
  ASSUME PatientInv, Typed', Crash \/ \E t \in Tasks : StatementFails(t)
  PROVE  \A s \in Runs : RunInv(s)'
<1>1. Typed /\ faults \in Nat /\ faults' = faults + 1
  BY PlansAssumption DEF PatientInv, TurnInv, Typed, TypeOK, Crash, StatementFails
<1>2. UNCHANGED <<run, node, provider, sent>>
  BY DEF Crash, StatementFails, tables, world
<1>3. ASSUME todo' \subseteq todo, resumed' \subseteq resumed,
             \A u \in Tasks : task'[u] = task[u] \/ task'[u].at \in Idle
      PROVE  \A s \in Runs : RunInv(s)'
  <2>1. \A s \in Runs : StaysAsItWas(s)
    BY <1>1, <1>2, <1>3, PlansAssumption DEF StaysAsItWas, Typed, TypeOK
  <2>2. \A u \in Tasks : task'[u] = task[u] \/ task'[u].at \notin WriterLabels \cup ReadingLabels
    BY <1>3 DEF Idle, WriterLabels, ReadingLabels, ExecutionLabels, TryLabels
  <2> QED
    BY <1>1, <2>1, <2>2, LettingGoKeepsRuns
<1>4. CASE Crash
  <2>1. todo' = {} /\ resumed' = {} /\ \A u \in Tasks : task'[u] = task[u] \/ task'[u].at \in Idle
    BY <1>4, IdleFits DEF Crash, Idle
  <2> QED
    BY <1>3, <2>1
<1>5. ASSUME NEW t \in Tasks, StatementFails(t)
      PROVE  \A s \in Runs : RunInv(s)'
  <2>1. CASE TryFails(t)
    BY <1>1, <1>5, <2>1, CatchKeepsRuns DEF StatementFails
  <2>2. CASE ExecutionFails(t) \/ CallFails(t)
    <3>1. AfterExecution(t, FALSE) /\ todo' \subseteq todo /\ resumed' \subseteq resumed
      BY <2>2 DEF ExecutionFails, CallFails, startup
    <3>2. PICK label \in {"answered", "executing", "idle"} : Becomes(t, IdleTask(label))
      BY <1>1, <3>1, AfterExecutionBecomes
    <3>3. \A u \in Tasks : task'[u] = task[u] \/ task'[u].at \in Idle
      BY <3>2, IdleFits DEF Becomes, Idle
    <3> QED
      BY <1>3, <3>1, <3>3
  <2>3. CASE SettlingFails(t)
    <3>1. /\ task' = [task EXCEPT ![t] = IdleTask("idle")]
          /\ todo' \subseteq todo /\ resumed' \subseteq resumed
      BY <2>3 DEF SettlingFails
    <3>2. \A u \in Tasks : task'[u] = task[u] \/ task'[u].at \in Idle
      BY <1>1, <3>1, IdleFits DEF Typed, TypeOK, Idle
    <3> QED
      BY <1>3, <3>1, <3>2
  <2> QED
    BY <1>5, <2>1, <2>2, <2>3 DEF StatementFails
<1> QED
  BY <1>4, <1>5

(* Every step of a patient world keeps the invariant of every run. *)
LEMMA StepPatient == PatientInv /\ [PatientNext]_vars => PatientInv'
<1> SUFFICES ASSUME PatientInv, [PatientNext]_vars PROVE PatientInv'
  OBVIOUS
<1>1. [Next]_vars /\ Typed
  BY DEF PatientNext, PatientInv, TurnInv
<1>2. TurnInv' /\ AtRestWhenDown' /\ Typed'
  BY <1>1, StepTurn, StepRest DEF PatientInv, TurnInv
<1>3. \A s \in Runs : RunInv(s)'
  <2>1. CASE UNCHANGED vars
    <3>1. /\ \A s \in Runs : StaysAsItWas(s)
          /\ task' = task /\ resumed' = resumed
      BY <1>1, <2>1, PlansAssumption
      DEF StaysAsItWas, Typed, TypeOK, vars, tables, startup, world, bounds
    <3> QED
      BY <1>2, <3>1, LettingGoKeepsRuns
  <2>2. ASSUME NEW t \in Tasks, ExecutionStep(t)
        PROVE  \A s \in Runs : RunInv(s)'
    <3>1. CASE Return(t)
      BY <1>2, <3>1, LeavingKeepsRuns
    <3>2. CASE ~Return(t)
      <4>1. task[t].at \in WriterLabels
        BY <2>2, <3>2 DEF ExecutionStep, MarkRunning, ListNodes, RunNode, StopAtUnfinished,
          AllNodesDone, ContextUnavailable, Dispatch, Answered, MarkNodeCompleted,
          MarkNodeAccepted, MarkRunWaiting, MarkNodeFailed, MarkRunFailed, MarkRunCompleted,
          CatchNode, CountRuns, At, WriterLabels, ExecutionLabels, TryLabels
      <4> QED
        BY <1>2, <2>2, <3>2, <4>1, StatusStepKeepsRuns, NodeStepKeepsRuns, MoveKeepsRuns
        DEF ExecutionStep
    <3> QED
      BY <3>1, <3>2
  <2>3. ASSUME NEW t \in Tasks, SettleStep(t) \/ (ReadFails(t) /\ Patient)
        PROVE  \A s \in Runs : RunInv(s)'
    <3>1. CASE FailSettledRun(t)
      <4>1. task[t].at \in WriterLabels
        BY <3>1 DEF FailSettledRun, At, WriterLabels
      <4> QED
        BY <1>2, <3>1, <4>1, StatusStepKeepsRuns
    <3> QED
      BY <1>2, <2>3, <3>1, SettleKeepsRuns, ResumeKeepsRuns, ReadingGoesOnKeepsRuns,
         LeavingKeepsRuns DEF SettleStep
  <2>4. CASE Crash \/ \E t \in Tasks : StatementFails(t)
    BY <1>2, <2>4, FailingKeepsRuns
  <2>5. CASE \E c \in Calls : CreateRun(c)
    BY <1>2, <2>5, CreateKeepsRuns
  <2>6. CASE (\E s \in Subscriptions : TakeEvent(s)) \/ SettleNext
    BY <1>2, <2>6, ReadingStartsKeepsRuns DEF Tasks
  <2>7. CASE ExecuteNext
    BY <1>2, <2>7, ListedRunKeepsRuns
  <2>8. CASE \/ ListWaiting \/ AllSettled \/ AllExecuted \/ Start \/ LoseEvent \/ ChangeDefinition
    BY <1>2, <2>8, LeavingKeepsRuns
  <2>9. CASE LlmAccepts \/ (LlmFinishes /\ Patient)
    BY <1>2, <2>9, ProviderKeepsRuns
  <2> QED
    BY <2>1, <2>2, <2>3, <2>4, <2>5, <2>6, <2>7, <2>8, <2>9
    DEF PatientNext, Next, TaskStep, StartupStep
<1> QED
  BY <1>2, <1>3 DEF PatientInv

(* The invariant holds as long as results do not overtake recordings. *)
LEMMA PatientHeld == PatientSpec => []PatientInv
BY InitPatient, StepPatient, PTL DEF PatientSpec

(* A completed run has completed all nodes of its plan: no execution that saw  *)
(* older rows, no settler and no failed statement leaves one behind.           *)
THEOREM CompletedRunsAreThrough == PatientSpec => []CompletedThroughout
<1>1. PatientInv => CompletedThroughout
  BY DEF PatientInv, RunInv, CompletedAll, CompletedThroughout
<1> QED
  BY <1>1, PatientHeld, PTL

(* Without crash or failed statement, a run that waits and that nobody works   *)
(* on has a node that waits for its provider.                                  *)
THEOREM WaitingRunsHaveANode == PatientSpec => []WaitingForANode
<1>1. PatientInv => WaitingForANode
  <2> SUFFICES ASSUME PatientInv, NEW r \in Runs, faults = 0, run[r].status = "waiting", ~AtWork(r)
               PROVE  \E n \in Positions : node[r][n] = "waiting"
    BY DEF WaitingForANode
  <2>1. Accounted(r)
    BY DEF PatientInv, RunInv
  <2> QED
    BY <2>1 DEF Accounted, AtWork, Parked
<1> QED
  BY <1>1, PatientHeld, PTL

-----------------------------------------------------------------------------
(* The lifecycle of a run *)

(* Where the lifecycle lets a run go. *)
MayMove(from, to) ==
  \/ from = "absent" /\ to = "accepted"
  \/ from \in {"accepted", "waiting"} /\ to = "running"
  \/ from = "running" /\ to \in {"waiting", "completed"}
  \/ from \in Active /\ to = "failed"

(* One run moves, as it may. *)
LEMMA MoveIsLifecycleStep ==
  ASSUME NEW r \in Runs, NEW to, MayMove(run[r].status, to),
         run'[r].status = to, \A s \in Runs : s # r => run'[s] = run[s]
  PROVE  Lifecycle!Next
<1>1. [s \in Runs |-> run'[s].status] = [[s \in Runs |-> run[s].status] EXCEPT ![r] = to]
  OBVIOUS
<1>2. [s \in Runs |-> run[s].status][r] = run[r].status
  OBVIOUS
<1>3. CASE run[r].status = "absent" /\ to = "accepted"
  BY <1>1, <1>3 DEF Lifecycle!Next, Lifecycle!Create, Lifecycle!Move
<1>4. CASE run[r].status \in {"accepted", "waiting"} /\ to = "running"
  BY <1>1, <1>4 DEF Lifecycle!Next, Lifecycle!Run, Lifecycle!Move
<1>5. CASE run[r].status = "running" /\ to = "waiting"
  BY <1>1, <1>5 DEF Lifecycle!Next, Lifecycle!Wait, Lifecycle!Move
<1>6. CASE run[r].status = "running" /\ to = "completed"
  BY <1>1, <1>6 DEF Lifecycle!Next, Lifecycle!Complete, Lifecycle!Move
<1>7. CASE run[r].status \in Active /\ to = "failed"
  BY <1>1, <1>7 DEF Lifecycle!Next, Lifecycle!Fail, Lifecycle!Move, Active
<1> QED
  BY <1>3, <1>4, <1>5, <1>6, <1>7 DEF MayMove

(* Whoever writes the row of a run writes what may follow. *)
LEMMA StatusMoves ==
  ASSUME PatientInv, NEW t \in Tasks,
         \/ MarkRunning(t) \/ StopAtUnfinished(t) \/ MarkRunWaiting(t) \/ MarkRunFailed(t)
         \/ MarkRunCompleted(t) \/ FailSettledRun(t)
  PROVE  Lifecycle!Next \/ UNCHANGED [r \in Runs |-> run[r].status]
<1>1. task[t].at \in {"starting", "node", "parking", "failing", "catchRun", "finishing", "failingRun"}
  BY DEF MarkRunning, StopAtUnfinished, MarkRunWaiting, MarkRunFailed, MarkRunCompleted,
         FailSettledRun, At
<1>2. PICK r \in Runs : r = task[t].run /\ Typed /\ StatusFits(t)
  BY <1>1, WriterKnows DEF Knows, WriterLabels, ExecutionLabels, TryLabels
<1>3. \/ run' = run
      \/ SetRun(r, "running") /\ At(t, "starting")
      \/ SetRun(r, "failed") /\ task[t].at \in {"node", "failing", "catchRun", "failingRun"}
      \/ SetRun(r, "waiting") /\ At(t, "parking")
      \/ SetRun(r, "completed") /\ At(t, "finishing")
  BY <1>2 DEF MarkRunning, StopAtUnfinished, MarkRunWaiting, MarkRunFailed, MarkRunCompleted,
              FailSettledRun, At
<1>4. CASE run' = run
  BY <1>4
<1>5. ASSUME NEW to \in RunStatuses, SetRun(r, to),
             MayMove(run[r].status, to) \/ run[r].status = to
      PROVE  Lifecycle!Next \/ UNCHANGED [q \in Runs |-> run[q].status]
  <2>1. run'[r].status = to /\ \A s \in Runs : s # r => run'[s] = run[s]
    BY <1>2, <1>5, SetRunWrites
  <2>2. CASE MayMove(run[r].status, to)
    BY <2>1, <2>2, MoveIsLifecycleStep
  <2>3. CASE run[r].status = to
    BY <2>1, <2>3
  <2> QED
    BY <1>5, <2>2, <2>3
<1>6. CASE SetRun(r, "running") /\ At(t, "starting")
  <2>1. MayMove(run[r].status, "running") \/ run[r].status = "running"
    BY <1>2, <1>6 DEF StatusFits, At, MayMove, Active
  <2> QED
    BY <1>5, <1>6, <2>1 DEF RunStatuses
<1>7. CASE SetRun(r, "failed") /\ task[t].at \in {"node", "failing", "catchRun", "failingRun"}
  <2>1. MayMove(run[r].status, "failed") \/ run[r].status = "failed"
    BY <1>2, <1>7 DEF StatusFits, At, MayMove, Active
  <2> QED
    BY <1>5, <1>7, <2>1 DEF RunStatuses
<1>8. CASE SetRun(r, "waiting") /\ At(t, "parking")
  <2>1. MayMove(run[r].status, "waiting")
    BY <1>2, <1>8 DEF StatusFits, At, MayMove
  <2> QED
    BY <1>5, <1>8, <2>1 DEF RunStatuses
<1>9. CASE SetRun(r, "completed") /\ At(t, "finishing")
  <2>1. MayMove(run[r].status, "completed")
    BY <1>2, <1>9 DEF StatusFits, At, MayMove
  <2> QED
    BY <1>5, <1>9, <2>1 DEF RunStatuses
<1> QED
  BY <1>3, <1>4, <1>6, <1>7, <1>8, <1>9

(* Every step that writes a row of a run is one of those, or creates a run. *)
LEMMA StepIsLifecycleStep ==
  ASSUME PatientInv, [PatientNext]_vars
  PROVE  Lifecycle!Next \/ UNCHANGED [r \in Runs |-> run[r].status]
<1>1. ASSUME NEW t \in Tasks, ExecutionStep(t)
      PROVE  run' = run \/ Lifecycle!Next \/ UNCHANGED [r \in Runs |-> run[r].status]
  BY <1>1, StatusMoves DEF ExecutionStep, ListNodes, RunNode, AllNodesDone, ContextUnavailable,
     Dispatch, Answered, MarkNodeCompleted, MarkNodeAccepted, MarkNodeFailed, CatchNode,
     CountRuns, Return, tables
<1>2. ASSUME NEW t \in Tasks, SettleStep(t) \/ ReadFails(t) \/ StatementFails(t)
      PROVE  run' = run \/ Lifecycle!Next \/ UNCHANGED [r \in Runs |-> run[r].status]
  BY <1>2, StatusMoves DEF SettleStep, ReadResult, CompleteWaitingNode, FailWaitingNode,
     SettleWaiting, CountSettled, ResumeRun, ReadFails, StatementFails, tables
<1>3. ASSUME NEW c \in Calls, CreateRun(c)
      PROVE  run' = run \/ Lifecycle!Next
  <2>1. PICK r \in Runs : r = RunOf[c]
    BY TasksAssumption
  <2>2. CASE ~Exists(r) /\ run' # run
    <3>1. run' = [run EXCEPT ![r] = [status |-> "accepted", plan |-> definition[NameOf[r]]]]
      BY <1>3, <2>1, <2>2 DEF CreateRun
    <3>2. run'[r].status = "accepted" /\ \A s \in Runs : s # r => run'[s] = run[s]
      BY <3>1 DEF PatientInv, TurnInv, Typed, TypeOK
    <3>3. MayMove(run[r].status, "accepted")
      BY <2>2 DEF Exists, MayMove
    <3> QED
      BY <3>2, <3>3, MoveIsLifecycleStep
  <2>3. CASE Exists(r)
    BY <1>3, <2>1, <2>3 DEF CreateRun
  <2> QED
    BY <2>2, <2>3
<1>4. CASE (\E s \in Subscriptions : TakeEvent(s)) \/ StartupStep \/ Start \/ Crash
  BY <1>4 DEF TakeEvent, StartupStep, ListWaiting, SettleNext, AllSettled, ExecuteNext, AllExecuted,
     Start, Crash, tables
<1>5. CASE LlmAccepts \/ LlmFinishes \/ LoseEvent \/ ChangeDefinition \/ UNCHANGED vars
  BY <1>5 DEF LlmAccepts, LlmFinishes, LoseEvent, ChangeDefinition, vars, tables
<1> QED
  BY <1>1, <1>2, <1>3, <1>4, <1>5 DEF PatientNext, Next, TaskStep

(* A run lives as the documentation has it: it is created once, runs, waits    *)
(* and runs again, and what has ended stays as it ended.                       *)
THEOREM RunsFollowTheLifecycle == PatientSpec => RefinesLifecycle
<1>1. Init => Lifecycle!Init
  BY DEF Init, Lifecycle!Init
<1>2. PatientInv /\ [PatientNext]_vars => [Lifecycle!Next]_[r \in Runs |-> run[r].status]
  BY StepIsLifecycleStep
<1> QED
  BY <1>1, <1>2, PatientHeld, PTL DEF PatientSpec, RefinesLifecycle, Lifecycle!Spec
=============================================================================
