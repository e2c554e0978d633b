------------------------- MODULE HistoryReconciler -------------------------
(***************************************************************************)
(* The telegram module's history reconciler: getMessages requests that find *)
(* history missing become durable jobs, and one runner works them off, a     *)
(* TDLib page at a time, until the selector they stand for is readable        *)
(* (packages/telegram/src/reconciler, procedures/get-messages,               *)
(* storage/reconcilerJobStorage.ts).                                         *)
(*                                                                         *)
(* One process runs the reconciler, as docs/03-domains/telegramGetMessages.md *)
(* requires; calls of getMessages run in the same process and interleave     *)
(* with the runner at every await.  Telegram's history is a constant: the     *)
(* messages of an owner are 1..n in the order they were sent, each with the   *)
(* second it was sent in.  Time is abstract: `due` says that a row's          *)
(* nextRunAt, or its lock, has passed.                                       *)
(***************************************************************************)
EXTENDS HistoryCoverage, FiniteSets, Sequences

CONSTANTS
  Owners,                \* message owners: a chat, a topic, a thread
  History,               \* the seconds each owner's messages were sent in
  Present,               \* the current second
  Anchored,              \* owners TDLib finds a message by date for
  Requests,              \* what the callers ask for, which is also a request id
  Callers,               \* concurrent calls of getMessages
  PageSize,              \* PRIVATE_PAGE_SIZE
  MaxTransientAttempts,  \* MAX_TRANSIENT_ATTEMPTS
  NoJob,                 \* a request id without a row
  NoRequest,             \* no candidate, no job claimed
  MaxAsks,               \* bound: calls of getMessages
  MaxFaults              \* bound: crashes, failed statements, failed TDLib calls

(* The message a page ends before, when the request names none. *)
Latest == 0

RangeSelector == [kind : {"range"}, startAt : Nat, endAt : Nat]

PageSelector == [kind : {"page"}, before : Nat, count : Nat \ {0}]

Request == [owner : Owners, selector : RangeSelector \cup PageSelector]

ASSUME HistoryAssumption ==
  /\ Present \in Nat \ {0} /\ PageSize \in Nat \ {0, 1}
  /\ History \in [Owners -> Seq(1..(Present - 1))]
  /\ \A o \in Owners : \A m, n \in DOMAIN History[o] :
       m <= n => History[o][m] <= History[o][n]

ASSUME RequestsAssumption ==
  /\ Requests \subseteq Request
  /\ Anchored \subseteq Owners
  /\ NoRequest \notin Requests
  /\ MaxTransientAttempts \in Nat /\ MaxAsks \in Nat /\ MaxFaults \in Nat

VARIABLES
  jobs,        \* table telegram_history_reconciler_jobs
  coverage,    \* table telegram_history_coverage, the intervals of each owner
  stored,      \* the messages stored, by owner
  up,          \* whether the process runs
  timer,       \* the runner's timer: "none", or how soon it is due
  wake,        \* what was scheduled while a tick ran (pending, pendingDelayMs)
  pc,          \* where the runner is in its tick
  work,        \* the job being processed, as the claim returned it
  missing,     \* the interval the tick fetches for, one or none
  page,        \* what the fetch returned: messages and the interval they prove
  call,        \* the calls of getMessages
  asks, faults

tables == <<jobs, coverage, stored>>
memory == <<timer, wake, pc, work, missing, page>>
bounds == <<asks, faults>>
vars == <<tables, up, memory, call, bounds>>

-----------------------------------------------------------------------------
(* Values *)

ActiveStatuses == {"queued", "running", "deferred"}

Job ==
  [status : ActiveStatuses \cup {"failed"},
   attempts : Nat,
   selector : RangeSelector \cup PageSelector,
   due : BOOLEAN]

(* An empty column is no row. *)
ASSUME RowsAssumption == NoJob \notin Job

NoWork == [id |-> NoRequest]

Work ==
  {NoWork} \cup [id : Requests] \cup
  [id : Requests, selector : RangeSelector \cup PageSelector, attempts : Nat]

NoPage == [messages |-> {}, covered |-> {}]

Idle == [pc |-> "idle"]

Call ==
  {Idle}
  \cup [pc : {"looking", "overlapping", "inserting", "requeueing"}, request : Requests]
  \cup [pc : {"merging"}, request : Requests, target : Requests, selector : RangeSelector]

Delays == {"none", "soon", "later"}

TickSteps ==
  {"selecting", "claiming", "settling", "looking", "deferring", "failing"}

JobSteps ==
  {"checking", "measuring", "fetching", "persisting", "covering", "rechecking",
   "publishing", "releasing"}

TypeOK ==
  /\ jobs \in [Requests -> Job \cup {NoJob}]
  /\ \A o \in Owners : coverage[o] \subseteq Interval
  /\ DOMAIN coverage = Owners /\ DOMAIN stored = Owners
  /\ \A o \in Owners : stored[o] \subseteq DOMAIN History[o]
  /\ up \in BOOLEAN /\ timer \in Delays /\ wake \in Delays
  /\ pc \in {"idle", "completing", "reviving"} \cup TickSteps \cup JobSteps
  /\ work \in Work
  /\ missing \subseteq Interval
  /\ page.messages \subseteq Nat /\ page.covered \subseteq Interval
  /\ call \in [Callers -> Call]
  /\ asks \in 0..MaxAsks /\ faults \in 0..MaxFaults

Init ==
  /\ jobs = [r \in Requests |-> NoJob]
  /\ coverage = [o \in Owners |-> {}]
  /\ stored = [o \in Owners |-> {}]
  /\ up = TRUE /\ timer = "soon" /\ wake = "none"
  /\ pc = "idle" /\ work = NoWork /\ missing = {} /\ page = NoPage
  /\ call = [c \in Callers |-> Idle]
  /\ asks = 0 /\ faults = 0

-----------------------------------------------------------------------------
(* The local read model *)

Newest(messages, n) ==
  {m \in messages : Cardinality({k \in messages : k > m}) < n}

Oldest(messages) == CHOOSE m \in messages : \A k \in messages : m <= k

After(o, m) == History[o][m] + 1

(* What the coverage of the owner leaves of an interval. *)
Uncovered(o, interval) == SubtractSegments(interval, coverage[o])

PageRows(o, selector) ==
  Newest({m \in stored[o] : selector.before = Latest \/ m < selector.before}, selector.count)

(* The second after the message a page ends with; none when it is unknown. *)
PageEnd(o, selector) ==
  IF selector.before = Latest
  THEN {After(o, m) : m \in Newest(stored[o], 1)}
  ELSE {After(o, m) : m \in stored[o] \cap {selector.before}}

OpenPast(t) == [startAt |-> PastBoundary, endAt |-> t]

(* A page is known back to its oldest message, or to the beginning of the   *)
(* history when it holds fewer messages than asked for.                     *)
PageMissing(o, selector) ==
  LET rows == PageRows(o, selector)
      start == IF Cardinality(rows) < selector.count
               THEN PastBoundary
               ELSE After(o, Oldest(rows))
      knownEmpty == /\ selector.before = Latest /\ rows = {}
                    /\ Uncovered(o, OpenPast(Present - 1)) = {}
  IN  IF PageEnd(o, selector) # {}
      THEN UNION {Uncovered(o, [startAt |-> start, endAt |-> end]) :
                    end \in PageEnd(o, selector)}
      ELSE IF knownEmpty THEN {} ELSE {OpenPast(Present)}

RangeOf(selector) == [startAt |-> selector.startAt, endAt |-> selector.endAt]

(* The selector can be answered when nothing is missing. *)
Missing(o, selector) ==
  IF selector.kind = "range" THEN Uncovered(o, RangeOf(selector)) ELSE PageMissing(o, selector)

Ready(o, selector) == Missing(o, selector) = {}

-----------------------------------------------------------------------------
(* One step of fetching (reconciler/adapters/historySource.ts) *)

MessagesIn(o, seconds) == {m \in DOMAIN History[o] : History[o][m] \in seconds}

(* TDLib: the last message sent no later than the last second of the interval. *)
DateAnchor(o, interval) == Newest(MessagesIn(o, 0..(interval.endAt - 1)), 1)

(* Where the page is fetched from, and the second its coverage ends at.  An *)
(* empty `end` leaves the end to the page; `known` proves without a page.    *)
Cursor(o, selector, interval) ==
  LET at(m, end) == [from |-> m, end |-> end, known |-> {}]
      proved(i) == [from |-> Latest, end |-> {}, known |-> {i}]
      rows == IF selector.kind = "page" THEN PageRows(o, selector) ELSE {}
      anchor == DateAnchor(o, interval)
  IN  IF rows # {} THEN at(Oldest(rows), {interval.endAt})
      ELSE IF selector.kind = "page" /\ selector.before # Latest
      THEN at(selector.before, {})
      ELSE IF o \notin Anchored
      THEN IF stored[o] = {} THEN at(Latest, {interval.endAt})
           ELSE at(Oldest(stored[o]), {After(o, Oldest(stored[o]))})
      ELSE IF anchor = {} THEN proved(OpenPast(interval.endAt))
      ELSE IF /\ selector.kind = "range"
              /\ \A m \in anchor : History[o][m] < interval.startAt
      THEN proved(interval)
      ELSE at(Oldest(anchor), {interval.endAt})

(* TDLib: a page holds the message it starts from and up to PageSize - 1    *)
(* messages before it; TDLib decides how many.                              *)
HistoryPages(o, from) ==
  LET older == {m \in DOMAIN History[o] : from = Latest \/ m <= from}
  IN  {Newest(older, n) : n \in 1..PageSize}

(* Mutant: every page is taken to reach down to the start asked for. *)
PageCoversAsked(o, cursor, interval, messages) ==
  {[startAt |-> interval.startAt, endAt |-> end] : end \in cursor.end}

(* The interval a page proves: down to the start asked for when the page    *)
(* crosses it, otherwise down to the second after its oldest message.       *)
PageCoverage(o, cursor, interval, messages) ==
  LET ends == IF cursor.end # {} THEN cursor.end
              ELSE {After(o, m) : m \in messages \cap {cursor.from}}
      crosses == \E m \in messages : History[o][m] < interval.startAt
      start == IF messages = {} THEN PastBoundary
               ELSE IF crosses THEN interval.startAt
               ELSE After(o, Oldest(messages))
  IN  {[startAt |-> start, endAt |-> end] : end \in {e \in ends : start < e}}

(* The page is as long as TDLib may make it. *)
FullPage == Cardinality(page.messages) = PageSize \/ 1 \in page.messages \/ page.messages = {}

FetchResults(o, selector, interval) ==
  LET cursor == Cursor(o, selector, interval)
  IN  IF cursor.known # {}
      THEN {[messages |-> {}, covered |-> cursor.known]}
      ELSE {[messages |-> messages, covered |-> PageCoverage(o, cursor, interval, messages)] :
              messages \in HistoryPages(o, cursor.from)}

-----------------------------------------------------------------------------
(* The runner's timer *)

Sooner(a, b) ==
  IF "soon" \in {a, b} THEN "soon" ELSE IF "later" \in {a, b} THEN "later" ELSE "none"

(* While a tick runs, what is scheduled waits for its end. *)
Schedule(delay) ==
  IF pc = "idle"
  THEN timer' = Sooner(timer, delay) /\ UNCHANGED wake
  ELSE wake' = Sooner(wake, delay) /\ UNCHANGED timer

(* Mutant: what was scheduled during the tick is forgotten. *)
FinishTickForgetful(next) ==
  /\ pc' = "idle"
  /\ timer' = next
  /\ wake' = "none"
  /\ work' = NoWork /\ missing' = {} /\ page' = NoPage

(* The end of a tick that found `next` to schedule. *)
FinishTick(next) ==
  /\ pc' = "idle"
  /\ timer' = Sooner(wake, next)
  /\ wake' = "none"
  /\ work' = NoWork /\ missing' = {} /\ page' = NoPage

TimerFires ==
  /\ up /\ pc = "idle" /\ timer # "none"
  /\ timer' = "none"
  /\ pc' = "selecting"
  /\ UNCHANGED <<tables, up, wake, work, missing, page, call, bounds>>

(* A queue-changed event comes back to its publisher, in its own time or never. *)
QueueChanged ==
  /\ up
  /\ Schedule("soon")
  /\ UNCHANGED <<tables, up, pc, work, missing, page, call, bounds>>

(* The nextRunAt of a deferred job, or the lock of a running one, passes. *)
Ripen(r) ==
  /\ jobs[r] # NoJob
  /\ jobs[r].status \in {"deferred", "running"}
  /\ ~jobs[r].due
  /\ jobs' = [jobs EXCEPT ![r].due = TRUE]
  /\ UNCHANGED <<coverage, stored, up, memory, call, bounds>>

-----------------------------------------------------------------------------
(* A tick: claiming a job *)

Due == {r \in Requests : jobs[r] # NoJob /\ jobs[r].due}

Active == {r \in Requests : jobs[r] # NoJob /\ jobs[r].status \in ActiveStatuses}

(* The candidate is the due row first in line; which of them that is depends *)
(* on times that are not modelled.                                          *)
SelectCandidate(r) ==
  /\ pc = "selecting" /\ r \in Due
  /\ work' = [id |-> r]
  /\ pc' = "claiming"
  /\ UNCHANGED <<tables, up, timer, wake, missing, page, call, bounds>>

SelectNothing ==
  /\ pc = "selecting" /\ Due = {}
  /\ pc' = "settling"
  /\ UNCHANGED <<tables, up, timer, wake, work, missing, page, call, bounds>>

(* The claim takes the candidate as it finds it now.  Only the runner deletes *)
(* rows, so the candidate's is still there.                                 *)
ClaimCandidate ==
  /\ pc = "claiming"
  /\ jobs' = [jobs EXCEPT ![work.id].status = "running", ![work.id].due = FALSE]
  /\ work' = [id |-> work.id, selector |-> jobs[work.id].selector,
              attempts |-> jobs[work.id].attempts]
  /\ pc' = "checking"
  /\ UNCHANGED <<coverage, stored, up, timer, wake, missing, page,
                 call, bounds>>

-----------------------------------------------------------------------------
(* A tick: processing the job *)

owner == work.id.owner

(* The step of the tick that follows, nothing else changing. *)
Goto(step) ==
  /\ pc' = step
  /\ UNCHANGED <<up, timer, wake, work, call, bounds>>

Check ==
  /\ pc = "checking"
  /\ LET found == Missing(owner, work.selector)
     IN  \/ /\ found = {}
            /\ Goto("publishing")
            /\ UNCHANGED missing
         \/ /\ found # {} /\ work.selector.kind = "range"
            /\ Goto("measuring")
            /\ UNCHANGED missing
         \/ /\ found # {} /\ work.selector.kind = "page"
            /\ Goto("fetching")
            /\ missing' = {ClosestToPresent(found)}
  /\ UNCHANGED <<tables, page>>

(* Whether a range is covered, and what it misses, are two reads. *)
Measure ==
  /\ pc = "measuring"
  /\ LET found == Missing(owner, work.selector)
     IN  \/ /\ found = {}
            /\ Goto("releasing")
            /\ UNCHANGED missing
         \/ /\ found # {}
            /\ Goto("fetching")
            /\ missing' = {ClosestToPresent(found)}
  /\ UNCHANGED <<tables, page>>

Fetch ==
  /\ pc = "fetching"
  /\ \E interval \in missing : page' \in FetchResults(owner, work.selector, interval)
  /\ missing' = {}
  /\ Goto("persisting")
  /\ UNCHANGED tables

Persist ==
  /\ pc = "persisting"
  /\ stored' = [stored EXCEPT ![owner] = @ \cup page.messages]
  /\ Goto("covering")
  /\ UNCHANGED <<jobs, coverage, missing, page>>

Cover ==
  /\ pc = "covering"
  /\ coverage' = [coverage EXCEPT ![owner] =
                    IF page.covered = {} THEN @
                    ELSE UNION {WriteSegment(@, segment) : segment \in page.covered}]
  /\ page' = NoPage
  /\ Goto("rechecking")
  /\ UNCHANGED <<jobs, stored, missing>>

(* Mutant: one page is taken to be enough. *)
RecheckSkipped ==
  /\ pc = "rechecking"
  /\ Goto("publishing")
  /\ UNCHANGED <<tables, missing, page>>

Recheck ==
  /\ pc = "rechecking"
  /\ Goto(IF Ready(owner, work.selector) THEN "publishing" ELSE "releasing")
  /\ UNCHANGED <<tables, missing, page>>

(* telegram.messages.ready is published for the claimed selector. *)
Publish ==
  /\ pc = "publishing"
  /\ Goto("completing")
  /\ UNCHANGED <<tables, missing, page>>

(* The end of processing: the row is written and the queue's change published. *)
Settle(row) ==
  /\ jobs' = [jobs EXCEPT ![work.id] = row]
  /\ pc' = "settling"
  /\ UNCHANGED <<coverage, stored, up, timer, work, missing, page>>

Complete ==
  /\ pc = "completing"
  /\ Settle(NoJob)
  /\ UNCHANGED <<wake, call, bounds>>

Released == [jobs[work.id] EXCEPT !.status = "queued", !.attempts = 0, !.due = TRUE]

Release ==
  /\ pc = "releasing"
  /\ Settle(Released)
  /\ UNCHANGED <<wake, call, bounds>>

(* The job could not be deleted after it was announced. *)
Revive ==
  /\ pc = "reviving"
  /\ \/ Settle(Released) /\ UNCHANGED bounds
     \/ /\ faults < MaxFaults
        /\ Settle(jobs[work.id])
        /\ faults' = faults + 1 /\ UNCHANGED asks
  /\ wake' = Sooner(wake, "later")
  /\ UNCHANGED call

(* Mutant: the attempts are counted down. *)
DeferredDown ==
  [jobs[work.id] EXCEPT !.status = "deferred", !.attempts = @ - 1, !.due = FALSE]

Deferred ==
  [jobs[work.id] EXCEPT !.status = "deferred", !.attempts = @ + 1, !.due = FALSE]

Defer ==
  /\ pc = "deferring"
  /\ jobs' = [jobs EXCEPT ![work.id] = Deferred]
  /\ wake' = Sooner(wake, "later")
  /\ pc' = "settling"
  /\ UNCHANGED <<coverage, stored, up, timer, work, missing, page, call, bounds>>

Fail ==
  /\ pc = "failing"
  /\ Settle([jobs[work.id] EXCEPT !.status = "failed"])
  /\ UNCHANGED <<wake, call, bounds>>

(* The statistics are read; a tick that processed a job ends here. *)
ReadStats ==
  /\ pc = "settling"
  /\ \/ work # NoWork /\ FinishTick(IF wake = "none" THEN "soon" ELSE "none")
     \/ /\ work = NoWork
        /\ pc' = "looking"
        /\ UNCHANGED <<timer, wake, work, missing, page>>
  /\ UNCHANGED <<tables, up, call, bounds>>

(* A tick that found no job due looks for the next one. *)
ScheduleNextActiveJob ==
  /\ pc = "looking"
  /\ FinishTick(IF Active = {} THEN "none"
                ELSE IF \E r \in Active : jobs[r].due THEN "soon" ELSE "later")
  /\ UNCHANGED <<tables, up, call, bounds>>

-----------------------------------------------------------------------------
(* Failures *)

Fault == faults < MaxFaults /\ faults' = faults + 1 /\ UNCHANGED asks

(* A statement of the tick itself fails: the tick ends, and what was         *)
(* scheduled during it stays where it is.                                    *)
TickFails ==
  /\ pc \in TickSteps /\ Fault
  /\ pc' = "idle" /\ timer' = "later"
  /\ work' = NoWork /\ missing' = {} /\ page' = NoPage
  /\ UNCHANGED <<tables, up, wake, call>>

(* A stage of the job fails, in a way worth retrying or not. *)
StageFails(transient) ==
  /\ pc \in JobSteps /\ Fault
  /\ pc' = IF transient /\ work.attempts < MaxTransientAttempts THEN "deferring" ELSE "failing"
  /\ UNCHANGED <<tables, up, timer, wake, work, missing, page, call>>

CompleteFails ==
  /\ pc = "completing" /\ Fault
  /\ pc' = "reviving"
  /\ UNCHANGED <<tables, up, timer, wake, work, missing, page, call>>

(* The process ends, with the calls it was answering. *)
Crash ==
  /\ up /\ Fault
  /\ up' = FALSE /\ pc' = "idle" /\ timer' = "none" /\ wake' = "none"
  /\ work' = NoWork /\ missing' = {} /\ page' = NoPage
  /\ call' = [c \in Callers |-> Idle]
  /\ UNCHANGED <<tables>>

Restart ==
  /\ ~up
  /\ up' = TRUE /\ timer' = "soon"
  /\ UNCHANGED <<tables, wake, pc, work, missing, page, call, bounds>>

-----------------------------------------------------------------------------
(* getMessages: a request that is not ready is enqueued *)

runner == <<coverage, stored, up, pc, work, missing, page>>

Ask(c, r) ==
  /\ up /\ call[c] = Idle
  /\ asks < MaxAsks /\ asks' = asks + 1
  /\ ~Ready(r.owner, r.selector)
  /\ call' = [call EXCEPT ![c] = [pc |-> "looking", request |-> r]]
  /\ UNCHANGED <<jobs, runner, timer, wake, faults>>

CallGoes(c, step) ==
  /\ call' = [call EXCEPT ![c] = [pc |-> step, request |-> call[c].request]]
  /\ UNCHANGED <<timer, wake>>

(* The call answers that the request is pending; the runner is told. *)
Accepted(c) ==
  /\ call' = [call EXCEPT ![c] = Idle]
  /\ Schedule("soon")

LookUp(c) ==
  /\ call[c].pc = "looking"
  /\ LET r == call[c].request
     IN  \/ r \in Active /\ Accepted(c)
         \/ jobs[r] # NoJob /\ r \notin Active /\ CallGoes(c, "requeueing")
         \/ /\ jobs[r] = NoJob
            /\ CallGoes(c, IF r.selector.kind = "range" THEN "overlapping" ELSE "inserting")
  /\ UNCHANGED <<jobs, runner, bounds>>

(* The waiting range jobs of the owner.  One of them is read, whichever it is. *)
Waiting(o) ==
  {t \in Active : /\ t.owner = o /\ jobs[t].selector.kind = "range"
                  /\ jobs[t].status \in {"queued", "deferred"}}

FindOverlap(c) ==
  /\ call[c].pc = "overlapping"
  /\ LET r == call[c].request
         overlaps(t) == Overlap(RangeOf(jobs[t].selector), RangeOf(r.selector))
         merged(t) == LET hull == Hull(RangeOf(jobs[t].selector), RangeOf(r.selector))
                      IN  [kind |-> "range", startAt |-> hull.startAt, endAt |-> hull.endAt]
     IN  \/ \E t \in Waiting(r.owner) :
              /\ overlaps(t)
              /\ call' = [call EXCEPT ![c] = [pc |-> "merging", request |-> r, target |-> t,
                                              selector |-> merged(t)]]
              /\ UNCHANGED <<timer, wake>>
         \/ /\ Waiting(r.owner) = {} \/ \E t \in Waiting(r.owner) : ~overlaps(t)
            /\ CallGoes(c, "inserting")
  /\ UNCHANGED <<jobs, runner, bounds>>

Queued(selector) == [status |-> "queued", attempts |-> 0, selector |-> selector, due |-> TRUE]

(* The overlapping job is written whatever became of it; a row that is gone   *)
(* is not.                                                                   *)
Merge(c) ==
  /\ call[c].pc = "merging"
  /\ jobs' = [jobs EXCEPT ![call[c].target] =
                IF @ = NoJob THEN NoJob ELSE Queued(call[c].selector)]
  /\ Accepted(c)
  /\ UNCHANGED <<runner, bounds>>

Insert(c) ==
  /\ call[c].pc = "inserting"
  /\ LET r == call[c].request
     IN  \/ /\ jobs[r] = NoJob
            /\ jobs' = [jobs EXCEPT ![r] = Queued(r.selector)]
            /\ Accepted(c)
         \/ /\ jobs[r] # NoJob
            /\ CallGoes(c, "looking")
            /\ UNCHANGED jobs
  /\ UNCHANGED <<runner, bounds>>

Requeue(c) ==
  /\ call[c].pc = "requeueing"
  /\ LET r == call[c].request
     IN  /\ jobs' = [jobs EXCEPT ![r] = IF @ = NoJob THEN NoJob ELSE Queued(r.selector)]
         /\ Accepted(c)
  /\ UNCHANGED <<runner, bounds>>

CallFails(c) ==
  /\ call[c] # Idle /\ Fault
  /\ call' = [call EXCEPT ![c] = Idle]
  /\ UNCHANGED <<jobs, runner, timer, wake>>

-----------------------------------------------------------------------------
Claiming == (\E r \in Requests : SelectCandidate(r)) \/ SelectNothing \/ ClaimCandidate

Processing ==
  \/ Check \/ Measure \/ Fetch \/ Persist \/ Cover \/ Recheck \/ Publish \/ Complete
  \/ Release \/ Revive \/ Defer \/ Fail

Tick == Claiming \/ Processing \/ ReadStats \/ ScheduleNextActiveJob

Failing ==
  TickFails \/ (\E transient \in BOOLEAN : StageFails(transient)) \/ CompleteFails \/ Crash

Enqueueing(c) ==
  LookUp(c) \/ FindOverlap(c) \/ Merge(c) \/ Insert(c) \/ Requeue(c)

Next ==
  \/ TimerFires \/ QueueChanged \/ Tick \/ Failing \/ Restart
  \/ \E r \in Requests : Ripen(r)
  \/ \E c \in Callers : (\E r \in Requests : Ask(c, r)) \/ Enqueueing(c) \/ CallFails(c)

Spec == Init /\ [][Next]_vars

(* The tick that runs takes its next step. *)
TickMoves == pc # "idle" /\ pc' \in {"idle", "completing", "reviving"} \cup TickSteps \cup JobSteps

(* Ticks go on and the timer, the locks and the restarts come.  The candidate *)
(* is the row with the oldest nextRunAt and a release moves a row to the back, *)
(* so a row that is due again and again is selected in the end.  TDLib returns *)
(* short pages, but not for ever.                                            *)
Fairness ==
  /\ WF_pc(TickMoves) /\ WF_vars(TimerFires) /\ WF_vars(Restart)
  /\ WF_vars(\E c \in Callers : Enqueueing(c))
  /\ \A r \in Requests : WF_vars(Ripen(r)) /\ SF_vars(SelectCandidate(r))
  /\ <>[](pc = "persisting" => FullPage)

LiveSpec == Spec /\ Fairness

-----------------------------------------------------------------------------
(* Properties *)

(* Durable coverage is a proof: every message the owner has in a covered       *)
(* second is stored, whatever pages TDLib returned, whichever stage failed     *)
(* and wherever the process crashed (fetchOwnerHistoryStep's coverageInterval, *)
(* persistMessages before writeOwnerCoverage).                               *)
CoveredMeansStored ==
  \A o \in Owners : MessagesIn(o, Covered(coverage[o])) \subseteq stored[o]

(* What a merge, a page or a crash may never do: take back coverage or stored   *)
(* messages.                                                                 *)
CoverageOnlyGrows ==
  [][\A o \in Owners : /\ Covered(coverage[o]) \subseteq Covered(coverage'[o])
                       /\ stored[o] \subseteq stored'[o]]_vars

(* A job row disappears only when the selector it was claimed with is readable:  *)
(* not after a failure, nor after a page that left a gap (processJob).        *)
CompletedMeansReady ==
  [][\A r \in Requests :
       jobs[r] # NoJob /\ jobs'[r] = NoJob => Ready(r.owner, work.selector)]_vars

(* What the pages of an owner can prove.  None proves the second of the first   *)
(* message, as it holds the message it starts from and is never empty          *)
(* (coveredStart); a range is covered down to a second only when a page reaches *)
(* beyond it, and of an owner TDLib finds messages by date for; and a page has  *)
(* to end before a message of the owner.                                       *)
InReach(o, selector) ==
  LET messages == DOMAIN History[o]
      inSecond(t) == Cardinality({m \in messages : History[o][m] = t})
  IN  \/ /\ selector.kind = "page"
         /\ selector.before \in {Latest} \cup messages
         /\ \/ selector.count <= Cardinality({m \in messages : \/ selector.before = Latest
                                                              \/ m < selector.before})
            \/ messages = {}
      \/ /\ selector.kind = "range"
         /\ o \in Anchored
         /\ \A t \in Seconds(RangeOf(selector)) :
              inSecond(t) < PageSize /\ (messages # {} => t # History[o][1])

(* An accepted job that is in reach of the pages is finished or failed in the   *)
(* end, whatever pages come, whatever fails on the way and whatever other jobs  *)
(* there are, those out of reach among them.  A job out of reach is fetched for *)
(* again and again, though telegramGetMessages.md:471-482 has it end when the   *)
(* beginning of the history is reached.                                       *)
JobsSettle ==
  \A r \in Requests :
    LET waits == r \in Active /\ InReach(r.owner, jobs[r].selector)
    IN  waits ~> ~waits

=============================================================================
