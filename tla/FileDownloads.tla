--------------------------- MODULE FileDownloads ---------------------------
(***************************************************************************)
(* The telegram module's file download queue: slots recorded from updates    *)
(* and explicit requests enqueue assets, and one worker hands them to TDLib,   *)
(* watches over them and copies what TDLib completed into canonical storage   *)
(* (packages/telegram/src/files, storage/file*Storage.ts).                   *)
(*                                                                         *)
(* A step is a statement or a TDLib call and what follows it up to the next   *)
(* await.  A few are one step here: a snapshot of a file is kept and told to   *)
(* its asset, a slot's snapshot and asset are written and read, a message's    *)
(* slot is refreshed and its row read again, a job is selected and claimed,    *)
(* TDLib's answer about a stale job is recorded and the claim renewed.        *)
(*                                                                         *)
(* A failure whose report fails ends the tick, while the rows worked off       *)
(* together with it run on beside the next ticks.  Time is abstract: the       *)
(* timer is set or not, and `stale` says that the claim of a job has timed     *)
(* out.  Priorities decide only which queued job is claimed first, and are     *)
(* left out.                                                                *)
(***************************************************************************)
EXTENDS Naturals, FiniteSets

CONSTANTS
  Files,            \* files in Telegram, by their remote unique id
  Assets,           \* the files that slots refer to
  FileIds,          \* TDLib's ids of files
  Namings,          \* which file each id may stand for in a session of TDLib
  FirstNaming,      \* that of the first session
  Size,             \* the size of each file
  Rows,             \* bound: rows that are worked off at a time
  BatchSize,        \* maxFilesPerTick
  Concurrency,      \* maxConcurrentDownloads
  MaxStaleAttempts, \* MAX_STALE_DOWNLOAD_ATTEMPTS
  Callers,          \* update handlers and requests at work
  NoAsset, NoJob, NoId,
  MaxCalls,         \* bound: slots recorded and files requested
  MaxFaults         \* bound: crashes, failed statements of the tick and of enqueuers

ASSUME FilesAssumption ==
  /\ Assets \subseteq Files
  /\ Namings \subseteq [FileIds -> Files] /\ FirstNaming \in Namings
  /\ NoAsset \notin Files /\ NoId \notin FileIds
  /\ Size \in [Files -> Nat \ {0}] /\ IsFiniteSet(Rows)
  /\ BatchSize \in Nat \ {0} /\ Concurrency \in Nat \ {0} /\ MaxStaleAttempts \in Nat \ {0}
  /\ MaxCalls \in Nat /\ MaxFaults \in Nat

VARIABLES
  asset,      \* table telegram_file_assets
  job,        \* table telegram_file_download_jobs
  pointer,    \* table telegram_tdlib_files: the file an id was last seen with
  naming,     \* TDLib: the file each id stands for
  local,      \* TDLib: how much of each file is on disk
  up,         \* whether the process runs
  timer,      \* whether the worker's timer is set
  pending,    \* whether the worker was woken during the tick
  pc,         \* the stage of the tick
  completed,  \* the completed files to store, with the id TDLib reported
  work,       \* the rows being worked off, and what is done for each
  turn,       \* the tick's rows that are worked off now
  left,       \* the rows that run on though their tick has failed
  result,     \* what the tick has found so far
  call,       \* the slots being recorded and the files being requested
  outlived,   \* history: the assets whose row outlived its tick
  unseen,     \* history: jobs nobody is going to tell the worker of
  overlooked, \* history: the last tick worked off rows of its own
  calls, faults

tables == <<asset, job, pointer>>
tdlib == <<naming, local>>
waking == <<timer, pending>>
rows == <<work, turn, left>>
worker == <<up, pc, completed, rows, result>>
history == <<outlived, unseen, overlooked>>
bounds == <<calls, faults>>
vars == <<tables, tdlib, waking, worker, call, history, bounds>>

-----------------------------------------------------------------------------
(* Values *)

(* "stalled": failed at the retry limit, which may be retried automatically. *)
AssetStatuses == {"known", "ready", "failed", "stalled"}

Asset == [status : AssetStatuses, file : FileIds, downloaded : Nat]

(* Claims and repeated dispatches are counted, across crashes, up to the limit *)
(* ("bounded retry", telegramFiles.md).                                       *)
Job ==
  [status : {"queued", "downloading"}, attempts : 0..MaxStaleAttempts, stale : BOOLEAN]

NoWork == [kind |-> "none"]

(* The steps after which an error fails the job ... *)
RowSteps ==
  {"claimed", "waiting", "recovering", "inspecting", "redispatching", "dispatching", "reading"}

(* ... those of storing a completed file, whose error is reported twice ...  *)
StoreSteps == {"storing", "readying", "unlinking"}

(* ... and those that report it. *)
FailSteps == {"stalling", "failing", "dropping", "failingStore", "droppingStore"}

Work ==
  {NoWork} \cup
  [kind : {"completed", "stale", "claimed"}, asset : Assets,
   pc : RowSteps \cup StoreSteps \cup FailSteps \cup {"cleaning"},
   file : FileIds, attempts : 0..MaxStaleAttempts]

(* An empty column is no row. *)
ASSUME RowsAssumption == NoAsset \notin Asset /\ NoJob \notin Job

Stages == {"idle", "storing", "reconciling", "claiming", "processing"}

NoResult == [again |-> FALSE, reconciled |-> FALSE, cut |-> FALSE]

Idle == [pc |-> "idle"]

Call ==
  {Idle} \cup [pc : {"enqueueing", "resetting", "telling"}, asset : Assets, wakes : BOOLEAN]

TypeOK ==
  /\ asset \in [Assets -> Asset \cup {NoAsset}]
  /\ job \in [Assets -> Job \cup {NoJob}]
  /\ pointer \in [FileIds -> Files \cup {NoAsset}]
  /\ naming \in Namings /\ local \in [Files -> Nat]
  /\ up \in BOOLEAN /\ timer \in BOOLEAN /\ pending \in BOOLEAN
  /\ pc \in Stages
  /\ completed \in [Assets -> FileIds \cup {NoId}]
  /\ work \in [Rows -> Work] /\ turn \subseteq Rows /\ left \subseteq Rows
  /\ result \in [again : BOOLEAN, reconciled : BOOLEAN, cut : BOOLEAN]
  /\ call \in [Callers -> Call]
  /\ outlived \subseteq Assets /\ unseen \subseteq Assets /\ overlooked \in BOOLEAN
  /\ calls \in 0..MaxCalls /\ faults \in 0..MaxFaults

Init ==
  /\ asset = [a \in Assets |-> NoAsset]
  /\ job = [a \in Assets |-> NoJob]
  /\ pointer = [f \in FileIds |-> NoAsset]
  /\ naming = FirstNaming /\ local = [x \in Files |-> 0]
  /\ up = TRUE /\ timer = TRUE /\ pending = FALSE /\ pc = "idle"
  /\ completed = [a \in Assets |-> NoId]
  /\ work = [r \in Rows |-> NoWork] /\ turn = {} /\ left = {} /\ result = NoResult
  /\ call = [c \in Callers |-> Idle]
  /\ outlived = {} /\ unseen = {} /\ overlooked = FALSE
  /\ calls = 0 /\ faults = 0

Queued == {a \in Assets : job[a] # NoJob /\ job[a].status = "queued"}

Downloading == {a \in Assets : job[a] # NoJob /\ job[a].status = "downloading"}

Stale == {a \in Downloading : job[a].stale}

Busy == {r \in Rows : work[r] # NoWork}

(* The rows of the tick. *)
Own == Busy \ left

-----------------------------------------------------------------------------
(* Waking the worker *)

Schedule ==
  IF pc = "idle" THEN timer' = TRUE /\ UNCHANGED pending
                 ELSE pending' = TRUE /\ UNCHANGED timer

(* A queue-changed event that counts a queued job; it may tell of the past. *)
QueueEvent ==
  /\ up /\ Schedule
  /\ UNCHANGED <<tables, tdlib, worker, call, history, bounds>>

(* Mutant: a wake-up during the tick is forgotten. *)
EndTickForgetful(again) ==
  /\ pc' = "idle"
  /\ timer' = again /\ pending' = FALSE
  /\ result' = NoResult
  /\ overlooked' = (result.reconciled \/ pc = "processing")

(* The end of a tick, and whether it asks for another. *)
EndTick(again) ==
  /\ pc' = "idle"
  /\ timer' = (pending \/ again) /\ pending' = FALSE
  /\ result' = NoResult
  /\ overlooked' = (result.reconciled \/ pc = "processing")

-----------------------------------------------------------------------------
(* TDLib *)

(* TDLib has downloaded some more of a file, for whatever reason. *)
Progress(x) ==
  /\ local[x] < Size[x]
  /\ local' = [local EXCEPT ![x] = @ + 1]
  /\ UNCHANGED <<tables, naming, waking, worker, call, history, bounds>>

(* A snapshot of the file matches its asset by key and latest id. *)
Matches(a, f) ==
  a \in Assets /\ asset[a] # NoAsset /\ asset[a].file = f /\ asset[a].status # "ready"

Tells(a, f) == Matches(a, f) /\ (local[a] = Size[a] \/ asset[a].downloaded # local[a])

(* updateFile: the progress is recorded, a completed file is kept for the worker. *)
UpdateFile(f) ==
  LET a == naming[f]
  IN  /\ up
      /\ pointer' = [pointer EXCEPT ![f] = a]
      /\ asset' = IF Tells(a, f) THEN [asset EXCEPT ![a].downloaded = local[a]] ELSE asset
      /\ IF Tells(a, f) /\ local[a] = Size[a]
         THEN completed' = [completed EXCEPT ![a] = f] /\ Schedule
         ELSE UNCHANGED <<completed, waking>>
      /\ UNCHANGED <<job, tdlib, up, pc, rows, result, call, history, bounds>>

(* The claim of a job times out. *)
ClaimExpires(a) ==
  /\ a \in Downloading /\ ~job[a].stale
  /\ job' = [job EXCEPT ![a].stale = TRUE]
  /\ UNCHANGED <<asset, pointer, tdlib, waking, worker, call, history, bounds>>

-----------------------------------------------------------------------------
(* Recording a slot and requesting a file *)

(* The slot names the file; the policy decides on the status just read.  What *)
(* the rules say of the slot's kind and size is open.                        *)
RecordSlot(c, f) ==
  LET a == naming[f]
  IN  /\ a \in Assets
      /\ up /\ call[c] = Idle /\ calls < MaxCalls
      /\ calls' = calls + 1
      /\ pointer' = [pointer EXCEPT ![f] = a]
      /\ asset' = [asset EXCEPT ![a] =
                     IF @ = NoAsset THEN [status |-> "known", file |-> f, downloaded |-> 0]
                     ELSE [@ EXCEPT !.file = f]]
      /\ \/ UNCHANGED call
         \/ /\ asset'[a].status \in {"known", "stalled"}
            /\ call' = [call EXCEPT ![c] = [pc |-> "enqueueing", asset |-> a, wakes |-> FALSE]]
      /\ UNCHANGED <<job, tdlib, worker, waking, history, faults>>

(* An explicit request for the file of a slot. *)
RequestFile(c, a) ==
  /\ up /\ call[c] = Idle /\ calls < MaxCalls
  /\ calls' = calls + 1
  /\ asset[a] # NoAsset /\ asset[a].status # "ready"
  /\ call' = [call EXCEPT ![c] = [pc |-> "enqueueing", asset |-> a, wakes |-> TRUE]]
  /\ UNCHANGED <<tables, tdlib, worker, waking, history, faults>>

(* A job that is there is left as it is, but for its priority. *)
Enqueue(c) ==
  /\ call[c].pc = "enqueueing"
  /\ LET a == call[c].asset
     IN  /\ job' = [job EXCEPT ![a] =
                      IF @ = NoJob THEN [status |-> "queued", attempts |-> 0, stale |-> FALSE]
                      ELSE @]
         /\ \E raised \in BOOLEAN :
              call' = [call EXCEPT ![c].pc = "resetting",
                                   ![c].wakes = @ \/ raised \/ job[a] = NoJob]
  /\ UNCHANGED <<asset, pointer, tdlib, worker, waking, history, bounds>>

ResetFailure(c) ==
  /\ call[c].pc = "resetting"
  /\ asset' = [asset EXCEPT ![call[c].asset].status =
                 IF @ \in {"failed", "stalled"} THEN "known" ELSE @]
  /\ call' = [call EXCEPT ![c].pc = "telling"]
  /\ UNCHANGED <<job, pointer, tdlib, worker, waking, history, bounds>>

(* The owner and the queue are published and the worker is woken. *)
Tell(c) ==
  /\ call[c].pc = "telling"
  /\ call' = [call EXCEPT ![c] = Idle]
  /\ IF call[c].wakes THEN Schedule ELSE UNCHANGED waking
  /\ UNCHANGED <<tables, tdlib, worker, history, bounds>>

-----------------------------------------------------------------------------
(* The tick *)

outside == <<tables, tdlib, up, call, bounds>>

UpToBatch(n) == IF n < BatchSize THEN n ELSE BatchSize

Free == Rows \ Busy

(* The ways to give each asset a free row; it does not matter which is taken. *)
Seatings(S) ==
  {seat \in [S -> Free] : \A a, b \in S : seat[a] = seat[b] => a = b}

(* The tick works off the row given for each asset of S. *)
Admit(S, row) ==
  /\ Seatings(S) # {}
  /\ LET seat == CHOOSE s \in Seatings(S) : TRUE
     IN  work' = [r \in Rows |->
                    IF \E a \in S : seat[a] = r THEN row[CHOOSE a \in S : seat[a] = r]
                    ELSE work[r]]

(* The tick takes up to a batch of the completed files out of the map. *)
TimerFires ==
  /\ up /\ pc = "idle" /\ timer
  /\ timer' = FALSE /\ pc' = "storing"
  /\ LET there == {a \in Assets : completed[a] # NoId}
     IN  \E taken \in SUBSET there :
           /\ Cardinality(taken) = UpToBatch(Cardinality(there))
           /\ completed' = [a \in Assets |-> IF a \in taken THEN NoId ELSE completed[a]]
           /\ Admit(taken, [a \in taken |->
                            [kind |-> "completed", asset |-> a, pc |-> "waiting",
                             file |-> completed[a], attempts |-> 0]])
           /\ result' = [NoResult EXCEPT !.again = there # taken]
  /\ unseen' = {}
  /\ UNCHANGED <<outside, pending, turn, left, outlived, overlooked>>

(* A row read for the worker: an id last seen with another file is recovered. *)
RowRead(kind, a) ==
  [kind |-> kind, asset |-> a,
   pc |-> IF pointer[asset[a].file] = a THEN "waiting" ELSE "recovering",
   file |-> asset[a].file, attempts |-> job[a].attempts]

ReadStale ==
  /\ pc = "storing" /\ Own = {}
  /\ \E taken \in SUBSET Stale :
       /\ Cardinality(taken) = UpToBatch(Cardinality(Stale))
       /\ Admit(taken, [a \in taken |-> RowRead("stale", a)])
       /\ result' = [result EXCEPT !.again = @ \/ taken # Stale, !.reconciled = taken # {}]
  /\ pc' = "reconciling"
  /\ UNCHANGED <<outside, waking, completed, turn, left, history>>

ReconcilingDone ==
  /\ pc = "reconciling" /\ Own = {}
  /\ pc' = "claiming"
  /\ UNCHANGED <<outside, waking, completed, rows, result, history>>

(* TDLib has too much to do: the queued jobs have to wait. *)
DeferQueued ==
  /\ pc = "claiming" /\ Own = {} /\ Queued # {}
  /\ EndTick(TRUE)
  /\ UNCHANGED <<outside, completed, rows, outlived, unseen>>

Reading == {r \in Own : work[r].pc = "claimed"}

Claim(a) ==
  /\ pc = "claiming" /\ a \in Queued /\ Reading = {} /\ ~result.cut
  /\ Cardinality(Own) < BatchSize /\ Free # {}
  /\ job' = [job EXCEPT ![a] = [status |-> "downloading", attempts |-> @.attempts + 1,
                                stale |-> FALSE]]
  /\ LET r == CHOOSE r \in Free : TRUE
     IN  work' = [work EXCEPT ![r] = [kind |-> "claimed", asset |-> a, pc |-> "claimed",
                                      file |-> asset[a].file, attempts |-> job[a].attempts]]
  /\ UNCHANGED <<asset, pointer, tdlib, up, waking, pc, completed, turn, left, result, call,
                 history, bounds>>

(* The claimed row is read.  When its job is gone by then, the tick claims no   *)
(* more, whatever is queued.                                                 *)
ReadClaimed(r) ==
  /\ pc = "claiming" /\ r \in Reading
  /\ LET a == work[r].asset
     IN  IF job[a] # NoJob
         THEN /\ work' = [work EXCEPT ![r] = RowRead("claimed", a)]
              /\ UNCHANGED <<result, unseen>>
         ELSE /\ work' = [work EXCEPT ![r] = NoWork]
              /\ result' = [result EXCEPT !.cut = TRUE]
              /\ unseen' = unseen \cup Queued
  /\ UNCHANGED <<outside, waking, pc, completed, turn, left, outlived, overlooked>>

(* Without a row to process, the tick looks whether something is downloading, *)
(* unless it has reconciled stale jobs.                                      *)
ClaimingDone ==
  /\ pc = "claiming" /\ Reading = {}
  /\ Queued = {} \/ Cardinality(Own) = BatchSize \/ result.cut
  /\ IF Own = {}
     THEN EndTick(result.again \/ (~result.reconciled /\ Downloading # {}))
     ELSE /\ pc' = "processing"
          /\ result' = [result EXCEPT !.again = @ \/ Cardinality(Own) = BatchSize]
          /\ UNCHANGED <<waking, overlooked>>
  /\ UNCHANGED <<outside, completed, rows, outlived, unseen>>

(* Completed files and stale jobs are worked off one after the other, what was *)
(* claimed in slices.                                                        *)
NextTurn ==
  /\ pc \in {"storing", "reconciling", "processing"} /\ turn = {} /\ Own # {}
  /\ LET n == IF pc = "processing" THEN Concurrency ELSE 1
     IN  \E some \in SUBSET Own :
           /\ Cardinality(some) = IF Cardinality(Own) < n THEN Cardinality(Own) ELSE n
           /\ turn' = some
  /\ UNCHANGED <<outside, waking, pc, completed, work, left, result, history>>

ProcessingDone ==
  /\ pc = "processing" /\ Own = {}
  /\ EndTick(result.again)
  /\ UNCHANGED <<outside, completed, rows, outlived, unseen>>

-----------------------------------------------------------------------------
(* Working off a row *)

tick == <<up, waking, pc, completed, result, call, history, bounds>>

At(r, step) == r \in turn \cup left /\ work[r].pc = step

Starts(r, kind) == At(r, "waiting") /\ work[r].kind = kind

Go(r, step) == work' = [work EXCEPT ![r].pc = step] /\ UNCHANGED <<turn, left>>

Done(r) == work' = [work EXCEPT ![r] = NoWork] /\ turn' = turn \ {r} /\ left' = left \ {r}

(* The file the row's id stands for in TDLib, whichever that is by now. *)
Named(r) == naming[work[r].file]

(* The message is read again for the id its file has now. *)
Recover(r) ==
  /\ At(r, "recovering")
  /\ LET a == work[r].asset
     IN  \E f \in FileIds :
           /\ naming[f] = a
           /\ pointer' = [pointer EXCEPT ![f] = a]
           /\ asset' = [asset EXCEPT ![a].file = f]
           /\ work' = [work EXCEPT ![r] =
                         IF job[a] = NoJob THEN [@ EXCEPT !.pc = "failing"]
                         ELSE [@ EXCEPT !.file = f, !.attempts = job[a].attempts,
                                        !.pc = IF work[r].kind = "stale" THEN "inspecting"
                                               ELSE "dispatching"]]
  /\ UNCHANGED <<job, tdlib, turn, left, tick>>

(* Only a job that is still downloading is touched. *)
Claimed(a, counted) ==
  IF a \in Downloading
  THEN [job EXCEPT ![a].attempts = @ + counted, ![a].stale = FALSE]
  ELSE job

(* The row stays with TDLib, and the tick asks to be followed by another. *)
Watch(r, counted) ==
  /\ job' = Claimed(work[r].asset, counted)
  /\ result' = [result EXCEPT !.again = @ \/ r \notin left]
  /\ Done(r)

(* Mutant: one attempt too many. *)
RetriesLeftOver(r) == work[r].attempts <= MaxStaleAttempts

RetriesLeft(r) == work[r].attempts < MaxStaleAttempts

(* A stale job: TDLib is asked for the file.  Fresh progress renews the claim; *)
(* without it the download is dispatched again, or fails at the limit.       *)
Inspect(r) ==
  /\ Starts(r, "stale") \/ At(r, "inspecting")
  /\ LET b == Named(r)
         f == work[r].file
         askAgain == Go(r, IF RetriesLeft(r) THEN "redispatching" ELSE "stalling")
     IN  \/ /\ local[b] = Size[b]
            /\ Go(r, "reading")
            /\ UNCHANGED <<tables, result>>
         \/ /\ local[b] # Size[b]
            /\ pointer' = [pointer EXCEPT ![f] = b]
            /\ asset' = IF Tells(b, f) THEN [asset EXCEPT ![b].downloaded = local[b]] ELSE asset
            /\ IF b = work[r].asset /\ Tells(b, f) THEN Watch(r, 0)
               ELSE askAgain /\ UNCHANGED <<job, result>>
         \/ /\ askAgain  \* TDLib does not know the file
            /\ UNCHANGED <<tables, result>>
  /\ UNCHANGED <<tdlib, up, waking, pc, completed, call, history, bounds>>

(* Mutant: a download dispatched again is not counted. *)
RedispatchUncounted(r) ==
  /\ At(r, "redispatching")
  /\ Watch(r, 0)
  /\ UNCHANGED <<asset, pointer, tdlib, up, waking, pc, completed, call, history, bounds>>

Redispatch(r) ==
  /\ At(r, "redispatching")
  /\ Watch(r, 1)
  /\ UNCHANGED <<asset, pointer, tdlib, up, waking, pc, completed, call, history, bounds>>

(* A claimed job: TDLib is told to download, and may have the file already. *)
Dispatch(r) ==
  /\ Starts(r, "claimed") \/ At(r, "dispatching")
  /\ IF local[Named(r)] = Size[Named(r)]
     THEN Go(r, "reading") /\ UNCHANGED <<job, result>>
     ELSE Watch(r, 0)
  /\ UNCHANGED <<asset, pointer, tdlib, up, waking, pc, completed, call, history, bounds>>

(* Mutant: a completed file is stored whether or not a job asked for it. *)
ReadRowUnasked(r) ==
  /\ Starts(r, "completed") \/ At(r, "reading")
  /\ IF asset[work[r].asset].file = work[r].file THEN Go(r, "storing") ELSE Done(r)
  /\ UNCHANGED <<tables, tdlib, tick>>

(* A completed file is stored for the asset whose latest id it has; otherwise  *)
(* nothing is done.                                                          *)
ReadRow(r) ==
  /\ Starts(r, "completed") \/ At(r, "reading")
  /\ LET a == work[r].asset
     IN  IF job[a] # NoJob /\ asset[a].file = work[r].file THEN Go(r, "storing") ELSE Done(r)
  /\ UNCHANGED <<tables, tdlib, tick>>

Store(r) ==
  /\ At(r, "storing") /\ local[Named(r)] = Size[Named(r)]
  /\ Go(r, "readying")
  /\ UNCHANGED <<tables, tdlib, tick>>

(* Whatever the asset has become: the update has no other condition. *)
MarkReady(r) ==
  /\ At(r, "readying")
  /\ asset' = [asset EXCEPT ![work[r].asset].status = "ready",
                            ![work[r].asset].downloaded = Size[Named(r)]]
  /\ Go(r, "unlinking")
  /\ UNCHANGED <<job, pointer, tdlib, tick>>

DeleteJob(a) == job' = [job EXCEPT ![a] = NoJob]

Unlink(r) ==
  /\ At(r, "unlinking")
  /\ DeleteJob(work[r].asset)
  /\ Go(r, "cleaning")
  /\ UNCHANGED <<asset, pointer, tdlib, tick>>

(* TDLib's copy is deleted, or stays where it is. *)
Cleanup(r) ==
  /\ At(r, "cleaning")
  /\ \/ local' = [local EXCEPT ![Named(r)] = 0]
     \/ UNCHANGED local
  /\ Done(r)
  /\ UNCHANGED <<tables, naming, tick>>

(* An error fails the job, one of publishing the stored file too; one while a *)
(* completed file is stored does so before it is reported to the caller.     *)
RowFails(r) ==
  /\ r \in turn \cup left
  /\ \/ /\ work[r].pc \in RowSteps \cup {"cleaning"}
        /\ IF work[r].kind = "completed" THEN Done(r) ELSE Go(r, "failing")
     \/ /\ work[r].pc \in StoreSteps
        /\ Go(r, "failingStore")
  /\ UNCHANGED <<tables, tdlib, tick>>

(* Mutant: a failure overwrites whatever the asset has become. *)
MarkFailedAnyway(r) ==
  /\ r \in turn \cup left /\ work[r].pc \in {"stalling", "failing", "failingStore"}
  /\ asset' = [asset EXCEPT ![work[r].asset].status =
                 IF work[r].pc = "stalling" THEN "stalled" ELSE "failed"]
  /\ Go(r, IF work[r].pc = "failingStore" THEN "droppingStore" ELSE "dropping")
  /\ UNCHANGED <<job, pointer, tdlib, tick>>

MarkFailed(r) ==
  /\ r \in turn \cup left /\ work[r].pc \in {"stalling", "failing", "failingStore"}
  /\ asset' = [asset EXCEPT ![work[r].asset].status =
                 IF @ = "ready" THEN "ready"
                 ELSE IF work[r].pc = "stalling" THEN "stalled" ELSE "failed"]
  /\ Go(r, IF work[r].pc = "failingStore" THEN "droppingStore" ELSE "dropping")
  /\ UNCHANGED <<job, pointer, tdlib, tick>>

DropJob(r) ==
  /\ At(r, "dropping") \/ At(r, "droppingStore")
  /\ DeleteJob(work[r].asset)
  /\ IF work[r].pc = "droppingStore" /\ work[r].kind # "completed"
     THEN Go(r, "failing") ELSE Done(r)
  /\ UNCHANGED <<asset, pointer, tdlib, tick>>

-----------------------------------------------------------------------------
(* Failures *)

Fault == faults < MaxFaults /\ faults' = faults + 1 /\ UNCHANGED calls

(* The rows the tick has not started are not worked off, those in some run on. *)
Abandon(some) ==
  /\ work' = [r \in Rows |-> IF r \in some \cup left THEN work[r] ELSE NoWork]
  /\ turn' = {} /\ left' = left \cup some
  /\ outlived' = outlived \cup {work[r].asset : r \in some}

(* A statement between the stages fails: the tick comes again after a while. *)
TickFails ==
  /\ pc = "claiming" \/ (pc \in {"storing", "reconciling", "processing"} /\ Own = {})
  /\ Fault
  /\ EndTick(TRUE) /\ Abandon({})
  /\ UNCHANGED <<tables, tdlib, up, completed, call, unseen>>

(* A statement that reports a failure fails.  For a completed file this is      *)
(* only logged, and while a file is stored the caller reports once more.  Else  *)
(* it ends the tick, which does not wait for the other rows of the slice, or,  *)
(* for such a row, nothing more than the row itself.                          *)
ReportFails(r) ==
  /\ r \in turn \cup left /\ work[r].pc \in FailSteps
  /\ Fault
  /\ \/ /\ work[r].pc \in {"failingStore", "droppingStore"}
        /\ IF work[r].kind = "completed" THEN Done(r) ELSE Go(r, "failing")
        /\ UNCHANGED <<waking, pc, result, history>>
     \/ /\ work[r].pc \in {"stalling", "failing", "dropping"}
        /\ IF r \in left
           THEN Done(r) /\ UNCHANGED <<waking, pc, result, history>>
           ELSE EndTick(TRUE) /\ Abandon(turn \ {r}) /\ UNCHANGED unseen
  /\ UNCHANGED <<tables, tdlib, up, completed, call>>

(* A statement of an enqueuer, or of the slots it records with this one, fails: *)
(* it wakes nobody, also for a job it has inserted.                            *)
CallFails(c) ==
  /\ call[c] # Idle
  /\ Fault
  /\ call' = [call EXCEPT ![c] = Idle]
  /\ unseen' = IF call[c].pc # "enqueueing" /\ call[c].wakes
               THEN unseen \cup {call[c].asset} ELSE unseen
  /\ UNCHANGED <<tables, tdlib, waking, worker, outlived, overlooked>>

Crash ==
  /\ up /\ Fault
  /\ up' = FALSE /\ timer' = FALSE /\ pending' = FALSE /\ pc' = "idle"
  /\ work' = [r \in Rows |-> NoWork] /\ turn' = {} /\ left' = {}
  /\ completed' = [a \in Assets |-> NoId]
  /\ result' = NoResult
  /\ call' = [c \in Callers |-> Idle]
  /\ outlived' = {} /\ unseen' = {} /\ overlooked' = FALSE
  /\ UNCHANGED <<tables, tdlib>>

(* TDLib names its files anew. *)
Restart ==
  /\ ~up
  /\ up' = TRUE /\ timer' = TRUE
  /\ naming' \in Namings
  /\ UNCHANGED <<tables, local, pending, pc, completed, rows, result, call, history, bounds>>

-----------------------------------------------------------------------------
Stage ==
  \/ ReadStale \/ ReconcilingDone \/ DeferQueued \/ ClaimingDone \/ NextTurn
  \/ ProcessingDone \/ (\E a \in Assets : Claim(a)) \/ \E r \in Rows : ReadClaimed(r)

Row(r) ==
  \/ Recover(r) \/ Inspect(r) \/ Redispatch(r) \/ Dispatch(r) \/ ReadRow(r) \/ Store(r)
  \/ MarkReady(r) \/ Unlink(r) \/ Cleanup(r) \/ RowFails(r) \/ MarkFailed(r) \/ DropJob(r)

Calling(c) == Enqueue(c) \/ ResetFailure(c) \/ Tell(c)

Next ==
  \/ TimerFires \/ Stage \/ \E r \in Rows : Row(r)
  \/ QueueEvent \/ \E f \in FileIds : UpdateFile(f)
  \/ (\E x \in Files : Progress(x)) \/ \E a \in Assets : ClaimExpires(a)
  \/ \E c \in Callers :
       \/ Calling(c) \/ (\E f \in FileIds : RecordSlot(c, f))
       \/ (\E a \in Assets : RequestFile(c, a)) \/ CallFails(c)
  \/ TickFails \/ (\E r \in Rows : ReportFails(r)) \/ Crash \/ Restart

Spec == Init /\ [][Next]_vars

(* A tick goes from stage to stage: every call of TDLib and every statement    *)
(* ends, one way or another.                                                 *)
TickMoves == pc # "idle" /\ pc' \in Stages

Reconciles(a) == \E r \in Busy : work[r].kind = "stale" /\ work[r].asset = a

(* The timer fires, a claim times out, updates and requests are handled to the *)
(* end; TDLib is not busy whenever the worker wants to claim, and the oldest   *)
(* of the queued and of the stale jobs come first.                           *)
Fairness ==
  /\ WF_pc(TickMoves) /\ WF_vars(TimerFires) /\ WF_vars(Restart)
  /\ \A c \in Callers : WF_vars(Calling(c))
  /\ \A a \in Assets : WF_vars(ClaimExpires(a)) /\ SF_vars(Claim(a))
  /\ \A a \in Assets : []<>(pc = "storing" /\ a \in Stale) => []<>Reconciles(a)

LiveSpec == Spec /\ Fairness

-----------------------------------------------------------------------------
(* Properties *)

Asleep == up /\ pc = "idle" /\ ~timer

(* While the process runs and no tick does, what waits for the worker has its   *)
(* timer set (schedule, handleTickResult): a queued job, unless its enqueuer is  *)
(* still at work, or nobody was going to tell of it since the last tick began;  *)
(* a completed file; and an open download, unless the last tick had rows of its *)
(* own and did not look at it.                                               *)
NoLostWakeup ==
  Asleep =>
    /\ \A a \in Queued : a \in unseen \/ \E c \in Callers : call[c] # Idle /\ call[c].asset = a
    /\ \A a \in Assets : completed[a] = NoId
    /\ Downloading # {} => overlooked

(* A row is worked off only under a job, and one TDLib is asked about is        *)
(* downloading: no update, no enqueuer and no second report of a failure takes  *)
(* the job away in between, although markFileDownloadReady and                *)
(* markFileDownloadFailed delete by asset key alone.  A row that outlived its   *)
(* tick does, so its asset is excepted as long as the process runs.           *)
WorkHasJob ==
  \A r \in Busy : work[r].asset \notin outlived =>
    /\ work[r].pc \in StoreSteps => job[work[r].asset] # NoJob
    /\ work[r].kind # "completed" /\ work[r].pc \in RowSteps => work[r].asset \in Downloading

(* The status a FileRef shows (effectiveFileStatus), with the failures at the    *)
(* retry limit told from the others.                                         *)
FileStatus(a) ==
  IF asset[a] = NoAsset THEN "absent"
  ELSE IF asset[a].status = "ready" THEN "ready"
  ELSE IF job[a] # NoJob THEN job[a].status
  ELSE asset[a].status

(* Who is about to insert a job. *)
Wanted ==
  {[asset |-> call[c].asset, by |-> IF call[c].wakes THEN "request" ELSE "slot"] :
     c \in {d \in Callers : call[d].pc = "enqueueing"}}

Lifecycle == INSTANCE FileLifecycle
               WITH status <- [a \in Assets |-> FileStatus(a)], wanted <- Wanted,
                    strays <- outlived

(* What is shown of a file follows the state machine of telegramFiles.md with  *)
(* the steps FileLifecycle adds, each under its condition: a ready file stays    *)
(* ready, none becomes ready unqueued but where a row outlived its tick, and a   *)
(* failure is retried unasked only at the retry limit or by a slot that was     *)
(* recorded before it.                                                       *)
RefinesLifecycle == Lifecycle!Spec

(* A queued job is claimed or ended in the end, unless nobody was going to tell  *)
(* the worker of it: wake-ups, deferrals, failing ticks and crashes do not leave *)
(* it behind.  And no download stays open - it is completed, renewed by          *)
(* progress, dispatched again or failed - unless the last tick had rows of its   *)
(* own, did not look at it, and nothing has woken the worker since.            *)
JobsMoveOn ==
  \A a \in Assets :
    /\ a \in Queued ~> a \notin Queued \/ a \in unseen
    /\ a \in Downloading ~> a \notin Downloading \/ (Asleep /\ overlooked)

=============================================================================
