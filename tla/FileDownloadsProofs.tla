------------------------ MODULE FileDownloadsProofs ------------------------
(***************************************************************************)
(* Theorems about FileDownloads, for any files, ids, rows, batches and         *)
(* bounds: its types, that the worker never works without a job and never     *)
(* oversleeps one, and that what it shows of a file follows FileLifecycle, all  *)
(* with the exceptions those properties name.                                *)
(***************************************************************************)
EXTENDS FileDownloads, FiniteSetTheorems, TLAPS

-----------------------------------------------------------------------------
(* The inductive invariant *)

Steps == RowSteps \cup StoreSteps \cup FailSteps \cup {"cleaning"}

(* A row that is worked off. *)
Task ==
  [kind : {"completed", "stale", "claimed"}, asset : Assets, pc : Steps, file : FileIds,
   attempts : 0..MaxStaleAttempts]

(* What is stored from the completed map passes by these steps only. *)
CompletedSteps == {"waiting", "cleaning", "failingStore", "droppingStore"} \cup StoreSteps

AssetInv(a) ==
  /\ job[a] # NoJob \/ completed[a] # NoId => asset[a] # NoAsset
  /\ job[a] # NoJob /\ job[a].status = "queued" => job[a].attempts = 0

IsDownloading(a) == job[a] # NoJob /\ job[a].status = "downloading"

(* What holds of a row even when others work on its asset. *)
Sound(r) ==
  LET a == work[r].asset
  IN  /\ asset[a] # NoAsset
      /\ work[r].kind = "completed" => work[r].pc \in CompletedSteps
      /\ work[r].pc \in {"inspecting", "redispatching"} => work[r].kind = "stale"
      /\ work[r].pc = "redispatching" => work[r].attempts < MaxStaleAttempts
      /\ work[r].kind = "stale" /\ IsDownloading(a) => job[a].attempts <= work[r].attempts
      /\ work[r].pc \in {"unlinking", "cleaning"} => asset[a].status = "ready"

(* What holds of a row that is alone with its asset. *)
Fits(r) ==
  LET a == work[r].asset
  IN  /\ work[r].pc \in StoreSteps \cup {"failingStore"} => job[a] # NoJob
      /\ work[r].kind # "completed" /\ work[r].pc \in RowSteps => IsDownloading(a)
      /\ work[r].pc = "stalling" => IsDownloading(a)
      /\ work[r].pc = "droppingStore" => asset[a].status # "stalled"
      /\ work[r].pc = "failing" /\ job[a] = NoJob => asset[a].status # "stalled"
      /\ work[r].pc = "dropping" /\ asset[a].status = "stalled" => IsDownloading(a)

(* Which rows a stage works off.  Only claimed ones outlive their tick. *)
Placed(r) ==
  /\ r \in left => work[r].asset \in outlived /\ work[r].kind = "claimed"
  /\ r \notin left =>
       /\ pc # "idle"
       /\ pc = "storing" => work[r].kind = "completed"
       /\ pc = "reconciling" => work[r].kind = "stale"
       /\ pc \in {"claiming", "processing"} => work[r].kind = "claimed"
       /\ pc = "claiming" => work[r].pc \in {"claimed", "waiting", "recovering"}

RowInv(r) ==
  work[r] # NoWork => Sound(r) /\ Placed(r) /\ (work[r].asset \notin outlived => Fits(r))

(* Only where a row outlived its tick do two rows work on one asset. *)
PairInv(r, s) ==
  r # s /\ work[r] # NoWork /\ work[s] # NoWork /\ work[r].asset = work[s].asset =>
    work[r].asset \in outlived /\ (work[r].kind # "stale" \/ work[s].kind # "stale")

TurnInv ==
  /\ \A r \in turn \cup left : work[r] # NoWork
  /\ turn \cap left = {}
  /\ pc \in {"idle", "claiming"} => turn = {}
  /\ pc \in {"storing", "reconciling"} => \A r, s \in turn : r = s

CallInv(c) == call[c] # Idle => asset[call[c].asset] # NoAsset

FInv ==
  /\ TypeOK /\ TurnInv
  /\ \A a \in Assets : AssetInv(a)
  /\ \A r \in Rows : RowInv(r)
  /\ \A r, s \in Rows : PairInv(r, s)
  /\ \A c \in Callers : CallInv(c)

(* Who has enqueued a job and is going to wake the worker for it. *)
IsWoken(a) ==
  \E c \in Callers :
    call[c] # Idle /\ call[c].pc \in {"resetting", "telling"} /\ call[c].asset = a /\ call[c].wakes

Attended == \A a \in Queued : a \in unseen \/ IsWoken(a)

(* Whatever waits for the worker will be seen, by the timer, by a wake-up in    *)
(* the tick, by what the tick found, or by the jobs it is still to claim.      *)
WakeInv ==
  /\ ~up => pc = "idle"
  /\ pc \in {"storing", "reconciling"} => ~result.cut
  /\ Asleep =>
       /\ Attended
       /\ \A a \in Assets : completed[a] = NoId
       /\ Downloading # {} => overlooked
  /\ up /\ pc # "idle" /\ ~pending /\ ~result.again =>
       /\ \A a \in Assets : completed[a] = NoId
       /\ pc = "processing" \/ (pc = "claiming" /\ result.cut) => Attended


-----------------------------------------------------------------------------
(* What single writes do *)

(* The rows and the work there are. *)
LEMMA Kinds ==
  ASSUME TypeOK, NEW a \in Assets
  PROVE  /\ asset[a] # NoAsset => asset[a] \in Asset
         /\ job[a] # NoJob => job[a] \in Job
         /\ completed[a] # NoId => completed[a] \in FileIds
         /\ a \in Files
BY FilesAssumption DEF TypeOK

LEMMA TaskIsWork ==
  ASSUME TypeOK, NEW r \in Rows, work[r] # NoWork
  PROVE  work[r] \in Task
BY DEF TypeOK, Work, Task, Steps

(* A row of work is not the absence of it. *)
LEMMA WorkIsSome ==
  ASSUME NEW w \in Task
  PROVE  w # NoWork /\ w \in Work
BY DEF NoWork, Work, Task, Steps

(* A row that goes to another step keeps what it is about. *)
LEMMA GoWrites ==
  ASSUME TypeOK, NEW r \in Rows, work[r] # NoWork, NEW step \in Steps, Go(r, step)
  PROVE  /\ work' \in [Rows -> Work] /\ work'[r] # NoWork
         /\ work'[r].pc = step /\ work'[r].kind = work[r].kind /\ work'[r].file = work[r].file
         /\ work'[r].asset = work[r].asset /\ work'[r].attempts = work[r].attempts
         /\ \A s \in Rows : s # r => work'[s] = work[s]
         /\ turn' = turn /\ left' = left
<1>1. work[r] \in Task /\ work \in [Rows -> Work]
  BY TaskIsWork DEF TypeOK
<1>2. PICK w \in Task :
        /\ w = [work[r] EXCEPT !.pc = step]
        /\ w.pc = step /\ w.kind = work[r].kind /\ w.file = work[r].file
        /\ w.asset = work[r].asset /\ w.attempts = work[r].attempts
  <2> DEFINE w == [work[r] EXCEPT !.pc = step]
  <2>1. /\ w \in Task
        /\ w.pc = step /\ w.kind = work[r].kind /\ w.file = work[r].file
        /\ w.asset = work[r].asset /\ w.attempts = work[r].attempts
    BY <1>1 DEF Task
  <2> QED
    BY <2>1
<1>3. work' = [work EXCEPT ![r] = w] /\ turn' = turn /\ left' = left
  BY <1>1, <1>2 DEF Go
<1>4. w # NoWork /\ w \in Work
  BY WorkIsSome
<1> QED
  BY <1>1, <1>2, <1>3, <1>4

LEMMA DoneWrites ==
  ASSUME TypeOK, NEW r \in Rows, Done(r)
  PROVE  /\ work' \in [Rows -> Work] /\ work'[r] = NoWork
         /\ \A s \in Rows : s # r => work'[s] = work[s]
         /\ turn' = turn \ {r} /\ left' = left \ {r}
BY DEF TypeOK, Done, Work

(* A new status, or a new id, is written to a row that is there. *)
LEMMA StatusWrites ==
  ASSUME TypeOK, NEW a \in Assets, asset[a] # NoAsset, NEW st \in AssetStatuses,
         asset' = [asset EXCEPT ![a].status = st]
  PROVE  /\ asset' \in [Assets -> Asset \cup {NoAsset}] /\ asset'[a] # NoAsset
         /\ asset'[a].status = st
         /\ \A b \in Assets : b # a => asset'[b] = asset[b]
<1>1. asset[a] \in Asset /\ asset \in [Assets -> Asset \cup {NoAsset}]
  BY Kinds DEF TypeOK
<1>2. PICK x \in Asset : x = [asset[a] EXCEPT !.status = st] /\ x.status = st
  BY <1>1 DEF Asset
<1>3. asset' = [asset EXCEPT ![a] = x]
  BY <1>1, <1>2
<1> QED
  BY <1>1, <1>2, <1>3, RowsAssumption

LEMMA FileWrites ==
  ASSUME TypeOK, NEW a \in Assets, asset[a] # NoAsset, NEW f \in FileIds,
         asset' = [asset EXCEPT ![a].file = f]
  PROVE  /\ asset' \in [Assets -> Asset \cup {NoAsset}] /\ asset'[a] # NoAsset
         /\ asset'[a].status = asset[a].status
         /\ \A b \in Assets : b # a => asset'[b] = asset[b]
<1>1. asset[a] \in Asset /\ asset \in [Assets -> Asset \cup {NoAsset}]
  BY Kinds DEF TypeOK
<1>2. PICK x \in Asset : x = [asset[a] EXCEPT !.file = f] /\ x.status = asset[a].status
  BY <1>1 DEF Asset
<1>3. asset' = [asset EXCEPT ![a] = x]
  BY <1>1, <1>2
<1> QED
  BY <1>1, <1>2, <1>3, RowsAssumption

LEMMA ReadyWrites ==
  ASSUME TypeOK, NEW a \in Assets, asset[a] # NoAsset, NEW n \in Nat,
         asset' = [asset EXCEPT ![a].status = "ready", ![a].downloaded = n]
  PROVE  /\ asset' \in [Assets -> Asset \cup {NoAsset}] /\ asset'[a] # NoAsset
         /\ asset'[a].status = "ready"
         /\ \A b \in Assets : b # a => asset'[b] = asset[b]
<1>1. asset[a] \in Asset /\ asset \in [Assets -> Asset \cup {NoAsset}]
  BY Kinds DEF TypeOK
<1>2. PICK x \in Asset : /\ x = [asset[a] EXCEPT !.status = "ready", !.downloaded = n]
                         /\ x.status = "ready"
  <2> DEFINE x == [asset[a] EXCEPT !.status = "ready", !.downloaded = n]
  <2>1. x \in Asset /\ x.status = "ready"
    BY <1>1 DEF Asset, AssetStatuses
  <2> QED
    BY <2>1
<1>3. asset' = [asset EXCEPT ![a] = x]
  BY <1>1, <1>2
<1> QED
  BY <1>1, <1>2, <1>3, RowsAssumption

(* Progress that is told of a file changes no status. *)
LEMMA ProgressWrites ==
  ASSUME TypeOK, NEW x \in Files, NEW f \in FileIds,
         asset' = IF Tells(x, f) THEN [asset EXCEPT ![x].downloaded = local[x]] ELSE asset
  PROVE  /\ asset' \in [Assets -> Asset \cup {NoAsset}]
         /\ \A b \in Assets : /\ asset'[b] # NoAsset <=> asset[b] # NoAsset
                              /\ asset[b] # NoAsset => asset'[b].status = asset[b].status
<1>1. asset \in [Assets -> Asset \cup {NoAsset}] /\ local[x] \in Nat
  BY DEF TypeOK
<1>2. CASE Tells(x, f)
  <2>1. x \in Assets /\ asset[x] # NoAsset
    BY <1>2 DEF Tells, Matches
  <2>2. asset[x] \in Asset
    BY <2>1, Kinds
  <2>3. PICK y \in Asset : y = [asset[x] EXCEPT !.downloaded = local[x]] /\ y.status = asset[x].status
    <3> DEFINE y == [asset[x] EXCEPT !.downloaded = local[x]]
    <3>1. y \in Asset /\ y.status = asset[x].status
      BY <1>1, <2>2 DEF Asset
    <3> QED
      BY <3>1
  <2>4. asset' = [asset EXCEPT ![x] = y]
    BY <1>1, <1>2, <2>1, <2>3
  <2> QED
    BY <1>1, <2>1, <2>3, <2>4, RowsAssumption
<1>3. CASE ~Tells(x, f)
  BY <1>1, <1>3
<1> QED
  BY <1>2, <1>3

(* A claim is counted and renewed, of a job that is still downloading. *)
LEMMA ClaimWrites ==
  ASSUME TypeOK, NEW a \in Assets, NEW counted \in {0, 1},
         IsDownloading(a) => job[a].attempts + counted <= MaxStaleAttempts,
         job' = Claimed(a, counted)
  PROVE  /\ job' \in [Assets -> Job \cup {NoJob}] /\ (job'[a] # NoJob <=> job[a] # NoJob)
         /\ job[a] # NoJob => job'[a].status = job[a].status
         /\ IsDownloading(a) => job'[a].attempts = job[a].attempts + counted
         /\ ~IsDownloading(a) => job'[a] = job[a]
         /\ \A b \in Assets : b # a => job'[b] = job[b]
<1>1. job \in [Assets -> Job \cup {NoJob}] /\ (job[a] # NoJob => job[a] \in Job)
  BY Kinds DEF TypeOK
<1>2. CASE ~IsDownloading(a)
  BY <1>1, <1>2 DEF Claimed, Downloading, IsDownloading
<1>3. CASE IsDownloading(a)
  <2>1. job[a] # NoJob /\ job[a] \in Job /\ a \in Downloading
    BY <1>1, <1>3 DEF IsDownloading, Downloading
  <2>2. job[a].attempts \in 0..MaxStaleAttempts /\ MaxStaleAttempts \in Nat
    BY <2>1, FilesAssumption DEF Job
  <2>3. job[a].attempts + counted \in 0..MaxStaleAttempts
    BY <1>3, <2>2
  <2>4. PICK j \in Job : /\ j = [job[a] EXCEPT !.attempts = @ + counted, !.stale = FALSE]
                         /\ j.status = job[a].status /\ j.attempts = job[a].attempts + counted
    <3> DEFINE j == [job[a] EXCEPT !.attempts = @ + counted, !.stale = FALSE]
    <3>1. j \in Job /\ j.status = job[a].status /\ j.attempts = job[a].attempts + counted
      BY <2>1, <2>3 DEF Job
    <3> QED
      BY <3>1
  <2>5. job' = [job EXCEPT ![a] = j]
    BY <1>1, <2>1, <2>4 DEF Claimed
  <2> QED
    BY <1>1, <1>3, <2>1, <2>4, <2>5, RowsAssumption
<1> QED
  BY <1>2, <1>3

-----------------------------------------------------------------------------
(* The types, and what a step on one row leaves of the others *)

(* The types of what is not a row of an asset or work for one. *)
Frame ==
  /\ pointer \in [FileIds -> Files \cup {NoAsset}]
  /\ naming \in Namings /\ local \in [Files -> Nat]
  /\ up \in BOOLEAN /\ timer \in BOOLEAN /\ pending \in BOOLEAN
  /\ pc \in Stages
  /\ turn \subseteq Rows /\ left \subseteq Rows
  /\ result \in [again : BOOLEAN, reconciled : BOOLEAN, cut : BOOLEAN]
  /\ call \in [Callers -> Call]
  /\ outlived \subseteq Assets /\ unseen \subseteq Assets /\ overlooked \in BOOLEAN
  /\ calls \in 0..MaxCalls /\ faults \in 0..MaxFaults

Entries ==
  /\ asset \in [Assets -> Asset \cup {NoAsset}]
  /\ job \in [Assets -> Job \cup {NoJob}]
  /\ completed \in [Assets -> FileIds \cup {NoId}]
  /\ work \in [Rows -> Work]

LEMMA Parts == TypeOK <=> Frame /\ Entries
BY DEF TypeOK, Frame, Entries

LEMMA PartsNext == TypeOK' <=> Frame' /\ Entries'
BY DEF TypeOK, Frame, Entries

(* What is known of a row that is worked off. *)
LEMMA WorkKnows ==
  ASSUME FInv, NEW r \in Rows, work[r] # NoWork
  PROVE  /\ TypeOK /\ Frame /\ Entries /\ Sound(r) /\ Placed(r)
         /\ work[r].asset \notin outlived => Fits(r)
         /\ work[r] \in Task /\ work[r].asset \in Assets /\ asset[work[r].asset] # NoAsset
         /\ work[r].kind \in {"completed", "stale", "claimed"} /\ work[r].pc \in Steps
         /\ work[r].file \in FileIds /\ Named(r) \in Files
         /\ work[r].attempts \in 0..MaxStaleAttempts
<1>1. TypeOK /\ RowInv(r) /\ Frame /\ Entries
  BY Parts DEF FInv
<1>2. work[r] \in Task
  BY <1>1, TaskIsWork
<1>3. /\ work[r].asset \in Assets /\ work[r].kind \in {"completed", "stale", "claimed"}
      /\ work[r].pc \in Steps /\ work[r].file \in FileIds
      /\ work[r].attempts \in 0..MaxStaleAttempts
  BY <1>2 DEF Task
<1>4. Named(r) \in Files
  BY <1>1, <1>3, FilesAssumption DEF Named, TypeOK
<1> QED
  BY <1>1, <1>2, <1>3, <1>4 DEF RowInv, Sound

(* No asset is lost, and a ready one stays ready. *)
Grows(b) ==
  asset[b] # NoAsset =>
    asset'[b] # NoAsset /\ (asset[b].status = "ready" => asset'[b].status = "ready")

(* The job of an asset is not claimed, nor dispatched again. *)
Unclaimed(b) == IsDownloading(b)' => IsDownloading(b) /\ job'[b].attempts <= job[b].attempts

(* Nothing is taken from a row that is alone with its asset. *)
Kept(b) ==
  /\ job[b] # NoJob => job'[b] # NoJob
  /\ IsDownloading(b) => IsDownloading(b)'
  /\ asset[b] # NoAsset /\ asset'[b].status = "stalled" => asset[b].status = "stalled"

(* What a step leaves of the asset it is not about. *)
Still(b) ==
  /\ asset'[b] # NoAsset <=> asset[b] # NoAsset
  /\ asset[b] # NoAsset => asset'[b].status = asset[b].status
  /\ job'[b] = job[b]

LEMMA StillKeeps ==
  ASSUME NEW b \in Assets, TypeOK, Still(b)
  PROVE  Grows(b) /\ Unclaimed(b) /\ Kept(b)
<1>1. IsDownloading(b)' <=> IsDownloading(b)
  BY DEF Still, IsDownloading
<1>2. IsDownloading(b) => job[b].attempts \in Nat
  BY Kinds, FilesAssumption DEF IsDownloading, Job
<1> QED
  BY <1>1, <1>2 DEF Still, Grows, Unclaimed, Kept

(* A row that nothing is done for. *)
LEMMA RowRests ==
  ASSUME FInv, NEW r \in Rows, work[r] # NoWork, work'[r] = work[r], Placed(r)', Entries',
         Grows(work[r].asset),
         work[r].kind = "stale" => Unclaimed(work[r].asset),
         work[r].asset \notin outlived' => work[r].asset \notin outlived /\ Kept(work[r].asset)
  PROVE  RowInv(r)'
<1> DEFINE a == work[r].asset
<1>1. /\ TypeOK /\ Sound(r) /\ a \in Assets /\ asset[a] # NoAsset
      /\ (a \notin outlived => Fits(r)) /\ work[r].attempts \in 0..MaxStaleAttempts
  BY WorkKnows
<1>2. asset'[a] # NoAsset /\ (asset[a].status = "ready" => asset'[a].status = "ready")
  BY <1>1 DEF Grows
<1>3. work[r].kind = "stale" /\ IsDownloading(a)' => job'[a].attempts <= work[r].attempts
  <2> SUFFICES ASSUME work[r].kind = "stale", IsDownloading(a)'
               PROVE  job'[a].attempts <= work[r].attempts
    OBVIOUS
  <2>1. IsDownloading(a) /\ job'[a].attempts <= job[a].attempts
    BY DEF Unclaimed
  <2>2. job[a].attempts <= work[r].attempts
    BY <1>1, <2>1 DEF Sound
  <2>3. job[a] # NoJob
    BY <2>1 DEF IsDownloading
  <2>4. job[a].attempts \in Int /\ work[r].attempts \in Int /\ job'[a].attempts \in Int
    <3>1. job[a] \in Job
      BY <1>1, <2>3, Kinds
    <3>2. job'[a] \in Job
      BY <1>1 DEF Entries, IsDownloading
    <3> QED
      BY <1>1, <3>1, <3>2, FilesAssumption DEF Job
  <2> QED
    BY <2>1, <2>2, <2>4
<1>4. Sound(r)'
  BY <1>1, <1>2, <1>3 DEF Sound
<1>5. a \notin outlived' => Fits(r)'
  BY <1>1 DEF Fits, Kept
<1> QED
  BY <1>4, <1>5 DEF RowInv

LEMMA CallsRest ==
  ASSUME FInv, NEW c \in Callers, call'[c] = call[c], \A b \in Assets : Grows(b)
  PROVE  CallInv(c)'
<1>1. CallInv(c) /\ call[c] \in Call
  BY DEF FInv, TypeOK
<1>2. call[c] # Idle => call[c].asset \in Assets
  BY <1>1 DEF Call
<1> QED
  BY <1>1, <1>2 DEF CallInv, Grows

LEMMA StillAsset ==
  ASSUME FInv, NEW b \in Assets, Still(b), completed'[b] \in {completed[b], NoId}
  PROVE  AssetInv(b)'
BY DEF FInv, AssetInv, Still

(* A step on the row r, which goes on or is over. *)
LEMMA RowStep ==
  ASSUME FInv, NEW r \in Rows, NEW a \in Assets, a = work[r].asset,
         work[r] # NoWork, r \in turn \cup left \/ work'[r].pc \in {"waiting", "recovering"},
         Frame', Entries',
         UNCHANGED <<pc, outlived, call, completed>>,
         \A s \in Rows : s # r => work'[s] = work[s],
         \/ /\ work'[r] # NoWork /\ turn' = turn /\ left' = left
            /\ work'[r].asset = a /\ work'[r].kind = work[r].kind
            /\ Sound(r)'
            /\ a \notin outlived => Fits(r)'
         \/ work'[r] = NoWork /\ turn' = turn \ {r} /\ left' = left \ {r},
         \A b \in Assets : b # a => Still(b),
         Grows(a), AssetInv(a)', work[r].kind = "stale" \/ Unclaimed(a)
  PROVE  FInv'
<1>1. TypeOK /\ a \in Assets /\ Placed(r) /\ TypeOK' /\ TurnInv
  BY WorkKnows, PartsNext DEF FInv
<1>2. \A b \in Assets : Grows(b) /\ (b # a => Unclaimed(b) /\ Kept(b))
  BY <1>1, StillKeeps
<1>3. TurnInv'
  <2>1. turn' \subseteq turn /\ left' \subseteq left
    OBVIOUS
  <2>2. \A s \in turn' \cup left' : work'[s] # NoWork
    BY <1>1 DEF TurnInv, TypeOK
  <2> QED
    BY <1>1, <2>1, <2>2 DEF TurnInv
<1>4. ASSUME NEW b \in Assets PROVE AssetInv(b)'
  BY StillAsset
<1>5. ASSUME NEW s \in Rows, s # r PROVE RowInv(s)'
  <2>1. work'[s] = work[s] /\ PairInv(r, s) /\ PairInv(s, r)
    BY <1>5 DEF FInv
  <2>2. CASE work[s] = NoWork
    BY <2>1, <2>2 DEF RowInv
  <2>3. CASE work[s] # NoWork
    <3>1. work[s].asset \in Assets /\ Placed(s)
      BY <2>3, WorkKnows
    <3>2. Placed(s)'
      BY <1>5, <2>1, <3>1 DEF Placed
    <3>3. work[s].asset = a => a \in outlived /\ (work[s].kind = "stale" => Unclaimed(a))
      BY <1>5, <2>1, <2>3 DEF PairInv
    <3> QED
      BY <1>2, <2>1, <2>3, <3>1, <3>2, <3>3, RowRests
  <2> QED
    BY <2>2, <2>3
<1>6. RowInv(r)'
  <2>1. CASE work'[r] = NoWork
    BY <2>1 DEF RowInv
  <2>2. CASE work'[r] # NoWork
    <3>1. r \notin left => pc # "claiming" \/ work'[r].pc \in {"waiting", "recovering"}
      BY <1>1 DEF TurnInv
    <3>2. Placed(r)'
      BY <1>1, <2>2, <3>1 DEF Placed
    <3> QED
      BY <2>2, <3>2 DEF RowInv
  <2> QED
    BY <2>1, <2>2
<1>7. ASSUME NEW s \in Rows, NEW u \in Rows PROVE PairInv(s, u)'
  <2>1. PairInv(s, u)
    BY DEF FInv
  <2>2. \A q \in Rows : work'[q] # NoWork =>
          work[q] # NoWork /\ work'[q].asset = work[q].asset /\ work'[q].kind = work[q].kind
    OBVIOUS
  <2> QED
    BY <2>1, <2>2 DEF PairInv
<1>8. \A c \in Callers : CallInv(c)'
  BY <1>2, CallsRest
<1> QED
  BY <1>1, <1>3, <1>4, <1>5, <1>6, <1>7, <1>8 DEF FInv

(* The row r goes to another step, or is over. *)
LEMMA RowGoesOn ==
  ASSUME FInv, NEW r \in Rows, NEW a \in Assets, a = work[r].asset,
         work[r] # NoWork, r \in turn \cup left, NEW step \in Steps, Go(r, step), Frame',
         asset' \in [Assets -> Asset \cup {NoAsset}], job' \in [Assets -> Job \cup {NoJob}],
         UNCHANGED <<pc, outlived, call, completed>>,
         Sound(r)', a \notin outlived => Fits(r)',
         \A b \in Assets : b # a => Still(b),
         Grows(a), AssetInv(a)', work[r].kind = "stale" \/ Unclaimed(a)
  PROVE  FInv'
<1>1. TypeOK /\ completed \in [Assets -> FileIds \cup {NoId}]
  BY DEF FInv, TypeOK
<1>2. /\ work' \in [Rows -> Work] /\ work'[r] # NoWork
      /\ work'[r].asset = a /\ work'[r].kind = work[r].kind
      /\ \A s \in Rows : s # r => work'[s] = work[s]
      /\ turn' = turn /\ left' = left
  BY <1>1, GoWrites
<1> QED
  BY <1>1, <1>2, RowStep DEF Entries

LEMMA RowIsDone ==
  ASSUME FInv, NEW r \in Rows, NEW a \in Assets, a = work[r].asset,
         work[r] # NoWork, r \in turn \cup left, Done(r), Frame',
         asset' \in [Assets -> Asset \cup {NoAsset}], job' \in [Assets -> Job \cup {NoJob}],
         UNCHANGED <<pc, outlived, call, completed>>,
         \A b \in Assets : b # a => Still(b),
         Grows(a), AssetInv(a)', work[r].kind = "stale" \/ Unclaimed(a)
  PROVE  FInv'
<1>1. TypeOK /\ completed \in [Assets -> FileIds \cup {NoId}]
  BY DEF FInv, TypeOK
<1>2. /\ work' \in [Rows -> Work] /\ work'[r] = NoWork
      /\ \A s \in Rows : s # r => work'[s] = work[s]
      /\ turn' = turn \ {r} /\ left' = left \ {r}
  BY <1>1, DoneWrites
<1> QED
  BY <1>1, <1>2, RowStep DEF Entries

(* The statuses of all assets are left, whatever progress is told of them. *)
Told ==
  /\ asset' \in [Assets -> Asset \cup {NoAsset}]
  /\ \A b \in Assets : /\ asset'[b] # NoAsset <=> asset[b] # NoAsset
                       /\ asset[b] # NoAsset => asset'[b].status = asset[b].status

(* Nothing changes that the status of a file is read from. *)
Shown(b) ==
  /\ asset'[b] # NoAsset <=> asset[b] # NoAsset
  /\ asset[b] # NoAsset => asset'[b].status = asset[b].status
  /\ job'[b] # NoJob <=> job[b] # NoJob
  /\ job[b] # NoJob => job'[b].status = job[b].status

LEMMA ToldShows ==
  ASSUME Told, job' = job
  PROVE  \A b \in Assets : Shown(b)
BY DEF Told, Shown

(* What a row's next step has to fit when the statuses and the jobs are left. *)
LEMMA ToldFits ==
  ASSUME FInv, NEW r \in Rows, NEW a \in Assets, a = work[r].asset,
         work[r] # NoWork, r \in turn \cup left, NEW step \in Steps, Go(r, step), Frame',
         Told, UNCHANGED <<job, pc, outlived, call, completed>>,
         work[r].kind = "completed" => step \in CompletedSteps,
         step \in {"inspecting", "redispatching"} => work[r].kind = "stale",
         step = "redispatching" => work[r].attempts < MaxStaleAttempts,
         step \notin {"unlinking", "cleaning", "droppingStore", "dropping"},
         a \notin outlived =>
           /\ step \in StoreSteps \cup {"failingStore"} => job[a] # NoJob
           /\ work[r].kind # "completed" /\ step \in RowSteps \cup {"stalling"} => IsDownloading(a)
           /\ step = "failing" /\ job[a] = NoJob => asset[a].status # "stalled",
         step = "stalling" => work[r].kind # "completed"
  PROVE  FInv'
<1>1. TypeOK /\ Entries /\ Sound(r) /\ asset[a] # NoAsset
  BY WorkKnows
<1>2. /\ work'[r].pc = step /\ work'[r].kind = work[r].kind
      /\ work'[r].asset = a /\ work'[r].attempts = work[r].attempts
  BY <1>1, GoWrites
<1>3. Sound(r)'
  BY <1>1, <1>2 DEF Sound, IsDownloading, Told
<1>4. a \notin outlived => Fits(r)'
  BY <1>1, <1>2 DEF Fits, IsDownloading, Told
<1>5. \A b \in Assets : Still(b)
  BY DEF Still, Told
<1>6. Grows(a) /\ Unclaimed(a)
  BY <1>1, <1>5, StillKeeps
<1>7. AssetInv(a)'
  BY <1>5, StillAsset
<1> QED
  BY <1>1, <1>3, <1>4, <1>5, <1>6, <1>7, RowGoesOn DEF Entries, Told

LEMMA StepFits ==
  ASSUME FInv, NEW r \in Rows, NEW a \in Assets, a = work[r].asset,
         work[r] # NoWork, r \in turn \cup left, NEW step \in Steps, Go(r, step), Frame',
         UNCHANGED <<asset, job, pc, outlived, call, completed>>,
         work[r].kind = "completed" => step \in CompletedSteps,
         step \notin {"inspecting", "redispatching", "stalling"},
         step \notin {"unlinking", "cleaning", "droppingStore", "dropping"},
         a \notin outlived =>
           /\ step \in StoreSteps \cup {"failingStore"} => job[a] # NoJob
           /\ work[r].kind # "completed" /\ step \in RowSteps => IsDownloading(a)
           /\ step = "failing" /\ job[a] = NoJob => asset[a].status # "stalled"
  PROVE  FInv'
<1>1. Told
  BY DEF Told, FInv, TypeOK
<1> QED
  BY <1>1, ToldFits

LEMMA DoneFits ==
  ASSUME FInv, NEW r \in Rows, work[r] # NoWork, r \in turn \cup left, Done(r), Frame',
         UNCHANGED <<asset, job, pc, outlived, call, completed>>
  PROVE  FInv'
<1>1. PICK a \in Assets : a = work[r].asset
  BY WorkKnows
<1>2. TypeOK /\ Entries
  BY WorkKnows
<1>3. \A b \in Assets : Still(b)
  BY DEF Still
<1>4. Grows(a) /\ Unclaimed(a)
  BY <1>2, <1>3, StillKeeps
<1>5. AssetInv(a)'
  BY <1>3, StillAsset
<1> QED
  BY <1>1, <1>2, <1>3, <1>4, <1>5, RowIsDone DEF Entries

(* A step of a row that only looks leaves the frame but for the row sets. *)
LEMMA FrameRow ==
  ASSUME Frame, NEW r \in Rows, NEW step, Go(r, step) \/ Done(r), tick' = tick, tdlib' = tdlib,
         pointer' = pointer
  PROVE  Frame'
BY DEF Frame, Go, Done, tick, waking, tdlib, history, bounds

(* The steps that only look and go on. *)
LEMMA LookKeeps ==
  ASSUME FInv, NEW r \in Rows, ReadRow(r) \/ Store(r) \/ RowFails(r)
  PROVE  FInv'
<1>1. r \in turn \cup left /\ work[r] # NoWork
  BY DEF ReadRow, Store, RowFails, Starts, At, FInv, TurnInv
<1>2. PICK a \in Assets : a = work[r].asset
  BY <1>1, WorkKnows
<1>3. /\ TypeOK /\ Frame /\ Entries /\ Sound(r) /\ (a \notin outlived => Fits(r))
      /\ work[r].kind \in {"completed", "stale", "claimed"} /\ work[r].pc \in Steps
  BY <1>1, <1>2, WorkKnows
<1>4. UNCHANGED <<asset, job, pc, outlived, call, completed, tick, tdlib, pointer>>
  BY DEF ReadRow, Store, RowFails, tables, tick, history
<1>5. CASE Done(r)
  <2>1. Frame'
    BY <1>3, <1>4, <1>5, FrameRow
  <2> QED
    BY <1>1, <1>4, <1>5, <2>1, DoneFits
<1>6. CASE ReadRow(r)
  <2>1. CASE ~Done(r)
    <3>1. Go(r, "storing") /\ job[a] # NoJob
      BY <1>2, <1>6, <2>1 DEF ReadRow
    <3>2. Frame'
      BY <1>3, <1>4, <3>1, FrameRow
    <3> QED
      BY <1>1, <1>2, <1>4, <3>1, <3>2, StepFits
         DEF Steps, StoreSteps, RowSteps, CompletedSteps
  <2> QED
    BY <1>5, <2>1
<1>7. CASE Store(r)
  <2>1. Go(r, "readying") /\ work[r].pc = "storing"
    BY <1>7 DEF Store, At
  <2>2. a \notin outlived => job[a] # NoJob
    BY <1>2, <1>3, <2>1 DEF Fits, StoreSteps
  <2>3. Frame'
    BY <1>3, <1>4, <2>1, FrameRow
  <2> QED
    BY <1>1, <1>2, <1>4, <2>1, <2>2, <2>3, StepFits
       DEF Steps, StoreSteps, RowSteps, CompletedSteps
<1>8. CASE RowFails(r)
  <2>1. CASE work[r].pc \in RowSteps \cup {"cleaning"} /\ ~Done(r)
    <3>1. Go(r, "failing") /\ work[r].kind # "completed"
      BY <1>8, <2>1 DEF RowFails, RowSteps, StoreSteps
    <3>2. a \notin outlived /\ job[a] = NoJob => asset[a].status # "stalled"
      <4>1. CASE work[r].pc = "cleaning"
        BY <1>2, <1>3, <4>1 DEF Sound
      <4>2. CASE work[r].pc \in RowSteps
        BY <1>2, <1>3, <3>1, <4>2 DEF Fits, IsDownloading
      <4> QED
        BY <2>1, <4>1, <4>2
    <3>3. Frame'
      BY <1>3, <1>4, <3>1, FrameRow
    <3>4. "failing" \in Steps /\ "failing" \notin RowSteps \cup StoreSteps
      BY DEF Steps, FailSteps, RowSteps, StoreSteps
    <3> QED
      BY <1>1, <1>2, <1>4, <3>1, <3>2, <3>3, <3>4, StepFits
  <2>2. CASE work[r].pc \in StoreSteps
    <3>1. Go(r, "failingStore")
      BY <1>8, <2>2 DEF RowFails, RowSteps, StoreSteps
    <3>2. a \notin outlived => job[a] # NoJob
      BY <1>2, <1>3, <2>2 DEF Fits
    <3>3. Frame'
      BY <1>3, <1>4, <3>1, FrameRow
    <3>4. "failingStore" \in Steps /\ "failingStore" \notin RowSteps \cup StoreSteps
          /\ "failingStore" \in CompletedSteps
      BY DEF Steps, FailSteps, RowSteps, StoreSteps, CompletedSteps
    <3> QED
      BY <1>1, <1>2, <1>4, <3>1, <3>2, <3>3, <3>4, StepFits
  <2> QED
    BY <1>5, <1>8, <2>1, <2>2 DEF RowFails
<1> QED
  BY <1>6, <1>7, <1>8

(* The steps that write the status of the asset. *)
LEMMA MarkKeeps ==
  ASSUME FInv, NEW r \in Rows, MarkReady(r) \/ MarkFailed(r)
  PROVE  FInv'
<1>1. r \in turn \cup left /\ work[r] # NoWork
  BY DEF MarkReady, MarkFailed, At, FInv, TurnInv
<1>2. PICK a \in Assets : a = work[r].asset
  BY <1>1, WorkKnows
<1>3. /\ TypeOK /\ Frame /\ Entries /\ Sound(r) /\ (a \notin outlived => Fits(r))
      /\ asset[a] # NoAsset /\ asset[a] \in Asset
      /\ work[r].kind \in {"completed", "stale", "claimed"} /\ Named(r) \in Files
  BY <1>1, <1>2, WorkKnows, Kinds
<1>4. UNCHANGED <<job, pc, outlived, call, completed, tick, tdlib, pointer>>
  BY DEF MarkReady, MarkFailed, tick, history
<1>5. ASSUME NEW step \in {"unlinking", "dropping", "droppingStore"}, Go(r, step),
             asset' \in [Assets -> Asset \cup {NoAsset}], asset'[a] # NoAsset,
             asset[a].status = "ready" => asset'[a].status = "ready",
             \A b \in Assets : b # a => asset'[b] = asset[b],
             step = "unlinking" => asset'[a].status = "ready",
             step = "dropping" => work[r].kind # "completed",
             a \notin outlived =>
               /\ step = "unlinking" => job[a] # NoJob
               /\ step = "droppingStore" => asset'[a].status # "stalled"
               /\ step = "dropping" /\ asset'[a].status = "stalled" => IsDownloading(a)
      PROVE  FInv'
  <2>1. /\ work'[r].pc = step /\ work'[r].kind = work[r].kind /\ work'[r].asset = a
        /\ work'[r].attempts = work[r].attempts /\ step \in Steps
    BY <1>1, <1>2, <1>3, <1>5, GoWrites DEF Steps, StoreSteps, FailSteps
  <2>2. Sound(r)'
    BY <1>2, <1>3, <1>4, <1>5, <2>1 DEF Sound, IsDownloading, CompletedSteps, StoreSteps
  <2>3. a \notin outlived => Fits(r)'
    BY <1>4, <1>5, <2>1 DEF Fits, IsDownloading, StoreSteps, RowSteps
  <2>4. Frame'
    BY <1>3, <1>4, <1>5, FrameRow
  <2>5. \A b \in Assets : b # a => Still(b)
    BY <1>4, <1>5 DEF Still
  <2>6. Grows(a) /\ Unclaimed(a)
    <3>1. IsDownloading(a) => job[a].attempts \in Nat
      BY <1>2, <1>3, Kinds, FilesAssumption DEF IsDownloading, Job
    <3> QED
      BY <1>4, <1>5, <3>1 DEF Grows, Unclaimed, IsDownloading
  <2>7. AssetInv(a)'
    BY <1>4, <1>5 DEF FInv, AssetInv
  <2> QED
    BY <1>1, <1>2, <1>3, <1>4, <1>5, <2>1, <2>2, <2>3, <2>4, <2>5, <2>6, <2>7, RowGoesOn
       DEF Entries
<1>6. CASE MarkReady(r)
  <2>1. /\ Go(r, "unlinking") /\ work[r].pc = "readying" /\ Size[Named(r)] \in Nat
        /\ asset' = [asset EXCEPT ![a].status = "ready", ![a].downloaded = Size[Named(r)]]
    BY <1>2, <1>3, <1>6, FilesAssumption DEF MarkReady, At
  <2>2. /\ asset' \in [Assets -> Asset \cup {NoAsset}] /\ asset'[a] # NoAsset
        /\ asset'[a].status = "ready" /\ \A b \in Assets : b # a => asset'[b] = asset[b]
    BY <1>3, <2>1, ReadyWrites
  <2>3. a \notin outlived => job[a] # NoJob
    BY <1>2, <1>3, <2>1 DEF Fits, StoreSteps
  <2> QED
    BY <1>5, <2>1, <2>2, <2>3
<1>7. CASE MarkFailed(r)
  <2> DEFINE st == IF asset[a].status = "ready" THEN "ready"
                   ELSE IF work[r].pc = "stalling" THEN "stalled" ELSE "failed"
             step == IF work[r].pc = "failingStore" THEN "droppingStore" ELSE "dropping"
  <2>1. asset' = [asset EXCEPT ![a].status = st] /\ Go(r, step)
        /\ work[r].pc \in {"stalling", "failing", "failingStore"}
    BY <1>2, <1>3, <1>7 DEF MarkFailed, TypeOK
  <2>2. st \in AssetStatuses
    BY DEF AssetStatuses
  <2>3. /\ st = "ready" <=> asset[a].status = "ready"
        /\ st = "stalled" => work[r].pc = "stalling"
        /\ step \in {"dropping", "droppingStore"}
        /\ step = "droppingStore" <=> work[r].pc = "failingStore"
    OBVIOUS
  <2> HIDE DEF st, step
  <2>4. /\ asset' \in [Assets -> Asset \cup {NoAsset}] /\ asset'[a] # NoAsset
        /\ asset'[a].status = st /\ \A b \in Assets : b # a => asset'[b] = asset[b]
    BY <1>3, <2>1, <2>2, StatusWrites
  <2>5. step = "dropping" => work[r].kind # "completed"
    BY <1>3, <2>1, <2>3 DEF Sound, CompletedSteps, StoreSteps
  <2>6. a \notin outlived /\ work[r].pc = "stalling" => IsDownloading(a)
    BY <1>2, <1>3 DEF Fits
  <2> QED
    BY <1>5, <2>1, <2>3, <2>4, <2>5, <2>6
<1> QED
  BY <1>6, <1>7

(* The steps by which the job ends, and TDLib's copy is deleted. *)
LEMMA EndKeeps ==
  ASSUME FInv, NEW r \in Rows, Unlink(r) \/ DropJob(r) \/ Cleanup(r)
  PROVE  FInv'
<1>1. r \in turn \cup left /\ work[r] # NoWork
  BY DEF Unlink, DropJob, Cleanup, At, FInv, TurnInv
<1>2. PICK a \in Assets : a = work[r].asset
  BY <1>1, WorkKnows
<1>3. /\ TypeOK /\ Frame /\ Entries /\ Sound(r) /\ (a \notin outlived => Fits(r))
      /\ asset[a] # NoAsset /\ Named(r) \in Files
      /\ work[r].kind \in {"completed", "stale", "claimed"}
  BY <1>1, <1>2, WorkKnows
<1>4. UNCHANGED <<asset, pc, outlived, call, completed, tick, naming, pointer>>
  BY DEF Unlink, DropJob, Cleanup, tables, tdlib, tick, history
<1>5. CASE Cleanup(r)
  <2>1. Done(r) /\ job' = job /\ local' \in [Files -> Nat]
    BY <1>3, <1>5 DEF Cleanup, tables, Frame
  <2>2. Frame'
    BY <1>3, <1>4, <2>1 DEF Frame, tick, waking, history, bounds, Done
  <2> QED
    BY <1>1, <1>4, <2>1, <2>2, DoneFits
<1>6. CASE Unlink(r) \/ DropJob(r)
  <2>1. DeleteJob(a) /\ tdlib' = tdlib
    BY <1>2, <1>6 DEF Unlink, DropJob
  <2>2. /\ job' \in [Assets -> Job \cup {NoJob}] /\ job'[a] = NoJob
        /\ \A b \in Assets : b # a => job'[b] = job[b]
    BY <1>3, <2>1 DEF DeleteJob, Entries
  <2>3. \A b \in Assets : b # a => Still(b)
    BY <1>4, <2>2 DEF Still
  <2>4. Grows(a) /\ Unclaimed(a)
    BY <1>4, <2>2 DEF Grows, Unclaimed, IsDownloading
  <2>5. AssetInv(a)'
    BY <1>3, <1>4, <2>2 DEF AssetInv
  <2>6. CASE Done(r)
    <3>1. Frame'
      BY <1>3, <1>4, <2>1, <2>6, FrameRow
    <3> QED
      BY <1>1, <1>2, <1>3, <1>4, <2>2, <2>3, <2>4, <2>5, <2>6, <3>1, RowIsDone DEF Entries
  <2>7. ASSUME NEW step \in {"cleaning", "failing"}, Go(r, step),
               step = "failing" => work[r].kind # "completed" /\ work[r].pc = "droppingStore",
               step = "cleaning" => work[r].pc = "unlinking"
        PROVE  FInv'
    <3>1. /\ work'[r].pc = step /\ work'[r].kind = work[r].kind /\ work'[r].asset = a
          /\ work'[r].attempts = work[r].attempts /\ step \in Steps
      BY <1>1, <1>2, <1>3, <2>7, GoWrites DEF Steps, FailSteps
    <3>2. Sound(r)'
      BY <1>2, <1>3, <1>4, <2>2, <2>7, <3>1 DEF Sound, IsDownloading, CompletedSteps
    <3>3. a \notin outlived => Fits(r)'
      BY <1>2, <1>3, <1>4, <2>2, <2>7, <3>1 DEF Fits, StoreSteps, RowSteps
    <3>4. Frame'
      BY <1>3, <1>4, <2>1, <2>7, FrameRow
    <3> QED
      BY <1>1, <1>2, <1>3, <1>4, <2>2, <2>3, <2>4, <2>5, <2>7, <3>1, <3>2, <3>3, <3>4, RowGoesOn
         DEF Entries
  <2>8. \/ Done(r)
        \/ Go(r, "cleaning") /\ work[r].pc = "unlinking"
        \/ Go(r, "failing") /\ work[r].kind # "completed" /\ work[r].pc = "droppingStore"
    BY <1>6 DEF Unlink, DropJob, At
  <2> QED
    BY <2>6, <2>7, <2>8
<1> QED
  BY <1>5, <1>6

(* The steps that ask TDLib: the row stays with it, or goes on. *)
LEMMA WatchKeeps ==
  ASSUME FInv, NEW r \in Rows, NEW a \in Assets, a = work[r].asset,
         work[r] # NoWork, r \in turn \cup left, NEW counted \in {0, 1}, Watch(r, counted),
         counted = 1 => work[r].kind = "stale" /\ work[r].attempts < MaxStaleAttempts,
         asset' \in [Assets -> Asset \cup {NoAsset}],
         \A b \in Assets : /\ asset'[b] # NoAsset <=> asset[b] # NoAsset
                           /\ asset[b] # NoAsset => asset'[b].status = asset[b].status,
         pointer' \in [FileIds -> Files \cup {NoAsset}],
         UNCHANGED <<naming, local, up, timer, pending, pc, completed, call, history, calls, faults>>
  PROVE  FInv' /\ \A b \in Assets : Shown(b)
<1>1. /\ TypeOK /\ Frame /\ Entries /\ Sound(r) /\ asset[a] # NoAsset
      /\ work[r].attempts \in 0..MaxStaleAttempts
  BY WorkKnows
<1>2. IsDownloading(a) => job[a] \in Job /\ job[a].attempts \in 0..MaxStaleAttempts
  BY <1>1, Kinds DEF IsDownloading, Job
<1>3. IsDownloading(a) => job[a].attempts + counted <= MaxStaleAttempts
  <2>1. CASE counted = 0
    BY <1>2, <2>1, FilesAssumption
  <2>2. CASE counted = 1
    BY <1>1, <1>2, <2>2, FilesAssumption DEF Sound
  <2> QED
    BY <2>1, <2>2
<1>4. /\ job' \in [Assets -> Job \cup {NoJob}] /\ (job'[a] # NoJob <=> job[a] # NoJob)
      /\ job[a] # NoJob => job'[a].status = job[a].status
      /\ IsDownloading(a) => job'[a].attempts = job[a].attempts + counted
      /\ ~IsDownloading(a) => job'[a] = job[a]
      /\ \A b \in Assets : b # a => job'[b] = job[b]
  BY <1>1, <1>3, ClaimWrites DEF Watch
<1>5. Frame'
  <2>1. result' \in [again : BOOLEAN, reconciled : BOOLEAN, cut : BOOLEAN]
    BY <1>1 DEF Frame, Watch
  <2> QED
    BY <1>1, <2>1 DEF Frame, Watch, Done, history
<1>6. \A b \in Assets : b # a => Still(b)
  BY <1>4 DEF Still
<1>7. Grows(a)
  BY DEF Grows
<1>8. AssetInv(a)'
  BY <1>1, <1>4 DEF FInv, AssetInv, IsDownloading
<1>9. work[r].kind = "stale" \/ Unclaimed(a)
  <2>1. CASE counted = 0
    <3>1. IsDownloading(a) => job'[a].attempts <= job[a].attempts
      BY <1>2, <1>4, <2>1, FilesAssumption
    <3> QED
      BY <1>4, <3>1 DEF Unclaimed, IsDownloading
  <2>2. CASE counted = 1
    BY <2>2
  <2> QED
    BY <2>1, <2>2
<1>10. \A b \in Assets : Shown(b)
  BY <1>4 DEF Shown
<1> QED
  BY <1>1, <1>4, <1>5, <1>6, <1>7, <1>8, <1>9, <1>10, RowIsDone DEF Watch, history

LEMMA AskKeeps ==
  ASSUME FInv, NEW r \in Rows, Inspect(r) \/ Redispatch(r) \/ Dispatch(r)
  PROVE  FInv' /\ \A b \in Assets : Shown(b)
<1>1. r \in turn \cup left /\ work[r] # NoWork /\ work[r].pc \in RowSteps
  BY DEF Inspect, Redispatch, Dispatch, Starts, At, FInv, TurnInv, RowSteps
<1>2. PICK a \in Assets : a = work[r].asset
  BY <1>1, WorkKnows
<1>3. /\ TypeOK /\ Frame /\ Entries /\ Sound(r) /\ (a \notin outlived => Fits(r))
      /\ asset[a] # NoAsset /\ Named(r) \in Files /\ work[r].file \in FileIds
      /\ work[r].kind \in {"completed", "stale", "claimed"}
  BY <1>1, <1>2, WorkKnows
<1>4. work[r].kind # "completed"
  BY <1>3 DEF Sound, CompletedSteps, StoreSteps, Inspect, Redispatch, Dispatch, Starts, At
<1>5. a \notin outlived => IsDownloading(a)
  BY <1>1, <1>2, <1>3, <1>4 DEF Fits
<1>6. UNCHANGED <<naming, local, up, timer, pending, pc, completed, call, outlived, history, calls,
                  faults>>
  BY DEF Inspect, Redispatch, Dispatch, tdlib, waking, bounds, history
<1>7. ASSUME NEW step \in {"reading", "redispatching", "stalling"}, Go(r, step),
             step = "redispatching" => work[r].kind = "stale" /\ RetriesLeft(r),
             Told, pointer' \in [FileIds -> Files \cup {NoAsset}], job' = job, result' = result
      PROVE  FInv' /\ \A b \in Assets : Shown(b)
  <2>1. step \in Steps
    BY DEF Steps, RowSteps, FailSteps
  <2>2. Frame'
    BY <1>3, <1>6, <1>7 DEF Frame, Go, history
  <2>3. a \notin outlived => step \notin StoreSteps \cup {"failingStore", "failing"}
    BY DEF StoreSteps
  <2> QED
    BY <1>1, <1>2, <1>4, <1>5, <1>6, <1>7, <2>1, <2>2, <2>3, ToldFits, ToldShows DEF RetriesLeft
<1>8. asset' = asset => Told
  BY <1>3 DEF Entries, Told
<1>9. pointer' = pointer => pointer' \in [FileIds -> Files \cup {NoAsset}]
  BY <1>3 DEF Frame
<1>10. CASE Inspect(r)
  <2> DEFINE b == Named(r)
             f == work[r].file
  <2>1. work[r].kind = "stale"
    BY <1>3, <1>10 DEF Inspect, Starts, At, Sound
  <2>2. ASSUME pointer' = [pointer EXCEPT ![f] = b],
               asset' = IF Tells(b, f) THEN [asset EXCEPT ![b].downloaded = local[b]] ELSE asset
        PROVE  Told /\ pointer' \in [FileIds -> Files \cup {NoAsset}]
    <3>1. Told
      BY <1>3, <2>2, ProgressWrites DEF Told
    <3> QED
      BY <1>3, <2>2, <3>1 DEF Frame
  <2>3. \/ Go(r, "reading") /\ UNCHANGED <<asset, job, pointer, result>>
        \/ /\ pointer' = [pointer EXCEPT ![f] = b]
           /\ asset' = IF Tells(b, f) THEN [asset EXCEPT ![b].downloaded = local[b]] ELSE asset
           /\ \/ Watch(r, 0)
              \/ /\ Go(r, IF RetriesLeft(r) THEN "redispatching" ELSE "stalling")
                 /\ UNCHANGED <<job, result>>
        \/ /\ Go(r, IF RetriesLeft(r) THEN "redispatching" ELSE "stalling")
           /\ UNCHANGED <<asset, job, pointer, result>>
    BY <1>10 DEF Inspect, tables
  <2> HIDE DEF b, f
  <2>4. Told /\ pointer' \in [FileIds -> Files \cup {NoAsset}]
    BY <1>8, <1>9, <2>2, <2>3
  <2>5. CASE Watch(r, 0)
    BY <1>1, <1>2, <1>6, <2>4, <2>5, WatchKeeps DEF Told
  <2>6. CASE ~Watch(r, 0)
    <3>1. /\ UNCHANGED <<job, result>>
          /\ \/ Go(r, "reading")
             \/ Go(r, "redispatching") /\ RetriesLeft(r)
             \/ Go(r, "stalling")
      BY <2>3, <2>6
    <3> QED
      BY <1>7, <2>1, <2>4, <3>1
  <2> QED
    BY <2>4, <2>5, <2>6
<1>11. CASE Redispatch(r)
  <2>1. work[r].kind = "stale" /\ work[r].attempts < MaxStaleAttempts
    BY <1>3, <1>11 DEF Redispatch, At, Sound
  <2>2. Watch(r, 1) /\ UNCHANGED <<asset, pointer>>
    BY <1>11 DEF Redispatch
  <2> QED
    BY <1>1, <1>2, <1>6, <1>8, <1>9, <2>1, <2>2, WatchKeeps DEF Told
<1>12. CASE Dispatch(r)
  <2>1. /\ Watch(r, 0) \/ (Go(r, "reading") /\ UNCHANGED <<job, result>>)
        /\ UNCHANGED <<asset, pointer>>
    BY <1>12 DEF Dispatch
  <2>2. CASE Watch(r, 0)
    BY <1>1, <1>2, <1>6, <1>8, <1>9, <2>1, <2>2, WatchKeeps DEF Told
  <2> QED
    BY <1>7, <1>8, <1>9, <2>1, <2>2
<1> QED
  BY <1>10, <1>11, <1>12

LEMMA RecoverKeeps ==
  ASSUME FInv, NEW r \in Rows, Recover(r)
  PROVE  FInv' /\ \A b \in Assets : Shown(b)
<1>1. r \in turn \cup left /\ work[r] # NoWork /\ work[r].pc = "recovering"
  BY DEF Recover, At, FInv, TurnInv
<1>2. PICK a \in Assets : a = work[r].asset
  BY <1>1, WorkKnows
<1>3. /\ TypeOK /\ Frame /\ Entries /\ Sound(r) /\ (a \notin outlived => Fits(r))
      /\ asset[a] # NoAsset /\ work[r] \in Task /\ a \in Files
  BY <1>1, <1>2, WorkKnows, Kinds
<1>4. work[r].kind # "completed"
  BY <1>1, <1>3 DEF Sound, CompletedSteps, StoreSteps
<1>5. a \notin outlived => IsDownloading(a)
  BY <1>1, <1>2, <1>3, <1>4 DEF Fits, RowSteps
<1>6. PICK f \in FileIds :
        /\ pointer' = [pointer EXCEPT ![f] = a]
        /\ asset' = [asset EXCEPT ![a].file = f]
        /\ work' = [work EXCEPT ![r] =
                      IF job[a] = NoJob THEN [@ EXCEPT !.pc = "failing"]
                      ELSE [@ EXCEPT !.file = f, !.attempts = job[a].attempts,
                                     !.pc = IF work[r].kind = "stale" THEN "inspecting"
                                            ELSE "dispatching"]]
  BY <1>2 DEF Recover
<1>7. UNCHANGED <<job, tdlib, turn, left, tick, pc, outlived, call, completed>>
  BY DEF Recover, tick, history
<1>8. /\ asset' \in [Assets -> Asset \cup {NoAsset}] /\ asset'[a] # NoAsset
      /\ asset'[a].status = asset[a].status
      /\ \A b \in Assets : b # a => asset'[b] = asset[b]
  BY <1>3, <1>6, FileWrites
<1>9. Told
  BY <1>3, <1>8 DEF Told
<1>10. PICK w \in Task :
         /\ work' = [work EXCEPT ![r] = w]
         /\ w.kind = work[r].kind /\ w.asset = a
         /\ \/ job[a] = NoJob /\ w.pc = "failing"
            \/ /\ job[a] # NoJob /\ w.attempts = job[a].attempts
               /\ w.pc = IF work[r].kind = "stale" THEN "inspecting" ELSE "dispatching"
  <2>1. CASE job[a] = NoJob
    <3> DEFINE w == [work[r] EXCEPT !.pc = "failing"]
    <3>1. w \in Task /\ w.kind = work[r].kind /\ w.asset = a /\ w.pc = "failing"
      BY <1>2, <1>3 DEF Task, Steps, FailSteps
    <3>2. work' = [work EXCEPT ![r] = w]
      BY <1>3, <1>6, <2>1 DEF Entries
    <3> QED
      BY <2>1, <3>1, <3>2
  <2>2. CASE job[a] # NoJob
    <3> DEFINE w == [work[r] EXCEPT !.file = f, !.attempts = job[a].attempts,
                                    !.pc = IF work[r].kind = "stale" THEN "inspecting"
                                           ELSE "dispatching"]
    <3>1. job[a].attempts \in 0..MaxStaleAttempts
      BY <1>3, <2>2, Kinds DEF Job
    <3>2. /\ w \in Task /\ w.kind = work[r].kind /\ w.asset = a /\ w.attempts = job[a].attempts
          /\ w.pc = IF work[r].kind = "stale" THEN "inspecting" ELSE "dispatching"
      BY <1>2, <1>3, <3>1 DEF Task, Steps, RowSteps
    <3>3. work' = [work EXCEPT ![r] = w]
      BY <1>3, <1>6, <2>2 DEF Entries
    <3> QED
      BY <2>2, <3>2, <3>3
  <2> QED
    BY <2>1, <2>2
<1>11. /\ work' \in [Rows -> Work] /\ work'[r] = w /\ work'[r] # NoWork
       /\ \A s \in Rows : s # r => work'[s] = work[s]
  BY <1>3, <1>10, WorkIsSome DEF Entries
<1>12. Frame' /\ Entries'
  <2>1. pointer' \in [FileIds -> Files \cup {NoAsset}]
    BY <1>3, <1>6 DEF Frame
  <2>2. Frame'
    BY <1>3, <1>7, <2>1 DEF Frame, tdlib, tick, waking, history, bounds
  <2> QED
    BY <1>3, <1>7, <1>8, <1>11, <2>2 DEF Entries
<1>13. IsDownloading(a) => job[a].attempts \in Nat
  BY <1>3, Kinds, FilesAssumption DEF IsDownloading, Job
<1>14. Sound(r)'
  BY <1>3, <1>4, <1>7, <1>8, <1>10, <1>11, <1>13 DEF Sound, IsDownloading
<1>15. a \notin outlived => Fits(r)'
  BY <1>4, <1>5, <1>7, <1>8, <1>10, <1>11 DEF Fits, IsDownloading, StoreSteps
<1>16. \A b \in Assets : Still(b)
  BY <1>7, <1>9 DEF Still, Told
<1>17. Grows(a) /\ Unclaimed(a)
  BY <1>3, <1>16, StillKeeps
<1>18. AssetInv(a)'
  BY <1>7, <1>16, StillAsset
<1> QED
  BY <1>1, <1>2, <1>7, <1>9, <1>10, <1>11, <1>12, <1>14, <1>15, <1>16, <1>17, <1>18, RowStep, ToldShows

(* Steps that leave the assets and the jobs, and end work rather than begin it. *)
LEMMA QuietStep ==
  ASSUME FInv, Frame', asset' = asset, job' = job, work' \in [Rows -> Work],
         \A r \in Rows : work'[r] \in {work[r], NoWork},
         completed' \in [Assets -> FileIds \cup {NoId}],
         \A a \in Assets : completed'[a] \in {completed[a], NoId},
         \A c \in Callers : call'[c] = Idle \/ call'[c] = call[c],
         outlived \subseteq outlived' \/ \A r \in Rows : work'[r] = NoWork,
         TurnInv', \A r \in Rows : work'[r] # NoWork => Placed(r)'
  PROVE  FInv'
<1>1. Entries' /\ TypeOK
  BY DEF FInv, TypeOK, Entries
<1>2. \A b \in Assets : Still(b)
  BY DEF Still
<1>3. \A b \in Assets : Grows(b) /\ Unclaimed(b) /\ Kept(b)
  BY <1>1, <1>2, StillKeeps
<1>4. ASSUME NEW r \in Rows PROVE RowInv(r)'
  <2>1. CASE work'[r] = NoWork
    BY <2>1 DEF RowInv
  <2>2. CASE work'[r] # NoWork
    <3>1. work[r] # NoWork /\ work'[r] = work[r] /\ work[r].asset \in Assets
      BY <2>2, WorkKnows
    <3> QED
      BY <1>1, <1>3, <2>2, <3>1, RowRests
  <2> QED
    BY <2>1, <2>2
<1>5. ASSUME NEW r \in Rows, NEW s \in Rows PROVE PairInv(r, s)'
  <2>1. PairInv(r, s)
    BY DEF FInv
  <2> QED
    BY <2>1 DEF PairInv
<1>6. ASSUME NEW c \in Callers PROVE CallInv(c)'
  BY <1>3, CallsRest DEF CallInv
<1>7. \A a \in Assets : AssetInv(a)'
  BY <1>2, StillAsset
<1> QED
  BY <1>1, <1>4, <1>5, <1>6, <1>7, PartsNext DEF FInv

(* No row is the tick's own. *)
LEMMA NoneOwn ==
  ASSUME FInv, Own = {}
  PROVE  turn = {} /\ \A r \in Rows : work[r] # NoWork => r \in left
BY DEF FInv, TypeOK, TurnInv, Own, Busy

LEMMA EndTyped ==
  ASSUME Frame, NEW again \in BOOLEAN, EndTick(again)
  PROVE  /\ pc' = "idle" /\ pc' \in Stages /\ timer' \in BOOLEAN /\ pending' \in BOOLEAN
         /\ result' \in [again : BOOLEAN, reconciled : BOOLEAN, cut : BOOLEAN]
         /\ overlooked' \in BOOLEAN
BY DEF Frame, EndTick, Stages, NoResult

(* The ends of the stages. *)
LEMMA StageKeeps ==
  ASSUME FInv, ReconcilingDone \/ DeferQueued \/ ClaimingDone \/ ProcessingDone
  PROVE  FInv'
<1>1. TypeOK /\ Frame /\ Entries /\ TurnInv
  BY Parts DEF FInv
<1>2. UNCHANGED <<tables, tdlib, up, call, calls, faults, completed, work, turn, left, outlived,
                  unseen>>
  BY DEF ReconcilingDone, DeferQueued, ClaimingDone, ProcessingDone, outside, bounds, rows, history
<1>3. ASSUME pc' \in Stages, timer' \in BOOLEAN, pending' \in BOOLEAN, overlooked' \in BOOLEAN,
             result' \in [again : BOOLEAN, reconciled : BOOLEAN, cut : BOOLEAN],
             TurnInv', \A r \in Rows : work[r] # NoWork => Placed(r)'
      PROVE  FInv'
  <2>1. Frame'
    BY <1>1, <1>2, <1>3 DEF Frame, tables, tdlib
  <2> QED
    BY <1>1, <1>2, <1>3, <2>1, QuietStep DEF tables, Entries
<1>4. ASSUME Own = {}, pc' \in Stages
      PROVE  TurnInv' /\ \A r \in Rows : work[r] # NoWork => Placed(r)'
  <2>1. turn = {} /\ \A r \in Rows : work[r] # NoWork => r \in left
    BY <1>4, NoneOwn
  <2>2. ASSUME NEW r \in Rows, work[r] # NoWork PROVE Placed(r)'
    <3>1. r \in left /\ Placed(r)
      BY <2>1, <2>2, WorkKnows
    <3> QED
      BY <1>2, <3>1 DEF Placed
  <2>3. TurnInv'
    BY <1>1, <1>2, <2>1 DEF TurnInv
  <2> QED
    BY <2>2, <2>3
<1>5. CASE ReconcilingDone
  <2>1. pc' = "claiming" /\ Own = {} /\ UNCHANGED <<timer, pending, overlooked, result>>
    BY <1>5 DEF ReconcilingDone, waking, history
  <2> QED
    BY <1>1, <1>3, <1>4, <2>1 DEF Frame, Stages
<1>6. ASSUME NEW again \in BOOLEAN, EndTick(again), Own = {}
      PROVE  FInv'
  BY <1>1, <1>3, <1>4, <1>6, EndTyped
<1>7. CASE DeferQueued
  BY <1>6, <1>7 DEF DeferQueued
<1>8. CASE ProcessingDone
  <2>1. result.again \in BOOLEAN
    BY <1>1 DEF Frame
  <2> QED
    BY <1>6, <1>8, <2>1 DEF ProcessingDone
<1>9. CASE ClaimingDone
  <2>1. CASE Own = {}
    <3>1. (result.again \/ (~result.reconciled /\ Downloading # {})) \in BOOLEAN
      BY <1>1 DEF Frame
    <3> QED
      BY <1>6, <1>9, <2>1, <3>1 DEF ClaimingDone
  <2>2. CASE Own # {}
    <3>1. /\ pc = "claiming" /\ pc' = "processing" /\ UNCHANGED <<timer, pending, overlooked>>
          /\ result' = [result EXCEPT !.again = @ \/ Cardinality(Own) = BatchSize]
      BY <1>9, <2>2 DEF ClaimingDone, waking
    <3>2. TurnInv'
      BY <1>1, <1>2, <3>1 DEF TurnInv
    <3>3. ASSUME NEW r \in Rows, work[r] # NoWork PROVE Placed(r)'
      <4>1. Placed(r)
        BY <3>3, WorkKnows
      <4> QED
        BY <1>2, <3>1, <4>1 DEF Placed
    <3>4. result' \in [again : BOOLEAN, reconciled : BOOLEAN, cut : BOOLEAN]
      BY <1>1, <3>1 DEF Frame
    <3> QED
      BY <1>1, <1>3, <3>1, <3>2, <3>3, <3>4 DEF Frame, Stages
  <2> QED
    BY <2>1, <2>2
<1> QED
  BY <1>5, <1>7, <1>8, <1>9

(* The next rows, of which there is one but while claimed jobs are processed. *)
LEMMA TurnKeeps ==
  ASSUME FInv, NextTurn
  PROVE  FInv'
<1>1. TypeOK /\ Frame /\ Entries /\ TurnInv
  BY Parts DEF FInv
<1>2. PICK n \in Nat, some \in SUBSET Own :
        /\ n = IF pc = "processing" THEN Concurrency ELSE 1
        /\ Cardinality(some) = IF Cardinality(Own) < n THEN Cardinality(Own) ELSE n
        /\ turn' = some
  BY FilesAssumption DEF NextTurn
<1>3. /\ UNCHANGED <<tables, tdlib, up, call, calls, faults, waking, pc, completed, work, left,
                     result, history>>
      /\ pc \in {"storing", "reconciling", "processing"}
  BY DEF NextTurn, outside, bounds
<1>4. IsFiniteSet(Own) /\ IsFiniteSet(some) /\ Own \subseteq Rows
  BY <1>2, FS_Subset, FilesAssumption DEF Own, Busy
<1>5. pc # "processing" => \A r, s \in some : r = s
  <2> SUFFICES ASSUME pc # "processing", NEW r \in some, NEW s \in some PROVE r = s
    OBVIOUS
  <2>1. Cardinality(Own) \in Nat /\ n = 1
    BY <1>2, <1>4, FS_CardinalityType
  <2>2. Cardinality(some) \in {0, 1}
    BY <1>2, <2>1
  <2>3. Cardinality(some) # 0
    BY <1>4, FS_EmptySet
  <2>4. Cardinality(some) = 1
    BY <2>2, <2>3
  <2>5. \E x : some = {x}
    BY <1>4, <2>4, FS_Singleton
  <2> QED
    BY <2>5
<1>6. TurnInv'
  BY <1>1, <1>2, <1>3, <1>5 DEF TurnInv, Own, Busy
<1>7. Frame'
  BY <1>1, <1>2, <1>3, <1>4 DEF Frame, tables, tdlib, waking, history
<1>8. ASSUME NEW r \in Rows, work'[r] # NoWork PROVE Placed(r)'
  <2>1. Placed(r)
    BY <1>3, <1>8, WorkKnows
  <2> QED
    BY <1>3, <2>1 DEF Placed, history
<1> QED
  BY <1>1, <1>3, <1>6, <1>7, <1>8, QuietStep DEF Entries, tables, history

(* A tick that ends with a failure leaves rows that were claimed. *)
LEMMA AbandonKeeps ==
  ASSUME FInv, NEW some \in SUBSET turn, EndTick(TRUE), Abandon(some),
         some # {} => pc = "processing",
         UNCHANGED <<tables, tdlib, up, call, completed, unseen, calls>>, faults' \in 0..MaxFaults
  PROVE  FInv'
<1>1. TypeOK /\ Frame /\ Entries /\ TurnInv
  BY Parts DEF FInv
<1>2. /\ work' = [r \in Rows |-> IF r \in some \cup left THEN work[r] ELSE NoWork]
      /\ turn' = {} /\ left' = left \cup some
      /\ outlived' = outlived \cup {work[r].asset : r \in some}
  BY DEF Abandon
<1>3. ASSUME NEW r \in Rows
      PROVE  /\ work'[r] = IF r \in some \cup left THEN work[r] ELSE NoWork
             /\ work'[r] \in Work
  BY <1>1, <1>2 DEF Entries, Work
<1>4. work' \in [Rows -> Work]
  BY <1>2, <1>3
<1>5. ASSUME NEW r \in some
      PROVE  r \in Rows /\ work[r] # NoWork /\ work[r].asset \in Assets /\ work[r].kind = "claimed"
  <2>1. r \in Rows /\ work[r] # NoWork /\ r \notin left /\ pc = "processing"
    BY <1>1, <1>5 DEF TurnInv, TypeOK
  <2> QED
    BY <2>1, WorkKnows DEF Placed
<1>6. outlived' \subseteq Assets /\ outlived \subseteq outlived'
  BY <1>1, <1>2, <1>5 DEF Frame
<1>7. Frame'
  BY <1>1, <1>2, <1>6, EndTyped DEF Frame, tables, tdlib
<1>8. pc' = "idle"
  BY DEF EndTick
<1>9. TurnInv'
  BY <1>1, <1>2, <1>3, <1>5, <1>8 DEF TurnInv, Frame
<1>10. ASSUME NEW r \in Rows, work'[r] # NoWork PROVE Placed(r)'
  <2>1. r \in left' /\ work'[r] = work[r]
    BY <1>2, <1>3, <1>10
  <2>2. CASE r \in some
    BY <1>2, <1>5, <2>1, <2>2 DEF Placed
  <2>3. CASE r \in left
    <3>1. work[r] # NoWork /\ Placed(r)
      BY <1>10, <2>1, WorkKnows
    <3> QED
      BY <1>6, <2>1, <2>3, <3>1 DEF Placed
  <2> QED
    BY <1>2, <2>1, <2>2, <2>3
<1>11. \A r \in Rows : work'[r] \in {work[r], NoWork}
  BY <1>3
<1> QED
  BY <1>1, <1>4, <1>6, <1>7, <1>9, <1>10, <1>11, QuietStep DEF Entries, tables

LEMMA FaultCounts ==
  ASSUME Frame, Fault
  PROVE  calls' = calls /\ faults' \in 0..MaxFaults
BY FilesAssumption DEF Frame, Fault

LEMMA TickFailsKeeps ==
  ASSUME FInv, TickFails
  PROVE  FInv'
<1>1. Frame
  BY Parts DEF FInv
<1>2. calls' = calls /\ faults' \in 0..MaxFaults
  BY <1>1, FaultCounts DEF TickFails
<1> QED
  BY <1>2, AbandonKeeps DEF TickFails

LEMMA ReportFailsKeeps ==
  ASSUME FInv, NEW r \in Rows, ReportFails(r)
  PROVE  FInv'
<1>1. r \in turn \cup left /\ work[r] # NoWork
  BY DEF ReportFails, FInv, TurnInv
<1>2. PICK a \in Assets : a = work[r].asset
  BY <1>1, WorkKnows
<1>3. /\ TypeOK /\ Frame /\ Entries /\ Sound(r) /\ (a \notin outlived => Fits(r)) /\ TurnInv
      /\ asset[a] # NoAsset /\ work[r].kind \in {"completed", "stale", "claimed"}
  BY <1>1, <1>2, WorkKnows DEF FInv
<1>4. calls' = calls /\ faults' \in 0..MaxFaults
  BY <1>3, FaultCounts DEF ReportFails
<1>5. UNCHANGED <<asset, job, pointer, tdlib, up, completed, call>>
  BY DEF ReportFails, tables
<1>6. ASSUME Done(r) \/ Go(r, "failing"), UNCHANGED <<waking, pc, result, history>>
      PROVE  Frame'
  BY <1>3, <1>4, <1>5, <1>6 DEF Frame, tdlib, waking, history, Done, Go
<1>7. CASE Done(r) /\ UNCHANGED <<waking, pc, result, history>>
  BY <1>1, <1>5, <1>6, <1>7, DoneFits DEF history
<1>8. CASE Go(r, "failing") /\ UNCHANGED <<waking, pc, result, history>> /\ ~Done(r)
  <2>1. work[r].pc \in {"failingStore", "droppingStore"} /\ work[r].kind # "completed"
    <3>1. CASE work[r].pc \in {"failingStore", "droppingStore"}
      BY <1>8, <3>1 DEF ReportFails
    <3>2. CASE work[r].pc \in {"stalling", "failing", "dropping"} /\ r \in left
      BY <1>8, <3>2 DEF ReportFails
    <3>3. CASE work[r].pc \in {"stalling", "failing", "dropping"} /\ r \notin left
      <4>1. turn' = {} /\ r \in turn /\ turn' = turn
        BY <1>1, <1>8, <3>3 DEF ReportFails, Abandon, Go
      <4> QED
        BY <4>1
    <3> QED
      BY <3>1, <3>2, <3>3 DEF ReportFails
  <2>2. a \notin outlived /\ job[a] = NoJob => asset[a].status # "stalled"
    BY <1>2, <1>3, <2>1 DEF Fits
  <2>3. "failing" \in Steps /\ "failing" \notin RowSteps \cup StoreSteps
    BY DEF Steps, FailSteps, RowSteps, StoreSteps
  <2> QED
    BY <1>1, <1>2, <1>5, <1>6, <1>8, <2>1, <2>2, <2>3, StepFits DEF history
<1>9. CASE EndTick(TRUE) /\ Abandon(turn \ {r}) /\ UNCHANGED unseen
  <2>1. turn \ {r} # {} => pc = "processing" \/ r \in left
    BY <1>1, <1>3 DEF TurnInv, Frame, Stages
  <2>2. CASE turn \ {r} # {} => pc = "processing"
    BY <1>4, <1>5, <1>9, <2>2, AbandonKeeps DEF tables
  <2>3. CASE r \in left
    <3>1. Done(r) \/ Go(r, "failing")
      BY <2>3 DEF ReportFails
    <3>2. UNCHANGED <<waking, pc, result, history>>
      BY <2>3 DEF ReportFails
    <3> QED
      BY <1>7, <1>8, <3>1, <3>2
  <2> QED
    BY <2>1, <2>2, <2>3
<1> QED
  BY <1>7, <1>8, <1>9 DEF ReportFails

LEMMA NoWorkTyped == [r \in Rows |-> NoWork] \in [Rows -> Work]
BY DEF Work

LEMMA CrashKeeps ==
  ASSUME FInv, Crash
  PROVE  FInv'
<1>1. TypeOK /\ Frame /\ Entries
  BY Parts DEF FInv
<1>2. /\ UNCHANGED <<asset, job, pointer, tdlib>>
      /\ up' = FALSE /\ timer' = FALSE /\ pending' = FALSE /\ pc' = "idle" /\ result' = NoResult
      /\ work' = [r \in Rows |-> NoWork] /\ turn' = {} /\ left' = {}
      /\ completed' = [a \in Assets |-> NoId] /\ call' = [c \in Callers |-> Idle]
      /\ outlived' = {} /\ unseen' = {} /\ overlooked' = FALSE
  BY DEF Crash, tables
<1>3. calls' = calls /\ faults' \in 0..MaxFaults
  BY <1>1, FaultCounts DEF Crash
<1>4. Frame'
  BY <1>1, <1>2, <1>3 DEF Frame, Stages, Call, NoResult, tdlib
<1>5. TurnInv'
  BY <1>2 DEF TurnInv
<1>6. \A r \in Rows : work'[r] = NoWork
  BY <1>2
<1>7. /\ \A a \in Assets : completed'[a] = NoId
      /\ \A c \in Callers : call'[c] = Idle
      /\ completed' \in [Assets -> FileIds \cup {NoId}]
  BY <1>2
<1> QED
  BY <1>2, <1>4, <1>5, <1>6, <1>7, NoWorkTyped, QuietStep

(* Steps that leave the rows and the tick's state. *)
LEMMA AsideStep ==
  ASSUME FInv, Frame', UNCHANGED <<asset, job, completed, pc, work, turn, left, outlived>>,
         \A c \in Callers : call'[c] = Idle \/ call'[c] = call[c]
  PROVE  FInv'
<1>1. TypeOK /\ Entries /\ TurnInv
  BY Parts DEF FInv
<1>2. TurnInv'
  BY <1>1 DEF TurnInv
<1>3. ASSUME NEW r \in Rows, work'[r] # NoWork PROVE Placed(r)'
  <2>1. Placed(r)
    BY <1>3, WorkKnows
  <2> QED
    BY <2>1 DEF Placed
<1> QED
  BY <1>1, <1>2, <1>3, QuietStep DEF Entries

LEMMA CallIsSome ==
  ASSUME NEW k \in [pc : {"enqueueing", "resetting", "telling"}, asset : Assets, wakes : BOOLEAN]
  PROVE  k # Idle /\ k \in Call
BY DEF Idle, Call

(* What a caller at work holds, and goes on with. *)
LEMMA CallKnows ==
  ASSUME FInv, NEW c \in Callers, call[c] # Idle
  PROVE  /\ call[c] \in [pc : {"enqueueing", "resetting", "telling"}, asset : Assets,
                         wakes : BOOLEAN]
         /\ call[c].asset \in Assets /\ asset[call[c].asset] # NoAsset
<1>1. call[c] \in Call /\ CallInv(c)
  BY DEF FInv, TypeOK
<1> QED
  BY <1>1 DEF Call, CallInv

LEMMA AsideKeeps ==
  ASSUME FInv,
         \/ Restart \/ QueueEvent \/ (\E x \in Files : Progress(x))
         \/ \E c \in Callers : Tell(c) \/ CallFails(c)
  PROVE  FInv'
<1>1. TypeOK /\ Frame /\ Entries
  BY Parts DEF FInv
<1>2. CASE Restart
  <2>1. /\ UNCHANGED <<tables, local, pending, pc, completed, work, turn, left, result, call, history,
                       bounds>>
        /\ up' = TRUE /\ timer' = TRUE /\ naming' \in Namings
    BY <1>2 DEF Restart, rows
  <2>2. Frame'
    BY <1>1, <2>1 DEF Frame, tables, history, bounds
  <2> QED
    BY <2>1, <2>2, AsideStep DEF tables, history
<1>3. Schedule => timer' \in BOOLEAN /\ pending' \in BOOLEAN
  BY <1>1 DEF Schedule, Frame
<1>4. CASE QueueEvent
  <2>1. UNCHANGED <<tables, tdlib, up, pc, completed, work, turn, left, result, call, history, bounds>>
    BY <1>4 DEF QueueEvent, worker, rows
  <2>2. Frame'
    BY <1>1, <1>3, <1>4, <2>1 DEF Frame, tables, tdlib, history, bounds, QueueEvent
  <2> QED
    BY <2>1, <2>2, AsideStep DEF tables, history
<1>5. ASSUME NEW x \in Files, Progress(x)
      PROVE  FInv'
  <2>1. /\ UNCHANGED <<tables, naming, waking, up, pc, completed, work, turn, left, result, call,
                       history, bounds>>
        /\ local' = [local EXCEPT ![x] = @ + 1]
    BY <1>5 DEF Progress, worker, rows
  <2>2. local' \in [Files -> Nat]
    BY <1>1, <2>1 DEF Frame
  <2>3. Frame'
    BY <1>1, <2>1, <2>2 DEF Frame, tables, waking, history, bounds
  <2> QED
    BY <2>1, <2>3, AsideStep DEF tables, history
<1>6. ASSUME NEW c \in Callers, call' = [call EXCEPT ![c] = Idle]
      PROVE  call' \in [Callers -> Call] /\ \A d \in Callers : call'[d] = Idle \/ call'[d] = call[d]
  BY <1>1, <1>6 DEF Frame, Call
<1>7. ASSUME NEW c \in Callers, Tell(c)
      PROVE  FInv'
  <2>1. /\ UNCHANGED <<tables, tdlib, up, pc, completed, work, turn, left, result, history, bounds>>
        /\ call' = [call EXCEPT ![c] = Idle] /\ (Schedule \/ UNCHANGED waking)
    BY <1>7 DEF Tell, worker, rows
  <2>2. timer' \in BOOLEAN /\ pending' \in BOOLEAN
    BY <1>1, <1>3, <2>1 DEF waking, Frame
  <2>3. Frame'
    BY <1>1, <1>6, <2>1, <2>2 DEF Frame, tables, tdlib, history, bounds
  <2> QED
    BY <1>6, <2>1, <2>3, AsideStep DEF tables, history
<1>8. ASSUME NEW c \in Callers, CallFails(c)
      PROVE  FInv'
  <2>1. /\ UNCHANGED <<tables, tdlib, waking, up, pc, completed, work, turn, left, result, outlived,
                       overlooked>>
        /\ call' = [call EXCEPT ![c] = Idle]
        /\ unseen' \in {unseen, unseen \cup {call[c].asset}}
    BY <1>8 DEF CallFails, worker, rows
  <2>2. calls' = calls /\ faults' \in 0..MaxFaults
    BY <1>1, <1>8, FaultCounts DEF CallFails
  <2>3. call[c].asset \in Assets
    BY <1>8, CallKnows DEF CallFails
  <2>4. Frame'
    BY <1>1, <1>6, <2>1, <2>2, <2>3 DEF Frame, tables, tdlib, waking
  <2> QED
    BY <1>6, <2>1, <2>4, AsideStep DEF tables
<1> QED
  BY <1>2, <1>4, <1>5, <1>7, <1>8

(* Steps that leave the rows, and take nothing from them. *)
LEMMA TablesStep ==
  ASSUME FInv, Frame', Entries', UNCHANGED <<pc, work, turn, left, outlived>>,
         \A b \in Assets : Grows(b) /\ Unclaimed(b) /\ Kept(b) /\ AssetInv(b)',
         \A c \in Callers : CallInv(c)'
  PROVE  FInv'
<1>1. TurnInv'
  BY DEF FInv, TurnInv
<1>2. ASSUME NEW r \in Rows PROVE RowInv(r)'
  <2>1. CASE work[r] = NoWork
    BY <2>1 DEF RowInv
  <2>2. CASE work[r] # NoWork
    <3>1. work[r].asset \in Assets /\ Placed(r)
      BY <2>2, WorkKnows
    <3>2. Placed(r)'
      BY <3>1 DEF Placed
    <3> QED
      BY <2>2, <3>1, <3>2, RowRests
  <2> QED
    BY <2>1, <2>2
<1>3. \A r, s \in Rows : PairInv(r, s)'
  BY DEF FInv, PairInv
<1> QED
  BY <1>1, <1>2, <1>3, PartsNext DEF FInv

(* The steps of TDLib and of time. *)
LEMMA UpdateKeeps ==
  ASSUME FInv, NEW f \in FileIds, UpdateFile(f)
  PROVE  FInv' /\ Told
<1> DEFINE a == naming[f]
<1>1. TypeOK /\ Frame /\ Entries /\ a \in Files
  BY Parts, FilesAssumption DEF FInv, TypeOK
<1>2. /\ UNCHANGED <<job, tdlib, up, pc, work, turn, left, result, call, history, bounds>>
      /\ pointer' = [pointer EXCEPT ![f] = a]
      /\ asset' = IF Tells(a, f) THEN [asset EXCEPT ![a].downloaded = local[a]] ELSE asset
      /\ \/ completed' = completed /\ UNCHANGED waking
         \/ Tells(a, f) /\ completed' = [completed EXCEPT ![a] = f] /\ Schedule
  BY DEF UpdateFile, rows
<1>3. Told
  BY <1>1, <1>2, ProgressWrites DEF Told
<1>4. timer' \in BOOLEAN /\ pending' \in BOOLEAN
  BY <1>1, <1>2 DEF Frame, Schedule, waking
<1>5. pointer' \in [FileIds -> Files \cup {NoAsset}]
  BY <1>1, <1>2 DEF Frame
<1>6. Frame'
  BY <1>1, <1>2, <1>4, <1>5 DEF Frame, tdlib, history, bounds
<1>7. Tells(a, f) => a \in Assets /\ asset[a] # NoAsset
  BY DEF Tells, Matches
<1>8. /\ completed' \in [Assets -> FileIds \cup {NoId}]
      /\ \A b \in Assets : completed'[b] # NoId => completed[b] # NoId \/ asset[b] # NoAsset
  BY <1>1, <1>2, <1>7 DEF Entries
<1>9. Entries'
  BY <1>1, <1>2, <1>3, <1>8 DEF Entries, Told
<1>10. ASSUME NEW b \in Assets PROVE Grows(b) /\ Unclaimed(b) /\ Kept(b) /\ AssetInv(b)'
  <2>1. Still(b)
    BY <1>2, <1>3 DEF Still, Told
  <2>2. AssetInv(b)'
    BY <1>2, <1>3, <1>8 DEF FInv, AssetInv, Told
  <2> QED
    BY <1>1, <2>1, <2>2, StillKeeps
<1>11. \A c \in Callers : CallInv(c)'
  BY <1>2, <1>10, CallsRest
<1> QED
  BY <1>2, <1>3, <1>6, <1>9, <1>10, <1>11, TablesStep DEF history

LEMMA ExpiresKeeps ==
  ASSUME FInv, NEW a \in Assets, ClaimExpires(a)
  PROVE  /\ FInv' /\ (job'[a] # NoJob <=> job[a] # NoJob) /\ job'[a].status = job[a].status
         /\ \A b \in Assets : b # a => job'[b] = job[b]
<1>1. TypeOK /\ Frame /\ Entries
  BY Parts DEF FInv
<1>2. IsDownloading(a) /\ job[a] # NoJob /\ job' = [job EXCEPT ![a].stale = TRUE]
  BY DEF ClaimExpires, Downloading, IsDownloading
<1>3. UNCHANGED <<asset, pointer, tdlib, waking, up, pc, completed, work, turn, left, result, call,
                  history, bounds>>
  BY DEF ClaimExpires, worker, rows
<1>4. job[a] \in Job /\ job \in [Assets -> Job \cup {NoJob}]
  BY <1>1, <1>2, Kinds DEF Entries
<1>5. PICK j \in Job : /\ j = [job[a] EXCEPT !.stale = TRUE]
                       /\ j.status = job[a].status /\ j.attempts = job[a].attempts
  <2> DEFINE j == [job[a] EXCEPT !.stale = TRUE]
  <2>1. j \in Job /\ j.status = job[a].status /\ j.attempts = job[a].attempts
    BY <1>4 DEF Job
  <2> QED
    BY <2>1
<1>6. job' = [job EXCEPT ![a] = j]
  BY <1>2, <1>4, <1>5
<1>7. /\ job' \in [Assets -> Job \cup {NoJob}] /\ job'[a] # NoJob
      /\ job'[a].status = job[a].status /\ job'[a].attempts = job[a].attempts
      /\ \A b \in Assets : b # a => job'[b] = job[b]
  BY <1>4, <1>5, <1>6, RowsAssumption
<1>8. Frame' /\ Entries'
  BY <1>1, <1>3, <1>7 DEF Frame, Entries, tdlib, waking, history, bounds
<1>9. ASSUME NEW b \in Assets PROVE Grows(b) /\ Unclaimed(b) /\ Kept(b) /\ AssetInv(b)'
  <2>1. CASE b = a
    <3>1. job[a].attempts \in Nat
      BY <1>4, FilesAssumption DEF Job
    <3>2. AssetInv(a)
      BY DEF FInv
    <3> QED
      BY <1>2, <1>3, <1>7, <2>1, <3>1, <3>2 DEF Grows, Unclaimed, Kept, IsDownloading, AssetInv
  <2>2. CASE b # a
    <3>1. Still(b)
      BY <1>3, <1>7, <2>2 DEF Still
    <3> QED
      BY <1>1, <1>3, <3>1, StillKeeps, StillAsset
  <2> QED
    BY <2>1, <2>2
<1>10. \A c \in Callers : CallInv(c)'
  BY <1>3, <1>9, CallsRest
<1> QED
  BY <1>2, <1>3, <1>7, <1>8, <1>9, <1>10, TablesStep DEF history

(* A step of caller c about asset a. *)
LEMMA CallStep ==
  ASSUME FInv, NEW a \in Assets, NEW c \in Callers, Frame', Entries',
         UNCHANGED <<pc, work, turn, left, outlived, completed>>,
         Grows(a), Unclaimed(a), Kept(a), AssetInv(a)', CallInv(c)',
         \A b \in Assets : b # a => Still(b),
         \A d \in Callers : d # c => call'[d] = call[d]
  PROVE  FInv'
<1>1. TypeOK
  BY DEF FInv
<1>2. \A b \in Assets : Grows(b) /\ Unclaimed(b) /\ Kept(b) /\ AssetInv(b)'
  BY <1>1, StillKeeps, StillAsset
<1>3. \A d \in Callers : CallInv(d)'
  BY <1>2, CallsRest
<1> QED
  BY <1>2, <1>3, TablesStep

LEMMA RecordKeeps ==
  ASSUME FInv, NEW c \in Callers, NEW f \in FileIds, RecordSlot(c, f),
         NEW a \in Assets, a = naming[f]
  PROVE  /\ FInv' /\ job' = job
         /\ asset'[a] # NoAsset
         /\ asset[a] = NoAsset => asset'[a].status = "known"
         /\ asset[a] # NoAsset => asset'[a].status = asset[a].status
         /\ \A b \in Assets : b # a => asset'[b] = asset[b]
<1>1. TypeOK /\ Frame /\ Entries /\ a \in Files
  BY FilesAssumption, Parts DEF FInv
<1>2. /\ UNCHANGED <<job, tdlib, up, pc, completed, work, turn, left, result, waking, history, faults>>
      /\ calls < MaxCalls /\ calls' = calls + 1
      /\ pointer' = [pointer EXCEPT ![f] = a]
      /\ asset' = [asset EXCEPT ![a] =
                     IF @ = NoAsset THEN [status |-> "known", file |-> f, downloaded |-> 0]
                     ELSE [@ EXCEPT !.file = f]]
      /\ \/ call' = call
         \/ call' = [call EXCEPT ![c] = [pc |-> "enqueueing", asset |-> a, wakes |-> FALSE]]
  BY DEF RecordSlot, worker, rows
<1>3. /\ asset' \in [Assets -> Asset \cup {NoAsset}] /\ asset'[a] # NoAsset
      /\ asset[a] = NoAsset => asset'[a].status = "known"
      /\ asset[a] # NoAsset => asset'[a].status = asset[a].status
      /\ \A b \in Assets : b # a => asset'[b] = asset[b]
  <2>1. CASE asset[a] = NoAsset
    <3> DEFINE x == [status |-> "known", file |-> f, downloaded |-> 0]
    <3>1. x \in Asset /\ x.status = "known"
      BY DEF Asset, AssetStatuses
    <3>2. asset' = [asset EXCEPT ![a] = x]
      BY <1>1, <1>2, <2>1 DEF Entries
    <3> HIDE DEF x
    <3> QED
      BY <1>1, <2>1, <3>1, <3>2, RowsAssumption DEF Entries
  <2>2. CASE asset[a] # NoAsset
    <3>1. asset' = [asset EXCEPT ![a].file = f]
      BY <1>1, <1>2, <2>2 DEF Entries
    <3> QED
      BY <1>1, <2>2, <3>1, FileWrites
  <2> QED
    BY <2>1, <2>2
<1>4. calls' \in 0..MaxCalls
  BY <1>1, <1>2, FilesAssumption DEF Frame
<1>5. /\ call' \in [Callers -> Call] /\ \A d \in Callers : d # c => call'[d] = call[d]
      /\ \/ call'[c] = call[c]
         \/ call'[c] = [pc |-> "enqueueing", asset |-> a, wakes |-> FALSE]
  <2> DEFINE k == [pc |-> "enqueueing", asset |-> a, wakes |-> FALSE]
  <2>1. k \in Call
    BY DEF Call
  <2>2. call \in [Callers -> Call] /\ (call' = call \/ call' = [call EXCEPT ![c] = k])
    BY <1>1, <1>2 DEF Frame
  <2> HIDE DEF k
  <2>3. /\ call' \in [Callers -> Call] /\ \A d \in Callers : d # c => call'[d] = call[d]
        /\ call'[c] = call[c] \/ call'[c] = k
    BY <2>1, <2>2
  <2> QED
    BY <2>3 DEF k
<1>6. Frame' /\ Entries'
  <2>1. pointer' \in [FileIds -> Files \cup {NoAsset}]
    BY <1>1, <1>2 DEF Frame
  <2> QED
    BY <1>1, <1>2, <1>3, <1>4, <1>5, <2>1 DEF Frame, Entries, tdlib, waking, history
<1>7. Grows(a) /\ Unclaimed(a) /\ Kept(a)
  <2>1. IsDownloading(a) => job[a].attempts \in Nat
    BY <1>1, Kinds, FilesAssumption DEF IsDownloading, Job
  <2> QED
    BY <1>2, <1>3, <2>1 DEF Grows, Unclaimed, Kept, IsDownloading
<1>8. AssetInv(a)'
  BY <1>2, <1>3 DEF FInv, AssetInv
<1>9. \A b \in Assets : b # a => Still(b)
  BY <1>2, <1>3 DEF Still
<1>10. CallInv(c)'
  <2>1. CASE call'[c] = call[c]
    <3>1. call[c] # Idle => asset[call[c].asset] # NoAsset /\ call[c].asset \in Assets
      BY CallKnows
    <3> QED
      BY <1>3, <2>1, <3>1 DEF CallInv
  <2>2. CASE call'[c] = [pc |-> "enqueueing", asset |-> a, wakes |-> FALSE]
    BY <1>3, <2>2 DEF CallInv
  <2> QED
    BY <1>5, <2>1, <2>2
<1>11. FInv'
  BY <1>2, <1>5, <1>6, <1>7, <1>8, <1>9, <1>10, CallStep DEF history
<1> QED
  BY <1>2, <1>3, <1>11

LEMMA RequestKeeps ==
  ASSUME FInv, NEW c \in Callers, NEW a \in Assets, RequestFile(c, a)
  PROVE  FInv'
<1>1. TypeOK /\ Frame /\ Entries
  BY Parts DEF FInv
<1>2. /\ UNCHANGED <<asset, job, pointer, tdlib, up, pc, completed, work, turn, left, result,
                     waking, history, faults>>
      /\ calls < MaxCalls /\ calls' = calls + 1 /\ asset[a] # NoAsset
      /\ call' = [call EXCEPT ![c] = [pc |-> "enqueueing", asset |-> a, wakes |-> TRUE]]
  BY DEF RequestFile, tables, worker, rows
<1>3. calls' \in 0..MaxCalls
  BY <1>1, <1>2, FilesAssumption DEF Frame
<1>4. /\ call' \in [Callers -> Call] /\ \A d \in Callers : d # c => call'[d] = call[d]
      /\ call'[c] = [pc |-> "enqueueing", asset |-> a, wakes |-> TRUE]
  BY <1>1, <1>2 DEF Frame, Call
<1>5. Frame' /\ Entries'
  BY <1>1, <1>2, <1>3, <1>4 DEF Frame, Entries, tdlib, waking, history
<1>6. \A b \in Assets : Still(b)
  BY <1>2 DEF Still
<1>7. Grows(a) /\ Unclaimed(a) /\ Kept(a) /\ AssetInv(a)'
  BY <1>1, <1>2, <1>6, StillKeeps, StillAsset
<1>8. CallInv(c)'
  BY <1>2, <1>4 DEF CallInv
<1> QED
  BY <1>2, <1>4, <1>5, <1>6, <1>7, <1>8, CallStep DEF history

LEMMA EnqueueWrites ==
  ASSUME FInv, NEW c \in Callers, Enqueue(c), NEW a \in Assets, a = call[c].asset
  PROVE  /\ job' \in [Assets -> Job \cup {NoJob}] /\ job'[a] # NoJob
         /\ job[a] # NoJob => job'[a] = job[a]
         /\ job[a] = NoJob => job'[a].status = "queued" /\ job'[a].attempts = 0
         /\ \A b \in Assets : b # a => job'[b] = job[b]
<1>1. job \in [Assets -> Job \cup {NoJob}]
  BY DEF FInv, TypeOK
<1>2. job' = [job EXCEPT ![a] =
                IF @ = NoJob THEN [status |-> "queued", attempts |-> 0, stale |-> FALSE] ELSE @]
  BY DEF Enqueue
<1>3. [status |-> "queued", attempts |-> 0, stale |-> FALSE] \in Job
  <2>1. 0 \in 0..MaxStaleAttempts
    BY FilesAssumption
  <2> QED
    BY <2>1 DEF Job
<1>4. CASE job[a] = NoJob
  BY <1>1, <1>2, <1>3, <1>4, RowsAssumption
<1>5. CASE job[a] # NoJob
  BY <1>1, <1>2, <1>5
<1> QED
  BY <1>4, <1>5

LEMMA EnqueueKeeps ==
  ASSUME FInv, NEW c \in Callers, Enqueue(c)
  PROVE  FInv'
<1>1. call[c] # Idle
  BY DEF Enqueue, Idle
<1>2. PICK a \in Assets :
        /\ a = call[c].asset /\ asset[a] # NoAsset
        /\ call[c] \in [pc : {"enqueueing", "resetting", "telling"}, asset : Assets, wakes : BOOLEAN]
  BY <1>1, CallKnows
<1>3. TypeOK /\ Frame /\ Entries
  BY Parts DEF FInv
<1>4. PICK raised \in BOOLEAN :
        call' = [call EXCEPT ![c].pc = "resetting", ![c].wakes = @ \/ raised \/ job[a] = NoJob]
  BY <1>2 DEF Enqueue
<1>5. UNCHANGED <<asset, pointer, tdlib, up, pc, completed, work, turn, left, result, waking,
                  history, bounds>>
  BY DEF Enqueue, worker, rows
<1>6. /\ call'[c] \in [pc : {"enqueueing", "resetting", "telling"}, asset : Assets, wakes : BOOLEAN]
      /\ call'[c].asset = a /\ \A d \in Callers : d # c => call'[d] = call[d]
      /\ call' \in [Callers -> Call \cup {call'[c]}]
  BY <1>2, <1>3, <1>4 DEF Frame
<1>7. call' \in [Callers -> Call]
  BY <1>6, CallIsSome
<1>8. /\ job' \in [Assets -> Job \cup {NoJob}] /\ job'[a] # NoJob
      /\ job[a] # NoJob => job'[a] = job[a]
      /\ job[a] = NoJob => job'[a].status = "queued" /\ job'[a].attempts = 0
      /\ \A b \in Assets : b # a => job'[b] = job[b]
  BY <1>2, EnqueueWrites
<1>9. Frame' /\ Entries'
  BY <1>3, <1>5, <1>7, <1>8 DEF Frame, Entries, tdlib, waking, history, bounds
<1>10. Grows(a) /\ Unclaimed(a) /\ Kept(a)
  <2>1. IsDownloading(a) => job[a].attempts \in Nat
    BY <1>3, Kinds, FilesAssumption DEF IsDownloading, Job
  <2> QED
    BY <1>5, <1>8, <2>1 DEF Grows, Unclaimed, Kept, IsDownloading
<1>11. AssetInv(a)'
  BY <1>2, <1>5, <1>8 DEF FInv, AssetInv
<1>12. \A b \in Assets : b # a => Still(b)
  BY <1>5, <1>8 DEF Still
<1>13. CallInv(c)'
  BY <1>2, <1>5, <1>6 DEF CallInv
<1> QED
  BY <1>5, <1>6, <1>9, <1>10, <1>11, <1>12, <1>13, CallStep DEF history

LEMMA ResetKeeps ==
  ASSUME FInv, NEW c \in Callers, ResetFailure(c), NEW a \in Assets, a = call[c].asset
  PROVE  /\ FInv' /\ job' = job /\ asset[a] # NoAsset /\ asset'[a] # NoAsset
         /\ asset'[a].status = IF asset[a].status \in {"failed", "stalled"} THEN "known"
                               ELSE asset[a].status
         /\ \A b \in Assets : b # a => asset'[b] = asset[b]
<1> DEFINE st == IF asset[a].status \in {"failed", "stalled"} THEN "known" ELSE asset[a].status
<1>1. call[c] # Idle
  BY DEF ResetFailure, Idle
<1>2. /\ asset[a] # NoAsset
      /\ call[c] \in [pc : {"enqueueing", "resetting", "telling"}, asset : Assets, wakes : BOOLEAN]
  BY <1>1, CallKnows
<1>3. TypeOK /\ Frame /\ Entries /\ asset[a] \in Asset
  BY <1>2, Parts, Kinds DEF FInv
<1>4. /\ UNCHANGED <<job, pointer, tdlib, up, pc, completed, work, turn, left, result, waking,
                     history, bounds>>
      /\ call' = [call EXCEPT ![c].pc = "telling"]
      /\ asset' = [asset EXCEPT ![a].status = st]
  BY <1>3 DEF ResetFailure, worker, rows, Entries
<1>5. st \in AssetStatuses /\ st # "stalled" /\ (asset[a].status = "ready" => st = "ready")
  BY <1>3 DEF Asset, AssetStatuses
<1>6. /\ asset' \in [Assets -> Asset \cup {NoAsset}] /\ asset'[a] # NoAsset
      /\ asset'[a].status = st
      /\ \A b \in Assets : b # a => asset'[b] = asset[b]
  <2> HIDE DEF st
  <2> QED
    BY <1>2, <1>3, <1>4, <1>5, StatusWrites
<1>7. /\ call'[c] \in [pc : {"enqueueing", "resetting", "telling"}, asset : Assets, wakes : BOOLEAN]
      /\ call'[c].asset = a /\ \A d \in Callers : d # c => call'[d] = call[d]
      /\ call' \in [Callers -> Call \cup {call'[c]}]
  BY <1>2, <1>3, <1>4 DEF Frame
<1>8. call' \in [Callers -> Call]
  BY <1>7, CallIsSome
<1>9. Frame' /\ Entries'
  BY <1>3, <1>4, <1>6, <1>8 DEF Frame, Entries, tdlib, waking, history, bounds
<1>10. Grows(a) /\ Unclaimed(a) /\ Kept(a)
  <2>1. IsDownloading(a) => job[a].attempts \in Nat
    BY <1>3, Kinds, FilesAssumption DEF IsDownloading, Job
  <2> QED
    BY <1>4, <1>5, <1>6, <2>1 DEF Grows, Unclaimed, Kept, IsDownloading
<1>11. AssetInv(a)'
  BY <1>4, <1>6 DEF FInv, AssetInv
<1>12. \A b \in Assets : b # a => Still(b)
  BY <1>4, <1>6 DEF Still
<1>13. CallInv(c)'
  BY <1>6, <1>7 DEF CallInv
<1>14. FInv'
  BY <1>4, <1>7, <1>9, <1>10, <1>11, <1>12, <1>13, CallStep DEF history
<1> QED
  BY <1>2, <1>4, <1>6, <1>14

-----------------------------------------------------------------------------
(* The steps that hand rows to the tick *)

(* Each asset of S gets a free row of its own. *)
LEMMA AdmitWrites ==
  ASSUME FInv, NEW S \in SUBSET Assets, NEW row,
         \A a \in S : row[a] \in Task /\ row[a].asset = a, Admit(S, row)
  PROVE  /\ work' \in [Rows -> Work]
         /\ \A r \in Rows : \/ work'[r] = work[r]
                            \/ work[r] = NoWork /\ \E a \in S : work'[r] = row[a]
         /\ \A r, s \in Rows :
              /\ work[r] = NoWork /\ work[s] = NoWork
              /\ work'[r] # NoWork /\ work'[s] # NoWork /\ work'[r].asset = work'[s].asset
              => r = s
<1> DEFINE seat == CHOOSE s \in Seatings(S) : TRUE
<1>1. seat \in Seatings(S)
  BY DEF Admit
<1>2. seat \in [S -> Free] /\ \A a, b \in S : seat[a] = seat[b] => a = b
  BY <1>1 DEF Seatings
<1>3. work' = [r \in Rows |->
                 IF \E a \in S : seat[a] = r THEN row[CHOOSE a \in S : seat[a] = r]
                 ELSE work[r]]
  BY DEF Admit
<1> HIDE DEF seat
<1>4. ASSUME NEW a \in S
      PROVE  seat[a] \in Rows /\ work[seat[a]] = NoWork /\ work'[seat[a]] = row[a]
  <2>1. seat[a] \in Free
    BY <1>2
  <2>2. seat[a] \in Rows /\ work[seat[a]] = NoWork
    BY <2>1 DEF Free, Busy
  <2>3. (CHOOSE b \in S : seat[b] = seat[a]) = a
    BY <1>2
  <2> QED
    BY <1>3, <2>2, <2>3
<1>5. ASSUME NEW r \in Rows
      PROVE  (\E a \in S : seat[a] = r) \/ work'[r] = work[r]
  BY <1>3
<1>6. ASSUME NEW r \in Rows PROVE work'[r] \in Work
  <2>1. CASE \E a \in S : seat[a] = r
    BY <1>4, <2>1, WorkIsSome
  <2>2. CASE work'[r] = work[r]
    BY <2>2 DEF FInv, TypeOK
  <2> QED
    BY <1>5, <2>1, <2>2
<1>7. work' \in [Rows -> Work]
  BY <1>3, <1>6
<1>8. ASSUME NEW r \in Rows, work[r] = NoWork, work'[r] # NoWork
      PROVE  \E a \in S : seat[a] = r /\ work'[r] = row[a] /\ work'[r].asset = a
  BY <1>4, <1>5, <1>8
<1>9. ASSUME NEW r \in Rows, NEW s \in Rows, work[r] = NoWork, work[s] = NoWork,
             work'[r] # NoWork, work'[s] # NoWork, work'[r].asset = work'[s].asset
      PROVE  r = s
  BY <1>8, <1>9
<1> QED
  BY <1>4, <1>5, <1>7, <1>9

(* The tick takes up rows, each of its own asset, while it has none. *)
LEMMA AdmitStep ==
  ASSUME FInv, Own = {}, NEW S \in SUBSET Assets, NEW row, NEW kind \in {"completed", "stale"},
         \A a \in S :
           /\ row[a] \in Task /\ row[a].asset = a /\ row[a].kind = kind /\ asset[a] # NoAsset
           /\ row[a].pc = "waiting" \/ (kind = "stale" /\ row[a].pc = "recovering")
           /\ kind = "stale" => IsDownloading(a) /\ row[a].attempts = job[a].attempts,
         Admit(S, row), pc' = IF kind = "stale" THEN "reconciling" ELSE "storing",
         UNCHANGED <<asset, job, call, turn, left, outlived>>, Frame',
         completed' \in [Assets -> FileIds \cup {NoId}],
         \A a \in Assets : completed'[a] \in {completed[a], NoId}
  PROVE  FInv'
<1>1. TypeOK /\ Entries /\ turn = {} /\ \A r \in Rows : work[r] # NoWork => r \in left
  BY NoneOwn, Parts DEF FInv
<1>2. /\ work' \in [Rows -> Work]
      /\ \A r \in Rows : \/ work'[r] = work[r]
                         \/ work[r] = NoWork /\ \E a \in S : work'[r] = row[a]
      /\ \A r, s \in Rows :
           /\ work[r] = NoWork /\ work[s] = NoWork
           /\ work'[r] # NoWork /\ work'[s] # NoWork /\ work'[r].asset = work'[s].asset
           => r = s
  BY AdmitWrites
<1>3. Entries' /\ TypeOK'
  BY <1>1, <1>2, PartsNext DEF Entries
<1>4. \A b \in Assets : Still(b)
  BY DEF Still
<1>5. \A b \in Assets : Grows(b) /\ Unclaimed(b) /\ Kept(b) /\ AssetInv(b)'
  BY <1>1, <1>4, StillKeeps, StillAsset
<1>6. ASSUME NEW r \in Rows, work[r] # NoWork
      PROVE  /\ work'[r] = work[r] /\ RowInv(r)' /\ r \in left /\ work[r].kind = "claimed"
             /\ work[r].asset \in outlived
  <2>1. work'[r] = work[r] /\ r \in left
    BY <1>1, <1>2, <1>6
  <2>2. Placed(r) /\ work[r].asset \in Assets
    BY <1>6, WorkKnows
  <2>3. Placed(r)'
    BY <2>1, <2>2 DEF Placed
  <2>4. RowInv(r)'
    BY <1>3, <1>5, <1>6, <2>1, <2>2, <2>3, RowRests
  <2> QED
    BY <2>1, <2>2, <2>4 DEF Placed
<1>7. \A r \in left : work[r] # NoWork
  BY DEF FInv, TurnInv
<1>8. ASSUME NEW r \in Rows, work[r] = NoWork, work'[r] # NoWork
      PROVE  RowInv(r)' /\ work'[r].kind = kind
  <2>1. PICK a \in S : work'[r] = row[a]
    BY <1>2, <1>8
  <2>2. work'[r].asset = a /\ work'[r].kind = kind /\ r \notin left'
    BY <1>7, <1>8, <2>1
  <2>3. Placed(r)'
    BY <2>1, <2>2 DEF Placed
  <2>4. IsDownloading(a) => job[a].attempts \in Nat
    BY <1>1, Kinds, FilesAssumption DEF IsDownloading, Job
  <2>5. Sound(r)'
    BY <2>1, <2>2, <2>4 DEF Sound, IsDownloading, CompletedSteps
  <2>6. Fits(r)'
    BY <2>1, <2>2 DEF Fits, IsDownloading, StoreSteps
  <2> QED
    BY <2>2, <2>3, <2>5, <2>6 DEF RowInv
<1>9. ASSUME NEW r \in Rows PROVE RowInv(r)'
  <2>1. CASE work'[r] = NoWork
    BY <2>1 DEF RowInv
  <2> QED
    BY <1>6, <1>8, <2>1
<1>10. ASSUME NEW r \in Rows, NEW s \in Rows PROVE PairInv(r, s)'
  <2> SUFFICES ASSUME r # s, work'[r] # NoWork, work'[s] # NoWork, work'[r].asset = work'[s].asset
               PROVE  /\ work'[r].asset \in outlived
                      /\ work'[r].kind # "stale" \/ work'[s].kind # "stale"
    BY DEF PairInv
  <2>1. work[r] # NoWork \/ work[s] # NoWork
    BY <1>2
  <2> QED
    BY <1>6, <2>1
<1>11. TurnInv'
  BY <1>1, <1>2, <1>3, <1>6, <1>7 DEF TurnInv, TypeOK
<1>12. \A c \in Callers : CallInv(c)'
  BY <1>5, CallsRest
<1> QED
  BY <1>3, <1>5, <1>9, <1>10, <1>11, <1>12 DEF FInv

LEMMA RowReadIs ==
  ASSUME FInv, NEW a \in Assets, job[a] # NoJob, NEW kind \in {"stale", "claimed"}
  PROVE  /\ RowRead(kind, a) \in Task /\ asset[a] # NoAsset
         /\ RowRead(kind, a).kind = kind /\ RowRead(kind, a).pc \in {"waiting", "recovering"}
         /\ RowRead(kind, a).asset = a /\ RowRead(kind, a).attempts = job[a].attempts
<1>1. asset[a] \in Asset /\ asset[a] # NoAsset /\ job[a] \in Job
  BY Kinds DEF FInv, AssetInv
<1>2. asset[a].file \in FileIds /\ job[a].attempts \in 0..MaxStaleAttempts
  BY <1>1 DEF Asset, Job
<1>3. PICK step \in {"waiting", "recovering"} :
        RowRead(kind, a) = [kind |-> kind, asset |-> a, pc |-> step, file |-> asset[a].file,
                            attempts |-> job[a].attempts]
  BY DEF RowRead
<1>4. step \in Steps
  BY DEF Steps, RowSteps
<1> QED
  BY <1>1, <1>2, <1>3, <1>4 DEF Task

LEMMA FiresKeeps ==
  ASSUME FInv, TimerFires
  PROVE  FInv'
<1> DEFINE there == {a \in Assets : completed[a] # NoId}
<1>1. TypeOK /\ Frame /\ Entries
  BY Parts DEF FInv
<1>2. PICK taken \in SUBSET there :
        /\ completed' = [a \in Assets |-> IF a \in taken THEN NoId ELSE completed[a]]
        /\ Admit(taken, [a \in taken |->
                         [kind |-> "completed", asset |-> a, pc |-> "waiting",
                          file |-> completed[a], attempts |-> 0]])
        /\ result' = [NoResult EXCEPT !.again = there # taken]
  BY DEF TimerFires
<1> DEFINE row == [a \in taken |-> [kind |-> "completed", asset |-> a, pc |-> "waiting",
                                    file |-> completed[a], attempts |-> 0]]
<1>3. /\ UNCHANGED <<tables, tdlib, up, call, bounds, pending, turn, left, outlived, overlooked>>
      /\ timer' = FALSE /\ pc' = "storing" /\ unseen' = {} /\ pc = "idle"
  BY DEF TimerFires, outside
<1>4. result' \in [again : BOOLEAN, reconciled : BOOLEAN, cut : BOOLEAN]
  BY <1>2 DEF NoResult
<1>5. completed' \in [Assets -> FileIds \cup {NoId}]
  BY <1>1, <1>2 DEF Entries
<1>6. \A a \in Assets : completed'[a] \in {completed[a], NoId}
  BY <1>2
<1>7. Frame'
  BY <1>1, <1>3, <1>4 DEF Frame, Stages, tables, tdlib, bounds
<1>8. Own = {}
  <2>1. ASSUME NEW r \in Own PROVE FALSE
    <3>1. r \in Rows /\ work[r] # NoWork /\ r \notin left
      BY <2>1 DEF Own, Busy
    <3> QED
      BY <1>3, <3>1, WorkKnows DEF Placed
  <2> QED
    BY <2>1
<1>9. ASSUME NEW a \in taken
      PROVE  /\ row[a] \in Task /\ row[a].asset = a /\ row[a].kind = "completed"
             /\ row[a].pc = "waiting" /\ asset[a] # NoAsset
  <2>1. a \in Assets /\ completed[a] \in FileIds /\ asset[a] # NoAsset
    BY <1>1, Kinds DEF FInv, AssetInv
  <2>2. "waiting" \in Steps /\ 0 \in 0..MaxStaleAttempts
    BY FilesAssumption DEF Steps, RowSteps
  <2> QED
    BY <2>1, <2>2 DEF Task
<1>10. taken \in SUBSET Assets /\ Admit(taken, row)
  BY <1>2
<1> HIDE DEF row
<1> QED
  BY <1>3, <1>5, <1>6, <1>7, <1>8, <1>9, <1>10, AdmitStep DEF tables

LEMMA ReadKeeps ==
  ASSUME FInv, ReadStale
  PROVE  FInv'
<1>1. TypeOK /\ Frame /\ Entries
  BY Parts DEF FInv
<1>2. PICK taken \in SUBSET Stale :
        /\ Admit(taken, [a \in taken |-> RowRead("stale", a)])
        /\ result' = [result EXCEPT !.again = @ \/ taken # Stale, !.reconciled = taken # {}]
  BY DEF ReadStale
<1> DEFINE row == [a \in taken |-> RowRead("stale", a)]
<1>3. /\ UNCHANGED <<tables, tdlib, up, call, bounds, waking, completed, turn, left, history>>
      /\ pc' = "reconciling" /\ Own = {}
  BY DEF ReadStale, outside
<1>4. result' \in [again : BOOLEAN, reconciled : BOOLEAN, cut : BOOLEAN]
  BY <1>1, <1>2 DEF Frame
<1>5. Frame'
  BY <1>1, <1>3, <1>4 DEF Frame, Stages, tables, tdlib, bounds, waking, history
<1>6. ASSUME NEW a \in taken
      PROVE  /\ a \in Assets /\ IsDownloading(a) /\ asset[a] # NoAsset
             /\ row[a] \in Task /\ row[a].asset = a /\ row[a].kind = "stale"
             /\ row[a].pc \in {"waiting", "recovering"} /\ row[a].attempts = job[a].attempts
  <2>1. a \in Assets /\ IsDownloading(a) /\ job[a] # NoJob
    BY DEF Stale, Downloading, IsDownloading
  <2> QED
    BY <2>1, RowReadIs
<1>7. taken \in SUBSET Assets /\ Admit(taken, row)
  BY <1>2, <1>6
<1>8. /\ completed' \in [Assets -> FileIds \cup {NoId}]
      /\ \A a \in Assets : completed'[a] \in {completed[a], NoId}
  BY <1>1, <1>3 DEF Entries
<1> HIDE DEF row
<1> QED
  BY <1>3, <1>5, <1>6, <1>7, <1>8, AdmitStep DEF tables, history

LEMMA ClaimKeeps ==
  ASSUME FInv, NEW a \in Assets, Claim(a)
  PROVE  /\ FInv' /\ job'[a] # NoJob /\ job'[a].status = "downloading"
         /\ \A b \in Assets : b # a => job'[b] = job[b]
<1> DEFINE w == [kind |-> "claimed", asset |-> a, pc |-> "claimed", file |-> asset[a].file,
                 attempts |-> job[a].attempts]
<1>0. PICK r \in Rows : r = (CHOOSE s \in Free : TRUE) /\ work[r] = NoWork
  <2>1. Free # {} /\ (CHOOSE s \in Free : TRUE) \in Free
    BY DEF Claim
  <2> QED
    BY <2>1 DEF Free, Busy
<1>1. TypeOK /\ Frame /\ Entries /\ AssetInv(a) /\ TurnInv
  BY Parts DEF FInv
<1>2. /\ job[a] # NoJob /\ job[a].status = "queued" /\ pc = "claiming"
      /\ job' = [job EXCEPT ![a] = [status |-> "downloading", attempts |-> @.attempts + 1,
                                    stale |-> FALSE]]
      /\ work' = [work EXCEPT ![r] = w]
  BY <1>0 DEF Claim, Queued
<1>3. UNCHANGED <<asset, pointer, tdlib, up, waking, pc, completed, turn, left, result, call,
                  history, bounds>>
  BY DEF Claim
<1>4. r \in Rows /\ work[r] = NoWork
  BY <1>0
<1>5. PICK j \in Job :
        /\ j = [status |-> "downloading", attempts |-> 1, stale |-> FALSE]
        /\ job' = [job EXCEPT ![a] = j]
  <2>1. 1 \in 0..MaxStaleAttempts
    BY FilesAssumption
  <2>2. [status |-> "downloading", attempts |-> 1, stale |-> FALSE] \in Job
    BY <2>1 DEF Job
  <2>3. job[a].attempts + 1 = 1
    BY <1>1, <1>2 DEF AssetInv
  <2>4. job' = [job EXCEPT ![a] = [status |-> "downloading", attempts |-> 1, stale |-> FALSE]]
    BY <1>1, <1>2, <2>3 DEF Entries
  <2> QED
    BY <2>2, <2>4
<1>6. /\ job' \in [Assets -> Job \cup {NoJob}] /\ job'[a] # NoJob
      /\ job'[a].status = "downloading"
      /\ \A b \in Assets : b # a => job'[b] = job[b]
  BY <1>1, <1>5, RowsAssumption DEF Entries
<1>7. w \in Task /\ asset[a] # NoAsset
  <2>1. asset[a] \in Asset /\ asset[a] # NoAsset /\ job[a] \in Job
    BY <1>1, <1>2, Kinds DEF AssetInv
  <2>2. asset[a].file \in FileIds /\ job[a].attempts \in 0..MaxStaleAttempts
    BY <2>1 DEF Asset, Job
  <2>3. "claimed" \in Steps
    BY DEF Steps, RowSteps
  <2> QED
    BY <2>1, <2>2, <2>3 DEF Task
<1>8. w.kind = "claimed" /\ w.asset = a /\ w.pc = "claimed"
  OBVIOUS
<1> HIDE DEF w
<1>9. /\ work' \in [Rows -> Work] /\ work'[r] = w /\ work'[r] # NoWork
      /\ \A s \in Rows : s # r => work'[s] = work[s]
  BY <1>1, <1>2, <1>4, <1>7, WorkIsSome DEF Entries
<1>10. Frame' /\ Entries' /\ TypeOK'
  BY <1>1, <1>3, <1>6, <1>9, PartsNext DEF Frame, Entries, tdlib, waking, history, bounds
<1>11. \A b \in Assets : b # a => Still(b)
  BY <1>3, <1>6 DEF Still
<1>12. Grows(a) /\ Kept(a)
  BY <1>3, <1>6 DEF Grows, Kept, IsDownloading
<1>13. \A b \in Assets : Grows(b) /\ Kept(b) /\ (b # a => Unclaimed(b))
  BY <1>1, <1>11, <1>12, StillKeeps
<1>14. ASSUME NEW b \in Assets PROVE AssetInv(b)'
  <2>1. CASE b = a
    BY <1>3, <1>6, <1>7, <2>1 DEF AssetInv
  <2>2. CASE b # a
    BY <1>3, <1>11, <2>2, StillAsset
  <2> QED
    BY <2>1, <2>2
<1>15. ASSUME NEW s \in Rows, s # r, work[s] # NoWork
       PROVE  /\ RowInv(s)' /\ work[s].kind = "claimed"
              /\ work[s].asset = a => a \in outlived
  <2>1. Placed(s) /\ work[s].asset \in Assets /\ (work[s].asset \notin outlived => Fits(s))
    BY <1>15, WorkKnows
  <2>2. work[s].kind = "claimed"
    BY <1>2, <2>1 DEF Placed
  <2>3. ASSUME work[s].asset = a, a \notin outlived PROVE FALSE
    <3>1. work[s].pc \in RowSteps
      BY <1>2, <2>1, <2>3 DEF Placed, RowSteps
    <3>2. IsDownloading(a)
      BY <2>1, <2>2, <2>3, <3>1 DEF Fits
    <3> QED
      BY <1>2, <3>2 DEF IsDownloading
  <2>4. Placed(s)' /\ work'[s] = work[s]
    BY <1>3, <1>9, <1>15, <2>1 DEF Placed, history
  <2>5. RowInv(s)'
    BY <1>3, <1>10, <1>13, <1>15, <2>1, <2>2, <2>4, RowRests DEF history
  <2> QED
    BY <2>2, <2>3, <2>5
<1>16. RowInv(r)'
  <2>1. r \notin left
    BY <1>1, <1>4 DEF TurnInv
  <2>2. Placed(r)' /\ Sound(r)' /\ Fits(r)'
    BY <1>2, <1>3, <1>4, <1>6, <1>7, <1>8, <1>9, <2>1
       DEF Placed, Sound, Fits, IsDownloading, StoreSteps
  <2> QED
    BY <2>2 DEF RowInv
<1>17. ASSUME NEW s \in Rows PROVE RowInv(s)'
  <2>1. CASE s # r /\ work[s] = NoWork
    BY <1>9, <2>1 DEF RowInv
  <2> QED
    BY <1>15, <1>16, <2>1
<1>18. ASSUME NEW s \in Rows, NEW u \in Rows PROVE PairInv(s, u)'
  <2> SUFFICES ASSUME s # u, work'[s] # NoWork, work'[u] # NoWork, work'[s].asset = work'[u].asset
               PROVE  /\ work'[s].asset \in outlived
                      /\ work'[s].kind # "stale" \/ work'[u].kind # "stale"
    BY <1>3 DEF PairInv, history
  <2>1. CASE s = r \/ u = r
    BY <1>8, <1>9, <1>15, <2>1
  <2>2. CASE s # r /\ u # r
    <3>1. PairInv(s, u)
      BY DEF FInv
    <3> QED
      BY <1>9, <2>2, <3>1 DEF PairInv
  <2> QED
    BY <2>1, <2>2
<1>19. TurnInv'
  BY <1>1, <1>3, <1>4, <1>9 DEF TurnInv, TypeOK
<1>20. \A c \in Callers : CallInv(c)'
  BY <1>3, <1>13, CallsRest
<1>21. FInv'
  BY <1>10, <1>14, <1>17, <1>18, <1>19, <1>20 DEF FInv
<1> QED
  BY <1>6, <1>21

LEMMA ReadClaimedKeeps ==
  ASSUME FInv, NEW r \in Rows, ReadClaimed(r)
  PROVE  FInv'
<1>1. work[r] # NoWork /\ r \notin left /\ work[r].pc = "claimed" /\ pc = "claiming"
  BY DEF ReadClaimed, Reading, Own, Busy
<1>2. PICK a \in Assets : a = work[r].asset
  BY <1>1, WorkKnows
<1>3. /\ TypeOK /\ Frame /\ Entries /\ Sound(r) /\ Placed(r) /\ (a \notin outlived => Fits(r))
      /\ TurnInv /\ asset[a] # NoAsset
  BY <1>1, <1>2, WorkKnows DEF FInv
<1>4. UNCHANGED <<tables, tdlib, up, call, bounds, waking, pc, completed, turn, left, outlived,
                  overlooked>>
  BY DEF ReadClaimed, outside
<1>5. work[r].kind = "claimed" /\ (a \notin outlived => IsDownloading(a))
  BY <1>1, <1>2, <1>3 DEF Placed, Fits, RowSteps
<1>6. CASE job[a] # NoJob
  <2>1. work' = [work EXCEPT ![r] = RowRead("claimed", a)] /\ UNCHANGED <<result, unseen>>
    BY <1>2, <1>6 DEF ReadClaimed
  <2>2. PICK w \in Task :
          /\ w = RowRead("claimed", a) /\ w.kind = "claimed" /\ w.asset = a
          /\ w.pc \in {"waiting", "recovering"}
    BY <1>6, RowReadIs
  <2>3. /\ work' \in [Rows -> Work] /\ work'[r] = w /\ work'[r] # NoWork
        /\ \A s \in Rows : s # r => work'[s] = work[s]
    BY <1>3, <2>1, <2>2, WorkIsSome DEF Entries
  <2>4. Frame' /\ Entries'
    BY <1>3, <1>4, <2>1, <2>3 DEF Frame, Entries, tables, tdlib, waking, bounds
  <2>5. Sound(r)'
    BY <1>3, <1>4, <2>2, <2>3 DEF Sound, tables
  <2>6. a \notin outlived => Fits(r)'
    BY <1>4, <1>5, <2>2, <2>3 DEF Fits, IsDownloading, tables, StoreSteps
  <2>7. \A b \in Assets : Still(b)
    BY <1>4 DEF Still, tables
  <2>8. Grows(a) /\ Unclaimed(a)
    BY <1>3, <2>7, StillKeeps
  <2>9. AssetInv(a)'
    BY <1>4, <2>7, StillAsset
  <2> QED
    BY <1>1, <1>2, <1>4, <1>5, <2>2, <2>3, <2>4, <2>5, <2>6, <2>7, <2>8, <2>9, RowStep
<1>7. CASE job[a] = NoJob
  <2>1. /\ work' = [work EXCEPT ![r] = NoWork] /\ result' = [result EXCEPT !.cut = TRUE]
        /\ unseen' = unseen \cup Queued
    BY <1>2, <1>7 DEF ReadClaimed
  <2>2. /\ work' \in [Rows -> Work] /\ work'[r] = NoWork
        /\ \A s \in Rows : s # r => work'[s] = work[s]
    BY <1>3, <2>1 DEF Entries, Work
  <2>3. Frame'
    BY <1>3, <1>4, <2>1 DEF Frame, tables, tdlib, waking, bounds, Queued
  <2>4. TurnInv'
    BY <1>1, <1>3, <1>4, <2>2 DEF TurnInv, TypeOK
  <2>5. ASSUME NEW s \in Rows, work'[s] # NoWork PROVE Placed(s)'
    <3>1. Placed(s) /\ work'[s] = work[s]
      BY <2>2, <2>5, WorkKnows
    <3> QED
      BY <1>4, <3>1 DEF Placed
  <2>6. \A s \in Rows : work'[s] \in {work[s], NoWork}
    BY <2>2
  <2> QED
    BY <1>3, <1>4, <2>2, <2>3, <2>4, <2>5, <2>6, QuietStep DEF Entries, tables
<1> QED
  BY <1>6, <1>7

-----------------------------------------------------------------------------
(* The types and the rows, throughout *)

LEMMA InitKeeps ==
  ASSUME Init
  PROVE  FInv
<1>1. 0 \in 0..MaxCalls /\ 0 \in 0..MaxFaults
  BY FilesAssumption
<1>2. Frame
  BY <1>1, FilesAssumption DEF Init, Frame, Stages, NoResult, Call
<1>3. Entries
  BY DEF Init, Entries, Work
<1>4. TurnInv /\ \A r, s \in Rows : RowInv(r) /\ PairInv(r, s)
  BY DEF Init, RowInv, PairInv, TurnInv
<1>5. \A a \in Assets : AssetInv(a)
  BY DEF Init, AssetInv
<1>6. \A c \in Callers : CallInv(c)
  BY DEF Init, CallInv
<1> QED
  BY <1>2, <1>3, <1>4, <1>5, <1>6, Parts DEF FInv

LEMMA StepKeeps ==
  ASSUME FInv, [Next]_vars
  PROVE  FInv'
<1>1. CASE Stage
  BY <1>1, ReadKeeps, StageKeeps, TurnKeeps, ClaimKeeps, ReadClaimedKeeps DEF Stage
<1>2. ASSUME NEW r \in Rows, Row(r) \/ ReportFails(r)
      PROVE  FInv'
  BY <1>2, LookKeeps, MarkKeeps, EndKeeps, AskKeeps, RecoverKeeps, ReportFailsKeeps DEF Row
<1>3. ASSUME NEW c \in Callers,
             \/ Calling(c) \/ (\E f \in FileIds : RecordSlot(c, f))
             \/ (\E a \in Assets : RequestFile(c, a)) \/ CallFails(c)
      PROVE  FInv'
  <2>1. CASE ResetFailure(c)
    <3>1. call[c].asset \in Assets
      BY <2>1, CallKnows DEF ResetFailure, Idle
    <3> QED
      BY <2>1, <3>1, ResetKeeps
  <2>2. ASSUME NEW f \in FileIds, RecordSlot(c, f) PROVE FInv'
    <3>1. naming[f] \in Assets
      BY <2>2 DEF RecordSlot
    <3> QED
      BY <2>2, <3>1, RecordKeeps
  <2> QED
    BY <1>3, <2>1, <2>2, EnqueueKeeps, AsideKeeps, RequestKeeps DEF Calling
<1>4. CASE UNCHANGED vars
  <2>1. UNCHANGED <<asset, job, pointer, naming, local, up, timer, pending, pc, completed, work,
                    turn, left, result, call, outlived, unseen, overlooked, calls, faults>>
    BY <1>4 DEF vars, tables, tdlib, waking, worker, rows, history, bounds
  <2>2. Frame'
    BY <2>1, Parts DEF FInv, Frame
  <2> QED
    BY <2>1, <2>2, AsideStep
<1> QED
  BY <1>1, <1>2, <1>3, <1>4, FiresKeeps, TickFailsKeeps, CrashKeeps, AsideKeeps, UpdateKeeps,
     ExpiresKeeps DEF Next

LEMMA Holds == Spec => []FInv
BY InitKeeps, StepKeeps, PTL DEF Spec

(* Every row, job, claim and result of the queue has its type, whatever the     *)
(* worker, TDLib's updates and the callers do at the same time: no claim is     *)
(* counted past the retry limit ("bounded retry", telegramFiles.md), also when  *)
(* rows of a tick that has failed run on beside the next ones.                 *)
THEOREM TypeCorrect == Spec => []TypeOK
BY Holds, PTL DEF FInv

(* A row is worked off only under a job, and one TDLib is asked about is        *)
(* downloading (processClaimed, storeCompletedFile): no other row, no update    *)
(* and no failure that is reported twice takes the job away in between.  The   *)
(* exception is an asset of which a row has outlived its tick.                  *)
THEOREM WorkIsUnderAJob == Spec => []WorkHasJob
<1>1. ASSUME FInv, NEW r \in Busy, work[r].asset \notin outlived
      PROVE  /\ work[r].pc \in StoreSteps => job[work[r].asset] # NoJob
             /\ work[r].kind # "completed" /\ work[r].pc \in RowSteps =>
                  work[r].asset \in Downloading
  <2>1. r \in Rows /\ work[r] # NoWork
    BY DEF Busy
  <2>2. Fits(r) /\ work[r].asset \in Assets
    BY <1>1, <2>1, WorkKnows
  <2> QED
    BY <2>2 DEF Fits, IsDownloading, Downloading
<1>2. FInv => WorkHasJob
  BY <1>1 DEF WorkHasJob
<1> QED
  BY <1>2, Holds, PTL

-----------------------------------------------------------------------------
(* What is shown of a file *)

(* The arrows of FileLifecycle that nobody has to want, and no arrow. *)
Arrow(a, from, to) ==
  \/ from = to
  \/ from = "queued" /\ to = "downloading"
  \/ from \in {"queued", "downloading"} /\ to = "ready"
  \/ from = "downloading" /\ to \in {"failed", "stalled"}
  \/ from \in {"known", "queued"} /\ to = "failed"
  \/ from \in {"failed", "stalled", "queued", "downloading"} /\ to = "known"
  \/ a \in outlived /\ from \notin {"absent", "ready"} /\ to \in {"ready", "failed", "stalled"}

FollowsLifecycle == [Lifecycle!Next]_(Lifecycle!vars)

LEMMA ShownStatus ==
  ASSUME NEW b \in Assets, Shown(b)
  PROVE  FileStatus(b)' = FileStatus(b)
<1>1. CASE asset[b] = NoAsset
  BY <1>1 DEF Shown, FileStatus
<1>2. CASE asset[b] # NoAsset /\ job[b] = NoJob
  BY <1>2 DEF Shown, FileStatus
<1>3. CASE asset[b] # NoAsset /\ job[b] # NoJob
  BY <1>3 DEF Shown, FileStatus
<1> QED
  BY <1>1, <1>2, <1>3

LEMMA WantedStays ==
  ASSUME call' = call
  PROVE  Wanted' = Wanted
BY DEF Wanted

(* A caller who wants nothing before and after a step of its own. *)
LEMMA WantedElsewhere ==
  ASSUME NEW c \in Callers, \A d \in Callers : d # c => call'[d] = call[d],
         call[c].pc # "enqueueing", call'[c].pc # "enqueueing"
  PROVE  Wanted' = Wanted
BY DEF Wanted

(* The status of one file changes at most. *)
LEMMA StatusMoves ==
  ASSUME NEW a \in Assets, \A b \in Assets : b # a => Shown(b),
         NEW from, FileStatus(a) \in from, NEW to, to = FileStatus(a)'
  PROVE  Lifecycle!Becomes(a, from, to)
<1> DEFINE s == [b \in Assets |-> FileStatus(b)]
<1>1. \A b \in Assets : b # a => FileStatus(b)' = FileStatus(b)
  BY ShownStatus
<1>2. s' = [b \in Assets |-> FileStatus(b)'] /\ s[a] = FileStatus(a)
  OBVIOUS
<1>3. s' = [s EXCEPT ![a] = to]
  BY <1>1, <1>2
<1> QED
  BY <1>2, <1>3 DEF Lifecycle!Becomes

LEMMA StatusStays ==
  ASSUME \A b \in Assets : FileStatus(b)' = FileStatus(b)
  PROVE  UNCHANGED [b \in Assets |-> FileStatus(b)]
OBVIOUS

(* Steps that show nothing new and leave the calls and the rows left behind. *)
LEMMA NothingShown ==
  ASSUME \A b \in Assets : FileStatus(b)' = FileStatus(b), Wanted' = Wanted, outlived' = outlived
  PROVE  FollowsLifecycle
BY DEF FollowsLifecycle, Lifecycle!vars

LEMMA AllShown ==
  ASSUME \A b \in Assets : Shown(b), UNCHANGED <<call, outlived>>
  PROVE  FollowsLifecycle
BY ShownStatus, WantedStays, NothingShown

LEMMA OtherRows ==
  ASSUME UNCHANGED <<asset, job, call, outlived>>
  PROVE  FollowsLifecycle
BY AllShown DEF Shown

(* One step of FileLifecycle that moves the status of a. *)
LEMMA MoveFollows ==
  ASSUME NEW a \in Assets, FileStatus(a)' # FileStatus(a),
         \/ Lifecycle!Discover(a) \/ Lifecycle!Enqueue(a) \/ Lifecycle!Request(a)
         \/ Lifecycle!Retry(a) \/ Lifecycle!RetryLate(a) \/ Lifecycle!Claim(a)
         \/ Lifecycle!Finish(a) \/ Lifecycle!Fail(a) \/ Lifecycle!Drop(a)
         \/ Lifecycle!Forget(a) \/ Lifecycle!Straggle(a)
  PROVE  FollowsLifecycle
<1> DEFINE s == [b \in Assets |-> FileStatus(b)]
<1>1. s'[a] # s[a]
  OBVIOUS
<1> HIDE DEF s
<1>2. Lifecycle!Moved(a)
  BY <1>1 DEF Lifecycle!Moved, s
<1> QED
  BY <1>2 DEF FollowsLifecycle, Lifecycle!Next

(* The status of one file takes an arrow, and the others stay. *)
LEMMA OneMoves ==
  ASSUME NEW a \in Assets, Arrow(a, FileStatus(a), FileStatus(a)'),
         \A b \in Assets : b # a => Shown(b), Wanted' = Wanted, outlived' = outlived
  PROVE  FollowsLifecycle
<1> DEFINE from == FileStatus(a)
           to == FileStatus(a)'
<1>1. CASE to = from
  BY <1>1, ShownStatus, NothingShown
<1>2. CASE to # from
  <2>1. ASSUME NEW S, from \in S PROVE Lifecycle!Moves(a, S, to)
    BY <2>1, StatusMoves DEF Lifecycle!Moves
  <2>2. CASE from = "queued" /\ to = "downloading"
    BY <1>2, <2>1, <2>2, MoveFollows DEF Lifecycle!Claim
  <2>3. CASE from \in {"queued", "downloading"} /\ to = "ready"
    BY <1>2, <2>1, <2>3, MoveFollows DEF Lifecycle!Finish
  <2>4. CASE from = "downloading" /\ to \in {"failed", "stalled"}
    BY <1>2, <2>1, <2>4, MoveFollows DEF Lifecycle!Fail
  <2>5. CASE from \in {"known", "queued"} /\ to = "failed"
    BY <1>2, <2>1, <2>5, MoveFollows DEF Lifecycle!Drop
  <2>6. CASE from \in {"failed", "stalled", "queued", "downloading"} /\ to = "known"
    BY <1>2, <2>1, <2>6, MoveFollows DEF Lifecycle!Forget
  <2>7. CASE a \in outlived /\ from \notin {"absent", "ready"} /\ to \in {"ready", "failed", "stalled"}
    <3> DEFINE s == [b \in Assets |-> FileStatus(b)]
    <3>1. s[a] = from
      OBVIOUS
    <3>2. Lifecycle!Moves(a, {s[a]}, to)
      BY <2>1, <3>1
    <3> HIDE DEF from, to
    <3>3. Lifecycle!Straggle(a)
      BY <2>7, <3>1, <3>2 DEF Lifecycle!Straggle
    <3> QED
      BY <1>2, <3>3, MoveFollows DEF from, to
  <2> QED
    BY <1>2, <2>2, <2>3, <2>4, <2>5, <2>6, <2>7 DEF Arrow
<1> QED
  BY <1>1, <1>2

LEMMA AssetKinds ==
  ASSUME TypeOK, NEW a \in Assets, asset[a] # NoAsset
  PROVE  /\ asset[a].status \in {"known", "ready", "failed", "stalled"}
         /\ job[a] # NoJob => job[a].status \in {"queued", "downloading"}
BY Kinds DEF Asset, AssetStatuses, Job

LEMMA MarkShows ==
  ASSUME FInv, NEW r \in Rows, MarkReady(r) \/ MarkFailed(r)
  PROVE  FollowsLifecycle
<1>1. work[r] # NoWork
  BY DEF FInv, TurnInv, MarkReady, MarkFailed, At
<1>2. PICK a \in Assets : a = work[r].asset
  BY <1>1, WorkKnows
<1>3. /\ TypeOK /\ (a \notin outlived => Fits(r)) /\ asset[a] # NoAsset
      /\ asset[a] \in Asset /\ Named(r) \in Files
      /\ asset[a].status \in {"known", "ready", "failed", "stalled"}
      /\ job[a] # NoJob => job[a].status \in {"queued", "downloading"}
  BY <1>1, <1>2, WorkKnows, Kinds, AssetKinds
<1>4. job' = job /\ UNCHANGED <<call, outlived>>
  BY DEF MarkReady, MarkFailed, tick, history
<1>5. Wanted' = Wanted
  BY <1>4, WantedStays
<1>6. CASE MarkReady(r)
  <2>1. PICK n \in Nat : asset' = [asset EXCEPT ![a].status = "ready", ![a].downloaded = n]
    BY <1>2, <1>3, <1>6, FilesAssumption DEF MarkReady
  <2>2. /\ asset'[a] # NoAsset /\ asset'[a].status = "ready"
        /\ \A b \in Assets : b # a => asset'[b] = asset[b]
    BY <1>3, <2>1, ReadyWrites
  <2>3. FileStatus(a)' = "ready"
    BY <2>2 DEF FileStatus
  <2>4. a \notin outlived => job[a] # NoJob
    BY <1>2, <1>3, <1>6 DEF MarkReady, At, Fits, StoreSteps
  <2>5. Arrow(a, FileStatus(a), FileStatus(a)')
    BY <1>3, <2>3, <2>4 DEF FileStatus, Arrow
  <2> QED
    BY <1>4, <1>5, <2>2, <2>5, OneMoves DEF Shown
<1>7. CASE MarkFailed(r)
  <2> DEFINE st == IF asset[a].status = "ready" THEN "ready"
                   ELSE IF work[r].pc = "stalling" THEN "stalled" ELSE "failed"
  <2>1. asset' = [asset EXCEPT ![a].status = st]
    BY <1>2, <1>3, <1>7 DEF MarkFailed, TypeOK
  <2>2. st \in AssetStatuses
    BY DEF AssetStatuses
  <2> HIDE DEF st
  <2>3. /\ asset'[a] # NoAsset /\ asset'[a].status = st
        /\ \A b \in Assets : b # a => asset'[b] = asset[b]
    BY <1>3, <2>1, <2>2, StatusWrites
  <2>4. CASE asset[a].status = "ready" \/ job[a] # NoJob
    <3>1. FileStatus(a)' = FileStatus(a)
      BY <1>3, <1>4, <2>3, <2>4 DEF FileStatus, st
    <3> QED
      BY <1>4, <1>5, <2>3, <3>1, OneMoves DEF Shown, Arrow
  <2>5. CASE asset[a].status # "ready" /\ job[a] = NoJob
    <3>1. FileStatus(a) = asset[a].status /\ FileStatus(a)' = st /\ st \in {"failed", "stalled"}
      BY <1>3, <1>4, <2>3, <2>5 DEF FileStatus, st
    <3>2. a \notin outlived => asset[a].status # "stalled" /\ st = "failed"
      BY <1>2, <1>3, <1>7, <2>5 DEF MarkFailed, Fits, IsDownloading, StoreSteps, st
    <3>3. Arrow(a, FileStatus(a), FileStatus(a)')
      BY <1>3, <2>5, <3>1, <3>2 DEF Arrow
    <3> QED
      BY <1>4, <1>5, <2>3, <3>3, OneMoves DEF Shown
  <2> QED
    BY <2>4, <2>5
<1> QED
  BY <1>6, <1>7

LEMMA EndShows ==
  ASSUME FInv, NEW r \in Rows, Unlink(r) \/ DropJob(r)
  PROVE  FollowsLifecycle
<1>1. work[r] # NoWork
  BY DEF FInv, TurnInv, Unlink, DropJob, At
<1>2. PICK a \in Assets : a = work[r].asset
  BY <1>1, WorkKnows
<1>3. /\ TypeOK /\ Sound(r) /\ (a \notin outlived => Fits(r)) /\ asset[a] # NoAsset
      /\ asset[a].status \in {"known", "ready", "failed", "stalled"}
      /\ job[a] # NoJob => job[a].status \in {"queued", "downloading"}
  BY <1>1, <1>2, WorkKnows, AssetKinds
<1>4. /\ asset' = asset /\ job' = [job EXCEPT ![a] = NoJob] /\ UNCHANGED <<call, outlived>>
  BY <1>2 DEF Unlink, DropJob, DeleteJob, tick, history
<1>5. job'[a] = NoJob /\ \A b \in Assets : b # a => job'[b] = job[b]
  BY <1>3, <1>4 DEF TypeOK
<1>6. Wanted' = Wanted
  BY <1>4, WantedStays
<1>7. CASE asset[a].status = "ready" \/ job[a] = NoJob
  <2>1. FileStatus(a)' = FileStatus(a)
    BY <1>3, <1>4, <1>5, <1>7 DEF FileStatus
  <2> QED
    BY <1>4, <1>5, <1>6, <2>1, OneMoves DEF Shown, Arrow
<1>8. CASE asset[a].status # "ready" /\ job[a] # NoJob
  <2>1. DropJob(r)
    BY <1>2, <1>3, <1>8 DEF Sound, Unlink, At
  <2>2. FileStatus(a) = job[a].status /\ FileStatus(a)' = asset[a].status
    BY <1>3, <1>4, <1>5, <1>8 DEF FileStatus
  <2>3. a \notin outlived /\ asset[a].status = "stalled" => job[a].status = "downloading"
    BY <1>2, <1>3, <2>1 DEF DropJob, At, Fits, IsDownloading
  <2>4. Arrow(a, FileStatus(a), FileStatus(a)')
    BY <1>3, <1>8, <2>2, <2>3 DEF Arrow
  <2> QED
    BY <1>4, <1>5, <1>6, <2>4, OneMoves DEF Shown
<1> QED
  BY <1>7, <1>8

LEMMA ClaimShows ==
  ASSUME FInv, NEW a \in Assets, Claim(a) \/ ClaimExpires(a)
  PROVE  FollowsLifecycle
<1>1. TypeOK /\ AssetInv(a) /\ asset' = asset /\ job[a] # NoJob /\ UNCHANGED <<call, outlived>>
  BY DEF FInv, Claim, ClaimExpires, Queued, Downloading, history
<1>2. asset[a] # NoAsset
  BY <1>1 DEF AssetInv
<1>3. Wanted' = Wanted
  BY <1>1, WantedStays
<1>4. CASE Claim(a)
  <2>1. job[a].status = "queued"
    BY <1>4 DEF Claim, Queued
  <2>2. /\ job'[a] # NoJob /\ job'[a].status = "downloading"
        /\ \A b \in Assets : b # a => job'[b] = job[b]
    BY <1>4, ClaimKeeps
  <2>3. \/ FileStatus(a) = "queued" /\ FileStatus(a)' = "downloading"
        \/ FileStatus(a) = "ready" /\ FileStatus(a)' = "ready"
    BY <1>1, <1>2, <2>1, <2>2 DEF FileStatus
  <2>4. Arrow(a, FileStatus(a), FileStatus(a)')
    BY <2>3 DEF Arrow
  <2> QED
    BY <1>1, <1>3, <2>2, <2>4, OneMoves DEF Shown
<1>5. CASE ClaimExpires(a)
  <2>1. /\ job'[a] # NoJob /\ job'[a].status = job[a].status
        /\ \A b \in Assets : b # a => job'[b] = job[b]
    BY <1>1, <1>5, ExpiresKeeps
  <2> QED
    BY <1>1, <2>1, AllShown DEF Shown
<1> QED
  BY <1>4, <1>5

(* Steps that show nothing new, by which somebody gives up or rows are left. *)
LEMMA GivesUp ==
  ASSUME \A b \in Assets : FileStatus(b)' = FileStatus(b), Wanted' \subseteq Wanted,
         outlived' = outlived
  PROVE  FollowsLifecycle
<1>1. Lifecycle!GiveUp /\ UNCHANGED [b \in Assets |-> FileStatus(b)]
  BY StatusStays DEF Lifecycle!GiveUp
<1> QED
  BY <1>1 DEF FollowsLifecycle, Lifecycle!Next

LEMMA LeavesRows ==
  ASSUME UNCHANGED <<asset, job, call>>, outlived' \subseteq Assets, outlived \subseteq outlived'
  PROVE  FollowsLifecycle
<1>1. \A b \in Assets : FileStatus(b)' = FileStatus(b)
  BY DEF FileStatus
<1>2. Wanted' = Wanted
  BY WantedStays
<1>3. Lifecycle!LeaveBehind /\ UNCHANGED [b \in Assets |-> FileStatus(b)]
  BY <1>1, <1>2 DEF Lifecycle!LeaveBehind
<1> QED
  BY <1>3 DEF FollowsLifecycle, Lifecycle!Next

(* A caller who starts to want a job, and one who does not want it any more. *)
LEMMA WantsJob ==
  ASSUME NEW c \in Callers, \A d \in Callers : d # c => call'[d] = call[d],
         call[c].pc # "enqueueing", NEW a \in Assets, NEW wakes \in BOOLEAN,
         call'[c] = [pc |-> "enqueueing", asset |-> a, wakes |-> wakes]
  PROVE  Wanted' = Wanted \cup {[asset |-> a, by |-> IF wakes THEN "request" ELSE "slot"]}
<1> DEFINE Want(k) == [asset |-> k.asset, by |-> IF k.wakes THEN "request" ELSE "slot"]
<1>1. Wanted = {Want(call[d]) : d \in {e \in Callers : call[e].pc = "enqueueing"}}
  BY DEF Wanted
<1>2. Wanted' = {Want(call'[d]) : d \in {e \in Callers : call'[e].pc = "enqueueing"}}
  BY DEF Wanted
<1>3. Want(call'[c]) = [asset |-> a, by |-> IF wakes THEN "request" ELSE "slot"]
  OBVIOUS
<1>4. call'[c].pc = "enqueueing"
  OBVIOUS
<1> HIDE DEF Want
<1>5. Wanted' = Wanted \cup {Want(call'[c])}
  BY <1>1, <1>2, <1>4
<1> QED
  BY <1>3, <1>5

LEMMA WantsNoMore ==
  ASSUME NEW c \in Callers, \A d \in Callers : d # c => call'[d] = call[d],
         call[c].pc = "enqueueing", call'[c].pc # "enqueueing",
         NEW w, w = [asset |-> call[c].asset, by |-> IF call[c].wakes THEN "request" ELSE "slot"]
  PROVE  w \in Wanted /\ Wanted' \in {Wanted, Wanted \ {w}}
<1> DEFINE Want(k) == [asset |-> k.asset, by |-> IF k.wakes THEN "request" ELSE "slot"]
<1>1. Wanted = {Want(call[d]) : d \in {e \in Callers : call[e].pc = "enqueueing"}}
  BY DEF Wanted
<1>2. Wanted' = {Want(call'[d]) : d \in {e \in Callers : call'[e].pc = "enqueueing"}}
  BY DEF Wanted
<1>3. w = Want(call[c])
  OBVIOUS
<1> HIDE DEF Want
<1>4. w \in Wanted
  BY <1>1, <1>3
<1>5. Wanted' \subseteq Wanted /\ Wanted \ {w} \subseteq Wanted'
  BY <1>1, <1>2, <1>3
<1> QED
  BY <1>4, <1>5

(* A job is queued for a file somebody wants. *)
LEMMA QueueFollows ==
  ASSUME NEW a \in Assets, FileStatus(a) \in {"known", "failed", "stalled"},
         FileStatus(a)' = "queued", \A b \in Assets : b # a => Shown(b),
         NEW by \in {"slot", "request"}, [asset |-> a, by |-> by] \in Wanted,
         Wanted' \in {Wanted, Wanted \ {[asset |-> a, by |-> by]}}, outlived' = outlived
  PROVE  FollowsLifecycle
<1>1. ASSUME NEW S, FileStatus(a) \in S PROVE Lifecycle!Queue(a, S, by)
  <2>1. Lifecycle!Becomes(a, S, "queued")
    BY <1>1, StatusMoves
  <2> QED
    BY <2>1 DEF Lifecycle!Queue
<1>2. CASE FileStatus(a) = "known"
  BY <1>1, <1>2, MoveFollows DEF Lifecycle!Enqueue
<1>3. CASE FileStatus(a) # "known" /\ by = "request"
  BY <1>1, <1>3, MoveFollows DEF Lifecycle!Request
<1>4. CASE FileStatus(a) = "stalled" /\ by = "slot"
  BY <1>1, <1>4, MoveFollows DEF Lifecycle!Retry
<1>5. CASE FileStatus(a) = "failed" /\ by = "slot"
  BY <1>1, <1>5, MoveFollows DEF Lifecycle!RetryLate
<1> QED
  BY <1>2, <1>3, <1>4, <1>5

(* Somebody decides that a file is to be queued. *)
LEMMA DecideFollows ==
  ASSUME NEW a \in Assets, \A b \in Assets : Shown(b), NEW by \in {"slot", "request"},
         FileStatus(a)' \notin {"absent", "ready"}, by = "slot" => FileStatus(a)' # "failed",
         Wanted' = Wanted \cup {[asset |-> a, by |-> by]}, outlived' = outlived
  PROVE  FollowsLifecycle
<1> DEFINE s == [b \in Assets |-> FileStatus(b)]
<1>1. s'[a] = FileStatus(a)' /\ UNCHANGED s
  BY ShownStatus, StatusStays
<1>2. Lifecycle!Decide(a)
  BY <1>1 DEF Lifecycle!Decide, Lifecycle!Want
<1> QED
  BY <1>1, <1>2 DEF FollowsLifecycle, Lifecycle!Next

LEMMA EnqueueShows ==
  ASSUME FInv, NEW c \in Callers, Enqueue(c)
  PROVE  FollowsLifecycle
<1>1. call[c].pc = "enqueueing" /\ call[c] # Idle
  BY DEF Enqueue, Idle
<1>2. PICK a \in Assets : a = call[c].asset /\ asset[a] # NoAsset
  BY <1>1, CallKnows
<1>3. /\ call[c] \in [pc : {"enqueueing", "resetting", "telling"}, asset : Assets, wakes : BOOLEAN]
      /\ TypeOK /\ call \in [Callers -> Call]
  BY <1>1, CallKnows DEF FInv, TypeOK
<1>4. /\ job'[a] # NoJob /\ \A b \in Assets : b # a => job'[b] = job[b]
      /\ job[a] # NoJob => job'[a] = job[a]
      /\ job[a] = NoJob => job'[a].status = "queued"
  BY <1>2, EnqueueWrites
<1>5. asset' = asset /\ outlived' = outlived
  BY DEF Enqueue, history
<1>6. call'[c].pc = "resetting" /\ \A d \in Callers : d # c => call'[d] = call[d]
  BY <1>3 DEF Enqueue
<1>7. PICK by \in {"slot", "request"} : by = IF call[c].wakes THEN "request" ELSE "slot"
  OBVIOUS
<1>8. [asset |-> a, by |-> by] \in Wanted /\ Wanted' \in {Wanted, Wanted \ {[asset |-> a, by |-> by]}}
  BY <1>1, <1>2, <1>6, <1>7, WantsNoMore
<1>9. \A b \in Assets : b # a => Shown(b)
  BY <1>4, <1>5 DEF Shown
<1>10. CASE job[a] # NoJob \/ asset[a].status = "ready"
  <2>1. FileStatus(a)' = FileStatus(a)
    BY <1>2, <1>4, <1>5, <1>10 DEF FileStatus
  <2>2. \A b \in Assets : FileStatus(b)' = FileStatus(b)
    BY <1>9, <2>1, ShownStatus
  <2> QED
    BY <1>5, <1>8, <2>2, GivesUp
<1>11. CASE job[a] = NoJob /\ asset[a].status # "ready"
  <2>1. FileStatus(a) \in {"known", "failed", "stalled"} /\ FileStatus(a)' = "queued"
    BY <1>2, <1>3, <1>4, <1>5, <1>11, AssetKinds DEF FileStatus
  <2> QED
    BY <1>5, <1>8, <1>9, <2>1, QueueFollows
<1> QED
  BY <1>10, <1>11

LEMMA ResetShows ==
  ASSUME FInv, NEW c \in Callers, ResetFailure(c)
  PROVE  FollowsLifecycle
<1>1. call[c].pc = "resetting" /\ call[c] # Idle
  BY DEF ResetFailure, Idle
<1>2. PICK a \in Assets : a = call[c].asset
  BY <1>1, CallKnows
<1>3. /\ call[c] \in [pc : {"enqueueing", "resetting", "telling"}, asset : Assets, wakes : BOOLEAN]
      /\ TypeOK /\ call \in [Callers -> Call]
  BY <1>1, CallKnows DEF FInv, TypeOK
<1>4. /\ job' = job /\ asset[a] # NoAsset /\ asset'[a] # NoAsset
      /\ asset'[a].status = IF asset[a].status \in {"failed", "stalled"} THEN "known"
                            ELSE asset[a].status
      /\ \A b \in Assets : b # a => asset'[b] = asset[b]
  BY <1>2, ResetKeeps
<1>5. outlived' = outlived
  BY DEF ResetFailure, history
<1>6. call'[c].pc = "telling" /\ \A d \in Callers : d # c => call'[d] = call[d]
  BY <1>3 DEF ResetFailure
<1>7. Wanted' = Wanted
  BY <1>1, <1>6, WantedElsewhere
<1>8. Arrow(a, FileStatus(a), FileStatus(a)')
  <2>1. CASE asset[a].status \in {"ready", "known"} \/ job[a] # NoJob
    <3>1. FileStatus(a)' = FileStatus(a)
      BY <1>4, <2>1 DEF FileStatus
    <3> QED
      BY <3>1 DEF Arrow
  <2>2. CASE asset[a].status \notin {"ready", "known"} /\ job[a] = NoJob
    <3>1. FileStatus(a) \in {"failed", "stalled"} /\ FileStatus(a)' = "known"
      BY <1>3, <1>4, <2>2, AssetKinds DEF FileStatus
    <3> QED
      BY <3>1 DEF Arrow
  <2> QED
    BY <2>1, <2>2
<1> QED
  BY <1>4, <1>5, <1>7, <1>8, OneMoves DEF Shown

LEMMA RecordShows ==
  ASSUME FInv, NEW c \in Callers, NEW f \in FileIds, RecordSlot(c, f)
  PROVE  FollowsLifecycle
<1>1. PICK a \in Assets : a = naming[f]
  BY DEF RecordSlot
<1>2. /\ TypeOK /\ call \in [Callers -> Call] /\ AssetInv(a)
      /\ call[c] = Idle /\ outlived' = outlived
  BY DEF FInv, TypeOK, RecordSlot, history
<1>3. /\ FInv' /\ job' = job /\ asset'[a] # NoAsset
      /\ asset[a] = NoAsset => asset'[a].status = "known"
      /\ asset[a] # NoAsset => asset'[a].status = asset[a].status
      /\ \A b \in Assets : b # a => asset'[b] = asset[b]
  BY <1>1, RecordKeeps
<1>4. call[c].pc # "enqueueing"
  BY <1>2 DEF Idle
<1>5. \A b \in Assets : b # a => Shown(b)
  BY <1>3 DEF Shown
<1>6. FileStatus(a)' = IF asset'[a].status = "ready" THEN "ready"
                       ELSE IF job[a] # NoJob THEN job[a].status ELSE asset'[a].status
  BY <1>3 DEF FileStatus
<1>7. CASE call' = call
  <2>1. Wanted' = Wanted
    BY <1>7, WantedStays
  <2>2. CASE asset[a] # NoAsset
    <3>1. \A b \in Assets : Shown(b)
      BY <1>3, <1>5, <2>2 DEF Shown
    <3> QED
      BY <1>2, <1>7, <3>1, AllShown
  <2>3. CASE asset[a] = NoAsset
    <3>1. FileStatus(a) = "absent" /\ FileStatus(a)' = "known"
      BY <1>2, <1>3, <1>6, <2>3 DEF FileStatus, AssetInv
    <3>2. Lifecycle!Becomes(a, {"absent"}, "known")
      BY <1>5, <3>1, StatusMoves
    <3> QED
      BY <1>2, <2>1, <3>1, <3>2, MoveFollows DEF Lifecycle!Discover
  <2> QED
    BY <2>2, <2>3
<1>8. CASE /\ asset'[a].status \in {"known", "stalled"}
           /\ call' = [call EXCEPT ![c] = [pc |-> "enqueueing", asset |-> a, wakes |-> FALSE]]
  <2>1. Wanted' = Wanted \cup {[asset |-> a, by |-> "slot"]}
    <3>1. /\ call'[c] = [pc |-> "enqueueing", asset |-> a, wakes |-> FALSE]
          /\ \A d \in Callers : d # c => call'[d] = call[d]
      BY <1>2, <1>8
    <3> QED
      BY <1>4, <3>1, WantsJob
  <2>2. FileStatus(a)' \in {"known", "stalled", "queued", "downloading"}
    <3>1. job[a] # NoJob => job[a].status \in {"queued", "downloading"}
      BY <1>2, AssetKinds DEF AssetInv
    <3> QED
      BY <1>6, <1>8, <3>1
  <2>3. CASE asset[a] # NoAsset
    <3>1. \A b \in Assets : Shown(b)
      BY <1>3, <1>5, <2>3 DEF Shown
    <3> QED
      BY <1>2, <2>1, <2>2, <3>1, DecideFollows
  <2>4. CASE asset[a] = NoAsset
    <3>1. FileStatus(a) = "absent" /\ FileStatus(a)' = "known"
      BY <1>2, <1>3, <1>6, <2>4 DEF FileStatus, AssetInv
    <3>2. Lifecycle!Becomes(a, {"absent"}, "known")
      BY <1>5, <3>1, StatusMoves
    <3> DEFINE s == [b \in Assets |-> FileStatus(b)]
    <3>3. s'[a] = "known"
      BY <3>1
    <3>4. Lifecycle!Want(a, "slot")
      BY <1>2, <2>1, <3>3 DEF Lifecycle!Want
    <3> QED
      BY <3>1, <3>2, <3>4, MoveFollows DEF Lifecycle!Discover
  <2> QED
    BY <2>3, <2>4
<1> QED
  BY <1>1, <1>7, <1>8 DEF RecordSlot

LEMMA AsideShows ==
  ASSUME FInv, NEW c \in Callers,
         Tell(c) \/ CallFails(c) \/ (\E a \in Assets : RequestFile(c, a))
  PROVE  FollowsLifecycle
<1>1. TypeOK /\ call \in [Callers -> Call]
  BY DEF FInv, TypeOK
<1>2. UNCHANGED <<asset, job, outlived>>
  BY DEF Tell, CallFails, RequestFile, tables, history
<1>3. \A b \in Assets : Shown(b) /\ FileStatus(b)' = FileStatus(b)
  BY <1>2 DEF Shown, FileStatus
<1>4. CASE Tell(c)
  <2>1. call[c].pc # "enqueueing" /\ call' = [call EXCEPT ![c] = Idle]
    BY <1>4 DEF Tell
  <2>2. /\ call[c].pc # "enqueueing" /\ call'[c].pc # "enqueueing"
        /\ \A d \in Callers : d # c => call'[d] = call[d]
    BY <1>1, <2>1 DEF Idle
  <2> QED
    BY <1>2, <1>3, <2>2, WantedElsewhere, NothingShown
<1>5. CASE CallFails(c)
  <2>1. call' = [call EXCEPT ![c] = Idle]
    BY <1>5 DEF CallFails
  <2>2. call'[c].pc # "enqueueing" /\ \A d \in Callers : d # c => call'[d] = call[d]
    BY <1>1, <2>1 DEF Idle
  <2>3. Wanted' \subseteq Wanted
    BY <2>2 DEF Wanted
  <2> QED
    BY <1>2, <1>3, <2>3, GivesUp
<1>6. ASSUME NEW a \in Assets, RequestFile(c, a)
      PROVE  FollowsLifecycle
  <2>1. /\ call[c] = Idle /\ asset[a] # NoAsset /\ asset[a].status # "ready"
        /\ call' = [call EXCEPT ![c] = [pc |-> "enqueueing", asset |-> a, wakes |-> TRUE]]
    BY <1>6 DEF RequestFile
  <2>2. /\ call[c].pc # "enqueueing" /\ \A d \in Callers : d # c => call'[d] = call[d]
        /\ call'[c] = [pc |-> "enqueueing", asset |-> a, wakes |-> TRUE]
    BY <1>1, <2>1 DEF Idle
  <2>3. Wanted' = Wanted \cup {[asset |-> a, by |-> "request"]}
    BY <2>2, WantsJob
  <2>4. FileStatus(a)' \notin {"absent", "ready"}
    BY <1>1, <1>2, <2>1, AssetKinds DEF FileStatus
  <2> QED
    BY <1>2, <1>3, <2>3, <2>4, DecideFollows
<1> QED
  BY <1>4, <1>5, <1>6

(* The ticks and the calls that break off. *)
LEMMA FaultShows ==
  ASSUME FInv, TickFails \/ Crash \/ \E r \in Rows : ReportFails(r)
  PROVE  FollowsLifecycle
<1>1. UNCHANGED <<asset, job>>
  BY DEF TickFails, Crash, ReportFails, tables
<1>2. outlived' \subseteq Assets
  BY TickFailsKeeps, CrashKeeps, ReportFailsKeeps DEF FInv, TypeOK
<1>3. CASE Crash
  <2>1. outlived' = {} /\ call' = [c \in Callers |-> Idle]
    BY <1>3 DEF Crash
  <2>2. Wanted' = {}
    <3>1. \A c \in Callers : call'[c].pc # "enqueueing"
      BY <2>1 DEF Idle
    <3> QED
      BY <3>1 DEF Wanted
  <2>3. \A b \in Assets : FileStatus(b)' = FileStatus(b)
    BY <1>1 DEF FileStatus
  <2>4. Lifecycle!End /\ UNCHANGED [b \in Assets |-> FileStatus(b)]
    BY <2>1, <2>2, <2>3 DEF Lifecycle!End
  <2> QED
    BY <2>4 DEF FollowsLifecycle, Lifecycle!Next
<1>4. CASE TickFails \/ \E r \in Rows : ReportFails(r)
  <2>1. call' = call /\ outlived \subseteq outlived'
    BY <1>4 DEF TickFails, ReportFails, Abandon, history
  <2> QED
    BY <1>1, <1>2, <2>1, LeavesRows
<1> QED
  BY <1>3, <1>4

LEMMA StageShows ==
  ASSUME FInv, Stage \/ TimerFires
  PROVE  FollowsLifecycle
<1>1. CASE \/ TimerFires \/ ReadStale \/ ReconcilingDone \/ DeferQueued \/ ClaimingDone
           \/ NextTurn \/ ProcessingDone \/ \E r \in Rows : ReadClaimed(r)
  <2>1. UNCHANGED <<asset, job, call, outlived>>
    BY <1>1 DEF TimerFires, ReadStale, ReconcilingDone, DeferQueued, ClaimingDone, NextTurn,
                ProcessingDone, ReadClaimed, outside, tables, history
  <2> QED
    BY <2>1, OtherRows
<1> QED
  BY <1>1, ClaimShows DEF Stage

LEMMA RowShows ==
  ASSUME FInv, NEW r \in Rows, Row(r)
  PROVE  FollowsLifecycle
<1>1. UNCHANGED <<call, outlived>>
  BY DEF Row, Recover, Inspect, Redispatch, Dispatch, ReadRow, Store, MarkReady, Unlink, Cleanup,
         RowFails, MarkFailed, DropJob, tick, history
<1>2. CASE ReadRow(r) \/ Store(r) \/ RowFails(r) \/ Cleanup(r)
  <2>1. UNCHANGED <<asset, job>>
    BY <1>2 DEF ReadRow, Store, RowFails, Cleanup, tables
  <2> QED
    BY <1>1, <2>1, OtherRows
<1>3. CASE Recover(r) \/ Inspect(r) \/ Redispatch(r) \/ Dispatch(r)
  BY <1>1, <1>3, RecoverKeeps, AskKeeps, AllShown
<1> QED
  BY <1>2, <1>3, MarkShows, EndShows DEF Row

LEMMA StepFollows ==
  ASSUME FInv, [Next]_vars
  PROVE  FollowsLifecycle
<1>1. CASE \/ QueueEvent \/ (\E x \in Files : Progress(x)) \/ Restart \/ UNCHANGED vars
  <2>1. UNCHANGED <<asset, job, call, outlived>>
    BY <1>1 DEF QueueEvent, Progress, Restart, vars, tables, history
  <2> QED
    BY <2>1, OtherRows
<1>2. ASSUME NEW f \in FileIds, UpdateFile(f)
      PROVE  FollowsLifecycle
  <2>1. UNCHANGED <<job, call, outlived>>
    BY <1>2 DEF UpdateFile, history
  <2> QED
    BY <1>2, <2>1, UpdateKeeps, ToldShows, AllShown
<1>3. ASSUME NEW c \in Callers,
             \/ Calling(c) \/ (\E f \in FileIds : RecordSlot(c, f))
             \/ (\E a \in Assets : RequestFile(c, a)) \/ CallFails(c)
      PROVE  FollowsLifecycle
  BY <1>3, EnqueueShows, ResetShows, RecordShows, AsideShows DEF Calling
<1> QED
  BY <1>1, <1>2, <1>3, StageShows, RowShows, FaultShows, ClaimShows DEF Next

(* What is shown of a file (effectiveFileStatus) follows FileLifecycle: no       *)
(* interleaving of handlers, requests, ticks and the rows that outlived one     *)
(* takes the readiness of a file away, and but for the latter none becomes     *)
(* ready that was not queued; a failure is queued again only on request, at    *)
(* the retry limit, or by a slot that was recorded before it.                  *)
THEOREM StatusFollowsLifecycle == Spec => RefinesLifecycle
<1>1. Init => Lifecycle!Init
  <2> SUFFICES ASSUME Init PROVE Lifecycle!Init
    OBVIOUS
  <2>1. \A c \in Callers : call[c].pc # "enqueueing"
    BY DEF Init, Idle
  <2>2. Wanted = {}
    BY <2>1 DEF Wanted
  <2>3. \A a \in Assets : FileStatus(a) = "absent"
    BY DEF Init, FileStatus
  <2> QED
    BY <2>2, <2>3 DEF Init, Lifecycle!Init
<1>2. FInv /\ [Next]_vars => FollowsLifecycle
  BY StepFollows
<1> QED
  BY <1>1, <1>2, Holds, PTL DEF Spec, RefinesLifecycle, FollowsLifecycle, Lifecycle!Spec

-----------------------------------------------------------------------------
(* Wake-ups *)

(* A step that wakes the worker ... *)
LEMMA ScheduleWakes ==
  ASSUME WakeInv, Schedule, UNCHANGED <<up, pc, result>>
  PROVE  WakeInv'
BY DEF WakeInv, Schedule, Asleep

(* ... and one that leaves it nothing new to see. *)
LEMMA NothingNew ==
  ASSUME WakeInv, UNCHANGED <<up, pc, overlooked>>,
         timer => timer', pending => pending', result.again => result'.again,
         \A a \in Assets : completed[a] = NoId => completed'[a] = NoId,
         Attended /\ (result.cut \/ ~result'.cut) => Attended',
         result'.cut /\ ~result.cut => pc = "claiming" /\ Attended',
         pc = "idle" /\ Downloading' # {} => Downloading # {}
  PROVE  WakeInv'
<1>1. CASE up /\ pc = "idle" /\ ~timer'
  BY <1>1 DEF WakeInv, Asleep
<1>2. CASE up /\ pc # "idle" /\ ~pending' /\ ~result'.again
  BY <1>2 DEF WakeInv, Asleep
<1> QED
  BY <1>1, <1>2 DEF WakeInv, Asleep

(* Jobs are queued only with somebody who has still to wake the worker. *)
LEMMA StillAttended ==
  ASSUME Attended, unseen \subseteq unseen',
         \A a \in Assets : IsWoken(a) => IsWoken(a)' \/ a \in unseen',
         \A a \in Queued' : a \in Queued \/ IsWoken(a)' \/ a \in unseen'
  PROVE  Attended'
<1>1. \A a \in Queued' : a \in Assets
  BY DEF Queued
<1> QED
  BY <1>1 DEF Attended

(* Who keeps a call keeps the wake-ups it owes. *)
LEMMA StillWoken ==
  ASSUME NEW c \in Callers, \A d \in Callers : d # c => call'[d] = call[d],
         \/ call[c].pc \notin {"resetting", "telling"} \/ ~call[c].wakes
         \/ /\ call'[c].pc \in {"resetting", "telling"} /\ call'[c].asset = call[c].asset
            /\ call'[c].wakes,
         NEW a \in Assets, IsWoken(a)
  PROVE  IsWoken(a)'
<1>1. PICK d \in Callers :
        /\ call[d] # Idle /\ call[d].pc \in {"resetting", "telling"}
        /\ call[d].asset = a /\ call[d].wakes
  BY DEF IsWoken
<1>2. CASE d # c
  BY <1>1, <1>2 DEF IsWoken
<1>3. CASE d = c
  <2>1. /\ call'[c].pc \in {"resetting", "telling"} /\ call'[c].asset = a /\ call'[c].wakes
    BY <1>1, <1>3
  <2>2. call'[c] # Idle
    BY <2>1 DEF Idle
  <2> QED
    BY <2>1, <2>2 DEF IsWoken
<1> QED
  BY <1>2, <1>3

(* A step that leaves the calls as they are, and queues and claims nothing. *)
LEMMA NothingQueued ==
  ASSUME WakeInv, UNCHANGED <<up, pc, timer, pending, call, unseen, overlooked>>,
         result'.cut = result.cut, result.again => result'.again,
         \A a \in Assets : completed[a] = NoId => completed'[a] = NoId,
         \A a \in Assets :
           job'[a] # NoJob /\ (job'[a].status = "queued" \/ pc = "idle") =>
             job[a] # NoJob /\ job[a].status = job'[a].status
  PROVE  WakeInv'
<1>1. \A a \in Assets : IsWoken(a) => IsWoken(a)'
  BY DEF IsWoken
<1>2. \A a \in Queued' : a \in Queued
  BY DEF Queued
<1>3. Attended => Attended'
  BY <1>1, <1>2, StillAttended
<1>4. pc = "idle" /\ Downloading' # {} => Downloading # {}
  BY DEF Downloading
<1> QED
  BY <1>3, <1>4, NothingNew

LEMMA RowWakes ==
  ASSUME FInv, WakeInv, NEW r \in Rows, Row(r)
  PROVE  WakeInv'
<1>1. /\ job \in [Assets -> Job \cup {NoJob}]
      /\ result \in [again : BOOLEAN, reconciled : BOOLEAN, cut : BOOLEAN]
  BY DEF FInv, TypeOK
<1>2. UNCHANGED <<up, pc, timer, pending, call, completed, unseen, overlooked>>
  BY DEF Row, Recover, Inspect, Redispatch, Dispatch, ReadRow, Store, MarkReady, Unlink, Cleanup,
         RowFails, MarkFailed, DropJob, tick, waking, history
<1>3. result' = result \/ result' = [result EXCEPT !.again = @ \/ r \notin left]
  BY DEF Row, Recover, Inspect, Redispatch, Dispatch, ReadRow, Store, MarkReady, Unlink, Cleanup,
         RowFails, MarkFailed, DropJob, Watch, tick
<1>4. result'.cut = result.cut /\ (result.again => result'.again)
  BY <1>1, <1>3
<1>5. ASSUME NEW b \in Assets, job'[b] # NoJob
      PROVE  job[b] # NoJob /\ job[b].status = job'[b].status
  <2>1. CASE Inspect(r) \/ Redispatch(r) \/ Dispatch(r) \/ Recover(r)
    <3>1. Shown(b)
      BY <2>1, AskKeeps, RecoverKeeps
    <3> QED
      BY <1>5, <3>1 DEF Shown
  <2>2. CASE Unlink(r) \/ DropJob(r)
    <3>1. job' = [job EXCEPT ![work[r].asset] = NoJob]
      BY <2>2 DEF Unlink, DropJob, DeleteJob
    <3> QED
      BY <1>1, <1>5, <3>1
  <2>3. CASE \/ ReadRow(r) \/ Store(r) \/ MarkReady(r) \/ Cleanup(r) \/ RowFails(r)
             \/ MarkFailed(r)
    <3>1. job' = job
      BY <2>3 DEF ReadRow, Store, MarkReady, Cleanup, RowFails, MarkFailed, tables
    <3> QED
      BY <1>5, <3>1
  <2> QED
    BY <2>1, <2>2, <2>3 DEF Row
<1> QED
  BY <1>2, <1>4, <1>5, NothingQueued

(* What a tick that ends with the timer set leaves, nobody has to remember. *)
LEMMA TimedEnd ==
  ASSUME pc' = "idle", timer'
  PROVE  WakeInv'
BY DEF WakeInv, Asleep

(* The end of a tick that has seen all there was to see. *)
LEMMA QuietEnd ==
  ASSUME WakeInv, Frame, up, pc # "idle", NEW again \in BOOLEAN, EndTick(again),
         UNCHANGED <<up, job, call, completed, unseen>>,
         ~pending /\ ~again => /\ ~result.again /\ Attended
                               /\ Downloading # {} => result.reconciled \/ pc = "processing"
  PROVE  WakeInv'
<1>1. pc' = "idle" /\ timer' = (pending \/ again) /\ overlooked' = (result.reconciled \/ pc = "processing")
  BY DEF EndTick
<1>2. Queued' = Queued /\ Downloading' = Downloading
  BY DEF Queued, Downloading
<1>3. Attended => Attended'
  BY <1>2, StillAttended DEF IsWoken
<1>4. CASE pending \/ again
  BY <1>1, <1>4, TimedEnd
<1>5. CASE ~pending /\ ~again
  <2>1. /\ Attended' /\ \A a \in Assets : completed'[a] = NoId
        /\ Downloading' # {} => overlooked'
    BY <1>1, <1>2, <1>3, <1>5 DEF WakeInv
  <2> QED
    BY <1>1, <2>1 DEF WakeInv
<1> QED
  BY <1>4, <1>5

LEMMA StageWakes ==
  ASSUME FInv, WakeInv, Stage \/ TimerFires
  PROVE  WakeInv'
<1>1. /\ Frame /\ timer \in BOOLEAN /\ pending \in BOOLEAN
      /\ result.again \in BOOLEAN /\ result.reconciled \in BOOLEAN /\ result.cut \in BOOLEAN
      /\ result \in [again : BOOLEAN, reconciled : BOOLEAN, cut : BOOLEAN]
      /\ job \in [Assets -> Job \cup {NoJob}]
  BY Parts DEF FInv, TypeOK
<1>2. CASE TimerFires
  <2>1. PICK taken \in SUBSET {a \in Assets : completed[a] # NoId} :
          /\ completed' = [a \in Assets |-> IF a \in taken THEN NoId ELSE completed[a]]
          /\ result' = [NoResult EXCEPT !.again = {a \in Assets : completed[a] # NoId} # taken]
    BY <1>2 DEF TimerFires
  <2>2. up /\ up' = up /\ pc' = "storing"
    BY <1>2 DEF TimerFires, outside
  <2>3. ~result'.cut /\ (~result'.again => {a \in Assets : completed[a] # NoId} = taken)
    BY <2>1 DEF NoResult
  <2>4. ~result'.again => \A a \in Assets : completed'[a] = NoId
    BY <2>1, <2>3
  <2> QED
    BY <2>2, <2>3, <2>4 DEF WakeInv, Asleep
<1>3. CASE ReadStale
  <2>1. /\ pc = "storing" /\ pc' = "reconciling" /\ UNCHANGED <<up, pending, completed>>
        /\ (result.again => result'.again) /\ result'.cut = result.cut
    BY <1>1, <1>3 DEF ReadStale, outside, waking
  <2> QED
    BY <2>1 DEF WakeInv, Asleep
<1>4. CASE ReconcilingDone
  <2>1. /\ pc = "reconciling" /\ pc' = "claiming"
        /\ UNCHANGED <<up, pending, completed, result, job, call, unseen>>
    BY <1>4 DEF ReconcilingDone, outside, waking, tables, history
  <2> QED
    BY <2>1 DEF WakeInv, Asleep
<1>5. CASE DeferQueued
  BY <1>5, TimedEnd DEF DeferQueued, EndTick
<1>6. ASSUME NEW a \in Assets, Claim(a)
      PROVE  WakeInv'
  <2>1. /\ UNCHANGED <<up, pc, timer, pending, call, completed, result, unseen, overlooked>>
        /\ pc = "claiming"
    BY <1>6 DEF Claim, waking, history
  <2>2. \A b \in Assets : job'[b] # NoJob /\ job'[b].status = "queued" =>
                            job[b] # NoJob /\ job[b].status = job'[b].status
    BY <1>6, ClaimKeeps
  <2> QED
    BY <2>1, <2>2, NothingQueued
<1>7. ASSUME NEW r \in Rows, ReadClaimed(r)
      PROVE  WakeInv'
  <2>1. /\ UNCHANGED <<up, pc, timer, pending, call, completed, job, overlooked>>
        /\ pc = "claiming" /\ r \in Reading
    BY <1>7 DEF ReadClaimed, waking, outside, tables
  <2>2. Queued' = Queued
    BY <2>1 DEF Queued
  <2>3. \A a \in Assets : IsWoken(a) => IsWoken(a)'
    BY <2>1 DEF IsWoken
  <2>4. CASE job[work[r].asset] # NoJob
    <3>1. UNCHANGED <<result, unseen>>
      BY <1>7, <2>4 DEF ReadClaimed
    <3> QED
      BY <2>1, <3>1, NothingQueued
  <2>5. CASE job[work[r].asset] = NoJob
    <3>1. result' = [result EXCEPT !.cut = TRUE] /\ unseen' = unseen \cup Queued
      BY <1>7, <2>5 DEF ReadClaimed
    <3>2. result'.again = result.again /\ Attended'
      BY <1>1, <2>2, <3>1 DEF Attended
    <3> QED
      BY <2>1, <3>2, NothingNew
  <2> QED
    BY <2>4, <2>5
<1>8. CASE ClaimingDone
  <2>1. /\ pc = "claiming" /\ UNCHANGED <<up, job, call, completed, unseen>>
        /\ Queued = {} \/ Cardinality(Own) = BatchSize \/ result.cut
    BY <1>8 DEF ClaimingDone, outside, tables
  <2>2. up
    BY <2>1 DEF WakeInv
  <2>3. Queued = {} => Attended
    BY DEF Attended
  <2>4. CASE Own = {}
    <3>1. Cardinality(Own) = 0
      BY <2>4, FS_EmptySet
    <3>2. Queued = {} \/ result.cut
      BY <2>1, <3>1, FilesAssumption
    <3>3. PICK again \in BOOLEAN :
            /\ again = (result.again \/ (~result.reconciled /\ Downloading # {}))
            /\ EndTick(again)
      BY <1>8, <2>4 DEF ClaimingDone
    <3>4. ~pending /\ ~again => Attended
      BY <2>1, <2>2, <2>3, <3>2, <3>3 DEF WakeInv
    <3> QED
      BY <1>1, <2>1, <2>2, <3>3, <3>4, QuietEnd
  <2>5. CASE Own # {}
    <3>1. /\ pc' = "processing" /\ UNCHANGED <<timer, pending, overlooked>>
          /\ result' = [result EXCEPT !.again = @ \/ Cardinality(Own) = BatchSize]
      BY <1>8, <2>5 DEF ClaimingDone, waking
    <3>2. ~result'.again => ~result.again /\ Cardinality(Own) # BatchSize
      BY <1>1, <3>1
    <3>3. CASE up' /\ ~pending' /\ ~result'.again
      <4>1. /\ ~pending /\ ~result.again
            /\ \A a \in Assets : completed'[a] = NoId
        BY <2>1, <2>2, <3>1, <3>2, <3>3 DEF WakeInv
      <4>2. Attended
        BY <2>1, <2>2, <2>3, <3>2, <3>3, <4>1 DEF WakeInv
      <4>3. Attended'
        BY <2>1, <4>2, StillAttended DEF Queued, IsWoken
      <4> QED
        BY <2>1, <2>2, <3>1, <4>1, <4>3 DEF WakeInv, Asleep
    <3> QED
      BY <2>1, <2>2, <3>1, <3>3 DEF WakeInv, Asleep
  <2> QED
    BY <2>4, <2>5
<1>9. CASE NextTurn
  <2>1. UNCHANGED <<up, pc, timer, pending, call, unseen, overlooked, result, completed, job>>
    BY <1>9 DEF NextTurn, outside, tables, waking, history
  <2> QED
    BY <2>1, NothingQueued
<1>10. CASE ProcessingDone
  <2>1. /\ pc = "processing" /\ EndTick(result.again)
        /\ UNCHANGED <<up, job, call, completed, unseen>>
    BY <1>10 DEF ProcessingDone, outside, tables
  <2>2. up
    BY <2>1 DEF WakeInv
  <2>3. ~pending /\ ~result.again => Attended
    BY <2>1, <2>2 DEF WakeInv
  <2> QED
    BY <1>1, <2>1, <2>2, <2>3, QuietEnd
<1> QED
  BY <1>2, <1>3, <1>4, <1>5, <1>6, <1>7, <1>8, <1>9, <1>10 DEF Stage

LEMMA CallWakes ==
  ASSUME FInv, WakeInv, NEW c \in Callers,
         \/ Calling(c) \/ (\E f \in FileIds : RecordSlot(c, f))
         \/ (\E a \in Assets : RequestFile(c, a)) \/ CallFails(c)
  PROVE  WakeInv'
<1>1. TypeOK /\ call \in [Callers -> Call] /\ job \in [Assets -> Job \cup {NoJob}]
  BY DEF FInv, TypeOK
<1>2. ASSUME UNCHANGED <<up, pc, timer, pending, completed, result, job, overlooked>>,
             unseen \subseteq unseen',
             \A a \in Assets : IsWoken(a) => IsWoken(a)' \/ a \in unseen'
      PROVE  WakeInv'
  <2>1. Queued' = Queued /\ Downloading' = Downloading
    BY <1>2 DEF Queued, Downloading
  <2>2. Attended => Attended'
    BY <1>2, <2>1, StillAttended
  <2> QED
    BY <1>2, <2>1, <2>2, NothingNew
<1>3. CASE \/ \E f \in FileIds : RecordSlot(c, f)
           \/ \E a \in Assets : RequestFile(c, a)
  <2>1. /\ UNCHANGED <<up, pc, timer, pending, completed, result, job, unseen, overlooked>>
        /\ call[c] = Idle
    BY <1>3 DEF RecordSlot, RequestFile, worker, waking, tables, history
  <2>2. \A d \in Callers : d # c => call'[d] = call[d]
    BY <1>1, <1>3 DEF RecordSlot, RequestFile
  <2>3. \A a \in Assets : IsWoken(a) => IsWoken(a)'
    BY <2>1, <2>2, StillWoken DEF Idle
  <2> QED
    BY <1>2, <2>1, <2>3
<1>4. CASE Enqueue(c)
  <2>1. /\ call[c].pc = "enqueueing" /\ call[c] # Idle
        /\ UNCHANGED <<up, pc, timer, pending, completed, result, unseen, overlooked>>
    BY <1>4 DEF Enqueue, worker, waking, history, Idle
  <2>2. /\ call[c] \in [pc : {"enqueueing", "resetting", "telling"}, asset : Assets,
                        wakes : BOOLEAN]
        /\ call[c].asset \in Assets
    BY <2>1, CallKnows
  <2>3. PICK a \in Assets : a = call[c].asset
    BY <2>2
  <2>4. PICK raised \in BOOLEAN :
          call' = [call EXCEPT ![c].pc = "resetting", ![c].wakes = @ \/ raised \/ job[a] = NoJob]
    BY <1>4, <2>3 DEF Enqueue
  <2>5. /\ call'[c].pc = "resetting" /\ call'[c].asset = a
        /\ job[a] = NoJob => call'[c].wakes
        /\ \A d \in Callers : d # c => call'[d] = call[d]
    BY <1>1, <2>2, <2>3, <2>4
  <2>6. \A b \in Assets : IsWoken(b) => IsWoken(b)'
    BY <2>1, <2>5, StillWoken
  <2>7. /\ \A b \in Assets : b # a => job'[b] = job[b]
        /\ job[a] # NoJob => job'[a] = job[a]
        /\ job[a] = NoJob => job'[a].status = "queued"
    BY <1>4, <2>3, EnqueueWrites
  <2>8. job[a] = NoJob => IsWoken(a)'
    BY <2>5 DEF IsWoken, Idle
  <2>9. \A b \in Queued' : b \in Queued \/ IsWoken(b)'
    BY <2>7, <2>8 DEF Queued
  <2>10. Downloading' # {} => Downloading # {}
    BY <2>7 DEF Downloading
  <2>11. Attended => Attended'
    BY <2>1, <2>6, <2>9, StillAttended
  <2> QED
    BY <2>1, <2>10, <2>11, NothingNew
<1>5. CASE ResetFailure(c)
  <2>1. /\ UNCHANGED <<up, pc, timer, pending, completed, result, job, unseen, overlooked>>
        /\ call[c].pc = "resetting" /\ call[c] # Idle
        /\ call' = [call EXCEPT ![c].pc = "telling"]
    BY <1>5 DEF ResetFailure, worker, waking, history, Idle
  <2>2. call[c] \in [pc : {"enqueueing", "resetting", "telling"}, asset : Assets, wakes : BOOLEAN]
    BY <2>1, CallKnows
  <2>3. /\ call'[c].pc = "telling" /\ call'[c].asset = call[c].asset
        /\ call'[c].wakes = call[c].wakes
        /\ \A d \in Callers : d # c => call'[d] = call[d]
    BY <1>1, <2>1, <2>2
  <2>4. \A b \in Assets : IsWoken(b) => IsWoken(b)'
    BY <2>3, StillWoken
  <2> QED
    BY <1>2, <2>1, <2>4
<1>6. CASE Tell(c)
  <2>1. /\ UNCHANGED <<up, pc, completed, result, job, unseen, overlooked>>
        /\ call' = [call EXCEPT ![c] = Idle]
    BY <1>6 DEF Tell, worker, tables, history
  <2>2. CASE call[c].wakes
    BY <1>6, <2>1, <2>2, ScheduleWakes DEF Tell
  <2>3. CASE ~call[c].wakes
    <3>1. UNCHANGED <<timer, pending>>
      BY <1>6, <2>3 DEF Tell, waking
    <3>2. \A d \in Callers : d # c => call'[d] = call[d]
      BY <1>1, <2>1
    <3>3. \A b \in Assets : IsWoken(b) => IsWoken(b)'
      BY <2>3, <3>2, StillWoken
    <3> QED
      BY <1>2, <2>1, <3>1, <3>3
  <2> QED
    BY <2>2, <2>3
<1>7. CASE CallFails(c)
  <2>1. /\ UNCHANGED <<up, pc, timer, pending, completed, result, job, overlooked>>
        /\ call' = [call EXCEPT ![c] = Idle] /\ call[c] # Idle
        /\ unseen' = IF call[c].pc # "enqueueing" /\ call[c].wakes
                     THEN unseen \cup {call[c].asset} ELSE unseen
    BY <1>7 DEF CallFails, worker, waking, tables
  <2>2. \A d \in Callers : d # c => call'[d] = call[d]
    BY <1>1, <2>1
  <2>3. ASSUME NEW b \in Assets, IsWoken(b) PROVE IsWoken(b)' \/ b \in unseen'
    <3>1. PICK d \in Callers :
            /\ call[d] # Idle /\ call[d].pc \in {"resetting", "telling"}
            /\ call[d].asset = b /\ call[d].wakes
      BY <2>3 DEF IsWoken
    <3>2. CASE d = c
      BY <2>1, <3>1, <3>2
    <3>3. CASE d # c
      BY <2>2, <3>1, <3>3 DEF IsWoken
    <3> QED
      BY <3>2, <3>3
  <2>4. unseen \subseteq unseen'
    BY <2>1
  <2> QED
    BY <1>2, <2>1, <2>3, <2>4
<1> QED
  BY <1>3, <1>4, <1>5, <1>6, <1>7 DEF Calling

LEMMA OtherWakes ==
  ASSUME FInv, WakeInv,
         \/ QueueEvent \/ (\E f \in FileIds : UpdateFile(f)) \/ (\E x \in Files : Progress(x))
         \/ (\E a \in Assets : ClaimExpires(a)) \/ Crash \/ Restart \/ UNCHANGED vars
         \/ TickFails \/ \E r \in Rows : ReportFails(r)
  PROVE  WakeInv'
<1>1. CASE QueueEvent
  BY <1>1, ScheduleWakes DEF QueueEvent, worker
<1>2. ASSUME NEW f \in FileIds, UpdateFile(f)
      PROVE  WakeInv'
  <2>1. /\ UNCHANGED <<up, pc, job, call, result, unseen, overlooked>>
        /\ Schedule \/ UNCHANGED <<completed, timer, pending>>
    BY <1>2 DEF UpdateFile, waking, history
  <2> QED
    BY <2>1, ScheduleWakes, NothingQueued
<1>3. CASE (\E x \in Files : Progress(x)) \/ UNCHANGED vars
  <2>1. UNCHANGED <<up, pc, job, call, result, completed, timer, pending, unseen, overlooked>>
    BY <1>3 DEF Progress, vars, tables, waking, worker, history
  <2> QED
    BY <2>1, NothingQueued
<1>4. ASSUME NEW a \in Assets, ClaimExpires(a)
      PROVE  WakeInv'
  <2>1. /\ UNCHANGED <<up, pc, call, result, completed, timer, pending, unseen, overlooked>>
        /\ job[a] # NoJob
    BY <1>4 DEF ClaimExpires, waking, worker, history, Downloading
  <2>2. /\ job'[a].status = job[a].status
        /\ \A b \in Assets : b # a => job'[b] = job[b]
    BY <1>4, ExpiresKeeps
  <2>3. \A b \in Assets : job'[b] # NoJob => job[b] # NoJob /\ job[b].status = job'[b].status
    BY <2>1, <2>2
  <2> QED
    BY <2>1, <2>3, NothingQueued
<1>5. CASE Crash \/ Restart
  <2>1. \/ up' = FALSE /\ pc' = "idle"
        \/ ~up /\ timer' = TRUE /\ pc' = pc
    BY <1>5 DEF Crash, Restart
  <2> QED
    BY <2>1 DEF WakeInv, Asleep
<1>6. ASSUME NEW r \in Rows, TickFails \/ ReportFails(r)
      PROVE  WakeInv'
  <2>1. CASE EndTick(TRUE)
    BY <2>1, TimedEnd DEF EndTick
  <2>2. CASE UNCHANGED <<waking, pc, result, history>> /\ ReportFails(r)
    <3>1. UNCHANGED <<up, pc, job, call, result, completed, timer, pending, unseen, overlooked>>
      BY <2>2 DEF ReportFails, tables, waking, history
    <3> QED
      BY <3>1, NothingQueued
  <2> QED
    BY <1>6, <2>1, <2>2 DEF TickFails, ReportFails
<1>7. CASE TickFails
  BY <1>7, TimedEnd DEF TickFails, EndTick
<1> QED
  BY <1>1, <1>2, <1>3, <1>4, <1>5, <1>6, <1>7

(* While the process runs and no tick does, the worker's timer is set for every *)
(* completed file, for every queued job that neither its enqueuer is still at  *)
(* work on nor nobody was going to tell of, and for the open downloads that    *)
(* the last tick was free to look at (schedule, handleTickResult): a wake-up in *)
(* the middle of a tick, also of one that fails, is never forgotten.           *)
THEOREM NoWakeupIsLost == Spec => []NoLostWakeup
<1>1. Init => WakeInv
  BY DEF Init, WakeInv, Asleep, NoResult
<1>2. FInv /\ WakeInv /\ [Next]_vars => WakeInv'
  BY RowWakes, StageWakes, CallWakes, OtherWakes DEF Next
<1>3. WakeInv => NoLostWakeup
  BY DEF WakeInv, NoLostWakeup, Attended, IsWoken
<1> QED
  BY <1>1, <1>2, <1>3, Holds, PTL DEF Spec

=============================================================================
