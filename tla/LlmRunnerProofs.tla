-------------------------- MODULE LlmRunnerProofs --------------------------
(***************************************************************************)
(* Theorems about LlmRunner, for any workers, runs, lease and bounds, with *)
(* the telemetry reads or without them.                                    *)
(***************************************************************************)
EXTENDS LlmRunner, TLAPS

-----------------------------------------------------------------------------
(* The types: they hold whenever leases are refreshed, in time or not *)

(* A system that starts has its types. *)
LEMMA InitTyped == Init => TypeOK
BY LeaseAssumption
   DEF Init, TypeOK, Statuses, Labels, MaxAge

(* A row that is written has a status, and the age of a tick or none. *)
LEMMA SetRowTyped ==
  ASSUME TypeOK, NEW r \in Runs, NEW status \in Statuses, NEW seconds \in 0..MaxAge,
         SetRow(r, status, seconds)
  PROVE  run' \in [Runs -> Statuses] /\ age' \in [Runs -> 0..MaxAge]
BY DEF TypeOK, SetRow

(* A process that goes on has a label for the run. *)
LEMMA GotoTyped ==
  ASSUME TypeOK, NEW w \in Workers, NEW r \in Runs, NEW label \in Labels, Goto(w, r, label)
  PROVE  proc' \in [Workers -> [Runs -> Labels]]
BY DEF TypeOK, Goto

(* A statement that fails leaves the types. *)
LEMMA FailureTyped ==
  ASSUME TypeOK, NEW w \in Workers, NEW r \in Runs, StatementFails(w, r)
  PROVE  TypeOK'
<1>1. faults' \in 0..MaxFaults /\ UNCHANGED <<rows, up, published>>
  BY LeaseAssumption DEF StatementFails, TypeOK
<1>2. /\ created' \in [Workers -> SUBSET Runs]
      /\ proc' \in [Workers -> [Runs -> Labels]]
      /\ recovering' \in SUBSET Workers
      /\ listed' \in [Workers -> SUBSET Runs]
      /\ lag' \in [Workers -> 0..MaxLag]
  <2>0. /\ created \in [Workers -> SUBSET Runs] /\ recovering \in SUBSET Workers
        /\ listed \in [Workers -> SUBSET Runs] /\ lag \in [Workers -> 0..MaxLag]
        /\ proc \in [Workers -> [Runs -> Labels]] /\ 0 \in 0..MaxLag
    BY LeaseAssumption DEF TypeOK
  <2>1. CASE Goto(w, r, "failing") /\ UNCHANGED <<created, tick>>
    BY <2>0, <2>1, GotoTyped DEF tick, Labels
  <2>2. CASE Goto(w, r, "none") /\ UNCHANGED <<created, tick>>
    BY <2>0, <2>2, GotoTyped DEF tick, Labels
  <2>3. CASE created' = [created EXCEPT ![w] = @ \ {r}] /\ UNCHANGED <<proc, tick>>
    BY <2>0, <2>3 DEF tick
  <2>4. CASE /\ proc' = [proc EXCEPT ![w][r] = IF @ = "noProfile" THEN "none" ELSE @]
             /\ recovering' = recovering \ {w}
             /\ listed' = [listed EXCEPT ![w] = {}]
             /\ lag' = [lag EXCEPT ![w] = 0]
             /\ UNCHANGED created
    BY <2>0, <2>4 DEF Labels
  <2> QED
    BY <2>1, <2>2, <2>3, <2>4 DEF StatementFails
<1> QED
  BY <1>1, <1>2 DEF TypeOK, rows

(* Every step keeps the types. *)
LEMMA StepTyped ==
  ASSUME TypeOK, [Next]_vars
  PROVE  TypeOK'
<1> USE LeaseAssumption
<1>1. ASSUME NEW w \in Workers, NEW r \in Runs, CreateRun(w, r)
      PROVE  TypeOK'
  <2>1. run' \in [Runs -> Statuses] /\ age' \in [Runs -> 0..MaxAge]
    BY <1>1, SetRowTyped DEF CreateRun, Statuses, MaxAge
  <2> QED
    BY <1>1, <2>1 DEF CreateRun, TypeOK, tick
<1>2. ASSUME NEW w \in Workers, NEW r \in Runs, ClaimCreated(w, r)
      PROVE  TypeOK'
  <2>1. CASE SetRow(r, "processing", age[r]) /\ Goto(w, r, "processing")
    <3>1. run' \in [Runs -> Statuses] /\ age' \in [Runs -> 0..MaxAge]
      BY <2>1, SetRowTyped DEF Statuses, TypeOK
    <3>2. proc' \in [Workers -> [Runs -> Labels]]
      BY <2>1, GotoTyped DEF Labels
    <3> QED
      BY <1>2, <3>1, <3>2 DEF ClaimCreated, TypeOK, tick
  <2>2. CASE UNCHANGED <<rows, proc>>
    BY <1>2, <2>2 DEF ClaimCreated, TypeOK, tick, rows
  <2> QED
    BY <1>2, <2>1, <2>2 DEF ClaimCreated
<1>3. ASSUME NEW w \in Workers, NEW r \in Runs, ClaimListed(w, r)
      PROVE  TypeOK'
  <2>1. CASE /\ SetRow(r, "processing", lag[w])
             /\ Goto(w, r, "processing") \/ Goto(w, r, "noProfile")
    <3>0. lag[w] \in 0..MaxAge
      BY DEF TypeOK, MaxAge
    <3>1. run' \in [Runs -> Statuses] /\ age' \in [Runs -> 0..MaxAge]
      BY <2>1, <3>0, SetRowTyped DEF Statuses
    <3>2. proc' \in [Workers -> [Runs -> Labels]]
      BY <2>1, GotoTyped DEF Labels
    <3> QED
      BY <1>3, <3>1, <3>2 DEF ClaimListed, TypeOK
  <2>2. CASE UNCHANGED <<rows, proc>>
    BY <1>3, <2>2 DEF ClaimListed, TypeOK, rows
  <2> QED
    BY <1>3, <2>1, <2>2 DEF ClaimListed
<1>4. ASSUME NEW w \in Workers, NEW r \in Runs, ProcessStep(w, r)
      PROVE  TypeOK'
  <2>1. CASE MarkCompleted(w, r) \/ MarkFailed(w, r)
    <3>1. run' \in [Runs -> Statuses] /\ age' \in [Runs -> 0..MaxAge]
      BY <2>1, SetRowTyped DEF MarkCompleted, MarkFailed, Statuses, MaxAge
    <3>2. proc' \in [Workers -> [Runs -> Labels]]
      BY <2>1, GotoTyped DEF MarkCompleted, MarkFailed, Labels
    <3> QED
      BY <2>1, <3>1, <3>2 DEF MarkCompleted, MarkFailed, TypeOK, tick
  <2>2. CASE ProviderFails(w, r)
    <3>1. proc' \in [Workers -> [Runs -> Labels]]
      BY <2>2, GotoTyped DEF ProviderFails, Labels
    <3> QED
      BY <2>2, <3>1 DEF ProviderFails, TypeOK, tick, rows
  <2>3. CASE Publish(w, r)
    <3>1. proc' \in [Workers -> [Runs -> Labels]]
      BY <2>3, GotoTyped DEF Publish, Labels
    <3>2. published' \in [Runs -> SUBSET FinalStatuses]
      BY <2>3 DEF Publish, TypeOK
    <3> QED
      BY <2>3, <3>1, <3>2 DEF Publish, TypeOK, tick, rows
  <2> QED
    BY <1>4, <2>1, <2>2, <2>3 DEF ProcessStep
<1>5. ASSUME NEW w \in Workers, NEW r \in Runs, Refresh(w, r)
      PROVE  TypeOK'
  BY <1>5 DEF Refresh, TypeOK, tick, MaxAge
<1>6. ASSUME NEW w \in Workers, BeginRecovery(w)
      PROVE  TypeOK'
  BY <1>6 DEF BeginRecovery, TypeOK, rows
<1>7. ASSUME NEW w \in Workers, EndRecovery(w)
      PROVE  TypeOK'
  BY <1>7 DEF EndRecovery, TypeOK, rows
<1>8. ASSUME NEW w \in Workers, Crash(w)
      PROVE  TypeOK'
  <2>1. proc' \in [Workers -> [Runs -> Labels]]
    BY <1>8 DEF Crash, TypeOK, Labels
  <2> QED
    BY <1>8, <2>1 DEF Crash, TypeOK, rows
<1>9. ASSUME NEW w \in Workers, Restart(w)
      PROVE  TypeOK'
  BY <1>9 DEF Restart, TypeOK, rows, tick
<1>10. CASE Tick
  <2>1. age' \in [Runs -> 0..MaxAge] /\ lag' \in [Workers -> 0..MaxLag]
    BY <1>10 DEF Tick, TypeOK, MaxAge
  <2> QED
    BY <1>10, <2>1 DEF Tick, TypeOK
<1>11. CASE UNCHANGED vars
  BY <1>11 DEF vars, rows, tick, TypeOK
<1> QED
  BY <1>1, <1>2, <1>3, <1>4, <1>5, <1>6, <1>7, <1>8, <1>9, <1>10, <1>11, FailureTyped DEF Next

(* Rows, labels and ages stay what they may be, however late a refresh is,  *)
(* whatever fails and whoever crashes.                                      *)
THEOREM TypeCorrect == Spec => []TypeOK
<1>1. Init => TypeOK
  BY InitTyped
<1>2. TypeOK /\ [Next]_vars => TypeOK'
  BY StepTyped
<1> QED
  BY <1>1, <1>2, PTL DEF Spec

-----------------------------------------------------------------------------
(* One holder of a run, as long as leases are refreshed in time *)

Holds(w, r) == proc[w][r] # "none"

OneHolder == \A v, w \in Workers, r \in Runs : Holds(v, r) /\ Holds(w, r) => v = w

(* What a process does for a run fits the row: it is not written behind its   *)
(* back.  A failing one may have completed the run if the telemetry read that *)
(* follows failed.                                                            *)
FitsRow(label, status) ==
  \/ label = "none"
  \/ label \in {"processing", "noProfile", "failing"} /\ status = "processing"
  \/ label = "failing" /\ status = "completed" /\ TelemetryEnabled
  \/ label \in FinalStatuses /\ label = status

RowsFit == \A w \in Workers, r \in Runs : FitsRow(proc[w][r], run[r])

(* The outcome is announced last: nobody holds the run any more, and the row  *)
(* has it.                                                                    *)
AnnouncedLast ==
  \A r \in Runs :
    /\ published[r] \subseteq {run[r]}
    /\ published[r] # {} => run[r] \in FinalStatuses /\ \A w \in Workers : ~Holds(w, r)

IInv == TypeOK /\ RefreshedInTime /\ OneHolder /\ RowsFit /\ AnnouncedLast

(* A system that starts has no holders and nothing announced. *)
LEMMA InitHeld == Init => IInv
<1> SUFFICES ASSUME Init PROVE IInv
  OBVIOUS
<1>1. TypeOK
  BY InitTyped
<1>2. /\ \A w \in Workers, r \in Runs : proc[w][r] = "none"
      /\ \A r \in Runs : published[r] = {}
  BY DEF Init
<1> QED
  BY <1>1, <1>2
     DEF IInv, RefreshedInTime, Processing, OneHolder, RowsFit, AnnouncedLast, Holds, FitsRow

(* A run nobody has claimed has no holder, and neither has one whose lease is *)
(* stale: its holder would have refreshed it.                                 *)
LEMMA ClaimableIsFree ==
  ASSUME IInv, NEW r \in Runs,
         run[r] = "accepted" \/ \E w \in Workers : Claimable(w, r)
  PROVE  /\ \A v \in Workers : ~Holds(v, r)
         /\ published[r] = {}
<1>1. run[r] \in {"accepted", "processing"}
  BY DEF Claimable
<1>2. ASSUME NEW v \in Workers, Holds(v, r) PROVE FALSE
  <2>1. run[r] = "processing" /\ proc[v][r] \in {"processing", "noProfile", "failing"}
    BY <1>1, <1>2 DEF IInv, RowsFit, FitsRow, Holds, FinalStatuses
  <2>2. age[r] < Stale
    BY <2>1 DEF IInv, RefreshedInTime, Processing
  <2>0. /\ age[r] \in Int /\ Stale \in Int
        /\ \A w \in Workers : lag[w] \in Int /\ lag[w] >= 0
    BY LeaseAssumption DEF IInv, TypeOK, MaxAge
  <2>3. \A w \in Workers : age[r] - lag[w] < Stale
    <3> SUFFICES ASSUME NEW w \in Workers PROVE age[r] - lag[w] < Stale
      OBVIOUS
    <3>1. \A a, l, m \in Int : l >= 0 /\ a < m => a - l < m
      OBVIOUS
    <3> QED
      BY <2>0, <2>2, <3>1
  <2>4. PICK w \in Workers : Claimable(w, r)
    BY <2>1
  <2> QED
    BY <2>0, <2>1, <2>3, <2>4 DEF Claimable
<1>3. published[r] = {}
  BY <1>1 DEF IInv, AnnouncedLast, FinalStatuses
<1> QED
  BY <1>2, <1>3

(* What a step of process w for run r has to leave behind, and to find when  *)
(* it writes the row or takes the run, for the rest of the invariant to hold. *)
LEMMA OneRunChanges ==
  ASSUME IInv, NEW w \in Workers, NEW r \in Runs,
         \A v \in Workers, s \in Runs : v # w \/ s # r => proc'[v][s] = proc[v][s],
         \A s \in Runs : s # r => run'[s] = run[s] /\ published'[s] = published[s],
         FitsRow(proc'[w][r], run'[r]),
         run'[r] # run[r] \/ proc'[w][r] # "none" => \A v \in Workers \ {w} : ~Holds(v, r),
         published'[r] \subseteq {run'[r]},
         published'[r] # {} =>
           run'[r] \in FinalStatuses /\ \A v \in Workers : proc'[v][r] = "none"
  PROVE  OneHolder' /\ RowsFit' /\ AnnouncedLast'
<1>1. OneHolder'
  BY DEF IInv, OneHolder, Holds
<1>2. RowsFit'
  <2> SUFFICES ASSUME NEW v \in Workers, NEW s \in Runs
               PROVE  FitsRow(proc'[v][s], run'[s])
    BY DEF RowsFit
  <2>1. CASE v = w /\ s = r
    BY <2>1
  <2>2. CASE s # r
    BY <2>2 DEF IInv, RowsFit
  <2>3. CASE v # w /\ s = r
    <3>1. CASE run'[r] = run[r]
      BY <2>3, <3>1 DEF IInv, RowsFit
    <3>2. CASE run'[r] # run[r]
      BY <2>3, <3>2 DEF Holds, FitsRow
    <3> QED
      BY <3>1, <3>2
  <2> QED
    BY <2>1, <2>2, <2>3
<1>3. AnnouncedLast'
  <2> SUFFICES ASSUME NEW s \in Runs
               PROVE  /\ published'[s] \subseteq {run'[s]}
                      /\ published'[s] # {} =>
                           run'[s] \in FinalStatuses /\ \A v \in Workers : proc'[v][s] = "none"
    BY DEF AnnouncedLast, Holds
  <2>1. CASE s = r
    BY <2>1
  <2>2. CASE s # r
    BY <2>2 DEF IInv, AnnouncedLast, Holds
  <2> QED
    BY <2>1, <2>2
<1> QED
  BY <1>1, <1>2, <1>3

(* A step that writes no row, takes no run and announces nothing leaves the  *)
(* rest of the invariant, whatever it drops.                                  *)
LEMMA NothingTaken ==
  ASSUME IInv, UNCHANGED <<run, published>>,
         \A w \in Workers, r \in Runs : proc'[w][r] \in {proc[w][r], "none"}
  PROVE  OneHolder' /\ RowsFit' /\ AnnouncedLast'
<1>1. OneHolder'
  BY DEF IInv, OneHolder, Holds
<1>2. RowsFit'
  <2> SUFFICES ASSUME NEW v \in Workers, NEW s \in Runs
               PROVE  FitsRow(proc'[v][s], run[s])
    BY DEF RowsFit
  <2>1. FitsRow(proc[v][s], run[s]) /\ FitsRow("none", run[s])
    BY DEF IInv, RowsFit, FitsRow
  <2> QED
    BY <2>1
<1>3. AnnouncedLast'
  BY DEF IInv, AnnouncedLast, Holds
<1> QED
  BY <1>1, <1>2, <1>3

(* What Goto leaves alone. *)
LEMMA GotoElsewhere ==
  ASSUME TypeOK, NEW w \in Workers, NEW r \in Runs, NEW label, Goto(w, r, label)
  PROVE  /\ proc'[w][r] = label
         /\ \A v \in Workers, s \in Runs : v # w \/ s # r => proc'[v][s] = proc[v][s]
BY DEF TypeOK, Goto

(* What SetRow leaves alone. *)
LEMMA SetRowElsewhere ==
  ASSUME TypeOK, NEW r \in Runs, NEW status, NEW seconds, SetRow(r, status, seconds)
  PROVE  run'[r] = status /\ \A s \in Runs : s # r => run'[s] = run[s]
BY DEF TypeOK, SetRow

(* Every step keeps one holder, the rows that fit what is done for them, and *)
(* the announcements.                                                         *)
LEMMA StepHeld ==
  ASSUME IInv, [Next]_vars
  PROVE  OneHolder' /\ RowsFit' /\ AnnouncedLast'
<1>0. TypeOK
  BY DEF IInv
<1>1. ASSUME NEW w \in Workers, NEW r \in Runs, CreateRun(w, r)
      PROVE  OneHolder' /\ RowsFit' /\ AnnouncedLast'
  <2>1. /\ run[r] = "absent" /\ run'[r] = "accepted" /\ proc' = proc /\ published' = published
        /\ \A s \in Runs : s # r => run'[s] = run[s]
    BY <1>0, <1>1, SetRowElsewhere DEF CreateRun
  <2>2. \A v \in Workers : proc[v][r] = "none"
    BY <2>1 DEF IInv, RowsFit, FitsRow, FinalStatuses
  <2>3. published[r] = {}
    BY <2>1 DEF IInv, AnnouncedLast, FinalStatuses
  <2>4. FitsRow(proc'[w][r], run'[r])
    BY <2>1, <2>2 DEF FitsRow
  <2> QED
    BY <2>1, <2>2, <2>3, <2>4, OneRunChanges DEF Holds
<1>2. ASSUME NEW w \in Workers, NEW r \in Runs,
             run[r] = "accepted" \/ Claimable(w, r),
             run'[r] = "processing", \A s \in Runs : s # r => run'[s] = run[s],
             Goto(w, r, "processing") \/ Goto(w, r, "noProfile"),
             published' = published
      PROVE  OneHolder' /\ RowsFit' /\ AnnouncedLast'
  <2>1. (\A v \in Workers : ~Holds(v, r)) /\ published[r] = {}
    BY <1>2, ClaimableIsFree
  <2>2. /\ proc'[w][r] \in {"processing", "noProfile"}
        /\ \A v \in Workers, s \in Runs : v # w \/ s # r => proc'[v][s] = proc[v][s]
    BY <1>0, <1>2, GotoElsewhere
  <2>3. FitsRow(proc'[w][r], run'[r])
    BY <1>2, <2>2 DEF FitsRow
  <2> QED
    BY <1>2, <2>1, <2>2, <2>3, OneRunChanges
<1>3. ASSUME NEW w \in Workers, NEW r \in Runs, ClaimCreated(w, r)
      PROVE  OneHolder' /\ RowsFit' /\ AnnouncedLast'
  <2>1. CASE run[r] = "accepted"
    <3>1. SetRow(r, "processing", age[r]) /\ Goto(w, r, "processing") /\ published' = published
      BY <1>3, <2>1 DEF ClaimCreated
    <3>2. run'[r] = "processing" /\ \A s \in Runs : s # r => run'[s] = run[s]
      BY <1>0, <3>1, SetRowElsewhere
    <3> QED
      BY <1>2, <2>1, <3>1, <3>2
  <2>2. CASE run[r] # "accepted"
    BY <1>3, <2>2, NothingTaken DEF ClaimCreated, rows
  <2> QED
    BY <2>1, <2>2
<1>4. ASSUME NEW w \in Workers, NEW r \in Runs, ClaimListed(w, r)
      PROVE  OneHolder' /\ RowsFit' /\ AnnouncedLast'
  <2>1. CASE proc[w][r] = "none" /\ Claimable(w, r)
    <3>1. /\ SetRow(r, "processing", lag[w]) /\ published' = published
          /\ Goto(w, r, "processing") \/ Goto(w, r, "noProfile")
      BY <1>4, <2>1 DEF ClaimListed
    <3>2. run'[r] = "processing" /\ \A s \in Runs : s # r => run'[s] = run[s]
      BY <1>0, <3>1, SetRowElsewhere
    <3> QED
      BY <1>2, <2>1, <3>1, <3>2
  <2>2. CASE ~(proc[w][r] = "none" /\ Claimable(w, r))
    BY <1>4, <2>2, NothingTaken DEF ClaimListed, rows
  <2> QED
    BY <2>1, <2>2
<1>5. ASSUME NEW w \in Workers, NEW r \in Runs, NEW status \in FinalStatuses,
             proc[w][r] # "none",
             run'[r] = status, \A s \in Runs : s # r => run'[s] = run[s],
             Goto(w, r, status), published' = published
      PROVE  OneHolder' /\ RowsFit' /\ AnnouncedLast'
  <2>1. (\A v \in Workers \ {w} : ~Holds(v, r)) /\ published[r] = {}
    BY <1>5 DEF IInv, OneHolder, AnnouncedLast, Holds
  <2>2. /\ proc'[w][r] = status
        /\ \A v \in Workers, s \in Runs : v # w \/ s # r => proc'[v][s] = proc[v][s]
    BY <1>0, <1>5, GotoElsewhere
  <2>3. FitsRow(proc'[w][r], run'[r])
    BY <1>5, <2>2 DEF FitsRow
  <2> QED
    BY <1>5, <2>1, <2>2, <2>3, OneRunChanges
<1>6. ASSUME NEW w \in Workers, NEW r \in Runs, MarkCompleted(w, r) \/ MarkFailed(w, r)
      PROVE  OneHolder' /\ RowsFit' /\ AnnouncedLast'
  <2>1. PICK status \in FinalStatuses :
          SetRow(r, status, 0) /\ Goto(w, r, status) /\ published' = published
    BY <1>6 DEF MarkCompleted, MarkFailed, FinalStatuses
  <2>2. proc[w][r] # "none"
    BY <1>6 DEF MarkCompleted, MarkFailed
  <2>3. run'[r] = status /\ \A s \in Runs : s # r => run'[s] = run[s]
    BY <1>0, <2>1, SetRowElsewhere
  <2> QED
    BY <1>5, <2>1, <2>2, <2>3
<1>7. ASSUME NEW w \in Workers, NEW r \in Runs, NEW label,
             Goto(w, r, label), proc[w][r] # "none", FitsRow(label, run[r]),
             UNCHANGED <<run, published>>
      PROVE  OneHolder' /\ RowsFit' /\ AnnouncedLast'
  <2>1. /\ proc'[w][r] = label
        /\ \A v \in Workers, s \in Runs : v # w \/ s # r => proc'[v][s] = proc[v][s]
    BY <1>0, <1>7, GotoElsewhere
  <2>2. (\A v \in Workers \ {w} : ~Holds(v, r)) /\ published[r] = {}
    BY <1>7 DEF IInv, OneHolder, AnnouncedLast, Holds
  <2> QED
    BY <1>7, <2>1, <2>2, OneRunChanges
<1>8. ASSUME NEW w \in Workers, NEW r \in Runs, ProviderFails(w, r)
      PROVE  OneHolder' /\ RowsFit' /\ AnnouncedLast'
  <2>1. FitsRow("failing", run[r])
    BY <1>8 DEF ProviderFails, IInv, RowsFit, FitsRow, FinalStatuses
  <2> QED
    BY <1>7, <1>8, <2>1 DEF ProviderFails, rows
<1>9. ASSUME NEW w \in Workers, NEW r \in Runs, Publish(w, r)
      PROVE  OneHolder' /\ RowsFit' /\ AnnouncedLast'
  <2>1. /\ proc'[w][r] = "none"
        /\ \A v \in Workers, s \in Runs : v # w \/ s # r => proc'[v][s] = proc[v][s]
    BY <1>0, <1>9, GotoElsewhere DEF Publish
  <2>2. /\ \A v \in Workers \ {w} : ~Holds(v, r)
        /\ published[r] = {} /\ run[r] = proc[w][r] /\ run[r] \in FinalStatuses
    BY <1>9 DEF Publish, IInv, OneHolder, RowsFit, FitsRow, AnnouncedLast, Holds, FinalStatuses
  <2>3. /\ run' = run /\ published'[r] = {run[r]}
        /\ \A s \in Runs : s # r => published'[s] = published[s]
    BY <1>0, <1>9, <2>2 DEF Publish, rows, TypeOK
  <2>4. FitsRow(proc'[w][r], run'[r])
    BY <2>1 DEF FitsRow
  <2>5. \A v \in Workers : proc'[v][r] = "none"
    BY <2>1, <2>2 DEF Holds
  <2> QED
    BY <2>1, <2>2, <2>3, <2>4, <2>5, OneRunChanges
<1>10. ASSUME NEW w \in Workers, NEW r \in Runs, Refresh(w, r)
       PROVE  OneHolder' /\ RowsFit' /\ AnnouncedLast'
  BY <1>10, NothingTaken DEF Refresh
<1>11. ASSUME NEW w \in Workers, NEW r \in Runs, StatementFails(w, r)
       PROVE  OneHolder' /\ RowsFit' /\ AnnouncedLast'
  <2>0. UNCHANGED <<run, published>>
    BY <1>11 DEF StatementFails, rows
  <2>1. CASE /\ \/ proc[w][r] = "processing"
                \/ proc[w][r] = "completed" /\ TelemetryEnabled
             /\ Goto(w, r, "failing")
    <3>1. FitsRow("failing", run[r])
      BY <2>1 DEF IInv, RowsFit, FitsRow, FinalStatuses
    <3> QED
      BY <1>7, <2>0, <2>1, <3>1
  <2>2. CASE Goto(w, r, "none")
    <3>1. \A v \in Workers, s \in Runs : proc'[v][s] \in {proc[v][s], "none"}
      BY <1>0, <2>2, GotoElsewhere
    <3> QED
      BY <2>0, <3>1, NothingTaken
  <2>3. CASE proc' = proc
    BY <2>0, <2>3, NothingTaken
  <2>4. CASE proc' = [proc EXCEPT ![w][r] = IF @ = "noProfile" THEN "none" ELSE @]
    <3>1. \A v \in Workers, s \in Runs : proc'[v][s] \in {proc[v][s], "none"}
      BY <1>0, <2>4 DEF TypeOK
    <3> QED
      BY <2>0, <3>1, NothingTaken
  <2> QED
    BY <1>11, <2>1, <2>2, <2>3, <2>4 DEF StatementFails
<1>12. ASSUME NEW w \in Workers, BeginRecovery(w) \/ EndRecovery(w) \/ Restart(w)
       PROVE  OneHolder' /\ RowsFit' /\ AnnouncedLast'
  BY <1>12, NothingTaken DEF BeginRecovery, EndRecovery, Restart, rows
<1>13. ASSUME NEW w \in Workers, Crash(w)
       PROVE  OneHolder' /\ RowsFit' /\ AnnouncedLast'
  <2>1. \A v \in Workers, s \in Runs : proc'[v][s] \in {proc[v][s], "none"}
    BY <1>0, <1>13 DEF Crash, TypeOK
  <2> QED
    BY <1>13, <2>1, NothingTaken DEF Crash, rows
<1>14. CASE Tick
  BY <1>14, NothingTaken DEF Tick
<1>15. CASE UNCHANGED vars
  BY <1>15, NothingTaken DEF vars, rows
<1> QED
  BY <1>1, <1>3, <1>4, <1>6, <1>8, <1>9, <1>10, <1>11, <1>12, <1>13, <1>14, <1>15
     DEF Next, ProcessStep

(* The invariant holds as long as leases are refreshed in time. *)
LEMMA Held == TimelySpec => []IInv
<1>1. Init => IInv
  BY InitHeld
<1>2. IInv /\ [TimelyNext]_vars => IInv'
  <2> SUFFICES ASSUME IInv, [TimelyNext]_vars PROVE IInv'
    OBVIOUS
  <2>1. [Next]_vars
    BY DEF TimelyNext
  <2>2. TypeOK'
    BY <2>1, StepTyped DEF IInv
  <2>3. OneHolder' /\ RowsFit' /\ AnnouncedLast'
    BY <2>1, StepHeld
  <2>4. RefreshedInTime'
    <3>1. CASE TimelyNext
      BY <3>1 DEF TimelyNext
    <3>2. CASE UNCHANGED vars
      BY <3>2 DEF vars, rows, IInv, RefreshedInTime, Processing
    <3> QED
      BY <3>1, <3>2
  <2> QED
    BY <2>2, <2>3, <2>4 DEF IInv
<1> QED
  BY <1>1, <1>2, PTL DEF TimelySpec

-----------------------------------------------------------------------------
(* What follows from it *)

(* No two processes have a run in their hands at a time, from its claim until *)
(* its outcome is published: with refreshes in time a takeover finds the run  *)
(* let go.                                                                    *)
THEOREM OneProcessorAtATime == TimelySpec => []OneProcessor
<1>1. IInv => OneProcessor
  BY DEF IInv, OneHolder, Holds, OneProcessor
<1> QED
  BY <1>1, Held, PTL

(* An event announces what is stored, and what is stored then stays, also     *)
(* when the telemetry read between the two fails.                             *)
THEOREM AnnouncedAlwaysStored == TimelySpec => []AnnouncedIsStored
<1>1. IInv => AnnouncedIsStored
  BY DEF IInv, AnnouncedLast, AnnouncedIsStored
<1> QED
  BY <1>1, Held, PTL

-----------------------------------------------------------------------------
(* The contract *)

(* What a pipeline can read of a run, and of all of them. *)
Shown(status) ==
  IF status = "absent" THEN "none"
  ELSE IF status \in FinalStatuses THEN status
  ELSE "active"

Results(statuses) == [r \in Runs |-> Shown(statuses[r])]

(* Without telemetry reads a row is written by one who accepts the run, takes *)
(* it, or ends it, and the last only while it is processed.                   *)
LEMMA RowMoves ==
  ASSUME IInv, ~TelemetryEnabled, [Next]_vars
  PROVE  \/ run' = run
         \/ \E r \in Runs, status \in Statuses :
              /\ run' = [run EXCEPT ![r] = status]
              /\ \/ run[r] = "absent" /\ status = "accepted"
                 \/ run[r] \in {"accepted", "processing"} /\ status = "processing"
                 \/ run[r] = "processing" /\ status \in FinalStatuses
<1>1. ASSUME NEW w \in Workers, NEW r \in Runs, CreateRun(w, r)
      PROVE  run' = [run EXCEPT ![r] = "accepted"] /\ run[r] = "absent"
  BY <1>1 DEF CreateRun, SetRow
<1>2. ASSUME NEW w \in Workers, NEW r \in Runs, ClaimCreated(w, r) \/ ClaimListed(w, r)
      PROVE  \/ run' = run
             \/ /\ run' = [run EXCEPT ![r] = "processing"]
                /\ run[r] \in {"accepted", "processing"}
  BY <1>2 DEF ClaimCreated, ClaimListed, SetRow, Claimable, rows
<1>3. ASSUME NEW w \in Workers, NEW r \in Runs, MarkCompleted(w, r) \/ MarkFailed(w, r)
      PROVE  /\ run[r] = "processing"
             /\ \E status \in FinalStatuses : run' = [run EXCEPT ![r] = status]
  <2>1. proc[w][r] \in {"processing", "failing", "noProfile"}
    BY <1>3 DEF MarkCompleted, MarkFailed
  <2>2. run[r] = "processing"
    BY <2>1 DEF IInv, RowsFit, FitsRow, FinalStatuses
  <2> QED
    BY <1>3, <2>2 DEF MarkCompleted, MarkFailed, SetRow, FinalStatuses
<1>4. ASSUME NEW w \in Workers, NEW r \in Runs,
             ProviderFails(w, r) \/ Publish(w, r) \/ Refresh(w, r) \/ StatementFails(w, r)
      PROVE  run' = run
  BY <1>4 DEF ProviderFails, Publish, Refresh, StatementFails, rows
<1>5. ASSUME NEW w \in Workers, BeginRecovery(w) \/ EndRecovery(w) \/ Crash(w) \/ Restart(w)
      PROVE  run' = run
  BY <1>5 DEF BeginRecovery, EndRecovery, Crash, Restart, rows
<1>6. CASE Tick \/ UNCHANGED vars
  BY <1>6 DEF Tick, vars, rows
<1>7. "accepted" \in Statuses /\ "processing" \in Statuses /\ FinalStatuses \subseteq Statuses
  BY DEF Statuses, FinalStatuses
<1> QED
  BY <1>1, <1>2, <1>3, <1>4, <1>5, <1>6, <1>7 DEF Next, ProcessStep

(* One row written is one run shown otherwise. *)
LEMMA ShownMoves ==
  ASSUME NEW before \in [Runs -> Statuses], NEW r \in Runs, NEW status
  PROVE  Results([before EXCEPT ![r] = status]) = [Results(before) EXCEPT ![r] = Shown(status)]
<1> DEFINE after == [before EXCEPT ![r] = status]
<1>1. \A s \in Runs : after[s] = IF s = r THEN status ELSE before[s]
  OBVIOUS
<1> HIDE DEF after
<1>2. Results(after) = [Results(before) EXCEPT ![r] = Shown(status)]
  BY <1>1, Zenon DEF Results
<1> QED
  BY <1>2 DEF after

(* A row written as RowMoves has it accepts a run, ends one, or shows nothing. *)
LEMMA MoveIsProviderStep ==
  ASSUME NEW r \in Runs, NEW status, Results(run') = [Results(run) EXCEPT ![r] = Shown(status)],
         \/ run[r] = "absent" /\ status = "accepted"
         \/ run[r] \in {"accepted", "processing"} /\ status = "processing"
         \/ run[r] = "processing" /\ status \in FinalStatuses
  PROVE  Provider!Next \/ Results(run') = Results(run)
<1>1. Results(run)[r] = Shown(run[r])
  BY DEF Results
<1>2. CASE run[r] = "absent" /\ status = "accepted"
  <2>1. Results(run)[r] = "none" /\ Results(run') = [Results(run) EXCEPT ![r] = "active"]
    BY <1>1, <1>2 DEF Shown, FinalStatuses
  <2>2. Provider!Accept(r)
    BY <2>1 DEF Provider!Accept, Results, Shown
  <2> QED
    BY <2>2 DEF Provider!Next
<1>3. CASE run[r] \in {"accepted", "processing"} /\ status = "processing"
  <2>1. Shown(status) = Results(run)[r]
    BY <1>1, <1>3 DEF Shown, FinalStatuses
  <2> QED
    BY <2>1 DEF Results
<1>4. CASE run[r] = "processing" /\ status \in FinalStatuses
  <2>1. /\ Results(run)[r] = "active"
        /\ \E kind \in {"completed", "failed"} :
             Results(run') = [Results(run) EXCEPT ![r] = kind]
    BY <1>1, <1>4 DEF Shown, FinalStatuses
  <2>2. Provider!Finish(r)
    BY <2>1 DEF Provider!Finish, Results, Shown
  <2> QED
    BY <2>2 DEF Provider!Next
<1> QED
  BY <1>2, <1>3, <1>4

(* Every step with the invariant is a step of the contract or shows nothing. *)
LEMMA StepKeepsContract ==
  ASSUME IInv, ~TelemetryEnabled, [Next]_vars
  PROVE  Provider!Next \/ Results(run') = Results(run)
<1>1. CASE run' = run
  BY <1>1
<1>2. CASE run' # run
  <2>1. PICK r \in Runs, status \in Statuses :
          /\ run' = [run EXCEPT ![r] = status]
          /\ \/ run[r] = "absent" /\ status = "accepted"
             \/ run[r] \in {"accepted", "processing"} /\ status = "processing"
             \/ run[r] = "processing" /\ status \in FinalStatuses
    BY <1>2, RowMoves
  <2>2. Results(run') = [Results(run) EXCEPT ![r] = Shown(status)]
    BY <2>1, ShownMoves DEF IInv, TypeOK
  <2> QED
    BY <2>1, <2>2, MoveIsProviderStep
<1> QED
  BY <1>1, <1>2

(* The result of a run is given once and for all: llm-runner keeps what      *)
(* PipelineRuns relies on, with refreshes in time and no telemetry read that *)
(* could fail between the outcome and its announcement.                      *)
THEOREM ImplementsContract == ~TelemetryEnabled => (TimelySpec => KeepsContract)
<1> SUFFICES ASSUME ~TelemetryEnabled PROVE TimelySpec => KeepsContract
  OBVIOUS
<1>1. Init => Provider!Init
  BY DEF Init, Provider!Init
<1>2. IInv /\ [TimelyNext]_vars =>
        [Provider!Next]_[r \in Runs |->
          IF run[r] = "absent" THEN "none"
          ELSE IF run[r] \in FinalStatuses THEN run[r]
          ELSE "active"]
  BY StepKeepsContract DEF TimelyNext, Results, Shown
<1> QED
  BY <1>1, <1>2, Held, PTL DEF TimelySpec, KeepsContract, Provider!Spec
=============================================================================
