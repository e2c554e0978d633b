---------------------------- MODULE LiveCoverage ----------------------------
(***************************************************************************)
(* The live coverage of Telegram histories: the observer that opens,       *)
(* extends and closes windows of time (telegram/src/history/liveCoverage), *)
(* the queue that handles the updates of TDLib (ingestion/updateQueue), the *)
(* start and stop that drive both (ingestion/index), and the gap restore at *)
(* the end of start, which asks for the history before the open window      *)
(* (gap-restore).  A chat is covered *)
(* from its registration, or the start of the open window, to the end of   *)
(* that window: its messages there are taken to be stored.                 *)
(*                                                                         *)
(* Time is counted in half seconds.  Coverage is kept in whole seconds, and *)
(* a message carries the second it was sent in; it is sent inside a second, *)
(* while anything else may also happen exactly where one begins.           *)
(*                                                                         *)
(* Of the windows only the open ones are kept: the readiness of an owner    *)
(* (listLiveCoverage) asks for no other.  knownLiveChatIds only spares      *)
(* statements that would change nothing, and is left out.                  *)
(***************************************************************************)
EXTENDS Integers, Sequences, FiniteSets, SequencesExt

CONSTANTS
  Chats,
  OldChats,           \* the chats the account is in, and stored, from the start
  Restored,           \* the chats whose rule, by id, by type or for all, restores
  UpdateConcurrency,  \* updates handled at a time
  RefreshSeconds,     \* LIVE_COVERAGE_CHAT_REFRESH_MS
  LinkHoldsAtStart,   \* assumption: the connection is up while start runs
  ClosesSucceed,      \* assumption: the row of a window can be closed
  None,
  MaxClock,           \* bound: half seconds
  MaxMessages,        \* bound: messages sent
  MaxChanges,         \* bound: changes of the connection
  MaxFaults           \* bound: crashes and failing statements

ASSUME ConstantsAssumption ==
  /\ OldChats \subseteq Chats /\ Restored \subseteq Chats
  /\ UpdateConcurrency \in Nat \ {0} /\ RefreshSeconds \in Nat
  /\ {LinkHoldsAtStart, ClosesSucceed} \subseteq BOOLEAN
  /\ {MaxClock, MaxMessages, MaxChanges, MaxFaults} \subseteq Nat
  /\ None \notin Int

VARIABLES
  clock, link,
  joined,      \* when the account entered each chat
  posted,      \* the messages of the chats
  listed,      \* telegram_chats with a chat list
  stored,      \* telegram_messages
  windows,     \* open rows of telegram_history_live_windows
  eligible,    \* telegram_history_live_chats: eligibleFrom
  phase,       \* where start or stop is
  updates,     \* the update queue, with what is being handled
  ops,         \* the operations of the observer
  active,      \* activeWindowId; connected as long as there is one
  since,       \* connectedSince
  synced,      \* knownChatsSyncedAt
  plan,        \* runRestore: the chats still to ask for
  asked,       \* the requests of the restore that runs
  lost,        \* auxiliary: messages whose handling failed or was cut off
  refused,     \* auxiliary: the last window asked for could not be opened
  changes, faults

world == <<clock, link, joined, posted, changes>>
store == <<listed, stored, windows, eligible>>
observer == <<active, since, synced>>
process == <<phase, updates, ops>>
restore == <<plan, asked>>
vars == <<world, store, observer, process, restore, lost, refused, faults>>

Ceil(t) == (t + 1) \div 2
Second(t) == t \div 2

Larger(a, b) == IF a > b THEN a ELSE b

Messages == [chat : Chats, second : 0..Second(MaxClock), member : BOOLEAN, seen : BOOLEAN]

Phases ==
  {"down", "connecting", "syncing", "draining", "reconnecting", "registering", "waiting",
   "listing", "restoring", "running", "unsubscribed", "closing", "stopped"}

Windows == [id : Nat, start : Nat, end : Nat]

(* A request for the history of a chat before end, which may have failed.     *)
Asks == [chat : Chats, end : Nat, failed : BOOLEAN]

TypeOK ==
  /\ clock \in 0..MaxClock /\ link \in {"up", "down"}
  /\ joined \in [Chats -> (0..MaxClock) \cup {None}]
  /\ posted \subseteq Messages /\ stored \subseteq posted /\ lost \subseteq posted
  /\ listed \subseteq Chats
  /\ windows \subseteq Windows
  /\ eligible \in [Chats -> Nat \cup {None}]
  /\ phase \in Phases /\ plan \subseteq Chats /\ asked \subseteq Asks
  /\ active \in Nat \cup {None} /\ since \in Nat \cup {None} /\ synced \in Nat \cup {None}
  /\ active = None <=> since = None
  /\ refused \in BOOLEAN
  /\ changes \in 0..MaxChanges /\ faults \in 0..MaxFaults

Init ==
  /\ clock = 0 /\ link = "up"
  /\ joined = [c \in Chats |-> IF c \in OldChats THEN 0 ELSE None]
  /\ posted = {} /\ stored = {} /\ lost = {}
  /\ listed = OldChats
  /\ windows = {}
  /\ eligible = [c \in Chats |-> None]
  /\ phase = "down" /\ updates = <<>> /\ ops = <<>>
  /\ plan = {} /\ asked = {}
  /\ active = None /\ since = None /\ synced = None
  /\ refused = FALSE
  /\ changes = 0 /\ faults = 0

-----------------------------------------------------------------------------
(* The observer's operations *)

Operation(kind, at, chat, caller) == [kind |-> kind, at |-> at, chat |-> chat, caller |-> caller]

Connect(caller) == Operation("connect", clock, None, caller)
Disconnect(caller) == Operation("disconnect", None, None, caller)
Record(m) == Operation("record", m.second, m.chat, "nobody")
Sync(caller) == Operation("register", Ceil(clock), None, caller)
Extend == Operation("extend", clock, None, "nobody")
Wait == Operation("wait", None, None, "module")

-----------------------------------------------------------------------------
(* The update queue *)

Started(u) == {i \in DOMAIN u : u[i].started}

(* The first update that waits is started as soon as fewer than               *)
(* UpdateConcurrency are being handled; the handler of a connection state      *)
(* calls the observer at once, and ends when the observer is done with it.     *)
StartNext(u, o) ==
  LET waiting == DOMAIN u \ Started(u)
      i == CHOOSE j \in waiting : \A k \in waiting : j <= k
  IN  IF waiting = {} \/ Cardinality(Started(u)) >= UpdateConcurrency
      THEN updates' = u /\ ops' = o
      ELSE /\ updates' = [u EXCEPT ![i].started = TRUE]
           /\ ops' = IF u[i].kind # "connection" THEN o
                     ELSE Append(o, IF u[i].what = "up" THEN Connect("update")
                                    ELSE Disconnect("update"))

Update(kind, what) == [kind |-> kind, what |-> what, started |-> FALSE]

Listening == phase \notin {"down", "unsubscribed", "closing", "stopped"}

(* TDLib tells what it hears; without the subscription nobody listens.        *)
Receive(update) ==
  IF Listening
  THEN StartNext(Append(updates, update), ops)
  ELSE UNCHANGED <<updates, ops>>

EndHandling(i, o) == StartNext(RemoveAt(updates, i), o)

-----------------------------------------------------------------------------
(* Telegram *)

TimePasses ==
  /\ clock < MaxClock
  /\ clock' = clock + 1
  /\ UNCHANGED <<link, joined, posted, changes, store, observer, process, restore, lost, refused, faults>>

(* A message that is sent reaches TDLib if the account is in the chat and the *)
(* connection is up.                                                         *)
Post(c) ==
  LET member == joined[c] # None
      seen == member /\ link = "up" /\ Listening
      m == [chat |-> c, second |-> Second(clock), member |-> member, seen |-> seen]
  IN  /\ clock % 2 = 1
      /\ Cardinality(posted) < MaxMessages
      /\ m \notin posted
      /\ posted' = posted \cup {m}
      /\ IF seen THEN Receive(Update("message", m)) ELSE UNCHANGED <<updates, ops>>
      /\ UNCHANGED <<clock, link, joined, changes, store, observer, phase, restore, lost, refused, faults>>

Join(c) ==
  /\ joined[c] = None /\ link = "up"
  /\ joined' = [joined EXCEPT ![c] = clock]
  /\ Receive(Update("chat", c))
  /\ UNCHANGED <<clock, link, posted, changes, store, observer, phase, restore, lost, refused, faults>>

ConnectionChanges ==
  /\ changes < MaxChanges
  /\ LinkHoldsAtStart => phase = "running" \/ ~Listening
  /\ changes' = changes + 1
  /\ link' = IF link = "up" THEN "down" ELSE "up"
  /\ Receive(Update("connection", link'))
  /\ UNCHANGED <<clock, joined, posted, store, observer, phase, restore, lost, refused, faults>>

-----------------------------------------------------------------------------
(* Handlers of updates *)

Being(i, kind) == updates[i].started /\ updates[i].kind = kind

(* handleUpdateNewMessage: the message is stored, then reported to the        *)
(* observer without waiting for it.                                          *)
HandleMessage(i) ==
  /\ Being(i, "message")
  /\ stored' = stored \cup {updates[i].what}
  /\ EndHandling(i, Append(ops, Record(updates[i].what)))
  /\ UNCHANGED <<world, listed, windows, eligible, observer, phase, restore, lost, refused, faults>>

HandleChat(i) ==
  /\ Being(i, "chat")
  /\ listed' = listed \cup {updates[i].what}
  /\ EndHandling(i, ops)
  /\ UNCHANGED <<world, stored, windows, eligible, observer, phase, restore, lost, refused, faults>>

Fault ==
  /\ faults < MaxFaults
  /\ faults' = faults + 1

Unhandled(u) == {u[i].what : i \in {j \in DOMAIN u : u[j].kind = "message"}}

(* onError: the failure is logged and the update is gone.                    *)
HandlingFails(i) ==
  /\ Being(i, "message") \/ Being(i, "chat")
  /\ Fault
  /\ lost' = lost \cup Unhandled(<<updates[i]>>)
  /\ EndHandling(i, ops)
  /\ UNCHANGED <<world, store, observer, restore, phase, refused>>

-----------------------------------------------------------------------------
(* The observer *)

Current(kind) == ops # <<>> /\ Head(ops).kind = kind

(* The operation goes on with another statement.                             *)
Becomes(kind, at) ==
  /\ ops' = <<[Head(ops) EXCEPT !.kind = kind, !.at = at]>> \o Tail(ops)
  /\ UNCHANGED <<updates, phase>>

(* What start and stop do when the call they await returns.                  *)
Continue ==
  \/ phase = "connecting" /\ phase' = "syncing" /\ ops' = Tail(ops)
  \/ phase = "reconnecting" /\ phase' = "registering" /\ ops' = Append(Tail(ops), Sync("module"))
  \/ phase = "registering" /\ phase' = "waiting" /\ ops' = Append(Tail(ops), Wait)
  \/ phase = "waiting" /\ phase' = "listing" /\ ops' = Tail(ops)
  \/ phase = "closing" /\ phase' = "stopped" /\ ops' = Tail(ops)

(* The handler that waits for the operation: the first of its kind, as the    *)
(* operations are in the order of the handlers.                              *)
Answer(o) ==
  \E i \in DOMAIN updates : /\ Being(i, "connection")
                            /\ \A j \in 1..i - 1 : ~Being(j, "connection")
                            /\ EndHandling(i, o)

Return ==
  \/ Head(ops).caller = "module" /\ Continue /\ UNCHANGED updates
  \/ Head(ops).caller = "update" /\ Answer(Tail(ops)) /\ UNCHANGED phase
  \/ Head(ops).caller = "nobody" /\ ops' = Tail(ops) /\ UNCHANGED <<updates, phase>>

(* markConnected returns at once when there is a window.                     *)
AlreadyConnected ==
  /\ Current("connect") /\ active # None
  /\ Return
  /\ UNCHANGED <<world, store, observer, restore, lost, refused, faults>>

(* Mutant: the windows a crash has left open stay open. *)
RecoverNothing == windows' = windows

RecoverWindows == windows' = {}

(* recoverHistoryLiveWindows *)
Recover ==
  /\ Current("connect") /\ active = None
  /\ RecoverWindows
  /\ Becomes("open", Head(ops).at)
  /\ UNCHANGED <<world, listed, stored, eligible, observer, restore, lost, refused, faults>>

(* Mutant: a window starts with the second it is opened in. *)
OpensWithin(at) == Second(at)

OpensAt(at) == Ceil(at)

(* An id of no open window: the ids of closed ones are never asked for.      *)
FreshId == CHOOSE i \in 0..Cardinality(windows) : \A w \in windows : w.id # i

(* openHistoryLiveWindow *)
Open ==
  /\ Current("open")
  /\ LET start == OpensAt(Head(ops).at)
     IN  /\ windows' = windows \cup {[id |-> FreshId, start |-> start, end |-> start]}
         /\ since' = start
         /\ Becomes("register", start)
  /\ active' = FreshId
  /\ synced' = None
  /\ refused' = FALSE
  /\ UNCHANGED <<world, listed, stored, eligible, restore, lost, faults>>

(* registerHistoryLiveChats leaves the rows that exist.                      *)
RegisterChats(chats, from) ==
  eligible' = [c \in Chats |-> IF c \in chats /\ eligible[c] = None THEN from ELSE eligible[c]]

(* syncKnownChatsAt *)
Register ==
  /\ Current("register")
  /\ IF active = None
     THEN UNCHANGED <<eligible, synced>>
     ELSE RegisterChats(listed, Head(ops).at) /\ synced' = Head(ops).at
  /\ Return
  /\ UNCHANGED <<world, listed, stored, windows, active, since, restore, lost, refused, faults>>

(* recordLiveMessage *)
RecordLiveMessage ==
  /\ Current("record")
  /\ IF active = None
     THEN UNCHANGED eligible
     ELSE RegisterChats({Head(ops).chat}, Larger(Head(ops).at, since))
  /\ Return
  /\ UNCHANGED <<world, listed, stored, windows, observer, restore, lost, refused, faults>>

(* extendHistoryLiveWindow never takes an end back.                          *)
Extended(end) == {IF w.id = active /\ w.end < end THEN [w EXCEPT !.end = end] ELSE w : w \in windows}

(* refreshKnownChatsIfDue *)
RefreshDue(at) == synced = None \/ at - synced >= RefreshSeconds

(* tick *)
ExtendWindow ==
  /\ Current("extend") /\ active # None
  /\ windows' = Extended(Ceil(Head(ops).at))
  /\ IF RefreshDue(Ceil(Head(ops).at))
     THEN Becomes("register", Ceil(Head(ops).at))
     ELSE Return
  /\ UNCHANGED <<world, listed, stored, eligible, observer, restore, lost, refused, faults>>

ExtendNothing ==
  /\ Current("extend") /\ active = None
  /\ Return
  /\ UNCHANGED <<world, store, observer, restore, lost, refused, faults>>

(* Mutant: connectedSince outlives the window. *)
ForgetWindow == active' = None /\ synced' = None /\ UNCHANGED since

Forget == active' = None /\ synced' = None /\ since' = None

(* closeHistoryLiveWindow *)
CloseWindow == windows' = {w \in windows : w.id # active}

(* markDisconnected *)
Close ==
  /\ Current("disconnect")
  /\ CloseWindow
  /\ Forget
  /\ Return
  /\ UNCHANGED <<world, listed, stored, eligible, restore, lost, refused, faults>>

Waited ==
  /\ Current("wait")
  /\ Return
  /\ UNCHANGED <<world, store, observer, restore, lost, refused, faults>>

(* Mutant: what follows an operation that failed fails with it. *)
RestWaits(o) == <<[Head(o) EXCEPT !.kind = "failed"]>> \o Tail(o)

Rest(o) == Tail(o)

(* A statement of the operation fails: enqueue swallows the failure for what  *)
(* follows, and the caller logs it.  start and stop fail with the calls they  *)
(* make: that is the end of the process, as in Crash.                        *)
OpFails ==
  /\ ops # <<>> /\ Head(ops).caller # "module" /\ Head(ops).kind # "wait"
  /\ Current("connect") => active = None
  /\ Current("disconnect") => active # None /\ ~ClosesSucceed
  /\ Fault
  /\ refused' = (refused \/ Current("connect") \/ Current("open"))
  /\ IF Head(ops).caller = "update"
     THEN Answer(Rest(ops))
     ELSE ops' = Rest(ops) /\ UNCHANGED updates
  /\ UNCHANGED <<world, store, observer, phase, restore, lost>>

-----------------------------------------------------------------------------
(* start and stop *)

Call(operation, next) ==
  /\ ops' = Append(ops, operation)
  /\ phase' = next

(* The module subscribes to the updates, then start opens the first window.   *)
StartUp ==
  /\ phase = "down"
  /\ LinkHoldsAtStart => link = "up"
  /\ Call(Connect("module"), "connecting")
  /\ UNCHANGED <<world, store, observer, updates, restore, lost, refused, faults>>

SyncInitialChats ==
  /\ phase = "syncing"
  /\ listed' = listed \cup {c \in Chats : joined[c] # None}
  /\ phase' = "draining"
  /\ UNCHANGED <<world, stored, windows, eligible, observer, updates, ops, restore, lost, refused,
                 faults>>

(* updates.drain *)
Drained == updates = <<>>

Drain ==
  /\ phase = "draining" /\ Drained
  /\ Call(Connect("module"), "reconnecting")
  /\ UNCHANGED <<world, store, observer, updates, restore, lost, refused, faults>>

(* runRestore: listHistoryChats.                                             *)
ListChats ==
  /\ phase = "listing"
  /\ phase' = "restoring" /\ plan' = listed \cap Restored
  /\ UNCHANGED <<world, store, observer, updates, ops, asked, lost, refused, faults>>

(* Mutant: the window is not looked at. *)
BoundarySinceKnown(c) == IF windows = {} THEN {} ELSE {eligible[c]} \ {None}

(* readHistoryLiveBoundary: none without an open window or a registration.    *)
Boundary(c) ==
  IF eligible[c] = None THEN {} ELSE {Larger(w.start, eligible[c]) : w \in windows}

(* The history of a chat is asked for up to its boundary, unless there is      *)
(* none; a request that fails is counted and the next chat has its turn.  How  *)
(* far back the rule lets the request reach is left out.                      *)
AskFor(c) ==
  /\ phase = "restoring" /\ c \in plan
  /\ plan' = plan \ {c}
  /\ \E failed \in BOOLEAN :
       /\ asked' = asked \cup {[chat |-> c, end |-> end, failed |-> failed] : end \in Boundary(c)}
       /\ IF failed THEN Boundary(c) # {} /\ Fault ELSE UNCHANGED faults
  /\ UNCHANGED <<world, store, observer, process, lost, refused>>

EndRestore ==
  /\ phase = "restoring" /\ plan = {}
  /\ phase' = "running" /\ asked' = {}
  /\ UNCHANGED <<world, store, observer, updates, ops, plan, lost, refused, faults>>

(* One tick is in the queue at a time, which only bounds the queue.          *)
LiveTick ==
  /\ phase = "running"
  /\ \A i \in DOMAIN ops : ops[i].kind # "extend"
  /\ ops' = Append(ops, Extend)
  /\ UNCHANGED <<world, store, observer, updates, phase, restore, lost, refused, faults>>

Stop ==
  /\ phase = "running"
  /\ phase' = "unsubscribed"
  /\ UNCHANGED <<world, store, observer, updates, ops, restore, lost, refused, faults>>

StopDrained ==
  /\ phase = "unsubscribed" /\ Drained
  /\ Call(Disconnect("module"), "closing")
  /\ UNCHANGED <<world, store, observer, updates, restore, lost, refused, faults>>

ClearMemory ==
  /\ phase' = "down" /\ updates' = <<>> /\ ops' = <<>>
  /\ active' = None /\ since' = None /\ synced' = None
  /\ plan' = {} /\ asked' = {}
  /\ refused' = FALSE

Exit ==
  /\ phase = "stopped"
  /\ ClearMemory
  /\ UNCHANGED <<world, store, lost, faults>>

Crash ==
  /\ phase # "down" /\ Fault
  /\ ClearMemory
  /\ lost' = lost \cup Unhandled(updates)
  /\ UNCHANGED <<world, store>>

Observes ==
  \/ AlreadyConnected \/ Recover \/ Open \/ Register \/ RecordLiveMessage
  \/ ExtendWindow \/ ExtendNothing \/ Close \/ Waited

Handles == \E i \in DOMAIN updates : HandleMessage(i) \/ HandleChat(i)

Starts ==
  SyncInitialChats \/ Drain \/ ListChats \/ (\E c \in Chats : AskFor(c)) \/ EndRestore \/ StopDrained

Next ==
  \/ TimePasses \/ ConnectionChanges
  \/ \E c \in Chats : Post(c) \/ Join(c)
  \/ Handles \/ \E i \in DOMAIN updates : HandlingFails(i)
  \/ Observes \/ OpFails
  \/ StartUp \/ Starts \/ LiveTick \/ Stop \/ Exit \/ Crash

Spec == Init /\ [][Next]_vars

(* Handlers and statements end, start and stop go on, and the timer keeps     *)
(* ticking; nobody has to start or stop the program, nor Telegram to send.    *)
Fairness ==
  /\ WF_vars(Observes) /\ WF_vars(Handles) /\ WF_vars(Starts) /\ WF_vars(LiveTick)

FairSpec == Spec /\ Fairness

-----------------------------------------------------------------------------
(* Properties *)

Quiet == updates = <<>> /\ ops = <<>>

(* listLiveCoverage: what the readiness of an owner takes for covered.        *)
LiveCovered(chat, second) ==
  /\ eligible[chat] # None
  /\ \E w \in windows : second \in Larger(w.start, eligible[chat])..w.end - 1

(* While the program runs and has nothing left to handle, a message sent to a *)
(* chat of the account in a covered second is stored, unless its handling     *)
(* failed or a crash cut it off: not what was sent while the program or the   *)
(* connection was down.                                                      *)
LiveMeansStored ==
  phase = "running" /\ Quiet =>
    \A m \in posted \ (stored \cup lost) : m.member => ~LiveCovered(m.chat, m.second)

(* What the program did not see of the chats it knows it asks for, when it has  *)
(* started: every message that is neither stored nor on its way was sent before *)
(* the end of the range asked for its chat, up to the window that was open then *)
(* ("The selected boundary is the start of the live coverage segment",          *)
(* telegramHistoryGapRestore.md:306), unless that request failed.               *)
RestoreMeetsLive ==
  [][EndRestore =>
       \A m \in posted \ (stored \cup lost \cup Unhandled(updates)) :
         m.member /\ m.chat \in OldChats \cap Restored =>
           \E request \in asked : request.chat = m.chat /\ (request.failed \/ m.second < request.end)]_vars

(* At most one window is open, and it is the one the observer has in hand if it *)
(* has any: what a crash left open is closed before another is opened.  After   *)
(* stop none is open, and no update or operation is left that could open one.   *)
WindowsInHand ==
  /\ \A u, w \in windows : u = w
  /\ active # None => \E w \in windows : w.id = active
  /\ phase = "stopped" => Quiet /\ windows = {}

Served == phase = "running" /\ link = "up" /\ ~refused

(* As long as the program runs with the connection up, the open window        *)
(* reaches the present again and again, whatever operation failed before:     *)
(* unless it is the opening of the window, which the next change of the       *)
(* connection repeats.                                                       *)
CoverageResumes ==
  Served ~> \/ ~Served
            \/ \E w \in windows : w.id = active /\ w.end >= Second(clock)
=============================================================================
