------------------------ MODULE LiveCoverageProofs ------------------------
(***************************************************************************)
(* Theorems about LiveCoverage, for any chats and bounds: which windows are  *)
(* open and in whose hands, whatever the connection does while start runs;   *)
(* and, with the connection there while it does, that what a window covers   *)
(* is stored and what none covers is asked for.                             *)
(***************************************************************************)
EXTENDS LiveCoverage, SequenceTheorems, FiniteSetTheorems, WellFoundedInduction, TLAPS

-----------------------------------------------------------------------------
(* What the queues hold *)

Callers == {"module", "update", "nobody"}

Operations ==
  [kind : {"disconnect", "wait"}, at : {None}, chat : Chats \cup {None}, caller : Callers]
    \cup [kind : {"connect", "open", "register", "record", "extend"}, at : Nat,
          chat : Chats \cup {None}, caller : Callers]

UpdatesOf(messages) ==
  [kind : {"message"}, what : messages, started : BOOLEAN]
    \cup [kind : {"chat"}, what : Chats, started : BOOLEAN]
    \cup [kind : {"connection"}, what : {"up", "down"}, started : BOOLEAN]

(* The phases in which start or stop waits for the observer. *)
Awaiting == {"connecting", "reconnecting", "registering", "waiting", "closing"}

(* The operations o fit a phase ph with the open windows w and the window a   *)
(* in hand: an opening is under way only at the head and with no window open; *)
(* start and stop wait for one operation at a time; the one start waits for   *)
(* first is served before any other, and the one stop waits for is the last.  *)
Fits(o, ph, w, a) ==
  /\ o \in Seq(Operations)
  /\ \A i \in DOMAIN o : o[i].kind = "open" => i = 1 /\ w = {} /\ a = None
  /\ \A i, j \in DOMAIN o :
       o[i].caller = "module" /\ o[j].caller = "module" => i = j /\ ph \in Awaiting
  /\ ph = "connecting" =>
       /\ o # <<>> /\ Head(o).caller = "module"
       /\ \/ Head(o).kind \in {"connect", "open"} /\ a = None
          \/ Head(o).kind = "register" /\ a # None
  /\ ph = "closing" =>
       \A i \in DOMAIN o : o[i].caller = "module" => i = Len(o) /\ o[i].kind = "disconnect"
  /\ ph \in {"stopped", "down"} => o = <<>>

(* No operation of start or stop, and no opening, among the operations o. *)
Plain(o) ==
  /\ o \in Seq(Operations)
  /\ \A i \in DOMAIN o : o[i].kind # "open" /\ o[i].caller # "module"

(* What follows the first operation of a list is the list, one place ahead. *)
LEMMA TailAhead ==
  ASSUME NEW S, NEW s \in Seq(S), s # <<>>
  PROVE  /\ Tail(s) \in Seq(S) /\ Len(s) \in Nat /\ Len(Tail(s)) = Len(s) - 1
         /\ 1 \in DOMAIN s /\ Head(s) = s[1]
         /\ \A i \in DOMAIN Tail(s) : i + 1 \in DOMAIN s /\ Tail(s)[i] = s[i + 1] /\ i # 0
<1>1. DOMAIN s = 1..Len(s) /\ Len(s) \in Nat \ {0}
  BY LenProperties, EmptySeq
<1>2. Tail(s) \in Seq(S) /\ Len(Tail(s)) = Len(s) - 1
      /\ \A i \in 1..Len(Tail(s)) : Tail(s)[i] = s[i + 1]
  BY HeadTailProperties
<1>3. DOMAIN Tail(s) = 1..Len(Tail(s))
  BY <1>2, LenProperties
<1> QED
  BY <1>1, <1>2, <1>3

(* An appended element is the last, the others stay where they are. *)
LEMMA AppendLast ==
  ASSUME NEW S, NEW s \in Seq(S), NEW e \in S
  PROVE  /\ Append(s, e) \in Seq(S) /\ Len(s) \in Nat /\ Append(s, e) # <<>>
         /\ DOMAIN s = 1..Len(s) /\ Len(Append(s, e)) = Len(s) + 1
         /\ DOMAIN Append(s, e) = 1..Len(s) + 1
         /\ \A i \in DOMAIN s : Append(s, e)[i] = s[i]
         /\ Append(s, e)[Len(s) + 1] = e
         /\ s # <<>> => Head(Append(s, e)) = Head(s)
<1>1. Append(s, e) \in Seq(S) /\ Append(s, e) # <<>> /\ Len(Append(s, e)) = Len(s) + 1
      /\ \A i \in 1..Len(s) : Append(s, e)[i] = s[i]
      /\ Append(s, e)[Len(s) + 1] = e
  BY AppendProperties
<1>2. DOMAIN s = 1..Len(s) /\ Len(s) \in Nat
  BY LenProperties
<1>3. DOMAIN Append(s, e) = 1..Len(Append(s, e))
  BY <1>1, LenProperties
<1>4. ASSUME s # <<>> PROVE Head(Append(s, e)) = Head(s)
  BY <1>1, <1>2, <1>4, TailAhead
<1> QED
  BY <1>1, <1>2, <1>3, <1>4

(* The other elements of a sequence from which one is removed keep their order. *)
LEMMA Removed ==
  ASSUME NEW S, NEW s \in Seq(S), NEW i \in DOMAIN s
  PROVE  /\ DOMAIN s = 1..Len(s) /\ Len(s) \in Nat
         /\ RemoveAt(s, i) \in Seq(S) /\ DOMAIN RemoveAt(s, i) = 1..Len(s) - 1
         /\ \A k \in 1..Len(s) - 1 :
              /\ k < i => RemoveAt(s, i)[k] = s[k]
              /\ k >= i => RemoveAt(s, i)[k] = s[k + 1]
<1> DEFINE front == SubSeq(s, 1, i - 1)
           back == SubSeq(s, i + 1, Len(s))
<1>1. DOMAIN s = 1..Len(s) /\ Len(s) \in Nat /\ \A k \in 1..Len(s) : s[k] \in S
  BY LenProperties, ElementOfSeq
<1>2. i \in 1..Len(s)
  BY <1>1
<1>3. front \in Seq(S) /\ Len(front) = i - 1 /\ \A k \in 1..i - 1 : front[k] = s[k]
  <2>1. /\ front \in Seq(S)
        /\ Len(front) = IF 1 <= i - 1 THEN i - 1 - 1 + 1 ELSE 0
        /\ \A k \in 1..i - 1 - 1 + 1 : front[k] = s[1 + k - 1]
    BY <1>1, <1>2, SubSeqProperties
  <2> HIDE DEF front
  <2> QED
    BY <1>1, <1>2, <2>1
<1>4. /\ back \in Seq(S) /\ Len(back) = Len(s) - i
      /\ \A k \in 1..Len(s) - i : back[k] = s[i + k]
  <2>1. /\ back \in Seq(S)
        /\ Len(back) = IF i + 1 <= Len(s) THEN Len(s) - (i + 1) + 1 ELSE 0
        /\ \A k \in 1..Len(s) - (i + 1) + 1 : back[k] = s[i + 1 + k - 1]
    BY <1>1, <1>2, SubSeqProperties
  <2> HIDE DEF back
  <2>2. Len(back) = Len(s) - i
    BY <1>1, <1>2, <2>1
  <2>3. ASSUME NEW k \in 1..Len(s) - i PROVE back[k] = s[i + k]
    <3>1. k \in 1..Len(s) - (i + 1) + 1 /\ i + 1 + k - 1 = i + k
      BY <1>1, <1>2
    <3> QED
      BY <2>1, <3>1
  <2> QED
    BY <2>1, <2>2, <2>3
<1>5. /\ front \o back \in Seq(S) /\ Len(front \o back) = Len(front) + Len(back)
      /\ \A k \in 1..Len(front) + Len(back) :
           (front \o back)[k] = IF k <= Len(front) THEN front[k] ELSE back[k - Len(front)]
  BY <1>3, <1>4, ConcatProperties
<1>6. RemoveAt(s, i) = front \o back
  BY DEF RemoveAt
<1> HIDE DEF front, back
<1>7. DOMAIN RemoveAt(s, i) = 1..Len(s) - 1
  <2>1. DOMAIN (front \o back) = 1..Len(front \o back)
    BY <1>5, LenProperties
  <2> QED
    BY <1>1, <1>2, <1>3, <1>4, <1>5, <1>6, <2>1
<1>8. ASSUME NEW k \in 1..Len(s) - 1, k < i PROVE RemoveAt(s, i)[k] = s[k]
  <2>1. k \in 1..Len(front) + Len(back) /\ k <= Len(front) /\ k \in 1..i - 1
    BY <1>1, <1>2, <1>3, <1>4, <1>8
  <2> QED
    BY <1>3, <1>5, <1>6, <2>1
<1>9. ASSUME NEW k \in 1..Len(s) - 1, k >= i PROVE RemoveAt(s, i)[k] = s[k + 1]
  <2>1. k \in 1..Len(front) + Len(back) /\ ~(k <= Len(front)) /\ k - Len(front) = k - (i - 1)
    BY <1>1, <1>2, <1>3, <1>4, <1>9
  <2>2. k - (i - 1) \in 1..Len(s) - i /\ i + (k - (i - 1)) = k + 1
    BY <1>1, <1>2, <1>9
  <2>3. RemoveAt(s, i)[k] = back[k - (i - 1)]
    BY <1>5, <1>6, <2>1
  <2>4. back[k - (i - 1)] = s[i + (k - (i - 1))]
    BY <1>4, <2>2, Zenon
  <2> QED
    BY <2>2, <2>3, <2>4
<1> QED
  BY <1>1, <1>5, <1>6, <1>7, <1>8, <1>9

(* An operation of nobody, or of a handler, fits behind the others, as long   *)
(* as updates are handled.                                                    *)
LEMMA AppendFits ==
  ASSUME NEW o, NEW ph, NEW w, NEW a, Fits(o, ph, w, a), ph \notin {"closing", "stopped", "down"},
         NEW p \in Operations, p.kind # "open", p.caller # "module"
  PROVE  Fits(Append(o, p), ph, w, a)
<1>1. o \in Seq(Operations)
  BY DEF Fits
<1>2. /\ Append(o, p) \in Seq(Operations) /\ Len(o) \in Nat /\ Append(o, p) # <<>>
      /\ DOMAIN o = 1..Len(o) /\ DOMAIN Append(o, p) = 1..Len(o) + 1
      /\ \A i \in DOMAIN o : Append(o, p)[i] = o[i]
      /\ Append(o, p)[Len(o) + 1] = p
      /\ o # <<>> => Head(Append(o, p)) = Head(o)
  BY <1>1, AppendLast
<1>3. ASSUME NEW i \in DOMAIN Append(o, p),
             Append(o, p)[i].kind = "open" \/ Append(o, p)[i].caller = "module"
      PROVE  i \in DOMAIN o /\ Append(o, p)[i] = o[i]
  BY <1>2, <1>3
<1> QED
  BY <1>2, <1>3 DEF Fits

(* The list fits without its first operation, if that was none of start's or  *)
(* stop's, whatever it did to the windows.                                    *)
LEMMA TailFits ==
  ASSUME NEW o, NEW ph, NEW w, NEW a, Fits(o, ph, w, a), o # <<>>, Head(o).caller # "module",
         NEW w2, NEW a2
  PROVE  Fits(Tail(o), ph, w2, a2)
<1>1. /\ Tail(o) \in Seq(Operations) /\ Len(o) \in Nat /\ Len(Tail(o)) = Len(o) - 1
      /\ 1 \in DOMAIN o /\ Head(o) = o[1]
      /\ \A i \in DOMAIN Tail(o) : i + 1 \in DOMAIN o /\ Tail(o)[i] = o[i + 1] /\ i # 0
  BY TailAhead DEF Fits
<1>2. DOMAIN Tail(o) \subseteq Nat
  BY <1>1, LenProperties
<1> QED
  BY <1>1, <1>2 DEF Fits

(* Behind the operation start or stop waits for there is no other of theirs. *)
LEMMA TailPlain ==
  ASSUME NEW o, NEW ph, NEW w, NEW a, Fits(o, ph, w, a), o # <<>>, Head(o).caller = "module"
  PROVE  Plain(Tail(o)) /\ ph \in Awaiting /\ (ph = "closing" => Tail(o) = <<>>)
<1>1. /\ Tail(o) \in Seq(Operations) /\ Len(o) \in Nat /\ Len(Tail(o)) = Len(o) - 1
      /\ 1 \in DOMAIN o /\ Head(o) = o[1]
      /\ \A i \in DOMAIN Tail(o) : i + 1 \in DOMAIN o /\ Tail(o)[i] = o[i + 1] /\ i # 0
  BY TailAhead DEF Fits
<1>2. DOMAIN Tail(o) \subseteq Nat
  BY <1>1, LenProperties
<1>3. Plain(Tail(o)) /\ ph \in Awaiting
  BY <1>1, <1>2 DEF Fits, Plain
<1>4. ASSUME ph = "closing" PROVE Tail(o) = <<>>
  <2>1. Len(o) = 1
    BY <1>1, <1>4 DEF Fits
  <2> QED
    BY <1>1, <2>1, EmptySeq
<1> QED
  BY <1>3, <1>4

(* Plain operations fit every phase in which nobody waits for one.            *)
LEMMA PlainFits ==
  ASSUME NEW o, Plain(o), NEW ph, ph \notin {"connecting", "stopped", "down"}, NEW w, NEW a
  PROVE  Fits(o, ph, w, a)
BY DEF Fits, Plain

(* Where nobody waits, start or stop may wait for one more operation.          *)
LEMMA CallFits ==
  ASSUME NEW o, NEW before, before \notin Awaiting, NEW w, NEW a, Fits(o, before, w, a),
         NEW ph \in Awaiting \ {"connecting"},
         NEW p \in Operations, p.kind # "open", ph = "closing" => p.kind = "disconnect"
  PROVE  Fits(Append(o, p), ph, w, a)
<1>1. o \in Seq(Operations)
  BY DEF Fits
<1>2. /\ Append(o, p) \in Seq(Operations) /\ Len(o) \in Nat
      /\ DOMAIN o = 1..Len(o) /\ DOMAIN Append(o, p) = 1..Len(o) + 1
      /\ Len(Append(o, p)) = Len(o) + 1
      /\ \A i \in DOMAIN o : Append(o, p)[i] = o[i]
      /\ Append(o, p)[Len(o) + 1] = p
  BY <1>1, AppendLast
<1>3. ASSUME NEW i \in DOMAIN Append(o, p), Append(o, p)[i].caller = "module"
      PROVE  i = Len(o) + 1
  <2>1. ASSUME i \in DOMAIN o PROVE FALSE
    BY <1>2, <1>3, <2>1 DEF Fits
  <2> QED
    BY <1>2, <2>1
<1>4. ASSUME NEW i \in DOMAIN Append(o, p), Append(o, p)[i].kind = "open"
      PROVE  i = 1 /\ w = {} /\ a = None
  <2>1. i \in DOMAIN o
    BY <1>2, <1>4
  <2> QED
    BY <1>2, <1>4, <2>1 DEF Fits
<1>5. ph # "stopped" /\ ph # "down" /\ ph # "connecting"
  BY DEF Awaiting
<1> QED
  BY <1>2, <1>3, <1>4, <1>5 DEF Fits

(* The same right after an operation start or stop has waited for. *)
LEMMA NextCallFits ==
  ASSUME NEW o, Plain(o), NEW w, NEW a, NEW ph \in Awaiting \ {"connecting"},
         NEW p \in Operations, p.kind # "open", ph = "closing" => p.kind = "disconnect"
  PROVE  Fits(Append(o, p), ph, w, a)
<1>1. Fits(o, "running", w, a) /\ "running" \notin Awaiting
  BY PlainFits DEF Awaiting
<1> QED
  BY <1>1, CallFits

-----------------------------------------------------------------------------
(* The invariant *)

(* What the proofs of the types and of the windows rest on: the queues hold    *)
(* what they should; there is at most one open window and, but for the start,  *)
(* which may find one left by a crash, it is the one in hand; updates are       *)
(* handled before the last operation of stop, which closes the window.         *)
Hand ==
  /\ \A u, w \in windows : u = w
  /\ active # None => \E w \in windows : w.id = active
  /\ phase \notin {"down", "connecting"} /\ windows # {} => active # None
  /\ phase \in {"closing", "stopped", "down"} => updates = <<>>
  /\ phase = "stopped" => windows = {}
  /\ phase = "down" => active = None

Queues == updates \in Seq(UpdatesOf(posted)) /\ Fits(ops, phase, windows, active)

IInv == TypeOK /\ Queues /\ Hand

(* The numbers are natural. *)
LEMMA Numbers ==
  ASSUME TypeOK
  PROVE  /\ clock \in Nat /\ MaxClock \in Nat /\ Ceil(clock) \in Nat
         /\ Second(MaxClock) \in Nat /\ MaxChanges \in Nat /\ MaxFaults \in Nat
         /\ \A m \in posted : m.second \in Nat /\ m.chat \in Chats
         /\ None \notin Nat
BY ConstantsAssumption DEF TypeOK, Ceil, Second, Messages

(* Faults are counted up to their bound. *)
LEMMA FaultTyped ==
  ASSUME TypeOK, Fault
  PROVE  faults' \in 0..MaxFaults
BY Numbers DEF TypeOK, Fault

(* What the module, a handler or a message asks of the observer. *)
LEMMA OperationsTyped ==
  ASSUME TypeOK
  PROVE  /\ \A caller \in Callers :
              /\ Connect(caller) \in Operations /\ Connect(caller).kind = "connect"
              /\ Disconnect(caller) \in Operations /\ Disconnect(caller).kind = "disconnect"
              /\ Sync(caller) \in Operations /\ Sync(caller).kind = "register"
              /\ Connect(caller).caller = caller /\ Disconnect(caller).caller = caller
         /\ \A m \in posted : Record(m) \in Operations /\ Record(m).kind = "record"
                              /\ Record(m).caller = "nobody"
         /\ Extend \in Operations /\ Extend.kind = "extend" /\ Extend.caller = "nobody"
         /\ Wait \in Operations /\ Wait.kind = "wait"
BY Numbers DEF Connect, Disconnect, Sync, Record, Extend, Wait, Operation, Operations, Callers

(* What happens in Telegram is an update once TDLib tells it. *)
LEMMA UpdatesTyped ==
  ASSUME NEW P
  PROVE  /\ \A m \in P : Update("message", m) \in UpdatesOf(P)
         /\ \A c \in Chats : Update("chat", c) \in UpdatesOf(P)
         /\ \A l \in {"up", "down"} : Update("connection", l) \in UpdatesOf(P)
BY DEF Update, UpdatesOf

(* A started update is the same update. *)
LEMMA StartedTyped ==
  ASSUME NEW P, NEW u \in Seq(UpdatesOf(P)), NEW i
  PROVE  [u EXCEPT ![i].started = TRUE] \in Seq(UpdatesOf(P))
<1>1. CASE i \in DOMAIN u
  <2>1. i \in 1..Len(u) /\ u[i] \in UpdatesOf(P)
    BY <1>1, LenProperties, ElementOfSeq
  <2>2. [u[i] EXCEPT !.started = TRUE] \in UpdatesOf(P)
    BY <2>1 DEF UpdatesOf
  <2> QED
    BY <2>1, <2>2, ExceptSeq
<1>2. CASE i \notin DOMAIN u
  <2>1. [u EXCEPT ![i].started = TRUE] = u
    BY <1>2, LenProperties
  <2> QED
    BY <2>1
<1> QED
  BY <1>1, <1>2

(* Starting the handler of an update keeps both queues in shape. *)
LEMMA StartNextFits ==
  ASSUME TypeOK, NEW P, NEW u \in Seq(UpdatesOf(P)), NEW o, NEW ph, NEW w, NEW a, Fits(o, ph, w, a),
         ph \notin {"closing", "stopped", "down"}, StartNext(u, o)
  PROVE  updates' \in Seq(UpdatesOf(P)) /\ Fits(ops', ph, w, a)
<1> DEFINE waiting == DOMAIN u \ Started(u)
           n == CHOOSE j \in waiting : \A k \in waiting : j <= k
<1>1. CASE updates' = u /\ ops' = o
  BY <1>1
<1>2. CASE /\ updates' = [u EXCEPT ![n].started = TRUE]
           /\ \/ ops' = o
              \/ ops' = Append(o, Connect("update"))
              \/ ops' = Append(o, Disconnect("update"))
  <2>1. "update" \in Callers /\ "update" # "module"
    BY DEF Callers
  <2>2. Connect("update") \in Operations /\ Connect("update").kind # "open"
        /\ Connect("update").caller # "module"
    BY <2>1, OperationsTyped
  <2>3. Disconnect("update") \in Operations /\ Disconnect("update").kind # "open"
        /\ Disconnect("update").caller # "module"
    BY <2>1, OperationsTyped
  <2>4. Fits(ops', ph, w, a)
    BY <1>2, <2>2, <2>3, AppendFits
  <2>5. updates' \in Seq(UpdatesOf(P))
    BY <1>2, StartedTyped
  <2> QED
    BY <2>4, <2>5
<1> QED
  BY <1>1, <1>2, Zenon DEF StartNext

(* What TDLib tells is queued as long as somebody listens. *)
LEMMA ReceiveFits ==
  ASSUME IInv, NEW P, updates \in Seq(UpdatesOf(P)), NEW x \in UpdatesOf(P), Receive(x)
  PROVE  /\ updates' \in Seq(UpdatesOf(P)) /\ Fits(ops', phase, windows, active)
         /\ phase \in {"closing", "stopped", "down"} => updates' = <<>>
<1>1. CASE Listening
  <2>1. phase \notin {"closing", "stopped", "down"}
    BY <1>1 DEF Listening
  <2>2. Append(updates, x) \in Seq(UpdatesOf(P))
    BY AppendProperties
  <2> QED
    BY <1>1, <2>1, <2>2, StartNextFits DEF Receive, IInv, Queues
<1>2. CASE ~Listening
  BY <1>2 DEF Receive, IInv, Queues, Hand
<1> QED
  BY <1>1, <1>2

(* The update whose handling has ended is gone, the others stay.              *)
LEMMA EndHandlingFits ==
  ASSUME IInv, NEW i \in DOMAIN updates, NEW o, NEW w, NEW a, Fits(o, phase, w, a), EndHandling(i, o)
  PROVE  /\ updates' \in Seq(UpdatesOf(posted)) /\ Fits(ops', phase, w, a)
         /\ phase \notin {"closing", "stopped", "down"}
<1>1. updates \in Seq(UpdatesOf(posted)) /\ DOMAIN updates = 1..Len(updates) /\ Len(updates) \in Nat
  BY LenProperties DEF IInv, Queues
<1>2. phase \notin {"closing", "stopped", "down"}
  <2>1. updates # <<>>
    BY <1>1, EmptySeq
  <2> QED
    BY <2>1 DEF IInv, Hand
<1>3. RemoveAt(updates, i) \in Seq(UpdatesOf(posted))
  BY <1>1, Removed
<1> QED
  BY <1>2, <1>3, StartNextFits DEF EndHandling, IInv

(* The handler that waited for the operation has ended. *)
LEMMA AnswerFits ==
  ASSUME IInv, NEW o, NEW w, NEW a, Fits(o, phase, w, a), Answer(o)
  PROVE  /\ updates' \in Seq(UpdatesOf(posted)) /\ Fits(ops', phase, w, a)
         /\ phase \notin {"closing", "stopped", "down"}
<1>1. PICK i \in DOMAIN updates : EndHandling(i, o)
  BY DEF Answer
<1> QED
  BY <1>1, EndHandlingFits

(* Who waited for the first operation goes on: start and stop to their next   *)
(* phase, and to the end only when that operation was the last disconnect.    *)
LEMMA ReturnFits ==
  ASSUME IInv, ops # <<>>, Return, NEW w, NEW a
  PROVE  /\ updates' \in Seq(UpdatesOf(posted)) /\ Fits(ops', phase', w, a)
         /\ phase' = "stopped" => phase \in {"closing", "stopped"}
         /\ phase = "closing" /\ phase' = "stopped" => Head(ops).kind = "disconnect"
         /\ phase' \in {"closing", "stopped", "down"} => updates' = <<>>
         /\ phase' # "connecting" /\ phase' \in Phases
         /\ phase' = "down" <=> phase = "down"
         /\ phase = "connecting" => Head(ops).kind \in {"connect", "open", "register"}
<1> DEFINE Goal == /\ updates' \in Seq(UpdatesOf(posted)) /\ Fits(ops', phase', w, a)
                   /\ phase' = "stopped" => phase \in {"closing", "stopped"}
                   /\ phase = "closing" /\ phase' = "stopped" => Head(ops).kind = "disconnect"
                   /\ phase' \in {"closing", "stopped", "down"} => updates' = <<>>
                   /\ phase' # "connecting" /\ phase' \in Phases
                   /\ phase' = "down" <=> phase = "down"
                   /\ phase = "connecting" => Head(ops).kind \in {"connect", "open", "register"}
<1>1. Fits(ops, phase, windows, active) /\ updates \in Seq(UpdatesOf(posted)) /\ phase \in Phases
  BY DEF IInv, Queues, TypeOK
<1>2. Head(ops) = ops[1] /\ 1 \in DOMAIN ops /\ Head(ops) \in Operations
  BY <1>1, TailAhead, HeadTailProperties DEF Fits
<1>3. Head(ops).caller \in Callers
  BY <1>2 DEF Operations
<1>4. phase = "connecting" => Head(ops).caller = "module"
                              /\ Head(ops).kind \in {"connect", "open", "register"}
  BY <1>1 DEF Fits
<1>5. CASE Head(ops).caller = "module"
  <2>1. Continue /\ UNCHANGED updates
    BY <1>5 DEF Return
  <2>2. Plain(Tail(ops)) /\ phase \in Awaiting /\ (phase = "closing" => Tail(ops) = <<>>)
    BY <1>1, <1>5, TailPlain
  <2>3. Sync("module") \in Operations /\ Sync("module").kind = "register"
        /\ Wait \in Operations /\ Wait.kind = "wait"
    BY OperationsTyped DEF IInv, Callers
  <2>4. CASE phase = "connecting"
    <3>1. phase' = "syncing" /\ ops' = Tail(ops)
      BY <2>1, <2>4 DEF Continue
    <3>2. Fits(ops', phase', w, a)
      BY <2>2, <3>1, PlainFits
    <3> QED
      BY <1>1, <1>4, <2>1, <2>4, <3>1, <3>2 DEF Phases
  <2>5. CASE phase = "reconnecting"
    <3>1. phase' = "registering" /\ ops' = Append(Tail(ops), Sync("module"))
      BY <2>1, <2>5 DEF Continue
    <3>2. Fits(ops', phase', w, a)
      BY <2>2, <2>3, <3>1, NextCallFits DEF Awaiting
    <3> QED
      BY <1>1, <2>1, <2>5, <3>1, <3>2 DEF Phases
  <2>6. CASE phase = "registering"
    <3>1. phase' = "waiting" /\ ops' = Append(Tail(ops), Wait)
      BY <2>1, <2>6 DEF Continue
    <3>2. Fits(ops', phase', w, a)
      BY <2>2, <2>3, <3>1, NextCallFits DEF Awaiting
    <3> QED
      BY <1>1, <2>1, <2>6, <3>1, <3>2 DEF Phases
  <2>7. CASE phase = "waiting"
    <3>1. phase' = "listing" /\ ops' = Tail(ops)
      BY <2>1, <2>7 DEF Continue
    <3>2. Fits(ops', phase', w, a)
      BY <2>2, <3>1, PlainFits
    <3> QED
      BY <1>1, <2>1, <2>7, <3>1, <3>2 DEF Phases
  <2>8. CASE phase = "closing"
    <3>1. phase' = "stopped" /\ ops' = <<>>
      BY <2>1, <2>2, <2>8 DEF Continue
    <3>2. Fits(<<>>, "stopped", w, a)
      BY EmptySeq DEF Fits
    <3>3. Head(ops).kind = "disconnect"
      BY <1>1, <1>2, <1>5, <2>8 DEF Fits
    <3>4. updates' = <<>>
      BY <2>1, <2>8 DEF IInv, Hand
    <3> QED
      BY <1>1, <2>1, <2>8, <3>1, <3>2, <3>3, <3>4 DEF Phases
  <2> QED
    BY <2>2, <2>4, <2>5, <2>6, <2>7, <2>8 DEF Awaiting
<1>6. CASE Head(ops).caller # "module"
  <2>1. Fits(Tail(ops), phase, w, a) /\ phase # "connecting"
    BY <1>1, <1>4, <1>6, TailFits
  <2>2. CASE Head(ops).caller = "update"
    <3>1. Answer(Tail(ops)) /\ UNCHANGED phase
      BY <2>2 DEF Return
    <3> QED
      BY <1>1, <2>1, <3>1, AnswerFits
  <2>3. CASE Head(ops).caller = "nobody"
    <3>1. ops' = Tail(ops) /\ UNCHANGED <<updates, phase>>
      BY <2>3 DEF Return
    <3>2. phase \in {"closing", "stopped", "down"} => updates = <<>>
      BY DEF IInv, Hand
    <3> QED
      BY <1>1, <2>1, <3>1, <3>2
  <2> QED
    BY <1>3, <1>6, <2>2, <2>3 DEF Callers
<1> QED
  BY <1>5, <1>6

HeadAs(kind, at) == [Head(ops) EXCEPT !.kind = kind, !.at = at]

(* The operation at the head goes on as another: the others stay where they are. *)
LEMMA HeadBecomes ==
  ASSUME IInv, ops # <<>>, NEW kind, NEW at \in Nat, kind \in {"open", "register"},
         Becomes(kind, at)
  PROVE  /\ ops' \in Seq(Operations) /\ DOMAIN ops = 1..Len(ops) /\ DOMAIN ops' = 1..Len(ops)
         /\ Len(ops) \in Nat \ {0} /\ Len(ops') = Len(ops) /\ Head(ops) = ops[1]
         /\ \A i \in 1..Len(ops) : ops'[i] = IF i = 1 THEN HeadAs(kind, at) ELSE ops[i]
         /\ HeadAs(kind, at) \in Operations
         /\ HeadAs(kind, at).kind = kind /\ HeadAs(kind, at).at = at
         /\ HeadAs(kind, at).caller = Head(ops).caller
<1> DEFINE h == HeadAs(kind, at)
<1>1. Fits(ops, phase, windows, active) /\ ops \in Seq(Operations)
  BY DEF IInv, Queues, Fits
<1>2. /\ Tail(ops) \in Seq(Operations) /\ Len(ops) \in Nat /\ Len(Tail(ops)) = Len(ops) - 1
      /\ 1 \in DOMAIN ops /\ Head(ops) = ops[1]
      /\ \A i \in DOMAIN Tail(ops) : i + 1 \in DOMAIN ops /\ Tail(ops)[i] = ops[i + 1] /\ i # 0
  BY <1>1, TailAhead
<1>3. Head(ops) \in Operations
  BY <1>1, HeadTailProperties
<1>4. h \in Operations /\ h.kind = kind /\ h.at = at /\ h.caller = Head(ops).caller
  BY <1>3 DEF HeadAs, Operations
<1>5. <<h>> \in Seq(Operations) /\ Len(<<h>>) = 1 /\ <<h>>[1] = h
  BY <1>4
<1>6. /\ ops' \in Seq(Operations) /\ Len(ops') = Len(ops)
      /\ \A i \in 1..Len(ops) : ops'[i] = IF i = 1 THEN h ELSE ops[i]
  <2>1. ops' = <<h>> \o Tail(ops)
    BY DEF Becomes, HeadAs
  <2>2. /\ ops' \in Seq(Operations) /\ Len(ops') = 1 + Len(Tail(ops))
        /\ \A i \in 1..1 + Len(Tail(ops)) :
             ops'[i] = IF i <= 1 THEN <<h>>[i] ELSE Tail(ops)[i - 1]
    BY <1>2, <1>5, <2>1, ConcatProperties
  <2>3. DOMAIN Tail(ops) = 1..Len(Tail(ops))
    BY <1>2, LenProperties
  <2>4. Len(ops') = Len(ops)
    BY <1>2, <2>2
  <2>5. ASSUME NEW i \in 1..Len(ops) PROVE ops'[i] = IF i = 1 THEN h ELSE ops[i]
    <3> HIDE DEF h
    <3>0. i \in 1..1 + Len(Tail(ops))
      BY <1>2
    <3>1. ops'[i] = IF i <= 1 THEN <<h>>[i] ELSE Tail(ops)[i - 1]
      BY <2>2, <3>0
    <3>2. CASE i = 1
      BY <1>5, <3>1, <3>2
    <3>3. CASE i # 1
      <4>1. i - 1 \in DOMAIN Tail(ops) /\ (i - 1) + 1 = i
        BY <1>2, <2>3, <3>3
      <4> QED
        BY <1>2, <3>1, <3>3, <4>1
    <3> QED
      BY <3>2, <3>3
  <2> QED
    BY <2>2, <2>4, <2>5
<1>7. DOMAIN ops = 1..Len(ops) /\ DOMAIN ops' = 1..Len(ops)
  BY <1>1, <1>6, LenProperties
<1>8. Len(ops) # 0
  BY <1>2, <1>7
<1> QED
  BY <1>2, <1>4, <1>6, <1>7, <1>8

(* It fits there. *)
LEMMA BecomesFits ==
  ASSUME IInv, ops # <<>>, NEW kind, NEW at \in Nat, kind \in {"open", "register"},
         Becomes(kind, at), NEW w, NEW a,
         kind = "open" => w = {} /\ a = None, kind = "register" => a # None,
         Head(ops).kind # "disconnect"
  PROVE  Fits(ops', phase, w, a) /\ updates' = updates /\ phase' = phase
<1> DEFINE h == HeadAs(kind, at)
<1>1. Fits(ops, phase, windows, active) /\ ops \in Seq(Operations)
  BY DEF IInv, Queues, Fits
<1>2. /\ ops' \in Seq(Operations) /\ DOMAIN ops = 1..Len(ops) /\ DOMAIN ops' = 1..Len(ops)
      /\ Len(ops) \in Nat \ {0} /\ Len(ops') = Len(ops) /\ Head(ops) = ops[1]
      /\ \A i \in 1..Len(ops) : ops'[i] = IF i = 1 THEN h ELSE ops[i]
      /\ h \in Operations /\ h.kind = kind /\ h.at = at /\ h.caller = Head(ops).caller
  BY HeadBecomes
<1>3. 1 \in DOMAIN ops
  BY <1>2
<1>4. ops' # <<>> /\ Head(ops') = h
  BY <1>2, <1>3, EmptySeq, TailAhead
<1>5. phase \notin {"stopped", "down"}
  BY <1>1 DEF Fits
<1> HIDE DEF h
<1>6. ASSUME NEW i \in DOMAIN ops', ops'[i].kind = "open" PROVE i = 1 /\ w = {} /\ a = None
  <2>1. CASE i = 1
    BY <1>2, <1>6, <2>1
  <2>2. CASE i # 1
    <3>1. ops'[i] = ops[i] /\ i \in DOMAIN ops
      BY <1>2, <2>2
    <3> QED
      BY <1>1, <1>6, <2>2, <3>1 DEF Fits
  <2> QED
    BY <2>1, <2>2
<1>7. \A i \in DOMAIN ops' : i \in DOMAIN ops /\ ops'[i].caller = ops[i].caller
  BY <1>2
<1>8. phase = "connecting" =>
         Head(ops').caller = "module"
         /\ ((Head(ops').kind = "open" /\ a = None) \/ (Head(ops').kind = "register" /\ a # None))
  BY <1>1, <1>2, <1>4 DEF Fits
<1>9. ASSUME phase = "closing", NEW i \in DOMAIN ops', ops'[i].caller = "module"
       PROVE  i = Len(ops') /\ ops'[i].kind = "disconnect"
  <2>1. i = Len(ops) /\ ops[i].kind = "disconnect"
    BY <1>1, <1>7, <1>9 DEF Fits
  <2> QED
    BY <1>2, <2>1
<1>10. \A i, j \in DOMAIN ops' :
         ops'[i].caller = "module" /\ ops'[j].caller = "module" => i = j /\ phase \in Awaiting
  <2>1. \A i, j \in DOMAIN ops :
          ops[i].caller = "module" /\ ops[j].caller = "module" => i = j /\ phase \in Awaiting
    BY <1>1 DEF Fits
  <2> QED
    BY <1>7, <2>1
<1>11. Fits(ops', phase, w, a)
  <2>1. phase = "connecting" => ops' # <<>>
    BY <1>4
  <2> QED
    BY <1>2, <1>5, <1>6, <1>8, <1>9, <1>10, <2>1 DEF Fits
<1> QED
  BY <1>11 DEF Becomes

-----------------------------------------------------------------------------
(* The steps *)

(* Nothing is open, queued or under way at first.                            *)
LEMMA InitIInv ==
  ASSUME Init
  PROVE  IInv
<1>1. TypeOK
  <2>1. 0 \in 0..MaxClock /\ 0 \in 0..MaxChanges /\ 0 \in 0..MaxFaults /\ OldChats \subseteq Chats
    BY ConstantsAssumption
  <2>2. joined \in [Chats -> (0..MaxClock) \cup {None}] /\ eligible \in [Chats -> Nat \cup {None}]
    BY <2>1 DEF Init
  <2> QED
    BY <2>1, <2>2 DEF Init, TypeOK, Phases
<1>2. Queues
  <2>1. <<>> \in Seq(Operations) /\ <<>> \in Seq(UpdatesOf(posted)) /\ DOMAIN <<>> = {}
    BY EmptySeq
  <2> QED
    BY <2>1 DEF Init, Queues, Fits
<1>3. Hand
  BY DEF Init, Hand
<1> QED
  BY <1>1, <1>2, <1>3 DEF IInv

(* The queues keep what they hold when more messages have been sent.          *)
LEMMA MorePosted ==
  ASSUME NEW P, NEW Q, P \subseteq Q, NEW u \in Seq(UpdatesOf(P))
  PROVE  u \in Seq(UpdatesOf(Q))
<1>1. UpdatesOf(P) \subseteq UpdatesOf(Q)
  BY DEF UpdatesOf
<1> QED
  BY <1>1, SeqMonotonic

(* A message joins those sent, and the updates if it is heard of.             *)
LEMMA PostStep ==
  ASSUME IInv, NEW c \in Chats, Post(c)
  PROVE  IInv'
<1> DEFINE member == joined[c] # None
           seen == member /\ link = "up" /\ Listening
           m == [chat |-> c, second |-> Second(clock), member |-> member, seen |-> seen]
<1>1. /\ posted' = posted \cup {m}
      /\ IF seen THEN Receive(Update("message", m)) ELSE UNCHANGED <<updates, ops>>
      /\ UNCHANGED <<clock, link, joined, changes, store, observer, phase, restore, lost, refused, faults>>
  BY DEF Post
<1>2. Second(clock) \in 0..Second(MaxClock)
  BY Numbers DEF IInv, TypeOK, Second
<1>3. m \in Messages
  BY <1>2 DEF Messages
<1>4. TypeOK'
  BY <1>1, <1>3 DEF IInv, TypeOK, store, observer, restore
<1>5. updates \in Seq(UpdatesOf(posted')) /\ Update("message", m) \in UpdatesOf(posted')
  BY <1>1, MorePosted, UpdatesTyped DEF IInv, Queues
<1>6. /\ updates' \in Seq(UpdatesOf(posted')) /\ Fits(ops', phase, windows, active)
      /\ phase \in {"closing", "stopped", "down"} => updates' = <<>>
  <2>1. CASE seen
    BY <1>1, <1>5, <2>1, ReceiveFits
  <2>2. CASE ~seen
    BY <1>1, <1>5, <2>2 DEF IInv, Queues, Hand
  <2> QED
    BY <2>1, <2>2
<1>7. Queues' /\ Hand'
  BY <1>1, <1>6 DEF IInv, Queues, Hand, store, observer
<1> QED
  BY <1>4, <1>7 DEF IInv

(* A chat is entered. *)
LEMMA JoinStep ==
  ASSUME IInv, NEW c \in Chats, Join(c)
  PROVE  IInv'
<1>1. /\ joined' = [joined EXCEPT ![c] = clock] /\ Receive(Update("chat", c))
      /\ UNCHANGED <<clock, link, posted, changes, store, observer, phase, restore, lost, refused, faults>>
  BY DEF Join
<1>2. TypeOK'
  BY <1>1 DEF IInv, TypeOK, store, observer, restore
<1>3. Update("chat", c) \in UpdatesOf(posted) /\ updates \in Seq(UpdatesOf(posted))
  BY UpdatesTyped DEF IInv, Queues
<1>4. Queues' /\ Hand'
  BY <1>1, <1>3, ReceiveFits DEF IInv, Queues, Hand, store, observer
<1> QED
  BY <1>2, <1>4 DEF IInv

(* The connection comes or goes. *)
LEMMA ConnectionStep ==
  ASSUME IInv, ConnectionChanges
  PROVE  IInv'
<1>1. /\ changes < MaxChanges /\ changes' = changes + 1 /\ link' \in {"up", "down"}
      /\ Receive(Update("connection", link'))
      /\ UNCHANGED <<clock, joined, posted, store, observer, phase, restore, lost, refused, faults>>
  BY DEF ConnectionChanges
<1>2. TypeOK'
  BY <1>1, Numbers DEF IInv, TypeOK, store, observer, restore
<1>3. Update("connection", link') \in UpdatesOf(posted) /\ updates \in Seq(UpdatesOf(posted))
  BY <1>1, UpdatesTyped DEF IInv, Queues
<1>4. Queues' /\ Hand'
  BY <1>1, <1>3, ReceiveFits DEF IInv, Queues, Hand, store, observer
<1> QED
  BY <1>2, <1>4 DEF IInv

(* The other steps of Telegram and of the handlers leave the windows alone.   *)
LEMMA HandledStep ==
  ASSUME IInv, NEW i \in DOMAIN updates, HandleMessage(i) \/ HandleChat(i) \/ HandlingFails(i)
  PROVE  IInv'
<1>1. updates[i] \in UpdatesOf(posted)
  BY LenProperties, ElementOfSeq DEF IInv, Queues
<1>2. Fits(ops, phase, windows, active) /\ phase \notin {"closing", "stopped", "down"}
  <2>1. updates # <<>>
    BY EmptySeq DEF IInv, Queues
  <2> QED
    BY <2>1 DEF IInv, Queues, Hand
<1>3. CASE HandleMessage(i)
  <2>1. updates[i].what \in posted
    BY <1>1, <1>3 DEF HandleMessage, Being, UpdatesOf
  <2>2. Fits(Append(ops, Record(updates[i].what)), phase, windows, active)
    BY <1>2, <2>1, OperationsTyped, AppendFits DEF IInv
  <2>3. TypeOK'
    BY <1>3, <2>1 DEF HandleMessage, IInv, TypeOK, world, observer, restore
  <2>4. /\ EndHandling(i, Append(ops, Record(updates[i].what)))
        /\ UNCHANGED <<posted, windows, active, phase>>
    BY <1>3 DEF HandleMessage, world, observer
  <2>5. Queues' /\ Hand'
    BY <2>2, <2>4, EndHandlingFits DEF IInv, Queues, Hand
  <2> QED
    BY <2>3, <2>5 DEF IInv
<1>4. CASE HandleChat(i)
  <2>1. updates[i].what \in Chats
    BY <1>1, <1>4 DEF HandleChat, Being, UpdatesOf
  <2>2. TypeOK'
    BY <1>4, <2>1 DEF HandleChat, IInv, TypeOK, world, observer, restore
  <2>3. EndHandling(i, ops) /\ UNCHANGED <<posted, windows, active, phase>>
    BY <1>4 DEF HandleChat, world, observer
  <2>4. Queues' /\ Hand'
    BY <1>2, <2>3, EndHandlingFits DEF IInv, Queues, Hand
  <2> QED
    BY <2>2, <2>4 DEF IInv
<1>5. CASE HandlingFails(i)
  <2>1. lost' \subseteq posted
    <3>1. lost' = lost \cup Unhandled(<<updates[i]>>)
      BY <1>5 DEF HandlingFails
    <3>2. Unhandled(<<updates[i]>>) \subseteq posted
      BY <1>1 DEF Unhandled, UpdatesOf
    <3> QED
      BY <3>1, <3>2 DEF IInv, TypeOK
  <2>2. TypeOK'
    <3>1. faults' \in 0..MaxFaults
      BY <1>5, FaultTyped DEF HandlingFails, IInv
    <3> QED
      BY <1>5, <2>1, <3>1 DEF HandlingFails, IInv, TypeOK, world, store, observer, restore
  <2>3. EndHandling(i, ops) /\ UNCHANGED <<posted, windows, active, phase>>
    BY <1>5 DEF HandlingFails, world, store, observer
  <2>4. Queues' /\ Hand'
    BY <1>2, <2>3, EndHandlingFits DEF IInv, Queues, Hand
  <2> QED
    BY <2>2, <2>4 DEF IInv
<1> QED
  BY <1>3, <1>4, <1>5

(* Time passes. *)
LEMMA TimeStep ==
  ASSUME IInv, TimePasses
  PROVE  IInv'
<1>1. TypeOK'
  BY Numbers DEF TimePasses, IInv, TypeOK, store, observer, process, restore
<1>2. Queues' /\ Hand'
  BY DEF TimePasses, IInv, Queues, Hand, store, observer, process
<1> QED
  BY <1>1, <1>2 DEF IInv

(* An operation is under way only while the program runs; unless it connects, *)
(* the open window is the one in hand.                                        *)
LEMMA UnderWay ==
  ASSUME IInv, ops # <<>>
  PROVE  /\ Head(ops) \in Operations /\ phase \notin {"down", "stopped"}
         /\ Head(ops).kind \notin {"connect", "open"} => (windows # {} => active # None)
         /\ Head(ops).kind = "open" => windows = {} /\ active = None
<1>1. Fits(ops, phase, windows, active) /\ ops \in Seq(Operations)
  BY DEF IInv, Queues, Fits
<1>2. Head(ops) \in Operations /\ Head(ops) = ops[1] /\ 1 \in DOMAIN ops
  BY <1>1, TailAhead, HeadTailProperties
<1>3. phase \notin {"down", "stopped"}
  BY <1>1 DEF Fits
<1>4. ASSUME Head(ops).kind \notin {"connect", "open"} PROVE windows # {} => active # None
  BY <1>1, <1>3, <1>4 DEF Fits, IInv, Hand
<1>5. ASSUME Head(ops).kind = "open" PROVE windows = {} /\ active = None
  BY <1>1, <1>2, <1>5 DEF Fits
<1> QED
  BY <1>2, <1>3, <1>4, <1>5

(* An operation that ends leaves the windows in hand if its statement does.   *)
LEMMA ReturnHands ==
  ASSUME IInv, ops # <<>>, Return, posted' = posted,
         \A u, w \in windows' : u = w,
         active' # None => \E w \in windows' : w.id = active',
         windows' # {} => active' # None,
         Head(ops).kind = "disconnect" => windows' = {}
  PROVE  Queues' /\ Hand' /\ phase' \in Phases
<1>1. /\ updates' \in Seq(UpdatesOf(posted)) /\ Fits(ops', phase', windows', active')
      /\ phase' = "stopped" => phase \in {"closing", "stopped"}
      /\ phase = "closing" /\ phase' = "stopped" => Head(ops).kind = "disconnect"
      /\ phase' \in {"closing", "stopped", "down"} => updates' = <<>>
      /\ phase' \in Phases
      /\ phase' = "down" <=> phase = "down"
  BY ReturnFits
<1>2. phase \notin {"down", "stopped"}
  BY UnderWay
<1>3. phase' = "stopped" => windows' = {}
  BY <1>1, <1>2
<1> QED
  BY <1>1, <1>2, <1>3 DEF Queues, Hand

(* The types of what the observer leaves alone. *)
ObserverTyped ==
  /\ windows' \subseteq Windows
  /\ eligible' \in [Chats -> Nat \cup {None}]
  /\ active' \in Nat \cup {None} /\ since' \in Nat \cup {None} /\ synced' \in Nat \cup {None}
  /\ active' = None <=> since' = None
  /\ refused' \in BOOLEAN

(* Only the coverage is the observer's to change. *)
LEMMA ObservedTyped ==
  ASSUME TypeOK, ObserverTyped, phase' \in Phases,
         UNCHANGED <<world, listed, stored, restore, lost, faults>>
  PROVE  TypeOK'
BY DEF TypeOK, ObserverTyped, world, restore

(* Registrations have a start. *)
LEMMA RegisterTyped ==
  ASSUME TypeOK, NEW chats, NEW from \in Nat, RegisterChats(chats, from)
  PROVE  eligible' \in [Chats -> Nat \cup {None}]
BY DEF TypeOK, RegisterChats

(* The steps that end an operation and leave the windows alone. *)
LEMMA ReturnStep ==
  ASSUME IInv, AlreadyConnected \/ Register \/ RecordLiveMessage \/ ExtendNothing \/ Waited
  PROVE  IInv'
<1>1. /\ ops # <<>> /\ Return
      /\ UNCHANGED <<world, listed, stored, restore, lost, faults, windows, active, since, refused>>
      /\ Head(ops).kind \in {"connect", "register", "record", "extend", "wait"}
      /\ Head(ops).kind = "connect" => active # None
  BY DEF AlreadyConnected, Register, RecordLiveMessage, ExtendNothing, Waited, Current, store, observer
<1>2. Head(ops) \in Operations /\ (windows # {} => active # None)
  BY <1>1, UnderWay
<1>3. eligible' \in [Chats -> Nat \cup {None}] /\ synced' \in Nat \cup {None}
  <2>1. CASE AlreadyConnected \/ ExtendNothing \/ Waited
    BY <2>1 DEF AlreadyConnected, ExtendNothing, Waited, store, observer, IInv, TypeOK
  <2>2. CASE Register
    <3>1. Head(ops).at \in Nat
      BY <1>2, <2>2 DEF Register, Current, Operations
    <3> QED
      BY <2>2, <3>1, RegisterTyped DEF Register, IInv, TypeOK
  <2>3. CASE RecordLiveMessage
    <3>1. Head(ops).at \in Nat
      BY <1>2, <2>3 DEF RecordLiveMessage, Current, Operations
    <3>2. CASE active = None
      BY <2>3, <3>2 DEF RecordLiveMessage, observer, IInv, TypeOK
    <3>3. CASE active # None
      <4>1. Larger(Head(ops).at, since) \in Nat
        BY <3>1, <3>3 DEF Larger, IInv, TypeOK
      <4> QED
        BY <2>3, <3>3, <4>1, RegisterTyped DEF RecordLiveMessage, observer, IInv, TypeOK
    <3> QED
      BY <3>2, <3>3
  <2> QED
    BY <1>1, <2>1, <2>2, <2>3
<1>4. Queues' /\ Hand' /\ phase' \in Phases
  BY <1>1, <1>2, ReturnHands DEF world, IInv, Hand
<1>5. TypeOK'
  BY <1>1, <1>3, <1>4, ObservedTyped DEF IInv, TypeOK, ObserverTyped
<1> QED
  BY <1>4, <1>5 DEF IInv

(* The windows a crash has left open are closed. *)
LEMMA RecoverStep ==
  ASSUME IInv, Recover
  PROVE  IInv'
<1>1. /\ ops # <<>> /\ Head(ops).kind = "connect" /\ active = None /\ windows' = {}
      /\ Becomes("open", Head(ops).at)
      /\ UNCHANGED <<world, listed, stored, eligible, observer, restore, lost, refused, faults>>
  BY DEF Recover, Current, RecoverWindows
<1>2. Head(ops) \in Operations /\ phase \notin {"down", "stopped"}
  BY <1>1, UnderWay
<1>3. Head(ops).at \in Nat
  BY <1>1, <1>2 DEF Operations
<1>4. Fits(ops', phase, windows', active') /\ updates' = updates /\ phase' = phase
  BY <1>1, <1>3, BecomesFits DEF observer
<1>5. TypeOK'
  BY <1>1, <1>4, ObservedTyped DEF IInv, TypeOK, ObserverTyped, observer
<1>6. Queues' /\ Hand'
  BY <1>1, <1>4 DEF IInv, Queues, Hand, world, observer
<1> QED
  BY <1>5, <1>6 DEF IInv

(* A window is opened where there is none. *)
LEMMA OpenStep ==
  ASSUME IInv, Open
  PROVE  IInv'
<1> DEFINE start == OpensAt(Head(ops).at)
<1>1. /\ ops # <<>> /\ Head(ops).kind = "open" /\ active' = FreshId
      /\ windows' = windows \cup {[id |-> FreshId, start |-> start, end |-> start]}
      /\ since' = start /\ Becomes("register", start) /\ synced' = None /\ refused' = FALSE
      /\ UNCHANGED <<world, listed, stored, eligible, restore, lost, faults>>
  BY DEF Open, Current
<1>2. Head(ops) \in Operations /\ phase \notin {"down", "stopped"} /\ windows = {} /\ active = None
  BY <1>1, UnderWay
<1>3. start \in Nat
  <2>1. Head(ops).at \in Nat
    BY <1>1, <1>2 DEF Operations
  <2> QED
    BY <2>1 DEF OpensAt, Ceil
<1>4. FreshId \in Nat
  <2>1. Cardinality(windows) = 0
    BY <1>2, FS_EmptySet
  <2>2. 0 \in 0..Cardinality(windows) /\ \A w \in windows : w.id # 0
    BY <1>2, <2>1
  <2> QED
    BY <2>1, <2>2 DEF FreshId
<1>5. FreshId # None
  BY <1>4, Numbers DEF IInv
<1>6. Fits(ops', phase, windows', active') /\ updates' = updates /\ phase' = phase
  BY <1>1, <1>3, <1>5, BecomesFits
<1>7. TypeOK'
  <2>1. windows' \subseteq Windows
    BY <1>1, <1>2, <1>3, <1>4 DEF Windows
  <2>2. start # None
    BY <1>3, Numbers DEF IInv
  <2> QED
    BY <1>1, <1>3, <1>4, <1>5, <1>6, <2>1, <2>2, ObservedTyped DEF IInv, TypeOK, ObserverTyped
<1>8. Queues' /\ Hand'
  <2>1. windows' = {[id |-> active', start |-> start, end |-> start]}
    BY <1>1, <1>2
  <2> QED
    BY <1>1, <1>2, <1>5, <1>6, <2>1 DEF IInv, Queues, Hand, world
<1> QED
  BY <1>7, <1>8 DEF IInv

(* The window in hand is extended, and stays the one in hand. *)
LEMMA ExtendStep ==
  ASSUME IInv, ExtendWindow
  PROVE  IInv'
<1> DEFINE at == Ceil(Head(ops).at)
<1>1. /\ ops # <<>> /\ Head(ops).kind = "extend" /\ active # None
      /\ windows' = Extended(at)
      /\ Becomes("register", at) \/ Return
      /\ UNCHANGED <<world, listed, stored, eligible, observer, restore, lost, refused, faults>>
  BY DEF ExtendWindow, Current
<1>2. Head(ops) \in Operations /\ phase \notin {"down", "stopped"}
  BY <1>1, UnderWay
<1>3. at \in Nat
  <2>1. Head(ops).at \in Nat
    BY <1>1, <1>2 DEF Operations
  <2> QED
    BY <2>1 DEF Ceil
<1>4. PICK w \in windows : w.id = active /\ windows = {w} /\ w \in Windows
  BY <1>1 DEF IInv, Hand, TypeOK
<1>5. PICK v \in Windows : v.id = active /\ windows' = {v}
  <2> DEFINE v == IF w.id = active /\ w.end < at THEN [w EXCEPT !.end = at] ELSE w
  <2>1. windows' = {v}
    BY <1>1, <1>4 DEF Extended
  <2>2. v \in Windows /\ v.id = active
    BY <1>3, <1>4 DEF Windows
  <2> QED
    BY <2>1, <2>2
<1>6. Queues' /\ Hand' /\ phase' \in Phases
  <2>1. CASE Return
    BY <1>1, <1>5, <2>1, ReturnHands DEF world, observer
  <2>2. CASE Becomes("register", at)
    <3> HIDE DEF at
    <3>1. /\ ops # <<>> /\ Head(ops).kind # "disconnect" /\ active # None /\ active' = active
          /\ at \in Nat /\ Becomes("register", at)
      BY <1>1, <1>3, <2>2 DEF observer
    <3>2. Fits(ops', phase, windows', active') /\ updates' = updates /\ phase' = phase
      BY <3>1, BecomesFits
    <3> QED
      BY <1>1, <1>2, <1>5, <3>2 DEF IInv, Queues, Hand, world, observer, TypeOK
  <2> QED
    BY <1>1, <2>1, <2>2
<1>7. TypeOK'
  BY <1>1, <1>5, <1>6, ObservedTyped DEF IInv, TypeOK, ObserverTyped, observer
<1> QED
  BY <1>6, <1>7 DEF IInv

(* The window in hand is closed: no other was open. *)
LEMMA CloseStep ==
  ASSUME IInv, Close
  PROVE  IInv'
<1>1. /\ ops # <<>> /\ Head(ops).kind = "disconnect" /\ Return
      /\ windows' = {w \in windows : w.id # active}
      /\ active' = None /\ synced' = None /\ since' = None
      /\ UNCHANGED <<world, listed, stored, eligible, restore, lost, refused, faults>>
  BY DEF Close, Current, CloseWindow, Forget
<1>2. windows # {} => active # None
  BY <1>1, UnderWay
<1>3. windows' = {}
  BY <1>1, <1>2 DEF IInv, Hand
<1>4. Queues' /\ Hand' /\ phase' \in Phases
  BY <1>1, <1>3, ReturnHands DEF world
<1>5. TypeOK'
  BY <1>1, <1>3, <1>4, ObservedTyped DEF IInv, TypeOK, ObserverTyped
<1> QED
  BY <1>4, <1>5 DEF IInv

(* A failing statement changes nothing; what follows it has its turn.         *)
LEMMA FailStep ==
  ASSUME IInv, OpFails
  PROVE  IInv'
<1>1. /\ ops # <<>> /\ Head(ops).caller # "module" /\ Fault /\ refused' \in BOOLEAN
      /\ \/ Answer(Tail(ops))
         \/ ops' = Tail(ops) /\ UNCHANGED updates
      /\ UNCHANGED <<world, store, observer, phase, restore, lost>>
  BY DEF OpFails, Rest
<1>2. Fits(Tail(ops), phase, windows, active)
  BY <1>1, TailFits DEF IInv, Queues
<1>3. Queues' /\ Hand'
  <2>1. CASE Answer(Tail(ops))
    BY <1>1, <1>2, <2>1, AnswerFits DEF IInv, Queues, Hand, world, store, observer
  <2>2. CASE ops' = Tail(ops) /\ UNCHANGED updates
    BY <1>1, <1>2, <2>2 DEF IInv, Queues, Hand, world, store, observer
  <2> QED
    BY <1>1, <2>1, <2>2
<1>4. TypeOK'
  <2>1. faults' \in 0..MaxFaults
    BY <1>1, FaultTyped DEF IInv
  <2> QED
    BY <1>1, <2>1 DEF IInv, TypeOK, world, store, observer, restore
<1> QED
  BY <1>3, <1>4 DEF IInv

(* Start and stop ask the observer, or go on without it.                      *)
LEMMA CallStep ==
  ASSUME IInv, StartUp \/ Drain \/ StopDrained
  PROVE  IInv'
<1>1. /\ UNCHANGED <<world, store, observer, updates, restore, lost, refused, faults>>
      /\ phase' \in Phases
  BY DEF StartUp, Drain, StopDrained, Call, Phases
<1>2. TypeOK'
  BY <1>1 DEF IInv, TypeOK, world, store, observer, restore
<1>3. Fits(ops, phase, windows, active) /\ updates \in Seq(UpdatesOf(posted))
  BY DEF IInv, Queues
<1>4. /\ Connect("module") \in Operations /\ Connect("module").kind = "connect"
      /\ Connect("module").caller = "module"
      /\ Disconnect("module") \in Operations /\ Disconnect("module").kind = "disconnect"
  BY OperationsTyped DEF IInv, Callers
<1>5. CASE StartUp
  <2>1. phase = "down" /\ phase' = "connecting" /\ ops' = Append(ops, Connect("module"))
    BY <1>5 DEF StartUp, Call
  <2>2. ops = <<>> /\ active = None /\ updates = <<>>
    BY <1>3, <2>1 DEF Fits, IInv, Hand
  <2>3. ops' = <<Connect("module")>> /\ ops' \in Seq(Operations) /\ DOMAIN ops' = {1}
        /\ ops'[1] = Connect("module") /\ ops' # <<>> /\ Head(ops') = Connect("module")
    BY <1>4, <2>1, <2>2
  <2>4. Fits(ops', phase', windows, active)
    BY <1>4, <2>1, <2>2, <2>3 DEF Fits, Awaiting
  <2>5. Queues' /\ Hand'
    BY <1>1, <1>3, <2>1, <2>2, <2>4 DEF IInv, Queues, Hand, world, store, observer
  <2> QED
    BY <1>2, <2>5 DEF IInv
<1>6. CASE Drain
  <2>1. phase = "draining" /\ phase' = "reconnecting" /\ ops' = Append(ops, Connect("module"))
    BY <1>6 DEF Drain, Call
  <2>2. Fits(ops', phase', windows, active)
    BY <1>3, <1>4, <2>1, CallFits DEF Awaiting
  <2>3. Queues' /\ Hand'
    BY <1>1, <1>3, <2>1, <2>2 DEF IInv, Queues, Hand, world, store, observer
  <2> QED
    BY <1>2, <2>3 DEF IInv
<1>7. CASE StopDrained
  <2>1. phase = "unsubscribed" /\ phase' = "closing" /\ ops' = Append(ops, Disconnect("module"))
        /\ updates = <<>>
    BY <1>7 DEF StopDrained, Call, Drained
  <2>2. Fits(ops', phase', windows, active)
    BY <1>3, <1>4, <2>1, CallFits DEF Awaiting
  <2>3. Queues' /\ Hand'
    BY <1>1, <1>3, <2>1, <2>2 DEF IInv, Queues, Hand, world, store, observer
  <2> QED
    BY <1>2, <2>3 DEF IInv
<1> QED
  BY <1>5, <1>6, <1>7

(* A range that is asked for ends at a second. *)
LEMMA BoundaryTyped ==
  ASSUME TypeOK, NEW c \in Chats
  PROVE  Boundary(c) \subseteq Nat
<1>1. CASE eligible[c] = None
  BY <1>1 DEF Boundary
<1>2. CASE eligible[c] # None
  <2>1. eligible[c] \in Nat
    BY <1>2 DEF TypeOK
  <2>2. \A w \in windows : w.start \in Nat
    BY DEF TypeOK, Windows
  <2>3. \A w \in windows : Larger(w.start, eligible[c]) \in Nat
    BY <2>1, <2>2 DEF Larger
  <2> QED
    BY <1>2, <2>3 DEF Boundary
<1> QED
  BY <1>1, <1>2

(* The other steps of start and stop leave the queues and the windows alone,  *)
(* or queue the extension of the window.                                      *)
LEMMA RunStep ==
  ASSUME IInv,
         \/ SyncInitialChats \/ ListChats \/ EndRestore \/ Stop \/ LiveTick
         \/ \E c \in Chats : AskFor(c)
  PROVE  IInv'
<1>1. Fits(ops, phase, windows, active)
  BY DEF IInv, Queues
<1>2. CASE SyncInitialChats
  <2>1. TypeOK'
    BY <1>2 DEF SyncInitialChats, IInv, TypeOK, Phases, world, observer, restore
  <2>2. Queues' /\ Hand'
    BY <1>1, <1>2, PlainFits DEF SyncInitialChats, IInv, Queues, Hand, Fits, Awaiting, world, observer
  <2> QED
    BY <2>1, <2>2 DEF IInv
<1>3. CASE ListChats
  <2>1. TypeOK'
    BY <1>3 DEF ListChats, IInv, TypeOK, Phases, world, store, observer
  <2>2. Queues' /\ Hand'
    BY <1>1, <1>3 DEF ListChats, IInv, Queues, Hand, Fits, Awaiting, world, store, observer
  <2> QED
    BY <2>1, <2>2 DEF IInv
<1>4. CASE EndRestore
  <2>1. TypeOK'
    BY <1>4 DEF EndRestore, IInv, TypeOK, Phases, world, store, observer
  <2>2. Queues' /\ Hand'
    BY <1>1, <1>4 DEF EndRestore, IInv, Queues, Hand, Fits, Awaiting, world, store, observer
  <2> QED
    BY <2>1, <2>2 DEF IInv
<1>5. CASE Stop
  <2>1. TypeOK'
    BY <1>5 DEF Stop, IInv, TypeOK, Phases, world, store, observer, restore
  <2>2. Queues' /\ Hand'
    BY <1>1, <1>5 DEF Stop, IInv, Queues, Hand, Fits, Awaiting, world, store, observer
  <2> QED
    BY <2>1, <2>2 DEF IInv
<1>6. CASE LiveTick
  <2>1. phase = "running" /\ ops' = Append(ops, Extend)
        /\ UNCHANGED <<world, store, observer, updates, phase, restore, lost, refused, faults>>
    BY <1>6 DEF LiveTick
  <2>2. Extend \in Operations /\ Extend.kind # "open" /\ Extend.caller # "module"
    BY OperationsTyped DEF IInv
  <2>3. Fits(ops', phase, windows, active)
    BY <1>1, <2>1, <2>2, AppendFits
  <2>4. TypeOK'
    BY <2>1 DEF IInv, TypeOK, world, store, observer, restore
  <2>5. Queues' /\ Hand'
    BY <2>1, <2>3 DEF IInv, Queues, Hand, world, store, observer
  <2> QED
    BY <2>4, <2>5 DEF IInv
<1>7. ASSUME NEW c \in Chats, AskFor(c) PROVE IInv'
  <2>1. /\ plan' = plan \ {c} /\ faults' \in 0..MaxFaults
        /\ UNCHANGED <<world, store, observer, process, lost, refused>>
    BY <1>7, FaultTyped DEF AskFor, IInv, TypeOK
  <2>2. asked' \subseteq Asks
    <3>1. PICK failed \in BOOLEAN :
            asked' = asked \cup {[chat |-> c, end |-> end, failed |-> failed] : end \in Boundary(c)}
      BY <1>7 DEF AskFor
    <3>2. Boundary(c) \subseteq Nat
      BY BoundaryTyped DEF IInv
    <3> QED
      BY <3>1, <3>2 DEF Asks, IInv, TypeOK
  <2>3. TypeOK'
    BY <2>1, <2>2 DEF IInv, TypeOK, world, store, observer, process
  <2>4. Queues' /\ Hand'
    BY <2>1 DEF IInv, Queues, Hand, world, store, observer, process
  <2> QED
    BY <2>3, <2>4 DEF IInv
<1> QED
  BY <1>2, <1>3, <1>4, <1>5, <1>6, <1>7

(* The process ends, or crashes: nothing of its memory is left.               *)
LEMMA EndStep ==
  ASSUME IInv, Exit \/ Crash
  PROVE  IInv'
<1>1. ClearMemory /\ UNCHANGED <<world, store>>
  BY DEF Exit, Crash
<1>2. lost' \subseteq posted /\ faults' \in 0..MaxFaults
  <2>1. CASE Exit
    BY <2>1 DEF Exit, IInv, TypeOK
  <2>2. CASE Crash
    <3>1. \A i \in DOMAIN updates : updates[i] \in UpdatesOf(posted)
      BY LenProperties, ElementOfSeq DEF IInv, Queues
    <3>2. Unhandled(updates) \subseteq posted
      BY <3>1 DEF Unhandled, UpdatesOf
    <3> QED
      BY <2>2, <3>2, FaultTyped DEF Crash, IInv, TypeOK
  <2> QED
    BY <2>1, <2>2
<1>3. TypeOK'
  BY <1>1, <1>2 DEF ClearMemory, IInv, TypeOK, Phases, world, store
<1>4. Queues'
  <2>1. <<>> \in Seq(Operations) /\ <<>> \in Seq(UpdatesOf(posted')) /\ DOMAIN <<>> = {}
    BY EmptySeq
  <2> QED
    BY <1>1, <2>1 DEF ClearMemory, Queues, Fits
<1>5. Hand'
  BY <1>1 DEF ClearMemory, IInv, Hand, store
<1> QED
  BY <1>3, <1>4, <1>5 DEF IInv

-----------------------------------------------------------------------------
(* The theorems *)

(* Every step keeps the invariant. *)
LEMMA NextIInv ==
  ASSUME IInv, [Next]_vars
  PROVE  IInv'
<1>1. CASE TimePasses
  BY <1>1, TimeStep
<1>2. CASE ConnectionChanges
  BY <1>2, ConnectionStep
<1>3. CASE \E c \in Chats : Post(c) \/ Join(c)
  BY <1>3, PostStep, JoinStep
<1>4. CASE Handles \/ \E i \in DOMAIN updates : HandlingFails(i)
  BY <1>4, HandledStep DEF Handles
<1>5. CASE Observes
  BY <1>5, ReturnStep, RecoverStep, OpenStep, ExtendStep, CloseStep DEF Observes
<1>6. CASE OpFails
  BY <1>6, FailStep
<1>7. CASE StartUp \/ Starts \/ LiveTick \/ Stop
  BY <1>7, CallStep, RunStep DEF Starts
<1>8. CASE Exit \/ Crash
  BY <1>8, EndStep
<1>9. CASE UNCHANGED vars
  <2>1. UNCHANGED <<world, store, observer, process, restore, lost, refused, faults>>
    BY <1>9 DEF vars
  <2>2. TypeOK'
    BY <2>1 DEF IInv, TypeOK, world, store, observer, process, restore
  <2>3. Queues' /\ Hand'
    BY <2>1 DEF IInv, Queues, Hand, world, store, observer, process
  <2> QED
    BY <2>2, <2>3 DEF IInv
<1> QED
  BY <1>1, <1>2, <1>3, <1>4, <1>5, <1>6, <1>7, <1>8, <1>9 DEF Next

(* The invariant holds at every moment. *)
LEMMA AlwaysIInv == Spec => []IInv
<1>1. Init => IInv
  BY InitIInv
<1>2. IInv /\ [Next]_vars => IInv'
  BY NextIInv
<1> QED
  BY <1>1, <1>2, PTL DEF Spec

(* The memory of the observer and of the update queue, the coverage and the    *)
(* requests of the restore keep their types.                                   *)
THEOREM TypeCorrect == Spec => []TypeOK
<1>1. IInv => TypeOK
  BY DEF IInv
<1> QED
  BY <1>1, AlwaysIInv, PTL

(* Whatever fails, crashes or reconnects, and however the changes of the      *)
(* connection overlap start and stop: at most one window is open, the observer *)
(* has in hand only an open one, and stop leaves none open and nothing queued. *)
THEOREM WindowsStayInHand == Spec => []WindowsInHand
<1>1. IInv => WindowsInHand
  BY DEF IInv, Queues, Fits, Hand, WindowsInHand, Quiet
<1> QED
  BY <1>1, AlwaysIInv, PTL

-----------------------------------------------------------------------------
(* What is covered is stored *)

(* What the account should have got and the program did not see. *)
Missed == {m \in posted : m.member /\ ~m.seen}

(* What is sent is sent before the next second begins. *)
Clocked == \A m \in posted : m.second < Ceil(clock)

(* What the program saw is on its way as long as it is neither stored nor lost. *)
SeenInHand == \A m \in posted : m.seen => m \in stored \cup lost \cup Unhandled(updates)

(* A connection state that is queued and not yet told to the observer. *)
Waits(x, what) == ~x.started /\ x.kind = "connection" /\ x.what = what

DownWaits(u) == \E k \in DOMAIN u : Waits(u[k], "down")

UpsAreOver(u) ==
  \A k \in DOMAIN u : Waits(u[k], "up") => \E l \in DOMAIN u : l > k /\ Waits(u[l], "down")

(* After the first n operations o the window will be closed: a disconnect is    *)
(* queued among the operations, or still among the updates u.                  *)
Closing(o, u, n) == DownWaits(u) \/ \E j \in DOMAIN o : j > n /\ o[j].kind = "disconnect"

Opens(x) == x.kind \in {"connect", "open"}

(* What is open, and what will be opened, will be closed. *)
Doomed(o, u, a) ==
  /\ a # None => Closing(o, u, 0)
  /\ \A i \in DOMAIN o : Opens(o[i]) => Closing(o, u, i)
  /\ UpsAreOver(u)

(* A window that is to stay, open or to be opened, begins after what was missed. *)
Spares(o, u, a, w, missed) ==
  /\ a # None /\ ~Closing(o, u, 0) => \A m \in missed, x \in w : m.second < x.start
  /\ \A i \in DOMAIN o :
       Opens(o[i]) /\ ~Closing(o, u, i) => \A m \in missed : m.second < Ceil(o[i].at)

(* Nothing is queued that closes a window or speaks of the connection. *)
Calm(o, u) ==
  /\ \A i \in DOMAIN o : o[i].kind # "disconnect"
  /\ \A k \in DOMAIN u : u[k].kind # "connection"

(* The phases in which start is under way. *)
StartPhases ==
  {"connecting", "syncing", "draining", "reconnecting", "registering", "waiting", "listing",
   "restoring"}

(* The operations o and updates u fit the window a in hand, the open windows w  *)
(* and the connection l.                                                      *)
InOrder(o, u, a, w, l, ph, missed) ==
  /\ l = "down" => Doomed(o, u, a)
  /\ Spares(o, u, a, w, missed)
  /\ ph \in StartPhases => l = "up" /\ Calm(o, u)

Ordered == InOrder(ops, updates, active, windows, link, phase, Missed)

(* While start runs a window need not be closed; later it must not fail.        *)
Serving == phase \in StartPhases \/ (phase = "running" /\ ClosesSucceed)

LiveInv == Clocked /\ SeenInHand /\ (Serving => Ordered)

(* Since the first window was opened the known chats are registered in it, and  *)
(* each of them is asked for, or will be.                                      *)
Registered ==
  /\ OldChats \subseteq listed
  /\ phase \in StartPhases \ {"connecting"} =>
       active # None /\ \A c \in OldChats : eligible[c] # None

AskedFor ==
  phase = "restoring" =>
    \A c \in OldChats \cap Restored :
      \/ c \in plan
      \/ \E request \in asked : request.chat = c /\ \A m \in Missed : m.second < request.end

LInv == IInv /\ LiveInv /\ Registered /\ AskedFor

(* What start leaves of its phases, and when the program listens. *)
LEMMA PhasesAre ==
  ASSUME TypeOK
  PROVE  /\ Listening <=> phase \in StartPhases \cup {"running"}
         /\ Awaiting \ {"closing"} \subseteq StartPhases
         /\ "running" \notin StartPhases
BY DEF TypeOK, Phases, Listening, StartPhases, Awaiting

(* Every set of natural numbers that is not empty has a least element. *)
LEMMA Least ==
  ASSUME NEW S \in SUBSET Nat, S # {}
  PROVE  \E m \in S : \A k \in S : m <= k
<1> DEFINE Below(m) == S \cap (0..m)
           T == {Below(m) : m \in S}
<1>1. ASSUME NEW m \in S PROVE Below(m) \in FiniteSubsetsOf(Nat)
  <2>1. m \in Int /\ 0 \in Int /\ Below(m) \subseteq 0..m /\ Below(m) \subseteq Nat
    OBVIOUS
  <2>2. IsFiniteSet(0..m)
    BY <2>1, FS_Interval
  <2>3. IsFiniteSet(Below(m))
    BY <2>1, <2>2, FS_Subset
  <2> QED
    BY <2>1, <2>3 DEF FiniteSubsetsOf
<1>2. T \subseteq FiniteSubsetsOf(Nat) /\ T # {}
  BY <1>1
<1>3. IsWellFoundedOn(StrictSubsetOrdering(Nat), FiniteSubsetsOf(Nat))
  BY FS_StrictSubsetOrderingWellFounded
<1> HIDE DEF T
<1>4. PICK X \in T : \A Y \in T : <<Y, X>> \notin StrictSubsetOrdering(Nat)
  BY <1>2, <1>3, WFMin
<1>5. PICK m \in S : X = Below(m)
  BY DEF T
<1>6. ASSUME NEW k \in S, k < m PROVE FALSE
  <2>1. Below(k) \in T
    BY DEF T
  <2>2. Below(k) \subseteq Below(m) /\ Below(k) \in SUBSET Nat /\ Below(m) \in SUBSET Nat
    BY <1>6
  <2>3. m \in Below(m) /\ m \notin Below(k)
    BY <1>6
  <2>4. Below(k) # Below(m)
    BY <2>3
  <2> HIDE DEF Below
  <2>5. <<Below(k), Below(m)>> \in StrictSubsetOrdering(Nat)
    BY <2>2, <2>4 DEF StrictSubsetOrdering
  <2> QED
    BY <1>4, <1>5, <2>1, <2>5
<1>7. \A k \in S : m <= k
  BY <1>6
<1> QED
  BY <1>7

(* The update that is started next is the first of those that wait. *)
LEMMA NextWaiting ==
  ASSUME NEW P, NEW u \in Seq(UpdatesOf(P)), NEW o, StartNext(u, o)
  PROVE  \/ updates' = u /\ ops' = o
         \/ \E i \in DOMAIN u :
              /\ ~u[i].started /\ \A k \in DOMAIN u : ~u[k].started => i <= k
              /\ updates' = [u EXCEPT ![i].started = TRUE]
              /\ \/ u[i].kind # "connection" /\ ops' = o
                 \/ Waits(u[i], "up") /\ ops' = Append(o, Connect("update"))
                 \/ Waits(u[i], "down") /\ ops' = Append(o, Disconnect("update"))
<1> DEFINE waiting == DOMAIN u \ Started(u)
           n == CHOOSE j \in waiting : \A k \in waiting : j <= k
<1>1. CASE updates' = u /\ ops' = o
  BY <1>1
<1>2. CASE /\ waiting # {} /\ updates' = [u EXCEPT ![n].started = TRUE]
           /\ ops' = IF u[n].kind # "connection" THEN o
                     ELSE Append(o, IF u[n].what = "up" THEN Connect("update")
                                    ELSE Disconnect("update"))
  <2>1. DOMAIN u = 1..Len(u) /\ Len(u) \in Nat /\ \A k \in DOMAIN u : u[k] \in UpdatesOf(P)
    BY LenProperties, ElementOfSeq
  <2>2. \E j \in waiting : \A k \in waiting : j <= k
    <3>1. waiting \in SUBSET Nat
      BY <2>1
    <3> QED
      BY <1>2, <3>1, Least
  <2>3. n \in waiting /\ \A k \in waiting : n <= k
    <3> HIDE DEF waiting
    <3> QED
      BY <2>2
  <2> HIDE DEF n
  <2>4. n \in DOMAIN u /\ ~u[n].started /\ \A k \in DOMAIN u : ~u[k].started => n <= k
    BY <2>3 DEF Started
  <2>5. u[n] \in UpdatesOf(P)
    BY <2>1, <2>4
  <2>6. u[n].kind = "connection" => u[n].what \in {"up", "down"}
    BY <2>5 DEF UpdatesOf
  <2> QED
    BY <1>2, <2>4, <2>6 DEF Waits
<1>3. waiting = {} \/ Cardinality(Started(u)) >= UpdateConcurrency => updates' = u /\ ops' = o
  BY DEF StartNext
<1> QED
  BY <1>1, <1>2, <1>3, Zenon DEF StartNext

-----------------------------------------------------------------------------
(* The queues in order *)

(* A handler that ends takes away an update that was started: what waits, waits *)
(* as before.                                                                 *)
LEMMA RemovedInOrder ==
  ASSUME NEW P, NEW u \in Seq(UpdatesOf(P)), NEW i \in DOMAIN u, u[i].started,
         NEW o, NEW a, NEW w, NEW l, NEW ph, NEW missed, InOrder(o, u, a, w, l, ph, missed)
  PROVE  InOrder(o, RemoveAt(u, i), a, w, l, ph, missed)
<1> DEFINE r == RemoveAt(u, i)
<1>1. /\ DOMAIN u = 1..Len(u) /\ Len(u) \in Nat /\ DOMAIN r = 1..Len(u) - 1
      /\ \A k \in 1..Len(u) - 1 : (k < i => r[k] = u[k]) /\ (k >= i => r[k] = u[k + 1])
  BY Removed
<1> HIDE DEF r
<1>2. i \in 1..Len(u)
  BY <1>1
<1> DEFINE from(k) == IF k < i THEN k ELSE k + 1
           to(k) == IF k < i THEN k ELSE k - 1
<1>3. \A k \in DOMAIN r : from(k) \in DOMAIN u /\ r[k] = u[from(k)]
  BY <1>1, <1>2
<1>4. \A k \in DOMAIN u : ~u[k].started => to(k) \in DOMAIN r /\ r[to(k)] = u[k]
  <2>1. ASSUME NEW k \in DOMAIN u, ~u[k].started PROVE to(k) \in DOMAIN r /\ r[to(k)] = u[k]
    <3>1. CASE k < i
      BY <1>1, <1>2, <3>1
    <3>2. CASE k > i
      <4>1. k - 1 \in 1..Len(u) - 1 /\ k - 1 >= i /\ (k - 1) + 1 = k
        BY <1>1, <1>2, <3>2
      <4> QED
        BY <1>1, <3>2, <4>1
    <3>3. k # i
      BY <2>1
    <3> QED
      BY <1>1, <1>2, <3>1, <3>2, <3>3
  <2> QED
    BY <2>1
<1>5. \A j, k \in DOMAIN r : k > j => from(k) > from(j)
  BY <1>1, <1>2
<1>6. \A j, k \in DOMAIN u : j # i /\ k # i /\ k > j => to(k) > to(j)
  BY <1>1, <1>2
<1> HIDE DEF from, to
<1>7. DownWaits(r) <=> DownWaits(u)
  BY <1>3, <1>4 DEF DownWaits, Waits
<1>8. ASSUME UpsAreOver(u) PROVE UpsAreOver(r)
  <2>1. ASSUME NEW k \in DOMAIN r, Waits(r[k], "up")
        PROVE  \E m \in DOMAIN r : m > k /\ Waits(r[m], "down")
    <3>1. from(k) \in DOMAIN u /\ Waits(u[from(k)], "up")
      BY <1>3, <2>1
    <3>2. PICK m \in DOMAIN u : m > from(k) /\ Waits(u[m], "down")
      BY <1>8, <3>1 DEF UpsAreOver
    <3>3. m # i /\ from(k) # i /\ to(m) \in DOMAIN r /\ Waits(r[to(m)], "down")
      BY <1>4, <3>1, <3>2 DEF Waits
    <3>4. to(m) > to(from(k))
      BY <1>6, <3>1, <3>2, <3>3
    <3>5. to(from(k)) = k
      BY <1>1, <1>2, <2>1 DEF from, to
    <3> QED
      BY <3>3, <3>4, <3>5
  <2> QED
    BY <2>1 DEF UpsAreOver
<1>9. Calm(o, u) => Calm(o, r)
  BY <1>3 DEF Calm
<1>10. InOrder(o, r, a, w, l, ph, missed)
  BY <1>7, <1>8, <1>9 DEF InOrder, Doomed, Spares, Closing
<1> QED
  BY <1>10 DEF r

(* Another operation is queued that neither opens nor closes a window, or one   *)
(* that opens it after what was missed while the connection is up.            *)
LEMMA QueuedInOrder ==
  ASSUME NEW o \in Seq(Operations), NEW p \in Operations, p.kind # "disconnect",
         NEW u, NEW a, NEW w, NEW l, NEW ph, NEW missed, InOrder(o, u, a, w, l, ph, missed),
         Opens(p) => /\ \A m \in missed : m.second < Ceil(p.at)
                     /\ l = "down" => DownWaits(u)
  PROVE  InOrder(Append(o, p), u, a, w, l, ph, missed)
<1> DEFINE q == Append(o, p)
<1>1. /\ Len(o) \in Nat /\ DOMAIN o = 1..Len(o) /\ DOMAIN q = 1..Len(o) + 1
      /\ \A i \in DOMAIN o : q[i] = o[i]
      /\ q[Len(o) + 1] = p
  BY AppendLast
<1> HIDE DEF q
<1>2. \A n : Closing(q, u, n) <=> Closing(o, u, n)
  BY <1>1 DEF Closing
<1>3. \A i \in DOMAIN q : i \in DOMAIN o \/ (i = Len(o) + 1 /\ q[i] = p)
  BY <1>1
<1>4. l = "down" => Doomed(q, u, a)
  <2>1. DownWaits(u) => \A n : Closing(q, u, n)
    BY DEF Closing
  <2> QED
    BY <1>1, <1>2, <1>3, <2>1 DEF InOrder, Doomed
<1>5. Spares(q, u, a, w, missed)
  BY <1>1, <1>2, <1>3 DEF InOrder, Spares
<1>6. Calm(o, u) => Calm(q, u)
  BY <1>1, <1>3 DEF Calm
<1>7. InOrder(q, u, a, w, l, ph, missed)
  BY <1>4, <1>5, <1>6 DEF InOrder
<1> QED
  BY <1>7 DEF q

(* The observer is told of the connection in the order of its states.          *)
LEMMA StartInOrder ==
  ASSUME TypeOK, NEW P, NEW u \in Seq(UpdatesOf(P)), NEW o \in Seq(Operations),
         NEW a, NEW w, NEW l, NEW ph, NEW missed, InOrder(o, u, a, w, l, ph, missed),
         \A m \in missed : m.second < Ceil(clock), StartNext(u, o)
  PROVE  InOrder(ops', updates', a, w, l, ph, missed)
<1>1. CASE updates' = u /\ ops' = o
  BY <1>1
<1>2. ASSUME NEW i \in DOMAIN u, ~u[i].started, \A k \in DOMAIN u : ~u[k].started => i <= k,
             updates' = [u EXCEPT ![i].started = TRUE],
             \/ u[i].kind # "connection" /\ ops' = o
             \/ Waits(u[i], "up") /\ ops' = Append(o, Connect("update"))
             \/ Waits(u[i], "down") /\ ops' = Append(o, Disconnect("update"))
      PROVE  InOrder(ops', updates', a, w, l, ph, missed)
  <2> DEFINE v == updates'
  <2>1. DOMAIN u = 1..Len(u) /\ Len(u) \in Nat /\ \A k \in DOMAIN u : u[k] \in UpdatesOf(P)
    BY LenProperties, ElementOfSeq
  <2>2. /\ DOMAIN v = DOMAIN u /\ v[i].started /\ v[i].kind = u[i].kind
        /\ \A k \in DOMAIN u : k # i => v[k] = u[k]
    <3>1. u[i] \in UpdatesOf(P)
      BY <2>1
    <3> QED
      BY <1>2, <3>1 DEF UpdatesOf
  <2> HIDE DEF v
  <2>3. ASSUME UpsAreOver(u) PROVE UpsAreOver(v)
    <3>1. ASSUME NEW k \in DOMAIN v, Waits(v[k], "up")
          PROVE  \E m \in DOMAIN v : m > k /\ Waits(v[m], "down")
      <4>1. k # i /\ k \in DOMAIN u /\ Waits(u[k], "up")
        BY <2>2, <3>1 DEF Waits
      <4>2. PICK m \in DOMAIN u : m > k /\ Waits(u[m], "down")
        BY <2>3, <4>1 DEF UpsAreOver
      <4>3. i <= k
        BY <1>2, <4>1 DEF Waits
      <4>4. m # i
        BY <1>2, <2>1, <4>1, <4>2, <4>3
      <4> QED
        BY <2>2, <4>2, <4>4
    <3> QED
      BY <3>1 DEF UpsAreOver
  <2>4. Calm(o, u) => Calm(o, v)
    BY <2>2 DEF Calm
  <2>5. ~Waits(u[i], "down") => (DownWaits(v) <=> DownWaits(u))
    BY <2>2 DEF DownWaits, Waits
  <2>6. ASSUME ~Waits(u[i], "down") PROVE InOrder(o, v, a, w, l, ph, missed)
    BY <2>3, <2>4, <2>5, <2>6 DEF InOrder, Doomed, Spares, Closing
  <2>7. CASE u[i].kind # "connection" /\ ops' = o
    BY <2>6, <2>7 DEF Waits, v
  <2>8. CASE Waits(u[i], "up") /\ ops' = Append(o, Connect("update"))
    <3>1. InOrder(o, v, a, w, l, ph, missed)
      BY <2>6, <2>8 DEF Waits
    <3>2. /\ Connect("update") \in Operations /\ Connect("update").kind # "disconnect"
          /\ Connect("update").at = clock
      BY OperationsTyped DEF Callers, Connect, Operation
    <3>3. l = "down" => DownWaits(v)
      <4>1. ASSUME l = "down" PROVE DownWaits(u)
        BY <2>8, <4>1 DEF InOrder, Doomed, UpsAreOver, DownWaits
      <4> QED
        BY <2>5, <2>8, <4>1 DEF Waits
    <3>4. InOrder(Append(o, Connect("update")), v, a, w, l, ph, missed)
      BY <3>1, <3>2, <3>3, QueuedInOrder
    <3> QED
      BY <2>8, <3>4 DEF v
  <2>9. CASE Waits(u[i], "down") /\ ops' = Append(o, Disconnect("update"))
    <3> DEFINE q == Append(o, Disconnect("update"))
    <3>1. Disconnect("update") \in Operations /\ Disconnect("update").kind = "disconnect"
      BY OperationsTyped DEF Callers
    <3>2. /\ Len(o) \in Nat /\ DOMAIN o = 1..Len(o) /\ DOMAIN q = 1..Len(o) + 1
          /\ \A n \in DOMAIN o : q[n] = o[n]
          /\ q[Len(o) + 1] = Disconnect("update")
      BY <3>1, AppendLast
    <3> HIDE DEF q
    <3>3. \A n \in 0..Len(o) : Closing(q, v, n)
      <4>1. Len(o) + 1 \in DOMAIN q /\ q[Len(o) + 1].kind = "disconnect"
        BY <3>1, <3>2
      <4>2. \A n \in 0..Len(o) : Len(o) + 1 > n
        BY <3>2
      <4> QED
        BY <4>1, <4>2 DEF Closing
    <3>4. \A n \in DOMAIN q : Opens(q[n]) => n \in 0..Len(o)
      BY <3>1, <3>2 DEF Opens
    <3>5. 0 \in 0..Len(o)
      BY <3>2
    <3>6. Doomed(o, u, a) => Doomed(q, v, a)
      BY <2>3, <3>3, <3>4, <3>5 DEF Doomed
    <3>7. Spares(q, v, a, w, missed)
      BY <3>3, <3>4, <3>5 DEF Spares
    <3>8. ph \notin StartPhases
      BY <2>9 DEF InOrder, Calm, Waits
    <3>9. InOrder(q, v, a, w, l, ph, missed)
      BY <3>6, <3>7, <3>8 DEF InOrder
    <3> QED
      BY <2>9, <3>9 DEF q, v
  <2> QED
    BY <1>2, <2>7, <2>8, <2>9
<1> QED
  BY <1>1, <1>2, NextWaiting, Zenon

(* The end of a handler. *)
LEMMA EndInOrder ==
  ASSUME IInv, NEW i \in DOMAIN updates, updates[i].started, NEW o \in Seq(Operations),
         NEW a, NEW w, NEW l, NEW ph, NEW missed, InOrder(o, updates, a, w, l, ph, missed),
         \A m \in missed : m.second < Ceil(clock), EndHandling(i, o)
  PROVE  InOrder(ops', updates', a, w, l, ph, missed)
<1>1. updates \in Seq(UpdatesOf(posted)) /\ TypeOK
  BY DEF IInv, Queues
<1>2. RemoveAt(updates, i) \in Seq(UpdatesOf(posted))
  BY <1>1, Removed
<1>3. InOrder(o, RemoveAt(updates, i), a, w, l, ph, missed)
  BY <1>1, RemovedInOrder
<1> QED
  BY <1>1, <1>2, <1>3, StartInOrder DEF EndHandling

(* The first operation ends: it was no disconnect, or no window is in hand now. *)
LEMMA EndedInOrder ==
  ASSUME NEW o \in Seq(Operations), o # <<>>, NEW u, NEW a, NEW w, NEW l, NEW ph, NEW missed,
         InOrder(o, u, a, w, l, ph, missed), NEW b,
         b = None \/ (b = a /\ Head(o).kind # "disconnect")
  PROVE  InOrder(Tail(o), u, b, w, l, ph, missed)
<1> DEFINE t == Tail(o)
<1>1. /\ Len(o) \in Nat /\ Len(t) = Len(o) - 1 /\ 1 \in DOMAIN o /\ Head(o) = o[1]
      /\ \A i \in DOMAIN t : i + 1 \in DOMAIN o /\ t[i] = o[i + 1] /\ i # 0
      /\ DOMAIN o = 1..Len(o) /\ DOMAIN t = 1..Len(o) - 1
  <2>1. t \in Seq(Operations) /\ Len(t) = Len(o) - 1
    BY TailAhead
  <2>2. DOMAIN o = 1..Len(o) /\ DOMAIN t = 1..Len(t)
    BY <2>1, LenProperties
  <2> QED
    BY <2>1, <2>2, TailAhead
<1> HIDE DEF t
<1>2. ASSUME NEW n \in Nat, Closing(o, u, n + 1) PROVE Closing(t, u, n)
  <2>1. ASSUME NEW j \in DOMAIN o, j > n + 1, o[j].kind = "disconnect" PROVE Closing(t, u, n)
    <3>1. j - 1 \in DOMAIN t /\ j - 1 > n /\ t[j - 1] = o[j]
      BY <1>1, <2>1
    <3> QED
      BY <2>1, <3>1 DEF Closing
  <2> QED
    BY <1>2, <2>1 DEF Closing
<1>3. ASSUME NEW n \in Nat, Closing(t, u, n) PROVE Closing(o, u, n + 1)
  <2>1. ASSUME NEW j \in DOMAIN t, j > n, t[j].kind = "disconnect" PROVE Closing(o, u, n + 1)
    <3>1. j + 1 \in DOMAIN o /\ j + 1 > n + 1 /\ o[j + 1] = t[j]
      BY <1>1, <2>1
    <3> QED
      BY <2>1, <3>1 DEF Closing
  <2> QED
    BY <1>3, <2>1 DEF Closing
<1>4. ASSUME Head(o).kind # "disconnect" PROVE Closing(t, u, 0) <=> Closing(o, u, 0)
  <2>1. Closing(o, u, 0) => Closing(o, u, 0 + 1)
    BY <1>1, <1>4 DEF Closing
  <2>2. Closing(o, u, 0 + 1) => Closing(o, u, 0)
    BY <1>1 DEF Closing
  <2> QED
    BY <1>2, <1>3, <2>1, <2>2
<1>5. \A i \in DOMAIN t : i \in Nat /\ (Closing(t, u, i) <=> Closing(o, u, i + 1))
  BY <1>1, <1>2, <1>3
<1>6. Doomed(o, u, a) => Doomed(t, u, b)
  BY <1>1, <1>4, <1>5 DEF Doomed
<1>7. Spares(t, u, b, w, missed)
  BY <1>1, <1>4, <1>5 DEF InOrder, Spares
<1>8. Calm(o, u) => Calm(t, u)
  BY <1>1 DEF Calm
<1>9. InOrder(t, u, b, w, l, ph, missed)
  BY <1>6, <1>7, <1>8 DEF InOrder
<1> QED
  BY <1>9 DEF t

(* Which windows are open matters only for when they begin. *)
LEMMA WindowsInOrder ==
  ASSUME NEW o, NEW u, NEW a, NEW w, NEW l, NEW ph, NEW missed, InOrder(o, u, a, w, l, ph, missed),
         NEW v, \A x \in v : \E y \in w : x.start = y.start
  PROVE  InOrder(o, u, a, v, l, ph, missed)
<1>1. Spares(o, u, a, v, missed)
  <2>1. ASSUME a # None, ~Closing(o, u, 0), NEW m \in missed, NEW x \in v PROVE m.second < x.start
    BY <2>1 DEF InOrder, Spares
  <2> QED
    BY <2>1 DEF InOrder, Spares
<1> QED
  BY <1>1 DEF InOrder

(* The phase matters only where it is one of start's. *)
LEMMA PhaseInOrder ==
  ASSUME NEW o, NEW u, NEW a, NEW w, NEW l, NEW ph, NEW missed, InOrder(o, u, a, w, l, ph, missed),
         NEW q, q \in StartPhases => ph \in StartPhases
  PROVE  InOrder(o, u, a, w, l, q, missed)
BY DEF InOrder

(* When an operation ends, whoever waited for it goes on. *)
LEMMA ReturnInOrder ==
  ASSUME IInv, ops # <<>>, Return, phase \in StartPhases \cup {"running"},
         NEW a, NEW w, NEW l, NEW missed,
         InOrder(Tail(ops), updates, a, w, l, phase, missed),
         \A m \in missed : m.second < Ceil(clock)
  PROVE  /\ InOrder(ops', updates', a, w, l, phase', missed)
         /\ phase' = phase
            \/ (phase \in StartPhases /\ phase' \in StartPhases \ {"connecting", "restoring"})
         /\ phase # "connecting" \/ phase' # "connecting"
<1>1. ops \in Seq(Operations) /\ updates \in Seq(UpdatesOf(posted)) /\ TypeOK
      /\ Fits(ops, phase, windows, active)
  BY DEF IInv, Queues, Fits
<1>2. Tail(ops) \in Seq(Operations) /\ Head(ops) \in Operations
  BY <1>1, TailAhead, HeadTailProperties
<1>3. Sync("module") \in Operations /\ Sync("module").kind = "register"
      /\ Wait \in Operations /\ Wait.kind = "wait"
  BY <1>1, OperationsTyped DEF Callers
<1>4. CASE Head(ops).caller = "module"
  <2>1. Continue /\ UNCHANGED updates
    BY <1>4 DEF Return
  <2>2. phase # "closing"
    BY DEF StartPhases
  <2>3. /\ phase \in StartPhases /\ phase' \in StartPhases \ {"connecting", "restoring"}
        /\ \/ ops' = Tail(ops)
           \/ ops' = Append(Tail(ops), Sync("module"))
           \/ ops' = Append(Tail(ops), Wait)
    BY <2>1, <2>2 DEF Continue, StartPhases
  <2>4. InOrder(Tail(ops), updates, a, w, l, phase', missed)
    BY <2>3, PhaseInOrder
  <2>5. InOrder(Append(Tail(ops), Sync("module")), updates, a, w, l, phase', missed)
    BY <1>2, <1>3, <2>4, QueuedInOrder DEF Opens
  <2>6. InOrder(Append(Tail(ops), Wait), updates, a, w, l, phase', missed)
    BY <1>2, <1>3, <2>4, QueuedInOrder DEF Opens
  <2> QED
    BY <2>1, <2>3, <2>4, <2>5, <2>6
<1>5. CASE Head(ops).caller # "module"
  <2>1. phase # "connecting"
    BY <1>1, <1>5 DEF Fits
  <2>2. CASE Head(ops).caller = "update"
    <3>1. Answer(Tail(ops)) /\ UNCHANGED phase
      BY <2>2 DEF Return
    <3>2. PICK i \in DOMAIN updates : updates[i].started /\ EndHandling(i, Tail(ops))
      BY <3>1 DEF Answer, Being
    <3>3. InOrder(ops', updates', a, w, l, phase, missed)
      BY <1>2, <3>2, EndInOrder
    <3> QED
      BY <2>1, <3>1, <3>3
  <2>3. CASE Head(ops).caller = "nobody"
    BY <2>1, <2>3 DEF Return
  <2> QED
    BY <1>2, <1>5, <2>2, <2>3 DEF Operations, Callers
<1> QED
  BY <1>4, <1>5

(* The operation that takes the place of the first does not close a window, and *)
(* opens one, if it does, when the first would have.                          *)
LEMMA BecomesInOrder ==
  ASSUME IInv, ops # <<>>, Head(ops).kind # "disconnect",
         NEW kind, kind \in {"open", "register"}, NEW at \in Nat, Becomes(kind, at),
         kind = "open" => Opens(Head(ops)) /\ at = Head(ops).at,
         NEW a, NEW w, NEW l, NEW ph, NEW missed,
         InOrder(ops, updates, active, windows, l, ph, missed),
         \/ a = active /\ \A x \in w : \E y \in windows : x.start = y.start
         \/ a = None
         \/ Head(ops).kind = "open" /\ \A x \in w : x.start = Ceil(Head(ops).at)
  PROVE  InOrder(ops', updates', a, w, l, ph, missed) /\ UNCHANGED <<updates, phase>>
<1> DEFINE h == HeadAs(kind, at)
<1>1. ops \in Seq(Operations)
  BY DEF IInv, Queues, Fits
<1>2. /\ ops' \in Seq(Operations) /\ DOMAIN ops = 1..Len(ops) /\ DOMAIN ops' = 1..Len(ops)
      /\ Len(ops) \in Nat \ {0} /\ Head(ops) = ops[1]
      /\ \A i \in 1..Len(ops) : ops'[i] = IF i = 1 THEN h ELSE ops[i]
      /\ h.kind = kind /\ h.at = at
  BY HeadBecomes
<1> HIDE DEF h
<1>3. 1 \in DOMAIN ops /\ 1 \in DOMAIN ops' /\ DOMAIN ops' = DOMAIN ops
  BY <1>2
<1>4. ops'[1].kind # "disconnect" /\ ops[1].kind # "disconnect"
  BY <1>2
<1>5. \A i \in DOMAIN ops : i # 1 => ops'[i] = ops[i]
  BY <1>2
<1>6. \A n : Closing(ops', updates, n) <=> Closing(ops, updates, n)
  BY <1>3, <1>4, <1>5 DEF Closing
<1>7. Closing(ops, updates, 1) <=> Closing(ops, updates, 0)
  BY <1>2, <1>4 DEF Closing
<1>8. Opens(ops'[1]) => Opens(ops[1]) /\ ops'[1].at = ops[1].at
  BY <1>2 DEF Opens
<1>9. \A i \in DOMAIN ops' : Opens(ops'[i]) => Opens(ops[i]) /\ ops'[i].at = ops[i].at
  BY <1>3, <1>5, <1>8
<1>10. Doomed(ops, updates, active) => Doomed(ops', updates, a)
  <2>1. ASSUME Doomed(ops, updates, active), a # None PROVE Closing(ops, updates, 0)
    BY <1>2, <1>3, <1>7, <2>1 DEF Doomed, Opens
  <2> QED
    BY <1>3, <1>6, <1>9, <2>1 DEF Doomed
<1>11. Spares(ops', updates, a, w, missed)
  <2>1. ASSUME a # None, ~Closing(ops, updates, 0), NEW m \in missed, NEW x \in w
        PROVE  m.second < x.start
    <3>1. CASE a = active /\ \E y \in windows : x.start = y.start
      BY <2>1, <3>1 DEF InOrder, Spares
    <3>2. CASE Head(ops).kind = "open" /\ x.start = Ceil(Head(ops).at)
      BY <1>2, <1>3, <1>7, <2>1, <3>2 DEF InOrder, Spares, Opens
    <3> QED
      BY <2>1, <3>1, <3>2
  <2> QED
    BY <1>3, <1>6, <1>9, <2>1 DEF InOrder, Spares
<1>12. Calm(ops, updates) => Calm(ops', updates)
  BY <1>3, <1>4, <1>5 DEF Calm
<1>13. UNCHANGED <<updates, phase>>
  BY DEF Becomes
<1> QED
  BY <1>10, <1>11, <1>12, <1>13 DEF InOrder

(* What TDLib tells is heard in order: a connection that goes dooms what is     *)
(* open or about to be.                                                       *)
LEMMA HeardInOrder ==
  ASSUME NEW P, NEW u \in Seq(UpdatesOf(P)), NEW x \in UpdatesOf(P), ~x.started,
         NEW o, NEW a, NEW w, NEW l, NEW ph, NEW missed, InOrder(o, u, a, w, l, ph, missed),
         NEW k, \/ x.kind # "connection" /\ k = l
                \/ Waits(x, k) /\ k \in {"up", "down"} /\ ph \notin StartPhases
  PROVE  InOrder(o, Append(u, x), a, w, k, ph, missed)
<1> DEFINE v == Append(u, x)
<1>1. /\ Len(u) \in Nat /\ DOMAIN u = 1..Len(u) /\ DOMAIN v = 1..Len(u) + 1
      /\ \A i \in DOMAIN u : v[i] = u[i]
      /\ v[Len(u) + 1] = x
  BY AppendLast
<1> HIDE DEF v
<1>2. \A i \in DOMAIN v : i \in DOMAIN u \/ (i = Len(u) + 1 /\ v[i] = x)
  BY <1>1
<1>3. DownWaits(u) => DownWaits(v)
  BY <1>1 DEF DownWaits
<1>4. \A n : Closing(o, u, n) => Closing(o, v, n)
  BY <1>3 DEF Closing
<1>5. Spares(o, v, a, w, missed)
  BY <1>4 DEF InOrder, Spares
<1>6. CASE x.kind # "connection" /\ k = l
  <2>1. UpsAreOver(u) => UpsAreOver(v)
    BY <1>1, <1>2, <1>6 DEF UpsAreOver, Waits
  <2>2. Calm(o, u) => Calm(o, v)
    BY <1>1, <1>2, <1>6 DEF Calm
  <2>3. InOrder(o, v, a, w, k, ph, missed)
    BY <1>4, <1>5, <1>6, <2>1, <2>2 DEF InOrder, Doomed
  <2> QED
    BY <2>3 DEF v
<1>7. CASE Waits(x, k) /\ k = "down" /\ ph \notin StartPhases
  <2>1. Len(u) + 1 \in DOMAIN v /\ Waits(v[Len(u) + 1], "down")
    BY <1>1, <1>7
  <2>2. DownWaits(v)
    BY <2>1 DEF DownWaits
  <2>3. UpsAreOver(v)
    <3>1. ASSUME NEW i \in DOMAIN v, Waits(v[i], "up") PROVE Len(u) + 1 > i
      BY <1>1, <1>7, <3>1 DEF Waits
    <3> QED
      BY <2>1, <3>1 DEF UpsAreOver
  <2>4. InOrder(o, v, a, w, k, ph, missed)
    BY <1>5, <1>7, <2>2, <2>3 DEF InOrder, Doomed, Closing
  <2> QED
    BY <2>4 DEF v
<1>8. CASE Waits(x, k) /\ k = "up" /\ ph \notin StartPhases
  <2>1. InOrder(o, v, a, w, k, ph, missed)
    BY <1>5, <1>8 DEF InOrder
  <2> QED
    BY <2>1 DEF v
<1> QED
  BY <1>6, <1>7, <1>8

(* While the connection is down, more may be missed. *)
LEMMA DoomedInOrder ==
  ASSUME NEW o, NEW u, NEW a, NEW w, NEW ph, NEW missed, InOrder(o, u, a, w, "down", ph, missed),
         NEW more
  PROVE  InOrder(o, u, a, w, "down", ph, more)
BY DEF InOrder, Doomed, Spares

-----------------------------------------------------------------------------
(* The messages that are handled *)

(* Starting a handler does not take its update away. *)
LEMMA StartedUnhandled ==
  ASSUME NEW P, NEW u \in Seq(UpdatesOf(P)), NEW o, StartNext(u, o)
  PROVE  Unhandled(updates') = Unhandled(u)
<1>1. CASE updates' = u
  BY <1>1
<1>2. ASSUME NEW i \in DOMAIN u, updates' = [u EXCEPT ![i].started = TRUE]
      PROVE  Unhandled(updates') = Unhandled(u)
  <2>1. u[i] \in UpdatesOf(P)
    BY LenProperties, ElementOfSeq
  <2>2. /\ DOMAIN updates' = DOMAIN u
        /\ \A k \in DOMAIN u : updates'[k].kind = u[k].kind /\ updates'[k].what = u[k].what
    BY <1>2, <2>1 DEF UpdatesOf
  <2> QED
    BY <2>2 DEF Unhandled
<1> QED
  BY <1>1, <1>2, NextWaiting

(* The end of a handler takes away its own. *)
LEMMA EndedUnhandled ==
  ASSUME IInv, NEW i \in DOMAIN updates, NEW o, EndHandling(i, o)
  PROVE  /\ updates[i].kind = "message" => Unhandled(updates) \subseteq Unhandled(updates') \cup {updates[i].what}
         /\ updates[i].kind # "message" => Unhandled(updates) \subseteq Unhandled(updates')
<1> DEFINE r == RemoveAt(updates, i)
<1>1. updates \in Seq(UpdatesOf(posted))
  BY DEF IInv, Queues
<1>2. /\ DOMAIN updates = 1..Len(updates) /\ Len(updates) \in Nat
      /\ r \in Seq(UpdatesOf(posted)) /\ DOMAIN r = 1..Len(updates) - 1
      /\ \A k \in 1..Len(updates) - 1 :
           (k < i => r[k] = updates[k]) /\ (k >= i => r[k] = updates[k + 1])
  BY <1>1, Removed
<1> HIDE DEF r
<1>3. ASSUME NEW k \in DOMAIN updates, k # i, updates[k].kind = "message"
      PROVE  updates[k].what \in Unhandled(r)
  <2>1. CASE k < i
    <3>1. k \in DOMAIN r /\ r[k] = updates[k]
      BY <1>2, <2>1
    <3> QED
      BY <1>3, <3>1 DEF Unhandled
  <2>2. CASE k > i
    <3>1. k - 1 \in 1..Len(updates) - 1 /\ k - 1 >= i /\ (k - 1) + 1 = k
      BY <1>2, <2>2
    <3>2. k - 1 \in DOMAIN r /\ r[k - 1] = updates[k]
      BY <1>2, <3>1
    <3> QED
      BY <1>3, <3>2 DEF Unhandled
  <2> QED
    BY <1>2, <1>3, <2>1, <2>2
<1>4. Unhandled(updates') = Unhandled(r)
  BY <1>2, StartedUnhandled DEF EndHandling, r
<1> QED
  BY <1>3, <1>4 DEF Unhandled

(* What is heard is handled, unless nobody listens. *)
LEMMA HeardUnhandled ==
  ASSUME NEW P, updates \in Seq(UpdatesOf(P)), NEW x \in UpdatesOf(P), Receive(x)
  PROVE  /\ Unhandled(updates) \subseteq Unhandled(updates')
         /\ Listening /\ x.kind = "message" => x.what \in Unhandled(updates')
<1>1. CASE Listening
  <2> DEFINE v == Append(updates, x)
  <2>1. /\ v \in Seq(UpdatesOf(P)) /\ Len(updates) \in Nat
        /\ DOMAIN updates = 1..Len(updates) /\ DOMAIN v = 1..Len(updates) + 1
        /\ \A i \in DOMAIN updates : v[i] = updates[i]
        /\ v[Len(updates) + 1] = x
    BY AppendLast
  <2>2. Unhandled(updates') = Unhandled(v)
    BY <1>1, <2>1, StartedUnhandled DEF Receive
  <2> HIDE DEF v
  <2>3. Unhandled(updates) \subseteq Unhandled(v)
    BY <2>1 DEF Unhandled
  <2>4. Len(updates) + 1 \in DOMAIN v
    BY <2>1
  <2> QED
    BY <2>1, <2>2, <2>3, <2>4 DEF Unhandled
<1>2. CASE ~Listening
  BY <1>2 DEF Receive
<1> QED
  BY <1>1, <1>2

(* An answer ends the handler of a connection state. *)
LEMMA AnsweredUnhandled ==
  ASSUME IInv, NEW o, Answer(o)
  PROVE  Unhandled(updates) \subseteq Unhandled(updates')
<1>1. PICK i \in DOMAIN updates : Being(i, "connection") /\ EndHandling(i, o)
  BY DEF Answer
<1> QED
  BY <1>1, EndedUnhandled DEF Being

(* So no operation that ends takes a message away. *)
LEMMA ReturnedUnhandled ==
  ASSUME IInv, Return
  PROVE  Unhandled(updates) \subseteq Unhandled(updates')
BY AnsweredUnhandled DEF Return

(* What was seen stays in hand as long as what goes out of hand is stored, or  *)
(* counted as lost.                                                           *)
LEMMA StaysSeen ==
  ASSUME SeenInHand, posted' = posted, stored \subseteq stored', lost \subseteq lost',
         Unhandled(updates) \subseteq stored' \cup lost' \cup Unhandled(updates')
  PROVE  SeenInHand'
BY DEF SeenInHand

(* Every step keeps in hand what the program saw. *)
LEMMA StepSeen ==
  ASSUME IInv, SeenInHand, [Next]_vars
  PROVE  SeenInHand'
<1>1. CASE TimePasses
  BY <1>1 DEF TimePasses, SeenInHand, store, process
<1>2. CASE ConnectionChanges
  <2>1. Update("connection", link') \in UpdatesOf(posted)
    BY <1>2, UpdatesTyped DEF ConnectionChanges
  <2>2. Unhandled(updates) \subseteq Unhandled(updates')
    BY <1>2, <2>1, HeardUnhandled DEF ConnectionChanges, IInv, Queues
  <2> QED
    BY <1>2, <2>2, StaysSeen DEF ConnectionChanges, store
<1>3. ASSUME NEW c \in Chats, Post(c) PROVE SeenInHand'
  <2> DEFINE member == joined[c] # None
             seen == member /\ link = "up" /\ Listening
             m == [chat |-> c, second |-> Second(clock), member |-> member, seen |-> seen]
  <2>1. /\ posted' = posted \cup {m}
        /\ IF seen THEN Receive(Update("message", m)) ELSE UNCHANGED <<updates, ops>>
        /\ UNCHANGED <<store, lost>>
    BY <1>3 DEF Post
  <2>2. updates \in Seq(UpdatesOf(posted')) /\ Update("message", m) \in UpdatesOf(posted')
    BY <2>1, MorePosted, UpdatesTyped DEF IInv, Queues
  <2>3. Update("message", m).kind = "message" /\ Update("message", m).what = m /\ m.seen = seen
    BY DEF Update
  <2> HIDE DEF m
  <2>4. Unhandled(updates) \subseteq Unhandled(updates') /\ (seen => m \in Unhandled(updates'))
    BY <2>1, <2>2, <2>3, HeardUnhandled
  <2> QED
    BY <2>1, <2>3, <2>4 DEF SeenInHand, store
<1>4. ASSUME NEW c \in Chats, Join(c) PROVE SeenInHand'
  <2>1. Update("chat", c) \in UpdatesOf(posted)
    BY UpdatesTyped
  <2>2. Unhandled(updates) \subseteq Unhandled(updates')
    BY <1>4, <2>1, HeardUnhandled DEF Join, IInv, Queues
  <2> QED
    BY <1>4, <2>2, StaysSeen DEF Join, store
<1>5. ASSUME NEW i \in DOMAIN updates, HandleMessage(i) PROVE SeenInHand'
  BY <1>5, EndedUnhandled, StaysSeen DEF HandleMessage, Being, world
<1>6. ASSUME NEW i \in DOMAIN updates, HandleChat(i) PROVE SeenInHand'
  BY <1>6, EndedUnhandled, StaysSeen DEF HandleChat, Being, world
<1>7. ASSUME NEW i \in DOMAIN updates, HandlingFails(i) PROVE SeenInHand'
  <2>1. updates[i].kind = "message" => updates[i].what \in Unhandled(<<updates[i]>>)
    BY DEF Unhandled
  <2> QED
    BY <1>7, <2>1, EndedUnhandled, StaysSeen DEF HandlingFails, world, store
<1>8. CASE Recover \/ Open
  BY <1>8, StaysSeen DEF Recover, Open, Becomes, world
<1>9. CASE AlreadyConnected \/ Register \/ RecordLiveMessage \/ ExtendNothing \/ Close \/ Waited
  BY <1>9, ReturnedUnhandled, StaysSeen
     DEF AlreadyConnected, Register, RecordLiveMessage, ExtendNothing, Close, Waited, world, store
<1>10. CASE ExtendWindow
  <2>1. Unhandled(updates) \subseteq Unhandled(updates')
    BY <1>10, ReturnedUnhandled DEF ExtendWindow, Becomes
  <2> QED
    BY <1>10, <2>1, StaysSeen DEF ExtendWindow, world
<1>11. CASE OpFails
  <2>1. Unhandled(updates) \subseteq Unhandled(updates')
    BY <1>11, AnsweredUnhandled DEF OpFails
  <2> QED
    BY <1>11, <2>1, StaysSeen DEF OpFails, world, store
<1>12. CASE StartUp \/ Starts \/ LiveTick \/ Stop
  BY <1>12, StaysSeen DEF StartUp, Starts, SyncInitialChats, Drain, ListChats, AskFor, EndRestore,
     StopDrained, LiveTick, Stop, world, store, process
<1>13. CASE Exit
  <2>1. updates = <<>>
    BY <1>13 DEF Exit, IInv, Hand
  <2>2. Unhandled(updates) = {}
    BY <2>1 DEF Unhandled
  <2> QED
    BY <1>13, <2>2, StaysSeen DEF Exit, world, store
<1>14. CASE Crash
  BY <1>14, StaysSeen DEF Crash, world, store
<1>15. CASE UNCHANGED vars
  BY <1>15 DEF vars, world, store, process, SeenInHand
<1> QED
  BY <1>1, <1>2, <1>3, <1>4, <1>5, <1>6, <1>7, <1>8, <1>9, <1>10, <1>11, <1>12, <1>13, <1>14, <1>15
     DEF Next, Handles, Observes

-----------------------------------------------------------------------------
(* Every step keeps the queues in order *)

(* What is sent is sent before the next second. *)
LEMMA StepClocked ==
  ASSUME IInv, Clocked, [Next]_vars
  PROVE  Clocked'
<1>1. clock \in Nat /\ \A m \in posted : m.second \in Nat
  BY Numbers DEF IInv
<1>2. CASE TimePasses
  <2>1. posted' = posted /\ clock' = clock + 1
    BY <1>2 DEF TimePasses
  <2>2. Ceil(clock) <= Ceil(clock + 1)
    BY <1>1 DEF Ceil
  <2> QED
    BY <1>1, <2>1, <2>2 DEF Clocked, Ceil
<1>3. ASSUME NEW c \in Chats, Post(c) PROVE Clocked'
  <2>1. PICK m : posted' = posted \cup {m} /\ m.second = Second(clock) /\ clock % 2 = 1 /\ clock' = clock
    BY <1>3 DEF Post
  <2>2. Second(clock) < Ceil(clock)
    BY <1>1, <2>1 DEF Second, Ceil
  <2> QED
    BY <2>1, <2>2 DEF Clocked
<1>4. CASE UNCHANGED <<clock, posted>>
  BY <1>4 DEF Clocked
<1>5. TimePasses \/ (\E c \in Chats : Post(c)) \/ UNCHANGED <<clock, posted>>
  BY DEF Next, vars, world, ConnectionChanges, Join, Handles, HandleMessage, HandleChat, HandlingFails,
     Observes, AlreadyConnected, Recover, Open, Register, RecordLiveMessage, ExtendWindow,
     ExtendNothing, Close, Waited, OpFails, StartUp, Starts, SyncInitialChats, Drain, ListChats,
     AskFor, EndRestore, StopDrained, LiveTick, Stop, Exit, Crash
<1> QED
  BY <1>2, <1>3, <1>4, <1>5

(* An operation that ends takes start further, but not into or out of where it  *)
(* serves.                                                                    *)
LEMMA ReturnServes ==
  ASSUME IInv, ops # <<>>, Return, Serving'
  PROVE  Serving /\ phase \in StartPhases \cup {"running"}
<1>1. Head(ops) \in Operations
  BY UnderWay
<1>2. Head(ops).caller \in Callers
  BY <1>1 DEF Operations
<1>3. CASE UNCHANGED phase
  BY <1>3 DEF Serving
<1>4. CASE Continue
  BY <1>4 DEF Continue, Serving, StartPhases
<1> QED
  BY <1>2, <1>3, <1>4 DEF Return, Callers

(* An operation that ends and leaves the windows alone, or closes them. *)
LEMMA OperationEnds ==
  ASSUME IInv, Clocked, Serving => Ordered, Serving', ops # <<>>, Return, UNCHANGED world,
         active' = None \/ (active' = active /\ Head(ops).kind # "disconnect"),
         \A x \in windows' : \E y \in windows : x.start = y.start
  PROVE  Ordered'
<1>1. Ordered /\ phase \in StartPhases \cup {"running"}
  BY ReturnServes
<1>2. ops \in Seq(Operations)
  BY DEF IInv, Queues, Fits
<1>3. InOrder(Tail(ops), updates, active', windows, link, phase, Missed)
  BY <1>1, <1>2, EndedInOrder DEF Ordered
<1>4. InOrder(Tail(ops), updates, active', windows', link, phase, Missed)
  BY <1>3, WindowsInOrder
<1>5. \A m \in Missed : m.second < Ceil(clock)
  BY DEF Missed, Clocked
<1>6. InOrder(ops', updates', active', windows', link, phase', Missed)
  BY <1>1, <1>4, <1>5, ReturnInOrder
<1>7. Missed' = Missed /\ link' = link
  BY DEF world, Missed
<1> QED
  BY <1>6, <1>7 DEF Ordered

(* The observer opens windows after what was missed, and closes them in time.   *)
LEMMA ObserverInOrder ==
  ASSUME IInv, Clocked, Serving => Ordered, Serving', Observes
  PROVE  Ordered'
<1>1. CASE AlreadyConnected \/ Register \/ RecordLiveMessage \/ ExtendNothing \/ Waited
  <2>1. /\ ops # <<>> /\ Return /\ UNCHANGED <<world, windows, active>>
        /\ Head(ops).kind # "disconnect"
    BY <1>1 DEF AlreadyConnected, Register, RecordLiveMessage, ExtendNothing, Waited, Current,
       store, observer
  <2> QED
    BY <2>1, OperationEnds
<1>2. CASE Close
  <2>1. ops # <<>> /\ Return /\ UNCHANGED world /\ active' = None /\ windows' \subseteq windows
    BY <1>2 DEF Close, Current, CloseWindow, Forget
  <2> QED
    BY <2>1, OperationEnds
<1>3. CASE Recover
  <2>1. /\ ops # <<>> /\ Head(ops).kind = "connect" /\ active = None /\ windows' = {}
        /\ Becomes("open", Head(ops).at) /\ UNCHANGED <<world, active>>
    BY <1>3 DEF Recover, Current, RecoverWindows, observer
  <2>2. Head(ops) \in Operations
    BY <2>1, UnderWay
  <2>3. Head(ops).at \in Nat
    BY <2>1, <2>2 DEF Operations
  <2>4. Ordered
    BY <2>1 DEF Becomes, Serving
  <2>5. InOrder(ops', updates', active', windows', link, phase, Missed) /\ UNCHANGED <<updates, phase>>
    BY <2>1, <2>3, <2>4, BecomesInOrder DEF Ordered, Opens
  <2> QED
    BY <2>1, <2>5 DEF Ordered, Missed, world
<1>4. CASE Open
  <2> DEFINE start == OpensAt(Head(ops).at)
  <2>1. /\ ops # <<>> /\ Head(ops).kind = "open" /\ active' = FreshId
        /\ windows' = windows \cup {[id |-> FreshId, start |-> start, end |-> start]}
        /\ Becomes("register", start) /\ UNCHANGED world
    BY <1>4 DEF Open, Current
  <2>2. Head(ops) \in Operations /\ windows = {}
    BY <2>1, UnderWay
  <2>3. start \in Nat /\ start = Ceil(Head(ops).at)
    <3>1. Head(ops).at \in Nat
      BY <2>1, <2>2 DEF Operations
    <3> QED
      BY <3>1 DEF OpensAt, Ceil
  <2>4. Ordered
    BY <2>1 DEF Becomes, Serving
  <2> HIDE DEF start
  <2>5. \A x \in windows' : x.start = Ceil(Head(ops).at)
    BY <2>1, <2>2, <2>3
  <2>6. InOrder(ops', updates', active', windows', link, phase, Missed) /\ UNCHANGED <<updates, phase>>
    BY <2>1, <2>3, <2>4, <2>5, BecomesInOrder DEF Ordered
  <2> QED
    BY <2>1, <2>6 DEF Ordered, Missed, world
<1>5. CASE ExtendWindow
  <2> DEFINE at == Ceil(Head(ops).at)
  <2>1. /\ ops # <<>> /\ Head(ops).kind = "extend" /\ windows' = Extended(at)
        /\ Becomes("register", at) \/ Return
        /\ UNCHANGED <<world, active>>
    BY <1>5 DEF ExtendWindow, Current, observer
  <2>2. Head(ops) \in Operations
    BY <2>1, UnderWay
  <2>3. at \in Nat
    <3>1. Head(ops).at \in Nat
      BY <2>1, <2>2 DEF Operations
    <3> QED
      BY <3>1 DEF Ceil
  <2> HIDE DEF at
  <2>4. \A x \in windows' : \E y \in windows : x.start = y.start
    <3>1. \A y \in windows : [y EXCEPT !.end = at].start = y.start
      BY DEF IInv, TypeOK, Windows
    <3> QED
      BY <2>1, <3>1 DEF Extended
  <2>5. CASE Return
    BY <2>1, <2>4, <2>5, OperationEnds
  <2>6. CASE Becomes("register", at)
    <3>1. Ordered
      BY <2>6 DEF Becomes, Serving
    <3>2. InOrder(ops', updates', active', windows', link, phase, Missed)
          /\ UNCHANGED <<updates, phase>>
      BY <2>1, <2>3, <2>4, <2>6, <3>1, BecomesInOrder DEF Ordered
    <3> QED
      BY <2>1, <3>2 DEF Ordered, Missed, world
  <2> QED
    BY <2>1, <2>5, <2>6
<1> QED
  BY <1>1, <1>2, <1>3, <1>4, <1>5 DEF Observes

(* What Telegram does comes in order. *)
LEMMA TelegramInOrder ==
  ASSUME IInv, Clocked, Serving => Ordered, Serving', LinkHoldsAtStart,
         TimePasses \/ ConnectionChanges \/ \E c \in Chats : Post(c) \/ Join(c)
  PROVE  Ordered'
<1>1. UNCHANGED <<phase, active, windows>>
  BY DEF TimePasses, ConnectionChanges, Post, Join, store, observer, process
<1>2. /\ Ordered /\ Serving /\ TypeOK /\ phase \in StartPhases \cup {"running"} /\ Listening
      /\ ops \in Seq(Operations) /\ updates \in Seq(UpdatesOf(posted))
  BY <1>1, PhasesAre DEF Serving, IInv, Queues, Fits
<1>3. \A m \in Missed : m.second < Ceil(clock)
  BY DEF Missed, Clocked
<1>4. CASE TimePasses
  BY <1>1, <1>2, <1>4 DEF TimePasses, process, Ordered, Missed
<1>5. CASE ConnectionChanges
  <2> DEFINE x == Update("connection", link')
  <2>1. /\ phase = "running" /\ link' \in {"up", "down"} /\ posted' = posted
        /\ StartNext(Append(updates, x), ops)
    BY <1>2, <1>5 DEF ConnectionChanges, Receive
  <2>2. x \in UpdatesOf(posted) /\ ~x.started /\ Waits(x, link') /\ phase \notin StartPhases
    BY <2>1, UpdatesTyped DEF Update, Waits, StartPhases
  <2> HIDE DEF x
  <2>3. InOrder(ops, Append(updates, x), active, windows, link', phase, Missed)
    BY <1>2, <2>1, <2>2, HeardInOrder DEF Ordered
  <2>4. Append(updates, x) \in Seq(UpdatesOf(posted))
    BY <1>2, <2>2, AppendProperties
  <2>5. InOrder(ops', updates', active, windows, link', phase, Missed)
    BY <1>2, <1>3, <2>1, <2>3, <2>4, StartInOrder
  <2> QED
    BY <1>1, <2>1, <2>5 DEF Ordered, Missed
<1>6. ASSUME NEW c \in Chats, Join(c) PROVE Ordered'
  <2> DEFINE x == Update("chat", c)
  <2>1. UNCHANGED <<link, posted>> /\ StartNext(Append(updates, x), ops)
    BY <1>2, <1>6 DEF Join, Receive
  <2>2. x \in UpdatesOf(posted) /\ ~x.started /\ x.kind # "connection"
    BY UpdatesTyped DEF Update
  <2> HIDE DEF x
  <2>3. InOrder(ops, Append(updates, x), active, windows, link, phase, Missed)
    BY <1>2, <2>2, HeardInOrder DEF Ordered
  <2>4. Append(updates, x) \in Seq(UpdatesOf(posted))
    BY <1>2, <2>2, AppendProperties
  <2>5. InOrder(ops', updates', active, windows, link, phase, Missed)
    BY <1>2, <1>3, <2>1, <2>3, <2>4, StartInOrder
  <2> QED
    BY <1>1, <2>1, <2>5 DEF Ordered, Missed
<1>7. ASSUME NEW c \in Chats, Post(c) PROVE Ordered'
  <2> DEFINE member == joined[c] # None
             seen == member /\ link = "up" /\ Listening
             m == [chat |-> c, second |-> Second(clock), member |-> member, seen |-> seen]
             x == Update("message", m)
  <2>1. /\ posted' = posted \cup {m} /\ UNCHANGED link
        /\ IF seen THEN Receive(x) ELSE UNCHANGED <<updates, ops>>
    BY <1>7 DEF Post
  <2>2. m.member = member /\ m.seen = seen /\ x.kind = "message" /\ ~x.started
    BY DEF Update
  <2>3. updates \in Seq(UpdatesOf(posted')) /\ x \in UpdatesOf(posted')
    BY <1>2, <2>1, MorePosted, UpdatesTyped
  <2> HIDE DEF m, x
  <2>4. CASE seen
    <3>1. Missed' = Missed
      BY <2>1, <2>2, <2>4 DEF Missed
    <3>2. InOrder(ops, Append(updates, x), active, windows, link, phase, Missed)
      BY <1>2, <2>2, <2>3, HeardInOrder DEF Ordered
    <3>3. Append(updates, x) \in Seq(UpdatesOf(posted')) /\ StartNext(Append(updates, x), ops)
      BY <1>2, <2>1, <2>3, <2>4, AppendProperties DEF Receive
    <3>4. InOrder(ops', updates', active, windows, link, phase, Missed)
      BY <1>2, <1>3, <3>2, <3>3, StartInOrder
    <3> QED
      BY <1>1, <2>1, <3>1, <3>4 DEF Ordered
  <2>5. CASE ~seen /\ ~member
    <3>1. Missed' = Missed
      BY <2>1, <2>2, <2>5 DEF Missed
    <3> QED
      BY <1>1, <1>2, <2>1, <2>5, <3>1 DEF Ordered
  <2>6. CASE ~seen /\ member
    <3>1. link = "down"
      BY <1>2, <2>6 DEF TypeOK
    <3>2. InOrder(ops, updates, active, windows, "down", phase, Missed')
      BY <1>2, <3>1, DoomedInOrder DEF Ordered
    <3> QED
      BY <1>1, <2>1, <2>6, <3>1, <3>2 DEF Ordered
  <2> QED
    BY <2>4, <2>5, <2>6
<1> QED
  BY <1>4, <1>5, <1>6, <1>7

(* Handlers end, and operations fail, without disturbing the order. *)
LEMMA HandlersInOrder ==
  ASSUME IInv, Clocked, Serving => Ordered, Serving',
         OpFails \/ \E i \in DOMAIN updates : HandleMessage(i) \/ HandleChat(i) \/ HandlingFails(i)
  PROVE  Ordered'
<1>1. UNCHANGED <<phase, active, windows, link, posted>>
  BY DEF OpFails, HandleMessage, HandleChat, HandlingFails, world, store, observer
<1>2. /\ Ordered /\ Serving /\ TypeOK /\ ops \in Seq(Operations) /\ Missed' = Missed
      /\ updates \in Seq(UpdatesOf(posted))
  BY <1>1 DEF Serving, IInv, Queues, Fits, Missed
<1>3. \A m \in Missed : m.second < Ceil(clock)
  BY DEF Missed, Clocked
<1>4. CASE OpFails
  <2>1. ops # <<>> /\ (Head(ops).kind = "disconnect" => active # None /\ ~ClosesSucceed)
        /\ (Answer(Tail(ops)) \/ (ops' = Tail(ops) /\ UNCHANGED updates))
    BY <1>4 DEF OpFails, Current, Rest
  <2>2. Head(ops).kind # "disconnect"
    <3>1. 1 \in DOMAIN ops /\ Head(ops) = ops[1]
      BY <1>2, <2>1, TailAhead
    <3> QED
      BY <1>2, <2>1, <3>1 DEF Serving, Ordered, InOrder, Calm
  <2>3. InOrder(Tail(ops), updates, active, windows, link, phase, Missed)
    BY <1>2, <2>1, <2>2, EndedInOrder DEF Ordered
  <2>4. CASE ops' = Tail(ops) /\ UNCHANGED updates
    BY <1>1, <1>2, <2>3, <2>4 DEF Ordered
  <2>5. CASE Answer(Tail(ops))
    <3>1. PICK i \in DOMAIN updates : updates[i].started /\ EndHandling(i, Tail(ops))
      BY <2>5 DEF Answer, Being
    <3>2. Tail(ops) \in Seq(Operations)
      BY <1>2, <2>1, TailAhead
    <3>3. InOrder(ops', updates', active, windows, link, phase, Missed)
      BY <1>3, <2>3, <3>1, <3>2, EndInOrder
    <3> QED
      BY <1>1, <1>2, <3>3 DEF Ordered
  <2> QED
    BY <2>1, <2>4, <2>5
<1>5. ASSUME NEW i \in DOMAIN updates, HandleMessage(i) PROVE Ordered'
  <2> DEFINE p == Record(updates[i].what)
  <2>1. updates[i].started /\ EndHandling(i, Append(ops, p)) /\ updates[i].kind = "message"
    BY <1>5 DEF HandleMessage, Being
  <2>2. updates[i].what \in posted
    BY <1>2, <2>1, LenProperties, ElementOfSeq DEF UpdatesOf
  <2>3. p \in Operations /\ p.kind = "record"
    BY <1>2, <2>2, OperationsTyped
  <2> HIDE DEF p
  <2>4. Append(ops, p) \in Seq(Operations)
    BY <1>2, <2>3, AppendProperties
  <2>5. InOrder(Append(ops, p), updates, active, windows, link, phase, Missed)
    BY <1>2, <2>3, QueuedInOrder DEF Ordered, Opens
  <2>6. InOrder(ops', updates', active, windows, link, phase, Missed)
    BY <1>3, <2>1, <2>4, <2>5, EndInOrder
  <2> QED
    BY <1>1, <1>2, <2>6 DEF Ordered
<1>6. ASSUME NEW i \in DOMAIN updates, HandleChat(i) \/ HandlingFails(i) PROVE Ordered'
  <2>1. updates[i].started /\ EndHandling(i, ops)
    BY <1>6 DEF HandleChat, HandlingFails, Being
  <2>2. InOrder(ops', updates', active, windows, link, phase, Missed)
    BY <1>2, <1>3, <2>1, EndInOrder DEF Ordered
  <2> QED
    BY <1>1, <1>2, <2>2 DEF Ordered
<1> QED
  BY <1>4, <1>5, <1>6

(* start calls the observer while the connection is up, and then goes on. *)
LEMMA StartsInOrder ==
  ASSUME IInv, Clocked, Serving => Ordered, Serving', LinkHoldsAtStart,
         StartUp \/ Starts \/ LiveTick \/ Stop \/ Exit \/ Crash
  PROVE  Ordered'
<1>1. TypeOK /\ ops \in Seq(Operations) /\ Fits(ops, phase, windows, active)
  BY DEF IInv, Queues, Fits
<1>2. \A m \in Missed : m.second < Ceil(clock)
  BY DEF Missed, Clocked
<1>3. /\ Connect("module") \in Operations /\ Connect("module").kind = "connect"
      /\ Connect("module").at = clock /\ Extend \in Operations /\ Extend.kind = "extend"
  BY <1>1, OperationsTyped DEF Callers, Connect, Operation
<1>4. CASE StartUp
  <2>1. /\ phase = "down" /\ phase' = "connecting" /\ ops' = Append(ops, Connect("module"))
        /\ link = "up" /\ UNCHANGED <<world, store, observer, updates>>
    BY <1>4 DEF StartUp, Call
  <2>2. ops = <<>> /\ active = None /\ updates = <<>>
    BY <1>1, <2>1 DEF Fits, IInv, Hand
  <2>3. InOrder(<<>>, <<>>, active, windows, link, "connecting", Missed)
    BY <2>1, <2>2 DEF InOrder, Spares, Calm
  <2>4. InOrder(ops', updates, active, windows, link, "connecting", Missed)
    BY <1>1, <1>2, <1>3, <2>1, <2>2, <2>3, QueuedInOrder
  <2> QED
    BY <2>1, <2>4 DEF Ordered, Missed, world, store, observer
<1>5. CASE Drain
  <2>1. /\ phase = "draining" /\ phase' = "reconnecting" /\ ops' = Append(ops, Connect("module"))
        /\ UNCHANGED <<world, store, observer, updates>>
    BY <1>5 DEF Drain, Call
  <2>2. phase \in StartPhases /\ phase' \in StartPhases /\ Ordered /\ link = "up"
    BY <2>1 DEF StartPhases, Serving, Ordered, InOrder
  <2>3. InOrder(ops', updates, active, windows, link, phase, Missed)
    BY <1>1, <1>2, <1>3, <2>1, <2>2, QueuedInOrder DEF Ordered
  <2>4. InOrder(ops', updates, active, windows, link, phase', Missed)
    BY <2>2, <2>3, PhaseInOrder
  <2> QED
    BY <2>1, <2>4 DEF Ordered, Missed, world, store, observer
<1>6. CASE SyncInitialChats \/ ListChats \/ EndRestore \/ \E c \in Chats : AskFor(c)
  <2>1. /\ phase \in StartPhases /\ UNCHANGED <<world, windows, observer, updates, ops>>
        /\ phase' \in StartPhases \cup {"running"}
    BY <1>6 DEF SyncInitialChats, ListChats, EndRestore, AskFor, StartPhases, store, process
  <2>2. Ordered
    BY <2>1 DEF Serving
  <2>3. InOrder(ops, updates, active, windows, link, phase', Missed)
    BY <2>1, <2>2, PhaseInOrder DEF Ordered
  <2> QED
    BY <2>1, <2>3 DEF Ordered, Missed, world, observer
<1>7. CASE LiveTick
  <2>1. /\ ops' = Append(ops, Extend) /\ UNCHANGED <<world, store, observer, updates, phase>>
    BY <1>7 DEF LiveTick
  <2>2. Ordered
    BY <2>1 DEF Serving
  <2>3. InOrder(ops', updates, active, windows, link, phase, Missed)
    BY <1>1, <1>3, <2>1, <2>2, QueuedInOrder DEF Ordered, Opens
  <2> QED
    BY <2>1, <2>3 DEF Ordered, Missed, world, store, observer
<1>8. CASE StopDrained \/ Stop \/ Exit \/ Crash
  <2>1. phase' \in {"closing", "unsubscribed", "down"}
    BY <1>8 DEF StopDrained, Stop, Exit, Crash, ClearMemory, Call
  <2> QED
    BY <2>1 DEF Serving, StartPhases
<1> QED
  BY <1>4, <1>5, <1>6, <1>7, <1>8 DEF Starts

(* With a connection that holds while start runs, the order is never lost. *)
LEMMA StepInOrder ==
  ASSUME IInv, Clocked, Serving => Ordered, Serving', LinkHoldsAtStart, [Next]_vars
  PROVE  Ordered'
<1>1. CASE UNCHANGED vars
  BY <1>1 DEF vars, world, store, observer, process, Ordered, Serving, Missed
<1>2. CASE Next
  BY <1>2, TelegramInOrder, HandlersInOrder, ObserverInOrder, StartsInOrder DEF Next, Handles
<1> QED
  BY <1>1, <1>2

-----------------------------------------------------------------------------
(* The restore *)

(* Registrations, and the list of chats, are only added to. *)
LEMMA ChatsStay ==
  ASSUME IInv, [Next]_vars
  PROVE  listed \subseteq listed' /\ \A c \in Chats : eligible[c] # None => eligible'[c] # None
<1>1. CASE SyncInitialChats \/ \E i \in DOMAIN updates : HandleChat(i)
  BY <1>1 DEF SyncInitialChats, HandleChat
<1>2. CASE Register \/ RecordLiveMessage
  <2>1. listed' = listed
    BY <1>2 DEF Register, RecordLiveMessage
  <2>2. ASSUME NEW c \in Chats, eligible[c] # None PROVE eligible'[c] # None
    BY <1>2, <2>2 DEF Register, RecordLiveMessage, RegisterChats
  <2> QED
    BY <2>1, <2>2
<1>3. CASE UNCHANGED <<listed, eligible>>
  BY <1>3
<1>4. \/ SyncInitialChats \/ (\E i \in DOMAIN updates : HandleChat(i)) \/ Register \/ RecordLiveMessage
      \/ UNCHANGED <<listed, eligible>>
  BY DEF Next, vars, store, TimePasses, ConnectionChanges, Post, Join, Handles, HandleMessage,
     HandlingFails, Observes, AlreadyConnected, Recover, Open, ExtendWindow, ExtendNothing, Close,
     Waited, OpFails, StartUp, Starts, Drain, ListChats, AskFor, EndRestore, StopDrained, LiveTick,
     Stop, Exit, Crash
<1> QED
  BY <1>1, <1>2, <1>3, <1>4

(* The window in hand stays in hand while start runs. *)
LEMMA WindowStays ==
  ASSUME IInv, Ordered, phase \in StartPhases, active # None, [Next]_vars, phase' \in StartPhases
  PROVE  active' # None
<1>1. CASE Close
  <2>1. ops # <<>> /\ Head(ops).kind = "disconnect" /\ ops \in Seq(Operations)
    BY <1>1 DEF Close, Current, IInv, Queues, Fits
  <2>2. 1 \in DOMAIN ops /\ Head(ops) = ops[1]
    BY <2>1, TailAhead
  <2> QED
    BY <2>1, <2>2 DEF Ordered, InOrder, Calm
<1>2. CASE Open
  BY <1>2, UnderWay DEF Open, Current
<1>3. CASE Exit \/ Crash
  BY <1>3 DEF Exit, Crash, ClearMemory, StartPhases
<1>4. CASE UNCHANGED active
  BY <1>4
<1>5. Close \/ Open \/ Exit \/ Crash \/ UNCHANGED active
  BY DEF Next, vars, observer, TimePasses, ConnectionChanges, Post, Join, Handles, HandleMessage,
     HandleChat, HandlingFails, Observes, AlreadyConnected, Recover, Register, RecordLiveMessage,
     ExtendWindow, ExtendNothing, Waited, OpFails, StartUp, Starts, SyncInitialChats, Drain, ListChats,
     AskFor, EndRestore, StopDrained, LiveTick, Stop
<1> QED
  BY <1>1, <1>2, <1>3, <1>4, <1>5

(* When start has opened its first window, it has registered the chats it knew. *)
LEMMA FirstRegisters ==
  ASSUME IInv, Registered, phase = "connecting", [Next]_vars, phase' \in StartPhases \ {"connecting"}
  PROVE  active' # None /\ \A c \in OldChats : eligible'[c] # None
<1>1. Observes /\ ~Recover /\ ~Open
  BY DEF Next, vars, process, TimePasses, ConnectionChanges, Post, Join, Handles, HandleMessage,
     HandleChat, HandlingFails, Observes, Recover, Open, Becomes, OpFails, StartUp, Starts,
     SyncInitialChats, Drain, ListChats, AskFor, EndRestore, StopDrained, LiveTick, Stop, Exit, Crash,
     ClearMemory, StartPhases
<1>2. ops # <<>> /\ Head(ops).caller = "module"
      /\ \/ Head(ops).kind \in {"connect", "open"} /\ active = None
         \/ Head(ops).kind = "register" /\ active # None
  BY DEF IInv, Queues, Fits
<1>3. Register
  BY <1>1, <1>2 DEF Observes, AlreadyConnected, RecordLiveMessage, ExtendWindow, ExtendNothing, Close,
     Waited, Current
<1>4. active # None /\ active' = active /\ RegisterChats(listed, Head(ops).at)
  <2>1. Head(ops).kind = "register"
    BY <1>3 DEF Register, Current
  <2>2. active # None
    BY <1>2, <2>1
  <2> QED
    BY <1>3, <2>2 DEF Register
<1>5. Head(ops) \in Operations /\ Head(ops).kind = "register"
  BY <1>2, <1>3, UnderWay DEF Register, Current
<1>6. Head(ops).at \in Nat
  BY <1>5 DEF Operations
<1>7. Head(ops).at # None
  BY <1>6, Numbers DEF IInv
<1> QED
  BY <1>4, <1>7, ConstantsAssumption DEF RegisterChats, Registered

(* Later it neither loses the window nor a registration. *)
LEMMA StepRegistered ==
  ASSUME IInv, Serving => Ordered, Registered, [Next]_vars
  PROVE  Registered'
<1>1. OldChats \subseteq listed'
  BY ChatsStay DEF Registered
<1>2. ASSUME phase' \in StartPhases \ {"connecting"}
      PROVE  active' # None /\ \A c \in OldChats : eligible'[c] # None
  <2>1. phase \in StartPhases
    BY <1>2 DEF Next, vars, process, TimePasses, ConnectionChanges, Post, Join, Handles, HandleMessage,
       HandleChat, HandlingFails, Observes, AlreadyConnected, Recover, Open, Register,
       RecordLiveMessage, ExtendWindow, ExtendNothing, Close, Waited, Becomes, Return, Continue,
       OpFails, StartUp, Call, Starts, SyncInitialChats, Drain, ListChats, AskFor, EndRestore,
       StopDrained, LiveTick, Stop, Exit, Crash, ClearMemory, StartPhases
  <2>2. CASE phase = "connecting"
    BY <1>2, <2>2, FirstRegisters
  <2>3. CASE phase # "connecting"
    <3>1. active # None /\ \A c \in OldChats : eligible[c] # None
      BY <2>1, <2>3 DEF Registered
    <3>2. Ordered
      BY <2>1 DEF Serving
    <3> QED
      BY <1>2, <2>1, <3>1, <3>2, WindowStays, ChatsStay, ConstantsAssumption
  <2> QED
    BY <2>2, <2>3
<1> QED
  BY <1>1, <1>2 DEF Registered

(* A range that is asked for ends after all that was missed. *)
LEMMA AskReaches ==
  ASSUME IInv, Ordered, Registered, phase = "restoring", NEW c \in OldChats, AskFor(c)
  PROVE  \E request \in asked' : request.chat = c /\ \A m \in Missed : m.second < request.end
<1>1. phase \in StartPhases \ {"connecting"}
  BY DEF StartPhases
<1>2. active # None /\ eligible[c] # None /\ c \in Chats
  BY <1>1, ConstantsAssumption DEF Registered
<1>3. PICK w \in windows : w.id = active
  BY <1>2 DEF IInv, Hand
<1>4. w.start \in Nat /\ eligible[c] \in Nat
  BY <1>2, <1>3 DEF IInv, TypeOK, Windows
<1>5. ~Closing(ops, updates, 0)
  BY <1>1 DEF Ordered, InOrder, Calm, Closing, DownWaits, Waits
<1>6. \A m \in Missed : m.second < w.start
  BY <1>2, <1>3, <1>5 DEF Ordered, InOrder, Spares
<1> DEFINE end == Larger(w.start, eligible[c])
<1>7. end \in Nat /\ end >= w.start
  BY <1>4 DEF Larger
<1>8. end \in Boundary(c)
  BY <1>2, <1>3 DEF Boundary
<1> HIDE DEF end
<1>9. PICK failed \in BOOLEAN :
        asked' = asked \cup {[chat |-> c, end |-> e, failed |-> failed] : e \in Boundary(c)}
  BY DEF AskFor
<1>10. [chat |-> c, end |-> end, failed |-> failed] \in asked'
  BY <1>8, <1>9
<1>11. ASSUME NEW m \in Missed PROVE m.second < end
  <2>1. m.second \in Nat
    BY Numbers DEF IInv, Missed
  <2> QED
    BY <1>4, <1>6, <1>7, <2>1
<1> QED
  BY <1>10, <1>11

(* What may happen while the restore runs leaves its requests alone, and nothing *)
(* is missed then.                                                            *)
LEMMA RestoreGoesOn ==
  ASSUME IInv, Ordered, phase = "restoring", [Next]_vars, phase' = "restoring"
  PROVE  /\ Missed' \subseteq Missed
         /\ UNCHANGED restore \/ \E c \in Chats : AskFor(c)
<1>1. phase \in StartPhases
  BY DEF StartPhases
<1>2. link = "up" /\ Listening
  BY <1>1, PhasesAre DEF Ordered, InOrder, IInv
<1>3. ASSUME NEW c \in Chats, Post(c) PROVE Missed' \subseteq Missed /\ UNCHANGED restore
  <2> DEFINE member == joined[c] # None
             m == [chat |-> c, second |-> Second(clock), member |-> member,
                   seen |-> member /\ link = "up" /\ Listening]
  <2>1. posted' = posted \cup {m} /\ UNCHANGED restore
    BY <1>3 DEF Post
  <2>2. m.member => m.seen
    BY <1>2
  <2> HIDE DEF m
  <2> QED
    BY <2>1, <2>2 DEF Missed
<1>4. CASE UNCHANGED <<posted, restore>>
  BY <1>4 DEF Missed
<1>5. ASSUME NEW c \in Chats, AskFor(c) PROVE Missed' \subseteq Missed
  BY <1>5 DEF AskFor, world, Missed
<1>6. (\E c \in Chats : Post(c) \/ AskFor(c)) \/ UNCHANGED <<posted, restore>>
  BY DEF Next, vars, world, process, restore, TimePasses, ConnectionChanges, Join, Handles,
     HandleMessage, HandleChat, HandlingFails, Observes, AlreadyConnected, Recover, Open, Register,
     RecordLiveMessage, ExtendWindow, ExtendNothing, Close, Waited, OpFails, StartUp, Starts, Call,
     SyncInitialChats, Drain, ListChats, EndRestore, StopDrained, LiveTick, Stop, Exit, Crash,
     ClearMemory
<1> QED
  BY <1>3, <1>4, <1>5, <1>6

(* Each of the known chats is asked for, or still to be asked for. *)
LEMMA StepAsked ==
  ASSUME IInv, Serving => Ordered, Registered, AskedFor, [Next]_vars
  PROVE  AskedFor'
<1> SUFFICES ASSUME phase' = "restoring", NEW c \in OldChats \cap Restored
             PROVE  \/ c \in plan'
                    \/ \E request \in asked' : request.chat = c /\ \A m \in Missed' : m.second < request.end
  BY DEF AskedFor
<1>1. CASE phase = "restoring"
  <2>1. Ordered
    BY <1>1 DEF Serving, StartPhases
  <2>2. \/ c \in plan
        \/ \E request \in asked : request.chat = c /\ \A m \in Missed : m.second < request.end
    BY <1>1 DEF AskedFor
  <2>3. Missed' \subseteq Missed /\ (UNCHANGED restore \/ \E d \in Chats : AskFor(d))
    BY <1>1, <2>1, RestoreGoesOn
  <2>4. CASE UNCHANGED restore
    BY <2>2, <2>3, <2>4 DEF restore
  <2>5. ASSUME NEW d \in Chats, AskFor(d), d # c
        PROVE  \/ c \in plan'
               \/ \E request \in asked' : request.chat = c /\ \A m \in Missed' : m.second < request.end
    BY <2>2, <2>3, <2>5 DEF AskFor
  <2>6. ASSUME AskFor(c)
        PROVE  \E request \in asked' : request.chat = c /\ \A m \in Missed' : m.second < request.end
    BY <1>1, <2>1, <2>3, <2>6, AskReaches
  <2> QED
    BY <2>3, <2>4, <2>5, <2>6
<1>2. CASE phase # "restoring"
  <2>1. ListChats
    BY <1>2 DEF Next, vars, process, TimePasses, ConnectionChanges, Post, Join, Handles, HandleMessage,
       HandleChat, HandlingFails, Observes, AlreadyConnected, Recover, Open, Register,
       RecordLiveMessage, ExtendWindow, ExtendNothing, Close, Waited, Becomes, Return, Continue,
       OpFails, StartUp, Call, Starts, SyncInitialChats, Drain, AskFor, EndRestore, StopDrained,
       LiveTick, Stop, Exit, Crash, ClearMemory
  <2> QED
    BY <2>1 DEF ListChats, Registered
<1> QED
  BY <1>1, <1>2

-----------------------------------------------------------------------------
(* What follows *)

LEMMA InitLInv ==
  ASSUME Init
  PROVE  LInv
<1>1. IInv
  BY InitIInv
<1>2. posted = {} /\ phase = "down" /\ listed = OldChats
  BY DEF Init
<1> QED
  BY <1>1, <1>2 DEF LInv, LiveInv, Clocked, SeenInHand, Serving, StartPhases, Registered, AskedFor

LEMMA NextLInv ==
  ASSUME LinkHoldsAtStart, LInv, [Next]_vars
  PROVE  LInv'
<1>1. IInv'
  BY NextIInv DEF LInv
<1>2. Clocked' /\ SeenInHand' /\ (Serving' => Ordered')
  BY StepClocked, StepSeen, StepInOrder DEF LInv, LiveInv
<1>3. Registered' /\ AskedFor'
  BY StepRegistered, StepAsked DEF LInv, LiveInv
<1> QED
  BY <1>1, <1>2, <1>3 DEF LInv, LiveInv

(* The invariant holds as long as the connection holds while start runs. *)
LEMMA AlwaysLInv == LinkHoldsAtStart => (Spec => []LInv)
<1> SUFFICES ASSUME LinkHoldsAtStart PROVE Spec => []LInv
  OBVIOUS
<1>1. Init => LInv
  BY InitLInv
<1>2. LInv /\ [Next]_vars => LInv'
  BY NextLInv
<1> QED
  BY <1>1, <1>2, PTL DEF Spec

(* Whatever reconnects, fails or crashes, and however far the queues are behind: *)
(* when nothing is left to handle, no covered second holds a message the         *)
(* account should have and has not, as long as windows can be closed and the     *)
(* connection holds while start runs (createLiveCoverageObserver, tick).         *)
THEOREM LiveCoverageHolds ==
  LinkHoldsAtStart /\ ClosesSucceed => (Spec => []LiveMeansStored)
<1> SUFFICES ASSUME LinkHoldsAtStart, ClosesSucceed PROVE Spec => []LiveMeansStored
  OBVIOUS
<1>1. LInv => LiveMeansStored
  <2> SUFFICES ASSUME LInv, phase = "running", Quiet, NEW m \in posted \ (stored \cup lost), m.member,
                      LiveCovered(m.chat, m.second)
               PROVE  FALSE
    BY DEF LiveMeansStored
  <2>1. Ordered /\ IInv /\ SeenInHand
    BY DEF LInv, LiveInv, Serving
  <2>2. Unhandled(updates) = {}
    BY DEF Quiet, Unhandled
  <2>3. m \in Missed
    BY <2>1, <2>2 DEF SeenInHand, Missed
  <2>4. PICK w \in windows : m.second \in Larger(w.start, eligible[m.chat])..w.end - 1
    BY DEF LiveCovered
  <2>5. active # None
    BY <2>1, <2>4 DEF IInv, Hand
  <2>6. ~Closing(ops, updates, 0)
    BY DEF Quiet, Closing, DownWaits
  <2>7. m.second < w.start
    BY <2>1, <2>3, <2>4, <2>5, <2>6 DEF Ordered, InOrder, Spares
  <2>8. m.second \in Nat /\ w.start \in Nat /\ w.end \in Nat /\ eligible[m.chat] \in Nat
    <3>1. m.chat \in Chats /\ m.second \in Nat
      BY <2>1, Numbers DEF IInv
    <3> QED
      BY <2>1, <2>4, <3>1 DEF IInv, TypeOK, Windows, LiveCovered
  <2> QED
    BY <2>4, <2>7, <2>8 DEF Larger
<1>2. Spec => []LInv
  BY AlwaysLInv
<1> QED
  BY <1>1, <1>2, PTL

(* What was sent to a known chat while nobody listened lies before the range that *)
(* was asked for at the end of start: the window that start opened, which begins  *)
(* later, is still the open one (runRestore, readHistoryLiveBoundary).            *)
THEOREM RestoreReachesLive == LinkHoldsAtStart => (Spec => RestoreMeetsLive)
<1> SUFFICES ASSUME LinkHoldsAtStart PROVE Spec => RestoreMeetsLive
  OBVIOUS
<1> DEFINE Met ==
      \A m \in posted \ (stored \cup lost \cup Unhandled(updates)) :
        m.member /\ m.chat \in OldChats \cap Restored =>
          \E request \in asked : request.chat = m.chat /\ (request.failed \/ m.second < request.end)
<1>1. LInv => (EndRestore => Met)
  <2> SUFFICES ASSUME LInv, EndRestore,
                      NEW m \in posted \ (stored \cup lost \cup Unhandled(updates)),
                      m.member, m.chat \in OldChats \cap Restored
               PROVE  \E request \in asked : request.chat = m.chat /\ m.second < request.end
    OBVIOUS
  <2>1. m \in Missed
    BY DEF LInv, LiveInv, SeenInHand, Missed
  <2> QED
    BY <2>1 DEF LInv, AskedFor, EndRestore
<1>2. Spec => []LInv
  BY AlwaysLInv
<1>3. LInv /\ [Next]_vars => [EndRestore => Met]_vars
  BY <1>1
<1> QED
  BY <1>2, <1>3, PTL DEF Spec, RestoreMeetsLive
=============================================================================
