---------------------------- MODULE HidDev_proofs ----------------------------
(***************************************************************************)
(* Theorems about the driver of one HID device (module HidDev).            *)
(***************************************************************************)
EXTENDS HidDev, TLAPS

-----------------------------------------------------------------------------
(* Lemmas about the data.                                                   *)

\* Request numbers are the positive integers up to the bound.
LEMMA UidType == Uid \subseteq Nat \ {0} /\ Uid \subseteq 0..MaxUid
  BY HidAssumption DEF Uid

\* An outcome built from a status is a result that carries no report.
LEMMA ResType ==
    ASSUME NEW s \in {"notyet", "success", "bad", "error", "cancel"}
    PROVE  /\ Res(s) \in Result /\ Res(s).no = 0
           /\ s # "notyet" => Res(s) # NotYet
<1>1. Res(s) \in Result /\ Res(s).no = 0 /\ Res(s).st = s
  BY HidAssumption DEF Res, Result
<1>2. NotYet.st = "notyet"
  BY DEF NotYet, Res
<1>. QED BY <1>1, <1>2

\* The empty slot is an item, and one that does not exist.
LEMMA NoItemType == NoItem \in Item /\ ~Exists(NoItem)
  BY HidAssumption, ResType DEF NoItem, NewItem, Item, NotYet, Kind, Callback, Exists

\* A freshly built item exists and its outcome is still open.
LEMMA NewItemType ==
    ASSUME NEW uid \in Uid, NEW kind \in Kind, NEW cb \in Callback
    PROVE  /\ NewItem(uid, kind, cb) \in Item
           /\ Exists(NewItem(uid, kind, cb))
           /\ NewItem(uid, kind, cb).res = NotYet
  BY UidType, ResType DEF NewItem, Item, NotYet, Exists

\* Setting the outcome keeps an item's identity, kind and callback.
LEMMA WithResType ==
    ASSUME NEW i \in Item, NEW res \in Result
    PROVE  /\ WithRes(i, res) \in Item
           /\ WithRes(i, res).uid = i.uid
           /\ WithRes(i, res).kind = i.kind
           /\ WithRes(i, res).res = res
  BY DEF WithRes, Item

\* What one read yields is an outcome, whatever report is at the front.
LEMMA ReadResultType ==
    ASSUME rxq \in Seq(Report) PROVE ReadResult \in Result
<1>1. CASE rxq = <<>> \/ Head(rxq).kind = "foreign"
  BY <1>1, ResType DEF ReadResult, NotYet
<1>2. CASE rxq # <<>> /\ Head(rxq).kind # "foreign"
  <2>1. Head(rxq) \in Report
    BY <1>2
  <2>2. Head(rxq).no \in 0..MaxRx
    BY <2>1, HidAssumption DEF Report
  <2>. QED BY <1>2, <2>2, ResType DEF ReadResult, Result
<1>. QED BY <1>1, <1>2

\* Losing a report leaves a sequence of reports.
LEMMA DropReportType ==
    ASSUME rxq \in Seq(Report), DropReport PROVE rxq' \in Seq(Report)
  BY DEF DropReport

\* What a callback that closes nothing returns is a return value.
LEMMA NoReturnType == NoReturn \in Return
<1>1. {} \in SUBSET Uid /\ TRUE \in BOOLEAN
  OBVIOUS
<1>. QED BY <1>1, Zenon DEF NoReturn, Return

\* After a turn's processing the worker notifies the current item when
\* it is complete, else looks at the new one, else starts the next turn.
LEMMA NotifyType ==
    ASSUME NEW c, NEW n, Notify(c, n)
    PROVE  /\ hpc' \in {"top", "cur", "new"}
           /\ hpc' = "cur" <=> IsComplete(c)
           /\ hpc' = "new" <=> ~IsComplete(c) /\ Exists(n)
  BY DEF Notify

-----------------------------------------------------------------------------
(* The invariant of the worker: type correctness, the two properties of the *)
(* notification area and of the parked reads, and what they rest on, namely *)
(* that an item has no outcome before the worker takes it up.               *)

Untouched(q) == \A i \in DOMAIN q : Exists(q[i]) /\ q[i].res = NotYet

WorkerInv ==
    /\ TypeOK
    /\ NotifyOldFirst
    /\ ReadyForParked
    /\ Untouched(hq) /\ Untouched(parked)

\* Taking the head of the queue of untouched items.
LEMMA UntouchedPop ==
    ASSUME NEW q \in Seq(Item), Untouched(q), q # <<>>
    PROVE  /\ Tail(q) \in Seq(Item) /\ Untouched(Tail(q))
           /\ Head(q) \in Item
           /\ Exists(Head(q)) /\ Head(q).res = NotYet /\ ~IsComplete(Head(q))
  BY DEF Untouched, IsComplete

\* Submitting an untouched item to such a queue.
LEMMA UntouchedPush ==
    ASSUME NEW q \in Seq(Item), Untouched(q),
           NEW i \in Item, Exists(i), i.res = NotYet
    PROVE  /\ Append(q, i) \in Seq(Item) /\ Untouched(Append(q, i))
  BY DEF Untouched

\* The worker's inductive invariant holds before the first request.
LEMMA InitWorker == HidInit => WorkerInv
<1> SUFFICES ASSUME HidInit PROVE WorkerInv
  OBVIOUS
<1> USE DEF HidInit
<1>1. TypeOK
  <2>1. hq \in Seq(Item) /\ parked \in Seq(Item) /\ rxq \in Seq(Report)
    OBVIOUS
  <2>2. cur \in Item /\ fresh \in Item /\ ret \in Return /\ nrx \in 0..MaxRx
    BY HidAssumption, NoItemType, NoReturnType
  <2>3. used \in SUBSET Uid /\ told \in SUBSET Uid
    OBVIOUS
  <2>. QED BY <2>1, <2>2, <2>3 DEF TypeOK
<1>2. NotifyOldFirst
  BY NoItemType DEF NotifyOldFirst, IsComplete
<1>3. ReadyForParked /\ Untouched(hq) /\ Untouched(parked)
  BY NoItemType DEF ReadyForParked, Untouched
<1>. QED BY <1>1, <1>2, <1>3 DEF WorkerInv

\* What the three items that cancel the current read have in common.
LEMMA CancelWorker ==
    ASSUME WorkerInv, hpc = "top", hq # <<>>,
           cur' = Cancelled, hq' = Tail(hq), parked' = parked,
           NEW res \in Result, res # NotYet, fresh' = WithRes(Head(hq), res),
           Notify(cur', fresh')
    PROVE  /\ hq' \in Seq(Item) /\ Untouched(hq') /\ Untouched(parked')
           /\ cur' \in Item /\ fresh' \in Item /\ hpc' \in {"top", "cur", "new"}
           /\ NotifyOldFirst'
           /\ ReadyForParked'
<1> USE DEF WorkerInv
<1>1. /\ hq' \in Seq(Item) /\ Untouched(hq')
      /\ Head(hq) \in Item /\ Exists(Head(hq))
  BY UntouchedPop DEF TypeOK
<1>2. /\ cur' \in Item /\ cur'.uid = cur.uid /\ cur'.kind = cur.kind
      /\ Exists(cur') => IsComplete(cur')
  <2>1. CASE Exists(cur)
    <3>1. Res("cancel") \in Result /\ Res("cancel") # NotYet
      BY ResType
    <3>. QED BY <2>1, <3>1, WithResType DEF Cancelled, IsComplete, Exists, TypeOK
  <2>2. CASE ~Exists(cur)
    BY <2>2 DEF Cancelled, Exists, TypeOK
  <2>. QED BY <2>1, <2>2
<1>3. fresh' \in Item /\ IsComplete(fresh')
  BY <1>1, WithResType DEF IsComplete, Exists
<1>4. /\ hpc' \in {"top", "cur", "new"}
      /\ hpc' = "cur" <=> IsComplete(cur')
      /\ hpc' = "new" <=> ~IsComplete(cur')
  BY <1>3, NotifyType DEF IsComplete
<1>5. NotifyOldFirst'
  BY <1>3, <1>4 DEF NotifyOldFirst, IsComplete
<1>6. ReadyForParked' /\ Untouched(parked')
  BY <1>2 DEF ReadyForParked, Untouched, Exists
<1>. QED BY <1>1, <1>2, <1>3, <1>4, <1>5, <1>6

\* Every step keeps the invariant.
LEMMA NextWorker == WorkerInv /\ [HidNext]_hidVars => WorkerInv'
<1> SUFFICES ASSUME WorkerInv, [HidNext]_hidVars PROVE WorkerInv'
  OBVIOUS
<1> USE DEF WorkerInv
<1> USE HidAssumption
<1>1. ASSUME NEW uid \in Uid, NEW kind \in Kind, NEW cb \in Callback, Submit(uid, kind, cb)
      PROVE  WorkerInv'
  <2> USE <1>1 DEF Submit, Start, workerVars, rxVars
  <2>1. hq' \in Seq(Item) /\ Untouched(hq')
    BY NewItemType, UntouchedPush DEF TypeOK
  <2>2. TypeOK'
    BY <2>1 DEF TypeOK
  <2>3. NotifyOldFirst' /\ ReadyForParked' /\ Untouched(parked)'
    BY DEF NotifyOldFirst, ReadyForParked, Untouched
  <2>. QED BY <2>1, <2>2, <2>3 DEF Untouched
<1>2. ASSUME NEW kind \in RxKind, Receive(kind) PROVE WorkerInv'
  <2> USE <1>2 DEF Receive, workerVars
  <2>1. rxq' \in Seq(Report) /\ nrx' \in 0..MaxRx /\ rxDead' \in BOOLEAN
    BY DEF TypeOK, Report
  <2>2. TypeOK'
    BY <2>1 DEF TypeOK
  <2>3. NotifyOldFirst' /\ ReadyForParked' /\ Untouched(hq)' /\ Untouched(parked)'
    BY DEF NotifyOldFirst, ReadyForParked, Untouched
  <2>. QED BY <2>2, <2>3
<1>3. CASE Pump
  <2> USE <1>3 DEF Pump, AtTop
  <2>1. rxq' \in Seq(Report) /\ replugin' \in BOOLEAN /\ readOk' \in BOOLEAN
    BY DEF TypeOK, DetectReplugin
  <2>2. TypeOK'
    BY <2>1 DEF TypeOK
  <2>3. NotifyOldFirst' /\ ReadyForParked' /\ Untouched(hq)' /\ Untouched(parked)'
    BY DEF NotifyOldFirst, ReadyForParked, Untouched
  <2>. QED BY <2>2, <2>3
<1>4. CASE ReadCurrent
  <2> USE <1>4 DEF ReadCurrent
  <2>1. rxq' \in Seq(Report) /\ replugin' \in BOOLEAN /\ readOk' \in BOOLEAN
    BY DropReportType DEF TypeOK, DetectReplugin
  <2>2. cur' \in Item /\ cur'.uid = cur.uid /\ cur'.kind = cur.kind
    BY ReadResultType, WithResType DEF TypeOK
  <2>3. /\ hpc' \in {"top", "cur"}
        /\ hpc' = "cur" <=> IsComplete(cur')
    BY NotifyType, NoItemType DEF IsComplete
  <2>4. TypeOK'
    BY <2>1, <2>2, <2>3 DEF TypeOK
  <2>5. NotifyOldFirst'
    BY <2>3 DEF NotifyOldFirst, IsComplete, Exists
  <2>6. ReadyForParked' /\ Untouched(hq)' /\ Untouched(parked)'
    BY <2>2 DEF ReadyForParked, Untouched, Exists
  <2>. QED BY <2>4, <2>5, <2>6
<1>5. CASE PopWhileBroken
  <2> USE <1>5 DEF PopWhileBroken, AtTop, rxVars
  <2>1. /\ hq' \in Seq(Item) /\ Untouched(hq')
        /\ Head(hq) \in Item /\ Exists(Head(hq))
    BY UntouchedPop DEF TypeOK
  <2>2. fresh' \in Item /\ IsComplete(fresh')
    <3>1. Res("error") \in Result /\ Res("error") # NotYet
      BY ResType
    <3>. QED BY <2>1, <3>1, WithResType DEF IsComplete, Exists
  <2>3. TypeOK'
    BY <2>1, <2>2 DEF TypeOK
  <2>4. NotifyOldFirst'
    BY <2>2 DEF NotifyOldFirst, IsComplete, Exists
  <2>5. ReadyForParked' /\ Untouched(parked)'
    BY DEF ReadyForParked, Untouched
  <2>. QED BY <2>1, <2>3, <2>4, <2>5 DEF Untouched
<1>6. CASE PopPark
  <2> USE <1>6 DEF PopPark, AtTop, rxVars
  <2>1. /\ hq' \in Seq(Item) /\ Untouched(hq')
        /\ parked' \in Seq(Item) /\ Untouched(parked')
    BY UntouchedPop, UntouchedPush DEF TypeOK
  <2>2. TypeOK'
    BY <2>1 DEF TypeOK
  <2>3. NotifyOldFirst'
    BY DEF NotifyOldFirst, IsComplete, Exists
  <2>4. ReadyForParked'
    BY DEF ReadyForParked, Exists, TypeOK
  <2>. QED BY <2>1, <2>2, <2>3, <2>4 DEF Untouched
<1>7. CASE PopCancel
  <2> USE <1>7 DEF PopCancel, PopRun, AtTop, rxVars
  <2>1. Res("success") \in Result /\ Res("success") # NotYet
    BY ResType
  <2>2. /\ hq' \in Seq(Item) /\ Untouched(hq') /\ Untouched(parked')
        /\ cur' \in Item /\ fresh' \in Item /\ hpc' \in {"top", "cur", "new"}
        /\ NotifyOldFirst' /\ ReadyForParked'
    BY <2>1, CancelWorker
  <2>3. TypeOK'
    BY <2>2 DEF TypeOK
  <2>. QED BY <2>2, <2>3 DEF Untouched
<1>8. CASE PopWrite
  <2> USE <1>8 DEF PopWrite, PopRun, AtTop
  <2>1. PICK o \in {"success", "error"} : fresh' = WithRes(Head(hq), Res(o))
    OBVIOUS
  <2>2. Res(o) \in Result /\ Res(o) # NotYet
    BY ResType
  <2>3. /\ hq' \in Seq(Item) /\ Untouched(hq') /\ Untouched(parked')
        /\ cur' \in Item /\ fresh' \in Item /\ hpc' \in {"top", "cur", "new"}
        /\ NotifyOldFirst' /\ ReadyForParked'
    BY <2>1, <2>2, CancelWorker
  <2>4. TypeOK'
    BY <2>3 DEF TypeOK
  <2>. QED BY <2>3, <2>4 DEF Untouched
<1>9. CASE PopWriteRead
  <2> USE <1>9 DEF PopWriteRead, PopRun, AtTop
  <2>1. PICK o \in {"success", "error"} : fresh' = WithRes(Head(hq), Res(o))
    OBVIOUS
  <2>2. Res(o) \in Result /\ Res(o) # NotYet
    BY ResType
  <2>3. /\ hq' \in Seq(Item) /\ Untouched(hq') /\ Untouched(parked')
        /\ cur' \in Item /\ fresh' \in Item /\ hpc' \in {"top", "cur", "new"}
        /\ NotifyOldFirst' /\ ReadyForParked'
    BY <2>1, <2>2, CancelWorker
  <2>4. rxq' \in Seq(Report) /\ replugin' \in BOOLEAN /\ rxDead' \in BOOLEAN
    <3>1. rxq' \in Seq(Report)
      OBVIOUS
    <3>2. CASE UNCHANGED <<replugin, rxDead>>
      BY <3>1, <3>2 DEF TypeOK
    <3>3. CASE replugin' = TRUE /\ rxDead' = TRUE
      BY <3>1, <3>3
    <3>. QED BY <3>2, <3>3
  <2>5. TypeOK'
    BY <2>3, <2>4 DEF TypeOK
  <2>. QED BY <2>3, <2>5 DEF Untouched
<1>10. CASE PopRead
  <2> USE <1>10 DEF PopRead, PopRun, AtTop
  <2>1. /\ hq' \in Seq(Item) /\ Untouched(hq')
        /\ Head(hq) \in Item /\ Exists(Head(hq)) /\ ~IsComplete(Head(hq))
    BY UntouchedPop DEF TypeOK
  <2>2. rxq' \in Seq(Report) /\ replugin' \in BOOLEAN
    BY DropReportType DEF TypeOK, DetectReplugin
  <2>3. CASE ReadResult = NotYet
    <3> USE <2>3
    <3>1. TypeOK'
      BY <2>1, <2>2 DEF TypeOK
    <3>2. NotifyOldFirst'
      BY <2>1 DEF NotifyOldFirst
    <3>3. ReadyForParked' /\ Untouched(parked)'
      BY <2>1 DEF ReadyForParked, Untouched
    <3>. QED BY <2>1, <3>1, <3>2, <3>3 DEF Untouched
  <2>4. CASE ReadResult # NotYet
    <3> USE <2>4
    <3>1. fresh' \in Item /\ IsComplete(fresh')
      BY <2>1, ReadResultType, WithResType DEF IsComplete, Exists, TypeOK
    <3>2. TypeOK'
      BY <2>1, <2>2, <3>1 DEF TypeOK
    <3>3. NotifyOldFirst'
      BY <3>1 DEF NotifyOldFirst, IsComplete
    <3>4. ReadyForParked' /\ Untouched(parked)'
      BY DEF ReadyForParked, Untouched
    <3>. QED BY <2>1, <3>2, <3>3, <3>4 DEF Untouched
  <2>. QED BY <2>3, <2>4
<1>11. ASSUME NEW r \in Returns(cur.cb), RunCur(r) PROVE WorkerInv'
  <2> USE <1>11 DEF RunCur, rxVars
  <2>1. r \in Return
    BY DEF Returns
  <2>2. TypeOK'
    BY <2>1 DEF TypeOK
  <2>3. NotifyOldFirst' /\ ReadyForParked' /\ Untouched(hq)' /\ Untouched(parked)'
    BY DEF NotifyOldFirst, ReadyForParked, Untouched, IsComplete
  <2>. QED BY <2>2, <2>3
<1>12. ASSUME NEW r \in Returns(fresh.cb), RunNew(r) PROVE WorkerInv'
  <2> USE <1>12 DEF RunNew, rxVars
  <2>1. r \in Return
    BY DEF Returns
  <2>2. TypeOK'
    BY <2>1 DEF TypeOK
  <2>3. NotifyOldFirst' /\ ReadyForParked' /\ Untouched(hq)' /\ Untouched(parked)'
    BY DEF NotifyOldFirst, ReadyForParked, Untouched, IsComplete
  <2>. QED BY <2>2, <2>3
<1>13. CASE FinishCur
  <2> USE <1>13 DEF FinishCur, rxVars
  <2>1. cur \in Item /\ Exists(cur) /\ cur.kind = "rx" /\ cur.uid \in Uid
    BY DEF TypeOK, NotifyOldFirst, IsComplete, ReadyForParked, Item, Exists, Uid
  <2>2. ret' \in Return /\ told' \in SUBSET Uid
    BY <2>1, NoReturnType DEF TypeOK
  <2>3. /\ cur' \in Item /\ ~IsComplete(cur')
        /\ Exists(cur') => cur'.kind = "rx"
        /\ parked' \in Seq(Item) /\ Untouched(parked')
        /\ \A i \in DOMAIN parked' : parked'[i].kind = "rx"
        /\ parked' # <<>> => Exists(cur')
    <3>1. CASE ReadAgain
      <4>1. NotYet \in Result
        BY ResType DEF NotYet
      <4>. QED BY <2>1, <3>1, <4>1, WithResType
               DEF Reset, IsComplete, Exists, TypeOK, ReadyForParked, Untouched
    <3>2. CASE ~ReadAgain /\ parked = <<>>
      BY <3>2, NoItemType DEF IsComplete, TypeOK, Untouched
    <3>3. CASE ~ReadAgain /\ parked # <<>> /\ ret.more = {}
      BY <3>3, NoItemType DEF IsComplete, TypeOK, Untouched
    <3>4. CASE ~ReadAgain /\ parked # <<>> /\ ret.more # {}
      <4>1. cur' = Head(parked) /\ parked' = Tail(parked)
        BY <3>4
      <4>2. /\ Head(parked) \in Item /\ Exists(Head(parked)) /\ ~IsComplete(Head(parked))
            /\ Tail(parked) \in Seq(Item) /\ Untouched(Tail(parked))
        BY <3>4, UntouchedPop DEF TypeOK
      <4>3. /\ Head(parked).kind = "rx"
            /\ \A i \in DOMAIN Tail(parked) : Tail(parked)[i].kind = "rx"
        BY <3>4 DEF TypeOK, ReadyForParked
      <4>. QED BY <4>1, <4>2, <4>3
    <3>. QED BY <3>1, <3>2, <3>3, <3>4
  <2>4. TypeOK'
    BY <2>2, <2>3 DEF TypeOK
  <2>5. NotifyOldFirst'
    BY <2>3 DEF NotifyOldFirst, IsComplete
  <2>. QED BY <2>3, <2>4, <2>5 DEF Untouched, ReadyForParked
<1>14. CASE FinishNew
  <2> USE <1>14 DEF FinishNew, rxVars
  <2>1. fresh.uid \in Uid
    BY DEF TypeOK, NotifyOldFirst, IsComplete, Item, Exists, Uid
  <2>2. ret' \in Return /\ told' \in SUBSET Uid /\ fresh' \in Item
    BY <2>1, NoReturnType, NoItemType DEF TypeOK
  <2>3. TypeOK'
    BY <2>2 DEF TypeOK
  <2>4. NotifyOldFirst'
    BY NoItemType DEF NotifyOldFirst, IsComplete
  <2>5. ReadyForParked' /\ Untouched(hq)' /\ Untouched(parked)'
    BY DEF ReadyForParked, Untouched
  <2>. QED BY <2>3, <2>4, <2>5
<1>15. CASE Unplug
  <2> USE <1>15, NoItemType DEF Unplug, AtTop
  <2>1. TypeOK'
    <3>1. hq' \in Seq(Item) /\ parked' \in Seq(Item) /\ rxq' \in Seq(Report)
      OBVIOUS
    <3>2. cur' \in Item /\ fresh' \in Item /\ plugged' \in BOOLEAN
      OBVIOUS
    <3>. QED BY <3>1, <3>2 DEF TypeOK
  <2>2. NotifyOldFirst' /\ ReadyForParked' /\ Untouched(hq)' /\ Untouched(parked)'
    BY DEF NotifyOldFirst, ReadyForParked, Untouched, IsComplete
  <2>. QED BY <2>1, <2>2
<1>16. CASE UNCHANGED hidVars
  BY <1>16 DEF hidVars, workerVars, rxVars, TypeOK, NotifyOldFirst, ReadyForParked,
               Untouched, IsComplete, Exists
<1>. QED
  BY <1>1, <1>2, <1>3, <1>4, <1>5, <1>6, <1>7, <1>8, <1>9, <1>10, <1>11, <1>12,
     <1>13, <1>14, <1>15, <1>16 DEF HidNext, Serve, Callbacks

\* The inductive invariant holds in every state of the driver: the worker's
\* loop in _worker serves the current item, the new one and those that wait in
\* the way the three theorems after it say.
THEOREM DriverInvariant == HidSpec => []WorkerInv
  BY InitWorker, NextWorker, PTL DEF HidSpec

\* Every variable keeps its kind, whatever is submitted, whatever the callbacks
\* return and whatever the device sends.
THEOREM TypeCorrect == HidSpec => []TypeOK
<1>1. WorkerInv => TypeOK
  BY DEF WorkerInv
<1>. QED BY <1>1, DriverInvariant, PTL

\* The notification area of the worker's loop serves the current item and then
\* the new one, and leaves no outcome behind for the next iteration.
THEOREM OutcomesNotified == HidSpec => []NotifyOldFirst
<1>1. WorkerInv => NotifyOldFirst
  BY DEF WorkerInv
<1>. QED BY <1>1, DriverInvariant, PTL

\* A read is parked only behind a current read, so the branch of the worker's
\* loop that takes up a parked read when none is current is never entered.
THEOREM ParkedBehindCurrent == HidSpec => []ReadyForParked
<1>1. WorkerInv => ReadyForParked
  BY DEF WorkerInv
<1>. QED BY <1>1, DriverInvariant, PTL

-----------------------------------------------------------------------------
(* The receive thread and the mark that has the library remove the device.  *)

\* No step reopens a device that was not found dead.
LEMMA NextReplugin == TypeOK /\ RepluginJustified /\ [HidNext]_hidVars => RepluginJustified'
<1> SUFFICES ASSUME TypeOK, RepluginJustified, [HidNext]_hidVars PROVE RepluginJustified'
  OBVIOUS
<1> USE DEF RepluginJustified
<1>1. ASSUME NEW kind \in RxKind, Receive(kind) PROVE RepluginJustified'
  <2> DEFINE new == [kind |-> kind, no |-> nrx + 1]
  <2>1. ~replugin /\ \A i \in DOMAIN rxq : rxq[i].kind # "null"
    BY <1>1 DEF Receive
  <2>2. /\ rxq' = Append(rxq, new) /\ rxq \in Seq(Report) /\ new.kind = kind
        /\ rxDead' = (kind = "null") /\ replugin' = replugin
    BY <1>1 DEF Receive, TypeOK, workerVars
  <2> HIDE DEF new
  <2>3. \A i \in DOMAIN rxq' : i # Len(rxq') => rxq'[i].kind # "null"
    BY <2>1, <2>2
  <2>4. rxq' # <<>> /\ rxq'[Len(rxq')].kind = kind
    BY <2>2
  <2>. QED BY <2>1, <2>2, <2>3, <2>4
<1>2. ASSUME DetectReplugin, UNCHANGED rxDead, rxq' = <<>> \/ DropReport
      PROVE  RepluginJustified'
  <2>1. replugin' => rxDead'
    BY <1>2 DEF DetectReplugin, TypeOK
  <2>2. \A i \in DOMAIN rxq' : rxq'[i].kind = "null" => rxDead' /\ i = Len(rxq')
    BY <1>2 DEF DropReport, TypeOK
  <2>. QED BY <2>1, <2>2
<1>3. CASE Pump
  BY <1>2, <1>3 DEF Pump
<1>4. CASE ReadCurrent
  BY <1>2, <1>4 DEF ReadCurrent
<1>5. CASE PopRead
  BY <1>2, <1>5 DEF PopRead
<1>6. CASE PopWrite
  BY <1>6 DEF PopWrite
<1>7. CASE PopWriteRead
  <2>1. rxq' = <<>>
    BY <1>7 DEF PopWriteRead
  <2>2. UNCHANGED <<replugin, rxDead>> \/ (replugin' = TRUE /\ rxDead' = TRUE)
    BY <1>7 DEF PopWriteRead
  <2>. QED BY <2>1, <2>2
<1>8. CASE Unplug
  BY <1>8 DEF Unplug
<1>9. ASSUME UNCHANGED <<replugin, rxq, rxDead>> PROVE RepluginJustified'
  BY <1>9
<1>10. CASE \/ \E uid \in Uid, kind \in Kind, cb \in Callback : Submit(uid, kind, cb)
            \/ PopWhileBroken \/ PopPark \/ PopCancel \/ FinishCur \/ FinishNew
            \/ Callbacks \/ UNCHANGED hidVars
  BY <1>9, <1>10 DEF Submit, PopWhileBroken, PopPark, PopCancel, FinishCur, FinishNew,
                     Callbacks, RunCur, RunNew, hidVars, workerVars, rxVars
<1>. QED
  BY <1>1, <1>3, <1>4, <1>5, <1>6, <1>7, <1>8, <1>10 DEF HidNext, Serve

\* A device is marked for removal only after its receive thread has given up,
\* and that thread queues nothing after its error mark.
THEOREM RepluginOnlyWhenDead == HidSpec => []RepluginJustified
<1>1. HidInit => RepluginJustified
  BY DEF HidInit, RepluginJustified
<1>. QED BY <1>1, NextReplugin, TypeCorrect, PTL DEF HidSpec

-----------------------------------------------------------------------------
(* The order of the reports.  What makes it inductive: a report in the queue *)
(* is one of those received, and no outcome comes from a later one.          *)

Ordered(q) == \A i, j \in DOMAIN q : i < j => q[i].no < q[j].no
AllReceived(q, n) == \A i \in DOMAIN q : q[i].no \in 1..n
NewerThan(q, no) == \A i \in DOMAIN q : no < q[i].no

ReportsInv ==
    /\ Ordered(rxq) /\ AllReceived(rxq, nrx)
    /\ NewerThan(rxq, cur.res.no) /\ cur.res.no <= nrx
    /\ NewerThan(rxq, fresh.res.no) /\ fresh.res.no <= nrx

\* Every outcome carries a report number, 0 for none.
LEMMA ResultNo == \A i \in Item : i.res.no \in Nat
  BY HidAssumption DEF Item, Result

\* Taking up an outcome that is none, or that of the report at the front.
LEMMA ReadReports ==
    ASSUME TypeOK, ReportsInv
    PROVE  /\ ReadResult.no \in Nat /\ ReadResult.no <= nrx
           /\ rxq # <<>> => NewerThan(Tail(rxq), ReadResult.no)
           /\ DropReport => /\ Ordered(rxq') /\ AllReceived(rxq', nrx)
                            /\ NewerThan(rxq', ReadResult.no)
                            /\ \A no : NewerThan(rxq, no) => NewerThan(rxq', no)
<1> USE DEF TypeOK, ReportsInv
<1>1. CASE rxq = <<>>
  BY <1>1, ResType DEF ReadResult, NotYet, DropReport, Ordered, AllReceived, NewerThan
<1>2. CASE rxq # <<>>
  <2>1. /\ Head(rxq) \in Report /\ Head(rxq) = rxq[1] /\ Head(rxq).no \in 1..nrx
        /\ Tail(rxq) \in Seq(Report)
    BY <1>2 DEF AllReceived
  <2>2. ReadResult.no = 0 \/ ReadResult.no = Head(rxq).no
    <3>1. Res("error").no = 0 /\ NotYet.no = 0
      BY ResType DEF NotYet
    <3>. QED BY <3>1 DEF ReadResult
  <2>3. \A i \in DOMAIN Tail(rxq) : i + 1 \in DOMAIN rxq /\ Tail(rxq)[i] = rxq[i + 1]
    BY <1>2
  <2>4. Ordered(Tail(rxq)) /\ AllReceived(Tail(rxq), nrx)
    BY <1>2, <2>3 DEF Ordered, AllReceived
  <2>5. NewerThan(Tail(rxq), Head(rxq).no) /\ NewerThan(Tail(rxq), 0)
    BY <1>2, <2>1, <2>3 DEF Ordered, AllReceived, NewerThan
  <2>6. \A no : NewerThan(rxq, no) => NewerThan(Tail(rxq), no)
    BY <2>3 DEF NewerThan
  <2>7. DropReport => rxq' = Tail(rxq)
    BY <1>2 DEF DropReport
  <2>8. NewerThan(Tail(rxq), ReadResult.no)
    BY <2>2, <2>5
  <2>9. ReadResult.no \in Nat /\ ReadResult.no <= nrx
    BY <2>1, <2>2
  <2>. QED BY <1>2, <2>4, <2>6, <2>7, <2>8, <2>9
<1>. QED BY <1>1, <1>2

\* The reports still to be given to requests stay in the order received.
LEMMA NextReports == WorkerInv /\ ReportsInv /\ [HidNext]_hidVars => ReportsInv'
<1> SUFFICES ASSUME WorkerInv, ReportsInv, [HidNext]_hidVars PROVE ReportsInv'
  OBVIOUS
<1>1. TypeOK /\ cur.res.no \in Nat /\ fresh.res.no \in Nat /\ nrx \in Nat
  BY HidAssumption, ResultNo DEF WorkerInv, TypeOK
<1>2. NotYet.no = 0 /\ NoItem.res.no = 0
  BY ResType DEF NotYet, NoItem, NewItem
<1>3. /\ hq # <<>> => Head(hq) \in Item /\ Head(hq).res.no = 0
      /\ parked # <<>> => Head(parked) \in Item /\ Head(parked).res.no = 0
  BY <1>2, UntouchedPop DEF WorkerInv, TypeOK
<1>4. NewerThan(rxq, 0)
  BY DEF ReportsInv, NewerThan, AllReceived
\* Steps that take up no report.
<1>5. ASSUME rxq' \in {rxq, <<>>}, nrx' = nrx,
             cur'.res.no \in {0, cur.res.no}, fresh'.res.no \in {0, fresh.res.no}
      PROVE  ReportsInv'
  BY <1>1, <1>4, <1>5 DEF ReportsInv, Ordered, AllReceived, NewerThan
<1>6. ASSUME NEW kind \in RxKind, Receive(kind) PROVE ReportsInv'
  <2> DEFINE new == [kind |-> kind, no |-> nrx + 1]
  <2>1. /\ rxq' = Append(rxq, new) /\ rxq \in Seq(Report)
        /\ new.no = nrx + 1 /\ nrx' = nrx + 1
        /\ cur' = cur /\ fresh' = fresh
    BY <1>1, <1>6 DEF Receive, workerVars, TypeOK
  <2> HIDE DEF new
  <2>2. \A i \in DOMAIN rxq' : IF i = Len(rxq') THEN rxq'[i].no = nrx + 1
                              ELSE i \in DOMAIN rxq /\ rxq'[i] = rxq[i]
    BY <2>1
  <2>3. DOMAIN rxq' = 1..Len(rxq') /\ Len(rxq') \in Nat
    BY <2>1
  <2>. QED BY <1>1, <2>1, <2>2, <2>3 DEF ReportsInv, Ordered, AllReceived, NewerThan
<1>7. CASE Pump
  BY <1>5, <1>7 DEF Pump
<1>8. CASE ReadCurrent
  <2>1. /\ DropReport /\ nrx' = nrx /\ fresh' = fresh
        /\ cur' = WithRes(cur, ReadResult)
    BY <1>8 DEF ReadCurrent
  <2>2. cur'.res = ReadResult
    BY <1>1, <2>1, ReadResultType, WithResType DEF TypeOK
  <2>. QED BY <1>1, <2>1, <2>2, ReadReports DEF ReportsInv
<1>9. ASSUME hq # <<>>, NEW o \in {"success", "error"}, fresh' = WithRes(Head(hq), Res(o))
      PROVE  fresh'.res.no = 0
  <2>1. Res(o) \in Result /\ Res(o).no = 0
    BY ResType
  <2>2. WithRes(Head(hq), Res(o)).res = Res(o)
    BY <1>3, <1>9, <2>1, WithResType
  <2>. QED BY <1>9, <2>1, <2>2
<1>10. Cancelled.res.no \in {0, cur.res.no}
  BY <1>1, ResType, WithResType DEF Cancelled, TypeOK
<1>11. CASE PopWhileBroken
  BY <1>5, <1>9, <1>11 DEF PopWhileBroken, rxVars
<1>12. CASE PopCancel
  BY <1>5, <1>9, <1>10, <1>12 DEF PopCancel, PopRun, rxVars
<1>13. CASE PopWrite
  BY <1>5, <1>9, <1>10, <1>13 DEF PopWrite, PopRun
<1>14. CASE PopWriteRead
  BY <1>5, <1>9, <1>10, <1>14 DEF PopWriteRead, PopRun
<1>15. CASE PopRead
  <2>1. hq # <<>> /\ DropReport /\ nrx' = nrx
    BY <1>15 DEF PopRead, PopRun
  <2>2. CASE cur' = Head(hq) /\ UNCHANGED fresh
    BY <1>1, <1>3, <1>4, <2>1, <2>2, ReadReports DEF ReportsInv
  <2>3. CASE fresh' = WithRes(Head(hq), ReadResult) /\ UNCHANGED cur
    <3>1. fresh'.res = ReadResult
      BY <1>1, <1>3, <2>1, <2>3, ReadResultType, WithResType DEF TypeOK
    <3>. QED BY <1>1, <2>1, <2>3, <3>1, ReadReports DEF ReportsInv
  <2>. QED BY <1>15, <2>2, <2>3 DEF PopRead
<1>16. CASE FinishCur
  <2>1. rxq' = rxq /\ nrx' = nrx /\ fresh' = fresh
    BY <1>16 DEF FinishCur, rxVars
  <2>2. Reset(cur).res.no = 0
    <3>1. NotYet \in Result
      BY ResType DEF NotYet
    <3>. QED BY <1>1, <1>2, <3>1, WithResType DEF Reset, TypeOK
  <2>3. cur'.res.no = 0
    BY <1>2, <1>3, <1>16, <2>2 DEF FinishCur
  <2>. QED BY <1>5, <2>1, <2>3
<1>17. CASE FinishNew
  BY <1>2, <1>5, <1>17 DEF FinishNew, rxVars
<1>18. CASE Unplug
  BY <1>2, <1>5, <1>18 DEF Unplug
<1>19. CASE \/ \E uid \in Uid, kind \in Kind, cb \in Callback : Submit(uid, kind, cb)
            \/ PopPark \/ Callbacks \/ UNCHANGED hidVars
  <2>1. UNCHANGED <<rxq, nrx, cur, fresh>>
    BY <1>19 DEF Submit, PopPark, Callbacks, RunCur, RunNew, hidVars, workerVars, rxVars
  <2>. QED BY <1>5, <2>1
<1>. QED
  BY <1>6, <1>7, <1>8, <1>11, <1>12, <1>13, <1>14, <1>15, <1>16, <1>17, <1>18, <1>19
     DEF HidNext, Serve

\* Reports are delivered in the order the device sent them, whatever is flushed
\* by writes, discarded while idle, or read again after a callback.
THEOREM InOrderOfDevice == HidSpec => []ReportsInOrder
<1>1. HidInit => ReportsInv
  BY HidAssumption, ResType
     DEF HidInit, ReportsInv, Ordered, AllReceived, NewerThan, NoItem, NewItem, NotYet
<1>2. ReportsInv => ReportsInOrder
  BY DEF ReportsInv, Ordered, NewerThan, ReportsInOrder
<1>. QED BY <1>1, <1>2, NextReports, DriverInvariant, PTL DEF HidSpec

-----------------------------------------------------------------------------
(* The order of the items.  InOrder speaks of one line; the same is said here *)
(* place by place, which is what the steps of the worker change.              *)

Ascending(q) == \A i, j \in DOMAIN q : i < j => q[i].uid < q[j].uid
AllAfter(q, uid) == \A i \in DOMAIN q : uid < q[i].uid
AllBefore(q, uid) == \A i \in DOMAIN q : q[i].uid < uid
AllUnfinished(q) == \A i \in DOMAIN q : q[i].uid \in used \ told
Unfinished(i) == i.uid \in used \ told

LineInv ==
    /\ Ascending(parked) /\ Ascending(hq)
    /\ AllUnfinished(parked) /\ AllUnfinished(hq)
    /\ \A i \in DOMAIN parked : AllAfter(hq, parked[i].uid)
    /\ Exists(cur) => /\ Unfinished(cur) /\ AllAfter(parked, cur.uid) /\ AllAfter(hq, cur.uid)
    /\ Exists(fresh) => Unfinished(fresh) /\ AllBefore(parked, fresh.uid) /\ AllAfter(hq, fresh.uid)
    /\ Exists(cur) /\ Exists(fresh) => cur.uid < fresh.uid
    /\ told \subseteq used

\* Two ascending sequences, one before the other, make an ascending one.
LEMMA Joined ==
    ASSUME NEW p \in Seq(Item), NEW q \in Seq(Item), Ascending(p), Ascending(q),
           \A i \in DOMAIN p : AllAfter(q, p[i].uid), AllUnfinished(p), AllUnfinished(q)
    PROVE  /\ p \o q \in Seq(Item) /\ Ascending(p \o q) /\ AllUnfinished(p \o q)
           /\ \A uid : AllAfter(p, uid) /\ AllAfter(q, uid) => AllAfter(p \o q, uid)
           /\ \A r \in Seq(Item) :
                 (\A i \in DOMAIN r : AllAfter(p, r[i].uid) /\ AllAfter(q, r[i].uid))
                   => \A i \in DOMAIN r : AllAfter(p \o q, r[i].uid)
<1>1. /\ p \o q \in Seq(Item)
      /\ DOMAIN (p \o q) = 1..(Len(p) + Len(q))
      /\ DOMAIN p = 1..Len(p) /\ DOMAIN q = 1..Len(q)
      /\ Len(p) \in Nat /\ Len(q) \in Nat
  OBVIOUS
<1>2. \A i \in DOMAIN (p \o q) :
        IF i <= Len(p) THEN i \in DOMAIN p /\ (p \o q)[i] = p[i]
        ELSE i - Len(p) \in DOMAIN q /\ (p \o q)[i] = q[i - Len(p)]
  OBVIOUS
<1>3. Ascending(p \o q)
  BY <1>1, <1>2 DEF Ascending, AllAfter
<1>4. AllUnfinished(p \o q)
  BY <1>2 DEF AllUnfinished
<1>5. \A uid : AllAfter(p, uid) /\ AllAfter(q, uid) => AllAfter(p \o q, uid)
  BY <1>2 DEF AllAfter
<1>. QED BY <1>1, <1>3, <1>4, <1>5

\* A slot that may be empty, read as a sequence of at most one item.
LEMMA OptionalLine ==
    ASSUME NEW i \in Item, Exists(i) => Unfinished(i)
    PROVE  /\ Optional(i) \in Seq(Item) /\ Ascending(Optional(i)) /\ AllUnfinished(Optional(i))
           /\ \A q : (Exists(i) => AllAfter(q, i.uid))
                  => \A k \in DOMAIN Optional(i) : AllAfter(q, Optional(i)[k].uid)
           /\ \A uid : (Exists(i) => uid < i.uid) => AllAfter(Optional(i), uid)
<1>1. CASE Exists(i)
  BY <1>1 DEF Optional, Ascending, AllUnfinished, Unfinished, AllAfter
<1>2. CASE ~Exists(i)
  BY <1>2 DEF Optional, Ascending, AllUnfinished, AllAfter
<1>. QED BY <1>1, <1>2

\* What is said place by place is what InOrder says of the line.
LEMMA LineInOrder == TypeOK /\ LineInv => InOrder
<1> SUFFICES ASSUME TypeOK, LineInv PROVE InOrder
  OBVIOUS
<1> USE DEF LineInv
<1> DEFINE c == Optional(cur)
           f == Optional(fresh)
<1>1. /\ c \in Seq(Item) /\ Ascending(c) /\ AllUnfinished(c)
      /\ f \in Seq(Item) /\ Ascending(f) /\ AllUnfinished(f)
      /\ hq \in Seq(Item) /\ parked \in Seq(Item)
  BY OptionalLine DEF TypeOK
<1>2. \A i \in DOMAIN f : AllAfter(hq, f[i].uid)
  BY OptionalLine DEF TypeOK
<1>3. \A i \in DOMAIN parked : AllAfter(f, parked[i].uid) /\ AllAfter(hq, parked[i].uid)
  BY OptionalLine DEF TypeOK, AllBefore
<1>4. \A i \in DOMAIN c : /\ AllAfter(parked, c[i].uid)
                         /\ AllAfter(f, c[i].uid)
                         /\ AllAfter(hq, c[i].uid)
  <2>1. Exists(cur) => AllAfter(f, cur.uid)
    BY OptionalLine DEF TypeOK
  <2>. QED BY <2>1, OptionalLine DEF TypeOK
<1> HIDE DEF c, f
<1>5. LET q == f \o hq
      IN /\ q \in Seq(Item) /\ Ascending(q) /\ AllUnfinished(q)
         /\ \A i \in DOMAIN parked : AllAfter(q, parked[i].uid)
         /\ \A i \in DOMAIN c : AllAfter(q, c[i].uid)
  BY <1>1, <1>2, <1>3, <1>4, Joined
<1>6. LET q == parked \o (f \o hq)
      IN /\ q \in Seq(Item) /\ Ascending(q) /\ AllUnfinished(q)
         /\ \A i \in DOMAIN c : AllAfter(q, c[i].uid)
  BY <1>1, <1>4, <1>5, Joined
<1>7. LET q == c \o (parked \o (f \o hq))
      IN q \in Seq(Item) /\ Ascending(q) /\ AllUnfinished(q)
  BY <1>1, <1>6, Joined
<1>8. Line = c \o (parked \o (f \o hq))
  BY <1>1 DEF Line, c, f
<1>. QED BY <1>7, <1>8 DEF InOrder, Ascending, AllUnfinished

\* A step that hands the front of hq, and nothing else, to the worker.
LEMMA PopLine ==
    ASSUME WorkerInv, LineInv, hq # <<>>, hq' = Tail(hq), parked' = parked,
           UNCHANGED <<used, told>>,
           cur'.uid \in {cur.uid, 0} \/ (cur.uid = 0 /\ parked = <<>> /\ cur'.uid = Head(hq).uid),
           fresh.uid = 0,
           fresh'.uid = 0 \/ (fresh'.uid = Head(hq).uid /\ cur'.uid \in {cur.uid, 0})
    PROVE  LineInv'
<1> USE DEF LineInv, WorkerInv, Exists
<1>1. /\ Head(hq) \in Item /\ Head(hq) = hq[1] /\ 1 \in DOMAIN hq /\ Tail(hq) \in Seq(Item)
      /\ \A i \in DOMAIN Tail(hq) : i + 1 \in DOMAIN hq /\ Tail(hq)[i] = hq[i + 1] /\ 1 < i + 1
  BY DEF TypeOK
<1>2. Unfinished(Head(hq)) /\ AllAfter(Tail(hq), Head(hq).uid)
  BY <1>1 DEF Ascending, AllUnfinished, Unfinished, AllAfter
<1>3. /\ Ascending(Tail(hq)) /\ AllUnfinished(Tail(hq))
      /\ \A uid : AllAfter(hq, uid) => AllAfter(Tail(hq), uid) /\ uid < Head(hq).uid
  BY <1>1 DEF Ascending, AllUnfinished, AllAfter, TypeOK, Item
<1>4. AllBefore(parked, Head(hq).uid)
  BY <1>3 DEF AllBefore
<1>5. /\ Ascending(parked') /\ Ascending(hq') /\ told' \subseteq used'
      /\ AllUnfinished(parked)' /\ AllUnfinished(hq)'
  BY <1>3 DEF AllUnfinished
<1>6. \A i \in DOMAIN parked' : AllAfter(hq', parked'[i].uid)
  BY <1>3
<1>7. Exists(cur') => /\ Unfinished(cur)' /\ AllAfter(parked', cur'.uid)
                     /\ AllAfter(hq', cur'.uid)
  <2>1. CASE cur'.uid = cur.uid
    BY <1>3, <2>1 DEF Unfinished
  <2>2. CASE parked = <<>> /\ cur'.uid = Head(hq).uid
    BY <1>2, <2>2 DEF Unfinished, AllAfter
  <2>. QED BY <2>1, <2>2
<1>8. Exists(fresh') => /\ Unfinished(fresh)' /\ AllBefore(parked', fresh'.uid)
                       /\ AllAfter(hq', fresh'.uid)
  BY <1>2, <1>4 DEF Unfinished
<1>9. Exists(cur') /\ Exists(fresh') => cur'.uid < fresh'.uid
  BY <1>3
<1>. QED BY <1>5, <1>6, <1>7, <1>8, <1>9 DEF Unfinished, AllUnfinished

\* Every step keeps the line of unfinished requests in order of submission.
LEMMA NextLine == WorkerInv /\ LineInv /\ [HidNext]_hidVars => LineInv'
<1> SUFFICES ASSUME WorkerInv, LineInv, [HidNext]_hidVars PROVE LineInv'
  OBVIOUS
<1>1. /\ TypeOK /\ cur \in Item /\ fresh \in Item
      /\ hq \in Seq(Item) /\ parked \in Seq(Item)
      /\ cur.uid \in Nat /\ fresh.uid \in Nat /\ NoItem.uid = 0
  BY HidAssumption, NoItemType DEF WorkerInv, TypeOK, Item, NoItem, NewItem
<1>2. hpc = "top" => fresh.uid = 0
  BY DEF WorkerInv, NotifyOldFirst, Exists
<1>3. \A i \in Item, res \in Result : WithRes(i, res).uid = i.uid
  BY WithResType
<1>4. /\ \A o \in {"success", "error", "cancel", "notyet"} : Res(o) \in Result
      /\ NotYet \in Result /\ ReadResult \in Result
  BY <1>1, ResType, ReadResultType DEF NotYet, TypeOK
<1>5. hq # <<>> => Head(hq) \in Item
  BY <1>1
<1>6. Cancelled.uid = cur.uid
  BY <1>1, <1>3, <1>4 DEF Cancelled
\* Steps that move no item.
<1>7. ASSUME UNCHANGED <<hq, parked, used, told>>, cur'.uid = cur.uid, fresh'.uid = fresh.uid
      PROVE  LineInv'
  BY <1>7 DEF LineInv, Ascending, AllUnfinished, Unfinished, AllAfter, AllBefore, Exists
<1>8. ASSUME NEW uid \in Uid, NEW kind \in Kind, NEW cb \in Callback, Submit(uid, kind, cb)
      PROVE  LineInv'
  <2> DEFINE new == NewItem(uid, kind, cb)
  <2>1. /\ hq' = Append(hq, new) /\ used' = used \cup {uid} /\ \A v \in used : v < uid
        /\ UNCHANGED <<parked, told, cur, fresh>>
    BY <1>8 DEF Submit, Start, workerVars
  <2>2. new.uid = uid /\ new \in Item /\ uid \in Nat
    BY UidType, NewItemType DEF NewItem
  <2> HIDE DEF new
  <2>3. /\ DOMAIN hq' = 1..Len(hq') /\ Len(hq') \in Nat
        /\ \A i \in DOMAIN hq' : IF i = Len(hq') THEN hq'[i].uid = uid
                                ELSE i \in DOMAIN hq /\ hq'[i] = hq[i]
    BY <1>1, <2>1, <2>2
  <2>4. uid \notin told /\ told' \subseteq used'
    BY <2>1, <2>2 DEF LineInv
  <2>5. Ascending(hq') /\ AllUnfinished(hq)' /\ AllUnfinished(parked)'
    BY <2>1, <2>2, <2>3, <2>4 DEF LineInv, Ascending, AllUnfinished
  <2>6. \A v \in used : AllAfter(hq, v) => AllAfter(hq', v)
    BY <2>1, <2>3 DEF AllAfter
  <2>7. /\ Exists(cur) => Unfinished(cur)' /\ AllAfter(hq', cur.uid)
        /\ Exists(fresh) => Unfinished(fresh)' /\ AllAfter(hq', fresh.uid)
        /\ \A i \in DOMAIN parked : AllAfter(hq', parked[i].uid)
    BY <2>1, <2>6 DEF LineInv, Unfinished, AllUnfinished
  <2>. QED BY <2>1, <2>4, <2>5, <2>7 DEF LineInv, Unfinished, AllUnfinished
<1>9. CASE PopWhileBroken
  BY <1>1, <1>2, <1>3, <1>4, <1>5, <1>9, PopLine DEF PopWhileBroken, AtTop
<1>10. CASE PopCancel
  BY <1>1, <1>2, <1>3, <1>4, <1>5, <1>6, <1>10, PopLine DEF PopCancel, PopRun, AtTop
<1>11. CASE PopWrite
  BY <1>1, <1>2, <1>3, <1>4, <1>5, <1>6, <1>11, PopLine DEF PopWrite, PopRun, AtTop
<1>12. CASE PopWriteRead
  BY <1>1, <1>2, <1>3, <1>4, <1>5, <1>6, <1>12, PopLine DEF PopWriteRead, PopRun, AtTop
<1>13. CASE PopRead
  <2>1. cur.uid = 0 /\ parked = <<>>
    BY <1>13 DEF PopRead, PopRun, WorkerInv, ReadyForParked, Exists
  <2>. QED BY <1>1, <1>2, <1>3, <1>4, <1>5, <1>13, <2>1, PopLine DEF PopRead, PopRun, AtTop
<1>14. CASE PopPark
  <2>1. /\ hq # <<>> /\ parked' = Append(parked, Head(hq)) /\ hq' = Tail(hq)
        /\ cur.uid # 0 /\ fresh.uid = 0 /\ UNCHANGED <<cur, fresh, used, told>>
    BY <1>2, <1>14 DEF PopPark, AtTop, Exists
  <2>2. /\ Head(hq) = hq[1] /\ 1 \in DOMAIN hq
        /\ \A i \in DOMAIN Tail(hq) : i + 1 \in DOMAIN hq /\ Tail(hq)[i] = hq[i + 1] /\ 1 < i + 1
    BY <1>1, <2>1
  <2>3. /\ DOMAIN parked' = 1..Len(parked') /\ Len(parked') \in Nat
        /\ \A i \in DOMAIN parked' : IF i = Len(parked') THEN parked'[i] = hq[1]
                                    ELSE i \in DOMAIN parked /\ parked'[i] = parked[i]
    BY <1>1, <1>5, <2>1, <2>2
  <2>4. /\ Ascending(hq') /\ AllUnfinished(hq)' /\ AllAfter(hq', hq[1].uid)
        /\ \A uid : AllAfter(hq, uid) => AllAfter(hq', uid)
    BY <2>1, <2>2 DEF LineInv, Ascending, AllUnfinished, AllAfter
  <2>5. Ascending(parked') /\ AllUnfinished(parked)' /\ AllAfter(parked', cur.uid)
    BY <2>1, <2>2, <2>3 DEF LineInv, Ascending, AllUnfinished, AllAfter, Exists
  <2>6. \A i \in DOMAIN parked' : AllAfter(hq', parked'[i].uid)
    BY <2>3, <2>4 DEF LineInv
  <2>. QED BY <2>1, <2>4, <2>5, <2>6 DEF LineInv, Unfinished, Exists
<1>15. CASE FinishCur
  <2>1. /\ UNCHANGED <<hq, fresh, used>>
        /\ cur.uid # 0
    BY <1>15 DEF FinishCur, WorkerInv, NotifyOldFirst, IsComplete, Exists
  <2>2. CASE ReadAgain
    BY <1>1, <1>3, <1>4, <1>7, <1>15, <2>2 DEF FinishCur, Reset
  <2>3. CASE ~ReadAgain
    <3>1. told' = told \cup {cur.uid} /\ told' \subseteq used'
      BY <1>15, <2>1, <2>3 DEF FinishCur, LineInv, Exists, Unfinished
    <3>2. /\ AllUnfinished(hq)' /\ (Exists(fresh) => Unfinished(fresh)')
          /\ \A i \in DOMAIN parked : parked[i].uid \in used' \ told'
      BY <1>1, <2>1, <3>1 DEF LineInv, AllUnfinished, Unfinished, AllAfter, Exists
    <3>3. CASE cur' = NoItem /\ parked' = <<>>
      BY <1>1, <2>1, <3>1, <3>2, <3>3 DEF LineInv, Ascending, AllUnfinished, AllAfter, AllBefore, Exists
    <3>4. CASE parked # <<>> /\ cur' = Head(parked) /\ parked' = Tail(parked)
      <4>1. /\ Head(parked) = parked[1] /\ 1 \in DOMAIN parked
            /\ \A i \in DOMAIN Tail(parked) :
                  i + 1 \in DOMAIN parked /\ Tail(parked)[i] = parked[i + 1] /\ 1 < i + 1
        BY <1>1, <3>4
      <4>2. Ascending(parked') /\ AllUnfinished(parked)' /\ AllAfter(parked', cur'.uid)
        BY <3>2, <3>4, <4>1 DEF LineInv, Ascending, AllUnfinished, AllAfter
      <4>3. \A i \in DOMAIN parked' : AllAfter(hq', parked'[i].uid)
        BY <2>1, <3>4, <4>1 DEF LineInv
      <4>4. Unfinished(cur)' /\ AllAfter(hq', cur'.uid)
        BY <2>1, <3>2, <3>4, <4>1 DEF LineInv, Unfinished
      <4>5. Exists(fresh) => AllBefore(parked', fresh.uid) /\ cur'.uid < fresh.uid
        BY <3>4, <4>1 DEF LineInv, AllBefore
      <4>. QED BY <2>1, <3>1, <3>2, <4>2, <4>3, <4>4, <4>5 DEF LineInv
    <3>. QED BY <1>15, <2>3, <3>3, <3>4 DEF FinishCur
  <2>. QED BY <2>2, <2>3
<1>16. CASE FinishNew
  <2>1. /\ UNCHANGED <<hq, cur, parked, used>> /\ fresh' = NoItem
        /\ told' \in {told, told \cup {fresh.uid}}
        /\ Exists(fresh)
    BY <1>16 DEF FinishNew, WorkerInv, NotifyOldFirst, IsComplete
  <2>2. told' \subseteq used' /\ AllUnfinished(hq)' /\ AllUnfinished(parked)'
    BY <1>1, <2>1 DEF LineInv, AllUnfinished, Unfinished, AllAfter, AllBefore
  <2>3. Exists(cur) => Unfinished(cur)'
    BY <1>1, <2>1 DEF LineInv, Unfinished
  <2>. QED BY <1>1, <2>1, <2>2, <2>3 DEF LineInv, Exists
<1>17. CASE Unplug
  BY <1>1, <1>17 DEF Unplug, LineInv, Ascending, AllUnfinished, AllAfter, AllBefore, Exists
<1>18. CASE ReadCurrent
  BY <1>1, <1>3, <1>4, <1>7, <1>18 DEF ReadCurrent
<1>19. CASE \/ \E kind \in RxKind : Receive(kind)
            \/ Pump \/ Callbacks \/ UNCHANGED hidVars
  BY <1>7, <1>19 DEF Receive, Pump, Callbacks, RunCur, RunNew, hidVars, workerVars
<1>. QED
  BY <1>8, <1>9, <1>10, <1>11, <1>12, <1>13, <1>14, <1>15, <1>16, <1>17, <1>18, <1>19
     DEF HidNext, Serve

\* No item is overtaken, served twice or kept after its end, for any number of
\* requests and whatever the callbacks ask for.
THEOREM ItemsInOrder == HidSpec => []InOrder
<1>1. HidInit => LineInv
  BY NoItemType DEF HidInit, LineInv, Ascending, AllUnfinished, AllAfter, AllBefore
<1>2. WorkerInv /\ LineInv => InOrder
  BY LineInOrder DEF WorkerInv
<1>. QED BY <1>1, <1>2, NextLine, DriverInvariant, PTL DEF HidSpec
=============================================================================
