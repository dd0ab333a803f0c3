---------------------------- MODULE DevTurn_proofs ----------------------------
(***************************************************************************)
(* Whose turn it is: that what the driver hands back reaches the request   *)
(* it belongs to, for every number of sessions, requests and reports.      *)
(*                                                                         *)
(* SyncInv follows the requests the controller's thread blocks for: an     *)
(* item whose sender blocks is that of areq, wherever the driver holds it, *)
(* and it is gone once its callback has run.  ServedInv is the converse,   *)
(* the item is there as long as the thread blocks.                         *)
(*                                                                         *)
(* TurnInv follows the numbers of the reports: what a session has been     *)
(* sent, what its first read has been given and what a callback may still  *)
(* be given come in this order.                                            *)
(***************************************************************************)
EXTENDS DevUse_proofs

-----------------------------------------------------------------------------
(* The requests whose sender waits.                                         *)

\* The controller blocks, and has not been answered.
Blocks == apc = "wait" /\ ~Ready(Head(syncq))

\* An item whose sender blocks is that of the request the controller blocks
\* for.
Own(i) == Exists(i) /\ i.cb = "sync" => Blocks /\ i.uid = areq
AllOwn(q) == \A k \in DOMAIN q : Own(q[k])

\* So it is with every item the driver holds, but the one whose callback has
\* released its sender, which will be gone.
SyncInv ==
    /\ AllOwn(hq) /\ AllOwn(parked)
    /\ hpc # "cur_end" => Own(cur)
    /\ hpc # "new_end" => Own(fresh)
    /\ hpc = "cur_end" /\ cur.cb = "sync" => ret = NoReturn

\* An outcome changes neither whose an item is nor how it is answered.
LEMMA WithResSame ==
    ASSUME NEW i \in Item, NEW res
    PROVE  WithRes(i, res).uid = i.uid /\ WithRes(i, res).cb = i.cb /\ WithRes(i, res).res = res
  BY DEF WithRes, Item

\* The worker takes the front of the queue.
LEMMA TakeFront ==
    ASSUME TypeOK, AllOwn(hq), hq # <<>>, hq' = Tail(hq), Blocks' = Blocks, areq' = areq
    PROVE  /\ AllOwn(hq)'
           /\ Head(hq) \in Item /\ Own(Head(hq))
           /\ Tail(hq) \in Seq(Item)
<1>1. hq \in Seq(Item)
  BY DEF TypeOK
<1>2. 1 \in DOMAIN hq /\ Head(hq) = hq[1] /\ Head(hq) \in Item /\ Tail(hq) \in Seq(Item)
  BY <1>1
<1>3. \A k \in DOMAIN Tail(hq) : k + 1 \in DOMAIN hq /\ Tail(hq)[k] = hq[k + 1]
  BY <1>1
<1>4. AllOwn(hq)'
  BY <1>3 DEF AllOwn, Own
<1>. QED BY <1>2, <1>4 DEF AllOwn

\* The steps of the worker, of the receive thread and of the unplugging.
LEMMA WorkerOwn ==
    ASSUME WorkerInv, SyncInv, Serve \/ Unplug \/ \E kind \in RxKind : Receive(kind),
           UNCHANGED <<apc, areq, syncq>>
    PROVE  SyncInv'
<1> USE DEF SyncInv
<1>0. TypeOK /\ NotifyOldFirst /\ cur \in Item /\ fresh \in Item /\ hq \in Seq(Item)
      /\ parked \in Seq(Item)
  BY DEF WorkerInv, TypeOK
<1>1. Blocks' = Blocks /\ areq' = areq
  BY DEF Blocks
<1>2. ~Exists(NoItem)
  BY NoItemType
<1>3. UNCHANGED hq => AllOwn(hq)'
  BY <1>1 DEF AllOwn, Own
<1>4. UNCHANGED parked => AllOwn(parked)'
  BY <1>1 DEF AllOwn, Own
<1>5. /\ UNCHANGED cur /\ Own(cur) => Own(cur)'
      /\ UNCHANGED fresh /\ Own(fresh) => Own(fresh)'
  BY <1>1 DEF Own
<1>6. ASSUME hpc \in {"top", "reread"} PROVE Own(cur) /\ Own(fresh)
  BY <1>6
<1>7. /\ \A res : cur' = WithRes(cur, res) /\ Own(cur) => Own(cur)'
      /\ cur' = NoItem => Own(cur)'
      /\ fresh' = NoItem => Own(fresh)'
  BY <1>0, <1>1, <1>2, WithResSame DEF Own, Exists
<1>8. CASE Pump
  BY <1>3, <1>4, <1>5, <1>8 DEF Pump, AtTop
<1>9. CASE ReadCurrent
  <2>1. hpc \in {"top", "reread"} /\ hpc' # "cur_end"
    BY <1>9 DEF ReadCurrent, Notify
  <2>2. Own(cur)' /\ Own(fresh)'
    BY <1>5, <1>6, <1>7, <1>9, <2>1 DEF ReadCurrent
  <2>. QED BY <1>3, <1>4, <1>9, <2>1, <2>2 DEF ReadCurrent
<1>10. CASE PopWhileBroken \/ PopPark \/ PopCancel \/ PopWrite \/ PopWriteRead \/ PopRead
  <2>1. /\ hpc = "top" /\ hq # <<>> /\ hq' = Tail(hq) /\ hpc' # "cur_end" /\ hpc' # "new_end"
    BY <1>10 DEF PopWhileBroken, PopPark, PopCancel, PopWrite, PopWriteRead, PopRead, PopRun,
                 AtTop, Notify
  <2>2. AllOwn(hq)' /\ Head(hq) \in Item /\ Own(Head(hq))
    BY <1>0, <1>1, <2>1, TakeFront
  <2>3. Own(cur) /\ Own(fresh)
    BY <1>6, <2>1
  <2>4. /\ \A res : fresh' = WithRes(Head(hq), res) => Own(fresh)'
        /\ cur' = Head(hq) => Own(cur)'
    BY <1>1, <2>2, WithResSame DEF Own, Exists
  <2>5. Own(cur)'
    <3>1. CASE PopCancel \/ PopWrite \/ PopWriteRead
      BY <1>5, <1>7, <2>3, <3>1 DEF PopCancel, PopWrite, PopWriteRead, Cancelled
    <3>2. CASE PopWhileBroken \/ PopPark \/ PopRead
      BY <1>5, <2>3, <2>4, <3>2 DEF PopWhileBroken, PopPark, PopRead
    <3>. QED BY <1>10, <3>1, <3>2
  <2>6. Own(fresh)'
    BY <1>5, <1>10, <2>3, <2>4
    DEF PopWhileBroken, PopPark, PopCancel, PopWrite, PopWriteRead, PopRead
  <2>7. AllOwn(parked)'
    <3>1. CASE PopPark
      <4>1. /\ parked' = Append(parked, Head(hq))
            /\ \A k \in DOMAIN parked' :
                 parked'[k] = Head(hq) \/ (k \in DOMAIN parked /\ parked'[k] = parked[k])
        BY <1>0, <2>2, <3>1 DEF PopPark
      <4>. QED BY <1>1, <2>2, <4>1 DEF AllOwn, Own
    <3>2. CASE ~PopPark
      BY <1>4, <1>10, <3>2 DEF PopWhileBroken, PopCancel, PopWrite, PopWriteRead, PopRead
    <3>. QED BY <3>1, <3>2
  <2>. QED BY <2>1, <2>2, <2>5, <2>6, <2>7
<1>11. CASE FinishCur
  <2>1. hpc = "cur_end" /\ hpc' \in {"top", "new"}
    BY <1>11 DEF FinishCur
  <2>2. Own(fresh)' /\ AllOwn(hq)'
    BY <1>3, <1>5, <1>11, <2>1 DEF FinishCur
  <2>3. \A k \in DOMAIN Tail(parked) : parked # <<>> => k + 1 \in DOMAIN parked /\ Tail(parked)[k] = parked[k + 1]
    BY <1>0
  <2>4. AllOwn(parked)'
    <3>1. parked' = parked \/ parked' = <<>> \/ (parked # <<>> /\ parked' = Tail(parked))
      BY <1>11 DEF FinishCur
    <3>2. parked' = <<>> => AllOwn(parked)'
      BY DEF AllOwn
    <3>3. parked # <<>> /\ parked' = Tail(parked) => AllOwn(parked)'
      BY <1>1, <2>3 DEF AllOwn, Own
    <3>. QED BY <1>4, <3>1, <3>2, <3>3
  <2>5. Own(cur)'
    <3>1. CASE cur.cb = "sync"
      <4>1. ret = NoReturn /\ ~ReadAgain
        BY <2>1, <3>1 DEF NoReturn, ReadAgain
      <4>2. ret.more = {}
        BY <4>1 DEF NoReturn
      <4>. QED BY <1>7, <1>11, <4>1, <4>2 DEF FinishCur
    <3>2. CASE cur.cb # "sync"
      <4>1. cur' = Reset(cur) => Own(cur)'
        BY <1>0, <3>2, WithResSame DEF Reset, Own
      <4>2. parked # <<>> /\ cur' = Head(parked) => Own(cur)'
        <5>1. parked # <<>> => Head(parked) = parked[1] /\ 1 \in DOMAIN parked
          BY <1>0
        <5>. QED BY <1>1, <5>1 DEF AllOwn, Own
      <4>. QED BY <1>7, <1>11, <4>1, <4>2 DEF FinishCur
    <3>. QED BY <3>1, <3>2
  <2>. QED BY <2>1, <2>2, <2>4, <2>5
<1>12. CASE FinishNew
  BY <1>3, <1>4, <1>5, <1>7, <1>12 DEF FinishNew
<1>13. CASE Unplug
  <2>1. hq' = <<>> => AllOwn(hq)'
    BY DEF AllOwn
  <2>2. parked' = <<>> => AllOwn(parked)'
    BY DEF AllOwn
  <2>. QED BY <1>7, <1>13, <2>1, <2>2 DEF Unplug, AtTop
<1>14. CASE \E kind \in RxKind : Receive(kind)
  BY <1>3, <1>4, <1>5, <1>14 DEF Receive, workerVars
<1>. QED
  BY <1>8, <1>9, <1>10, <1>11, <1>12, <1>13, <1>14 DEF Serve

\* The callback of an item whose sender blocks answers it: it is the request
\* the controller blocks for, and no other item has its number.
LEMMA CallbackOwn ==
    ASSUME UseInv, LineInv, WaitsForOwn, SyncInv, BeginCur \/ BeginNew
    PROVE  SyncInv'
<1> USE DEF SyncInv
<1>0. /\ TypeOK /\ cur \in Item /\ fresh \in Item /\ hq \in Seq(Item) /\ parked \in Seq(Item)
      /\ syncq \in Seq(Entry) /\ NotifyOldFirst
  BY DEF UseInv, WorkerInv, TypeOK, CtlTypeOK
<1>1. PICK item \in {cur, fresh} :
        /\ CallbackOf(item) /\ IsComplete(item) /\ Own(item)
        /\ item = cur => hpc' = "cur_end" \/ (item = fresh /\ hpc' = "new_end")
        /\ ret' = ReturnOf(item)
        /\ hpc' = "cur_end" => item = cur
        /\ hpc' \in {"cur_end", "new_end"} /\ (hpc' = "new_end" => item = fresh)
        /\ hpc \notin {"cur_end", "new_end"}
  <2>1. CASE BeginCur
    <3>1. hpc = "cur" /\ hpc' = "cur_end" /\ ret' = ReturnOf(cur) /\ CallbackOf(cur)
      BY <2>1 DEF BeginCur, RunCur
    <3>2. IsComplete(cur) /\ Own(cur)
      BY <1>0, <3>1 DEF NotifyOldFirst
    <3>. QED BY <3>1, <3>2
  <2>2. CASE BeginNew
    <3>1. hpc = "new" /\ hpc' = "new_end" /\ ret' = ReturnOf(fresh) /\ CallbackOf(fresh)
      BY <2>2 DEF BeginNew, RunNew
    <3>2. IsComplete(fresh) /\ Own(fresh)
      BY <1>0, <3>1 DEF NotifyOldFirst
    <3>. QED BY <3>1, <3>2
  <2>. QED BY <2>1, <2>2
<1>2. UNCHANGED <<cur, fresh, hq, parked, apc, areq>>
  BY DEF BeginCur, BeginNew, RunCur, RunNew, ctlVars
<1>3. Own(cur) /\ Own(fresh)
  BY <1>1
<1>4. CASE item.cb # "sync"
  <2>1. syncq' = syncq
    BY <1>1, <1>4 DEF CallbackOf, ReadCallback
  <2>2. Blocks' = Blocks
    BY <1>2, <2>1 DEF Blocks
  <2>3. AllOwn(hq)' /\ AllOwn(parked)' /\ Own(cur)' /\ Own(fresh)'
    BY <1>2, <1>3, <2>2 DEF AllOwn, Own
  <2>. QED BY <1>1, <1>2, <1>4, <2>3
<1>5. CASE item.cb = "sync"
  <2>1. Blocks /\ item.uid = areq /\ Exists(item)
    BY <1>1, <1>5 DEF Own, IsComplete
  <2>2. apc = "wait" /\ syncq # <<>>
    BY <2>1 DEF Blocks, WaitsForOwn
  <2>3. AllOwn(hq)' /\ AllOwn(parked)'
    <3>1. \A k \in DOMAIN hq : Exists(hq[k]) /\ hq[k] \in Item /\ item.uid < hq[k].uid
      BY <1>0, <1>1, <2>1 DEF UseInv, WorkerInv, Untouched, LineInv, AllAfter
    <3>2. \A k \in DOMAIN parked : /\ parked[k] \in Item
                                   /\ item.uid < parked[k].uid \/ parked[k].uid < item.uid
      BY <1>0, <1>1, <2>1 DEF LineInv, AllAfter, AllBefore
    <3>3. \A i \in Item : i.uid \in Nat
      BY HidAssumption DEF Item
    <3>4. \A k \in DOMAIN hq : hq[k].cb # "sync"
      BY <1>0, <2>1, <3>1, <3>3 DEF AllOwn, Own
    <3>5. \A k \in DOMAIN parked : Exists(parked[k]) => parked[k].cb # "sync"
      BY <1>0, <2>1, <3>2, <3>3 DEF AllOwn, Own
    <3>. QED BY <1>2, <3>4, <3>5 DEF AllOwn, Own
  <2>4. hpc' # "cur_end" => Own(cur)'
    <3>1. CASE hpc' = "new_end"
      <4>1. item = fresh /\ Exists(fresh)
        BY <1>1, <2>1, <3>1
      <4>2. cur.uid \in Nat /\ fresh.uid \in Nat
        BY <1>0, HidAssumption DEF Item
      <4>3. Exists(cur) => cur.cb # "sync"
        BY <1>3, <2>1, <4>1, <4>2 DEF LineInv, Own
      <4>. QED BY <1>2, <4>3 DEF Own
    <3>. QED BY <1>1, <3>1
  <2>5. hpc' # "new_end" => Own(fresh)'
    <3>1. CASE hpc' = "cur_end"
      <4>1. item = cur /\ Exists(cur)
        BY <1>1, <2>1, <3>1
      <4>2. cur.uid \in Nat /\ fresh.uid \in Nat
        BY <1>0, HidAssumption DEF Item
      <4>3. Exists(fresh) => fresh.cb # "sync"
        BY <1>3, <2>1, <4>1, <4>2 DEF LineInv, Own
      <4>. QED BY <1>2, <4>3 DEF Own
    <3>. QED BY <1>1, <3>1
  <2>6. hpc' = "cur_end" /\ cur'.cb = "sync" => ret' = NoReturn
    BY <1>1, <1>2, <1>5 DEF ReturnOf
  <2>. QED BY <2>3, <2>4, <2>5, <2>6
<1>. QED BY <1>4, <1>5

\* Nothing is started, and the controller blocks for nothing or for the same.
LEMMA HeldOwn ==
    ASSUME SyncInv, UNCHANGED hidVars, Blocks' <=> Blocks, Blocks => areq' = areq
    PROVE  SyncInv'
<1>1. UNCHANGED <<hq, cur, fresh, parked, hpc, ret>>
  BY DEF hidVars, workerVars
<1>. QED BY <1>1 DEF SyncInv, AllOwn, Own

\* A request is started: one whose sender blocks if it is that of a write,
\* transmit, cancel or close, and then the controller blocks for it.
LEMMA StartOwn ==
    ASSUME WorkerInv, SyncInv, ~Blocks, NEW id \in Uid, NEW kind \in Kind, NEW cb \in Callback,
           Start(id, kind, cb), UNCHANGED <<workerVars, rxVars, plugged>>,
           IF cb = "sync" THEN Blocks' /\ areq' = id ELSE ~Blocks'
    PROVE  SyncInv'
<1>1. /\ hq' = Append(hq, NewItem(id, kind, cb))
      /\ UNCHANGED <<cur, fresh, parked, hpc, ret>>
  BY DEF Start, workerVars
<1>2. hq \in Seq(Item) /\ NewItem(id, kind, cb) \in Item
  BY NewItemType DEF WorkerInv, TypeOK
<1>3. \A k \in DOMAIN hq' :
        hq'[k] = NewItem(id, kind, cb) \/ (k \in DOMAIN hq /\ hq'[k] = hq[k])
  BY <1>1, <1>2
<1>4. NewItem(id, kind, cb).uid = id /\ NewItem(id, kind, cb).cb = cb
  BY DEF NewItem
<1>5. AllOwn(hq)'
  BY <1>3, <1>4 DEF SyncInv, AllOwn, Own
<1>. QED BY <1>1, <1>5 DEF SyncInv, AllOwn, Own

\* _start_and_complete_by_...
LEMMA StartAndWaitSync ==
    ASSUME UseInv, SyncInv, ~Blocks, syncq = <<>>, NEW id \in Uid,
           req[id].op \in {"transmit", "transmit_empty", "write", "cancel", "close"},
           StartAndWait(id), areq' = id, UNCHANGED <<workerVars, rxVars, plugged>>
    PROVE  SyncInv'
<1>1. CASE plugged
  <2>1. KindOf(req[id].op) \in Kind /\ "sync" \in Callback
    BY DEF KindOf, Kind, Callback
  <2>2. /\ Start(id, KindOf(req[id].op), "sync") /\ syncq' = <<Waiting(id)>> /\ apc' = "wait"
    BY <1>1 DEF StartAndWait
  <2>3. Blocks'
    BY <2>2 DEF Blocks, Waiting, Ready
  <2>. QED BY <2>1, <2>2, <2>3, StartOwn DEF UseInv
<1>2. CASE ~plugged
  <2>1. UNCHANGED hidVars /\ ~Blocks'
    BY <1>2 DEF StartAndWait, hidVars, Blocks
  <2>. QED BY <2>1, HeldOwn
<1>. QED BY <1>1, <1>2

\* The steps of the controller's thread.
LEMMA ControllerOwn ==
    ASSUME UseInv, AnswerInv, SyncInv, Controller
    PROVE  SyncInv'
<1>0. apc # "wait" => ~Blocks
  BY DEF Blocks
<1>1. ASSUME NEW id \in DOMAIN req,
             TurnAway(id) \/ Open(id) \/ CloseIdle(id) \/ CloseReading(id) \/ FlagOthers(id)
               \/ \E evt \in Event : Refuse(id, evt)
      PROVE  SyncInv'
  <2>1. /\ UNCHANGED hidVars /\ apc = "idle" /\ apc' # "wait"
    BY <1>1 DEF TurnAway, Open, CloseIdle, CloseReading, FlagOthers, Refuse, Dispatch, Pop,
                ctlVars
  <2>. QED BY <2>1, HeldOwn DEF Blocks
<1>2. ASSUME NEW id \in DOMAIN req, StartSync(id)
      PROVE  SyncInv'
  <2>1. /\ Pop(id) /\ StartAndWait(id) /\ areq' = id /\ apc = "idle"
        /\ UNCHANGED <<workerVars, rxVars, plugged>>
    BY <1>2 DEF StartSync, Pop
  <2>2. req[id].op \in Action /\ id \in Uid
    BY <2>1, PopOrder DEF UseInv, Request
  <2>3. req[id].op \in {"transmit", "transmit_empty", "write", "cancel", "close"}
    BY <1>2, <2>2 DEF StartSync, Action, EventOf
  <2>4. syncq = <<>>
    BY <2>1 DEF AnswerInv, WaitsForOwn
  <2>. QED BY <1>0, <2>1, <2>2, <2>3, <2>4, StartAndWaitSync
<1>3. ASSUME NEW id \in DOMAIN req, StartRead(id)
      PROVE  SyncInv'
  <2>1. /\ Pop(id) /\ apc = "idle" /\ apc' # "wait" /\ UNCHANGED <<workerVars, rxVars, plugged>>
    BY <1>3 DEF StartRead, Pop
  <2>2. CASE plugged
    <3> DEFINE cb == IF shared THEN "shared" ELSE "exclusive"
    <3>1. Start(id, "rx", cb) /\ cb \in Callback /\ cb # "sync" /\ "rx" \in Kind
      BY <1>3, <2>2 DEF StartRead, Callback, Kind
    <3>2. id \in Uid
      BY <2>1, PopOrder DEF UseInv
    <3>. HIDE DEF cb
    <3>. QED BY <2>1, <3>1, <3>2, StartOwn DEF UseInv, Blocks
  <2>3. CASE ~plugged
    <3>1. UNCHANGED hidVars
      BY <1>3, <2>3 DEF StartRead, hidVars
    <3>. QED BY <2>1, <3>1, HeldOwn DEF Blocks
  <2>. QED BY <2>2, <2>3
<1>4. CASE StartFlaggedOrClose
  <2>1. /\ apc \in {"flagged", "close"} /\ StartAndWait(areq) /\ areq' = areq
        /\ UNCHANGED <<workerVars, rxVars, plugged>>
    BY <1>4 DEF StartFlaggedOrClose
  <2>2. /\ areq \in DOMAIN req
        /\ req[areq].op \in {"transmit", "transmit_empty", "write", "cancel", "close"}
    BY <2>1 DEF UseInv, AboutToStart
  <2>3. areq \in Uid
    BY <2>2, HidAssumption DEF UseInv, CtlTypeOK, Uid
  <2>4. syncq = <<>>
    BY <2>1 DEF AnswerInv, WaitsForOwn
  <2>. QED BY <1>0, <2>1, <2>2, <2>3, <2>4, StartAndWaitSync
<1>5. CASE Wake
  <2>1. UNCHANGED hidVars /\ ~Blocks /\ ~Blocks'
    BY <1>5 DEF Wake, Blocks
  <2>. QED BY <2>1, HeldOwn
<1>6. CASE Reading \/ Collect \/ Continue
  <2>1. UNCHANGED hidVars /\ ~Blocks /\ ~Blocks'
    BY <1>6 DEF Reading, Collect, Continue, Blocks
  <2>. QED BY <2>1, HeldOwn
<1>. QED BY <1>1, <1>2, <1>3, <1>4, <1>5, <1>6 DEF Controller

\* All steps.
LEMMA NextSync ==
    UseInv /\ LineInv /\ AnswerInv /\ SyncInv /\ [DevNext]_devVars => SyncInv'
<1> SUFFICES ASSUME UseInv, LineInv, AnswerInv, SyncInv, [DevNext]_devVars PROVE SyncInv'
  OBVIOUS
<1>1. CASE UNCHANGED <<ctlVars, queueVars, hidVars>>
  BY <1>1, HeldOwn DEF ctlVars, queueVars, Blocks
<1>2. CASE UNCHANGED devVars
  BY <1>1, <1>2 DEF devVars
<1>3. CASE Driver
  <2>1. CASE DriverOnly /\ UNCHANGED <<clientVars, ctlVars, stateVars, queueVars, bsel>>
    BY <2>1, WorkerOwn DEF DriverOnly, Serve, ctlVars, queueVars, UseInv
  <2>2. CASE BeginCur \/ BeginNew
    BY <2>2, CallbackOwn DEF AnswerInv
  <2>3. CASE EndCur \/ EndNew
    BY <2>3, WorkerOwn DEF EndCur, EndNew, StopWaiting, Serve, ctlVars, queueVars, UseInv
  <2>. QED BY <1>3, <2>1, <2>2, <2>3 DEF Driver
<1>4. CASE Device
  BY <1>4, WorkerOwn DEF Device, ctlVars, queueVars, UseInv
<1>5. ASSUME NEW s \in Session, NEW op \in Action, Post(s, op)
      PROVE  SyncInv'
  BY <1>1, <1>5 DEF Post
<1>. QED BY <1>2, <1>3, <1>4, <1>5, ControllerOwn DEF DevNext

\* Without transmits that carry no data, an item whose sender blocks is not
\* taken for a read by the driver, and it is there until its callback runs.
NoBareRead == "transmit_empty" \notin Opens \cup Ops

Asked == \A id \in DOMAIN req : req[id].op \in Opens \cup Ops
SyncNoRead == \A k \in DOMAIN hq : hq[k].cb = "sync" => hq[k].kind # "rx"
BlockedHeld ==
    \/ \E k \in DOMAIN hq : hq[k].uid = areq /\ hq[k].cb = "sync"
    \/ hpc # "new_end" /\ Exists(fresh) /\ fresh.uid = areq /\ fresh.cb = "sync"
ServedInv == SyncNoRead /\ (plugged /\ Blocks => BlockedHeld)

\* What is sent is what clients may send.
LEMMA AskedOps ==
    ASSUME CtlTypeOK, [DevNext]_devVars, Asked
    PROVE  Asked'
<1> USE DEF Asked
<1>1. CASE UNCHANGED req
  BY <1>1
<1>2. ASSUME NEW answers, Send(answers)
      PROVE  Asked'
  <2>1. DOMAIN req' = DOMAIN req /\ \A id \in DOMAIN req : req[id] \in Request
    BY <1>2 DEF Send, CtlTypeOK
  <2>2. \A id \in DOMAIN req : req'[id].op = req[id].op
    BY <1>2, <2>1 DEF Send, Request
  <2>. QED BY <2>1, <2>2
<1>3. ASSUME NEW s \in Session, NEW op \in Action, Post(s, op)
      PROVE  Asked'
  <2> DEFINE r == [ses |-> s, op |-> op, ans |-> <<>>]
  <2>1. req' = Append(req, r) /\ op \in Opens \cup Ops /\ r.op = op
    BY <1>3 DEF Post
  <2>. HIDE DEF r
  <2>2. req \in Seq(Request)
    BY DEF CtlTypeOK
  <2>3. \A id \in DOMAIN req' : req'[id] = r \/ (id \in DOMAIN req /\ req'[id] = req[id])
    BY <2>1, <2>2
  <2>. QED BY <2>1, <2>3
<1>4. CASE Controller
  <2>1. ASSUME NEW id \in DOMAIN req, TurnAway(id)
        PROVE  Asked'
    BY <1>2, <2>1 DEF TurnAway
  <2>2. CASE Collect \/ Continue
    BY <1>2, <2>2 DEF Collect, Continue
  <2>. QED BY <1>1, <1>4, <2>1, <2>2
       DEF Controller, Open, CloseIdle, CloseReading, StartSync, FlagOthers, StartRead, Refuse,
           Dispatch, StartFlaggedOrClose, Wake, Reading, clientVars
<1>5. CASE Driver \/ Device \/ UNCHANGED devVars
  BY <1>1, <1>5 DEF Driver, Device, BeginCur, BeginNew, EndCur, EndNew, StopWaiting, clientVars,
                    devVars
<1>. QED BY <1>3, <1>4, <1>5 DEF DevNext

\* The worker keeps what it holds until its callback.
LEMMA WorkerServes ==
    ASSUME WorkerInv, ServedInv, Serve \/ Unplug \/ \E kind \in RxKind : Receive(kind),
           UNCHANGED <<apc, areq, syncq>>
    PROVE  ServedInv'
<1> USE DEF ServedInv, SyncNoRead, BlockedHeld
<1>0. /\ TypeOK /\ NotifyOldFirst /\ fresh \in Item /\ hq \in Seq(Item)
      /\ \A k \in DOMAIN hq : Exists(hq[k])
  BY DEF WorkerInv, TypeOK, Untouched
<1>1. (Blocks' <=> Blocks) /\ areq' = areq
  BY DEF Blocks
<1>2. CASE UNCHANGED <<hq, fresh, plugged>> /\ hpc' # "new_end" /\ hpc # "new_end"
  BY <1>1, <1>2 DEF Exists
<1>3. CASE Pump \/ ReadCurrent \/ FinishCur
  BY <1>2, <1>3 DEF Pump, ReadCurrent, FinishCur, AtTop, Notify
<1>4. CASE \E kind \in RxKind : Receive(kind)
  <2>1. UNCHANGED <<hq, fresh, hpc, plugged>>
    BY <1>4 DEF Receive, workerVars
  <2>. QED BY <1>1, <2>1 DEF Exists
<1>5. CASE FinishNew
  BY <1>1, <1>5 DEF FinishNew
<1>6. CASE Unplug
  BY <1>6 DEF Unplug
<1>7. CASE PopWhileBroken \/ PopPark \/ PopCancel \/ PopWrite \/ PopWriteRead \/ PopRead
  <2>1. /\ hpc = "top" /\ hq # <<>> /\ hq' = Tail(hq) /\ hpc' # "new_end" /\ plugged' = plugged
    BY <1>7 DEF PopWhileBroken, PopPark, PopCancel, PopWrite, PopWriteRead, PopRead, PopRun,
                AtTop, Notify
  <2>2. /\ 1 \in DOMAIN hq /\ Head(hq) = hq[1] /\ hq[1] \in Item /\ Exists(hq[1])
        /\ \A k \in DOMAIN hq : k = 1 \/ (k - 1 \in DOMAIN hq' /\ hq'[k - 1] = hq[k])
        /\ \A k \in DOMAIN hq' : k + 1 \in DOMAIN hq /\ hq'[k] = hq[k + 1]
    BY <1>0, <2>1
  <2>3. ~Exists(fresh)
    BY <1>0, <2>1 DEF NotifyOldFirst
  <2>4. \/ hq[1].kind = "rx"
        \/ \E res : fresh' = WithRes(hq[1], res)
    BY <1>7, <2>2 DEF PopWhileBroken, PopPark, PopCancel, PopWrite, PopWriteRead, PopRead, PopRun
  <2>5. hq[1].cb = "sync" => /\ Exists(fresh') /\ fresh'.uid = hq[1].uid
                             /\ fresh'.cb = "sync"
    BY <2>2, <2>4, WithResSame DEF Exists
  <2>. HIDE DEF SyncNoRead, BlockedHeld
  <2>6. SyncNoRead'
    BY <2>2 DEF SyncNoRead
  <2>7. ASSUME BlockedHeld PROVE BlockedHeld'
    <3>1. PICK k \in DOMAIN hq : hq[k].uid = areq /\ hq[k].cb = "sync"
      BY <2>3, <2>7 DEF BlockedHeld
    <3>2. CASE k = 1
      BY <1>1, <2>1, <2>5, <3>1, <3>2 DEF BlockedHeld, Exists
    <3>3. CASE k # 1
      BY <1>1, <2>2, <3>1, <3>3 DEF BlockedHeld
    <3>. QED BY <3>2, <3>3
  <2>. QED BY <1>1, <2>1, <2>6, <2>7
<1>. QED BY <1>3, <1>4, <1>5, <1>6, <1>7 DEF Serve

\* A callback leaves the request the controller blocks for where it is, or
\* answers it.
LEMMA CallbackServes ==
    ASSUME UseInv, WaitsForOwn, ServedInv, BeginCur \/ BeginNew
    PROVE  ServedInv'
<1> USE DEF ServedInv, SyncNoRead, BlockedHeld
<1>1. UNCHANGED <<hq, fresh, apc, areq, plugged>>
  BY DEF BeginCur, BeginNew, RunCur, RunNew, ctlVars
<1>2. PICK item \in {cur, fresh} : /\ CallbackOf(item) /\ IsComplete(item)
                                   /\ hpc' = "new_end" => item = fresh
  BY DEF BeginCur, BeginNew, RunCur, RunNew, UseInv, WorkerInv, NotifyOldFirst
<1>3. CASE item.cb # "sync"
  <2>1. syncq' = syncq
    BY <1>2, <1>3 DEF CallbackOf, ReadCallback
  <2>2. Blocks' <=> Blocks
    BY <1>1, <2>1 DEF Blocks
  <2>3. hpc # "new_end" /\ (hpc' # "new_end" \/ fresh.cb # "sync")
    BY <1>2, <1>3 DEF BeginCur, BeginNew, RunCur, RunNew
  <2>. QED BY <1>1, <2>2, <2>3 DEF Exists
<1>4. CASE item.cb = "sync"
  <2>1. ~Blocks'
    <3>1. CASE apc # "wait"
      BY <1>1, <3>1 DEF Blocks
    <3>2. CASE apc = "wait"
      <4>1. syncq # <<>> /\ syncq \in Seq(Entry)
        BY <3>2 DEF WaitsForOwn, UseInv, CtlTypeOK
      <4>2. syncq' = [syncq EXCEPT ![1].rsp = item.res]
        BY <1>2, <1>4, <4>1 DEF CallbackOf, SyncCallback
      <4>3. 1 \in DOMAIN syncq /\ syncq[1] \in Entry
        BY <4>1
      <4>4. syncq'[1].rsp = item.res /\ Head(syncq') = syncq'[1]
        BY <4>1, <4>2, <4>3 DEF Entry
      <4>. QED BY <1>2, <4>4 DEF Blocks, Ready, IsComplete
    <3>. QED BY <3>1, <3>2
  <2>. QED BY <1>1, <2>1
<1>. QED BY <1>3, <1>4

\* Nothing is started, and the controller blocks for nothing or for the same.
LEMMA HeldServed ==
    ASSUME ServedInv, UNCHANGED hidVars, Blocks' => Blocks /\ areq' = areq
    PROVE  ServedInv'
<1>1. UNCHANGED <<hq, fresh, hpc, plugged>>
  BY DEF hidVars, workerVars
<1>. QED BY <1>1 DEF ServedInv, SyncNoRead, BlockedHeld, Exists

\* A request is started.
LEMMA StartServed ==
    ASSUME WorkerInv, ServedInv, NEW id \in Uid, NEW kind \in Kind, NEW cb \in Callback,
           Start(id, kind, cb), UNCHANGED <<workerVars, rxVars, plugged>>,
           IF cb = "sync" THEN kind # "rx" /\ areq' = id ELSE ~Blocks'
    PROVE  ServedInv'
<1> DEFINE i == NewItem(id, kind, cb)
<1>1. hq' = Append(hq, i)
  BY DEF Start
<1>2. hq \in Seq(Item) /\ i \in Item /\ i.uid = id /\ i.cb = cb /\ i.kind = kind
  BY NewItemType DEF WorkerInv, TypeOK, NewItem
<1>. HIDE DEF i
<1>3. /\ \A k \in DOMAIN hq' : hq'[k] = i \/ (k \in DOMAIN hq /\ hq'[k] = hq[k])
      /\ Len(hq) + 1 \in DOMAIN hq' /\ hq'[Len(hq) + 1] = i
  BY <1>1, <1>2
<1>4. SyncNoRead'
  BY <1>2, <1>3 DEF ServedInv, SyncNoRead
<1>5. cb = "sync" => BlockedHeld'
  BY <1>2, <1>3 DEF BlockedHeld
<1>. QED BY <1>4, <1>5 DEF ServedInv

\* _start_and_complete_by_...
LEMMA StartAndWaitServed ==
    ASSUME UseInv, ServedInv, NEW id \in Uid,
           req[id].op \in {"transmit", "write", "cancel", "close"},
           StartAndWait(id), areq' = id, UNCHANGED <<workerVars, rxVars, plugged>>
    PROVE  ServedInv'
<1>1. CASE plugged
  <2>1. /\ KindOf(req[id].op) \in Kind /\ KindOf(req[id].op) # "rx" /\ "sync" \in Callback
    BY DEF KindOf, Kind, Callback
  <2>2. Start(id, KindOf(req[id].op), "sync")
    BY <1>1 DEF StartAndWait
  <2>. QED BY <2>1, <2>2, StartServed DEF UseInv
<1>2. CASE ~plugged
  <2>1. UNCHANGED hidVars /\ ~Blocks'
    BY <1>2 DEF StartAndWait, hidVars, Blocks
  <2>. QED BY <2>1, HeldServed
<1>. QED BY <1>1, <1>2

\* The steps of the controller's thread.
LEMMA ControllerServes ==
    ASSUME NoBareRead, UseInv, AnswerInv, Asked, ServedInv, Controller
    PROVE  ServedInv'
<1>1. ASSUME NEW id \in DOMAIN req,
             TurnAway(id) \/ Open(id) \/ CloseIdle(id) \/ CloseReading(id) \/ FlagOthers(id)
               \/ \E evt \in Event : Refuse(id, evt)
      PROVE  ServedInv'
  <2>1. /\ UNCHANGED hidVars /\ apc' # "wait"
    BY <1>1 DEF TurnAway, Open, CloseIdle, CloseReading, FlagOthers, Refuse, Dispatch, Pop,
                ctlVars
  <2>. QED BY <2>1, HeldServed DEF Blocks
<1>2. ASSUME NEW id \in DOMAIN req, StartSync(id)
      PROVE  ServedInv'
  <2>1. /\ Pop(id) /\ StartAndWait(id) /\ areq' = id
        /\ UNCHANGED <<workerVars, rxVars, plugged>>
    BY <1>2 DEF StartSync
  <2>2. req[id].op \in Action /\ id \in Uid /\ req[id].op # "transmit_empty"
    BY <2>1, PopOrder DEF UseInv, Request, Asked, NoBareRead
  <2>3. req[id].op \in {"transmit", "write", "cancel", "close"}
    BY <1>2, <2>2 DEF StartSync, Action, EventOf
  <2>. QED BY <2>1, <2>2, <2>3, StartAndWaitServed
<1>3. ASSUME NEW id \in DOMAIN req, StartRead(id)
      PROVE  ServedInv'
  <2>1. Pop(id) /\ apc' # "wait" /\ UNCHANGED <<workerVars, rxVars, plugged>>
    BY <1>3 DEF StartRead, Pop
  <2>2. CASE plugged
    <3> DEFINE cb == IF shared THEN "shared" ELSE "exclusive"
    <3>1. Start(id, "rx", cb) /\ cb \in Callback /\ cb # "sync" /\ "rx" \in Kind
      BY <1>3, <2>2 DEF StartRead, Callback, Kind
    <3>2. id \in Uid
      BY <2>1, PopOrder DEF UseInv
    <3>. HIDE DEF cb
    <3>. QED BY <2>1, <3>1, <3>2, StartServed DEF UseInv, Blocks
  <2>3. CASE ~plugged
    <3>1. UNCHANGED hidVars
      BY <1>3, <2>3 DEF StartRead, hidVars
    <3>. QED BY <2>1, <3>1, HeldServed DEF Blocks
  <2>. QED BY <2>2, <2>3
<1>4. CASE StartFlaggedOrClose
  <2>1. /\ apc \in {"flagged", "close"} /\ StartAndWait(areq) /\ areq' = areq
        /\ UNCHANGED <<workerVars, rxVars, plugged>>
    BY <1>4 DEF StartFlaggedOrClose
  <2>2. /\ areq \in DOMAIN req
        /\ req[areq].op \in {"transmit", "write", "cancel", "close"}
    BY <2>1 DEF UseInv, AboutToStart, Asked, NoBareRead
  <2>3. areq \in Uid
    BY <2>2, HidAssumption DEF UseInv, CtlTypeOK, Uid
  <2>. QED BY <2>1, <2>2, <2>3, StartAndWaitServed
<1>5. CASE Wake \/ Reading \/ Collect \/ Continue
  <2>1. UNCHANGED hidVars /\ ~Blocks'
    BY <1>5 DEF Wake, Reading, Collect, Continue, Blocks
  <2>. QED BY <2>1, HeldServed
<1>. QED BY <1>1, <1>2, <1>3, <1>4, <1>5 DEF Controller

\* All steps.
LEMMA NextServed ==
    ASSUME NoBareRead
    PROVE  UseInv /\ AnswerInv /\ Asked /\ ServedInv /\ [DevNext]_devVars => ServedInv'
<1> SUFFICES ASSUME UseInv, AnswerInv, Asked, ServedInv, [DevNext]_devVars PROVE ServedInv'
  OBVIOUS
<1>1. CASE UNCHANGED <<ctlVars, queueVars, hidVars>>
  BY <1>1, HeldServed DEF ctlVars, queueVars, Blocks
<1>2. CASE UNCHANGED devVars
  BY <1>1, <1>2 DEF devVars
<1>3. CASE Driver
  <2>1. CASE DriverOnly /\ UNCHANGED <<clientVars, ctlVars, stateVars, queueVars, bsel>>
    BY <2>1, WorkerServes DEF DriverOnly, Serve, ctlVars, queueVars, UseInv
  <2>2. CASE BeginCur \/ BeginNew
    BY <2>2, CallbackServes DEF AnswerInv
  <2>3. CASE EndCur \/ EndNew
    BY <2>3, WorkerServes DEF EndCur, EndNew, StopWaiting, Serve, ctlVars, queueVars, UseInv
  <2>. QED BY <1>3, <2>1, <2>2, <2>3 DEF Driver
<1>4. CASE Device
  BY <1>4, WorkerServes DEF Device, ctlVars, queueVars, UseInv
<1>5. ASSUME NEW s \in Session, NEW op \in Action, Post(s, op)
      PROVE  ServedInv'
  BY <1>1, <1>5 DEF Post
<1>. QED BY <1>2, <1>3, <1>4, <1>5, ControllerServes DEF DevNext

\* What is in a concatenation is in one of its parts.
LEMMA InJoined ==
    ASSUME NEW p \in Seq(Item), NEW q \in Seq(Item)
    PROVE  /\ p \o q \in Seq(Item)
           /\ \A k \in DOMAIN (p \o q) :
                (\E m \in DOMAIN p : (p \o q)[k] = p[m]) \/ \E m \in DOMAIN q : (p \o q)[k] = q[m]
           /\ \A m \in DOMAIN p : \E k \in DOMAIN (p \o q) : (p \o q)[k] = p[m]
           /\ \A m \in DOMAIN q : \E k \in DOMAIN (p \o q) : (p \o q)[k] = q[m]
<1>1. /\ p \o q \in Seq(Item)
      /\ DOMAIN (p \o q) = 1..(Len(p) + Len(q))
      /\ DOMAIN p = 1..Len(p) /\ DOMAIN q = 1..Len(q)
      /\ Len(p) \in Nat /\ Len(q) \in Nat
  OBVIOUS
<1>2. /\ \A k \in 1..Len(p) : (p \o q)[k] = p[k]
      /\ \A k \in DOMAIN (p \o q) :
           k > Len(p) => k - Len(p) \in 1..Len(q) /\ (p \o q)[k] = q[k - Len(p)]
      /\ \A m \in 1..Len(q) : Len(p) + m \in DOMAIN (p \o q) /\ (p \o q)[Len(p) + m] = q[m]
  OBVIOUS
<1>3. \A k \in DOMAIN (p \o q) :
        (\E m \in DOMAIN p : (p \o q)[k] = p[m]) \/ \E m \in DOMAIN q : (p \o q)[k] = q[m]
  BY <1>1, <1>2
<1>4. \A m \in DOMAIN p : \E k \in DOMAIN (p \o q) : (p \o q)[k] = p[m]
  BY <1>1, <1>2
<1>5. \A m \in DOMAIN q : \E k \in DOMAIN (p \o q) : (p \o q)[k] = q[m]
  BY <1>1, <1>2
<1>. QED BY <1>1, <1>3, <1>4, <1>5

\* A place of the worker holds its item, or nothing.
LEMMA OptionalHolds ==
    ASSUME NEW i \in Item
    PROVE  /\ Optional(i) \in Seq(Item)
           /\ \A k \in DOMAIN Optional(i) : Exists(i) /\ Optional(i)[k] = i
           /\ Exists(i) => \E k \in DOMAIN Optional(i) : Optional(i)[k] = i
<1>1. CASE Exists(i)
  <2>1. Optional(i) = <<i>>
    BY <1>1 DEF Optional
  <2>2. DOMAIN <<i>> = {1} /\ <<i>>[1] = i /\ <<i>> \in Seq(Item)
    OBVIOUS
  <2>. QED BY <1>1, <2>1, <2>2
<1>2. CASE ~Exists(i)
  <2>1. Optional(i) = <<>>
    BY <1>2 DEF Optional
  <2>. QED BY <1>2, <2>1
<1>. QED BY <1>1, <1>2

\* The line is what the worker and its queues hold.
LEMMA InLine ==
    ASSUME TypeOK
    PROVE  /\ \A k \in DOMAIN Line :
                \/ Exists(cur) /\ Line[k] = cur
                \/ \E m \in DOMAIN parked : Line[k] = parked[m]
                \/ Exists(fresh) /\ Line[k] = fresh
                \/ \E m \in DOMAIN hq : Line[k] = hq[m]
           /\ Exists(fresh) => \E k \in DOMAIN Line : Line[k] = fresh
           /\ \A m \in DOMAIN hq : \E k \in DOMAIN Line : Line[k] = hq[m]
           /\ Exists(cur) => \E k \in DOMAIN Line : Line[k] = cur
           /\ \A m \in DOMAIN parked : \E k \in DOMAIN Line : Line[k] = parked[m]
<1>1. /\ hq \in Seq(Item) /\ parked \in Seq(Item) /\ cur \in Item /\ fresh \in Item
  BY DEF TypeOK
<1>2. PICK c \in Seq(Item), f \in Seq(Item) :
        /\ c = Optional(cur) /\ f = Optional(fresh)
        /\ \A k \in DOMAIN c : Exists(cur) /\ c[k] = cur
        /\ \A k \in DOMAIN f : Exists(fresh) /\ f[k] = fresh
        /\ Exists(fresh) => \E k \in DOMAIN f : f[k] = fresh
        /\ Exists(cur) => \E k \in DOMAIN c : c[k] = cur
  BY <1>1, OptionalHolds
<1>3. PICK a \in Seq(Item) :
        /\ a = c \o parked
        /\ \A k \in DOMAIN a : (\E m \in DOMAIN c : a[k] = c[m]) \/ \E m \in DOMAIN parked : a[k] = parked[m]
        /\ \A m \in DOMAIN c : \E k \in DOMAIN a : a[k] = c[m]
        /\ \A m \in DOMAIN parked : \E k \in DOMAIN a : a[k] = parked[m]
  BY <1>1, InJoined
<1>4. PICK b \in Seq(Item) :
        /\ b = a \o f
        /\ \A k \in DOMAIN b : (\E m \in DOMAIN a : b[k] = a[m]) \/ \E m \in DOMAIN f : b[k] = f[m]
        /\ \A m \in DOMAIN a : \E k \in DOMAIN b : b[k] = a[m]
        /\ \A m \in DOMAIN f : \E k \in DOMAIN b : b[k] = f[m]
  BY InJoined
<1>5. PICK w \in Seq(Item) :
        /\ w = b \o hq
        /\ \A k \in DOMAIN w : (\E m \in DOMAIN b : w[k] = b[m]) \/ \E m \in DOMAIN hq : w[k] = hq[m]
        /\ \A m \in DOMAIN b : \E k \in DOMAIN w : w[k] = b[m]
        /\ \A m \in DOMAIN hq : \E k \in DOMAIN w : w[k] = hq[m]
  BY <1>1, InJoined
<1>6. Line = w
  BY <1>2, <1>3, <1>4, <1>5 DEF Line
<1>7. ASSUME NEW k \in DOMAIN w
      PROVE  \/ Exists(cur) /\ w[k] = cur
             \/ \E m \in DOMAIN parked : w[k] = parked[m]
             \/ Exists(fresh) /\ w[k] = fresh
             \/ \E m \in DOMAIN hq : w[k] = hq[m]
  <2>1. CASE \E m \in DOMAIN b : w[k] = b[m]
    <3>1. PICK m \in DOMAIN b : w[k] = b[m]
      BY <2>1
    <3>2. CASE \E l \in DOMAIN a : b[m] = a[l]
      <4>1. PICK l \in DOMAIN a : b[m] = a[l]
        BY <3>2
      <4>2. (\E n \in DOMAIN c : a[l] = c[n]) \/ \E n \in DOMAIN parked : a[l] = parked[n]
        BY <1>3, <4>1
      <4>. QED BY <1>2, <3>1, <4>1, <4>2, Zenon
    <3>3. CASE \E l \in DOMAIN f : b[m] = f[l]
      BY <1>2, <3>1, <3>3, Zenon
    <3>. QED BY <1>4, <3>1, <3>2, <3>3, Zenon
  <2>2. CASE \E m \in DOMAIN hq : w[k] = hq[m]
    BY <2>2
  <2>. QED BY <1>5, <2>1, <2>2, Zenon
<1>8. Exists(fresh) => \E k \in DOMAIN w : w[k] = fresh
  <2> SUFFICES ASSUME Exists(fresh) PROVE \E k \in DOMAIN w : w[k] = fresh
    OBVIOUS
  <2>1. PICK l \in DOMAIN f : f[l] = fresh
    BY <1>2
  <2>2. PICK m \in DOMAIN b : b[m] = f[l]
    BY <1>4, Zenon
  <2>3. PICK k \in DOMAIN w : w[k] = b[m]
    BY <1>5, Zenon
  <2>. QED BY <2>1, <2>2, <2>3
<1>9. ASSUME NEW l \in DOMAIN a
      PROVE  \E k \in DOMAIN w : w[k] = a[l]
  <2>1. PICK m \in DOMAIN b : b[m] = a[l]
    BY <1>4, Zenon
  <2>2. PICK k \in DOMAIN w : w[k] = b[m]
    BY <1>5, Zenon
  <2>. QED BY <2>1, <2>2
<1>10. Exists(cur) => \E k \in DOMAIN w : w[k] = cur
  <2> SUFFICES ASSUME Exists(cur) PROVE \E k \in DOMAIN w : w[k] = cur
    OBVIOUS
  <2>1. PICK l \in DOMAIN c : c[l] = cur
    BY <1>2
  <2>2. PICK m \in DOMAIN a : a[m] = c[l]
    BY <1>3, Zenon
  <2>3. PICK k \in DOMAIN w : w[k] = a[m]
    BY <1>9, Zenon
  <2>. QED BY <2>1, <2>2, <2>3
<1>11. ASSUME NEW l \in DOMAIN parked
       PROVE  \E k \in DOMAIN w : w[k] = parked[l]
  <2>1. PICK m \in DOMAIN a : a[m] = parked[l]
    BY <1>3, Zenon
  <2>2. PICK k \in DOMAIN w : w[k] = a[m]
    BY <1>9, Zenon
  <2>. QED BY <2>1, <2>2
<1>. QED BY <1>5, <1>6, <1>7, <1>8, <1>10, <1>11, Zenon

\* The composition keeps the driver's line in order.
LEMMA LineKept == DevSpec => []LineInv
<1>1. DevInit => LineInv
  BY NoItemType DEF DevInit, HidInit, LineInv, Ascending, AllUnfinished, AllAfter, AllBefore
<1>2. UseInv /\ LineInv /\ [DevNext]_devVars => LineInv'
  BY StepUses, NextLine DEF UseInv
<1>. QED BY <1>1, <1>2, UseInvariant, PTL DEF DevSpec

\* So is it with the items whose sender blocks.
LEMMA SyncInvariant == DevSpec => []SyncInv
<1>1. DevInit => SyncInv
  BY NoItemType DEF DevInit, HidInit, SyncInv, AllOwn, Own
<1>. QED BY <1>1, NextSync, UseInvariant, AnswerInvariant, LineKept, PTL DEF DevSpec

\* The controller's thread blocks for its own request only, and the driver
\* holds no other one whose sender blocks, so the callback may answer the
\* first request of m_q_sync_req_evt_rsp without a look at whose it is
\* (_cb_dev_for_sync_req).
THEOREM AnswersItsOwn == DevSpec => []SyncMatch
<1>1. UseInv /\ AnswerInv /\ SyncInv => SyncMatch
  <2> SUFFICES ASSUME UseInv, AnswerInv, SyncInv PROVE SyncMatch
    OBVIOUS
  <2>1. /\ apc = "wait" => Len(syncq) = 1 /\ Head(syncq).id = areq
        /\ apc \notin {"wait", "collect"} => syncq = <<>>
    BY DEF AnswerInv, WaitsForOwn
  <2>2. ASSUME NEW k \in DOMAIN Line, Line[k].cb = "sync", Line[k].uid # Released
        PROVE  Blocks /\ Line[k].uid = areq
    <3>1. \A m \in DOMAIN hq : Exists(hq[m])
      BY DEF UseInv, WorkerInv, Untouched
    <3>2. \A m \in DOMAIN parked : Exists(parked[m])
      BY DEF UseInv, WorkerInv, Untouched
    <3>3. Line[k] = cur => hpc # "cur_end"
      BY <2>2 DEF Released
    <3>4. Line[k] = fresh => hpc # "new_end"
      BY <2>2 DEF Released
    <3>5. TypeOK
      BY DEF UseInv, WorkerInv
    <3>. QED BY <2>2, <3>1, <3>2, <3>3, <3>4, <3>5, InLine DEF SyncInv, AllOwn, Own
  <2>3. \A u \in HeldSync : Blocks /\ u = areq
    BY <2>2 DEF HeldSync
  <2>. QED BY <2>1, <2>3 DEF SyncMatch, Blocks
<1>. QED BY <1>1, UseInvariant, AnswerInvariant, SyncInvariant, PTL

\* While the controller's thread blocks without a timeout, the driver holds
\* the request it blocks for, as long as the device is there and no client
\* sends a transmit without data, which the driver takes for a read, parks and
\* drops.
THEOREM BlockedHasItem == ASSUME NoBareRead PROVE DevSpec => []BlockedIsServed
<1>1. DevInit => Asked /\ ServedInv
  BY DEF DevInit, HidInit, Asked, ServedInv, SyncNoRead, Blocks
<1>2. UseInv /\ Asked /\ [DevNext]_devVars => Asked'
  BY AskedOps DEF UseInv
<1>3. UseInv /\ LineInv /\ ServedInv => BlockedIsServed
  <2> SUFFICES ASSUME UseInv, LineInv, ServedInv, plugged, Blocks PROVE areq \in HeldSync
    BY DEF BlockedIsServed, Blocks
  <2>0. TypeOK /\ hq \in Seq(Item) /\ cur \in Item /\ fresh \in Item
    BY DEF UseInv, WorkerInv, TypeOK
  <2>a. \A m \in DOMAIN hq : hq[m] \in Item
    BY <2>0
  <2>b. \A i \in Item : i.uid \in Nat
    BY HidAssumption DEF Item
  <2>c. \A m \in DOMAIN hq : Exists(hq[m])
    BY DEF UseInv, WorkerInv, Untouched
  <2>1. /\ TypeOK /\ \A m \in DOMAIN hq : Exists(hq[m]) /\ hq[m] \in Item
        /\ cur.uid \in Nat /\ fresh.uid \in Nat /\ \A i \in Item : i.uid \in Nat
        /\ Exists(cur) => cur.uid # 0
    BY <2>0, <2>a, <2>b, <2>c DEF Exists
  <2>2. hpc = "cur_end" => Exists(cur)
    BY DEF UseInv, WorkerInv, NotifyOldFirst, IsComplete
  <2>3. hpc = "new_end" => Exists(fresh)
    BY DEF UseInv, WorkerInv, NotifyOldFirst, IsComplete
  <2>4. CASE \E m \in DOMAIN hq : hq[m].uid = areq /\ hq[m].cb = "sync"
    <3>1. PICK m \in DOMAIN hq : hq[m].uid = areq /\ hq[m].cb = "sync"
      BY <2>4
    <3>2. areq # Released
      BY <2>1, <2>2, <2>3, <3>1 DEF Released, LineInv, AllAfter, Exists
    <3>. QED BY <2>1, <3>1, <3>2, InLine DEF HeldSync
  <2>5. CASE hpc # "new_end" /\ Exists(fresh) /\ fresh.uid = areq /\ fresh.cb = "sync"
    <3>1. areq # Released
      BY <2>1, <2>2, <2>5 DEF Released, LineInv, Exists
    <3>. QED BY <2>1, <2>5, <3>1, InLine DEF HeldSync
  <2>. QED BY <2>4, <2>5 DEF ServedInv, BlockedHeld
<1>. QED BY <1>1, <1>2, <1>3, NextServed, UseInvariant, AnswerInvariant, LineKept, PTL DEF DevSpec

-----------------------------------------------------------------------------
(* The numbers of the reports.                                              *)

\* A report is in the hands of one item, and of one that is there.
OneReport ==
    /\ ~Exists(cur) => cur.res.no = 0
    /\ ~Exists(fresh) => fresh.res.no = 0
    /\ cur.res.no = 0 \/ fresh.res.no = 0

\* The reports that a callback may still be given are later than n.
Past(n) ==
    /\ NewerThan(rxq, n) /\ n <= nrx
    /\ hpc = "cur" => cur.res.no = 0 \/ n < cur.res.no
    /\ hpc \in {"cur", "cur_end", "new"} => fresh.res.no = 0 \/ n < fresh.res.no

\* What a step of the driver does with the reports: it gives one to an item, or
\* takes none to an item, or the device sends one.
Taking ==
    /\ DropReport /\ nrx' = nrx
    /\ \/ cur'.res.no = 0 /\ fresh'.res.no \in {0, ReadResult.no}
       \/ fresh'.res.no = 0 /\ cur'.res.no \in {0, ReadResult.no}
TakingNone ==
    /\ rxq' \in {rxq, <<>>} /\ nrx' = nrx
    /\ cur'.res.no \in {0, cur.res.no} /\ fresh'.res.no \in {0, fresh.res.no}
    /\ hpc' = "cur" => hpc = "cur" \/ cur'.res.no = 0
    /\ hpc' \in {"cur", "cur_end", "new"} =>
         hpc \in {"cur", "cur_end", "new"} \/ fresh'.res.no = 0

\* A report read is the front one.
LEMMA ReadFront ==
    ASSUME TypeOK
    PROVE  /\ ReadResult.no \in Nat
           /\ ReadResult.no # 0 => 1 \in DOMAIN rxq /\ ReadResult.no = rxq[1].no
           /\ DropReport => \A n : NewerThan(rxq, n) => NewerThan(rxq', n)
<1>1. rxq \in Seq(Report)
  BY DEF TypeOK
<1>2. ReadResult \in Result /\ Res("error").no = 0 /\ NotYet.no = 0
  BY <1>1, ReadResultType, ResType DEF NotYet
<1>3. rxq # <<>> => 1 \in DOMAIN rxq /\ Head(rxq) = rxq[1]
  BY <1>1
<1>4. ReadResult.no # 0 => rxq # <<>> /\ ReadResult.no = Head(rxq).no
  BY <1>2 DEF ReadResult
<1>5. \A i \in DOMAIN Tail(rxq) : rxq # <<>> => i + 1 \in DOMAIN rxq /\ Tail(rxq)[i] = rxq[i + 1]
  BY <1>1
<1>6. DropReport => \A n : NewerThan(rxq, n) => NewerThan(rxq', n)
  BY <1>5 DEF DropReport, NewerThan
<1>. QED BY <1>2, <1>3, <1>4, <1>6, HidAssumption DEF Result

\* A step of the driver is one of the three.
LEMMA ReportsMove ==
    ASSUME WorkerInv, OneReport, [HidNext]_hidVars
    PROVE  /\ Taking \/ TakingNone \/ \E kind \in RxKind : Receive(kind)
           /\ OneReport'
<1>0. /\ TypeOK /\ cur \in Item /\ fresh \in Item /\ ReadResult \in Result
      /\ hpc \in {"top", "reread", "cur", "cur_end", "new", "new_end"}
  BY ReadResultType DEF WorkerInv, TypeOK
<1>1. hpc \in {"top", "reread"} => fresh.res.no = 0
  BY DEF WorkerInv, NotifyOldFirst, OneReport
<1>2. NotYet.no = 0 /\ NoItem.res.no = 0 /\ ~Exists(NoItem)
  BY NoItemType, ResType DEF NotYet, NoItem, NewItem
<1>3. /\ hq # <<>> => Head(hq) \in Item /\ Head(hq).res.no = 0 /\ Exists(Head(hq))
      /\ parked # <<>> => Head(parked) \in Item /\ Head(parked).res.no = 0 /\ Exists(Head(parked))
  BY <1>2, UntouchedPop DEF WorkerInv, TypeOK
<1>4. \A o \in {"success", "error", "cancel"} : Res(o) \in Result /\ Res(o).no = 0
  BY ResType
<1>5. Cancelled.res.no = 0
  BY <1>0, <1>4, WithResType DEF Cancelled, OneReport
<1>6. ASSUME hq # <<>>, NEW o \in {"success", "error"}, fresh' = WithRes(Head(hq), Res(o))
      PROVE  fresh'.res.no = 0
  BY <1>3, <1>4, <1>6, WithResType
\* The steps that leave both items as they are.
<1>7. CASE \/ \E uid \in Uid, kind \in Kind, cb \in Callback : Submit(uid, kind, cb)
           \/ PopPark \/ Callbacks \/ Pump \/ UNCHANGED hidVars
  <2>1. UNCHANGED <<nrx, cur, fresh>> /\ rxq' \in {rxq, <<>>}
    BY <1>7 DEF Submit, PopPark, Callbacks, Pump, RunCur, RunNew, hidVars, workerVars, rxVars
  <2>2. hpc' = hpc \/ (hpc = "cur" /\ hpc' = "cur_end") \/ hpc' = "new_end"
    BY <1>7 DEF Submit, PopPark, Callbacks, Pump, RunCur, RunNew, hidVars, workerVars
  <2>. QED BY <2>1, <2>2 DEF TakingNone, OneReport, Exists
<1>8. ASSUME NEW kind \in RxKind, Receive(kind)
      PROVE  (\E k \in RxKind : Receive(k)) /\ OneReport'
  BY <1>8 DEF Receive, workerVars, OneReport, Exists
\* The steps that tell both items an outcome without a report.
<1>9. CASE PopWhileBroken \/ PopCancel \/ PopWrite \/ PopWriteRead
  <2>1. /\ hpc = "top" /\ hq # <<>> /\ nrx' = nrx /\ rxq' \in {rxq, <<>>}
        /\ \E o \in {"success", "error"} : fresh' = WithRes(Head(hq), Res(o))
        /\ cur' = Cancelled \/ (cur' = cur /\ hpc' = "new")
    BY <1>9 DEF PopWhileBroken, PopCancel, PopWrite, PopWriteRead, PopRun, AtTop, rxVars
  <2>2. fresh'.res.no = 0
    BY <1>6, <2>1
  <2>3. Exists(cur') <=> Exists(cur)
    <3>1. Cancelled.uid = cur.uid
      BY <1>0, <1>4, WithResType DEF Cancelled
    <3>. QED BY <2>1, <3>1 DEF Exists
  <2>. QED BY <1>5, <2>1, <2>2, <2>3 DEF TakingNone, OneReport, Exists
\* The steps that take a report.
<1>10. CASE ReadCurrent
  <2>1. /\ DropReport /\ nrx' = nrx /\ fresh' = fresh /\ Exists(cur)
        /\ cur' = WithRes(cur, ReadResult) /\ hpc \in {"top", "reread"}
    BY <1>10 DEF ReadCurrent
  <2>2. cur'.res = ReadResult /\ cur'.uid = cur.uid
    BY <1>0, <2>1, WithResType
  <2>. QED BY <1>1, <2>1, <2>2 DEF Taking, OneReport, Exists
<1>11. CASE PopRead
  <2>1. /\ DropReport /\ nrx' = nrx /\ hq # <<>> /\ hpc = "top"
        /\ ~(Exists(cur) /\ cur.kind = "rx")
    BY <1>11 DEF PopRead, PopRun, AtTop
  <2>2. cur.res.no = 0 /\ fresh.res.no = 0
    BY <1>1, <2>1 DEF WorkerInv, ReadyForParked, OneReport
  <2>3. CASE cur' = Head(hq) /\ UNCHANGED fresh
    BY <1>3, <2>1, <2>2, <2>3 DEF Taking, OneReport, Exists
  <2>4. CASE fresh' = WithRes(Head(hq), ReadResult) /\ UNCHANGED cur
    <3>1. fresh'.res = ReadResult /\ fresh'.uid = Head(hq).uid
      BY <1>0, <1>3, <2>1, <2>4, WithResType
    <3>. QED BY <1>3, <2>1, <2>2, <2>4, <3>1 DEF Taking, OneReport, Exists
  <2>. QED BY <1>11, <2>3, <2>4 DEF PopRead
\* The ends of the callbacks.
<1>12. CASE FinishCur
  <2>1. /\ rxq' = rxq /\ nrx' = nrx /\ fresh' = fresh
        /\ hpc = "cur_end" /\ hpc' \in {"top", "new"}
    BY <1>12 DEF FinishCur, rxVars
  <2>2. Reset(cur).res.no = 0 /\ Reset(cur).uid = cur.uid
    <3>1. NotYet \in Result
      BY ResType DEF NotYet
    <3>. QED BY <1>0, <1>2, <3>1, WithResType DEF Reset
  <2>3. cur'.res.no = 0
    BY <1>2, <1>3, <1>12, <2>2 DEF FinishCur
  <2>. QED BY <2>1, <2>3 DEF TakingNone, OneReport, Exists
<1>13. CASE FinishNew \/ Unplug
  <2>1. /\ rxq' \in {rxq, <<>>} /\ nrx' = nrx /\ fresh' = NoItem /\ cur' \in {cur, NoItem}
        /\ hpc' = "top"
    BY <1>13 DEF FinishNew, Unplug, AtTop, rxVars
  <2>. QED BY <1>2, <2>1 DEF TakingNone, OneReport, Exists
<1>. QED BY <1>7, <1>8, <1>9, <1>10, <1>11, <1>12, <1>13 DEF HidNext, Serve

\* What is past stays past.
LEMMA PastStays ==
    ASSUME WorkerInv, ReportsInv, OneReport, [HidNext]_hidVars, NEW n \in Nat, Past(n)
    PROVE  Past(n)'
<1>0. TypeOK /\ cur.res.no \in Nat /\ fresh.res.no \in Nat /\ nrx \in Nat
  BY HidAssumption, ResultNo DEF WorkerInv, TypeOK
<1>1. CASE Taking
  <2>1. NewerThan(rxq', n)
    BY <1>0, <1>1, ReadFront DEF Taking, Past
  <2>2. ReadResult.no = 0 \/ n < ReadResult.no
    BY <1>0, ReadFront DEF Past, NewerThan
  <2>. QED BY <1>1, <2>1, <2>2 DEF Taking, Past
<1>2. CASE TakingNone
  <2>1. NewerThan(rxq', n)
    BY <1>2 DEF TakingNone, Past, NewerThan
  <2>. QED BY <1>2, <2>1 DEF TakingNone, Past
<1>3. ASSUME NEW kind \in RxKind, Receive(kind) PROVE Past(n)'
  <2> DEFINE new == [kind |-> kind, no |-> nrx + 1]
  <2>1. /\ rxq' = Append(rxq, new) /\ rxq \in Seq(Report)
        /\ new.no = nrx + 1 /\ nrx' = nrx + 1
        /\ cur' = cur /\ fresh' = fresh /\ hpc' = hpc
    BY <1>0, <1>3 DEF Receive, workerVars, TypeOK
  <2> HIDE DEF new
  <2>2. \A i \in DOMAIN rxq' : rxq'[i] = new \/ (i \in DOMAIN rxq /\ rxq'[i] = rxq[i])
    BY <2>1
  <2>3. NewerThan(rxq', n)
    BY <1>0, <2>1, <2>2 DEF Past, NewerThan
  <2>. QED BY <1>0, <2>1, <2>3 DEF Past
<1>. QED BY <1>1, <1>2, <1>3, ReportsMove

\* A callback that is given a report is given one later than all that is past,
\* and the report is past then.
LEMMA CallbackPast ==
    ASSUME WorkerInv, ReportsInv, OneReport, NEW r, NEW item,
           (RunCur(r) /\ item = cur) \/ (RunNew(r) /\ item = fresh)
    PROVE  /\ Past(item.res.no)' /\ Past(0)'
           /\ \A n : Past(n) => item.res.no = 0 \/ n < item.res.no
<1>0. cur.res.no \in Nat /\ fresh.res.no \in Nat /\ nrx \in Nat
  BY HidAssumption, ResultNo DEF WorkerInv, TypeOK
<1>1. UNCHANGED <<cur, fresh, rxq, nrx>>
  BY DEF RunCur, RunNew, rxVars
<1>2. Past(0)'
  BY <1>0, <1>1 DEF Past, ReportsInv, NewerThan, AllReceived
<1>3. CASE RunCur(r) /\ item = cur
  <2>1. hpc = "cur" /\ hpc' = "cur_end" /\ item' = cur
    BY <1>1, <1>3 DEF RunCur
  <2>. QED BY <1>0, <1>1, <1>2, <1>3, <2>1 DEF Past, ReportsInv, NewerThan, OneReport
<1>4. CASE RunNew(r) /\ item = fresh
  <2>1. hpc = "new" /\ hpc' = "new_end"
    BY <1>4 DEF RunNew
  <2>. QED BY <1>0, <1>1, <1>2, <1>4, <2>1 DEF Past, ReportsInv, NewerThan
<1>. QED BY <1>3, <1>4
-----------------------------------------------------------------------------
(* The reports a session is given.                                          *)

\* The reads of a session are queued in the order they were sent in, and only
\* the first may have been given a report, which is past.
InTurn(s) ==
    \A k \in DOMAIN readq[s] :
        /\ req[readq[s][k].id].ses = s
        /\ Past(readq[s][k].rsp.no)
        /\ k > 1 => readq[s][k].rsp.no = 0
        /\ \A m \in DOMAIN readq[s] : k < m => readq[s][k].id < readq[s][m].id

\* A read that has been sent its report is older than the reads of its session
\* that are queued, and so is the report.
Given(id) == req[id].op = "read" /\ Delivered(id)
Behind(id) ==
    /\ id \in used
    /\ Past(ReportOf(id))
    /\ \A k \in DOMAIN readq[req[id].ses] :
         /\ id < readq[req[id].ses][k].id
         /\ \/ readq[req[id].ses][k].rsp.no = 0
            \/ ReportOf(id) < readq[req[id].ses][k].rsp.no

TurnInv ==
    /\ \A s \in Session : InTurn(s)
    /\ \A id \in DOMAIN req : Given(id) => Behind(id)
    /\ ReportsInTurn

\* The answer of the request executed carries no report if it is a read, and a
\* read is not among the requests whose sender waits.
NoReportOfOwn ==
    /\ apc = "collect" /\ Op = "read" => aresp.no = 0
    /\ syncq # <<>> => Op # "read"

\* The numbers and the sessions that TurnInv speaks of.
LEMMA TurnTypes ==
    ASSUME UseInv
    PROVE  /\ \A s \in Session : \A k \in DOMAIN readq[s] :
                /\ readq[s][k] \in Entry /\ readq[s][k].id \in Nat
                /\ readq[s][k].rsp.no \in Nat
                /\ readq[s][k].id \in used /\ readq[s][k].id \in DOMAIN req
           /\ \A id \in DOMAIN req : req[id].ses \in Session /\ id \in Nat
           /\ \A id \in DOMAIN req : Delivered(id) => ReportOf(id) \in Nat
<1>1. ASSUME NEW s \in Session, NEW k \in DOMAIN readq[s]
      PROVE  /\ readq[s][k] \in Entry /\ readq[s][k].id \in Nat
             /\ readq[s][k].rsp.no \in Nat
             /\ readq[s][k].id \in used /\ readq[s][k].id \in DOMAIN req
  <2>1. readq[s] \in Seq(Entry)
    BY DEF UseInv, CtlTypeOK
  <2>2. readq[s][k] \in Entry
    BY <2>1
  <2>. QED BY <2>2, HidAssumption DEF UseInv, ReadsStarted, StartOrder, Entry, Uid, Result
<1>2. ASSUME NEW id \in DOMAIN req
      PROVE  /\ req[id].ses \in Session /\ id \in Nat
             /\ Delivered(id) => ReportOf(id) \in Nat
  <2>1. req[id] \in Request /\ id \in Nat
    BY DEF UseInv, CtlTypeOK
  <2>2. req[id].ans \in Seq(Result) /\ req[id].ses \in Session
    BY <2>1 DEF Request
  <2>3. req[id].ans # <<>> => req[id].ans[1] \in Result
    BY <2>2
  <2>. QED BY <2>1, <2>2, <2>3, HidAssumption DEF Delivered, ReportOf, Result
<1>. QED BY <1>1, <1>2

\* A step that leaves the reads where they are, and gives no report but one that
\* is later than all that are past, to the first reads.
LEMMA GivenLater ==
    ASSUME UseInv, TurnInv, UNCHANGED req, used \subseteq used', SameReads,
           \A n \in Nat : Past(n) => Past(n)',
           NEW no \in Nat, Past(no)', \A n \in Nat : Past(n) => no = 0 \/ n < no,
           \A s \in Session : \A k \in DOMAIN readq[s] :
               \/ readq'[s][k].rsp.no = readq[s][k].rsp.no
               \/ k = 1 /\ readq'[s][k].rsp.no = no
    PROVE  TurnInv'
<1>1. ASSUME NEW s \in Session PROVE InTurn(s)'
  <2>1. /\ DOMAIN readq'[s] = DOMAIN readq[s]
        /\ \A k \in DOMAIN readq[s] : readq'[s][k].id = readq[s][k].id
    BY DEF SameReads, SameReadsOf
  <2>2. InTurn(s) /\ \A k \in DOMAIN readq[s] : readq[s][k].rsp.no \in Nat
    BY TurnTypes DEF TurnInv
  <2>3. ASSUME NEW k \in DOMAIN readq'[s] PROVE Past(readq[s][k].rsp.no)'
    <3>1. PICK n \in Nat : n = readq[s][k].rsp.no
      BY <2>1, <2>2
    <3>2. Past(n)' /\ (readq'[s][k].rsp.no = n \/ readq'[s][k].rsp.no = no)
      BY <2>1, <2>2, <3>1 DEF InTurn
    <3>. QED BY <3>2 DEF Past
  <2>4. \A k \in DOMAIN readq'[s] : k > 1 => readq'[s][k].rsp.no = 0
    BY <2>1, <2>2 DEF InTurn
  <2>. QED BY <2>1, <2>2, <2>3, <2>4 DEF InTurn
<1>2. ASSUME NEW id \in DOMAIN req', Given(id)' PROVE Behind(id)'
  <2>1. /\ id \in DOMAIN req /\ Given(id) /\ ReportOf(id)' = ReportOf(id) /\ req' = req
        /\ ReportOf(id) \in Nat /\ req[id].ses \in Session
    BY <1>2, TurnTypes DEF Given, Delivered, ReportOf
  <2>2. Behind(id)
    BY <2>1 DEF TurnInv
  <2>3. PICK s \in Session : s = req[id].ses
    BY <2>1
  <2>4. ASSUME NEW k \in DOMAIN readq'[s]
        PROVE  /\ id < readq'[s][k].id
               /\ readq'[s][k].rsp.no = 0 \/ ReportOf(id) < readq'[s][k].rsp.no
    <3>1. k \in DOMAIN readq[s] /\ readq'[s][k].id = readq[s][k].id
      BY DEF SameReads, SameReadsOf
    <3>2. no = 0 \/ ReportOf(id) < no
      BY <2>1, <2>2 DEF Behind
    <3>. QED BY <2>2, <2>3, <3>1, <3>2 DEF Behind
  <2>. QED BY <2>1, <2>2, <2>3, <2>4 DEF Behind
<1>3. ReportsInTurn'
  BY DEF TurnInv, ReportsInTurn, Delivered, ReportOf
<1>. QED BY <1>1, <1>2, <1>3 DEF TurnInv

\* Flagging the first read changes no answer, and answering it no other one.
LEMMA FrontAnswers ==
    ASSUME NEW q \in Seq(Entry), q # <<>>, NEW b \in BOOLEAN, NEW res \in Result
    PROVE  /\ \A k \in DOMAIN q : [q EXCEPT ![1].rec = b][k].rsp = q[k].rsp
           /\ \A k \in DOMAIN q : k # 1 => [q EXCEPT ![1].rsp = res][k].rsp = q[k].rsp
           /\ [q EXCEPT ![1].rsp = res][1].rsp = res
<1>1. 1 \in DOMAIN q /\ q[1] \in Entry
  OBVIOUS
<1>2. [q[1] EXCEPT !.rec = b].rsp = q[1].rsp /\ [q[1] EXCEPT !.rsp = res].rsp = res
  BY <1>1 DEF Entry
<1>3. /\ [q EXCEPT ![1].rec = b][1] = [q[1] EXCEPT !.rec = b]
      /\ [q EXCEPT ![1].rsp = res][1] = [q[1] EXCEPT !.rsp = res]
      /\ \A k \in DOMAIN q : k # 1 => /\ [q EXCEPT ![1].rec = b][k] = q[k]
                                      /\ [q EXCEPT ![1].rsp = res][k] = q[k]
  BY <1>1
<1>. QED BY <1>2, <1>3

\* A callback gives the report to first reads only.
LEMMA CallbackGives ==
    ASSUME CtlTypeOK, NEW item \in Item, CallbackOf(item)
    PROVE  \A s \in Session : \A k \in DOMAIN readq[s] :
               \/ readq'[s][k].rsp.no = readq[s][k].rsp.no
               \/ k = 1 /\ readq'[s][k].rsp.no = item.res.no
<1> SUFFICES ASSUME NEW s \in Session, NEW k \in DOMAIN readq[s]
             PROVE  \/ readq'[s][k].rsp.no = readq[s][k].rsp.no
                    \/ k = 1 /\ readq'[s][k].rsp.no = item.res.no
  OBVIOUS
<1>1. readq[s] \in Seq(Entry) /\ item.res \in Result
  BY DEF CtlTypeOK, Item
<1>2. CASE readq'[s] = readq[s]
  BY <1>2
<1>3. CASE readq[s] # <<>> /\ readq'[s] = [readq[s] EXCEPT ![1].rec = FALSE]
  BY <1>1, <1>3, FrontAnswers
<1>4. CASE readq[s] # <<>> /\ readq'[s] = [readq[s] EXCEPT ![1].rsp = item.res]
  BY <1>1, <1>4, FrontAnswers
<1>5. CASE item.cb = "sync" \/ item.res.st = "bad"
  BY <1>2, <1>5 DEF CallbackOf, SyncCallback, ReadCallback
<1>6. CASE item.cb # "sync" /\ item.res.st # "bad"
  <2>1. readq' = [t \in Session |->
                  CASE t \in Flagged          -> [readq[t] EXCEPT ![1].rec = FALSE]
                    [] t \in Listed \ Flagged -> Answered(readq[t], item.res)
                    [] OTHER                  -> readq[t]]
    BY <1>6 DEF CallbackOf, ReadCallback
  <2>2. readq'[s] = CASE s \in Flagged          -> [readq[s] EXCEPT ![1].rec = FALSE]
                      [] s \in Listed \ Flagged -> Answered(readq[s], item.res)
                      [] OTHER                  -> readq[s]
    BY <2>1
  <2>3. s \in Listed => readq[s] # <<>>
    BY DEF Listed
  <2>4. Flagged \subseteq Listed
    BY DEF Flagged
  <2>. QED BY <1>2, <1>3, <1>4, <2>2, <2>3, <2>4 DEF Answered
<1>. QED BY <1>5, <1>6

\* The callbacks.
LEMMA CallbackTurn ==
    ASSUME UseInv, ReportsInv, OneReport, TurnInv, BeginCur \/ BeginNew
    PROVE  TurnInv'
<1>1. WorkerInv /\ CtlTypeOK /\ cur \in Item /\ fresh \in Item
  BY DEF UseInv, WorkerInv, TypeOK
<1>2. PICK item, r :
        /\ item \in Item /\ CallbackOf(item) /\ UNCHANGED req /\ used' = used
        /\ (RunCur(r) /\ item = cur) \/ (RunNew(r) /\ item = fresh)
        /\ r \in Returns(item.cb)
  <2>1. CASE BeginCur
    BY <1>1, <2>1, ReturnAllowed DEF BeginCur, RunCur, clientVars, UseInv, WorkerInv, TypeOK
  <2>2. CASE BeginNew
    BY <1>1, <2>2, ReturnAllowed DEF BeginNew, RunNew, clientVars, UseInv, WorkerInv, TypeOK
  <2>. QED BY <2>1, <2>2
<1>3. item.res.no \in Nat /\ item \in Item
  BY <1>2, ResultNo
<1>4. Past(item.res.no)' /\ \A n : Past(n) => item.res.no = 0 \/ n < item.res.no
  BY <1>1, <1>2, CallbackPast
<1>5. [HidNext]_hidVars
  BY <1>2 DEF HidNext, Callbacks
<1>6. \A n \in Nat : Past(n) => Past(n)'
  BY <1>1, <1>5, PastStays
<1>7. SameReads
  BY <1>1, <1>2, CallbackType
<1>8. \A s \in Session : \A k \in DOMAIN readq[s] :
        \/ readq'[s][k].rsp.no = readq[s][k].rsp.no
        \/ k = 1 /\ readq'[s][k].rsp.no = item.res.no
  BY <1>1, <1>2, CallbackGives
<1>. QED BY <1>2, <1>3, <1>4, <1>6, <1>7, <1>8, GivenLater

\* The steps that give nothing.
LEMMA NothingGiven ==
    ASSUME UseInv, ReportsInv, OneReport, TurnInv, [HidNext]_hidVars, UNCHANGED req,
           SameReads,
           \A s \in Session : \A k \in DOMAIN readq[s] :
               readq'[s][k].rsp.no = readq[s][k].rsp.no
    PROVE  TurnInv'
<1>1. WorkerInv /\ nrx \in Nat
  BY HidAssumption DEF UseInv, WorkerInv, TypeOK
<1>2. \A n \in Nat : Past(n) => Past(n)'
  BY <1>1, PastStays
<1>3. used \subseteq used'
  BY UsedGrows
<1>4. ReportsInv' /\ nrx' \in Nat
  BY <1>1, NextReports, NextWorker, HidAssumption DEF WorkerInv, TypeOK
<1>5. Past(0)'
  <2>1. NewerThan(rxq', 0) /\ 0 <= nrx'
    BY <1>4 DEF ReportsInv, NewerThan, AllReceived
  <2>2. WorkerInv' /\ cur'.res.no \in Nat /\ fresh'.res.no \in Nat
    BY <1>1, NextWorker, ResultNo DEF WorkerInv, TypeOK
  <2>. QED BY <2>1, <2>2 DEF Past
<1>6. \A n \in Nat : Past(n) => 0 = 0 \/ n < 0
  OBVIOUS
<1>. QED BY <1>2, <1>3, <1>5, <1>6, GivenLater

\* A read that is started is younger than all its session has.
LEMMA StartReadTurn ==
    ASSUME UseInv, ReportsInv, OneReport, TurnInv, NEW id, StartRead(id)
    PROVE  TurnInv'
<1>0. /\ Pop(id) /\ req' = req /\ id \in DOMAIN req /\ id \in Nat
      /\ \A v \in used : v < id
      /\ UNCHANGED <<workerVars, rxVars>>
  BY PopOrder, HidAssumption DEF StartRead, UseInv, Uid
<1>1. UNCHANGED <<rxq, nrx, cur, fresh, hpc>>
  BY <1>0 DEF workerVars, rxVars
<1>2. \A n : Past(n)' <=> Past(n)
  BY <1>1 DEF Past
<1>3. PICK ses \in Session :
        ses = req[id].ses /\ readq[ses] \in Seq(Entry) /\ readq \in [Session -> Seq(Entry)]
  BY <1>0, TurnTypes DEF UseInv, CtlTypeOK
<1>4. CASE plugged
  <2>1. readq' = [readq EXCEPT ![ses] = Append(@, Waiting(id))] /\ used' = used \cup {id}
    BY <1>3, <1>4 DEF StartRead, Start
  <2>2. /\ \A s \in Session \ {ses} : readq'[s] = readq[s]
        /\ readq'[ses] = Append(readq[ses], Waiting(id))
    BY <1>3, <2>1
  <2>3. \A k \in DOMAIN readq'[ses] :
          \/ k \in DOMAIN readq[ses] /\ readq'[ses][k] = readq[ses][k]
             /\ k < Len(readq[ses]) + 1
          \/ k = Len(readq[ses]) + 1 /\ readq'[ses][k] = Waiting(id)
    BY <1>3, <2>2
  <2>4. Waiting(id).id = id /\ Waiting(id).rsp.no = 0
    BY ResType DEF Waiting, NotYet
  <2>5. Past(0)
    BY HidAssumption, ResultNo
       DEF UseInv, WorkerInv, TypeOK, Past, ReportsInv, NewerThan, AllReceived
  <2>6. DOMAIN readq[ses] = 1..Len(readq[ses]) /\ Len(readq[ses]) \in Nat
    BY <1>3
  <2>7. \A k \in DOMAIN readq[ses] : readq[ses][k].id < id
    BY <1>0, <1>3, TurnTypes
  <2>8. InTurn(ses)'
    <3>1. InTurn(ses)
      BY <1>3 DEF TurnInv
    <3>2. ASSUME NEW k \in DOMAIN readq'[ses]
          PROVE  /\ req'[readq'[ses][k].id].ses = ses
                 /\ Past(readq[ses][k].rsp.no)'
                 /\ k > 1 => readq'[ses][k].rsp.no = 0
                 /\ \A m \in DOMAIN readq'[ses] : k < m => readq'[ses][k].id < readq'[ses][m].id
      <4>1. CASE k \in DOMAIN readq[ses] /\ readq'[ses][k] = readq[ses][k]
        <5>1. Past(readq[ses][k].rsp.no)'
          <6>1. PICK n : n = readq[ses][k].rsp.no
            OBVIOUS
          <6>2. Past(n)' /\ readq'[ses][k].rsp.no = n
            BY <1>2, <3>1, <4>1, <6>1 DEF InTurn
          <6>. QED BY <6>2 DEF Past
        <5>2. req'[readq'[ses][k].id].ses = ses /\ (k > 1 => readq'[ses][k].rsp.no = 0)
          BY <1>0, <3>1, <4>1 DEF InTurn
        <5>3. \A m \in DOMAIN readq'[ses] : k < m => readq'[ses][k].id < readq'[ses][m].id
          BY <2>3, <2>4, <2>7, <3>1, <4>1 DEF InTurn
        <5>. QED BY <5>1, <5>2, <5>3
      <4>2. CASE k = Len(readq[ses]) + 1 /\ readq'[ses][k] = Waiting(id)
        <5>1. Past(readq[ses][k].rsp.no)'
          <6>1. Past(0)' /\ readq'[ses][k].rsp.no = 0
            BY <1>2, <2>4, <2>5, <4>2
          <6>. QED BY <6>1 DEF Past
        <5>2. req'[readq'[ses][k].id].ses = ses
          BY <1>0, <1>3, <2>4, <4>2
        <5>3. \A m \in DOMAIN readq'[ses] : ~(k < m)
          BY <2>3, <2>6, <4>2
        <5>. QED BY <2>4, <4>2, <5>1, <5>2, <5>3
      <4>. QED BY <2>3, <4>1, <4>2
    <3>. QED BY <3>2 DEF InTurn
  <2>9. ASSUME NEW s \in Session, s # ses PROVE InTurn(s)'
    <3>1. InTurn(s) /\ readq'[s] = readq[s]
      BY <2>2, <2>9 DEF TurnInv
    <3>. QED BY <1>0, <1>1, <3>1 DEF InTurn, Past
  <2>10. ASSUME NEW i \in DOMAIN req', Given(i)' PROVE Behind(i)'
    <3>1. /\ i \in DOMAIN req /\ Given(i) /\ i \in Nat /\ req[i].ses \in Session
          /\ ReportOf(i)' = ReportOf(i)
      BY <1>0, <2>10, TurnTypes DEF Given, Delivered, ReportOf
    <3>2. Behind(i) /\ i < id
      BY <1>0, <3>1 DEF TurnInv, Behind
    <3>3. i \in used' /\ Past(ReportOf(i))'
      BY <1>2, <2>1, <3>1, <3>2 DEF Behind, Past
    <3>4. CASE req[i].ses = ses
      <4>1. \A k \in DOMAIN readq'[ses] :
              /\ i < readq'[ses][k].id
              /\ readq'[ses][k].rsp.no = 0 \/ ReportOf(i) < readq'[ses][k].rsp.no
        BY <2>3, <2>4, <3>2, <3>4 DEF Behind
      <4>. QED BY <1>0, <3>1, <3>3, <3>4, <4>1 DEF Behind
    <3>5. CASE req[i].ses # ses
      BY <1>0, <2>2, <3>1, <3>2, <3>3, <3>5 DEF Behind
    <3>. QED BY <3>4, <3>5
  <2>11. ReportsInTurn'
    BY <1>0 DEF TurnInv, ReportsInTurn, Delivered, ReportOf
  <2>12. \A s \in Session : InTurn(s)'
    BY <2>8, <2>9
  <2>. QED BY <2>10, <2>11, <2>12 DEF TurnInv
<1>5. CASE ~plugged
  <2>1. UNCHANGED <<readq, used>> /\ UNCHANGED hidVars
    BY <1>0, <1>5 DEF StartRead, hidVars
  <2>2. SameReads
    BY <2>1 DEF SameReads, SameReadsOf
  <2>. QED BY <1>0, <2>1, <2>2, NothingGiven
<1>. QED BY <1>4, <1>5

\* A set of answers is sent, among them those of first reads that leave their
\* queues.
LEMMA SentTurn ==
    ASSUME UseInv, TurnInv, UNCHANGED hidVars, NEW answers, Send(answers),
           \A a \in answers : a.rsp \in Result, NEW T \in SUBSET Listed,
           readq' = [s \in Session |-> IF s \in T THEN Tail(readq[s]) ELSE readq[s]],
           \A a \in answers : a.id \in DOMAIN req /\ req[a.id].op = "read" =>
               \/ a.rsp.no = 0
               \/ \E s \in T : a.id = Front(s).id /\ a.rsp.no = Front(s).rsp.no
    PROVE  TurnInv'
<1> DEFINE rsp(id) == (CHOOSE a \in answers : a.id = id).rsp
           had(id) == \E a \in answers : a.id = id
<1>0. UNCHANGED <<rxq, nrx, cur, fresh, hpc, used>>
  BY DEF hidVars, workerVars, rxVars
<1>1. \A n : Past(n)' <=> Past(n)
  BY <1>0 DEF Past
<1>2. /\ req \in Seq(Request) /\ DOMAIN req' = DOMAIN req
      /\ \A id \in DOMAIN req :
           /\ req[id] \in Request /\ (had(id) => rsp(id) \in Result)
           /\ req'[id].op = req[id].op /\ req'[id].ses = req[id].ses
           /\ req'[id].ans = IF had(id) THEN Append(req[id].ans, rsp(id)) ELSE req[id].ans
  <2>1. req' = [id \in DOMAIN req |->
                  IF had(id) THEN [req[id] EXCEPT !.ans = Append(@, rsp(id))] ELSE req[id]]
    BY DEF Send
  <2>2. req \in Seq(Request) /\ \A id \in DOMAIN req : req[id] \in Request
    BY DEF UseInv, CtlTypeOK
  <2>3. \A id : had(id) => rsp(id) \in Result
    OBVIOUS
  <2>. HIDE DEF had, rsp
  <2>. QED BY <2>1, <2>2, <2>3 DEF Request
<1>3. ASSUME NEW id \in DOMAIN req, had(id), req[id].op = "read", rsp(id).no # 0
      PROVE  \E s \in T : id = Front(s).id /\ rsp(id).no = Front(s).rsp.no
  <2>1. PICK a \in answers : a.id = id /\ a.rsp = rsp(id)
    BY <1>3
  <2>. HIDE DEF rsp, had
  <2>. QED BY <1>3, <2>1
<1>. HIDE DEF rsp, had
\* A read has been given its report before, or is first in its queue.
<1>4. ASSUME NEW id \in DOMAIN req, Given(id)'
      PROVE  \/ Given(id) /\ ReportOf(id)' = ReportOf(id)
             \/ \E s \in T : id = Front(s).id /\ ReportOf(id)' = Front(s).rsp.no
                             /\ ReportOf(id)' # 0
  <2>1. req[id].op = "read" /\ req'[id].ans # <<>> /\ req'[id].ans[1].no # 0
    BY <1>2, <1>4 DEF Given, Delivered
  <2>2. req[id].ans \in Seq(Result)
    BY <1>2 DEF Request
  <2>5. \A q \in Seq(Result), res \in Result :
          Append(q, res)[1] = IF q = <<>> THEN res ELSE q[1]
    OBVIOUS
  <2>3. CASE req[id].ans # <<>>
    <3>1. req'[id].ans[1] = req[id].ans[1]
      <4>1. CASE had(id)
        <5>1. rsp(id) \in Result /\ req'[id].ans = Append(req[id].ans, rsp(id))
          BY <1>2, <4>1
        <5>. QED BY <2>2, <2>3, <2>5, <5>1, Zenon
      <4>2. CASE ~had(id)
        BY <1>2, <4>2
      <4>. QED BY <4>1, <4>2
    <3>. QED BY <2>1, <2>3, <3>1 DEF Given, Delivered, ReportOf
  <2>4. CASE req[id].ans = <<>>
    <3>1. had(id) /\ req'[id].ans[1] = rsp(id)
      <4>1. had(id)
        BY <1>2, <2>1, <2>4
      <4>2. rsp(id) \in Result /\ req'[id].ans = Append(req[id].ans, rsp(id))
        BY <1>2, <4>1
      <4>. QED BY <2>2, <2>4, <2>5, <4>1, <4>2, Zenon
    <3>. QED BY <1>3, <2>1, <3>1 DEF ReportOf
  <2>. QED BY <2>3, <2>4
<1>5. \A s \in Session : readq[s] \in Seq(Entry)
  BY DEF UseInv, CtlTypeOK
<1>6. \A s \in T : s \in Session /\ readq[s] # <<>>
  BY DEF Listed
<1>7. ASSUME NEW s \in Session
      PROVE  \/ readq'[s] = readq[s] /\ s \notin T
             \/ /\ s \in T
                /\ \A k \in DOMAIN readq'[s] : /\ k + 1 \in DOMAIN readq[s] /\ k > 0 /\ k \in Nat
                                               /\ readq'[s][k] = readq[s][k + 1]
  <2>1. CASE s \in T
    <3>1. readq'[s] = Tail(readq[s]) /\ readq[s] \in Seq(Entry) /\ readq[s] # <<>>
      BY <1>5, <1>6, <2>1
    <3>. QED BY <2>1, <3>1
  <2>. QED BY <2>1
<1>8. ASSUME NEW s \in T
      PROVE  /\ 1 \in DOMAIN readq[s] /\ Front(s) = readq[s][1]
             /\ Front(s).id \in DOMAIN req /\ req[Front(s).id].ses = s
             /\ Front(s).id \in used /\ Past(Front(s).rsp.no) /\ s \in Session
             /\ Front(s).id \in Nat
  <2>1. 1 \in DOMAIN readq[s] /\ Front(s) = readq[s][1] /\ s \in Session
    BY <1>5, <1>6 DEF Front
  <2>. QED BY <2>1, TurnTypes DEF TurnInv, InTurn
<1>9. ASSUME NEW s \in Session PROVE InTurn(s)'
  <2>1. InTurn(s)
    BY DEF TurnInv
  <2>2. \A k \in DOMAIN readq[s] : readq[s][k].id \in DOMAIN req
    BY TurnTypes
  <2>3. CASE readq'[s] = readq[s]
    <3>1. ASSUME NEW k \in DOMAIN readq'[s]
          PROVE  /\ req'[readq'[s][k].id].ses = s
                 /\ Past(readq[s][k].rsp.no)'
                 /\ k > 1 => readq'[s][k].rsp.no = 0
                 /\ \A m \in DOMAIN readq'[s] : k < m => readq'[s][k].id < readq'[s][m].id
      <4>1. PICK n : n = readq[s][k].rsp.no
        OBVIOUS
      <4>2. Past(n)' /\ readq'[s][k].rsp.no = n
        BY <1>1, <2>1, <2>3, <4>1 DEF InTurn
      <4>3. Past(readq[s][k].rsp.no)'
        BY <4>2 DEF Past
      <4>. QED BY <1>2, <2>1, <2>2, <2>3, <4>3 DEF InTurn
    <3>. QED BY <3>1 DEF InTurn
  <2>4. CASE \A k \in DOMAIN readq'[s] : /\ k + 1 \in DOMAIN readq[s] /\ k > 0 /\ k \in Nat
                                         /\ readq'[s][k] = readq[s][k + 1]
    <3>1. ASSUME NEW k \in DOMAIN readq'[s]
          PROVE  /\ req'[readq'[s][k].id].ses = s
                 /\ Past(readq[s][k].rsp.no)'
                 /\ k > 1 => readq'[s][k].rsp.no = 0
                 /\ \A m \in DOMAIN readq'[s] : k < m => readq'[s][k].id < readq'[s][m].id
      <4>1. k + 1 \in DOMAIN readq[s] /\ k > 0 /\ k \in Nat /\ readq'[s][k] = readq[s][k + 1]
        BY <2>4
      <4>2. req'[readq'[s][k].id].ses = s /\ readq'[s][k].rsp.no = 0
        BY <1>2, <2>1, <2>2, <4>1 DEF InTurn
      <4>3. Past(readq[s][k].rsp.no)'
        BY <1>0, <2>1, <4>1 DEF InTurn, Past
      <4>4. \A m \in DOMAIN readq'[s] : k < m => readq'[s][k].id < readq'[s][m].id
        BY <2>1, <2>4, <4>1 DEF InTurn
      <4>. QED BY <4>2, <4>3, <4>4
    <3>. QED BY <3>1 DEF InTurn
  <2>. QED BY <1>7, <2>3, <2>4
<1>10. ASSUME NEW id \in DOMAIN req', Given(id)' PROVE Behind(id)'
  <2>0. /\ id \in DOMAIN req /\ id \in Nat /\ req'[id].ses = req[id].ses
        /\ req[id].ses \in Session
    BY <1>2, TurnTypes
  <2>1. PICK s \in Session : s = req[id].ses
    BY <2>0
  <2>2. InTurn(s)
    BY DEF TurnInv
  <2>3. CASE Given(id) /\ ReportOf(id)' = ReportOf(id)
    <3>1. Behind(id)
      BY <2>0, <2>3 DEF TurnInv
    <3>2. id \in used' /\ Past(ReportOf(id))'
      BY <1>0, <2>3, <3>1 DEF Behind, Past
    <3>3. \A k \in DOMAIN readq'[s] :
            /\ id < readq'[s][k].id
            /\ readq'[s][k].rsp.no = 0 \/ ReportOf(id) < readq'[s][k].rsp.no
      <4>1. \A k \in DOMAIN readq[s] :
              /\ id < readq[s][k].id
              /\ readq[s][k].rsp.no = 0 \/ ReportOf(id) < readq[s][k].rsp.no
        BY <2>1, <3>1 DEF Behind
      <4>. HIDE DEF ReportOf
      <4>. QED BY <1>7, <4>1
    <3>. QED BY <2>0, <2>1, <2>3, <3>2, <3>3 DEF Behind
  <2>4. CASE \E t \in T : id = Front(t).id /\ ReportOf(id)' = Front(t).rsp.no
                          /\ ReportOf(id)' # 0
    <3>1. s \in T /\ id = Front(s).id /\ ReportOf(id)' = Front(s).rsp.no
      BY <1>8, <2>1, <2>4
    <3>2. id \in used' /\ Past(ReportOf(id))'
      BY <1>0, <1>8, <3>1 DEF Past
    <3>3. \A k \in DOMAIN readq'[s] : id < readq'[s][k].id /\ readq'[s][k].rsp.no = 0
      BY <1>7, <1>8, <2>2, <3>1 DEF InTurn
    <3>. QED BY <2>0, <2>1, <3>2, <3>3 DEF Behind
  <2>. QED BY <1>4, <1>10, <2>0, <2>3, <2>4
<1>11. ASSUME NEW i \in DOMAIN req, NEW j \in DOMAIN req, i < j, req[i].ses = req[j].ses,
              Given(i)', Given(j)'
       PROVE  ReportOf(i)' < ReportOf(j)'
  <2>0. i \in Nat /\ j \in Nat
    BY TurnTypes
  <2>1. CASE Given(i) /\ ReportOf(i)' = ReportOf(i) /\ Given(j) /\ ReportOf(j)' = ReportOf(j)
    BY <1>11, <2>1 DEF TurnInv, ReportsInTurn, Given
  <2>2. ASSUME NEW s \in T, j = Front(s).id, ReportOf(j)' = Front(s).rsp.no, ReportOf(j)' # 0,
               Given(i), ReportOf(i)' = ReportOf(i)
        PROVE  ReportOf(i)' < ReportOf(j)'
    <3>1. Behind(i) /\ req[i].ses = s
      BY <1>8, <1>11, <2>2 DEF TurnInv
    <3>. QED BY <1>8, <2>2, <3>1 DEF Behind
  <2>3. ASSUME NEW s \in T, i = Front(s).id, Given(j) PROVE FALSE
    <3>1. Behind(j) /\ req[j].ses = s
      BY <1>8, <1>11, <2>3 DEF TurnInv
    <3>2. j < i
      BY <1>8, <2>3, <3>1 DEF Behind
    <3>. QED BY <1>11, <2>0, <3>2
  <2>4. ASSUME NEW s \in T, NEW t \in T, i = Front(s).id, j = Front(t).id PROVE FALSE
    BY <1>8, <1>11, <2>0, <2>4
  <2>. QED BY <1>4, <1>11, <2>1, <2>2, <2>3, <2>4
<1>12. ReportsInTurn'
  <2> SUFFICES ASSUME NEW i \in DOMAIN req', NEW j \in DOMAIN req', i < j,
                      req'[i].ses = req'[j].ses, req'[i].op = "read", req'[j].op = "read",
                      Delivered(i)', Delivered(j)'
               PROVE  ReportOf(i)' < ReportOf(j)'
    BY DEF ReportsInTurn
  <2>. QED BY <1>2, <1>11 DEF Given
<1>. QED BY <1>9, <1>10, <1>12 DEF TurnInv

\* What is complete are first reads with their answers, and the request whose
\* sender waits.
LEMMA CompletedGives ==
    ASSUME UseInv, NEW a \in Completed
    PROVE  /\ a.rsp \in Result
           /\ \/ \E s \in Taken : a.id = Front(s).id /\ a.rsp = Front(s).rsp
              \/ syncq # <<>> /\ a.id = Head(syncq).id
<1>1. a.rsp \in Result
  BY CompletedType DEF UseInv
<1> DEFINE complete == {Front(s) : s \in Taken} \cup (IF syncq = <<>> THEN {} ELSE {Head(syncq)})
<1>2. Completed = {Answer(e.id, e.rsp) : e \in complete}
  BY DEF Completed
<1>. HIDE DEF complete
<1>3. PICK e \in complete : a = Answer(e.id, e.rsp)
  BY <1>2
<1>4. a.id = e.id /\ a.rsp = e.rsp
  BY <1>3 DEF Answer
<1>. QED BY <1>1, <1>3, <1>4 DEF complete

\* The steps that send what is complete.
LEMMA CollectTurn ==
    ASSUME UseInv, AnswerInv, NoReportOfOwn, TurnInv, Collect \/ Continue
    PROVE  TurnInv'
<1>1. UNCHANGED hidVars /\ RemoveCompleted
  BY DEF Collect, Continue
<1>2. /\ readq' = [s \in Session |-> IF s \in Taken THEN Tail(readq[s]) ELSE readq[s]]
      /\ Taken \in SUBSET Listed
  BY <1>1 DEF RemoveCompleted, Taken, Reached
<1>3. ASSUME NEW a \in Completed, a.id \in DOMAIN req, req[a.id].op = "read"
      PROVE  \E s \in Taken : a.id = Front(s).id /\ a.rsp.no = Front(s).rsp.no
  <2>1. syncq # <<>> => req[Head(syncq).id].op # "read"
    BY DEF AnswerInv, WaitsForOwn, NoReportOfOwn, Op
  <2>. QED BY <1>3, <2>1, CompletedGives
<1>4. CASE Collect
  <2> DEFINE own == IF areq \in CompletedIds THEN {} ELSE {Answer(areq, aresp)}
             answers == Completed \cup own
  <2>1. Send(answers) /\ apc = "collect"
    BY <1>4 DEF Collect
  <2>2. \A a \in own : a.id = areq /\ a.rsp = aresp /\ a.rsp \in Result
    BY DEF Answer, UseInv, CtlTypeOK
  <2>3. \A a \in own : req[a.id].op = "read" => a.rsp.no = 0
    BY <2>1, <2>2 DEF NoReportOfOwn, Op
  <2>. HIDE DEF own
  <2>4. \A a \in answers : a.rsp \in Result
    BY <2>2, CompletedGives
  <2>5. \A a \in answers : a.id \in DOMAIN req /\ req[a.id].op = "read" =>
          \/ a.rsp.no = 0
          \/ \E s \in Taken : a.id = Front(s).id /\ a.rsp.no = Front(s).rsp.no
    BY <1>3, <2>3
  <2>. HIDE DEF answers
  <2>. QED BY <1>1, <1>2, <2>1, <2>4, <2>5, SentTurn
<1>5. CASE Continue
  <2>1. Send(Completed) /\ \A a \in Completed : a.rsp \in Result
    BY <1>5, CompletedGives DEF Continue
  <2>. QED BY <1>1, <1>2, <1>3, <2>1, SentTurn
<1>. QED BY <1>4, <1>5

\* A request that has just come has no answer.
LEMMA PostTurn ==
    ASSUME UseInv, TurnInv, NEW ses \in Session, NEW op \in Action, Post(ses, op)
    PROVE  TurnInv'
<1> DEFINE r == [ses |-> ses, op |-> op, ans |-> <<>>]
<1>1. req' = Append(req, r) /\ UNCHANGED <<readq, hidVars>>
  BY DEF Post, queueVars
<1>2. UNCHANGED <<rxq, nrx, cur, fresh, hpc, used>>
  BY <1>1 DEF hidVars, workerVars, rxVars
<1>3. /\ \A id \in DOMAIN req : id \in DOMAIN req' /\ req'[id] = req[id]
      /\ \A id \in DOMAIN req' : id \in DOMAIN req \/ req'[id] = r
  <2>1. req \in Seq(Request)
    BY DEF UseInv, CtlTypeOK
  <2>. HIDE DEF r
  <2>. QED BY <1>1, <2>1
<1>4. r.ans = <<>>
  OBVIOUS
<1>. HIDE DEF r
<1>5. ASSUME NEW s \in Session PROVE InTurn(s)'
  <2>1. InTurn(s) /\ \A k \in DOMAIN readq[s] : readq[s][k].id \in DOMAIN req
    BY TurnTypes DEF TurnInv
  <2>. QED BY <1>1, <1>2, <1>3, <2>1 DEF InTurn, Past
<1>6. \A id \in DOMAIN req' : Delivered(id)' =>
        /\ id \in DOMAIN req /\ Delivered(id) /\ ReportOf(id)' = ReportOf(id)
        /\ req'[id] = req[id]
  BY <1>3, <1>4 DEF Delivered, ReportOf
<1>7. ASSUME NEW id \in DOMAIN req', Given(id)' PROVE Behind(id)'
  <2>1. /\ id \in DOMAIN req /\ Given(id) /\ ReportOf(id)' = ReportOf(id) /\ req'[id] = req[id]
    BY <1>6, <1>7 DEF Given
  <2>2. Behind(id)
    BY <2>1 DEF TurnInv
  <2>. QED BY <1>1, <1>2, <2>1, <2>2 DEF Behind, Past
<1>8. ReportsInTurn'
  <2> SUFFICES ASSUME NEW i \in DOMAIN req', NEW j \in DOMAIN req', i < j,
                      req'[i].ses = req'[j].ses, req'[i].op = "read", req'[j].op = "read",
                      Delivered(i)', Delivered(j)'
               PROVE  ReportOf(i)' < ReportOf(j)'
    BY DEF ReportsInTurn
  <2>. QED BY <1>6 DEF TurnInv, ReportsInTurn
<1>. QED BY <1>5, <1>7, <1>8 DEF TurnInv

\* All steps.
LEMMA NextTurn ==
    UseInv /\ AnswerInv /\ ReportsInv /\ OneReport /\ NoReportOfOwn /\ TurnInv /\ [DevNext]_devVars
        => TurnInv'
<1> SUFFICES ASSUME UseInv, AnswerInv, ReportsInv, OneReport, NoReportOfOwn, TurnInv,
                    [DevNext]_devVars
             PROVE  TurnInv'
  OBVIOUS
<1>0. [HidNext]_hidVars
  BY StepUses
<1>1. CASE UNCHANGED <<req, readq>>
  <2>1. SameReads
    BY <1>1 DEF SameReads, SameReadsOf
  <2>. QED BY <1>0, <1>1, <2>1, NothingGiven
<1>2. CASE UNCHANGED devVars
  BY <1>1, <1>2 DEF devVars, clientVars, queueVars
<1>3. CASE Driver
  <2>1. CASE DriverOnly /\ UNCHANGED <<clientVars, ctlVars, stateVars, queueVars, bsel>>
    BY <1>1, <2>1 DEF clientVars, queueVars
  <2>2. CASE BeginCur \/ BeginNew
    BY <2>2, CallbackTurn
  <2>3. CASE EndCur \/ EndNew
    BY <1>1, <2>3 DEF EndCur, EndNew, StopWaiting, clientVars, queueVars
  <2>. QED BY <1>3, <2>1, <2>2, <2>3 DEF Driver
<1>4. CASE Device
  BY <1>1, <1>4 DEF Device, clientVars, queueVars
<1>5. CASE Controller
  <2>1. ASSUME NEW id \in DOMAIN req,
               Open(id) \/ CloseIdle(id) \/ CloseReading(id) \/ StartSync(id)
                 \/ \E evt \in Event : Refuse(id, evt)
        PROVE  TurnInv'
    BY <1>1, <2>1 DEF Open, CloseIdle, CloseReading, StartSync, Refuse, Dispatch
  <2>2. CASE StartFlaggedOrClose \/ Wake \/ Reading
    BY <1>1, <2>2 DEF StartFlaggedOrClose, Wake, Reading, clientVars, queueVars
  <2>3. ASSUME NEW id \in DOMAIN req, TurnAway(id) PROVE TurnInv'
    <3>1. /\ Send({Answer(id, Res("error"))}) /\ UNCHANGED <<readq, hidVars>>
          /\ \A a \in {Answer(id, Res("error"))} : a.rsp \in Result /\ a.rsp.no = 0
      BY <2>3, ResType DEF TurnAway, queueVars, Answer
    <3>2. readq \in [Session -> Seq(Entry)]
      BY DEF UseInv, CtlTypeOK
    <3>3. readq' = [s \in Session |-> IF s \in {} THEN Tail(readq[s]) ELSE readq[s]]
      BY <3>1, <3>2
    <3>4. \A a \in {Answer(id, Res("error"))} : a.id \in DOMAIN req /\ req[a.id].op = "read" =>
            a.rsp.no = 0 \/ \E s \in {} : a.id = Front(s).id /\ a.rsp.no = Front(s).rsp.no
      BY <3>1
    <3>5. {} \in SUBSET Listed
      OBVIOUS
    <3> DEFINE answers == {Answer(id, Res("error"))}
    <3>6. Send(answers) /\ (\A a \in answers : a.rsp \in Result) /\ UNCHANGED hidVars
      BY <3>1
    <3>7. \A a \in answers : a.id \in DOMAIN req /\ req[a.id].op = "read" =>
            a.rsp.no = 0 \/ \E s \in {} : a.id = Front(s).id /\ a.rsp.no = Front(s).rsp.no
      BY <3>4
    <3>. HIDE DEF answers
    <3>. QED BY <3>3, <3>5, <3>6, <3>7, SentTurn
  <2>4. ASSUME NEW id \in DOMAIN req, FlagOthers(id) PROVE TurnInv'
    <3>1. SameReads
      BY <2>4, FlagType DEF UseInv
    <3>2. ASSUME NEW s \in Session, NEW k \in DOMAIN readq[s]
          PROVE  readq'[s][k].rsp.no = readq[s][k].rsp.no
      <4>1. readq'[s] = IF s \in Listed \ {req[id].ses} THEN [readq[s] EXCEPT ![1].rec = TRUE]
                        ELSE readq[s]
        BY <2>4 DEF FlagOthers
      <4>2. readq[s] \in Seq(Entry) /\ (s \in Listed => readq[s] # <<>>)
        BY DEF UseInv, CtlTypeOK, Listed
      <4>3. NotYet \in Result
        BY ResType DEF NotYet
      <4>. QED BY <4>1, <4>2, <4>3, FrontAnswers
    <3>3. UNCHANGED req
      BY <2>4 DEF FlagOthers, Dispatch
    <3>. QED BY <1>0, <3>1, <3>2, <3>3, NothingGiven
  <2>5. ASSUME NEW id \in DOMAIN req, StartRead(id) PROVE TurnInv'
    BY <2>5, StartReadTurn
  <2>6. CASE Collect \/ Continue
    BY <2>6, CollectTurn
  <2>. QED BY <1>5, <2>1, <2>2, <2>3, <2>4, <2>5, <2>6 DEF Controller
<1>6. ASSUME NEW s \in Session, NEW op \in Action, Post(s, op) PROVE TurnInv'
  BY <1>6, PostTurn
<1>. QED BY <1>2, <1>3, <1>4, <1>5, <1>6 DEF DevNext

\* A popped request that is a read is answered without a report, if at all.
LEMMA NextOwn ==
    UseInv /\ AnswerInv /\ NoReportOfOwn /\ [DevNext]_devVars => NoReportOfOwn'
<1> SUFFICES ASSUME UseInv, AnswerInv, NoReportOfOwn, [DevNext]_devVars PROVE NoReportOfOwn'
  OBVIOUS
<1> USE DEF NoReportOfOwn, Op
<1>0. /\ Res("error").no = 0 /\ Res("success").no = 0
      /\ apc \notin {"wait", "collect"} => syncq = <<>>
  BY ResType DEF AnswerInv, WaitsForOwn
<1>1. CASE UNCHANGED <<req, apc, areq, aresp>> /\ (syncq' # <<>> => syncq # <<>>)
  BY <1>1
<1>2. CASE UNCHANGED devVars
  BY <1>1, <1>2 DEF devVars, clientVars, ctlVars, queueVars
<1>3. CASE Driver
  <2>1. UNCHANGED <<req, apc, areq, aresp>>
    BY <1>3 DEF Driver, DriverOnly, BeginCur, BeginNew, EndCur, EndNew, StopWaiting, clientVars, ctlVars
  <2>2. CASE BeginCur \/ BeginNew
    <3>1. PICK item : CallbackOf(item)
      BY <2>2 DEF BeginCur, BeginNew
    <3>2. syncq = <<>> => syncq' = <<>>
      BY <3>1 DEF CallbackOf, SyncCallback, ReadCallback
    <3>. QED BY <1>1, <2>1, <3>2
  <2>3. CASE ~(BeginCur \/ BeginNew)
    BY <1>1, <1>3, <2>1, <2>3 DEF Driver, EndCur, EndNew, StopWaiting, queueVars
  <2>. QED BY <2>2, <2>3
<1>4. CASE Device
  BY <1>1, <1>4 DEF Device, clientVars, ctlVars, queueVars
<1>5. ASSUME NEW s \in Session, NEW op \in Action, Post(s, op) PROVE NoReportOfOwn'
  <2>1. UNCHANGED <<apc, areq, aresp, syncq>>
    BY <1>5 DEF Post, ctlVars, queueVars
  <2>2. apc \in {"wait", "collect"} => areq \in DOMAIN req
    BY DEF AnswerInv, Executing
  <2>3. areq \in DOMAIN req => req'[areq] = req[areq]
    <3>1. req \in Seq(Request) /\ \E r : req' = Append(req, r)
      BY <1>5 DEF Post, UseInv, CtlTypeOK
    <3>. QED BY <3>1
  <2>. QED BY <1>0, <2>1, <2>2, <2>3
<1>6. CASE Controller
  <2>1. ASSUME NEW id \in DOMAIN req, TurnAway(id) PROVE NoReportOfOwn'
    <3>1. apc = "idle" /\ apc' = "idle" /\ syncq' = syncq
      BY <2>1 DEF TurnAway, Pop, ctlVars, queueVars
    <3>. QED BY <1>0, <3>1
  <2>2. ASSUME NEW id \in DOMAIN req,
               Open(id) \/ CloseIdle(id) \/ CloseReading(id) \/ FlagOthers(id)
                 \/ \E evt \in Event : Refuse(id, evt)
        PROVE  NoReportOfOwn'
    <3>1. apc = "idle" /\ syncq' = syncq
      BY <2>2 DEF Open, CloseIdle, CloseReading, FlagOthers, Refuse, Dispatch, Pop
    <3>2. apc' = "collect" => aresp'.no = 0
      BY <1>0, <2>2 DEF Open, CloseIdle, CloseReading, FlagOthers, Refuse
    <3>. QED BY <1>0, <3>1, <3>2
  <2>3. ASSUME NEW id \in DOMAIN req, StartSync(id) PROVE NoReportOfOwn'
    <3>1. req' = req /\ areq' = id /\ req[id].op # "read"
      BY <2>3 DEF StartSync, EventOf
    <3>. QED BY <3>1
  <2>4. CASE StartFlaggedOrClose
    <3>1. req' = req /\ areq' = areq /\ req[areq].op # "read"
      BY <2>4 DEF StartFlaggedOrClose, clientVars, UseInv, AboutToStart
    <3>. QED BY <3>1
  <2>5. CASE Wake
    <3>1. req' = req /\ areq' = areq /\ syncq # <<>>
      BY <2>5 DEF Wake, clientVars
    <3>. QED BY <3>1
  <2>6. ASSUME NEW id \in DOMAIN req, StartRead(id) PROVE NoReportOfOwn'
    <3>1. /\ apc = "idle" /\ syncq' = syncq
          /\ apc' = "collect" => aresp' = Res("error")
      BY <2>6 DEF StartRead, Pop
    <3>. QED BY <1>0, <3>1
  <2>7. CASE Reading
    BY <1>0, <2>7 DEF Reading, queueVars
  <2>8. CASE Collect \/ Continue
    <3>1. apc' = "idle" /\ syncq' = IF syncq = <<>> THEN syncq ELSE Tail(syncq)
      BY <2>8 DEF Collect, Continue, RemoveCompleted
    <3>2. syncq \in Seq(Entry) /\ (syncq # <<>> => Len(syncq) = 1)
      BY DEF UseInv, CtlTypeOK, AnswerInv, WaitsForOwn
    <3>3. syncq' = <<>>
      BY <3>1, <3>2
    <3>. QED BY <3>1, <3>3
  <2>. QED BY <1>6, <2>1, <2>2, <2>3, <2>4, <2>5, <2>6, <2>7, <2>8 DEF Controller
<1>. QED BY <1>2, <1>3, <1>4, <1>5, <1>6 DEF DevNext

\* What the theorem below and the proofs about waiting reads rest on.
LEMMA TurnInvariant == DevSpec => [](ReportsInv /\ OneReport /\ NoReportOfOwn /\ TurnInv)
<1>1. DevInit => ReportsInv /\ OneReport /\ NoReportOfOwn /\ TurnInv
  <2> SUFFICES ASSUME DevInit PROVE ReportsInv /\ OneReport /\ NoReportOfOwn /\ TurnInv
    OBVIOUS
  <2>1. ReportsInv /\ OneReport
    BY HidAssumption, ResType
       DEF DevInit, HidInit, ReportsInv, Ordered, AllReceived, NewerThan, OneReport,
           NoItem, NewItem, NotYet
  <2>2. NoReportOfOwn
    BY DEF DevInit, NoReportOfOwn
  <2>3. TurnInv
    BY DEF DevInit, TurnInv, InTurn, ReportsInTurn
  <2>. QED BY <2>1, <2>2, <2>3
<1>2. UseInv /\ ReportsInv /\ OneReport /\ [DevNext]_devVars => ReportsInv' /\ OneReport'
  BY StepUses, NextReports, ReportsMove DEF UseInv
<1>. QED BY <1>1, <1>2, NextOwn, NextTurn, UseInvariant, AnswerInvariant, PTL DEF DevSpec

\* The reports a session is sent are in the order of the device, and each is
\* sent to it once, although in shared mode one report answers the first reads
\* of all sessions, an answer may be overwritten before it is sent, and the
\* loop of get_all_complete_response passes sessions over
\* (qm_read_set_response_front of mp_cdev_ctl_fn_.cpp).
THEOREM SentInTurn == DevSpec => []ReportsInTurn
<1>1. TurnInv => ReportsInTurn
  BY DEF TurnInv
<1>. QED BY <1>1, TurnInvariant, PTL
=============================================================================
