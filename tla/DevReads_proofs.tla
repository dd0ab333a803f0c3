---------------------------- MODULE DevReads_proofs ----------------------------
(***************************************************************************)
(* The reads: which requests cancel one, and what becomes of those that    *)
(* wait when the item that one of them was started with ends.  The items   *)
(* of different sessions stand in for each other: a report answers the     *)
(* first reads of all, and a cancelled item is read again for the reads    *)
(* that carry the recover flag.                                            *)
(*                                                                         *)
(* ExecInv and CancelInv say what the controller's thread executes and     *)
(* which items are cancelled.  CancelledInv says that what is answered as  *)
(* cancelled, or queued for a session that has closed, has a later request *)
(* of its session; the one step that could break it is the callback of a   *)
(* cancelled read (CancelSafe).  AllTracked gives a place in the driver to *)
(* every read that waits.  Clear and FlagInv follow the flags, and         *)
(* OthersFlagged says that the reads of the others carry them when a       *)
(* request is about to cancel.                                             *)
(*                                                                         *)
(* What holds on every device is proved without hypotheses about the two   *)
(* threads.  On a device that is shared they race: over a flag (FlagUsed), *)
(* over the state of a session (LateEnd), and over an answer that has not  *)
(* been sent (Overwrites); and a close sets no flags (CloseBeside).  The   *)
(* theorems name the races that they need excluded.                        *)
(***************************************************************************)
EXTENDS DevTurn_proofs

-----------------------------------------------------------------------------
(* Requests stay what they are.                                             *)

\* Requests are added, and none changes its session or what it asks for.
ReqStays ==
    \A id \in DOMAIN req :
        /\ id \in DOMAIN req'
        /\ req'[id].ses = req[id].ses /\ req'[id].op = req[id].op

\* There is a later request of the same session that is not a read.
LaterOwn(id) ==
    \E later \in DOMAIN req :
        later > id /\ req[later].ses = req[id].ses /\ req[later].op # "read"

\* Sending answers changes only them.
LEMMA SendStays ==
    ASSUME CtlTypeOK, NEW answers, Send(answers)
    PROVE  ReqStays /\ DOMAIN req' = DOMAIN req
<1>1. DOMAIN req' = DOMAIN req /\ \A id \in DOMAIN req : req[id] \in Request
  BY DEF Send, CtlTypeOK
<1>2. \A id \in DOMAIN req : req'[id].op = req[id].op /\ req'[id].ses = req[id].ses
  BY <1>1 DEF Send, Request
<1>. QED BY <1>1, <1>2 DEF ReqStays

\* A client's request is added.
LEMMA PostStays ==
    ASSUME CtlTypeOK, NEW s \in Session, NEW op \in Action, Post(s, op)
    PROVE  /\ ReqStays /\ Len(req) + 1 = Len(req')
           /\ \A id \in DOMAIN req : req'[id] = req[id]
           /\ \A id \in DOMAIN req' : id \in DOMAIN req \/ id = Len(req) + 1
           /\ req'[Len(req) + 1] = [ses |-> s, op |-> op, ans |-> <<>>]
<1> DEFINE r == [ses |-> s, op |-> op, ans |-> <<>>]
<1>1. req' = Append(req, r) /\ req \in Seq(Request)
  BY DEF Post, CtlTypeOK
<1>. HIDE DEF r
<1>2. /\ \A id \in DOMAIN req : id \in DOMAIN req' /\ req'[id] = req[id]
      /\ \A id \in DOMAIN req' : id \in DOMAIN req \/ id = Len(req) + 1
      /\ req'[Len(req) + 1] = r /\ Len(req') = Len(req) + 1
  BY <1>1
<1>. QED BY <1>2 DEF ReqStays, r

\* All steps.
LEMMA StepStays ==
    ASSUME CtlTypeOK, [DevNext]_devVars
    PROVE  ReqStays
<1>1. CASE UNCHANGED req
  BY <1>1 DEF ReqStays
<1>2. CASE Controller
  <2>1. ASSUME NEW id \in DOMAIN req, TurnAway(id)
        PROVE  ReqStays
    BY <2>1, SendStays DEF TurnAway
  <2>2. CASE Collect \/ Continue
    BY <2>2, SendStays DEF Collect, Continue
  <2>. QED BY <1>1, <1>2, <2>1, <2>2
       DEF Controller, Open, CloseIdle, CloseReading, StartSync, FlagOthers, StartRead, Refuse,
           Dispatch, StartFlaggedOrClose, Wake, Reading, clientVars
<1>3. CASE Driver \/ Device \/ UNCHANGED devVars
  BY <1>1, <1>3 DEF Driver, Device, BeginCur, BeginNew, EndCur, EndNew, StopWaiting, clientVars,
                    devVars
<1>. QED BY <1>2, <1>3, PostStays DEF DevNext

\* A later request stays later.
LEMMA LaterStays ==
    ASSUME ReqStays, NEW id \in DOMAIN req, LaterOwn(id)
    PROVE  LaterOwn(id)'
  BY DEF ReqStays, LaterOwn

-----------------------------------------------------------------------------
(* The request the controller executes.                                     *)

\* The request the controller blocks for is the last that was started, and the
\* session of a request that needs the device has it open.
ExecInv ==
    /\ apc = "wait" => \A v \in used : v <= areq
    /\ apc \in {"astate", "flagged", "close", "wait"} => st[Ses] # "not"
    /\ apc = "collect" /\ Op = "read" => aresp.st # "cancel"

\* Only a close takes a session out of the map of states.
Closes(s) == st[s] # "not" /\ st'[s] = "not"

\* A step of the driver's thread closes no session.
LEMMA StopWaitingStays ==
    ASSUME CtlTypeOK, StopWaiting
    PROVE  \A s \in Session : ~Closes(s)
  BY DEF StopWaiting, NextState, Closes

\* _start_and_complete_by_...
LEMMA StartAndWaitExec ==
    ASSUME UseInv, NEW id, id \in Uid, \A v \in used : v < id, StartAndWait(id),
           areq' = id, req' = req, st' = st, st[req[id].ses] # "not", req[id].op # "read"
    PROVE  ExecInv'
<1>1. used \subseteq Nat /\ id \in Nat
  BY DEF UseInv, WorkerInv, TypeOK, Uid
<1>2. used' \subseteq used \cup {id} /\ apc' \in {"wait", "collect"}
  BY DEF StartAndWait, Start
<1>3. \A v \in used' : v <= id
  BY <1>1, <1>2
<1>. QED BY <1>2, <1>3 DEF ExecInv, Op, Ses

\* The controller's thread executes nothing or goes on with the same.
LEMMA ExecGoesOn ==
    ASSUME ExecInv, ReqStays, apc' = apc, areq' = areq, aresp' = aresp, used' = used,
           apc # "idle" => areq \in DOMAIN req,
           apc # "idle" => ~Closes(Ses)
    PROVE  ExecInv'
  BY DEF ExecInv, Op, Ses, ReqStays, Closes

\* The steps of the controller's thread.
LEMMA ControllerExec ==
    ASSUME UseInv, AnswerInv, NoReportOfOwn, ExecInv, Controller
    PROVE  ExecInv'
<1>0. \A st1 \in {"error", "success"} : Res(st1).st # "cancel"
  BY DEF Res
<1>1. CASE apc' = "idle"
  BY <1>1 DEF ExecInv
<1>2. ASSUME NEW id \in DOMAIN req,
             Open(id) \/ CloseIdle(id) \/ \E evt \in Event : Refuse(id, evt)
      PROVE  ExecInv'
  <2>1. apc' = "collect" /\ aresp'.st # "cancel"
    BY <1>0, <1>2 DEF Open, CloseIdle, Refuse
  <2>. QED BY <2>1 DEF ExecInv
<1>3. ASSUME NEW id \in DOMAIN req, CloseReading(id) \/ FlagOthers(id)
      PROVE  ExecInv'
  <2>1. /\ apc' \in {"close", "flagged"} /\ areq' = id /\ req' = req /\ st' = st
        /\ st[req[id].ses] # "not"
    BY <1>3 DEF CloseReading, FlagOthers, Dispatch, stateVars, NeedsRecover
  <2>. QED BY <2>1 DEF ExecInv, Ses
<1>4. ASSUME NEW id \in DOMAIN req, StartSync(id)
      PROVE  ExecInv'
  <2>1. /\ Pop(id) /\ StartAndWait(id) /\ areq' = id /\ req' = req /\ st' = st
        /\ st[req[id].ses] # "not" /\ req[id].op # "read"
    BY <1>4 DEF StartSync, stateVars, EventOf
  <2>2. id \in Uid /\ \A v \in used : v < id
    BY <2>1, PopOrder DEF UseInv
  <2>. QED BY <2>1, <2>2, StartAndWaitExec
<1>5. ASSUME NEW id \in DOMAIN req, StartRead(id)
      PROVE  ExecInv'
  <2>1. /\ apc' \in {"astate", "collect"} /\ areq' = id /\ req' = req /\ st' = st
        /\ st[req[id].ses] # "not" /\ (apc' = "collect" => aresp'.st # "cancel")
    BY <1>0, <1>5 DEF StartRead, stateVars
  <2>. QED BY <2>1 DEF ExecInv, Ses
<1>6. CASE StartFlaggedOrClose
  <2>1. /\ StartAndWait(areq) /\ areq' = areq /\ req' = req /\ st' = st
        /\ apc \in {"flagged", "close"}
    BY <1>6 DEF StartFlaggedOrClose, stateVars, clientVars
  <2>2. /\ areq \in DOMAIN req /\ \A v \in used : v < areq
        /\ st[req[areq].ses] # "not" /\ req[areq].op # "read"
    BY <2>1 DEF UseInv, AboutToStart, ExecInv, Ses
  <2>3. areq \in Uid
    BY <2>2, HidAssumption DEF UseInv, CtlTypeOK, Uid
  <2>. QED BY <2>1, <2>2, <2>3, StartAndWaitExec
<1>7. CASE Wake
  <2>1. apc' = "collect" /\ areq' = areq /\ req' = req /\ syncq # <<>>
    BY <1>7 DEF Wake, clientVars
  <2>. HIDE DEF ExecInv
  <2>2. Op' = Op /\ Op # "read"
    BY <2>1 DEF Op, NoReportOfOwn
  <2>. QED BY <2>1, <2>2 DEF ExecInv
<1>8. CASE Reading \/ Collect \/ Continue
  BY <1>1, <1>8 DEF Reading, Collect, Continue
<1>9. ASSUME NEW id \in DOMAIN req, TurnAway(id)
      PROVE  ExecInv'
  BY <1>1, <1>9 DEF TurnAway, Pop, ctlVars
<1>. QED BY <1>2, <1>3, <1>4, <1>5, <1>6, <1>7, <1>8, <1>9 DEF Controller

\* The steps of the driver's thread, of the device and of the clients leave the
\* controller's thread alone.
LEMMA OthersExec ==
    ASSUME UseInv, AnswerInv, ExecInv,
           Driver \/ Device \/ (\E s \in Session, op \in Action : Post(s, op)) \/ UNCHANGED devVars
    PROVE  ExecInv'
<1>1. apc' = apc /\ areq' = areq /\ aresp' = aresp
  BY DEF Driver, Device, BeginCur, BeginNew, EndCur, EndNew, StopWaiting, Post, ctlVars, devVars
<1>2. ReqStays
  BY StepStays DEF DevNext, UseInv
<1>3. apc # "idle" => areq \in DOMAIN req
  BY DEF AnswerInv, Executing
<1>4. used' = used
  BY DEF Driver, DriverOnly, Device, BeginCur, BeginNew, EndCur, EndNew, Post, devVars, hidVars,
         Pump, ReadCurrent, PopWhileBroken, PopPark, PopCancel, PopWrite, PopWriteRead, PopRead,
         RunCur, RunNew, FinishCur, FinishNew, Unplug, Receive
<1>5. \A s \in Session : ~Closes(s)
  <2>1. CASE st' = st
    BY <2>1 DEF Closes
  <2>2. CASE EndCur \/ EndNew
    BY <2>2, StopWaitingStays DEF EndCur, EndNew, UseInv
  <2>. QED BY <2>1, <2>2 DEF Driver, Device, BeginCur, BeginNew, Post, devVars, stateVars
<1>6. apc # "idle" => Ses \in Session
  <2>1. \A id \in DOMAIN req : req[id] \in Request
    BY DEF UseInv, CtlTypeOK
  <2>. QED BY <1>3, <2>1 DEF Ses, Request
<1>. QED BY <1>1, <1>2, <1>3, <1>4, <1>5, <1>6, ExecGoesOn

\* All steps.
LEMMA NextExec ==
    UseInv /\ AnswerInv /\ NoReportOfOwn /\ ExecInv /\ [DevNext]_devVars => ExecInv'
  BY ControllerExec, OthersExec DEF DevNext

\* The controller executes a request as the map of states allows.
LEMMA ExecInvariant == DevSpec => []ExecInv
<1>1. DevInit => ExecInv
  BY DEF DevInit, ExecInv
<1>. QED BY <1>1, NextExec, UseInvariant, AnswerInvariant, TurnInvariant, PTL DEF DevSpec

-----------------------------------------------------------------------------
(* Which items are cancelled.                                               *)

\* What is not a read has a sender that waits.  Only the current item is
\* cancelled, while the worker can read, and by an item whose sender waits.
CancelInv ==
    /\ \A k \in DOMAIN hq : hq[k].kind # "rx" => hq[k].cb = "sync"
    /\ fresh.res.st # "cancel"
    /\ cur.res.st = "cancel" =>
         /\ hpc \in {"cur", "cur_end"} /\ readOk
         /\ hpc = "cur" => Exists(fresh) /\ fresh.cb = "sync"

\* The worker takes an item off the front of the queue.
LEMMA CancelPop ==
    ASSUME TypeOK, CancelInv, Untouched(hq), hq # <<>>
    PROVE  /\ \A k \in DOMAIN Tail(hq) : Tail(hq)[k].kind # "rx" => Tail(hq)[k].cb = "sync"
           /\ Head(hq) \in Item /\ Exists(Head(hq)) /\ Head(hq).res.st # "cancel"
           /\ Head(hq).kind # "rx" => Head(hq).cb = "sync"
<1>1. hq \in Seq(Item) /\ Head(hq) = hq[1] /\ 1 \in DOMAIN hq
  BY DEF TypeOK
<1>2. \A k \in DOMAIN Tail(hq) : k + 1 \in DOMAIN hq /\ Tail(hq)[k] = hq[k + 1]
  BY <1>1
<1>3. NotYet.st # "cancel"
  BY DEF NotYet, Res
<1>. QED BY <1>1, <1>2, <1>3 DEF CancelInv, Untouched

\* Every step of the driver keeps it.
LEMMA NextCancel ==
    WorkerInv /\ CancelInv /\ [HidNext]_hidVars => CancelInv'
<1> SUFFICES ASSUME WorkerInv, CancelInv, [HidNext]_hidVars PROVE CancelInv'
  OBVIOUS
<1>0. /\ TypeOK /\ cur \in Item /\ fresh \in Item /\ ReadResult \in Result
      /\ hq \in Seq(Item) /\ Untouched(hq) /\ Untouched(parked) /\ parked \in Seq(Item)
      /\ NotifyOldFirst
  BY ReadResultType DEF WorkerInv, TypeOK
<1>1. /\ ReadResult.st # "cancel" /\ NotYet.st # "cancel" /\ NoItem.res.st # "cancel"
      /\ \A o \in {"success", "error"} : Res(o).st # "cancel"
  BY DEF ReadResult, NotYet, Res, NoItem, NewItem
<1>2. CASE UNCHANGED <<hq, cur, fresh, readOk>> /\ hpc' = hpc
  BY <1>2 DEF CancelInv, Exists
<1>3. CASE UNCHANGED hidVars \/ \E kind \in RxKind : Receive(kind)
  BY <1>2, <1>3 DEF hidVars, workerVars, Receive
<1>4. ASSUME NEW uid \in Uid, NEW kind \in Kind, NEW cb \in Callback, Submit(uid, kind, cb)
      PROVE  CancelInv'
  <2> DEFINE i == NewItem(uid, kind, cb)
  <2>1. /\ hq' = Append(hq, i) /\ UNCHANGED <<cur, fresh, readOk, hpc>>
        /\ i.kind # "rx" => i.cb = "sync"
    BY <1>4 DEF Submit, Start, workerVars, NewItem
  <2>2. i \in Item
    BY NewItemType
  <2>. HIDE DEF i
  <2>3. \A k \in DOMAIN hq' : hq'[k] = i \/ (k \in DOMAIN hq /\ hq'[k] = hq[k])
    BY <1>0, <2>1, <2>2
  <2>. QED BY <2>1, <2>3 DEF CancelInv, Exists
<1>5. CASE Pump \/ FinishNew
  <2>1. /\ hpc \in {"top", "new_end"} /\ UNCHANGED <<hq, cur>> /\ fresh' \in {fresh, NoItem}
        /\ hpc' = "top"
    BY <1>5 DEF Pump, FinishNew, AtTop
  <2>. QED BY <1>1, <2>1 DEF CancelInv
<1>6. CASE ReadCurrent
  <2>1. cur' = WithRes(cur, ReadResult) /\ UNCHANGED <<hq, fresh>>
    BY <1>6 DEF ReadCurrent
  <2>. QED BY <1>0, <1>1, <2>1, WithResSame DEF CancelInv
<1>7. CASE PopCancel \/ PopWrite \/ PopWriteRead
  <2>1. /\ hpc = "top" /\ hq # <<>> /\ hq' = Tail(hq) /\ cur' = Cancelled /\ readOk /\ readOk' = readOk
        /\ \E o \in {"success", "error"} : fresh' = WithRes(Head(hq), Res(o))
        /\ Head(hq).kind # "rx" /\ Notify(cur', fresh')
    BY <1>7 DEF PopCancel, PopWrite, PopWriteRead, PopRun, AtTop
  <2>2. PICK o \in {"success", "error"} : fresh' = WithRes(Head(hq), Res(o))
    BY <2>1
  <2>3. /\ Head(hq) \in Item /\ Exists(Head(hq)) /\ Head(hq).cb = "sync"
        /\ \A k \in DOMAIN hq' : hq'[k].kind # "rx" => hq'[k].cb = "sync"
    BY <1>0, <2>1, CancelPop
  <2>4. fresh'.res.st # "cancel" /\ Exists(fresh') /\ fresh'.cb = "sync"
    BY <1>1, <2>2, <2>3, WithResSame DEF Exists
  <2>5. cur.res.st # "cancel"
    BY <2>1 DEF CancelInv
  <2>6. cur'.res.st = "cancel" => IsComplete(cur')
    <3>1. Res("cancel") \in Result /\ Res("cancel") # NotYet
      BY ResType
    <3>. QED BY <1>0, <2>1, <2>5, <3>1, WithResSame DEF Cancelled, IsComplete, Exists
  <2>7. IsComplete(cur') => hpc' = "cur"
    BY <2>1 DEF Notify
  <2>. QED BY <2>1, <2>3, <2>4, <2>6, <2>7 DEF CancelInv
<1>8. CASE PopWhileBroken \/ PopPark \/ PopRead
  <2>1. /\ hpc = "top" /\ hq # <<>> /\ hq' = Tail(hq)
        /\ cur' = cur \/ cur' = Head(hq)
        /\ fresh' = fresh \/ fresh' = WithRes(Head(hq), Res("error"))
             \/ fresh' = WithRes(Head(hq), ReadResult)
    BY <1>8 DEF PopWhileBroken, PopPark, PopRead, PopRun, AtTop
  <2>2. /\ Head(hq) \in Item /\ Head(hq).res.st # "cancel"
        /\ \A k \in DOMAIN hq' : hq'[k].kind # "rx" => hq'[k].cb = "sync"
    BY <1>0, <2>1, CancelPop
  <2>3. cur'.res.st # "cancel"
    BY <2>1, <2>2 DEF CancelInv
  <2>4. fresh'.res.st # "cancel"
    BY <1>1, <2>1, <2>2, WithResSame DEF CancelInv
  <2>. QED BY <2>2, <2>3, <2>4 DEF CancelInv
<1>9. CASE Callbacks
  <2>1. UNCHANGED <<hq, cur, fresh, readOk>> /\ ((hpc = "cur" /\ hpc' = "cur_end") \/ hpc = "new")
    BY <1>9 DEF Callbacks, RunCur, RunNew
  <2>. QED BY <2>1 DEF CancelInv
<1>10. CASE FinishCur
  <2>1. UNCHANGED <<hq, fresh, readOk>>
    BY <1>10 DEF FinishCur
  <2>2. cur'.res.st # "cancel"
    <3>1. Reset(cur).res = NotYet
      BY <1>0, WithResSame DEF Reset
    <3>2. parked # <<>> => Head(parked).res = NotYet
      BY <1>0, UntouchedPop
    <3>. QED BY <1>1, <1>10, <3>1, <3>2 DEF FinishCur
  <2>. QED BY <2>1, <2>2 DEF CancelInv
<1>11. CASE Unplug
  <2>1. hq' = <<>> /\ cur' = NoItem /\ fresh' = NoItem
    BY <1>11 DEF Unplug
  <2>. QED BY <1>1, <2>1 DEF CancelInv
<1>. QED BY <1>3, <1>4, <1>5, <1>6, <1>7, <1>8, <1>9, <1>10, <1>11 DEF HidNext, Serve

\* The composition keeps it.
LEMMA CancelInvariant == DevSpec => []CancelInv
<1>1. DevInit => CancelInv
  BY DEF DevInit, HidInit, CancelInv, NoItem, NewItem, NotYet, Res
<1>2. UseInv /\ CancelInv /\ [DevNext]_devVars => CancelInv'
  BY StepUses, NextCancel DEF UseInv
<1>. QED BY <1>1, <1>2, UseInvariant, PTL DEF DevSpec

-----------------------------------------------------------------------------
(* The reads that are answered as cancelled.                                *)

\* The reads of a session that has closed, and those that have been answered
\* as cancelled, are to be answered so because of a later request of their own
\* session.
QueuedLater(s) ==
    \A k \in DOMAIN readq[s] :
        st[s] = "not" \/ readq[s][k].rsp.st = "cancel" => LaterOwn(readq[s][k].id)
AnsweredLater ==
    \A id \in DOMAIN req :
        req[id].op = "read" /\ (\E i \in DOMAIN req[id].ans : req[id].ans[i].st = "cancel")
            => LaterOwn(id)
CancelledInv == (\A s \in Session : QueuedLater(s)) /\ AnsweredLater

\* The callback of a cancelled read, which answers the first reads of all
\* sessions but the flagged ones, finds only such reads.
CancelSafe ==
    plugged /\ hpc = "cur" /\ cur.cb # "sync" /\ cur.res.st = "cancel" =>
        \A s \in Listed \ Flagged : LaterOwn(Front(s).id)

\* The reads of a session that are queued after a step were queued before it;
\* what is cancelled or closed by the step has a later request.
MovesOn(s) ==
    \A k \in DOMAIN readq'[s] :
        \/ st'[s] # "not" /\ readq'[s][k].rsp.st # "cancel"
        \/ \E m \in DOMAIN readq[s] :
             /\ readq'[s][k].id = readq[s][m].id
             /\ st'[s] = "not" => st[s] = "not" \/ LaterOwn(readq[s][m].id)
             /\ readq'[s][k].rsp.st = "cancel" =>
                  readq[s][m].rsp.st = "cancel" \/ LaterOwn(readq[s][m].id)

\* Such a step keeps what is said of the queues.
LEMMA QueuedMoves ==
    ASSUME UseInv, ReqStays, NEW s \in Session, QueuedLater(s), MovesOn(s)
    PROVE  QueuedLater(s)'
<1>1. ASSUME NEW k \in DOMAIN readq'[s], st'[s] = "not" \/ readq'[s][k].rsp.st = "cancel"
      PROVE  \E id \in DOMAIN req : readq'[s][k].id = id /\ LaterOwn(id)'
  <2>1. PICK m \in DOMAIN readq[s] :
           /\ readq'[s][k].id = readq[s][m].id
           /\ st[s] = "not" \/ readq[s][m].rsp.st = "cancel" \/ LaterOwn(readq[s][m].id)
    BY <1>1 DEF MovesOn
  <2>2. PICK id \in DOMAIN req : id = readq[s][m].id
    BY TurnTypes
  <2>3. LaterOwn(id)
    BY <2>1, <2>2 DEF QueuedLater
  <2>4. LaterOwn(id)'
    BY <2>3, LaterStays
  <2>. QED BY <2>1, <2>2, <2>4
<1>. QED BY <1>1 DEF QueuedLater, LaterOwn

\* The reads with their answers stay, and no session closes.
LEMMA QueuedStays ==
    ASSUME NEW s \in Session, DOMAIN readq'[s] = DOMAIN readq[s], ~Closes(s),
           \A k \in DOMAIN readq[s] :
               readq'[s][k].id = readq[s][k].id /\ readq'[s][k].rsp = readq[s][k].rsp
    PROVE  MovesOn(s)
  BY DEF MovesOn, Closes

\* So they do if nothing is done with the queue.
LEMMA QueueStays ==
    ASSUME NEW s \in Session, readq'[s] = readq[s], ~Closes(s)
    PROVE  MovesOn(s)
  BY QueuedStays

\* What is answered is removed.
LEMMA QueuedRemoved ==
    ASSUME CtlTypeOK, RemoveCompleted, st' = st, NEW s \in Session
    PROVE  MovesOn(s)
<1>1. ~Closes(s)
  BY DEF Closes
<1>2. CASE s \notin Taken
  BY <1>1, <1>2, QueueStays DEF RemoveCompleted
<1>3. CASE s \in Taken
  <2>1. readq'[s] = Tail(readq[s]) /\ readq[s] # <<>> /\ readq[s] \in Seq(Entry)
    BY <1>3 DEF RemoveCompleted, Taken, Reached, Listed, CtlTypeOK
  <2>2. \A k \in DOMAIN readq'[s] : k + 1 \in DOMAIN readq[s] /\ readq'[s][k] = readq[s][k + 1]
    BY <2>1
  <2>. QED BY <1>1, <2>2 DEF MovesOn, Closes
<1>. QED BY <1>2, <1>3

\* A later request of the session that is not a read closes it.
LEMMA QueuedLeft ==
    ASSUME UseInv, AnswerInv, TurnInv, NEW id \in DOMAIN req, req[id].op # "read",
           \A v \in used : v <= id, LeaveMap(req[id].ses), readq' = readq, NEW s \in Session
    PROVE  MovesOn(s)
<1>1. \A k \in DOMAIN readq[s] :
         /\ readq[s][k].id \in used /\ readq[s][k].id \in DOMAIN req /\ readq[s][k].id \in Nat
         /\ req[readq[s][k].id].op = "read" /\ req[readq[s][k].id].ses = s
  BY TurnTypes DEF AnswerInv, Kept, Queued, TurnInv, InTurn
<1>2. id \in Nat
  BY DEF UseInv, CtlTypeOK
<1>3. CASE s = req[id].ses
  <2>1. ASSUME NEW k \in DOMAIN readq[s]
        PROVE  LaterOwn(readq[s][k].id)
    <3>1. readq[s][k].id <= id /\ readq[s][k].id # id
      BY <1>1
    <3>2. readq[s][k].id < id
      BY <1>1, <1>2, <3>1
    <3>. QED BY <1>1, <1>3, <3>2 DEF LaterOwn
  <2>. QED BY <2>1 DEF MovesOn
<1>4. CASE s # req[id].ses
  <2>1. st'[s] = st[s]
    BY <1>4 DEF LeaveMap, UseInv, CtlTypeOK
  <2>. QED BY <2>1, QueueStays DEF Closes
<1>. QED BY <1>3, <1>4

\* No other step of the controller's thread closes a session.
LEMMA EventStays ==
    ASSUME CtlTypeOK, NEW ses, NEW evt \in {"open", "sync", "asy"}, NEW s \in Session,
           st' = [st EXCEPT ![ses] = NextState(@, evt)]
    PROVE  ~Closes(s)
<1>1. st'[s] = st[s] \/ st'[s] = NextState(st[s], evt)
  BY DEF CtlTypeOK
<1>. QED BY <1>1 DEF NextState, Closes

\* Flagging the first reads of the others.
LEMMA QueuedFlagged ==
    ASSUME CtlTypeOK, NEW id, FlagOthers(id), NEW s \in Session
    PROVE  MovesOn(s)
<1>1. st' = st /\ SameReadsOf(s) /\ readq[s] \in Seq(Entry)
  BY FlagType DEF FlagOthers, stateVars, SameReads, CtlTypeOK
<1>2. CASE readq'[s] = readq[s]
  BY <1>1, <1>2, QueueStays DEF Closes
<1>3. CASE readq[s] # <<>> /\ readq'[s] = [readq[s] EXCEPT ![1].rec = TRUE]
  <2>1. Res("error") \in Result
    BY ResType
  <2>2. \A k \in DOMAIN readq[s] : readq'[s][k].rsp = readq[s][k].rsp
    BY <1>1, <1>3, <2>1, FrontAnswers
  <2>. QED BY <1>1, <2>2, QueuedStays DEF SameReadsOf, Closes
<1>. QED BY <1>2, <1>3 DEF FlagOthers, Listed

\* A read is queued, of a session that has the device open.
LEMMA QueuedStarts ==
    ASSUME CtlTypeOK, NEW id, StartRead(id), NEW s \in Session
    PROVE  MovesOn(s)
<1>1. st' = st /\ st[req[id].ses] # "not" /\ readq[s] \in Seq(Entry)
  BY DEF StartRead, stateVars, CtlTypeOK
<1>2. CASE readq'[s] = readq[s]
  BY <1>1, <1>2, QueueStays DEF Closes
<1>3. CASE s = req[id].ses /\ readq'[s] = Append(readq[s], Waiting(id))
  <2>1. Waiting(id).rsp.st # "cancel"
    BY DEF Waiting, NotYet, Res
  <2>2. \A k \in DOMAIN readq'[s] :
           (k \in DOMAIN readq[s] /\ readq'[s][k] = readq[s][k]) \/ readq'[s][k] = Waiting(id)
    BY <1>1, <1>3
  <2>. QED BY <1>1, <1>3, <2>1, <2>2 DEF MovesOn
<1>. QED BY <1>2, <1>3 DEF StartRead, CtlTypeOK

\* The steps of the controller's thread.
LEMMA ControllerMoves ==
    ASSUME UseInv, AnswerInv, NoReportOfOwn, TurnInv, ExecInv, Controller, NEW s \in Session
    PROVE  MovesOn(s)
<1>1. CtlTypeOK
  BY DEF UseInv
<1>2. CASE UNCHANGED <<readq, st>>
  BY <1>2, QueueStays DEF Closes
<1>3. ASSUME NEW id \in DOMAIN req, Open(id)
      PROVE  MovesOn(s)
  <2>1. readq' = readq /\ (UNCHANGED <<readq, st>> \/
                           st' = [st EXCEPT ![req[id].ses] = NextState(@, "open")])
    BY <1>3 DEF Open, stateVars
  <2>. QED BY <1>1, <1>2, <2>1, EventStays, QueueStays
<1>4. ASSUME NEW id \in DOMAIN req, CloseIdle(id)
      PROVE  MovesOn(s)
  <2>1. /\ Pop(id) /\ EventOf(req[id].op) = "close" /\ LeaveMap(req[id].ses) /\ readq' = readq
    BY <1>4 DEF CloseIdle, Dispatch
  <2>2. \A v \in used : v <= id
    <3>1. \A v \in used : v < id /\ v \in Nat
      BY <2>1, PopOrder, UidType DEF UseInv, WorkerInv, TypeOK
    <3>. QED BY <1>1, <3>1 DEF CtlTypeOK
  <2>3. req[id].op # "read"
    BY <2>1 DEF EventOf
  <2>. QED BY <2>1, <2>2, <2>3, QueuedLeft
<1>5. CASE Wake
  <2>1. /\ apc = "wait" /\ syncq # <<>> /\ readq' = readq
        /\ IF Op = "close" THEN LeaveMap(Ses) ELSE st' = [st EXCEPT ![Ses] = NextState(@, "sync")]
    BY <1>5 DEF Wake, queueVars
  <2>2. areq \in DOMAIN req /\ req[areq].op # "read" /\ \A v \in used : v <= areq
    BY <2>1 DEF AnswerInv, Executing, NoReportOfOwn, Op, ExecInv
  <2>3. CASE Op = "close"
    BY <2>1, <2>2, <2>3, QueuedLeft DEF Ses
  <2>4. CASE Op # "close"
    BY <1>1, <2>1, <2>4, EventStays, QueueStays
  <2>. QED BY <2>3, <2>4
<1>6. CASE Reading
  BY <1>1, <1>6, EventStays, QueueStays DEF Reading, queueVars
<1>7. CASE Collect \/ Continue
  BY <1>1, <1>7, QueuedRemoved DEF Collect, Continue, stateVars
<1>8. ASSUME NEW id \in DOMAIN req,
             TurnAway(id) \/ CloseReading(id) \/ StartSync(id) \/ \E evt \in Event : Refuse(id, evt)
      PROVE  MovesOn(s)
  BY <1>2, <1>8 DEF TurnAway, CloseReading, StartSync, Refuse, stateVars, queueVars
<1>9. ASSUME NEW id \in DOMAIN req, FlagOthers(id) \/ StartRead(id)
      PROVE  MovesOn(s)
  BY <1>1, <1>9, QueuedFlagged, QueuedStarts
<1>10. CASE StartFlaggedOrClose
  BY <1>2, <1>10 DEF StartFlaggedOrClose, stateVars
<1>. QED BY <1>3, <1>4, <1>5, <1>6, <1>7, <1>8, <1>9, <1>10 DEF Controller

\* A callback answers the first reads but the flagged ones, and only the first.
LEMMA CallbackAnswers ==
    ASSUME CtlTypeOK, NEW item \in Item, CallbackOf(item), NEW s \in Session,
           NEW k \in DOMAIN readq[s]
    PROVE  \/ readq'[s][k].rsp = readq[s][k].rsp
           \/ /\ k = 1 /\ s \in Listed \ Flagged /\ item.cb # "sync"
              /\ readq'[s][k].rsp = item.res
<1>1. readq[s] \in Seq(Entry) /\ item.res \in Result /\ readq[s] # <<>>
  BY DEF CtlTypeOK, Item
<1>2. CASE item.cb = "sync" \/ item.res.st = "bad"
  BY <1>2 DEF CallbackOf, SyncCallback, ReadCallback
<1>3. CASE item.cb # "sync" /\ item.res.st # "bad"
  <2>1. readq'[s] = CASE s \in Flagged          -> [readq[s] EXCEPT ![1].rec = FALSE]
                      [] s \in Listed \ Flagged -> Answered(readq[s], item.res)
                      [] OTHER                  -> readq[s]
    BY <1>3 DEF CallbackOf, ReadCallback
  <2>2. CASE s \in Flagged
    <3>1. readq'[s] = [readq[s] EXCEPT ![1].rec = FALSE]
      BY <2>1, <2>2
    <3>. QED BY <1>1, <3>1, FrontAnswers
  <2>3. CASE s \in Listed \ Flagged
    <3>1. readq'[s] = [readq[s] EXCEPT ![1].rsp = item.res]
      BY <2>1, <2>3 DEF Answered
    <3>2. k # 1 => readq'[s][k].rsp = readq[s][k].rsp
      BY <1>1, <3>1, FrontAnswers
    <3>3. k = 1 => readq'[s][k].rsp = item.res
      BY <1>1, <3>1, FrontAnswers
    <3>. QED BY <1>3, <2>3, <3>2, <3>3
  <2>4. s \in Listed
    BY <1>1 DEF Listed
  <2>. QED BY <2>2, <2>3, <2>4
<1>. QED BY <1>2, <1>3

\* The callbacks.
LEMMA CallbackMoves ==
    ASSUME UseInv, CancelInv, CancelSafe, BeginCur \/ BeginNew, NEW s \in Session
    PROVE  MovesOn(s)
<1>1. CtlTypeOK /\ cur \in Item /\ fresh \in Item /\ st' = st
  BY DEF UseInv, WorkerInv, TypeOK, BeginCur, BeginNew, stateVars
<1>2. PICK item \in Item :
         /\ CallbackOf(item)
         /\ item.cb # "sync" /\ item.res.st = "cancel" =>
              \A t \in Listed \ Flagged : LaterOwn(Front(t).id)
  <2>1. CASE BeginCur
    BY <1>1, <2>1 DEF BeginCur, RunCur, CancelSafe
  <2>2. CASE BeginNew
    BY <1>1, <2>2 DEF BeginNew, CancelInv
  <2>. QED BY <2>1, <2>2
<1>3. SameReadsOf(s)
  BY <1>1, <1>2, CallbackType DEF SameReads
<1>4. \A k \in DOMAIN readq[s] :
         \/ readq'[s][k].rsp = readq[s][k].rsp
         \/ /\ k = 1 /\ s \in Listed \ Flagged /\ item.cb # "sync"
            /\ readq'[s][k].rsp = item.res
  BY <1>1, <1>2, CallbackAnswers
<1>5. readq[s] # <<>> => Front(s) = readq[s][1]
  BY <1>1 DEF Front, CtlTypeOK
<1>6. \A k \in DOMAIN readq[s] :
         readq'[s][k].rsp.st = "cancel" => readq[s][k].rsp.st = "cancel" \/ LaterOwn(readq[s][k].id)
  BY <1>2, <1>4, <1>5 DEF Listed
<1>. QED BY <1>1, <1>3, <1>6 DEF SameReadsOf, MovesOn

\* All steps.
LEMMA StepMoves ==
    ASSUME UseInv, AnswerInv, NoReportOfOwn, TurnInv, ExecInv, CancelInv, CancelSafe,
           [DevNext]_devVars, NEW s \in Session
    PROVE  MovesOn(s)
<1>1. CASE UNCHANGED <<readq, st>>
  BY <1>1, QueueStays DEF Closes
<1>2. CASE Driver
  <2>1. CASE EndCur \/ EndNew
    BY <2>1, StopWaitingStays, QueueStays DEF EndCur, EndNew, StopWaiting, queueVars, UseInv
  <2>. QED BY <1>1, <1>2, <2>1, CallbackMoves DEF Driver, stateVars, queueVars
<1>3. CASE Device \/ UNCHANGED devVars \/ \E t \in Session, op \in Action : Post(t, op)
  BY <1>1, <1>3 DEF Device, Post, devVars, stateVars, queueVars
<1>. QED BY <1>2, <1>3, ControllerMoves DEF DevNext

\* A set of answers is sent in which a read is answered as cancelled only if
\* there is a later request.
LEMMA SentLater ==
    ASSUME UseInv, AnsweredLater, NEW answers, Send(answers),
           \A a \in answers : a.rsp \in Result,
           \A a \in answers :
               a.id \in DOMAIN req /\ req[a.id].op = "read" /\ a.rsp.st = "cancel" => LaterOwn(a.id)
    PROVE  AnsweredLater'
<1> DEFINE rsp(id) == (CHOOSE a \in answers : a.id = id).rsp
           had(id) == \E a \in answers : a.id = id
<1>1. ReqStays /\ DOMAIN req' = DOMAIN req
  BY SendStays DEF UseInv
<1>2. \A id \in DOMAIN req :
         req'[id] = IF had(id) THEN [req[id] EXCEPT !.ans = Append(@, rsp(id))] ELSE req[id]
  BY DEF Send
<1>3. \A id : had(id) => \E a \in answers : a.id = id /\ a.rsp = rsp(id)
  OBVIOUS
<1>. HIDE DEF rsp, had
<1>4. ASSUME NEW id \in DOMAIN req, req[id].op = "read", NEW i \in DOMAIN req'[id].ans,
             req'[id].ans[i].st = "cancel"
      PROVE  LaterOwn(id)
  <2>1. req[id] \in Request
    BY DEF UseInv, CtlTypeOK
  <2>2. CASE req'[id] = req[id]
    BY <1>4, <2>2 DEF AnsweredLater
  <2>3. CASE had(id) /\ req'[id] = [req[id] EXCEPT !.ans = Append(@, rsp(id))]
    <3>1. req'[id].ans = Append(req[id].ans, rsp(id)) /\ req[id].ans \in Seq(Result)
      BY <2>1, <2>3 DEF Request
    <3>2. (i \in DOMAIN req[id].ans /\ req'[id].ans[i] = req[id].ans[i])
            \/ req'[id].ans[i] = rsp(id)
      BY <1>3, <2>3, <3>1
    <3>. QED BY <1>3, <1>4, <2>3, <3>2 DEF AnsweredLater
  <2>. QED BY <1>2, <2>2, <2>3
<1>5. ASSUME NEW id \in DOMAIN req', req'[id].op = "read",
             \E i \in DOMAIN req'[id].ans : req'[id].ans[i].st = "cancel"
      PROVE  LaterOwn(id)'
  <2>1. id \in DOMAIN req /\ req[id].op = "read"
    BY <1>1, <1>5 DEF ReqStays
  <2>2. LaterOwn(id)
    BY <1>4, <1>5, <2>1
  <2>. QED BY <1>1, <2>1, <2>2, LaterStays
<1>. QED BY <1>5 DEF AnsweredLater

\* What is sent as complete.
LEMMA CompletedLater ==
    ASSUME UseInv, AnswerInv, NoReportOfOwn, CancelledInv, NEW a \in Completed,
           a.id \in DOMAIN req, req[a.id].op = "read", a.rsp.st = "cancel"
    PROVE  LaterOwn(a.id)
<1>1. ~(syncq # <<>> /\ a.id = Head(syncq).id)
  BY DEF AnswerInv, WaitsForOwn, NoReportOfOwn, Op
<1>2. PICK s \in Taken : a.id = Front(s).id /\ a.rsp = Front(s).rsp
  BY <1>1, CompletedGives
<1>3. s \in Session /\ readq[s] # <<>> /\ readq[s] \in Seq(Entry)
  BY DEF Taken, Reached, Listed, UseInv, CtlTypeOK
<1>4. 1 \in DOMAIN readq[s] /\ Front(s) = readq[s][1]
  BY <1>3 DEF Front
<1>. QED BY <1>2, <1>3, <1>4 DEF CancelledInv, QueuedLater

\* Every step keeps it, if its callback does.
LEMMA NextCancelled ==
    ASSUME UseInv, AnswerInv, NoReportOfOwn, TurnInv, ExecInv, CancelInv, CancelSafe,
           CancelledInv, [DevNext]_devVars
    PROVE  CancelledInv'
<1>0. ReqStays /\ CtlTypeOK
  BY StepStays DEF UseInv
<1>1. \A s \in Session : QueuedLater(s)'
  BY <1>0, StepMoves, QueuedMoves DEF CancelledInv
<1>2. AnsweredLater
  BY DEF CancelledInv
<1>3. ASSUME UNCHANGED req PROVE AnsweredLater'
  BY <1>2, <1>3 DEF AnsweredLater, LaterOwn
<1>4. ASSUME NEW id \in DOMAIN req, TurnAway(id)
      PROVE  AnsweredLater'
  <2> DEFINE answers == {Answer(id, Res("error"))}
  <2>1. Send(answers) /\ \A a \in answers : a.rsp \in Result /\ a.rsp.st # "cancel"
    BY <1>4, ResType DEF TurnAway, Answer, Res
  <2>. HIDE DEF answers
  <2>. QED BY <1>2, <2>1, SentLater
<1>5. ASSUME Continue PROVE AnsweredLater'
  <2>1. Send(Completed) /\ \A a \in Completed : a.rsp \in Result
    BY <1>0, <1>5, CompletedType DEF Continue
  <2>. QED BY <1>2, <2>1, SentLater, CompletedLater
<1>6. ASSUME Collect PROVE AnsweredLater'
  <2> DEFINE own == IF areq \in CompletedIds THEN {} ELSE {Answer(areq, aresp)}
             answers == Completed \cup own
  <2>1. Send(answers) /\ apc = "collect"
    BY <1>6 DEF Collect
  <2>2. \A a \in own : a.rsp \in Result /\ a.rsp = aresp /\ a.id = areq
    BY <1>0 DEF Answer, CtlTypeOK
  <2>3. \A a \in own : req[a.id].op = "read" => a.rsp.st # "cancel"
    BY <2>1, <2>2 DEF ExecInv, Op
  <2>4. \A a \in answers : a.rsp \in Result
    BY <1>0, <2>2, CompletedType
  <2>5. \A a \in answers :
           a.id \in DOMAIN req /\ req[a.id].op = "read" /\ a.rsp.st = "cancel" => LaterOwn(a.id)
    BY <2>3, CompletedLater
  <2>. HIDE DEF answers, own
  <2>. QED BY <1>2, <2>1, <2>4, <2>5, SentLater
<1>7. ASSUME NEW t \in Session, NEW op \in Action, Post(t, op)
      PROVE  AnsweredLater'
  <2>1. /\ \A id \in DOMAIN req : req'[id] = req[id]
        /\ \A id \in DOMAIN req' : id \in DOMAIN req \/ req'[id].ans = <<>>
    <3>1. /\ \A id \in DOMAIN req : req'[id] = req[id]
          /\ \A id \in DOMAIN req' : id \in DOMAIN req \/ id = Len(req) + 1
          /\ req'[Len(req) + 1] = [ses |-> t, op |-> op, ans |-> <<>>]
      BY <1>0, <1>7, PostStays
    <3>2. req'[Len(req) + 1].ans = <<>>
      BY <3>1
    <3>. QED BY <3>1, <3>2
  <2>. QED BY <1>0, <1>2, <2>1, LaterStays DEF AnsweredLater
<1>8. ASSUME Controller PROVE AnsweredLater'
  BY <1>3, <1>4, <1>5, <1>6, <1>8
     DEF Controller, Open, CloseIdle, CloseReading, StartSync, FlagOthers, StartRead, Refuse,
         Dispatch, StartFlaggedOrClose, Wake, Reading, clientVars
<1>9. ASSUME Driver \/ Device \/ UNCHANGED devVars PROVE AnsweredLater'
  BY <1>3, <1>9 DEF Driver, Device, BeginCur, BeginNew, EndCur, EndNew, StopWaiting, clientVars,
                    devVars
<1>10. AnsweredLater'
  BY <1>7, <1>8, <1>9 DEF DevNext
<1>. QED BY <1>1, <1>10 DEF CancelledInv

\* It says what the property says.
LEMMA CancelledIs == CancelledInv => CancelledByOwn
<1> SUFFICES ASSUME CancelledInv, NEW id \in DOMAIN req, req[id].op = "read",
                    req[id].ans = <<Res("cancel")>>
             PROVE  LaterOwn(id)
  BY DEF CancelledByOwn, LaterOwn
<1>1. 1 \in DOMAIN req[id].ans /\ req[id].ans[1].st = "cancel"
  BY DEF Res
<1>. QED BY <1>1 DEF CancelledInv, AnsweredLater

-----------------------------------------------------------------------------
(* A device that is used by one session at a time.                          *)

\* The request that the controller blocks for is later than the reads of its own
\* session.
LEMMA OwnIsLater ==
    ASSUME UseInv, AnswerInv, NoReportOfOwn, TurnInv, ExecInv, apc = "wait", Ses \in Listed
    PROVE  LaterOwn(Front(Ses).id)
<1>1. /\ Ses \in Session /\ 1 \in DOMAIN readq[Ses] /\ Front(Ses) = readq[Ses][1]
  BY DEF Listed, Front, UseInv, CtlTypeOK
<1>2. /\ areq \in DOMAIN req /\ areq \in Nat /\ req[areq].op # "read"
      /\ \A v \in used : v <= areq
  BY DEF AnswerInv, Executing, WaitsForOwn, NoReportOfOwn, Op, ExecInv, UseInv, CtlTypeOK
<1>3. /\ Front(Ses).id \in used /\ Front(Ses).id \in DOMAIN req /\ Front(Ses).id \in Nat
      /\ req[Front(Ses).id].ses = Ses /\ req[Front(Ses).id].op = "read"
  BY <1>1, TurnTypes DEF TurnInv, InTurn, AnswerInv, Kept, Queued
<1>4. Front(Ses).id < areq
  BY <1>2, <1>3
<1>. QED BY <1>2, <1>3, <1>4 DEF LaterOwn, Ses

\* A read is cancelled by the request that the controller blocks for.
LEMMA CancelsForOwn ==
    ASSUME CancelInv, SyncInv, hpc = "cur", cur.res.st = "cancel"
    PROVE  Exists(fresh) /\ fresh.cb = "sync" /\ apc = "wait" /\ ~Ready(Head(syncq))
  BY DEF CancelInv, SyncInv, Own, Blocks

\* Only the session whose request cancels a read has the device open then.
LEMMA AloneSafe ==
    ASSUME UseInv, AnswerInv, NoReportOfOwn, TurnInv, ExecInv, CancelInv, SyncInv, CancelledInv,
           OpenedByOne
    PROVE  CancelSafe
<1> SUFFICES ASSUME hpc = "cur", cur.res.st = "cancel", NEW s \in Listed
             PROVE  LaterOwn(Front(s).id)
  BY DEF CancelSafe
<1>1. s \in Session /\ 1 \in DOMAIN readq[s] /\ Front(s) = readq[s][1]
  BY DEF Listed, Front, UseInv, CtlTypeOK
<1>2. apc = "wait" /\ areq \in DOMAIN req /\ st[Ses] # "not"
  BY CancelsForOwn DEF AnswerInv, Executing, ExecInv
<1>3. CASE s # Ses
  <2>1. Ses \in Session
    BY <1>2, TurnTypes DEF Ses
  <2>2. st[s] = "not"
    BY <1>1, <1>2, <1>3, <2>1 DEF OpenedByOne
  <2>. QED BY <1>1, <2>2 DEF CancelledInv, QueuedLater
<1>. QED BY <1>2, <1>3, OwnIsLater

\* On a device that does not support sharing a read is answered as cancelled
\* only if its own session sends a write, a transmit, a cancel or a close after
\* it: another session's request cannot cancel it, although the callback of a
\* cancelled read answers the first reads of all sessions
\* (_cb_dev_read_on_exclusive of mp_cdev_ctl_fn_.cpp).
THEOREM CancelledByOwnAlone ==
    ASSUME SupportShare = FALSE
    PROVE  DevSpec => []CancelledByOwn
<1> DEFINE Inv == /\ UseInv /\ AnswerInv /\ NoReportOfOwn /\ TurnInv /\ ExecInv /\ CancelInv
                  /\ SyncInv /\ OpenedByOne
<1>1. DevInit => OpenedByOne
  BY DEF DevInit, OpenedByOne, State
<1>2. OpenedByOne /\ [DevNext]_devVars => OpenedByOne'
  BY StepKeepsOpenedByOne
<1>3. DevSpec => []Inv
  BY <1>1, <1>2, UseInvariant, AnswerInvariant, TurnInvariant, ExecInvariant, CancelInvariant,
     SyncInvariant, PTL DEF DevSpec
<1>4. DevInit => CancelledInv
  BY DEF DevInit, CancelledInv, QueuedLater, AnsweredLater
<1>5. Inv /\ CancelledInv /\ [DevNext]_devVars => CancelledInv'
  BY AloneSafe, NextCancelled
<1>. QED BY <1>3, <1>4, <1>5, CancelledIs, PTL DEF DevSpec

-----------------------------------------------------------------------------
(* How the driver is used.  From here on a device is used in one mode only, *)
(* its reports are well formed, and a session sends its next read when its  *)
(* last has been answered.                                                  *)

OneMode == ~SupportShare \/ "open" \notin Opens \cup Ops
WellFormed == "bad" \notin RxKind
OneAtATime == MaxReads <= 1
Usage == OneMode /\ WellFormed /\ OneAtATime

\* The callback of every read.
Mode == IF SupportShare THEN "shared" ELSE "exclusive"

\* The items the driver holds: what is not answered by the callback of the mode
\* has a sender that waits, and no outcome is ill-formed.
Fine == {i \in Item : i.cb \in {"sync", Mode} /\ i.res.st # "bad"}
FineInv == hq \in Seq(Fine) /\ parked \in Seq(Fine) /\ cur \in Fine /\ fresh \in Fine

\* An outcome changes nothing else.
LEMMA FineRes ==
    ASSUME NEW i \in Fine, NEW res \in Result, res.st # "bad"
    PROVE  WithRes(i, res) \in Fine
  BY WithResType, WithResSame DEF Fine

\* The outcomes that the worker gives.
LEMMA FineResults ==
    ASSUME WellFormed, TypeOK
    PROVE  /\ ReadResult \in Result /\ ReadResult.st # "bad"
           /\ NotYet \in Result /\ NotYet.st # "bad"
           /\ \A o \in {"success", "error", "cancel"} : Res(o) \in Result /\ Res(o).st # "bad"
           /\ NoItem \in Fine
<1>1. rxq # <<>> => Head(rxq).kind # "bad"
  <2>1. rxq \in Seq(Report)
    BY DEF TypeOK
  <2>2. rxq # <<>> => Head(rxq) \in Report
    BY <2>1
  <2>. QED BY <2>2 DEF Report, WellFormed
<1>2. ReadResult \in Result
  BY ReadResultType DEF TypeOK
<1>3. ReadResult.st # "bad"
  BY <1>1 DEF ReadResult, NotYet, Res
<1>4. NoItem \in Fine
  BY NoItemType DEF Fine, NoItem, NewItem, NotYet, Res
<1>. QED BY <1>2, <1>3, <1>4, ResType DEF NotYet, Res

\* Every step of the driver keeps them, but a start.
LEMMA WorkerFine ==
    ASSUME WellFormed, WorkerInv, FineInv,
           Serve \/ Callbacks \/ Unplug \/ \E kind \in RxKind : Receive(kind)
    PROVE  FineInv'
<1> USE DEF FineInv
<1>0. TypeOK /\ NoItem \in Fine
  BY FineResults DEF WorkerInv
<1>1. CASE UNCHANGED <<hq, parked, cur, fresh>>
  BY <1>1
<1>2. CASE Pump \/ Callbacks \/ \E kind \in RxKind : Receive(kind)
  BY <1>1, <1>2 DEF Pump, Callbacks, RunCur, RunNew, Receive, workerVars
<1>3. CASE ReadCurrent
  BY <1>0, <1>3, FineResults, FineRes DEF ReadCurrent
<1>4. CASE PopWhileBroken \/ PopPark \/ PopCancel \/ PopWrite \/ PopWriteRead \/ PopRead
  <2>1. hq # <<>> /\ hq' = Tail(hq)
    BY <1>4 DEF PopWhileBroken, PopPark, PopCancel, PopWrite, PopWriteRead, PopRead, PopRun
  <2>2. Head(hq) \in Fine /\ hq' \in Seq(Fine)
    BY <2>1
  <2>3. \/ fresh' = fresh \/ fresh' = WithRes(Head(hq), ReadResult)
        \/ \E o \in {"success", "error"} : fresh' = WithRes(Head(hq), Res(o))
    BY <1>4 DEF PopWhileBroken, PopPark, PopCancel, PopWrite, PopWriteRead, PopRead
  <2>4. fresh' \in Fine
    BY <1>0, <2>2, <2>3, FineResults, FineRes
  <2>5. cur' = cur \/ cur' = Head(hq) \/ cur' = WithRes(cur, Res("cancel"))
    BY <1>4 DEF PopWhileBroken, PopPark, PopCancel, PopWrite, PopWriteRead, PopRead, Cancelled
  <2>6. cur' \in Fine
    BY <1>0, <2>2, <2>5, FineResults, FineRes
  <2>7. parked' = parked \/ parked' = Append(parked, Head(hq))
    BY <1>4 DEF PopWhileBroken, PopPark, PopCancel, PopWrite, PopWriteRead, PopRead
  <2>. QED BY <2>2, <2>4, <2>6, <2>7
<1>5. CASE FinishCur
  <2>1. hq' = hq /\ fresh' = fresh /\ (parked' = parked \/ parked' = <<>>
                                        \/ (parked # <<>> /\ parked' = Tail(parked)))
    BY <1>5 DEF FinishCur
  <2>2. cur' = Reset(cur) \/ cur' = NoItem \/ (parked # <<>> /\ cur' = Head(parked))
    BY <1>5 DEF FinishCur
  <2>3. cur' \in Fine
    <3>1. parked # <<>> => Head(parked) \in Fine
      OBVIOUS
    <3>. QED BY <1>0, <2>2, <3>1, FineResults, FineRes DEF Reset
  <2>4. parked' \in Seq(Fine)
    <3>1. <<>> \in Seq(Fine) /\ (parked # <<>> => Tail(parked) \in Seq(Fine))
      OBVIOUS
    <3>. QED BY <2>1, <3>1
  <2>. QED BY <2>1, <2>3, <2>4
<1>6. CASE FinishNew
  BY <1>0, <1>6 DEF FinishNew
<1>7. CASE Unplug
  BY <1>0, <1>7 DEF Unplug
<1>. QED BY <1>2, <1>3, <1>4, <1>5, <1>6, <1>7 DEF Serve

\* What the controller's thread starts: a request it blocks for, or a read of a
\* session that has the device open.
Starts(id) ==
    /\ plugged /\ id \in Uid /\ UNCHANGED <<workerVars, rxVars, plugged>>
    /\ \/ /\ Start(id, KindOf(req[id].op), "sync")
          /\ req[id].op \in {"transmit", "transmit_empty", "write", "cancel", "close"}
       \/ /\ Start(id, "rx", IF shared THEN "shared" ELSE "exclusive")
          /\ st[req[id].ses] # "not"
LEMMA ControllerStarts ==
    ASSUME UseInv, Controller
    PROVE  UNCHANGED hidVars \/ \E id \in DOMAIN req : Starts(id)
<1>1. ASSUME NEW id \in DOMAIN req, StartSync(id)
      PROVE  UNCHANGED hidVars \/ Starts(id)
  <2>1. /\ Pop(id) /\ StartAndWait(id) /\ UNCHANGED <<workerVars, rxVars, plugged>>
        /\ EventOf(req[id].op) = "sync" /\ req[id].op # "unsupported"
    BY <1>1 DEF StartSync
  <2>2. id \in Uid /\ req[id] \in Request
    BY <2>1, PopOrder DEF UseInv
  <2>3. req[id].op \in {"transmit", "transmit_empty", "write", "cancel"}
    BY <2>1, <2>2 DEF EventOf, Request, Action
  <2>. QED BY <2>1, <2>2, <2>3 DEF StartAndWait, Starts, hidVars
<1>2. ASSUME NEW id \in DOMAIN req, StartRead(id)
      PROVE  UNCHANGED hidVars \/ Starts(id)
  <2>1. id \in Uid
    BY <1>2, PopOrder DEF StartRead, UseInv
  <2>. QED BY <1>2, <2>1 DEF StartRead, Starts, hidVars
<1>3. CASE StartFlaggedOrClose
  <2>1. areq \in DOMAIN req /\ areq \in Uid
    BY <1>3, HidAssumption DEF StartFlaggedOrClose, UseInv, AboutToStart, CtlTypeOK, Uid
  <2>. QED BY <1>3, <2>1
       DEF StartFlaggedOrClose, StartAndWait, Starts, hidVars, UseInv, AboutToStart
<1>4. ASSUME NEW id \in DOMAIN req,
             TurnAway(id) \/ Open(id) \/ CloseIdle(id) \/ CloseReading(id) \/ FlagOthers(id)
               \/ \E evt \in Event : Refuse(id, evt)
      PROVE  UNCHANGED hidVars
  BY <1>4 DEF TurnAway, Open, CloseIdle, CloseReading, FlagOthers, Refuse
<1>5. CASE Wake \/ Reading \/ Collect \/ Continue
  BY <1>5 DEF Wake, Reading, Collect, Continue
<1>. QED BY <1>1, <1>2, <1>3, <1>4, <1>5 DEF Controller

-----------------------------------------------------------------------------
(* A session has at most one read that waits.                               *)

OneAwaited == \A s \in Session : \A a, b \in Awaited(s) : a = b
OneRead == \A s \in Session : \A k \in DOMAIN readq[s] : k = 1

\* No request loses its answer, and no new one comes.
LEMMA AwaitedShrinks ==
    ASSUME OneAwaited, ReqStays, DOMAIN req' = DOMAIN req,
           \A id \in DOMAIN req : req'[id].ans = <<>> => req[id].ans = <<>>
    PROVE  OneAwaited'
<1>1. \A s \in Session : Awaited(s)' \subseteq Awaited(s)
  BY DEF Awaited, Sent, ReqStays
<1>. QED BY <1>1 DEF OneAwaited

\* A set of answers is sent.
LEMMA AwaitedSent ==
    ASSUME CtlTypeOK, OneAwaited, NEW answers, Send(answers)
    PROVE  OneAwaited'
<1> DEFINE rsp(id) == (CHOOSE a \in answers : a.id = id).rsp
<1>1. \A id \in DOMAIN req :
         req'[id] = req[id] \/ req'[id] = [req[id] EXCEPT !.ans = Append(@, rsp(id))]
  BY DEF Send
<1>. HIDE DEF rsp
<1>2. ASSUME NEW id \in DOMAIN req, req'[id].ans = <<>>
      PROVE  req[id].ans = <<>>
  <2>1. req[id] \in Request
    BY DEF CtlTypeOK
  <2>2. req[id].ans \in Seq(Result)
    BY <2>1 DEF Request
  <2>3. Append(req[id].ans, rsp(id)) # <<>>
    BY <2>2
  <2>4. [req[id] EXCEPT !.ans = Append(@, rsp(id))].ans = Append(req[id].ans, rsp(id))
    BY <2>1 DEF Request
  <2>. QED BY <1>1, <1>2, <2>3, <2>4
<1>. QED BY <1>2, SendStays, AwaitedShrinks

\* A client sends its next read when the last is answered.
LEMMA AwaitedPosted ==
    ASSUME OneAtATime, CtlTypeOK, OneAwaited, NEW s \in Session, NEW op \in Action, Post(s, op)
    PROVE  OneAwaited'
<1>1. /\ \A id \in DOMAIN req : req'[id] = req[id]
      /\ \A id \in DOMAIN req' : id \in DOMAIN req \/ id = Len(req) + 1
      /\ req'[Len(req) + 1] = [ses |-> s, op |-> op, ans |-> <<>>]
  BY PostStays
<1>2. op = "read" => Awaited(s) = {}
  <2> SUFFICES ASSUME Cardinality(Awaited(s)) < MaxReads PROVE Awaited(s) = {}
    BY DEF Post
  <2>1. IsFiniteSet(Awaited(s))
    <3>1. DOMAIN req = 1..Len(req) /\ Len(req) \in Nat
      BY DEF CtlTypeOK
    <3>2. IsFiniteSet(DOMAIN req)
      BY <3>1, FS_Interval
    <3>3. Awaited(s) \subseteq DOMAIN req
      BY DEF Awaited, Sent
    <3>. QED BY <3>2, <3>3, FS_Subset
  <2>2. Cardinality(Awaited(s)) \in Nat
    BY <2>1, FS_CardinalityType
  <2>3. Cardinality(Awaited(s)) = 0
    BY <2>2, DevAssumption DEF OneAtATime
  <2>. QED BY <2>1, <2>3, FS_EmptySet
<1>3. ASSUME NEW t \in Session, NEW a \in Awaited(t)'
      PROVE  a \in Awaited(t) \/ (t = s /\ op = "read" /\ a = Len(req) + 1)
  <2>1. a \in DOMAIN req' /\ req'[a].ses = t /\ req'[a].op = "read" /\ req'[a].ans = <<>>
    BY <1>3 DEF Awaited, Sent
  <2>. QED BY <1>1, <2>1 DEF Awaited, Sent
<1>. QED BY <1>2, <1>3 DEF OneAwaited

\* All steps.
LEMMA NextAwaited ==
    ASSUME OneAtATime, UseInv, OneAwaited, [DevNext]_devVars
    PROVE  OneAwaited'
<1>0. CtlTypeOK
  BY DEF UseInv
<1>1. CASE UNCHANGED req
  BY <1>1 DEF OneAwaited, Awaited, Sent
<1>2. CASE Controller
  <2>1. ASSUME NEW id \in DOMAIN req, TurnAway(id)
        PROVE  OneAwaited'
    BY <1>0, <2>1, AwaitedSent DEF TurnAway
  <2>2. CASE Collect \/ Continue
    BY <1>0, <2>2, AwaitedSent DEF Collect, Continue
  <2>. QED BY <1>1, <1>2, <2>1, <2>2
       DEF Controller, Open, CloseIdle, CloseReading, StartSync, FlagOthers, StartRead, Refuse,
           Dispatch, StartFlaggedOrClose, Wake, Reading, clientVars
<1>3. CASE Driver \/ Device \/ UNCHANGED devVars
  BY <1>1, <1>3 DEF Driver, Device, BeginCur, BeginNew, EndCur, EndNew, StopWaiting, clientVars,
                    devVars
<1>. QED BY <1>0, <1>2, <1>3, AwaitedPosted DEF DevNext

\* A queue has one read, as it has no other than those that wait.
LEMMA OneQueued ==
    UseInv /\ AnswerInv /\ TurnInv /\ OneAwaited => OneRead
<1> SUFFICES ASSUME UseInv, AnswerInv, TurnInv, OneAwaited,
                    NEW s \in Session, NEW k \in DOMAIN readq[s]
             PROVE  k = 1
  BY DEF OneRead
<1>1. readq[s] \in Seq(Entry) /\ 1 \in DOMAIN readq[s]
  BY DEF UseInv, CtlTypeOK
<1>2. \A m \in DOMAIN readq[s] : readq[s][m].id \in Awaited(s)
  <2> SUFFICES ASSUME NEW m \in DOMAIN readq[s] PROVE readq[s][m].id \in Awaited(s)
    OBVIOUS
  <2>1. readq[s][m].id \in DOMAIN req /\ req[readq[s][m].id].ses = s /\ Queued(readq[s][m].id)
    BY TurnTypes DEF TurnInv, InTurn, Queued
  <2>. QED BY <2>1 DEF AnswerInv, Kept, Pending, Awaited, Sent
<1>. QED BY <1>1, <1>2 DEF OneAwaited, AnswerInv, QueuedOnce

-----------------------------------------------------------------------------
(* The mode of the device.                                                  *)

\* A device that supports sharing is only opened for it.
SharedInv == SupportShare => \A s \in Session : st[s] # "not" => shared

\* An open opens in the mode that is asked for.
LEMMA OpenMode ==
    ASSUME OneMode, CtlTypeOK, Asked, SharedInv, NEW id \in DOMAIN req, Open(id), SupportShare
    PROVE  SharedInv'
<1>1. req[id].op = "open_share"
  <2>1. req[id] \in Request
    BY DEF CtlTypeOK
  <2>2. req[id].op \in Action /\ req[id].op \in Opens \cup Ops /\ EventOf(req[id].op) = "open"
    BY <2>1 DEF Request, Open, Dispatch, Asked
  <2>. QED BY <2>2 DEF EventOf, OneMode, Action
<1>2. CASE UNCHANGED stateVars
  BY <1>2 DEF stateVars, SharedInv
<1>3. CASE shared' = IF OpenSessions(st) = {} THEN TRUE ELSE shared
  <2>1. OpenSessions(st) # {} => shared
    BY DEF OpenSessions, SharedInv, CtlTypeOK
  <2>. QED BY <1>3, <2>1 DEF SharedInv
<1>. QED BY <1>1, <1>2, <1>3 DEF Open

\* A close leaves the mode, unless nobody has the device open after it.
LEMMA LeaveMode ==
    ASSUME CtlTypeOK, SharedInv, NEW ses, LeaveMap(ses)
    PROVE  SharedInv'
<1>1. \A s \in Session : st'[s] # "not" => s # ses /\ s \in OpenSessions(st) /\ st[s] # "not"
  BY DEF LeaveMap, OpenSessions, CtlTypeOK
<1>2. \A s \in Session : st'[s] # "not" => OpenSessions(st) # {ses}
  BY <1>1
<1>. QED BY <1>1, <1>2 DEF SharedInv, LeaveMap

\* No other step opens a session or changes the mode.
LEMMA EventMode ==
    ASSUME CtlTypeOK, SharedInv, NEW ses, NEW evt \in {"sync", "asy"}, shared' = shared,
           st' = [st EXCEPT ![ses] = NextState(@, evt)]
    PROVE  SharedInv'
<1>1. \A s \in Session : st'[s] = st[s] \/ st'[s] = NextState(st[s], evt)
  BY DEF CtlTypeOK
<1>. QED BY <1>1 DEF NextState, SharedInv

\* All steps.
LEMMA NextMode ==
    ASSUME OneMode, CtlTypeOK, Asked, SharedInv, [DevNext]_devVars
    PROVE  SharedInv'
<1>1. CASE UNCHANGED stateVars
  BY <1>1 DEF stateVars, SharedInv
<1>2. CASE Controller
  <2>1. ASSUME NEW id \in DOMAIN req, Open(id) \/ CloseIdle(id)
        PROVE  SharedInv'
    BY <2>1, OpenMode, LeaveMode DEF CloseIdle, SharedInv
  <2>2. CASE Wake
    BY <2>2, LeaveMode, EventMode DEF Wake
  <2>3. CASE Reading
    BY <2>3, EventMode DEF Reading
  <2>. QED BY <1>1, <1>2, <2>1, <2>2, <2>3
       DEF Controller, TurnAway, CloseReading, StartSync, FlagOthers, StartRead, Refuse,
           StartFlaggedOrClose, Collect, Continue
<1>3. CASE Driver
  <2>1. CASE EndCur \/ EndNew
    BY <2>1 DEF EndCur, EndNew, StopWaiting, SharedInv
  <2>. QED BY <1>1, <1>3, <2>1 DEF Driver, BeginCur, BeginNew
<1>. QED BY <1>1, <1>2, <1>3 DEF DevNext, Device, Post, devVars, stateVars

\* What the controller's thread starts is fine.
LEMMA StartFine ==
    ASSUME UseInv, SharedInv, SupportShare = FALSE => OpenedByOne, FineInv,
           NEW id \in DOMAIN req, Starts(id)
    PROVE  FineInv'
<1>1. /\ id \in Uid /\ req[id] \in Request
      /\ shared \in BOOLEAN /\ SupportShare \in BOOLEAN
  BY DevAssumption DEF Starts, UseInv, CtlTypeOK
<1>2. PICK kind \in Kind, cb \in Callback :
         /\ Start(id, kind, cb) /\ UNCHANGED <<workerVars, rxVars, plugged>>
         /\ cb \in {"sync", Mode}
  <2>1. CASE /\ Start(id, KindOf(req[id].op), "sync")
             /\ req[id].op \in {"transmit", "transmit_empty", "write", "cancel", "close"}
    <3>1. KindOf(req[id].op) \in Kind /\ "sync" \in Callback
      BY <2>1 DEF KindOf, Kind, Callback
    <3>. QED BY <2>1, <3>1 DEF Starts
  <2>2. CASE /\ Start(id, "rx", IF shared THEN "shared" ELSE "exclusive")
             /\ st[req[id].ses] # "not"
    <3>1. req[id].ses \in Session
      BY <1>1 DEF Request
    <3>2. shared = SupportShare
      BY <1>1, <2>2, <3>1 DEF SharedInv, OpenedByOne
    <3>3. (IF shared THEN "shared" ELSE "exclusive") = Mode /\ Mode \in Callback /\ "rx" \in Kind
      BY <3>2 DEF Mode, Callback, Kind
    <3>. QED BY <2>2, <3>3 DEF Starts
  <2>. QED BY <2>1, <2>2 DEF Starts
<1>3. NewItem(id, kind, cb) \in Fine
  <2>1. NewItem(id, kind, cb) \in Item
    BY <1>1, NewItemType
  <2>. QED BY <1>2, <2>1 DEF Fine, NewItem, NotYet, Res
<1>4. hq' = Append(hq, NewItem(id, kind, cb)) /\ UNCHANGED <<parked, cur, fresh>>
  BY <1>2 DEF Start, workerVars
<1>. QED BY <1>3, <1>4 DEF FineInv

\* All steps.
LEMMA NextFine ==
    ASSUME Usage, UseInv, SharedInv, SupportShare = FALSE => OpenedByOne, FineInv,
           [DevNext]_devVars
    PROVE  FineInv'
<1>1. CASE UNCHANGED <<hq, parked, cur, fresh>>
  BY <1>1 DEF FineInv
<1>2. CASE UNCHANGED hidVars \/ BeginCur \/ BeginNew
  BY <1>1, <1>2 DEF hidVars, workerVars, BeginCur, BeginNew, RunCur, RunNew
<1>3. CASE Controller
  BY <1>2, <1>3, ControllerStarts, StartFine
<1>4. CASE Driver \/ Device
  BY <1>2, <1>4, WorkerFine
  DEF Driver, DriverOnly, Device, EndCur, EndNew, Serve, UseInv, Usage
<1>. QED BY <1>2, <1>3, <1>4 DEF DevNext, Post, devVars

\* What the use of the device makes true of it.
UsageInv ==
    /\ Asked /\ SharedInv /\ (SupportShare = FALSE => OpenedByOne)
    /\ OneAwaited /\ OneRead /\ FineInv
LEMMA UsageInvariant ==
    ASSUME Usage
    PROVE  DevSpec => []UsageInv
<1> DEFINE Inv == /\ Asked /\ SharedInv /\ (SupportShare = FALSE => OpenedByOne)
                  /\ OneAwaited /\ FineInv
<1>1. DevInit => Inv
  <2>1. NoItem \in Fine
    BY NoItemType DEF Fine, NoItem, NewItem, NotYet, Res
  <2>. QED BY <2>1 DEF DevInit, HidInit, Asked, SharedInv, OpenedByOne, State, OneAwaited,
                       Awaited, Sent, FineInv
<1>2. UseInv /\ Inv /\ [DevNext]_devVars => Inv'
  <2> SUFFICES ASSUME UseInv, Inv, [DevNext]_devVars PROVE Inv'
    OBVIOUS
  <2>1. Asked' /\ SharedInv'
    BY AskedOps, NextMode DEF UseInv, Usage
  <2>2. (SupportShare = FALSE => OpenedByOne)'
    BY StepKeepsOpenedByOne
  <2>3. OneAwaited'
    BY NextAwaited DEF Usage
  <2>4. FineInv'
    BY NextFine
  <2>. QED BY <2>1, <2>2, <2>3, <2>4
<1>3. DevSpec => []Inv
  BY <1>1, <1>2, UseInvariant, PTL DEF DevSpec
<1>4. UseInv /\ AnswerInv /\ TurnInv /\ Inv => UsageInv
  BY OneQueued DEF UsageInv
<1>. QED BY <1>3, <1>4, UseInvariant, AnswerInvariant, TurnInvariant, PTL

-----------------------------------------------------------------------------
(* The reads that wait.                                                     *)

\* The sessions whose first read has not been answered.
Unanswered == {s \in Listed : ~Ready(Front(s))}

\* A session's read waits as it did.
WaitsOn(s) == s \in Unanswered /\ Front(s)'.id = Front(s).id
Stays(s) == WaitsOn(s) /\ Front(s)'.rec = Front(s).rec

\* The first read of a session.
LEMMA FrontOf ==
    ASSUME CtlTypeOK, NEW s \in Listed
    PROVE  /\ s \in Session /\ readq[s] \in Seq(Entry) /\ 1 \in DOMAIN readq[s]
           /\ Front(s) = readq[s][1] /\ Front(s) \in Entry
  BY DEF CtlTypeOK, Listed, Front

\* Nothing is done with the reads.
LEMMA SameWaiting ==
    ASSUME readq' = readq
    PROVE  \A s \in Unanswered' : Stays(s)
  BY DEF Stays, WaitsOn, Unanswered, Listed, Front, Ready

\* What is answered is removed, and no other read comes to the front.
LEMMA RemoveWaiting ==
    ASSUME CtlTypeOK, OneRead, RemoveCompleted
    PROVE  \A s \in Unanswered' : Stays(s)
<1> SUFFICES ASSUME NEW s \in Unanswered' PROVE Stays(s)
  OBVIOUS
<1>1. s \in Session /\ readq'[s] # <<>> /\ ~Ready(Head(readq'[s]))
  BY DEF Unanswered, Listed, Front, Ready
<1>2. s \notin Taken
  <2> SUFFICES ASSUME s \in Taken PROVE FALSE
    OBVIOUS
  <2>1. readq'[s] = Tail(readq[s]) /\ readq[s] \in Seq(Entry) /\ readq[s] # <<>>
    BY <1>1 DEF RemoveCompleted, CtlTypeOK, Taken, Reached, Listed
  <2>2. 2 \in DOMAIN readq[s]
    BY <1>1, <2>1
  <2>. QED BY <1>1, <2>2 DEF OneRead
<1>3. readq'[s] = readq[s]
  BY <1>1, <1>2 DEF RemoveCompleted
<1>. QED BY <1>1, <1>3 DEF Stays, WaitsOn, Unanswered, Listed, Front, Ready

\* A callback leaves the reads that wait, if it is that of a request whose
\* sender waits, and only the flagged ones otherwise.
LEMMA CallbackWaiting ==
    ASSUME CtlTypeOK, NEW item \in Item, CallbackOf(item), item.res.st # "bad", item.res # NotYet
    PROVE  \A s \in Unanswered' :
               IF item.cb = "sync" THEN Stays(s)
               ELSE WaitsOn(s) /\ s \in Flagged /\ ~Front(s)'.rec
<1>1. CASE item.cb = "sync"
  <2>1. readq' = readq
    BY <1>1 DEF CallbackOf, SyncCallback
  <2>. QED BY <1>1, <2>1, SameWaiting
<1>2. CASE item.cb # "sync"
  <2>1. readq' = [s \in Session |->
                    CASE s \in Flagged          -> [readq[s] EXCEPT ![1].rec = FALSE]
                      [] s \in Listed \ Flagged -> Answered(readq[s], item.res)
                      [] OTHER                  -> readq[s]]
    BY <1>2 DEF CallbackOf, ReadCallback
  <2>2. ASSUME NEW s \in Unanswered'
        PROVE  WaitsOn(s) /\ s \in Flagged /\ ~Front(s)'.rec
    <3>1. s \in Session /\ readq'[s] # <<>> /\ ~Ready(Head(readq'[s])) /\ readq[s] \in Seq(Entry)
      BY <2>2 DEF Unanswered, Listed, Front, Ready, CtlTypeOK
    <3>2. s \in Listed
      <4> SUFFICES ASSUME s \notin Listed PROVE FALSE
        OBVIOUS
      <4>1. s \notin Flagged
        BY DEF Flagged
      <4>2. readq'[s] = readq[s]
        BY <2>1, <3>1, <4>1
      <4>. QED BY <3>1, <4>2 DEF Listed
    <3>3. /\ 1 \in DOMAIN readq[s] /\ Front(s) = readq[s][1] /\ Front(s) \in Entry
      BY <3>2, FrontOf
    <3>4. s \in Flagged
      <4> SUFFICES ASSUME s \notin Flagged PROVE FALSE
        OBVIOUS
      <4>1. readq'[s] = [readq[s] EXCEPT ![1].rsp = item.res]
        BY <2>1, <3>1, <3>2 DEF Answered
      <4>2. Head(readq'[s]).rsp = item.res
        BY <3>1, <3>3, <4>1 DEF Entry
      <4>. QED BY <3>1, <4>2 DEF Ready
    <3>5. readq'[s] = [readq[s] EXCEPT ![1].rec = FALSE]
      BY <2>1, <3>1, <3>4
    <3>6. Head(readq'[s]) = [Front(s) EXCEPT !.rec = FALSE]
      BY <3>1, <3>3, <3>5
    <3>7. /\ Head(readq'[s]).id = Front(s).id /\ Head(readq'[s]).rsp = Front(s).rsp
          /\ Head(readq'[s]).rec = FALSE
      BY <3>3, <3>6 DEF Entry
    <3>. QED BY <3>1, <3>2, <3>4, <3>7 DEF WaitsOn, Unanswered, Front, Ready
  <2>. QED BY <1>2, <2>2
<1>. QED BY <1>1, <1>2

\* A read is queued and started.
LEMMA StartWaiting ==
    ASSUME CtlTypeOK, OneRead', NEW id, StartRead(id)
    PROVE  \A s \in Unanswered' :
               \/ Stays(s)
               \/ /\ plugged /\ s = req[id].ses /\ Front(s)' = Waiting(id)
                  /\ Start(id, "rx", IF shared THEN "shared" ELSE "exclusive")
<1> SUFFICES ASSUME NEW s \in Unanswered', ~Stays(s)
             PROVE  /\ plugged /\ s = req[id].ses /\ Front(s)' = Waiting(id)
                    /\ Start(id, "rx", IF shared THEN "shared" ELSE "exclusive")
  OBVIOUS
<1>1. s \in Session /\ readq'[s] # <<>> /\ readq[s] \in Seq(Entry)
  BY DEF Unanswered, Listed, CtlTypeOK
<1>2. readq'[s] # readq[s]
  BY <1>1 DEF Unanswered, Listed, Front, Ready, Stays, WaitsOn
<1>3. /\ plugged /\ s = req[id].ses /\ readq'[s] = Append(readq[s], Waiting(id))
      /\ Start(id, "rx", IF shared THEN "shared" ELSE "exclusive")
  BY <1>1, <1>2 DEF StartRead, CtlTypeOK
<1>4. readq[s] = <<>>
  <2>1. Len(readq[s]) + 1 \in DOMAIN readq'[s]
    BY <1>1, <1>3
  <2>. QED BY <1>1, <2>1 DEF OneRead
<1>5. Front(s)' = Waiting(id)
  BY <1>3, <1>4 DEF Front
<1>. QED BY <1>3, <1>5

\* The reads of the others are flagged.
LEMMA FlagWaiting ==
    ASSUME CtlTypeOK, NEW id, FlagOthers(id)
    PROVE  \A s \in Unanswered' :
               WaitsOn(s) /\ (IF s = req[id].ses THEN Front(s)'.rec = Front(s).rec ELSE Front(s)'.rec)
<1> SUFFICES ASSUME NEW s \in Unanswered'
             PROVE  WaitsOn(s) /\ (IF s = req[id].ses THEN Front(s)'.rec = Front(s).rec ELSE Front(s)'.rec)
  OBVIOUS
<1>1. s \in Session /\ readq'[s] # <<>> /\ ~Ready(Head(readq'[s])) /\ readq[s] \in Seq(Entry)
  BY DEF Unanswered, Listed, Front, Ready, CtlTypeOK
<1>2. readq'[s] = IF s \in Listed \ {req[id].ses} THEN [readq[s] EXCEPT ![1].rec = TRUE] ELSE readq[s]
  BY <1>1 DEF FlagOthers
<1>3. s \in Listed
  BY <1>1, <1>2 DEF Listed
<1>4. /\ 1 \in DOMAIN readq[s] /\ Front(s) = readq[s][1] /\ Front(s) \in Entry
  BY <1>3, FrontOf
<1>5. CASE s = req[id].ses
  BY <1>1, <1>2, <1>3, <1>5 DEF WaitsOn, Unanswered, Front, Ready
<1>6. CASE s # req[id].ses
  <2>1. Head(readq'[s]) = [Front(s) EXCEPT !.rec = TRUE]
    BY <1>1, <1>2, <1>3, <1>4, <1>6
  <2>2. /\ Head(readq'[s]).id = Front(s).id /\ Head(readq'[s]).rsp = Front(s).rsp
        /\ Head(readq'[s]).rec = TRUE
    BY <1>4, <2>1 DEF Entry
  <2>. QED BY <1>1, <1>3, <1>6, <2>2 DEF WaitsOn, Unanswered, Front, Ready
<1>. QED BY <1>5, <1>6

-----------------------------------------------------------------------------
(* The item of a read that waits.                                           *)

\* The item id of a read is the current one, or is parked, or waits to be
\* popped.
Held(id) ==
    \/ cur.uid = id /\ cur.cb # "sync"
    \/ \E k \in DOMAIN parked : parked[k].uid = id /\ parked[k].cb # "sync"
InHq(id) == \E k \in DOMAIN hq : hq[k].uid = id /\ hq[k].cb # "sync"

\* It is on its way to a report.  An item that the worker holds is so unless
\* reading failed, when the callback of the current item or of the next popped
\* one gives the error to all; and while the worker ends a callback only if
\* that has named the item.
Tracked(id) ==
    \/ InHq(id)
    \/ hpc \in {"top", "reread", "new", "new_end"} /\ readOk /\ Held(id)
    \/ hpc = "cur" /\ Held(id)
    \/ hpc = "cur_end" /\ readOk /\ Held(id) /\ id \in ret.more
    \/ hpc = "new" /\ fresh.uid = id /\ fresh.cb # "sync"

\* The reads that wait have items.
AllTracked == plugged => \A s \in Unanswered : Tracked(Front(s).id)

\* What was popped from the queue, and what stays in it.
LEMMA PopTracks ==
    ASSUME TypeOK, NEW id, InHq(id), hq # <<>>, hq' = Tail(hq)
    PROVE  InHq(id)' \/ (Head(hq).uid = id /\ Head(hq).cb # "sync")
<1>1. PICK k \in DOMAIN hq : hq[k].uid = id /\ hq[k].cb # "sync"
  BY DEF InHq
<1>2. hq \in Seq(Item) /\ Head(hq) = hq[1]
  BY DEF TypeOK
<1>3. k # 1 => k - 1 \in DOMAIN hq' /\ hq'[k - 1] = hq[k]
  BY <1>2
<1>. QED BY <1>1, <1>2, <1>3 DEF InHq

\* The worker loses no item but by its callbacks.
LEMMA WorkerTracks ==
    ASSUME WorkerInv, CancelInv, NEW id, id # 0, Tracked(id),
           Serve \/ \E kind \in RxKind : Receive(kind)
    PROVE  Tracked(id)'
<1>0. /\ TypeOK /\ NotifyOldFirst /\ ReadyForParked /\ cur \in Item /\ hq \in Seq(Item)
      /\ parked \in Seq(Item)
  BY DEF WorkerInv, TypeOK
<1>1. ~Exists(cur) => ~Held(id)
  BY <1>0 DEF Held, Exists, ReadyForParked
<1>2. ASSUME UNCHANGED <<hq, parked>>, cur'.uid = cur.uid, cur'.cb = cur.cb
      PROVE  (Held(id)' <=> Held(id)) /\ (InHq(id)' <=> InHq(id))
  BY <1>2 DEF Held, InHq
<1>3. CASE \E kind \in RxKind : Receive(kind)
  BY <1>2, <1>3 DEF Receive, workerVars, Tracked
<1>4. CASE Pump
  <2>1. hq' = hq /\ InHq(id)
    BY <1>1, <1>4 DEF Pump, AtTop, Tracked
  <2>. QED BY <2>1 DEF Tracked, InHq
<1>5. CASE ReadCurrent
  <2>1. cur' = WithRes(cur, ReadResult) /\ Exists(cur) /\ UNCHANGED <<hq, parked>>
    BY <1>5 DEF ReadCurrent
  <2>2. cur'.uid = cur.uid /\ cur'.cb = cur.cb
    BY <1>0, <2>1, WithResSame
  <2>3. /\ hpc \in {"top", "reread"}
        /\ hpc' = "cur" \/ (hpc' = "top" /\ readOk')
    <3>1. Notify(WithRes(cur, ReadResult), NoItem) /\ readOk' = (ReadResult # Res("error"))
      BY <1>5 DEF ReadCurrent
    <3>2. ~IsComplete(WithRes(cur, ReadResult)) => ReadResult = NotYet
      BY <1>0, <2>1, WithResSame DEF IsComplete, Exists
    <3>3. ~Exists(NoItem) /\ NotYet # Res("error")
      BY NoItemType DEF NotYet, Res
    <3>. QED BY <1>5, <3>1, <3>2, <3>3 DEF Notify, ReadCurrent
  <2>4. InHq(id) \/ Held(id)
    BY <2>3 DEF Tracked
  <2>. QED BY <1>2, <2>1, <2>2, <2>3, <2>4 DEF Tracked
<1>6. CASE PopCancel \/ PopWrite \/ PopWriteRead
  <2>1. /\ hpc = "top" /\ hq # <<>> /\ hq' = Tail(hq) /\ cur' = Cancelled /\ parked' = parked
        /\ Head(hq).kind # "rx" /\ readOk /\ readOk' = readOk /\ Notify(cur', fresh')
    BY <1>6 DEF PopCancel, PopWrite, PopWriteRead, PopRun, AtTop
  <2>2. Head(hq).cb = "sync"
    BY <1>0, <2>1, CancelPop DEF WorkerInv
  <2>3. InHq(id) => InHq(id)'
    BY <1>0, <2>1, <2>2, PopTracks
  <2>4. cur'.uid = cur.uid /\ cur'.cb = cur.cb
    BY <1>0, <2>1, WithResSame DEF Cancelled
  <2>5. Held(id)' <=> Held(id)
    BY <2>1, <2>4 DEF Held
  <2>6. InHq(id) \/ Held(id)
    BY <2>1 DEF Tracked
  <2>7. hpc' \in {"top", "cur", "new"}
    BY <2>1, NotifyType
  <2>. QED BY <2>1, <2>3, <2>5, <2>6, <2>7 DEF Tracked
<1>7. CASE PopPark
  <2>1. /\ hpc = "top" /\ hpc' = hpc /\ hq # <<>> /\ hq' = Tail(hq) /\ cur' = cur
        /\ readOk /\ readOk' = readOk /\ parked' = Append(parked, Head(hq))
    BY <1>7 DEF PopPark, AtTop
  <2>2. InHq(id) => InHq(id)' \/ (Head(hq).uid = id /\ Head(hq).cb # "sync")
    BY <1>0, <2>1, PopTracks
  <2>3. /\ \A k \in DOMAIN parked : k \in DOMAIN parked' /\ parked'[k] = parked[k]
        /\ Len(parked) + 1 \in DOMAIN parked' /\ parked'[Len(parked) + 1] = Head(hq)
    BY <1>0, <2>1
  <2>4. Held(id) \/ (Head(hq).uid = id /\ Head(hq).cb # "sync") => Held(id)'
    BY <2>1, <2>3 DEF Held
  <2>5. InHq(id) \/ Held(id)
    BY <2>1 DEF Tracked
  <2>. QED BY <2>1, <2>2, <2>4, <2>5 DEF Tracked
<1>8. CASE PopWhileBroken
  <2>1. /\ hpc = "top" /\ ~readOk /\ hq # <<>> /\ hq' = Tail(hq) /\ hpc' = "new"
        /\ fresh' = WithRes(Head(hq), Res("error"))
    BY <1>8 DEF PopWhileBroken, AtTop
  <2>2. InHq(id)
    BY <2>1 DEF Tracked
  <2>3. fresh'.uid = Head(hq).uid /\ fresh'.cb = Head(hq).cb
    <3>1. Head(hq) \in Item
      BY <1>0, <2>1
    <3>. QED BY <2>1, <3>1, WithResSame
  <2>. QED BY <1>0, <2>1, <2>2, <2>3, PopTracks DEF Tracked
<1>9. CASE PopRead
  <2>1. /\ hpc = "top" /\ hq # <<>> /\ hq' = Tail(hq) /\ readOk /\ readOk' = readOk
        /\ ~(Exists(cur) /\ cur.kind = "rx")
        /\ \/ cur' = Head(hq) /\ hpc' = "reread"
           \/ fresh' = WithRes(Head(hq), ReadResult) /\ hpc' = "new"
    BY <1>9 DEF PopRead, PopRun, AtTop
  <2>2. ~Held(id)
    BY <1>0, <1>1, <2>1 DEF ReadyForParked
  <2>3. InHq(id)
    BY <2>1, <2>2 DEF Tracked
  <2>4. Head(hq) \in Item
    BY <1>0, <2>1
  <2>5. CASE cur' = Head(hq) /\ hpc' = "reread"
    BY <1>0, <2>1, <2>3, <2>5, PopTracks DEF Tracked, Held
  <2>6. CASE fresh' = WithRes(Head(hq), ReadResult) /\ hpc' = "new"
    <3>1. fresh'.uid = Head(hq).uid /\ fresh'.cb = Head(hq).cb
      BY <2>4, <2>6, WithResSame
    <3>. QED BY <1>0, <2>1, <2>3, <2>6, <3>1, PopTracks DEF Tracked
  <2>. QED BY <2>1, <2>5, <2>6
<1>10. CASE FinishCur
  <2>1. hpc = "cur_end" /\ hpc' \in {"top", "new"} /\ hq' = hq /\ readOk' = readOk
    BY <1>10 DEF FinishCur
  <2>2. InHq(id) \/ (readOk /\ Held(id) /\ id \in ret.more)
    BY <2>1 DEF Tracked
  <2>3. ASSUME Held(id), id \in ret.more
        PROVE  Held(id)'
    <3>1. CASE ReadAgain
      BY <1>0, <1>2, <1>10, <2>1, <2>3, <3>1, WithResSame DEF FinishCur, Reset
    <3>2. CASE ~ReadAgain
      <4>1. PICK k \in DOMAIN parked : parked[k].uid = id /\ parked[k].cb # "sync"
        BY <2>3, <3>2 DEF Held, ReadAgain
      <4>2. ret.more # {} /\ parked # <<>> /\ cur' = Head(parked) /\ parked' = Tail(parked)
        BY <1>0, <1>10, <2>3, <3>2, <4>1 DEF FinishCur
      <4>3. k = 1 \/ (k - 1 \in DOMAIN parked' /\ parked'[k - 1] = parked[k])
        BY <1>0, <4>2
      <4>. QED BY <1>0, <4>1, <4>2, <4>3 DEF Held
    <3>. QED BY <3>1, <3>2
  <2>. QED BY <2>1, <2>2, <2>3 DEF Tracked, InHq
<1>11. CASE FinishNew
  <2>1. hpc = "new_end" /\ hpc' = "top" /\ UNCHANGED <<hq, cur, parked, readOk>>
    BY <1>11 DEF FinishNew
  <2>. QED BY <1>2, <2>1 DEF Tracked
<1>. QED BY <1>3, <1>4, <1>5, <1>6, <1>7, <1>8, <1>9, <1>10, <1>11 DEF Serve

\* What is started is tracked, and what was stays so.
LEMMA StartTracks ==
    ASSUME TypeOK, NEW uid \in Uid, NEW kind \in Kind, NEW cb \in Callback, Start(uid, kind, cb),
           UNCHANGED <<workerVars, rxVars, plugged>>
    PROVE  /\ \A id : Tracked(id) => Tracked(id)'
           /\ cb # "sync" => Tracked(uid)'
<1> DEFINE i == NewItem(uid, kind, cb)
<1>1. hq' = Append(hq, i) /\ hq \in Seq(Item) /\ i \in Item /\ i.uid = uid /\ i.cb = cb
  BY NewItemType DEF Start, TypeOK, NewItem
<1>. HIDE DEF i
<1>2. /\ \A k \in DOMAIN hq : k \in DOMAIN hq' /\ hq'[k] = hq[k]
      /\ Len(hq) + 1 \in DOMAIN hq' /\ hq'[Len(hq) + 1] = i
  BY <1>1
<1>3. (\A id : InHq(id) => InHq(id)') /\ (cb # "sync" => InHq(uid)')
  BY <1>1, <1>2 DEF InHq
<1>4. \A id : Held(id)' <=> Held(id)
  BY DEF Held, workerVars
<1>. QED BY <1>3, <1>4 DEF Tracked, workerVars

\* Nothing is done with the items.
LEMMA HeldTracks ==
    ASSUME UNCHANGED hidVars
    PROVE  \A id : Tracked(id) => Tracked(id)'
  BY DEF Tracked, InHq, Held, hidVars, workerVars

\* What the controller's thread does with the reads that wait.
LEMMA ControllerWaiting ==
    ASSUME CtlTypeOK, OneRead, OneRead', Controller
    PROVE  \A s \in Unanswered' :
               \/ Stays(s)
               \/ \E id \in DOMAIN req :
                    /\ StartRead(id) /\ plugged /\ s = req[id].ses /\ Front(s)' = Waiting(id)
                    /\ Start(id, "rx", IF shared THEN "shared" ELSE "exclusive")
               \/ \E id \in DOMAIN req :
                    /\ FlagOthers(id) /\ WaitsOn(s)
                    /\ IF s = req[id].ses THEN Front(s)'.rec = Front(s).rec ELSE Front(s)'.rec
<1>1. CASE readq' = readq
  BY <1>1, SameWaiting
<1>2. CASE Collect \/ Continue
  BY <1>2, RemoveWaiting DEF Collect, Continue
<1>3. ASSUME NEW id \in DOMAIN req, StartRead(id) \/ FlagOthers(id)
      PROVE  \A s \in Unanswered' :
               \/ Stays(s)
               \/ /\ StartRead(id) /\ plugged /\ s = req[id].ses /\ Front(s)' = Waiting(id)
                  /\ Start(id, "rx", IF shared THEN "shared" ELSE "exclusive")
               \/ /\ FlagOthers(id) /\ WaitsOn(s)
                  /\ IF s = req[id].ses THEN Front(s)'.rec = Front(s).rec ELSE Front(s)'.rec
  BY <1>3, StartWaiting, FlagWaiting
<1>4. \/ readq' = readq \/ Collect \/ Continue
      \/ \E id \in DOMAIN req : StartRead(id) \/ FlagOthers(id)
  BY DEF Controller, TurnAway, Open, CloseIdle, CloseReading, StartSync, Refuse,
         StartFlaggedOrClose, Wake, Reading, queueVars
<1>. QED BY <1>1, <1>2, <1>3, <1>4

\* What the callbacks do with them.
LEMMA BeginWaiting ==
    ASSUME UseInv, FineInv, BeginCur \/ BeginNew
    PROVE  \E item \in {cur, fresh} :
             /\ (BeginCur /\ item = cur) \/ (BeginNew /\ item = fresh)
             /\ \A s \in Unanswered' :
                  IF item.cb = "sync" THEN Stays(s)
                  ELSE WaitsOn(s) /\ s \in Flagged /\ ~Front(s)'.rec
<1>1. CtlTypeOK /\ cur \in Item /\ fresh \in Item /\ cur.res.st # "bad" /\ fresh.res.st # "bad"
  BY DEF UseInv, WorkerInv, TypeOK, FineInv, Fine
<1>2. NotifyOldFirst
  BY DEF UseInv, WorkerInv
<1>3. CASE BeginCur
  BY <1>1, <1>2, <1>3, CallbackWaiting DEF BeginCur, RunCur, NotifyOldFirst, IsComplete
<1>4. CASE BeginNew
  BY <1>1, <1>2, <1>4, CallbackWaiting DEF BeginNew, RunNew, NotifyOldFirst, IsComplete
<1>. QED BY <1>3, <1>4

\* The other steps do nothing with them.
LEMMA OthersWaiting ==
    ASSUME \/ Driver /\ ~BeginCur /\ ~BeginNew
           \/ Device \/ UNCHANGED devVars \/ \E s \in Session, op \in Action : Post(s, op)
    PROVE  \A s \in Unanswered' : Stays(s)
<1>1. readq' = readq
  BY DEF Driver, Device, Post, EndCur, EndNew, StopWaiting, queueVars, devVars
<1>. QED BY <1>1, SameWaiting

\* A device that cannot be shared flags nothing.
NoFlags == SupportShare = FALSE => \A s \in Unanswered : ~Front(s).rec
LEMMA NextNoFlags ==
    ASSUME UseInv, UsageInv, UsageInv', NoFlags, [DevNext]_devVars
    PROVE  NoFlags'
<1> SUFFICES ASSUME SupportShare = FALSE, NEW s \in Unanswered' PROVE ~Front(s)'.rec
  BY DEF NoFlags
<1>1. Stays(s) => ~Front(s)'.rec
  BY DEF Stays, WaitsOn, NoFlags
<1>2. CASE Controller
  <2>1. \A id : ~FlagOthers(id)
    BY DEF FlagOthers, NeedsRecover, UsageInv, OpenedByOne
  <2>2. \A id : Front(s)' = Waiting(id) => ~Front(s)'.rec
    BY DEF Waiting
  <2>. QED BY <1>1, <1>2, <2>1, <2>2, ControllerWaiting DEF UseInv, UsageInv
<1>3. CASE BeginCur \/ BeginNew
  BY <1>1, <1>3, BeginWaiting DEF UsageInv
<1>. QED BY <1>1, <1>2, <1>3, OthersWaiting DEF DevNext

\* A read that waits is tracked on.
LEMMA TracksOn ==
    ASSUME CtlTypeOK, AllTracked, plugged, NEW s \in Unanswered', WaitsOn(s),
           \A id \in Uid : Tracked(id) => Tracked(id)'
    PROVE  Tracked(Front(s).id)'
<1>1. PICK id \in Uid : id = Front(s).id
  BY FrontOf DEF WaitsOn, Unanswered, Entry
<1>2. Tracked(id)'
  BY <1>1 DEF AllTracked, WaitsOn
<1>3. Front(s)'.id = id
  BY <1>1 DEF WaitsOn
<1>. QED BY <1>2, <1>3 DEF Tracked, InHq, Held

\* The race between the two threads over the recover flag: the callback of a
\* read that got a report or failed runs while a read is flagged, before the
\* write, transmit or cancel that it was flagged for has cancelled anything.
FlagUsed ==
    /\ \/ hpc = "cur" /\ cur.cb # "sync" /\ cur.res.st # "cancel"
       \/ hpc = "new" /\ fresh.cb # "sync"
    /\ \E s \in Unanswered : Front(s).rec


\* A transmit without data is a read to the driver.  When the worker waits for
\* it no other read waits, as nothing is started after what the controller's
\* thread blocks for.
LEMMA NoneBehindBare ==
    ASSUME UseInv, LineInv, SyncInv, ExecInv, AllTracked, plugged, hpc = "cur", cur.cb = "sync"
    PROVE  Unanswered = {}
<1>1. Exists(cur) /\ hq \in Seq(Item) /\ parked \in Seq(Item) /\ used \subseteq Nat
  BY DEF UseInv, WorkerInv, TypeOK, NotifyOldFirst, IsComplete, Uid
<1>2. cur.uid = areq /\ apc = "wait" /\ areq \in Nat
  BY <1>1 DEF SyncInv, Own, Blocks, UseInv, CtlTypeOK
<1>3. \A v \in used : v <= areq /\ v \in Nat
  BY <1>1, <1>2 DEF ExecInv
<1>4. ASSUME NEW k \in DOMAIN hq PROVE FALSE
  <2>1. areq < hq[k].uid /\ hq[k].uid \in used
    BY <1>1, <1>2 DEF LineInv, AllAfter, AllUnfinished
  <2>. QED BY <1>2, <1>3, <2>1
<1>5. ASSUME NEW k \in DOMAIN parked PROVE FALSE
  <2>1. areq < parked[k].uid /\ parked[k].uid \in used
    BY <1>1, <1>2 DEF LineInv, AllAfter, AllUnfinished
  <2>. QED BY <1>2, <1>3, <2>1
<1> SUFFICES ASSUME NEW s \in Unanswered PROVE FALSE
  OBVIOUS
<1>6. ~Tracked(Front(s).id)
  BY <1>4, <1>5 DEF Tracked, InHq, Held
<1>. QED BY <1>6 DEF AllTracked

\* The callbacks leave only reads that wait to be read again.
LEMMA CallbackTracks ==
    ASSUME UseInv, LineInv, SyncInv, ExecInv, UsageInv, CancelInv, NoFlags, AllTracked, ~FlagUsed,
           BeginCur \/ BeginNew
    PROVE  AllTracked'
<1>0. /\ CtlTypeOK /\ SupportShare \in BOOLEAN /\ plugged /\ readOk' = readOk /\ hq' = hq
      /\ parked' = parked /\ cur' = cur
  BY DevAssumption DEF UseInv, BeginCur, BeginNew, RunCur, RunNew
<1>1. PICK item \in {cur, fresh} :
         /\ (BeginCur /\ item = cur) \/ (BeginNew /\ item = fresh)
         /\ \A s \in Unanswered' :
              IF item.cb = "sync" THEN Stays(s)
              ELSE WaitsOn(s) /\ s \in Flagged /\ ~Front(s)'.rec
  BY BeginWaiting DEF UsageInv
<1> SUFFICES ASSUME NEW s \in Unanswered' PROVE Tracked(Front(s).id)'
  BY DEF AllTracked
<1>2. WaitsOn(s)
  BY <1>1 DEF Stays
<1>3. CASE BeginCur /\ item = cur
  <2>1. /\ hpc = "cur" /\ hpc' = "cur_end" /\ ret' = ReturnOf(cur)
    BY <1>3 DEF BeginCur, RunCur
  <2>2. cur.cb = Mode /\ cur.cb # "sync" /\ cur.res.st # "bad"
    <3>1. cur.cb # "sync"
      BY <1>0, <1>2, <2>1, NoneBehindBare DEF WaitsOn
    <3>. QED BY <3>1 DEF UsageInv, FineInv, Fine
  <2>3. s \in Unanswered /\ s \in Flagged /\ Front(s).rec
    BY <1>1, <1>2, <1>3, <2>2 DEF WaitsOn, Flagged
  <2>4. cur.res.st = "cancel" /\ readOk
    BY <2>1, <2>2, <2>3 DEF FlagUsed, CancelInv
  <2>5. cur.cb = "shared"
    BY <1>0, <2>2, <2>3 DEF NoFlags, Mode
  <2>6. Front(s).id \in ret'.more
    BY <2>1, <2>2, <2>3, <2>5 DEF ReturnOf, ReadReturn
  <2>7. ASSUME NEW id, id = Front(s).id
        PROVE  Tracked(id)'
    <3>1. InHq(id) \/ Held(id)
      BY <1>0, <2>1, <2>3, <2>7 DEF AllTracked, Tracked
    <3>2. (InHq(id)' <=> InHq(id)) /\ (Held(id)' <=> Held(id))
      BY <1>0 DEF InHq, Held
    <3>. QED BY <1>0, <2>1, <2>4, <2>6, <2>7, <3>1, <3>2 DEF Tracked
  <2>8. PICK id : id = Front(s).id
    OBVIOUS
  <2>9. Tracked(id)' /\ Front(s)'.id = id
    BY <1>2, <2>7, <2>8 DEF WaitsOn
  <2>. QED BY <2>9 DEF Tracked, InHq, Held
<1>4. CASE BeginNew /\ item = fresh
  <2>1. hpc = "new" /\ hpc' = "new_end" /\ fresh' = fresh
    BY <1>4 DEF BeginNew, RunNew
  <2>2. fresh.cb = "sync"
    BY <1>1, <1>4, <2>1 DEF FlagUsed, WaitsOn, Flagged
  <2>3. ASSUME NEW id \in Uid, Tracked(id)
        PROVE  Tracked(id)'
    BY <1>0, <2>1, <2>2, <2>3 DEF Tracked, InHq, Held
  <2>. QED BY <1>0, <1>2, <2>3, TracksOn
<1>. QED BY <1>1, <1>3, <1>4

\* All steps.
LEMMA NextTracked ==
    ASSUME UseInv, LineInv, SyncInv, ExecInv, UsageInv, UsageInv', CancelInv, NoFlags, AllTracked,
           ~FlagUsed, [DevNext]_devVars
    PROVE  AllTracked'
<1> USE DEF AllTracked
<1>0. CtlTypeOK /\ WorkerInv /\ TypeOK
  BY DEF UseInv, WorkerInv
<1>1. 0 \notin Uid
  BY UidType
<1>2. CASE Driver /\ ~BeginCur /\ ~BeginNew
  <2>1. plugged /\ Serve
    BY <1>2 DEF Driver, DriverOnly, EndCur, EndNew, Serve, Pump, ReadCurrent, PopWhileBroken,
                PopPark, PopCancel, PopWrite, PopWriteRead, PopRead, PopRun, AtTop, FinishCur,
                FinishNew
  <2>2. \A id \in Uid : Tracked(id) => Tracked(id)'
    BY <1>0, <1>1, <2>1, WorkerTracks
  <2>. QED BY <1>0, <1>2, <2>1, <2>2, TracksOn, OthersWaiting DEF Stays
<1>3. CASE Device
  <2>1. CASE ~plugged'
    BY <2>1
  <2>2. CASE plugged'
    <3>1. plugged /\ \E kind \in RxKind : Receive(kind)
      BY <1>3, <2>2 DEF Device, Unplug, Receive
    <3>2. \A id \in Uid : Tracked(id) => Tracked(id)'
      BY <1>0, <1>1, <3>1, WorkerTracks
    <3>. QED BY <1>0, <1>3, <3>1, <3>2, TracksOn, OthersWaiting DEF Stays
  <2>. QED BY <2>1, <2>2
<1>4. CASE UNCHANGED devVars \/ \E s \in Session, op \in Action : Post(s, op)
  <2>1. UNCHANGED hidVars /\ plugged' = plugged
    BY <1>4 DEF Post, devVars, hidVars
  <2>. QED BY <1>0, <1>4, <2>1, HeldTracks, TracksOn, OthersWaiting DEF Stays
<1>5. CASE Controller
  <2>1. plugged' = plugged /\ \A id \in Uid : Tracked(id) => Tracked(id)'
    <3>1. CASE UNCHANGED hidVars
      BY <3>1, HeldTracks DEF hidVars
    <3>2. ASSUME NEW id \in DOMAIN req, Starts(id)
          PROVE  plugged' = plugged /\ \A x \in Uid : Tracked(x) => Tracked(x)'
      <4>1. PICK kind \in Kind, cb \in Callback : Start(id, kind, cb)
        BY <3>2 DEF Starts, KindOf, Kind, Callback
      <4>. QED BY <1>0, <3>2, <4>1, StartTracks DEF Starts
    <3>. QED BY <1>5, <3>1, <3>2, ControllerStarts
  <2> SUFFICES ASSUME plugged, NEW s \in Unanswered' PROVE Tracked(Front(s).id)'
    BY <2>1
  <2>2. CASE WaitsOn(s)
    BY <1>0, <2>1, <2>2, TracksOn
  <2>3. ASSUME NEW id \in DOMAIN req,
               /\ StartRead(id) /\ plugged /\ s = req[id].ses /\ Front(s)' = Waiting(id)
               /\ Start(id, "rx", IF shared THEN "shared" ELSE "exclusive")
        PROVE  Tracked(Front(s).id)'
    <3>1. id \in Uid /\ UNCHANGED <<workerVars, rxVars, plugged>>
      BY <1>0, <2>3, PopOrder DEF StartRead, UseInv
    <3>2. PICK cb \in Callback \ {"sync"} : Start(id, "rx", cb)
      BY <2>3 DEF Callback
    <3>3. Tracked(id)'
      BY <1>0, <3>1, <3>2, StartTracks DEF Kind
    <3>4. Front(s)'.id = id
      BY <2>3 DEF Waiting
    <3>. QED BY <3>3, <3>4 DEF Tracked, InHq, Held
  <2>. QED BY <1>0, <1>5, <2>2, <2>3, ControllerWaiting DEF UsageInv, Stays
<1>6. CASE BeginCur \/ BeginNew
  BY <1>6, CallbackTracks
<1>. QED BY <1>2, <1>3, <1>4, <1>5, <1>6 DEF DevNext

\* A read that is tracked has its item.
LEMMA TrackedServed ==
    ASSUME UseInv, AllTracked, plugged, NEW s \in Unanswered
    PROVE  \E i \in DOMAIN Line : Line[i].cb # "sync"
<1>0. /\ TypeOK /\ CtlTypeOK /\ cur \in Item /\ fresh \in Item /\ hq \in Seq(Item)
      /\ parked \in Seq(Item) /\ ReadyForParked
  BY DEF UseInv, WorkerInv, TypeOK
<1>1. PICK id \in Uid : id = Front(s).id
  BY <1>0, FrontOf DEF Unanswered, Entry
<1>2. Tracked(id) /\ id # 0
  BY <1>1, UidType DEF AllTracked
<1>3. \E i : /\ i.cb # "sync"
             /\ \/ Exists(cur) /\ i = cur
                \/ \E m \in DOMAIN parked : i = parked[m]
                \/ Exists(fresh) /\ i = fresh
                \/ \E m \in DOMAIN hq : i = hq[m]
  <2>1. CASE InHq(id)
    BY <2>1 DEF InHq
  <2>2. CASE fresh.uid = id /\ fresh.cb # "sync"
    BY <1>2, <2>2 DEF Exists
  <2>3. CASE Held(id)
    BY <1>2, <2>3 DEF Held, Exists
  <2>. QED BY <1>2, <2>1, <2>2, <2>3 DEF Tracked
<1>4. /\ Exists(fresh) => \E k \in DOMAIN Line : Line[k] = fresh
      /\ \A m \in DOMAIN hq : \E k \in DOMAIN Line : Line[k] = hq[m]
      /\ Exists(cur) => \E k \in DOMAIN Line : Line[k] = cur
      /\ \A m \in DOMAIN parked : \E k \in DOMAIN Line : Line[k] = parked[m]
  BY <1>0, InLine
<1>5. PICK i : /\ i.cb # "sync"
               /\ \/ Exists(cur) /\ i = cur
                  \/ \E m \in DOMAIN parked : i = parked[m]
                  \/ Exists(fresh) /\ i = fresh
                  \/ \E m \in DOMAIN hq : i = hq[m]
  BY <1>3
<1>6. PICK k \in DOMAIN Line : Line[k] = i
  BY <1>4, <1>5
<1>. QED BY <1>5, <1>6

\* What the driver's thread and the controller's thread agree on, for a device
\* that is used as Usage says.
Base ==
    /\ UseInv /\ AnswerInv /\ LineInv /\ SyncInv /\ NoReportOfOwn /\ TurnInv
    /\ ExecInv /\ CancelInv /\ UsageInv /\ NoFlags
LEMMA BaseInvariant ==
    ASSUME Usage
    PROVE  DevSpec => []Base
<1>1. DevInit => NoFlags
  BY DEF DevInit, NoFlags, Unanswered, Listed
<1>2. DevSpec => []UsageInv
  BY UsageInvariant
<1>3. UseInv /\ UsageInv /\ UsageInv' /\ NoFlags /\ [DevNext]_devVars => NoFlags'
  BY NextNoFlags
<1>. QED BY <1>1, <1>2, <1>3, UseInvariant, AnswerInvariant, LineKept, SyncInvariant,
            TurnInvariant, ExecInvariant, CancelInvariant, PTL DEF DevSpec, Base

\* The reads that wait are tracked, where no flag is used too early.
LEMMA TrackedInvariant ==
    ASSUME Usage
    PROVE  DevSpec /\ []~FlagUsed => []AllTracked
<1>1. DevInit => AllTracked
  BY DEF DevInit, AllTracked, Unanswered, Listed
<1>2. Base /\ Base' /\ AllTracked /\ ~FlagUsed /\ [DevNext]_devVars => AllTracked'
  BY NextTracked DEF Base
<1>3. DevSpec => []Base
  BY BaseInvariant
<1>. QED BY <1>1, <1>2, <1>3, PTL DEF DevSpec

\* A read that waits has an item on its way through the driver, as long as the
\* device is there: none is forgotten when a report, an error or a cancel takes
\* away the item it was started with, although the callback of one item answers
\* the reads of all sessions and the items parked behind it are dropped or
\* taken up by what that callback returns (_cb_dev_read_on_shared of
\* mp_cdev_ctl_fn_.cpp and the worker loop of mp_clibhid_dev.cpp).  In shared
\* mode this needs that the flag of a read is used by the cancel it was set
\* for.
THEOREM WaitingReadServed ==
    ASSUME Usage
    PROVE  DevSpec /\ []~FlagUsed => []ReadBeingServed
<1>1. Base /\ AllTracked => ReadBeingServed
  <2> SUFFICES ASSUME Base, AllTracked, plugged, NEW s \in Listed, ~Ready(Front(s))
               PROVE  \E i \in DOMAIN Line : Line[i].cb # "sync"
    BY DEF ReadBeingServed
  <2>1. s \in Unanswered
    BY DEF Unanswered
  <2>. QED BY <2>1, TrackedServed DEF Base, UsageInv
<1>2. DevSpec => []Base
  BY BaseInvariant
<1>3. DevSpec /\ []~FlagUsed => []AllTracked
  BY TrackedInvariant
<1>. QED BY <1>1, <1>2, <1>3, PTL

\* A device that does not support sharing flags no read, so there it always
\* holds.
THEOREM WaitingReadServedAlone ==
    ASSUME SupportShare = FALSE, WellFormed, OneAtATime
    PROVE  DevSpec => []ReadBeingServed
<1>1. Usage
  BY DEF Usage, OneMode
<1>2. DevSpec => []Base
  BY <1>1, BaseInvariant
<1>3. Base => ~FlagUsed
  BY DEF Base, NoFlags, FlagUsed
<1>4. DevSpec /\ []~FlagUsed => []ReadBeingServed
  BY <1>1, WaitingReadServed
<1>. QED BY <1>2, <1>3, <1>4, PTL

-----------------------------------------------------------------------------
(* What is answered when the controller's thread wakes.                     *)

\* The request that the controller blocks for has cancelled what there was to
\* cancel, and its own callback is next or has run.
FreshSync == Exists(fresh) /\ fresh.cb = "sync"
Cleared == Ready(Head(syncq)) \/ (hpc \in {"cur_end", "new"} /\ FreshSync)

\* The other threads leave the controller's thread alone.
LEMMA OthersLeave ==
    ASSUME UseInv, AnswerInv,
           Driver \/ Device \/ UNCHANGED devVars \/ \E s \in Session, op \in Action : Post(s, op)
    PROVE  apc' = apc /\ areq' = areq /\ (apc # "idle" => Ses' = Ses)
<1>1. apc' = apc /\ areq' = areq
  BY DEF Driver, Device, BeginCur, BeginNew, EndCur, EndNew, StopWaiting, Post, ctlVars, devVars
<1>2. ReqStays
  BY StepStays DEF DevNext, UseInv
<1>3. apc # "idle" => areq \in DOMAIN req
  BY DEF AnswerInv, Executing
<1>. QED BY <1>1, <1>2, <1>3 DEF Ses, ReqStays

\* While the controller's thread blocks only the others take steps.
LEMMA WaitStep ==
    ASSUME [DevNext]_devVars, apc = "wait", apc' = "wait"
    PROVE  Driver \/ Device \/ UNCHANGED devVars \/ \E s \in Session, op \in Action : Post(s, op)
<1>1. ~Controller
  BY DEF Controller, TurnAway, Open, CloseIdle, CloseReading, StartSync, FlagOthers, StartRead,
         Refuse, Dispatch, Pop, StartFlaggedOrClose, Wake, Reading, Collect, Continue
<1>. QED BY <1>1 DEF DevNext

\* A request that has just been started has cancelled nothing.
LEMMA StartNotCleared ==
    ASSUME SyncInv, NEW id, StartAndWait(id), syncq = <<>>, apc # "wait", apc' = "wait",
           UNCHANGED workerVars
    PROVE  ~Cleared'
<1>1. syncq' = <<Waiting(id)>>
  BY DEF StartAndWait
<1>2. ~Ready(Head(syncq'))
  BY <1>1 DEF Waiting, Ready
<1>3. hpc \in {"cur_end", "new"} => ~FreshSync
  BY DEF SyncInv, Own, Blocks, FreshSync
<1>. QED BY <1>2, <1>3 DEF Cleared, FreshSync, Exists, workerVars, Ready

\* What a callback does with the request that the controller blocks for.
LEMMA CallbackSync ==
    ASSUME Base, apc = "wait", BeginCur \/ BeginNew
    PROVE  \/ syncq' = syncq /\ (BeginCur \/ ~FreshSync)
           \/ (BeginCur \/ FreshSync) /\ Ready(Head(syncq'))
<1>1. PICK item \in {cur, fresh} : /\ (BeginCur /\ item = cur) \/ (BeginNew /\ item = fresh)
                                  /\ CallbackOf(item) /\ Exists(item) /\ item.res # NotYet
  BY DEF BeginCur, BeginNew, RunCur, RunNew, Base, UseInv, WorkerInv, NotifyOldFirst, IsComplete
<1>2. CASE item.cb # "sync"
  BY <1>1, <1>2 DEF CallbackOf, ReadCallback, FreshSync
<1>3. CASE item.cb = "sync"
  <2>1. syncq \in Seq(Entry) /\ syncq # <<>>
    BY DEF Base, UseInv, CtlTypeOK, AnswerInv, WaitsForOwn
  <2>2. syncq' = [syncq EXCEPT ![1].rsp = item.res]
    BY <1>1, <1>3, <2>1 DEF CallbackOf, SyncCallback
  <2>3. Head(syncq').rsp = item.res
    <3>1. syncq[1] \in Entry /\ 1 \in DOMAIN syncq
      BY <2>1
    <3>2. DOMAIN syncq' = DOMAIN syncq /\ syncq'[1] = [syncq[1] EXCEPT !.rsp = item.res]
      BY <2>1, <2>2, <3>1
    <3>3. Head(syncq') = syncq'[1]
      BY <2>1, <2>2
    <3>4. syncq'[1].rsp = item.res
      BY <3>1, <3>2 DEF Entry
    <3>. QED BY <3>3, <3>4
  <2>. QED BY <1>1, <1>3, <2>3 DEF FreshSync, Ready
<1>. QED BY <1>2, <1>3

\* Nothing waits behind the request that the controller blocks for.
LEMMA LastStarted ==
    ASSUME Base', hpc' # "new_end", FreshSync'
    PROVE  hq' = <<>>
<1>1. hq' \in Seq(Item) /\ used' \subseteq Nat /\ apc' = "wait" /\ fresh'.uid = areq'
  BY DEF Base, UseInv, WorkerInv, TypeOK, Uid, SyncInv, Own, Blocks, FreshSync
<1>2. \A k \in DOMAIN hq' : hq'[k].uid \in used' /\ areq' < hq'[k].uid
  BY <1>1 DEF Base, LineInv, FreshSync, Exists, AllAfter, AllUnfinished
<1>3. \A k \in DOMAIN hq' : hq'[k].uid <= areq' /\ hq'[k].uid \in Nat
  BY <1>1, <1>2 DEF Base, ExecInv
<1>4. areq' \in Nat
  BY DEF Base, UseInv, CtlTypeOK
<1>5. \A k \in DOMAIN hq' : FALSE
  <2> SUFFICES ASSUME NEW k \in DOMAIN hq' PROVE FALSE
    OBVIOUS
  <2>. QED BY <1>2, <1>3, <1>4
<1>6. 1 \notin DOMAIN hq'
  BY <1>5
<1>. QED BY <1>1, <1>6

\* While the controller's thread blocks, a request that has cancelled stays so.
LEMMA StaysCleared ==
    ASSUME Base, [DevNext]_devVars, apc = "wait", apc' = "wait", Cleared
    PROVE  Cleared'
<1>1. CASE BeginCur
  <2>1. syncq' = syncq \/ Ready(Head(syncq'))
    BY <1>1, CallbackSync
  <2>. QED BY <1>1, <2>1 DEF Cleared, BeginCur, RunCur, Ready
<1>2. CASE BeginNew
  <2>1. (syncq' = syncq /\ ~FreshSync) \/ Ready(Head(syncq'))
    BY <1>2, CallbackSync DEF BeginCur, BeginNew, RunCur, RunNew
  <2>. QED BY <1>2, <2>1 DEF Cleared, Ready
<1>3. CASE EndCur
  <2>1. syncq' = syncq /\ fresh' = fresh /\ hpc = "cur_end"
    BY <1>3 DEF EndCur, FinishCur, StopWaiting, queueVars
  <2>2. FreshSync => hpc' = "new"
    BY <1>3, <2>1 DEF EndCur, FinishCur, FreshSync, Base, UseInv, WorkerInv, NotifyOldFirst
  <2>. QED BY <2>1, <2>2 DEF Cleared, FreshSync, Exists, Ready
<1>4. ASSUME (Driver /\ ~BeginCur /\ ~BeginNew /\ ~EndCur) \/ Device \/ UNCHANGED devVars
                \/ \E s \in Session, op \in Action : Post(s, op)
      PROVE  Cleared'
  <2>1. syncq' = syncq
    BY <1>4 DEF Driver, Device, Post, EndNew, StopWaiting, queueVars, devVars
  <2>2. hpc \in {"cur_end", "new"} => hpc' = hpc /\ fresh' = fresh
    BY <1>4 DEF Driver, Device, Post, EndNew, devVars, hidVars, workerVars, DriverOnly, Pump,
                ReadCurrent, PopWhileBroken, PopPark, PopCancel, PopWrite, PopWriteRead, PopRead,
                PopRun, AtTop, FinishNew, Unplug, Receive
  <2>. QED BY <2>1, <2>2 DEF Cleared, FreshSync, Exists, Ready
<1>. QED BY <1>1, <1>2, <1>3, <1>4, WaitStep

\* It has cancelled once the callback of the read it cancelled has run, or when
\* there was none.
LEMMA BecomesCleared ==
    ASSUME Base, Base', AllTracked', [DevNext]_devVars, apc = "wait", apc' = "wait",
           ~Cleared, Cleared'
    PROVE  BeginCur \/ Unanswered' = {}
<1> SUFFICES ASSUME ~BeginCur PROVE Unanswered' = {}
  OBVIOUS
<1>0. /\ ~Exists(NoItem) /\ TypeOK /\ WorkerInv /\ hq \in Seq(Item) /\ cur \in Item
      /\ WorkerInv'
  BY NoItemType DEF Base, UseInv, WorkerInv, TypeOK
<1>1. ~BeginNew
  <2> SUFFICES ASSUME BeginNew PROVE FALSE
    OBVIOUS
  <2>1. hpc = "new" /\ hpc' = "new_end"
    BY DEF BeginNew, RunNew
  <2>2. syncq' = syncq
    BY <2>1, CallbackSync DEF Cleared
  <2>. QED BY <2>1, <2>2 DEF Cleared, Ready
<1>2. syncq' = syncq
  BY <1>1, WaitStep DEF Driver, Device, Post, EndCur, EndNew, StopWaiting, queueVars, devVars
<1>3. hpc' \in {"cur_end", "new"} /\ FreshSync' /\ hq' = <<>>
  <2>1. hpc' \in {"cur_end", "new"} /\ FreshSync'
    BY <1>2 DEF Cleared, Ready
  <2>. QED BY <2>1, LastStarted
<1>4. ~(hpc' = hpc /\ fresh' = fresh)
  BY <1>2, <1>3 DEF Cleared, FreshSync, Exists, Ready
<1>5. ~EndCur /\ ~EndNew
  BY <1>2, <1>3 DEF EndCur, EndNew, FinishCur, FinishNew, Cleared, FreshSync, Exists, Ready
<1>6. PopWhileBroken \/ PopCancel \/ PopWrite \/ PopWriteRead \/ PopRead
  <2>1. ~Pump /\ ~PopPark /\ ~UNCHANGED devVars /\ ~Device
        /\ ~\E s \in Session, op \in Action : Post(s, op)
    <3>1. ~Pump /\ ~PopPark /\ ~UNCHANGED devVars
          /\ ~\E s \in Session, op \in Action : Post(s, op)
      BY <1>4 DEF Pump, PopPark, Post, devVars, hidVars, workerVars
    <3>2. ~Unplug
      BY <1>3 DEF Unplug, AtTop
    <3>3. ~\E kind \in RxKind : Receive(kind)
      BY <1>4 DEF Receive, workerVars
    <3>. QED BY <3>1, <3>2, <3>3 DEF Device
  <2>2. ~ReadCurrent
    BY <1>0, <1>3 DEF ReadCurrent, Notify
  <2>. QED BY <1>1, <1>5, <2>1, <2>2, WaitStep DEF Driver, DriverOnly
<1>7. hpc' = "new" /\ plugged'
  BY <1>3, <1>6, NotifyType
  DEF PopWhileBroken, PopCancel, PopWrite, PopWriteRead, PopRead, PopRun, AtTop, Notify
<1>8. ~readOk' \/ (~Exists(cur)' /\ parked' = <<>>)
  <2>1. CASE PopWhileBroken
    BY <2>1 DEF PopWhileBroken
  <2>2. CASE PopCancel \/ PopWrite \/ PopWriteRead
    <3>1. cur' = Cancelled /\ ~IsComplete(cur')
      BY <1>7, <2>2 DEF PopCancel, PopWrite, PopWriteRead, Notify
    <3>2. ~Exists(cur)
      <4> SUFFICES ASSUME Exists(cur) PROVE FALSE
        OBVIOUS
      <4>1. cur'.res = Res("cancel") /\ cur'.uid = cur.uid
        BY <1>0, <3>1, WithResSame DEF Cancelled
      <4>. QED BY <3>1, <4>1 DEF IsComplete, Exists, Res, NotYet
    <3>3. ~Exists(cur')
      BY <3>1, <3>2 DEF Cancelled
    <3>. QED BY <1>0, <3>3 DEF WorkerInv, ReadyForParked, Exists
  <2>3. CASE PopRead
    <3>1. cur' = cur /\ ~(Exists(cur) /\ cur.kind = "rx")
      BY <1>7, <2>3 DEF PopRead, PopRun
    <3>. QED BY <1>0, <3>1 DEF WorkerInv, ReadyForParked, Exists
  <2>. QED BY <1>6, <2>1, <2>2, <2>3
<1> SUFFICES ASSUME NEW s \in Unanswered' PROVE FALSE
  OBVIOUS
<1>9. s \in Listed' /\ CtlTypeOK'
  BY DEF Unanswered, Base, UseInv
<1>10. PICK id \in Uid : id = Front(s)'.id
  <2>1. s \in Session /\ readq'[s] # <<>> /\ readq'[s] \in Seq(Entry)
    BY <1>9 DEF Listed, CtlTypeOK
  <2>2. Head(readq'[s]) \in Entry
    BY <2>1
  <2>. QED BY <2>2 DEF Front, Entry
<1>11. Tracked(id)'
  <2>1. Tracked(Front(s).id)'
    BY <1>7 DEF AllTracked
  <2>. QED BY <1>10, <2>1 DEF Tracked, InHq, Held
<1>12. ~InHq(id)' /\ (readOk' => ~Held(id)') /\ fresh'.cb = "sync"
  BY <1>3, <1>8, UidType DEF InHq, Held, Exists, FreshSync
<1>. QED BY <1>7, <1>11, <1>12 DEF Tracked

-----------------------------------------------------------------------------
(* The flags.                                                               *)

\* When the request that the controller blocks for has cancelled, no read of
\* its session waits and no other that waits is flagged.
Clear ==
    apc = "wait" /\ Cleared => Ses \notin Unanswered /\ \A s \in Unanswered : ~Front(s).rec

\* A read that waits is flagged only for a request of another session that has
\* not yet cancelled.
FlagInv ==
    plugged => \A s \in Unanswered :
        Front(s).rec => s # Ses /\ (apc = "flagged" \/ (apc = "wait" /\ ~Cleared))

\* A device that is gone does not come back to its controller.
LEMMA NotReplugged ==
    ASSUME [DevNext]_devVars, plugged'
    PROVE  plugged
  BY DEF DevNext, Controller, TurnAway, Open, CloseIdle, CloseReading, StartSync, FlagOthers,
         StartRead, Refuse, StartFlaggedOrClose, Wake, Reading, Collect, Continue, Driver,
         DriverOnly, Device, BeginCur, BeginNew, EndCur, EndNew, Post, devVars, hidVars, Pump,
         ReadCurrent, PopWhileBroken, PopPark, PopCancel, PopWrite, PopWriteRead, PopRead, PopRun,
         AtTop, RunCur, RunNew, FinishCur, FinishNew, Unplug, Receive

\* What the callback of a read leaves: the flagged reads, without their flags.
LEMMA CurLeaves ==
    ASSUME Base, AllTracked, BeginCur
    PROVE  /\ plugged
           /\ \A s \in Unanswered' : WaitsOn(s) /\ Front(s).rec /\ ~Front(s)'.rec
<1>1. plugged /\ hpc = "cur" /\ ~BeginNew
  BY DEF BeginCur, RunCur, BeginNew, RunNew
<1>2. \A s \in Unanswered' :
         IF cur.cb = "sync" THEN Stays(s) ELSE WaitsOn(s) /\ s \in Flagged /\ ~Front(s)'.rec
  BY <1>1, BeginWaiting DEF Base, UsageInv
<1>3. CASE cur.cb = "sync"
  <2>1. Unanswered = {}
    BY <1>1, <1>3, NoneBehindBare DEF Base
  <2>. QED BY <1>1, <1>2, <1>3, <2>1 DEF Stays, WaitsOn
<1>. QED BY <1>1, <1>2, <1>3 DEF Flagged

\* While the controller's thread blocks, reads that wait go on waiting or lose
\* their flags.
LEMMA WaitLeaves ==
    ASSUME Base, [DevNext]_devVars, apc = "wait", apc' = "wait"
    PROVE  /\ areq' = areq /\ Ses' = Ses
           /\ \A s \in Unanswered' : WaitsOn(s) /\ (Front(s)'.rec => Stays(s))
<1>1. areq' = areq /\ Ses' = Ses
  BY WaitStep, OthersLeave DEF Base
<1>2. CASE BeginCur \/ BeginNew
  BY <1>1, <1>2, BeginWaiting DEF Base, UsageInv, Stays
<1>3. CASE ~BeginCur /\ ~BeginNew
  BY <1>1, <1>3, WaitStep, OthersWaiting DEF Stays
<1>. QED BY <1>1, <1>2, <1>3

\* All steps.
LEMMA NextClear ==
    ASSUME Base, Base', AllTracked, AllTracked', Clear, FlagInv, [DevNext]_devVars
    PROVE  Clear'
<1> SUFFICES ASSUME apc' = "wait", Cleared'
             PROVE  Ses' \notin Unanswered' /\ \A s \in Unanswered' : ~Front(s)'.rec
  BY DEF Clear
<1>1. CASE apc # "wait"
  <2>1. CtlTypeOK /\ StartOrder /\ syncq = <<>>
    <3>1. apc \in {"idle", "flagged", "close"}
      BY <1>1 DEF DevNext, Controller, TurnAway, Open, CloseIdle, CloseReading, StartSync,
             FlagOthers, StartRead, Refuse, Dispatch, Pop, StartFlaggedOrClose, Wake, Reading,
             Collect, Continue, Driver, Device, BeginCur, BeginNew, EndCur, EndNew, StopWaiting,
             Post, ctlVars, devVars
    <3>. QED BY <3>1 DEF Base, UseInv, AnswerInv, WaitsForOwn
  <2>2. \E id : StartAndWait(id) /\ UNCHANGED workerVars
    <3>1. StartFlaggedOrClose \/ \E id \in DOMAIN req : StartSync(id)
      BY <1>1 DEF DevNext, Controller, TurnAway, Open, CloseIdle, CloseReading, StartSync,
             FlagOthers, StartRead, Refuse, Dispatch, Pop, StartFlaggedOrClose, Wake, Reading,
             Collect, Continue, Driver, Device, BeginCur, BeginNew, EndCur, EndNew, StopWaiting,
             Post, ctlVars, devVars
    <3>. QED BY <3>1 DEF StartFlaggedOrClose, StartSync
  <2>. QED BY <1>1, <2>1, <2>2, StartNotCleared DEF Base
<1>2. CASE apc = "wait" /\ Cleared
  BY <1>2, WaitLeaves DEF Clear, WaitsOn, Stays
<1>3. CASE apc = "wait" /\ ~Cleared
  <2>1. CASE Unanswered' = {}
    BY <2>1
  <2>2. CASE BeginCur
    BY <1>3, <2>2, CurLeaves, WaitLeaves DEF FlagInv, WaitsOn
  <2>. QED BY <1>3, <2>1, <2>2, BecomesCleared
<1>. QED BY <1>1, <1>2, <1>3

\* All steps: a flag that is not used is lost when the request it was set for
\* has cancelled.
LEMMA NextFlag ==
    ASSUME Base, Base', Clear', FlagInv, [DevNext]_devVars
    PROVE  FlagInv'
<1> SUFFICES ASSUME plugged', NEW s \in Unanswered', Front(s)'.rec
             PROVE  s # Ses' /\ (apc' = "flagged" \/ (apc' = "wait" /\ ~Cleared'))
  BY DEF FlagInv
<1>1. apc' = "wait" => ~Cleared'
  BY DEF Clear
<1>2. plugged
  BY NotReplugged
<1>3. Stays(s) => s # Ses /\ (apc = "flagged" \/ (apc = "wait" /\ ~Cleared))
  BY <1>2 DEF Stays, WaitsOn, FlagInv
<1>4. CASE Driver \/ Device \/ UNCHANGED devVars \/ \E t \in Session, op \in Action : Post(t, op)
  <2>1. apc' = apc /\ areq' = areq /\ (apc # "idle" => Ses' = Ses)
    BY <1>4, OthersLeave DEF Base
  <2>2. Stays(s)
    BY <1>4, OthersWaiting, BeginWaiting DEF Base, UsageInv
  <2>. QED BY <1>1, <1>3, <2>1, <2>2
<1>5. CASE Controller
  <2>1. CASE Stays(s)
    <3>1. ~Wake
      BY <1>3, <2>1 DEF Wake, Cleared
    <3>2. StartFlaggedOrClose /\ apc = "flagged"
      BY <1>3, <1>5, <2>1, <3>1
      DEF Controller, TurnAway, Open, CloseIdle, CloseReading, StartSync, FlagOthers, StartRead,
          Refuse, Dispatch, Pop, StartFlaggedOrClose, Reading, Collect, Continue
    <3>3. apc' = "wait" /\ Ses' = Ses
      BY <1>2, <3>2 DEF StartFlaggedOrClose, StartAndWait, Ses, clientVars
    <3>. QED BY <1>1, <1>3, <2>1, <3>3
  <2>2. ASSUME NEW id \in DOMAIN req, FlagOthers(id), WaitsOn(s),
               IF s = req[id].ses THEN Front(s)'.rec = Front(s).rec ELSE Front(s)'.rec
        PROVE  s # Ses' /\ apc' = "flagged"
    <3>1. apc = "idle" /\ apc' = "flagged" /\ Ses' = req[id].ses
      BY <2>2 DEF FlagOthers, Dispatch, Pop, Ses
    <3>2. s # req[id].ses
      BY <1>3, <2>2, <3>1 DEF Stays
    <3>. QED BY <3>1, <3>2
  <2>3. ASSUME NEW id, Front(s)' = Waiting(id)
        PROVE  FALSE
    BY <2>3 DEF Waiting
  <2>. QED BY <1>5, <2>1, <2>2, <2>3, ControllerWaiting DEF Base, UseInv, UsageInv
<1>. QED BY <1>4, <1>5 DEF DevNext

\* The flags are kept, as long as none is used too early.
LEMMA FlagInvariant ==
    ASSUME Usage
    PROVE  DevSpec /\ []~FlagUsed => [](Clear /\ FlagInv)
<1>1. DevInit => Clear /\ FlagInv
  BY DEF DevInit, Clear, FlagInv, Unanswered, Listed
<1>2. Base /\ Base' /\ AllTracked /\ AllTracked' /\ Clear /\ FlagInv /\ [DevNext]_devVars
        => (Clear /\ FlagInv)'
  BY NextClear, NextFlag
<1>3. DevSpec => []Base
  BY BaseInvariant
<1>4. DevSpec /\ []~FlagUsed => []AllTracked
  BY TrackedInvariant
<1>. QED BY <1>1, <1>2, <1>3, <1>4, PTL DEF DevSpec

-----------------------------------------------------------------------------
(* The sessions that are known to be reading.                               *)

\* The sessions that a callback has answered, and whose states it is still to
\* set, have no read that waits.
AnsweredApart == bsel \cap Unanswered = {}

\* The race between the two threads over the state of a session: a new read of
\* the session is started before the callback that answered its last one has
\* set the state.
LateEnd == apc = "astate" /\ Ses \in bsel

\* A session in the state of reading leaves it when it is answered, or when its
\* request that needs the device is executed.
LEMMA StaysAsy ==
    ASSUME Base, Clear, AnsweredApart, [DevNext]_devVars, NEW s \in Unanswered, st[s] = "asy",
           ~(apc = "astate" /\ Ses = s)
    PROVE  st'[s] = "asy"
<1>0. CtlTypeOK /\ s \in Session
  BY DEF Base, UseInv, Unanswered, Listed
<1>1. CASE UNCHANGED st
  BY <1>1
<1>2. ASSUME NEW id \in DOMAIN req, Open(id) \/ CloseIdle(id)
      PROVE  st'[s] = "asy"
  <2>1. s # req[id].ses
    BY <1>2 DEF Open, CloseIdle
  <2>. QED BY <1>0, <1>1, <1>2, <2>1 DEF Open, CloseIdle, LeaveMap, CtlTypeOK, stateVars
<1>3. CASE Wake
  <2>1. s # Ses
    BY <1>3 DEF Wake, Clear, Cleared
  <2>. QED BY <1>0, <1>3, <2>1 DEF Wake, LeaveMap, CtlTypeOK
<1>4. CASE Reading
  BY <1>0, <1>4 DEF Reading, CtlTypeOK
<1>5. CASE EndCur \/ EndNew
  BY <1>0, <1>5 DEF EndCur, EndNew, StopWaiting, AnsweredApart
<1>. QED BY <1>1, <1>2, <1>3, <1>4, <1>5
     DEF DevNext, Controller, TurnAway, CloseReading, StartSync, FlagOthers, StartRead, Refuse,
         StartFlaggedOrClose, Collect, Continue, Driver, BeginCur, BeginNew, Device, Post,
         devVars, stateVars

\* A session is in the state of reading when its read has been started.
LEMMA BecomesAsy ==
    ASSUME Base, [DevNext]_devVars, NEW s \in Session, apc = "astate", Ses = s,
           ~(apc' = "astate" /\ Ses' = s)
    PROVE  st'[s] = "asy"
<1>1. CtlTypeOK /\ st[s] # "not"
  BY DEF Base, UseInv, ExecInv
<1>2. Controller
  BY OthersLeave DEF Base, DevNext
<1>3. Reading
  BY <1>2 DEF Controller, TurnAway, Open, CloseIdle, CloseReading, StartSync, FlagOthers,
              StartRead, Refuse, Dispatch, Pop, StartFlaggedOrClose, Wake, Collect, Continue
<1>4. st'[s] = NextState(st[s], "asy")
  BY <1>1, <1>3 DEF Reading, CtlTypeOK
<1>. QED BY <1>1, <1>4 DEF NextState

\* The reads that wait after a step waited before it, or are just started.
LEMMA NextWaiting ==
    ASSUME Base, Base', [DevNext]_devVars, NEW s \in Unanswered'
    PROVE  \/ s \in Unanswered
           \/ /\ apc' = "astate" /\ Ses' = s
              /\ \E id \in DOMAIN req : StartRead(id) /\ plugged
<1>1. CASE BeginCur \/ BeginNew
  BY <1>1, BeginWaiting DEF Base, UsageInv, Stays, WaitsOn
<1>2. CASE Controller
  <2>1. ASSUME NEW id \in DOMAIN req, StartRead(id), plugged, s = req[id].ses
        PROVE  apc' = "astate" /\ Ses' = s
    BY <2>1 DEF StartRead, Ses
  <2>. QED BY <1>2, <2>1, ControllerWaiting DEF Base, UseInv, UsageInv, Stays, WaitsOn
<1>. QED BY <1>1, <1>2, OthersWaiting DEF DevNext, Stays, WaitsOn

\* A callback marks the sessions that it answers.
LEMMA NextApart ==
    ASSUME Base, Base', AnsweredApart, ~LateEnd', [DevNext]_devVars
    PROVE  AnsweredApart'
<1> SUFFICES ASSUME NEW s \in Unanswered' PROVE s \notin bsel'
  BY DEF AnsweredApart
<1>1. CASE BeginCur \/ BeginNew
  <2>1. PICK item \in {cur, fresh} :
           /\ (BeginCur /\ item = cur) \/ (BeginNew /\ item = fresh)
           /\ item.cb # "sync" => s \in Flagged
    BY <1>1, BeginWaiting DEF Base, UsageInv
  <2>2. CallbackOf(item)
    BY <2>1 DEF BeginCur, BeginNew
  <2>3. bsel' = {} \/ (item.cb # "sync" /\ bsel' = Listed \ Flagged)
    BY <2>2 DEF CallbackOf, SyncCallback, ReadCallback
  <2>. QED BY <2>1, <2>3
<1>2. CASE EndCur \/ EndNew
  BY <1>2 DEF EndCur, EndNew, StopWaiting
<1>3. CASE bsel' = bsel
  <2>1. CASE s \in Unanswered
    BY <1>3, <2>1 DEF AnsweredApart
  <2>. QED BY <2>1, NextWaiting DEF LateEnd
<1>. QED BY <1>1, <1>2, <1>3
     DEF DevNext, Controller, TurnAway, Open, CloseIdle, CloseReading, StartSync, FlagOthers,
         StartRead, Refuse, Dispatch, StartFlaggedOrClose, Wake, Reading, Collect, Continue,
         Driver, Device, Post, devVars

\* A session whose oldest read waits is in the state of reading, so that a close
\* cancels the read, unless the two threads race over the state of the session
\* or over a flag (the map of states of mp_cbase_ctl_fn_.cpp, which the
\* callbacks and the controller's thread both set).
THEOREM WaitingReadIsAsy ==
    ASSUME Usage
    PROVE  DevSpec /\ [](~FlagUsed /\ ~LateEnd) => []WaitingIsAsy
<1>1. DevInit => WaitingIsAsy /\ AnsweredApart
  BY DEF DevInit, WaitingIsAsy, AnsweredApart, Listed
<1>2. Base /\ Base' /\ Clear /\ WaitingIsAsy /\ AnsweredApart /\ ~LateEnd' /\ [DevNext]_devVars
        => (WaitingIsAsy /\ AnsweredApart)'
  <2> SUFFICES ASSUME Base, Base', Clear, WaitingIsAsy, AnsweredApart, ~LateEnd',
                      [DevNext]_devVars
               PROVE  (WaitingIsAsy /\ AnsweredApart)'
    OBVIOUS
  <2>1. ASSUME NEW s \in Unanswered', ~(apc' = "astate" /\ Ses' = s)
        PROVE  st'[s] = "asy"
    <3>1. s \in Unanswered /\ s \in Session
      BY <2>1, NextWaiting DEF Unanswered, Listed
    <3>2. CASE apc = "astate" /\ Ses = s
      BY <2>1, <3>1, <3>2, BecomesAsy
    <3>3. CASE ~(apc = "astate" /\ Ses = s)
      <4>1. st[s] = "asy"
        BY <3>1, <3>3 DEF WaitingIsAsy, Unanswered
      <4>. QED BY <3>1, <3>3, <4>1, StaysAsy
    <3>. QED BY <3>2, <3>3
  <2>2. WaitingIsAsy'
    BY <2>1 DEF WaitingIsAsy, Unanswered, Listed
  <2>. QED BY <2>2, NextApart
<1>3. DevSpec => []Base
  BY BaseInvariant
<1>4. DevSpec /\ []~FlagUsed => [](Clear /\ FlagInv)
  BY FlagInvariant
<1>. QED BY <1>1, <1>2, <1>3, <1>4, PTL DEF DevSpec

\* On a device that does not support sharing only the race over the state is
\* left.
THEOREM WaitingReadIsAsyAlone ==
    ASSUME SupportShare = FALSE, WellFormed, OneAtATime
    PROVE  DevSpec /\ []~LateEnd => []WaitingIsAsy
<1>1. Usage
  BY DEF Usage, OneMode
<1>2. DevSpec => []Base
  BY <1>1, BaseInvariant
<1>3. Base => ~FlagUsed
  BY DEF Base, NoFlags, FlagUsed
<1>4. DevSpec /\ [](~FlagUsed /\ ~LateEnd) => []WaitingIsAsy
  BY <1>1, WaitingReadIsAsy
<1>. QED BY <1>2, <1>3, <1>4, PTL

-----------------------------------------------------------------------------
(* A device that is shared.                                                 *)

\* When a request is about to cancel, or blocks and has not yet cancelled, the
\* reads of the others that wait are flagged.
OthersFlagged ==
    plugged /\ (apc \in {"flagged", "close"} \/ (apc = "wait" /\ ~Cleared)) =>
        \A s \in Unanswered : s = Ses \/ Front(s).rec

\* A close is executed while the read of another session waits: a close flags
\* no read.
CloseBeside == apc = "close" /\ \E s \in Unanswered : s # Ses

\* A read is cancelled while the report that answered the read of another
\* session has not yet been sent.
Overwrites ==
    /\ hpc = "cur" /\ cur.res.st = "cancel"
    /\ \E s \in Listed \ Flagged :
         s # Ses /\ Ready(Front(s)) /\ Front(s).rsp.st # "cancel"

\* Where no flag is used too early the callback of a read leaves the others'
\* reads waiting only when it is cancelled.
LEMMA LeavesFlagged ==
    ASSUME Base, ~FlagUsed, BeginCur \/ BeginNew, NEW s \in Unanswered'
    PROVE  \/ Stays(s)
           \/ apc = "wait" /\ ~Cleared /\ hpc' = "cur_end" /\ FreshSync'
<1>1. PICK item \in {cur, fresh} :
         /\ (BeginCur /\ item = cur) \/ (BeginNew /\ item = fresh)
         /\ IF item.cb = "sync" THEN Stays(s) ELSE WaitsOn(s) /\ s \in Flagged
  BY BeginWaiting DEF Base, UsageInv
<1>2. CASE item.cb # "sync" /\ BeginCur /\ item = cur
  <2>1. hpc = "cur" /\ hpc' = "cur_end" /\ fresh' = fresh
    BY <1>2 DEF BeginCur, RunCur
  <2>2. cur.res.st = "cancel"
    BY <1>1, <1>2, <2>1 DEF FlagUsed, WaitsOn, Flagged
  <2>3. Exists(fresh) /\ fresh.cb = "sync" /\ apc = "wait" /\ ~Ready(Head(syncq))
    BY <2>1, <2>2, CancelsForOwn DEF Base
  <2>. QED BY <2>1, <2>3 DEF Cleared, FreshSync, Exists
<1>3. CASE item.cb # "sync" /\ BeginNew /\ item = fresh
  BY <1>1, <1>3 DEF BeginNew, RunNew, FlagUsed, WaitsOn, Flagged
<1>. QED BY <1>1, <1>2, <1>3

\* A request that is started without flags finds no reads of others waiting.
LEMMA StartsAlone ==
    ASSUME Base, WaitingIsAsy, NEW id \in DOMAIN req, StartSync(id), NEW s \in Unanswered
    PROVE  s = req[id].ses
<1>1. /\ apc = "idle" /\ st[req[id].ses] # "not" /\ ~NeedsRecover(req[id].ses)
      /\ req[id].ses \in Session /\ s \in Session /\ DOMAIN st = Session
  BY TurnTypes DEF StartSync, Pop, Base, UseInv, CtlTypeOK, Unanswered, Listed
<1>2. st[s] = "asy"
  BY <1>1 DEF WaitingIsAsy, Unanswered
<1>3. CASE SupportShare = FALSE
  BY <1>1, <1>2, <1>3 DEF Base, UsageInv, OpenedByOne
<1>4. CASE SupportShare
  <2>1. shared
    BY <1>1, <1>4 DEF Base, UsageInv, SharedInv
  <2>2. s # req[id].ses => AnotherState(st, req[id].ses) = "asy"
    BY <1>1, <1>2 DEF AnotherState
  <2>. QED BY <1>1, <2>1, <2>2 DEF NeedsRecover
<1>. QED BY <1>3, <1>4, DevAssumption

\* All steps.
LEMMA NextFlagged ==
    ASSUME Base, Base', WaitingIsAsy, OthersFlagged, ~FlagUsed, ~CloseBeside', [DevNext]_devVars
    PROVE  OthersFlagged'
<1> SUFFICES ASSUME plugged', apc' = "flagged" \/ (apc' = "wait" /\ ~Cleared'),
                    NEW s \in Unanswered'
             PROVE  s = Ses' \/ Front(s)'.rec
  BY DEF OthersFlagged, CloseBeside
<1>1. plugged
  BY NotReplugged
<1>2. CASE Driver \/ Device \/ UNCHANGED devVars \/ \E t \in Session, op \in Action : Post(t, op)
  <2>1. apc' = apc /\ (apc # "idle" => Ses' = Ses)
    BY <1>2, OthersLeave DEF Base
  <2>2. apc = "wait" => ~Cleared
    BY <2>1, StaysCleared
  <2>3. Stays(s)
    <3>1. CASE BeginCur \/ BeginNew
      <4>1. ~(hpc' = "cur_end" /\ FreshSync' /\ apc' = "wait")
        BY DEF Cleared
      <4>. QED BY <2>1, <3>1, <4>1, LeavesFlagged
    <3>. QED BY <1>2, <3>1, OthersWaiting
  <2>. QED BY <1>1, <2>1, <2>2, <2>3 DEF OthersFlagged, Stays, WaitsOn
<1>3. CASE Controller
  <2>1. apc # "wait"
    BY <1>3 DEF Controller, TurnAway, Open, CloseIdle, CloseReading, StartSync, FlagOthers,
                StartRead, Refuse, Dispatch, Pop, StartFlaggedOrClose, Wake, Reading, Collect,
                Continue
  <2>2. CASE StartFlaggedOrClose
    <3>1. apc \in {"flagged", "close"} /\ readq' = readq /\ Ses' = Ses
      BY <2>2 DEF StartFlaggedOrClose, Ses, clientVars
    <3>2. Stays(s)
      BY <3>1, SameWaiting
    <3>. QED BY <1>1, <3>1, <3>2 DEF OthersFlagged, Stays, WaitsOn
  <2>3. ASSUME NEW id \in DOMAIN req, StartSync(id)
        PROVE  s = Ses'
    <3>1. readq' = readq /\ Ses' = req[id].ses
      BY <2>3 DEF StartSync, Ses
    <3>2. s \in Unanswered
      BY <3>1, SameWaiting DEF Stays, WaitsOn
    <3>. QED BY <2>3, <3>1, <3>2, StartsAlone
  <2>4. ASSUME NEW id \in DOMAIN req, FlagOthers(id)
        PROVE  s = Ses' \/ Front(s)'.rec
    <3>1. Ses' = req[id].ses
      BY <2>4 DEF FlagOthers, Dispatch, Pop, Ses
    <3>. QED BY <2>4, <3>1, FlagWaiting DEF Base, UseInv
  <2>5. StartFlaggedOrClose \/ \E id \in DOMAIN req : StartSync(id) \/ FlagOthers(id)
    BY <1>3, <2>1
    DEF Controller, TurnAway, Open, CloseIdle, CloseReading, StartRead, Refuse, Dispatch, Wake,
        Reading, Collect, Continue, ctlVars, Pop
  <2>. QED BY <2>2, <2>3, <2>4, <2>5
<1>. QED BY <1>2, <1>3 DEF DevNext

\* The callback of a cancelled read finds, but for the flagged ones, only reads
\* of the session whose request cancels.
LEMMA SharedSafe ==
    ASSUME Base, OthersFlagged, CancelledInv, ~Overwrites
    PROVE  CancelSafe
<1> SUFFICES ASSUME plugged, hpc = "cur", cur.res.st = "cancel", NEW s \in Listed \ Flagged
             PROVE  LaterOwn(Front(s).id)
  BY DEF CancelSafe
<1>1. apc = "wait" /\ ~Cleared
  BY CancelsForOwn DEF Base, Cleared
<1>2. CASE s = Ses
  BY <1>1, <1>2, OwnIsLater DEF Base
<1>3. CASE s # Ses
  <2>1. s \notin Unanswered
    BY <1>1, <1>3 DEF OthersFlagged, Flagged
  <2>2. Front(s).rsp.st = "cancel"
    BY <1>3, <2>1 DEF Overwrites, Unanswered
  <2>3. s \in Session /\ 1 \in DOMAIN readq[s] /\ Front(s) = readq[s][1]
    BY FrontOf DEF Base, UseInv
  <2>. QED BY <2>2, <2>3 DEF CancelledInv, QueuedLater
<1>. QED BY <1>2, <1>3

\* On a device that is shared, too, a read is answered as cancelled only if its
\* own session sends a later request that cancels it, unless the two threads
\* race over a flag, the state of a session or an answer that has not been
\* sent, or a session closes while another one reads
\* (_cb_dev_read_on_shared of mp_cdev_ctl_fn_.cpp and the flags that
\* qm_read_set_request_front_to_recover_of_another_session sets for it).
THEOREM CancelledByOwnShared ==
    ASSUME Usage
    PROVE  DevSpec /\ [](~FlagUsed /\ ~LateEnd /\ ~CloseBeside /\ ~Overwrites)
             => []CancelledByOwn
<1>1. DevInit => OthersFlagged /\ CancelledInv
  BY DEF DevInit, OthersFlagged, CancelledInv, QueuedLater, AnsweredLater
<1>2. Base /\ Base' /\ WaitingIsAsy /\ OthersFlagged /\ ~FlagUsed /\ ~CloseBeside'
        /\ [DevNext]_devVars => OthersFlagged'
  BY NextFlagged
<1>3. Base /\ OthersFlagged /\ CancelledInv /\ ~Overwrites /\ [DevNext]_devVars => CancelledInv'
  <2> SUFFICES ASSUME Base, OthersFlagged, CancelledInv, ~Overwrites, [DevNext]_devVars
               PROVE  CancelledInv'
    OBVIOUS
  <2>1. CancelSafe
    BY SharedSafe
  <2>. QED BY <2>1, NextCancelled DEF Base
<1>4. DevSpec => []Base
  BY BaseInvariant
<1>5. DevSpec /\ [](~FlagUsed /\ ~LateEnd) => []WaitingIsAsy
  BY WaitingReadIsAsy
<1>6. CancelledInv => CancelledByOwn
  BY CancelledIs
<1>. QED BY <1>1, <1>2, <1>3, <1>4, <1>5, <1>6, PTL DEF DevSpec
=============================================================================
