------------------------------- MODULE DevCtl -------------------------------
(***************************************************************************)
(* The controller of one device: class cdev_ctl with its cdev_ctl_fn, files *)
(* lib/src/server/mp_cdev_ctl_.cpp and mp_cdev_ctl_fn_.cpp, and the worker  *)
(* loop of lib/inc/mp_vcworker.h, composed with the driver of the device    *)
(* (module HidDev).                                                         *)
(*                                                                          *)
(* Clients post requests.  The controller's thread takes one at a time.     *)
(* Open and close change the state of the session; a write, transmit or     *)
(* cancel is started on the driver and the thread blocks until the driver   *)
(* has answered; a read is started and left in the session's read queue.    *)
(* The driver's thread calls back into the controller: a report answers     *)
(* the oldest read of every session.  The two threads share the queues and  *)
(* the session states, under two mutexes that no operation holds together,  *)
(* so each handler is split where it lets the other thread in.              *)
(***************************************************************************)
EXTENDS HidDev, SessionState

CONSTANTS NSession,     \* sessions are numbered 1..NSession
          Opens,        \* what a client may send first
          Ops,          \* what it may send after that
          Quota,        \* bound: requests of one session
          MaxReads,     \* bound: reads of one session that wait for an answer
          SupportShare, \* does the device support shared opening?
          MaxOpen       \* CONST_MAX_OPEN_COUNT_ON_SHARED_MODE

Session == 1..NSession

ASSUME DevAssumption ==
    /\ NSession \in Nat \ {0}
    /\ Opens \subseteq Action /\ Ops \subseteq Action
    /\ Quota \in Nat /\ MaxReads \in Nat
    /\ SupportShare \in BOOLEAN
    /\ MaxOpen \in Nat

VARIABLES
    req,     \* history: every request sent, with the answers to it
    mq,      \* m_q: requests waiting for the controller
    apc,     \* where the controller's thread is
    areq,    \* ptr_req_new: the request being executed
    aresp,   \* the answer to it
    acur,    \* ptr_req_cur: the read being continued
    st,      \* m_map_ptr_state_cur
    shared,  \* m_b_cur_shared_mode
    readq,   \* m_map_ptr_q_ptr_cur_req_read: the reads of each session
    syncq,   \* m_q_sync_req_evt_rsp
    bsel     \* the sessions the running callback has answered

clientVars == <<req, mq>>
ctlVars == <<apc, areq, aresp, acur>>
stateVars == <<st, shared>>
queueVars == <<readq, syncq>>
devVars == <<clientVars, ctlVars, stateVars, queueVars, bsel, hidVars>>

-----------------------------------------------------------------------------
(* Data.                                                                    *)

\* An entry of a queue: the request and its answer so far; in a read queue,
\* also the recover flag, which lets the read outlive the next callback.
Waiting(id) == [id |-> id, rec |-> FALSE, rsp |-> NotYet]
Ready(e) == e.rsp # NotYet

Op == req[areq].op
Ses == req[areq].ses
Listed == {s \in Session : readq[s] # <<>>}
Front(s) == Head(readq[s])

\* The answer rsp to the request id.
Answer(id, rsp) == [id |-> id, rsp |-> rsp]

\* A set of answers is sent to the clients.
Send(answers) ==
    req' = [id \in DOMAIN req |->
               IF \E a \in answers : a.id = id
               THEN [req[id] EXCEPT !.ans = Append(@, (CHOOSE a \in answers : a.id = id).rsp)]
               ELSE req[id]]

-----------------------------------------------------------------------------
(* A client posts a request.  It need not wait for the answer to its last.  *)

Sent(s) == {id \in DOMAIN req : req[id].ses = s}
Awaited(s) == {id \in Sent(s) : req[id].op = "read" /\ req[id].ans = <<>>}

Post(s, op) ==
    /\ Len(req) < MaxUid /\ Cardinality(Sent(s)) < Quota
    /\ op \in IF Sent(s) = {} THEN Opens ELSE Ops
    /\ op = "read" => Cardinality(Awaited(s)) < MaxReads
    /\ req' = Append(req, [ses |-> s, op |-> op, ans |-> <<>>])
    /\ mq' = Append(mq, Len(req) + 1)
    /\ UNCHANGED <<ctlVars, stateVars, queueVars, bsel, hidVars>>

-----------------------------------------------------------------------------
(* What has been answered (get_all_complete_response).                      *)

\* Mutant of Reached: the loop starts at the second queue.
ReachedButFirst == {s \in Listed : \E p \in Listed : p < s}

\* The loop over the read queues steps past the queue after one that it
\* empties: it increments the iterator that erase has already advanced.
Reached ==
    LET reached[s \in Session] ==
            LET before == {p \in Listed : p < s}
            IN before # {} =>
                 LET p == CHOOSE p \in before : \A x \in before : x <= p
                 IN ~(reached[p] /\ Ready(Front(p)) /\ Len(readq[p]) = 1)
    IN {s \in Listed : reached[s]}

\* The sessions whose oldest read is found answered.
Taken == {s \in Reached : Ready(Front(s))}

Completed ==
    LET complete == {Front(s) : s \in Taken} \cup (IF syncq = <<>> THEN {} ELSE {Head(syncq)})
    IN {Answer(e.id, e.rsp) : e \in complete}
CompletedIds == {a.id : a \in Completed}

\* Mutants of RemoveCompleted: one of the queues keeps what is sent.
RemoveCompletedReads ==
    /\ readq' = [s \in Session |-> IF s \in Taken THEN Tail(readq[s]) ELSE readq[s]]
    /\ UNCHANGED syncq
RemoveCompletedSync ==
    /\ UNCHANGED readq
    /\ syncq' = IF syncq = <<>> THEN syncq ELSE Tail(syncq)

RemoveCompleted ==
    /\ readq' = [s \in Session |-> IF s \in Taken THEN Tail(readq[s]) ELSE readq[s]]
    /\ syncq' = IF syncq = <<>> THEN syncq ELSE Tail(syncq)

\* get_front_of_read_queue: the oldest read of the first session that has one.
FirstRead(rq) ==
    LET listed == {s \in Session : rq[s] # <<>>}
    IN IF listed = {} THEN 0
       ELSE Head(rq[CHOOSE s \in listed : \A x \in listed : s <= x]).id

-----------------------------------------------------------------------------
(* The controller's thread.                                                 *)

\* vcworker::_worker pops a request and _execute looks at it.
Pop(id) ==
    /\ apc = "idle" /\ mq # <<>> /\ id = Head(mq)
    /\ mq' = Tail(mq)

\* A packet that is turned away: answered at once, and nothing else looked at.
TurnAway(id) ==
    /\ Pop(id) /\ req[id].op = "unsupported"
    /\ Send({Answer(id, Res("error"))})
    /\ UNCHANGED <<ctlVars, stateVars, queueVars, bsel, hidVars>>

\* process_event and the functions it dispatches to take the state of the
\* request's session and the largest state of the others.
Dispatch(id, evt) ==
    /\ Pop(id) /\ req[id].op # "unsupported" /\ EventOf(req[id].op) = evt
    /\ areq' = id
    /\ UNCHANGED <<req, acur, syncq, bsel>>

\* A session that has not opened the device may only open it, and one that has
\* may not open it again.
Refuse(id, evt) ==
    /\ Dispatch(id, evt)
    /\ (st[req[id].ses] = "not") # (evt = "open")
    /\ aresp' = Res("error")
    /\ apc' = "collect"
    /\ UNCHANGED <<stateVars, readq, hidVars>>

\* _proc_event_open asks the driver whether the device may be opened, except
\* in shared mode when other sessions have it open.  The first open sets the
\* mode.
MayOpen(s, share) ==
    \/ shared /\ AnotherState(st, s) # "not"
    \/ plugged /\ Openable(SupportShare, share, Cardinality(OpenSessions(st)), MaxOpen)

Open(id) ==
    LET s == req[id].ses
        share == (req[id].op = "open_share")
    IN /\ Dispatch(id, "open") /\ st[s] = "not"
       /\ IF MayOpen(s, share)
          THEN /\ st' = [st EXCEPT ![s] = NextState(@, "open")]
               /\ shared' = IF OpenSessions(st) = {} THEN share ELSE shared
               /\ aresp' = Res("success")
          ELSE /\ aresp' = Res("error")
               /\ UNCHANGED stateVars
       /\ apc' = "collect"
       /\ UNCHANGED <<readq, hidVars>>

\* _transit_state_by_processing_result for a close: the session leaves the
\* map, and the last one resets the mode.
LeaveMap(s) ==
    /\ st' = [st EXCEPT ![s] = "not"]
    /\ shared' = (shared /\ OpenSessions(st) # {s})

CloseIdle(id) ==
    /\ Dispatch(id, "close") /\ st[req[id].ses] = "idl"
    /\ LeaveMap(req[id].ses)
    /\ aresp' = Res("success")
    /\ apc' = "collect"
    /\ UNCHANGED <<readq, hidVars>>

\* A session that is reading closes: its read is to be cancelled first.
CloseReading(id) ==
    /\ Dispatch(id, "close") /\ st[req[id].ses] = "asy"
    /\ apc' = "close"
    /\ UNCHANGED <<aresp, stateVars, readq, hidVars>>

\* Mutant of KindOf: a close is passed to the driver as it is.
KindOfClose(op) ==
    CASE op = "transmit"            -> "txrx"
      [] op \in {"transmit_empty", "read"} -> "rx"
      [] op = "write"               -> "tx"
      [] op \in {"cancel", "close"} -> op

\* The kind of item a request becomes: a transmit without data is a bare read.
KindOf(op) ==
    CASE op = "transmit"            -> "txrx"
      [] op \in {"transmit_empty", "read"} -> "rx"
      [] op = "write"               -> "tx"
      [] op \in {"cancel", "close"} -> "cancel"

\* _start_and_complete_by_...: queue the request, start it, and block.
StartAndWait(id) ==
    IF plugged
    THEN /\ syncq' = Append(syncq, Waiting(id))
         /\ Start(id, KindOf(req[id].op), "sync")
         /\ apc' = "wait"
         /\ UNCHANGED aresp
    ELSE /\ aresp' = Res("error")
         /\ apc' = "collect"
         /\ UNCHANGED <<syncq, hq, used>>

\* A write, transmit or cancel.  While other sessions read in shared mode
\* their oldest reads are flagged first, because the driver will cancel them.

\* Mutant of NeedsRecover: the others are only thought of by a reading session.
NeedsRecoverReading(s) == shared /\ st[s] = "asy" /\ AnotherState(st, s) = "asy"

NeedsRecover(s) == shared /\ st[s] # "not" /\ AnotherState(st, s) = "asy"

StartSync(id) ==
    /\ Pop(id) /\ req[id].op # "unsupported" /\ EventOf(req[id].op) = "sync"
    /\ st[req[id].ses] # "not" /\ ~NeedsRecover(req[id].ses)
    /\ areq' = id
    /\ StartAndWait(id)
    /\ UNCHANGED <<req, acur, readq, bsel, stateVars,
                   workerVars, rxVars, plugged>>

FlagOthers(id) ==
    /\ Dispatch(id, "sync") /\ NeedsRecover(req[id].ses)
    /\ readq' = [s \in Session |->
                    IF s \in Listed \ {req[id].ses}
                    THEN [readq[s] EXCEPT ![1].rec = TRUE]
                    ELSE readq[s]]
    /\ apc' = "flagged"
    /\ UNCHANGED <<aresp, stateVars, hidVars>>

\* Mutant of StartFlaggedOrClose: the cancel of a close is not started.
StartFlagged ==
    /\ apc = "flagged"
    /\ StartAndWait(areq)
    /\ UNCHANGED <<clientVars, areq, acur, readq, bsel, stateVars,
                   workerVars, rxVars, plugged>>

StartFlaggedOrClose ==
    /\ apc \in {"flagged", "close"}
    /\ StartAndWait(areq)
    /\ UNCHANGED <<clientVars, areq, acur, readq, bsel, stateVars,
                   workerVars, rxVars, plugged>>

\* The driver has answered (the wait in _start_and_complete_by_...), and the
\* state follows (_transit_state_by_processing_result).
Wake ==
    /\ apc = "wait" /\ syncq # <<>> /\ Ready(Head(syncq))
    /\ IF Op = "close"
       THEN LeaveMap(Ses) /\ aresp' = Res("success")
       ELSE /\ st' = [st EXCEPT ![Ses] = NextState(@, "sync")]
            /\ aresp' = Head(syncq).rsp
            /\ UNCHANGED shared
    /\ apc' = "collect"
    /\ UNCHANGED <<clientVars, areq, acur, queueVars, bsel, hidVars>>

\* _start_by_async_req: queue the read and start it, whether or not another
\* read of the session or of another one is already started.
StartRead(id) ==
    /\ Pop(id) /\ req[id].op = "read" /\ st[req[id].ses] # "not"
    /\ areq' = id
    /\ IF plugged
       THEN /\ readq' = [readq EXCEPT ![req[id].ses] = Append(@, Waiting(id))]
            /\ Start(id, "rx", IF shared THEN "shared" ELSE "exclusive")
            /\ apc' = "astate"
            /\ UNCHANGED aresp
       ELSE /\ aresp' = Res("error")
            /\ apc' = "collect"
            /\ UNCHANGED <<readq, hq, used>>
    /\ UNCHANGED <<req, acur, syncq, bsel, stateVars,
                   workerVars, rxVars, plugged>>

\* The read has been started: the state follows, and the read becomes the
\* current request, whatever was current before.
Reading ==
    /\ apc = "astate"
    /\ st' = [st EXCEPT ![Ses] = NextState(@, "asy")]
    /\ acur' = areq
    /\ areq' = 0
    /\ apc' = "idle"
    /\ UNCHANGED <<clientVars, aresp, shared, queueVars, bsel, hidVars>>

\* The request is complete (_execute): everything answered is sent.  The
\* current read stays current unless it is among it; without a current read
\* the first one still queued becomes current.
Collect ==
    /\ apc = "collect"
    /\ RemoveCompleted
    /\ LET own == IF areq \in CompletedIds THEN {} ELSE {Answer(areq, aresp)}
       IN Send(Completed \cup own)
    /\ acur' = IF acur # 0 /\ acur \notin CompletedIds \cup {areq}
               THEN acur ELSE FirstRead(readq')
    /\ areq' = 0
    /\ aresp' = NotYet
    /\ apc' = "idle"
    /\ UNCHANGED <<mq, stateVars, bsel, hidVars>>

\* No new request, but a current read (_continue): everything answered is
\* sent, and there is no current read any more if it is among it.
Continue ==
    /\ apc = "idle" /\ mq = <<>> /\ acur # 0
    /\ Completed # {}
    /\ Send(Completed)
    /\ acur' = IF acur \in CompletedIds THEN 0 ELSE acur
    /\ RemoveCompleted
    /\ UNCHANGED <<mq, apc, areq, aresp, stateVars, bsel, hidVars>>

-----------------------------------------------------------------------------
(* The callbacks, on the driver's thread.                                   *)

Flagged == {s \in Listed : Front(s).rec}

\* Mutant of Answered: every read of the session is answered.
AnsweredAll(q, res) == [i \in DOMAIN q |-> [q[i] EXCEPT !.rsp = res]]

\* qm_read_set_response_front, of the reads of one session.
Answered(q, res) == [q EXCEPT ![1].rsp = res]

\* _cb_dev_read_on_exclusive and _cb_dev_read_on_shared.  An ill-formed report
\* is passed over.  Otherwise (qm_read_set_response_front) the oldest read of
\* every session is answered, over an answer that has not been sent yet;
\* a flagged one only loses its flag and is to be read again.
ReadCallback(item) ==
    /\ IF item.res.st = "bad"
       THEN /\ bsel' = {}
            /\ UNCHANGED readq
       ELSE /\ bsel' = Listed \ Flagged
            /\ readq' = [s \in Session |->
                  CASE s \in Flagged          -> [readq[s] EXCEPT ![1].rec = FALSE]
                    [] s \in Listed \ Flagged -> Answered(readq[s], item.res)
                    [] OTHER                  -> readq[s]]
    /\ UNCHANGED syncq

\* The driver is told to read again unless a read was answered.  In shared
\* mode it is told the reads that are to be read again.
ReadReturn(item) ==
    [done |-> item.res.st # "bad" /\ Listed \ Flagged # {},
     more |-> IF item.res.st # "bad" /\ item.cb = "shared"
              THEN {Front(s).id : s \in Flagged} ELSE {}]

\* _cb_dev_for_sync_req answers the request whose sender waits.
SyncCallback(item) ==
    /\ syncq' = IF syncq = <<>> THEN syncq ELSE [syncq EXCEPT ![1].rsp = item.res]
    /\ bsel' = {}
    /\ UNCHANGED readq

CallbackOf(item) == IF item.cb = "sync" THEN SyncCallback(item) ELSE ReadCallback(item)

\* Mutant of ReturnOf: the callback of a blocking request asks to read again.
ReturnOfAgain(item) ==
    IF item.cb = "sync" THEN [done |-> FALSE, more |-> {}] ELSE ReadReturn(item)

ReturnOf(item) == IF item.cb = "sync" THEN NoReturn ELSE ReadReturn(item)

BeginCur ==
    /\ RunCur(ReturnOf(cur)) /\ CallbackOf(cur)
    /\ UNCHANGED <<clientVars, ctlVars, stateVars>>

BeginNew ==
    /\ RunNew(ReturnOf(fresh)) /\ CallbackOf(fresh)
    /\ UNCHANGED <<clientVars, ctlVars, stateVars>>

\* The end of a callback, _transit_state_for_only_all_async_by_rx_event: the
\* sessions answered stop waiting, those of them that are still open.
StopWaiting ==
    /\ st' = [s \in Session |->
                 IF s \in bsel /\ st[s] # "not" THEN NextState(st[s], "rx") ELSE st[s]]
    /\ bsel' = {}
    /\ UNCHANGED <<clientVars, ctlVars, shared, queueVars>>

EndCur == FinishCur /\ StopWaiting
EndNew == FinishNew /\ StopWaiting

-----------------------------------------------------------------------------

DevInit ==
    /\ HidInit
    /\ req = <<>> /\ mq = <<>>
    /\ apc = "idle" /\ areq = 0 /\ aresp = NotYet /\ acur = 0
    /\ st = [s \in Session |-> "not"] /\ shared = FALSE
    /\ readq = [s \in Session |-> <<>>] /\ syncq = <<>>
    /\ bsel = {}

Controller ==
    \/ \E id \in DOMAIN req :
         \/ TurnAway(id) \/ Open(id) \/ CloseIdle(id) \/ CloseReading(id)
         \/ StartSync(id) \/ FlagOthers(id) \/ StartRead(id)
         \/ \E evt \in Event : Refuse(id, evt)
    \/ StartFlaggedOrClose \/ Wake \/ Reading \/ Collect \/ Continue

DriverOnly ==
    \/ Pump \/ ReadCurrent
    \/ PopWhileBroken \/ PopPark \/ PopCancel \/ PopWrite \/ PopWriteRead \/ PopRead

Driver ==
    \/ DriverOnly /\ UNCHANGED <<clientVars, ctlVars, stateVars, queueVars, bsel>>
    \/ BeginCur \/ BeginNew \/ EndCur \/ EndNew

Device ==
    /\ Unplug \/ \E kind \in RxKind : Receive(kind)
    /\ UNCHANGED <<clientVars, ctlVars, stateVars, queueVars, bsel>>

DevNext == Controller \/ Driver \/ Device \/ \E s \in Session, op \in Action : Post(s, op)

DevSpec == DevInit /\ [][DevNext]_devVars

\* Both threads run; a client need not send, nor the device.
DevFairSpec == DevSpec /\ WF_devVars(Controller) /\ WF_devVars(Driver)

-----------------------------------------------------------------------------
(* Properties.                                                              *)

Request == [ses : Session, op : Action, ans : Seq(Result)]
Entry == [id : Uid, rec : BOOLEAN, rsp : Result]

\* The kinds of state of the controller.
CtlTypeOK ==
    /\ req \in Seq(Request) /\ Len(req) <= MaxUid
    /\ mq \in Seq(Uid)
    /\ apc \in {"idle", "close", "flagged", "wait", "astate", "collect"}
    /\ areq \in 0..MaxUid /\ aresp \in Result /\ acur \in 0..MaxUid
    /\ st \in [Session -> State] /\ shared \in BOOLEAN
    /\ readq \in [Session -> Seq(Entry)] /\ syncq \in Seq(Entry)
    /\ bsel \subseteq Session

\* The kinds of state of the controller and of the driver.
DevTypeOK == TypeOK /\ CtlTypeOK

\* The items the driver holds whose sender blocks, but the one whose callback
\* has just released it.
Released == IF hpc = "cur_end" THEN cur.uid ELSE IF hpc = "new_end" THEN fresh.uid ELSE 0
HeldSync == {Line[i].uid : i \in {j \in DOMAIN Line : Line[j].cb = "sync"}} \ {Released}

\* The controller blocks for its own request only, and the driver holds no
\* other one whose sender blocks: the callback answers the first request of the
\* queue without a look at whose it is.
SyncMatch ==
    /\ apc = "wait" => Len(syncq) = 1 /\ Head(syncq).id = areq
    /\ apc \notin {"wait", "collect"} => syncq = <<>>
    /\ plugged =>
         HeldSync \subseteq IF apc = "wait" /\ ~Ready(Head(syncq)) THEN {areq} ELSE {}

\* While the controller blocks, the driver still holds the request it blocks
\* for: nothing but that request's callback can wake it up.
BlockedIsServed ==
    plugged /\ apc = "wait" /\ ~Ready(Head(syncq)) => areq \in HeldSync

\* Where the controller keeps a request that it has not answered.
Queued(id) == \E s \in Session : \E i \in DOMAIN readq[s] : readq[s][i].id = id
Pending(id) == (\E i \in DOMAIN mq : mq[i] = id) \/ areq = id \/ Queued(id)

\* A request is answered once, and until then the controller keeps it: no
\* request is forgotten or answered twice, although a read can be answered
\* over again before it is sent, and a close waits in two places.
AnsweredOnce ==
    \A id \in DOMAIN req :
        /\ Len(req[id].ans) <= 1
        /\ req[id].ans = <<>> => Pending(id)
        /\ Queued(id) => req[id].ans = <<>> /\ req[id].op = "read"

Delivered(id) == req[id].ans # <<>> /\ req[id].ans[1].no # 0
ReportOf(id) == req[id].ans[1].no

\* A session gets the reports in the order the device sent them, each at most
\* once: an answer overwritten before it was sent is never seen out of turn.
ReportsInTurn ==
    \A i, j \in DOMAIN req :
        /\ i < j /\ req[i].ses = req[j].ses
        /\ req[i].op = "read" /\ req[j].op = "read"
        /\ Delivered(i) /\ Delivered(j)
        => ReportOf(i) < ReportOf(j)

\* The device is used by one session at a time unless it is shared, as the
\* comments of both transition functions say.
ExclusiveAlone == ~shared => Cardinality(OpenSessions(st)) <= 1

\* The driver works for a read that waits, unless the device is gone: there is
\* an item of a read on its way through it.  Items of different sessions stand
\* in for each other.
ReadBeingServed ==
    plugged /\ (\E s \in Listed : ~Ready(Front(s))) =>
        \E i \in DOMAIN Line : Line[i].cb # "sync"

\* A session whose oldest read waits is known to be reading, so that a close
\* will cancel the read.
WaitingIsAsy ==
    \A s \in Listed :
        ~Ready(Front(s)) /\ ~(apc = "astate" /\ Ses = s) => st[s] = "asy"

\* A read is cancelled only by a later request of its own session: a session
\* is to use the device as if it were alone.
CancelledByOwn ==
    \A id \in DOMAIN req :
        req[id].op = "read" /\ req[id].ans = <<Res("cancel")>> =>
            \E later \in DOMAIN req :
                later > id /\ req[later].ses = req[id].ses /\ req[later].op # "read"

\* The controller uses the driver as the driver alone allows.
UsesDriver == HidSpec

\* Every request but a read is answered, reads are only if a report comes.
NonReadAnswered ==
    \A id \in Uid :
        (id \in DOMAIN req /\ req[id].op # "read") ~> (id \in DOMAIN req /\ req[id].ans # <<>>)

\* An answer that a callback has set is sent to the client.
CompletedSent ==
    \A id \in Uid :
        (\E s \in Listed : Front(s).id = id /\ Ready(Front(s))) ~>
            (id \in DOMAIN req /\ req[id].ans # <<>>)
=============================================================================
