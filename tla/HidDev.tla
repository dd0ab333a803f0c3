------------------------------- MODULE HidDev -------------------------------
(***************************************************************************)
(* The I/O driver of one HID device: class clibhid_dev, file               *)
(* lib/src/hid/mp_clibhid_dev.cpp.                                         *)
(*                                                                         *)
(* Callers push items on a queue (start_write, start_read, ...).  A worker *)
(* thread serves them one at a time.  A read that has to wait stays the    *)
(* worker's current item; a read that arrives meanwhile is parked behind   *)
(* it; any other item cancels the current read.  The outcome of an item is *)
(* given to its callback, which may ask to read again (it returns false)   *)
(* or name the requests that still want a report (it returns their uids).  *)
(* A second thread moves the reports of the device into a receive queue.   *)
(*                                                                         *)
(* Callbacks are the caller's code.  A callback is two steps here, Begin   *)
(* and End, so that a module that EXTENDS this one can say what it does    *)
(* and let other threads run in between; on its own this module lets a     *)
(* callback return anything its kind allows.                               *)
(***************************************************************************)
EXTENDS Naturals, Sequences, FiniteSets

CONSTANTS MaxUid,     \* bound: requests are numbered 1..MaxUid
          MaxRx,      \* bound: reports the device sends
          RxKind,     \* the kinds of report the device may send
          MayUnplug   \* may the device be unplugged?

Uid == 1..MaxUid

ASSUME HidAssumption ==
    /\ MaxUid \in Nat \ {0}
    /\ MaxRx \in Nat
    /\ RxKind \subseteq {"card", "bad", "foreign", "lost", "null"}
    /\ MayUnplug \in BOOLEAN

VARIABLES
    hq,        \* m_q_ptr: items waiting for the worker
    cur,       \* ptr_cur: the read being waited for
    fresh,     \* ptr_new: the item just taken from hq
    parked,    \* dq_ptr_cur_old: reads waiting behind cur
    hpc,       \* where the worker is in its loop
    ret,       \* what the running callback returns
    readOk,    \* b_read_ok
    replugin,  \* m_b_detect_replugin
    rxq,       \* m_q_rx_ptr_v: reports received and not yet read
    rxDead,    \* b_need_deep_recover: the receive thread gave up
    nrx,       \* number of reports received so far
    plugged,   \* the instance exists and its threads run
    used,      \* history: uids handed to the driver
    told       \* history: uids whose callback accepted a final outcome

workerVars == <<cur, fresh, parked, hpc, ret, readOk, replugin, told>>
rxVars == <<rxq, rxDead, nrx>>
hidVars == <<hq, workerVars, rxVars, plugged, used>>

-----------------------------------------------------------------------------
(* Data.                                                                   *)

\* Kinds of item (cqitem_dev::get_request_type).
Kind == {"tx", "txrx", "rx", "cancel"}

\* The callback an item carries: that of a read in exclusive or in shared
\* mode, or that of a request whose sender waits.
Callback == {"exclusive", "shared", "sync"}

\* cqitem_dev::type_result; "bad" is a success whose three track lengths are
\* negative, and no is the number of the report delivered, 0 for none.
Result == [st : {"notyet", "success", "bad", "error", "cancel"}, no : 0..MaxRx]
Res(st) == [st |-> st, no |-> 0]
NotYet == Res("notyet")

Item == [uid : 0..MaxUid, kind : Kind, cb : Callback, res : Result]
NewItem(uid, kind, cb) == [uid |-> uid, kind |-> kind, cb |-> cb, res |-> NotYet]
NoItem == NewItem(0, "cancel", "sync")
Exists(i) == i.uid # 0
WithRes(i, res) == [i EXCEPT !.res = res]
Reset(i) == WithRes(i, NotYet)
IsComplete(i) == Exists(i) /\ i.res # NotYet

Report == [kind : RxKind, no : 1..MaxRx]

\* What a callback returns: accept the outcome or read again, and the uids
\* that still want a report.
Return == [done : BOOLEAN, more : SUBSET Uid]
NoReturn == [done |-> TRUE, more |-> {}]

-----------------------------------------------------------------------------
(* The callers' side.                                                      *)

\* start_write, start_read, start_write_read, start_cancel.
Start(uid, kind, cb) ==
    /\ hq' = Append(hq, NewItem(uid, kind, cb))
    /\ used' = used \cup {uid}

-----------------------------------------------------------------------------
(* The receive thread, _worker_rx: it stops for good at the first error.   *)

Receive(kind) ==
    /\ plugged /\ ~rxDead /\ nrx < MaxRx
    /\ nrx' = nrx + 1
    /\ rxq' = Append(rxq, [kind |-> kind, no |-> nrx + 1])
    /\ rxDead' = (kind = "null")
    /\ UNCHANGED <<hq, workerVars, plugged, used>>

-----------------------------------------------------------------------------
(* The worker thread, _worker.                                             *)

\* Mutant of ReadResult: the kind of the report is taken for the outcome.
ReadResultRaw ==
    IF rxq = <<>> THEN NotYet ELSE [st |-> Head(rxq).kind, no |-> Head(rxq).no]

\* _process_only_rx: take one report; one of another kind of data is skipped.
\* A lost packet and a dead receive thread both fail the read.
ReadResult ==
    IF rxq = <<>> \/ Head(rxq).kind = "foreign" THEN NotYet
    ELSE CASE Head(rxq).kind = "card" -> [st |-> "success", no |-> Head(rxq).no]
           [] Head(rxq).kind = "bad"  -> [st |-> "bad", no |-> Head(rxq).no]
           [] OTHER                   -> Res("error")

\* Mutant of DropReport: the report read stays in the queue.
DropReportPeek == UNCHANGED rxq

DropReport == rxq' = IF rxq = <<>> THEN rxq ELSE Tail(rxq)

\* Mutant of DetectReplugin: a lost packet is taken for a dead device.
DetectRepluginAnyError == replugin' = (replugin \/ ReadResult = Res("error"))

DetectReplugin == replugin' = (replugin \/ (rxq # <<>> /\ Head(rxq).kind = "null"))

\* Mutant of Notify: the new item first.
NotifyNewFirst(c, n) ==
    hpc' = CASE Exists(n)                      -> "new"
             [] ~Exists(n) /\ IsComplete(c)    -> "cur"
             [] OTHER                          -> "top"

\* The notification area: first the current item if it is complete, then the
\* new one.
Notify(c, n) ==
    hpc' = CASE IsComplete(c)             -> "cur"
             [] ~IsComplete(c) /\ Exists(n) -> "new"
             [] OTHER                     -> "top"

AtTop == plugged /\ hpc = "top"

\* Nothing to do at all: discard what the device sent (_pump).  The code first
\* looks whether a parked read can be taken up; it never finds one, because a
\* read is parked only behind a current one (ReadyForParked below).
Pump ==
    /\ AtTop /\ hq = <<>> /\ ~Exists(cur) /\ parked = <<>>
    /\ rxq # <<>> \/ ~readOk
    /\ readOk' = (ReadResult # Res("error"))
    /\ DetectReplugin
    /\ rxq' = <<>>
    /\ UNCHANGED <<hq, cur, fresh, parked, hpc, ret, told, rxDead, nrx, plugged, used>>

\* A read is current: try to read a report for it.
ReadCurrent ==
    /\ plugged /\ Exists(cur)
    /\ \/ hpc = "reread"
       \/ hpc = "top" /\ hq = <<>> /\ (rxq # <<>> \/ ~readOk)
    /\ cur' = WithRes(cur, ReadResult)
    /\ readOk' = (ReadResult # Res("error"))
    /\ DetectReplugin
    /\ DropReport
    /\ Notify(WithRes(cur, ReadResult), NoItem)
    /\ UNCHANGED <<hq, fresh, parked, ret, told, rxDead, nrx, plugged, used>>

\* Mutant of PopWhileBroken: only a read fails at once.
PopWhileBrokenRead ==
    /\ AtTop /\ hq # <<>> /\ ~readOk /\ Head(hq).kind = "rx"
    /\ fresh' = WithRes(Head(hq), Res("error"))
    /\ hq' = Tail(hq)
    /\ hpc' = "new"
    /\ UNCHANGED <<cur, parked, ret, readOk, replugin, told, rxVars, plugged, used>>

\* The last read failed: a new item fails at once.
PopWhileBroken ==
    /\ AtTop /\ hq # <<>> /\ ~readOk
    /\ fresh' = WithRes(Head(hq), Res("error"))
    /\ hq' = Tail(hq)
    /\ hpc' = "new"
    /\ UNCHANGED <<cur, parked, ret, readOk, replugin, told, rxVars, plugged, used>>

\* Mutants of PopPark: the read goes to the front; any item is parked.
PopParkFront ==
    /\ AtTop /\ hq # <<>> /\ readOk
    /\ Exists(cur) /\ cur.kind = "rx" /\ Head(hq).kind = "rx"
    /\ parked' = <<Head(hq)>> \o parked
    /\ hq' = Tail(hq)
    /\ UNCHANGED <<cur, fresh, hpc, ret, readOk, replugin, told, rxVars, plugged, used>>
PopParkAny ==
    /\ AtTop /\ hq # <<>> /\ readOk
    /\ Exists(cur) /\ cur.kind = "rx"
    /\ parked' = Append(parked, Head(hq))
    /\ hq' = Tail(hq)
    /\ UNCHANGED <<cur, fresh, hpc, ret, readOk, replugin, told, rxVars, plugged, used>>

\* A read arrives while a read is current: it is parked.
PopPark ==
    /\ AtTop /\ hq # <<>> /\ readOk
    /\ Exists(cur) /\ cur.kind = "rx" /\ Head(hq).kind = "rx"
    /\ parked' = Append(parked, Head(hq))
    /\ hq' = Tail(hq)
    /\ UNCHANGED <<cur, fresh, hpc, ret, readOk, replugin, told, rxVars, plugged, used>>

\* A new item cancels the current one (_process_new_request_and_set_result).
PopRun(kind) ==
    /\ AtTop /\ hq # <<>> /\ readOk
    /\ Head(hq).kind = kind
    /\ ~(Exists(cur) /\ cur.kind = "rx" /\ kind = "rx")
    /\ hq' = Tail(hq)

\* Mutant of Cancelled: the current item is dropped and not told.
CancelledSilently == NoItem

Cancelled == IF Exists(cur) THEN WithRes(cur, Res("cancel")) ELSE cur

PopCancel ==
    /\ PopRun("cancel")
    /\ cur' = Cancelled
    /\ fresh' = WithRes(Head(hq), Res("success"))
    /\ Notify(cur', fresh')
    /\ UNCHANGED <<parked, ret, readOk, replugin, told, rxVars, plugged, used>>

\* _process_only_tx flushes the receive queue, then writes; a write may fail.
PopWrite ==
    /\ PopRun("tx")
    /\ cur' = Cancelled
    /\ \E st \in {"success", "error"} : fresh' = WithRes(Head(hq), Res(st))
    /\ rxq' = <<>>
    /\ Notify(cur', fresh')
    /\ UNCHANGED <<parked, ret, readOk, replugin, told, rxDead, nrx, plugged, used>>

\* _process_tx_rx: flush, write, then drop reports until the answer of the
\* device or until the tries are used up.  The receive thread may die
\* meanwhile, which this loop sees.
PopWriteRead ==
    /\ PopRun("txrx")
    /\ cur' = Cancelled
    /\ rxq' = <<>>
    /\ \/ /\ \E st \in {"error"} \cup (IF rxDead THEN {} ELSE {"success"}) :
                fresh' = WithRes(Head(hq), Res(st))
          /\ UNCHANGED <<replugin, rxDead>>
       \/ /\ "null" \in RxKind /\ ~rxDead
          /\ fresh' = WithRes(Head(hq), Res("error"))
          /\ replugin' = TRUE
          /\ rxDead' = TRUE
    /\ Notify(cur', fresh')
    /\ UNCHANGED <<parked, ret, readOk, told, nrx, plugged, used>>

\* A read with no current item: it is tried once as a new item; if no report
\* is there it becomes current and is tried again in the same iteration.
PopRead ==
    /\ PopRun("rx")
    /\ DropReport
    /\ DetectReplugin
    /\ IF ReadResult = NotYet
       THEN /\ cur' = Head(hq)
            /\ hpc' = "reread"
            /\ UNCHANGED fresh
       ELSE /\ fresh' = WithRes(Head(hq), ReadResult)
            /\ hpc' = "new"
            /\ UNCHANGED cur
    /\ UNCHANGED <<parked, ret, readOk, told, rxDead, nrx, plugged, used>>

\* What the callback of a complete item may return: only a read callback asks
\* to read again, and only in shared mode do other requests want a report.
Returns(cb) ==
    {r \in Return :
        /\ cb # "shared" => r.more = {}
        /\ cb = "sync" => r.done
        /\ r.more \subseteq used}

\* The callback of the current item runs ...
RunCur(r) ==
    /\ plugged /\ hpc = "cur"
    /\ ret' = r
    /\ hpc' = "cur_end"
    /\ UNCHANGED <<hq, cur, fresh, parked, readOk, replugin, told, rxVars, plugged, used>>

ReadAgain == ~ret.done \/ cur.uid \in ret.more

\* ... and returns.  The item is read again if the callback did not accept the
\* outcome or if the item itself still wants a report.  Otherwise it is
\* served, and the reads parked behind it are taken up if somebody wants a
\* report, and dropped if nobody does.
FinishCur ==
    /\ plugged /\ hpc = "cur_end"
    /\ cur' = IF ReadAgain THEN Reset(cur)
              ELSE IF ret.more # {} /\ parked # <<>> THEN Head(parked)
              ELSE NoItem
    /\ parked' = IF ReadAgain \/ parked = <<>> THEN parked
                 ELSE IF ret.more # {} THEN Tail(parked)
                 ELSE <<>>
    /\ told' = IF ReadAgain THEN told ELSE told \cup {cur.uid}
    /\ hpc' = IF IsComplete(fresh) THEN "new" ELSE "top"
    /\ ret' = NoReturn
    /\ UNCHANGED <<hq, fresh, readOk, replugin, rxVars, plugged, used>>

\* The callback of a new item runs ...
RunNew(r) ==
    /\ plugged /\ hpc = "new"
    /\ ret' = r
    /\ hpc' = "new_end"
    /\ UNCHANGED <<hq, cur, fresh, parked, readOk, replugin, told, rxVars, plugged, used>>

\* ... and returns.  Whatever it returns, the item is removed: one whose
\* callback did not accept the outcome is gone without another.
FinishNew ==
    /\ plugged /\ hpc = "new_end"
    /\ fresh' = NoItem
    /\ told' = IF ret.done /\ fresh.uid \notin ret.more THEN told \cup {fresh.uid} ELSE told
    /\ hpc' = "top"
    /\ ret' = NoReturn
    /\ UNCHANGED <<hq, cur, parked, readOk, replugin, rxVars, plugged, used>>

-----------------------------------------------------------------------------
(* The device is unplugged: the library destroys the instance, which joins  *)
(* the worker at the end of an iteration.  What the worker held is freed    *)
(* and no callback is called for it.                                        *)
Unplug ==
    /\ MayUnplug /\ AtTop
    /\ plugged' = FALSE
    /\ hq' = <<>> /\ cur' = NoItem /\ fresh' = NoItem /\ parked' = <<>>
    /\ rxq' = <<>>
    /\ UNCHANGED <<hpc, ret, readOk, replugin, told, rxDead, nrx, used>>

-----------------------------------------------------------------------------
(* The driver on its own: any item may be submitted at any time.            *)

HidInit ==
    /\ hq = <<>> /\ cur = NoItem /\ fresh = NoItem /\ parked = <<>>
    /\ hpc = "top" /\ ret = NoReturn
    /\ readOk = TRUE /\ replugin = FALSE
    /\ rxq = <<>> /\ rxDead = FALSE /\ nrx = 0
    /\ plugged = TRUE
    /\ used = {} /\ told = {}

Submit(uid, kind, cb) ==
    /\ plugged
    /\ \A v \in used : v < uid
    /\ kind # "rx" => cb = "sync"
    /\ Start(uid, kind, cb)
    /\ UNCHANGED <<workerVars, rxVars, plugged>>

Callbacks ==
    \/ \E r \in Returns(cur.cb) : RunCur(r)
    \/ \E r \in Returns(fresh.cb) : RunNew(r)

\* The steps of the worker that no callback is part of.
Serve ==
    \/ Pump \/ ReadCurrent
    \/ PopWhileBroken \/ PopPark \/ PopCancel \/ PopWrite \/ PopWriteRead \/ PopRead
    \/ FinishCur \/ FinishNew

HidNext ==
    \/ \E uid \in Uid, kind \in Kind, cb \in Callback : Submit(uid, kind, cb)
    \/ \E kind \in RxKind : Receive(kind)
    \/ Serve
    \/ Callbacks
    \/ Unplug

HidSpec == HidInit /\ [][HidNext]_hidVars

\* The worker thread runs as long as the instance exists.
HidFairSpec == HidSpec /\ WF_hidVars(Serve \/ Callbacks)

-----------------------------------------------------------------------------
(* Properties.                                                              *)

\* The kinds of state the worker and the receive thread can be in.
TypeOK ==
    /\ hq \in Seq(Item)
    /\ cur \in Item /\ fresh \in Item
    /\ parked \in Seq(Item)
    /\ hpc \in {"top", "reread", "cur", "cur_end", "new", "new_end"}
    /\ ret \in Return
    /\ readOk \in BOOLEAN /\ replugin \in BOOLEAN
    /\ rxq \in Seq(Report)
    /\ rxDead \in BOOLEAN /\ nrx \in 0..MaxRx
    /\ plugged \in BOOLEAN
    /\ used \in SUBSET Uid /\ told \in SUBSET Uid

\* An outcome is given to the callback of the current item before that of the
\* new one, and none is left over when the worker takes the next item: the
\* notification area of the loop serves both, in this order, or nobody would.
NotifyOldFirst ==
    /\ hpc \in {"top", "reread"} => ~IsComplete(cur) /\ ~Exists(fresh)
    /\ hpc \in {"cur", "cur_end"} => IsComplete(cur)
    /\ hpc \in {"cur", "cur_end"} /\ Exists(fresh) => IsComplete(fresh)
    /\ hpc \in {"new", "new_end"} => IsComplete(fresh) /\ ~IsComplete(cur)

\* Only reads are parked, and only behind a current read: cancelling or serving
\* the current one always takes up or drops the parked ones with it, so the
\* worker never idles (discarding reports in _pump) while reads wait.
ReadyForParked ==
    /\ Exists(cur) => cur.kind = "rx"
    /\ \A i \in DOMAIN parked : parked[i].kind = "rx"
    /\ parked # <<>> => Exists(cur)

\* The items the worker and its queues hold, in the order they are served in.
Optional(i) == IF Exists(i) THEN <<i>> ELSE <<>>
Line == Optional(cur) \o parked \o Optional(fresh) \o hq

\* Items are held in the order they were started in, each in one place, and an
\* item whose callback has accepted an outcome is held nowhere: no item is
\* overtaken, served twice or kept after its end, whatever the callbacks of
\* other items make the worker do with the parked reads.
InOrder ==
    /\ \A i, j \in DOMAIN Line : i < j => Line[i].uid < Line[j].uid
    /\ \A i \in DOMAIN Line : Line[i].uid \in used \ told

\* Reports are delivered in the order the device sent them: the report an item
\* holds as its outcome is older than every report still queued.
ReportsInOrder ==
    /\ \A i, j \in DOMAIN rxq : i < j => rxq[i].no < rxq[j].no
    /\ \A i \in DOMAIN rxq : cur.res.no < rxq[i].no /\ fresh.res.no < rxq[i].no

\* The instance is marked for removal only when its receive thread has really
\* given up, and the error mark it leaves is the last thing it queues.
RepluginJustified ==
    /\ replugin => rxDead
    /\ \A i \in DOMAIN rxq : rxq[i].kind = "null" => rxDead /\ i = Len(rxq)

\* Every write, transmit and cancel is answered unless the device is unplugged:
\* its sender blocks until the callback has run, without a timeout.
NonReadServed ==
    \A u \in Uid :
        (\E i \in DOMAIN hq : hq[i].uid = u /\ hq[i].kind # "rx") ~> u \in told \/ ~plugged
=============================================================================
