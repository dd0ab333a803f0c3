------------------------------ MODULE OposMsr ------------------------------
(***************************************************************************)
(* The OPOS service object for a card reader on USB: the calls of the      *)
(* application (CSoMsr), the thread that waits for cards (CWorker), and    *)
(* the queue of the events that cannot be told yet (CFireEvent).  Below it *)
(* lies lpu237_dll, which waits for one card at a time.                    *)
(*                                                                         *)
(* The calls come from one thread at a time.  Opening and closing hand a   *)
(* request to the worker and wait two seconds for it; the worker may take  *)
(* longer, for it runs the application's handlers of events and the calls  *)
(* of the library, and does nothing while the system is suspended.         *)
(***************************************************************************)
EXTENDS Integers, Sequences

CONSTANTS
    MaxCards,   \* bound: cards swiped while the library waits for one
    MaxOpens,   \* bound: calls of OpenService
    MaxFaults   \* bound: suspensions, and times the device is pulled

ASSUME OposAssumption == MaxCards \in Nat /\ MaxOpens \in Nat /\ MaxFaults \in Nat

VARIABLES
    app,         \* the call that waits, and the number of its request
    opened,      \* the application has opened the service object
    claimed, devEnabled, dataEnabled, frozen,
    devq,        \* m_pDeviceQ: requests to the worker
    done,        \* the request completed last
    wake,        \* m_WakeupEvent
    eventq,      \* m_DEventQ: the card of each event that waits
    data,        \* the card in m_vTrackData
    wk,          \* the worker: its place, and the card of the event at hand
    bOpen, reqRead, suspend, recover,
    dev,         \* m_hDev, and the library's and the reader's side of it
    usbDone,     \* m_UsbMsrDoneEvent
    present,     \* the reader is plugged in
    cards, opens, faults,
    told,        \* history: cards whose event the application has got
    late,        \* history: a request was not completed in two seconds
    pulled       \* history: the reader was pulled while it was open

appVars == <<app, opened, claimed, devEnabled, dataEnabled, frozen>>
queueVars == <<devq, done, wake>>
eventVars == <<eventq, data, told>>
workVars == <<bOpen, reqRead, suspend, recover>>
readerVars == <<dev, usbDone>>
envVars == <<present, cards, opens, faults, late, pulled>>
vars == <<appVars, queueVars, eventVars, wk, workVars, readerVars, envVars>>

Cards == 1 .. MaxCards
Idle == [call |-> "idle", no |-> 0]
At(pc, card) == [pc |-> pc, card |-> card]

\* handle: m_hDev; held: the library has the reader open; dead: it has been
\* pulled since; opos: the reader gives its cards to the program; reading:
\* the library waits for one; result: the card of the wait started last.
NoDev == [handle |-> FALSE, held |-> FALSE, dead |-> FALSE, opos |-> FALSE,
          reading |-> FALSE, result |-> 0]

\* The types; a device that is enabled is claimed.
TypeOK ==
    /\ devEnabled => claimed
    /\ app \in [call : {"idle", "open", "close"}, no : 0 .. 2 * MaxOpens]
    /\ {opened, claimed, devEnabled, dataEnabled, frozen} \subseteq BOOLEAN
    /\ devq \in Seq([cmd : {"enter", "leave"}, no : 1 .. 2 * MaxOpens])
    /\ done \in 0 .. 2 * MaxOpens /\ wake \in BOOLEAN
    /\ eventq \in Seq(Cards)
    /\ data \in 0 .. MaxCards /\ told \subseteq Cards
    /\ wk \in [pc : {"wait", "fireq", "take", "tell", "handlerQ", "fire", "queue", "handler", "over"},
               card : 0 .. MaxCards]
    /\ {bOpen, reqRead, suspend, recover} \subseteq BOOLEAN
    /\ dev \in [handle : BOOLEAN, held : BOOLEAN, dead : BOOLEAN, opos : BOOLEAN,
                reading : BOOLEAN, result : 0 .. MaxCards]
    /\ usbDone \in BOOLEAN /\ present \in BOOLEAN
    /\ cards \in 0 .. MaxCards /\ opens \in 0 .. MaxOpens /\ faults \in 0 .. MaxFaults
    /\ {late, pulled} \subseteq BOOLEAN

Init ==
    /\ app = Idle /\ opened = FALSE /\ claimed = FALSE /\ devEnabled = FALSE
    /\ dataEnabled = TRUE /\ frozen = FALSE
    /\ devq = << >> /\ done = 0 /\ wake = FALSE
    /\ eventq = << >> /\ data = 0 /\ told = {}
    /\ wk = At("wait", 0)
    /\ bOpen = FALSE /\ reqRead = FALSE /\ suspend = FALSE /\ recover = FALSE
    /\ dev = NoDev /\ usbDone = FALSE
    /\ present \in BOOLEAN
    /\ cards = 0 /\ opens = 0 /\ faults = 0 /\ late = FALSE /\ pulled = FALSE

-----------------------------------------------------------------------------
(* The library.                                                            *)

\* The handle is closed: a wait ends with no card, and may say so.
Closed == IF dev.handle THEN NoDev ELSE dev
CloseDev ==
    /\ dev' = [Closed EXCEPT !.handle = FALSE]
    /\ usbDone' \in {usbDone} \cup IF dev.handle /\ dev.reading THEN {TRUE} ELSE {}

\* A reader is opened that is there and that the library has not open.  It
\* does not give its cards to the program yet.
Openable(d) == present /\ ~d.held

\* The old handle is closed and the reader is looked for and opened again.
FindOpenEnterOpos ==
    /\ dev' = [Closed EXCEPT !.handle = Openable(Closed), !.held = @ \/ Openable(Closed)]
    /\ usbDone' \in {usbDone} \cup IF dev.handle /\ dev.reading THEN {TRUE} ELSE {}

-----------------------------------------------------------------------------
(* The application.                                                        *)

Ready == app = Idle /\ opened
Ask(cmd, no) == devq' = Append(devq, [cmd |-> cmd, no |-> no]) /\ wake' = TRUE

\* OpenService: the properties are reset, the reader is opened and enabled,
\* the worker is to enter the OPOS mode.  If the reader cannot be opened the
\* call fails.
OpenService ==
    /\ app = Idle /\ ~opened /\ opens < MaxOpens
    /\ opens' = opens + 1
    /\ dataEnabled' = FALSE /\ devEnabled' = FALSE /\ frozen' = FALSE
    /\ \/ /\ Openable(dev)
          /\ dev' = [NoDev EXCEPT !.handle = TRUE, !.held = TRUE, !.opos = TRUE]
          /\ app' = [call |-> "open", no |-> 2 * opens + 1]
          /\ Ask("enter", 2 * opens + 1)
       \/ /\ ~Openable(dev)
          /\ dev' = [dev EXCEPT !.handle = @ /\ ~present]
          /\ UNCHANGED <<app, devq, wake>>
    /\ UNCHANGED <<opened, claimed, done, eventVars, wk, workVars, usbDone, present, cards,
                   faults, late, pulled>>

\* The wait of OpenService ends, also when the worker did nothing: the call
\* succeeds all the same.
OpenReturns ==
    /\ app.call = "open"
    /\ app' = Idle /\ opened' = TRUE
    /\ late' = (late \/ done # app.no)
    /\ UNCHANGED <<claimed, devEnabled, dataEnabled, frozen, queueVars, eventVars,
                   wk, workVars, readerVars, present, cards, opens, faults, pulled>>

Close ==
    /\ Ready
    /\ app' = [call |-> "close", no |-> 2 * opens] /\ Ask("leave", 2 * opens)
    /\ UNCHANGED <<opened, claimed, devEnabled, dataEnabled, frozen, done,
                   eventVars, wk, workVars, readerVars, envVars>>

\* Mutant of Release: the device stays enabled.
ReleaseOnly ==
    /\ claimed' = FALSE /\ UNCHANGED devEnabled
    /\ devq' = IF claimed THEN << >> ELSE devq

\* Releasing the device disables it and drops the requests of the worker,
\* not the events.
Release ==
    /\ claimed' = FALSE /\ devEnabled' = FALSE
    /\ devq' = IF claimed THEN << >> ELSE devq

\* Mutant of CloseReturns: the reader is closed while it is being opened or
\* left by the worker.
CloseWaitsNot ==
    /\ app.call = "close"
    /\ app' = Idle /\ opened' = FALSE
    /\ Release /\ CloseDev
    /\ UNCHANGED <<dataEnabled, frozen, done, wake, eventVars, wk, workVars,
                   present, cards, opens, faults, late, pulled>>

\* The wait of Close ends, the handle is closed and the device released.
CloseReturns ==
    /\ app.call = "close"
    /\ app' = Idle /\ opened' = FALSE
    /\ Release /\ CloseDev
    /\ late' = (late \/ done # app.no)
    /\ UNCHANGED <<dataEnabled, frozen, done, wake, eventVars, wk, workVars,
                   present, cards, opens, faults, pulled>>

ClaimDevice ==
    /\ Ready /\ claimed' = TRUE
    /\ UNCHANGED <<app, opened, devEnabled, dataEnabled, frozen, queueVars,
                   eventVars, wk, workVars, readerVars, envVars>>

ReleaseDevice ==
    /\ Ready /\ claimed /\ Release
    /\ UNCHANGED <<app, opened, dataEnabled, frozen, done, wake, eventVars, wk,
                   workVars, readerVars, envVars>>

\* Requests and events are dropped.
ClearInput ==
    /\ Ready /\ claimed
    /\ devq' = << >> /\ eventq' = << >>
    /\ UNCHANGED <<appVars, done, wake, data, told, wk, workVars, readerVars, envVars>>

\* The properties that the application sets; the device is enabled only if
\* it is claimed.
SetPropertyNumber ==
    /\ Ready
    /\ \E b \in BOOLEAN :
         \/ dataEnabled' = b /\ UNCHANGED <<devEnabled, frozen>>
         \/ claimed /\ devEnabled' = b /\ UNCHANGED <<dataEnabled, frozen>>
         \/ frozen' = b /\ UNCHANGED <<dataEnabled, devEnabled>>
    /\ UNCHANGED <<app, opened, claimed, queueVars, eventVars, wk, workVars, readerVars, envVars>>

-----------------------------------------------------------------------------
(* The worker.                                                             *)

\* The wait ends with the wake-up, or, if the library has nothing to tell
\* either, after 50 ms.
Polls == wk.pc = "wait" /\ ~suspend /\ (wake \/ ~usbDone) /\ wake' = FALSE

TakeRequest ==
    /\ Polls /\ devq # << >>
    /\ devq' = Tail(devq) /\ done' = Head(devq).no
    /\ \/ /\ Head(devq).cmd = "enter"
          /\ bOpen' = (bOpen \/ ~recover) /\ reqRead' = (reqRead \/ ~recover)
          /\ UNCHANGED recover
       \/ /\ Head(devq).cmd = "leave"
          /\ bOpen' = FALSE /\ recover' = FALSE /\ reqRead' = (reqRead /\ recover)
    /\ UNCHANGED <<appVars, eventVars, wk, suspend, readerVars, envVars>>

\* A new wait for a card ends the one before, whose callback may come.  It
\* fails for a handle that is closed or dead, and is tried again.
StartRead ==
    IF reqRead /\ dev.handle /\ dev.held /\ ~dev.dead
    THEN /\ dev' = [dev EXCEPT !.reading = TRUE, !.result = 0] /\ reqRead' = FALSE
         /\ usbDone' \in {usbDone} \cup IF dev.reading THEN {TRUE} ELSE {}
    ELSE UNCHANGED <<dev, reqRead, usbDone>>

\* Mutant of PollNormal: the queue of events is looked at only when a wait
\* is to be started.
PollSelectively ==
    /\ Polls /\ devq = << >> /\ ~recover
    /\ StartRead
    /\ wk' = IF reqRead THEN At("fireq", 0) ELSE wk
    /\ UNCHANGED <<appVars, devq, done, eventVars, bOpen, suspend, recover, envVars>>

PollNormal ==
    /\ Polls /\ devq = << >> /\ ~recover
    /\ StartRead
    /\ wk' = At("fireq", 0)
    /\ UNCHANGED <<appVars, devq, done, eventVars, bOpen, suspend, recover, envVars>>

\* Without its reader the worker looks for one.
PollAbnormal ==
    /\ Polls /\ devq = << >> /\ recover
    /\ FindOpenEnterOpos
    /\ IF dev'.handle THEN bOpen' = TRUE /\ recover' = FALSE /\ reqRead' = TRUE
                      ELSE UNCHANGED <<bOpen, recover, reqRead>>
    /\ UNCHANGED <<appVars, devq, done, eventVars, wk, suspend, envVars>>

\* The library has told the end of the wait: a card, or nothing that could
\* be read.  The card's data replace those of the card before.
ReadDone ==
    /\ wk.pc = "wait" /\ ~suspend /\ ~wake /\ usbDone
    /\ usbDone' = FALSE
    /\ IF bOpen /\ ~recover /\ devEnabled /\ dev.result # 0
       THEN data' = dev.result /\ wk' = At("fire", dev.result) /\ UNCHANGED reqRead
       ELSE reqRead' = (reqRead \/ (bOpen /\ ~recover)) /\ UNCHANGED <<data, wk>>
    /\ UNCHANGED <<appVars, queueVars, eventq, told, bOpen, suspend, recover, dev, envVars>>

\* A suspended worker takes what it is told and does nothing.
Missed ==
    /\ wk.pc = "wait" /\ suspend /\ (wake \/ usbDone)
    /\ wake' = FALSE /\ usbDone' = (usbDone /\ wake)
    /\ UNCHANGED <<appVars, devq, done, eventVars, wk, workVars, dev, envVars>>

\* An event is told: the handler runs on the worker's thread.
Tell(card, pc) ==
    /\ dataEnabled' = FALSE /\ told' = told \cup {card} /\ wk' = At(pc, card)

\* CFireEvent::FireQ: are events wanted, is there one, tell it.
FireQ ==
    /\ \/ /\ wk.pc = "fireq"
          /\ wk' = At(IF dataEnabled /\ ~frozen THEN "take" ELSE "wait", 0)
          /\ UNCHANGED <<eventq, told, dataEnabled>>
       \/ /\ wk.pc = "take" /\ eventq = << >>
          /\ wk' = At("wait", 0)
          /\ UNCHANGED <<eventq, told, dataEnabled>>
       \/ /\ wk.pc = "take" /\ eventq # << >>
          /\ eventq' = Tail(eventq) /\ wk' = At("tell", Head(eventq))
          /\ UNCHANGED <<told, dataEnabled>>
       \/ /\ wk.pc = "tell"
          /\ Tell(wk.card, "handlerQ")
          /\ UNCHANGED eventq
    /\ UNCHANGED <<app, opened, claimed, devEnabled, frozen, queueVars, data,
                   workVars, readerVars, envVars>>

\* Mutant of EnQ: the event that waits is kept before the new one.
EnQKeeps(card) == eventq' = Append(eventq, card)

\* The queue holds the event of the last card only.
EnQ(card) == eventq' = <<card>>

\* CFireEvent::Fire for a card just read.  With no event waiting, or none
\* wanted, it is queued; otherwise it is told before the one that waits.
Fire ==
    /\ \/ /\ wk.pc = "fire"
          /\ IF dataEnabled /\ ~frozen /\ eventq # << >>
             THEN Tell(wk.card, "handler")
             ELSE wk' = [wk EXCEPT !.pc = "queue"] /\ UNCHANGED <<told, dataEnabled>>
          /\ UNCHANGED eventq
       \/ /\ wk.pc = "queue"
          /\ EnQ(wk.card) /\ wk' = [wk EXCEPT !.pc = "over"]
          /\ UNCHANGED <<told, dataEnabled>>
    /\ UNCHANGED <<app, opened, claimed, devEnabled, frozen, queueVars, data,
                   workVars, readerVars, envVars>>

\* What the worker does when a card's event has been told or queued.  With
\* AutoDisable, which the application may set or not, the device is disabled.
AfterFire ==
    /\ wk.pc = "over"
    /\ devEnabled' \in {devEnabled, FALSE} /\ reqRead' = TRUE /\ wk' = At("wait", 0)
    /\ UNCHANGED <<app, opened, claimed, dataEnabled, frozen, queueVars, eventVars,
                   bOpen, suspend, recover, readerVars, envVars>>

\* The application's handler returns.
InHandler == wk.pc \in {"handler", "handlerQ"}
HandlerReturns ==
    /\ InHandler
    /\ wk' = IF wk.pc = "handler" THEN [wk EXCEPT !.pc = "over"] ELSE At("wait", 0)
    /\ UNCHANGED <<appVars, queueVars, eventVars, workVars, readerVars, envVars>>

-----------------------------------------------------------------------------
(* The window of the worker, whose messages it handles while it waits, and *)
(* the world.                                                              *)

Suspend ==
    /\ wk.pc = "wait" /\ ~suspend /\ faults < MaxFaults
    /\ suspend' = TRUE /\ faults' = faults + 1
    /\ IF bOpen THEN CloseDev ELSE UNCHANGED readerVars
    /\ UNCHANGED <<appVars, queueVars, eventVars, wk, bOpen, reqRead, recover, present, cards,
                   opens, late, pulled>>

\* Mutant of Resume: the reader is opened again, but no wait for a card is
\* asked for.
ResumeIdly ==
    /\ wk.pc = "wait" /\ suspend
    /\ suspend' = FALSE
    /\ IF bOpen
       THEN /\ FindOpenEnterOpos
            /\ recover' = ~dev'.handle /\ UNCHANGED reqRead
       ELSE UNCHANGED <<readerVars, recover, reqRead>>
    /\ UNCHANGED <<appVars, queueVars, eventVars, wk, bOpen, envVars>>

Resume ==
    /\ wk.pc = "wait" /\ suspend
    /\ suspend' = FALSE
    /\ IF bOpen
       THEN /\ FindOpenEnterOpos
            /\ recover' = ~dev'.handle /\ reqRead' = (reqRead \/ dev'.handle)
       ELSE UNCHANGED <<readerVars, recover, reqRead>>
    /\ UNCHANGED <<appVars, queueVars, eventVars, wk, bOpen, envVars>>

\* A card is swiped while the reader gives its cards to the library and the
\* library waits for one.
Swipe ==
    /\ present /\ dev.reading /\ dev.opos /\ ~dev.dead /\ cards < MaxCards
    /\ cards' = cards + 1
    /\ dev' = [dev EXCEPT !.reading = FALSE, !.result = cards + 1] /\ usbDone' = TRUE
    /\ UNCHANGED <<appVars, queueVars, eventVars, wk, workVars, present, opens, faults, late,
                   pulled>>

\* A wait for a card that is pulled from under it ends without a card.
Unplug ==
    /\ present /\ faults < MaxFaults
    /\ present' = FALSE /\ faults' = faults + 1
    /\ pulled' = (pulled \/ dev.held)
    /\ dev' = [dev EXCEPT !.dead = dev.held, !.opos = FALSE, !.reading = FALSE,
                          !.result = IF dev.reading THEN 0 ELSE @]
    /\ usbDone' = (usbDone \/ dev.reading)
    /\ UNCHANGED <<appVars, queueVars, eventVars, wk, workVars, cards, opens, late>>

Plug ==
    /\ ~present /\ present' = TRUE
    /\ UNCHANGED <<appVars, queueVars, eventVars, wk, workVars, readerVars, cards, opens,
                   faults, late, pulled>>

-----------------------------------------------------------------------------
Poll == TakeRequest \/ PollNormal \/ PollAbnormal \/ Missed
Worker == Poll \/ ReadDone \/ FireQ \/ Fire \/ AfterFire \/ HandlerReturns
Call ==
    \/ OpenService \/ Close \/ ClaimDevice \/ ReleaseDevice \/ ClearInput
    \/ SetPropertyNumber
World == Suspend \/ Resume \/ Swipe \/ Unplug \/ Plug
Next == Worker \/ Call \/ OpenReturns \/ CloseReturns \/ World

\* The worker's thread runs, the handlers return, the waits of two seconds
\* end.  Nobody need call, swipe a card, or wake the system up.
Spec ==
    /\ Init /\ [][Next]_vars
    /\ WF_vars(Worker) /\ WF_vars(OpenReturns) /\ WF_vars(CloseReturns)

-----------------------------------------------------------------------------
(* What should hold.                                                       *)

\* What the handler of an event reads (GetPropertyString) are the data of
\* the event's card, or of one whose event it has had: an event never gives
\* away a card that has not been told.
NoUntoldCard == InHandler => data = wk.card \/ data \in told

\* After a close for which the worker has answered in time the reader is
\* closed, and the worker has nothing to do with it any more.
ClosedForGood ==
    ~opened /\ app = Idle /\ ~late =>
        /\ ~dev.handle /\ ~dev.held
        /\ devq = << >> /\ ~bOpen /\ ~recover

\* An event that can be told is told.
Deliverable ==
    /\ opened /\ ~suspend /\ ~recover
    /\ eventq # << >> /\ dataEnabled /\ ~frozen
EventsTold == []<>~Deliverable

\* The program waits for cards as long as it has the reader open, also after
\* the reader was away while the system was suspended.
Excused == \/ ~opened \/ app # Idle \/ suspend \/ ~present \/ late \/ pulled
Listens == []<>(dev.reading \/ Excused)

\* While the program waits for a card the reader is in the mode in which it
\* gives its cards to the program.
ReadyForCards == dev.reading => dev.opos
=============================================================================
