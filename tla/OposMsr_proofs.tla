--------------------------- MODULE OposMsr_proofs ---------------------------
(***************************************************************************)
(* Proofs about the OPOS service object, for any number of cards, of opens *)
(* and closes, and of suspensions and unplugs.                             *)
(*                                                                         *)
(* No event gives away a card that has not been told (NoUntoldCard),       *)
(* although the data of a new card replace those of the last while that    *)
(* one's event still waits.  CardInv says why: whatever waits is the card  *)
(* whose data are there, or that card's event has been told before it; the *)
(* moment between the reading of the data and the event, in which neither  *)
(* holds, belongs to the worker alone.                                     *)
(*                                                                         *)
(* A close that the worker answered in time leaves nothing open and        *)
(* nothing to do (ClosedForGood).  CloseInv follows the service object     *)
(* through the phases of its life: the numbers of the requests tell a call *)
(* that waits whether the worker has seen its request or will see it.      *)
(***************************************************************************)
EXTENDS OposMsr, TLAPS

-----------------------------------------------------------------------------
(* Types.                                                                   *)

Device == [handle : BOOLEAN, held : BOOLEAN, dead : BOOLEAN, opos : BOOLEAN,
           reading : BOOLEAN, result : 0 .. MaxCards]
Request == [cmd : {"enter", "leave"}, no : 1 .. 2 * MaxOpens]
Places == [pc : {"wait", "fireq", "take", "tell", "handlerQ", "fire", "queue", "handler", "over"},
           card : 0 .. MaxCards]

\* The types, for each group of variables.  The worker has a card where it
\* needs one; who has opened the service object, or is doing so, has called
\* OpenService.
AppTypes ==
    /\ app \in [call : {"idle", "open", "close"}, no : 0 .. 2 * MaxOpens]
    /\ opened \in BOOLEAN /\ claimed \in BOOLEAN /\ devEnabled \in BOOLEAN
    /\ dataEnabled \in BOOLEAN /\ frozen \in BOOLEAN
    /\ devEnabled => claimed
QueueTypes == devq \in Seq(Request) /\ done \in 0 .. 2 * MaxOpens /\ wake \in BOOLEAN
EventTypes == eventq \in Seq(Cards) /\ data \in 0 .. MaxCards /\ told \subseteq Cards
WkTypes == wk \in Places /\ (wk.pc \in {"tell", "fire", "queue"} => wk.card \in Cards)
WorkTypes == bOpen \in BOOLEAN /\ reqRead \in BOOLEAN /\ suspend \in BOOLEAN /\ recover \in BOOLEAN
ReaderTypes == dev \in Device /\ usbDone \in BOOLEAN
EnvTypes ==
    /\ present \in BOOLEAN /\ cards \in 0 .. MaxCards /\ opens \in 0 .. MaxOpens
    /\ faults \in 0 .. MaxFaults /\ late \in BOOLEAN /\ pulled \in BOOLEAN
Counted == opened \/ app # Idle => opens > 0
TypeInv ==
    AppTypes /\ QueueTypes /\ EventTypes /\ WkTypes /\ WorkTypes /\ ReaderTypes /\ EnvTypes
    /\ Counted

\* The groups have the types that TypeOK names.
LEMMA TypesAreOK == TypeInv => TypeOK
<1> SUFFICES ASSUME TypeInv PROVE TypeOK
    OBVIOUS
<1>1. AppTypes /\ QueueTypes /\ EventTypes
    BY DEF TypeInv
<1>2. WkTypes /\ WorkTypes /\ ReaderTypes /\ EnvTypes
    BY DEF TypeInv
<1> QED
    BY <1>1, <1>2
    DEF TypeOK, AppTypes, QueueTypes, EventTypes, WkTypes, WorkTypes, ReaderTypes, EnvTypes,
        Device, Request, Places

\* What a step leaves alone keeps its types.
LEMMA Untouched ==
    /\ AppTypes /\ UNCHANGED appVars => AppTypes'
    /\ QueueTypes /\ UNCHANGED queueVars => QueueTypes'
    /\ EventTypes /\ UNCHANGED eventVars => EventTypes'
    /\ WkTypes /\ UNCHANGED wk => WkTypes'
    /\ WorkTypes /\ UNCHANGED workVars => WorkTypes'
    /\ ReaderTypes /\ UNCHANGED readerVars => ReaderTypes'
    /\ EnvTypes /\ UNCHANGED envVars => EnvTypes'
<1>1. AppTypes /\ UNCHANGED appVars => AppTypes'
    BY DEF AppTypes, appVars
<1>2. QueueTypes /\ UNCHANGED queueVars => QueueTypes'
    BY DEF QueueTypes, queueVars
<1>3. EventTypes /\ UNCHANGED eventVars => EventTypes'
    BY DEF EventTypes, eventVars
<1>4. WorkTypes /\ UNCHANGED workVars => WorkTypes'
    BY DEF WorkTypes, workVars
<1>5. ReaderTypes /\ UNCHANGED readerVars => ReaderTypes'
    BY DEF ReaderTypes, readerVars
<1>6. EnvTypes /\ UNCHANGED envVars => EnvTypes'
    BY DEF EnvTypes, envVars
<1>7. WkTypes /\ UNCHANGED wk => WkTypes'
    BY DEF WkTypes
<1> QED
    BY <1>1, <1>2, <1>3, <1>4, <1>5, <1>6, <1>7

\* What is left of a queue, and a queue with an element more.
LEMMA QueueFacts ==
    ASSUME NEW S, NEW q \in Seq(S)
    PROVE  /\ << >> \in Seq(S)
           /\ q # << >> => Head(q) \in S /\ Tail(q) \in Seq(S) /\ 1 \in DOMAIN q /\ Head(q) = q[1]
           /\ q # << >> => \A k \in DOMAIN Tail(q) : k + 1 \in DOMAIN q /\ Tail(q)[k] = q[k + 1]
           /\ \A e \in S : Append(q, e) \in Seq(S) /\ <<e>> \in Seq(S)
    OBVIOUS

\* The reader stays what it is when it is closed, looked for, or read.
LEMMA DeviceTypes ==
    ASSUME ReaderTypes
    PROVE  /\ NoDev \in Device /\ Closed \in Device
           /\ CloseDev => ReaderTypes'
           /\ FindOpenEnterOpos => ReaderTypes'
           /\ StartRead => ReaderTypes'
<1> USE DEF ReaderTypes
<1>1. NoDev \in Device
    BY OposAssumption DEF NoDev, Device
<1>2. Closed \in Device
    BY <1>1 DEF Closed
<1>3. CloseDev => ReaderTypes'
    BY <1>2 DEF CloseDev, Device
<1>4. FindOpenEnterOpos => ReaderTypes'
    <2> DEFINE o == Openable(Closed)
               c == Closed
    <2>1. o \in BOOLEAN /\ c \in Device
        BY <1>2 DEF Openable
    <2>2. FindOpenEnterOpos => /\ dev' = [c EXCEPT !.handle = o, !.held = c.held \/ o]
                               /\ usbDone' \in BOOLEAN
        BY DEF FindOpenEnterOpos
    <2> HIDE DEF o, c
    <2> QED
        BY <2>1, <2>2 DEF Device
<1>5. StartRead => ReaderTypes'
    <2>1. 0 \in 0 .. MaxCards
        BY OposAssumption
    <2>2. [dev EXCEPT !.reading = TRUE] \in Device
        BY DEF Device
    <2>3. [dev EXCEPT !.reading = TRUE, !.result = 0] \in Device
        BY <2>1, <2>2 DEF Device
    <2> QED
        BY <2>3 DEF StartRead
<1> QED
    BY <1>1, <1>2, <1>3, <1>4, <1>5

\* The calls that open and close, and their ends.
LEMMA OpenCloseTypes ==
    ASSUME TypeInv, OpenService \/ OpenReturns \/ Close \/ CloseReturns
    PROVE  TypeInv'
<1> USE DEF TypeInv
<1>0. Idle \in [call : {"idle", "open", "close"}, no : 0 .. 2 * MaxOpens]
    BY OposAssumption DEF Idle
<1>1. CASE OpenService
    <2>1. /\ 2 * opens + 1 \in 1 .. 2 * MaxOpens /\ 2 * opens + 1 \in 0 .. 2 * MaxOpens
          /\ opens' \in 0 .. MaxOpens /\ opens' > 0
        BY <1>1, OposAssumption DEF EnvTypes, OpenService
    <2>2. /\ AppTypes /\ dataEnabled' = FALSE /\ devEnabled' = FALSE /\ frozen' = FALSE
          /\ UNCHANGED <<opened, claimed, done, eventVars, wk, workVars, usbDone>>
          /\ UNCHANGED <<present, cards, faults, late, pulled>>
        BY <1>1 DEF OpenService
    <2>3. CASE Openable(dev) /\ dev' = [NoDev EXCEPT !.handle = TRUE, !.held = TRUE, !.opos = TRUE]
               /\ app' = [call |-> "open", no |-> 2 * opens + 1] /\ Ask("enter", 2 * opens + 1)
        <3>1. devq' \in Seq(Request) /\ wake' \in BOOLEAN
            BY <2>1, <2>3, QueueFacts DEF QueueTypes, Ask, Request
        <3>2. dev' \in Device
            BY <2>3, DeviceTypes DEF Device
        <3>3. AppTypes'
            BY <2>1, <2>2, <2>3 DEF AppTypes
        <3> QED
            BY <2>1, <2>2, <3>1, <3>2, <3>3, Untouched DEF QueueTypes, ReaderTypes, EnvTypes, Counted
    <2>4. CASE ~Openable(dev) /\ dev' = [dev EXCEPT !.handle = @ /\ ~present]
               /\ UNCHANGED <<app, devq, wake>>
        <3>1. dev' \in Device
            BY <2>4 DEF ReaderTypes, Device
        <3>2. AppTypes'
            BY <2>2, <2>4 DEF AppTypes
        <3> QED
            BY <2>1, <2>2, <2>4, <3>1, <3>2, Untouched
            DEF QueueTypes, ReaderTypes, EnvTypes, Counted
    <2> QED
        BY <1>1, <2>3, <2>4 DEF OpenService
<1>2. CASE OpenReturns
    <2>1. AppTypes' /\ EnvTypes'
        BY <1>0, <1>2 DEF OpenReturns, AppTypes, EnvTypes
    <2>2. Counted'
        BY <1>2 DEF OpenReturns, Counted, Idle
    <2> QED
        BY <1>2, <2>1, <2>2, Untouched DEF OpenReturns
<1>3. CASE Close
    <2>1. /\ 2 * opens \in 0 .. 2 * MaxOpens /\ 2 * opens \in 1 .. 2 * MaxOpens
          /\ opens > 0
        BY <1>3, OposAssumption DEF EnvTypes, Close, Ready, Counted
    <2>2. QueueTypes'
        BY <1>3, <2>1, QueueFacts DEF QueueTypes, Close, Ask, Request
    <2>3. AppTypes' /\ Counted'
        BY <1>3, <2>1 DEF Close, AppTypes, Counted, envVars
    <2> QED
        BY <1>3, <2>2, <2>3, Untouched DEF Close
<1>4. CASE CloseReturns
    <2>1. QueueTypes'
        BY <1>4, QueueFacts DEF QueueTypes, CloseReturns, Release
    <2>2. AppTypes' /\ EnvTypes' /\ Counted'
        BY <1>0, <1>4 DEF CloseReturns, Release, AppTypes, EnvTypes, Counted
    <2>3. ReaderTypes'
        BY <1>4, DeviceTypes DEF CloseReturns
    <2> QED
        BY <1>4, <2>1, <2>2, <2>3, Untouched DEF CloseReturns
<1> QED
    BY <1>1, <1>2, <1>3, <1>4

\* The calls that do not wait.
LEMMA CallTypes ==
    ASSUME TypeInv, ClaimDevice \/ ReleaseDevice \/ ClearInput \/ SetPropertyNumber
    PROVE  TypeInv'
<1> USE DEF TypeInv
<1>1. CASE ClaimDevice
    BY <1>1, Untouched DEF ClaimDevice, AppTypes, Counted, envVars
<1>2. CASE ReleaseDevice
    <2>1. QueueTypes'
        BY <1>2, QueueFacts DEF QueueTypes, ReleaseDevice, Release
    <2>2. AppTypes' /\ Counted'
        BY <1>2 DEF ReleaseDevice, Release, AppTypes, Counted, envVars
    <2> QED
        BY <1>2, <2>1, <2>2, Untouched DEF ReleaseDevice
<1>3. CASE ClearInput
    <2>1. QueueTypes' /\ EventTypes'
        BY <1>3, QueueFacts DEF QueueTypes, EventTypes, ClearInput
    <2>2. Counted'
        BY <1>3 DEF ClearInput, Counted, envVars, appVars
    <2> QED
        BY <1>3, <2>1, <2>2, Untouched DEF ClearInput
<1>4. CASE SetPropertyNumber
    <2>1. AppTypes' /\ Counted'
        BY <1>4 DEF SetPropertyNumber, AppTypes, Counted, envVars
    <2> QED
        BY <1>4, <2>1, Untouched DEF SetPropertyNumber
<1> QED
    BY <1>1, <1>2, <1>3, <1>4

\* The steps in which the worker looks for something to do.
LEMMA PollTypes ==
    ASSUME TypeInv, Poll
    PROVE  TypeInv'
<1> USE DEF TypeInv
<1>1. CASE TakeRequest
    <2>1. devq' \in Seq(Request) /\ Head(devq) \in Request
        BY <1>1, QueueFacts DEF QueueTypes, TakeRequest
    <2>2. QueueTypes'
        <3>1. Head(devq).no \in 0 .. 2 * MaxOpens
            BY <2>1 DEF Request
        <3>2. done' = Head(devq).no /\ wake' = FALSE
            BY <1>1 DEF TakeRequest, Polls
        <3> QED
            BY <2>1, <3>1, <3>2 DEF QueueTypes
    <2>3. WorkTypes'
        BY <1>1 DEF WorkTypes, TakeRequest
    <2> QED
        BY <1>1, <2>2, <2>3, Untouched DEF TakeRequest, Counted, appVars, envVars
<1>2. CASE PollNormal
    <2>1. ReaderTypes' /\ WorkTypes'
        BY <1>2, DeviceTypes DEF PollNormal, StartRead, WorkTypes
    <2>2. WkTypes'
        BY <1>2, OposAssumption DEF PollNormal, At, Places, WkTypes
    <2>3. QueueTypes'
        BY <1>2 DEF PollNormal, Polls, QueueTypes
    <2> QED
        BY <1>2, <2>1, <2>2, <2>3, Untouched DEF PollNormal, Counted, appVars, envVars
<1>3. CASE PollAbnormal
    <2>1. ReaderTypes'
        BY <1>3, DeviceTypes DEF PollAbnormal
    <2>2. WorkTypes' /\ QueueTypes'
        BY <1>3 DEF PollAbnormal, Polls, WorkTypes, QueueTypes
    <2> QED
        BY <1>3, <2>1, <2>2, Untouched DEF PollAbnormal, Counted, appVars, envVars
<1>4. CASE Missed
    <2>1. ReaderTypes' /\ QueueTypes'
        BY <1>4 DEF Missed, ReaderTypes, QueueTypes
    <2> QED
        BY <1>4, <2>1, Untouched DEF Missed, Counted, appVars, envVars
<1> QED
    BY <1>1, <1>2, <1>3, <1>4 DEF Poll

\* The steps about a card and its event.
LEMMA CardTypes ==
    ASSUME TypeInv, ReadDone \/ FireQ \/ Fire \/ AfterFire \/ HandlerReturns
    PROVE  TypeInv'
<1> USE DEF TypeInv
<1>1. CASE ReadDone
    <2>1. dev.result \in 0 .. MaxCards
        BY DEF ReaderTypes, Device
    <2>2. EventTypes' /\ WkTypes'
        BY <1>1, <2>1 DEF EventTypes, ReadDone, At, Places, WkTypes, Cards
    <2>3. WorkTypes' /\ ReaderTypes'
        BY <1>1 DEF WorkTypes, ReaderTypes, ReadDone
    <2> QED
        BY <1>1, <2>2, <2>3, Untouched DEF ReadDone, Counted, appVars, envVars
<1>2. CASE FireQ
    <2>1. UNCHANGED <<app, opened, claimed, devEnabled, frozen, data>>
        BY <1>2 DEF FireQ
    <2>2. UNCHANGED queueVars /\ UNCHANGED workVars /\ UNCHANGED readerVars /\ UNCHANGED envVars
        BY <1>2 DEF FireQ
    <2>3. CASE wk.pc = "fireq" /\ wk' = At(IF dataEnabled /\ ~frozen THEN "take" ELSE "wait", 0)
               /\ UNCHANGED <<eventq, told, dataEnabled>>
        <3>1. WkTypes'
            BY <2>3, OposAssumption DEF At, Places, WkTypes
        <3> QED
            BY <2>1, <2>2, <2>3, <3>1, Untouched DEF Counted, envVars, appVars, eventVars
    <2>4. CASE wk.pc = "take" /\ eventq = << >> /\ wk' = At("wait", 0)
               /\ UNCHANGED <<eventq, told, dataEnabled>>
        <3>1. WkTypes'
            BY <2>4, OposAssumption DEF At, Places, WkTypes
        <3> QED
            BY <2>1, <2>2, <2>4, <3>1, Untouched DEF Counted, envVars, appVars, eventVars
    <2>5. CASE wk.pc = "take" /\ eventq # << >> /\ eventq' = Tail(eventq)
               /\ wk' = At("tell", Head(eventq)) /\ UNCHANGED <<told, dataEnabled>>
        <3>1. Head(eventq) \in Cards /\ eventq' \in Seq(Cards)
            BY <2>5, QueueFacts DEF EventTypes
        <3>2. WkTypes'
            BY <2>5, <3>1 DEF At, Places, WkTypes, Cards
        <3>3. EventTypes'
            BY <2>1, <2>5, <3>1 DEF EventTypes
        <3> QED
            BY <2>1, <2>2, <2>5, <3>2, <3>3, Untouched DEF Counted, envVars, appVars
    <2>6. CASE wk.pc = "tell" /\ Tell(wk.card, "handlerQ") /\ UNCHANGED eventq
        <3>1. WkTypes' /\ EventTypes' /\ AppTypes'
            BY <2>1, <2>6 DEF Tell, At, Places, WkTypes, EventTypes, AppTypes
        <3> QED
            BY <2>1, <2>2, <2>6, <3>1, Untouched DEF Counted, envVars
    <2> QED
        BY <1>2, <2>3, <2>4, <2>5, <2>6 DEF FireQ
<1>3. CASE Fire
    <2>1. UNCHANGED <<app, opened, claimed, devEnabled, frozen, data>>
        BY <1>3 DEF Fire
    <2>2. UNCHANGED queueVars /\ UNCHANGED workVars /\ UNCHANGED readerVars /\ UNCHANGED envVars
        BY <1>3 DEF Fire
    <2>3. WkTypes'
        <3>1. \/ wk' = At("handler", wk.card)
              \/ wk.pc = "fire" /\ wk' = [wk EXCEPT !.pc = "queue"]
              \/ wk' = [wk EXCEPT !.pc = "over"]
            BY <1>3 DEF Fire, Tell
        <3> QED
            BY <3>1 DEF At, Places, WkTypes
    <2>5. AppTypes'
        <3>1. dataEnabled' = FALSE \/ dataEnabled' = dataEnabled
            BY <1>3 DEF Fire, Tell
        <3> QED
            BY <2>1, <3>1 DEF AppTypes
    <2>4. EventTypes'
        <3>1. wk.card \in Cards
            BY <1>3 DEF Fire, WkTypes
        <3>2. <<wk.card>> \in Seq(Cards)
            BY <3>1
        <3> QED
            BY <1>3, <2>1, <3>1, <3>2 DEF Fire, Tell, EnQ, EventTypes
    <2> QED
        BY <2>1, <2>2, <2>3, <2>4, <2>5, Untouched DEF Counted, envVars
<1>4. CASE AfterFire
    <2>1. WkTypes'
        BY <1>4, OposAssumption DEF AfterFire, At, Places, WkTypes
    <2>2. WorkTypes'
        BY <1>4 DEF AfterFire, WorkTypes
    <2>3. AppTypes'
        <3>1. devEnabled' = devEnabled \/ devEnabled' = FALSE
            BY <1>4 DEF AfterFire
        <3>2. UNCHANGED <<app, opened, claimed, dataEnabled, frozen>>
            BY <1>4 DEF AfterFire
        <3>3. devEnabled' \in BOOLEAN /\ (devEnabled' => claimed')
            <4>1. devEnabled \in BOOLEAN /\ (devEnabled => claimed) /\ claimed' = claimed
                BY <3>2 DEF AppTypes
            <4>2. CASE devEnabled' = FALSE
                BY <4>2
            <4>3. CASE devEnabled' = devEnabled
                BY <4>1, <4>3
            <4> QED
                BY <3>1, <4>2, <4>3
        <3> QED
            BY <3>2, <3>3 DEF AppTypes
    <2> QED
        BY <1>4, <2>1, <2>2, <2>3, Untouched DEF AfterFire, Counted, envVars
<1>5. CASE HandlerReturns
    <2>1. WkTypes'
        BY <1>5, OposAssumption DEF HandlerReturns, At, Places, WkTypes, InHandler
    <2> QED
        BY <1>5, <2>1, Untouched DEF HandlerReturns, Counted, envVars, appVars
<1> QED
    BY <1>1, <1>2, <1>3, <1>4, <1>5

\* The messages of the window, and the world.
LEMMA WorldTypes ==
    ASSUME TypeInv, World
    PROVE  TypeInv'
<1> USE DEF TypeInv
<1>1. CASE Suspend
    <2>1. ReaderTypes'
        BY <1>1, DeviceTypes, Untouched DEF Suspend
    <2>2. WorkTypes' /\ EnvTypes'
        BY <1>1, OposAssumption DEF Suspend, WorkTypes, EnvTypes
    <2> QED
        BY <1>1, <2>1, <2>2, Untouched DEF Suspend, Counted, appVars
<1>2. CASE Resume
    <2>1. ReaderTypes'
        BY <1>2, DeviceTypes, Untouched DEF Resume
    <2>2. WorkTypes'
        BY <1>2, <2>1 DEF Resume, WorkTypes, ReaderTypes, Device
    <2> QED
        BY <1>2, <2>1, <2>2, Untouched DEF Resume, Counted, appVars, envVars
<1>3. CASE Swipe
    <2>1. cards + 1 \in 0 .. MaxCards /\ dev \in Device
        BY <1>3, OposAssumption DEF Swipe, EnvTypes, ReaderTypes
    <2>2. [dev EXCEPT !.reading = FALSE] \in Device
        BY <2>1 DEF Device
    <2>3. [dev EXCEPT !.reading = FALSE, !.result = cards + 1] \in Device
        BY <2>1, <2>2 DEF Device
    <2>4. ReaderTypes' /\ EnvTypes'
        BY <1>3, <2>1, <2>3 DEF Swipe, ReaderTypes, EnvTypes
    <2> QED
        BY <1>3, <2>4, Untouched DEF Swipe, Counted, appVars
<1>4. CASE Unplug
    <2>1. dev' \in Device
        <3> DEFINE r == IF dev.reading THEN 0 ELSE dev.result
                   h == dev.held
        <3>1. r \in 0 .. MaxCards /\ h \in BOOLEAN /\ dev \in Device
            BY OposAssumption DEF ReaderTypes, Device
        <3>2. dev' = [dev EXCEPT !.dead = h, !.opos = FALSE, !.reading = FALSE, !.result = r]
            BY <1>4 DEF Unplug
        <3> HIDE DEF r, h
        <3> QED
            BY <3>1, <3>2 DEF Device
    <2>2. ReaderTypes'
        BY <1>4, <2>1 DEF Unplug, ReaderTypes, Device
    <2>3. EnvTypes'
        <3>1. dev.held \in BOOLEAN
            BY DEF ReaderTypes, Device
        <3>2. pulled' \in BOOLEAN /\ present' = FALSE /\ UNCHANGED <<cards, opens, late>>
            BY <1>4, <3>1 DEF Unplug, EnvTypes
        <3>3. faults' \in 0 .. MaxFaults
            BY <1>4, OposAssumption DEF Unplug, EnvTypes
        <3> QED
            BY <3>2, <3>3 DEF EnvTypes
    <2> QED
        BY <1>4, <2>2, <2>3, Untouched DEF Unplug, Counted, appVars
<1>5. CASE Plug
    BY <1>5, Untouched DEF Plug, EnvTypes, Counted, appVars
<1> QED
    BY <1>1, <1>2, <1>3, <1>4, <1>5 DEF World

\* Initially nothing is open and there is no card.
LEMMA InitTypes == Init => TypeInv
<1> SUFFICES ASSUME Init PROVE TypeInv
    OBVIOUS
<1>1. 0 \in 0 .. MaxCards /\ 0 \in 0 .. MaxOpens /\ 0 \in 0 .. 2 * MaxOpens /\ 0 \in 0 .. MaxFaults
    BY OposAssumption
<1>2. AppTypes /\ WkTypes /\ WorkTypes /\ EnvTypes /\ Counted
    BY <1>1 DEF Init, AppTypes, WkTypes, WorkTypes, EnvTypes, Counted, Idle, At, Places
<1>3. QueueTypes /\ EventTypes
    <2>1. << >> \in Seq(Request) /\ << >> \in Seq(Cards)
        OBVIOUS
    <2> QED
        BY <1>1, <2>1 DEF Init, QueueTypes, EventTypes
<1>4. ReaderTypes
    BY <1>1 DEF Init, ReaderTypes, Device, NoDev
<1> QED
    BY <1>2, <1>3, <1>4 DEF TypeInv

\* Every step keeps the types.
LEMMA NextTypes == TypeInv /\ [Next]_vars => TypeInv'
<1> SUFFICES ASSUME TypeInv, [Next]_vars PROVE TypeInv'
    OBVIOUS
<1>1. CASE UNCHANGED vars
    <2>1. /\ UNCHANGED appVars /\ UNCHANGED queueVars /\ UNCHANGED eventVars /\ UNCHANGED wk
          /\ UNCHANGED workVars /\ UNCHANGED readerVars /\ UNCHANGED envVars
        BY <1>1 DEF vars
    <2>2. Counted'
        BY <2>1 DEF TypeInv, Counted, appVars, envVars
    <2> QED
        BY <2>1, <2>2, Untouched DEF TypeInv
<1> QED
    BY <1>1, OpenCloseTypes, CallTypes, PollTypes, CardTypes, WorldTypes DEF Next, Worker, Call

\* A service object keeps the types of what it holds, and enables a device
\* only while it is claimed (the properties of CSoMsr).
THEOREM Types == Spec => []TypeOK
<1>1. Spec => []TypeInv
    BY InitTypes, NextTypes, PTL DEF Spec
<1> QED
    BY <1>1, TypesAreOK, PTL

-----------------------------------------------------------------------------
(* Cards and their events.                                                  *)

\* The event of a card gives away that card, or one that has been told.
\* Between the reading of a card and its event the data are the card's, and
\* the events that wait are not safe; elsewhere all are.
AtFire == wk.pc \in {"fire", "queue"}
Safe(card) == card = data \/ data \in told
CardInv ==
    /\ AtFire => wk.card = data
    /\ ~AtFire => \A k \in DOMAIN eventq : Safe(eventq[k])
    /\ wk.pc \in {"tell", "handlerQ", "handler"} => Safe(wk.card)

\* Every step keeps it.
LEMMA CardStep == TypeInv /\ CardInv /\ [Next]_vars => CardInv'
<1> SUFFICES ASSUME TypeInv, CardInv, [Next]_vars PROVE CardInv'
    OBVIOUS
<1>0. wk \in Places
    BY DEF TypeInv, WkTypes
<1>1. CASE UNCHANGED <<eventVars, wk>>
    BY <1>1 DEF CardInv, AtFire, Safe, eventVars
<1>2. CASE ClearInput
    <2>1. eventq' = << >> /\ UNCHANGED <<data, told, wk>>
        BY <1>2 DEF ClearInput
    <2> QED
        BY <2>1 DEF CardInv, AtFire, Safe
<1>3. CASE PollNormal
    BY <1>3 DEF PollNormal, Polls, At, CardInv, AtFire, Safe, eventVars
<1>4. CASE ReadDone
    BY <1>4 DEF ReadDone, At, CardInv, AtFire, Safe, eventVars
<1>5. CASE FireQ
    <2>1. data' = data
        BY <1>5 DEF FireQ
    <2>2. CASE UNCHANGED <<eventq, told>>
        BY <1>5, <2>1, <2>2 DEF FireQ, At, Tell, CardInv, AtFire, Safe
    <2>3. CASE wk.pc = "take" /\ eventq # << >> /\ eventq' = Tail(eventq)
               /\ wk' = At("tell", Head(eventq)) /\ UNCHANGED <<told, dataEnabled>>
        <3>1. /\ 1 \in DOMAIN eventq /\ Head(eventq) = eventq[1]
              /\ \A k \in DOMAIN Tail(eventq) : k + 1 \in DOMAIN eventq
                                                /\ Tail(eventq)[k] = eventq[k + 1]
            BY <2>3, QueueFacts DEF TypeInv, EventTypes
        <3>2. ~AtFire
            BY <2>3 DEF AtFire
        <3> QED
            BY <2>1, <2>3, <3>1, <3>2 DEF At, CardInv, AtFire, Safe
    <2>4. CASE wk.pc = "tell" /\ Tell(wk.card, "handlerQ") /\ UNCHANGED eventq
        <3>1. UNCHANGED eventq /\ told' = told \cup {wk.card} /\ wk' = At("handlerQ", wk.card)
              /\ ~AtFire /\ Safe(wk.card)
            BY <2>4 DEF Tell, AtFire, CardInv
        <3> QED
            BY <2>1, <3>1 DEF At, CardInv, AtFire, Safe
    <2> QED
        BY <1>5, <2>2, <2>3, <2>4 DEF FireQ
<1>6. CASE Fire
    <2>1. data' = data /\ wk.card = data
        BY <1>6 DEF Fire, CardInv, AtFire
    <2>2. CASE Tell(wk.card, "handler") /\ UNCHANGED eventq
        <3>1. UNCHANGED eventq /\ data' \in told' /\ wk' = At("handler", wk.card)
            BY <2>1, <2>2 DEF Tell
        <3> QED
            BY <2>1, <3>1 DEF At, CardInv, AtFire, Safe
    <2>3. CASE wk.pc = "fire" /\ wk' = [wk EXCEPT !.pc = "queue"]
        BY <1>0, <2>1, <2>3 DEF Places, CardInv, AtFire, Safe
    <2>4. CASE wk.pc = "queue" /\ EnQ(wk.card) /\ wk' = [wk EXCEPT !.pc = "over"]
        BY <1>0, <2>1, <2>4 DEF EnQ, Places, CardInv, AtFire, Safe
    <2> QED
        BY <1>6, <2>2, <2>3, <2>4 DEF Fire
<1>7. CASE AfterFire
    BY <1>7 DEF AfterFire, At, CardInv, AtFire, Safe, eventVars
<1>8. CASE HandlerReturns
    BY <1>0, <1>8 DEF HandlerReturns, InHandler, At, Places, CardInv, AtFire, Safe, eventVars
<1>9. CASE OpenService \/ Close \/ ClaimDevice \/ ReleaseDevice \/ SetPropertyNumber
    BY <1>1, <1>9 DEF OpenService, Close, ClaimDevice, ReleaseDevice, SetPropertyNumber
<1>10. CASE OpenReturns \/ CloseReturns \/ TakeRequest \/ PollAbnormal \/ Missed
    BY <1>1, <1>10 DEF OpenReturns, CloseReturns, TakeRequest, PollAbnormal, Missed
<1>11. CASE World
    BY <1>1, <1>11 DEF World, Suspend, Resume, Swipe, Unplug, Plug
<1>12. CASE UNCHANGED vars
    BY <1>1, <1>12 DEF vars
<1> QED
    BY <1>2, <1>3, <1>4, <1>5, <1>6, <1>7, <1>8, <1>9, <1>10, <1>11, <1>12
    DEF Next, Worker, Poll, Call

\* What the handler of an event reads of a card was told, or is being told
\* (GetPropertyString in a handler that CFireEvent calls).
THEOREM CardsTold == Spec => []NoUntoldCard
<1>1. Spec => []TypeInv
    BY InitTypes, NextTypes, PTL DEF Spec
<1>2. Init => CardInv
    BY DEF Init, At, CardInv, AtFire
<1>3. CardInv => NoUntoldCard
    BY DEF CardInv, NoUntoldCard, InHandler, Safe
<1> QED
    BY <1>1, <1>2, <1>3, CardStep, PTL DEF Spec

-----------------------------------------------------------------------------
(* Opening and closing.                                                     *)

\* The phases of the service object: who waits, what the worker has been
\* asked and has answered, and what it may then have open.
NothingToDo == devq = << >> /\ ~bOpen /\ ~recover
Asked(cmd) == devq = <<[cmd |-> cmd, no |-> app.no]>> /\ done < app.no
Answered == devq = << >> /\ done = app.no
AtRest == app = Idle /\ ~opened /\ NothingToDo /\ ~dev.handle /\ done <= 2 * opens
Opening ==
    /\ app = [call |-> "open", no |-> 2 * opens - 1] /\ ~opened
    /\ (Asked("enter") /\ ~bOpen /\ ~recover) \/ Answered
InUse == app = Idle /\ opened /\ devq = << >> /\ done < 2 * opens
Closing ==
    /\ app = [call |-> "close", no |-> 2 * opens] /\ opened
    /\ Asked("leave") \/ (Answered /\ NothingToDo)

\* As long as no request was answered late the library has nothing open
\* that the program has no handle of.
Kept == dev.held => dev.handle
CloseInv == ~late => Kept /\ (AtRest \/ Opening \/ InUse \/ Closing)

\* What the library's calls do to a reader that is kept.
LEMMA ReaderKept ==
    ASSUME TypeInv, Kept
    PROVE  /\ CloseDev => ~dev'.handle /\ ~dev'.held
           /\ FindOpenEnterOpos => Kept'
           /\ StartRead => Kept' /\ dev'.handle = dev.handle
<1>1. dev \in Device
    BY DEF TypeInv, ReaderTypes
<1>2. CloseDev => ~dev'.handle /\ ~dev'.held
    BY <1>1 DEF CloseDev, Closed, NoDev, Kept, Device
<1>3. FindOpenEnterOpos => Kept'
    <2> DEFINE o == Openable(Closed)
               c == Closed
    <2>1. c \in Device /\ ~c.held
        BY <1>1, DeviceTypes DEF Closed, NoDev, Kept, TypeInv
    <2>2. FindOpenEnterOpos => dev' = [c EXCEPT !.handle = o, !.held = c.held \/ o]
        BY DEF FindOpenEnterOpos
    <2> HIDE DEF o, c
    <2> QED
        BY <2>1, <2>2 DEF Device, Kept
<1>4. StartRead => Kept' /\ dev'.handle = dev.handle
    BY <1>1 DEF StartRead, Kept, Device
<1> QED
    BY <1>2, <1>3, <1>4

Phase == AtRest \/ Opening \/ InUse \/ Closing
phaseVars == <<app, opened, devq, bOpen, recover, done, opens>>

\* A step that changes none of the variables of the phases, and opens no
\* reader, stays in the phase.
LEMMA SamePhase ==
    ASSUME Phase, UNCHANGED phaseVars, dev'.handle => dev.handle
    PROVE  Phase'
    BY DEF Phase, phaseVars, AtRest, Opening, InUse, Closing, NothingToDo, Asked, Answered

\* OpenService and Close leave their phase for the one in which they wait.
LEMMA CallPhase ==
    ASSUME TypeInv, Kept, Phase, OpenService \/ Close
    PROVE  Kept' /\ Phase'
<1>0. dev \in Device /\ opens \in Nat
    BY OposAssumption DEF TypeInv, ReaderTypes, EnvTypes
<1>1. CASE OpenService
    <2>1. AtRest
        BY <1>1 DEF OpenService, Phase, AtRest, Opening, InUse, Closing, Idle
    <2>2. opens' = opens + 1 /\ UNCHANGED <<opened, done, bOpen, recover>>
        BY <1>1 DEF OpenService, workVars
    <2>3. CASE Openable(dev) /\ dev' = [NoDev EXCEPT !.handle = TRUE, !.held = TRUE, !.opos = TRUE]
               /\ app' = [call |-> "open", no |-> 2 * opens + 1] /\ Ask("enter", 2 * opens + 1)
        <3>1. Kept'
            BY <2>3, DeviceTypes DEF Kept, NoDev, Device
        <3>2. done < 2 * opens + 1 /\ done' = done
            BY <1>0, <2>1, <2>2 DEF AtRest, TypeInv, QueueTypes
        <3>3. devq' = <<[cmd |-> "enter", no |-> 2 * opens + 1]>> /\ app'.no = 2 * opens + 1
            BY <2>1, <2>3 DEF AtRest, NothingToDo, Ask
        <3>4. 2 * opens + 1 = 2 * opens' - 1
            BY <1>0, <2>2
        <3>5. Opening'
            BY <2>1, <2>2, <2>3, <3>2, <3>3, <3>4 DEF Opening, Asked, AtRest, NothingToDo
        <3> QED
            BY <3>1, <3>5 DEF Phase
    <2>4. CASE ~Openable(dev) /\ dev' = [dev EXCEPT !.handle = @ /\ ~present]
               /\ UNCHANGED <<app, devq, wake>>
        <3>1. ~dev'.handle /\ dev'.held = dev.held
            BY <1>0, <2>1, <2>4 DEF AtRest, Device
        <3>2. AtRest'
            BY <1>0, <2>1, <2>2, <2>4, <3>1 DEF AtRest, NothingToDo, TypeInv, QueueTypes
        <3> QED
            BY <2>1, <3>1, <3>2 DEF Phase, Kept, AtRest
    <2> QED
        BY <1>1, <2>3, <2>4 DEF OpenService
<1>2. CASE Close
    <2>1. InUse
        BY <1>2 DEF Close, Ready, Phase, AtRest, Opening, InUse, Closing, Idle
    <2>2. /\ UNCHANGED <<opened, done, opens, bOpen, recover, dev>>
          /\ app' = [call |-> "close", no |-> 2 * opens] /\ Ask("leave", 2 * opens)
        BY <1>2 DEF Close, workVars, readerVars, envVars
    <2>3. devq' = <<[cmd |-> "leave", no |-> 2 * opens]>>
        BY <2>1, <2>2 DEF InUse, Ask
    <2>4. Closing'
        BY <2>1, <2>2, <2>3 DEF Closing, InUse, Asked
    <2> QED
        BY <2>2, <2>4 DEF Phase, Kept
<1> QED
    BY <1>1, <1>2

\* The waits end.  A wait that is not late ends with its answer.
LEMMA ReturnPhase ==
    ASSUME TypeInv, Kept, Phase, ~late', OpenReturns \/ CloseReturns
    PROVE  Kept' /\ Phase'
<1>0. opens \in Nat /\ done \in Nat
    BY OposAssumption DEF TypeInv, QueueTypes, EnvTypes
<1>1. CASE OpenReturns
    <2>0. app.call = "open" /\ done = app.no
        BY <1>1 DEF OpenReturns
    <2>1. Opening /\ Answered
        BY <1>0, <2>0 DEF Phase, AtRest, Opening, InUse, Closing, Idle, Asked
    <2>2. app' = Idle /\ opened' = TRUE /\ UNCHANGED <<devq, done, opens, dev>>
        BY <1>1 DEF OpenReturns, queueVars, readerVars
    <2>3. done < 2 * opens
        BY <1>0, <2>1 DEF Opening, Answered
    <2>4. InUse'
        BY <2>1, <2>2, <2>3 DEF InUse, Answered
    <2> QED
        BY <2>2, <2>4 DEF Phase, Kept
<1>2. CASE CloseReturns
    <2>0. app.call = "close" /\ done = app.no
        BY <1>2 DEF CloseReturns
    <2>1. Closing /\ Answered /\ NothingToDo
        BY <1>0, <2>0 DEF Phase, AtRest, Opening, InUse, Closing, Idle, Asked
    <2>2. app' = Idle /\ opened' = FALSE /\ devq' = << >> /\ UNCHANGED <<done, opens, bOpen, recover>>
        BY <1>2, <2>1 DEF CloseReturns, Release, Answered, workVars
    <2>3. ~dev'.handle /\ ~dev'.held
        BY <1>2, ReaderKept DEF CloseReturns
    <2>4. done <= 2 * opens
        BY <1>0, <2>1 DEF Closing, Answered
    <2>5. AtRest'
        BY <2>1, <2>2, <2>3, <2>4 DEF AtRest, NothingToDo
    <2> QED
        BY <2>3, <2>5 DEF Phase, Kept
<1> QED
    BY <1>1, <1>2

\* The worker answers a request, and looks for its reader.
LEMMA PollPhase ==
    ASSUME TypeInv, Kept, Phase, Poll \/ Suspend \/ Resume
    PROVE  Kept' /\ Phase'
<1>1. CASE TakeRequest
    <2>1. /\ UNCHANGED <<app, opened, opens, dev>> /\ devq # << >>
          /\ devq' = Tail(devq) /\ done' = Head(devq).no
        BY <1>1 DEF TakeRequest, appVars, readerVars, envVars
    <2>2. CASE Opening
        <3>1. Asked("enter")
            BY <2>1, <2>2 DEF Opening, Answered
        <3>2. devq' = << >> /\ done' = app.no
            BY <2>1, <3>1 DEF Asked
        <3> QED
            BY <2>1, <2>2, <3>2 DEF Opening, Answered, Phase, Kept
    <2>3. CASE Closing
        <3>1. Asked("leave")
            BY <2>1, <2>3 DEF Closing, Answered
        <3>2. devq' = << >> /\ done' = app.no /\ Head(devq).cmd = "leave"
            BY <2>1, <3>1 DEF Asked
        <3>3. bOpen' = FALSE /\ recover' = FALSE
            BY <1>1, <3>2 DEF TakeRequest
        <3> QED
            BY <2>1, <2>3, <3>2, <3>3 DEF Closing, Answered, NothingToDo, Phase, Kept
    <2> QED
        BY <2>1, <2>2, <2>3 DEF Phase, AtRest, InUse, NothingToDo
<1>2. CASE PollNormal
    <2>1. UNCHANGED phaseVars
        BY <1>2 DEF PollNormal, appVars, envVars, phaseVars
    <2>2. Kept' /\ dev'.handle = dev.handle
        BY <1>2, ReaderKept DEF PollNormal
    <2> QED
        BY <2>1, <2>2, SamePhase
<1>3. CASE (PollAbnormal /\ recover) \/ (Resume /\ bOpen)
    <2>1. /\ UNCHANGED <<app, opened, devq, done, opens>>
          /\ Kept'
        BY <1>3, ReaderKept DEF PollAbnormal, Resume, appVars, queueVars, envVars
    <2>2. ~NothingToDo /\ (bOpen \/ recover)
        BY <1>3 DEF NothingToDo
    <2> QED
        BY <2>1, <2>2 DEF Phase, AtRest, Opening, InUse, Closing, Asked, Answered
<1>4. CASE Missed \/ (Resume /\ ~bOpen)
    <2>1. UNCHANGED phaseVars /\ UNCHANGED dev
        BY <1>4 DEF Missed, Resume, appVars, workVars, queueVars, readerVars, envVars, phaseVars
    <2> QED
        BY <2>1, SamePhase DEF Kept
<1>5. CASE Suspend
    <2>1. UNCHANGED phaseVars
        BY <1>5 DEF Suspend, appVars, queueVars, phaseVars
    <2>2. Kept' /\ (dev'.handle => dev.handle)
        BY <1>5, ReaderKept DEF Suspend, readerVars, Kept
    <2> QED
        BY <2>1, <2>2, SamePhase
<1> QED
    BY <1>1, <1>2, <1>3, <1>4, <1>5 DEF Poll, PollAbnormal

\* Every step keeps the invariant of opening and closing.
LEMMA CloseStep == TypeInv /\ CloseInv /\ [Next]_vars => CloseInv'
<1> SUFFICES ASSUME TypeInv, CloseInv, [Next]_vars, ~late' PROVE Kept' /\ Phase'
    BY DEF CloseInv, Phase
<1>0. dev \in Device
    BY DEF TypeInv, ReaderTypes
<1>1. ~late
    BY DEF Next, Worker, Poll, Call, World, OpenService, Close, ClaimDevice, ReleaseDevice,
           ClearInput, SetPropertyNumber, OpenReturns, CloseReturns, TakeRequest, PollNormal,
           PollAbnormal, Missed, ReadDone, FireQ, Fire, AfterFire, HandlerReturns, Suspend,
           Resume, Swipe, Unplug, Plug, envVars, vars
<1>2. Kept /\ Phase
    BY <1>1 DEF CloseInv, Phase
<1>3. CASE UNCHANGED phaseVars /\ UNCHANGED dev
    BY <1>2, <1>3, SamePhase DEF Kept
<1>4. CASE Swipe \/ Unplug
    <2>1. UNCHANGED phaseVars /\ dev'.handle = dev.handle /\ dev'.held = dev.held
        BY <1>0, <1>4 DEF Swipe, Unplug, appVars, queueVars, workVars, phaseVars, Device
    <2> QED
        BY <1>2, <2>1, SamePhase DEF Kept
<1>5. CASE ReleaseDevice \/ ClearInput
    <2>1. InUse
        BY <1>2, <1>5
        DEF ReleaseDevice, ClearInput, Ready, Phase, AtRest, Opening, InUse, Closing, Idle
    <2>2. /\ UNCHANGED <<app, opened, done, opens, dev>>
          /\ devq' = << >>
        BY <1>5, <2>1 DEF InUse, ReleaseDevice, Release, ClearInput, appVars, readerVars, envVars
    <2> QED
        BY <1>2, <2>1, <2>2 DEF InUse, Phase, Kept
<1>6. CASE ClaimDevice \/ SetPropertyNumber \/ Plug \/ UNCHANGED vars
    <2>1. UNCHANGED phaseVars /\ UNCHANGED dev
        BY <1>6 DEF ClaimDevice, SetPropertyNumber, Plug, vars, appVars, queueVars, workVars,
                    readerVars, envVars, phaseVars
    <2> QED
        BY <1>3, <2>1
<1>7. CASE ReadDone \/ FireQ \/ Fire \/ AfterFire \/ HandlerReturns
    <2>1. UNCHANGED phaseVars /\ UNCHANGED dev
        BY <1>7 DEF ReadDone, FireQ, Fire, AfterFire, HandlerReturns, appVars, queueVars, workVars,
                    readerVars, envVars, phaseVars
    <2> QED
        BY <1>3, <2>1
<1> QED
    BY <1>2, <1>4, <1>5, <1>6, <1>7, CallPhase, ReturnPhase, PollPhase
    DEF Next, Worker, Call, World

\* After a close that the worker has answered in time the reader is closed
\* and the worker has nothing to do with it (CSoMsr::close_device,
\* CWorker::_on_leave_opos).
THEOREM ClosesForGood == Spec => []ClosedForGood
<1>1. Spec => []TypeInv
    BY InitTypes, NextTypes, PTL DEF Spec
<1>2. Init => CloseInv
    BY OposAssumption DEF Init, CloseInv, Kept, AtRest, NothingToDo, NoDev
<1>3. CloseInv => ClosedForGood
    <2> SUFFICES ASSUME CloseInv, ~opened, app = Idle, ~late
                 PROVE  /\ ~dev.handle /\ ~dev.held
                        /\ devq = << >> /\ ~bOpen /\ ~recover
        BY DEF ClosedForGood
    <2>1. AtRest /\ Kept
        BY DEF CloseInv, Opening, InUse, Closing, Idle
    <2> QED
        BY <2>1 DEF AtRest, NothingToDo, Kept
<1> QED
    BY <1>1, <1>2, <1>3, CloseStep, PTL DEF Spec
=============================================================================
