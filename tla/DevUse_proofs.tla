----------------------------- MODULE DevUse_proofs -----------------------------
(***************************************************************************)
(* The device controller uses its driver as the driver alone allows: the   *)
(* specification of module DevCtl implements HidSpec, for every number of  *)
(* sessions, requests and reports.  What is proved of the driver then holds *)
(* of the composed system too.                                             *)
(*                                                                         *)
(* The controller's steps that start a request must be steps Submit of the *)
(* driver: a request is started once, after those started before it, and   *)
(* under a kind the driver knows.  Its callbacks must return what a        *)
(* callback may: the reads they name have been started.  UseInv says so of *)
(* the requests that wait for the controller and of the read queues.       *)
(*                                                                         *)
(* First of all the open rule: on a device that cannot be shared it is     *)
(* always asked, so the sessions never get into the shared mode and no     *)
(* second one gets in.  That needs only the map of states and the mode:    *)
(* OpenedByOne is inductive without anything about queues, callbacks or    *)
(* the driver.                                                             *)
(*                                                                         *)
(* At the end, that every request is answered once: whatever the driver    *)
(* does, the controller keeps a request in its queue, as the request being *)
(* executed, or in the read queue of its session until it is answered.     *)
(***************************************************************************)
EXTENDS DevCtl, HidDev_proofs, FiniteSetTheorems, SequenceTheorems, WellFoundedInduction

-----------------------------------------------------------------------------
(* A device that cannot be shared.                                          *)

\* At most one session has the device open, and the mode is exclusive.
OpenedByOne ==
    /\ st \in [Session -> State]
    /\ shared = FALSE
    /\ \A s, t \in Session : st[s] # "not" /\ st[t] # "not" => s = t

-----------------------------------------------------------------------------
(* The state of one session.                                                *)

\* Only an open takes a session out of the state "not", and every event leads
\* to a state (the transition table of _cstate).
LEMMA NextStateStays ==
    ASSUME NEW x \in State, NEW evt \in Event
    PROVE  /\ NextState(x, evt) \in State
           /\ evt # "open" /\ x = "not" => NextState(x, evt) = "not"
    BY DEF NextState, State, Event

\* A step after which every session is as before, or was open already, or is
\* closed, keeps OpenedByOne.
LEMMA NobodyOpens ==
    ASSUME OpenedByOne, shared' = FALSE,
           st' \in [Session -> State],
           \A s \in Session : st'[s] # "not" => st[s] # "not"
    PROVE  OpenedByOne'
    BY DEF OpenedByOne

\* The sessions that have the device open are finitely many.
LEMMA OpenFinite ==
    ASSUME st \in [Session -> State]
    PROVE  /\ IsFiniteSet(OpenSessions(st))
           /\ Cardinality(OpenSessions(st)) \in Nat
           /\ OpenSessions(st) # {} => Cardinality(OpenSessions(st)) > 0
<1>1. NSession \in Nat
    BY DevAssumption
<1>2. IsFiniteSet(Session)
    BY <1>1, FS_Interval DEF Session
<1>3. OpenSessions(st) \subseteq Session
    BY DEF OpenSessions
<1>4. IsFiniteSet(OpenSessions(st))
    BY <1>2, <1>3, FS_Subset
<1>5. Cardinality(OpenSessions(st)) \in Nat
    BY <1>4, FS_CardinalityType
<1>6. OpenSessions(st) # {} => Cardinality(OpenSessions(st)) # 0
    BY <1>4, FS_EmptySet
<1> QED
    BY <1>4, <1>5, <1>6

-----------------------------------------------------------------------------
(* The steps that change the map of states.                                 *)

\* _transit_state_by_processing_result of a close removes one session.
LEMMA LeaveKeeps ==
    ASSUME OpenedByOne, NEW s, LeaveMap(s)
    PROVE  OpenedByOne'
<1>1. shared' = FALSE
    BY DEF OpenedByOne, LeaveMap
<1>2. st' \in [Session -> State]
    BY DEF OpenedByOne, LeaveMap, State
<1>3. \A t \in Session : st'[t] # "not" => st[t] # "not"
    BY DEF OpenedByOne, LeaveMap
<1> QED
    BY <1>1, <1>2, <1>3, NobodyOpens

\* A state that follows an event other than an open opens nothing.
LEMMA EventKeeps ==
    ASSUME OpenedByOne, NEW s, NEW evt \in Event \ {"open"},
           st' = [st EXCEPT ![s] = NextState(@, evt)], shared' = shared
    PROVE  OpenedByOne'
<1>1. \A t \in Session : st'[t] = IF t = s THEN NextState(st[t], evt) ELSE st[t]
    BY DEF OpenedByOne
<1>2. \A t \in Session : /\ NextState(st[t], evt) \in State
                         /\ st[t] = "not" => NextState(st[t], evt) = "not"
    BY NextStateStays DEF OpenedByOne
<1>3. st' \in [Session -> State]
    BY <1>1, <1>2 DEF OpenedByOne
<1>4. \A t \in Session : st'[t] # "not" => st[t] # "not"
    BY <1>1, <1>2
<1> QED
    BY <1>3, <1>4, NobodyOpens DEF OpenedByOne

\* An open succeeds only while nobody has the device open: in the exclusive
\* mode _proc_event_open asks _is_openable, and a device that cannot be shared
\* is openable only then.
LEMMA OpenKeeps ==
    ASSUME SupportShare = FALSE, OpenedByOne, NEW id, Open(id)
    PROVE  OpenedByOne'
<1> DEFINE s == req[id].ses
           share == (req[id].op = "open_share")
<1>1. CASE ~MayOpen(s, share)
    <2>1. st' = st /\ shared' = shared
        BY <1>1 DEF Open, stateVars
    <2> QED
        BY <2>1 DEF OpenedByOne
<1>2. CASE MayOpen(s, share)
    <2>1. Openable(SupportShare, share, Cardinality(OpenSessions(st)), MaxOpen)
        BY <1>2 DEF MayOpen, OpenedByOne
    <2>2. share = FALSE
        BY <2>1 DEF Openable
    <2>3. OpenSessions(st) = {}
        BY <2>1, <2>2, OpenFinite DEF Openable, OpenedByOne
    <2>4. \A t \in Session : st[t] = "not"
        BY <2>3 DEF OpenSessions, OpenedByOne
    <2>5. /\ st' = [st EXCEPT ![s] = NextState(@, "open")]
          /\ shared' = share
        BY <1>2, <2>3 DEF Open
    <2>6. NextState("not", "open") \in State
        BY NextStateStays DEF State, Event
    <2>7. \A t \in Session : st'[t] = IF t = s THEN NextState("not", "open") ELSE "not"
        BY <2>4, <2>5 DEF OpenedByOne
    <2>8. st' \in [Session -> State]
        BY <2>5, <2>6, <2>7 DEF OpenedByOne, State
    <2> QED
        BY <2>2, <2>5, <2>7, <2>8 DEF OpenedByOne
<1> QED
    BY <1>1, <1>2

\* The end of a callback makes the sessions idle that it has answered.
LEMMA StopWaitingKeeps ==
    ASSUME OpenedByOne, StopWaiting
    PROVE  OpenedByOne'
<1>1. \A t \in Session : /\ NextState(st[t], "rx") \in State
                         /\ st[t] \in State
    BY NextStateStays DEF OpenedByOne, Event
<1>2. st' \in [Session -> State]
    BY <1>1 DEF StopWaiting
<1>3. \A t \in Session : st'[t] # "not" => st[t] # "not"
    BY DEF StopWaiting
<1>4. shared' = FALSE
    BY DEF StopWaiting, OpenedByOne
<1> QED
    BY <1>2, <1>3, <1>4, NobodyOpens

-----------------------------------------------------------------------------
(* All steps.                                                               *)

\* No step of the controller, the driver, the device or a client lets a
\* second session in.
LEMMA StepKeepsOpenedByOne ==
    ASSUME SupportShare = FALSE, OpenedByOne, [DevNext]_devVars
    PROVE  OpenedByOne'
<1> DEFINE Same == UNCHANGED stateVars
<1>1. CASE Same
    BY <1>1 DEF stateVars, OpenedByOne
<1>2. CASE UNCHANGED devVars
    BY <1>1, <1>2 DEF devVars
<1>3. CASE Controller
    <2>1. ASSUME NEW id \in DOMAIN req, TurnAway(id)
          PROVE  OpenedByOne'
        BY <1>1, <2>1 DEF TurnAway
    <2>2. ASSUME NEW id \in DOMAIN req, Open(id)
          PROVE  OpenedByOne'
        BY <2>2, OpenKeeps
    <2>3. ASSUME NEW id \in DOMAIN req, CloseIdle(id)
          PROVE  OpenedByOne'
        BY <2>3, LeaveKeeps DEF CloseIdle
    <2>4. ASSUME NEW id \in DOMAIN req, CloseReading(id)
          PROVE  OpenedByOne'
        BY <1>1, <2>4 DEF CloseReading
    <2>5. ASSUME NEW id \in DOMAIN req, StartSync(id)
          PROVE  OpenedByOne'
        BY <1>1, <2>5 DEF StartSync
    <2>6. ASSUME NEW id \in DOMAIN req, FlagOthers(id)
          PROVE  OpenedByOne'
        BY <1>1, <2>6 DEF FlagOthers
    <2>7. ASSUME NEW id \in DOMAIN req, StartRead(id)
          PROVE  OpenedByOne'
        BY <1>1, <2>7 DEF StartRead
    <2>8. ASSUME NEW id \in DOMAIN req, NEW evt \in Event, Refuse(id, evt)
          PROVE  OpenedByOne'
        BY <1>1, <2>8 DEF Refuse
    <2>9. CASE StartFlaggedOrClose
        BY <1>1, <2>9 DEF StartFlaggedOrClose
    <2>10. CASE Wake
        <3>1. CASE Op = "close"
            BY <2>10, <3>1, LeaveKeeps DEF Wake
        <3>2. CASE Op # "close"
            BY <2>10, <3>2, EventKeeps DEF Wake, Event
        <3> QED
            BY <3>1, <3>2
    <2>11. CASE Reading
        BY <2>11, EventKeeps DEF Reading, Event
    <2>12. CASE Collect
        BY <1>1, <2>12 DEF Collect
    <2>13. CASE Continue
        BY <1>1, <2>13 DEF Continue
    <2> QED
        BY <1>3, <2>1, <2>2, <2>3, <2>4, <2>5, <2>6, <2>7, <2>8, <2>9, <2>10,
           <2>11, <2>12, <2>13 DEF Controller
<1>4. CASE Driver
    <2>1. CASE DriverOnly /\ UNCHANGED <<clientVars, ctlVars, stateVars, queueVars, bsel>>
        BY <1>1, <2>1
    <2>2. CASE BeginCur \/ BeginNew
        BY <1>1, <2>2 DEF BeginCur, BeginNew
    <2>3. CASE EndCur \/ EndNew
        BY <2>3, StopWaitingKeeps DEF EndCur, EndNew
    <2> QED
        BY <1>4, <2>1, <2>2, <2>3 DEF Driver
<1>5. CASE Device
    BY <1>1, <1>5 DEF Device
<1>6. ASSUME NEW s \in Session, NEW op \in Action, Post(s, op)
      PROVE  OpenedByOne'
    BY <1>1, <1>6 DEF Post
<1> QED
    BY <1>2, <1>3, <1>4, <1>5, <1>6 DEF DevNext

\* A device that does not support sharing is open to one session at a time,
\* whatever the sessions ask for and however their requests, the reports and
\* the callbacks interleave: the exclusive mode of mp_cdev_ctl_fn_.cpp, where
\* the state of the device is taken to be that of its only session.
THEOREM ExclusiveWithoutSharing ==
    ASSUME SupportShare = FALSE
    PROVE  DevSpec => []ExclusiveAlone
<1>1. DevInit => OpenedByOne
    BY DEF DevInit, OpenedByOne, State
<1>2. OpenedByOne /\ [DevNext]_devVars => OpenedByOne'
    BY StepKeepsOpenedByOne
<1>3. OpenedByOne => ExclusiveAlone
    <2> SUFFICES ASSUME OpenedByOne
                 PROVE  Cardinality(OpenSessions(st)) <= 1
        BY DEF ExclusiveAlone
    <2>1. CASE OpenSessions(st) = {}
        BY <2>1, FS_EmptySet
    <2>2. CASE OpenSessions(st) # {}
        <3>1. PICK s : s \in OpenSessions(st)
            BY <2>2
        <3>2. OpenSessions(st) = {s}
            BY <3>1 DEF OpenSessions, OpenedByOne
        <3> QED
            BY <3>2, FS_Singleton
    <2> QED
        BY <2>1, <2>2
<1> QED
    BY <1>1, <1>2, <1>3, PTL DEF DevSpec

-----------------------------------------------------------------------------
(* The driver under the controller.                                         *)

\* The requests that wait for the controller are in the order they were sent
\* in, and younger than all that have been started.
StartOrder ==
    /\ used \subseteq DOMAIN req
    /\ \A i \in DOMAIN mq : mq[i] \in DOMAIN req /\ \A v \in used : v < mq[i]
    /\ \A i, j \in DOMAIN mq : i < j => mq[i] < mq[j]

\* A request that the controller is about to start is between the two.
AboutToStart ==
    apc \in {"flagged", "close"} =>
        /\ areq \in DOMAIN req
        /\ req[areq].op \in {"transmit", "transmit_empty", "write", "cancel", "close"}
        /\ \A v \in used : v < areq
        /\ \A i \in DOMAIN mq : areq < mq[i]

\* The reads in the read queues have been started.
ReadsStarted == \A s \in Session : \A i \in DOMAIN readq[s] : readq[s][i].id \in used

UseInv == WorkerInv /\ CtlTypeOK /\ StartOrder /\ AboutToStart /\ ReadsStarted

-----------------------------------------------------------------------------
(* The operators the steps are built from.                                  *)

\* A set of numbers that is not empty has a least member.
LEMMA LeastNumber ==
    ASSUME NEW T \in SUBSET Nat, T # {}
    PROVE  \E x \in T : \A y \in T : x <= y
<1> DEFINE R == {p \in Nat \X Nat : p[1] < p[2]}
<1>1. IsWellFoundedOn(OpToRel(<, Nat), Nat)
  BY NatLessThanWellFounded
<1>2. IsWellFoundedOn(R, Nat)
  BY <1>1 DEF OpToRel
<1>3. \A x, y \in Nat : <<y, x>> \notin R => x <= y
  OBVIOUS
<1>. HIDE DEF R
<1>4. PICK x \in T : \A y \in T : ~ (<<y, x>> \in R)
  BY <1>2, WFMin
<1>5. \A y \in T : x <= y
  BY <1>3, <1>4
<1>. QED BY <1>5

\* The first read still queued is a request, or there is none.
LEMMA FirstReadType ==
    ASSUME NEW rq \in [Session -> Seq(Entry)]
    PROVE  FirstRead(rq) \in 0..MaxUid
<1> DEFINE listed == {s \in Session : rq[s] # <<>>}
           first == CHOOSE s \in listed : \A x \in listed : s <= x
<1>1. CASE listed = {}
  BY <1>1, HidAssumption DEF FirstRead
<1>2. CASE listed # {}
  <2>1. listed \in SUBSET Nat
    BY DevAssumption DEF Session
  <2>2. \E s \in listed : \A x \in listed : s <= x
    BY <1>2, <2>1, LeastNumber
  <2>3. first \in listed
    BY <2>2
  <2>4. rq[first] \in Seq(Entry) /\ rq[first] # <<>>
    BY <2>3
  <2>5. Head(rq[first]) \in Entry
    BY <2>4
  <2>6. Head(rq[first]).id \in 0..MaxUid
    BY <2>5, HidAssumption DEF Entry, Uid
  <2>7. FirstRead(rq) = Head(rq[first]).id
    BY <1>2 DEF FirstRead
  <2>. QED BY <2>6, <2>7
<1>. QED BY <1>1, <1>2

\* Sending answers changes nothing of the requests but their answers.
LEMMA SendType ==
    ASSUME req \in Seq(Request), NEW answers, \A a \in answers : a.rsp \in Result,
           Send(answers)
    PROVE  /\ req' \in Seq(Request) /\ Len(req') = Len(req) /\ DOMAIN req' = DOMAIN req
           /\ \A id \in DOMAIN req : req'[id].op = req[id].op
<1> DEFINE rsp(id) == (CHOOSE a \in answers : a.id = id).rsp
           had(id) == \E a \in answers : a.id = id
<1>1. \A id : had(id) => rsp(id) \in Result
  OBVIOUS
<1>2. \A id \in DOMAIN req :
         req'[id] = IF had(id) THEN [req[id] EXCEPT !.ans = Append(@, rsp(id))] ELSE req[id]
  BY DEF Send
<1>. HIDE DEF rsp, had
<1>3. ASSUME NEW id \in DOMAIN req
      PROVE  req'[id] \in Request /\ req'[id].op = req[id].op
  <2>1. req[id] \in Request
    OBVIOUS
  <2>2. had(id) => Append(req[id].ans, rsp(id)) \in Seq(Result)
    BY <1>1, <2>1 DEF Request
  <2>. QED BY <1>2, <2>1, <2>2 DEF Request
<1>4. DOMAIN req' = 1..Len(req) /\ Len(req) \in Nat
  BY DEF Send
<1>5. req' \in [1..Len(req) -> Request]
  <2>1. req' = [id \in DOMAIN req |-> req'[id]]
    BY DEF Send
  <2>. QED BY <1>3, <2>1
<1>6. req' \in Seq(Request)
  BY <1>4, <1>5, IsASeq
<1>. QED BY <1>3, <1>4, <1>6

\* What has been answered are outcomes.
LEMMA CompletedType ==
    ASSUME CtlTypeOK
    PROVE  \A a \in Completed : a.rsp \in Result
<1> DEFINE complete == {Front(s) : s \in Taken} \cup (IF syncq = <<>> THEN {} ELSE {Head(syncq)})
<1>1. \A s \in Taken : s \in Session /\ readq[s] # <<>>
  BY DEF Taken, Reached, Listed
<1>2. \A s \in Taken : Front(s) \in Entry
  BY <1>1 DEF Front, CtlTypeOK
<1>3. syncq # <<>> => Head(syncq) \in Entry
  BY DEF CtlTypeOK
<1>4. \A e \in complete : e \in Entry
  BY <1>2, <1>3
<1>. HIDE DEF complete
<1>5. \A a \in {Answer(e.id, e.rsp) : e \in complete} : a.rsp \in Result
  BY <1>4 DEF Answer, Entry
<1>6. Completed = {Answer(e.id, e.rsp) : e \in complete}
  BY DEF Completed, complete
<1>. QED BY <1>5, <1>6

\* Removing what is sent leaves the queues of entries, of the same reads.
LEMMA RemoveType ==
    ASSUME CtlTypeOK, ReadsStarted, RemoveCompleted
    PROVE  /\ readq' \in [Session -> Seq(Entry)] /\ syncq' \in Seq(Entry)
           /\ \A s \in Session : \A i \in DOMAIN readq'[s] : readq'[s][i].id \in used
<1>1. \A s \in Taken : readq[s] # <<>>
  BY DEF Taken, Reached, Listed
<1>2. ASSUME NEW s \in Session
      PROVE  /\ readq'[s] \in Seq(Entry)
             /\ \A i \in DOMAIN readq'[s] : readq'[s][i].id \in used
  <2>1. readq[s] \in Seq(Entry)
    BY DEF CtlTypeOK
  <2>2. CASE s \in Taken
    <3>1. readq'[s] = Tail(readq[s]) /\ readq[s] # <<>>
      BY <1>1, <2>2 DEF RemoveCompleted
    <3>2. \A i \in DOMAIN Tail(readq[s]) : /\ i + 1 \in DOMAIN readq[s]
                                          /\ Tail(readq[s])[i] = readq[s][i + 1]
      BY <2>1, <3>1
    <3>. QED BY <2>1, <3>1, <3>2 DEF ReadsStarted
  <2>3. CASE s \notin Taken
    <3>1. readq'[s] = readq[s]
      BY <2>3 DEF RemoveCompleted
    <3>. QED BY <2>1, <3>1 DEF ReadsStarted
  <2>. QED BY <2>2, <2>3
<1>3. readq' \in [Session -> Seq(Entry)]
  <2>1. readq' = [s \in Session |-> readq'[s]]
    BY DEF RemoveCompleted
  <2>. QED BY <1>2, <2>1
<1>4. syncq' \in Seq(Entry)
  BY DEF CtlTypeOK, RemoveCompleted
<1>. QED BY <1>2, <1>3, <1>4

\* A request that is popped is younger than all that have been started, and
\* older than those that stay.
LEMMA PopOrder ==
    ASSUME CtlTypeOK, StartOrder, NEW id, Pop(id)
    PROVE  /\ id \in DOMAIN req /\ id \in Uid /\ req[id] \in Request
           /\ \A v \in used : v < id
           /\ mq' \in Seq(Uid)
           /\ \A i \in DOMAIN mq' :
                mq'[i] \in DOMAIN req /\ id < mq'[i] /\ \A v \in used : v < mq'[i]
           /\ \A i, j \in DOMAIN mq' : i < j => mq'[i] < mq'[j]
<1> USE DEF CtlTypeOK, StartOrder, Pop
<1>1. 1 \in DOMAIN mq /\ id = mq[1]
  OBVIOUS
<1>2. id \in DOMAIN req /\ \A v \in used : v < id
  BY <1>1
<1>3. id \in Uid /\ req[id] \in Request
  BY <1>1, <1>2
<1>4. mq' \in Seq(Uid)
  OBVIOUS
<1>5. \A i \in DOMAIN mq' : i + 1 \in DOMAIN mq /\ mq'[i] = mq[i + 1] /\ i \in Nat /\ i > 0
  OBVIOUS
<1>6. \A i \in DOMAIN mq' : mq'[i] \in DOMAIN req /\ \A v \in used : v < mq'[i]
  BY <1>5
<1>7. \A i \in DOMAIN mq' : id < mq'[i]
  BY <1>1, <1>5
<1>8. \A i, j \in DOMAIN mq' : i < j => mq'[i] < mq'[j]
  BY <1>5
<1>. QED BY <1>2, <1>3, <1>4, <1>6, <1>7, <1>8

-----------------------------------------------------------------------------
(* The controller's steps are steps of the driver or leave it alone.        *)

\* Starting a request that is younger than all that have been started is what
\* a caller of the driver may do (Submit).
LEMMA StartSubmits ==
    ASSUME plugged, NEW uid \in Uid, \A v \in used : v < uid,
           NEW kind \in Kind, NEW cb \in Callback, kind # "rx" => cb = "sync",
           Start(uid, kind, cb), UNCHANGED <<workerVars, rxVars, plugged>>
    PROVE  HidNext
<1>1. Submit(uid, kind, cb)
  BY DEF Submit
<1>. QED BY <1>1 DEF HidNext

\* _start_and_complete_by_...: the request is started or, without a device,
\* the driver is left alone.
LEMMA StartAndWaitSubmits ==
    ASSUME StartOrder, CtlTypeOK, NEW id \in DOMAIN req, \A v \in used : v < id,
           req[id].op \in {"transmit", "transmit_empty", "write", "cancel", "close"},
           StartAndWait(id), UNCHANGED <<workerVars, rxVars, plugged>>
    PROVE  HidNext \/ UNCHANGED hidVars
<1>1. CASE plugged
  <2>1. KindOf(req[id].op) \in Kind /\ "sync" \in Callback
    BY DEF KindOf, Kind, Callback
  <2>2. Start(id, KindOf(req[id].op), "sync")
    BY <1>1 DEF StartAndWait
  <2>3. id \in Uid
    BY HidAssumption DEF CtlTypeOK, Uid
  <2>. QED BY <1>1, <2>1, <2>2, <2>3, StartSubmits
<1>2. CASE ~plugged
  BY <1>2 DEF StartAndWait, hidVars
<1>. QED BY <1>1, <1>2

\* What the controller's callbacks return is what a callback may return: the
\* reads they name wait in the read queues, so they have been started.
LEMMA ReturnAllowed ==
    ASSUME CtlTypeOK, ReadsStarted, used \in SUBSET Uid, NEW item \in Item
    PROVE  ReturnOf(item) \in Returns(item.cb)
<1> DEFINE again == {Front(s).id : s \in Flagged}
<1>1. again \subseteq used
  <2> SUFFICES ASSUME NEW s \in Flagged PROVE Front(s).id \in used
    OBVIOUS
  <2>1. s \in Session /\ readq[s] \in Seq(Entry) /\ readq[s] # <<>>
    BY DEF Flagged, Listed, CtlTypeOK
  <2>2. 1 \in DOMAIN readq[s] /\ Front(s) = readq[s][1]
    BY <2>1 DEF Front
  <2>. QED BY <2>1, <2>2 DEF ReadsStarted
<1>2. CASE item.cb = "sync"
  BY <1>2, NoReturnType DEF ReturnOf, NoReturn, Returns
<1>3. CASE item.cb # "sync"
  <2> DEFINE done == item.res.st # "bad" /\ Listed \ Flagged # {}
             more == IF item.res.st # "bad" /\ item.cb = "shared" THEN again ELSE {}
  <2>1. ReturnOf(item) = [done |-> done, more |-> more]
    BY <1>3 DEF ReturnOf, ReadReturn
  <2>2. done \in BOOLEAN
    OBVIOUS
  <2>3. more \subseteq used /\ more \subseteq Uid /\ (item.cb # "shared" => more = {})
    BY <1>1
  <2>. HIDE DEF done, more
  <2>4. [done |-> done, more |-> more] \in Return
    BY <2>2, <2>3, Zenon DEF Return
  <2>. QED BY <1>3, <2>1, <2>3, <2>4 DEF Returns
<1>. QED BY <1>2, <1>3

\* Every step of the controller, of its callbacks, of the device and of the
\* clients is a step of the driver or leaves the driver alone.
LEMMA StepUses ==
    ASSUME UseInv, [DevNext]_devVars
    PROVE  [HidNext]_hidVars
<1> USE DEF UseInv
<1>0. used \in SUBSET Uid /\ cur \in Item /\ fresh \in Item
  BY DEF WorkerInv, TypeOK
<1>1. CASE UNCHANGED hidVars
  BY <1>1
<1>2. CASE UNCHANGED devVars
  BY <1>1, <1>2 DEF devVars
<1>3. CASE Controller
  <2>1. ASSUME NEW id \in DOMAIN req,
               TurnAway(id) \/ Open(id) \/ CloseIdle(id) \/ CloseReading(id) \/ FlagOthers(id)
                 \/ \E evt \in Event : Refuse(id, evt)
        PROVE  [HidNext]_hidVars
    BY <1>1, <2>1 DEF TurnAway, Open, CloseIdle, CloseReading, FlagOthers, Refuse
  <2>2. ASSUME NEW id \in DOMAIN req, StartSync(id)
        PROVE  [HidNext]_hidVars
    <3>1. Pop(id) /\ StartAndWait(id) /\ UNCHANGED <<workerVars, rxVars, plugged>>
      BY <2>2 DEF StartSync
    <3>2. req[id].op \in Action /\ \A v \in used : v < id
      BY <3>1, PopOrder DEF Request
    <3>3. req[id].op \in {"transmit", "transmit_empty", "write", "cancel", "close"}
      BY <2>2, <3>2 DEF StartSync, Action, EventOf
    <3>. QED BY <3>1, <3>2, <3>3, StartAndWaitSubmits
  <2>3. ASSUME NEW id \in DOMAIN req, StartRead(id)
        PROVE  [HidNext]_hidVars
    <3>1. Pop(id) /\ UNCHANGED <<workerVars, rxVars, plugged>>
      BY <2>3 DEF StartRead
    <3>2. CASE plugged
      <4> DEFINE cb == IF shared THEN "shared" ELSE "exclusive"
      <4>1. Start(id, "rx", cb) /\ cb \in Callback /\ "rx" \in Kind
        BY <2>3, <3>2 DEF StartRead, Callback, Kind
      <4>2. id \in Uid /\ \A v \in used : v < id
        BY <3>1, PopOrder
      <4>. QED BY <3>1, <3>2, <4>1, <4>2, StartSubmits
    <3>3. CASE ~plugged
      BY <2>3, <3>3 DEF StartRead, hidVars
    <3>. QED BY <3>2, <3>3
  <2>4. CASE StartFlaggedOrClose
    <3>1. /\ StartAndWait(areq) /\ UNCHANGED <<workerVars, rxVars, plugged>>
          /\ apc \in {"flagged", "close"}
      BY <2>4 DEF StartFlaggedOrClose
    <3>. QED BY <3>1, StartAndWaitSubmits DEF AboutToStart
  <2>5. CASE Wake \/ Reading \/ Collect \/ Continue
    BY <1>1, <2>5 DEF Wake, Reading, Collect, Continue
  <2>. QED BY <1>3, <2>1, <2>2, <2>3, <2>4, <2>5 DEF Controller
<1>4. CASE Driver
  <2>1. CASE DriverOnly
    BY <2>1 DEF DriverOnly, HidNext, Serve
  <2>2. CASE BeginCur
    BY <1>0, <2>2, ReturnAllowed DEF BeginCur, HidNext, Callbacks
  <2>3. CASE BeginNew
    BY <1>0, <2>3, ReturnAllowed DEF BeginNew, HidNext, Callbacks
  <2>4. CASE EndCur \/ EndNew
    BY <2>4 DEF EndCur, EndNew, HidNext, Serve
  <2>. QED BY <1>4, <2>1, <2>2, <2>3, <2>4 DEF Driver
<1>5. CASE Device
  BY <1>5 DEF Device, HidNext
<1>6. ASSUME NEW s \in Session, NEW op \in Action, Post(s, op)
      PROVE  [HidNext]_hidVars
  BY <1>1, <1>6 DEF Post
<1>. QED BY <1>2, <1>3, <1>4, <1>5, <1>6 DEF DevNext

-----------------------------------------------------------------------------
(* Type correctness of the controller.                                      *)

\* An entry of a queue as it is put in.
LEMMA WaitingType ==
    ASSUME NEW id \in Uid
    PROVE  Waiting(id) \in Entry
  BY ResType DEF Waiting, Entry, NotYet

\* Flagging or answering the front of a queue leaves the reads in it.
LEMMA FrontChanges ==
    ASSUME NEW q \in Seq(Entry), q # <<>>, NEW p, NEW b \in BOOLEAN, NEW res \in Result,
           p = [q EXCEPT ![1].rec = b] \/ p = [q EXCEPT ![1].rsp = res]
    PROVE  /\ p \in Seq(Entry)
           /\ DOMAIN p = DOMAIN q
           /\ \A i \in DOMAIN q : p[i].id = q[i].id
<1>1. 1 \in DOMAIN q /\ q[1] \in Entry /\ Len(q) \in Nat /\ DOMAIN q = 1..Len(q)
  OBVIOUS
<1>2. PICK e \in Entry : e.id = q[1].id /\ p = [q EXCEPT ![1] = e]
  <2>1. CASE p = [q EXCEPT ![1].rec = b]
    <3> DEFINE e == [q[1] EXCEPT !.rec = b]
    <3>1. e \in Entry /\ e.id = q[1].id
      BY <1>1 DEF Entry
    <3>2. p = [q EXCEPT ![1] = e]
      BY <2>1
    <3>. QED BY <3>1, <3>2
  <2>2. CASE p = [q EXCEPT ![1].rsp = res]
    <3> DEFINE e == [q[1] EXCEPT !.rsp = res]
    <3>1. e \in Entry /\ e.id = q[1].id
      BY <1>1 DEF Entry
    <3>2. p = [q EXCEPT ![1] = e]
      BY <2>2
    <3>. QED BY <3>1, <3>2
  <2>. QED BY <2>1, <2>2
<1>3. p \in Seq(Entry)
  BY <1>1, <1>2, ExceptSeq
<1>. QED BY <1>1, <1>2, <1>3

\* The same reads wait for an answer, in the same order.
SameReadsOf(s) ==
    /\ DOMAIN readq'[s] = DOMAIN readq[s]
    /\ \A i \in DOMAIN readq[s] : readq'[s][i].id = readq[s][i].id
SameReads == \A s \in Session : SameReadsOf(s)

\* The controller waits for the same requests.
SameSync == Len(syncq') = Len(syncq) /\ (syncq # <<>> => Head(syncq').id = Head(syncq).id)

\* ... of one session's reads.
LEMMA FrontKeeps ==
    ASSUME NEW s, readq[s] \in Seq(Entry), readq[s] # <<>>,
           NEW b \in BOOLEAN, NEW res \in Result,
           \/ readq'[s] = [readq[s] EXCEPT ![1].rec = b]
           \/ readq'[s] = [readq[s] EXCEPT ![1].rsp = res]
    PROVE  readq'[s] \in Seq(Entry) /\ SameReadsOf(s)
<1> DEFINE q == readq[s]
           p == readq'[s]
<1>1. /\ q \in Seq(Entry) /\ q # <<>>
      /\ p = [q EXCEPT ![1].rec = b] \/ p = [q EXCEPT ![1].rsp = res]
  OBVIOUS
<1>. HIDE DEF q, p
<1>2. p \in Seq(Entry) /\ DOMAIN p = DOMAIN q /\ \A i \in DOMAIN q : p[i].id = q[i].id
  BY <1>1, FrontChanges
<1>. QED BY <1>2 DEF q, p, SameReadsOf

\* _start_and_complete_by_...
LEMMA StartAndWaitType ==
    ASSUME CtlTypeOK, NEW id \in Uid, StartAndWait(id)
    PROVE  /\ syncq' \in Seq(Entry) /\ aresp' \in Result
           /\ apc' \in {"wait", "collect"}
<1>1. Waiting(id) \in Entry /\ Res("error") \in Result
  BY WaitingType, ResType
<1>2. CASE plugged
  <2>1. syncq' = Append(syncq, Waiting(id)) /\ aresp' = aresp /\ apc' = "wait"
    BY <1>2 DEF StartAndWait
  <2>. QED BY <1>1, <2>1 DEF CtlTypeOK
<1>3. CASE ~plugged
  BY <1>1, <1>3 DEF StartAndWait, CtlTypeOK
<1>. QED BY <1>2, <1>3

\* The callbacks on the driver's thread, for the reads and for the requests
\* whose sender waits.
LEMMA CallbackType ==
    ASSUME CtlTypeOK, NEW item \in Item, CallbackOf(item)
    PROVE  /\ readq' \in [Session -> Seq(Entry)] /\ SameReads
           /\ syncq' \in Seq(Entry) /\ SameSync
           /\ bsel' \subseteq Session
<1>1. item.res \in Result
  BY DEF Item
<1>2. CASE item.cb = "sync"
  <2>1. SyncCallback(item)
    BY <1>2 DEF CallbackOf
  <2>2. syncq' \in Seq(Entry) /\ SameSync
    <3>1. CASE syncq = <<>>
      BY <2>1, <3>1 DEF SyncCallback, SameSync
    <3>2. CASE syncq # <<>>
      <4>1. syncq' = [syncq EXCEPT ![1].rsp = item.res] /\ syncq \in Seq(Entry)
        BY <2>1, <3>2 DEF SyncCallback, CtlTypeOK
      <4>2. /\ syncq' \in Seq(Entry) /\ DOMAIN syncq' = DOMAIN syncq
            /\ \A i \in DOMAIN syncq : syncq'[i].id = syncq[i].id
        BY <1>1, <3>2, <4>1, FrontChanges
      <4>3. Len(syncq') = Len(syncq) /\ 1 \in DOMAIN syncq
        BY <3>2, <4>1, <4>2
      <4>4. Head(syncq') = syncq'[1] /\ Head(syncq) = syncq[1]
        BY <3>2, <4>1, <4>2, <4>3
      <4>. QED BY <4>2, <4>3, <4>4 DEF SameSync
    <3>. QED BY <3>1, <3>2
  <2>. QED BY <2>1, <2>2 DEF SyncCallback, CtlTypeOK, SameReads, SameReadsOf
<1>3. CASE item.cb # "sync"
  <2>1. ReadCallback(item)
    BY <1>3 DEF CallbackOf
  <2>2. syncq' \in Seq(Entry) /\ SameSync /\ bsel' \subseteq Session
    BY <2>1 DEF ReadCallback, CtlTypeOK, Listed, SameSync
  <2>3. ASSUME NEW s \in Session
        PROVE  readq'[s] \in Seq(Entry) /\ SameReadsOf(s)
    <3>1. readq[s] \in Seq(Entry)
      BY DEF CtlTypeOK
    <3>2. CASE readq'[s] = readq[s]
      BY <3>1, <3>2 DEF SameReadsOf
    <3>3. CASE readq[s] # <<>> /\ readq'[s] = [readq[s] EXCEPT ![1].rec = FALSE]
      BY <1>1, <3>1, <3>3, FrontKeeps
    <3>4. CASE readq[s] # <<>> /\ readq'[s] = [readq[s] EXCEPT ![1].rsp = item.res]
      BY <1>1, <3>1, <3>4, FrontKeeps
    <3>5. Flagged \subseteq Listed /\ (s \in Listed => readq[s] # <<>>)
      BY DEF Flagged, Listed
    <3>. QED BY <2>1, <3>2, <3>3, <3>4, <3>5 DEF ReadCallback, Answered
  <2>4. readq' \in [Session -> Seq(Entry)]
    <3>1. readq' = [s \in Session |-> readq'[s]]
      BY <2>1 DEF ReadCallback, CtlTypeOK
    <3>. QED BY <2>3, <3>1
  <2>. QED BY <2>2, <2>3, <2>4 DEF SameReads
<1>. QED BY <1>2, <1>3

\* Flagging the oldest reads of the other sessions.
LEMMA FlagType ==
    ASSUME CtlTypeOK, NEW id, FlagOthers(id)
    PROVE  readq' \in [Session -> Seq(Entry)] /\ SameReads
<1>1. ASSUME NEW s \in Session
      PROVE  readq'[s] \in Seq(Entry) /\ SameReadsOf(s)
  <2>1. readq[s] \in Seq(Entry)
    BY DEF CtlTypeOK
  <2>2. CASE readq'[s] = readq[s]
    BY <2>1, <2>2 DEF SameReadsOf
  <2>3. CASE readq[s] # <<>> /\ readq'[s] = [readq[s] EXCEPT ![1].rec = TRUE]
    <3>1. Res("error") \in Result
      BY ResType
    <3>. QED BY <2>1, <2>3, <3>1, FrontKeeps
  <2>. QED BY <2>2, <2>3 DEF FlagOthers, Listed
<1>2. readq' = [s \in Session |-> readq'[s]]
  BY DEF FlagOthers
<1>. QED BY <1>1, <1>2 DEF SameReads

\* The transition functions lead from states to states.
LEMMA StateType ==
    ASSUME CtlTypeOK
    PROVE  /\ \A s, evt : evt \in Event /\ st' = [st EXCEPT ![s] = NextState(@, evt)]
                 => st' \in [Session -> State]
           /\ \A s : LeaveMap(s) => st' \in [Session -> State] /\ shared' \in BOOLEAN
           /\ StopWaiting => st' \in [Session -> State]
<1>1. st \in [Session -> State] /\ shared \in BOOLEAN /\ "not" \in State /\ "rx" \in Event
  BY DEF CtlTypeOK, State, Event
<1>2. \A x \in State, evt \in Event : NextState(x, evt) \in State
  BY NextStateStays
<1>3. ASSUME NEW s, NEW evt \in Event, st' = [st EXCEPT ![s] = NextState(@, evt)]
      PROVE  st' \in [Session -> State]
  BY <1>1, <1>2, <1>3
<1>4. ASSUME NEW s, LeaveMap(s)
      PROVE  st' \in [Session -> State] /\ shared' \in BOOLEAN
  BY <1>1, <1>4 DEF LeaveMap
<1>5. ASSUME StopWaiting
      PROVE  st' \in [Session -> State]
  BY <1>1, <1>2, <1>5 DEF StopWaiting
<1>. QED BY <1>3, <1>4, <1>5

\* The steps of the controller's thread keep the kinds of state.
LEMMA ControllerType ==
    ASSUME CtlTypeOK, StartOrder, AboutToStart, ReadsStarted, Controller
    PROVE  CtlTypeOK'
<1> USE HidAssumption DEF CtlTypeOK, clientVars, ctlVars, stateVars, queueVars
<1>1. Res("error") \in Result /\ Res("success") \in Result /\ NotYet \in Result
  BY ResType DEF NotYet
<1>2. \A id \in Uid : id \in 0..MaxUid
  BY DEF Uid
<1>3. ASSUME NEW id \in DOMAIN req, TurnAway(id)
      PROVE  CtlTypeOK'
  <2>1. \A a \in {Answer(id, Res("error"))} : a.rsp \in Result
    BY <1>1 DEF Answer
  <2>2. req' \in Seq(Request) /\ Len(req') = Len(req)
    BY <1>3, <2>1, SendType DEF TurnAway
  <2>3. mq' \in Seq(Uid)
    BY <1>3, PopOrder DEF TurnAway
  <2>. QED BY <1>3, <2>2, <2>3 DEF TurnAway
<1>4. ASSUME NEW id \in DOMAIN req, NEW evt, Dispatch(id, evt)
      PROVE  /\ req' = req /\ acur' = acur /\ syncq' = syncq /\ bsel' = bsel
             /\ mq' \in Seq(Uid) /\ areq' \in 0..MaxUid
  BY <1>2, <1>4, PopOrder DEF Dispatch
<1>5. ASSUME NEW id \in DOMAIN req, NEW evt, Refuse(id, evt)
      PROVE  CtlTypeOK'
  BY <1>1, <1>4, <1>5 DEF Refuse
<1>6. ASSUME NEW id \in DOMAIN req, Open(id)
      PROVE  CtlTypeOK'
  <2>1. st' \in [Session -> State] /\ shared' \in BOOLEAN
    BY <1>6, StateType DEF Open, Event
  <2>. QED BY <1>1, <1>4, <1>6, <2>1 DEF Open
<1>7. ASSUME NEW id \in DOMAIN req, CloseIdle(id)
      PROVE  CtlTypeOK'
  <2>1. st' \in [Session -> State] /\ shared' \in BOOLEAN
    BY <1>7, StateType DEF CloseIdle
  <2>. QED BY <1>1, <1>4, <1>7, <2>1 DEF CloseIdle
<1>8. ASSUME NEW id \in DOMAIN req, CloseReading(id)
      PROVE  CtlTypeOK'
  BY <1>4, <1>8 DEF CloseReading
<1>9. ASSUME NEW id \in DOMAIN req, FlagOthers(id)
      PROVE  CtlTypeOK'
  BY <1>4, <1>9, FlagType DEF FlagOthers
<1>10. ASSUME NEW id \in DOMAIN req, StartSync(id)
       PROVE  CtlTypeOK'
  BY <1>2, <1>10, PopOrder, StartAndWaitType DEF StartSync
<1>11. CASE StartFlaggedOrClose
  <2>1. areq \in Uid
    BY <1>11 DEF StartFlaggedOrClose, AboutToStart, Uid
  <2>. QED BY <1>11, <2>1, StartAndWaitType DEF StartFlaggedOrClose
<1>12. ASSUME NEW id \in DOMAIN req, StartRead(id)
       PROVE  CtlTypeOK'
  <2>1. id \in Uid /\ mq' \in Seq(Uid) /\ req[id].ses \in Session
    BY <1>12, PopOrder DEF StartRead, Request
  <2>2. Append(readq[req[id].ses], Waiting(id)) \in Seq(Entry)
    BY <2>1, WaitingType
  <2>3. readq' \in [Session -> Seq(Entry)]
    BY <1>12, <2>1, <2>2 DEF StartRead
  <2>. QED BY <1>1, <1>2, <1>12, <2>1, <2>3 DEF StartRead
<1>13. CASE Wake
  <2>1. Head(syncq).rsp \in Result
    <3>1. Head(syncq) \in Entry
      BY <1>13 DEF Wake
    <3>. QED BY <3>1 DEF Entry
  <2>2. st' \in [Session -> State] /\ shared' \in BOOLEAN
    BY <1>13, StateType DEF Wake, Event
  <2>. QED BY <1>1, <1>13, <2>1, <2>2 DEF Wake
<1>14. CASE Reading
  <2>1. st' \in [Session -> State]
    BY <1>14, StateType DEF Reading, Event
  <2>. QED BY <1>14, <2>1 DEF Reading
<1>15. CASE Collect
  <2> DEFINE answers == Completed \cup
                        (IF areq \in CompletedIds THEN {} ELSE {Answer(areq, aresp)})
  <2>1. \A a \in answers : a.rsp \in Result
    BY CompletedType DEF Answer
  <2>2. Send(answers)
    BY <1>15 DEF Collect
  <2>3. req' \in Seq(Request) /\ Len(req') = Len(req)
    BY <2>1, <2>2, SendType
  <2>4. readq' \in [Session -> Seq(Entry)] /\ syncq' \in Seq(Entry)
    BY <1>15, RemoveType DEF Collect
  <2>5. acur' \in 0..MaxUid
    BY <1>15, <2>4, FirstReadType DEF Collect
  <2>. QED BY <1>1, <1>15, <2>3, <2>4, <2>5 DEF Collect
<1>16. CASE Continue
  <2>1. req' \in Seq(Request) /\ Len(req') = Len(req)
    BY <1>16, CompletedType, SendType DEF Continue
  <2>2. readq' \in [Session -> Seq(Entry)] /\ syncq' \in Seq(Entry)
    BY <1>16, RemoveType DEF Continue
  <2>. QED BY <1>16, <2>1, <2>2 DEF Continue
<1>. QED BY <1>3, <1>5, <1>6, <1>7, <1>8, <1>9, <1>10, <1>11, <1>12, <1>13, <1>14, <1>15,
            <1>16 DEF Controller

\* Every step keeps the kinds of state of the controller.
LEMMA StepType ==
    ASSUME UseInv, [DevNext]_devVars
    PROVE  CtlTypeOK'
<1> USE DEF UseInv
<1>1. CASE UNCHANGED <<clientVars, ctlVars, stateVars, queueVars, bsel>>
  BY <1>1 DEF CtlTypeOK, clientVars, ctlVars, stateVars, queueVars
<1>2. CASE UNCHANGED devVars
  BY <1>1, <1>2 DEF devVars
<1>3. CASE Controller
  BY <1>3, ControllerType
<1>4. CASE Driver
  <2>1. cur \in Item /\ fresh \in Item
    BY DEF WorkerInv, TypeOK
  <2>2. CASE BeginCur \/ BeginNew
    <3>1. PICK item \in Item : CallbackOf(item)
      BY <2>1, <2>2 DEF BeginCur, BeginNew
    <3>2. /\ readq' \in [Session -> Seq(Entry)] /\ syncq' \in Seq(Entry)
          /\ bsel' \subseteq Session
      BY <3>1, CallbackType
    <3>. QED BY <2>2, <3>2
         DEF BeginCur, BeginNew, CtlTypeOK, clientVars, ctlVars, stateVars
  <2>3. CASE EndCur \/ EndNew
    <3>1. StopWaiting
      BY <2>3 DEF EndCur, EndNew
    <3>2. st' \in [Session -> State]
      BY <3>1, StateType
    <3>. QED BY <3>1, <3>2 DEF StopWaiting, CtlTypeOK, clientVars, ctlVars, queueVars
  <2>. QED BY <1>1, <1>4, <2>2, <2>3 DEF Driver
<1>5. CASE Device
  BY <1>1, <1>5 DEF Device
<1>6. ASSUME NEW s \in Session, NEW op \in Action, Post(s, op)
      PROVE  CtlTypeOK'
  <2> DEFINE r == [ses |-> s, op |-> op, ans |-> <<>>]
  <2>1. r \in Request /\ Len(req) + 1 \in Uid
    BY <1>6, HidAssumption DEF Post, CtlTypeOK, Request, Uid
  <2>. HIDE DEF r
  <2>2. Append(req, r) \in Seq(Request) /\ Len(Append(req, r)) = Len(req) + 1
    BY <2>1 DEF CtlTypeOK
  <2>3. req' = Append(req, r) /\ mq' = Append(mq, Len(req) + 1)
    BY <1>6 DEF Post, r
  <2>4. Len(req') <= MaxUid /\ mq' \in Seq(Uid)
    BY <2>1, <2>2, <2>3 DEF CtlTypeOK, Uid
  <2>. QED BY <1>6, <2>2, <2>3, <2>4 DEF Post, CtlTypeOK, ctlVars, stateVars, queueVars
<1>. QED BY <1>2, <1>3, <1>4, <1>5, <1>6 DEF DevNext

-----------------------------------------------------------------------------
(* The order of the requests.                                               *)

\* What the order rests on: the requests, those that wait and those started.
LEMMA OrderStays ==
    ASSUME StartOrder, DOMAIN req' = DOMAIN req, mq' = mq, used' = used
    PROVE  StartOrder'
  BY DEF StartOrder

\* A popped request leaves the others in order, whether it is started or not.
LEMMA PopKeepsOrder ==
    ASSUME CtlTypeOK, StartOrder, NEW id, Pop(id), DOMAIN req' = DOMAIN req,
           used' = used \/ used' = used \cup {id}
    PROVE  StartOrder'
  BY PopOrder DEF StartOrder

\* The steps of the controller's thread keep the order, and what it is about
\* to start is the request it has popped.
LEMMA ControllerOrder ==
    ASSUME CtlTypeOK, StartOrder, AboutToStart, Controller
    PROVE  StartOrder' /\ AboutToStart'
<1> USE DEF clientVars, hidVars
<1>1. ASSUME NEW id \in DOMAIN req, TurnAway(id)
      PROVE  StartOrder' /\ AboutToStart'
  <2>1. \A a \in {Answer(id, Res("error"))} : a.rsp \in Result
    BY ResType DEF Answer
  <2>2. DOMAIN req' = DOMAIN req
    BY <1>1 DEF TurnAway, Send
  <2>3. apc = "idle" /\ apc' = apc /\ used' = used
    BY <1>1 DEF TurnAway, Pop, ctlVars
  <2>. QED BY <1>1, <2>2, <2>3, PopKeepsOrder DEF TurnAway, AboutToStart
<1>2. ASSUME NEW id \in DOMAIN req,
             Open(id) \/ CloseIdle(id) \/ StartSync(id) \/ StartRead(id)
               \/ \E evt \in Event : Refuse(id, evt)
      PROVE  StartOrder' /\ AboutToStart'
  <2>1. Pop(id) /\ req' = req
    BY <1>2 DEF Open, CloseIdle, StartSync, StartRead, Refuse, Dispatch
  <2>2. used' = used \/ used' = used \cup {id}
    BY <1>2 DEF Open, CloseIdle, StartSync, StartRead, Refuse, StartAndWait, Start
  <2>3. apc' \notin {"flagged", "close"}
    BY <1>2 DEF Open, CloseIdle, StartSync, StartRead, Refuse, StartAndWait
  <2>. QED BY <2>1, <2>2, <2>3, PopKeepsOrder DEF AboutToStart
<1>3. ASSUME NEW id \in DOMAIN req, CloseReading(id) \/ FlagOthers(id)
      PROVE  StartOrder' /\ AboutToStart'
  <2>1. Pop(id) /\ req' = req /\ used' = used /\ areq' = id
    BY <1>3 DEF CloseReading, FlagOthers, Dispatch
  <2>2. req[id].op \in Action /\ req[id].op # "unsupported"
    BY <1>3, <2>1, PopOrder DEF CloseReading, FlagOthers, Dispatch, Request
  <2>3. req[id].op \in {"transmit", "transmit_empty", "write", "cancel", "close"}
    BY <1>3, <2>2 DEF CloseReading, FlagOthers, Dispatch, EventOf, Action
  <2>4. StartOrder'
    BY <2>1, PopKeepsOrder
  <2>. QED BY <2>1, <2>3, <2>4, PopOrder DEF AboutToStart
<1>4. CASE StartFlaggedOrClose
  <2>1. req' = req /\ mq' = mq
    BY <1>4 DEF StartFlaggedOrClose
  <2>2. used' = used \/ used' = used \cup {areq}
    BY <1>4 DEF StartFlaggedOrClose, StartAndWait, Start
  <2>3. apc' \notin {"flagged", "close"}
    BY <1>4 DEF StartFlaggedOrClose, StartAndWait
  <2>4. StartOrder'
    BY <1>4, <2>1, <2>2 DEF StartFlaggedOrClose, StartOrder, AboutToStart
  <2>. QED BY <2>3, <2>4 DEF AboutToStart
<1>5. CASE Wake \/ Reading \/ Collect \/ Continue
  <2>1. DOMAIN req' = DOMAIN req /\ mq' = mq /\ used' = used
    BY <1>5 DEF Wake, Reading, Collect, Continue, Send
  <2>2. apc' \notin {"flagged", "close"}
    BY <1>5 DEF Wake, Reading, Collect, Continue
  <2>. QED BY <2>1, <2>2, OrderStays DEF AboutToStart
<1>. QED BY <1>1, <1>2, <1>3, <1>4, <1>5 DEF Controller

\* A request that has been started stays so.
LEMMA UsedGrows ==
    ASSUME [HidNext]_hidVars
    PROVE  used \subseteq used'
<1>1. CASE UNCHANGED hidVars
  BY <1>1 DEF hidVars
<1>2. ASSUME NEW uid \in Uid, NEW kind \in Kind, NEW cb \in Callback, Submit(uid, kind, cb)
      PROVE  used \subseteq used'
  BY <1>2 DEF Submit, Start
<1>3. ASSUME NEW kind \in RxKind, Receive(kind)
      PROVE  used' = used
  BY <1>3 DEF Receive
<1>4. CASE Serve
  BY <1>4 DEF Serve, Pump, ReadCurrent, PopWhileBroken, PopPark, PopCancel, PopWrite,
              PopWriteRead, PopRead, FinishCur, FinishNew
<1>5. CASE Callbacks \/ Unplug
  BY <1>5 DEF Callbacks, RunCur, RunNew, Unplug
<1>. QED BY <1>1, <1>2, <1>3, <1>4, <1>5 DEF HidNext

\* The steps of the driver, of its callbacks and of the device start nothing.
LEMMA DriverStartsNothing ==
    ASSUME Driver \/ Device
    PROVE  used' = used
<1>1. CASE DriverOnly
  BY <1>1 DEF DriverOnly, Pump, ReadCurrent, PopWhileBroken, PopPark, PopCancel, PopWrite,
              PopWriteRead, PopRead
<1>2. CASE BeginCur \/ BeginNew \/ EndCur \/ EndNew
  BY <1>2 DEF BeginCur, BeginNew, EndCur, EndNew, RunCur, RunNew, FinishCur, FinishNew
<1>3. CASE Device
  BY <1>3 DEF Device, Unplug, Receive
<1>. QED BY <1>1, <1>2, <1>3 DEF Driver

\* Every step keeps the order.
LEMMA StepOrder ==
    ASSUME UseInv, [DevNext]_devVars
    PROVE  StartOrder' /\ AboutToStart'
<1> USE DEF UseInv
<1>1. CASE UNCHANGED <<clientVars, ctlVars, used>>
  BY <1>1, OrderStays DEF clientVars, ctlVars, AboutToStart
<1>2. CASE UNCHANGED devVars
  BY <1>1, <1>2 DEF devVars, hidVars
<1>3. CASE Controller
  BY <1>3, ControllerOrder
<1>4. CASE Driver \/ Device
  <2>1. UNCHANGED <<clientVars, ctlVars>>
    BY <1>4 DEF Driver, BeginCur, BeginNew, EndCur, EndNew, StopWaiting, Device
  <2>. QED BY <1>1, <1>4, <2>1, DriverStartsNothing
<1>5. ASSUME NEW s \in Session, NEW op \in Action, Post(s, op)
      PROVE  StartOrder' /\ AboutToStart'
  <2> DEFINE r == [ses |-> s, op |-> op, ans |-> <<>>]
             n == Len(req) + 1
  <2>1. /\ req' = Append(req, r) /\ mq' = Append(mq, n) /\ used' = used
        /\ UNCHANGED ctlVars
    BY <1>5 DEF Post, hidVars
  <2>2. req \in Seq(Request) /\ mq \in Seq(Uid) /\ r \in Request
    BY <1>5 DEF CtlTypeOK, Request
  <2>. HIDE DEF r
  <2>3. /\ DOMAIN req' = 1..n /\ DOMAIN req = 1..Len(req) /\ Len(req) \in Nat
        /\ \A id \in DOMAIN req : req'[id] = req[id]
    BY <2>1, <2>2
  <2>4. /\ DOMAIN mq' = 1..(Len(mq) + 1) /\ DOMAIN mq = 1..Len(mq) /\ Len(mq) \in Nat
        /\ \A i \in DOMAIN mq : mq'[i] = mq[i]
        /\ mq'[Len(mq) + 1] = n
    BY <2>1, <2>2, HidAssumption DEF Uid
  <2>5. \A v \in DOMAIN req : v < n
    BY <2>3
  <2>6. used' \subseteq DOMAIN req'
    BY <2>1, <2>3 DEF StartOrder
  <2>7. ASSUME NEW i \in DOMAIN mq'
        PROVE  mq'[i] \in DOMAIN req' /\ \A v \in used' : v < mq'[i]
    <3>1. CASE i \in DOMAIN mq
      BY <2>1, <2>3, <2>4, <3>1 DEF StartOrder
    <3>2. CASE i = Len(mq) + 1
      BY <2>1, <2>3, <2>4, <2>5, <3>2 DEF StartOrder
    <3>. QED BY <2>4, <2>7, <3>1, <3>2
  <2>8. ASSUME NEW i \in DOMAIN mq', NEW j \in DOMAIN mq', i < j
        PROVE  mq'[i] < mq'[j]
    <3>1. CASE j \in DOMAIN mq
      BY <2>4, <2>8, <3>1 DEF StartOrder
    <3>2. CASE j = Len(mq) + 1
      BY <2>4, <2>5, <2>8, <3>2 DEF StartOrder
    <3>. QED BY <2>4, <2>8, <3>1, <3>2
  <2>9. AboutToStart'
    <3> SUFFICES ASSUME apc' \in {"flagged", "close"}
                 PROVE  /\ areq' \in DOMAIN req'
                        /\ req'[areq'].op \in {"transmit", "transmit_empty", "write",
                                               "cancel", "close"}
                        /\ \A v \in used' : v < areq'
                        /\ \A i \in DOMAIN mq' : areq' < mq'[i]
      BY DEF AboutToStart
    <3>1. apc' = apc /\ areq' = areq
      BY <2>1 DEF ctlVars
    <3>2. areq \in DOMAIN req /\ \A i \in DOMAIN mq : areq < mq[i]
      BY <3>1 DEF AboutToStart
    <3>3. \A i \in DOMAIN mq' : areq < mq'[i]
      BY <2>4, <2>5, <3>2
    <3>4. areq \in DOMAIN req' /\ req'[areq] = req[areq]
      BY <2>3, <3>2
    <3>. QED BY <2>1, <3>1, <3>3, <3>4 DEF AboutToStart
  <2>. QED BY <2>6, <2>7, <2>8, <2>9 DEF StartOrder
<1>. QED BY <1>2, <1>3, <1>4, <1>5 DEF DevNext

\* Every step keeps the reads in the read queues among those started.
LEMMA StepReads ==
    ASSUME UseInv, [DevNext]_devVars
    PROVE  ReadsStarted'
<1> USE DEF UseInv
<1>1. used \subseteq used'
  BY StepUses, UsedGrows
<1>2. CASE readq' = readq
  BY <1>1, <1>2 DEF ReadsStarted
<1>2a. CASE SameReads
  BY <1>1, <1>2a DEF ReadsStarted, SameReads, SameReadsOf
<1>3. CASE \A s \in Session : \A i \in DOMAIN readq'[s] : readq'[s][i].id \in used
  BY <1>1, <1>3 DEF ReadsStarted
<1>4. CASE UNCHANGED devVars
  BY <1>2, <1>4 DEF devVars, queueVars
<1>5. CASE Controller
  <2>1. ASSUME NEW id \in DOMAIN req,
               TurnAway(id) \/ Open(id) \/ CloseIdle(id) \/ CloseReading(id) \/ StartSync(id)
                 \/ \E evt \in Event : Refuse(id, evt)
        PROVE  ReadsStarted'
    BY <1>2, <2>1
       DEF TurnAway, Open, CloseIdle, CloseReading, StartSync, Refuse, queueVars
  <2>2. ASSUME NEW id \in DOMAIN req, FlagOthers(id)
        PROVE  ReadsStarted'
    BY <1>2a, <2>2, FlagType
  <2>3. ASSUME NEW id \in DOMAIN req, StartRead(id)
        PROVE  ReadsStarted'
    <3>1. CASE plugged
      <4> DEFINE ses == req[id].ses
      <4>1. id \in Uid /\ id \in used'
        BY <2>3, <3>1, PopOrder DEF StartRead, Start
      <4>2. readq \in [Session -> Seq(Entry)] /\ Waiting(id) \in Entry /\ Waiting(id).id = id
        BY <4>1, WaitingType DEF CtlTypeOK, Waiting
      <4>3. readq' = [readq EXCEPT ![ses] = Append(@, Waiting(id))]
        BY <2>3, <3>1 DEF StartRead
      <4>4. ASSUME NEW s \in Session, NEW i \in DOMAIN readq'[s]
            PROVE  readq'[s][i].id \in used'
        <5>1. CASE s # ses
          BY <1>1, <4>2, <4>3, <4>4, <5>1 DEF ReadsStarted
        <5>2. CASE s = ses
          <6>1. readq'[s] = Append(readq[s], Waiting(id)) /\ readq[s] \in Seq(Entry)
            BY <4>2, <4>3, <5>2
          <6>2. \/ i \in DOMAIN readq[s] /\ readq'[s][i] = readq[s][i]
                \/ readq'[s][i] = Waiting(id)
            BY <4>2, <4>4, <6>1
          <6>. QED BY <1>1, <4>1, <4>2, <6>2 DEF ReadsStarted
        <5>. QED BY <5>1, <5>2
      <4>. QED BY <4>4 DEF ReadsStarted
    <3>2. CASE ~plugged
      BY <1>2, <2>3, <3>2 DEF StartRead
    <3>. QED BY <3>1, <3>2
  <2>4. CASE StartFlaggedOrClose \/ Wake \/ Reading
    BY <1>2, <2>4 DEF StartFlaggedOrClose, Wake, Reading, queueVars
  <2>5. CASE Collect \/ Continue
    BY <1>3, <2>5, RemoveType DEF Collect, Continue
  <2>. QED BY <1>5, <2>1, <2>2, <2>3, <2>4, <2>5 DEF Controller
<1>6. CASE Driver
  <2>1. cur \in Item /\ fresh \in Item
    BY DEF WorkerInv, TypeOK
  <2>2. CASE BeginCur \/ BeginNew
    BY <1>2a, <2>1, <2>2, CallbackType DEF BeginCur, BeginNew
  <2>3. CASE EndCur \/ EndNew
    BY <1>2, <2>3 DEF EndCur, EndNew, StopWaiting, queueVars
  <2>. QED BY <1>2, <1>6, <2>2, <2>3 DEF Driver, queueVars
<1>7. CASE Device
  BY <1>2, <1>7 DEF Device, queueVars
<1>8. ASSUME NEW s \in Session, NEW op \in Action, Post(s, op)
      PROVE  ReadsStarted'
  BY <1>2, <1>8 DEF Post, queueVars
<1>. QED BY <1>4, <1>5, <1>6, <1>7, <1>8 DEF DevNext

-----------------------------------------------------------------------------
(* The results.                                                             *)

\* The invariant of the composition holds at the start ...
LEMMA InitUse == DevInit => UseInv
<1> SUFFICES ASSUME DevInit PROVE UseInv
  OBVIOUS
<1> USE DEF DevInit
<1>1. WorkerInv
  BY InitWorker
<1>2. CtlTypeOK
  <2>1. NotYet \in Result /\ 0 \in 0..MaxUid /\ Len(<<>>) <= MaxUid
    BY ResType, HidAssumption DEF NotYet
  <2>2. req \in Seq(Request) /\ mq \in Seq(Uid) /\ syncq \in Seq(Entry)
    OBVIOUS
  <2>3. st \in [Session -> State] /\ shared \in BOOLEAN
    BY DEF State
  <2>4. readq \in [Session -> Seq(Entry)]
    <3>1. <<>> \in Seq(Entry) /\ readq = [s \in Session |-> <<>>]
      OBVIOUS
    <3>. HIDE DEF DevInit
    <3>. QED BY <3>1, Zenon
  <2>. QED BY <2>1, <2>2, <2>3, <2>4 DEF CtlTypeOK
<1>3. StartOrder /\ AboutToStart /\ ReadsStarted
  BY DEF HidInit, StartOrder, AboutToStart, ReadsStarted
<1>. QED BY <1>1, <1>2, <1>3 DEF UseInv

\* ... and is kept by every step: the worker's part, because the step is one
\* of the driver.
LEMMA NextUse == UseInv /\ [DevNext]_devVars => UseInv'
<1> SUFFICES ASSUME UseInv, [DevNext]_devVars PROVE UseInv'
  OBVIOUS
<1>1. WorkerInv'
  BY StepUses, NextWorker DEF UseInv
<1>. QED BY <1>1, StepType, StepOrder, StepReads DEF UseInv

\* The requests that wait are younger than those started, and every read in a
\* read queue has been started (the whole inductive invariant).
THEOREM UseInvariant == DevSpec => []UseInv
  BY InitUse, NextUse, PTL DEF DevSpec

\* Every variable of the controller and of the driver keeps its kind.
THEOREM DevTypeCorrect == DevSpec => []DevTypeOK
<1>1. UseInv => DevTypeOK
  BY DEF UseInv, WorkerInv, DevTypeOK
<1>. QED BY <1>1, UseInvariant, PTL

\* The controller uses the driver as the driver alone allows: requests are
\* started once and in order, and its callbacks (_cb_dev_read_on_exclusive,
\* _cb_dev_read_on_shared, _cb_dev_for_sync_req) name only reads that have been.
THEOREM DriverImplemented == DevSpec => UsesDriver
<1>1. DevInit => HidInit
  BY DEF DevInit
<1>2. UseInv /\ [DevNext]_devVars => [HidNext]_hidVars
  BY StepUses
<1>. QED BY <1>1, <1>2, UseInvariant, PTL DEF DevSpec, HidSpec, UsesDriver

\* So what is proved of the driver holds under the controller: items in order,
\* reports in order, outcomes told, reads parked only behind a current one.
THEOREM DriverKeepsItsWord ==
    DevSpec => [](NotifyOldFirst /\ ReadyForParked /\ InOrder /\ ReportsInOrder)
  BY DriverImplemented, OutcomesNotified, ParkedBehindCurrent, ItemsInOrder,
     InOrderOfDevice, PTL DEF UsesDriver

-----------------------------------------------------------------------------
(* Every request is answered at most once, and until then the controller   *)
(* keeps it.  A request is in one of three places only, but for the moment *)
(* between the start of a read and the change of state, and it leaves a    *)
(* place when it enters the next one or is answered.  The request the      *)
(* controller blocks for has a second entry in the queue of the requests   *)
(* whose sender waits, so what is collected must not answer it twice.      *)

\* A request that the controller's thread has not taken up.
InMq(id) == \E i \in DOMAIN mq : mq[i] = id

\* No read is in two places of the read queues.
QueuedOnce ==
    \A s, t \in Session : \A i \in DOMAIN readq[s], j \in DOMAIN readq[t] :
        readq[s][i].id = readq[t][j].id => s = t /\ i = j

\* The request being executed is older than those that wait, and it is in a
\* read queue only between the start of the read and the change of state.
Executing ==
    /\ apc = "idle" => areq = 0
    /\ apc # "idle" => areq \in DOMAIN req /\ \A i \in DOMAIN mq : areq < mq[i]
    /\ Queued(areq) <=> apc = "astate"

\* Nothing but the request being executed is in the queue of the requests
\* whose sender waits.
WaitsForOwn ==
    /\ apc \notin {"wait", "collect"} => syncq = <<>>
    /\ apc = "wait" => syncq # <<>>
    /\ syncq # <<>> => Len(syncq) = 1 /\ Head(syncq).id = areq

\* A request is kept exactly as long as it is not answered.
Kept ==
    \A id \in DOMAIN req :
        /\ Len(req[id].ans) <= 1
        /\ req[id].ans = <<>> <=> Pending(id)
        /\ Queued(id) => req[id].op = "read"

AnswerInv == QueuedOnce /\ Executing /\ WaitsForOwn /\ Kept

-----------------------------------------------------------------------------
(* What happens to the queues.                                              *)

\* Setting flags and answers moves no read.
LEMMA SameReadsQueued ==
    ASSUME SameReads
    PROVE  /\ \A id : Queued(id)' <=> Queued(id)
           /\ QueuedOnce => QueuedOnce'
  BY DEF SameReads, SameReadsOf, Queued, QueuedOnce

\* What is in the read queues has been started.
LEMMA QueuedStarted ==
    ASSUME UseInv, NEW id, Queued(id)
    PROVE  id \in used /\ id \in DOMAIN req
  BY DEF UseInv, ReadsStarted, StartOrder, Queued

\* A popped request was in no other place.
LEMMA PopAlone ==
    ASSUME UseInv, NEW id, Pop(id)
    PROVE  /\ id \in DOMAIN req /\ id # 0
           /\ ~Queued(id)
           /\ \A x : InMq(x) <=> x = id \/ InMq(x)'
           /\ ~InMq(id)'
           /\ \A i \in DOMAIN mq' : id < mq'[i]
<1> USE DEF UseInv
<1>1. /\ id \in DOMAIN req /\ id \in Uid
      /\ \A v \in used : v < id
      /\ \A i \in DOMAIN mq' : id < mq'[i]
  BY PopOrder
<1>2. id \in Nat /\ id # 0
  BY <1>1 DEF Uid
<1>3. ~Queued(id)
  BY <1>1, <1>2, QueuedStarted
<1>4. mq \in Seq(Uid) /\ mq # <<>> /\ id = mq[1] /\ mq' = Tail(mq)
  BY DEF Pop, CtlTypeOK
<1>5. \A i \in DOMAIN mq : i = 1 \/ (i - 1 \in DOMAIN mq' /\ mq'[i - 1] = mq[i])
  BY <1>4
<1>6. \A i \in DOMAIN mq' : i + 1 \in DOMAIN mq /\ mq'[i] = mq[i + 1]
  BY <1>4
<1>7. 1 \in DOMAIN mq
  BY <1>4
<1>8. \A x : InMq(x) <=> x = id \/ InMq(x)'
  BY <1>4, <1>5, <1>6, <1>7 DEF InMq
<1>9. ~InMq(id)'
  BY <1>1, <1>2 DEF InMq
<1>. QED BY <1>1, <1>2, <1>3, <1>8, <1>9

\* Removing what is sent takes the reads found answered out of the queues.
LEMMA RemoveQueued ==
    ASSUME CtlTypeOK, QueuedOnce, RemoveCompleted
    PROVE  /\ QueuedOnce'
           /\ \A id : Queued(id)' <=> Queued(id) /\ id \notin {Front(s).id : s \in Taken}
<1>1. \A s \in Session : readq[s] \in Seq(Entry)
  BY DEF CtlTypeOK
<1>2. \A s \in Taken : s \in Session /\ readq[s] # <<>>
  BY DEF Taken, Reached, Listed
<1>3. \A s \in Session : readq'[s] = IF s \in Taken THEN Tail(readq[s]) ELSE readq[s]
  BY DEF RemoveCompleted
<1>4. \A s \in Taken : /\ 1 \in DOMAIN readq[s] /\ Front(s) = readq[s][1]
                       /\ \A i \in DOMAIN readq'[s] : /\ i + 1 \in DOMAIN readq[s]
                                                      /\ readq'[s][i] = readq[s][i + 1]
                                                      /\ i + 1 # 1
                       /\ \A i \in DOMAIN readq[s] :
                            i = 1 \/ (i - 1 \in DOMAIN readq'[s] /\ readq'[s][i - 1] = readq[s][i])
  <2> SUFFICES ASSUME NEW s \in Taken
               PROVE  /\ 1 \in DOMAIN readq[s] /\ Front(s) = readq[s][1]
                      /\ \A i \in DOMAIN readq'[s] : /\ i + 1 \in DOMAIN readq[s]
                                                     /\ readq'[s][i] = readq[s][i + 1]
                                                     /\ i + 1 # 1
                      /\ \A i \in DOMAIN readq[s] :
                           i = 1 \/ (i - 1 \in DOMAIN readq'[s] /\ readq'[s][i - 1] = readq[s][i])
    OBVIOUS
  <2>1. readq[s] \in Seq(Entry) /\ readq[s] # <<>> /\ readq'[s] = Tail(readq[s])
    BY <1>1, <1>2, <1>3
  <2>. QED BY <2>1 DEF Front
<1>5. \A s \in Session : \A i \in DOMAIN readq[s] : i \in Nat
  BY <1>1
<1>6. \A s \in Session : \A i \in DOMAIN readq'[s] : i \in Nat
  BY <1>1, <1>3, <1>2
<1>7. QueuedOnce'
  <2> SUFFICES ASSUME NEW s \in Session, NEW t \in Session,
                      NEW i \in DOMAIN readq'[s], NEW j \in DOMAIN readq'[t],
                      readq'[s][i].id = readq'[t][j].id
               PROVE  s = t /\ i = j
    BY DEF QueuedOnce
  <2>1. PICK k \in DOMAIN readq[s] : /\ readq[s][k] = readq'[s][i]
                                     /\ k = IF s \in Taken THEN i + 1 ELSE i
    BY <1>3, <1>4
  <2>2. PICK m \in DOMAIN readq[t] : /\ readq[t][m] = readq'[t][j]
                                     /\ m = IF t \in Taken THEN j + 1 ELSE j
    BY <1>3, <1>4
  <2>3. s = t /\ k = m
    BY <2>1, <2>2 DEF QueuedOnce
  <2>. QED BY <1>6, <2>1, <2>2, <2>3
<1>8. ASSUME NEW id, Queued(id)'
      PROVE  Queued(id) /\ id \notin {Front(s).id : s \in Taken}
  <2>1. PICK s \in Session : \E i \in DOMAIN readq'[s] : readq'[s][i].id = id
    BY <1>8 DEF Queued
  <2>2. PICK k \in DOMAIN readq[s] : /\ readq[s][k].id = id
                                     /\ s \in Taken => k # 1
    BY <1>3, <1>4, <2>1
  <2>3. Queued(id)
    BY <2>2 DEF Queued
  <2>4. \A t \in Taken : Front(t).id # id
    BY <1>2, <1>4, <2>1, <2>2 DEF QueuedOnce
  <2>. QED BY <2>3, <2>4
<1>9. ASSUME NEW id, Queued(id), id \notin {Front(s).id : s \in Taken}
      PROVE  Queued(id)'
  <2>1. PICK s \in Session : \E i \in DOMAIN readq[s] : readq[s][i].id = id
    BY <1>9 DEF Queued
  <2>2. CASE s \notin Taken
    BY <1>3, <2>1, <2>2 DEF Queued
  <2>3. CASE s \in Taken
    BY <1>4, <1>9, <2>1, <2>3 DEF Queued
  <2>. QED BY <2>2, <2>3
<1>. QED BY <1>7, <1>8, <1>9

\* A read that is started enters the read queue of its session.
LEMMA AppendQueued ==
    ASSUME CtlTypeOK, QueuedOnce, NEW id, ~Queued(id), NEW ses \in Session,
           readq' = [readq EXCEPT ![ses] = Append(@, Waiting(id))]
    PROVE  /\ QueuedOnce'
           /\ \A x : Queued(x)' <=> Queued(x) \/ x = id
<1>1. \A s \in Session : readq[s] \in Seq(Entry)
  BY DEF CtlTypeOK
<1>2. /\ Waiting(id).id = id
      /\ readq'[ses] = Append(readq[ses], Waiting(id))
      /\ \A s \in Session \ {ses} : readq'[s] = readq[s]
  BY DEF Waiting, CtlTypeOK
<1> DEFINE n == Len(readq[ses]) + 1
<1>3. /\ DOMAIN readq'[ses] = DOMAIN readq[ses] \cup {n} /\ n \notin DOMAIN readq[ses]
      /\ \A i \in DOMAIN readq[ses] : readq'[ses][i] = readq[ses][i]
      /\ readq'[ses][n] = Waiting(id)
  <2>1. readq[ses] \in Seq(Entry)
    BY <1>1
  <2>. QED BY <1>2, <2>1
<1>. HIDE DEF n
<1>4. \A s \in Session : \A i \in DOMAIN readq'[s] :
         \/ i \in DOMAIN readq[s] /\ readq'[s][i] = readq[s][i]
         \/ s = ses /\ i = n /\ readq'[s][i].id = id
  BY <1>2, <1>3
<1>5. \A s \in Session : \A i \in DOMAIN readq[s] : readq[s][i].id # id
  BY DEF Queued
<1>6. QueuedOnce'
  BY <1>4, <1>5 DEF QueuedOnce
<1>7. ASSUME NEW x, Queued(x)'
      PROVE  Queued(x) \/ x = id
  BY <1>4, <1>7 DEF Queued
<1>8. ASSUME NEW x, Queued(x) \/ x = id
      PROVE  Queued(x)'
  <2>1. CASE x = id
    BY <1>2, <1>3, <2>1 DEF Queued
  <2>2. CASE Queued(x)
    <3>1. PICK s \in Session : \E i \in DOMAIN readq[s] : readq[s][i].id = x
      BY <2>2 DEF Queued
    <3>2. \A i \in DOMAIN readq[s] : i \in DOMAIN readq'[s] /\ readq'[s][i] = readq[s][i]
      BY <1>2, <1>3
    <3>. QED BY <3>1, <3>2 DEF Queued
  <2>. QED BY <1>8, <2>1, <2>2
<1>. QED BY <1>6, <1>7, <1>8

-----------------------------------------------------------------------------
(* What happens to the answers.                                             *)

\* A step that sends nothing and loses nothing.
LEMMA KeptOn ==
    ASSUME Kept, req' = req,
           \A id \in DOMAIN req : Pending(id)' <=> Pending(id),
           \A id \in DOMAIN req : Queued(id)' => Queued(id) \/ req[id].op = "read"
    PROVE  Kept'
  BY DEF Kept

\* A step that answers requests that were kept, and keeps the others.
LEMMA KeptSent ==
    ASSUME CtlTypeOK, Kept, NEW answers, Send(answers),
           \A id \in DOMAIN req :
               Pending(id)' <=> Pending(id) /\ ~\E a \in answers : a.id = id,
           \A a \in answers : a.id \in DOMAIN req => Pending(a.id),
           \A id \in DOMAIN req : Queued(id)' => Queued(id)
    PROVE  Kept'
<1> DEFINE rsp(id) == (CHOOSE a \in answers : a.id = id).rsp
           had(id) == \E a \in answers : a.id = id
<1>1. /\ DOMAIN req' = DOMAIN req
      /\ \A id \in DOMAIN req :
           req'[id] = IF had(id) THEN [req[id] EXCEPT !.ans = Append(@, rsp(id))] ELSE req[id]
  BY DEF Send
<1>. HIDE DEF rsp
<1>2. \A id \in DOMAIN req : req[id] \in Request
  BY DEF CtlTypeOK
<1>3. ASSUME NEW id \in DOMAIN req
      PROVE  /\ Len(req'[id].ans) <= 1
             /\ req'[id].ans = <<>> <=> Pending(id)'
             /\ Queued(id)' => req'[id].op = "read"
  <2>1. CASE ~had(id)
    BY <1>1, <2>1 DEF Kept
  <2>2. CASE had(id)
    <3>1. req[id].ans = <<>> /\ req[id] \in Request /\ (Queued(id) => req[id].op = "read")
      BY <1>2, <2>2 DEF Kept
    <3>2. req'[id] = [req[id] EXCEPT !.ans = Append(@, rsp(id))]
      BY <1>1, <2>2
    <3>3. req'[id].ans = Append(<<>>, rsp(id)) /\ req'[id].op = req[id].op
      BY <3>1, <3>2 DEF Request
    <3>4. Len(req'[id].ans) = 1 /\ req'[id].ans # <<>>
      BY <3>3
    <3>. QED BY <2>2, <3>1, <3>3, <3>4
  <2>. QED BY <2>1, <2>2
<1>. QED BY <1>1, <1>3 DEF Kept

\* The requests that are sent an answer by what is collected: the reads found
\* answered, and the one whose sender waits.
LEMMA CompletedAre ==
    \A id : (\E a \in Completed : a.id = id) <=>
                \/ id \in {Front(s).id : s \in Taken}
                \/ syncq # <<>> /\ id = Head(syncq).id
<1> DEFINE complete == {Front(s) : s \in Taken} \cup (IF syncq = <<>> THEN {} ELSE {Head(syncq)})
<1>1. Completed = {Answer(e.id, e.rsp) : e \in complete}
  BY DEF Completed
<1>2. \A id : (\E e \in complete : e.id = id) <=>
               \/ id \in {Front(s).id : s \in Taken}
               \/ syncq # <<>> /\ id = Head(syncq).id
  OBVIOUS
<1>. HIDE DEF complete
<1>3. \A id : (\E a \in Completed : a.id = id) <=> \E e \in complete : e.id = id
  <2>1. \A e : Answer(e.id, e.rsp).id = e.id
    BY DEF Answer
  <2>2. \A a \in Completed : \E e \in complete : a = Answer(e.id, e.rsp)
    BY <1>1
  <2>3. \A e \in complete : Answer(e.id, e.rsp) \in Completed
    BY <1>1
  <2>. QED BY <2>1, <2>2, <2>3
<1>. QED BY <1>2, <1>3

-----------------------------------------------------------------------------
(* The steps.                                                               *)

\* The driver's thread, the device and anybody else who leaves the requests
\* and the controller's thread alone and moves no entry of a queue.
LEMMA OthersKeep ==
    ASSUME UseInv, CtlTypeOK', AnswerInv, UNCHANGED <<clientVars, ctlVars>>,
           SameReads, SameSync
    PROVE  AnswerInv'
<1> USE DEF AnswerInv, clientVars, ctlVars
<1>1. QueuedOnce' /\ \A id : Queued(id)' <=> Queued(id)
  BY SameReadsQueued
<1>2. Executing'
  BY <1>1 DEF Executing
<1>3. syncq \in Seq(Entry) /\ syncq' \in Seq(Entry)
  BY DEF UseInv, CtlTypeOK
<1>4. syncq' = <<>> <=> syncq = <<>>
  BY <1>3 DEF SameSync
<1>5. WaitsForOwn'
  BY <1>4 DEF WaitsForOwn, SameSync
<1>6. Kept'
  BY <1>1, KeptOn DEF Pending
<1>. QED BY <1>1, <1>2, <1>5, <1>6

\* The controller's thread takes up a request and starts no read.
LEMMA TakeUp ==
    ASSUME UseInv, AnswerInv, NEW id, Pop(id), req' = req, areq' = id, SameReads,
           apc' \notin {"idle", "astate"}
    PROVE  QueuedOnce' /\ Executing' /\ Kept' /\ syncq = <<>>
<1> USE DEF AnswerInv
<1>1. QueuedOnce' /\ \A x : Queued(x)' <=> Queued(x)
  BY SameReadsQueued
<1>2. apc = "idle" /\ areq = 0 /\ syncq = <<>>
  BY DEF Pop, Executing, WaitsForOwn
<1>3. Executing'
  BY <1>1, PopAlone DEF Executing
<1>4. 0 \notin DOMAIN req
  BY DEF UseInv, CtlTypeOK
<1>5. \A x \in DOMAIN req : Pending(x)' <=> Pending(x)
  BY <1>1, <1>2, <1>4, PopAlone DEF Pending, InMq
<1>6. Kept'
  BY <1>1, <1>5, KeptOn
<1>. QED BY <1>1, <1>2, <1>3, <1>6

\* The request being executed goes on to the next point.
LEMMA GoOn ==
    ASSUME UseInv, AnswerInv, UNCHANGED clientVars, areq' = areq, readq' = readq,
           apc \notin {"idle", "astate"}, apc' \notin {"idle", "astate"}
    PROVE  QueuedOnce' /\ Executing' /\ Kept'
<1> USE DEF AnswerInv, clientVars
<1>1. SameReads
  BY DEF SameReads, SameReadsOf
<1>2. QueuedOnce' /\ \A x : Queued(x)' <=> Queued(x)
  BY <1>1, SameReadsQueued
<1>3. Executing'
  BY <1>2 DEF Executing
<1>4. Kept'
  BY <1>2, KeptOn DEF Pending
<1>. QED BY <1>2, <1>3, <1>4

\* _start_and_complete_by_... queues the request or leaves the queue empty.
LEMMA StartAndWaitOwn ==
    ASSUME CtlTypeOK, NEW id, StartAndWait(id), syncq = <<>>, areq' = id
    PROVE  WaitsForOwn'
<1>1. CASE plugged
  <2>1. syncq' = <<Waiting(id)>> /\ apc' = "wait"
    BY <1>1 DEF StartAndWait
  <2>2. Len(syncq') = 1 /\ Head(syncq') = Waiting(id) /\ syncq' # <<>>
    BY <2>1
  <2>. QED BY <2>1, <2>2 DEF WaitsForOwn, Waiting
<1>2. CASE ~plugged
  BY <1>2 DEF StartAndWait, WaitsForOwn
<1>. QED BY <1>1, <1>2

\* What is found answered was queued.
LEMMA TakenQueued ==
    ASSUME UseInv, NEW s \in Taken
    PROVE  Queued(Front(s).id)
<1>1. s \in Session /\ readq[s] \in Seq(Entry) /\ readq[s] # <<>>
  BY DEF UseInv, CtlTypeOK, Taken, Reached, Listed
<1>2. 1 \in DOMAIN readq[s] /\ Front(s) = readq[s][1]
  BY <1>1 DEF Front
<1>. QED BY <1>1, <1>2 DEF Queued

\* A request the controller has not taken up has not been started.
LEMMA InMqNotQueued ==
    ASSUME UseInv, NEW id, InMq(id)
    PROVE  ~Queued(id)
<1> SUFFICES ASSUME NEW i \in DOMAIN mq, Queued(mq[i]) PROVE FALSE
  BY DEF InMq
<1>1. mq[i] \in used /\ mq[i] \in Nat
  BY QueuedStarted DEF UseInv, CtlTypeOK, Uid
<1>. QED BY <1>1 DEF UseInv, StartOrder

\* Everything that is collected is a request that is kept.
LEMMA CompletedPending ==
    ASSUME UseInv, AnswerInv
    PROVE  \A a \in Completed : a.id \in DOMAIN req => Pending(a.id)
<1>1. \A s \in Taken : Queued(Front(s).id)
  BY TakenQueued
<1>2. syncq # <<>> => Head(syncq).id = areq
  BY DEF AnswerInv, WaitsForOwn
<1>. QED BY <1>1, <1>2, CompletedAre DEF Pending

\* A packet that is turned away is answered at once.
LEMMA TurnAwayKeeps ==
    ASSUME UseInv, AnswerInv, NEW id, TurnAway(id)
    PROVE  AnswerInv'
<1> USE DEF AnswerInv, ctlVars, queueVars
<1> DEFINE answers == {Answer(id, Res("error"))}
<1>1. Pop(id) /\ Send(answers) /\ UNCHANGED <<ctlVars, queueVars>>
  BY DEF TurnAway
<1>2. apc = "idle" /\ areq = 0
  BY <1>1 DEF Pop, Executing
<1>3. QueuedOnce' /\ \A x : Queued(x)' <=> Queued(x)
  BY <1>1, SameReadsQueued DEF SameReads, SameReadsOf
<1>4. Executing'
  BY <1>1, <1>2, <1>3 DEF Executing
<1>5. WaitsForOwn'
  BY <1>1 DEF WaitsForOwn
<1>6. \A x : (\E a \in answers : a.id = x) <=> x = id
  BY DEF Answer
<1>. HIDE DEF answers
<1>7. \A x \in DOMAIN req :
         Pending(x)' <=> Pending(x) /\ ~\E a \in answers : a.id = x
  <2>1. 0 \notin DOMAIN req
    BY DEF UseInv, CtlTypeOK
  <2>. QED BY <1>1, <1>2, <1>3, <1>6, <2>1, PopAlone DEF Pending, InMq
<1>8. \A a \in answers : Pending(a.id)
  BY <1>1, <1>6, PopAlone DEF Pending, InMq
<1>9. Kept'
  BY <1>1, <1>3, <1>7, <1>8, KeptSent DEF UseInv
<1>. QED BY <1>3, <1>4, <1>5, <1>9

\* A read is started: it is queued, and executed until the state has followed.
LEMMA StartReadKeeps ==
    ASSUME UseInv, AnswerInv, NEW id, StartRead(id)
    PROVE  AnswerInv'
<1> USE DEF AnswerInv
<1>1. Pop(id) /\ req' = req /\ areq' = id /\ syncq' = syncq /\ req[id].op = "read"
  BY DEF StartRead
<1>2. apc = "idle" /\ areq = 0 /\ syncq = <<>>
  BY <1>1 DEF Pop, Executing, WaitsForOwn
<1>3. CASE ~plugged
  <2>1. SameReads /\ apc' = "collect"
    BY <1>3 DEF StartRead, SameReads, SameReadsOf
  <2>. QED BY <1>1, <1>2, <2>1, TakeUp DEF WaitsForOwn
<1>4. CASE plugged
  <2>1. apc' = "astate" /\ readq' = [readq EXCEPT ![req[id].ses] = Append(@, Waiting(id))]
    BY <1>4 DEF StartRead
  <2>2. req[id].ses \in Session
    BY <1>1, PopOrder DEF UseInv, Request
  <2>3. QueuedOnce' /\ \A x : Queued(x)' <=> Queued(x) \/ x = id
    BY <1>1, <2>1, <2>2, PopAlone, AppendQueued DEF UseInv
  <2>4. Executing'
    BY <1>1, <2>1, <2>3, PopAlone DEF Executing
  <2>5. WaitsForOwn'
    BY <1>1, <1>2, <2>1 DEF WaitsForOwn
  <2>6. 0 \notin DOMAIN req
    BY DEF UseInv, CtlTypeOK
  <2>7. \A x \in DOMAIN req : Pending(x)' <=> Pending(x)
    BY <1>1, <1>2, <2>3, <2>6, PopAlone DEF Pending, InMq
  <2>8. Kept'
    BY <1>1, <2>3, <2>7, KeptOn
  <2>. QED BY <2>3, <2>4, <2>5, <2>8
<1>. QED BY <1>3, <1>4

\* The state has followed the start of the read: it is in its queue only.
LEMMA ReadingKeeps ==
    ASSUME UseInv, AnswerInv, Reading
    PROVE  AnswerInv'
<1> USE DEF AnswerInv, clientVars, queueVars
<1>1. /\ apc = "astate" /\ apc' = "idle" /\ areq' = 0
      /\ UNCHANGED <<clientVars, queueVars>>
  BY DEF Reading
<1>2. QueuedOnce' /\ \A x : Queued(x)' <=> Queued(x)
  BY <1>1, SameReadsQueued DEF SameReads, SameReadsOf
<1>3. 0 \notin DOMAIN req
  BY DEF UseInv, CtlTypeOK
<1>4. ~Queued(0)
  BY <1>3, QueuedStarted
<1>5. Executing'
  BY <1>1, <1>2, <1>4 DEF Executing
<1>6. WaitsForOwn'
  BY <1>1 DEF WaitsForOwn
<1>7. \A x \in DOMAIN req : Pending(x)' <=> Pending(x)
  BY <1>1, <1>2, <1>3 DEF Pending, Executing
<1>8. Kept'
  BY <1>1, <1>2, <1>7, KeptOn
<1>. QED BY <1>2, <1>5, <1>6, <1>8

\* The request is complete: it and everything answered is sent, once.
LEMMA CollectKeeps ==
    ASSUME UseInv, UseInv', AnswerInv, Collect
    PROVE  AnswerInv'
<1> USE DEF AnswerInv
<1> DEFINE own == IF areq \in CompletedIds THEN {} ELSE {Answer(areq, aresp)}
           answers == Completed \cup own
<1>1. /\ apc = "collect" /\ apc' = "idle" /\ areq' = 0 /\ mq' = mq
      /\ RemoveCompleted /\ Send(answers)
  BY DEF Collect
<1>2. /\ QueuedOnce'
      /\ \A x : Queued(x)' <=> Queued(x) /\ x \notin {Front(s).id : s \in Taken}
  BY <1>1, RemoveQueued DEF UseInv
<1>3. 0 \notin DOMAIN req /\ syncq \in Seq(Entry)
  BY DEF UseInv, CtlTypeOK
<1>4. ~Queued(0)' /\ ~Queued(areq)
  BY <1>1, <1>2, <1>3, QueuedStarted DEF Executing
<1>5. Executing'
  BY <1>1, <1>4 DEF Executing
<1>6. syncq' = <<>>
  BY <1>1, <1>3 DEF RemoveCompleted, WaitsForOwn
<1>7. WaitsForOwn'
  BY <1>1, <1>6 DEF WaitsForOwn
<1>8. \A x : (\E a \in answers : a.id = x) <=>
                x = areq \/ x \in {Front(s).id : s \in Taken}
  <2>1. \A x : (\E a \in own : a.id = x) <=> x = areq /\ areq \notin CompletedIds
    <3>1. CASE areq \in CompletedIds
      BY <3>1
    <3>2. CASE areq \notin CompletedIds
      <4>1. own = {Answer(areq, aresp)} /\ Answer(areq, aresp).id = areq
        BY <3>2 DEF Answer
      <4>. HIDE DEF own
      <4>. QED BY <3>2, <4>1
    <3>. QED BY <3>1, <3>2
  <2>2. \A x : x \in CompletedIds <=> \E a \in Completed : a.id = x
    BY DEF CompletedIds
  <2>3. syncq # <<>> => Head(syncq).id = areq
    BY DEF WaitsForOwn
  <2>. HIDE DEF own
  <2>. QED BY <2>1, <2>2, <2>3, CompletedAre
<1>. HIDE DEF answers
<1>9. areq \in DOMAIN req /\ ~InMq(areq)
  <2>1. areq \in DOMAIN req /\ areq \in Nat
    BY <1>1 DEF Executing, UseInv, CtlTypeOK
  <2>. QED BY <1>1, <2>1 DEF Executing, InMq
<1>10. \A x \in DOMAIN req : InMq(x) => ~Queued(x)
  BY InMqNotQueued
<1>11. \A s \in Taken : Queued(Front(s).id)
  BY TakenQueued
<1>12. \A x \in DOMAIN req : Pending(x)' <=> Pending(x) /\ ~\E a \in answers : a.id = x
  <2>1. \A x \in DOMAIN req : Pending(x) <=> InMq(x) \/ x = areq \/ Queued(x)
    BY DEF Pending, InMq
  <2>2. \A x \in DOMAIN req : Pending(x)' <=> InMq(x) \/ Queued(x)'
    BY <1>1, <1>3 DEF Pending, InMq
  <2>3. \A x : x \in {Front(s).id : s \in Taken} => Queued(x)
    BY <1>11
  <2>. QED BY <1>2, <1>4, <1>8, <1>9, <1>10, <2>1, <2>2, <2>3
<1>13. \A a \in answers : Pending(a.id)
  BY <1>8, <1>11 DEF Pending
<1>14. Kept'
  BY <1>1, <1>2, <1>12, <1>13, KeptSent DEF UseInv
<1>. QED BY <1>2, <1>5, <1>7, <1>14

\* Without a new request, everything answered is sent.
LEMMA ContinueKeeps ==
    ASSUME UseInv, AnswerInv, Continue
    PROVE  AnswerInv'
<1> USE DEF AnswerInv
<1>1. /\ apc = "idle" /\ apc' = apc /\ areq' = areq /\ mq' = mq
      /\ RemoveCompleted /\ Send(Completed)
  BY DEF Continue
<1>2. areq = 0 /\ syncq = <<>> /\ 0 \notin DOMAIN req
  BY <1>1 DEF Executing, WaitsForOwn, UseInv, CtlTypeOK
<1>3. /\ QueuedOnce'
      /\ \A x : Queued(x)' <=> Queued(x) /\ x \notin {Front(s).id : s \in Taken}
  BY <1>1, RemoveQueued DEF UseInv
<1>4. Executing'
  BY <1>1, <1>3 DEF Executing
<1>5. WaitsForOwn'
  BY <1>1, <1>2 DEF RemoveCompleted, WaitsForOwn
<1>6. \A x : (\E a \in Completed : a.id = x) <=> x \in {Front(s).id : s \in Taken}
  BY <1>2, CompletedAre
<1>7. \A x \in DOMAIN req : Pending(x)' <=> Pending(x) /\ ~\E a \in Completed : a.id = x
  <2>1. \A x \in DOMAIN req : Pending(x) <=> InMq(x) \/ Queued(x)
    BY <1>2 DEF Pending, InMq
  <2>2. \A x \in DOMAIN req : Pending(x)' <=> InMq(x) \/ Queued(x)'
    BY <1>1, <1>2 DEF Pending, InMq
  <2>3. \A x : x \in {Front(s).id : s \in Taken} => Queued(x)
    BY TakenQueued
  <2>. QED BY <1>3, <1>6, <2>1, <2>2, <2>3, InMqNotQueued
<1>8. Kept'
  BY <1>1, <1>3, <1>7, CompletedPending, KeptSent DEF UseInv
<1>. QED BY <1>3, <1>4, <1>5, <1>8

\* A client's request is new, and kept from the start.
LEMMA PostKeeps ==
    ASSUME UseInv, AnswerInv, NEW s \in Session, NEW op \in Action, Post(s, op)
    PROVE  AnswerInv'
<1> USE DEF AnswerInv
<1> DEFINE r == [ses |-> s, op |-> op, ans |-> <<>>]
           n == Len(req) + 1
<1>1. /\ req' = Append(req, r) /\ mq' = Append(mq, n)
      /\ UNCHANGED ctlVars /\ UNCHANGED queueVars
  BY DEF Post
<1>2. req \in Seq(Request) /\ mq \in Seq(Uid) /\ r.ans = <<>>
  BY DEF UseInv, CtlTypeOK
<1>. HIDE DEF r
<1>3. /\ DOMAIN req' = DOMAIN req \cup {n} /\ n \notin DOMAIN req /\ n # 0
      /\ \A id \in DOMAIN req : req'[id] = req[id] /\ id < n
      /\ req'[n] = r
  BY <1>1, <1>2
<1>4. /\ DOMAIN mq' = DOMAIN mq \cup {Len(mq) + 1}
      /\ \A i \in DOMAIN mq : mq'[i] = mq[i]
      /\ mq'[Len(mq) + 1] = n
  <2>1. n \in Uid
    BY <1>2, HidAssumption DEF Post, Uid
  <2>. HIDE DEF n
  <2>. QED BY <1>1, <1>2, <2>1
<1>5. QueuedOnce' /\ \A x : Queued(x)' <=> Queued(x)
  BY <1>1, SameReadsQueued DEF SameReads, SameReadsOf, queueVars
<1>6. Executing'
  BY <1>1, <1>3, <1>4, <1>5 DEF Executing, ctlVars
<1>7. WaitsForOwn'
  BY <1>1 DEF WaitsForOwn, ctlVars, queueVars
<1>8. ~Queued(n)
  BY <1>2, <1>3, QueuedStarted
<1>9. \A id \in DOMAIN req : Pending(id)' <=> Pending(id)
  BY <1>1, <1>3, <1>4, <1>5 DEF Pending, ctlVars
<1>10. ASSUME NEW id, id = n PROVE Pending(id)'
  BY <1>4, <1>10 DEF Pending
<1>11. ASSUME NEW id \in DOMAIN req'
       PROVE  /\ Len(req'[id].ans) <= 1
              /\ req'[id].ans = <<>> <=> Pending(id)'
              /\ Queued(id)' => req'[id].op = "read"
  <2>1. CASE id \in DOMAIN req
    BY <1>3, <1>5, <1>9, <2>1 DEF Kept
  <2>2. CASE id = n
    <3>1. Pending(id)' /\ req'[id].ans = <<>> /\ ~Queued(id)'
      BY <1>2, <1>3, <1>5, <1>8, <1>10, <2>2
    <3>. QED BY <3>1
  <2>. QED BY <1>3, <2>1, <2>2
<1>12. Kept'
  BY <1>11 DEF Kept
<1>. QED BY <1>5, <1>6, <1>7, <1>12

\* The steps of the controller's thread.
LEMMA ControllerKeeps ==
    ASSUME UseInv, UseInv', AnswerInv, Controller
    PROVE  AnswerInv'
<1>1. ASSUME NEW id \in DOMAIN req,
             Open(id) \/ CloseIdle(id) \/ CloseReading(id) \/ FlagOthers(id)
               \/ \E evt \in Event : Refuse(id, evt)
      PROVE  AnswerInv'
  <2>1. /\ Pop(id) /\ req' = req /\ areq' = id /\ syncq' = syncq
        /\ apc' \notin {"idle", "astate", "wait"}
    BY <1>1 DEF Open, CloseIdle, CloseReading, FlagOthers, Refuse, Dispatch
  <2>2. SameReads
    <3>1. CASE FlagOthers(id)
      BY <3>1, FlagType DEF UseInv
    <3>2. CASE ~FlagOthers(id)
      BY <1>1, <3>2 DEF Open, CloseIdle, CloseReading, Refuse, SameReads, SameReadsOf
    <3>. QED BY <3>1, <3>2
  <2>3. QueuedOnce' /\ Executing' /\ Kept' /\ syncq = <<>>
    BY <2>1, <2>2, TakeUp
  <2>. QED BY <2>1, <2>3 DEF AnswerInv, WaitsForOwn
<1>2. ASSUME NEW id \in DOMAIN req, StartSync(id)
      PROVE  AnswerInv'
  <2>1. /\ Pop(id) /\ req' = req /\ areq' = id /\ StartAndWait(id) /\ readq' = readq
        /\ apc' \notin {"idle", "astate"}
    BY <1>2 DEF StartSync, StartAndWait
  <2>2. QueuedOnce' /\ Executing' /\ Kept' /\ syncq = <<>>
    BY <2>1, TakeUp DEF SameReads, SameReadsOf
  <2>. QED BY <2>1, <2>2, StartAndWaitOwn DEF AnswerInv, UseInv
<1>3. CASE StartFlaggedOrClose
  <2>1. /\ apc \in {"flagged", "close"} /\ apc' \notin {"idle", "astate"}
        /\ UNCHANGED clientVars /\ areq' = areq /\ readq' = readq /\ StartAndWait(areq)
    BY <1>3 DEF StartFlaggedOrClose, StartAndWait
  <2>2. QueuedOnce' /\ Executing' /\ Kept'
    BY <2>1, GoOn
  <2>3. syncq = <<>>
    BY <2>1 DEF AnswerInv, WaitsForOwn
  <2>. QED BY <2>1, <2>2, <2>3, StartAndWaitOwn DEF AnswerInv, UseInv
<1>4. CASE Wake
  <2>1. /\ apc = "wait" /\ apc' = "collect" /\ areq' = areq
        /\ UNCHANGED clientVars /\ UNCHANGED queueVars
    BY <1>4 DEF Wake
  <2>2. QueuedOnce' /\ Executing' /\ Kept'
    BY <2>1, GoOn DEF queueVars
  <2>. QED BY <2>1, <2>2 DEF AnswerInv, WaitsForOwn, queueVars
<1>. QED BY <1>1, <1>2, <1>3, <1>4, TurnAwayKeeps, StartReadKeeps, ReadingKeeps,
            CollectKeeps, ContinueKeeps DEF Controller

\* All steps.
LEMMA NextAnswer == UseInv /\ UseInv' /\ AnswerInv /\ [DevNext]_devVars => AnswerInv'
<1> SUFFICES ASSUME UseInv, UseInv', AnswerInv, [DevNext]_devVars PROVE AnswerInv'
  OBVIOUS
<1>1. CASE UNCHANGED <<clientVars, ctlVars>> /\ SameReads /\ SameSync
  BY <1>1, OthersKeep DEF UseInv
<1>2. CASE UNCHANGED <<clientVars, ctlVars, queueVars>>
  <2>1. SameReads /\ SameSync
    BY <1>2 DEF queueVars, SameReads, SameReadsOf, SameSync
  <2>. QED BY <1>1, <1>2, <2>1
<1>3. CASE UNCHANGED devVars
  BY <1>2, <1>3 DEF devVars
<1>4. CASE Driver
  <2>1. cur \in Item /\ fresh \in Item
    BY DEF UseInv, WorkerInv, TypeOK
  <2>2. CASE BeginCur \/ BeginNew
    BY <1>1, <2>1, <2>2, CallbackType DEF UseInv, BeginCur, BeginNew
  <2>3. CASE EndCur \/ EndNew
    BY <1>2, <2>3 DEF EndCur, EndNew, StopWaiting
  <2>. QED BY <1>2, <1>4, <2>2, <2>3 DEF Driver
<1>5. CASE Device
  BY <1>2, <1>5 DEF Device
<1>. QED BY <1>3, <1>4, <1>5, ControllerKeeps, PostKeeps DEF DevNext

-----------------------------------------------------------------------------
(* The results.                                                             *)

\* The places a request can be in, and the answers it has got, are as AnswerInv
\* says (the inductive invariant of the argument).
THEOREM AnswerInvariant == DevSpec => []AnswerInv
<1>1. DevInit => AnswerInv
  BY DEF DevInit, AnswerInv, QueuedOnce, Executing, WaitsForOwn, Kept, Queued
<1>. QED BY <1>1, NextAnswer, UseInvariant, PTL DEF DevSpec

\* No request is forgotten and none is answered twice, although a callback may
\* answer a read over again before it is sent, a request whose sender waits has
\* an answer in two places, and the device may be unplugged at any time
\* (get_all_complete_response and _execute of mp_cdev_ctl_.cpp).
THEOREM EveryRequestAnsweredOnce == DevSpec => []AnsweredOnce
<1>1. AnswerInv => AnsweredOnce
  BY DEF AnswerInv, Kept, AnsweredOnce, Pending
<1>. QED BY <1>1, AnswerInvariant, PTL
=============================================================================
