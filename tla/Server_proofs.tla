---------------------------- MODULE Server_proofs ----------------------------
(***************************************************************************)
(* Proofs about the server, for any number of devices and sessions, of     *)
(* events and requests, and for device indexes that wrap around.           *)
(*                                                                         *)
(* A client that is gone leaves no device open, if it does not leave while *)
(* an open of its is under way (GoneClients).  That does not follow from   *)
(* the sets of users alone: what a session is recorded to use lags behind  *)
(* what it has open by the answers that are still being written, and what  *)
(* is open lags behind what was asked by the controllers' queues.  HoldInv *)
(* relates the three: for a client that is there, what it has open is      *)
(* recorded or will be when the answers are written (InKnowsOpen); for one *)
(* that is gone, a close of it is on its way (GoneCloses), which the end   *)
(* of the session pushed because of the former.                            *)
(*                                                                         *)
(* Every listed device has one controller (CtlForEach), and what a session *)
(* is recorded to use it has open (UsedIsOpen).  Both rest on an index     *)
(* being used by nobody when it is handed out (FreshIndex), and follow     *)
(* from it for any number of events (OneController, KeepsMeaning): CtlInv  *)
(* follows the difference between the listed devices and the controllers   *)
(* through the steps of the plug in and out thread, and SaidIsOpen says of *)
(* each answer to a session what KnownInv needs when it is recorded.  That *)
(* the index is fresh is proved by counting what can still ask for one     *)
(* (RoomForAll), and needs as many indexes: with fewer they come round     *)
(* while they are recorded, and neither property holds.                    *)
(***************************************************************************)
EXTENDS Server, FiniteSetTheorems, WellFoundedInduction, TLAPS

\* The requests in a queue and the answers to a session.
Req == [act : Acts, of : Sessions]
Ans == [act : Acts, index : Index, ok : BOOLEAN]
\* What a thread may be at, beside what TypeOK says of queues and answers.
Works == {Idle} \cup [pc : {"lookup", "wait", "lost"}, act : Acts, of : Sessions]

-----------------------------------------------------------------------------
(* Sequences.                                                               *)

\* What is left of a sequence without its head.
LEMMA TailFacts ==
    ASSUME NEW S, NEW q \in Seq(S), q # << >>
    PROVE  /\ Head(q) = q[1] /\ Head(q) \in S /\ 1 \in 1 .. Len(q)
           /\ Tail(q) \in Seq(S) /\ Len(Tail(q)) = Len(q) - 1
           /\ Len(q) \in Nat
           /\ \A k \in 1 .. Len(Tail(q)) : k + 1 \in 1 .. Len(q) /\ Tail(q)[k] = q[k + 1]
    OBVIOUS

\* A sequence with an element more.
LEMMA AppendFacts ==
    ASSUME NEW S, NEW q \in Seq(S), NEW e \in S
    PROVE  /\ Append(q, e) \in Seq(S) /\ Len(Append(q, e)) = Len(q) + 1
           /\ Len(q) \in Nat
           /\ \A k \in 1 .. Len(q) : Append(q, e)[k] = q[k]
           /\ Append(q, e)[Len(q) + 1] = e
    OBVIOUS

\* Two sequences one after the other.
LEMMA ConcatFacts ==
    ASSUME NEW S, NEW q \in Seq(S), NEW r \in Seq(S)
    PROVE  /\ q \o r \in Seq(S) /\ Len(q \o r) = Len(q) + Len(r)
           /\ Len(q) \in Nat /\ Len(r) \in Nat
           /\ \A k \in 1 .. Len(q) : (q \o r)[k] = q[k]
           /\ \A k \in 1 .. Len(r) : (q \o r)[Len(q) + k] = r[k]
    OBVIOUS

\* The device indexes are numbers, and there is one.
LEMMA IndexNat == Index \subseteq Nat /\ 1 \in Index /\ MaxIndex \in Index
    BY ServerAssumption DEF Index

-----------------------------------------------------------------------------
(* Types. *)

\* A reply keeps the types of what it writes.
LEMMA ReplyTypes ==
    ASSUME TypeOK, NEW i \in Index, worker[i] # Idle, NEW ok \in BOOLEAN, Reply(i, ok)
    PROVE  /\ worker' \in [Index -> Works]
           /\ writes' \in [Sessions -> Seq(Ans)]
           /\ conn' = conn /\ uses' = uses /\ requests' = requests
<1>1. worker[i] \in [pc : {"lookup", "wait", "lost"}, act : Acts, of : Sessions]
    BY DEF TypeOK
<1>2. Answer(worker[i].act, i, ok) \in Ans
    BY <1>1 DEF Ans, Answer
<1>3. worker[i].of \in Sessions
    BY <1>1
<1>4. Append(writes[worker[i].of], Answer(worker[i].act, i, ok)) \in Seq(Ans)
    BY <1>2, <1>3, AppendFacts DEF TypeOK, Ans
<1>5. writes' \in [Sessions -> Seq(Ans)]
    <2> DEFINE A == Append(writes[worker[i].of], Answer(worker[i].act, i, ok))
    <2>1. writes' = writes \/ writes' = [writes EXCEPT ![worker[i].of] = A]
        BY DEF Reply
    <2>2. A \in Seq(Ans)
        BY <1>4
    <2> HIDE DEF A
    <2> QED
        BY <1>3, <2>1, <2>2 DEF TypeOK, Ans
<1> QED
    BY <1>5 DEF Reply, TypeOK, Works

\* The steps of the devices and of the updater.
LEMMA DeviceTypes ==
    ASSUME TypeOK, NEW d \in Devices,
           PlugIn(d) \/ PlugOut(d) \/ Glitch(d) \/ ConsiderRemoved(d) \/ CancelConsidered(d)
    PROVE  TypeOK'
<1>1. UNCHANGED <<libVars, ctlVars, sesVars>>
    BY DEF PlugIn, PlugOut, Glitch, ConsiderRemoved, CancelConsidered
<1>2. usb' \subseteq Devices /\ considered' \subseteq Devices /\ broken' \subseteq Devices
    BY DEF TypeOK, PlugIn, PlugOut, Glitch, ConsiderRemoved, CancelConsidered
<1>3. events' \in 0 .. MaxEvents
    <2>1. events' = events \/ (events < MaxEvents /\ events' = events + 1)
        BY DEF PlugIn, PlugOut, Glitch, ConsiderRemoved, CancelConsidered, Happens
    <2> QED
        BY <2>1, ServerAssumption DEF TypeOK
<1> QED
    BY <1>1, <1>2, <1>3 DEF TypeOK, libVars, ctlVars, sesVars

\* A scan of the device library (_update_dev_set and its callers).
LEMMA ScanTypes ==
    ASSUME TypeOK, Scan
    PROVE  TypeOK'
<1>1. /\ listed' \in [cur : SUBSET Devices, inserted : SUBSET Devices,
                      removed : SUBSET Devices]
      /\ inst' \subseteq Devices /\ broken' \subseteq Devices
      /\ plug' \in [pc : {"idle", "notify", "erase", "insert"},
                    todo : SUBSET Index, left : SUBSET Devices]
    BY DEF TypeOK, Scan, Present
<1>2. worker' \in [Index -> Works]
    <2> DEFINE w(i) == IF worker[i].pc = "wait" /\ ctls[i] \in listed.cur \ Present
                         THEN [worker[i] EXCEPT !.pc = "lost"] ELSE worker[i]
    <2>1. ASSUME NEW i \in Index PROVE w(i) \in Works
        <3>1. CASE worker[i].pc = "wait"
            <4>1. worker[i] \in [pc : {"lookup", "wait", "lost"}, act : Acts, of : Sessions]
                BY <3>1 DEF TypeOK, Idle
            <4> QED
                BY <4>1 DEF Works
        <3>2. CASE worker[i].pc # "wait"
            BY <3>2 DEF TypeOK, Works
        <3> QED
            BY <3>1, <3>2
    <2>2. worker' = [i \in Index |-> w(i)]
        BY DEF Scan
    <2> QED
        BY <2>1, <2>2
<1> QED
    BY <1>1, <1>2 DEF TypeOK, Scan, Works, sesVars

\* The server looks up the controllers of the removed devices.
LEMMA NotifyTypes ==
    ASSUME TypeOK, Notify
    PROVE  TypeOK'
<1>1. UNION {IndexOf(d) : d \in listed.removed} \subseteq Index
    BY DEF IndexOf, Live
<1>2. plug' \in [pc : {"idle", "notify", "erase", "insert"},
                 todo : SUBSET Index, left : SUBSET Devices]
    BY <1>1 DEF TypeOK, Notify
<1> QED
    BY <1>2 DEF TypeOK, Notify, usbVars, ctlVars, sesVars

\* A controller is destroyed, or all of them are.
LEMMA DestroyTypes ==
    ASSUME TypeOK, EraseCtl
    PROVE  TypeOK'
<1>1. << >> \in Seq(Req)
    OBVIOUS
<1>2. CASE plug.todo # {} /\ Destroy(NextToErase) /\ plug' = [plug EXCEPT !.todo = @ \ {NextToErase}]
    <2> DEFINE n == NextToErase
    <2>1. /\ ctls' = [ctls EXCEPT ![n] = NoDevice]
          /\ opened' = [opened EXCEPT ![n] = {}]
          /\ queue' = [queue EXCEPT ![n] = << >>]
          /\ plug' = [plug EXCEPT !.todo = plug.todo \ {n}]
        BY <1>2 DEF Destroy
    <2> HIDE DEF n
    <2> QED
        BY <1>1, <2>1 DEF TypeOK, EraseCtl, Req, usbVars, sesVars
<1>3. CASE plug' = [plug EXCEPT !.pc = "insert"] /\ UNCHANGED <<ctls, opened, queue>>
    BY <1>3 DEF TypeOK, EraseCtl, usbVars, sesVars
<1> QED
    BY <1>2, <1>3 DEF EraseCtl

\* A controller is made for an inserted device.
LEMMA InsertTypes ==
    ASSUME TypeOK, InsertCtl
    PROVE  TypeOK'
<1>1. << >> \in Seq(Req)
    OBVIOUS
<1>2. next \in Index /\ (IF next = MaxIndex THEN 1 ELSE next + 1) \in Index
    BY ServerAssumption DEF TypeOK, Index
<1>3. CASE plug.left = {}
    BY <1>3 DEF TypeOK, InsertCtl, usbVars, sesVars
<1>4. ASSUME NEW d \in plug.left,
             ctls' = [ctls EXCEPT ![next] = d], plug' = [plug EXCEPT !.left = @ \ {d}],
             opened' = [opened EXCEPT ![next] = {}], queue' = [queue EXCEPT ![next] = << >>],
             next' = IF next = MaxIndex THEN 1 ELSE next + 1
      PROVE  TypeOK'
    <2>1. d \in Devices
        BY <1>4 DEF TypeOK
    <2>2. /\ ctls' \in [Index -> Devices \cup {NoDevice}] /\ next' \in Index
          /\ opened' \in [Index -> SUBSET Sessions]
        BY <1>2, <1>4, <2>1 DEF TypeOK
    <2>3. queue' \in [Index -> Seq(Req)]
        BY <1>1, <1>4 DEF TypeOK, Req
    <2>4. plug' \in [pc : {"idle", "notify", "erase", "insert"},
                     todo : SUBSET Index, left : SUBSET Devices]
        BY <1>4 DEF TypeOK
    <2> QED
        BY <2>2, <2>3, <2>4 DEF TypeOK, InsertCtl, Req, usbVars, sesVars
<1> QED
    BY <1>3, <1>4 DEF InsertCtl

\* A push keeps the type of the queue.
LEMMA PushTypes ==
    ASSUME TypeOK, NEW i \in Index, NEW s \in Sessions, NEW act \in Acts,
           Push(i, <<Request(act, s)>>)
    PROVE  queue' \in [Index -> Seq(Req)]
<1>1. <<Request(act, s)>> \in Seq(Req)
    BY DEF Req, Request
<1>2. queue[i] \o <<Request(act, s)>> \in Seq(Req)
    BY <1>1, ConcatFacts DEF TypeOK, Req
<1> QED
    BY <1>2 DEF TypeOK, Push, Req

\* The steps of a client, and the end of a write to it.
LEMMA SessionTypes ==
    ASSUME TypeOK, NEW s \in Sessions, Connect(s) \/ Ask(s) \/ Leave(s) \/ Written(s)
    PROVE  TypeOK'
<1>1. CASE Connect(s)
    BY <1>1 DEF TypeOK, Connect, usbVars, libVars, ctlVars
<1>2. CASE Ask(s)
    <2>1. PICK i \in Index, act \in Acts : Push(i, <<Request(act, s)>>)
        BY <1>2 DEF Ask, Live, Acts
    <2>2. queue' \in [Index -> Seq(Req)]
        BY <2>1, PushTypes
    <2>3. requests' \in [Sessions -> 0 .. MaxRequests]
        BY <1>2, ServerAssumption DEF TypeOK, Ask
    <2> QED
        BY <1>2, <2>2, <2>3 DEF TypeOK, Ask, Req, usbVars, libVars
<1>3. CASE Leave(s)
    <2> DEFINE r == <<Request("io", s), Request("close", s)>>
    <2>1. r \in Seq(Req)
        BY DEF Req, Request, Acts
    <2>2. \A i \in Index : queue[i] \o r \in Seq(Req)
        BY <2>1, ConcatFacts DEF TypeOK, Req
    <2>3. queue' = [i \in Index |-> IF i \in uses[s] \cap Live THEN queue[i] \o r ELSE queue[i]]
        BY <1>3 DEF Leave
    <2> HIDE DEF r
    <2>4. queue' \in [Index -> Seq(Req)]
        BY <2>2, <2>3 DEF TypeOK, Req
    <2>5. << >> \in Seq(Ans)
        OBVIOUS
    <2> QED
        BY <1>3, <2>4, <2>5 DEF TypeOK, Leave, Req, Ans, usbVars, libVars
<1>4. CASE Written(s)
    <2>1. Tail(writes[s]) \in Seq(Ans) /\ Head(writes[s]) \in Ans
        BY <1>4, TailFacts DEF TypeOK, Written, Ans
    <2>2. writes' \in [Sessions -> Seq(Ans)]
        BY <1>4, <2>1 DEF TypeOK, Written, Ans
    <2>3. uses' \in [Sessions -> SUBSET Index]
        <3> DEFINE a == Head(writes[s])
        <3>1. \/ uses' = uses
              \/ uses' = [uses EXCEPT ![s] = uses[s] \cup {a.index}]
              \/ uses' = [uses EXCEPT ![s] = uses[s] \ {a.index}]
            BY <1>4 DEF Written
        <3>2. a.index \in Index
            BY <2>1 DEF Ans
        <3>3. uses \in [Sessions -> SUBSET Index]
            BY DEF TypeOK
        <3> HIDE DEF a
        <3>4. uses[s] \cup {a.index} \in SUBSET Index /\ uses[s] \ {a.index} \in SUBSET Index
            BY <3>2, <3>3
        <3> QED
            BY <3>1, <3>3, <3>4
    <2> QED
        BY <1>4, <2>2, <2>3 DEF TypeOK, Written, Ans, usbVars, libVars, ctlVars
<1> QED
    BY <1>1, <1>2, <1>3, <1>4

\* The steps of a controller's thread.
LEMMA WorkTypes ==
    ASSUME TypeOK, NEW i \in Index, Work(i)
    PROVE  TypeOK'
<1>1. CASE Take(i)
    <2>1. Head(queue[i]) \in Req /\ Tail(queue[i]) \in Seq(Req)
        BY <1>1, TailFacts DEF TypeOK, Take, Req
    <2>2. queue' \in [Index -> Seq(Req)]
        BY <1>1, <2>1 DEF TypeOK, Take, Req
    <2>3. worker' \in [Index -> Works]
        <3> DEFINE w == [pc |-> "lookup", act |-> Head(queue[i]).act, of |-> Head(queue[i]).of]
        <3>1. w \in Works
            BY <2>1 DEF Works, Req
        <3>2. worker' = [worker EXCEPT ![i] = w]
            BY <1>1 DEF Take
        <3> HIDE DEF w
        <3> QED
            BY <3>1, <3>2 DEF TypeOK, Works
    <2> QED
        BY <1>1, <2>2, <2>3 DEF TypeOK, Take, Req, Works, usbVars, libVars, sesVars
<1>2. CASE Open(i)
    <2>1. worker[i] # Idle
        BY <1>2 DEF Open, Idle
    <2>2. PICK ok \in BOOLEAN : Reply(i, ok) /\ (ok => worker[i].of \notin opened[i])
                               /\ opened' = IF ok THEN [opened EXCEPT ![i] = @ \cup {worker[i].of}] ELSE opened
        BY <1>2 DEF Open
    <2>3. worker[i].of \in Sessions
        BY <2>1 DEF TypeOK
    <2>4. opened' \in [Index -> SUBSET Sessions]
        BY <2>2, <2>3 DEF TypeOK
    <2>5. /\ worker' \in [Index -> Works] /\ writes' \in [Sessions -> Seq(Ans)]
          /\ conn' = conn /\ uses' = uses /\ requests' = requests
        BY <2>1, <2>2, ReplyTypes
    <2> QED
        BY <1>2, <2>4, <2>5 DEF TypeOK, Open, Works, Ans, usbVars, libVars
<1>3. CASE StartIo(i)
    <2>1. worker[i] # Idle
        BY <1>3 DEF StartIo, Idle
    <2>2. CASE worker' = [worker EXCEPT ![i].pc = "wait"] /\ UNCHANGED sesVars
        <3> DEFINE w == [worker[i] EXCEPT !.pc = "wait"]
        <3>1. worker[i] \in [pc : {"lookup", "wait", "lost"}, act : Acts, of : Sessions]
            BY <2>1 DEF TypeOK, Works
        <3>2. w \in Works
            BY <3>1 DEF Works
        <3>3. worker' = [worker EXCEPT ![i] = w]
            BY <2>2
        <3> HIDE DEF w
        <3>4. worker' \in [Index -> Works]
            BY <3>2, <3>3 DEF TypeOK, Works
        <3> QED
            BY <1>3, <2>2, <3>4 DEF TypeOK, StartIo, Works, usbVars, libVars, sesVars
    <2>3. CASE Reply(i, FALSE)
        BY <1>3, <2>1, <2>3, ReplyTypes DEF TypeOK, StartIo, Works, Ans, usbVars, libVars
    <2> QED
        BY <1>3, <2>2, <2>3 DEF StartIo
<1>4. CASE CalledBack(i)
    <2>1. worker[i] # Idle
        BY <1>4 DEF CalledBack, Idle
    <2>2. /\ worker' \in [Index -> Works] /\ writes' \in [Sessions -> Seq(Ans)]
          /\ conn' = conn /\ uses' = uses /\ requests' = requests
        BY <1>4, <2>1, ReplyTypes DEF CalledBack
    <2> QED
        BY <1>4, <2>2 DEF TypeOK, CalledBack, Works, Ans, usbVars, libVars
<1>5. CASE Close(i)
    <2>1. worker[i] # Idle
        BY <1>5 DEF Close, Idle
    <2>2. opened' \in [Index -> SUBSET Sessions]
        BY <1>5 DEF TypeOK, Close
    <2>3. (worker[i].of \in opened[i]) \in BOOLEAN
        OBVIOUS
    <2>4. /\ worker' \in [Index -> Works] /\ writes' \in [Sessions -> Seq(Ans)]
          /\ conn' = conn /\ uses' = uses /\ requests' = requests
        BY <1>5, <2>1, <2>3, ReplyTypes DEF Close
    <2> QED
        BY <1>5, <2>2, <2>4 DEF TypeOK, Close, Works, Ans, usbVars, libVars
<1> QED
    BY <1>1, <1>2, <1>3, <1>4, <1>5 DEF Work

\* The types of the variables hold in every state: whatever is plugged and
\* asked for, a controller, an index and an answer are what the code takes them for.
THEOREM TypesInvariant == Spec => []TypeOK
<1>1. Init => TypeOK
    <2> SUFFICES ASSUME Init PROVE TypeOK
        OBVIOUS
    <2>1. \A i \in Index : << >> \in Seq([act : Acts, of : Sessions])
        OBVIOUS
    <2>2. \A s \in Sessions : << >> \in Seq([act : Acts, index : Index, ok : BOOLEAN])
        OBVIOUS
    <2> QED
        BY <2>1, <2>2, IndexNat, ServerAssumption DEF Init, TypeOK
<1>2. TypeOK /\ [Next]_vars => TypeOK'
    <2> SUFFICES ASSUME TypeOK, [Next]_vars PROVE TypeOK'
        OBVIOUS
    <2>1. CASE UNCHANGED vars
        BY <2>1 DEF TypeOK, vars, usbVars, libVars, ctlVars, sesVars
    <2>2. ASSUME NEW d \in Devices,
                 PlugIn(d) \/ PlugOut(d) \/ Glitch(d) \/ ConsiderRemoved(d)
                   \/ CancelConsidered(d)
          PROVE  TypeOK'
        BY <2>2, DeviceTypes
    <2>3. CASE Scan
        BY <2>3, ScanTypes
    <2>4. CASE Notify
        BY <2>4, NotifyTypes
    <2>5. CASE EraseCtl
        BY <2>5, DestroyTypes
    <2>6. CASE InsertCtl
        BY <2>6, InsertTypes
    <2>7. ASSUME NEW s \in Sessions, Connect(s) \/ Ask(s) \/ Leave(s) \/ Written(s)
          PROVE  TypeOK'
        BY <2>7, SessionTypes
    <2>8. ASSUME NEW i \in Index, Work(i)
          PROVE  TypeOK'
        BY <2>8, WorkTypes
    <2> QED
        BY <2>1, <2>2, <2>3, <2>4, <2>5, <2>6, <2>7, <2>8 DEF Next, Plug
<1> QED
    BY <1>1, <1>2, PTL DEF Spec

-----------------------------------------------------------------------------
(* A client that is gone holds nothing.                                     *)

\* A request of the session is in the queue of a controller, or its thread
\* has it.
Has(act, i, s) ==
    \/ worker[i].act = act /\ worker[i].of = s
    \/ \E k \in 1 .. Len(queue[i]) : queue[i][k] = Request(act, s)

\* When the answers to the session are all written, it is recorded to use
\* the index.
Recorded(s, i) ==
    \/ i \in uses[s] /\ \A k \in 1 .. Len(writes[s]) : writes[s][k] # Answer("close", i, TRUE)
    \/ \E k \in 1 .. Len(writes[s]) :
         /\ writes[s][k] = Answer("open", i, TRUE)
         /\ \A l \in k + 1 .. Len(writes[s]) : writes[s][l] # Answer("close", i, TRUE)

OpenIsLive == \A i \in Index : opened[i] # {} => i \in Live

WaitIsIo == \A i \in Index : worker[i].pc \in {"wait", "lost"} => worker[i].act = "io"

OutHasNone == \A s \in Sessions : conn[s] # "open" => uses[s] = {} /\ writes[s] = << >>

NewHasNone ==
    \A s \in Sessions, i \in Index :
        conn[s] = "none" => s \notin opened[i] /\ \A act \in Acts : ~Has(act, i, s)

InKnowsOpen ==
    \A s \in Sessions, i \in Index : conn[s] = "open" /\ s \in opened[i] => Recorded(s, i)

GoneCloses ==
    \A s \in Sessions, i \in Index :
        conn[s] = "closed" =>
            ~Has("open", i, s) /\ (s \in opened[i] => Has("close", i, s))

HoldInv ==
    OpenIsLive /\ WaitIsIo /\ OutHasNone /\ NewHasNone /\ InKnowsOpen /\ GoneCloses

\* A step that leaves the controllers and the sessions alone, and of every
\* thread changes the step only.
LEMMA FrameKeeps ==
    ASSUME HoldInv, UNCHANGED <<ctls, opened, queue, sesVars>>, WaitIsIo',
           \A i \in Index : worker'[i].act = worker[i].act /\ worker'[i].of = worker[i].of
    PROVE  HoldInv'
<1>1. \A act, s : \A i \in Index : Has(act, i, s)' <=> Has(act, i, s)
    BY DEF Has
<1>2. \A s, i : Recorded(s, i)' <=> Recorded(s, i)
    BY DEF Recorded, sesVars
<1>3. OpenIsLive' /\ OutHasNone'
    BY DEF HoldInv, OpenIsLive, OutHasNone, Live, sesVars
<1>4. NewHasNone' /\ InKnowsOpen' /\ GoneCloses'
    BY <1>1, <1>2 DEF HoldInv, NewHasNone, InKnowsOpen, GoneCloses, sesVars
<1> QED
    BY <1>3, <1>4 DEF HoldInv

\* A controller that is destroyed, or takes the place of another, has neither
\* users nor requests.
LEMMA ClearKeeps ==
    ASSUME TypeOK, HoldInv, NEW n, NEW c,
           ctls' = [ctls EXCEPT ![n] = c], opened' = [opened EXCEPT ![n] = {}],
           queue' = [queue EXCEPT ![n] = << >>], UNCHANGED <<worker, sesVars>>
    PROVE  HoldInv'
<1>1. ASSUME NEW act, NEW s, NEW i \in Index
      PROVE  /\ Has(act, i, s)' => Has(act, i, s)
             /\ i # n /\ Has(act, i, s) => Has(act, i, s)'
    <2>1. CASE i # n
        BY <2>1 DEF TypeOK, Has
    <2>2. CASE i = n
        <3>1. queue'[i] = << >> /\ Len(queue'[i]) = 0
            BY <2>2 DEF TypeOK
        <3> QED
            BY <2>2, <3>1 DEF Has
    <2> QED
        BY <2>1, <2>2
<1>2. \A i \in Index : opened'[i] = IF i = n THEN {} ELSE opened[i]
    BY DEF TypeOK
<1>3. \A s, i : Recorded(s, i)' <=> Recorded(s, i)
    BY DEF Recorded, sesVars
<1>4. OpenIsLive' /\ OutHasNone' /\ WaitIsIo'
    BY <1>2 DEF HoldInv, OpenIsLive, OutHasNone, WaitIsIo, Live, TypeOK, sesVars
<1>5. NewHasNone' /\ InKnowsOpen' /\ GoneCloses'
    BY <1>1, <1>2, <1>3 DEF HoldInv, NewHasNone, InKnowsOpen, GoneCloses, sesVars
<1> QED
    BY <1>4, <1>5 DEF HoldInv

\* The plug in and out thread keeps HoldInv.
LEMMA PlugKeeps ==
    ASSUME TypeOK, HoldInv, Plug
    PROVE  HoldInv'
<1>1. CASE Scan
    <2>1. \A i \in Index : /\ worker'[i].act = worker[i].act /\ worker'[i].of = worker[i].of
                           /\ worker'[i].pc \in {"wait", "lost"} => worker[i].pc \in {"wait", "lost"}
        <3> TAKE i \in Index
        <3>1. worker'[i] = worker[i]
              \/ (worker[i].pc = "wait" /\ worker'[i] = [worker[i] EXCEPT !.pc = "lost"])
            BY <1>1 DEF Scan
        <3>2. CASE worker'[i] = worker[i]
            BY <3>2
        <3>3. CASE worker[i].pc = "wait" /\ worker'[i] = [worker[i] EXCEPT !.pc = "lost"]
            <4>1. worker[i] \in [pc : {"lookup", "wait", "lost"}, act : Acts, of : Sessions]
                BY <3>3 DEF TypeOK, Idle
            <4> QED
                BY <3>3, <4>1
        <3> QED
            BY <3>1, <3>2, <3>3
    <2>2. WaitIsIo'
        BY <2>1 DEF HoldInv, WaitIsIo
    <2> QED
        BY <1>1, <2>1, <2>2, FrameKeeps DEF Scan
<1>2. CASE Notify
    <2>1. WaitIsIo'
        BY <1>2 DEF HoldInv, WaitIsIo, Notify, ctlVars
    <2> QED
        BY <1>2, <2>1, FrameKeeps DEF Notify, ctlVars
<1>3. CASE EraseCtl
    <2>1. CASE Destroy(NextToErase)
        BY <1>3, <2>1, ClearKeeps DEF EraseCtl, Destroy
    <2>2. CASE UNCHANGED <<ctls, opened, queue>>
        <3>1. WaitIsIo'
            BY <1>3 DEF HoldInv, WaitIsIo, EraseCtl
        <3> QED
            BY <1>3, <2>2, <3>1, FrameKeeps DEF EraseCtl
    <2> QED
        BY <1>3, <2>1, <2>2 DEF EraseCtl
<1>4. CASE InsertCtl
    <2>1. CASE plug.left = {}
        <3>1. WaitIsIo' /\ UNCHANGED <<ctls, opened, queue, worker, sesVars>>
            BY <1>4, <2>1 DEF HoldInv, WaitIsIo, InsertCtl
        <3> QED
            BY <3>1, FrameKeeps
    <2>2. CASE plug.left # {}
        <3>1. PICK d : ctls' = [ctls EXCEPT ![next] = d]
            BY <1>4, <2>2 DEF InsertCtl
        <3>2. /\ opened' = [opened EXCEPT ![next] = {}]
              /\ queue' = [queue EXCEPT ![next] = << >>] /\ UNCHANGED <<worker, sesVars>>
            BY <1>4, <2>2 DEF InsertCtl
        <3> QED
            BY <3>1, <3>2, ClearKeeps
    <2> QED
        BY <2>1, <2>2
<1> QED
    BY <1>1, <1>2, <1>3, <1>4 DEF Plug

-----------------------------------------------------------------------------
(* The clients.                                                             *)

\* What is pushed to a queue is in it, with what was in it before.
LEMMA PushedHas ==
    ASSUME NEW q \in Seq(Req), NEW r \in Seq(Req), NEW x
    PROVE  (\E k \in 1 .. Len(q \o r) : (q \o r)[k] = x) <=>
             (\E k \in 1 .. Len(q) : q[k] = x) \/ (\E k \in 1 .. Len(r) : r[k] = x)
<1>1. /\ Len(q \o r) = Len(q) + Len(r) /\ Len(q) \in Nat /\ Len(r) \in Nat
      /\ \A k \in 1 .. Len(q) : (q \o r)[k] = q[k]
      /\ \A k \in 1 .. Len(r) : (q \o r)[Len(q) + k] = r[k]
    BY ConcatFacts
<1>2. ASSUME NEW k \in 1 .. Len(q \o r), (q \o r)[k] = x
      PROVE  (\E l \in 1 .. Len(q) : q[l] = x) \/ (\E l \in 1 .. Len(r) : r[l] = x)
    <2>1. CASE k \in 1 .. Len(q)
        BY <1>1, <1>2, <2>1
    <2>2. CASE k \notin 1 .. Len(q)
        <3>1. k - Len(q) \in 1 .. Len(r) /\ Len(q) + (k - Len(q)) = k
            BY <1>1, <2>2
        <3> QED
            BY <1>1, <1>2, <3>1
    <2> QED
        BY <2>1, <2>2
<1>3. ASSUME NEW k \in 1 .. Len(q), q[k] = x
      PROVE  \E l \in 1 .. Len(q \o r) : (q \o r)[l] = x
    BY <1>1, <1>3
<1>4. ASSUME NEW k \in 1 .. Len(r), r[k] = x
      PROVE  \E l \in 1 .. Len(q \o r) : (q \o r)[l] = x
    <2>1. Len(q) + k \in 1 .. Len(q \o r)
        BY <1>1
    <2> QED
        BY <1>1, <1>4, <2>1
<1> QED
    BY <1>2, <1>3, <1>4

\* A request of a client that is there keeps HoldInv.
LEMMA AskKeeps ==
    ASSUME TypeOK, HoldInv, NEW s \in Sessions, Ask(s)
    PROVE  HoldInv'
<1>1. PICK i \in Index, act \in Acts : Push(i, <<Request(act, s)>>)
    BY DEF Ask, Live, Acts
<1>2. <<Request(act, s)>> \in Seq(Req)
    BY DEF Req, Request
<1>3. UNCHANGED <<conn, uses, writes, ctls, opened, worker>> /\ conn[s] = "open"
    BY DEF Ask
<1>4. ASSUME NEW a, NEW t, t # s, NEW j \in Index
      PROVE  Has(a, j, t)' <=> Has(a, j, t)
    <2>1. CASE j # i
        BY <1>1, <1>3, <2>1 DEF Push, Has, TypeOK
    <2>2. CASE j = i
        <3>1. queue'[j] = queue[j] \o <<Request(act, s)>>
            BY <1>1, <2>2 DEF Push, TypeOK
        <3>2. queue[j] \in Seq(Req)
            BY DEF TypeOK, Req
        <3>3. Request(act, s) # Request(a, t)
            BY <1>4 DEF Request
        <3>4. ~\E k \in 1 .. Len(<<Request(act, s)>>) : <<Request(act, s)>>[k] = Request(a, t)
            BY <3>3
        <3>5. (\E k \in 1 .. Len(queue'[j]) : queue'[j][k] = Request(a, t)) <=>
                (\E k \in 1 .. Len(queue[j]) : queue[j][k] = Request(a, t))
            BY <1>2, <3>1, <3>2, <3>4, PushedHas
        <3> QED
            BY <1>3, <3>5 DEF Has
    <2> QED
        BY <2>1, <2>2
<1>5. \A t, j : Recorded(t, j)' <=> Recorded(t, j)
    BY <1>3 DEF Recorded
<1>6. OpenIsLive' /\ WaitIsIo' /\ OutHasNone'
    BY <1>3 DEF HoldInv, OpenIsLive, WaitIsIo, OutHasNone, Live
<1>7. NewHasNone' /\ InKnowsOpen' /\ GoneCloses'
    BY <1>3, <1>4, <1>5 DEF HoldInv, NewHasNone, InKnowsOpen, GoneCloses
<1> QED
    BY <1>6, <1>7 DEF HoldInv

\* What a session has under way is pending.
LEMMA HasPending ==
    ASSUME NEW act, NEW i \in Index, NEW s, Has(act, i, s)
    PROVE  act \in Pending(s)
<1>1. CASE worker[i].act = act /\ worker[i].of = s
    BY <1>1 DEF Pending
<1>2. CASE \E k \in 1 .. Len(queue[i]) : queue[i][k] = Request(act, s)
    <2>1. PICK k \in 1 .. Len(queue[i]) : queue[i][k] = Request(act, s)
        BY <1>2
    <2>2. queue[i][k].of = s /\ queue[i][k].act = act
        BY <2>1 DEF Request
    <2>3. act \in {queue[i][l].act : l \in {m \in 1 .. Len(queue[i]) : queue[i][m].of = s}}
        BY <2>2
    <2> QED
        BY <2>3 DEF Pending
<1> QED
    BY <1>1, <1>2 DEF Has

\* A client that leaves has all its opens answered and recorded: a close is
\* pushed for each.
LEMMA LeaveKeeps ==
    ASSUME Patient, TypeOK, HoldInv, NEW s \in Sessions, Leave(s)
    PROVE  HoldInv'
<1> DEFINE r == <<Request("io", s), Request("close", s)>>
<1>1. r \in Seq(Req)
    BY DEF Req, Request, Acts
<1>2. /\ UNCHANGED <<ctls, opened, worker>> /\ conn[s] = "open" /\ ~Opening(s)
      /\ conn' = [conn EXCEPT ![s] = "closed"] /\ uses' = [uses EXCEPT ![s] = {}]
      /\ writes' = [writes EXCEPT ![s] = << >>]
    BY DEF Leave
<1>3. \A i \in Index :
        queue'[i] = IF i \in uses[s] \cap Live THEN queue[i] \o r ELSE queue[i]
    BY DEF Leave
<1>4. /\ \A a, t : t # s => ~\E k \in 1 .. Len(r) : r[k] = Request(a, t)
      /\ ~\E k \in 1 .. Len(r) : r[k] = Request("open", s)
      /\ \E k \in 1 .. Len(r) : r[k] = Request("close", s)
    <2>1. Len(r) = 2 /\ r[1] = Request("io", s) /\ r[2] = Request("close", s)
        OBVIOUS
    <2>2. \A k \in 1 .. Len(r) : k = 1 \/ k = 2
        BY <2>1
    <2>3. 2 \in 1 .. Len(r)
        BY <2>1
    <2>4. \A a, t : t # s => Request(a, t) # Request("io", s) /\ Request(a, t) # Request("close", s)
        BY DEF Request
    <2>5. Request("open", s) # Request("io", s) /\ Request("open", s) # Request("close", s)
        BY DEF Request
    <2> HIDE DEF r
    <2> QED
        BY <2>1, <2>2, <2>3, <2>4, <2>5
<1> HIDE DEF r
<1>5. ASSUME NEW a, NEW t, NEW i \in Index
      PROVE  /\ Has(a, i, t) => Has(a, i, t)'
             /\ t # s \/ a = "open" => (Has(a, i, t)' => Has(a, i, t))
             /\ i \in uses[s] \cap Live => Has("close", i, s)'
    <2>1. queue[i] \in Seq(Req)
        BY DEF TypeOK, Req
    <2>2. CASE i \in uses[s] \cap Live
        <3>1. queue'[i] = queue[i] \o r
            BY <1>3, <2>2
        <3>2. ASSUME NEW x
              PROVE  (\E k \in 1 .. Len(queue'[i]) : queue'[i][k] = x) <=>
                       (\E k \in 1 .. Len(queue[i]) : queue[i][k] = x)
                         \/ (\E k \in 1 .. Len(r) : r[k] = x)
            <4>1. (\E k \in 1 .. Len(queue[i] \o r) : (queue[i] \o r)[k] = x) <=>
                    (\E k \in 1 .. Len(queue[i]) : queue[i][k] = x)
                      \/ (\E k \in 1 .. Len(r) : r[k] = x)
                BY <1>1, <2>1, PushedHas, ZenonT(30)
            <4> QED
                BY <3>1, <4>1
        <3> QED
            BY <1>2, <1>4, <3>2 DEF Has
    <2>3. CASE i \notin uses[s] \cap Live
        BY <1>2, <1>3, <2>3 DEF Has
    <2> QED
        BY <2>2, <2>3
<1>6. ASSUME NEW i \in Index
      PROVE  ~Has("open", i, s)' /\ (s \in opened[i] => Has("close", i, s)')
    <2>1. ~Has("open", i, s)
        BY <1>2, HasPending DEF Opening
    <2>2. ASSUME s \in opened[i] PROVE i \in uses[s] \cap Live
        <3>1. Recorded(s, i) /\ i \in Live
            BY <1>2, <2>2 DEF HoldInv, InKnowsOpen, OpenIsLive
        <3>2. ASSUME NEW k \in 1 .. Len(writes[s]), writes[s][k] = Answer("open", i, TRUE)
              PROVE  FALSE
            BY <1>2, <3>2 DEF Opening, Answer
        <3> QED
            BY <3>1, <3>2 DEF Recorded
    <2> QED
        BY <1>5, <2>1, <2>2
<1>7. \A t \in Sessions : t # s => conn'[t] = conn[t] /\ uses'[t] = uses[t] /\ writes'[t] = writes[t]
    BY <1>2 DEF TypeOK
<1>8. conn'[s] = "closed" /\ uses'[s] = {} /\ writes'[s] = << >>
    BY <1>2 DEF TypeOK
<1>9. ASSUME NEW t \in Sessions, t # s, NEW i
      PROVE  Recorded(t, i)' <=> Recorded(t, i)
    BY <1>7, <1>9 DEF Recorded
<1>10. OpenIsLive' /\ WaitIsIo' /\ OutHasNone'
    BY <1>2, <1>7, <1>8 DEF HoldInv, OpenIsLive, WaitIsIo, OutHasNone, Live
<1>11. NewHasNone'
    BY <1>2, <1>5, <1>7, <1>8 DEF HoldInv, NewHasNone
<1>12. InKnowsOpen'
    BY <1>2, <1>7, <1>8, <1>9 DEF HoldInv, InKnowsOpen
<1>13. GoneCloses'
    BY <1>2, <1>5, <1>6, <1>7 DEF HoldInv, GoneCloses
<1> QED
    BY <1>10, <1>11, <1>12, <1>13 DEF HoldInv

\* The recording of an answer that is written keeps HoldInv: an index that was
\* to be recorded is, or is still to be.
LEMMA WrittenKeeps ==
    ASSUME TypeOK, HoldInv, NEW s \in Sessions, Written(s)
    PROVE  HoldInv'
<1> DEFINE a == Head(writes[s])
           q == writes[s]
<1>1. /\ UNCHANGED <<conn, ctls, opened, queue, worker>>
      /\ writes' = [writes EXCEPT ![s] = Tail(q)] /\ q # << >> /\ q \in Seq(Ans)
    BY DEF Written, ctlVars, TypeOK, Ans
<1>2. /\ a = q[1] /\ a \in Ans /\ 1 \in 1 .. Len(q) /\ Len(q) \in Nat
      /\ Len(Tail(q)) = Len(q) - 1
      /\ \A k \in 1 .. Len(Tail(q)) : k + 1 \in 1 .. Len(q) /\ Tail(q)[k] = q[k + 1]
    BY <1>1, TailFacts
<1>3. conn[s] = "open"
    BY <1>1 DEF HoldInv, OutHasNone
<1>4. uses \in [Sessions -> SUBSET Index]
    BY DEF TypeOK
<1>5. /\ \A t \in Sessions : t # s => uses'[t] = uses[t] /\ writes'[t] = writes[t]
      /\ writes'[s] = Tail(q)
    BY <1>1, <1>4 DEF Written, TypeOK
<1>6. ASSUME NEW i \in Index
      PROVE  /\ a = Answer("open", i, TRUE) => i \in uses'[s]
             /\ i \in uses[s] /\ a # Answer("close", i, TRUE) => i \in uses'[s]
    <2>1. CASE a.ok /\ a.act = "open"
        <3>1. uses' = [uses EXCEPT ![s] = uses[s] \cup {a.index}]
            BY <2>1 DEF Written
        <3>2. uses'[s] = uses[s] \cup {a.index}
            BY <1>4, <3>1
        <3> QED
            BY <3>2 DEF Answer
    <2>2. CASE a.ok /\ a.act = "close"
        <3>1. uses' = [uses EXCEPT ![s] = uses[s] \ {a.index}]
            BY <2>2 DEF Written
        <3>2. uses'[s] = uses[s] \ {a.index}
            BY <1>4, <3>1
        <3>3. a = Answer("close", a.index, TRUE)
            BY <1>2, <2>2 DEF Ans, Answer
        <3>4. a # Answer("open", i, TRUE)
            BY <2>2 DEF Answer
        <3> QED
            BY <3>2, <3>3, <3>4
    <2>3. CASE ~(a.ok /\ a.act = "open") /\ ~(a.ok /\ a.act = "close")
        <3>1. uses' = uses
            BY <2>3 DEF Written
        <3>2. a # Answer("open", i, TRUE)
            BY <2>3 DEF Answer
        <3> QED
            BY <3>1, <3>2
    <2> QED
        BY <2>1, <2>2, <2>3
<1> HIDE DEF a
<1>7. ASSUME NEW i \in Index, Recorded(s, i)
      PROVE  Recorded(s, i)'
    <2>1. CASE i \in uses[s] /\ \A k \in 1 .. Len(q) : q[k] # Answer("close", i, TRUE)
        <3>1. i \in uses'[s]
            BY <1>2, <1>6, <2>1
        <3>2. \A k \in 1 .. Len(Tail(q)) : Tail(q)[k] # Answer("close", i, TRUE)
            BY <1>2, <2>1
        <3> QED
            BY <1>5, <3>1, <3>2 DEF Recorded
    <2>2. ASSUME NEW k \in 1 .. Len(q), q[k] = Answer("open", i, TRUE),
                 \A l \in k + 1 .. Len(q) : q[l] # Answer("close", i, TRUE)
          PROVE  Recorded(s, i)'
        <3>1. CASE k = 1
            <4>1. i \in uses'[s]
                BY <1>2, <1>6, <2>2, <3>1
            <4>2. \A l \in 1 .. Len(Tail(q)) : Tail(q)[l] # Answer("close", i, TRUE)
                <5> TAKE l \in 1 .. Len(Tail(q))
                <5>1. l + 1 \in k + 1 .. Len(q)
                    BY <1>2, <3>1
                <5> QED
                    BY <1>2, <2>2, <5>1
            <4> QED
                BY <1>5, <4>1, <4>2 DEF Recorded
        <3>2. CASE k # 1
            <4>1. k - 1 \in 1 .. Len(Tail(q)) /\ Tail(q)[k - 1] = q[k]
                <5>1. k - 1 \in 1 .. Len(Tail(q)) /\ (k - 1) + 1 = k
                    BY <1>2, <3>2
                <5> QED
                    BY <1>2, <5>1
            <4>2. \A l \in (k - 1) + 1 .. Len(Tail(q)) : Tail(q)[l] # Answer("close", i, TRUE)
                <5> TAKE l \in (k - 1) + 1 .. Len(Tail(q))
                <5>1. l \in 1 .. Len(Tail(q)) /\ l + 1 \in k + 1 .. Len(q)
                    BY <1>2
                <5> QED
                    BY <1>2, <2>2, <5>1
            <4> QED
                BY <1>5, <2>2, <4>1, <4>2 DEF Recorded
        <3> QED
            BY <3>1, <3>2
    <2> QED
        BY <1>7, <2>1, <2>2 DEF Recorded
<1>8. ASSUME NEW t \in Sessions, t # s, NEW i
      PROVE  Recorded(t, i)' <=> Recorded(t, i)
    BY <1>5, <1>8 DEF Recorded
<1>9. \A act, i, t : Has(act, i, t)' <=> Has(act, i, t)
    BY <1>1 DEF Has
<1>10. OpenIsLive' /\ WaitIsIo' /\ OutHasNone'
    BY <1>1, <1>3, <1>5 DEF HoldInv, OpenIsLive, WaitIsIo, OutHasNone, Live
<1>11. NewHasNone' /\ GoneCloses'
    BY <1>1, <1>9 DEF HoldInv, NewHasNone, GoneCloses
<1>12. InKnowsOpen'
    BY <1>1, <1>7, <1>8 DEF HoldInv, InKnowsOpen
<1> QED
    BY <1>10, <1>11, <1>12 DEF HoldInv

-----------------------------------------------------------------------------
(* The controllers' threads.                                                *)

\* A request goes from the queue to the thread.
LEMMA TakeKeeps ==
    ASSUME TypeOK, HoldInv, NEW i \in Index, Take(i)
    PROVE  HoldInv'
<1> DEFINE q == queue[i]
<1>1. /\ UNCHANGED <<ctls, opened, sesVars>> /\ worker[i] = Idle /\ q # << >>
      /\ queue' = [queue EXCEPT ![i] = Tail(q)]
      /\ worker' = [worker EXCEPT ![i] = [pc |-> "lookup", act |-> Head(q).act, of |-> Head(q).of]]
    BY DEF Take
<1>2. /\ Head(q) = q[1] /\ q[1] \in Req /\ 1 \in 1 .. Len(q) /\ Len(q) \in Nat
      /\ Len(Tail(q)) = Len(q) - 1
      /\ \A k \in 1 .. Len(Tail(q)) : k + 1 \in 1 .. Len(q) /\ Tail(q)[k] = q[k + 1]
    <2>1. q \in Seq(Req)
        BY DEF TypeOK, Req
    <2> QED
        BY <1>1, <2>1, TailFacts
<1>3. /\ queue'[i] = Tail(q) /\ worker'[i].pc = "lookup"
      /\ worker'[i].act = q[1].act /\ worker'[i].of = q[1].of
      /\ \A j \in Index : j # i => queue'[j] = queue[j] /\ worker'[j] = worker[j]
    BY <1>1, <1>2 DEF TypeOK
<1>4. ASSUME NEW act \in Acts, NEW s \in Sessions, NEW j \in Index
      PROVE  Has(act, j, s)' <=> Has(act, j, s)
    <2>1. CASE j # i
        BY <1>3, <2>1 DEF Has
    <2>2. CASE j = i
        <3>1. worker[i].act \notin Acts
            BY <1>1 DEF Idle, Acts
        <3>2. q[1] = Request(act, s) <=> q[1].act = act /\ q[1].of = s
            BY <1>2 DEF Req, Request
        <3>3. (\E k \in 1 .. Len(q) : q[k] = Request(act, s)) <=>
                q[1] = Request(act, s) \/ \E k \in 1 .. Len(Tail(q)) : Tail(q)[k] = Request(act, s)
            <4>1. ASSUME NEW k \in 1 .. Len(q), k # 1
                  PROVE  k - 1 \in 1 .. Len(Tail(q)) /\ Tail(q)[k - 1] = q[k]
                <5>1. k - 1 \in 1 .. Len(Tail(q)) /\ (k - 1) + 1 = k
                    BY <1>2, <4>1
                <5> QED
                    BY <1>2, <5>1
            <4> QED
                BY <1>2, <4>1
        <3> QED
            BY <1>3, <2>2, <3>1, <3>2, <3>3 DEF Has
    <2> QED
        BY <2>1, <2>2
<1>5. \A s, j : Recorded(s, j)' <=> Recorded(s, j)
    BY <1>1 DEF Recorded, sesVars
<1>6. OpenIsLive' /\ WaitIsIo' /\ OutHasNone'
    BY <1>1, <1>3 DEF HoldInv, OpenIsLive, WaitIsIo, OutHasNone, Live, sesVars
<1>7. NewHasNone' /\ InKnowsOpen' /\ GoneCloses'
    BY <1>1, <1>4, <1>5 DEF HoldInv, NewHasNone, InKnowsOpen, GoneCloses, sesVars, Acts
<1> QED
    BY <1>6, <1>7 DEF HoldInv

\* A reply ends the request of the thread, and nothing else.
LEMMA ReplyHas ==
    ASSUME TypeOK, NEW i \in Index, NEW ok, Reply(i, ok), queue' = queue,
           NEW act \in Acts, NEW j \in Index, NEW s
    PROVE  /\ Has(act, j, s)' => Has(act, j, s)
           /\ Has(act, j, s) /\ ~(j = i /\ worker[i].act = act /\ worker[i].of = s)
                => Has(act, j, s)'
<1>1. worker' = [worker EXCEPT ![i] = Idle]
    BY DEF Reply
<1>2. worker'[i].act \notin Acts /\ \A k \in Index : k # i => worker'[k] = worker[k]
    BY <1>1 DEF TypeOK, Idle, Acts
<1> QED
    BY <1>2 DEF Has

\* An answer that is appended takes back no record, unless it is of a close;
\* that of an open makes one.
LEMMA ReplyRecorded ==
    ASSUME TypeOK, NEW i \in Index, NEW ok \in BOOLEAN, Reply(i, ok), worker[i] # Idle,
           NEW j \in Index, NEW s \in Sessions
    PROVE  /\ Recorded(s, j) /\ ~(ok /\ j = i /\ worker[i].act = "close" /\ worker[i].of = s)
                => Recorded(s, j)'
           /\ conn[s] = "open" /\ ok /\ worker[i].act = "open" /\ worker[i].of = s
                => Recorded(s, i)'
<1> DEFINE e == Answer(worker[i].act, i, ok)
           q == writes[s]
<1>1. worker[i].act \in Acts /\ worker[i].of \in Sessions
    BY DEF TypeOK
<1>2. e \in Ans
    BY <1>1 DEF Ans, Answer
<1>3. q \in Seq(Ans) /\ uses' = uses
    BY DEF TypeOK, Reply, Ans
<1>4. /\ Len(Append(q, e)) = Len(q) + 1 /\ Len(q) \in Nat
      /\ \A k \in 1 .. Len(q) : Append(q, e)[k] = q[k]
      /\ Append(q, e)[Len(q) + 1] = e
    BY <1>2, <1>3, AppendFacts
<1>5. CASE worker[i].of = s /\ conn[s] = "open"
    <2>1. writes'[s] = Append(q, e)
        <3>1. writes' = [writes EXCEPT ![s] = Append(writes[s], e)]
            BY <1>5 DEF Reply
        <3> HIDE DEF e
        <3> QED
            BY <3>1 DEF TypeOK
    <2>2. ASSUME Recorded(s, j), e # Answer("close", j, TRUE)
          PROVE  Recorded(s, j)'
        <3> HIDE DEF e
        <3>1. CASE j \in uses[s] /\ \A k \in 1 .. Len(q) : q[k] # Answer("close", j, TRUE)
            <4>1. \A k \in 1 .. Len(Append(q, e)) : Append(q, e)[k] # Answer("close", j, TRUE)
                <5> TAKE k \in 1 .. Len(Append(q, e))
                <5>1. k \in 1 .. Len(q) \/ k = Len(q) + 1
                    BY <1>4
                <5> QED
                    BY <1>4, <2>2, <3>1, <5>1
            <4> QED
                BY <1>3, <2>1, <3>1, <4>1 DEF Recorded
        <3>2. ASSUME NEW k \in 1 .. Len(q), q[k] = Answer("open", j, TRUE),
                     \A l \in k + 1 .. Len(q) : q[l] # Answer("close", j, TRUE)
              PROVE  Recorded(s, j)'
            <4>1. k \in 1 .. Len(Append(q, e)) /\ Append(q, e)[k] = Answer("open", j, TRUE)
                <5>1. k \in 1 .. Len(Append(q, e))
                    BY <1>4
                <5>2. Append(q, e)[k] = q[k]
                    BY <1>4
                <5> QED
                    BY <3>2, <5>1, <5>2
            <4>2. \A l \in k + 1 .. Len(Append(q, e)) : Append(q, e)[l] # Answer("close", j, TRUE)
                <5> TAKE l \in k + 1 .. Len(Append(q, e))
                <5>1. (l \in k + 1 .. Len(q) /\ l \in 1 .. Len(q)) \/ l = Len(q) + 1
                    BY <1>4
                <5> QED
                    BY <1>4, <2>2, <3>2, <5>1
            <4> QED
                BY <2>1, <4>1, <4>2 DEF Recorded
        <3> QED
            BY <2>2, <3>1, <3>2 DEF Recorded
    <2>3. e = Answer("close", j, TRUE) => ok /\ j = i /\ worker[i].act = "close"
        BY DEF Answer
    <2>4. ASSUME ok, worker[i].act = "open" PROVE Recorded(s, i)'
        <3>1. e = Answer("open", i, TRUE)
            BY <2>4
        <3>2. Len(q) + 1 \in 1 .. Len(Append(q, e))
            BY <1>4
        <3>3. \A l \in (Len(q) + 1) + 1 .. Len(Append(q, e)) : FALSE
            BY <1>4
        <3> HIDE DEF e
        <3> QED
            BY <1>4, <2>1, <3>1, <3>2, <3>3 DEF Recorded
    <2> QED
        BY <1>5, <2>2, <2>3, <2>4
<1>6. CASE ~(worker[i].of = s /\ conn[s] = "open")
    <2>1. writes'[s] = writes[s]
        <3>1. writes' = writes \/ (worker[i].of # s /\ writes' = [writes EXCEPT ![worker[i].of] =
                                                      Append(writes[worker[i].of], e)])
            BY <1>6 DEF Reply
        <3> HIDE DEF e
        <3> QED
            BY <3>1 DEF TypeOK
    <2> QED
        BY <1>3, <1>6, <2>1 DEF Recorded
<1> QED
    BY <1>5, <1>6

\* A reply is written only to a client that is there.
LEMMA OutReply ==
    ASSUME TypeOK, HoldInv, NEW i \in Index, NEW ok \in BOOLEAN, Reply(i, ok), worker[i] # Idle
    PROVE  OutHasNone'
<1> DEFINE e == Append(writes[worker[i].of], Answer(worker[i].act, i, ok))
<1>1. UNCHANGED <<conn, uses>>
    BY DEF Reply
<1>2. \/ writes' = writes
      \/ conn[worker[i].of] = "open" /\ writes' = [writes EXCEPT ![worker[i].of] = e]
    BY DEF Reply
<1> HIDE DEF e
<1> QED
    BY <1>1, <1>2 DEF HoldInv, OutHasNone, TypeOK

\* The answer to a request that is not a close leaves what is open as it is.
LEMMA IoKeeps ==
    ASSUME TypeOK, HoldInv, NEW i \in Index, NEW ok \in BOOLEAN, Reply(i, ok),
           worker[i] # Idle, worker[i].act # "close",
           UNCHANGED <<ctls, opened, queue>>
    PROVE  HoldInv'
<1>1. UNCHANGED <<conn, uses>> /\ worker' = [worker EXCEPT ![i] = Idle]
    BY DEF Reply
<1>2. \A act \in Acts, j \in Index : \A s :
        /\ Has(act, j, s)' => Has(act, j, s)
        /\ act = "close" /\ Has(act, j, s) => Has(act, j, s)'
    BY ReplyHas
<1>3. \A j \in Index, s \in Sessions : Recorded(s, j) => Recorded(s, j)'
    BY ReplyRecorded
<1>4. OpenIsLive' /\ WaitIsIo'
    BY <1>1 DEF HoldInv, OpenIsLive, WaitIsIo, Live, Idle, TypeOK
<1>5. OutHasNone'
    BY <1>1, OutReply
<1>6. NewHasNone' /\ GoneCloses'
    BY <1>1, <1>2 DEF HoldInv, NewHasNone, GoneCloses, Acts
<1>7. InKnowsOpen'
    BY <1>1, <1>3 DEF HoldInv, InKnowsOpen
<1> QED
    BY <1>4, <1>5, <1>6, <1>7 DEF HoldInv

\* An open that succeeds is of a client that is there, and is to be recorded.
LEMMA OpenKeeps ==
    ASSUME TypeOK, HoldInv, NEW i \in Index, Open(i)
    PROVE  HoldInv'
<1>1. worker[i] # Idle /\ worker[i].act = "open"
    BY DEF Open, Idle
<1>2. PICK s \in Sessions : s = worker[i].of
    BY <1>1 DEF TypeOK
<1>3. PICK ok \in BOOLEAN :
        /\ Reply(i, ok) /\ (ok => ctls[i] \in inst)
        /\ opened' = IF ok THEN [opened EXCEPT ![i] = @ \cup {s}] ELSE opened
    BY <1>2 DEF Open
<1>4. UNCHANGED <<ctls, queue>>
    BY DEF Open
<1>5. CASE ~ok
    BY <1>1, <1>3, <1>4, <1>5, IoKeeps
<1>6. CASE ok
    <2>1. UNCHANGED <<conn, uses>> /\ worker' = [worker EXCEPT ![i] = Idle]
        BY <1>3 DEF Reply
    <2>2. Has("open", i, s)
        BY <1>1, <1>2 DEF Has
    <2>3. conn[s] = "open"
        BY <1>2, <2>2 DEF HoldInv, NewHasNone, GoneCloses, TypeOK, Acts
    <2>4. \A act \in Acts, j \in Index : \A t :
            /\ Has(act, j, t)' => Has(act, j, t)
            /\ act = "close" /\ Has(act, j, t) => Has(act, j, t)'
        BY <1>1, <1>3, <1>4, ReplyHas
    <2>5. \A j \in Index, t \in Sessions : Recorded(t, j) => Recorded(t, j)'
        BY <1>1, <1>3, ReplyRecorded
    <2>6. Recorded(s, i)'
        BY <1>1, <1>2, <1>3, <1>6, <2>3, ReplyRecorded
    <2>7. \A j \in Index : opened'[j] = IF j = i THEN opened[j] \cup {s} ELSE opened[j]
        BY <1>3, <1>6 DEF TypeOK
    <2>8. i \in Live
        BY <1>3, <1>6, NoDeviceAssumption DEF TypeOK, Live
    <2>9. OpenIsLive' /\ WaitIsIo'
        BY <1>4, <2>1, <2>7, <2>8 DEF HoldInv, OpenIsLive, WaitIsIo, Live, Idle, TypeOK
    <2>10. OutHasNone'
        BY <1>1, <1>3, OutReply
    <2>11. NewHasNone'
        BY <2>1, <2>3, <2>4, <2>7 DEF HoldInv, NewHasNone
    <2>13. GoneCloses'
        <3>1. "open" \in Acts /\ "close" \in Acts
            BY DEF Acts
        <3> QED
            BY <2>1, <2>3, <2>4, <2>7, <3>1 DEF HoldInv, GoneCloses
    <2>12. InKnowsOpen'
        BY <2>1, <2>5, <2>6, <2>7 DEF HoldInv, InKnowsOpen
    <2> QED
        BY <2>9, <2>10, <2>11, <2>12, <2>13 DEF HoldInv
<1> QED
    BY <1>5, <1>6

\* A close ends what it was pushed for.
LEMMA CloseKeeps ==
    ASSUME TypeOK, HoldInv, NEW i \in Index, Close(i)
    PROVE  HoldInv'
<1>1. worker[i] # Idle /\ worker[i].act = "close"
    BY DEF Close, Idle
<1>0. PICK s \in Sessions : s = worker[i].of
    BY <1>1 DEF TypeOK
<1>2. PICK ok \in BOOLEAN : Reply(i, ok)
    <2>1. Reply(i, worker[i].of \in opened[i])
        BY DEF Close
    <2>2. (worker[i].of \in opened[i]) \in BOOLEAN
        OBVIOUS
    <2> QED
        BY <2>1, <2>2
<1>3. UNCHANGED <<ctls, queue>> /\ opened' = [opened EXCEPT ![i] = @ \ {s}]
    BY <1>0 DEF Close
<1>4. UNCHANGED <<conn, uses>> /\ worker' = [worker EXCEPT ![i] = Idle]
    BY <1>2 DEF Reply
<1>5. \A act \in Acts, j \in Index : \A t :
        /\ Has(act, j, t)' => Has(act, j, t)
        /\ Has(act, j, t) /\ ~(j = i /\ t = s) => Has(act, j, t)'
    BY <1>0, <1>2, <1>3, ReplyHas
<1>6. \A j \in Index, t \in Sessions : Recorded(t, j) /\ ~(j = i /\ t = s) => Recorded(t, j)'
    BY <1>0, <1>1, <1>2, ReplyRecorded
<1>7. \A j \in Index : opened'[j] = IF j = i THEN opened[j] \ {s} ELSE opened[j]
    BY <1>3 DEF TypeOK
<1>8. OpenIsLive' /\ WaitIsIo'
    BY <1>3, <1>4, <1>7 DEF HoldInv, OpenIsLive, WaitIsIo, Live, Idle, TypeOK
<1>9. OutHasNone'
    BY <1>1, <1>2, OutReply
<1>10. NewHasNone'
    BY <1>4, <1>5, <1>7 DEF HoldInv, NewHasNone
<1>11. InKnowsOpen'
    BY <1>4, <1>6, <1>7 DEF HoldInv, InKnowsOpen
<1>12. GoneCloses'
    <2>1. "open" \in Acts /\ "close" \in Acts
        BY DEF Acts
    <2>2. ASSUME NEW t \in Sessions, NEW j \in Index, conn'[t] = "closed"
          PROVE  ~Has("open", j, t)'
        BY <1>4, <1>5, <2>1, <2>2 DEF HoldInv, GoneCloses
    <2>3. ASSUME NEW t \in Sessions, NEW j \in Index, conn'[t] = "closed", t \in opened'[j]
          PROVE  Has("close", j, t)'
        <3>1. t \in opened[j] /\ ~(j = i /\ t = s)
            BY <1>7, <2>3
        <3>2. Has("close", j, t)
            BY <1>4, <2>3, <3>1 DEF HoldInv, GoneCloses
        <3> QED
            BY <1>5, <2>1, <3>1, <3>2
    <2> QED
        BY <2>2, <2>3 DEF GoneCloses
<1> QED
    BY <1>8, <1>9, <1>10, <1>11, <1>12 DEF HoldInv

\* The controllers' threads keep HoldInv.
LEMMA WorkKeeps ==
    ASSUME TypeOK, HoldInv, NEW i \in Index, Work(i)
    PROVE  HoldInv'
<1>1. CASE StartIo(i)
    <2>1. worker[i] # Idle /\ worker[i].act = "io" /\ UNCHANGED <<ctls, opened, queue>>
        BY <1>1 DEF StartIo, Idle
    <2>2. CASE worker' = [worker EXCEPT ![i].pc = "wait"] /\ UNCHANGED sesVars
        <3>1. worker[i] \in [pc : {"lookup", "wait", "lost"}, act : Acts, of : Sessions]
            BY <2>1 DEF TypeOK
        <3>2. \A j \in Index : /\ worker'[j].act = worker[j].act /\ worker'[j].of = worker[j].of
                               /\ j # i => worker'[j] = worker[j]
            BY <2>2, <3>1 DEF TypeOK
        <3>3. WaitIsIo'
            BY <2>1, <3>2 DEF HoldInv, WaitIsIo
        <3> QED
            BY <2>1, <2>2, <3>2, <3>3, FrameKeeps
    <2>3. CASE Reply(i, FALSE)
        BY <2>1, <2>3, IoKeeps
    <2> QED
        BY <1>1, <2>2, <2>3 DEF StartIo
<1>2. CASE CalledBack(i)
    <2>1. worker[i] # Idle
        BY <1>2 DEF CalledBack, Idle
    <2>2. worker[i].act = "io"
        BY <1>2 DEF CalledBack, HoldInv, WaitIsIo
    <2> QED
        BY <1>2, <2>1, <2>2, IoKeeps DEF CalledBack
<1> QED
    BY <1>1, <1>2, TakeKeeps, OpenKeeps, CloseKeeps DEF Work

-----------------------------------------------------------------------------
\* HoldInv is inductive.
LEMMA HoldStep ==
    ASSUME Patient, TypeOK, HoldInv, [Next]_vars
    PROVE  HoldInv'
<1>1. CASE UNCHANGED vars
    <2>1. WaitIsIo'
        BY <1>1 DEF HoldInv, WaitIsIo, vars, ctlVars
    <2> QED
        BY <1>1, <2>1, FrameKeeps DEF vars, ctlVars
<1>2. CASE Plug
    BY <1>2, PlugKeeps
<1>3. ASSUME NEW d \in Devices,
             PlugIn(d) \/ PlugOut(d) \/ Glitch(d) \/ ConsiderRemoved(d) \/ CancelConsidered(d)
      PROVE  HoldInv'
    <2>1. UNCHANGED <<ctlVars, sesVars>>
        BY <1>3 DEF PlugIn, PlugOut, Glitch, ConsiderRemoved, CancelConsidered
    <2>2. WaitIsIo'
        BY <2>1 DEF HoldInv, WaitIsIo, ctlVars
    <2> QED
        BY <2>1, <2>2, FrameKeeps DEF ctlVars
<1>4. ASSUME NEW s \in Sessions, Connect(s)
      PROVE  HoldInv'
    <2>1. /\ conn[s] = "none" /\ conn' = [conn EXCEPT ![s] = "open"]
          /\ UNCHANGED <<uses, writes, ctls, opened, queue, worker>>
        BY <1>4 DEF Connect, ctlVars
    <2>2. \A t \in Sessions : conn'[t] = IF t = s THEN "open" ELSE conn[t]
        BY <2>1 DEF TypeOK
    <2>3. \A act, i, t : Has(act, i, t)' <=> Has(act, i, t)
        BY <2>1 DEF Has
    <2>4. \A t, i : Recorded(t, i)' <=> Recorded(t, i)
        BY <2>1 DEF Recorded
    <2>5. OpenIsLive' /\ WaitIsIo' /\ OutHasNone'
        BY <2>1, <2>2 DEF HoldInv, OpenIsLive, WaitIsIo, OutHasNone, Live
    <2>6. NewHasNone' /\ InKnowsOpen' /\ GoneCloses'
        BY <2>1, <2>2, <2>3, <2>4 DEF HoldInv, NewHasNone, InKnowsOpen, GoneCloses
    <2> QED
        BY <2>5, <2>6 DEF HoldInv
<1>5. ASSUME NEW s \in Sessions, Ask(s) \/ Leave(s) \/ Written(s)
      PROVE  HoldInv'
    BY <1>5, AskKeeps, LeaveKeeps, WrittenKeeps
<1>6. ASSUME NEW i \in Index, Work(i)
      PROVE  HoldInv'
    BY <1>6, WorkKeeps
<1> QED
    BY <1>1, <1>2, <1>3, <1>4, <1>5, <1>6 DEF Next

\* At the start nobody has anything open.
LEMMA HoldInit ==
    ASSUME Init
    PROVE  HoldInv
<1>1. \A i \in Index : opened[i] = {} /\ worker[i] = Idle /\ queue[i] = << >> /\ Len(queue[i]) = 0
    BY DEF Init
<1>2. \A s \in Sessions : conn[s] = "none" /\ uses[s] = {} /\ writes[s] = << >>
    BY DEF Init
<1>3. \A act \in Acts, i \in Index : \A s : ~Has(act, i, s)
    BY <1>1 DEF Has, Idle, Acts
<1> QED
    BY <1>1, <1>2, <1>3
    DEF HoldInv, OpenIsLive, WaitIsIo, OutHasNone, NewHasNone, InKnowsOpen, GoneCloses, Idle

\* A client that is gone, and of whose requests none is left, holds no device,
\* if clients do not leave while an open is under way: the end of a session
\* (close_all_device_of_session) reaches every device it opened, also when devices
\* are pulled, indexes wrap around, and answers are written late.
THEOREM GoneClients == ASSUME Patient PROVE Spec => []GoneHoldsNone
<1>1. Init => HoldInv
    BY HoldInit
<1>2. TypeOK /\ HoldInv /\ [Next]_vars => HoldInv'
    BY HoldStep
<1>3. HoldInv => GoneHoldsNone
    <2> SUFFICES ASSUME HoldInv, NEW s \in Sessions, conn[s] = "closed", Pending(s) = {},
                        NEW i \in Index, s \in opened[i]
                 PROVE  FALSE
        BY DEF GoneHoldsNone
    <2>1. Has("close", i, s)
        BY DEF HoldInv, GoneCloses
    <2> QED
        BY <2>1, HasPending
<1> QED
    BY <1>1, <1>2, <1>3, TypesInvariant, PTL DEF Spec

-----------------------------------------------------------------------------
(* One controller for each device.                                          *)

\* Nothing is left of the index: no controller and no thread has it, no
\* session is recorded to use it, and no answer tells it.
Unused(i) ==
    /\ ctls[i] = NoDevice /\ worker[i] = Idle
    /\ \A s \in Sessions :
         i \notin uses[s] /\ \A k \in 1 .. Len(writes[s]) : writes[s][k].index # i

\* An index that is handed out, also one that has come round, is used no more.
FreshIndex == plug.pc = "insert" /\ plug.left # {} => Unused(next)

\* The listed devices that are to get a controller, and the devices not
\* listed that are to lose theirs.
Left == IF plug.pc = "notify" THEN listed.inserted ELSE plug.left
Gone == IF plug.pc = "notify" THEN listed.removed ELSE {ctls[i] : i \in plug.todo}

OneEach == \A i, j \in Live : ctls[i] = ctls[j] => i = j

Covered == {ctls[i] : i \in Live} = (listed.cur \ Left) \cup Gone

InTheScan ==
    /\ Left \subseteq listed.cur /\ Gone \cap listed.cur = {}
    /\ plug.todo \subseteq Live
    /\ plug.pc = "idle" => plug.left = {}
    /\ plug.pc # "erase" => plug.todo = {}

CtlInv == OneEach /\ Covered /\ InTheScan /\ inst \subseteq listed.cur

\* A set of numbers has a least one.
LEMMA LeastNumber ==
    ASSUME NEW T \in SUBSET Nat, T # {}
    PROVE  \E x \in T : \A y \in T : x <= y
<1> DEFINE R == {p \in Nat \X Nat : p[1] < p[2]}
<1>1. IsWellFoundedOn(R, Nat)
    BY NatLessThanWellFounded DEF OpToRel
<1>2. \A x, y \in Nat : <<y, x>> \notin R => x <= y
    OBVIOUS
<1> HIDE DEF R
<1>3. PICK x \in T : \A y \in T : <<y, x>> \notin R
    BY <1>1, WFMin
<1> QED
    BY <1>2, <1>3

\* The next controller to erase is one of those that are to be.
LEMMA NextOfTodo ==
    ASSUME TypeOK, plug.todo # {}
    PROVE  NextToErase \in plug.todo
<1>1. plug.todo \in SUBSET Nat
    BY IndexNat DEF TypeOK
<1>2. \E i \in plug.todo : \A j \in plug.todo : i <= j
    BY <1>1, LeastNumber
<1> QED
    BY <1>2 DEF NextToErase

\* The two steps of EraseCtl.
LEMMA EraseSteps ==
    ASSUME TypeOK, EraseCtl
    PROVE  \/ \E n \in plug.todo :
                /\ worker[n] = Idle
                /\ ctls' = [ctls EXCEPT ![n] = NoDevice]
                /\ opened' = [opened EXCEPT ![n] = {}]
                /\ plug' = [plug EXCEPT !.todo = @ \ {n}]
           \/ /\ plug.todo = {} /\ plug' = [plug EXCEPT !.pc = "insert"]
              /\ UNCHANGED <<ctls, opened, queue>>
<1>1. CASE plug.todo = {}
    BY <1>1 DEF EraseCtl
<1>2. CASE plug.todo # {}
    <2>1. NextToErase \in plug.todo
        BY <1>2, NextOfTodo
    <2> QED
        BY <1>2, <2>1 DEF EraseCtl, Destroy
<1> QED
    BY <1>1, <1>2

\* A scan and the callback that follows it keep CtlInv.
LEMMA ScanCtl ==
    ASSUME TypeOK, CtlInv, Scan \/ Notify
    PROVE  CtlInv'
<1>1. ctls' = ctls /\ Live' = Live
    BY DEF Scan, Notify, ctlVars, Live
<1>2. OneEach'
    BY <1>1 DEF CtlInv, OneEach
<1>3. CASE Scan
    <2>1. /\ plug.pc = "idle" /\ plug.left = {} /\ plug.todo = {}
        BY <1>3 DEF Scan, CtlInv, InTheScan
    <2>2. {ctls[i] : i \in Live} = listed.cur
        BY <2>1 DEF CtlInv, Covered, Left, Gone
    <2>3. /\ plug' = [pc |-> "notify", todo |-> {}, left |-> {}]
          /\ listed' = [cur |-> Present, inserted |-> Present \ listed.cur,
                        removed |-> listed.cur \ Present]
          /\ inst' \subseteq (inst \ (listed.cur \ Present)) \cup (Present \ listed.cur)
        BY <1>3 DEF Scan
    <2>4. Left' = Present \ listed.cur /\ Gone' = listed.cur \ Present /\ listed'.cur = Present
        BY <2>3 DEF Left, Gone
    <2>5. Covered'
        BY <1>1, <2>2, <2>4 DEF Covered
    <2>6. InTheScan'
        BY <1>1, <2>3, <2>4 DEF InTheScan
    <2>7. inst' \subseteq listed'.cur
        BY <2>3, <2>4 DEF CtlInv
    <2> QED
        BY <1>2, <2>5, <2>6, <2>7 DEF CtlInv
<1>4. CASE Notify
    <2>1. /\ plug.pc = "notify" /\ UNCHANGED <<listed, inst>>
          /\ plug' = [pc |-> "erase", todo |-> UNION {IndexOf(d) : d \in listed.removed},
                      left |-> listed.inserted]
        BY <1>4 DEF Notify
    <2>2. plug'.todo = {i \in Live : ctls[i] \in listed.removed}
        BY <2>1 DEF IndexOf
    <2>3. Gone = listed.removed /\ Left = listed.inserted /\ Left' = Left
        BY <2>1 DEF Gone, Left
    <2>4. Gone' = {ctls[i] : i \in plug'.todo}
        BY <1>1, <2>1 DEF Gone
    <2>5. Gone' = Gone
        <3>1. \A d \in listed.removed : \E i \in Live : ctls[i] = d
            BY <2>3 DEF CtlInv, Covered
        <3> QED
            BY <2>2, <2>3, <2>4, <3>1
    <2>6. InTheScan'
        BY <1>1, <2>1, <2>2, <2>3, <2>5 DEF CtlInv, InTheScan
    <2> QED
        BY <1>1, <1>2, <2>1, <2>3, <2>5, <2>6 DEF CtlInv, Covered
<1> QED
    BY <1>3, <1>4

\* A controller that is destroyed is of a device that is not listed, and the
\* only one of it.
LEMMA EraseCtlKeeps ==
    ASSUME TypeOK, CtlInv, EraseCtl
    PROVE  CtlInv'
<1>1. plug.pc = "erase" /\ UNCHANGED <<listed, inst>>
    BY DEF EraseCtl
<1>2. Left = plug.left /\ Gone = {ctls[i] : i \in plug.todo}
    BY <1>1 DEF Left, Gone
<1>3. ASSUME NEW n \in plug.todo,
             ctls' = [ctls EXCEPT ![n] = NoDevice],
             plug' = [plug EXCEPT !.todo = @ \ {n}]
      PROVE  CtlInv'
    <2>1. n \in Live /\ n \in Index
        BY <1>3 DEF CtlInv, InTheScan, Live
    <2>2. Live' = Live \ {n} /\ \A i \in Live' : ctls'[i] = ctls[i]
        BY <1>3, <2>1 DEF Live, TypeOK
    <2>3. plug'.pc = "erase" /\ plug'.left = plug.left /\ plug'.todo = plug.todo \ {n}
        BY <1>1, <1>3 DEF TypeOK
    <2>4. \A i \in Live' : ctls[i] # ctls[n]
        BY <2>1, <2>2 DEF CtlInv, OneEach
    <2>5. plug'.todo \subseteq Live'
        BY <2>2, <2>3 DEF CtlInv, InTheScan
    <2>6. Left' = Left /\ Gone' = Gone \ {ctls[n]}
        <3>1. Gone' = {ctls[i] : i \in plug'.todo}
            BY <2>2, <2>3, <2>5 DEF Gone
        <3> QED
            BY <1>2, <2>3, <2>4, <2>5, <3>1 DEF Left
    <2>7. {ctls'[i] : i \in Live'} = {ctls[i] : i \in Live} \ {ctls[n]}
        BY <2>2, <2>4
    <2>8. ctls[n] \in Gone /\ ctls[n] \notin listed.cur
        BY <1>2, <1>3 DEF CtlInv, InTheScan
    <2>9. Covered'
        BY <1>1, <2>6, <2>7, <2>8 DEF CtlInv, Covered
    <2>10. OneEach'
        BY <2>2 DEF CtlInv, OneEach
    <2>11. InTheScan'
        BY <1>1, <2>3, <2>5, <2>6 DEF CtlInv, InTheScan
    <2> QED
        BY <1>1, <2>9, <2>10, <2>11 DEF CtlInv
<1>4. CASE plug.todo = {} /\ plug' = [plug EXCEPT !.pc = "insert"] /\ UNCHANGED <<ctls, opened, queue>>
    <2>1. plug'.pc = "insert" /\ plug'.left = plug.left /\ plug'.todo = {} /\ Live' = Live
        BY <1>4 DEF TypeOK, Live
    <2>2. Left' = Left /\ Gone' = Gone
        BY <1>2, <1>4, <2>1 DEF Left, Gone
    <2> QED
        BY <1>1, <1>4, <2>1, <2>2 DEF CtlInv, OneEach, Covered, InTheScan
<1> QED
    BY <1>3, <1>4, EraseSteps

\* A controller that is made takes no other's index, and is of a listed device
\* that had none.
LEMMA InsertCtlKeeps ==
    ASSUME TypeOK, CtlInv, FreshIndex, InsertCtl
    PROVE  CtlInv'
<1>1. plug.pc = "insert" /\ UNCHANGED <<listed, inst>> /\ plug.todo = {}
    BY DEF InsertCtl, CtlInv, InTheScan
<1>2. Left = plug.left /\ Gone = {}
    BY <1>1 DEF Left, Gone
<1>3. ASSUME NEW d \in plug.left, ctls' = [ctls EXCEPT ![next] = d],
             plug' = [plug EXCEPT !.left = @ \ {d}]
      PROVE  CtlInv'
    <2>1. next \in Index /\ next \notin Live /\ d \in Devices /\ d # NoDevice
        BY <1>1, <1>3, NoDeviceAssumption DEF FreshIndex, Unused, Live, TypeOK
    <2>2. ctls'[next] = d /\ \A i \in Index : i # next => ctls'[i] = ctls[i]
        BY <1>3, <2>1 DEF TypeOK
    <2>3. Live' = Live \cup {next} /\ \A i \in Live : ctls'[i] = ctls[i]
        BY <2>1, <2>2 DEF Live
    <2>4. plug'.pc = "insert" /\ plug'.left = plug.left \ {d} /\ plug'.todo = {}
        BY <1>1, <1>3 DEF TypeOK
    <2>5. Left' = Left \ {d} /\ Gone' = {}
        BY <1>2, <2>4 DEF Left, Gone
    <2>6. d \in listed.cur /\ d \in Left
        BY <1>2, <1>3 DEF CtlInv, InTheScan
    <2>7. \A i \in Live : ctls[i] # d
        BY <1>2, <2>6 DEF CtlInv, Covered
    <2>8. {ctls'[i] : i \in Live'} = {ctls[i] : i \in Live} \cup {d}
        BY <2>2, <2>3
    <2>9. Covered'
        BY <1>1, <1>2, <2>5, <2>6, <2>8 DEF CtlInv, Covered
    <2>10. OneEach'
        BY <2>2, <2>3, <2>7 DEF CtlInv, OneEach
    <2>11. InTheScan'
        BY <1>1, <2>4, <2>5 DEF CtlInv, InTheScan
    <2> QED
        BY <1>1, <2>9, <2>10, <2>11 DEF CtlInv
<1>4. CASE plug.left = {} /\ plug' = [plug EXCEPT !.pc = "idle"] /\ ctls' = ctls
    <2>1. plug'.pc = "idle" /\ plug'.left = {} /\ plug'.todo = {} /\ Live' = Live
        BY <1>1, <1>4 DEF TypeOK, Live
    <2>2. Left' = Left /\ Gone' = Gone
        BY <1>2, <1>4, <2>1 DEF Left, Gone
    <2> QED
        BY <1>1, <1>4, <2>1, <2>2 DEF CtlInv, OneEach, Covered, InTheScan
<1> QED
    BY <1>3, <1>4 DEF InsertCtl

\* CtlInv is inductive.
LEMMA CtlStep ==
    ASSUME TypeOK, CtlInv, FreshIndex, [Next]_vars
    PROVE  CtlInv'
<1>1. CASE Plug
    BY <1>1, ScanCtl, EraseCtlKeeps, InsertCtlKeeps DEF Plug
<1>2. CASE UNCHANGED <<libVars, ctls>>
    BY <1>2 DEF CtlInv, OneEach, Covered, InTheScan, Left, Gone, Live, libVars
<1>3. ASSUME NEW d \in Devices,
             PlugIn(d) \/ PlugOut(d) \/ Glitch(d) \/ ConsiderRemoved(d) \/ CancelConsidered(d)
      PROVE  UNCHANGED <<libVars, ctls>>
    BY <1>3 DEF PlugIn, PlugOut, Glitch, ConsiderRemoved, CancelConsidered, ctlVars
<1>4. ASSUME NEW s \in Sessions, Connect(s) \/ Ask(s) \/ Leave(s) \/ Written(s)
      PROVE  UNCHANGED <<libVars, ctls>>
    BY <1>4 DEF Connect, Ask, Leave, Written, ctlVars
<1>5. ASSUME NEW i \in Index, Work(i)
      PROVE  UNCHANGED <<libVars, ctls>>
    BY <1>5 DEF Work, Take, Open, StartIo, CalledBack, Close
<1>6. CASE UNCHANGED vars
    BY <1>2, <1>6 DEF vars, ctlVars
<1> QED
    BY <1>1, <1>2, <1>3, <1>4, <1>5, <1>6 DEF Next

\* At the start nothing is listed and nothing has a controller.
LEMMA CtlStart ==
    ASSUME Init
    PROVE  CtlInv
<1>1. Live = {} /\ Left = {} /\ Gone = {} /\ listed.cur = {} /\ inst = {}
    BY DEF Init, Live, Left, Gone
<1> QED
    BY <1>1 DEF Init, CtlInv, OneEach, Covered, InTheScan

\* Between two scans every listed device has one controller and only listed
\* devices have one, for any number of devices and of plugs and unplugs, as
\* long as an index that comes round is used no more: create_new_dev_ctl then
\* takes no other device's entry of m_map_device_index_to_ptr_dev_ctl.
THEOREM OneController == Spec /\ []FreshIndex => []CtlPerDevice
<1>1. Init => CtlInv
    BY CtlStart
<1>2. TypeOK /\ CtlInv /\ FreshIndex /\ [Next]_vars => CtlInv'
    BY CtlStep
<1>3. CtlInv => CtlPerDevice
    <2> SUFFICES ASSUME CtlInv, plug.pc = "idle" PROVE {ctls[i] : i \in Live} = listed.cur
        BY DEF CtlPerDevice, CtlInv, OneEach
    <2>1. Left = {} /\ Gone = {}
        BY DEF CtlInv, InTheScan, Left, Gone
    <2> QED
        BY <2>1 DEF CtlInv, Covered
<1> QED
    BY <1>1, <1>2, <1>3, TypesInvariant, PTL DEF Spec
-----------------------------------------------------------------------------
(* An index keeps its meaning.                                              *)

\* The session is recorded to use the index (k = 0), or the answer at k will
\* have it recorded.
Says(s, i, k) == IF k = 0 THEN i \in uses[s] ELSE writes[s][k] = Answer("open", i, TRUE)

ClosedAfter(s, i, k) ==
    \E l \in 1 .. Len(writes[s]) : k < l /\ writes[s][l] = Answer("close", i, TRUE)

\* What is said to be used is open, or the answer of its close comes later.
SaidIsOpen ==
    \A s \in Sessions, i \in Live : \A k \in 0 .. Len(writes[s]) :
        Says(s, i, k) => s \in opened[i] \/ ClosedAfter(s, i, k)

KnownInv == OutHasNone /\ SaidIsOpen

\* A step that leaves the sessions' records alone, and of the controllers at
\* most ends one or makes one with an index that is used no more.
LEMMA KnownFrame ==
    ASSUME TypeOK, KnownInv, UNCHANGED <<conn, uses, writes>>,
           \A i \in Live' : (i \in Live /\ opened'[i] = opened[i]) \/ Unused(i)
    PROVE  KnownInv'
<1>1. ASSUME NEW s \in Sessions, NEW i \in Live', NEW k \in 0 .. Len(writes[s]), Says(s, i, k)
      PROVE  s \in opened'[i] \/ ClosedAfter(s, i, k)
    <2>1. CASE i \in Live /\ opened'[i] = opened[i]
        BY <1>1, <2>1 DEF KnownInv, SaidIsOpen
    <2>2. CASE Unused(i)
        <3>1. k \in 1 .. Len(writes[s]) => writes[s][k].index # i
            BY <2>2 DEF Unused
        <3>2. k = 0 \/ k \in 1 .. Len(writes[s])
            OBVIOUS
        <3> QED
            BY <1>1, <2>2, <3>1, <3>2 DEF Says, Unused, Answer
    <2> QED
        BY <1>1, <2>1, <2>2
<1>2. \A s, i, k : (Says(s, i, k)' <=> Says(s, i, k)) /\ (ClosedAfter(s, i, k)' <=> ClosedAfter(s, i, k))
    BY DEF Says, ClosedAfter
<1> QED
    BY <1>1, <1>2 DEF KnownInv, OutHasNone, SaidIsOpen

\* A reply that leaves what is open as it is, or goes with an open or a close.
LEMMA KnownReply ==
    ASSUME TypeOK, KnownInv, NEW i \in Index, worker[i] # Idle, NEW ok \in BOOLEAN, Reply(i, ok),
           ctls' = ctls,
           \A j \in Index : j # i => opened'[j] = opened[j],
           \A t \in opened[i] : t \in opened'[i] \/ (t = worker[i].of /\ worker[i].act = "close" /\ ok),
           ok /\ worker[i].act = "open" => worker[i].of \in opened'[i]
    PROVE  KnownInv'
<1> DEFINE e == Answer(worker[i].act, i, ok)
<1>1. worker[i].act \in Acts /\ worker[i].of \in Sessions
    BY DEF TypeOK
<1>2. PICK w \in Sessions : w = worker[i].of
    BY <1>1
<1>3. e \in Ans
    BY <1>1 DEF Ans, Answer
<1>4. UNCHANGED <<conn, uses>> /\ Live' = Live
    BY DEF Reply, Live
<1>5. OutHasNone'
    <2>1. writes' = writes \/ (conn[w] = "open" /\ writes' = [writes EXCEPT ![w] = Append(writes[w], e)])
        BY <1>2 DEF Reply
    <2> HIDE DEF e
    <2> QED
        BY <1>4, <2>1 DEF KnownInv, OutHasNone, TypeOK
<1>6. ASSUME NEW s \in Sessions, NEW j \in Live, NEW k \in 0 .. Len(writes'[s]), Says(s, j, k)'
      PROVE  s \in opened'[j] \/ ClosedAfter(s, j, k)'
    <2> DEFINE q == writes[s]
    <2>1. q \in Seq(Ans) /\ j \in Index
        BY DEF TypeOK, Ans, Live
    <2>2. CASE s = w /\ conn[s] = "open"
        <3>1. writes'[s] = Append(q, e)
            <4>1. writes' = [writes EXCEPT ![s] = Append(q, e)]
                BY <1>2, <2>2 DEF Reply
            <4> HIDE DEF e, q
            <4> QED
                BY <4>1 DEF TypeOK
        <3>2. /\ Len(writes'[s]) = Len(q) + 1 /\ Len(q) \in Nat
              /\ \A l \in 1 .. Len(q) : writes'[s][l] = q[l]
              /\ writes'[s][Len(q) + 1] = e
            BY <1>3, <2>1, <3>1, AppendFacts
        <3> HIDE DEF e
        <3>3. CASE k = Len(q) + 1
            <4>1. e = Answer("open", j, TRUE)
                <5>1. k # 0
                    BY <3>2, <3>3
                <5>2. writes'[s][k] = Answer("open", j, TRUE)
                    BY <1>6, <5>1 DEF Says
                <5> QED
                    BY <3>2, <3>3, <5>2
            <4>2. j = i /\ ok /\ worker[i].act = "open"
                BY <4>1 DEF e, Answer
            <4> QED
                BY <1>2, <2>2, <4>2
        <3>4. CASE k \in 0 .. Len(q)
            <4>1. Says(s, j, k)
                <5>1. k = 0 \/ k \in 1 .. Len(q)
                    BY <3>2, <3>4
                <5> QED
                    BY <1>4, <1>6, <3>2, <5>1 DEF Says
            <4>2. CASE ClosedAfter(s, j, k)
                <5>1. PICK l \in 1 .. Len(q) : k < l /\ q[l] = Answer("close", j, TRUE)
                    BY <4>2 DEF ClosedAfter
                <5>2. l \in 1 .. Len(writes'[s]) /\ writes'[s][l] = q[l]
                    BY <3>2
                <5> QED
                    BY <5>1, <5>2 DEF ClosedAfter
            <4>3. CASE s \in opened[j]
                <5>1. CASE s \in opened'[j]
                    BY <5>1
                <5>2. CASE j = i /\ worker[i].act = "close" /\ ok
                    <6>1. e = Answer("close", j, TRUE)
                        BY <5>2 DEF e
                    <6>2. Len(q) + 1 \in 1 .. Len(writes'[s]) /\ k < Len(q) + 1
                        BY <3>2, <3>4
                    <6> QED
                        BY <3>2, <6>1, <6>2 DEF ClosedAfter
                <5> QED
                    BY <2>1, <4>3, <5>1, <5>2
            <4> QED
                BY <3>4, <4>1, <4>2, <4>3 DEF KnownInv, SaidIsOpen
        <3> QED
            BY <3>2, <3>3, <3>4
    <2>3. CASE ~(s = w /\ conn[s] = "open")
        <3>1. writes'[s] = q
            <4>1. writes' = writes \/ (w # s /\ writes' = [writes EXCEPT ![w] = Append(writes[w], e)])
                BY <1>2, <2>3 DEF Reply
            <4> HIDE DEF e
            <4> QED
                BY <4>1 DEF TypeOK
        <3>2. Says(s, j, k) /\ k \in 0 .. Len(q)
            BY <1>4, <1>6, <3>1 DEF Says
        <3>3. s # w
            <4>1. ASSUME s = w PROVE FALSE
                <5>1. uses[s] = {} /\ q = << >>
                    BY <2>3, <4>1 DEF KnownInv, OutHasNone
                <5>2. k = 0
                    BY <3>2, <5>1
                <5> QED
                    BY <3>2, <5>1, <5>2 DEF Says
            <4> QED
                BY <4>1
        <3>4. s \in opened[j] => s \in opened'[j]
            BY <1>2, <2>1, <3>3
        <3>5. ClosedAfter(s, j, k) => ClosedAfter(s, j, k)'
            BY <3>1 DEF ClosedAfter
        <3> QED
            BY <3>2, <3>4, <3>5 DEF KnownInv, SaidIsOpen
    <2> QED
        BY <2>2, <2>3
<1> QED
    BY <1>4, <1>5, <1>6 DEF KnownInv, SaidIsOpen

\* The recording of an answer that is written keeps KnownInv.
LEMMA KnownWritten ==
    ASSUME TypeOK, KnownInv, NEW s \in Sessions, Written(s)
    PROVE  KnownInv'
<1> DEFINE q == writes[s]
           a == Head(q)
<1>1. /\ UNCHANGED <<conn, ctls, opened>> /\ Live' = Live
      /\ writes' = [writes EXCEPT ![s] = Tail(q)] /\ q # << >> /\ q \in Seq(Ans)
    BY DEF Written, ctlVars, TypeOK, Ans, Live
<1>2. /\ a = q[1] /\ a \in Ans /\ Len(q) \in Nat /\ Len(Tail(q)) = Len(q) - 1
      /\ 1 \in 1 .. Len(q)
      /\ \A k \in 1 .. Len(Tail(q)) : Tail(q)[k] = q[k + 1]
    BY <1>1, TailFacts
<1>3. conn[s] = "open"
    BY <1>1 DEF KnownInv, OutHasNone
<1>4. uses \in [Sessions -> SUBSET Index]
    BY DEF TypeOK
<1>5. /\ \A t \in Sessions : t # s => uses'[t] = uses[t] /\ writes'[t] = writes[t]
      /\ writes'[s] = Tail(q)
    BY <1>1, <1>4 DEF Written, TypeOK
<1>6. ASSUME NEW i, i \in uses'[s]
      PROVE  \/ a = Answer("open", i, TRUE)
             \/ i \in uses[s] /\ a # Answer("close", i, TRUE)
    <2>1. CASE a.ok /\ a.act = "open"
        <3>1. uses' = [uses EXCEPT ![s] = uses[s] \cup {a.index}]
            BY <2>1 DEF Written
        <3>2. uses'[s] = uses[s] \cup {a.index}
            BY <1>4, <3>1
        <3>3. a = Answer("open", a.index, TRUE)
            BY <1>2, <2>1 DEF Ans, Answer
        <3>4. a # Answer("close", i, TRUE)
            BY <2>1 DEF Answer
        <3> QED
            BY <1>6, <3>2, <3>3, <3>4
    <2>2. CASE a.ok /\ a.act = "close"
        <3>1. uses' = [uses EXCEPT ![s] = uses[s] \ {a.index}]
            BY <2>2 DEF Written
        <3>2. uses'[s] = uses[s] \ {a.index}
            BY <1>4, <3>1
        <3> QED
            BY <1>6, <3>2 DEF Answer
    <2>3. CASE ~(a.ok /\ a.act = "open") /\ ~(a.ok /\ a.act = "close")
        <3>1. uses' = uses
            BY <2>3 DEF Written
        <3>2. a # Answer("close", i, TRUE)
            BY <2>3 DEF Answer
        <3> QED
            BY <1>6, <3>1, <3>2
    <2> QED
        BY <2>1, <2>2, <2>3
<1> HIDE DEF a
\* What is said after the write was said before it, one place later.
<1>7. ASSUME NEW i, NEW k \in 0 .. Len(Tail(q)), Says(s, i, k)'
      PROVE  \/ Says(s, i, k + 1) /\ k + 1 \in 1 .. Len(q)
             \/ k = 0 /\ Says(s, i, 0) /\ q[1] # Answer("close", i, TRUE)
    <2>1. CASE k = 0
        <3>1. i \in uses'[s]
            BY <1>7, <2>1 DEF Says
        <3>2. Says(s, i, 1) <=> q[1] = Answer("open", i, TRUE)
            BY DEF Says
        <3>3. Says(s, i, 0) <=> i \in uses[s]
            BY DEF Says
        <3>4. k + 1 = 1
            BY <2>1
        <3> QED
            BY <1>2, <1>6, <2>1, <3>1, <3>2, <3>3, <3>4
    <2>2. CASE k # 0
        <3>1. k \in 1 .. Len(Tail(q)) /\ k + 1 \in 1 .. Len(q) /\ k + 1 # 0
            BY <1>2, <2>2
        <3> QED
            BY <1>2, <1>5, <1>7, <2>2, <3>1 DEF Says
    <2> QED
        BY <2>1, <2>2
<1>8. ASSUME NEW i, NEW k \in 0 .. Len(Tail(q)), NEW l \in 1 .. Len(q), k + 1 < l,
             q[l] = Answer("close", i, TRUE)
      PROVE  ClosedAfter(s, i, k)'
    <2>1. l - 1 \in 1 .. Len(Tail(q)) /\ k < l - 1 /\ (l - 1) + 1 = l
        BY <1>2, <1>8
    <2>2. Tail(q)[l - 1] = q[l]
        BY <1>2, <2>1
    <2> QED
        BY <1>5, <1>8, <2>1, <2>2 DEF ClosedAfter
<1>9. ASSUME NEW i \in Live, NEW k \in 0 .. Len(Tail(q)), Says(s, i, k)'
      PROVE  s \in opened[i] \/ ClosedAfter(s, i, k)'
    <2>1. CASE Says(s, i, k + 1) /\ k + 1 \in 1 .. Len(q)
        <3>1. s \in opened[i] \/ ClosedAfter(s, i, k + 1)
            BY <2>1 DEF KnownInv, SaidIsOpen
        <3> QED
            BY <1>8, <3>1 DEF ClosedAfter
    <2>2. CASE k = 0 /\ Says(s, i, 0) /\ q[1] # Answer("close", i, TRUE)
        <3>1. s \in opened[i] \/ ClosedAfter(s, i, 0)
            BY <1>2, <2>2 DEF KnownInv, SaidIsOpen
        <3>2. ASSUME NEW l \in 1 .. Len(q), q[l] = Answer("close", i, TRUE)
              PROVE  ClosedAfter(s, i, k)'
            <4>1. l # 1
                BY <2>2, <3>2
            <4>2. k + 1 < l
                BY <2>2, <4>1
            <4> QED
                BY <1>8, <3>2, <4>2
        <3> QED
            BY <3>1, <3>2 DEF ClosedAfter
    <2> QED
        BY <1>7, <1>9, <2>1, <2>2
<1>10. ASSUME NEW t \in Sessions, NEW i \in Live, NEW k \in 0 .. Len(writes'[t]), Says(t, i, k)'
       PROVE  t \in opened'[i] \/ ClosedAfter(t, i, k)'
    <2>1. CASE t = s
        BY <1>1, <1>5, <1>9, <1>10, <2>1
    <2>2. CASE t # s
        <3>1. Says(t, i, k) /\ k \in 0 .. Len(writes[t])
            BY <1>5, <1>10, <2>2 DEF Says
        <3>2. ClosedAfter(t, i, k) => ClosedAfter(t, i, k)'
            BY <1>5, <2>2 DEF ClosedAfter
        <3> QED
            BY <1>1, <3>1, <3>2 DEF KnownInv, SaidIsOpen
    <2> QED
        BY <2>1, <2>2
<1>11. OutHasNone'
    BY <1>1, <1>3, <1>5 DEF KnownInv, OutHasNone
<1> QED
    BY <1>1, <1>10, <1>11 DEF KnownInv, SaidIsOpen

\* The steps of the clients and of the writes to them keep KnownInv.
LEMMA KnownSession ==
    ASSUME TypeOK, KnownInv, NEW s \in Sessions, Connect(s) \/ Ask(s) \/ Leave(s) \/ Written(s)
    PROVE  KnownInv'
<1>1. CASE Connect(s)
    <2>1. /\ conn[s] = "none" /\ conn' = [conn EXCEPT ![s] = "open"]
          /\ UNCHANGED <<uses, writes, ctls, opened>>
        BY <1>1 DEF Connect, ctlVars
    <2>2. \A a, i, k : (Says(a, i, k)' <=> Says(a, i, k)) /\ (ClosedAfter(a, i, k)' <=> ClosedAfter(a, i, k))
        BY <2>1 DEF Says, ClosedAfter
    <2>3. OutHasNone'
        BY <2>1 DEF KnownInv, OutHasNone, TypeOK
    <2>4. Live' = Live
        BY <2>1 DEF Live
    <2> QED
        BY <2>1, <2>2, <2>3, <2>4 DEF KnownInv, SaidIsOpen
<1>2. CASE Ask(s)
    BY <1>2, KnownFrame DEF Ask, Live
<1>3. CASE Leave(s)
    <2>1. /\ UNCHANGED <<ctls, opened>> /\ Live' = Live
          /\ conn' = [conn EXCEPT ![s] = "closed"] /\ uses' = [uses EXCEPT ![s] = {}]
          /\ writes' = [writes EXCEPT ![s] = << >>]
        BY <1>3 DEF Leave, Live
    <2>2. uses'[s] = {} /\ writes'[s] = << >> /\ conn'[s] = "closed"
        BY <2>1 DEF TypeOK
    <2>3. \A t \in Sessions : t # s => conn'[t] = conn[t] /\ uses'[t] = uses[t] /\ writes'[t] = writes[t]
        BY <2>1 DEF TypeOK
    <2>4. OutHasNone'
        BY <2>2, <2>3 DEF KnownInv, OutHasNone
    <2>5. \A i, k : k \in 0 .. Len(writes'[s]) => ~Says(s, i, k)'
        <3> SUFFICES ASSUME NEW i, NEW k \in 0 .. Len(writes'[s]), Says(s, i, k)' PROVE FALSE
            OBVIOUS
        <3>1. k = 0
            BY <2>2
        <3> QED
            BY <2>2, <3>1 DEF Says
    <2>6. ASSUME NEW t \in Sessions, t # s, NEW i, NEW k
          PROVE  (Says(t, i, k)' <=> Says(t, i, k)) /\ (ClosedAfter(t, i, k)' <=> ClosedAfter(t, i, k))
        BY <2>3, <2>6 DEF Says, ClosedAfter
    <2>7. SaidIsOpen'
        BY <2>1, <2>3, <2>5, <2>6 DEF KnownInv, SaidIsOpen
    <2> QED
        BY <2>4, <2>7 DEF KnownInv
<1> QED
    BY <1>1, <1>2, <1>3, KnownWritten

\* A thread that waits for the driver is at a read or a write.
LEMMA WaitStep ==
    ASSUME TypeOK, WaitIsIo, [Next]_vars
    PROVE  WaitIsIo'
<1>1. ASSUME worker' = worker PROVE WaitIsIo'
    BY <1>1 DEF WaitIsIo
<1>2. ASSUME NEW i \in Index, worker' = [worker EXCEPT ![i] = Idle] PROVE WaitIsIo'
    BY <1>2 DEF WaitIsIo, Idle, TypeOK
<1>3. CASE Scan
    <2> SUFFICES ASSUME NEW i \in Index
                 PROVE  (worker[i].pc \in {"wait", "lost"} => worker[i].act = "io")'
        BY DEF WaitIsIo
    <2>1. \/ worker'[i] = worker[i]
          \/ worker[i].pc = "wait" /\ worker'[i] = [worker[i] EXCEPT !.pc = "lost"]
        BY <1>3 DEF Scan
    <2>2. CASE worker'[i] = worker[i]
        BY <2>2 DEF WaitIsIo
    <2>3. CASE worker[i].pc = "wait" /\ worker'[i] = [worker[i] EXCEPT !.pc = "lost"]
        <3>1. worker[i] \in [pc : {"lookup", "wait", "lost"}, act : Acts, of : Sessions]
            BY <2>3 DEF TypeOK, Idle
        <3> QED
            BY <2>3, <3>1 DEF WaitIsIo
    <2> QED
        BY <2>1, <2>2, <2>3
<1>4. ASSUME NEW i \in Index, Take(i) PROVE WaitIsIo'
    <2>1. \A j \in Index : worker'[j] = worker[j] \/ worker'[j].pc = "lookup"
        BY <1>4 DEF Take, TypeOK
    <2> QED
        BY <2>1 DEF WaitIsIo
<1>5. ASSUME NEW i \in Index, StartIo(i) PROVE WaitIsIo'
    <2>1. CASE worker' = [worker EXCEPT ![i].pc = "wait"]
        <3>1. worker[i] \in [pc : {"lookup", "wait", "lost"}, act : Acts, of : Sessions]
            BY <1>5 DEF StartIo, TypeOK, Idle
        <3>2. \A j \in Index : worker'[j].act = worker[j].act /\ (j # i => worker'[j] = worker[j])
            BY <2>1, <3>1 DEF TypeOK
        <3> QED
            BY <1>5, <3>2 DEF StartIo, WaitIsIo
    <2>2. CASE Reply(i, FALSE)
        BY <1>2, <2>2 DEF Reply
    <2> QED
        BY <1>5, <2>1, <2>2 DEF StartIo
<1>6. ASSUME NEW i \in Index, Open(i) \/ CalledBack(i) \/ Close(i) PROVE WaitIsIo'
    BY <1>2, <1>6 DEF Open, CalledBack, Close, Reply
<1>7. CASE UNCHANGED vars \/ Notify \/ EraseCtl \/ InsertCtl
    BY <1>1, <1>7 DEF vars, ctlVars, Notify, EraseCtl, InsertCtl
<1>8. ASSUME NEW d \in Devices,
             PlugIn(d) \/ PlugOut(d) \/ Glitch(d) \/ ConsiderRemoved(d) \/ CancelConsidered(d)
      PROVE  WaitIsIo'
    BY <1>1, <1>8 DEF PlugIn, PlugOut, Glitch, ConsiderRemoved, CancelConsidered, ctlVars
<1>9. ASSUME NEW s \in Sessions, Connect(s) \/ Ask(s) \/ Leave(s) \/ Written(s)
      PROVE  WaitIsIo'
    BY <1>1, <1>9 DEF Connect, Ask, Leave, Written, ctlVars
<1> QED
    BY <1>3, <1>4, <1>5, <1>6, <1>7, <1>8, <1>9 DEF Next, Plug, Work

\* It is so in every state.
LEMMA IoWaits == Spec => []WaitIsIo
<1>1. Init => WaitIsIo
    BY DEF Init, WaitIsIo, Idle
<1> QED
    BY <1>1, WaitStep, TypesInvariant, PTL DEF Spec

\* The threads of the controllers keep KnownInv.
LEMMA KnownWork ==
    ASSUME TypeOK, WaitIsIo, KnownInv, NEW i \in Index, Work(i)
    PROVE  KnownInv'
<1>1. CASE Take(i)
    BY <1>1, KnownFrame DEF Take, Live, sesVars
<1>2. CASE Open(i)
    <2>1. worker[i] # Idle /\ worker[i].of \in Sessions
        BY <1>2 DEF Open, Idle, TypeOK
    <2>2. PICK ok \in BOOLEAN :
            /\ Reply(i, ok)
            /\ opened' = IF ok THEN [opened EXCEPT ![i] = @ \cup {worker[i].of}] ELSE opened
        BY <1>2 DEF Open
    <2>3. \A j \in Index : opened'[j] = IF ok /\ j = i THEN opened[j] \cup {worker[i].of} ELSE opened[j]
        BY <2>2 DEF TypeOK
    <2> QED
        BY <1>2, <2>1, <2>2, <2>3, KnownReply DEF Open
<1>3. CASE StartIo(i)
    <2>1. worker[i] # Idle /\ worker[i].act = "io" /\ UNCHANGED <<ctls, opened>>
        BY <1>3 DEF StartIo, Idle
    <2>2. CASE UNCHANGED sesVars
        BY <2>1, <2>2, KnownFrame DEF Live, sesVars
    <2>3. CASE Reply(i, FALSE)
        BY <2>1, <2>3, KnownReply
    <2> QED
        BY <1>3, <2>2, <2>3 DEF StartIo
<1>4. CASE CalledBack(i)
    <2>1. worker[i] # Idle /\ worker[i].act = "io"
        BY <1>4 DEF CalledBack, Idle, WaitIsIo
    <2>2. UNCHANGED <<ctls, opened>> /\ Reply(i, TRUE)
        BY <1>4 DEF CalledBack
    <2> QED
        BY <2>1, <2>2, KnownReply
<1>5. CASE Close(i)
    <2>1. worker[i] # Idle /\ worker[i].act = "close"
        BY <1>5 DEF Close, Idle
    <2>2. PICK ok \in BOOLEAN : Reply(i, ok) /\ (ok <=> worker[i].of \in opened[i])
        <3>1. Reply(i, worker[i].of \in opened[i])
            BY <1>5 DEF Close
        <3>2. (worker[i].of \in opened[i]) \in BOOLEAN
            OBVIOUS
        <3> QED
            BY <3>1, <3>2
    <2>3. ctls' = ctls
        BY <1>5 DEF Close
    <2>4. \A j \in Index : opened'[j] = IF j = i THEN opened[j] \ {worker[i].of} ELSE opened[j]
        BY <1>5 DEF Close, TypeOK
    <2> QED
        BY <2>1, <2>2, <2>3, <2>4, KnownReply
<1> QED
    BY <1>1, <1>2, <1>3, <1>4, <1>5 DEF Work

\* KnownInv is inductive.
LEMMA KnownStep ==
    ASSUME TypeOK, WaitIsIo, KnownInv, FreshIndex, [Next]_vars
    PROVE  KnownInv'
<1>1. CASE Scan \/ Notify
    BY <1>1, KnownFrame DEF Scan, Notify, Live, sesVars, ctlVars
<1>2. CASE EraseCtl
    <2>1. \A i \in Live' : i \in Live /\ opened'[i] = opened[i]
        <3>1. CASE UNCHANGED <<ctls, opened>>
            BY <3>1 DEF Live
        <3>2. ASSUME NEW n \in plug.todo, ctls' = [ctls EXCEPT ![n] = NoDevice],
                     opened' = [opened EXCEPT ![n] = {}]
              PROVE  \A i \in Live' : i \in Live /\ opened'[i] = opened[i]
            BY <3>2 DEF Live, TypeOK
        <3> QED
            BY <1>2, <3>1, <3>2, EraseSteps
    <2> QED
        BY <1>2, <2>1, KnownFrame DEF EraseCtl, sesVars
<1>3. CASE InsertCtl
    <2>1. \A i \in Live' : (i \in Live /\ opened'[i] = opened[i]) \/ Unused(i)
        <3>1. CASE UNCHANGED <<ctls, opened>>
            BY <3>1 DEF Live
        <3>2. ASSUME NEW d \in plug.left, ctls' = [ctls EXCEPT ![next] = d],
                     opened' = [opened EXCEPT ![next] = {}]
              PROVE  \A i \in Live' : (i \in Live /\ opened'[i] = opened[i]) \/ Unused(i)
            <4>1. Unused(next)
                BY <1>3, <3>2 DEF InsertCtl, FreshIndex
            <4> QED
                BY <3>2, <4>1 DEF Live, TypeOK
        <3> QED
            BY <1>3, <3>1, <3>2 DEF InsertCtl
    <2> QED
        BY <1>3, <2>1, KnownFrame DEF InsertCtl, sesVars
<1>4. ASSUME NEW d \in Devices,
             PlugIn(d) \/ PlugOut(d) \/ Glitch(d) \/ ConsiderRemoved(d) \/ CancelConsidered(d)
      PROVE  KnownInv'
    <2>1. UNCHANGED <<ctlVars, sesVars>>
        BY <1>4 DEF PlugIn, PlugOut, Glitch, ConsiderRemoved, CancelConsidered
    <2> QED
        BY <2>1, KnownFrame DEF ctlVars, sesVars, Live
<1>5. CASE UNCHANGED vars
    BY <1>5, KnownFrame DEF vars, ctlVars, sesVars, Live
<1> QED
    BY <1>1, <1>2, <1>3, <1>4, <1>5, KnownSession, KnownWork DEF Next, Plug

\* A controller that a session is recorded to use has it open, or has closed it
\* and the answer is on its way, for any number of devices, sessions, requests
\* and plugs, also for sessions that leave at any time: as long as an index that
\* comes round is used no more, a recorded one never comes to mean another
\* device than the one that was opened.
THEOREM KeepsMeaning == Spec /\ []FreshIndex => []UsesOpened
<1>1. Init => KnownInv
    <2> SUFFICES ASSUME Init PROVE KnownInv
        OBVIOUS
    <2>1. Live = {} /\ \A s \in Sessions : uses[s] = {} /\ writes[s] = << >>
        BY DEF Init, Live
    <2> QED
        BY <2>1 DEF KnownInv, OutHasNone, SaidIsOpen
<1>2. TypeOK /\ WaitIsIo /\ KnownInv /\ FreshIndex /\ [Next]_vars => KnownInv'
    BY KnownStep
<1>3. TypeOK /\ KnownInv => UsesOpened
    <2> SUFFICES ASSUME TypeOK, KnownInv, NEW s \in Sessions, NEW i \in uses[s] \cap Live
                 PROVE  s \in opened[i] \/ ClosedAfter(s, i, 0)
        BY DEF UsesOpened, ClosedAfter
    <2>1. 0 \in 0 .. Len(writes[s])
        BY DEF TypeOK
    <2>2. Says(s, i, 0)
        BY DEF Says
    <2> QED
        BY <2>1, <2>2 DEF KnownInv, SaidIsOpen
<1> QED
    BY <1>1, <1>2, <1>3, TypesInvariant, IoWaits, PTL DEF Spec
-----------------------------------------------------------------------------
(* Indexes do not come round, if there is one for each device and for each  *)
(* time that something happens to one.                                      *)

Roomy == IsFiniteSet(Devices) /\ Cardinality(Devices) + MaxEvents <= MaxIndex

\* How many controllers are still to be made at most: for the devices that are
\* left, those found by the next scan, those let go, those broken, and those of
\* what is still to happen.
ToCome ==
    Cardinality(Left) + Cardinality(Present \ listed.cur) + Cardinality(considered)
      + Cardinality(broken) + (MaxEvents - events)

\* No more than the indexes not yet handed out, which are not used yet.
RoomInv ==
    \/ ToCome = 0
    \/ /\ ToCome <= MaxIndex + 1 - next
       /\ \A i \in next .. MaxIndex : Unused(i)

\* Sets of devices are finite.
LEMMA Few ==
    ASSUME Roomy, NEW S \in SUBSET Devices
    PROVE  IsFiniteSet(S) /\ Cardinality(S) \in Nat
    BY FS_Subset, FS_CardinalityType DEF Roomy

\* A subset has no more elements, and a set with one more at most one more.
LEMMA FewMore ==
    ASSUME Roomy, NEW S \in SUBSET Devices, NEW T \in SUBSET Devices
    PROVE  /\ T \subseteq S => Cardinality(T) <= Cardinality(S)
           /\ \A d \in Devices : T \subseteq S \cup {d} => Cardinality(T) <= Cardinality(S) + 1
           /\ \A d \in S : T = S \ {d} => Cardinality(T) = Cardinality(S) - 1
<1>1. IsFiniteSet(S) /\ Cardinality(S) \in Nat /\ Cardinality(T) \in Nat
    BY Few
<1>2. T \subseteq S => Cardinality(T) <= Cardinality(S)
    BY <1>1, FS_Subset
<1>3. ASSUME NEW d \in Devices, T \subseteq S \cup {d}
      PROVE  Cardinality(T) <= Cardinality(S) + 1
    <2>1. /\ IsFiniteSet(S \cup {d})
          /\ Cardinality(S \cup {d}) = IF d \in S THEN Cardinality(S) ELSE Cardinality(S) + 1
        BY <1>1, FS_AddElement
    <2>2. Cardinality(T) <= Cardinality(S \cup {d})
        BY <1>3, <2>1, FS_Subset
    <2> QED
        BY <1>1, <2>1, <2>2
<1>4. \A d \in S : T = S \ {d} => Cardinality(T) = Cardinality(S) - 1
    BY <1>1, FS_RemoveElement
<1> QED
    BY <1>2, <1>3, <1>4

\* The terms of ToCome are numbers.
LEMMA ToComeTerms ==
    ASSUME Roomy, TypeOK
    PROVE  /\ Left \in SUBSET Devices /\ Cardinality(Left) \in Nat
           /\ Present \in SUBSET Devices /\ Present \ listed.cur \in SUBSET Devices
           /\ Cardinality(Present \ listed.cur) \in Nat
           /\ Cardinality(considered) \in Nat /\ Cardinality(broken) \in Nat
           /\ events \in Nat /\ MaxEvents \in Nat /\ events <= MaxEvents
           /\ ToCome \in Nat
<1>1. Left \in SUBSET Devices /\ Present \in SUBSET Devices
      /\ considered \in SUBSET Devices /\ broken \in SUBSET Devices
    BY DEF TypeOK, Left, Present
<1>2. Cardinality(Left) \in Nat /\ Cardinality(considered) \in Nat /\ Cardinality(broken) \in Nat
    BY <1>1, Few
<1>3. Present \ listed.cur \in SUBSET Devices
    BY <1>1
<1>4. Cardinality(Present \ listed.cur) \in Nat
    BY <1>3, Few
<1>5. events \in Nat /\ MaxEvents \in Nat /\ events <= MaxEvents
    BY ServerAssumption DEF TypeOK
<1> QED
    BY <1>1, <1>2, <1>3, <1>4, <1>5 DEF ToCome

\* What happens to a device brings at most one more controller.
LEMMA DeviceRoom ==
    ASSUME Roomy, TypeOK, TypeOK', NEW d \in Devices,
           PlugIn(d) \/ PlugOut(d) \/ Glitch(d) \/ ConsiderRemoved(d) \/ CancelConsidered(d)
    PROVE  ToCome' <= ToCome
<1> DEFINE new == Present \ listed.cur
<1>1. listed' = listed /\ Left' = Left
    BY DEF PlugIn, PlugOut, Glitch, ConsiderRemoved, CancelConsidered, libVars, Left
<1>2. /\ Cardinality(Left) \in Nat /\ new \in SUBSET Devices /\ Cardinality(new) \in Nat
      /\ Cardinality(considered) \in Nat /\ Cardinality(broken) \in Nat
      /\ events \in Nat /\ MaxEvents \in Nat
    BY ToComeTerms
<1>3. /\ new' \in SUBSET Devices /\ Cardinality(new') \in Nat
      /\ Cardinality(considered') \in Nat /\ Cardinality(broken') \in Nat
    <2>1. Present' \in SUBSET Devices /\ considered' \in SUBSET Devices /\ broken' \in SUBSET Devices
        BY DEF TypeOK, Present
    <2> QED
        BY <2>1, Few
<1>4. considered \in SUBSET Devices /\ broken \in SUBSET Devices
      /\ considered' \in SUBSET Devices /\ broken' \in SUBSET Devices
    BY DEF TypeOK
<1>5. Cardinality(new') + Cardinality(considered') + Cardinality(broken') - events'
        <= Cardinality(new) + Cardinality(considered) + Cardinality(broken) - events
    <2>1. CASE PlugIn(d)
        <3>1. new' \subseteq new \cup {d} /\ UNCHANGED <<considered, broken>> /\ events' = events + 1
            BY <1>1, <2>1 DEF PlugIn, Present, Happens
        <3>2. Cardinality(new') <= Cardinality(new) + 1
            BY <1>2, <1>3, <3>1, FewMore
        <3> HIDE DEF new
        <3> QED
            BY <1>2, <1>3, <3>1, <3>2
    <2>2. CASE PlugOut(d)
        <3>1. new' \subseteq new /\ UNCHANGED <<considered, broken>> /\ events' = events + 1
            BY <1>1, <2>2 DEF PlugOut, Present, Happens
        <3>2. Cardinality(new') <= Cardinality(new)
            BY <1>2, <1>3, <3>1, FewMore
        <3> HIDE DEF new
        <3> QED
            BY <1>2, <1>3, <3>1, <3>2
    <2>3. CASE Glitch(d)
        <3>1. new' \subseteq new /\ considered' = considered /\ broken' = broken \cup {d}
              /\ events' = events + 1
            BY <1>1, <2>3 DEF Glitch, Present, Happens
        <3>2. Cardinality(new') <= Cardinality(new)
            BY <1>2, <1>3, <3>1, FewMore
        <3>3. Cardinality(broken') <= Cardinality(broken) + 1
            BY <1>4, <3>1, FewMore
        <3> HIDE DEF new
        <3> QED
            BY <1>2, <1>3, <3>1, <3>2, <3>3
    <2>4. CASE ConsiderRemoved(d)
        <3>1. new' \subseteq new /\ considered' = considered \cup {d} /\ broken' = broken
              /\ events' = events + 1
            BY <1>1, <2>4 DEF ConsiderRemoved, Present, Happens
        <3>2. Cardinality(new') <= Cardinality(new)
            BY <1>2, <1>3, <3>1, FewMore
        <3>3. Cardinality(considered') <= Cardinality(considered) + 1
            BY <1>4, <3>1, FewMore
        <3> HIDE DEF new
        <3> QED
            BY <1>2, <1>3, <3>1, <3>2, <3>3
    <2>5. CASE CancelConsidered(d)
        <3>1. /\ new' \subseteq new \cup {d} /\ d \in considered /\ considered' = considered \ {d}
              /\ UNCHANGED <<broken, events>>
            BY <1>1, <2>5 DEF CancelConsidered, Present
        <3>2. Cardinality(new') <= Cardinality(new) + 1
            BY <1>2, <1>3, <3>1, FewMore
        <3>3. Cardinality(considered') = Cardinality(considered) - 1
            BY <1>4, <3>1, FewMore
        <3> HIDE DEF new
        <3> QED
            BY <1>2, <1>3, <3>1, <3>2, <3>3
    <2> QED
        BY <2>1, <2>2, <2>3, <2>4, <2>5
<1>6. events' \in Nat
    BY ServerAssumption DEF TypeOK
<1> HIDE DEF new
<1>7. ToCome = Cardinality(Left) + Cardinality(new) + Cardinality(considered)
                 + Cardinality(broken) + (MaxEvents - events)
    BY DEF ToCome, new
<1>8. ToCome' = Cardinality(Left) + Cardinality(new') + Cardinality(considered')
                  + Cardinality(broken') + (MaxEvents - events')
    BY <1>1 DEF ToCome, new
<1> QED
    BY <1>2, <1>3, <1>5, <1>6, <1>7, <1>8

\* A scan brings back the devices whose broken instance it drops.
LEMMA ScanRoom ==
    ASSUME Roomy, TypeOK, TypeOK', Scan
    PROVE  ToCome' <= ToCome
<1>1. PICK gone \in SUBSET Devices : gone = listed.cur \ Present
    BY DEF TypeOK
<1>2. /\ UNCHANGED <<usb, considered, events>> /\ broken' = broken \ gone
      /\ listed'.cur = Present /\ Left' = Present \ listed.cur
    BY <1>1 DEF Scan, Left
<1>3. Present' \ listed'.cur \subseteq broken \cap gone
    BY <1>1, <1>2 DEF Present, TypeOK
<1>4. IsFiniteSet(broken) /\ broken \in SUBSET Devices
    BY Few DEF TypeOK
<1>5. Cardinality(broken \ gone) = Cardinality(broken) - Cardinality(broken \cap gone)
    BY <1>4, FS_Difference
<1>6. broken \cap gone \in SUBSET Devices
    BY <1>4
<1>7. Cardinality(broken \cap gone) \in Nat
    BY <1>6, Few
<1>8. Cardinality(Present' \ listed'.cur) <= Cardinality(broken \cap gone)
    BY <1>3, <1>6, FewMore
<1>9. Cardinality(Present' \ listed'.cur) \in Nat
    BY <1>3, <1>6, Few
<1>10. /\ Cardinality(Left) \in Nat /\ Cardinality(Present \ listed.cur) \in Nat
       /\ Cardinality(considered) \in Nat /\ Cardinality(broken) \in Nat
       /\ events \in Nat /\ MaxEvents \in Nat
    BY ToComeTerms
<1>11. ToCome' = Cardinality(Present \ listed.cur) + Cardinality(Present' \ listed'.cur)
                   + Cardinality(considered) + (Cardinality(broken) - Cardinality(broken \cap gone))
                   + (MaxEvents - events)
    BY <1>2, <1>5 DEF ToCome
<1> QED
    BY <1>7, <1>8, <1>9, <1>10, <1>11 DEF ToCome

\* A step that leaves the devices alone changes what is left only.
LEMMA LeftRoom ==
    ASSUME Roomy, TypeOK, UNCHANGED <<usbVars, listed>>,
           Left' = Left \/ \E d \in Left : Left' = Left \ {d}
    PROVE  ToCome' = IF Left' = Left THEN ToCome ELSE ToCome - 1
<1>1. Present' = Present
    BY DEF Present, usbVars
<1>2. Left \in SUBSET Devices /\ Cardinality(Left) \in Nat /\ Cardinality(Present \ listed.cur) \in Nat
      /\ Cardinality(considered) \in Nat /\ Cardinality(broken) \in Nat
      /\ events \in Nat /\ MaxEvents \in Nat
    BY ToComeTerms
<1>3. ToCome' = Cardinality(Left') + Cardinality(Present \ listed.cur) + Cardinality(considered)
                  + Cardinality(broken) + (MaxEvents - events)
    BY <1>1 DEF ToCome, usbVars
<1>4. CASE Left' = Left
    BY <1>3, <1>4 DEF ToCome
<1>5. ASSUME NEW d \in Left, Left' = Left \ {d}
      PROVE  ToCome' = ToCome - 1 /\ Left' # Left
    <2>1. Cardinality(Left') = Cardinality(Left) - 1
        <3>1. Left' \in SUBSET Devices
            BY <1>2, <1>5
        <3> QED
            BY <1>2, <1>5, <3>1, FewMore
    <2> QED
        BY <1>2, <1>3, <1>5, <2>1 DEF ToCome
<1> QED
    BY <1>4, <1>5
\* No step of the controllers or of the plug in and out thread brings more; a
\* controller that is made is one less to come.
LEMMA RoomShrinks ==
    ASSUME Roomy, TypeOK, TypeOK', [Next]_vars
    PROVE  /\ ToCome' <= ToCome
           /\ InsertCtl /\ plug.left # {} => ToCome' = ToCome - 1
<1>0. ToCome \in Nat
    BY ToComeTerms
<1>1. ASSUME UNCHANGED <<usbVars, listed>>, Left' = Left PROVE ToCome' = ToCome
    BY <1>1, LeftRoom
<1>2. CASE Scan
    BY <1>2, ScanRoom DEF Scan, InsertCtl
<1>3. CASE Notify
    <2>1. UNCHANGED <<usbVars, listed>> /\ Left' = Left /\ ~InsertCtl
        BY <1>3 DEF Notify, Left, InsertCtl
    <2> QED
        BY <1>0, <1>1, <2>1
<1>4. CASE EraseCtl
    <2>1. plug.pc = "erase" /\ UNCHANGED <<usbVars, listed>> /\ ~InsertCtl
        BY <1>4 DEF EraseCtl, InsertCtl
    <2>2. plug'.pc # "notify" /\ plug'.left = plug.left
        BY <1>4, <2>1, EraseSteps DEF TypeOK
    <2>3. Left' = Left
        BY <2>1, <2>2 DEF Left
    <2> QED
        BY <1>0, <1>1, <2>1, <2>3
<1>5. CASE InsertCtl
    <2>1. plug.pc = "insert" /\ UNCHANGED <<usbVars, listed>>
        BY <1>5 DEF InsertCtl
    <2>2. CASE plug.left = {}
        <3>1. plug' = [plug EXCEPT !.pc = "idle"]
            BY <1>5, <2>2 DEF InsertCtl
        <3>2. Left' = Left
            BY <2>1, <3>1 DEF Left, TypeOK
        <3> QED
            BY <1>0, <1>1, <2>1, <2>2, <3>2
    <2>3. CASE plug.left # {}
        <3>1. PICK d \in plug.left : plug' = [plug EXCEPT !.left = @ \ {d}]
            BY <1>5, <2>3 DEF InsertCtl
        <3>2. d \in Left /\ Left' = Left \ {d}
            BY <2>1, <3>1 DEF Left, TypeOK
        <3>3. ToCome' = ToCome - 1
            BY <2>1, <3>2, LeftRoom
        <3> QED
            BY <1>0, <3>3
    <2> QED
        BY <2>2, <2>3
<1>6. ASSUME NEW d \in Devices,
             PlugIn(d) \/ PlugOut(d) \/ Glitch(d) \/ ConsiderRemoved(d) \/ CancelConsidered(d)
      PROVE  ToCome' <= ToCome /\ UNCHANGED plug
    BY <1>6, DeviceRoom DEF PlugIn, PlugOut, Glitch, ConsiderRemoved, CancelConsidered, libVars
<1>7. CASE UNCHANGED <<usbVars, libVars>>
    <2>1. UNCHANGED <<usbVars, listed, plug>> /\ Left' = Left
        BY <1>7 DEF libVars, Left
    <2> QED
        BY <1>0, <1>1, <1>5, <2>1
<1>8. ASSUME NEW t \in Sessions, Connect(t) \/ Ask(t) \/ Leave(t) \/ Written(t)
      PROVE  UNCHANGED <<usbVars, libVars>>
    BY <1>8 DEF Connect, Ask, Leave, Written
<1>9. ASSUME NEW j \in Index, Work(j) PROVE UNCHANGED <<usbVars, libVars>>
    BY <1>9 DEF Work, Take, Open, StartIo, CalledBack, Close
<1>10. CASE UNCHANGED vars
    BY <1>7, <1>10 DEF vars
<1> QED
    BY <1>2, <1>3, <1>4, <1>5, <1>6, <1>7, <1>8, <1>9, <1>10 DEF Next, Plug

\* What is not used is not used by a reply to another's request.
LEMMA ReplyUnused ==
    ASSUME TypeOK, NEW j \in Index, worker[j] # Idle, NEW ok, Reply(j, ok), ctls' = ctls,
           NEW i \in Index, Unused(i)
    PROVE  Unused(i)'
<1> DEFINE e == Answer(worker[j].act, j, ok)
<1>1. j # i /\ e.index = j
    BY DEF Unused, Answer
<1>2. uses' = uses /\ worker'[i] = worker[i]
    BY <1>1 DEF Reply, TypeOK
<1>3. ASSUME NEW s \in Sessions, NEW k \in 1 .. Len(writes'[s])
      PROVE  writes'[s][k].index # i
    <2>1. writes' = writes
          \/ writes' = [writes EXCEPT ![worker[j].of] = Append(writes[worker[j].of], e)]
        BY DEF Reply
    <2> HIDE DEF e
    <2>2. writes'[s] = writes[s] \/ writes'[s] = Append(writes[s], e)
        BY <2>1 DEF TypeOK
    <2>3. CASE writes'[s] = writes[s]
        BY <1>3, <2>3 DEF Unused
    <2>4. CASE writes'[s] = Append(writes[s], e)
        <3>1. writes[s] \in Seq(Ans)
            BY DEF TypeOK, Ans
        <3>2. \/ k \in 1 .. Len(writes[s]) /\ writes'[s][k] = writes[s][k]
              \/ writes'[s][k] = e
            BY <1>3, <2>4, <3>1
        <3> QED
            BY <1>1, <3>2 DEF Unused
    <2> QED
        BY <2>2, <2>3, <2>4
<1> QED
    BY <1>2, <1>3 DEF Unused

\* An index that is used by nobody gets a user only when it is handed out.
LEMMA UnusedStays ==
    ASSUME TypeOK, [Next]_vars, NEW i \in Index, Unused(i)
    PROVE  Unused(i)' \/ (InsertCtl /\ plug.left # {} /\ i = next)
<1>1. i \notin Live /\ worker[i] = Idle
    BY DEF Unused, Live
<1>2. ASSUME ctls'[i] = NoDevice, worker'[i] = Idle, UNCHANGED <<uses, writes>>
      PROVE  Unused(i)'
    BY <1>2 DEF Unused
<1>3. CASE Scan
    <2>1. worker'[i] = Idle
        BY <1>1, <1>3 DEF Scan, Idle
    <2> QED
        BY <1>2, <1>3, <2>1 DEF Scan, Unused, sesVars
<1>4. CASE Notify \/ UNCHANGED vars
    BY <1>2, <1>4 DEF Notify, Unused, vars, ctlVars, sesVars
<1>5. CASE EraseCtl
    <2>1. ctls'[i] = NoDevice
        BY <1>5, EraseSteps DEF Unused, TypeOK
    <2> QED
        BY <1>2, <1>5, <2>1 DEF EraseCtl, Unused, sesVars
<1>6. CASE InsertCtl
    <2>1. CASE plug.left = {} \/ i # next
        <3>1. ctls'[i] = NoDevice
            BY <1>6, <2>1 DEF InsertCtl, Unused, TypeOK
        <3> QED
            BY <1>2, <1>6, <3>1 DEF InsertCtl, Unused, sesVars
    <2> QED
        BY <1>6, <2>1
<1>7. ASSUME NEW d \in Devices,
             PlugIn(d) \/ PlugOut(d) \/ Glitch(d) \/ ConsiderRemoved(d) \/ CancelConsidered(d)
      PROVE  Unused(i)'
    <2>1. UNCHANGED <<ctlVars, sesVars>>
        BY <1>7 DEF PlugIn, PlugOut, Glitch, ConsiderRemoved, CancelConsidered
    <2> QED
        BY <1>2, <2>1 DEF Unused, ctlVars, sesVars
<1>8. ASSUME NEW t \in Sessions, Connect(t) \/ Ask(t)
      PROVE  Unused(i)'
    BY <1>2, <1>8 DEF Connect, Ask, Unused, ctlVars
<1>9. ASSUME NEW t \in Sessions, Leave(t)
      PROVE  Unused(i)'
    <2>1. /\ UNCHANGED <<ctls, worker>> /\ uses' = [uses EXCEPT ![t] = {}]
          /\ writes' = [writes EXCEPT ![t] = << >>]
        BY <1>9 DEF Leave
    <2>2. ASSUME NEW s \in Sessions
          PROVE  i \notin uses'[s] /\ \A k \in 1 .. Len(writes'[s]) : writes'[s][k].index # i
        <3>1. CASE s = t
            BY <2>1, <3>1 DEF TypeOK
        <3>2. CASE s # t
            <4>1. uses'[s] = uses[s] /\ writes'[s] = writes[s]
                BY <2>1, <3>2 DEF TypeOK
            <4> QED
                BY <4>1 DEF Unused
        <3> QED
            BY <3>1, <3>2
    <2> QED
        BY <2>1, <2>2 DEF Unused
<1>10. ASSUME NEW t \in Sessions, Written(t)
       PROVE  Unused(i)'
    <2> DEFINE q == writes[t]
               a == Head(q)
    <2>1. /\ UNCHANGED <<ctls, worker>> /\ q # << >> /\ q \in Seq(Ans)
          /\ writes' = [writes EXCEPT ![t] = Tail(q)]
        BY <1>10 DEF Written, ctlVars, TypeOK, Ans
    <2>2. /\ a = q[1] /\ 1 \in 1 .. Len(q)
          /\ \A k \in 1 .. Len(Tail(q)) : k + 1 \in 1 .. Len(q) /\ Tail(q)[k] = q[k + 1]
        BY <2>1, TailFacts
    <2>3. a.index # i
        BY <2>2 DEF Unused
    <2>4. \/ uses' = uses
          \/ uses' = [uses EXCEPT ![t] = uses[t] \cup {a.index}]
          \/ uses' = [uses EXCEPT ![t] = uses[t] \ {a.index}]
        BY <1>10 DEF Written
    <2>5. uses \in [Sessions -> SUBSET Index]
        BY DEF TypeOK
    <2> HIDE DEF a
    <2>6. \A s \in Sessions : i \notin uses'[s]
        BY <2>3, <2>4, <2>5 DEF Unused
    <2>7. ASSUME NEW s \in Sessions, NEW k \in 1 .. Len(writes'[s])
          PROVE  writes'[s][k].index # i
        <3>1. CASE s = t
            <4>1. writes'[s] = Tail(q)
                BY <2>1, <3>1 DEF TypeOK
            <4>2. k + 1 \in 1 .. Len(q) /\ writes'[s][k] = q[k + 1]
                BY <2>2, <2>7, <4>1
            <4> QED
                BY <4>2 DEF Unused
        <3>2. CASE s # t
            <4>1. writes'[s] = writes[s]
                BY <2>1, <3>2 DEF TypeOK
            <4> QED
                BY <2>7, <4>1 DEF Unused
        <3> QED
            BY <3>1, <3>2
    <2> QED
        BY <2>1, <2>6, <2>7 DEF Unused
<1>11. ASSUME NEW j \in Index, Work(j)
       PROVE  Unused(i)'
    <2>1. CASE Take(j)
        <3>1. j # i
            BY <1>1, <2>1 DEF Take
        <3>2. worker'[i] = worker[i]
            BY <2>1, <3>1 DEF Take, TypeOK
        <3> QED
            BY <1>2, <2>1, <3>2 DEF Take, Unused, sesVars
    <2>2. CASE StartIo(j)
        <3>1. worker[j] # Idle /\ ctls' = ctls
            BY <2>2 DEF StartIo, Idle
        <3>2. CASE worker' = [worker EXCEPT ![j].pc = "wait"] /\ UNCHANGED sesVars
            <4>1. worker'[i] = worker[i]
                BY <1>1, <3>1, <3>2 DEF TypeOK
            <4> QED
                BY <1>2, <3>1, <3>2, <4>1 DEF Unused, sesVars
        <3> QED
            BY <2>2, <3>1, <3>2, ReplyUnused DEF StartIo
    <2>3. CASE Open(j)
        <3>1. worker[j] # Idle /\ ctls' = ctls
            BY <2>3 DEF Open, Idle
        <3> QED
            BY <2>3, <3>1, ReplyUnused DEF Open
    <2>4. CASE CalledBack(j)
        <3>1. worker[j] # Idle /\ ctls' = ctls
            BY <2>4 DEF CalledBack, Idle
        <3> QED
            BY <2>4, <3>1, ReplyUnused DEF CalledBack
    <2>5. CASE Close(j)
        <3>1. worker[j] # Idle /\ ctls' = ctls
            BY <2>5 DEF Close, Idle
        <3> QED
            BY <2>5, <3>1, ReplyUnused DEF Close
    <2> QED
        BY <1>11, <2>1, <2>2, <2>3, <2>4, <2>5 DEF Work
<1> QED
    BY <1>3, <1>4, <1>5, <1>6, <1>7, <1>8, <1>9, <1>10, <1>11 DEF Next, Plug

\* RoomInv is inductive.
LEMMA RoomStep ==
    ASSUME Roomy, TypeOK, TypeOK', RoomInv, [Next]_vars
    PROVE  RoomInv'
<1>1. ToCome \in Nat /\ ToCome' \in Nat /\ ToCome' <= ToCome
    <2>1. Roomy /\ TypeOK => ToCome \in Nat
        BY ToComeTerms
    <2>2. (Roomy /\ TypeOK => ToCome \in Nat)'
        BY ToComeTerms, PTL
    <2> QED
        BY <2>1, <2>2, RoomShrinks DEF Roomy
<1>2. MaxIndex \in Nat /\ next \in Nat /\ next \in Index /\ next >= 1
    BY ServerAssumption DEF TypeOK, Index
<1>3. CASE ToCome = 0
    BY <1>1, <1>3 DEF RoomInv
<1>4. CASE ToCome # 0
    <2>1. ToCome <= MaxIndex + 1 - next /\ \A i \in next .. MaxIndex : i \in Index /\ Unused(i)
        BY <1>2, <1>4 DEF RoomInv, Index
    <2>2. CASE InsertCtl /\ plug.left # {}
        <3>1. ToCome' = ToCome - 1
            BY <2>2, RoomShrinks
        <3>2. next' = IF next = MaxIndex THEN 1 ELSE next + 1
            BY <2>2 DEF InsertCtl
        <3>3. CASE next = MaxIndex
            BY <1>1, <1>2, <2>1, <3>1, <3>3 DEF RoomInv
        <3>4. CASE next # MaxIndex
            <4>1. ASSUME NEW i \in next + 1 .. MaxIndex
                  PROVE  Unused(i)'
                <5>1. i \in next .. MaxIndex /\ i # next
                    BY <1>2
                <5> QED
                    BY <2>1, <5>1, UnusedStays
            <4>2. ToCome' <= MaxIndex + 1 - (next + 1)
                BY <1>1, <1>2, <2>1, <3>1
            <4> QED
                BY <3>2, <3>4, <4>1, <4>2 DEF RoomInv
        <3> QED
            BY <3>3, <3>4
    <2>3. CASE ~(InsertCtl /\ plug.left # {})
        <3>1. next' = next
            <4>1. CASE InsertCtl
                BY <2>3, <4>1 DEF InsertCtl
            <4>2. ASSUME NEW d \in Devices,
                         PlugIn(d) \/ PlugOut(d) \/ Glitch(d) \/ ConsiderRemoved(d) \/ CancelConsidered(d)
                  PROVE  next' = next
                BY <4>2 DEF PlugIn, PlugOut, Glitch, ConsiderRemoved, CancelConsidered, ctlVars
            <4>3. ASSUME NEW t \in Sessions, Connect(t) \/ Ask(t) \/ Leave(t) \/ Written(t)
                  PROVE  next' = next
                BY <4>3 DEF Connect, Ask, Leave, Written, ctlVars
            <4>4. ASSUME NEW j \in Index, Work(j) PROVE next' = next
                BY <4>4 DEF Work, Take, Open, StartIo, CalledBack, Close
            <4>5. CASE Scan \/ Notify \/ EraseCtl \/ UNCHANGED vars
                BY <4>5 DEF Scan, Notify, EraseCtl, vars, ctlVars
            <4> QED
                BY <4>1, <4>2, <4>3, <4>4, <4>5 DEF Next, Plug
        <3>2. \A i \in next .. MaxIndex : Unused(i)'
            BY <2>1, <2>3, UnusedStays
        <3>3. ToCome' <= MaxIndex + 1 - next
            BY <1>1, <1>2, <2>1
        <3> QED
            BY <3>1, <3>2, <3>3 DEF RoomInv
    <2> QED
        BY <2>2, <2>3
<1> QED
    BY <1>3, <1>4

\* An index that is handed out is used no more, if there is one for each device
\* and each time that one is plugged, pulled, broken or let go: the 16 bits of
\* m_w_new_device_index come round only when nothing is left to be made.
THEOREM RoomForAll == ASSUME Roomy PROVE Spec => []FreshIndex
<1>1. ASSUME Init PROVE RoomInv
    <2>1. TypeOK
        <3>1. \A i \in Index : << >> \in Seq([act : Acts, of : Sessions])
            OBVIOUS
        <3>2. \A s \in Sessions : << >> \in Seq([act : Acts, index : Index, ok : BOOLEAN])
            OBVIOUS
        <3> QED
            BY <1>1, <3>1, <3>2, IndexNat, ServerAssumption DEF Init, TypeOK
    <2>2. Left = {} /\ Present \ listed.cur = usb /\ considered = {} /\ broken = {} /\ events = 0
        BY <1>1 DEF Init, Left, Present
    <2>3. Cardinality(usb) \in Nat /\ Cardinality(usb) <= Cardinality(Devices)
          /\ Cardinality(Devices) \in Nat
        BY <2>1, FS_Subset, FS_CardinalityType DEF Roomy, TypeOK
    <2>4. ToCome = Cardinality(usb) + MaxEvents
        BY <2>2, <2>3, FS_EmptySet, ServerAssumption DEF ToCome
    <2>5. next = 1
        BY <1>1 DEF Init
    <2>6. ToCome <= MaxIndex + 1 - next
        BY <2>3, <2>4, <2>5, ServerAssumption DEF Roomy
    <2>7. \A i \in next .. MaxIndex : Unused(i)
        <3>1. next .. MaxIndex = Index
            BY <2>5 DEF Index
        <3>2. \A i \in Index : ctls[i] = NoDevice /\ worker[i] = Idle
            BY <1>1 DEF Init
        <3>3. \A s \in Sessions : uses[s] = {} /\ Len(writes[s]) = 0
            BY <1>1 DEF Init
        <3>4. \A s \in Sessions : \A k \in 1 .. Len(writes[s]) : FALSE
            BY <3>3
        <3> QED
            BY <3>1, <3>2, <3>3, <3>4 DEF Unused
    <2> QED
        BY <2>6, <2>7 DEF RoomInv
<1>2. TypeOK /\ TypeOK' /\ RoomInv /\ [Next]_vars => RoomInv'
    BY RoomStep
<1>3. TypeOK /\ RoomInv => FreshIndex
    <2> SUFFICES ASSUME TypeOK, RoomInv, plug.pc = "insert", plug.left # {} PROVE Unused(next)
        BY DEF FreshIndex
    <2>1. Left # {} /\ Left \in SUBSET Devices
        BY ToComeTerms DEF Left
    <2>2. Cardinality(Left) # 0
        BY <2>1, Few, FS_EmptySet
    <2>3. ToCome # 0
        BY <2>2, ToComeTerms DEF ToCome
    <2>4. next \in next .. MaxIndex
        BY ServerAssumption DEF TypeOK, Index
    <2> QED
        BY <2>3, <2>4 DEF RoomInv
<1> QED
    BY <1>1, <1>2, <1>3, TypesInvariant, PTL DEF Spec

\* Every listed device has its one controller between two scans of the library,
\* whatever is plugged, pulled, broken, let go and taken back, while the indexes
\* of create_new_dev_ctl last.
THEOREM CtlForEach == ASSUME Roomy PROVE Spec => []CtlPerDevice
    BY RoomForAll, OneController, PTL

\* What a session is recorded to use (m_map_session_to_set_of_device_index) it
\* has open, or has closed with the answer on its way, while the indexes last.
THEOREM UsedIsOpen == ASSUME Roomy PROVE Spec => []UsesOpened
    BY RoomForAll, KeepsMeaning, PTL
=============================================================================
