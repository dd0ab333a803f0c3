------------------------------- MODULE Server -------------------------------
(***************************************************************************)
(* The server around the device controllers: the plug in and out thread of *)
(* the device library, the map of controllers, their worker threads, and   *)
(* the sessions of the clients.  What a controller does with a request is  *)
(* in DevCtl; here a request looks its device up, may wait for the driver, *)
(* and is answered.                                                        *)
(***************************************************************************)
EXTENDS Integers, Sequences, FiniteSets

CONSTANTS
    Devices, Sessions,
    MaxIndex,     \* the largest device index: 2^16 - 1
    MaxEvents,    \* bound: plugs, unplugs, errors and requests to let go
    MaxRequests,  \* bound: requests of a session
    Patient       \* clients do not leave while an open of theirs is under way

ASSUME ServerAssumption ==
    /\ MaxIndex \in Nat \ {0} /\ MaxEvents \in Nat /\ MaxRequests \in Nat
    /\ Patient \in BOOLEAN

NoDevice == "no device"
ASSUME NoDeviceAssumption == NoDevice \notin Devices

Index == 1 .. MaxIndex

VARIABLES
    usb,         \* the devices that are connected
    considered,  \* the devices to be taken for removed
    broken,      \* instances that have seen their device come and go
    inst,        \* the devices with an open instance in the library
    listed,      \* the library's sets: cur, inserted, removed
    plug,        \* the plug in and out thread: its step, and what is left of it
    ctls,        \* device index |-> the device of its controller
    next,        \* the next device index
    opened,      \* device index |-> the sessions that have it open
    queue,       \* device index |-> the requests pushed to its controller
    worker,      \* device index |-> its thread: its step and its request
    conn,        \* session |-> not yet there, open, closed
    uses,        \* session |-> the indexes recorded for it
    writes,      \* session |-> the answers being written to it
    events, requests

usbVars == <<usb, considered, broken, events>>
libVars == <<inst, listed, plug>>
ctlVars == <<ctls, next, opened, queue, worker>>
sesVars == <<conn, uses, writes, requests>>
vars == <<usbVars, libVars, ctlVars, sesVars>>

Idle == [pc |-> "idle", act |-> "none", of |-> "nobody"]
Live == {i \in Index : ctls[i] # NoDevice}
IndexOf(d) == {i \in Live : ctls[i] = d}
Request(act, s) == [act |-> act, of |-> s]
Answer(act, i, ok) == [act |-> act, index |-> i, ok |-> ok]

\* The requests of a session that its controllers have not answered.
Pending(s) ==
    {worker[i].act : i \in {j \in Index : worker[j].of = s}}
      \cup UNION {{queue[i][k].act : k \in {l \in 1 .. Len(queue[i]) : queue[i][l].of = s}} :
                 i \in Index}

Opening(s) == "open" \in Pending(s) \/ \E k \in 1 .. Len(writes[s]) : writes[s][k].act = "open"

-----------------------------------------------------------------------------
(* The devices. *)

Happens == events < MaxEvents /\ events' = events + 1

PlugIn(d) ==
    /\ d \notin usb /\ Happens
    /\ usb' = usb \cup {d}
    /\ UNCHANGED <<considered, broken, libVars, ctlVars, sesVars>>

PlugOut(d) ==
    /\ d \in usb /\ Happens
    /\ usb' = usb \ {d}
    /\ UNCHANGED <<considered, broken, libVars, ctlVars, sesVars>>

\* Out and in again between two looks: only the instance notices, by an error.
Glitch(d) ==
    /\ d \in usb \cap inst /\ Happens
    /\ broken' = broken \cup {d}
    /\ UNCHANGED <<usb, considered, libVars, ctlVars, sesVars>>

\* The updater of the firmware asks the server to let a device go, and then
\* to take it back.  Both wait for the mutex of the library.
ConsiderRemoved(d) ==
    /\ plug.pc = "idle" /\ d \notin considered /\ Happens
    /\ considered' = considered \cup {d}
    /\ UNCHANGED <<usb, broken, libVars, ctlVars, sesVars>>

CancelConsidered(d) ==
    /\ plug.pc = "idle" /\ d \in considered
    /\ considered' = considered \ {d}
    /\ UNCHANGED <<usb, broken, events, libVars, ctlVars, sesVars>>

-----------------------------------------------------------------------------
(* The plug in and out thread.  It holds the mutex of the library from the *)
(* scan to the end of the server's callback.                               *)

Present == usb \ (considered \cup broken)

\* Mutant of Scan: the mark of a broken instance outlives the instance.
ScanKeepBroken ==
    /\ plug.pc = "idle" /\ Present # listed.cur
    /\ LET gone == listed.cur \ Present
           new == Present \ listed.cur
       IN  /\ listed' = [cur |-> Present, inserted |-> new, removed |-> gone]
           /\ \E ok \in SUBSET new : inst' = (inst \ gone) \cup ok
           /\ worker' = [i \in Index |->
                IF worker[i].pc = "wait" /\ ctls[i] \in gone
                  THEN [worker[i] EXCEPT !.pc = "lost"] ELSE worker[i]]
    /\ plug' = [pc |-> "notify", todo |-> {}, left |-> {}]
    /\ UNCHANGED <<usb, considered, broken, events, ctls, next, opened, queue, sesVars>>

\* An instance goes with its device; what waits for it is not called back.
\* A new one may fail to open, and its device is listed all the same.
Scan ==
    /\ plug.pc = "idle" /\ Present # listed.cur
    /\ LET gone == listed.cur \ Present
           new == Present \ listed.cur
       IN  /\ listed' = [cur |-> Present, inserted |-> new, removed |-> gone]
           /\ \E ok \in SUBSET new : inst' = (inst \ gone) \cup ok
           /\ broken' = broken \ gone
           /\ worker' = [i \in Index |->
                IF worker[i].pc = "wait" /\ ctls[i] \in gone
                  THEN [worker[i] EXCEPT !.pc = "lost"] ELSE worker[i]]
    /\ plug' = [pc |-> "notify", todo |-> {}, left |-> {}]
    /\ UNCHANGED <<usb, considered, events, ctls, next, opened, queue, sesVars>>

\* Mutant of Notify: controllers for all current devices.
NotifyAll ==
    /\ plug.pc = "notify"
    /\ plug' = [pc |-> "erase",
                todo |-> UNION {IndexOf(d) : d \in listed.removed},
                left |-> listed.cur]
    /\ UNCHANGED <<inst, listed, usbVars, ctlVars, sesVars>>

\* The callback: the removed devices' controllers are looked up and their
\* users told.  The indexes are then erased from copies of the sessions'
\* sets, which leaves the sets as they are.
Notify ==
    /\ plug.pc = "notify"
    /\ plug' = [pc |-> "erase",
                todo |-> UNION {IndexOf(d) : d \in listed.removed},
                left |-> listed.inserted]
    /\ UNCHANGED <<inst, listed, usbVars, ctlVars, sesVars>>

NextToErase == CHOOSE i \in plug.todo : \A j \in plug.todo : i <= j

Destroy(i) ==
    /\ ctls' = [ctls EXCEPT ![i] = NoDevice]
    /\ opened' = [opened EXCEPT ![i] = {}]
    /\ queue' = [queue EXCEPT ![i] = << >>]

\* Mutant of EraseCtl: all controllers are to stop, not only those destroyed.
EraseCtlStopAll ==
    /\ plug.pc = "erase"
    /\ \/ /\ plug.todo # {} /\ \A i \in Index : worker[i] = Idle
          /\ Destroy(NextToErase)
          /\ plug' = [plug EXCEPT !.todo = @ \ {NextToErase}]
       \/ /\ plug.todo = {}
          /\ plug' = [plug EXCEPT !.pc = "insert"]
          /\ UNCHANGED <<ctls, opened, queue>>
    /\ UNCHANGED <<inst, listed, usbVars, next, worker, sesVars>>

\* The mutex of the map is held while the threads of all the controllers are
\* joined: each ends its request first, and takes no other.
EraseCtl ==
    /\ plug.pc = "erase"
    /\ \/ /\ plug.todo # {} /\ worker[NextToErase] = Idle
          /\ Destroy(NextToErase)
          /\ plug' = [plug EXCEPT !.todo = @ \ {NextToErase}]
       \/ /\ plug.todo = {}
          /\ plug' = [plug EXCEPT !.pc = "insert"]
          /\ UNCHANGED <<ctls, opened, queue>>
    /\ UNCHANGED <<inst, listed, usbVars, next, worker, sesVars>>

\* Mutant of InsertCtl: the invalid index is not skipped.
InsertCtlAny ==
    /\ plug.pc = "insert"
    /\ \/ /\ worker[next] = Idle
          /\ \E d \in plug.left :
               /\ ctls' = [ctls EXCEPT ![next] = d]
               /\ plug' = [plug EXCEPT !.left = @ \ {d}]
          /\ opened' = [opened EXCEPT ![next] = {}]
          /\ queue' = [queue EXCEPT ![next] = << >>]
          /\ next' = (next + 1) % (MaxIndex + 1)
       \/ /\ plug.left = {}
          /\ plug' = [plug EXCEPT !.pc = "idle"]
          /\ UNCHANGED <<ctls, opened, queue, next>>
    /\ UNCHANGED <<inst, listed, usbVars, worker, sesVars>>

\* A new controller takes the next index, from whoever has it.
InsertCtl ==
    /\ plug.pc = "insert"
    /\ \/ /\ worker[next] = Idle
          /\ \E d \in plug.left :
               /\ ctls' = [ctls EXCEPT ![next] = d]
               /\ plug' = [plug EXCEPT !.left = @ \ {d}]
          /\ opened' = [opened EXCEPT ![next] = {}]
          /\ queue' = [queue EXCEPT ![next] = << >>]
          /\ next' = IF next = MaxIndex THEN 1 ELSE next + 1
       \/ /\ plug.left = {}
          /\ plug' = [plug EXCEPT !.pc = "idle"]
          /\ UNCHANGED <<ctls, opened, queue, next>>
    /\ UNCHANGED <<inst, listed, usbVars, worker, sesVars>>

-----------------------------------------------------------------------------
(* The clients and the thread that reads from them.  It looks controllers  *)
(* up under the mutex of the map.                                          *)

MapFree == plug.pc # "erase"

Push(i, rs) == queue' = [queue EXCEPT ![i] = @ \o rs]

Connect(s) ==
    /\ conn[s] = "none"
    /\ conn' = [conn EXCEPT ![s] = "open"]
    /\ UNCHANGED <<uses, writes, requests, usbVars, libVars, ctlVars>>

\* An open names its device by its path, other requests by the index the
\* answer of the open tells.
Told(s) == uses[s] \cup {writes[s][k].index : k \in {l \in 1 .. Len(writes[s]) :
                                                  writes[s][l].act = "open" /\ writes[s][l].ok}}

Ask(s) ==
    /\ conn[s] = "open" /\ MapFree /\ requests[s] < MaxRequests
    /\ requests' = [requests EXCEPT ![s] = @ + 1]
    /\ \/ \E i \in Live : Push(i, <<Request("open", s)>>)
       \/ \E i \in Told(s) \cap Live, act \in {"io", "close"} : Push(i, <<Request(act, s)>>)
    /\ UNCHANGED <<conn, uses, writes, usbVars, libVars, ctls, next, opened, worker>>

\* Mutant of Leave: what the session has under way is cancelled, no more.
LeaveOpen(s) ==
    /\ conn[s] = "open" /\ MapFree
    /\ Patient => ~Opening(s)
    /\ conn' = [conn EXCEPT ![s] = "closed"]
    /\ queue' = [i \in Index |-> IF i \in uses[s] \cap Live
                                   THEN queue[i] \o <<Request("io", s)>>
                                   ELSE queue[i]]
    /\ uses' = [uses EXCEPT ![s] = {}]
    /\ writes' = [writes EXCEPT ![s] = << >>]
    /\ UNCHANGED <<requests, usbVars, libVars, ctls, next, opened, worker>>

\* The session's devices are cancelled and closed for it: those it is
\* recorded to use.
Leave(s) ==
    /\ conn[s] = "open" /\ MapFree
    /\ Patient => ~Opening(s)
    /\ conn' = [conn EXCEPT ![s] = "closed"]
    /\ queue' = [i \in Index |-> IF i \in uses[s] \cap Live
                                   THEN queue[i] \o <<Request("io", s), Request("close", s)>>
                                   ELSE queue[i]]
    /\ uses' = [uses EXCEPT ![s] = {}]
    /\ writes' = [writes EXCEPT ![s] = << >>]
    /\ UNCHANGED <<requests, usbVars, libVars, ctls, next, opened, worker>>

\* Mutant of Written: an open is recorded whether it succeeded or not.
WrittenAny(s) ==
    /\ writes[s] # << >>
    /\ writes' = [writes EXCEPT ![s] = Tail(@)]
    /\ LET a == Head(writes[s]) IN
       uses' = CASE a.act = "open" -> [uses EXCEPT ![s] = @ \cup {a.index}]
                 [] a.ok /\ a.act = "close" -> [uses EXCEPT ![s] = @ \ {a.index}]
                 [] OTHER -> uses
    /\ UNCHANGED <<conn, requests, usbVars, libVars, ctlVars>>

\* An answer has been written; only then is an open, or a close, recorded.
Written(s) ==
    /\ writes[s] # << >>
    /\ writes' = [writes EXCEPT ![s] = Tail(@)]
    /\ LET a == Head(writes[s]) IN
       uses' = CASE a.ok /\ a.act = "open" -> [uses EXCEPT ![s] = @ \cup {a.index}]
                 [] a.ok /\ a.act = "close" -> [uses EXCEPT ![s] = @ \ {a.index}]
                 [] OTHER -> uses
    /\ UNCHANGED <<conn, requests, usbVars, libVars, ctlVars>>

-----------------------------------------------------------------------------
(* The controllers' threads. *)

Stopping(i) == plug.pc = "erase" /\ plug.todo # {} /\ i = NextToErase

Take(i) ==
    /\ i \in Live /\ worker[i] = Idle /\ queue[i] # << >> /\ ~Stopping(i)
    /\ worker' = [worker EXCEPT ![i] = [pc |-> "lookup", act |-> Head(queue[i]).act,
                                        of |-> Head(queue[i]).of]]
    /\ queue' = [queue EXCEPT ![i] = Tail(@)]
    /\ UNCHANGED <<ctls, next, opened, usbVars, libVars, sesVars>>

Reply(i, ok) ==
    LET s == worker[i].of
    IN  /\ worker' = [worker EXCEPT ![i] = Idle]
        /\ writes' = IF conn[s] = "open"
                       THEN [writes EXCEPT ![s] = Append(@, Answer(worker[i].act, i, ok))]
                       ELSE writes
        /\ UNCHANGED <<conn, uses, requests>>

\* The device is looked up under the mutex of the library; one that is not
\* there, or that did not open, is an error.
Open(i) ==
    /\ worker[i].pc = "lookup" /\ worker[i].act = "open" /\ plug.pc = "idle"
    /\ LET ok == ctls[i] \in inst /\ worker[i].of \notin opened[i]
       IN  /\ opened' = IF ok THEN [opened EXCEPT ![i] = @ \cup {worker[i].of}] ELSE opened
           /\ Reply(i, ok)
    /\ UNCHANGED <<ctls, next, queue, usbVars, libVars>>

\* The thread waits for the driver's callback without a timeout.
StartIo(i) ==
    /\ worker[i].pc = "lookup" /\ worker[i].act = "io" /\ plug.pc = "idle"
    /\ IF ctls[i] \in inst /\ worker[i].of \in opened[i]
         THEN worker' = [worker EXCEPT ![i].pc = "wait"] /\ UNCHANGED sesVars
         ELSE Reply(i, FALSE)
    /\ UNCHANGED <<ctls, next, opened, queue, usbVars, libVars>>

CalledBack(i) ==
    /\ worker[i].pc = "wait" /\ ctls[i] \in inst
    /\ Reply(i, TRUE)
    /\ UNCHANGED <<ctls, next, opened, queue, usbVars, libVars>>

\* A close needs the device only to cancel a read, which is left to DevCtl.
Close(i) ==
    /\ worker[i].pc = "lookup" /\ worker[i].act = "close"
    /\ opened' = [opened EXCEPT ![i] = @ \ {worker[i].of}]
    /\ Reply(i, worker[i].of \in opened[i])
    /\ UNCHANGED <<ctls, next, queue, usbVars, libVars>>

-----------------------------------------------------------------------------
Init ==
    /\ usb \in SUBSET Devices /\ considered = {} /\ broken = {} /\ events = 0
    /\ inst = {} /\ listed = [cur |-> {}, inserted |-> {}, removed |-> {}]
    /\ plug = [pc |-> "idle", todo |-> {}, left |-> {}]
    /\ ctls = [i \in Index |-> NoDevice] /\ next = 1
    /\ opened = [i \in Index |-> {}] /\ queue = [i \in Index |-> << >>]
    /\ worker = [i \in Index |-> Idle]
    /\ conn = [s \in Sessions |-> "none"] /\ uses = [s \in Sessions |-> {}]
    /\ writes = [s \in Sessions |-> << >>] /\ requests = [s \in Sessions |-> 0]

Plug == Scan \/ Notify \/ EraseCtl \/ InsertCtl
Work(i) == Take(i) \/ Open(i) \/ StartIo(i) \/ CalledBack(i) \/ Close(i)

Next ==
    \/ Plug
    \/ \E d \in Devices : PlugIn(d) \/ PlugOut(d) \/ Glitch(d)
                          \/ ConsiderRemoved(d) \/ CancelConsidered(d)
    \/ \E s \in Sessions : Connect(s) \/ Ask(s) \/ Leave(s) \/ Written(s)
    \/ \E i \in Index : Work(i)

\* The threads run; the updater takes back what it asked to let go.
Fairness ==
    /\ WF_vars(Plug)
    /\ \A i \in Index : WF_vars(Work(i))
    /\ \A s \in Sessions : WF_vars(Written(s))
    /\ \A d \in Devices : SF_vars(CancelConsidered(d))

Spec == Init /\ [][Next]_vars
FairSpec == Spec /\ Fairness

-----------------------------------------------------------------------------
(* Properties. *)

Acts == {"open", "io", "close"}

\* The type of every variable.
TypeOK ==
    /\ usb \subseteq Devices /\ considered \subseteq Devices /\ broken \subseteq Devices
    /\ inst \subseteq Devices
    /\ listed \in [cur : SUBSET Devices, inserted : SUBSET Devices, removed : SUBSET Devices]
    /\ plug \in [pc : {"idle", "notify", "erase", "insert"},
                 todo : SUBSET Index, left : SUBSET Devices]
    /\ ctls \in [Index -> Devices \cup {NoDevice}] /\ next \in Index
    /\ opened \in [Index -> SUBSET Sessions]
    /\ queue \in [Index -> Seq([act : Acts, of : Sessions])]
    /\ worker \in [Index -> {Idle} \cup
                    [pc : {"lookup", "wait", "lost"}, act : Acts, of : Sessions]]
    /\ conn \in [Sessions -> {"none", "open", "closed"}]
    /\ uses \in [Sessions -> SUBSET Index]
    /\ writes \in [Sessions -> Seq([act : Acts, index : Index, ok : BOOLEAN])]
    /\ events \in 0 .. MaxEvents /\ requests \in [Sessions -> 0 .. MaxRequests]

\* Between two scans every listed device has one controller, no controller
\* is of another device, and only listed devices have an instance: whatever
\* was plugged, pulled, let go and taken back in between.
CtlPerDevice ==
    plug.pc = "idle" =>
        /\ {ctls[i] : i \in Live} = listed.cur
        /\ \A i, j \in Live : ctls[i] = ctls[j] => i = j
        /\ inst \subseteq listed.cur

\* A controller that a session is recorded to use has it open, or has closed
\* it and the answer is on its way: an index never comes to mean another
\* device than the one that was opened.
UsesOpened ==
    \A s \in Sessions : \A i \in uses[s] \cap Live :
        \/ s \in opened[i]
        \/ \E k \in 1 .. Len(writes[s]) : writes[s][k] = Answer("close", i, TRUE)

\* A client that is gone, and of whose requests none is left, holds no
\* device.
GoneHoldsNone ==
    \A s \in Sessions :
        conn[s] = "closed" /\ Pending(s) = {} => \A i \in Index : s \notin opened[i]

\* A controller with something under way whose device is gone, or was: the
\* thread may wait for a callback that does not come, or for the mutex that
\* the plug in and out thread holds while it joins it.
Caught ==
    \E i \in Live : /\ queue[i] # << >> \/ worker[i] # Idle
                    /\ ctls[i] \notin Present \cap listed.cur

\* A device that stays gets its controller, if no request is caught by the
\* unplugging of another.
Managed == []~Caught => \A d \in Devices : []<>(d \notin usb \/ IndexOf(d) # {})

\* Every request comes to its answer, if none is caught: no controller's
\* thread stays at one request.
RequestEnds == []~Caught => \A i \in Index : []<>(worker[i] = Idle)

\* The library goes on looking for devices that come and go.
PlugGoesOn == []<>(plug.pc = "idle")
=============================================================================
