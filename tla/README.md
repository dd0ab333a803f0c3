# A TLA+ model of the elpusk HID framework

The repository is the framework of a daemon that gives several client programs
access to USB HID devices (magnetic card readers, i-button readers) over web
sockets, with the libraries and the OPOS service object through which
applications read cards, and the tool that updates a reader's firmware.  This
directory models

- the server from the driver of one device up to the sessions of its clients
  (`HidDev`, `SessionState`, `DevCtl`, `Server`),
- the libraries of an application that is a client of it (`MsrClient`), and the
  OPOS service object above one of them (`OposMsr`),
- the firmware updater, which stops the server's use of a device and writes it
  (`RomFile`, `FwSelect`, `Updater`, and `Firmware`, what the updater promises).

TLC checks the models on small instances; TLAPS proves, for every value of the
constants, the driver's invariants, that the controller uses the driver as it
may, that the controller answers every request once, that the server holds
nothing for clients that are gone, that the OPOS service object gives away no card
that has not been told, and, under two conditions the dialogs do not ensure, that the
updater does what it promises: it never leaves a device running half a firmware.

Paths below are relative to `src/shared/lib/` of the repository, unless they
begin with `src/`.

## 1. The system

### 1.1 How a request travels

```
 application                       OPOS application
   | lpu237_dll, lpu237_tools        | CSoMsr: calls, worker, queue of events
   |  <-------------------------------
 client --ws--> cserver --> cctl_svr --> cdev_ctl (one thread for each device)
                                            | start_write, start_read, ...
                                            v
 client <--ws-- cserver <-- cdev_ctl   clibhid_dev (worker thread + rx thread)
                               ^            |
                               +-callbacks--+        clibhid (plug in/out thread)

 lpu230_update: a process of its own; asks the server to let the device go,
 writes the flash through the bootloader, and reports to the server
```

A client opens a device, exclusively or shared, and then writes, transmits
(write, then wait for an answer), reads, cancels and closes.  Everything but a
read blocks the device's controller until the driver has answered.  A read
stays outstanding until the device sends something, typically when a card is
swiped; meanwhile the controller serves other requests, also of other sessions.

An application does not see any of this: the library sends its requests, keeps a
result for each under an index between 0 and 5, and a callback of the web socket
client gives an answer to the oldest result that waits.  An answer carries no
number of its request.

### 1.2 Components

| component | source | state | operations | hard behaviour | what makes it correct |
|---|---|---|---|---|---|
| device driver `clibhid_dev` | `src/hid/mp_clibhid_dev.cpp`, `inc/mp_cqitem_dev.h` | request queue, current read, new item, parked reads, receive queue, error flags | `start_*`, worker loop, receive thread, destruction | reads stay current, are parked, cancelled, taken up; two outcomes in one iteration; receive thread that dies | each item served once and in order; reports in order; removal only for a dead device; blocking requests answered |
| session state `cbase_ctl_fn` | `src/server/mp_cbase_ctl_fn_.cpp` | - (table) | `set(evt)`, combined state, open rule | - | used by the controller |
| device controller `cdev_ctl`, `cdev_ctl_fn` | `src/server/mp_cdev_ctl_.cpp`, `mp_cdev_ctl_fn_.cpp` | states of sessions, mode, read queues, blocking queue, current request | `_execute`, `_continue`, `process_event`, three callbacks | two threads, two mutexes never held together, blocking waits without timeout, flags set before a step and used up by another | each request answered once; exclusive use; a session unaffected by the others |
| worker loop `vcworker` | `inc/mp_vcworker.h` | queue, current request | `_worker` | current request lost or kept | answers are sent |
| device library `clibhid` | `src/hid/mp_clibhid.cpp` | sets of devices, their drivers, one mutex | plug in/out thread, look-up, letting a device go | callback under the mutex, joins of threads that need the mutex | a device that stays is managed |
| server control `cctl_svr`, server `cserver` | `src/server/mp_cctl_svr_.cpp`, `mp_cserver_.cpp` | controllers by device index, devices by session | create, remove, route, accept, write, close | index wrap-around, stale sets, a client that leaves early | requests reach the right device; nothing stays held |
| client library | `inc/mp_casync_result_manager.h`, `mp_casync_parameter_result.h`, `src/shared/common/src/capi_client.cpp`, `src/shared/projects/lpu237_dll` | results by index, queue, last action, cache of a card | reset, command, wait for a swipe, get data | index reuse after six, late answers, notes made after sending | an answer reaches its own request; calls return |
| device settings tool | `src/shared/projects/lpu237_tools` | map of callbacks, phases left | start, next phase, cancel | callback thread against the application's thread | settings end |
| OPOS service object | `src/opos/OposLpu230` | properties, request queue, event queue, worker's flags | open, claim, enable, freeze, clear, release, close | handlers on the worker's thread, waits of two seconds, suspension | events told with their data; the worker goes on waiting for cards |
| firmware updater | `src/shared/projects/lpu230_update` | selection, state of the dialogs, thread's step, messages | dialogs, thread, loops, signals | device leaves and returns, process killed between two sectors | never half a firmware; the update ends |
| firmware container | `src/shared/projects/rom` | - (file) | which item fits | comparison of versions | the item is one for this reader |
| kernel and manager controllers, event object, HID API bridges, packets, daemon, JNI, MCP, other OPOS objects | see `PROJECT.json` | - | - | - | not modelled, see section 5 |

`PROJECT.json` lists every component with its status, and the hazards of this
code at the lines where they bite.

## 2. The modules

| module | models |
|---|---|
| `SessionState` | transition table, events, combined state, open rule: pure operators |
| `HidDev` | `clibhid_dev`: worker and receive thread; a specification of its own (`HidSpec`) |
| `DevCtl` | `cdev_ctl`, `cdev_ctl_fn`, `vcworker`, extending `HidDev` |
| `Server` | `clibhid`, `cctl_svr`, `cserver`: devices, controllers, sessions; a controller reduced to look-up, wait and answer |
| `MsrClient` | `lpu237_dll`, `lpu237_tools` over the results of the client library; the server reduced to one answer for each request |
| `OposMsr` | `CSoMsr`, its worker and its queue of events; the library reduced to one wait for a card |
| `RomFile` | which item of a rom file fits a reader: pure operators |
| `FwSelect` | command line, dialogs and selection of the updater, extending `RomFile` |
| `Updater` | the updater's thread, loops and end, and the device, extending `FwSelect` |
| `Firmware` | the abstract specification: what an update may do to a device |
| `MCUpdater` | files and starts for TLC |
| `HidDev_proofs`, `DevUse_proofs`, `DevTurn_proofs`, `DevReads_proofs`, `Server_proofs`, `MsrClient_proofs`, `OposMsr_proofs`, `Updater_proofs` | the proofs |

The models are composed where the code's components share state: `DevCtl` with
`HidDev`, `Updater` with `FwSelect`.  The others meet at an interface which the upper
one takes for granted in the form in which the lower one was checked: `Server`
and `MsrClient` use of `DevCtl` that a request is answered once; `OposMsr` uses of
the library that a wait ends with a card, without one, or not at all.

`DevCtl` EXTENDS `HidDev` and binds its callbacks.  In `HidDev` the callback of
an item is two steps, `RunCur`/`RunNew` and `FinishCur`/`FinishNew`, and returns
anything that its kind allows (`Returns`).  `DevCtl` conjoins the first with
what the controller's callbacks do and return, the second with the change of
state at their end.  The property `UsesDriver` (`= HidSpec`, checked in
`DevFaults`, proved in `DevUse_proofs`) is the refinement: every behaviour of the
composition is one of the driver alone, so what is proved of the driver holds in
the composition, and the callers keep to the driver's rules (uids in order,
callbacks of the kinds assumed).

### 2.1 `HidDev` and the code

| model | code |
|---|---|
| `hq`, `cur`, `fresh`, `parked` | `m_q_ptr`, `ptr_cur`, `ptr_new`, `dq_ptr_cur_old` |
| `readOk`, `replugin` | `b_read_ok`, `m_b_detect_replugin` |
| `rxq`, `rxDead` | `m_q_rx_ptr_v`, `b_need_deep_recover` (the thread's exit) |
| `hpc` | where the iteration of `_worker` is; `ret` is `cb_result` |
| `Pump`, `ReadCurrent`, `PopWhileBroken`, `PopPark`, `PopCancel`, `PopWrite`, `PopWriteRead`, `PopRead` | the branches of the loop before the notification area, each with the calls it makes |
| `RunCur`, `FinishCur`, `RunNew`, `FinishNew` | the notification area |
| `Receive` | `_worker_rx` |
| `Unplug` | the destructor, which joins the worker at the end of an iteration |
| `Submit` | a caller of `start_*` |

A report is a kind and a number.  The kinds are `card` (delivered), `bad` (three
negative track lengths, which the controller's callbacks skip), `foreign` (data of
another type, skipped by `_process_only_rx`), `lost` (the empty packet that marks
a loss) and `null` (the empty pointer the receive thread leaves when it gives
up).  The parts of one report that the driver puts together are one report in the
model.  `used` and `told` are history variables.

### 2.2 `DevCtl` and the code

| model | code |
|---|---|
| `mq`, `acur`, `areq`, `apc` | `m_q`, `ptr_req_cur`, `ptr_req_new` of `vcworker`; the place in `_execute` |
| `st`, `shared` | `m_map_ptr_state_cur` ("not" = not in the map), `m_b_cur_shared_mode` |
| `readq`, `syncq` | `m_map_ptr_q_ptr_cur_req_read`, `m_q_sync_req_evt_rsp`; `rec` is the recover flag, `rsp` the answer with its event |
| `req` | history: requests and the answers sent |
| `Open`, `Refuse`, `CloseIdle`, `CloseReading`, `StartSync`, `FlagOthers`, `StartRead`, `TurnAway` | `process_event` and the nine functions it dispatches to, up to where they let the driver's thread in |
| `StartFlaggedOrClose`, `Wake`, `Reading`, `Collect` | the rest of these functions, and what `_execute` does after them |
| `Continue` | `_continue` |
| `BeginCur`, `BeginNew`, `EndCur`, `EndNew` | the callbacks, on the driver's thread |

The controller and the driver run on two threads.  A handler is split where the
other thread can see or change something in between: between the setting of the
recover flags and the start of the item, between the start of a read and the
change of state, around the blocking wait, between the answers a callback sets
and the states it changes.  The state of the session and the combined state
of the others are read under two separate locks in `process_event`; here this is
one step, because the only concurrent change of state is from `asy` to `idl` by a
callback, and every pair that can be read is a pair that existed.

### 2.3 `Server` and the code

| model | code |
|---|---|
| `usb`, `broken` | what the operating system lists; a driver whose receive thread has given up |
| `considered`, `inst`, `listed` | the sets of `clibhid`: devices to be taken for removed, open drivers, current, inserted and removed devices |
| `plug` | the plug in and out thread: idle, before its callback, erasing and inserting controllers |
| `ctls`, `next`, `opened`, `queue`, `worker` | `m_map_device_index_ptr_dev_ctl`, the index counter; of each controller its sessions, its queue and its thread |
| `conn`, `uses`, `writes` | sessions, the devices recorded for them, answers that are being written |
| `Scan`, `Notify`, `EraseCtl`, `InsertCtl` | `_update_dev_set` and `_update_device_map`; `_cb_dev_pluginout`, one controller at a time |
| `Connect`, `Ask`, `Leave`, `Written` | `_cb_svr_accept`, `push_request_to_worker_ctl`, `close_all_device_of_session`, `_cb_svr_write` |
| `Take`, `Open`, `StartIo`, `CalledBack`, `Close` | the controller's thread, as far as the mutex of the library and the record of the session are concerned |

The library's mutex is not a variable: the steps of the plug thread between
`Scan` and the last `InsertCtl` are those during which it is held, and the steps
that need it (`StartIo`, `ConsiderRemoved`, ...) wait for `plug.pc = "idle"`.

### 2.4 `MsrClient` and the code

| model | code |
|---|---|
| `app`, `gap` | the thread in a call under the device's mutex; threads between the two locks of a call that resets first |
| `queue`, `res`, `counter` | the result manager: queued indexes, results, the counter that comes round |
| `last` | what `capi_client` notes as sent last, after it has been sent |
| `sent`, `reading`, `answers` | the server and the wire |
| `cb` | the thread that runs `ccb_client::_read`: pop, find, set |
| `cash`, `got` | `cash_msdata`; what `LPU237_get_data` handed out |
| `item`, `user`, `todo`, `cancel` | `cmap_user_cb`, the threads of the settings' callbacks, the phases left, the cancel that waits |

### 2.5 `FwSelect`, `Updater` and the code

`sel` is what `cshare` keeps of the selection, `ui` the state table of `cupdater`
with its menus, `worker` the step of `_updates_thread_function`; each step is an action
with the name of the function that is called for it.  `msgs` is the queue between
the thread and the loop, `told` what the server has been sent.  The device
(`dev`, `flash`, `params`) is external: it runs its application or its
bootloader, leaves and comes back, loses its power, and holds for each sector the old
firmware, nothing, or a piece of a source.  `Kill` and `Restart` end the process
at any step and start another one, with any of the given command lines.

A sector is read as `get_one_sector_fw_data` and `tg_rom_readBinary_of_item` do it, which
compare the index with no list and the position with no size.  `Source` is the file and
the entry that are read.  An entry the rom file does not use is zero, so the file is read from its first
byte; an entry behind the header is whatever memory lies there (`Begin`).  From there a read goes on to
the end of the file, over the next items (`Remaining`, `Upto`).  The bytes `Wanted` of the
firmware's end are negative if the plan was made for a larger firmware; unsigned they are more than
any file has, so all the rest of the file is read into the buffer of one sector.  This is
undefined behaviour, as is an entry behind the header: the process ends (`Overruns`, one of the reasons of `Kill`), or it goes
on with the sector it has got (`ReadSector`).  What else such a read might overwrite is not modelled.

### 2.6 `OposMsr` and the code

| model | code |
|---|---|
| `app` | the call that waits for the worker (`Msr_Open`, `Msr_Close`) |
| `claimed`, `devEnabled`, `dataEnabled`, `frozen` | `m_bClaimed`, `m_bDeviceEnabled`, `m_bDataEventEnabled`, `m_bFreezeEvents` |
| `devq`, `done`, `wake`, `usbDone` | `m_pDeviceQ`, the request completed last, the two events the worker waits for |
| `eventq`, `data` | `m_DEventQ`; the card whose tracks the properties show |
| `bOpen`, `reqRead`, `suspend`, `recover` | the worker's flags of these names |
| `dev` | `m_hDev` and the library's and the reader's side of it |
| `wk` | where the worker is: waiting, in `FireQ`, in `Fire`, in a handler |

The handlers of events run on the worker's thread, between any two steps of the
application's calls.  `FireQ` is split where the application can change what
has been tested: the test of the flags, the taking of the event, the telling.

## 3. What is checked

All passing runs but `Opos` set `CHECK_DEADLOCK FALSE`: these systems may really
stop.  Clients need not send anything, the device need not send a report, an updater
ends, and once the bounds are used up nothing is left to do.  A request that waits
forever although the system goes on is what the liveness properties and
`BlockedIsServed` are for.  The worker of the OPOS service object polls forever.

### 3.1 Passing runs

| run | instance | what it shows |
|---|---|---|
| `HidDriver` | driver alone, 3 requests of any kind, 2 reports of any of the 5 kinds, unplug, fair worker | `TypeOK`; items in order, none served twice or kept (`InOrder`); both outcomes of an iteration are told, old first (`NotifyOldFirst`); reports in order (`ReportsInOrder`); removal only for a dead receive thread (`RepluginJustified`); every write, transmit and cancel is answered unless the device goes away (`NonReadServed`) |
| `DevShared` | 2 sessions sharing, 5 requests, 2 reports | the driver holds what the controller blocks for (`BlockedIsServed`), reports reach a session in turn (`ReportsInTurn`) |
| `DevFaults` | 1 session, all requests, all reports, unplug | `DevTypeOK`, the blocking queue and the driver agree (`SyncMatch`), each request is answered once and kept until then (`AnsweredOnce`), refinement (`UsesDriver`) |
| `DevExclusive` | 2 sessions, device without sharing, fair threads | one session at a time (`ExclusiveAlone`), a waiting read has an item in the driver while that is there (`ReadBeingServed`), requests other than reads are answered (`NonReadAnswered`), completed reads are sent (`CompletedSent`) |
| `DevQuiet` | 2 sessions sharing, writes and cancels, no reports | a read is cancelled by its own session only (`CancelledByOwn`), a session whose read waits is in state `asy` (`WaitingIsAsy`) |
| `Server` | 2 devices that come, go, glitch and are let go for an update, 1 session | every listed device has one controller (`CtlPerDevice`); an index keeps its meaning for the session that opened it (`UsesOpened`); a client that has left holds nothing (`GoneHoldsNone`); a device that stays gets managed (`Managed`) and requests come to their answers (`RequestEnds`) unless one is caught by an unplugging |
| `Client` | 2 threads, indexes 0 to 4, 8 requests, settings of 2 phases, 2 requests given up | every queued result is still going to be answered (`EachIsAnswered`); an answer reaches its own request (`AnswersGoHome`); calls return and settings end (`CallsReturn`) |
| `Opos` | 2 cards, 2 openings, 2 suspensions or unpluggings | an event gives away no card that has not been told (`NoUntoldCard`); after a close answered in time the reader is free (`ClosedForGood`); events that may be told are told (`EventsTold`); the worker goes on listening, also over suspensions (`Listens`) |
| `Update` | a rom file with 2 items, a raw file, 4 starts, 2 processes, 1 loss of power, kill at any step | the device never runs half a firmware (`RunsWhole`); the parameters survive (`ParamsKept`); what is read and written is what was planned (`PlanFits`); the server hears of the end (`EndTold`); updates end, and programs without a screen (`UpdateEnds`); refinement of `Firmware` (`KeepsPromise`) |

Where a property has a condition, the condition is there because the code does
not keep more:

- `DevQuiet` holds only because no report comes in between and no session closes (section 4
  names the four events that are thereby excluded),
  `DevExclusive` keeps to a device that is not shared and leaves transmits without
  data out: see the disagreements in 3.4.
- `RequestEnds` and `Managed` exclude a request caught by an unplugging, which is
  what `VPulledInUse` shows.  With `Patient = FALSE`, clients that leave while
  an open is under way, `GoneHoldsNone` is false: what a session uses is recorded when
  the answer has been written (`src/server/mp_cserver_.cpp:605`).
- With `Alone = FALSE`, an application that calls while settings are on their
  way, `EachIsAnswered`, `AnswersGoHome` and `CallsReturn` are false: the reset that
  begins such a call takes the place behind the result of the settings, which the
  answer to its cancel then ends, and it waits without a limit under the mutex that
  the callback needs (`src/shared/common/inc/i_device_of_client.h:393-424`).
- `AnswersGoHome` holds until a request is given up (`late = 0`): after that the
  late answer is taken for the answer to the next request.
- `NoUntoldCard` says less than that an event is told with its own card's data,
  which is false: `Fire` tests the queue the wrong way round (`FireEvent.cpp:269`), so a
  card read while an event waits is told before it, and the event that waits is later
  told with that card's data.  The data of the first card are lost.
- `ClosedForGood` and `Listens` exclude a wait of two seconds that ended before the
  worker had answered (`late`); `Listens` also a reader pulled while open
  (`pulled`), after which the worker does not listen until the service object
  is opened again: in USB mode the outcome of a failed wait is always success, so
  the recovery is never entered from there.

### 3.2 Bounds

- `MaxUid` numbers the requests, `Quota` bounds them for each session, `MaxReads`
  the reads of a session that wait.  The first request of a session is an open
  (a second session that is refused, and requests before an open, occur in
  `DevFaults`, where a session may also go on after its close).  Two sessions,
  each with an open, a read and one more request, suffice for a read of one to
  be current, that of the other parked, and any request to come between; a third
  item in the driver alone suffices for current, parked and new at once.
- `MaxRx` bounds the reports: one to answer, a second to answer again before the
  first answer was sent, or to arrive out of turn.
- `RxKind` and `MayUnplug` select the faults of a run.
- `MaxOpen` is 20 as in the code; the limit itself is proved about only through
  the open rule.
- `Server`: `MaxEvents` 2 lets a device leave and return, or be let go and glitch;
  `MaxRequests` 2 lets the session open and use or close.  `MaxIndex` 4 stands for
  2^16 - 1 and is so large that an index that is still recorded is not given
  out again; with a smaller one `CtlPerDevice` and `UsesOpened` are false, as they
  are in the code after 65535 plug-ins.
- `Client`: `MaxIndex` 4 (5 in the code) lets indexes come round within 8 requests; `Threads`
  2 lets one thread come between the two locks of another's call; `Phases` 2 (the code
  has dozens) gives a first, a next and a last phase.  `MaxLate` 2 is the most for which
  `EachIsAnswered` is proved with these indexes (section 4); with `MaxIndex` 3, two requests given up and
  10 calls, TLC finds an index given out again while the callback holds its result.
- `Opos`: a second card makes events overtake, a second opening shows what the first
  left behind, two faults are a suspension and an unplugging, or two of either.
- `Update`: `Polls` 2 (a limit in seconds in the code) lets a device come at the
  last poll; 3 sectors of which the first, a middle and the last differ in the plan;
  files smaller than the area; `MaxRuns` 2, so that an update killed at any step is
  taken up by another.  A directory holds either rom files or raw files
  (`MCDirs`): in one with both, `RunsWhole`, `PlanFits` and `KeepsPromise` are false
  (3.4).  Its starts give an index only with its rom file and without a screen; on the
  instance of `MCUpdater` where a user selects again (`ForcedItems` and the others, with `Polls` 1,
  `Linux` FALSE and `MaxPowerLoss` 0), which has 700 thousand states and comes to overruns and to unused
  entries, `AllWritten` of section 4 holds and the three properties do not (3.4).

### 3.3 Fairness

The liveness runs assume weak fairness of whole threads: the controller's steps
and the driver's worker (`DevExclusive`, `HidDriver`), the plug thread and each
controller's thread (`Server`), the application's threads, the callback and the
settings' threads (`Client`), the worker (`Opos`), the updater's thread and loops (`Update`).
Each is the loop of a dedicated thread that runs as long as its object exists, with
a sleep or a wait with a limit in each iteration; an enabled step stays enabled
until the thread takes it.  Further:

- `Server`: answers get written, and the updater takes back the device it had let go
  (strong fairness, since the library's mutex is taken and released meanwhile).
- `Client`: the server answers cancels and transmits, which `NonReadAnswered` shows of the
  controller; the wait of a read that bypasses the device has a limit.
- `Opos`: handlers return, and the two waits of two seconds end.
- `Update`: a device that leaves comes back, and one that is told to restart leaves.

Nothing is assumed of users: nobody need send, call, swipe a card, press a
button, plug a device in, or wake the system up.  A read is never required to end.

### 3.4 Violations found while modelling

Each run is listed with `expect` = `violation` and a finding in `PROJECT.json`
that quotes the line which says otherwise.

| run | what happens |
|---|---|
| `VPulledInUse` | a device is pulled while its controller has a request under way; the plug thread joins that controller's thread under the mutex it needs, or which waits for a driver that is gone: no device is found any more |
| `VStaleCard` | the index of a wait is that of the card that is still cached; `LPU237_get_data` hands out the earlier card |
| `VResume` | after a suspension a reader on USB is opened again but not put into the mode in which it gives its cards to the program |

Further disagreements that show in the models and have no run here:

Controller and driver.
A session that closes while it reads cancels the reads of all others, since no
recover flag is set on this path (`CloseReading`).
A report between the setting of the flags and the write uses the flags up, and the other
session's read is cancelled all the same (`ReadCallback`).
A read that meets an ill-formed report at its first try is dropped although its callback
asks to read again (`FinishNew`).
On a device with support for sharing, a shared open succeeds while another session has
it exclusively, and an exclusive open while others share it, for in shared mode the
rule is not asked at all (`MayOpen`).
The late end of a callback makes a session idle that reads again; its close then
leaves that read behind (`StopWaiting`).
A transmit without data is a bare read to the driver, is parked and dropped, and the
controller waits forever (`PopPark`).
The loop that collects answers skips a queue after one it erases, and the worker stops
looking: the answer stays unsent (`Reached`).
An answer that comes before the change of state leaves the session in `asy` with nothing
to wait for (`Reading`).
A read does not cancel an ongoing read, as the comment of `start_read` says, but is
parked behind it (`PopPark`).

Client libraries.
A callback of settings may come before the start has filled in its entry: the mutex made
for this is handed out and not locked (`tg_lpu237_tools.cpp:170`), the entry has no phases, and
the settings end without telling anybody (`early`).
`LPU237_tools_msr_cancel` waits without its limit, and never returns with no settings on
their way; it then cancels the next ones (`Cancel`).
After a late answer the callback removes the popped index before it looks the result up,
and uses what it does not find (`FindResult`).

Updater.
Versions are compared part by part: 1.2.0.5 is an update of 1.3.0.1 (`ConditionOK`),
although the manual of the interface requires one "higher than or equal to the current
MSR FW version" (`src/doc/lpu237_api_fw_user_manual.md:242`).
In a directory with a rom file and a raw file, a user who has selected the rom file, goes
back from its list of firmwares and selects the raw file leaves the rom's index selected:
`set_rom_file_abs_full_path` (`src/shared/projects/lpu230_update/cshare.cpp:201`, `SetPath`)
does not reset it.  The sectors are planned for the size of the raw file and read from the
rom's item (`Source`), although `cshare.h:171` speaks of the "firmware of the selected rom
file. or raw bin file.", and the device is started with half a firmware.  TLC shows it in 22 steps with
`MCDirs == {{"r", "b"}}`; the proofs in section 4 say exactly what is missing.
A signal ends the process
although it may not exit, on Linux (`Kill`); a loop with a screen may end with messages in its
queue (`UiLoop`).
After the erase an index of the command line replaces what the user has selected
(`src/shared/projects/lpu230_update/cupdater.cpp:1543`, `ForceFirmware`), for which the plan was made.  With
another item of the same rom file, sectors are read that end behind the item, or only a part of it is written.
With `b.rom` selected, which has fewer items than the index of `a.rom` on the command line says, the
sectors are the first bytes of `b.rom`, its header.  In either case the device is
started with what is no firmware, although `cshare.h:172` promises a sector "from the selected firmware".
With a larger item planned than forced, the buffer is overrun (`Overruns`); with a raw file and no rom file
loaded, nothing can be read, after the erase.  TLC shows it with the files and
starts `ForcedItems`, `ForcedRomSize`, `ForcedDirs` and `ForcedStarts` of `MCUpdater`: `PlanFits` is false after
13 steps, `RunsWhole` and with it `KeepsPromise` after 18.  The proofs say what is missing
(`IndexSelected`).

OPOS.
A close that times out while the system is suspended leaves the request in the queue,
releasing the device drops it, and resuming opens the reader of a closed service object; the
next open fails, for the library has the reader open (`CloseReturns`, `Resume`).
Events outlive a close and an open (`OpenService`), and an event may be told after it was
frozen, cleared or closed (`FireQ`).

## 4. What is proved

`HidDev_proofs` proves for `HidSpec`, with any number of requests and reports
and any set of report kinds (`HidAssumption`), every invariant of the run
`HidDriver`, and that reads are parked only behind a current read (`ReadyForParked`).

1. `DriverInvariant`: `WorkerInv` is inductive.  It is the conjunction of
   `TypeOK`, `NotifyOldFirst`, `ReadyForParked` and the fact that items which
   wait, in the queue or parked, have no outcome yet (`Untouched`).  These need each
   other: that a popped or taken-up item is not yet complete is what keeps
   `NotifyOldFirst`, and that only a read becomes current is what keeps the parked
   queue to reads.  `TypeCorrect`, `OutcomesNotified` and `ParkedBehindCurrent`
   follow.  The last one is what justifies leaving the branch that takes up a
   parked read when none is current (`_worker`, lines 923-944) out of the model:
   it is never entered.
2. `RepluginOnlyWhenDead` and `InOrderOfDevice`: `ReportsInv` adds that reports
   are numbered up to `nrx` and ascend, and that the mark of a dead thread comes last.
3. `ItemsInOrder`: `LineInv` states `InOrder` place by place (the current item,
   the parked ones, the new one, the queue: each ascending, each before the next,
   none of them told), because a statement about positions in a concatenation
   is hard on the provers; the last lemma goes from it to `InOrder`.

`DevUse_proofs` first proves `ExclusiveWithoutSharing`: on a device without support for
sharing at most one session has it open, for any number of sessions and any
interleaving.  `OpenedByOne` (the mode is exclusive, and two open sessions
are equal) is inductive: an open asks the open rule, which grants it only
if nobody has the device open, and no other event leaves the state `not`.  With
`SupportShare` the property is false (see 3.4).

It then proves the refinement `DriverImplemented` (`DevSpec => HidSpec`),
and `DevTypeCorrect` with it.  A step of the controller that starts a request is
a step `Submit` of the driver only if the request is younger than all that have
been started, and a callback returns what the driver allows only if the reads
it names have been started.  Neither can be seen from the step alone, so `UseInv`
adds to the driver's `WorkerInv` that the requests which wait ascend and are above
those started (`StartOrder`), that the one which is about to be started is
between them (`AboutToStart`: a close or a request that has set the flags is
popped in one step and started in another), and that the reads in the read
queues have been started (`ReadsStarted`).  From the refinement
`DriverKeepsItsWord` carries the driver's invariants over to the composition.

At its end `DevUse_proofs` proves `EveryRequestAnsweredOnce`, the controller's main
promise.  `AnswerInv` says where a request can be: it is unanswered exactly as long
as it is in the queue, executed, or in a read queue (`Kept`); no read is in two places
(`QueuedOnce`); the request executed is in a read queue only between the start of
the read and the change of state (`Executing`); and the queue of the requests whose
sender waits holds nothing but the request executed (`WaitsForOwn`), which is
why the code's search for it among what is collected is enough to send
its answer once.  Nothing is assumed of the device: the theorem covers lost and
ill-formed reports and an unplugging at any time.  The two invariants of requests
and queues are proved in this order because `AnswerInv` needs `UseInv`: a
popped request is in no read queue, for what is in one has been started.

`DevTurn_proofs` proves that what the driver hands back reaches the request it
belongs to, for any number of sessions, requests and reports, lost and ill-formed
ones included, with the device unplugged at any time.

1. `AnswersItsOwn` (`SyncMatch`): `SyncInv` says of every place where the driver
   keeps an item (the queue, the parked reads, the current and the new item) that one whose sender
   blocks is that of the request the controller's thread blocks for, and is not
   answered; the exception is the item whose callback has just run, which the end of the callback
   removes.  It rests on `AnswerInv` (one request in the blocking queue), on `UseInv` and on
   `LineInv`: uids in the driver's line are distinct, so there is no second item of
   the request just answered.
2. `BlockedHasItem` (`BlockedIsServed`) is the converse, `ServedInv`: while the thread blocks,
   the item is in the queue or is the new one, for only reads become current or
   are parked, and what blocks is not a read.  Its hypothesis `NoBareRead` is needed: a
   transmit without data becomes a read whose sender blocks; behind a current read it
   is parked, and dropped if nobody wants a report when that read ends (`KindOf`,
   `PopPark`, `FinishCur`).
3. `SentInTurn` (`ReportsInTurn`): `Past(n)` says that every report a callback may still be
   given is later than `n`, and is kept by every step of the driver (`PastStays`); a
   callback is given a report later than all that is past, and makes it past
   (`CallbackPast`).  `TurnInv` says that the reads of a session are queued in order, that only
   the first may have an answer, and that both the reads which have been sent a report and those
   reports come before what is queued.  `OneReport`, that the current and
   the new item never hold a report each, is what keeps the two callbacks of one iteration in order.
   TLC checked `TurnInv` on the instances of `DevShared` and `DevFaults`, and on 2 sessions with all kinds
   of reports, before the proof.

`DevReads_proofs` proves what is promised of reads, which is the hardest part of the
controller: the callback of one item answers the first reads of all sessions, a cancel takes away
an item that others' reads rely on too, and the worker drops or takes up parked items by what
that callback returns.  Its results hold for any number of sessions, requests and reports, with
the device unplugged at any time.

1. `CancelledByOwnAlone` (`CancelledByOwn`, device without sharing).  `CancelledInv` carries the
   property from the answers that were sent back to the reads that are queued: what has been answered as cancelled,
   or is queued for a session that has closed, has a later request of its session.  Only the callback
   of a cancelled read can break it.  `CancelInv` says that a read is cancelled only by an item whose
   sender blocks, and `SyncInv` that this is the request the controller's thread blocks for; `ExecInv`,
   that this one is the last that was started and its session has the device open.  By `OpenedByOne`
   every other session has closed.  Nothing is assumed of clients or reports.
2. `WaitingReadServed` and `WaitingReadServedAlone` (`ReadBeingServed`).  `AllTracked` gives every read that
   waits its place: in the driver's queue, with the worker while reading works (`readOk`), or named by
   the callback that is ending.  From here on the use of the device is limited (`Usage`): one
   mode (`OneMode`: a device that supports sharing is opened for sharing only), well-formed
   reports (`WellFormed`) and no second read before the first is answered (`OneAtATime`).  TLC finds
   reads that are forgotten without `WellFormed` (3.4) and without `OneAtATime`: with two
   reads of one session the report for the first drops the parked item of the second.  By `OneMode`
   every read has the same callback (`FineInv`); with mixed modes TLC finds `CancelledByOwn` violated,
   and found no read forgotten on small instances.  A transmit without data, which is a bare read to the
   driver, is no exception here: while it is current nobody's read waits (`NoneBehindBare`),
   since nothing is started after what the controller's thread blocks for.
3. `WaitingReadIsAsy` and `WaitingReadIsAsyAlone` (`WaitingIsAsy`).  `Clear` and `FlagInv` follow the recover flags: a read that
   waits carries one only for a request of another session which has not yet cancelled, and when a request
   wakes the controller's thread no read of its own session waits any more, so that its change of state
   is right.  `StaysCleared` and `BecomesCleared` say how a request gets there; the second
   needs that nothing is queued behind it (`LastStarted`) and `AllTracked`.
4. `CancelledByOwnShared` (`CancelledByOwn`, `Usage`).  `OthersFlagged`: when a request blocks and has not yet cancelled, every
   read that waits is its own session's or flagged.  A request that sets no flags may do so only because nobody else is
   reading, which the controller takes from the map of states; so this needs `WaitingIsAsy`.

The hypotheses of the results on shared devices are conditions on behaviours, the events of 3.4 that the code does not
prevent: `FlagUsed` (a report or an error comes between the setting of the flags and the cancelling),
`LateEnd` (a new read is started before the end of the callback that answered the last),
`CloseBeside` (a close while another session reads) and `Overwrites` (a cancelled read answers another session's
read over a report that was not yet sent).  Each theorem names the ones it needs.  With one of them
allowed and the others excluded TLC finds `CancelledByOwn` violated, for each of the four, `ReadBeingServed`
with `FlagUsed` allowed, and `WaitingIsAsy` with either of its two.  These were checks on the side, on 2 sessions
and up to 8 requests; in the same way TLC checked the inductive invariants, with states in which a
hypothesis fails cut off, before they were proved.

`Server_proofs` proves `TypesInvariant` and `GoneClients`: a client that is gone and of
whose requests none is left holds no device, for any number of devices, sessions and
requests, and also when indexes come round, if clients do not leave while an open is under
way (`Patient`).  When a client leaves, a close is pushed for each device recorded
for it, so everything depends on the record.  `HoldInv` says where an opened
device is known: a session that is connected and has a device open has it recorded, or
an answer to its open is being written with no close after it (`InKnowsOpen`); a
session that is gone has no open on its way and a close on its way for everything it
still has open (`GoneCloses`); one that has not yet come has nothing (`NewHasNone`), and
one that is gone nothing recorded (`OutHasNone`).  `OpenIsLive` (only a controller that exists
is open) makes the destruction of a controller, and the reuse of its index, safe; `WaitIsIo`
says that the thread which waits for the driver is not opening.

It also proves `CtlForEach` (`CtlPerDevice`) and `UsedIsOpen` (`UsesOpened`), in two parts.

1. As long as an index is used by nobody when it is handed out (`FreshIndex`: no
   controller, no thread, no recorded use and no answer on its way has it), both hold for any
   number of devices, sessions and events (`OneController`, `KeepsMeaning`).  `CtlInv` follows the
   steps of the plug in and out thread: the devices with a controller are those listed without
   the ones left to be made (`Left`), and the ones left to be destroyed (`Gone`); a destroyed
   controller is thus of a device that is not listed, and a new one of a device that has none.
   `SaidIsOpen` says of a recorded use, and of every answer that will record one, that the session
   has the device open or the answer of its close comes later; the order of the answers
   in `writes` matters, as an open, a close and an open of one device may all be on their way.
2. `RoomForAll` proves `FreshIndex` if there are at least as many indexes as devices and events
   (`Roomy`, the relation that the bounds of the run keep).  `ToCome` counts
   the controllers that can still be asked for, a device that is let go or broken once more; it
   never grows, falls with each index handed out, and stays within the indexes that are
   still unused (`RoomInv`).  Without such a bound the code does hand out an
   index that is still recorded, and TLC finds both properties violated (3 indexes, 2 devices, 4 events).

`MsrClient_proofs` proves the three invariants of the run `Client`, for any number of threads,
tracks, phases of settings and requests.  An answer names no request: the callback takes it for the oldest
result that is queued, and a request that is given up after three seconds shifts all that
follows.  The hypothesis of the three results on answers, besides a minimum of indexes, is `Alone` (3.1).

1. `TypesInvariant` (`TypeOK`).  The counters stay in their bounds because a call begins only if the
   requests it needs are left; `Owed` says how many.
2. `AnsweredWhenFresh` (`EachIsAnswered`).  The invariant is `Core`: at most one result is queued, or two
   during a reset (`Shape`); the call under way is about the newest one (`CallOf`); nothing queued has been answered
   (`ResultInv`); settings have the newest result and run while no call does (`SettingsInv`);
   requests, waiting reads and answers together form one line in the order of the requests (`OrderInv`,
   whose lemmas `ReadWaits`, `AllMove` and `FirstAnswered` say that the server never reorders it); and each result queued
   has its answer in that line (`ComeInv`).  A late answer may take a newer result off the queue, but then the
   caller of that one is told the late answer, and nothing stays queued behind the last answer.  Nothing
   bounds the requests given up, but a result may be made anew only when the callback holds no reference to the one
   with its index (`FreshResult`); the code does not lock between the look-up and the filling in.
3. `EveryResultAnswered` proves `FreshResult` if at least three requests fewer are given up than there are
   indexes (`MaxLate + 2 <= MaxIndex`, with indexes 0 to `MaxIndex`; three with the code's six).  `Young`
   is the reason: the result the callback holds is at most as many requests old as were given up or
   are queued, for every request that ended otherwise has taken an answer from the line.
4. `AnswerGoesHome` (`AnswersGoHome`): while none was given up, what is to come is for what is queued, and the
   callback holds the result of the request whose answer it has.  `HomeInv` adds to `Core` that threads of settings
   run only when nothing is to come, and that a result goes on to its next phase only while it is still queued.

`OposMsr_proofs` proves the three invariants of the run `Opos`, for any number of cards, of
openings and of suspensions and unpluggings.  `CardsTold` (`NoUntoldCard`): `CardInv` says that
an event that waits belongs to the card whose data are there, or that this card's event has been told
before it; the moment between the reading of the data and the event, in which neither
holds, belongs to the worker alone.  `ClosesForGood` (`ClosedForGood`): `CloseInv` follows the
service object through the phases of its life; requests are numbered, and the number of the one
completed last tells a call that waits whether the worker has seen its request or is going to.

`Updater_proofs` proves every invariant of the run `Update` and the refinement
of `Firmware`, for any files, command lines and sizes, any number of sectors, processes
and losses of power, and a device that tells its sectors or does not.

1. `Types` and `ParamsRestored` (`ParamsKept`) hold without a condition; only
   an erase loses the parameters, and the worker comes to the steps after the recovery only by
   writing them back.
2. `NeverHalf` (`RunsWhole`), `PromiseKept` (`KeepsPromise`), `PlanForTheRead` (`PlanFits`) and
   `ReadsFirmware` (`FirmwareRead`) have two hypotheses: the selected item belongs to the selected
   file (`OwnItem`), and an index of the command line is the selected one when it is forced
   (`IndexSelected`).  The dialogs see to neither (3.4).  `SelectionOwn` proves the first if no dialog
   offers both kinds of files (`Unmixed`), `IndexSame` the second if an index comes with its rom file
   and without a dialog (`IndexAlone`, which is how the coffee manager may give one); both are assumptions on
   the ways to start the program and the directories, and `NeverHalfUnmixed`, `PromiseKeptUnmixed` and
   `PlanForTheReadUnmixed` are the results under these alone.  They also rest on `RomsAssumption`: the items
   lie in their file and their entries in its header, as the builder of rom files makes them.
   `FlashInv` is the argument: once the worker has begun to erase, the first sector,
   without which the bootloader stays, is empty, and stays so while the other pieces
   of the source come to their places one by one; the first is written last, when all others are there.
   Each read gives exactly the piece of its sector (`ReadGives`), since the plan is that of the source from
   the erase to the last read (`PlanSize`) and the source lies in its file (`SourceLies`).
   Whatever is killed, unplugged or started again keeps what is in the flash.
   The refinement is proved action by action: each step is the abstract
   device's erase, write, start or stop, or does not change it.
3. `WritesAll` (`AllWritten`) is what remains without these hypotheses: `WrittenInv` says that the
   sectors written so far, and the one in the buffer, come from what is selected, whatever that is.
4. `EndHeard` (`EndTold`) holds without a condition, on Linux and Windows.  `EndInv` bounds the number of
   messages that have been told, or wait, from below by the steps announced (`Counted`),
   says that a thread which closes has queued its error or its last message (`SaidWhy`), and
   that the bar is at its end when the last message is taken (`DoneAtEnd`); so a loop without a
   screen, which ends when the thread does not run and the queue is empty, has told the end.  TLC checked it on the instance of the run
   `Update` first.

Only model-checked: liveness (`NonReadServed`, `NonReadAnswered`, `CompletedSent`, `Managed`,
`RequestEnds`, `CallsReturn`, `EventsTold`, `Listens`, `UpdateEnds`), which is out of the prover's reach.
Every invariant and every refinement that a run checks is proved, some under hypotheses that the theorem names.

## 5. What is not modelled

- Of the controller: `process_sub_bootloader` (a child process) and the server's own requests
  (`is_self`); the parsing of paths and the wording of answers.
- The race between `expired()` and `lock()` of the weak pointer to the driver: it
  would be a crash, and the look-up is one step here.  The gap between the destructors of a
  controller and of its base class, for the same reason.
- The kernel and manager controllers: one request, one answer, no state.  What matters of
  them, that the updater can have a device let go and taken back, is in `Server`.
- The event object `cwait`: waiting is the guard of the step that goes on.
- The HID API bridges and the splitting of a composite device: calls of a vendored library.
- Of the client library: connecting, disconnecting, and answers to open and close;
  of the device libraries: the i-button library, listings, single settings, which read and
  write a local copy, and the encoding of the reader's protocol (`cprotocol_lpu237.h`,
  `ckey_map.h`), which is data layout without control.
- Of the updater: the rendering of the dialogs; the part of the server that starts it; what a read
  beyond the buffer overwrites; the format of a rom file's header, and rom files that were not built as such; a
  sector that is written by half, for which the bootloader is responsible.
- Of OPOS: the serial line, the parsing of tracks, error events (never sent on USB
  for a lost reader), the process's end, the objects for key locks and PIN pads, and the
  framework under `src/opos/common`, which is an older generation of the same driver.
- The daemon, services, the Java binding, the MCP servers: process start, configuration,
  logging, and wrappers.

The map covers a small share of the lines of the repository: most of them are
vendored libraries, tables, user interfaces, older generations of the same code for other
platforms, and wrappers.  The threads, queues and protocols that the hazards list names are
covered.

## 6. Plan

Done: the driver, the controller, the server around it, the client libraries, the OPOS
service object, the updater with its abstract specification; the proofs of the
driver's invariants, of the refinement `DevSpec => HidSpec`, of `AnsweredOnce`, of `SyncMatch`,
`BlockedIsServed` and `ReportsInTurn`, of `ReadBeingServed`, `WaitingIsAsy` and `CancelledByOwn`, of the exclusive use of a device, of all invariants of `Server`, of all invariants of `MsrClient`, `OposMsr` and `Updater`, and of the
refinement of `Firmware`.  Next, in this order:

1. `OneAnswer`, an abstract specification of request and answer, refined by
   `DevCtl` (the refinement mapping needs `AnswerInv`) and used by `MsrClient`.
2. The serial line of the OPOS service object, whose recovery is entered from errors.
