------------------------------ MODULE Updater ------------------------------
(***************************************************************************)
(* The firmware updater at work: the update thread, the loop that shows    *)
(* and reports its messages, and the device it writes.  The process may be *)
(* killed and started again; the device may lose its power and answers, or *)
(* does not answer, each request.                                          *)
(***************************************************************************)
EXTENDS FwSelect

CONSTANTS
    Polls,        \* how often a plug in or out is looked for
    SecInfo,      \* the device tells its sectors
    FirstSector, AppSectors,  \* what it tells
    Linux,        \* signals end the process even when it may not exit
    MaxRuns, MaxPowerLoss     \* bounds: processes, losses of power

ASSUME UpdaterAssumption ==
    /\ Polls \in Nat \ {0} /\ MaxRuns \in Nat \ {0} /\ MaxPowerLoss \in Nat
    /\ SecInfo \in BOOLEAN /\ Linux \in BOOLEAN
    /\ FirstSector \in Nat \ {0} /\ AppSectors \in Nat \ {0}
    /\ {"old", "erased"} \cap (Roms \cup Bins) = {}

VARIABLES
    worker,    \* the step the thread is at, a position in it, its polls
    plan,      \* the sectors to erase and to write, in order
    buf,       \* the sector read from the file
    lib,       \* clibhid: the usb filter and the devices of the last update
    bootPath,  \* the path of the bootloader is known
    link,      \* the device the process has open
    saved,     \* parameter transactions saved in memory
    msgs,      \* the queue of messages
    told,      \* what the server was told
    exitOk,    \* m_b_is_possible_exit
    alive,     \* the process
    runs,      \* processes so far
    dev, flash, params, losses  \* the device

procVars == <<worker, plan, buf, lib, bootPath, link, saved, msgs, told, exitOk, alive, runs>>
devVars == <<dev, flash, params, losses>>
vars == <<selVars, procVars, devVars>>

-----------------------------------------------------------------------------
(* The device.  It runs its application or its bootloader; it leaves and   *)
(* comes back when it changes from one to the other.  A sector holds the   *)
(* old firmware, nothing, or a piece: so much of a source from an offset.  *)

First == IF SecInfo THEN FirstSector ELSE 1
Area == IF SecInfo THEN AppSectors ELSE 7
AppArea == First .. First + Area - 1
SystemSector == First + Area - 1

Piece(src, from, len) == [source |-> src, from |-> from, len |-> len]
NoPiece == Piece([file |-> NoFile, item |-> NoItem], 0, 0)
Old == Piece([file |-> "old", item |-> NoItem], 0, 0)
Erased == Piece([file |-> "erased", item |-> NoItem], 0, 0)

\* The bootloader starts the application whose first sector is there.
Bootable == flash[First] # Erased

DevInit ==
    /\ dev \in [mode : {"app", "boot"}, next : {"app", "boot"}, on : {TRUE}]
    /\ dev.next = dev.mode
    /\ flash = [s \in AppArea |-> Old]
    /\ params = "user"
    /\ losses = 0

DevLeave ==
    /\ dev.on /\ dev.next # dev.mode
    /\ dev' = [dev EXCEPT !.on = FALSE, !.mode = dev.next]
    /\ UNCHANGED <<selVars, procVars, flash, params, losses>>

DevReturn ==
    /\ ~dev.on
    /\ dev' = [dev EXCEPT !.on = TRUE]
    /\ UNCHANGED <<selVars, procVars, flash, params, losses>>

\* After a loss of power the bootloader decides what runs.
DevPowerLoss ==
    /\ dev.on /\ losses < MaxPowerLoss
    /\ LET m == IF Bootable THEN "app" ELSE "boot"
       IN  dev' = [mode |-> m, next |-> m, on |-> FALSE]
    /\ losses' = losses + 1
    /\ link' = "none"
    /\ UNCHANGED <<selVars, worker, plan, buf, lib, bootPath, saved, msgs, told,
                   exitOk, alive, runs, flash, params>>

\* A request reaches the device the process has open.
Reaches(mode) == link = mode /\ dev.on /\ dev.mode = mode /\ dev.next = mode

-----------------------------------------------------------------------------
(* The library that lists the devices.  removed and inserted are the       *)
(* differences between the last list and this one, both under a filter.    *)

Seen(filter) == IF dev.on THEN {dev.mode} \cap filter ELSE {}
Inserted == Seen(lib.filter) \ lib.base
Removed == lib.base \ Seen(lib.filter)
Listed(filter) == [filter |-> filter, base |-> Seen(filter)]

-----------------------------------------------------------------------------
(* The thread's helpers. *)

WorkerSteps == {"wait", "backup", "runBoot", "outLpu", "inBoot", "stopBoot", "setup",
                "erase", "force", "read", "write", "runApp", "outBoot", "inLpu",
                "recover", "inf", "iso", "done", "closing", "end"}

At(pc) == alive /\ thread /\ worker.pc = pc
Goto(pc) == worker' = [pc |-> pc, pos |-> 1, polls |-> Polls]
Stay == worker' = [worker EXCEPT !.pos = @ + 1]

Push(ms) == msgs' = msgs \o ms
PollAgain == worker' = [worker EXCEPT !.polls = @ - 1] /\ UNCHANGED msgs
Ok == <<"ok">>
Err == <<"err">>

\* A step that fails ends the update: the state, a message for repainting,
\* and the flag that ends the thread and, with no screen, the program.
Fail(ms) ==
    /\ ui' = [ui EXCEPT !.state = IF @ = "s_ing" THEN "s_com" ELSE @]
    /\ Push(ms \o <<"repaint">>)
    /\ running' = FALSE
    /\ Goto("closing")

KeepUi == UNCHANGED <<ui, running>>
KeepSel == UNCHANGED <<start, dir, thread, told, alive, runs>>
KeepDev == UNCHANGED devVars
KeepPlan == UNCHANGED <<sel, plan, buf>>
KeepLib == UNCHANGED <<lib, bootPath>>

\* The thread sleeps until the state is s_ing.
WorkerStart ==
    /\ At("wait")
    /\ \/ ~running /\ Goto("closing") /\ UNCHANGED exitOk
       \/ running /\ ui.state = "s_ing" /\ Goto("backup") /\ exitOk' = FALSE
    /\ KeepUi /\ KeepSel /\ KeepDev /\ KeepPlan /\ KeepLib /\ UNCHANGED <<link, saved, msgs>>

\* Mutant of Backup: one transaction too many.
BackupOneMore ==
    /\ At("backup")
    /\ \/ /\ start.boot \/ saved = NGet + 1
          /\ Goto("runBoot") /\ KeepUi /\ UNCHANGED <<link, saved, msgs>>
       \/ /\ ~start.boot /\ saved < NGet + 1 /\ Reaches("app")
          /\ saved' = saved + 1
          /\ Push(Ok) /\ KeepUi /\ UNCHANGED <<link, worker>>
    /\ KeepSel /\ KeepDev /\ KeepPlan /\ KeepLib /\ UNCHANGED exitOk

\* One transaction of the parameters, or none from the bootloader.
Backup ==
    /\ At("backup")
    /\ \/ /\ start.boot \/ saved = NGet
          /\ Goto("runBoot") /\ KeepUi /\ UNCHANGED <<link, saved, msgs>>
       \/ /\ ~start.boot /\ saved < NGet /\ Reaches("app")
          /\ saved' = saved + 1
          /\ Push(Ok) /\ KeepUi /\ UNCHANGED <<link, worker>>
       \/ /\ ~start.boot /\ saved < NGet
          /\ Fail(Err) /\ link' = "none" /\ UNCHANGED saved
    /\ KeepSel /\ KeepDev /\ KeepPlan /\ KeepLib /\ UNCHANGED exitOk

\* All three kinds are listed before the device is told to go; whatever the
\* answer, the device is closed.
RunBootloader ==
    /\ At("runBoot")
    /\ IF start.boot
         THEN /\ Goto("stopBoot") /\ KeepUi /\ KeepLib
              /\ UNCHANGED <<link, msgs, dev>>
         ELSE /\ lib' = Listed({"app", "boot"}) /\ UNCHANGED bootPath
              /\ link' = "none"
              /\ \/ /\ Reaches("app")
                    /\ dev' = [dev EXCEPT !.next = "boot"]
                    /\ \/ Goto("outLpu") /\ Push(Ok \o Ok) /\ KeepUi
                       \/ Fail(Err)
                 \/ Fail(Err) /\ UNCHANGED dev
    /\ KeepSel /\ KeepPlan /\ UNCHANGED <<saved, exitOk, flash, params, losses>>

\* Poll until the application is gone; the bootloader may be there already.
\* A timeout is told as an error, and the update goes on.
WaitPlugoutApp ==
    /\ At("outLpu")
    /\ lib' = Listed(lib.filter)
    /\ \/ /\ "app" \in Removed /\ "boot" \in Inserted
          /\ bootPath' = TRUE /\ Push(Ok) /\ Goto("stopBoot")
       \/ /\ "app" \in Removed /\ "boot" \notin Inserted
          /\ Push(Ok) /\ Goto("inBoot") /\ UNCHANGED bootPath
       \/ /\ "app" \notin Removed
          /\ IF worker.polls > 1 THEN PollAgain ELSE Push(Err \o Ok) /\ Goto("inBoot")
          /\ UNCHANGED bootPath
    /\ KeepUi /\ KeepSel /\ KeepDev /\ KeepPlan /\ UNCHANGED <<link, saved, exitOk>>

WaitPluginBoot ==
    /\ At("inBoot")
    /\ lib' = Listed(lib.filter)
    /\ \/ "boot" \in Inserted /\ bootPath' = TRUE /\ Goto("stopBoot") /\ UNCHANGED msgs
       \/ /\ "boot" \notin Inserted
          /\ IF worker.polls > 1 THEN PollAgain ELSE Push(Err) /\ Goto("stopBoot")
          /\ UNCHANGED bootPath
    /\ KeepUi /\ KeepSel /\ KeepDev /\ KeepPlan /\ UNCHANGED <<link, saved, exitOk>>

\* The server is asked to let go of every bootloader; its answer is not
\* looked at.
StopBootUse ==
    /\ At("stopBoot")
    /\ lib' = Listed({"boot"})
    /\ Goto("setup")
    /\ KeepUi /\ KeepSel /\ KeepDev /\ KeepPlan
    /\ UNCHANGED <<bootPath, link, saved, msgs, exitOk>>

NoPlan == [erase |-> << >>, write |-> << >>]

\* Mutants of PlanFor: written in the order of the sectors; the first sector
\* erased after the others of the firmware.
PlanForInOrder(size) ==
    LET n == Sectors(size)
    IN  IF n = 0 \/ n > Area - 1
          THEN NoPlan
          ELSE [erase |-> [i \in 1 .. n |-> First + i - 1] \o <<SystemSector>>,
                write |-> [i \in 1 .. n |-> First + i - 1]]
PlanForEraseBack(size) ==
    LET n == Sectors(size)
    IN  IF n = 0 \/ n > Area - 1
          THEN NoPlan
          ELSE [erase |-> [i \in 1 .. n |-> First + n - i] \o <<SystemSector>>,
                write |-> [i \in 1 .. n - 1 |-> First + i] \o <<First>>]

\* The sectors for so many bytes.  The last sector of the area holds the
\* parameters; the first, which makes the firmware start, is written last.
PlanFor(size) ==
    LET n == Sectors(size)
    IN  IF n = 0 \/ n > Area - 1
          THEN NoPlan
          ELSE [erase |-> [i \in 1 .. n |-> First + i - 1] \o <<SystemSector>>,
                write |-> [i \in 1 .. n - 1 |-> First + i] \o <<First>>]

\* Open the bootloader, ask for its sectors, plan.  Too large a firmware
\* leaves the plan empty, without an error here.
Setup ==
    /\ At("setup")
    /\ lib' = IF bootPath THEN Listed({"boot"}) ELSE lib
    /\ \/ /\ bootPath /\ Seen({"boot"}) # {}
          /\ link' = "boot" /\ plan' = PlanFor(sel.size)
          /\ Push(Ok) /\ Goto("erase") /\ KeepUi
       \/ /\ plan' = NoPlan
          /\ Fail(Err) /\ UNCHANGED link
    /\ KeepSel /\ KeepDev /\ UNCHANGED <<sel, buf, bootPath, saved, exitOk>>

\* What the device erases when it is asked for sector s.  A bootloader that
\* does not tell its sectors erases all of them for the first.
ErasedBy(s) == IF SecInfo THEN {s} ELSE AppArea

EraseFlash(s) ==
    /\ flash' = [t \in AppArea |-> IF t \in ErasedBy(s) THEN Erased ELSE flash[t]]
    /\ params' = IF SystemSector \in ErasedBy(s) THEN "default" ELSE params
    /\ UNCHANGED <<dev, losses>>

\* An answer that does not come says nothing of what the device did.
EraseSector ==
    /\ At("erase")
    /\ \/ worker.pos > Len(plan.erase) /\ Goto("force") /\ KeepDev /\ KeepUi /\ UNCHANGED msgs
       \/ /\ worker.pos <= Len(plan.erase)
          /\ LET s == plan.erase[worker.pos] IN
             IF ~SecInfo /\ s # 1
               THEN Push(Ok) /\ Stay /\ KeepDev /\ KeepUi
               ELSE \/ /\ Reaches("boot") /\ EraseFlash(s)
                       /\ Fail(Err) \/ (Push(Ok) /\ Stay /\ KeepUi)
                    \/ Fail(Err) /\ KeepDev
    /\ KeepSel /\ KeepPlan /\ KeepLib /\ UNCHANGED <<link, saved, exitOk>>

\* The firmware index of the command line replaces the selection, after the
\* plan was made for it.
ForceFirmware ==
    /\ At("force")
    /\ sel' = IF start.index >= 0 THEN SetFirmware(sel, start.index) ELSE sel
    /\ Goto("read")
    /\ KeepUi /\ KeepSel /\ KeepDev /\ KeepLib
    /\ UNCHANGED <<plan, buf, link, saved, msgs, exitOk>>

-----------------------------------------------------------------------------
(* Reading and writing, sector by sector.                                  *)

\* The last but one of the plan holds the end of the firmware.
Wanted ==
    LET n == Len(plan.write)
    IN  IF n > 1 /\ worker.pos # n - 1 THEN SectorSize
        ELSE sel.size - (n - 1) * SectorSize

\* After a short read the next one starts at the beginning.
Offset ==
    IF worker.pos > 1 /\ buf.len < SectorSize THEN 0
    ELSE (plan.write[worker.pos] - First) * SectorSize

\* What a read can get.  A negative number of bytes wanted is unsigned in the
\* code, and more than there is in any file.
Upto(rest) ==
    CASE rest <= Offset -> 0
      [] rest > Offset /\ Wanted \in 0 .. rest - Offset -> Wanted
      [] OTHER -> rest - Offset

Got == {Upto(rest) : rest \in Remaining(Source(sel))}

Readable == sel.path # NoFile /\ plan.write # << >>

\* The buffer has room for a sector; what goes over it is not kept.
ReadSector ==
    /\ At("read")
    /\ \/ /\ Readable => 0 \in Got
          /\ Fail(Err) /\ UNCHANGED buf
       \/ /\ Readable
          /\ \E got \in Got \ {0} :
               buf' = Piece(Source(sel), Offset, IF got < SectorSize THEN got ELSE SectorSize)
          /\ worker' = [worker EXCEPT !.pc = "write"]
          /\ Push(Ok) /\ KeepUi
    /\ KeepSel /\ KeepDev /\ KeepLib /\ UNCHANGED <<sel, plan, link, saved, exitOk>>

\* The device programs a sector when it has all packets of it.
WriteFlash(s) ==
    /\ flash' = [flash EXCEPT ![s] = buf]
    /\ UNCHANGED <<dev, params, losses>>

WriteSector ==
    /\ At("write")
    /\ LET s == plan.write[worker.pos] IN
       \/ /\ Reaches("boot") /\ WriteFlash(s)
          /\ \/ Fail(Ok \o Err)
             \/ /\ Push(Ok) /\ KeepUi
                /\ IF worker.pos = Len(plan.write)
                     THEN Goto("runApp")
                     ELSE worker' = [worker EXCEPT !.pc = "read", !.pos = @ + 1]
       \/ Fail(Ok \o Err) /\ KeepDev
    /\ KeepSel /\ KeepPlan /\ KeepLib /\ UNCHANGED <<link, saved, exitOk>>

\* The handle is closed only if the request was sent.
RunApp ==
    /\ At("runApp")
    /\ \/ /\ Reaches("boot")
          /\ dev' = [dev EXCEPT !.next = "app"]
          /\ \/ /\ link' = "none" /\ lib' = [lib EXCEPT !.filter = {"app"}]
                /\ Push(Ok \o Ok) /\ Goto("outBoot") /\ KeepUi
             \/ Fail(Err) /\ UNCHANGED <<link, lib>>
       \/ Fail(Err) /\ UNCHANGED <<dev, link, lib>>
    /\ KeepSel /\ KeepPlan /\ UNCHANGED <<bootPath, saved, exitOk, flash, params, losses>>

\* The list is now of applications only: the bootloader is missing from it
\* at the first poll, whether it has left or not, and the next wait is for
\* the application.
WaitPlugoutBoot ==
    /\ At("outBoot")
    /\ lib' = Listed(lib.filter)
    /\ \/ /\ "boot" \in Removed
          /\ bootPath' = FALSE /\ Push(Ok) /\ Goto("inLpu") /\ KeepUi
       \/ /\ "boot" \notin Removed
          /\ IF worker.polls > 1 THEN PollAgain /\ KeepUi ELSE Fail(Err)
          /\ UNCHANGED bootPath
    /\ KeepSel /\ KeepDev /\ KeepPlan /\ UNCHANGED <<link, saved, exitOk>>

\* Mutant of WaitPluginApp: no limit of the polls.
WaitPluginAppForever ==
    /\ At("inLpu")
    /\ lib' = Listed(lib.filter)
    /\ \/ "app" \in Inserted /\ Push(Ok \o Ok) /\ Goto("recover") /\ KeepUi
       \/ "app" \notin Inserted /\ UNCHANGED <<msgs, worker>> /\ KeepUi
    /\ KeepSel /\ KeepDev /\ KeepPlan /\ UNCHANGED <<bootPath, link, saved, exitOk>>

WaitPluginApp ==
    /\ At("inLpu")
    /\ lib' = Listed(lib.filter)
    /\ \/ "app" \in Inserted /\ Push(Ok \o Ok) /\ Goto("recover") /\ KeepUi
       \/ /\ "app" \notin Inserted
          /\ IF worker.polls > 1 THEN PollAgain /\ KeepUi ELSE Fail(Err)
    /\ KeepSel /\ KeepDev /\ KeepPlan /\ UNCHANGED <<bootPath, link, saved, exitOk>>

\* Each request after the update opens the device for itself.
Answers == dev.on /\ dev.mode = "app" /\ dev.next = "app"

\* Mutant of Recover: an error is told, and the update goes on.
RecoverOrNot ==
    /\ At("recover")
    /\ \/ start.boot /\ Push(Ok) /\ Goto("inf") /\ UNCHANGED params
       \/ ~start.boot /\ Push(Err) /\ Goto("inf") /\ UNCHANGED params
    /\ KeepUi /\ KeepSel /\ KeepPlan /\ KeepLib
    /\ UNCHANGED <<link, saved, exitOk, dev, flash, losses>>

\* All the transactions that write the parameters saved before the update.
Recover ==
    /\ At("recover")
    /\ \/ /\ start.boot
          /\ Push(Ok) /\ Goto("inf") /\ KeepUi /\ UNCHANGED params
       \/ /\ ~start.boot /\ Answers
          /\ IF worker.pos < NSet
               THEN Push(Ok) /\ Stay /\ UNCHANGED params
               ELSE Push(Ok \o Ok) /\ Goto("inf") /\ params' = "user"
          /\ KeepUi
       \/ /\ ~start.boot
          /\ Fail(Err) \/ Fail(Err \o Err)
          /\ UNCHANGED params
    /\ KeepSel /\ KeepPlan /\ KeepLib /\ UNCHANGED <<link, saved, exitOk, dev, flash, losses>>

\* The two changes that may be asked for: of the interface, of the mode of
\* the reader's chip.
Change(pc, asked, next) ==
    /\ At(pc)
    /\ \/ ~asked /\ Goto(next) /\ KeepUi /\ UNCHANGED msgs
       \/ asked /\ Answers /\ Push(Ok \o Ok) /\ Goto(next) /\ KeepUi
       \/ asked /\ Fail(Ok \o Err)
    /\ KeepSel /\ KeepDev /\ KeepPlan /\ KeepLib /\ UNCHANGED <<link, saved, exitOk>>

ChangeInterface == Change("inf", start.inf, "iso")
SetIsoMode == Change("iso", start.iso, "done")

Done ==
    /\ At("done")
    /\ ui' = [ui EXCEPT !.state = IF @ = "s_ing" THEN "s_com" ELSE @]
    /\ Push(<<"done">>)
    /\ running' = FALSE
    /\ Goto("closing")
    /\ KeepSel /\ KeepDev /\ KeepPlan /\ KeepLib /\ UNCHANGED <<link, saved, exitOk>>

Closing ==
    /\ At("closing")
    /\ link' = "none" /\ exitOk' = TRUE /\ Goto("end")
    /\ KeepUi /\ KeepSel /\ KeepDev /\ KeepPlan /\ KeepLib /\ UNCHANGED <<saved, msgs>>

Worker ==
    \/ WorkerStart \/ Backup \/ RunBootloader \/ WaitPlugoutApp \/ WaitPluginBoot
    \/ StopBootUse \/ Setup \/ EraseSector \/ ForceFirmware \/ ReadSector
    \/ WriteSector \/ RunApp \/ WaitPlugoutBoot \/ WaitPluginApp \/ Recover
    \/ ChangeInterface \/ SetIsoMode \/ Done \/ Closing

-----------------------------------------------------------------------------
(* The loops of the main thread.  A message is told to the server with the *)
(* progress before it; the server takes an error, or a success at the end  *)
(* of the bar, for the end of the update.                                  *)

KeepWorker == UNCHANGED <<start, dir, sel, running, thread, worker, plan, buf, lib, bootPath,
                          link, saved, exitOk, runs>>

Told(m, cur) ==
    CASE m = "repaint" \/ ~start.notify -> told
      [] m = "err" /\ start.notify -> told \cup {"error"}
      [] OTHER -> told \cup (IF cur >= ui.max THEN {"complete"} ELSE {})
                       \cup (IF m = "done" THEN {"done"} ELSE {})

Progress(cur) == IF cur + 1 >= ui.max THEN ui.max ELSE cur + 1

\* Mutant of NoUiLoop: it ends with messages in the queue.
NoUiLoopLeaves ==
    /\ alive /\ ~start.display /\ ui.on
    /\ \/ /\ msgs # << >>
          /\ told' = Told(Head(msgs), ui.cur)
          /\ msgs' = Tail(msgs)
          /\ ui' = [ui EXCEPT !.cur = Progress(@)]
       \/ /\ ~running
          /\ ui' = [ui EXCEPT !.on = FALSE]
          /\ UNCHANGED <<told, msgs>>
    /\ KeepWorker /\ KeepDev /\ UNCHANGED alive

\* Without a screen: once the thread has stopped, all its messages are
\* taken before the loop ends.
NoUiLoop ==
    /\ alive /\ ~start.display /\ ui.on
    /\ \/ /\ msgs # << >>
          /\ told' = Told(Head(msgs), ui.cur)
          /\ msgs' = Tail(msgs)
          /\ ui' = [ui EXCEPT !.cur = Progress(@)]
       \/ /\ msgs = << >> /\ ~running
          /\ ui' = [ui EXCEPT !.on = FALSE]
          /\ UNCHANGED <<told, msgs>>
    /\ KeepWorker /\ KeepDev /\ UNCHANGED alive

\* With a screen: a posted event moves the bar, one message is taken, and
\* posts an event.  A coffee manager's update ends the loop when its thread
\* has stopped, whatever is left in the queue.
UiLoop ==
    /\ alive /\ start.display /\ ui.on
    /\ IF ui.quit
         THEN ui' = [ui EXCEPT !.on = FALSE] /\ UNCHANGED <<told, msgs>>
         ELSE LET cur == IF ui.posted /\ ui.state = "s_ing" THEN Progress(ui.cur) ELSE ui.cur
              IN  /\ ui.posted \/ msgs # << >> \/ (~running /\ start.byCf)
                  /\ ui' = [ui EXCEPT !.cur = cur, !.posted = msgs # << >>,
                                      !.quit = ~running /\ start.byCf]
                  /\ IF msgs = << >> THEN UNCHANGED <<told, msgs>>
                     ELSE told' = Told(Head(msgs), cur) /\ msgs' = Tail(msgs)
    /\ KeepWorker /\ KeepDev /\ UNCHANGED alive

Waiting == [pc |-> "wait", pos |-> 1, polls |-> Polls]
NoList == [filter |-> {}, base |-> {}]

\* What a process kept in memory is gone with it.
Gone ==
    /\ worker' = Waiting /\ plan' = NoPlan /\ buf' = NoPiece /\ lib' = NoList
    /\ saved' = 0 /\ msgs' = << >> /\ told' = {} /\ exitOk' = TRUE
    /\ alive' = FALSE /\ running' = FALSE /\ thread' = FALSE
    /\ bootPath' = FALSE /\ link' = "none"
    /\ UNCHANGED <<start, dir, sel, ui, runs>>
    /\ KeepDev

\* The loop has ended: the thread is told to stop and waited for.
EndProcess ==
    /\ alive /\ ~ui.on
    /\ \/ /\ thread /\ running
          /\ running' = FALSE
          /\ UNCHANGED <<start, dir, sel, ui, thread, procVars>> /\ KeepDev
       \/ (thread => worker.pc = "end") /\ Gone

\* A read of more than the buffer holds, or by an entry behind the header,
\* may end the process; or it goes on, as in ReadSector.
Overruns ==
    /\ At("read") /\ Readable
    /\ (sel.header # NoFile /\ sel.item >= MaxItems) \/ \E got \in Got : got > SectorSize

\* A signal, a closed console or an overrun.  Windows asks whether the program
\* may end; the handler of Linux ends it in either case.
Kill == alive /\ (Linux \/ exitOk \/ Overruns) /\ Gone

\* A new process: it finds the device as it is now.
OpenedLink(st) == IF st.boot THEN "none" ELSE "app"

Begun(st, d) ==
    /\ StartOK(st, d)
    /\ start = st /\ dir = d /\ sel = Opened(st, d) /\ ui = OpenedUi(st, d)
    /\ running = ByItself(st) /\ thread = ByItself(st)
    /\ bootPath = st.boot /\ link = OpenedLink(st)
    /\ worker = Waiting /\ plan = NoPlan /\ buf = NoPiece /\ lib = NoList
    /\ saved = 0 /\ msgs = << >> /\ told = {} /\ exitOk = TRUE /\ alive = TRUE

Restart ==
    /\ ~alive /\ runs < MaxRuns
    /\ dev.on /\ dev.next = dev.mode
    /\ \E st \in Starts, d \in Dirs :
         /\ StartOK(st, d) /\ st.boot = (dev.mode = "boot")
         /\ start' = st /\ dir' = d /\ sel' = Opened(st, d) /\ ui' = OpenedUi(st, d)
         /\ running' = ByItself(st) /\ thread' = ByItself(st)
         /\ bootPath' = st.boot /\ link' = OpenedLink(st)
    /\ worker' = Waiting /\ plan' = NoPlan /\ buf' = NoPiece /\ lib' = NoList
    /\ saved' = 0 /\ msgs' = << >> /\ told' = {} /\ exitOk' = TRUE /\ alive' = TRUE
    /\ runs' = runs + 1
    /\ KeepDev

Init ==
    /\ DevInit
    /\ \E st \in Starts, d \in Dirs : Begun(st, d)
    /\ start.boot = (dev.mode = "boot")
    /\ runs = 1

KeepProc == UNCHANGED procVars

Button == Dialog /\ alive /\ KeepProc /\ KeepDev

Next ==
    \/ Worker \/ NoUiLoop \/ UiLoop \/ EndProcess \/ Kill \/ Restart \/ Button
    \/ DevLeave \/ DevReturn \/ DevPowerLoss

\* The thread, the loops and the device run; a device that left comes back.
\* Nobody has to press a button, kill the process or start it again.
Fairness ==
    /\ WF_vars(Worker) /\ WF_vars(NoUiLoop) /\ WF_vars(UiLoop) /\ WF_vars(EndProcess)
    /\ WF_vars(DevLeave) /\ WF_vars(DevReturn)

Spec == Init /\ [][Next]_vars
FairSpec == Spec /\ Fairness

-----------------------------------------------------------------------------
(* Properties. *)

Pieces == [source : [file : Roms \cup Bins \cup {NoFile, "old", "erased"}, item : Int],
           from : Int, len : Int]

\* The type of every variable: what cshare, cupdater and the device keep.
TypeOK ==
    /\ start \in Starts /\ dir \in Dirs
    /\ sel \in [path : Roms \cup Bins \cup {NoFile}, header : Roms \cup {NoFile},
                upd : Int, item : Int, size : Nat]
    /\ ui \in [state : States, menu : Int, max : Nat, cur : Nat,
               posted : BOOLEAN, quit : BOOLEAN, on : BOOLEAN]
    /\ running \in BOOLEAN /\ thread \in BOOLEAN
    /\ worker \in [pc : WorkerSteps, pos : Nat \ {0}, polls : 1 .. Polls]
    /\ plan \in [erase : Seq(AppArea), write : Seq(AppArea)]
    /\ buf \in Pieces
    /\ lib \in [filter : SUBSET {"app", "boot"}, base : SUBSET {"app", "boot"}]
    /\ bootPath \in BOOLEAN /\ link \in {"none", "app", "boot"}
    /\ saved \in 0 .. NGet
    /\ msgs \in Seq({"ok", "err", "repaint", "done"})
    /\ told \in SUBSET {"error", "complete", "done"}
    /\ exitOk \in BOOLEAN /\ alive \in BOOLEAN /\ runs \in 0 .. MaxRuns
    /\ dev \in [mode : {"app", "boot"}, next : {"app", "boot"}, on : BOOLEAN]
    /\ flash \in [AppArea -> Pieces]
    /\ params \in {"user", "default"}
    /\ losses \in 0 .. MaxPowerLoss

\* The firmware in the flash is the whole old one, or all pieces of a new
\* one in their places.
PieceOf(src, i) ==
    LET rest == SourceSize(src) - i * SectorSize
    IN  Piece(src, i * SectorSize, IF rest < SectorSize THEN rest ELSE SectorSize)

Whole ==
    \/ \A s \in AppArea \ {SystemSector} : flash[s] = Old
    \/ LET src == flash[First].source IN
       /\ SourceSize(src) # 0
       /\ \A i \in 0 .. Sectors(SourceSize(src)) - 1 :
            First + i \in AppArea /\ flash[First + i] = PieceOf(src, i)

\* Whatever fails, is killed, loses its power or is started again, the
\* device never runs half a firmware: the first sector, without which the
\* bootloader stays, is erased first and written last, and the device is
\* told to run only after that.  Not so where a directory offers both a rom
\* file and a raw file: a raw file chosen after a rom file is planned for its
\* own size and read from the rom file's item (SetPath, Source).  Nor where
\* the index of the command line is another than the one selected: it is put
\* in its place after the plan was made (ForceFirmware).
RunsWhole == dev.on /\ dev.mode = "app" => Whole

\* What the updates promise, whatever happens to the process, the wire and
\* the power: the image is the source of a whole firmware, and the device
\* changes it, starts it and stops it as the abstract device may.
Image == IF Whole THEN flash[First].source ELSE Erased.source

\* What an update may leave in the device: the firmwares of some size.
Firmwares == {src \in [file : Roms \cup Bins, item : Int] : SourceSize(src) # 0}

Promise == INSTANCE Firmware WITH
    image <- Image,
    app <- dev.on /\ dev.mode = "app",
    Images <- {Old.source} \cup Firmwares,
    Partial <- Erased.source

KeepsPromise == Promise!Spec

\* Where it goes on after the update, the parameters the update erased are
\* those saved before it.
ParamsKept ==
    alive /\ ~start.boot /\ worker.pc \in {"inf", "iso", "done"} => params = "user"

\* The plan, made before the erase, is the one for what is read and written
\* after it.
PlanFits ==
    alive /\ worker.pc \in {"force", "read", "write"} =>
        plan = PlanFor(SourceSize(Source(sel)))

\* Without a screen the program ends only when the server that asked for it
\* has heard of the end: of an error, or of all steps.
EndTold ==
    alive /\ ~ui.on /\ ~start.display /\ start.notify =>
        /\ msgs = << >>
        /\ "done" \in told => "complete" \in told
        /\ "done" \notin told => "error" \in told

\* A started update comes to its end, since every wait for the device has a
\* timeout; and a program without a screen ends by itself.
UpdateEnds ==
    /\ thread /\ running /\ ui.state = "s_ing" ~> ~running \/ ~alive
    /\ alive /\ ~start.display ~> ~alive
=============================================================================
