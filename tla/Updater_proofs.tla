--------------------------- MODULE Updater_proofs ---------------------------
(***************************************************************************)
(* Proofs about the firmware updater, for any files, ways to start it and  *)
(* sizes of sectors, for a device of any number of sectors that tells them *)
(* or does not, and any number of processes and losses of power.           *)
(*                                                                         *)
(* A device never runs half a firmware (RunsWhole), and what the updater   *)
(* does to it is what the abstract Firmware allows (KeepsPromise), under   *)
(* two conditions: the item that is selected belongs to the file that is   *)
(* selected (OwnItem), and an index of the command line is the selected    *)
(* one when it is forced (IndexSelected).  The dialogs see to neither: a   *)
(* raw file chosen after a rom file leaves the rom file's item selected,   *)
(* is planned for its own size and read from that item; and an index that  *)
(* was given with one rom file is forced on another one, after the plan,   *)
(* where it may be that of another item or of none.  Where no dialog       *)
(* offers both kinds of files (Unmixed) and an index comes with its rom    *)
(* file and without a dialog (IndexAlone), both hold (SelectionOwn,        *)
(* IndexSame).                                                             *)
(*                                                                         *)
(* FlashInv is the argument.  Once the worker has begun to erase, the      *)
(* first sector is empty, and stays so while the worker puts the other     *)
(* pieces of its source in their places; the pieces are right because the  *)
(* plan is the one for the source, from the erase to the last read         *)
(* (PlanSize).  Without any condition, an update that goes on has written  *)
(* its whole plan from what is selected (AllWritten).                      *)
(*                                                                         *)
(* A program without a screen tells its end (EndTold) because it counts:   *)
(* Counted bounds from below what was told at each step of the worker by   *)
(* what was announced for it.                                              *)
(***************************************************************************)
EXTENDS Updater, TLAPS

-----------------------------------------------------------------------------
(* Types.                                                                   *)

Files == Roms \cup Bins
Selection == [path : Files \cup {NoFile}, header : Roms \cup {NoFile},
              upd : Int, item : Int, size : Nat]
Screen == [state : States, menu : Int, max : Nat, cur : Nat,
           posted : BOOLEAN, quit : BOOLEAN, on : BOOLEAN]
Modes == {"app", "boot"}
Messages == {"ok", "err", "repaint", "done"}
Device == [mode : Modes, next : Modes, on : BOOLEAN]

\* The types, for each group of variables.
SelTypes == start \in Starts /\ dir \in Dirs /\ sel \in Selection
UiTypes == ui \in Screen /\ running \in BOOLEAN /\ thread \in BOOLEAN
WorkTypes == worker \in [pc : WorkerSteps, pos : Nat \ {0}, polls : 1 .. Polls]
PlanTypes == plan \in [erase : Seq(AppArea), write : Seq(AppArea)] /\ buf \in Pieces
LibTypes ==
    /\ lib \in [filter : SUBSET Modes, base : SUBSET Modes]
    /\ bootPath \in BOOLEAN /\ link \in {"none", "app", "boot"}
MsgTypes ==
    saved \in 0 .. NGet /\ msgs \in Seq(Messages) /\ told \in SUBSET {"error", "complete", "done"}
ProcTypes == exitOk \in BOOLEAN /\ alive \in BOOLEAN /\ runs \in 0 .. MaxRuns
DevTypes ==
    /\ dev \in Device /\ flash \in [AppArea -> Pieces]
    /\ params \in {"user", "default"} /\ losses \in 0 .. MaxPowerLoss

\* The worker reads and writes sectors of the plan.
InPlan ==
    /\ worker.pc \in {"read", "write"} /\ plan.write # << >> => worker.pos <= Len(plan.write)
    /\ worker.pc = "write" => plan.write # << >>

TypeInv ==
    SelTypes /\ UiTypes /\ WorkTypes /\ PlanTypes /\ LibTypes /\ MsgTypes /\ ProcTypes
    /\ DevTypes /\ InPlan

\* The groups have the types that TypeOK names.
LEMMA TypesAreOK == TypeInv => TypeOK
<1> SUFFICES ASSUME TypeInv PROVE TypeOK
    OBVIOUS
<1>1. SelTypes /\ UiTypes /\ WorkTypes /\ PlanTypes
    BY DEF TypeInv
<1>2. LibTypes /\ MsgTypes /\ ProcTypes /\ DevTypes
    BY DEF TypeInv
<1> QED
    BY <1>1, <1>2
    DEF TypeOK, SelTypes, UiTypes, WorkTypes, PlanTypes, LibTypes, MsgTypes, ProcTypes, DevTypes,
        Selection, Screen, Modes, Messages, Device, Files

\* What a step leaves alone keeps its types.
LEMMA Untouched ==
    /\ SelTypes /\ UNCHANGED <<start, dir, sel>> => SelTypes'
    /\ UiTypes /\ UNCHANGED <<ui, running, thread>> => UiTypes'
    /\ WorkTypes /\ UNCHANGED worker => WorkTypes'
    /\ PlanTypes /\ UNCHANGED <<plan, buf>> => PlanTypes'
    /\ LibTypes /\ UNCHANGED <<lib, bootPath, link>> => LibTypes'
    /\ MsgTypes /\ UNCHANGED <<saved, msgs, told>> => MsgTypes'
    /\ ProcTypes /\ UNCHANGED <<exitOk, alive, runs>> => ProcTypes'
    /\ DevTypes /\ UNCHANGED devVars => DevTypes'
    /\ InPlan /\ UNCHANGED <<worker, plan>> => InPlan'
<1>1. SelTypes /\ UNCHANGED <<start, dir, sel>> => SelTypes'
    BY DEF SelTypes
<1>2. UiTypes /\ UNCHANGED <<ui, running, thread>> => UiTypes'
    BY DEF UiTypes
<1>3. WorkTypes /\ UNCHANGED worker => WorkTypes'
    BY DEF WorkTypes
<1>4. PlanTypes /\ UNCHANGED <<plan, buf>> => PlanTypes'
    BY DEF PlanTypes
<1>5. LibTypes /\ UNCHANGED <<lib, bootPath, link>> => LibTypes'
    BY DEF LibTypes
<1>6. MsgTypes /\ UNCHANGED <<saved, msgs, told>> => MsgTypes'
    BY DEF MsgTypes
<1>7. ProcTypes /\ UNCHANGED <<exitOk, alive, runs>> => ProcTypes'
    BY DEF ProcTypes
<1>8. DevTypes /\ UNCHANGED devVars => DevTypes'
    BY DEF DevTypes, devVars
<1>9. InPlan /\ UNCHANGED <<worker, plan>> => InPlan'
    BY DEF InPlan
<1> QED
    BY <1>1, <1>2, <1>3, <1>4, <1>5, <1>6, <1>7, <1>8, <1>9

\* The number of sectors of a size: the last one is not empty, and the size
\* does not go beyond it.
LEMMA SectorsOf ==
    ASSUME NEW size \in Nat
    PROVE  /\ Sectors(size) \in Nat
           /\ size <= Sectors(size) * SectorSize
           /\ Sectors(size) * SectorSize < size + SectorSize
    BY SizesAssumption DEF Sectors

\* What a rom file tells of its items.
LEMMA ItemTypes ==
    ASSUME NEW r \in Roms, NEW i \in 0 .. Len(Items[r]) - 1
    PROVE  i \in Int /\ Items[r][i + 1].size \in Nat /\ Items[r][i + 1].at \in Nat
<1> DEFINE Item == [model : Seq(Nat), version : Seq(Nat),
                    cond : SUBSET {"eq", "neq", "gt", "lt"}, size : Nat, at : Nat]
<1>1. Items[r] \in Seq(Item)
    BY SizesAssumption
<1>2. Items[r][i + 1] \in Item
    <2> HIDE DEF Item
    <2> QED
        BY <1>1
<1> QED
    BY <1>2

\* The item looked for is one of the rom file's, if there is one.
LEMMA ItemFound ==
    ASSUME NEW r \in Roms
    PROVE  LET i == GetUpdatableItemIndex(Items[r], Model, Version)
           IN  i # NoItem => i \in 0 .. Len(Items[r]) - 1
<1> DEFINE first == {i \in 1 .. Len(Items[r]) :
                       /\ SameModel(Items[r][i].model, Model)
                       /\ \A j \in 1 .. i - 1 : ~SameModel(Items[r][j].model, Model)}
           m == ItemOfModel(Items[r], Model)
           c == CHOOSE i \in first : TRUE
<1>1. Len(Items[r]) \in Nat
    BY SizesAssumption
<1>2. first # {} => c \in 1 .. Len(Items[r])
    <2>1. first # {} => c \in first
        OBVIOUS
    <2> QED
        BY <2>1
<1>3. m = IF first = {} THEN NoItem ELSE c - 1
    BY DEF ItemOfModel
<1>4. m # NoItem => m \in 0 .. Len(Items[r]) - 1
    <2> HIDE DEF first, c, m
    <2> QED
        BY <1>1, <1>2, <1>3
<1>5. GetUpdatableItemIndex(Items[r], Model, Version) \in {m, NoItem}
    BY DEF GetUpdatableItemIndex
<1> QED
    <2> HIDE DEF m
    <2> QED
        BY <1>4, <1>5

\* Selections of files and of their items.
LEMMA SelectionTypes ==
    ASSUME NEW s \in Selection
    PROVE  /\ \A f \in Files : SetPath(s, f) \in Selection /\ SetPath(s, f).path = f
           /\ \A b \in BOOLEAN : s.path \in Roms => UpdateFwList(s, b) \in Selection
           /\ \A i \in Int : SetFirmware(s, i) \in Selection
           /\ \A st \in Starts : UpdateSteps(st, s) \in Nat
           /\ Source(s) \in [file : Files \cup {NoFile}, item : Int]
           /\ NoSelection \in Selection
<1> USE DEF Selection, Files
<1>1. ASSUME NEW f \in Files PROVE SetPath(s, f) \in Selection /\ SetPath(s, f).path = f
    <2>1. (IF f \in Roms THEN 0 ELSE BinSize[f]) \in Nat
        BY SizesAssumption
    <2> QED
        BY <2>1 DEF SetPath
<1>2. ASSUME NEW b \in BOOLEAN, s.path \in Roms PROVE UpdateFwList(s, b) \in Selection
    <2> DEFINE u == IF b THEN NoItem ELSE GetUpdatableItemIndex(Items[s.path], Model, Version)
    <2>1. u # NoItem => u \in 0 .. Len(Items[s.path]) - 1
        BY <1>2, ItemFound
    <2>2. u # NoItem => u \in Int /\ Items[s.path][u + 1].size \in Nat
        <3> HIDE DEF u
        <3> QED
            BY <1>2, <2>1, ItemTypes
    <2>3. UpdateFwList(s, b) =
            IF u = NoItem
              THEN [s EXCEPT !.header = s.path, !.upd = NoItem]
              ELSE [s EXCEPT !.header = s.path, !.upd = u, !.item = u,
                             !.size = Items[s.path][u + 1].size]
        BY DEF UpdateFwList
    <2>4. CASE u = NoItem
        <3> HIDE DEF u
        <3>1. UpdateFwList(s, b) =
                [path |-> s.path, header |-> s.path, upd |-> NoItem, item |-> s.item,
                 size |-> s.size]
            BY <2>3, <2>4
        <3> QED
            BY <1>2, <3>1 DEF NoItem
    <2>5. CASE u # NoItem
        <3> HIDE DEF u
        <3>1. UpdateFwList(s, b) =
                [path |-> s.path, header |-> s.path, upd |-> u, item |-> u,
                 size |-> Items[s.path][u + 1].size]
            BY <2>3, <2>5
        <3> QED
            BY <1>2, <2>2, <2>5, <3>1
    <2> QED
        BY <2>4, <2>5
<1>3. ASSUME NEW i \in Int PROVE SetFirmware(s, i) \in Selection
    <2>1. FwList(s) # << >> => FwList(s) = Items[s.header] /\ s.header \in Roms
        BY DEF FwList
    <2>2. i \in 0 .. Len(FwList(s)) - 1 => FwList(s)[i + 1].size \in Nat
        BY <2>1, ItemTypes
    <2> QED
        BY <2>2 DEF SetFirmware
<1>4. ASSUME NEW st \in Starts PROVE UpdateSteps(st, s) \in Nat
    <2>1. s.size \in Nat /\ Sectors(s.size) \in Nat
        BY SectorsOf
    <2> QED
        BY <2>1, SizesAssumption DEF UpdateSteps
<1>5. Source(s) \in [file : Files \cup {NoFile}, item : Int]
    BY DEF Source, NoItem
<1>6. NoSelection \in Selection
    BY DEF NoSelection, NoItem
<1> QED
    BY <1>1, <1>2, <1>3, <1>4, <1>5, <1>6

\* What a process starts with.
LEMMA OpenedTypes ==
    ASSUME NEW st \in Starts, NEW d \in Dirs
    PROVE  Opened(st, d) \in Selection /\ OpenedUi(st, d) \in Screen
<1> DEFINE given == UpdateFwList(SetPath(NoSelection, st.file), st.boot)
           found == {r \in d : r \in Roms}
           r == CHOOSE x \in found : TRUE
<1>1. /\ st.boot \in BOOLEAN /\ st.display \in BOOLEAN /\ st.byCf \in BOOLEAN
      /\ st.file \in Files \cup {NoFile} /\ st.index \in Int
    BY StartsAssumption DEF Files, NoItem
<1>2. NoSelection \in Selection
    BY SelectionTypes DEF NoSelection, NoItem, Selection, Files
<1>3. \A f \in Files : SetPath(NoSelection, f) \in Selection /\ SetPath(NoSelection, f).path = f
    BY <1>2, SelectionTypes
<1>4. \A f \in Roms : UpdateFwList(SetPath(NoSelection, f), st.boot) \in Selection
    <2> TAKE f \in Roms
    <2>1. SetPath(NoSelection, f) \in Selection /\ SetPath(NoSelection, f).path \in Roms
        BY <1>3 DEF Files
    <2> QED
        BY <1>1, <2>1, SelectionTypes
<1>5. found # {} => r \in Roms
    <2>1. found # {} => r \in found
        OBVIOUS
    <2> QED
        BY <2>1
<1>6. Opened(st, d) \in Selection
    <2>1. CASE st.file \in Roms
        <3>1. given \in Selection
            BY <1>4, <2>1
        <3>2. Opened(st, d) = IF st.index = NoItem THEN given ELSE SetFirmware(given, st.index)
            BY <2>1, FilesAssumption DEF Opened
        <3> QED
            <4> HIDE DEF given
            <4> QED
                BY <1>1, <3>1, <3>2, SelectionTypes
    <2>2. CASE st.file \in Bins
        <3>1. st.file \notin Roms /\ st.file # NoFile
            BY <2>2, FilesAssumption
        <3>2. Opened(st, d) = SetPath(NoSelection, st.file)
            BY <2>2, <3>1 DEF Opened
        <3> QED
            BY <1>3, <2>2, <3>2 DEF Files
    <2>3. CASE st.file = NoFile
        <3>1. st.file \notin Roms /\ st.file \notin Bins
            BY <2>3, FilesAssumption
        <3>2. Opened(st, d) =
                IF ~st.display /\ ~st.byCf /\ found # {}
                  THEN UpdateFwList(SetPath(NoSelection, r), st.boot) ELSE NoSelection
            BY <2>3, <3>1 DEF Opened
        <3> QED
            <4> HIDE DEF found, r
            <4> QED
                BY <1>2, <1>4, <1>5, <3>2
    <2> QED
        BY <1>1, <2>1, <2>2, <2>3 DEF Files
<1>7. UpdateSteps(st, Opened(st, d)) \in Nat
    BY <1>6, SelectionTypes
<1>8. Opened(st, d).item \in Int
    BY <1>6 DEF Selection
<1> QED
    BY <1>6, <1>7, <1>8 DEF OpenedUi, Screen, States

\* The worker's step to another place, with messages or without, or its
\* failure.
Moved ==
    /\ ui' \in Screen /\ running' \in BOOLEAN /\ msgs' \in Seq(Messages)
    /\ WorkTypes' /\ InPlan'

\* The messages of the steps are messages.
LEMMA Texts ==
    /\ Ok \in Seq(Messages) /\ Err \in Seq(Messages) /\ Ok \o Ok \in Seq(Messages)
    /\ Err \o Ok \in Seq(Messages) /\ Ok \o Err \in Seq(Messages) /\ Err \o Err \in Seq(Messages)
    /\ <<"done">> \in Seq(Messages) /\ << >> \in Seq(Messages)
<1>1. Ok \in Seq(Messages) /\ Err \in Seq(Messages)
    BY DEF Ok, Err, Messages
<1>2. <<"done">> \in Seq(Messages) /\ << >> \in Seq(Messages)
    BY DEF Messages
<1> QED
    BY <1>1, <1>2

\* Where the worker goes it is in the plan, and what it says is a message.
LEMMA Moves ==
    ASSUME TypeInv
    PROVE  /\ \A pc \in WorkerSteps \ {"write"} : Goto(pc) /\ PlanTypes' => WorkTypes' /\ InPlan'
           /\ \A ms \in Seq(Messages) : Push(ms) => msgs' \in Seq(Messages)
           /\ KeepUi => ui' \in Screen /\ running' \in BOOLEAN
           /\ UNCHANGED msgs => msgs' \in Seq(Messages)
           /\ \A ms \in Seq(Messages) : Fail(ms) /\ PlanTypes' => Moved
           /\ worker.polls > 1 /\ PollAgain /\ UNCHANGED plan => WorkTypes' /\ InPlan'
           /\ [ui EXCEPT !.state = IF @ = "s_ing" THEN "s_com" ELSE @] \in Screen
<1>1. ASSUME NEW pc \in WorkerSteps \ {"write"}, Goto(pc), PlanTypes'
      PROVE  WorkTypes' /\ InPlan'
    <2>1. worker' = [pc |-> pc, pos |-> 1, polls |-> Polls] /\ Polls \in 1 .. Polls
        BY <1>1, UpdaterAssumption DEF Goto
    <2>2. WorkTypes'
        BY <2>1 DEF WorkTypes
    <2>3. plan'.write \in Seq(AppArea)
        BY <1>1 DEF PlanTypes
    <2>4. plan'.write # << >> => 1 <= Len(plan'.write)
        BY <2>3
    <2> QED
        BY <2>1, <2>2, <2>4 DEF InPlan
<1>2. ASSUME NEW ms \in Seq(Messages), Push(ms) PROVE msgs' \in Seq(Messages)
    BY <1>2 DEF TypeInv, MsgTypes, Push
<1>3. KeepUi => ui' \in Screen /\ running' \in BOOLEAN
    BY DEF KeepUi, TypeInv, UiTypes
<1>4. UNCHANGED msgs => msgs' \in Seq(Messages)
    BY DEF TypeInv, MsgTypes
<1>5. [ui EXCEPT !.state = IF @ = "s_ing" THEN "s_com" ELSE @] \in Screen
    BY DEF TypeInv, UiTypes, Screen, States
<1>6. ASSUME NEW ms \in Seq(Messages), Fail(ms), PlanTypes' PROVE Moved
    <2>1. ms \o <<"repaint">> \in Seq(Messages)
        BY DEF Messages
    <2>2. msgs' \in Seq(Messages)
        BY <1>2, <1>6, <2>1 DEF Fail
    <2>3. WorkTypes' /\ InPlan'
        BY <1>1, <1>6 DEF Fail, WorkerSteps
    <2>4. ui' \in Screen /\ running' \in BOOLEAN
        BY <1>5, <1>6 DEF Fail
    <2> QED
        BY <2>2, <2>3, <2>4 DEF Moved
<1>7. ASSUME worker.polls > 1, PollAgain, UNCHANGED plan PROVE WorkTypes' /\ InPlan'
    BY <1>7, UpdaterAssumption DEF PollAgain, TypeInv, WorkTypes, InPlan
<1> QED
    BY <1>1, <1>2, <1>3, <1>4, <1>5, <1>6, <1>7

\* A step of the worker that keeps its types keeps all types.
LEMMA WorkerStepTypes ==
    ASSUME TypeInv, KeepSel, Moved, PlanTypes', DevTypes', LibTypes', sel' \in Selection,
           saved' \in 0 .. NGet, exitOk' \in BOOLEAN
    PROVE  TypeInv'
<1>1. SelTypes' /\ UiTypes'
    BY DEF KeepSel, Moved, TypeInv, SelTypes, UiTypes
<1>2. MsgTypes' /\ ProcTypes'
    BY DEF KeepSel, Moved, TypeInv, MsgTypes, ProcTypes
<1> QED
    BY <1>1, <1>2 DEF TypeInv, Moved

\* What the library lists.
LEMMA ListTypes ==
    ASSUME TypeInv
    PROVE  /\ \A filter \in SUBSET Modes :
                Listed(filter) \in [filter : SUBSET Modes, base : SUBSET Modes]
           /\ Listed(lib.filter) \in [filter : SUBSET Modes, base : SUBSET Modes]
<1>1. \A filter \in SUBSET Modes :
         Listed(filter) \in [filter : SUBSET Modes, base : SUBSET Modes]
    BY DEF Listed, Seen
<1>2. lib.filter \in SUBSET Modes
    BY DEF TypeInv, LibTypes
<1> QED
    BY <1>1, <1>2

\* Up to the bootloader.
LEMMA ToBootTypes ==
    ASSUME TypeInv, WorkerStart \/ Backup \/ RunBootloader \/ WaitPlugoutApp \/ WaitPluginBoot
                    \/ StopBootUse
    PROVE  TypeInv'
<1>0. PlanTypes'
    <2>1. UNCHANGED <<plan, buf>>
        BY DEF WorkerStart, Backup, RunBootloader, WaitPlugoutApp, WaitPluginBoot, StopBootUse,
               KeepPlan
    <2> QED
        BY <2>1, Untouched DEF TypeInv
<1>1. CASE WorkerStart
    <2>1. Moved
        BY <1>0, <1>1, Moves DEF WorkerStart, Moved, WorkerSteps
    <2> QED
        BY <1>0, <1>1, <2>1, WorkerStepTypes, Untouched
        DEF WorkerStart, KeepDev, KeepPlan, KeepLib, TypeInv, SelTypes, LibTypes, MsgTypes, ProcTypes
<1>2. CASE Backup
    <2>1. Moved
        <3>1. CASE Goto("runBoot") /\ KeepUi /\ UNCHANGED msgs
            BY <1>0, <3>1, Moves DEF Moved, WorkerSteps
        <3>2. CASE Push(Ok) /\ KeepUi /\ UNCHANGED worker
            <4>1. WorkTypes' /\ InPlan'
                BY <1>2, <3>2, Untouched DEF Backup, KeepPlan, TypeInv
            <4> QED
                BY <3>2, <4>1, Moves, Texts DEF Moved
        <3>3. CASE Fail(Err)
            BY <1>0, <3>3, Moves, Texts
        <3> QED
            BY <1>2, <3>1, <3>2, <3>3 DEF Backup
    <2>2. saved' \in 0 .. NGet /\ LibTypes'
        BY <1>2, SizesAssumption DEF Backup, KeepLib, TypeInv, MsgTypes, LibTypes
    <2> QED
        BY <1>0, <1>2, <2>1, <2>2, WorkerStepTypes, Untouched
        DEF Backup, KeepDev, KeepPlan, TypeInv, SelTypes, ProcTypes
<1>3. CASE RunBootloader
    <2>1. Moved
        <3>1. CASE Goto("stopBoot") /\ KeepUi /\ UNCHANGED msgs
            BY <1>0, <3>1, Moves DEF Moved, WorkerSteps
        <3>2. CASE Goto("outLpu") /\ Push(Ok \o Ok) /\ KeepUi
            BY <1>0, <3>2, Moves, Texts DEF Moved, WorkerSteps
        <3>3. CASE Fail(Err)
            BY <1>0, <3>3, Moves, Texts
        <3> QED
            BY <1>3, <3>1, <3>2, <3>3 DEF RunBootloader
    <2>2. LibTypes'
        BY <1>3, ListTypes DEF RunBootloader, KeepLib, TypeInv, LibTypes, Modes
    <2>3. DevTypes'
        BY <1>3 DEF RunBootloader, TypeInv, DevTypes, Device, Modes
    <2> QED
        BY <1>0, <1>3, <2>1, <2>2, <2>3, WorkerStepTypes
        DEF RunBootloader, KeepPlan, TypeInv, SelTypes, MsgTypes, ProcTypes
<1>4. CASE WaitPlugoutApp
    <2>1. Moved
        <3>1. CASE Push(Ok) /\ Goto("stopBoot") /\ KeepUi
            BY <1>0, <3>1, Moves, Texts DEF Moved, WorkerSteps
        <3>2. CASE Push(Ok) /\ Goto("inBoot") /\ KeepUi
            BY <1>0, <3>2, Moves, Texts DEF Moved, WorkerSteps
        <3>3. CASE Push(Err \o Ok) /\ Goto("inBoot") /\ KeepUi
            BY <1>0, <3>3, Moves, Texts DEF Moved, WorkerSteps
        <3>4. CASE worker.polls > 1 /\ PollAgain /\ KeepUi /\ KeepPlan
            BY <3>4, Moves DEF Moved, PollAgain, KeepPlan
        <3> QED
            BY <1>4, <3>1, <3>2, <3>3, <3>4 DEF WaitPlugoutApp
    <2>2. LibTypes'
        BY <1>4, ListTypes DEF WaitPlugoutApp, TypeInv, LibTypes
    <2> QED
        BY <1>0, <1>4, <2>1, <2>2, WorkerStepTypes, Untouched
        DEF WaitPlugoutApp, KeepDev, KeepPlan, TypeInv, SelTypes, MsgTypes, ProcTypes
<1>5. CASE WaitPluginBoot
    <2>1. Moved
        <3>1. CASE Goto("stopBoot") /\ UNCHANGED msgs /\ KeepUi
            BY <1>0, <3>1, Moves, Texts DEF Moved, WorkerSteps
        <3>2. CASE Push(Err) /\ Goto("stopBoot") /\ KeepUi
            BY <1>0, <3>2, Moves, Texts DEF Moved, WorkerSteps
        <3>3. CASE worker.polls > 1 /\ PollAgain /\ KeepUi /\ KeepPlan
            BY <3>3, Moves DEF Moved, PollAgain, KeepPlan
        <3> QED
            BY <1>5, <3>1, <3>2, <3>3 DEF WaitPluginBoot
    <2>2. LibTypes'
        BY <1>5, ListTypes DEF WaitPluginBoot, TypeInv, LibTypes
    <2> QED
        BY <1>0, <1>5, <2>1, <2>2, WorkerStepTypes, Untouched
        DEF WaitPluginBoot, KeepDev, KeepPlan, TypeInv, SelTypes, MsgTypes, ProcTypes
<1>6. CASE StopBootUse
    <2>1. Moved
        BY <1>0, <1>6, Moves DEF StopBootUse, Moved, WorkerSteps
    <2>2. LibTypes'
        BY <1>6, ListTypes DEF StopBootUse, TypeInv, LibTypes, Modes
    <2> QED
        BY <1>0, <1>6, <2>1, <2>2, WorkerStepTypes, Untouched
        DEF StopBootUse, KeepDev, KeepPlan, TypeInv, SelTypes, MsgTypes, ProcTypes
<1> QED
    BY <1>1, <1>2, <1>3, <1>4, <1>5, <1>6

\* The sectors of the area, and the plan made of them.
LEMMA AreaTypes ==
    /\ First \in Nat \ {0} /\ Area \in Nat \ {0} /\ AppArea \subseteq Nat
    /\ \A s \in AppArea : s \in Int
    /\ SystemSector \in AppArea /\ First \in AppArea
    /\ NoPiece \in Pieces /\ Old \in Pieces /\ Erased \in Pieces
<1>1. First \in Nat \ {0} /\ Area \in Nat \ {0}
    BY UpdaterAssumption DEF First, Area
<1>2. NoPiece \in Pieces /\ Old \in Pieces /\ Erased \in Pieces
    BY DEF NoPiece, Old, Erased, Pieces, Piece, NoItem
<1> QED
    BY <1>1, <1>2 DEF AppArea, SystemSector

\* A plan names sectors of the area.
LEMMA PlanForTypes ==
    ASSUME NEW size \in Nat
    PROVE  /\ PlanFor(size) \in [erase : Seq(AppArea), write : Seq(AppArea)]
           /\ NoPlan \in [erase : Seq(AppArea), write : Seq(AppArea)]
<1> DEFINE n == Sectors(size)
           e == [i \in 1 .. n |-> First + i - 1]
           w == [i \in 1 .. n - 1 |-> First + i]
<1>1. n \in Nat /\ First \in Nat /\ Area \in Nat /\ First \in AppArea /\ SystemSector \in AppArea
    BY SectorsOf, AreaTypes
<1>2. NoPlan \in [erase : Seq(AppArea), write : Seq(AppArea)]
    BY DEF NoPlan
<1>3. ASSUME n # 0, n <= Area - 1 PROVE e \in Seq(AppArea) /\ w \in Seq(AppArea)
    <2> HIDE DEF n
    <2>1. \A i \in 1 .. n : First + i - 1 \in AppArea
        BY <1>1, <1>3 DEF AppArea
    <2>2. \A i \in 1 .. n - 1 : First + i \in AppArea
        BY <1>1, <1>3 DEF AppArea
    <2>3. e \in [1 .. n -> AppArea] /\ w \in [1 .. n - 1 -> AppArea]
        BY <2>1, <2>2
    <2>4. n \in Nat /\ n - 1 \in Nat
        BY <1>1, <1>3
    <2> HIDE DEF e, w
    <2> QED
        BY <2>3, <2>4
<1>4. ASSUME n # 0, n <= Area - 1
      PROVE  e \o <<SystemSector>> \in Seq(AppArea) /\ w \o <<First>> \in Seq(AppArea)
    <2> HIDE DEF e, w
    <2>1. <<SystemSector>> \in Seq(AppArea) /\ <<First>> \in Seq(AppArea)
        BY <1>1
    <2> HIDE DEF n
    <2> QED
        BY <1>3, <1>4, <2>1
<1>5. PlanFor(size) = IF n = 0 \/ n > Area - 1 THEN NoPlan
                      ELSE [erase |-> e \o <<SystemSector>>, write |-> w \o <<First>>]
    BY DEF PlanFor
<1> QED
    <2> HIDE DEF n, e, w
    <2> QED
        BY <1>1, <1>2, <1>4, <1>5

\* The plan, and the erasing by it.
LEMMA EraseTypes ==
    ASSUME TypeInv, Setup \/ EraseSector \/ ForceFirmware
    PROVE  TypeInv'
<1>1. CASE Setup
    <2>1. sel.size \in Nat
        BY DEF TypeInv, SelTypes, Selection
    <2>2. PlanTypes'
        BY <1>1, <2>1, PlanForTypes DEF Setup, TypeInv, PlanTypes
    <2>3. Moved
        <3>1. CASE Push(Ok) /\ Goto("erase") /\ KeepUi
            BY <2>2, <3>1, Moves, Texts DEF Moved, WorkerSteps
        <3>2. CASE Fail(Err)
            BY <2>2, <3>2, Moves, Texts
        <3> QED
            BY <1>1, <3>1, <3>2 DEF Setup
    <2>4. LibTypes'
        <3>1. lib' \in [filter : SUBSET Modes, base : SUBSET Modes]
            BY <1>1, ListTypes DEF Setup, TypeInv, LibTypes, Modes
        <3> QED
            BY <1>1, <3>1 DEF Setup, TypeInv, LibTypes
    <2> QED
        BY <1>1, <2>2, <2>3, <2>4, WorkerStepTypes, Untouched
        DEF Setup, KeepDev, TypeInv, SelTypes, MsgTypes, ProcTypes
<1>2. CASE EraseSector
    <2>1. PlanTypes'
        BY <1>2, Untouched DEF EraseSector, KeepPlan, TypeInv
    <2>2. worker.pc = "erase"
        BY <1>2 DEF EraseSector, At
    <2>3. DevTypes'
        <3>1. ASSUME NEW s, EraseFlash(s) PROVE DevTypes'
            BY <3>1, AreaTypes DEF EraseFlash, TypeInv, DevTypes
        <3>2. KeepDev => DevTypes'
            BY Untouched DEF KeepDev, TypeInv
        <3> QED
            BY <1>2, <3>1, <3>2 DEF EraseSector
    <2>4. Moved
        <3>1. CASE Goto("force") /\ KeepUi /\ UNCHANGED msgs
            BY <2>1, <3>1, Moves DEF Moved, WorkerSteps
        <3>2. CASE Fail(Err)
            BY <2>1, <3>2, Moves, Texts
        <3>3. CASE Push(Ok) /\ Stay /\ KeepUi
            <4>1. WorkTypes' /\ InPlan'
                BY <2>2, <3>3 DEF Stay, TypeInv, WorkTypes, InPlan
            <4> QED
                BY <3>3, <4>1, Moves, Texts DEF Moved
        <3> QED
            BY <1>2, <3>1, <3>2, <3>3 DEF EraseSector
    <2> QED
        BY <1>2, <2>1, <2>3, <2>4, WorkerStepTypes, Untouched
        DEF EraseSector, KeepLib, KeepPlan, TypeInv, SelTypes, LibTypes, MsgTypes, ProcTypes
<1>3. CASE ForceFirmware
    <2>1. PlanTypes'
        BY <1>3, Untouched DEF ForceFirmware, TypeInv
    <2>2. Moved
        BY <1>3, <2>1, Moves DEF ForceFirmware, Moved, WorkerSteps
    <2>3. sel' \in Selection
        <3>1. start.index \in Int /\ sel \in Selection
            BY StartsAssumption DEF TypeInv, SelTypes, NoItem
        <3> QED
            BY <1>3, <3>1, SelectionTypes DEF ForceFirmware
    <2> QED
        BY <1>3, <2>1, <2>2, <2>3, WorkerStepTypes, Untouched
        DEF ForceFirmware, KeepDev, KeepLib, TypeInv, LibTypes, MsgTypes, ProcTypes
<1> QED
    BY <1>1, <1>2, <1>3

\* How far a source can be read is a number.
LEMMA RemainingTypes ==
    ASSUME NEW src \in [file : Files \cup {NoFile}, item : Int]
    PROVE  Remaining(src) \subseteq Int
<1>1. CASE src.file \in Roms /\ src.item # NoItem
    <2>1. RomSize[src.file] \in Nat
        BY <1>1, RomsAssumption
    <2>2. Begin(src) \subseteq Int
        <3>1. CASE src.item \in 0 .. Len(Items[src.file]) - 1
            <4>1. Items[src.file][src.item + 1].at \in Nat
                BY <1>1, <3>1, ItemTypes
            <4>2. Begin(src) = {Items[src.file][src.item + 1].at}
                BY <3>1 DEF Begin
            <4> QED
                BY <4>1, <4>2
        <3>2. CASE src.item \notin 0 .. Len(Items[src.file]) - 1
            <4>1. Begin(src) = {0} \/ Begin(src) = 0 .. RomSize[src.file]
                BY <3>2 DEF Begin
            <4> QED
                BY <2>1, <4>1
        <3> QED
            BY <3>1, <3>2
    <2>3. Remaining(src) = {RomSize[src.file] - b : b \in Begin(src)}
        BY <1>1, FilesAssumption DEF Remaining
    <2> HIDE DEF Begin
    <2> QED
        BY <2>1, <2>2, <2>3
<1>2. CASE src.file \in Roms /\ src.item = NoItem
    BY <1>2, FilesAssumption, RomsAssumption DEF Remaining
<1>3. CASE src.file \notin Roms
    BY <1>3, SizesAssumption DEF Remaining
<1> QED
    BY <1>1, <1>2, <1>3

\* What a read wants, from where, and can get are numbers.
LEMMA ReadTypes ==
    ASSUME TypeInv, worker.pc = "read", Readable
    PROVE  Offset \in Int /\ Wanted \in Int /\ Got \subseteq Int
<1>1. plan.write \in Seq(AppArea) /\ worker.pos \in 1 .. Len(plan.write)
    BY DEF TypeInv, InPlan, PlanTypes, WorkTypes, Readable
<1>2. plan.write[worker.pos] \in Int
    BY <1>1, AreaTypes
<1>3. First \in Int /\ SectorSize \in Int /\ sel.size \in Int /\ sel \in Selection
    BY AreaTypes, SizesAssumption DEF TypeInv, SelTypes, Selection
<1>4. Offset \in Int
    <2>1. (plan.write[worker.pos] - First) * SectorSize \in Int
        BY <1>2, <1>3
    <2> QED
        BY <2>1 DEF Offset
<1>5. Wanted \in Int
    <2>1. Len(plan.write) - 1 \in Int
        BY <1>1
    <2>2. (Len(plan.write) - 1) * SectorSize \in Int
        BY <1>3, <2>1
    <2> QED
        BY <1>3, <2>2 DEF Wanted
<1>6. Remaining(Source(sel)) \subseteq Int
    BY <1>3, SelectionTypes, RemainingTypes
<1>7. \A rest \in Int : Upto(rest) \in Int
    <2> HIDE DEF Offset, Wanted
    <2> QED
        BY <1>4, <1>5 DEF Upto
<1> QED
    BY <1>4, <1>5, <1>6, <1>7 DEF Got

\* Reading and writing.
LEMMA WriteTypes ==
    ASSUME TypeInv, ReadSector \/ WriteSector
    PROVE  TypeInv'
<1>1. CASE ReadSector
    <2>1. worker.pc = "read" /\ UNCHANGED plan
        BY <1>1 DEF ReadSector, At
    <2>2. ASSUME Readable, NEW got \in Got \ {0},
                 buf' = Piece(Source(sel), Offset, IF got < SectorSize THEN got ELSE SectorSize)
          PROVE  PlanTypes'
        <3>1. Source(sel) \in [file : Files \cup {NoFile}, item : Int]
            BY SelectionTypes DEF TypeInv, SelTypes
        <3>2. Offset \in Int /\ got \in Int /\ SectorSize \in Int
            BY <2>1, <2>2, ReadTypes, SizesAssumption
        <3>3. buf' \in Pieces
            <4> HIDE DEF Offset, Got, Source
            <4> QED
                BY <2>2, <3>1, <3>2 DEF Piece, Pieces, Files
        <3> QED
            BY <2>1, <3>3 DEF TypeInv, PlanTypes
    <2>3. PlanTypes'
        BY <1>1, <2>2, Untouched DEF ReadSector, TypeInv
    <2>4. Moved
        <3>1. CASE Fail(Err)
            BY <2>3, <3>1, Moves, Texts
        <3>2. CASE Readable /\ worker' = [worker EXCEPT !.pc = "write"] /\ Push(Ok) /\ KeepUi
            <4>1. WorkTypes' /\ InPlan'
                BY <2>1, <3>2 DEF TypeInv, WorkTypes, InPlan, WorkerSteps, Readable
            <4> QED
                BY <3>2, <4>1, Moves, Texts DEF Moved
        <3> QED
            BY <1>1, <3>1, <3>2 DEF ReadSector
    <2> QED
        BY <1>1, <2>3, <2>4, WorkerStepTypes, Untouched
        DEF ReadSector, KeepDev, KeepLib, TypeInv, SelTypes, LibTypes, MsgTypes, ProcTypes
<1>2. CASE WriteSector
    <2>1. worker.pc = "write" /\ UNCHANGED plan
        BY <1>2 DEF WriteSector, At, KeepPlan
    <2>2. PlanTypes'
        BY <1>2, Untouched DEF WriteSector, KeepPlan, TypeInv
    <2>3. DevTypes'
        <3>1. ASSUME NEW s, WriteFlash(s) PROVE DevTypes'
            BY <3>1 DEF WriteFlash, TypeInv, DevTypes, PlanTypes
        <3>2. KeepDev => DevTypes'
            BY Untouched DEF KeepDev, TypeInv
        <3> QED
            BY <1>2, <3>1, <3>2 DEF WriteSector
    <2>4. Moved
        <3>1. CASE Fail(Ok \o Err)
            BY <2>2, <3>1, Moves, Texts
        <3>2. CASE Push(Ok) /\ KeepUi /\ Goto("runApp")
            BY <2>2, <3>2, Moves, Texts DEF Moved, WorkerSteps
        <3>3. CASE Push(Ok) /\ KeepUi /\ worker.pos # Len(plan.write)
                   /\ worker' = [worker EXCEPT !.pc = "read", !.pos = @ + 1]
            <4>1. worker' = [pc |-> "read", pos |-> worker.pos + 1, polls |-> worker.polls]
                BY <3>3 DEF TypeInv, WorkTypes
            <4>2. worker.pos <= Len(plan.write) /\ worker.pos \in Nat /\ Len(plan.write) \in Nat
                BY <2>1 DEF TypeInv, InPlan, WorkTypes, PlanTypes
            <4>3. WorkTypes' /\ InPlan'
                BY <2>1, <3>3, <4>1, <4>2 DEF TypeInv, WorkTypes, InPlan, WorkerSteps
            <4> QED
                BY <3>3, <4>3, Moves, Texts DEF Moved
        <3> QED
            BY <1>2, <3>1, <3>2, <3>3 DEF WriteSector
    <2> QED
        BY <1>2, <2>2, <2>3, <2>4, WorkerStepTypes, Untouched
        DEF WriteSector, KeepLib, KeepPlan, TypeInv, SelTypes, LibTypes, MsgTypes, ProcTypes
<1> QED
    BY <1>1, <1>2

\* Back to the application and the end.
LEMMA ToAppTypes ==
    ASSUME TypeInv, RunApp \/ WaitPlugoutBoot \/ WaitPluginApp \/ Recover \/ ChangeInterface
                    \/ SetIsoMode \/ Done \/ Closing
    PROVE  TypeInv'
<1>0. PlanTypes'
    <2>1. UNCHANGED <<plan, buf>>
        BY DEF RunApp, WaitPlugoutBoot, WaitPluginApp, Recover, ChangeInterface, SetIsoMode,
               Change, Done, Closing, KeepPlan
    <2> QED
        BY <2>1, Untouched DEF TypeInv
<1>1. CASE RunApp
    <2>1. Moved
        <3>1. CASE Push(Ok \o Ok) /\ Goto("outBoot") /\ KeepUi
            BY <1>0, <3>1, Moves, Texts DEF Moved, WorkerSteps
        <3>2. CASE Fail(Err)
            BY <1>0, <3>2, Moves, Texts
        <3> QED
            BY <1>1, <3>1, <3>2 DEF RunApp
    <2>2. LibTypes'
        BY <1>1 DEF RunApp, TypeInv, LibTypes, Modes
    <2>3. DevTypes'
        BY <1>1 DEF RunApp, TypeInv, DevTypes, Device, Modes
    <2> QED
        BY <1>0, <1>1, <2>1, <2>2, <2>3, WorkerStepTypes
        DEF RunApp, KeepPlan, TypeInv, SelTypes, MsgTypes, ProcTypes
<1>2. CASE WaitPlugoutBoot
    <2>1. Moved
        <3>1. CASE Push(Ok) /\ Goto("inLpu") /\ KeepUi
            BY <1>0, <3>1, Moves, Texts DEF Moved, WorkerSteps
        <3>2. CASE worker.polls > 1 /\ PollAgain /\ KeepUi /\ KeepPlan
            BY <3>2, Moves DEF Moved, PollAgain, KeepPlan
        <3>3. CASE Fail(Err)
            BY <1>0, <3>3, Moves, Texts
        <3> QED
            BY <1>2, <3>1, <3>2, <3>3 DEF WaitPlugoutBoot
    <2>2. LibTypes'
        BY <1>2, ListTypes DEF WaitPlugoutBoot, TypeInv, LibTypes
    <2> QED
        BY <1>0, <1>2, <2>1, <2>2, WorkerStepTypes, Untouched
        DEF WaitPlugoutBoot, KeepDev, KeepPlan, TypeInv, SelTypes, MsgTypes, ProcTypes
<1>3. CASE WaitPluginApp
    <2>1. Moved
        <3>1. CASE Push(Ok \o Ok) /\ Goto("recover") /\ KeepUi
            BY <1>0, <3>1, Moves, Texts DEF Moved, WorkerSteps
        <3>2. CASE worker.polls > 1 /\ PollAgain /\ KeepUi /\ KeepPlan
            BY <3>2, Moves DEF Moved, PollAgain, KeepPlan
        <3>3. CASE Fail(Err)
            BY <1>0, <3>3, Moves, Texts
        <3> QED
            BY <1>3, <3>1, <3>2, <3>3 DEF WaitPluginApp
    <2>2. LibTypes'
        BY <1>3, ListTypes DEF WaitPluginApp, TypeInv, LibTypes
    <2> QED
        BY <1>0, <1>3, <2>1, <2>2, WorkerStepTypes, Untouched
        DEF WaitPluginApp, KeepDev, KeepPlan, TypeInv, SelTypes, MsgTypes, ProcTypes
<1>4. CASE Recover
    <2>1. worker.pc = "recover"
        BY <1>4 DEF Recover, At
    <2>2. Moved
        <3>1. CASE Push(Ok) /\ Goto("inf") /\ KeepUi
            BY <1>0, <3>1, Moves, Texts DEF Moved, WorkerSteps
        <3>2. CASE Push(Ok) /\ Stay /\ KeepUi
            <4>1. WorkTypes' /\ InPlan'
                BY <2>1, <3>2 DEF Stay, TypeInv, WorkTypes, InPlan
            <4> QED
                BY <3>2, <4>1, Moves, Texts DEF Moved
        <3>3. CASE Push(Ok \o Ok) /\ Goto("inf") /\ KeepUi
            BY <1>0, <3>3, Moves, Texts DEF Moved, WorkerSteps
        <3>4. CASE Fail(Err)
            BY <1>0, <3>4, Moves, Texts
        <3>5. CASE Fail(Err \o Err)
            BY <1>0, <3>5, Moves, Texts
        <3> QED
            BY <1>4, <3>1, <3>2, <3>3, <3>4, <3>5 DEF Recover
    <2>3. DevTypes'
        BY <1>4 DEF Recover, TypeInv, DevTypes
    <2> QED
        BY <1>0, <1>4, <2>2, <2>3, WorkerStepTypes, Untouched
        DEF Recover, KeepLib, KeepPlan, TypeInv, SelTypes, LibTypes, MsgTypes, ProcTypes
<1>5. ASSUME NEW pc, NEW asked, NEW next \in WorkerSteps \ {"write"}, Change(pc, asked, next)
      PROVE  TypeInv'
    <2>1. Moved
        <3>1. CASE Goto(next) /\ KeepUi /\ UNCHANGED msgs
            BY <1>0, <3>1, Moves DEF Moved
        <3>2. CASE Push(Ok \o Ok) /\ Goto(next) /\ KeepUi
            BY <1>0, <3>2, Moves, Texts DEF Moved
        <3>3. CASE Fail(Ok \o Err)
            BY <1>0, <3>3, Moves, Texts
        <3> QED
            BY <1>5, <3>1, <3>2, <3>3 DEF Change
    <2> QED
        BY <1>0, <1>5, <2>1, WorkerStepTypes, Untouched
        DEF Change, KeepDev, KeepLib, KeepPlan, TypeInv, SelTypes, LibTypes, MsgTypes, ProcTypes
<1>6. CASE ChangeInterface \/ SetIsoMode
    BY <1>5, <1>6 DEF ChangeInterface, SetIsoMode, WorkerSteps
<1>7. CASE Done
    <2>1. Moved
        BY <1>0, <1>7, Moves, Texts DEF Done, Moved, WorkerSteps
    <2> QED
        BY <1>0, <1>7, <2>1, WorkerStepTypes, Untouched
        DEF Done, KeepDev, KeepLib, KeepPlan, TypeInv, SelTypes, LibTypes, MsgTypes, ProcTypes
<1>8. CASE Closing
    <2>1. Moved
        BY <1>0, <1>8, Moves DEF Closing, Moved, WorkerSteps
    <2> QED
        BY <1>0, <1>8, <2>1, WorkerStepTypes, Untouched
        DEF Closing, KeepDev, KeepLib, KeepPlan, TypeInv, SelTypes, LibTypes, MsgTypes, ProcTypes
<1> QED
    BY <1>1, <1>2, <1>3, <1>4, <1>6, <1>7, <1>8

\* The loops of the main thread.
LEMMA LoopTypes ==
    ASSUME TypeInv, NoUiLoop \/ UiLoop
    PROVE  TypeInv'
<1>1. /\ \A c \in Nat : Progress(c) \in Nat
      /\ \A m, c : Told(m, c) \in SUBSET {"error", "complete", "done"}
    BY DEF Progress, Told, TypeInv, UiTypes, Screen, MsgTypes
<1>2. SelTypes' /\ WorkTypes' /\ PlanTypes' /\ LibTypes' /\ DevTypes' /\ InPlan' /\ ProcTypes'
    BY Untouched DEF NoUiLoop, UiLoop, KeepWorker, KeepDev, TypeInv, SelTypes, LibTypes, ProcTypes
<1>3. msgs # << >> => Tail(msgs) \in Seq(Messages)
    BY DEF TypeInv, MsgTypes
<1>4. UNCHANGED saved /\ msgs' \in Seq(Messages) /\ told' \in SUBSET {"error", "complete", "done"}
    BY <1>1, <1>3 DEF NoUiLoop, UiLoop, KeepWorker, TypeInv, MsgTypes
<1>5. UiTypes'
    <2>1. ui \in Screen /\ ui.cur \in Nat /\ Progress(ui.cur) \in Nat /\ UNCHANGED <<running, thread>>
        BY <1>1 DEF TypeInv, UiTypes, Screen, NoUiLoop, UiLoop, KeepWorker
    <2>2. CASE NoUiLoop
        BY <2>1, <2>2 DEF NoUiLoop, TypeInv, UiTypes, Screen
    <2>3. CASE UiLoop
        <3>1. (IF ui.posted /\ ui.state = "s_ing" THEN Progress(ui.cur) ELSE ui.cur) \in Nat
            BY <2>1
        <3>2. /\ (msgs # << >>) \in BOOLEAN
              /\ (~running /\ start.byCf) \in BOOLEAN
            OBVIOUS
        <3>3. \/ ui' = [ui EXCEPT !.on = FALSE]
              \/ \E c \in Nat, p, q \in BOOLEAN :
                   ui' = [ui EXCEPT !.cur = c, !.posted = p, !.quit = q]
            BY <2>3, <3>1, <3>2 DEF UiLoop
        <3> QED
            BY <2>1, <3>3 DEF TypeInv, UiTypes, Screen
    <2> QED
        BY <2>2, <2>3
<1> QED
    BY <1>2, <1>4, <1>5 DEF TypeInv, MsgTypes

\* What a process starts with, and leaves when it is gone.
LEMMA FreshTypes ==
    /\ Waiting \in [pc : WorkerSteps, pos : Nat \ {0}, polls : 1 .. Polls]
    /\ NoPlan \in [erase : Seq(AppArea), write : Seq(AppArea)] /\ NoPiece \in Pieces
    /\ NoList \in [filter : SUBSET Modes, base : SUBSET Modes]
    /\ 0 \in 0 .. NGet /\ << >> \in Seq(Messages)
<1>1. Waiting \in [pc : WorkerSteps, pos : Nat \ {0}, polls : 1 .. Polls]
    BY UpdaterAssumption DEF Waiting, WorkerSteps
<1>2. NoPlan \in [erase : Seq(AppArea), write : Seq(AppArea)] /\ NoPiece \in Pieces
    BY AreaTypes DEF NoPlan
<1>3. NoList \in [filter : SUBSET Modes, base : SUBSET Modes]
    BY DEF NoList
<1>4. 0 \in 0 .. NGet /\ << >> \in Seq(Messages)
    BY SizesAssumption
<1> QED
    BY <1>1, <1>2, <1>3, <1>4

\* The end, the kill and the start of a process keep the types.
LEMMA ProcessTypes ==
    ASSUME TypeInv, EndProcess \/ Kill \/ Restart
    PROVE  TypeInv'
<1>1. ASSUME Gone PROVE TypeInv'
    <2>1. WorkTypes' /\ PlanTypes' /\ LibTypes' /\ MsgTypes' /\ InPlan'
        <3>1. WorkTypes' /\ PlanTypes' /\ LibTypes'
            BY <1>1, FreshTypes DEF Gone, WorkTypes, PlanTypes, LibTypes
        <3>2. MsgTypes' /\ InPlan'
            BY <1>1, FreshTypes DEF Gone, MsgTypes, InPlan, Waiting
        <3> QED
            BY <3>1, <3>2
    <2>2. SelTypes' /\ UiTypes' /\ DevTypes' /\ ProcTypes'
        BY <1>1, Untouched DEF Gone, KeepDev, TypeInv, SelTypes, UiTypes, ProcTypes
    <2> QED
        BY <2>1, <2>2 DEF TypeInv
<1>2. CASE EndProcess
    <2>1. CASE Gone
        BY <1>1, <2>1
    <2>2. CASE running' = FALSE /\ UNCHANGED <<start, dir, sel, ui, thread, procVars>> /\ KeepDev
        BY <2>2, Untouched DEF procVars, KeepDev, TypeInv, UiTypes
    <2> QED
        BY <1>2, <2>1, <2>2 DEF EndProcess
<1>3. CASE Kill
    BY <1>1, <1>3 DEF Kill
<1>4. CASE Restart
    <2>1. PICK st \in Starts, d \in Dirs :
            /\ start' = st /\ dir' = d /\ sel' = Opened(st, d) /\ ui' = OpenedUi(st, d)
            /\ running' = ByItself(st) /\ thread' = ByItself(st)
            /\ bootPath' = st.boot /\ link' = OpenedLink(st)
        BY <1>4 DEF Restart
    <2>2. SelTypes' /\ UiTypes'
        BY <2>1, OpenedTypes DEF SelTypes, UiTypes, ByItself
    <2>3. bootPath' \in BOOLEAN /\ link' \in {"none", "app", "boot"}
        BY <2>1, StartsAssumption DEF OpenedLink
    <2>4. WorkTypes' /\ PlanTypes' /\ LibTypes'
        BY <1>4, <2>3, FreshTypes DEF Restart, WorkTypes, PlanTypes, LibTypes
    <2>5. MsgTypes' /\ InPlan'
        BY <1>4, FreshTypes DEF Restart, MsgTypes, InPlan, Waiting
    <2>6. ProcTypes' /\ DevTypes'
        BY <1>4, UpdaterAssumption, Untouched DEF Restart, TypeInv, ProcTypes, KeepDev
    <2> QED
        BY <2>2, <2>4, <2>5, <2>6 DEF TypeInv
<1> QED
    BY <1>2, <1>3, <1>4

\* The buttons.
LEMMA DialogTypes ==
    ASSUME TypeInv, Dialog, KeepProc, KeepDev
    PROVE  TypeInv'
<1>1. WorkTypes' /\ PlanTypes' /\ LibTypes' /\ MsgTypes' /\ ProcTypes' /\ DevTypes' /\ InPlan'
    BY Untouched DEF KeepProc, procVars, KeepDev, TypeInv
<1>2. UNCHANGED <<start, dir>> /\ running' \in BOOLEAN /\ thread' \in BOOLEAN
    BY DEF TypeInv, UiTypes, Dialog, PressUpdate, SelectFile, CancelFile, MoveMenu, OkFirmware,
           CancelFirmware, OkConfirm, CancelConfirm, Exit
<1>3. ui \in Screen /\ sel \in Selection /\ start \in Starts /\ start.boot \in BOOLEAN
    BY StartsAssumption DEF TypeInv, UiTypes, SelTypes
<1>4. CASE SelectFile
    <2>1. PICK f \in dir \ Unlisted :
            LET s == IF f \in Roms THEN UpdateFwList(SetPath(sel, f), start.boot)
                                   ELSE SetPath(sel, f)
            IN  /\ sel' = s
                /\ ui' = [ui EXCEPT !.state = IF f \in Roms THEN "s_selfirm" ELSE "s_sellast",
                                    !.menu = IF f \in Roms THEN s.item ELSE @,
                                    !.max = UpdateSteps(start, s)]
        BY <1>4 DEF SelectFile
    <2>2. f \in Files
        BY FilesAssumption DEF TypeInv, SelTypes, Files
    <2>3. sel' \in Selection
        BY <1>3, <2>1, <2>2, SelectionTypes
    <2>4. sel'.item \in Int /\ UpdateSteps(start, sel') \in Nat
        BY <1>3, <2>3, SelectionTypes DEF Selection
    <2>5. \E x \in {"s_selfirm", "s_sellast"}, m \in Int :
            ui' = [ui EXCEPT !.state = x, !.menu = m, !.max = UpdateSteps(start, sel')]
        <3>1. ui.menu \in Int
            BY <1>3 DEF Screen
        <3> QED
            BY <2>1, <2>4, <3>1
    <2>6. ui' \in Screen
        BY <1>3, <2>4, <2>5 DEF Screen, States
    <2> QED
        BY <1>1, <1>2, <2>3, <2>6 DEF TypeInv, SelTypes, UiTypes
<1>5. CASE OkFirmware
    <2>1. sel' \in Selection
        BY <1>3, <1>5, SelectionTypes DEF OkFirmware, Screen
    <2>2. UpdateSteps(start, sel') \in Nat
        BY <1>3, <2>1, SelectionTypes
    <2>3. ui' \in Screen
        BY <1>3, <1>5, <2>2 DEF OkFirmware, Screen, States
    <2> QED
        BY <1>1, <1>2, <2>1, <2>3 DEF TypeInv, SelTypes, UiTypes
<1>6. CASE PressUpdate
    <2>1. ui' \in Screen /\ UNCHANGED sel
        BY <1>3, <1>6 DEF PressUpdate, Screen, States
    <2> QED
        BY <1>1, <1>2, <2>1 DEF TypeInv, SelTypes, UiTypes
<1>7. CASE MoveMenu
    <2>1. ui' \in Screen /\ UNCHANGED sel
        BY <1>3, <1>7 DEF MoveMenu, Screen
    <2> QED
        BY <1>1, <1>2, <2>1 DEF TypeInv, SelTypes, UiTypes
<1>8. CASE CancelFile \/ CancelFirmware \/ OkConfirm \/ CancelConfirm \/ Exit
    <2>1. ui' \in Screen /\ UNCHANGED sel
        BY <1>3, <1>8
        DEF CancelFile, CancelFirmware, OkConfirm, CancelConfirm, Exit, Screen, States
    <2> QED
        BY <1>1, <1>2, <2>1 DEF TypeInv, SelTypes, UiTypes
<1> QED
    BY <1>4, <1>5, <1>6, <1>7, <1>8 DEF Dialog

\* The device by itself.
LEMMA DeviceTypes ==
    ASSUME TypeInv, DevLeave \/ DevReturn \/ DevPowerLoss
    PROVE  TypeInv'
<1>1. UNCHANGED selVars
    BY DEF DevLeave, DevReturn, DevPowerLoss
<1>2. UNCHANGED <<worker, plan, buf, lib, bootPath, saved, msgs, told, exitOk, alive, runs>>
    BY DEF DevLeave, DevReturn, DevPowerLoss, procVars
<1>3. LibTypes' /\ DevTypes'
    <2>1. link' \in {"none", "app", "boot"}
        BY DEF DevLeave, DevReturn, DevPowerLoss, procVars, TypeInv, LibTypes
    <2>2. DevTypes'
        <3>1. dev' \in Device
            <4>1. dev \in Device /\ dev.next \in Modes
                BY DEF TypeInv, DevTypes, Device
            <4>2. CASE dev' = [dev EXCEPT !.on = FALSE, !.mode = dev.next]
                <5>1. dev' = [mode |-> dev.next, next |-> dev.next, on |-> FALSE]
                    BY <4>1, <4>2 DEF Device
                <5> QED
                    BY <4>1, <5>1 DEF Device
            <4>3. CASE dev' = [dev EXCEPT !.on = TRUE]
                BY <4>1, <4>3 DEF Device
            <4>4. CASE \E m \in Modes : dev' = [mode |-> m, next |-> m, on |-> FALSE]
                BY <4>4 DEF Device
            <4> QED
                BY <4>2, <4>3, <4>4 DEF DevLeave, DevReturn, DevPowerLoss, Modes
        <3>2. losses' \in 0 .. MaxPowerLoss
            BY UpdaterAssumption DEF DevLeave, DevReturn, DevPowerLoss, TypeInv, DevTypes
        <3>3. UNCHANGED <<flash, params>>
            BY DEF DevLeave, DevReturn, DevPowerLoss
        <3> QED
            BY <3>1, <3>2, <3>3 DEF TypeInv, DevTypes
    <2> QED
        BY <1>2, <2>1, <2>2 DEF TypeInv, LibTypes
<1> QED
    BY <1>1, <1>2, <1>3, Untouched DEF TypeInv, selVars

\* At the start, every variable has its type.
LEMMA TypesInit == Init => TypeInv
<1> SUFFICES ASSUME Init PROVE TypeInv
    OBVIOUS
<1>1. PICK st \in Starts, d \in Dirs : Begun(st, d)
    BY DEF Init
<1>2. SelTypes /\ UiTypes
    BY <1>1, OpenedTypes DEF Begun, SelTypes, UiTypes, ByItself
<1>3. WorkTypes /\ PlanTypes /\ LibTypes
    <2>1. bootPath \in BOOLEAN /\ link \in {"none", "app", "boot"}
        BY <1>1, StartsAssumption DEF Begun, OpenedLink
    <2> QED
        BY <1>1, <2>1, FreshTypes DEF Begun, WorkTypes, PlanTypes, LibTypes
<1>4. MsgTypes /\ ProcTypes /\ InPlan
    BY <1>1, FreshTypes, UpdaterAssumption DEF Init, Begun, MsgTypes, ProcTypes, InPlan, Waiting
<1>5. DevTypes
    <2>1. dev \in Device
        BY DEF Init, DevInit, Device, Modes
    <2>2. flash \in [AppArea -> Pieces] /\ losses \in 0 .. MaxPowerLoss
        BY AreaTypes, UpdaterAssumption DEF Init, DevInit
    <2> QED
        BY <2>1, <2>2 DEF Init, DevInit, DevTypes
<1> QED
    BY <1>2, <1>3, <1>4, <1>5 DEF TypeInv

\* Every step keeps the types, each by the lemma of its action.
LEMMA TypesStep == TypeInv /\ [Next]_vars => TypeInv'
<1> SUFFICES ASSUME TypeInv, [Next]_vars PROVE TypeInv'
    OBVIOUS
<1>1. CASE Worker
    BY <1>1, ToBootTypes, EraseTypes, WriteTypes, ToAppTypes DEF Worker
<1>2. CASE NoUiLoop \/ UiLoop
    BY <1>2, LoopTypes
<1>3. CASE EndProcess \/ Kill \/ Restart
    BY <1>3, ProcessTypes
<1>4. CASE Button
    BY <1>4, DialogTypes DEF Button
<1>5. CASE DevLeave \/ DevReturn \/ DevPowerLoss
    BY <1>5, DeviceTypes
<1>6. CASE UNCHANGED vars
    BY <1>6, Untouched DEF vars, selVars, procVars, TypeInv
<1> QED
    BY <1>1, <1>2, <1>3, <1>4, <1>5, <1>6 DEF Next

\* The variables keep their types: what cshare, cupdater and the device keep.
THEOREM Types == Spec => []TypeOK
<1>1. Spec => []TypeInv
    BY TypesInit, TypesStep, PTL DEF Spec
<1> QED
    BY <1>1, TypesAreOK, PTL

-----------------------------------------------------------------------------
(* The parameters.                                                          *)

\* Only an erase loses the parameters, and the worker gets to the changes
\* after the update only by writing them back.
LEMMA ParamsStep == TypeInv /\ ParamsKept /\ [Next]_vars => ParamsKept'
<1> SUFFICES ASSUME TypeInv, ParamsKept, [Next]_vars PROVE ParamsKept'
    OBVIOUS
<1> DEFINE After == {"inf", "iso", "done"}
<1>0. worker \in [pc : WorkerSteps, pos : Nat \ {0}, polls : 1 .. Polls]
    BY DEF TypeInv, WorkTypes
<1>1. CASE UNCHANGED <<alive, start, params>> /\ (worker'.pc = worker.pc \/ worker'.pc \notin After)
    BY <1>1 DEF ParamsKept
<1>2. ASSUME NEW pc, Goto(pc) PROVE worker'.pc = pc
    BY <1>2 DEF Goto
<1>3. ASSUME NEW ms, Fail(ms) PROVE worker'.pc = "closing"
    BY <1>2, <1>3 DEF Fail
<1>4. PollAgain \/ Stay \/ UNCHANGED worker => worker'.pc = worker.pc
    BY <1>0 DEF PollAgain, Stay
<1>5. CASE WorkerStart \/ Backup \/ RunBootloader \/ WaitPlugoutApp \/ WaitPluginBoot \/ StopBootUse
    <2>1. UNCHANGED <<alive, start, params>>
        BY <1>5
        DEF WorkerStart, Backup, RunBootloader, WaitPlugoutApp, WaitPluginBoot, StopBootUse,
            KeepSel, KeepDev, devVars
    <2>2. worker'.pc = worker.pc \/ worker'.pc \notin After
        BY <1>2, <1>3, <1>4, <1>5
        DEF WorkerStart, Backup, RunBootloader, WaitPlugoutApp, WaitPluginBoot, StopBootUse
    <2> QED
        BY <1>1, <2>1, <2>2
<1>6. CASE Setup \/ ForceFirmware \/ ReadSector \/ RunApp \/ WaitPlugoutBoot \/ WaitPluginApp
    <2>1. UNCHANGED <<alive, start, params>>
        BY <1>6
        DEF Setup, ForceFirmware, ReadSector, RunApp, WaitPlugoutBoot, WaitPluginApp,
            KeepSel, KeepDev, devVars
    <2>2. worker'.pc = worker.pc \/ worker'.pc \notin After
        <3>1. ReadSector => worker'.pc \in {"write", "closing"}
            BY <1>0, <1>3 DEF ReadSector
        <3> QED
            BY <1>2, <1>3, <1>4, <1>6, <3>1
            DEF Setup, ForceFirmware, RunApp, WaitPlugoutBoot, WaitPluginApp
    <2> QED
        BY <1>1, <2>1, <2>2
<1>7. CASE EraseSector \/ WriteSector
    <2>1. worker'.pc \notin After
        <3>1. EraseSector => worker.pc = "erase"
            BY DEF EraseSector, At
        <3>2. EraseSector => worker'.pc \in {"force", "closing", "erase"}
            BY <1>2, <1>3, <1>4, <3>1 DEF EraseSector
        <3>3. WriteSector => worker'.pc \in {"runApp", "closing", "read"}
            BY <1>0, <1>2, <1>3 DEF WriteSector
        <3> QED
            BY <1>7, <3>2, <3>3
    <2> QED
        BY <2>1 DEF ParamsKept
<1>8. CASE Recover
    <2>1. UNCHANGED <<alive, start>> /\ worker.pc = "recover"
        BY <1>8 DEF Recover, KeepSel, At
    <2>2. \/ start.boot
          \/ worker'.pc \notin After
          \/ params' = "user"
        BY <1>2, <1>3, <1>4, <1>8, <2>1 DEF Recover
    <2> QED
        BY <2>1, <2>2 DEF ParamsKept
<1>9. CASE ChangeInterface \/ SetIsoMode \/ Done
    <2>1. UNCHANGED <<alive, start, params>> /\ worker.pc \in After
        BY <1>9 DEF ChangeInterface, SetIsoMode, Change, Done, KeepSel, KeepDev, devVars, At
    <2> QED
        BY <2>1 DEF ParamsKept
<1>10. CASE Closing
    BY <1>1, <1>2, <1>10 DEF Closing, KeepSel, KeepDev, devVars
<1>11. CASE NoUiLoop \/ UiLoop
    BY <1>1, <1>11 DEF NoUiLoop, UiLoop, KeepWorker, KeepDev, devVars
<1>12. CASE EndProcess \/ Kill \/ Restart
    <2>1. worker' = Waiting => worker'.pc \notin After
        BY DEF Waiting
    <2>2. CASE worker' = Waiting
        BY <2>1, <2>2 DEF ParamsKept
    <2>3. CASE UNCHANGED <<start, procVars>> /\ KeepDev
        BY <1>1, <2>3 DEF procVars, KeepDev, devVars
    <2> QED
        BY <1>12, <2>2, <2>3 DEF EndProcess, Kill, Restart, Gone
<1>13. CASE Button
    <2>1. UNCHANGED start
        BY <1>13 DEF Button, Dialog, PressUpdate, SelectFile, CancelFile, MoveMenu, OkFirmware,
                     CancelFirmware, OkConfirm, CancelConfirm, Exit
    <2> QED
        BY <1>1, <1>13, <2>1 DEF Button, KeepProc, procVars, KeepDev, devVars
<1>14. CASE DevLeave \/ DevReturn \/ DevPowerLoss
    <2>1. UNCHANGED <<alive, worker, start, params>>
        BY <1>14 DEF DevLeave, DevReturn, DevPowerLoss, selVars, procVars
    <2> QED
        BY <1>1, <2>1
<1>15. CASE UNCHANGED vars
    BY <1>1, <1>15 DEF vars, selVars, procVars, devVars
<1> QED
    BY <1>5, <1>6, <1>7, <1>8, <1>9, <1>10, <1>11, <1>12, <1>13, <1>14, <1>15 DEF Next, Worker

\* Where an update of the application goes on after the write, the
\* parameters that the erase lost are those saved before it.
THEOREM ParamsRestored == Spec => []ParamsKept
<1>1. Init => ParamsKept
    BY DEF Init, DevInit, ParamsKept
<1>2. Spec => []TypeInv
    BY TypesInit, TypesStep, PTL DEF Spec
<1> QED
    BY <1>1, <1>2, ParamsStep, PTL DEF Spec

-----------------------------------------------------------------------------
(* Who changes what.                                                        *)

\* The worker works only while the process lives, and leaves the start and
\* the thread alone; of the screen it changes at most the state, when it ends.
LEMMA WorkerKeeps ==
    ASSUME Worker
    PROVE  /\ alive /\ thread /\ UNCHANGED <<start, dir, thread, alive, runs>>
           /\ \/ UNCHANGED ui
              \/ ui' = [ui EXCEPT !.state = IF @ = "s_ing" THEN "s_com" ELSE @]
<1>1. CASE WorkerStart \/ Backup \/ RunBootloader \/ WaitPlugoutApp \/ WaitPluginBoot \/ StopBootUse
    BY <1>1
    DEF WorkerStart, Backup, RunBootloader, WaitPlugoutApp, WaitPluginBoot, StopBootUse,
        At, KeepSel, KeepUi, Fail
<1>2. CASE Setup \/ EraseSector \/ ForceFirmware \/ ReadSector \/ WriteSector
    BY <1>2 DEF Setup, EraseSector, ForceFirmware, ReadSector, WriteSector, At, KeepSel, KeepUi, Fail
<1>3. CASE RunApp \/ WaitPlugoutBoot \/ WaitPluginApp \/ Recover
    BY <1>3 DEF RunApp, WaitPlugoutBoot, WaitPluginApp, Recover, At, KeepSel, KeepUi, Fail
<1>4. CASE ChangeInterface \/ SetIsoMode \/ Done \/ Closing
    BY <1>4 DEF ChangeInterface, SetIsoMode, Change, Done, Closing, At, KeepSel, KeepUi, Fail
<1> QED
    BY <1>1, <1>2, <1>3, <1>4 DEF Worker

\* The loops leave the selection, the worker and the device alone.
LEMMA LoopKeeps ==
    ASSUME TypeInv, NoUiLoop \/ UiLoop
    PROVE  /\ UNCHANGED <<start, dir, sel, running, thread, worker, plan, buf, lib, bootPath,
                          link, saved, exitOk, alive, runs>>
           /\ UNCHANGED devVars
           /\ ui'.state = ui.state /\ ui'.menu = ui.menu /\ ui'.max = ui.max
<1>1. ui \in Screen
    BY DEF TypeInv, UiTypes
<1>2. CASE NoUiLoop
    BY <1>1, <1>2 DEF NoUiLoop, KeepWorker, KeepDev, Screen
<1>3. CASE UiLoop
    <2> DEFINE cur == IF ui.posted /\ ui.state = "s_ing" THEN Progress(ui.cur) ELSE ui.cur
    <2>1. \/ ui' = [ui EXCEPT !.on = FALSE]
          \/ ui' = [ui EXCEPT !.cur = cur, !.posted = msgs # << >>,
                              !.quit = ~running /\ start.byCf]
        BY <1>3 DEF UiLoop
    <2>2. ui'.state = ui.state /\ ui'.menu = ui.menu /\ ui'.max = ui.max
        <3> HIDE DEF cur
        <3> QED
            BY <1>1, <2>1 DEF Screen
    <2> QED
        BY <1>3, <2>2 DEF UiLoop, KeepWorker, KeepDev
<1> QED
    BY <1>2, <1>3

\* The dialogs leave the process and the device alone; but for the exit
\* button, they are over when there is a thread.
LEMMA DialogKeeps ==
    ASSUME Button
    PROVE  alive /\ UNCHANGED <<start, dir, procVars, devVars>>
    BY DEF Button, KeepProc, KeepDev, Dialog, PressUpdate, SelectFile, CancelFile, MoveMenu,
           OkFirmware, CancelFirmware, OkConfirm, CancelConfirm, Exit

\* The device leaves the process alone, but for its handle.
LEMMA DeviceKeeps ==
    ASSUME DevLeave \/ DevReturn \/ DevPowerLoss
    PROVE  UNCHANGED <<selVars, worker, plan, buf, lib, bootPath, saved, msgs, told, exitOk,
                       alive, runs, flash, params>>
    BY DEF DevLeave, DevReturn, DevPowerLoss, procVars

\* A process ends, or only its thread is told to.
LEMMA EndKeeps ==
    ASSUME EndProcess \/ Kill
    PROVE  /\ UNCHANGED <<start, dir, sel, ui, devVars>>
           /\ \/ UNCHANGED <<thread, procVars>>
              \/ /\ ~alive' /\ ~thread' /\ worker' = Waiting /\ plan' = NoPlan /\ msgs' = << >>
                 /\ UNCHANGED runs
    BY DEF EndProcess, Kill, Gone, KeepDev

\* The thread is there from the last confirmation on, and the worker waits
\* while it is not.
AtWork ==
    /\ thread => ui.state \in {"s_ing", "s_com"}
    /\ worker.pc # "wait" => thread

\* Only the last confirmation and a start create the thread; no button but
\* the exit leads away from there.
LEMMA AtWorkStep == TypeInv /\ AtWork /\ [Next]_vars => AtWork'
<1> SUFFICES ASSUME TypeInv, AtWork, [Next]_vars PROVE AtWork'
    OBVIOUS
<1>0. ui \in Screen
    BY DEF TypeInv, UiTypes
<1>1. CASE Worker
    BY <1>0, <1>1, WorkerKeeps DEF AtWork, Screen
<1>2. CASE NoUiLoop \/ UiLoop
    BY <1>2, LoopKeeps DEF AtWork
<1>3. CASE EndProcess \/ Kill
    BY <1>3, EndKeeps DEF AtWork, Waiting, procVars
<1>4. CASE Restart
    <2>1. PICK st \in Starts, d \in Dirs :
            ui' = OpenedUi(st, d) /\ thread' = ByItself(st)
        BY <1>4 DEF Restart
    <2>2. worker' = Waiting
        BY <1>4 DEF Restart
    <2> QED
        BY <2>1, <2>2 DEF AtWork, OpenedUi, Waiting
<1>5. CASE Button
    <2>1. UNCHANGED worker
        BY <1>5, DialogKeeps DEF procVars
    <2>2. CASE OkConfirm
        BY <1>0, <2>1, <2>2 DEF AtWork, OkConfirm, Screen
    <2>3. CASE Exit
        BY <1>0, <2>1, <2>3 DEF AtWork, Exit, Screen
    <2>4. CASE PressUpdate \/ SelectFile \/ CancelFile \/ MoveMenu \/ OkFirmware \/ CancelFirmware
               \/ CancelConfirm
        <3>1. UNCHANGED thread /\ ui.state \notin {"s_ing", "s_com"}
            BY <2>4 DEF PressUpdate, SelectFile, CancelFile, MoveMenu, OkFirmware, CancelFirmware,
                        CancelConfirm, Tab
        <3> QED
            BY <2>1, <3>1 DEF AtWork
    <2> QED
        BY <1>5, <2>2, <2>3, <2>4 DEF Button, Dialog
<1>6. CASE DevLeave \/ DevReturn \/ DevPowerLoss
    BY <1>6, DeviceKeeps DEF AtWork, selVars
<1>7. CASE UNCHANGED vars
    BY <1>7 DEF AtWork, vars, selVars, procVars
<1> QED
    BY <1>1, <1>2, <1>3, <1>4, <1>5, <1>6, <1>7 DEF Next

\* A program that starts by itself starts in the state s_ing.
LEMMA AtWorkInit == Init => AtWork
    BY DEF Init, Begun, AtWork, OpenedUi, Waiting

-----------------------------------------------------------------------------
(* The selection.                                                           *)

\* The selected item belongs to the selected file.
OwnItem == sel.item # NoItem /\ sel.header # NoFile => sel.path = sel.header

\* Where the command line gives an index, it is the selected one when it is put
\* in place of the selection.
IndexSelected == alive /\ worker.pc = "force" => start.index \in {NoItem, sel.item}

\* An item of the loaded rom file is selected; the size is what will be read.
InList(s, i) == i \in 0 .. Len(FwList(s)) - 1
Fits(s) == s.size = SourceSize(Source(s))

\* What a selection is, whatever was chosen before it.
Coherent(s, menu) ==
    /\ s.header = NoFile => s.item = NoItem /\ menu = NoItem
    /\ s.path = NoFile => s.header = NoFile /\ s.size = 0
    /\ s.path \in Roms => s.header = s.path
    /\ s.path \in Bins /\ s.item = NoItem => s.size = BinSize[s.path]
    /\ s.path \in Roms /\ ~InList(s, menu) => s.size = 0

\* The dialogs are through, and the worker has not replaced the selection.
Chosen == ui.state \in {"s_sellast", "s_ing", "s_com"}
Unforced == {"wait", "backup", "runBoot", "outLpu", "inBoot", "stopBoot", "setup", "erase", "force"}

SelInv ==
    alive /\ worker.pc \in Unforced =>
        Coherent(sel, ui.menu) /\ (sel.path \in Roms /\ Chosen => Fits(sel))

\* The size of what a selection is read from.
LEMMA SourceSizes ==
    ASSUME NEW s \in Selection
    PROVE  /\ InList(s, s.item) =>
                /\ Source(s) = [file |-> s.header, item |-> s.item] /\ s.header \in Roms
                /\ SourceSize(Source(s)) = FwList(s)[s.item + 1].size
           /\ s.item # NoItem => Source(s) = [file |-> s.header, item |-> s.item]
           /\ s.item # NoItem /\ ~InList(s, s.item) => SourceSize(Source(s)) = 0
           /\ s.item = NoItem => Source(s) = [file |-> s.path, item |-> NoItem]
           /\ s.item = NoItem /\ s.path \in Bins => SourceSize(Source(s)) = BinSize[s.path]
           /\ s.item = NoItem /\ s.path \notin Bins => SourceSize(Source(s)) = 0
           /\ SourceSize(Source(s)) \in Nat
<1>1. s.item \in Int /\ s.header \in Roms \cup {NoFile} /\ s.path \in Files \cup {NoFile}
    BY DEF Selection
<1>2. CASE InList(s, s.item)
    <2>1. s.header \in Roms /\ s.header # NoFile /\ FwList(s) = Items[s.header]
        <3>1. s.header # NoFile
            BY <1>2 DEF InList, FwList
        <3> QED
            BY <1>1, <3>1 DEF FwList
    <2>2. s.item # NoItem
        BY <1>2 DEF InList, NoItem
    <2>3. Source(s) = [file |-> s.header, item |-> s.item]
        BY <2>2 DEF Source
    <2>4. SourceSize(Source(s)) = Items[s.header][s.item + 1].size
        BY <1>2, <2>1, <2>3, FilesAssumption DEF SourceSize, InList
    <2> QED
        BY <1>2, <2>1, <2>2, <2>3, <2>4, ItemTypes DEF InList
<1>3. CASE ~InList(s, s.item) /\ s.item # NoItem
    <2>1. Source(s) = [file |-> s.header, item |-> s.item]
        BY <1>3 DEF Source
    <2>2. s.header \in Roms => s.item \notin 0 .. Len(Items[s.header]) - 1
        BY <1>3, FilesAssumption DEF InList, FwList
    <2> QED
        BY <1>1, <1>3, <2>1, <2>2, FilesAssumption DEF SourceSize
<1>4. CASE s.item = NoItem
    <2>1. Source(s) = [file |-> s.path, item |-> NoItem] /\ ~InList(s, s.item)
        BY <1>4 DEF Source, InList, NoItem
    <2>2. SourceSize(Source(s)) = IF s.path \in Bins THEN BinSize[s.path] ELSE 0
        <3>1. NoItem \notin 0 .. Len(Items[s.path]) - 1
            BY DEF NoItem
        <3> QED
            BY <2>1, <3>1 DEF SourceSize
    <2> QED
        BY <1>4, <2>1, <2>2, SizesAssumption
<1> QED
    BY <1>2, <1>3, <1>4

\* An item of the list that is picked fits; another number is stored alone.
LEMMA Picked ==
    ASSUME NEW s \in Selection, NEW i \in Int
    PROVE  LET t == SetFirmware(s, i)
           IN  /\ t.path = s.path /\ t.header = s.header /\ t.item = i
               /\ FwList(t) = FwList(s)
               /\ InList(s, i) => Fits(t)
               /\ ~InList(s, i) => t.size = s.size
<1> DEFINE t == SetFirmware(s, i)
<1>1. t.path = s.path /\ t.header = s.header /\ t.item = i
    BY DEF SetFirmware, Selection
<1>2. FwList(t) = FwList(s)
    BY <1>1 DEF FwList
<1>3. InList(s, i) => t.size = FwList(s)[i + 1].size
    BY DEF SetFirmware, Selection, InList
<1>4. ~InList(s, i) => t.size = s.size
    BY DEF SetFirmware, Selection, InList
<1>5. t \in Selection
    BY SelectionTypes
<1>6. InList(s, i) => Fits(t)
    <2>1. InList(s, i) <=> InList(t, t.item)
        BY <1>1, <1>2 DEF InList
    <2> HIDE DEF t
    <2> QED
        BY <1>1, <1>2, <1>3, <1>5, <2>1, SourceSizes DEF Fits
<1> QED
    BY <1>1, <1>2, <1>4, <1>6

\* A rom file that is loaded: an item of it that fits is selected, or the
\* selection stays.
LEMMA Loaded ==
    ASSUME NEW s \in Selection, s.path \in Roms, NEW b \in BOOLEAN
    PROVE  LET t == UpdateFwList(s, b)
           IN  /\ t.path = s.path /\ t.header = s.path /\ t.header # NoFile
               /\ \/ t.upd = NoItem /\ t.item = s.item /\ t.size = s.size
                  \/ t.upd # NoItem /\ t.item # NoItem /\ InList(t, t.item) /\ Fits(t)
<1> DEFINE t == UpdateFwList(s, b)
           u == IF b THEN NoItem ELSE GetUpdatableItemIndex(Items[s.path], Model, Version)
<1>0. t \in Selection /\ s.path # NoFile
    BY SelectionTypes, FilesAssumption
<1>1. t = IF u = NoItem
            THEN [s EXCEPT !.header = s.path, !.upd = NoItem]
            ELSE [s EXCEPT !.header = s.path, !.upd = u, !.item = u,
                           !.size = Items[s.path][u + 1].size]
    BY DEF UpdateFwList
<1>2. u # NoItem => u \in 0 .. Len(Items[s.path]) - 1
    BY ItemFound
<1> DEFINE Kept == t.upd = NoItem /\ t.item = s.item /\ t.size = s.size
           Found == t.upd # NoItem /\ t.item # NoItem /\ InList(t, t.item) /\ Fits(t)
           Named == t.path = s.path /\ t.header = s.path /\ t.header # NoFile
<1>3. ASSUME u = NoItem PROVE Named /\ Kept
    <2> HIDE DEF u, t
    <2>1. t = [path |-> s.path, header |-> s.path, upd |-> NoItem, item |-> s.item,
               size |-> s.size]
        BY <1>1, <1>3 DEF Selection
    <2> QED
        BY <1>0, <2>1
<1>4. ASSUME u # NoItem PROVE Named /\ Found
    <2> HIDE DEF u, t
    <2>1. t = [path |-> s.path, header |-> s.path, upd |-> u, item |-> u,
               size |-> Items[s.path][u + 1].size]
        BY <1>1, <1>4 DEF Selection
    <2>2. FwList(t) = Items[s.path]
        BY <1>0, <2>1 DEF FwList
    <2>3. InList(t, t.item)
        BY <1>2, <1>4, <2>1, <2>2 DEF InList
    <2>4. Fits(t)
        BY <1>0, <2>1, <2>2, <2>3, SourceSizes DEF Fits
    <2> QED
        BY <1>0, <1>4, <2>1, <2>3, <2>4
<1> QED
    BY <1>3, <1>4

\* Forcing the index that is selected leaves the selection as it is.
LEMMA ForceSame ==
    ASSUME TypeInv, ForceFirmware,
           start.index # NoItem => sel.item = start.index /\ (InList(sel, sel.item) => Fits(sel))
    PROVE  UNCHANGED sel
<1>0. sel \in Selection /\ start.index \in Int
    BY StartsAssumption DEF TypeInv, SelTypes, NoItem
<1>1. CASE start.index >= 0
    <2>1. sel' = SetFirmware(sel, start.index) /\ sel.item = start.index
          /\ (InList(sel, start.index) => Fits(sel))
        BY <1>1 DEF ForceFirmware, NoItem
    <2>2. CASE InList(sel, start.index)
        <3>1. sel.size = FwList(sel)[start.index + 1].size
            BY <1>0, <2>1, <2>2, SourceSizes DEF Fits
        <3>2. sel' = [sel EXCEPT !.item = start.index, !.size = FwList(sel)[start.index + 1].size]
            BY <2>1, <2>2 DEF SetFirmware, InList
        <3> QED
            BY <1>0, <2>1, <3>1, <3>2 DEF Selection
    <2>3. CASE ~InList(sel, start.index)
        <3>1. sel' = [sel EXCEPT !.item = start.index]
            BY <2>1, <2>3 DEF SetFirmware, InList
        <3> QED
            BY <1>0, <2>1, <3>1 DEF Selection
    <2> QED
        BY <2>2, <2>3
<1>2. CASE ~(start.index >= 0)
    BY <1>2 DEF ForceFirmware
<1> QED
    BY <1>1, <1>2

\* What a process starts with is coherent, and its rom file is the loaded one.
LEMMA OpenedCoherent ==
    ASSUME NEW st \in Starts, NEW d \in Dirs, StartOK(st, d)
    PROVE  LET s == Opened(st, d)
           IN  /\ Coherent(s, s.item)
               /\ s.path \in Roms => Fits(s)
               /\ s.header \in {NoFile, s.path}
               /\ s.header # NoFile => s.header \in d
               /\ st.index # NoItem /\ st.file \in Roms =>
                    s.path \in Roms /\ s.item = st.index /\ InList(s, st.index)
<1> DEFINE Good(s) == /\ Coherent(s, s.item)
                      /\ s.path \in Roms => Fits(s)
                      /\ s.header \in {NoFile, s.path}
           found == {r \in d : r \in Roms}
           r == CHOOSE x \in found : TRUE
           O == Opened(st, d)
<1>1. /\ st.boot \in BOOLEAN /\ st.display \in BOOLEAN /\ st.byCf \in BOOLEAN
      /\ st.file \in Files \cup {NoFile} /\ st.index \in Int
      /\ st.index # NoItem => st.index \in Nat
    BY StartsAssumption DEF Files, NoItem
<1>2. /\ NoSelection \in Selection /\ NoSelection.path = NoFile /\ NoSelection.header = NoFile
      /\ NoSelection.item = NoItem /\ NoSelection.size = 0
    BY SelectionTypes DEF NoSelection, NoItem, Selection, Files
<1>3. ASSUME NEW f \in Files
      PROVE  LET s == SetPath(NoSelection, f)
             IN  /\ s \in Selection /\ s.path = f /\ s.header = NoFile /\ s.item = NoItem
                 /\ s.size = IF f \in Roms THEN 0 ELSE BinSize[f]
    BY <1>2, SelectionTypes DEF SetPath, Selection
<1>4. ASSUME NEW f \in Roms
      PROVE  LET s == UpdateFwList(SetPath(NoSelection, f), st.boot)
             IN  s \in Selection /\ Good(s) /\ s.path = f /\ s.header = f
    <2> DEFINE b == SetPath(NoSelection, f)
               s == UpdateFwList(b, st.boot)
    <2>1. b \in Selection /\ b.path = f /\ b.item = NoItem /\ b.size = 0
        BY <1>3 DEF Files
    <2>2. /\ s \in Selection /\ s.path = f /\ s.header = f /\ s.header # NoFile
          /\ \/ s.item = NoItem /\ s.size = 0
             \/ s.item # NoItem /\ InList(s, s.item) /\ Fits(s)
        <3> HIDE DEF b
        <3> QED
            BY <1>1, <2>1, SelectionTypes, Loaded
    <2>3. f \notin Bins /\ f # NoFile
        BY FilesAssumption
    <2> HIDE DEF s
    <2>4. Fits(s)
        BY <2>2, <2>3, SourceSizes DEF Fits
    <2>5. Coherent(s, s.item)
        BY <2>2, <2>3 DEF Coherent
    <2>6. s \in Selection /\ Good(s) /\ s.path = f /\ s.header = f
        BY <2>2, <2>4, <2>5
    <2> QED
        BY <2>6 DEF s
<1>5. CASE st.file \in Roms
    <2> DEFINE given == UpdateFwList(SetPath(NoSelection, st.file), st.boot)
    <2>1. O = IF st.index = NoItem THEN given ELSE SetFirmware(given, st.index)
        BY <1>5, FilesAssumption DEF Opened
    <2>2. given \in Selection /\ Good(given) /\ given.path = st.file /\ given.header = st.file
        BY <1>4, <1>5
    <2>3. st.file \in d /\ st.file # NoFile /\ st.file \notin Bins
        BY <1>5, FilesAssumption DEF StartOK
    <2>4. CASE st.index = NoItem
        <3> HIDE DEF given, O
        <3> QED
            BY <2>1, <2>2, <2>3, <2>4 DEF O
    <2>5. CASE st.index # NoItem
        <3>1. st.index \in 0 .. Len(Items[st.file]) - 1
            <4>1. st.index < Len(Items[st.file]) /\ Len(Items[st.file]) \in Nat
                BY <1>5, <2>5, SizesAssumption DEF StartOK
            <4> QED
                BY <1>1, <2>5, <4>1
        <3> HIDE DEF given
        <3>2. InList(given, st.index)
            BY <2>2, <2>3, <3>1 DEF InList, FwList
        <3>3. O = SetFirmware(given, st.index)
            BY <2>1, <2>5
        <3> HIDE DEF O
        <3>4. /\ O.path = st.file /\ O.header = st.file /\ O.item = st.index
              /\ FwList(O) = FwList(given) /\ Fits(O)
            BY <1>1, <2>2, <3>2, <3>3, Picked
        <3>5. InList(O, st.index)
            BY <3>2, <3>4 DEF InList
        <3>6. Coherent(O, O.item)
            BY <2>3, <3>4, <3>5 DEF Coherent
        <3> QED
            BY <1>5, <2>3, <3>4, <3>5, <3>6 DEF O
    <2> QED
        BY <2>4, <2>5
<1>6. CASE st.file \in Bins
    <2>1. st.file \notin Roms /\ st.file # NoFile
        BY <1>6, FilesAssumption
    <2>2. O = SetPath(NoSelection, st.file)
        BY <1>6, <2>1 DEF Opened
    <2> HIDE DEF O
    <2>3. /\ O.path = st.file /\ O.header = NoFile /\ O.item = NoItem
          /\ O.size = BinSize[st.file]
        BY <1>3, <1>6, <2>1, <2>2 DEF Files
    <2> QED
        BY <2>1, <2>3 DEF Coherent, O
<1>7. CASE st.file = NoFile
    <2>1. st.file \notin Roms /\ st.file \notin Bins
        BY <1>7, FilesAssumption
    <2>2. O = IF ~st.display /\ ~st.byCf /\ found # {}
                THEN UpdateFwList(SetPath(NoSelection, r), st.boot) ELSE NoSelection
        BY <1>7, <2>1 DEF Opened
    <2>3. found # {} => r \in Roms /\ r \in d
        <3>1. found # {} => r \in found
            OBVIOUS
        <3> QED
            BY <3>1
    <2> HIDE DEF O, found, r
    <2>4. CASE O = NoSelection
        BY <1>2, <2>1, <2>4, FilesAssumption DEF Coherent, O
    <2>5. CASE found # {} /\ O = UpdateFwList(SetPath(NoSelection, r), st.boot)
        <3>1. Good(O) /\ O.path = r /\ O.header = r
            BY <1>4, <2>3, <2>5
        <3> QED
            BY <2>1, <2>3, <2>5, <3>1 DEF O
    <2> QED
        BY <2>2, <2>4, <2>5
<1> QED
    BY <1>1, <1>5, <1>6, <1>7 DEF Files

\* Up to the forcing of an index the worker leaves the selection alone, and
\* it does not come back from there.
LEMMA BeforeForce ==
    ASSUME TypeInv, Worker, worker'.pc \in Unforced
    PROVE  worker.pc \in Unforced /\ UNCHANGED sel
<1>0. worker \in [pc : WorkerSteps, pos : Nat \ {0}, polls : 1 .. Polls]
    BY DEF TypeInv, WorkTypes
<1>1. CASE WorkerStart \/ Backup \/ RunBootloader \/ WaitPlugoutApp \/ WaitPluginBoot \/ StopBootUse
    BY <1>1
    DEF WorkerStart, Backup, RunBootloader, WaitPlugoutApp, WaitPluginBoot, StopBootUse,
        At, KeepPlan, Unforced
<1>2. CASE Setup \/ EraseSector
    BY <1>2 DEF Setup, EraseSector, At, KeepPlan, Unforced
<1>3. CASE ForceFirmware
    BY <1>3 DEF ForceFirmware, Goto, Unforced
<1>4. CASE ReadSector
    BY <1>0, <1>4 DEF ReadSector, Fail, Goto, Unforced
<1>5. CASE WriteSector
    <2>1. ASSUME NEW ms, Fail(ms) PROVE worker'.pc = "closing"
        BY <2>1 DEF Fail, Goto
    <2>2. Goto("runApp") => worker'.pc = "runApp"
        BY DEF Goto
    <2>3. worker' = [worker EXCEPT !.pc = "read", !.pos = @ + 1] => worker'.pc = "read"
        BY <1>0
    <2> QED
        BY <1>5, <2>1, <2>2, <2>3 DEF WriteSector, Unforced
<1>6. CASE RunApp
    BY <1>0, <1>6 DEF RunApp, Fail, Goto, Unforced
<1>7. CASE WaitPlugoutBoot
    BY <1>0, <1>7 DEF WaitPlugoutBoot, At, PollAgain, Fail, Goto, Unforced
<1>8. CASE WaitPluginApp
    BY <1>0, <1>8 DEF WaitPluginApp, At, PollAgain, Fail, Goto, Unforced
<1>9. CASE Recover
    BY <1>0, <1>9 DEF Recover, At, Stay, Fail, Goto, Unforced
<1>10. CASE ChangeInterface \/ SetIsoMode
    BY <1>0, <1>10 DEF ChangeInterface, SetIsoMode, Change, Fail, Goto, Unforced
<1>11. CASE Done \/ Closing
    BY <1>11 DEF Done, Closing, Fail, Goto, Unforced
<1> QED
    BY <1>1, <1>2, <1>3, <1>4, <1>5, <1>6, <1>7, <1>8, <1>9, <1>10, <1>11 DEF Worker

\* The buttons keep the selection coherent, and at the last confirmation
\* the size is that of what will be read.
LEMMA DialogSel ==
    ASSUME TypeInv, AtWork, SelInv, Button
    PROVE  SelInv'
<1>0. /\ alive /\ alive' /\ UNCHANGED <<start, dir, worker>>
      /\ ui \in Screen /\ sel \in Selection /\ start.boot \in BOOLEAN
    BY DialogKeeps, StartsAssumption DEF procVars, TypeInv, UiTypes, SelTypes
<1>1. CASE Exit
    <2>1. UNCHANGED sel /\ ui'.menu = ui.menu /\ ui'.state = ui.state
        BY <1>0, <1>1 DEF Exit, Screen
    <2> QED
        BY <1>0, <2>1 DEF SelInv, Chosen
<1>2. ASSUME ~Exit PROVE worker.pc \in Unforced
    <2>1. ui.state \notin {"s_ing", "s_com"}
        BY <1>2 DEF Button, Dialog, PressUpdate, SelectFile, CancelFile, MoveMenu, OkFirmware,
                    CancelFirmware, OkConfirm, CancelConfirm, Tab
    <2> QED
        BY <2>1 DEF AtWork, Unforced
<1>3. CASE SelectFile
    <2>0. Coherent(sel, ui.menu) /\ UNCHANGED worker
        BY <1>0, <1>2, <1>3 DEF SelInv, SelectFile, Exit, Tab
    <2>1. PICK f \in dir \ Unlisted :
            LET s == IF f \in Roms THEN UpdateFwList(SetPath(sel, f), start.boot)
                                   ELSE SetPath(sel, f)
            IN  /\ sel' = s
                /\ ui' = [ui EXCEPT !.state = IF f \in Roms THEN "s_selfirm" ELSE "s_sellast",
                                    !.menu = IF f \in Roms THEN s.item ELSE @,
                                    !.max = UpdateSteps(start, s)]
        BY <1>3 DEF SelectFile
    <2>2. f \in Files /\ f # NoFile
        BY FilesAssumption DEF TypeInv, SelTypes, Files
    <2>3. LET s == SetPath(sel, f)
          IN  /\ s \in Selection /\ s.path = f /\ s.header = sel.header /\ s.item = sel.item
              /\ s.size = IF f \in Roms THEN 0 ELSE BinSize[f]
        BY <1>0, <2>2, SelectionTypes DEF SetPath, Selection
    <2>4. CASE f \in Roms
        <3> DEFINE b == SetPath(sel, f)
                   t == UpdateFwList(b, start.boot)
        <3>1. b \in Selection /\ b.path \in Roms /\ b.path = f /\ b.size = 0
            BY <2>3, <2>4
        <3>2. /\ t.path = f /\ t.header = f
              /\ t.size = 0 \/ InList(t, t.item)
            <4> HIDE DEF b
            <4> QED
                BY <1>0, <3>1, Loaded
        <3>3. sel' = t
            BY <2>1, <2>4
        <3>4. ui'.menu = t.item /\ ui'.state = "s_selfirm"
            <4>1. ui' = [ui EXCEPT !.state = "s_selfirm", !.menu = t.item,
                                   !.max = UpdateSteps(start, t)]
                BY <2>1, <2>4
            <4> HIDE DEF t
            <4> QED
                BY <1>0, <4>1 DEF Screen
        <3>5. f \notin Bins
            BY <2>4, FilesAssumption
        <3> HIDE DEF t
        <3>6. Coherent(t, t.item)
            BY <2>2, <3>2, <3>5 DEF Coherent
        <3> QED
            BY <3>3, <3>4, <3>6 DEF SelInv, Chosen
    <2>5. CASE f \notin Roms
        <3>1. sel' = SetPath(sel, f) /\ ui'.menu = ui.menu
            BY <1>0, <2>1, <2>5 DEF Screen
        <3>2. sel'.path = f /\ sel'.header = sel.header /\ sel'.item = sel.item /\ sel'.size = BinSize[f]
            BY <2>3, <2>5, <3>1
        <3>3. Coherent(sel', ui'.menu) /\ sel'.path \notin Roms
            BY <2>0, <2>2, <2>5, <3>1, <3>2 DEF Coherent
        <3> QED
            BY <3>3 DEF SelInv
    <2> QED
        BY <2>4, <2>5
<1>4. CASE OkFirmware
    <2>0. Coherent(sel, ui.menu)
        BY <1>0, <1>2, <1>4 DEF SelInv, OkFirmware, Exit, Tab
    <2>1. sel' = SetFirmware(sel, ui.menu) /\ ui'.menu = ui.menu /\ ui.menu \in Int
        BY <1>0, <1>4 DEF OkFirmware, Screen
    <2>2. /\ sel'.path = sel.path /\ sel'.header = sel.header /\ sel'.item = ui.menu
          /\ FwList(sel') = FwList(sel)
          /\ InList(sel, ui.menu) => Fits(sel')
          /\ ~InList(sel, ui.menu) => sel'.size = sel.size
        BY <1>0, <2>1, Picked
    <2>3. sel' \in Selection
        BY <1>0, <2>1, SelectionTypes
    <2>4. InList(sel', ui.menu) <=> InList(sel, ui.menu)
        BY <2>2 DEF InList
    <2>5. sel.header # NoFile => ui.menu # NoItem
        <3>1. sel.header # NoFile => FwList(sel) # << >>
            BY <1>0, SizesAssumption DEF FwList, Selection
        <3> QED
            BY <1>4, <3>1 DEF OkFirmware
    <2>6. sel.path \in Roms => sel.path # NoFile /\ sel.path \notin Bins
        BY FilesAssumption
    <2>7. sel.header = NoFile => ~InList(sel, ui.menu) /\ sel.item = NoItem
        BY <2>0 DEF Coherent, InList, NoItem
    <2>8. sel'.path \in Roms => Fits(sel')
        <3>1. CASE InList(sel, ui.menu)
            BY <2>2, <3>1
        <3>2. CASE sel.path \in Roms /\ ~InList(sel, ui.menu)
            <4>1. ui.menu # NoItem /\ sel'.size = 0 /\ ~InList(sel', sel'.item)
                BY <2>0, <2>2, <2>4, <2>5, <2>6, <3>2 DEF Coherent
            <4> QED
                BY <2>2, <2>3, <4>1, SourceSizes DEF Fits
        <3> QED
            BY <2>2, <3>1, <3>2
    <2>9. Coherent(sel', ui'.menu)
        BY <2>0, <2>1, <2>2, <2>4, <2>5, <2>6, <2>7 DEF Coherent
    <2> QED
        BY <2>8, <2>9 DEF SelInv
<1>5. CASE MoveMenu
    <2>1. PICK i \in 0 .. Len(FwList(sel)) - 1 : ui' = [ui EXCEPT !.menu = i]
        BY <1>5 DEF MoveMenu
    <2>2. UNCHANGED sel /\ ui'.menu = i /\ ui'.state = "s_selfirm" /\ InList(sel, i)
        BY <1>0, <1>5, <2>1 DEF MoveMenu, Tab, Screen, InList
    <2>3. Coherent(sel, ui.menu) /\ sel.header # NoFile
        BY <1>0, <1>2, <1>5, <2>1 DEF SelInv, MoveMenu, Exit, Tab, FwList
    <2>4. Coherent(sel, i)
        BY <2>2, <2>3 DEF Coherent
    <2> QED
        BY <2>2, <2>4 DEF SelInv, Chosen
<1>6. CASE PressUpdate \/ CancelFile \/ CancelFirmware \/ OkConfirm \/ CancelConfirm
    <2>1. UNCHANGED sel /\ ui'.menu = ui.menu
        BY <1>0, <1>6
        DEF PressUpdate, CancelFile, CancelFirmware, OkConfirm, CancelConfirm, Screen
    <2>2. sel.path \in Roms /\ Chosen' => Chosen
        <3>1. CASE PressUpdate
            BY <1>0, <3>1, FilesAssumption DEF PressUpdate, Screen, Chosen
        <3>2. CASE CancelFile \/ CancelFirmware \/ OkConfirm \/ CancelConfirm
            BY <1>0, <3>2
            DEF CancelFile, CancelFirmware, OkConfirm, CancelConfirm, Tab, Screen, Chosen
        <3> QED
            BY <1>6, <3>1, <3>2
    <2> QED
        BY <1>0, <2>1, <2>2 DEF SelInv
<1> QED
    BY <1>1, <1>3, <1>4, <1>5, <1>6 DEF Button, Dialog

\* The selection changes with the buttons, and with a new process.
LEMMA SelStep == TypeInv /\ AtWork /\ SelInv /\ [Next]_vars => SelInv'
<1> SUFFICES ASSUME TypeInv, AtWork, SelInv, [Next]_vars PROVE SelInv'
    OBVIOUS
<1>0. ui \in Screen
    BY DEF TypeInv, UiTypes
<1>1. CASE Worker
    <2>1. ui'.menu = ui.menu /\ UNCHANGED alive
        BY <1>0, <1>1, WorkerKeeps DEF Screen
    <2>2. worker'.pc \in Unforced => worker.pc \in Unforced /\ UNCHANGED sel /\ Chosen
        BY <1>1, BeforeForce, WorkerKeeps DEF AtWork, Chosen
    <2> QED
        BY <2>1, <2>2 DEF SelInv
<1>2. CASE NoUiLoop \/ UiLoop
    BY <1>2, LoopKeeps DEF SelInv, Chosen
<1>3. CASE EndProcess \/ Kill
    BY <1>3, EndKeeps DEF SelInv, Chosen, procVars
<1>4. CASE Restart
    <2>1. PICK st \in Starts, d \in Dirs :
            StartOK(st, d) /\ sel' = Opened(st, d) /\ ui' = OpenedUi(st, d)
        BY <1>4 DEF Restart
    <2>2. ui'.menu = sel'.item
        BY <2>1 DEF OpenedUi
    <2> QED
        BY <2>1, <2>2, OpenedCoherent DEF SelInv
<1>5. CASE Button
    BY <1>5, DialogSel
<1>6. CASE DevLeave \/ DevReturn \/ DevPowerLoss
    BY <1>6, DeviceKeeps DEF SelInv, Chosen, selVars
<1>7. CASE UNCHANGED vars
    BY <1>7 DEF SelInv, Chosen, vars, selVars, procVars
<1> QED
    BY <1>1, <1>2, <1>3, <1>4, <1>5, <1>6, <1>7 DEF Next

\* The selection of the command line is coherent.
LEMMA SelInit == Init => SelInv
<1> SUFFICES ASSUME Init PROVE SelInv
    OBVIOUS
<1>1. PICK st \in Starts, d \in Dirs : Begun(st, d)
    BY DEF Init
<1>2. ui.menu = sel.item
    BY <1>1 DEF Begun, OpenedUi
<1> QED
    BY <1>1, <1>2, OpenedCoherent DEF Begun, SelInv

\* No dialog offers both a rom file and a raw file: nobody is asked, or the
\* directory holds files of one kind.
Unmixed == \A st \in Starts, d \in Dirs : ByItself(st) \/ d \subseteq Roms \/ d \subseteq Bins

OwnInv ==
    /\ sel.header \in {NoFile, sel.path}
    /\ alive /\ dir \subseteq Bins => sel.header = NoFile
    /\ alive => ByItself(start) \/ dir \subseteq Roms \/ dir \subseteq Bins
    /\ alive /\ ByItself(start) => thread

\* Without a dialog over both kinds of files, a raw file is selected only
\* where no rom file was loaded.
LEMMA OwnStep ==
    ASSUME Unmixed, TypeInv, AtWork, OwnInv, [Next]_vars
    PROVE  OwnInv'
<1>0. ui \in Screen /\ sel \in Selection /\ start.index \in Int /\ start.boot \in BOOLEAN
    BY StartsAssumption DEF TypeInv, UiTypes, SelTypes, NoItem
<1>1. CASE Worker
    <2>1. UNCHANGED <<alive, dir, start, thread>>
        BY <1>1, WorkerKeeps
    <2>2. sel'.header = sel.header /\ sel'.path = sel.path
        <3>1. UNCHANGED sel \/ ForceFirmware
            BY <1>1
            DEF Worker, WorkerStart, Backup, RunBootloader, WaitPlugoutApp, WaitPluginBoot,
                StopBootUse, Setup, EraseSector, ReadSector, WriteSector, RunApp,
                WaitPlugoutBoot, WaitPluginApp, Recover, ChangeInterface, SetIsoMode, Change,
                Done, Closing, KeepPlan
        <3>2. ForceFirmware => sel'.header = sel.header /\ sel'.path = sel.path
            BY <1>0, Picked DEF ForceFirmware
        <3> QED
            BY <3>1, <3>2
    <2> QED
        BY <2>1, <2>2 DEF OwnInv
<1>2. CASE NoUiLoop \/ UiLoop
    BY <1>2, LoopKeeps DEF OwnInv
<1>3. CASE EndProcess \/ Kill
    <2>1. CASE EndProcess /\ UNCHANGED <<thread, procVars>>
        BY <1>3, <2>1, EndKeeps DEF OwnInv, procVars
    <2>2. CASE UNCHANGED sel /\ ~alive'
        BY <2>2 DEF OwnInv
    <2> QED
        BY <1>3, <2>1, <2>2, EndKeeps DEF Kill, Gone
<1>4. CASE Restart
    <2>1. PICK st \in Starts, d \in Dirs :
            /\ StartOK(st, d) /\ start' = st /\ dir' = d /\ sel' = Opened(st, d)
            /\ thread' = ByItself(st)
        BY <1>4 DEF Restart
    <2>2. sel'.header \in {NoFile, sel'.path} /\ (sel'.header # NoFile => sel'.header \in d)
        BY <2>1, OpenedCoherent
    <2>3. sel'.header \in Roms \cup {NoFile}
        BY <2>1, OpenedTypes DEF Selection
    <2>4. d \subseteq Bins => sel'.header = NoFile
        BY <2>2, <2>3, FilesAssumption
    <2> QED
        BY <2>1, <2>2, <2>4 DEF OwnInv, Unmixed
<1>5. CASE Button
    <2>0. alive /\ UNCHANGED <<alive, dir, start>>
        BY <1>5, DialogKeeps DEF procVars
    <2>1. CASE SelectFile
        <3>1. PICK f \in dir \ Unlisted :
                sel' = IF f \in Roms THEN UpdateFwList(SetPath(sel, f), start.boot)
                                     ELSE SetPath(sel, f)
            BY <2>1 DEF SelectFile
        <3>2. f \in Files
            BY FilesAssumption DEF TypeInv, SelTypes, Files
        <3>3. /\ SetPath(sel, f) \in Selection /\ SetPath(sel, f).path = f
              /\ SetPath(sel, f).header = sel.header
            BY <1>0, <3>2, SelectionTypes DEF SetPath, Selection
        <3>4. f \in Roms => sel'.path = f /\ sel'.header = f
            BY <1>0, <3>1, <3>3, Loaded
        <3>5. ~ByItself(start)
            BY <2>0, <2>1 DEF OwnInv, AtWork, SelectFile, Tab
        <3>6. f \in Bins => dir \subseteq Bins
            BY <2>0, <3>5, FilesAssumption DEF OwnInv
        <3>7. f \in Roms => ~(dir \subseteq Bins)
            BY FilesAssumption
        <3>8. f \notin Roms => sel'.header = NoFile
            BY <2>0, <3>1, <3>2, <3>3, <3>6 DEF OwnInv, Files
        <3> QED
            BY <2>0, <3>4, <3>5, <3>7, <3>8 DEF OwnInv
    <2>2. CASE OkFirmware
        <3>1. sel'.header = sel.header /\ sel'.path = sel.path /\ UNCHANGED thread
            BY <1>0, <2>2, Picked DEF OkFirmware, Screen
        <3> QED
            BY <2>0, <3>1 DEF OwnInv
    <2>3. CASE OkConfirm
        BY <2>0, <2>3 DEF OwnInv, OkConfirm
    <2>4. CASE PressUpdate \/ CancelFile \/ MoveMenu \/ CancelFirmware \/ CancelConfirm \/ Exit
        <3>1. UNCHANGED <<sel, thread>>
            BY <2>4 DEF PressUpdate, CancelFile, MoveMenu, CancelFirmware, CancelConfirm, Exit
        <3> QED
            BY <2>0, <3>1 DEF OwnInv
    <2> QED
        BY <1>5, <2>1, <2>2, <2>3, <2>4 DEF Button, Dialog
<1>6. CASE DevLeave \/ DevReturn \/ DevPowerLoss
    BY <1>6, DeviceKeeps DEF OwnInv, selVars
<1>7. CASE UNCHANGED vars
    BY <1>7 DEF OwnInv, vars, selVars, procVars
<1> QED
    BY <1>1, <1>2, <1>3, <1>4, <1>5, <1>6, <1>7 DEF Next

\* The selected item is of the selected file, whatever the buttons, if no
\* dialog offers both kinds of files.
THEOREM SelectionOwn == ASSUME Unmixed PROVE Spec => []OwnItem
<1>1. Init => OwnInv
    <2> SUFFICES ASSUME Init PROVE OwnInv
        OBVIOUS
    <2>1. PICK st \in Starts, d \in Dirs : Begun(st, d)
        BY DEF Init
    <2>2. /\ sel.header \in {NoFile, sel.path}
          /\ sel.header # NoFile => sel.header \in d
          /\ sel.header \in Roms \cup {NoFile}
        BY <2>1, OpenedCoherent, OpenedTypes DEF Begun, Selection
    <2>3. d \subseteq Bins => sel.header = NoFile
        BY <2>2, FilesAssumption
    <2> QED
        BY <2>1, <2>2, <2>3 DEF Begun, OwnInv, Unmixed
<1>2. TypeInv /\ AtWork /\ OwnInv /\ [Next]_vars => OwnInv'
    BY OwnStep
<1>3. OwnInv => OwnItem
    BY DEF OwnInv, OwnItem
<1>4. Spec => [](TypeInv /\ AtWork)
    BY TypesInit, TypesStep, AtWorkInit, AtWorkStep, PTL DEF Spec
<1> QED
    BY <1>1, <1>2, <1>3, <1>4, PTL DEF Spec

-----------------------------------------------------------------------------
(* The index of the command line.                                           *)

\* Nobody is asked anything, and the file is a rom file, where the command
\* line gives an index.
IndexAlone == \A st \in Starts : st.index # NoItem => st.file \in Roms /\ ByItself(st)

\* Then the index is the selected one from the start, and forcing it later
\* changes nothing.
ForcedInv ==
    alive /\ start.index # NoItem =>
        /\ thread
        /\ sel.item = start.index /\ InList(sel, start.index) /\ Fits(sel)

\* No step parts the selection from the index of the command line.
LEMMA ForcedStep ==
    ASSUME IndexAlone, TypeInv, AtWork, ForcedInv, [Next]_vars
    PROVE  ForcedInv'
<1>1. CASE Worker
    <2>1. UNCHANGED <<alive, start, thread>>
        BY <1>1, WorkerKeeps
    <2>2. UNCHANGED sel
        <3>1. UNCHANGED sel \/ ForceFirmware
            BY <1>1
            DEF Worker, WorkerStart, Backup, RunBootloader, WaitPlugoutApp, WaitPluginBoot,
                StopBootUse, Setup, EraseSector, ReadSector, WriteSector, RunApp,
                WaitPlugoutBoot, WaitPluginApp, Recover, ChangeInterface, SetIsoMode, Change,
                Done, Closing, KeepPlan
        <3>2. ASSUME ForceFirmware PROVE UNCHANGED sel
            <4>1. alive
                BY <3>2 DEF ForceFirmware, At
            <4>2. start.index # NoItem => sel.item = start.index /\ (InList(sel, sel.item) => Fits(sel))
                BY <4>1 DEF ForcedInv
            <4> QED
                BY <3>2, <4>2, ForceSame
        <3> QED
            BY <3>1, <3>2
    <2> QED
        BY <2>1, <2>2 DEF ForcedInv
<1>2. CASE NoUiLoop \/ UiLoop
    BY <1>2, LoopKeeps DEF ForcedInv
<1>3. CASE EndProcess \/ Kill
    <2>1. CASE EndProcess /\ UNCHANGED <<thread, procVars>>
        BY <1>3, <2>1, EndKeeps DEF ForcedInv, procVars
    <2>2. CASE ~alive'
        BY <2>2 DEF ForcedInv
    <2> QED
        BY <1>3, <2>1, <2>2, EndKeeps DEF Kill, Gone
<1>4. CASE Restart
    <2>1. PICK st \in Starts, d \in Dirs :
            /\ StartOK(st, d) /\ start' = st /\ sel' = Opened(st, d) /\ thread' = ByItself(st)
        BY <1>4 DEF Restart
    <2> QED
        BY <2>1, OpenedCoherent DEF ForcedInv, IndexAlone
<1>5. CASE Button
    <2>1. alive /\ UNCHANGED <<alive, start>>
        BY <1>5, DialogKeeps DEF procVars
    <2>2. CASE Exit
        BY <2>1, <2>2 DEF Exit, ForcedInv
    <2>3. CASE ~Exit
        <3>1. ui.state \notin {"s_ing", "s_com"}
            BY <1>5, <2>3
            DEF Button, Dialog, PressUpdate, SelectFile, CancelFile, MoveMenu, OkFirmware,
                CancelFirmware, OkConfirm, CancelConfirm, Tab
        <3> QED
            BY <2>1, <3>1 DEF AtWork, ForcedInv
    <2> QED
        BY <2>2, <2>3
<1>6. CASE DevLeave \/ DevReturn \/ DevPowerLoss
    BY <1>6, DeviceKeeps DEF ForcedInv, selVars
<1>7. CASE UNCHANGED vars
    BY <1>7 DEF ForcedInv, vars, selVars, procVars
<1> QED
    BY <1>1, <1>2, <1>3, <1>4, <1>5, <1>6, <1>7 DEF Next

\* So the forced index is the selected one, whatever else was chosen.
THEOREM IndexSame == ASSUME IndexAlone PROVE Spec => []IndexSelected
<1>1. Init => ForcedInv
    <2> SUFFICES ASSUME Init PROVE ForcedInv
        OBVIOUS
    <2>1. PICK st \in Starts, d \in Dirs : Begun(st, d)
        BY DEF Init
    <2> QED
        BY <2>1, OpenedCoherent DEF Begun, ForcedInv, IndexAlone
<1>2. TypeInv /\ AtWork /\ ForcedInv /\ [Next]_vars => ForcedInv'
    BY ForcedStep
<1>3. ForcedInv => IndexSelected
    BY DEF ForcedInv, IndexSelected
<1>4. Spec => [](TypeInv /\ AtWork)
    BY TypesInit, TypesStep, AtWorkInit, AtWorkStep, PTL DEF Spec
<1> QED
    BY <1>1, <1>2, <1>3, <1>4, PTL DEF Spec

-----------------------------------------------------------------------------
(* The plan.                                                                *)

\* What is needed of products with the size of a sector.
LEMMA Multiples ==
    ASSUME NEW a \in Int
    PROVE  /\ a * SectorSize \in Int
           /\ (a + 1) * SectorSize = a * SectorSize + SectorSize
           /\ (a - 1) * SectorSize = a * SectorSize - SectorSize
           /\ 0 * SectorSize = 0
           /\ \A b \in Int : a <= b => a * SectorSize <= b * SectorSize
<1>0. SectorSize \in Nat
    BY SizesAssumption
<1>1. a * SectorSize \in Int /\ 0 * SectorSize = 0
    BY <1>0
<1>2. (a + 1) * SectorSize = a * SectorSize + SectorSize
    BY <1>0
<1>3. (a - 1) * SectorSize = a * SectorSize - SectorSize
    BY <1>0
<1>4. \A b \in Int : a <= b => a * SectorSize <= b * SectorSize
    BY <1>0
<1> QED
    BY <1>1, <1>2, <1>3, <1>4

\* So many sectors are the size's if the last of them holds its end.
LEMMA LastSector ==
    ASSUME NEW size \in Nat, NEW n \in Nat \ {0}
    PROVE  Sectors(size) = n <=> size - (n - 1) * SectorSize \in 1 .. SectorSize
<1> DEFINE m == Sectors(size)
<1>0. SectorSize \in Nat \ {0}
    BY SizesAssumption
<1>1. m \in Nat /\ size <= m * SectorSize /\ m * SectorSize < size + SectorSize
    BY SectorsOf
<1>2. /\ n * SectorSize \in Int /\ (n - 1) * SectorSize = n * SectorSize - SectorSize
      /\ (n + 1) * SectorSize = n * SectorSize + SectorSize
      /\ m * SectorSize \in Int
    <2> HIDE DEF m
    <2>1. n \in Int /\ m \in Int
        BY <1>1
    <2> QED
        BY <2>1, Multiples
<1> HIDE DEF m
<1>3. ASSUME m = n PROVE size - (n - 1) * SectorSize \in 1 .. SectorSize
    BY <1>0, <1>1, <1>2, <1>3
<1>4. ASSUME size - (n - 1) * SectorSize \in 1 .. SectorSize PROVE m = n
    <2>1. m <= n - 1 => m * SectorSize <= (n - 1) * SectorSize
        BY <1>1, Multiples
    <2>2. n + 1 <= m => (n + 1) * SectorSize <= m * SectorSize
        BY <1>1, Multiples
    <2> QED
        BY <1>0, <1>1, <1>2, <1>4, <2>1, <2>2
<1> QED
    BY <1>3, <1>4 DEF m

Planned == Len(plan.write)

\* What a plan looks like: the first sector is the first to be erased and the
\* last to be written, the others are written in their order.
Shaped(p) ==
    \/ p = NoPlan
    \/ LET n == Len(p.write) IN
       /\ n \in 1 .. Area - 1 /\ Len(p.erase) = n + 1
       /\ p.erase[1] = First /\ p.write[n] = First
       /\ \A i \in 1 .. n - 1 : p.write[i] = First + i

\* The plan for a size has this shape, and its sectors are the size's.
LEMMA PlanForShape ==
    ASSUME NEW size \in Nat
    PROVE  /\ Shaped(PlanFor(size)) /\ Shaped(NoPlan)
           /\ PlanFor(size) # NoPlan => Len(PlanFor(size).write) = Sectors(size)
<1> DEFINE n == Sectors(size)
           e == [i \in 1 .. n |-> First + i - 1]
           w == [i \in 1 .. n - 1 |-> First + i]
           p == [erase |-> e \o <<SystemSector>>, write |-> w \o <<First>>]
<1>1. n \in Nat /\ First \in Nat /\ Area \in Nat
    BY SectorsOf, AreaTypes
<1>2. PlanFor(size) = IF n = 0 \/ n > Area - 1 THEN NoPlan ELSE p
    BY DEF PlanFor
<1>3. ASSUME n # 0, n <= Area - 1
      PROVE  /\ Len(p.write) = n /\ Len(p.erase) = n + 1
             /\ p.erase[1] = First /\ p.write[n] = First
             /\ \A i \in 1 .. n - 1 : p.write[i] = First + i
    <2> HIDE DEF n
    <2>1. n \in Nat /\ n >= 1
        BY <1>1, <1>3
    <2>2. e \in Seq(Int) /\ Len(e) = n /\ e[1] = First
        BY <1>1, <2>1
    <2>3. w \in Seq(Int) /\ Len(w) = n - 1 /\ \A i \in 1 .. n - 1 : w[i] = First + i
        BY <1>1, <2>1
    <2>4. SystemSector \in Int
        BY AreaTypes
    <2> HIDE DEF e, w
    <2>5. Len(p.erase) = n + 1 /\ p.erase[1] = First
        <3>1. e \o <<SystemSector>> \in Seq(Int) /\ Len(e \o <<SystemSector>>) = n + 1
            BY <2>2, <2>4
        <3>2. (e \o <<SystemSector>>)[1] = e[1]
            BY <2>1, <2>2, <2>4
        <3> QED
            BY <2>2, <3>1, <3>2
    <2>6. Len(p.write) = n /\ p.write[n] = First /\ \A i \in 1 .. n - 1 : p.write[i] = First + i
        <3>1. Len(w \o <<First>>) = n /\ (w \o <<First>>)[n] = First
            BY <1>1, <2>1, <2>3
        <3>2. \A i \in 1 .. n - 1 : (w \o <<First>>)[i] = w[i]
            BY <1>1, <2>1, <2>3
        <3> QED
            BY <2>3, <3>1, <3>2
    <2> QED
        BY <2>5, <2>6
<1>4. Shaped(NoPlan)
    BY DEF Shaped
<1>5. ASSUME n # 0, n <= Area - 1 PROVE Shaped(p)
    <2> HIDE DEF n, p
    <2> QED
        BY <1>1, <1>3, <1>5 DEF Shaped
<1>6. n = 0 \/ n > Area - 1 \/ n <= Area - 1
    <2> HIDE DEF n
    <2> QED
        BY <1>1
<1> QED
    <2> HIDE DEF p
    <2> QED
        BY <1>2, <1>3, <1>4, <1>5, <1>6

\* Sectors are planned if there is a plan.
LEMMA HasPlan ==
    ASSUME TypeInv, Shaped(plan)
    PROVE  /\ plan # NoPlan <=> plan.write # << >>
           /\ plan # NoPlan => Planned \in 1 .. Area - 1 /\ Planned \in Nat
<1>1. plan.write \in Seq(AppArea) /\ Area \in Nat
    BY AreaTypes DEF TypeInv, PlanTypes
<1> QED
    BY <1>1 DEF Shaped, NoPlan, Planned

\* Where the worker is with the plan in hand.
Flashing == {"erase", "force", "read", "write", "runApp"}

\* The steps that lead to, or stay in, the flashing.
LEMMA ToFlashing ==
    ASSUME TypeInv, Worker, worker'.pc \in Flashing
    PROVE  Setup \/ EraseSector \/ ForceFirmware \/ ReadSector \/ WriteSector
<1>0. worker \in [pc : WorkerSteps, pos : Nat \ {0}, polls : 1 .. Polls]
    BY DEF TypeInv, WorkTypes
<1>1. ASSUME NEW pc, Goto(pc) PROVE worker'.pc = pc
    BY <1>1 DEF Goto
<1>2. ASSUME NEW ms, Fail(ms) PROVE worker'.pc = "closing"
    BY <1>1, <1>2 DEF Fail
<1>3. PollAgain \/ Stay \/ UNCHANGED worker => worker'.pc = worker.pc
    BY <1>0 DEF PollAgain, Stay
<1>4. ASSUME WorkerStart \/ Backup \/ RunBootloader \/ WaitPlugoutApp \/ WaitPluginBoot \/ StopBootUse
      PROVE  FALSE
    BY <1>1, <1>2, <1>3, <1>4
    DEF WorkerStart, Backup, RunBootloader, WaitPlugoutApp, WaitPluginBoot, StopBootUse,
        At, Flashing
<1>5. ASSUME RunApp \/ WaitPlugoutBoot \/ WaitPluginApp \/ Recover PROVE FALSE
    BY <1>1, <1>2, <1>3, <1>5
    DEF RunApp, WaitPlugoutBoot, WaitPluginApp, Recover, At, Flashing
<1>6. ASSUME ChangeInterface \/ SetIsoMode \/ Done \/ Closing PROVE FALSE
    BY <1>1, <1>2, <1>3, <1>6
    DEF ChangeInterface, SetIsoMode, Change, Done, Closing, At, Flashing
<1> QED
    BY <1>4, <1>5, <1>6 DEF Worker

\* The plan is for what is selected.
PlanSize ==
    worker.pc \in {"erase", "force", "read", "write"} => Fits(sel) /\ plan = PlanFor(sel.size)

\* The others leave the flash alone, and the worker with what it holds; or
\* it is not at work.
LEMMA NotWorker ==
    ASSUME TypeInv, AtWork, [Next]_vars, ~Worker
    PROVE  /\ UNCHANGED flash
           /\ \/ worker'.pc = "wait" /\ (UNCHANGED plan \/ plan' = NoPlan)
              \/ UNCHANGED <<worker, plan, buf, sel>>
<1>1. CASE NoUiLoop \/ UiLoop
    BY <1>1, LoopKeeps DEF devVars
<1>2. CASE EndProcess \/ Kill
    BY <1>2, EndKeeps DEF procVars, devVars, Waiting
<1>3. CASE Restart
    BY <1>3 DEF Restart, Waiting, KeepDev, devVars
<1>4. CASE Button
    <2>1. UNCHANGED <<worker, plan, buf, flash>>
        BY <1>4, DialogKeeps DEF procVars, devVars
    <2>2. CASE Exit
        BY <2>1, <2>2 DEF Exit
    <2>3. CASE ~Exit
        <3>1. ui.state \notin {"s_ing", "s_com"}
            BY <1>4, <2>3
            DEF Button, Dialog, PressUpdate, SelectFile, CancelFile, MoveMenu, OkFirmware,
                CancelFirmware, OkConfirm, CancelConfirm, Tab
        <3> QED
            BY <2>1, <3>1 DEF AtWork
    <2> QED
        BY <2>2, <2>3
<1>5. CASE DevLeave \/ DevReturn \/ DevPowerLoss
    BY <1>5, DeviceKeeps DEF selVars
<1>6. CASE UNCHANGED vars
    BY <1>6 DEF vars, selVars, procVars, devVars
<1> QED
    BY <1>1, <1>2, <1>3, <1>4, <1>5, <1>6 DEF Next

\* The worker's other steps have nothing to do with the plan and the flash.
LEMMA OtherWork ==
    ASSUME Worker, ~Setup, ~EraseSector, ~ForceFirmware, ~ReadSector, ~WriteSector
    PROVE  UNCHANGED <<sel, plan, flash>>
<1>1. CASE WorkerStart \/ Backup \/ RunBootloader \/ WaitPlugoutApp \/ WaitPluginBoot \/ StopBootUse
    BY <1>1
    DEF WorkerStart, Backup, RunBootloader, WaitPlugoutApp, WaitPluginBoot, StopBootUse,
        KeepPlan, KeepDev, devVars
<1>2. CASE RunApp \/ WaitPlugoutBoot \/ WaitPluginApp \/ Recover
    BY <1>2 DEF RunApp, WaitPlugoutBoot, WaitPluginApp, Recover, KeepPlan, KeepDev, devVars
<1>3. CASE ChangeInterface \/ SetIsoMode \/ Done \/ Closing
    BY <1>3 DEF ChangeInterface, SetIsoMode, Change, Done, Closing, KeepPlan, KeepDev, devVars
<1> QED
    BY <1>1, <1>2, <1>3 DEF Worker

\* What the dialogs are through with fits.
LEMMA ChosenFits ==
    ASSUME TypeInv, AtWork, SelInv, OwnItem, alive, thread, worker.pc \in Unforced
    PROVE  Fits(sel)
<1>1. sel \in Selection /\ Coherent(sel, ui.menu) /\ (sel.path \in Roms => Fits(sel))
    BY DEF TypeInv, SelTypes, SelInv, AtWork, Chosen
<1>2. sel.path \in Roms \/ sel.path \in Bins \/ sel.path = NoFile
    BY <1>1 DEF Selection, Files
<1>3. CASE sel.path \in Bins
    <2>1. sel.item = NoItem
        <3>1. sel.path \notin Roms /\ sel.header \in Roms \cup {NoFile}
            BY <1>1, <1>3, FilesAssumption DEF Selection
        <3> QED
            BY <1>1, <3>1 DEF OwnItem, Coherent
    <2> QED
        BY <1>1, <1>3, <2>1, SourceSizes DEF Coherent, Fits
<1>4. CASE sel.path = NoFile
    BY <1>1, <1>4, SourceSizes, FilesAssumption DEF Coherent, Fits
<1> QED
    BY <1>1, <1>2, <1>3, <1>4

\* The plan is made for the size in hand, and the index that is forced later
\* is the one it was made for.
LEMMA PlanStep ==
    ASSUME TypeInv, AtWork, SelInv, OwnItem, IndexSelected, Shaped(plan), PlanSize, [Next]_vars
    PROVE  Shaped(plan') /\ PlanSize'
<1>0. /\ sel \in Selection /\ sel.size \in Nat /\ start.index \in Int
      /\ worker \in [pc : WorkerSteps, pos : Nat \ {0}, polls : 1 .. Polls]
    BY StartsAssumption DEF TypeInv, SelTypes, WorkTypes, Selection, NoItem
<1>1. CASE ~Worker
    <2>1. Shaped(plan')
        BY <1>1, NotWorker, <1>0, PlanForShape
    <2>2. PlanSize'
        <3>1. CASE worker'.pc = "wait"
            BY <3>1 DEF PlanSize
        <3>2. CASE UNCHANGED <<worker, plan, buf, sel>>
            BY <3>2 DEF PlanSize
        <3> QED
            BY <1>1, <3>1, <3>2, NotWorker
    <2> QED
        BY <2>1, <2>2
<1>2. CASE Setup
    <2>1. Fits(sel)
        <3>1. alive /\ thread /\ worker.pc \in Unforced
            BY <1>2 DEF Setup, At, Unforced
        <3> QED
            BY <3>1, ChosenFits
    <2>2. UNCHANGED sel /\ (plan' = PlanFor(sel.size) \/ plan' = NoPlan)
        BY <1>2 DEF Setup
    <2>3. (worker'.pc = "erase" /\ plan' = PlanFor(sel.size)) \/ worker'.pc = "closing"
        BY <1>2 DEF Setup, Goto, Fail
    <2> QED
        BY <1>0, <2>1, <2>2, <2>3, PlanForShape DEF PlanSize
<1>3. CASE EraseSector
    <2>1. UNCHANGED <<sel, plan>> /\ worker.pc = "erase"
        BY <1>3 DEF EraseSector, KeepPlan, At
    <2>2. worker'.pc \in {"erase", "force", "closing"}
        BY <1>0, <1>3, <2>1 DEF EraseSector, Goto, Fail, Stay
    <2> QED
        BY <2>1, <2>2 DEF PlanSize
<1>4. CASE ForceFirmware
    <2>1. UNCHANGED plan /\ worker.pc = "force" /\ worker'.pc = "read"
        BY <1>4 DEF ForceFirmware, At, Goto
    <2>2. Fits(sel) /\ plan = PlanFor(sel.size)
        BY <2>1 DEF PlanSize
    <2>3. UNCHANGED sel
        <3>1. start.index # NoItem => sel.item = start.index
            BY <1>4, <2>1 DEF ForceFirmware, At, IndexSelected
        <3> QED
            BY <1>4, <2>2, <3>1, ForceSame
    <2> QED
        BY <2>1, <2>2, <2>3 DEF PlanSize
<1>5. CASE ReadSector \/ WriteSector
    <2>1. UNCHANGED <<sel, plan>> /\ worker.pc \in {"read", "write"}
        BY <1>5 DEF ReadSector, WriteSector, KeepPlan, At
    <2>2. worker'.pc \notin {"erase", "force"}
        <3>1. ASSUME NEW ms, Fail(ms) PROVE worker'.pc = "closing"
            BY <3>1 DEF Fail, Goto
        <3>2. Goto("runApp") => worker'.pc = "runApp"
            BY DEF Goto
        <3>3. worker' = [worker EXCEPT !.pc = "read", !.pos = @ + 1] => worker'.pc = "read"
            BY <1>0
        <3>4. worker' = [worker EXCEPT !.pc = "write"] => worker'.pc = "write"
            BY <1>0
        <3> QED
            BY <1>5, <3>1, <3>2, <3>3, <3>4 DEF ReadSector, WriteSector
    <2> QED
        BY <2>1, <2>2 DEF PlanSize
<1>6. CASE Worker /\ ~Setup /\ ~EraseSector /\ ~ForceFirmware /\ ~ReadSector /\ ~WriteSector
    <2>1. UNCHANGED plan
        BY <1>6, OtherWork
    <2>2. worker'.pc \notin Flashing
        BY <1>6, ToFlashing
    <2> QED
        BY <2>1, <2>2 DEF PlanSize, Flashing
<1> QED
    BY <1>1, <1>2, <1>3, <1>4, <1>5, <1>6

\* There is no plan at the start.
LEMMA PlanInit == Init => Shaped(plan) /\ PlanSize
<1> SUFFICES ASSUME Init PROVE Shaped(plan) /\ PlanSize
    OBVIOUS
<1>1. plan = NoPlan /\ worker = Waiting
    BY DEF Init, Begun
<1> QED
    BY <1>1 DEF Shaped, PlanSize, Waiting

-----------------------------------------------------------------------------
(* The flash.                                                               *)

\* What is read for a sector, counted from the first of the area.
Length(q) == IF q = Planned - 1 THEN sel.size - q * SectorSize ELSE SectorSize
Read(q) == Piece(Source(sel), q * SectorSize, Length(q))
Place == plan.write[worker.pos] - First

\* Without its first sector no firmware starts; with it, the firmware is whole.
Empty == flash[First] = Erased
DevInv ==
    /\ ~Empty => Whole
    /\ dev.mode = "app" \/ dev.next = "app" => ~Empty
    /\ Area = 1 => flash[First] = Old

\* The first sector is empty from the first erase to the last write.
EraseInv ==
    /\ worker.pc = "erase" /\ worker.pos > 1 /\ plan # NoPlan => Empty
    /\ worker.pc \in {"force", "read", "write"} /\ plan # NoPlan => Empty
    /\ worker.pc = "runApp" => ~Empty

\* The sectors that are written hold what belongs there, and the buffer what
\* is written next.
WriteInv ==
    /\ worker.pc \in {"read", "write"} /\ plan # NoPlan =>
         \A p \in 1 .. worker.pos - 1 : flash[First + p] = Read(p)
    /\ worker.pc = "read" /\ plan # NoPlan /\ worker.pos > 1 => buf = Read(worker.pos - 1)
    /\ worker.pc = "write" => buf = Read(Place)

FlashInv == DevInv /\ EraseInv /\ WriteInv

\* The numbers of the writing: the place of the sector that is written.
LEMMA Places ==
    ASSUME TypeInv, Shaped(plan), plan # NoPlan, worker.pc \in {"read", "write"}
    PROVE  /\ Planned \in 1 .. Area - 1 /\ worker.pos \in 1 .. Planned
           /\ Place = IF worker.pos = Planned THEN 0 ELSE worker.pos
           /\ plan.write[worker.pos] = First + Place
           /\ sel.size \in Nat /\ SectorSize \in Nat \ {0} /\ First \in Nat /\ Area \in Nat
<1>1. Planned \in 1 .. Area - 1 /\ plan.write # << >>
    BY HasPlan
<1>2. First \in Nat /\ Area \in Nat /\ SectorSize \in Nat \ {0} /\ sel.size \in Nat
    BY AreaTypes, SizesAssumption DEF TypeInv, SelTypes, Selection
<1>3. worker.pos \in 1 .. Planned
    BY <1>1 DEF TypeInv, WorkTypes, InPlan, Planned
<1>4. /\ plan.write[Planned] = First
      /\ \A i \in 1 .. Planned - 1 : plan.write[i] = First + i
    BY DEF Shaped, Planned
<1>5. plan.write[worker.pos] = IF worker.pos = Planned THEN First ELSE First + worker.pos
    BY <1>1, <1>2, <1>3, <1>4
<1> QED
    BY <1>1, <1>2, <1>3, <1>5 DEF Place

\* A source of some size lies in its file.
LEMMA SourceLies ==
    ASSUME NEW s \in Selection, SourceSize(Source(s)) # 0
    PROVE  \E rest \in Int : /\ rest >= SourceSize(Source(s))
                             /\ Remaining(Source(s)) = {rest}
<1>1. CASE InList(s, s.item)
    <2> DEFINE item == Items[s.header][s.item + 1]
    <2>1. /\ Source(s) = [file |-> s.header, item |-> s.item] /\ s.header \in Roms
          /\ SourceSize(Source(s)) = FwList(s)[s.item + 1].size
        BY <1>1, SourceSizes
    <2>2. FwList(s) = Items[s.header] /\ s.item \in 0 .. Len(Items[s.header]) - 1
        BY <1>1, <2>1, FilesAssumption DEF FwList, InList
    <2>3. s.item + 1 \in DOMAIN Items[s.header] /\ s.item # NoItem
        <3>1. Len(Items[s.header]) \in Nat /\ DOMAIN Items[s.header] = 1 .. Len(Items[s.header])
            BY <2>1, SizesAssumption
        <3> QED
            BY <2>2, <3>1 DEF NoItem
    <2>4. item.size \in Nat /\ item.at \in Nat
        BY <2>1, <2>2, ItemTypes
    <2>5. RomSize[s.header] \in Nat /\ item.at + item.size <= RomSize[s.header]
        BY <2>1, <2>3, RomsAssumption
    <2>6. Begin(Source(s)) = {item.at}
        BY <2>1, <2>2 DEF Begin
    <2>7. Remaining(Source(s)) = {RomSize[s.header] - b : b \in Begin(Source(s))}
        BY <2>1, <2>3, FilesAssumption DEF Remaining
    <2> HIDE DEF item
    <2>8. Remaining(Source(s)) = {RomSize[s.header] - item.at}
        BY <2>6, <2>7
    <2> DEFINE rest == RomSize[s.header] - item.at
    <2>9. rest \in Int /\ rest >= SourceSize(Source(s))
        BY <2>1, <2>2, <2>4, <2>5 DEF item
    <2> QED
        BY <2>8, <2>9
<1>2. CASE ~InList(s, s.item)
    <2>1. s.item = NoItem /\ s.path \in Bins /\ Source(s) = [file |-> s.path, item |-> NoItem]
        BY <1>2, SourceSizes
    <2>2. Remaining(Source(s)) = {BinSize[s.path]} /\ SourceSize(Source(s)) = BinSize[s.path]
        BY <2>1, FilesAssumption, SourceSizes DEF Remaining
    <2> QED
        BY <2>1, <2>2, SizesAssumption
<1> QED
    BY <1>1, <1>2

\* What belongs to the sector that is written next lies in the source.
LEMMA SectorLies ==
    ASSUME TypeInv, Shaped(plan), PlanSize, plan # NoPlan, worker.pc \in {"read", "write"}
    PROVE  /\ SourceSize(Source(sel)) = sel.size /\ sel.size # 0
           /\ Length(Place) \in 1 .. SectorSize
           /\ 0 * SectorSize = 0 /\ Place * SectorSize \in Int
           /\ Place * SectorSize + Length(Place) <= sel.size
<1> DEFINE n == Planned
           q == Place
           last == (n - 1) * SectorSize
<1>1. /\ n \in Nat /\ n >= 1 /\ q \in Int /\ q <= n - 1
      /\ sel.size \in Nat /\ SectorSize \in Nat \ {0} /\ sel \in Selection
    BY Places DEF TypeInv, SelTypes
<1>2. /\ 0 * SectorSize = 0 /\ q * SectorSize \in Int /\ last \in Int
      /\ (n - 2) * SectorSize = last - SectorSize
      /\ q <= n - 2 => q * SectorSize <= (n - 2) * SectorSize
      /\ n - 1 >= 0 => last >= 0
    <2>1. n - 1 \in Int /\ n - 2 \in Int /\ q \in Int /\ 0 \in Int /\ n - 2 = (n - 1) - 1
        BY <1>1
    <2> HIDE DEF n, q
    <2> QED
        BY <1>1, <2>1, Multiples
<1>3. SourceSize(Source(sel)) = sel.size /\ sel.size - last \in 1 .. SectorSize
    <2>1. sel.size = SourceSize(Source(sel)) /\ plan = PlanFor(sel.size)
        BY DEF PlanSize, Fits
    <2>2. n = Sectors(sel.size)
        BY <1>1, <2>1, PlanForShape DEF Planned
    <2> HIDE DEF n
    <2> QED
        BY <1>1, <2>1, <2>2, LastSector
<1>4. Length(q) = IF q = n - 1 THEN sel.size - q * SectorSize ELSE SectorSize
    BY DEF Length
<1>5. sel.size # 0
    <2> HIDE DEF q, last
    <2> QED
        BY <1>1, <1>2, <1>3
<1>6. Length(q) \in 1 .. SectorSize /\ q * SectorSize + Length(q) <= sel.size
    <2>1. CASE q = n - 1
        <3>1. q * SectorSize = last
            BY <2>1
        <3> HIDE DEF n, q, last
        <3> QED
            BY <1>1, <1>2, <1>3, <1>4, <2>1, <3>1
    <2>2. CASE q # n - 1
        <3>1. q <= n - 2
            BY <1>1, <2>2
        <3> HIDE DEF n, q, last
        <3> QED
            BY <1>1, <1>2, <1>3, <1>4, <2>2, <3>1
    <2> QED
        BY <2>1, <2>2
<1> QED
    BY <1>2, <1>3, <1>5, <1>6

\* A read gets what belongs to the sector that is written next, all of it and
\* no more.
LEMMA ReadGives ==
    ASSUME TypeInv, Shaped(plan), PlanSize, WriteInv, worker.pc = "read", Readable
    PROVE  /\ plan # NoPlan /\ SourceSize(Source(sel)) # 0
           /\ Offset = Place * SectorSize /\ Got = {Length(Place)}
           /\ Length(Place) \in 1 .. SectorSize
           /\ Offset + Length(Place) <= SourceSize(Source(sel))
<1> DEFINE n == Planned
           p == worker.pos
           q == Place
<1>1. plan # NoPlan
    BY HasPlan DEF Readable
<1>2. /\ n \in Nat /\ n >= 1 /\ p \in 1 .. n /\ q = IF p = n THEN 0 ELSE p
      /\ sel.size \in Nat /\ SectorSize \in Nat \ {0} /\ sel \in Selection
      /\ q \in Int /\ n - 1 \in Int
    BY <1>1, Places DEF TypeInv, SelTypes
<1>3. /\ sel.size = SourceSize(Source(sel)) /\ sel.size # 0
      /\ 0 * SectorSize = 0 /\ q * SectorSize \in Int
      /\ Length(q) \in 1 .. SectorSize /\ q * SectorSize + Length(q) <= sel.size
    BY <1>1, SectorLies
<1>4. Offset = q * SectorSize
    <2>1. Offset = IF p > 1 /\ buf.len < SectorSize THEN 0 ELSE q * SectorSize
        BY DEF Offset, Place
    <2>2. CASE p = 1
        <3> HIDE DEF q
        <3> QED
            BY <2>1, <2>2
    <2>3. CASE p > 1 /\ p = n
        <3>1. q = 0
            BY <1>2, <2>3
        <3> HIDE DEF q
        <3> QED
            BY <1>3, <2>1, <3>1
    <2>4. CASE p > 1 /\ p # n
        <3>1. buf = Read(p - 1)
            BY <1>1, <2>4 DEF WriteInv
        <3>2. p - 1 # n - 1
            BY <1>2, <2>4
        <3>3. buf.len = SectorSize
            BY <3>1, <3>2 DEF Read, Piece, Length
        <3> HIDE DEF q
        <3> QED
            BY <1>2, <2>1, <3>3
    <2> QED
        BY <1>2, <2>2, <2>3, <2>4
<1>5. Wanted = Length(q)
    <2>1. Wanted = IF n > 1 /\ p # n - 1 THEN SectorSize ELSE sel.size - (n - 1) * SectorSize
        BY DEF Wanted, Planned
    <2>2. Length(q) = IF q = n - 1 THEN sel.size - q * SectorSize ELSE SectorSize
        BY DEF Length
    <2>3. q = n - 1 <=> ~(n > 1 /\ p # n - 1)
        BY <1>2
    <2> HIDE DEF n, p, q
    <2> QED
        BY <2>1, <2>2, <2>3
<1>6. Got = {Length(q)}
    <2>1. PICK rest \in Int : rest >= sel.size /\ Remaining(Source(sel)) = {rest}
        BY <1>2, <1>3, SourceLies
    <2>2. Got = {Upto(rest)}
        BY <2>1 DEF Got
    <2>3. rest > Offset /\ Wanted \in 0 .. rest - Offset /\ ~(rest <= Offset)
        <3> HIDE DEF q, Offset, Wanted
        <3> QED
            BY <1>2, <1>3, <1>4, <1>5, <2>1
    <2>4. Upto(rest) = Wanted
        <3> HIDE DEF Offset, Wanted
        <3> QED
            BY <2>3 DEF Upto
    <2> QED
        BY <1>5, <2>2, <2>4
<1> QED
    BY <1>1, <1>3, <1>4, <1>6

\* A source of some size is a file.
LEMMA SourceFile ==
    ASSUME NEW src, SourceSize(src) # 0
    PROVE  src.file \in Roms \cup Bins /\ src.file \notin {"old", "erased"}
    BY UpdaterAssumption DEF SourceSize

\* The last write makes the firmware whole.
LEMMA WholeWritten ==
    ASSUME TypeInv, Shaped(plan), PlanSize, WriteInv, worker.pc = "write", plan # NoPlan,
           worker.pos = Planned, flash' = [flash EXCEPT ![First + Place] = buf]
    PROVE  Whole' /\ flash'[First] # Erased
<1> DEFINE n == Planned
           src == Source(sel)
<1>1. /\ n \in 1 .. Area - 1 /\ n \in Nat \ {0} /\ worker.pos = n /\ Place = 0 /\ sel.size \in Nat
      /\ SectorSize \in Nat \ {0} /\ First \in Nat /\ Area \in Nat
    BY Places
<1>2. sel.size = SourceSize(src) /\ plan = PlanFor(sel.size)
    BY DEF PlanSize, Fits
<1>3. buf = Read(0)
    BY <1>1 DEF WriteInv
<1>5. Sectors(sel.size) = n
    BY <1>1, <1>2, PlanForShape DEF Planned
<1>4. sel.size - (n - 1) * SectorSize \in 1 .. SectorSize /\ SourceSize(src) # 0
    <2>1. (n - 1) * SectorSize >= 0
        BY <1>1
    <2> HIDE DEF n, src
    <2> QED
        BY <1>1, <1>2, <1>5, <2>1, LastSector
<1>6. ASSUME NEW i \in 0 .. n - 1
      PROVE  Read(i) = PieceOf(src, i)
    <2> DEFINE rest == sel.size - i * SectorSize
    <2>0. i \in Int /\ n - 1 \in Int /\ i <= n - 1
        BY <1>1
    <2>1. /\ i * SectorSize \in Int /\ (n - 1) * SectorSize \in Int
          /\ (i + 1) * SectorSize = i * SectorSize + SectorSize
          /\ i + 1 <= n - 1 => (i + 1) * SectorSize <= (n - 1) * SectorSize
        <3> HIDE DEF n
        <3> QED
            BY <2>0, Multiples
    <2>2. Length(i) = IF rest < SectorSize THEN rest ELSE SectorSize
        <3>1. CASE i = n - 1
            <4>1. Length(i) = rest
                BY <3>1 DEF Length
            <4> HIDE DEF n
            <4> QED
                BY <1>1, <1>4, <2>1, <3>1, <4>1
        <3>2. CASE i # n - 1
            <4>1. Length(i) = SectorSize
                BY <3>2 DEF Length
            <4>2. i + 1 <= n - 1
                BY <2>0, <3>2
            <4> HIDE DEF n
            <4> QED
                BY <1>1, <1>4, <2>1, <4>1, <4>2
        <3> QED
            BY <3>1, <3>2
    <2>3. PieceOf(src, i) = Piece(src, i * SectorSize, IF rest < SectorSize THEN rest ELSE SectorSize)
        BY <1>2 DEF PieceOf
    <2> QED
        BY <2>2, <2>3 DEF Read
<1>7. \A i \in 1 .. n - 1 : flash[First + i] = Read(i)
    BY <1>1 DEF WriteInv
<1>8. /\ flash' = [flash EXCEPT ![First] = buf] /\ First \in AppArea
      /\ \A i \in 0 .. n - 1 : First + i \in AppArea
      /\ flash \in [AppArea -> Pieces]
    BY <1>1, AreaTypes DEF AppArea, TypeInv, DevTypes
<1>9. flash'[First] = Read(0) /\ flash'[First].source = src
    BY <1>3, <1>8 DEF Read, Piece
<1>10. ASSUME NEW i \in 0 .. n - 1
       PROVE  First + i \in AppArea /\ flash'[First + i] = PieceOf(src, i)
    <2>1. CASE i = 0
        BY <1>1, <1>6, <1>8, <1>9, <2>1
    <2>2. CASE i # 0
        <3>1. i \in 1 .. n - 1 /\ First + i # First /\ First + i \in AppArea
            BY <1>1, <1>8, <2>2
        <3>2. flash'[First + i] = flash[First + i]
            BY <1>8, <3>1
        <3> QED
            BY <1>6, <1>7, <3>1, <3>2
    <2> QED
        BY <2>1, <2>2
<1>11. src.file \in Roms \cup Bins /\ src.file \notin {"old", "erased"}
    BY <1>4, SourceFile
<1>12. Whole'
    <2>1. Sectors(SourceSize(src)) - 1 = n - 1
        BY <1>2, <1>5
    <2> HIDE DEF n, src
    <2> QED
        BY <1>4, <1>9, <1>10, <2>1 DEF Whole
<1>13. flash'[First] # Erased
    BY <1>9, <1>11 DEF Erased, Piece
<1> QED
    BY <1>12, <1>13

\* A write puts the next piece in its place.
LEMMA WriteStep ==
    ASSUME TypeInv, Shaped(plan), PlanSize, FlashInv, WriteSector
    PROVE  FlashInv'
<1>0. /\ worker.pc = "write" /\ UNCHANGED <<sel, plan, buf, lib>> /\ plan # NoPlan
      /\ worker \in [pc : WorkerSteps, pos : Nat \ {0}, polls : 1 .. Polls]
    <2>1. worker.pc = "write" /\ UNCHANGED <<sel, plan, buf, lib>>
        BY DEF WriteSector, At, KeepPlan, KeepLib
    <2>2. plan # NoPlan
        BY <2>1, HasPlan DEF TypeInv, InPlan
    <2> QED
        BY <2>1, <2>2 DEF TypeInv, WorkTypes
<1>1. /\ Planned \in 1 .. Area - 1 /\ worker.pos \in 1 .. Planned
      /\ Place = IF worker.pos = Planned THEN 0 ELSE worker.pos
      /\ plan.write[worker.pos] = First + Place
      /\ First \in Nat /\ Area \in Nat
    BY <1>0, Places
<1>2. flash \in [AppArea -> Pieces] /\ First \in AppArea
    BY AreaTypes DEF TypeInv, DevTypes
<1>3. ASSUME NEW ms, Fail(ms) PROVE worker'.pc = "closing"
    BY <1>3 DEF Fail, Goto
<1>4. ASSUME KeepDev, worker'.pc = "closing" PROVE FlashInv'
    BY <1>4 DEF FlashInv, DevInv, Empty, EraseInv, WriteInv, KeepDev, devVars, Whole
<1>5. ASSUME Reaches("boot"), WriteFlash(First + Place),
             \/ worker'.pc = "closing"
             \/ worker.pos = Planned /\ Goto("runApp")
             \/ /\ worker.pos # Planned
                /\ worker' = [worker EXCEPT !.pc = "read", !.pos = @ + 1]
      PROVE  FlashInv'
    <2>1. flash' = [flash EXCEPT ![First + Place] = buf] /\ UNCHANGED dev
        BY <1>5 DEF WriteFlash
    <2>2. dev.mode = "boot" /\ dev.next = "boot"
        BY <1>5 DEF Reaches
    <2>3. Area # 1
        BY <1>1
    <2>4. CASE worker.pos = Planned
        <3>1. Whole' /\ flash'[First] # Erased
            BY <1>0, <2>1, <2>4, WholeWritten DEF FlashInv
        <3>2. DevInv'
            BY <2>1, <2>2, <2>3, <3>1 DEF DevInv, Empty
        <3>3. worker'.pc \in {"closing", "runApp"}
            BY <1>5, <2>4 DEF Goto
        <3> QED
            BY <3>1, <3>2, <3>3 DEF FlashInv, EraseInv, WriteInv, Empty
    <2>5. CASE worker.pos # Planned
        <3>1. Place = worker.pos /\ First + Place # First
            BY <1>1, <2>5
        <3>2. Empty /\ Empty'
            BY <1>0, <1>2, <2>1, <3>1 DEF FlashInv, EraseInv, Empty
        <3>3. DevInv'
            BY <2>1, <2>2, <2>3, <3>2 DEF DevInv
        <3>4. CASE worker'.pc = "closing"
            BY <3>3, <3>4 DEF FlashInv, EraseInv, WriteInv
        <3>5. CASE worker' = [worker EXCEPT !.pc = "read", !.pos = @ + 1]
            <4>1. worker'.pc = "read" /\ worker'.pos = worker.pos + 1
                BY <1>0, <3>5
            <4>2. EraseInv'
                BY <3>2, <4>1 DEF EraseInv
            <4>3. \A q : Read(q)' = Read(q) /\ Length(q)' = Length(q)
                BY <1>0 DEF Read, Length, Planned
            <4>4. Planned' = Planned
                BY <1>0 DEF Planned
            <4>5. buf = Read(worker.pos)
                BY <1>0, <3>1 DEF FlashInv, WriteInv
            <4>6. ASSUME NEW p \in 1 .. worker'.pos - 1
                  PROVE  flash'[First + p] = Read(p)
                <5>1. p \in 1 .. worker.pos /\ First + p \in AppArea
                    BY <1>1, <2>5, <4>1 DEF AppArea
                <5>2. CASE p = worker.pos
                    BY <1>2, <2>1, <3>1, <4>5, <5>1, <5>2
                <5>3. CASE p # worker.pos
                    <6>1. p \in 1 .. worker.pos - 1 /\ First + p # First + Place
                        BY <1>1, <3>1, <5>1, <5>3
                    <6>2. flash[First + p] = Read(p)
                        BY <1>0, <6>1 DEF FlashInv, WriteInv
                    <6> QED
                        BY <1>2, <2>1, <5>1, <6>1, <6>2
                <5> QED
                    BY <5>2, <5>3
            <4>8. buf' = Read(worker'.pos - 1)
                <5>1. worker'.pos - 1 = worker.pos
                    BY <1>1, <4>1
                <5> QED
                    BY <1>0, <4>5, <5>1
            <4>9. WriteInv'
                BY <4>1, <4>3, <4>4, <4>6, <4>8 DEF WriteInv
            <4> QED
                BY <3>3, <4>2, <4>9 DEF FlashInv
        <3> QED
            BY <1>5, <2>5, <3>4, <3>5
    <2> QED
        BY <2>4, <2>5
<1> QED
    BY <1>1, <1>3, <1>4, <1>5 DEF WriteSector, Planned

\* An erase leaves the first sector empty, be it told sector by sector or at
\* once.
LEMMA EraseStep ==
    ASSUME TypeInv, Shaped(plan), FlashInv, EraseSector
    PROVE  FlashInv'
<1>0. /\ worker.pc = "erase" /\ UNCHANGED <<sel, plan, buf>>
      /\ worker \in [pc : WorkerSteps, pos : Nat \ {0}, polls : 1 .. Polls]
      /\ plan.erase \in Seq(AppArea)
    BY DEF EraseSector, At, KeepPlan, TypeInv, WorkTypes, PlanTypes
<1>1. worker'.pc \in {"erase", "force", "closing"}
    BY <1>0 DEF EraseSector, Goto, Fail, Stay
<1>2. WriteInv'
    BY <1>1 DEF WriteInv
<1>3. Stay => worker'.pos > 1
    BY <1>0 DEF Stay
<1>4. CASE worker.pos > Len(plan.erase) /\ Goto("force") /\ KeepDev
    <2>1. DevInv'
        BY <1>4 DEF FlashInv, DevInv, Empty, KeepDev, devVars, Whole
    <2>2. plan # NoPlan => Empty
        <3>1. plan # NoPlan => Len(plan.erase) >= 2
            BY AreaTypes DEF Shaped
        <3>2. plan # NoPlan => worker.pos > 1
            BY <1>0, <1>4, <3>1
        <3> QED
            BY <1>0, <3>2 DEF FlashInv, EraseInv
    <2>3. EraseInv'
        BY <1>0, <1>4, <2>2 DEF EraseInv, Goto, Empty, KeepDev, devVars
    <2> QED
        BY <1>2, <2>1, <2>3 DEF FlashInv
<1>5. CASE worker.pos <= Len(plan.erase)
    <2> DEFINE s == plan.erase[worker.pos]
    <2>1. /\ plan # NoPlan /\ Planned \in 1 .. Area - 1 /\ Area # 1
          /\ plan.erase[1] = First /\ First \in AppArea
        <3>1. plan # NoPlan
            BY <1>0, <1>5 DEF NoPlan
        <3> QED
            BY <3>1, HasPlan, AreaTypes DEF Shaped
    <2>2. worker.pos = 1 => s = First
        BY <2>1
    <2>3. worker.pos # 1 => Empty
        BY <1>0, <2>1 DEF FlashInv, EraseInv
    <2>4. CASE ~SecInfo /\ s # 1 /\ Stay /\ KeepDev
        <3>1. Empty
            BY <2>2, <2>3, <2>4 DEF First
        <3>2. DevInv' /\ Empty'
            BY <2>4, <3>1 DEF FlashInv, DevInv, Empty, KeepDev, devVars
        <3>3. EraseInv'
            BY <1>1, <3>2 DEF EraseInv
        <3> QED
            BY <1>2, <3>2, <3>3 DEF FlashInv
    <2>5. CASE Reaches("boot") /\ EraseFlash(s)
        <3>1. Empty'
            <4>1. flash'[First] = IF First \in ErasedBy(s) THEN Erased ELSE flash[First]
                BY <2>1, <2>5 DEF EraseFlash
            <4>2. CASE worker.pos = 1
                <5>1. First \in ErasedBy(First)
                    BY <2>1 DEF ErasedBy
                <5> QED
                    BY <2>2, <4>1, <4>2, <5>1 DEF Empty
            <4>3. CASE worker.pos # 1
                BY <2>3, <4>1, <4>3 DEF Empty
            <4> QED
                BY <4>2, <4>3
        <3>2. DevInv'
            BY <2>1, <2>5, <3>1 DEF DevInv, Reaches, EraseFlash
        <3>3. EraseInv'
            BY <1>1, <3>1 DEF EraseInv
        <3> QED
            BY <1>2, <3>2, <3>3 DEF FlashInv
    <2>6. ASSUME NEW ms, Fail(ms), KeepDev PROVE FlashInv'
        <3>1. worker'.pc = "closing"
            BY <2>6 DEF Fail, Goto
        <3>2. DevInv'
            BY <2>6 DEF FlashInv, DevInv, Empty, KeepDev, devVars, Whole
        <3> QED
            BY <1>2, <3>1, <3>2 DEF FlashInv, EraseInv
    <2> QED
        BY <1>0, <1>5, <2>4, <2>5, <2>6 DEF EraseSector
<1> QED
    BY <1>0, <1>4, <1>5 DEF EraseSector

\* What is forced is read from the first sector of the plan on.
LEMMA ForceStep ==
    ASSUME TypeInv, Shaped(plan), FlashInv, ForceFirmware
    PROVE  FlashInv'
<1>1. worker.pc = "force" /\ worker'.pc = "read" /\ worker'.pos = 1 /\ UNCHANGED plan
    BY DEF ForceFirmware, At, Goto
<1>2. DevInv' /\ EraseInv'
    BY <1>1 DEF ForceFirmware, FlashInv, DevInv, EraseInv, Empty, KeepDev, devVars, Whole
<1>3. WriteInv'
    <2>1. \A p \in 1 .. worker'.pos - 1 : FALSE
        BY <1>1
    <2>2. ~(worker'.pos > 1)
        BY <1>1
    <2> QED
        BY <1>1, <2>1, <2>2 DEF WriteInv
<1> QED
    BY <1>2, <1>3 DEF FlashInv

\* A read that succeeds fills the buffer with what is written next.
LEMMA ReadStep ==
    ASSUME TypeInv, Shaped(plan), PlanSize, FlashInv, ReadSector
    PROVE  FlashInv'
<1>0. /\ worker.pc = "read" /\ UNCHANGED <<sel, plan>>
      /\ worker \in [pc : WorkerSteps, pos : Nat \ {0}, polls : 1 .. Polls]
    BY DEF ReadSector, At, TypeInv, WorkTypes
<1>1. DevInv'
    BY DEF ReadSector, FlashInv, DevInv, Empty, KeepDev, devVars, Whole
<1>2. ASSUME NEW ms, Fail(ms) PROVE FlashInv'
    <2>1. worker'.pc = "closing"
        BY <1>2 DEF Fail, Goto
    <2> QED
        BY <1>1, <2>1 DEF FlashInv, EraseInv, WriteInv
<1>3. ASSUME Readable, NEW got \in Got,
             buf' = Piece(Source(sel), Offset, IF got < SectorSize THEN got ELSE SectorSize),
             worker' = [worker EXCEPT !.pc = "write"]
      PROVE  FlashInv'
    <2>1. plan # NoPlan /\ buf' = Read(Place)
        <3>1. /\ plan # NoPlan /\ Offset = Place * SectorSize /\ Got = {Length(Place)}
              /\ Length(Place) \in 1 .. SectorSize
            BY <1>0, <1>3, ReadGives DEF FlashInv
        <3>2. got = Length(Place) /\ (IF got < SectorSize THEN got ELSE SectorSize) = Length(Place)
            <4> HIDE DEF Length, Place, Got
            <4> QED
                BY <1>3, <3>1, SizesAssumption
        <3> QED
            BY <1>3, <3>1, <3>2 DEF Read
    <2>2. worker'.pc = "write" /\ worker'.pos = worker.pos
        BY <1>0, <1>3
    <2>3. /\ \A q : Read(q)' = Read(q) /\ Length(q)' = Length(q)
          /\ Planned' = Planned /\ Place' = Place
        BY <1>0, <2>2 DEF Read, Length, Planned, Place
    <2>4. UNCHANGED flash
        BY DEF ReadSector, KeepDev, devVars
    <2>5. EraseInv'
        BY <1>0, <2>1, <2>2, <2>4 DEF FlashInv, EraseInv, Empty
    <2>6. Length(Place)' = Length(Place) /\ Read(Place)' = Read(Place)
        BY <1>0, <2>3 DEF Read, Length, Planned
    <2>7. WriteInv'
        BY <1>0, <2>1, <2>2, <2>3, <2>4, <2>6 DEF FlashInv, WriteInv
    <2> QED
        BY <1>1, <2>5, <2>7 DEF FlashInv
<1> QED
    BY <1>2, <1>3 DEF ReadSector

\* The device starts an application only with its first sector there.
LEMMA DevStep ==
    ASSUME TypeInv, DevInv, EraseInv, UNCHANGED flash,
           UNCHANGED dev \/ DevLeave \/ DevReturn \/ DevPowerLoss \/ RunBootloader \/ RunApp
    PROVE  DevInv'
<1>0. dev \in Device
    BY DEF TypeInv, DevTypes
<1>1. dev'.mode = "app" \/ dev'.next = "app" => ~Empty
    <2>1. CASE UNCHANGED dev
        BY <2>1 DEF DevInv
    <2>2. CASE DevLeave
        <3>1. dev'.mode = dev.next /\ dev'.next = dev.next
            BY <1>0, <2>2 DEF DevLeave, Device
        <3> QED
            BY <3>1 DEF DevInv
    <2>3. CASE DevReturn
        <3>1. dev'.mode = dev.mode /\ dev'.next = dev.next
            BY <1>0, <2>3 DEF DevReturn, Device
        <3> QED
            BY <3>1 DEF DevInv
    <2>4. CASE DevPowerLoss
        BY <2>4 DEF DevPowerLoss, Bootable, Empty
    <2>5. CASE RunBootloader
        <3>1. UNCHANGED dev \/ dev' = [dev EXCEPT !.next = "boot"]
            BY <2>5 DEF RunBootloader
        <3> QED
            BY <1>0, <3>1 DEF DevInv, Device
    <2>6. CASE RunApp
        BY <2>6 DEF RunApp, At, EraseInv
    <2> QED
        BY <2>1, <2>2, <2>3, <2>4, <2>5, <2>6
<1> QED
    BY <1>1 DEF DevInv, Empty, Whole

\* Each of the steps keeps what holds of the flash.
LEMMA FlashStep ==
    ASSUME TypeInv, AtWork, Shaped(plan), PlanSize, FlashInv, [Next]_vars
    PROVE  FlashInv'
<1>1. CASE ~Worker
    <2>1. UNCHANGED flash
        BY <1>1, NotWorker
    <2>2. UNCHANGED dev \/ DevLeave \/ DevReturn \/ DevPowerLoss
        BY <1>1, LoopKeeps, EndKeeps, DialogKeeps DEF Next, Restart, KeepDev, devVars, vars
    <2>3. DevInv'
        BY <2>1, <2>2, DevStep DEF FlashInv
    <2>4. CASE worker'.pc = "wait"
        BY <2>3, <2>4 DEF FlashInv, EraseInv, WriteInv
    <2>5. CASE UNCHANGED <<worker, plan, buf, sel>>
        <3>1. EraseInv'
            BY <2>1, <2>5 DEF FlashInv, EraseInv, Empty
        <3>2. /\ \A q : Read(q)' = Read(q) /\ Length(q)' = Length(q)
              /\ Planned' = Planned /\ Place' = Place
              /\ Length(Place)' = Length(Place) /\ Read(Place)' = Read(Place)
            BY <2>5 DEF Read, Length, Planned, Place
        <3>3. WriteInv'
            BY <2>1, <2>5, <3>2 DEF FlashInv, WriteInv
        <3> QED
            BY <2>3, <3>1, <3>3 DEF FlashInv
    <2> QED
        BY <1>1, <2>4, <2>5, NotWorker
<1>2. CASE Setup
    <2>1. UNCHANGED <<dev, flash>> /\ ((worker'.pc = "erase" /\ worker'.pos = 1) \/ worker'.pc = "closing")
        BY <1>2 DEF Setup, KeepDev, devVars, Goto, Fail
    <2>2. DevInv'
        BY <2>1, DevStep DEF FlashInv
    <2> QED
        BY <2>1, <2>2 DEF FlashInv, EraseInv, WriteInv
<1>3. CASE EraseSector
    BY <1>3, EraseStep
<1>4. CASE ForceFirmware
    BY <1>4, ForceStep
<1>5. CASE ReadSector
    BY <1>5, ReadStep
<1>6. CASE WriteSector
    BY <1>6, WriteStep
<1>7. CASE Worker /\ ~Setup /\ ~EraseSector /\ ~ForceFirmware /\ ~ReadSector /\ ~WriteSector
    <2>1. UNCHANGED flash
        BY <1>7, OtherWork
    <2>2. worker'.pc \notin Flashing
        BY <1>7, ToFlashing
    <2>3. UNCHANGED dev \/ RunBootloader \/ RunApp
        BY <1>7
        DEF Worker, WorkerStart, Backup, WaitPlugoutApp, WaitPluginBoot, StopBootUse,
            WaitPlugoutBoot, WaitPluginApp, Recover, ChangeInterface, SetIsoMode, Change,
            Done, Closing, KeepDev, devVars
    <2>4. DevInv'
        BY <2>1, <2>3, DevStep DEF FlashInv
    <2> QED
        BY <2>2, <2>4 DEF FlashInv, EraseInv, WriteInv, Flashing
<1> QED
    BY <1>1, <1>2, <1>3, <1>4, <1>5, <1>6, <1>7

\* The old firmware is not nothing.
LEMMA FlashInit == Init => FlashInv
<1> SUFFICES ASSUME Init PROVE FlashInv
    OBVIOUS
<1>1. flash = [s \in AppArea |-> Old] /\ worker = Waiting
    BY DEF Init, DevInit, Begun
<1>2. flash[First] = Old /\ Old # Erased
    <2>1. First \in AppArea
        BY AreaTypes
    <2> QED
        BY <1>1, <2>1 DEF Old, Erased, Piece
<1>3. Whole
    BY <1>1 DEF Whole
<1> QED
    BY <1>1, <1>2, <1>3 DEF FlashInv, DevInv, EraseInv, WriteInv, Empty, Waiting

\* The updater's invariant: what TypeInv to FlashInv say of every state, if
\* the selected item is of the selected file and the forced index is its own.
Inv == TypeInv /\ AtWork /\ SelInv /\ Shaped(plan) /\ PlanSize /\ FlashInv

\* A step keeps the invariant while the selection is its own.
LEMMA InvStep == Inv /\ OwnItem /\ IndexSelected /\ [Next]_vars => Inv'
<1> SUFFICES ASSUME Inv, OwnItem, IndexSelected, [Next]_vars PROVE Inv'
    OBVIOUS
<1>1. TypeInv' /\ AtWork' /\ SelInv'
    BY TypesStep, AtWorkStep, SelStep DEF Inv
<1>2. Shaped(plan') /\ PlanSize'
    BY PlanStep DEF Inv
<1>3. FlashInv'
    BY FlashStep DEF Inv
<1> QED
    BY <1>1, <1>2, <1>3 DEF Inv

\* The invariant holds at the start.
LEMMA InvInit == Init => Inv
    BY TypesInit, AtWorkInit, SelInit, PlanInit, FlashInit DEF Inv

\* So it holds as long as the selection is its own.
LEMMA Invariance == Spec /\ []OwnItem /\ []IndexSelected => []Inv
    BY InvInit, InvStep, PTL DEF Spec

\* Whatever fails, is killed, loses its power or is started again, the device
\* never runs half a firmware, if the selected item is of the selected file
\* and the index that is forced is the selected one.
THEOREM NeverHalf == Spec /\ []OwnItem /\ []IndexSelected => []RunsWhole
<1>1. Inv => RunsWhole
    BY DEF Inv, FlashInv, DevInv, RunsWhole
<1> QED
    BY <1>1, Invariance, PTL

\* So it is when no dialog offers both a rom file and a raw file, and an index
\* comes with its rom file and without a dialog.
THEOREM NeverHalfUnmixed == ASSUME Unmixed, IndexAlone PROVE Spec => []RunsWhole
    BY SelectionOwn, IndexSame, NeverHalf, PTL

\* Under the same condition the plan is the one for what is read and written.
THEOREM PlanForTheRead == Spec /\ []OwnItem /\ []IndexSelected => []PlanFits
<1>1. Inv => PlanFits
    BY DEF Inv, PlanSize, Fits, PlanFits
<1> QED
    BY <1>1, Invariance, PTL

\* So it is without a dialog over both kinds of files or after an index.
THEOREM PlanForTheReadUnmixed == ASSUME Unmixed, IndexAlone PROVE Spec => []PlanFits
    BY SelectionOwn, IndexSame, PlanForTheRead, PTL

\* A sector is read from the selected firmware, and not from what lies before
\* or behind it in the file: what get_one_sector_fw_data is said to do.
FirmwareRead ==
    alive /\ worker.pc = "write" => buf.from + buf.len <= SourceSize(buf.source)

\* Under the same condition no sector is read from what lies around the selected firmware.
THEOREM ReadsFirmware == Spec /\ []OwnItem /\ []IndexSelected => []FirmwareRead
<1>1. Inv => FirmwareRead
    <2> SUFFICES ASSUME Inv, worker.pc = "write" PROVE buf.from + buf.len <= SourceSize(buf.source)
        BY DEF FirmwareRead
    <2>1. plan # NoPlan
        BY HasPlan DEF Inv, TypeInv, InPlan
    <2>2. /\ SourceSize(Source(sel)) = sel.size
          /\ Place * SectorSize + Length(Place) <= sel.size
        BY <2>1, SectorLies DEF Inv
    <2>3. buf = Read(Place)
        BY DEF Inv, FlashInv, WriteInv
    <2>4. /\ buf.source = Source(sel) /\ buf.from = Place * SectorSize
          /\ buf.len = Length(Place)
        BY <2>3 DEF Read, Piece
    <2> QED
        BY <2>2, <2>4
<1> QED
    BY <1>1, Invariance, PTL

-----------------------------------------------------------------------------
(* What is written, whatever was selected.                                  *)

\* The steps after the last sector: only an update that was written to its end
\* comes here.
AfterWrite == {"runApp", "outBoot", "inLpu", "recover", "inf", "iso", "done"}

\* An update that goes on to start the device has written every sector of its
\* plan, and all from the one source that is selected: no sector it erased to
\* write is left erased, or with what an earlier update put there.
AllWritten ==
    alive /\ worker.pc \in AfterWrite =>
        \A i \in DOMAIN plan.write : flash[plan.write[i]].source = Source(sel)

\* The sectors written so far, and the one in hand, are from the selection.
WrittenInv ==
    /\ worker.pc \in {"read", "write"} /\ plan.write # << >> =>
         \A p \in 1 .. worker.pos - 1 : flash[plan.write[p]].source = Source(sel)
    /\ worker.pc = "write" => buf.source = Source(sel)
    /\ worker.pc \in AfterWrite =>
         \A i \in DOMAIN plan.write : flash[plan.write[i]].source = Source(sel)

\* The steps after the last sector come from each other.
LEMMA AfterAfter ==
    ASSUME TypeInv, Worker, worker'.pc \in AfterWrite,
           ~Setup, ~EraseSector, ~ForceFirmware, ~ReadSector, ~WriteSector
    PROVE  worker.pc \in AfterWrite
<1>0. worker \in [pc : WorkerSteps, pos : Nat \ {0}, polls : 1 .. Polls]
    BY DEF TypeInv, WorkTypes
<1>1. ASSUME NEW pc, Goto(pc) PROVE worker'.pc = pc
    BY <1>1 DEF Goto
<1>2. ASSUME NEW ms, Fail(ms) PROVE worker'.pc = "closing"
    BY <1>1, <1>2 DEF Fail
<1>3. PollAgain \/ UNCHANGED worker => worker'.pc = worker.pc
    BY <1>0 DEF PollAgain
<1>4. ASSUME WorkerStart \/ Backup \/ RunBootloader \/ WaitPlugoutApp \/ WaitPluginBoot \/ StopBootUse
      PROVE  FALSE
    BY <1>1, <1>2, <1>3, <1>4
    DEF WorkerStart, Backup, RunBootloader, WaitPlugoutApp, WaitPluginBoot, StopBootUse,
        At, AfterWrite
<1>5. ~Closing
    BY <1>1 DEF Closing, AfterWrite
<1> QED
    BY <1>4, <1>5
    DEF Worker, RunApp, WaitPlugoutBoot, WaitPluginApp, Recover, ChangeInterface, SetIsoMode,
        Change, Done, At, AfterWrite

\* A sector that is written is from the selection, and the last one completes
\* the plan.
LEMMA WriteFills ==
    ASSUME TypeInv, WrittenInv, WriteSector
    PROVE  WrittenInv'
<1>0. /\ worker \in [pc : WorkerSteps, pos : Nat \ {0}, polls : 1 .. Polls]
      /\ flash \in [AppArea -> Pieces] /\ plan.write \in Seq(AppArea)
      /\ worker.pc = "write" /\ plan.write # << >> /\ worker.pos <= Len(plan.write)
      /\ UNCHANGED <<sel, plan, buf>>
    BY DEF TypeInv, WorkTypes, DevTypes, PlanTypes, InPlan, WriteSector, At, KeepPlan
<1>1. Source(sel)' = Source(sel)
    BY <1>0
<1>2. ASSUME NEW ms, Fail(ms) PROVE WrittenInv'
    <2>1. worker'.pc = "closing"
        BY <1>2 DEF Fail, Goto
    <2> QED
        BY <2>1 DEF WrittenInv, AfterWrite
<1>3. ASSUME WriteFlash(plan.write[worker.pos])
      PROVE  \A p \in 1 .. worker.pos : flash'[plan.write[p]].source = Source(sel)
    <2> SUFFICES ASSUME NEW p \in 1 .. worker.pos
                 PROVE  flash'[plan.write[p]].source = Source(sel)
        OBVIOUS
    <2>1. plan.write[p] \in AppArea /\ plan.write[worker.pos] \in AppArea
        BY <1>0
    <2>2. flash' = [flash EXCEPT ![plan.write[worker.pos]] = buf]
        BY <1>3 DEF WriteFlash
    <2>3. CASE plan.write[p] = plan.write[worker.pos]
        BY <1>0, <2>1, <2>2, <2>3 DEF WrittenInv
    <2>4. CASE plan.write[p] # plan.write[worker.pos]
        <3>1. p \in 1 .. worker.pos - 1
            BY <1>0, <2>4
        <3> QED
            BY <1>0, <2>1, <2>2, <2>4, <3>1 DEF WrittenInv
    <2> QED
        BY <2>3, <2>4
<1>4. ASSUME WriteFlash(plan.write[worker.pos]), worker.pos = Len(plan.write), Goto("runApp")
      PROVE  WrittenInv'
    <2>1. worker'.pc = "runApp" /\ DOMAIN plan.write = 1 .. worker.pos
        BY <1>0, <1>4 DEF Goto
    <2> QED
        BY <1>0, <1>1, <1>3, <1>4, <2>1 DEF WrittenInv
<1>5. ASSUME WriteFlash(plan.write[worker.pos]),
             worker' = [worker EXCEPT !.pc = "read", !.pos = @ + 1]
      PROVE  WrittenInv'
    <2>1. worker'.pc = "read" /\ worker'.pos - 1 = worker.pos
        BY <1>0, <1>5
    <2> QED
        BY <1>0, <1>1, <1>3, <1>5, <2>1 DEF WrittenInv, AfterWrite
<1> QED
    BY <1>2, <1>4, <1>5 DEF WriteSector

\* No other step undoes it.
LEMMA WrittenStep ==
    ASSUME TypeInv, AtWork, WrittenInv, [Next]_vars
    PROVE  WrittenInv'
<1>0. worker \in [pc : WorkerSteps, pos : Nat \ {0}, polls : 1 .. Polls]
    BY DEF TypeInv, WorkTypes
<1>1. CASE ~Worker
    <2>1. CASE worker'.pc = "wait"
        BY <2>1 DEF WrittenInv, AfterWrite
    <2>2. CASE UNCHANGED <<worker, plan, buf, sel>> /\ UNCHANGED flash
        BY <2>2 DEF WrittenInv
    <2> QED
        BY <1>1, <2>1, <2>2, NotWorker
<1>2. CASE Setup \/ EraseSector
    <2>1. worker'.pc \in {"erase", "force", "closing"}
        BY <1>0, <1>2 DEF Setup, EraseSector, At, Goto, Fail, Stay
    <2> QED
        BY <2>1 DEF WrittenInv, AfterWrite
<1>3. CASE ForceFirmware
    <2>1. worker'.pc = "read" /\ worker'.pos = 1
        BY <1>3 DEF ForceFirmware, Goto
    <2>2. \A p \in 1 .. worker'.pos - 1 : FALSE
        BY <2>1
    <2> QED
        BY <2>1, <2>2 DEF WrittenInv, AfterWrite
<1>4. CASE ReadSector
    <2>1. UNCHANGED <<sel, plan, flash>> /\ worker.pc = "read"
        BY <1>4 DEF ReadSector, At, KeepDev, devVars
    <2>2. ASSUME NEW ms, Fail(ms) PROVE WrittenInv'
        <3>1. worker'.pc = "closing"
            BY <2>2 DEF Fail, Goto
        <3> QED
            BY <3>1 DEF WrittenInv, AfterWrite
    <2>3. ASSUME NEW len, buf' = Piece(Source(sel), Offset, len),
                 worker' = [worker EXCEPT !.pc = "write"]
          PROVE  WrittenInv'
        <3>1. worker'.pc = "write" /\ worker'.pos = worker.pos /\ buf'.source = Source(sel)
            BY <1>0, <2>3 DEF Piece
        <3>2. Source(sel)' = Source(sel)
            BY <2>1
        <3> QED
            BY <2>1, <3>1, <3>2 DEF WrittenInv, AfterWrite
    <2> QED
        BY <1>4, <2>2, <2>3 DEF ReadSector
<1>5. CASE WriteSector
    BY <1>5, WriteFills
<1>6. CASE Worker /\ ~Setup /\ ~EraseSector /\ ~ForceFirmware /\ ~ReadSector /\ ~WriteSector
    <2>1. UNCHANGED <<sel, plan, flash>>
        BY <1>6, OtherWork
    <2>2. worker'.pc \notin {"read", "write"}
        BY <1>6, ToFlashing DEF Flashing
    <2>3. worker'.pc \in AfterWrite => worker.pc \in AfterWrite
        BY <1>6, AfterAfter
    <2> QED
        BY <2>1, <2>2, <2>3 DEF WrittenInv
<1> QED
    BY <1>1, <1>2, <1>3, <1>4, <1>5, <1>6

\* An update that goes on to start the device has written all of its plan from
\* what is selected, whatever file, item or index that is.
THEOREM WritesAll == Spec => []AllWritten
<1>1. Init => WrittenInv
    BY DEF Init, Begun, Waiting, WrittenInv, AfterWrite
<1>2. WrittenInv => AllWritten
    BY DEF WrittenInv, AllWritten
<1>3. Spec => [](TypeInv /\ AtWork)
    BY TypesInit, TypesStep, AtWorkInit, AtWorkStep, PTL DEF Spec
<1> QED
    BY <1>1, <1>2, <1>3, WrittenStep, PTL DEF Spec

-----------------------------------------------------------------------------
(* The promise.                                                             *)

ImageIsFirst ==
    /\ Image = flash[First].source
    /\ Empty <=> Image = Erased.source
    /\ ~Empty => Image \in {Old.source} \cup Firmwares

\* The image is the source of the first sector: it is whole if it is there.
LEMMA ImageOfFirst == Inv => ImageIsFirst
<1> SUFFICES ASSUME Inv PROVE ImageIsFirst
    OBVIOUS
<1>0. /\ First \in AppArea /\ flash[First] \in Pieces /\ First \in Nat /\ Area \in Nat \ {0}
      /\ Old # Erased /\ Old.source # Erased.source /\ Erased.source.file = "erased"
    <2>1. First \in AppArea /\ First \in Nat /\ Area \in Nat \ {0}
        BY AreaTypes
    <2>2. flash[First] \in Pieces
        BY <2>1 DEF Inv, TypeInv, DevTypes
    <2>3. Old # Erased /\ Old.source # Erased.source /\ Erased.source.file = "erased"
        BY DEF Old, Erased, Piece
    <2> QED
        BY <2>1, <2>2, <2>3
<1>1. ASSUME ~Empty PROVE Whole
    BY <1>1 DEF Inv, FlashInv, DevInv
<1>2. ASSUME Whole
      PROVE  flash[First].source \in {Old.source} \cup Firmwares
    <2>1. CASE \A s \in AppArea \ {SystemSector} : flash[s] = Old
        <3>1. CASE Area = 1
            BY <3>1 DEF Inv, FlashInv, DevInv
        <3>2. CASE Area # 1
            <4>1. First # SystemSector
                BY <1>0, <3>2 DEF SystemSector
            <4> QED
                BY <1>0, <2>1, <4>1
        <3> QED
            BY <3>1, <3>2
    <2>2. CASE SourceSize(flash[First].source) # 0
        <3>1. flash[First].source \in
                [file : Roms \cup Bins \cup {NoFile, "old", "erased"}, item : Int]
            BY <1>0 DEF Pieces
        <3>2. flash[First].source.file \in Roms \cup Bins
            BY <2>2, SourceFile
        <3> QED
            BY <2>2, <3>1, <3>2 DEF Firmwares
    <2> QED
        BY <1>2, <2>1, <2>2 DEF Whole
<1>3. Erased.source \notin {Old.source} \cup Firmwares
    BY <1>0, UpdaterAssumption DEF Firmwares
<1>4. Empty => ~Whole
    BY <1>2, <1>3 DEF Empty
<1>5. Image = flash[First].source
    <2>1. CASE Whole
        BY <2>1 DEF Image
    <2>2. CASE ~Whole
        BY <1>1, <2>2 DEF Image, Empty
    <2> QED
        BY <2>1, <2>2
<1> QED
    BY <1>1, <1>2, <1>3, <1>5 DEF Empty, ImageIsFirst

\* The flash changes only while the device waits in its bootloader, and the
\* first sector only from something to nothing or from nothing to something.
LEMMA FlashChanges ==
    ASSUME Inv, [Next]_vars
    PROVE  \/ UNCHANGED flash
           \/ /\ UNCHANGED dev /\ dev.mode = "boot"
              /\ flash'[First] = flash[First] \/ Empty \/ Empty'
<1>0. AtWork /\ TypeInv /\ Shaped(plan) /\ FlashInv /\ First \in AppArea
      /\ flash \in [AppArea -> Pieces]
    BY AreaTypes DEF Inv, TypeInv, DevTypes
<1>1. CASE ~Worker
    BY <1>0, <1>1, NotWorker
<1>2. CASE EraseSector
    <2>1. KeepDev => UNCHANGED flash
        BY DEF KeepDev, devVars
    <2>2. ASSUME NEW s, Reaches("boot"), EraseFlash(s)
          PROVE  /\ UNCHANGED dev /\ dev.mode = "boot"
                 /\ flash'[First] = flash[First] \/ Empty'
        BY <1>0, <2>2 DEF EraseFlash, Reaches, Empty
    <2> QED
        BY <1>2, <2>1, <2>2 DEF EraseSector
<1>3. CASE WriteSector
    <2>1. KeepDev => UNCHANGED flash
        BY DEF KeepDev, devVars
    <2>2. Empty
        <3>1. worker.pc = "write"
            BY <1>3 DEF WriteSector, At
        <3>2. plan # NoPlan
            BY <1>0, <3>1, HasPlan DEF TypeInv, InPlan
        <3> QED
            BY <1>0, <3>1, <3>2 DEF FlashInv, EraseInv
    <2>3. ASSUME NEW s, Reaches("boot"), WriteFlash(s) PROVE UNCHANGED dev /\ dev.mode = "boot"
        BY <2>3 DEF Reaches, WriteFlash
    <2> QED
        BY <1>3, <2>1, <2>2, <2>3 DEF WriteSector
<1>4. CASE Setup \/ ForceFirmware \/ ReadSector
    BY <1>4 DEF Setup, ForceFirmware, ReadSector, KeepDev, devVars
<1>5. CASE Worker /\ ~Setup /\ ~EraseSector /\ ~ForceFirmware /\ ~ReadSector /\ ~WriteSector
    BY <1>5, OtherWork
<1> QED
    BY <1>1, <1>2, <1>3, <1>4, <1>5

\* A step of the updater is a step of the promise: the first erase breaks the
\* firmware, the last write completes it, the device starts and stops it.
LEMMA PromiseStep ==
    ASSUME Inv, Inv', ImageIsFirst, ImageIsFirst', [Next]_vars
    PROVE  [Promise!Next]_<<Image, dev.on /\ dev.mode = "app">>
<1> DEFINE app == dev.on /\ dev.mode = "app"
<1>1. /\ Image = flash[First].source
      /\ Empty <=> Image = Erased.source
      /\ ~Empty => Image \in {Old.source} \cup Firmwares
    BY DEF ImageIsFirst
<1>2. /\ Image' = flash'[First].source
      /\ Empty' <=> Image' = Erased.source
      /\ ~Empty' => Image' \in {Old.source} \cup Firmwares
    BY DEF ImageIsFirst
<1>3. app \in BOOLEAN /\ app' \in BOOLEAN
    BY DEF Inv, TypeInv, DevTypes, Device
<1>4. CASE UNCHANGED flash
    <2>1. UNCHANGED Image
        BY <1>1, <1>2, <1>4
    <2>2. CASE UNCHANGED app
        BY <2>1, <2>2
    <2>3. CASE app' = FALSE
        BY <2>1, <2>3 DEF Promise!Next, Promise!Stop
    <2>4. CASE app' = TRUE
        <3>1. ~Empty'
            BY <2>4 DEF Inv, FlashInv, DevInv
        <3> QED
            BY <1>2, <2>1, <2>4, <3>1 DEF Promise!Next, Promise!Start
    <2> QED
        BY <1>3, <2>2, <2>3, <2>4
<1>5. CASE UNCHANGED dev /\ dev.mode = "boot" /\ (flash'[First] = flash[First] \/ Empty \/ Empty')
    <2>1. ~app /\ UNCHANGED app
        BY <1>5
    <2>2. CASE UNCHANGED Image
        BY <2>1, <2>2
    <2>3. CASE Image' = Erased.source
        BY <2>1, <2>3 DEF Promise!Next, Promise!Break
    <2>4. CASE Empty /\ ~Empty'
        BY <1>1, <1>2, <2>1, <2>4 DEF Promise!Next, Promise!Complete
    <2> QED
        BY <1>1, <1>2, <1>5, <2>2, <2>3, <2>4
<1> QED
    BY <1>4, <1>5, FlashChanges


\* The device starts whole and in its application or waiting.
LEMMA PromiseInit == Init /\ Inv /\ ImageIsFirst => Promise!Init
<1> SUFFICES ASSUME Init, Inv, ImageIsFirst PROVE Promise!Init
    OBVIOUS
<1>1. dev \in Device /\ First \in AppArea /\ Old # Erased /\ flash = [s \in AppArea |-> Old]
    BY AreaTypes DEF Inv, TypeInv, DevTypes, Init, DevInit, Old, Erased, Piece
<1>2. ~Empty
    BY <1>1 DEF Empty
<1>3. (dev.on /\ dev.mode = "app") \in BOOLEAN
    BY <1>1 DEF Device
<1> QED
    BY <1>2, <1>3 DEF ImageIsFirst, Promise!Init

\* Whatever happens to the process, the wire and the power, the device does
\* what the abstract device may, if the selected item is of the selected file
\* and the index that is forced is the selected one.
THEOREM PromiseKept == Spec /\ []OwnItem /\ []IndexSelected => KeepsPromise
<1> QED
    BY Invariance, ImageOfFirst, PromiseInit, PromiseStep, PTL
    DEF Spec, KeepsPromise, Promise!Spec

\* So it does when no dialog offers both a rom file and a raw file, and an
\* index comes with its rom file and without a dialog.
THEOREM PromiseKeptUnmixed == ASSUME Unmixed, IndexAlone PROVE Spec => KeepsPromise
    BY SelectionOwn, IndexSame, PromiseKept, PTL

-----------------------------------------------------------------------------
(* The end, told.                                                           *)

\* Without a screen.  Heads is the number of sectors announced at the start,
\* Base and Rest the messages that come before and after a reader's update
\* and not a bootloader's.
Headless == alive /\ ~start.display
Announced == Opened(start, dir)
Heads == Sectors(Announced.size)
Base == IF start.boot THEN 0 ELSE NGet + 3
Rest == IF start.boot THEN 0 ELSE NSet

\* A message of the queue; so many messages that the bar has moved by them
\* or is at its right end.
InQueue(m) == \E k \in 1 .. Len(msgs) : msgs[k] = m
Heard(k) == ui.cur >= ui.max \/ ui.cur + Len(msgs) >= k

\* The thread is there, and what it plans is what was announced.
AsAnnounced ==
    /\ Shaped(plan)
    /\ Headless =>
         /\ thread /\ ui.max = UpdateSteps(start, Announced)
         /\ worker.pc \in Unforced => sel = Announced
         /\ worker.pc \in {"erase", "force", "read", "write"} /\ plan # NoPlan => Planned = Heads

\* The thread runs until it closes, the loop until the thread does not run
\* and all its messages are taken.
ClosesFirst ==
    Headless =>
        /\ ~running => worker.pc \in {"closing", "end"}
        /\ ~ui.on => ~running /\ msgs = << >>

\* A thread that closes has said why.
SaidWhy ==
    Headless /\ start.notify /\ worker.pc \in {"closing", "end"} =>
        InQueue("err") \/ "error" \in told \/ InQueue("done") \/ "done" \in told

\* The bar is at its end when the last message is taken.
DoneAtEnd ==
    Headless /\ start.notify =>
        /\ "done" \in told => "complete" \in told
        /\ \A k \in 1 .. Len(msgs) :
             msgs[k] = "done" => ui.cur >= ui.max \/ ui.cur + k - 1 >= ui.max

\* How many messages there were, at least, when the worker is at a step.
Counted ==
    Headless =>
        /\ worker.pc \in {"wait", "backup"} => start.boot \/ Heard(saved)
        /\ worker.pc = "runBoot" => start.boot \/ Heard(NGet)
        /\ worker.pc = "outLpu" => ~start.boot /\ Heard(NGet + 2)
        /\ worker.pc \in {"inBoot", "stopBoot", "setup"} => Heard(Base)
        /\ worker.pc = "erase" => Heard(Base + worker.pos)
        /\ worker.pc = "force" /\ plan # NoPlan => Heard(Base + Heads + 2)
        /\ worker.pc = "read" /\ plan # NoPlan => Heard(Base + Heads + 2 * worker.pos)
        /\ worker.pc = "write" => Heard(Base + Heads + 2 * worker.pos + 1)
        /\ worker.pc = "runApp" => Heard(Base + 3 * Heads + 2)
        /\ worker.pc = "outBoot" => Heard(Base + 3 * Heads + 4)
        /\ worker.pc = "inLpu" => Heard(Base + 3 * Heads + 5)
        /\ worker.pc = "recover" => Heard(Base + 3 * Heads + 6 + worker.pos)
        /\ worker.pc = "inf" => Heard(Base + Rest + 3 * Heads + 4)
        /\ worker.pc = "iso" => Heard(Base + Rest + 3 * Heads + 4 + IF start.inf THEN 1 ELSE 0)
        /\ worker.pc = "done" => Heard(ui.max)

EndInv == AsAnnounced /\ ClosesFirst /\ SaidWhy /\ DoneAtEnd /\ Counted

\* The announced sectors are those of what the process started with.
LEMMA AnnouncedTypes ==
    ASSUME TypeInv
    PROVE  /\ Announced \in Selection /\ Heads \in Nat /\ Base \in Nat /\ Rest \in Nat
           /\ NGet \in Nat /\ NSet \in Nat /\ ui.cur \in Nat /\ ui.max \in Nat /\ ui \in Screen
           /\ Len(msgs) \in Nat /\ start.inf \in BOOLEAN /\ start.iso \in BOOLEAN
           /\ start.boot \in BOOLEAN /\ Planned \in Nat /\ Len(plan.erase) \in Nat
           /\ saved \in Nat /\ worker \in [pc : WorkerSteps, pos : Nat \ {0}, polls : 1 .. Polls]
<1>1. start \in Starts /\ dir \in Dirs
    BY DEF TypeInv, SelTypes
<1>2. Announced \in Selection
    BY <1>1, OpenedTypes DEF Announced
<1>3. Heads \in Nat
    BY <1>2, SectorsOf DEF Heads, Selection
<1>4. start.inf \in BOOLEAN /\ start.iso \in BOOLEAN /\ start.boot \in BOOLEAN
    BY <1>1, StartsAssumption
<1>5. NGet \in Nat /\ NSet \in Nat /\ Base \in Nat /\ Rest \in Nat
    BY SizesAssumption DEF Base, Rest
<1>6. ui \in Screen /\ ui.cur \in Nat /\ ui.max \in Nat
    BY DEF TypeInv, UiTypes, Screen
<1>7. Len(msgs) \in Nat /\ saved \in Nat
    BY <1>5 DEF TypeInv, MsgTypes
<1>8. Planned \in Nat /\ Len(plan.erase) \in Nat
    BY DEF TypeInv, PlanTypes, Planned
<1>9. worker \in [pc : WorkerSteps, pos : Nat \ {0}, polls : 1 .. Polls]
    BY DEF TypeInv, WorkTypes
<1> QED
    BY <1>2, <1>3, <1>4, <1>5, <1>6, <1>7, <1>8, <1>9

\* So many messages come, none of them the last one of an update.
Grown(n) ==
    /\ Len(msgs') = Len(msgs) + n
    /\ \A k \in 1 .. Len(msgs) : msgs'[k] = msgs[k]
    /\ \A k \in Len(msgs) + 1 .. Len(msgs') : msgs'[k] # "done"

\* A step puts its messages behind those in the queue.
LEMMA Pushed ==
    ASSUME TypeInv, NEW ms \in Seq(Messages), Push(ms)
    PROVE  /\ Len(msgs') = Len(msgs) + Len(ms)
           /\ \A k \in 1 .. Len(msgs) : msgs'[k] = msgs[k]
           /\ \A k \in Len(msgs) + 1 .. Len(msgs') : msgs'[k] = ms[k - Len(msgs)]
<1>1. msgs \in Seq(Messages)
    BY DEF TypeInv, MsgTypes
<1> QED
    BY <1>1 DEF Push

\* What two messages behind each other are.
LEMMA Joined ==
    ASSUME NEW s \in Seq(Messages), NEW t \in Seq(Messages)
    PROVE  /\ s \o t \in Seq(Messages) /\ Len(s \o t) = Len(s) + Len(t)
           /\ \A k \in 1 .. Len(s) : (s \o t)[k] = s[k]
           /\ \A k \in 1 .. Len(t) : (s \o t)[Len(s) + k] = t[k]
    OBVIOUS

\* The texts of the steps, message by message.
LEMMA Words ==
    /\ Len(Ok) = 1 /\ Ok[1] = "ok" /\ Len(Err) = 1 /\ Err[1] = "err"
    /\ \A s \in {Ok, Err}, t \in {Ok, Err} :
         /\ s \o t \in Seq(Messages) /\ Len(s \o t) = 2
         /\ (s \o t)[1] = s[1] /\ (s \o t)[2] = t[1]
<1>1. /\ Ok \in Seq(Messages) /\ Err \in Seq(Messages)
      /\ Len(Ok) = 1 /\ Ok[1] = "ok" /\ Len(Err) = 1 /\ Err[1] = "err"
    BY Texts DEF Ok, Err
<1>2. ASSUME NEW s \in {Ok, Err}, NEW t \in {Ok, Err}
      PROVE  /\ s \o t \in Seq(Messages) /\ Len(s \o t) = 2
             /\ (s \o t)[1] = s[1] /\ (s \o t)[2] = t[1]
    <2>1. s \in Seq(Messages) /\ t \in Seq(Messages) /\ Len(s) = 1 /\ Len(t) = 1
        BY <1>1
    <2>2. /\ s \o t \in Seq(Messages) /\ Len(s \o t) = Len(s) + Len(t)
          /\ \A k \in 1 .. Len(s) : (s \o t)[k] = s[k]
          /\ \A k \in 1 .. Len(t) : (s \o t)[Len(s) + k] = t[k]
        BY <2>1, Joined
    <2> QED
        BY <2>1, <2>2
<1> QED
    BY <1>1, <1>2

\* What the steps that go on say.
LEMMA Pushes ==
    ASSUME TypeInv
    PROVE  /\ UNCHANGED msgs => Grown(0)
           /\ Push(Ok) \/ Push(Err) => Grown(1)
           /\ Push(Ok \o Ok) \/ Push(Err \o Ok) => Grown(2)
<1>0. Len(msgs) \in Nat
    BY AnnouncedTypes
<1>1. ASSUME UNCHANGED msgs PROVE Grown(0)
    BY <1>0, <1>1 DEF Grown
<1>2. ASSUME NEW ms \in Seq(Messages), Push(ms),
             \A k \in 1 .. Len(ms) : ms[k] # "done"
      PROVE  Grown(Len(ms))
    <2>1. /\ Len(msgs') = Len(msgs) + Len(ms)
          /\ \A k \in 1 .. Len(msgs) : msgs'[k] = msgs[k]
          /\ \A k \in Len(msgs) + 1 .. Len(msgs') : msgs'[k] = ms[k - Len(msgs)]
        BY <1>2, Pushed
    <2> QED
        BY <1>0, <1>2, <2>1 DEF Grown
<1>3. ASSUME NEW ms \in {Ok, Err}, Push(ms) PROVE Grown(1)
    <2>1. ms \in Seq(Messages) /\ Len(ms) = 1 /\ \A k \in 1 .. Len(ms) : ms[k] # "done"
        <3>1. CASE ms = Ok
            BY <3>1, Texts, Words
        <3>2. CASE ms = Err
            BY <3>2, Texts, Words
        <3> QED
            BY <3>1, <3>2
    <2> QED
        BY <1>2, <1>3, <2>1
<1>4. ASSUME NEW ms \in {Ok \o Ok, Err \o Ok}, Push(ms) PROVE Grown(2)
    <2>1. ms \in Seq(Messages) /\ Len(ms) = 2 /\ \A k \in 1 .. Len(ms) : ms[k] # "done"
        <3>1. CASE ms = Ok \o Ok
            BY <3>1, Words
        <3>2. CASE ms = Err \o Ok
            BY <3>2, Words
        <3> QED
            BY <3>1, <3>2
    <2> QED
        BY <1>2, <1>4, <2>1
<1> QED
    BY <1>1, <1>3, <1>4

\* A step that fails says so, and that it is the end.
Failed ==
    /\ \E n \in Nat : Grown(n)
    /\ InQueue("err")' /\ ~running' /\ worker'.pc = "closing"

\* The failures say nothing else.
LEMMA FailTells ==
    ASSUME TypeInv, NEW ms \in {Err, Ok \o Err, Err \o Err}, Fail(ms)
    PROVE  Failed
<1> DEFINE m == ms \o <<"repaint">>
           l == Len(msgs)
<1>0. l \in Nat
    BY AnnouncedTypes
<1>1. /\ ms \in Seq(Messages) /\ Len(ms) \in {1, 2}
      /\ \A k \in 1 .. Len(ms) : ms[k] # "done"
      /\ \E k \in 1 .. Len(ms) : ms[k] = "err"
    <2>1. CASE ms = Err
        BY <2>1, Texts, Words
    <2>2. CASE ms = Ok \o Err
        <3>1. ms \in Seq(Messages) /\ Len(ms) = 2 /\ ms[1] = "ok" /\ ms[2] = "err"
            BY <2>2, Words
        <3> QED
            BY <3>1
    <2>3. CASE ms = Err \o Err
        <3>1. ms \in Seq(Messages) /\ Len(ms) = 2 /\ ms[1] = "err" /\ ms[2] = "err"
            BY <2>3, Words
        <3> QED
            BY <3>1
    <2> QED
        BY <2>1, <2>2, <2>3
<1>2. /\ m \in Seq(Messages) /\ Len(m) \in Nat
      /\ \A k \in 1 .. Len(m) : m[k] # "done"
      /\ \E k \in 1 .. Len(m) : m[k] = "err"
    <2> DEFINE t == <<"repaint">>
    <2>1. t \in Seq(Messages) /\ Len(t) = 1 /\ t[1] = "repaint"
        BY DEF Messages
    <2> HIDE DEF t
    <2>2. /\ ms \o t \in Seq(Messages) /\ Len(ms \o t) = Len(ms) + Len(t)
          /\ \A k \in 1 .. Len(ms) : (ms \o t)[k] = ms[k]
          /\ \A k \in 1 .. Len(t) : (ms \o t)[Len(ms) + k] = t[k]
        BY <1>1, <2>1, Joined
    <2>3. m = ms \o t
        BY DEF t
    <2> HIDE DEF m
    <2>4. \A k \in 1 .. Len(m) : k \in 1 .. Len(ms) \/ k = Len(ms) + 1
        BY <1>1, <2>1, <2>2, <2>3
    <2> QED
        BY <1>1, <2>1, <2>2, <2>3, <2>4
<1>3. Push(m) /\ ~running' /\ worker'.pc = "closing"
    BY DEF Fail, Goto
<1> HIDE DEF m, l
<1>4. /\ Len(msgs') = l + Len(m)
      /\ \A k \in 1 .. l : msgs'[k] = msgs[k]
      /\ \A k \in l + 1 .. Len(msgs') : msgs'[k] = m[k - l]
    BY <1>2, <1>3, Pushed DEF l
<1>5. Grown(Len(m))
    <2>1. \A k \in l + 1 .. Len(msgs') : k - l \in 1 .. Len(m)
        BY <1>0, <1>2, <1>4
    <2> QED
        BY <1>2, <1>4, <2>1 DEF Grown, l
<1>6. InQueue("err")'
    <2>1. PICK k \in 1 .. Len(m) : m[k] = "err"
        BY <1>2
    <2>2. l + k \in l + 1 .. Len(msgs') /\ l + k \in 1 .. Len(msgs') /\ (l + k) - l = k
        BY <1>0, <1>2, <1>4, <2>1
    <2> QED
        BY <1>4, <2>1, <2>2 DEF InQueue
<1> QED
    BY <1>2, <1>3, <1>5, <1>6 DEF Failed

\* What a step of the worker does to the queue: it goes on, fails, is done,
\* or closes without a word.
LEMMA WorkerTells ==
    ASSUME TypeInv, Worker
    PROVE  /\ UNCHANGED told
           /\ \/ /\ worker'.pc \notin {"closing", "end"} /\ UNCHANGED running
                 /\ Grown(0) \/ Grown(1) \/ Grown(2)
              \/ Failed
              \/ worker.pc = "done" /\ Push(<<"done">>) /\ ~running' /\ worker'.pc = "closing"
              \/ worker.pc = "closing" /\ UNCHANGED <<msgs, running>> /\ worker'.pc = "end"
              \/ worker.pc = "wait" /\ ~running /\ UNCHANGED <<msgs, running>>
<1> DEFINE Some == Grown(0) \/ Grown(1) \/ Grown(2)
           GoesOn == worker'.pc \notin {"closing", "end"} /\ UNCHANGED running /\ Some
<1>0. worker \in [pc : WorkerSteps, pos : Nat \ {0}, polls : 1 .. Polls]
    BY DEF TypeInv, WorkTypes
<1>1. ASSUME NEW pc, Goto(pc) PROVE worker'.pc = pc
    BY <1>1 DEF Goto
<1>2. PollAgain \/ Stay \/ UNCHANGED worker => worker'.pc = worker.pc
    BY <1>0 DEF PollAgain, Stay
<1>3. /\ UNCHANGED msgs \/ Push(Ok) \/ Push(Err) \/ Push(Ok \o Ok) \/ Push(Err \o Ok) => Some
      /\ PollAgain => Some
    BY Pushes DEF PollAgain
<1>4. KeepUi => UNCHANGED running
    BY DEF KeepUi
<1>5. UNCHANGED told
    <2>1. KeepSel => UNCHANGED told
        BY DEF KeepSel
    <2> QED
        BY <2>1
        DEF Worker, WorkerStart, Backup, RunBootloader, WaitPlugoutApp, WaitPluginBoot,
            StopBootUse, Setup, EraseSector, ForceFirmware, ReadSector, WriteSector, RunApp,
            WaitPlugoutBoot, WaitPluginApp, Recover, ChangeInterface, SetIsoMode, Change,
            Done, Closing
<1>6. Fail(Err) \/ Fail(Ok \o Err) \/ Fail(Err \o Err) => Failed
    BY FailTells
<1> HIDE DEF Some
<1>7. ASSUME WorkerStart
      PROVE  GoesOn \/ (worker.pc = "wait" /\ ~running /\ UNCHANGED <<msgs, running>>)
    BY <1>1, <1>3, <1>4, <1>7 DEF WorkerStart, At
<1>8. ASSUME Backup PROVE GoesOn \/ Failed
    BY <1>1, <1>2, <1>3, <1>4, <1>6, <1>8 DEF Backup, At
<1>9. ASSUME RunBootloader PROVE GoesOn \/ Failed
    BY <1>1, <1>3, <1>4, <1>6, <1>9 DEF RunBootloader
<1>10. ASSUME WaitPlugoutApp \/ WaitPluginBoot PROVE GoesOn
    BY <1>1, <1>2, <1>3, <1>4, <1>10 DEF WaitPlugoutApp, WaitPluginBoot, At
<1>11. ASSUME StopBootUse \/ ForceFirmware PROVE GoesOn
    BY <1>1, <1>3, <1>4, <1>11 DEF StopBootUse, ForceFirmware
<1>12. ASSUME Setup PROVE GoesOn \/ Failed
    BY <1>1, <1>3, <1>4, <1>6, <1>12 DEF Setup
<1>13. ASSUME EraseSector PROVE GoesOn \/ Failed
    BY <1>1, <1>2, <1>3, <1>4, <1>6, <1>13 DEF EraseSector, At
<1>14. ASSUME ReadSector PROVE GoesOn \/ Failed
    <2>1. worker' = [worker EXCEPT !.pc = "write"] => worker'.pc = "write"
        BY <1>0
    <2> QED
        BY <1>3, <1>4, <1>6, <1>14, <2>1 DEF ReadSector
<1>15. ASSUME WriteSector PROVE GoesOn \/ Failed
    <2>1. worker' = [worker EXCEPT !.pc = "read", !.pos = @ + 1] => worker'.pc = "read"
        BY <1>0
    <2> QED
        BY <1>1, <1>3, <1>4, <1>6, <1>15, <2>1 DEF WriteSector
<1>16. ASSUME RunApp PROVE GoesOn \/ Failed
    BY <1>1, <1>3, <1>4, <1>6, <1>16 DEF RunApp
<1>17. ASSUME WaitPlugoutBoot \/ WaitPluginApp PROVE GoesOn \/ Failed
    BY <1>1, <1>2, <1>3, <1>4, <1>6, <1>17 DEF WaitPlugoutBoot, WaitPluginApp, At
<1>18. ASSUME Recover PROVE GoesOn \/ Failed
    BY <1>1, <1>2, <1>3, <1>4, <1>6, <1>18 DEF Recover, At
<1>19. ASSUME ChangeInterface \/ SetIsoMode PROVE GoesOn \/ Failed
    <2>1. ASSUME NEW pc, NEW asked, NEW next, Change(pc, asked, next),
                 next \notin {"closing", "end"}
          PROVE  GoesOn \/ Failed
        BY <1>1, <1>3, <1>4, <1>6, <2>1 DEF Change
    <2> QED
        BY <1>19, <2>1 DEF ChangeInterface, SetIsoMode
<1>20. ASSUME Done
       PROVE  worker.pc = "done" /\ Push(<<"done">>) /\ ~running' /\ worker'.pc = "closing"
    BY <1>1, <1>20 DEF Done, At
<1>21. ASSUME Closing
       PROVE  worker.pc = "closing" /\ UNCHANGED <<msgs, running>> /\ worker'.pc = "end"
    BY <1>1, <1>4, <1>21 DEF Closing, At
<1> QED
    BY <1>5, <1>7, <1>8, <1>9, <1>10, <1>11, <1>12, <1>13, <1>14, <1>15, <1>16, <1>17, <1>18,
       <1>19, <1>20, <1>21 DEF Worker, Some

\* The plan is the one for what was announced.
LEMMA AnnouncedByWorker ==
    ASSUME TypeInv, AtWork, AsAnnounced, Worker
    PROVE  AsAnnounced'
<1>0. worker \in [pc : WorkerSteps, pos : Nat \ {0}, polls : 1 .. Polls]
    BY DEF TypeInv, WorkTypes
<1>1. /\ UNCHANGED <<start, dir, thread, alive>> /\ ui'.max = ui.max
      /\ Announced' = Announced /\ Heads' = Heads
    <2>1. UNCHANGED <<start, dir, thread, alive>> /\ ui'.max = ui.max
        BY WorkerKeeps DEF TypeInv, UiTypes, Screen
    <2> QED
        BY <2>1 DEF Announced, Heads
<1>2. /\ Shaped(plan)
      /\ Headless => thread /\ ui.max = UpdateSteps(start, Announced)
    BY DEF AsAnnounced
<1>3. Shaped(plan') /\ (Headless' => thread' /\ (ui.max = UpdateSteps(start, Announced))')
    <2>1. Shaped(plan')
        <3>1. UNCHANGED plan \/ plan' = NoPlan \/ plan' = PlanFor(sel.size)
            BY OtherWork DEF Setup, EraseSector, ForceFirmware, ReadSector, WriteSector, KeepPlan
        <3>2. sel.size \in Nat
            BY DEF TypeInv, SelTypes, Selection
        <3> QED
            BY <1>2, <3>1, <3>2, PlanForShape
    <2>2. UpdateSteps(start, Announced)' = UpdateSteps(start, Announced)
        BY <1>1 DEF UpdateSteps
    <2> QED
        BY <1>1, <1>2, <2>1, <2>2 DEF Headless
<1>4. ASSUME Headless, worker'.pc \in Unforced PROVE sel' = Announced'
    BY <1>1, <1>4, BeforeForce DEF AsAnnounced
<1>5. ASSUME Headless, worker'.pc \in {"erase", "force", "read", "write"}, plan' # NoPlan
      PROVE  Planned' = Heads'
    <2>1. Setup \/ EraseSector \/ ForceFirmware \/ ReadSector \/ WriteSector
        BY <1>5, ToFlashing DEF Flashing
    <2>2. CASE Setup
        <3>1. plan' = PlanFor(sel.size) /\ sel = Announced
            BY <1>5, <2>2 DEF Setup, At, Unforced, AsAnnounced
        <3>2. Announced.size \in Nat
            BY AnnouncedTypes DEF Selection
        <3> QED
            BY <1>1, <1>5, <3>1, <3>2, PlanForShape DEF Planned, Heads
    <2>3. CASE EraseSector \/ ForceFirmware \/ ReadSector \/ WriteSector
        <3>1. UNCHANGED plan /\ worker.pc \in {"erase", "force", "read", "write"}
            BY <2>3 DEF EraseSector, ForceFirmware, ReadSector, WriteSector, KeepPlan, At
        <3>2. Planned' = Planned
            BY <3>1 DEF Planned
        <3> QED
            BY <1>1, <1>5, <3>1, <3>2 DEF AsAnnounced
    <2> QED
        BY <2>1, <2>2, <2>3
<1> QED
    BY <1>1, <1>3, <1>4, <1>5 DEF AsAnnounced, Headless

\* Every step of the worker says as much as it counts for.
LEMMA CountedByWorker ==
    ASSUME TypeInv, AtWork, AsAnnounced, Counted, Headless, Worker,
           worker'.pc \notin {"closing", "end"}
    PROVE  Counted'
<1> DEFINE Sum == ui.cur + Len(msgs)
           Full == ui.cur >= ui.max
           pc == worker.pc
           p == worker.pos
<1>1. /\ Heads \in Nat /\ Base \in Nat /\ Rest \in Nat /\ NGet \in Nat /\ NSet \in Nat
      /\ saved \in Nat /\ Planned \in Nat /\ Len(plan.erase) \in Nat /\ Sum \in Nat
      /\ ui.cur \in Nat /\ ui.max \in Nat /\ Len(msgs) \in Nat /\ ui \in Screen
      /\ worker \in [pc : WorkerSteps, pos : Nat \ {0}, polls : 1 .. Polls]
      /\ start.inf \in BOOLEAN /\ start.iso \in BOOLEAN /\ start.boot \in BOOLEAN
    BY AnnouncedTypes
<1>2. /\ UNCHANGED <<start, dir>> /\ ui'.max = ui.max /\ ui'.cur = ui.cur /\ (Full' <=> Full)
      /\ Heads' = Heads /\ Base' = Base /\ Rest' = Rest
    <2>1. UNCHANGED <<start, dir>> /\ ui'.max = ui.max /\ ui'.cur = ui.cur
        BY <1>1, WorkerKeeps DEF Screen
    <2> QED
        BY <2>1 DEF Heads, Base, Rest, Announced
<1>3. /\ Grown(0) => Sum' = Sum
      /\ Grown(1) => Sum' = Sum + 1
      /\ Grown(2) => Sum' = Sum + 2
    <2>1. \A n : Grown(n) => Len(msgs') = Len(msgs) + n
        BY DEF Grown
    <2>2. Sum = ui.cur + Len(msgs) /\ Sum' = ui.cur + Len(msgs')
        BY <1>2
    <2> HIDE DEF Sum
    <2> QED
        BY <1>1, <2>1, <2>2
<1>4. /\ UNCHANGED msgs \/ PollAgain => Sum' = Sum
      /\ Push(Ok) \/ Push(Err) => Sum' = Sum + 1
      /\ Push(Ok \o Ok) \/ Push(Err \o Ok) => Sum' = Sum + 2
    BY <1>3, Pushes DEF PollAgain
<1>5. /\ \A x : Goto(x) => worker'.pc = x /\ worker'.pos = 1
      /\ PollAgain \/ UNCHANGED worker => worker'.pc = pc /\ worker'.pos = p
      /\ Stay => worker'.pc = pc /\ worker'.pos = p + 1
      /\ \A ms : ~Fail(ms)
    <2>1. \A x : Goto(x) => worker'.pc = x /\ worker'.pos = 1
        BY DEF Goto
    <2>2. \A ms : Fail(ms) => Goto("closing")
        BY DEF Fail
    <2>3. PollAgain \/ UNCHANGED worker => worker'.pc = pc /\ worker'.pos = p
        BY <1>1 DEF PollAgain
    <2>4. Stay => worker'.pc = pc /\ worker'.pos = p + 1
        BY <1>1 DEF Stay
    <2> QED
        BY <2>1, <2>2, <2>3, <2>4
<1>6. /\ pc \in {"wait", "backup"} => start.boot \/ Full \/ Sum >= saved
      /\ pc = "runBoot" => start.boot \/ Full \/ Sum >= NGet
      /\ pc = "outLpu" => ~start.boot /\ (Full \/ Sum >= NGet + 2)
      /\ pc \in {"inBoot", "stopBoot", "setup"} => Full \/ Sum >= Base
      /\ pc = "erase" => Full \/ Sum >= Base + p
      /\ pc = "force" /\ plan # NoPlan => Full \/ Sum >= Base + Heads + 2
      /\ pc = "read" /\ plan # NoPlan => Full \/ Sum >= Base + Heads + 2 * p
      /\ pc = "write" => Full \/ Sum >= Base + Heads + 2 * p + 1
      /\ pc = "runApp" => Full \/ Sum >= Base + 3 * Heads + 2
      /\ pc = "outBoot" => Full \/ Sum >= Base + 3 * Heads + 4
      /\ pc = "inLpu" => Full \/ Sum >= Base + 3 * Heads + 5
      /\ pc = "recover" => Full \/ Sum >= Base + 3 * Heads + 6 + p
      /\ pc = "inf" => Full \/ Sum >= Base + Rest + 3 * Heads + 4
      /\ pc = "iso" => Full \/ Sum >= Base + Rest + 3 * Heads + 4 + IF start.inf THEN 1 ELSE 0
      /\ pc = "done" => Full \/ Sum >= ui.max
    BY DEF Counted, Heard
<1> DEFINE q == worker'.pc
           r == worker'.pos
           Next1 == /\ q \in {"wait", "backup"} => start.boot \/ Full \/ Sum' >= saved'
                    /\ q = "runBoot" => start.boot \/ Full \/ Sum' >= NGet
                    /\ q = "outLpu" => ~start.boot /\ (Full \/ Sum' >= NGet + 2)
                    /\ q \in {"inBoot", "stopBoot", "setup"} => Full \/ Sum' >= Base
           Next2 == /\ q = "erase" => Full \/ Sum' >= Base + r
                    /\ q = "force" /\ plan' # NoPlan => Full \/ Sum' >= Base + Heads + 2
                    /\ q = "read" /\ plan' # NoPlan => Full \/ Sum' >= Base + Heads + 2 * r
                    /\ q = "write" => Full \/ Sum' >= Base + Heads + 2 * r + 1
                    /\ q = "runApp" => Full \/ Sum' >= Base + 3 * Heads + 2
           Next3 == /\ q = "outBoot" => Full \/ Sum' >= Base + 3 * Heads + 4
                    /\ q = "inLpu" => Full \/ Sum' >= Base + 3 * Heads + 5
                    /\ q = "recover" => Full \/ Sum' >= Base + 3 * Heads + 6 + r
                    /\ q = "inf" => Full \/ Sum' >= Base + Rest + 3 * Heads + 4
                    /\ q = "iso" => Full \/ Sum' >= Base + Rest + 3 * Heads + 4 + IF start.inf THEN 1 ELSE 0
                    /\ q = "done" => Full \/ Sum' >= ui.max
<1>7. SUFFICES Next1 /\ Next2 /\ Next3
    BY <1>2 DEF Counted, Heard
<1>8. CASE WorkerStart
    <2>1. q = "backup" /\ pc = "wait" /\ saved' = saved /\ Sum' = Sum
        BY <1>4, <1>5, <1>8 DEF WorkerStart, At
    <2> HIDE DEF Sum, Full, pc, q, p, r
    <2> QED
        BY <1>6, <2>1
<1>9. CASE Backup
    <2>1. /\ pc = "backup"
          /\ \/ q = "runBoot" /\ (start.boot \/ saved = NGet) /\ Sum' = Sum
             \/ q = "backup" /\ saved' = saved + 1 /\ Sum' = Sum + 1
        BY <1>4, <1>5, <1>9 DEF Backup, At
    <2> HIDE DEF Sum, Full, pc, q, p, r
    <2> QED
        BY <1>1, <1>6, <2>1
<1>10. CASE RunBootloader
    <2>1. /\ pc = "runBoot"
          /\ \/ q = "stopBoot" /\ start.boot /\ Sum' = Sum
             \/ q = "outLpu" /\ ~start.boot /\ Sum' = Sum + 2
        BY <1>4, <1>5, <1>10 DEF RunBootloader, At
    <2>2. start.boot => Base = 0
        BY DEF Base
    <2> HIDE DEF Sum, Full, pc, q, p, r
    <2> QED
        BY <1>1, <1>6, <2>1, <2>2
<1>11. CASE WaitPlugoutApp
    <2>1. /\ pc = "outLpu"
          /\ \/ q \in {"stopBoot", "inBoot"} /\ Sum' \in {Sum + 1, Sum + 2}
             \/ q = "outLpu" /\ Sum' = Sum
        BY <1>1, <1>4, <1>5, <1>11 DEF WaitPlugoutApp, At
    <2>2. ~start.boot => Base = NGet + 3
        BY DEF Base
    <2> HIDE DEF Sum, Full, pc, q, p, r
    <2> QED
        BY <1>1, <1>6, <2>1, <2>2
<1>12. CASE WaitPluginBoot \/ StopBootUse
    <2>1. pc \in {"inBoot", "stopBoot"} /\ q \in {"inBoot", "stopBoot", "setup"} /\ Sum' \in {Sum, Sum + 1}
        BY <1>1, <1>4, <1>5, <1>12 DEF WaitPluginBoot, StopBootUse, At
    <2> HIDE DEF Sum, Full, pc, q, p, r
    <2> QED
        BY <1>1, <1>6, <2>1
<1>13. CASE Setup
    <2>1. pc = "setup" /\ q = "erase" /\ r = 1 /\ Sum' = Sum + 1
        BY <1>4, <1>5, <1>13 DEF Setup, At
    <2> HIDE DEF Sum, Full, pc, q, p, r
    <2> QED
        BY <1>1, <1>6, <2>1
<1>14. CASE EraseSector
    <2>1. /\ pc = "erase" /\ UNCHANGED plan
          /\ \/ q = "force" /\ p > Len(plan.erase) /\ Sum' = Sum
             \/ q = "erase" /\ r = p + 1 /\ Sum' = Sum + 1
        BY <1>4, <1>5, <1>14 DEF EraseSector, KeepPlan, At
    <2>2. plan # NoPlan => Len(plan.erase) = Heads + 1
        <3>1. pc = "erase" /\ plan # NoPlan => Planned = Heads
            BY DEF AsAnnounced
        <3> QED
            BY <2>1, <3>1 DEF AsAnnounced, Shaped, Planned
    <2> HIDE DEF Sum, Full, pc, q, p, r
    <2>3. p \in Nat
        BY <1>1 DEF p
    <2> QED
        BY <1>1, <1>6, <2>1, <2>2, <2>3
<1>15. CASE ForceFirmware
    <2>1. pc = "force" /\ q = "read" /\ r = 1 /\ UNCHANGED plan /\ Sum' = Sum
        BY <1>4, <1>5, <1>15 DEF ForceFirmware, At
    <2> HIDE DEF Sum, Full, pc, q, p, r
    <2> QED
        BY <1>1, <1>6, <2>1
<1>16. CASE ReadSector
    <2>1. pc = "read" /\ q = "write" /\ r = p /\ Sum' = Sum + 1
        <3>1. worker' = [worker EXCEPT !.pc = "write"] => q = "write" /\ r = p
            BY <1>1
        <3> QED
            BY <1>4, <1>5, <1>16, <3>1 DEF ReadSector, At
    <2>2. plan # NoPlan
        <3>1. Readable
            BY <1>5, <1>16 DEF ReadSector
        <3> QED
            BY <3>1 DEF Readable, NoPlan
    <2> HIDE DEF Sum, Full, pc, q, p, r
    <2>3. p \in Nat
        BY <1>1 DEF p
    <2> QED
        BY <1>1, <1>6, <2>1, <2>2, <2>3
<1>17. CASE WriteSector
    <2>1. /\ pc = "write" /\ UNCHANGED plan /\ Sum' = Sum + 1
          /\ \/ q = "runApp" /\ p = Planned
             \/ q = "read" /\ r = p + 1
        <3>1. worker' = [worker EXCEPT !.pc = "read", !.pos = @ + 1] => q = "read" /\ r = p + 1
            BY <1>1
        <3> QED
            BY <1>4, <1>5, <1>17, <3>1 DEF WriteSector, KeepPlan, At, Planned
    <2>2. plan # NoPlan /\ Planned = Heads
        <3>1. plan # NoPlan
            BY <2>1 DEF TypeInv, InPlan, NoPlan
        <3> QED
            BY <2>1, <3>1 DEF AsAnnounced
    <2> HIDE DEF Sum, Full, pc, q, p, r
    <2>3. p \in Nat
        BY <1>1 DEF p
    <2> QED
        BY <1>1, <1>6, <2>1, <2>2, <2>3
<1>18. CASE RunApp
    <2>1. pc = "runApp" /\ q = "outBoot" /\ Sum' = Sum + 2
        BY <1>4, <1>5, <1>18 DEF RunApp, At
    <2> HIDE DEF Sum, Full, pc, q, p, r
    <2> QED
        BY <1>1, <1>6, <2>1
<1>19. CASE WaitPlugoutBoot
    <2>1. /\ pc = "outBoot"
          /\ \/ q = "inLpu" /\ Sum' = Sum + 1
             \/ q = "outBoot" /\ Sum' = Sum
        BY <1>4, <1>5, <1>19 DEF WaitPlugoutBoot, At
    <2> HIDE DEF Sum, Full, pc, q, p, r
    <2> QED
        BY <1>1, <1>6, <2>1
<1>20. CASE WaitPluginApp
    <2>1. /\ pc = "inLpu"
          /\ \/ q = "recover" /\ r = 1 /\ Sum' = Sum + 2
             \/ q = "inLpu" /\ Sum' = Sum
        BY <1>4, <1>5, <1>20 DEF WaitPluginApp, At
    <2> HIDE DEF Sum, Full, pc, q, p, r
    <2> QED
        BY <1>1, <1>6, <2>1
<1>21. CASE Recover
    <2>1. /\ pc = "recover"
          /\ \/ q = "inf" /\ start.boot /\ Sum' = Sum + 1
             \/ q = "recover" /\ r = p + 1 /\ Sum' = Sum + 1
             \/ q = "inf" /\ ~start.boot /\ ~(p < NSet) /\ Sum' = Sum + 2
        BY <1>4, <1>5, <1>21 DEF Recover, At
    <2>2. Rest = IF start.boot THEN 0 ELSE NSet
        BY DEF Rest
    <2> HIDE DEF Sum, Full, pc, q, p, r
    <2>3. p \in Nat
        BY <1>1 DEF p
    <2> QED
        BY <1>1, <1>6, <2>1, <2>2, <2>3
<1>22. CASE ChangeInterface
    <2>1. pc = "inf" /\ q = "iso" /\ (start.inf => Sum' = Sum + 2) /\ (~start.inf => Sum' = Sum)
        BY <1>4, <1>5, <1>22 DEF ChangeInterface, Change, At
    <2> HIDE DEF Sum, Full, pc, q, p, r
    <2> QED
        BY <1>1, <1>6, <2>1
<1>23. CASE SetIsoMode
    <2>1. pc = "iso" /\ q = "done" /\ (start.iso => Sum' = Sum + 2) /\ (~start.iso => Sum' = Sum)
        BY <1>4, <1>5, <1>23 DEF SetIsoMode, Change, At
    <2>2. ui.max = Base + Rest + 3 * Heads + 4
                     + (IF start.inf THEN 1 ELSE 0) + (IF start.iso THEN 1 ELSE 0)
        <3>1. ui.max = UpdateSteps(start, Announced)
            BY DEF AsAnnounced
        <3>2. UpdateSteps(start, Announced) =
                (IF start.boot THEN 0 ELSE NGet + NSet + 3) + 3 * Heads + 1 + 3
                  + (IF start.inf THEN 1 ELSE 0) + (IF start.iso THEN 1 ELSE 0)
            BY DEF UpdateSteps, Heads
        <3>3. Base + Rest = IF start.boot THEN 0 ELSE NGet + NSet + 3
            BY <1>1 DEF Base, Rest
        <3> QED
            BY <1>1, <3>1, <3>2, <3>3
    <2> HIDE DEF Sum, Full, pc, q, p, r
    <2> QED
        BY <1>1, <1>6, <2>1, <2>2
<1>24. CASE Done \/ Closing
    BY <1>5, <1>24 DEF Done, Closing
<1> QED
    BY <1>8, <1>9, <1>10, <1>11, <1>12, <1>13, <1>14, <1>15, <1>16, <1>17, <1>18, <1>19, <1>20,
       <1>21, <1>22, <1>23, <1>24 DEF Worker

\* The worker closes only after it has said why, and the bar is at its end
\* when it says that all is done.
LEMMA EndByWorker ==
    ASSUME TypeInv, AtWork, EndInv, Worker
    PROVE  EndInv'
<1>0. /\ Len(msgs) \in Nat /\ ui \in Screen /\ ui.cur \in Nat /\ ui.max \in Nat
      /\ UNCHANGED <<start, alive, told>> /\ ui'.cur = ui.cur /\ ui'.max = ui.max /\ ui'.on = ui.on
      /\ (Headless' <=> Headless)
    BY AnnouncedTypes, WorkerKeeps, WorkerTells DEF Headless, Screen
<1>1. AsAnnounced'
    BY AnnouncedByWorker DEF EndInv
<1>2. Counted'
    <2>1. CASE Headless /\ worker'.pc \notin {"closing", "end"}
        BY <2>1, CountedByWorker DEF EndInv
    <2>2. CASE worker'.pc \in {"closing", "end"}
        BY <2>2 DEF Counted
    <2>3. CASE ~Headless
        BY <1>0, <2>3 DEF Counted
    <2> QED
        BY <2>1, <2>2, <2>3
<1>3. ASSUME NEW n \in Nat, Grown(n)
      PROVE  /\ \A m : InQueue(m) => InQueue(m)'
             /\ DoneAtEnd'
    <2>1. \A k \in 1 .. Len(msgs) : k \in 1 .. Len(msgs') /\ msgs'[k] = msgs[k]
        BY <1>0, <1>3 DEF Grown
    <2>2. \A k \in 1 .. Len(msgs') : k \in 1 .. Len(msgs) \/ msgs'[k] # "done"
        BY <1>0, <1>3 DEF Grown
    <2>3. \A m : InQueue(m) => InQueue(m)'
        BY <2>1 DEF InQueue
    <2>4. DoneAtEnd'
        BY <1>0, <2>1, <2>2 DEF DoneAtEnd, EndInv
    <2> QED
        BY <2>3, <2>4
<1>4. CASE /\ worker'.pc \notin {"closing", "end"} /\ UNCHANGED running
           /\ Grown(0) \/ Grown(1) \/ Grown(2)
    <2>1. DoneAtEnd'
        BY <1>3, <1>4
    <2>2. SaidWhy'
        BY <1>4 DEF SaidWhy
    <2>3. ClosesFirst'
        <3>1. ASSUME Headless PROVE running /\ ui.on
            <4>1. worker.pc = "closing" => FALSE
                <5>1. worker.pc = "closing" => Closing
                    BY DEF Worker, WorkerStart, Backup, RunBootloader, WaitPlugoutApp,
                           WaitPluginBoot, StopBootUse, Setup, EraseSector, ForceFirmware,
                           ReadSector, WriteSector, RunApp, WaitPlugoutBoot, WaitPluginApp,
                           Recover, ChangeInterface, SetIsoMode, Change, Done, At
                <5>2. ~Closing
                    BY <1>4 DEF Closing, Goto
                <5> QED
                    BY <5>1, <5>2
            <4>2. worker.pc # "end"
                BY DEF Worker, WorkerStart, Backup, RunBootloader, WaitPlugoutApp,
                       WaitPluginBoot, StopBootUse, Setup, EraseSector, ForceFirmware,
                       ReadSector, WriteSector, RunApp, WaitPlugoutBoot, WaitPluginApp,
                       Recover, ChangeInterface, SetIsoMode, Change, Done, Closing, At
            <4> QED
                BY <3>1, <4>1, <4>2 DEF EndInv, ClosesFirst
        <3> QED
            BY <1>0, <1>4, <3>1 DEF ClosesFirst
    <2> QED
        BY <1>1, <1>2, <2>1, <2>2, <2>3 DEF EndInv
<1>5. ASSUME worker'.pc = "closing", ~running', worker.pc \notin {"closing", "end"}
      PROVE  ClosesFirst'
    BY <1>0, <1>5 DEF EndInv, ClosesFirst
<1>6. ASSUME worker.pc = "closing" PROVE Closing
    BY <1>6
    DEF Worker, WorkerStart, Backup, RunBootloader, WaitPlugoutApp, WaitPluginBoot, StopBootUse,
        Setup, EraseSector, ForceFirmware, ReadSector, WriteSector, RunApp, WaitPlugoutBoot,
        WaitPluginApp, Recover, ChangeInterface, SetIsoMode, Change, Done, At
<1>7. worker.pc # "end"
    BY DEF Worker, WorkerStart, Backup, RunBootloader, WaitPlugoutApp, WaitPluginBoot,
           StopBootUse, Setup, EraseSector, ForceFirmware, ReadSector, WriteSector, RunApp,
           WaitPlugoutBoot, WaitPluginApp, Recover, ChangeInterface, SetIsoMode, Change, Done,
           Closing, At
<1>8. CASE Failed
    <2>1. worker.pc # "closing"
        <3>1. Closing => worker'.pc = "end"
            BY DEF Closing, Goto
        <3> QED
            BY <1>6, <1>8, <3>1 DEF Failed
    <2>2. DoneAtEnd'
        BY <1>3, <1>8 DEF Failed
    <2>3. SaidWhy'
        BY <1>8 DEF Failed, SaidWhy
    <2>4. ClosesFirst'
        BY <1>5, <1>7, <1>8, <2>1 DEF Failed
    <2> QED
        BY <1>1, <1>2, <2>2, <2>3, <2>4 DEF EndInv
<1>9. CASE worker.pc = "done" /\ Push(<<"done">>) /\ ~running' /\ worker'.pc = "closing"
    <2> DEFINE ms == <<"done">>
    <2>1. ms \in Seq(Messages) /\ Len(ms) = 1 /\ ms[1] = "done"
        BY DEF Messages
    <2>2. Push(ms)
        BY <1>9
    <2> HIDE DEF ms
    <2>3. /\ Len(msgs') = Len(msgs) + 1
          /\ \A k \in 1 .. Len(msgs) : msgs'[k] = msgs[k]
          /\ \A k \in Len(msgs) + 1 .. Len(msgs') : msgs'[k] = ms[k - Len(msgs)]
        BY <2>1, <2>2, Pushed
    <2>4. msgs'[Len(msgs) + 1] = "done" /\ Len(msgs) + 1 \in 1 .. Len(msgs')
        BY <1>0, <2>1, <2>3
    <2>5. SaidWhy'
        BY <2>4 DEF SaidWhy, InQueue
    <2>6. ClosesFirst'
        BY <1>5, <1>9
    <2>7. DoneAtEnd'
        <3>1. Headless => ui.cur >= ui.max \/ ui.cur + Len(msgs) >= ui.max
            BY <1>9 DEF EndInv, Counted, Heard
        <3>2. \A k \in 1 .. Len(msgs') : k \in 1 .. Len(msgs) \/ k - 1 = Len(msgs)
            BY <1>0, <2>3
        <3>3. ASSUME Headless, start.notify, NEW k \in 1 .. Len(msgs'), msgs'[k] = "done"
              PROVE  ui.cur >= ui.max \/ ui.cur + k - 1 >= ui.max
            <4>1. CASE k \in 1 .. Len(msgs)
                BY <2>3, <3>3, <4>1 DEF EndInv, DoneAtEnd
            <4>2. CASE k - 1 = Len(msgs)
                BY <1>0, <3>1, <3>3, <4>2
            <4> QED
                BY <3>2, <4>1, <4>2
        <3> QED
            BY <1>0, <3>3 DEF EndInv, DoneAtEnd
    <2> QED
        BY <1>1, <1>2, <2>5, <2>6, <2>7 DEF EndInv
<1>10. CASE worker.pc = "closing" /\ UNCHANGED <<msgs, running>> /\ worker'.pc = "end"
    BY <1>0, <1>1, <1>2, <1>10 DEF EndInv, ClosesFirst, SaidWhy, DoneAtEnd, InQueue
<1>11. CASE worker.pc = "wait" /\ ~running /\ UNCHANGED <<msgs, running>>
    <2>1. ~Headless
        BY <1>11 DEF EndInv, ClosesFirst
    <2> QED
        BY <1>0, <1>1, <1>2, <2>1 DEF EndInv, ClosesFirst, SaidWhy, DoneAtEnd
<1> QED
    BY <1>4, <1>8, <1>9, <1>10, <1>11, WorkerTells

\* The loop takes a message and moves the bar by it; the last one finds the
\* bar at its end.
LEMMA EndByLoop ==
    ASSUME TypeInv, EndInv, NoUiLoop \/ UiLoop
    PROVE  EndInv'
<1>0. /\ UNCHANGED <<start, dir, alive, running, thread, worker, plan, sel, saved>>
      /\ ui'.max = ui.max /\ (Headless' <=> Headless)
      /\ Heads' = Heads /\ Base' = Base /\ Rest' = Rest /\ Announced' = Announced
    <2>1. /\ UNCHANGED <<start, dir, alive, running, thread, worker, plan, sel, saved>>
          /\ ui'.max = ui.max
        BY LoopKeeps
    <2> QED
        BY <2>1 DEF Headless, Heads, Base, Rest, Announced
<1>1. /\ Len(msgs) \in Nat /\ ui \in Screen /\ ui.cur \in Nat /\ ui.max \in Nat
      /\ msgs \in Seq(Messages) /\ Heads \in Nat /\ Base \in Nat /\ Rest \in Nat
      /\ NGet \in Nat /\ NSet \in Nat /\ saved \in Nat /\ worker.pos \in Nat
      /\ start.inf \in BOOLEAN
    BY AnnouncedTypes DEF TypeInv, MsgTypes
<1>2. AsAnnounced'
    <2>1. UpdateSteps(start, Announced)' = UpdateSteps(start, Announced)
        BY <1>0 DEF UpdateSteps
    <2> QED
        BY <1>0, <2>1 DEF EndInv, AsAnnounced, Planned
<1>3. CASE ~Headless
    BY <1>0, <1>2, <1>3 DEF EndInv, ClosesFirst, SaidWhy, DoneAtEnd, Counted
<1>4. CASE Headless /\ msgs = << >> /\ ~running /\ ui' = [ui EXCEPT !.on = FALSE] /\ UNCHANGED <<told, msgs>>
    <2>1. ui'.cur = ui.cur
        BY <1>1, <1>4 DEF Screen
    <2>2. \A k : Heard(k) => (ui'.cur >= ui'.max \/ ui'.cur + Len(msgs') >= k)
        BY <1>0, <1>4, <2>1 DEF Heard
    <2>3. Counted'
        BY <1>0, <2>2 DEF EndInv, Counted, Heard
    <2> QED
        BY <1>0, <1>2, <1>4, <2>1, <2>3 DEF EndInv, ClosesFirst, SaidWhy, DoneAtEnd, InQueue
<1>5. CASE /\ Headless /\ msgs # << >>
           /\ told' = Told(Head(msgs), ui.cur)
           /\ msgs' = Tail(msgs)
           /\ ui' = [ui EXCEPT !.cur = Progress(@)]
    <2> DEFINE l == Len(msgs)
    <2>1. /\ l >= 1 /\ Len(msgs') = l - 1 /\ Head(msgs) = msgs[1]
          /\ \A k \in 1 .. l - 1 : msgs'[k] = msgs[k + 1]
        BY <1>1, <1>5
    <2>2. /\ ui'.cur = Progress(ui.cur) /\ ui'.on = ui.on
        BY <1>1, <1>5 DEF Screen
    <2>3. /\ ui'.cur \in Nat /\ ui'.max = ui.max
          /\ ui'.cur >= ui.max \/ ui'.cur = ui.cur + 1
          /\ ui.cur >= ui.max => ui'.cur >= ui.max
        BY <1>0, <1>1, <2>2 DEF Progress
    <2>4. ui.on
        BY <1>5 DEF EndInv, ClosesFirst
    <2>5. ASSUME NEW k \in Int, Heard(k)
          PROVE  ui'.cur >= ui'.max \/ ui'.cur + Len(msgs') >= k
        BY <1>1, <2>1, <2>3, <2>5 DEF Heard
    <2>6. Counted'
        <3>1. saved \in Int /\ NGet \in Int /\ NGet + 2 \in Int /\ Base \in Int /\ Base + worker.pos \in Int
              /\ Base + Heads + 2 \in Int /\ Base + Heads + 2 * worker.pos \in Int
              /\ Base + Heads + 2 * worker.pos + 1 \in Int /\ Base + 3 * Heads + 2 \in Int
              /\ Base + 3 * Heads + 4 \in Int /\ Base + 3 * Heads + 5 \in Int
              /\ Base + 3 * Heads + 6 + worker.pos \in Int /\ Base + Rest + 3 * Heads + 4 \in Int
              /\ Base + Rest + 3 * Heads + 4 + (IF start.inf THEN 1 ELSE 0) \in Int /\ ui.max \in Int
            BY <1>1
        <3> DEFINE Said(k) == ui'.cur >= ui'.max \/ ui'.cur + Len(msgs') >= k
        <3>2. /\ Heard(saved) => Said(saved)
              /\ Heard(NGet) => Said(NGet)
              /\ Heard(NGet + 2) => Said(NGet + 2)
              /\ Heard(Base) => Said(Base)
              /\ Heard(Base + worker.pos) => Said(Base + worker.pos)
              /\ Heard(Base + Heads + 2) => Said(Base + Heads + 2)
              /\ Heard(Base + Heads + 2 * worker.pos) => Said(Base + Heads + 2 * worker.pos)
              /\ Heard(Base + Heads + 2 * worker.pos + 1) => Said(Base + Heads + 2 * worker.pos + 1)
              /\ Heard(Base + 3 * Heads + 2) => Said(Base + 3 * Heads + 2)
              /\ Heard(Base + 3 * Heads + 4) => Said(Base + 3 * Heads + 4)
              /\ Heard(Base + 3 * Heads + 5) => Said(Base + 3 * Heads + 5)
              /\ Heard(Base + 3 * Heads + 6 + worker.pos) => Said(Base + 3 * Heads + 6 + worker.pos)
              /\ Heard(Base + Rest + 3 * Heads + 4) => Said(Base + Rest + 3 * Heads + 4)
              /\ Heard(Base + Rest + 3 * Heads + 4 + (IF start.inf THEN 1 ELSE 0))
                   => Said(Base + Rest + 3 * Heads + 4 + (IF start.inf THEN 1 ELSE 0))
              /\ Heard(ui.max) => Said(ui.max)
            <4> HIDE DEF Said
            <4>1. \A k \in Int : Heard(k) => Said(k)
                BY <2>5 DEF Said
            <4> QED
                BY <3>1, <4>1
        <3> QED
            BY <1>0, <3>2 DEF EndInv, Counted, Heard
    <2>7. ClosesFirst'
        BY <1>0, <2>2, <2>4 DEF EndInv, ClosesFirst
    <2>8. ASSUME NEW m, InQueue(m) PROVE m = Head(msgs) \/ InQueue(m)'
        <3>1. PICK k \in 1 .. l : msgs[k] = m
            BY <2>8 DEF InQueue
        <3>2. CASE k = 1
            BY <2>1, <3>1, <3>2
        <3>3. CASE k # 1
            <4>1. k - 1 \in 1 .. l - 1 /\ (k - 1) + 1 = k
                BY <1>1, <3>1, <3>3
            <4> QED
                BY <2>1, <3>1, <4>1 DEF InQueue
        <3> QED
            BY <3>2, <3>3
    <2>9. /\ start.notify /\ Head(msgs) = "err" => "error" \in told'
          /\ start.notify /\ Head(msgs) = "done" => "done" \in told'
          /\ told \subseteq told'
          /\ "done" \in told' /\ "done" \notin told => Head(msgs) = "done"
          /\ start.notify /\ Head(msgs) = "done" /\ ui.cur >= ui.max => "complete" \in told'
        BY <1>5 DEF Told
    <2>10. SaidWhy'
        BY <1>0, <2>8, <2>9 DEF EndInv, SaidWhy
    <2>11. DoneAtEnd'
        <3>1. ASSUME Headless, start.notify, "done" \in told' PROVE "complete" \in told'
            <4>1. CASE "done" \in told
                BY <2>9, <3>1, <4>1 DEF EndInv, DoneAtEnd
            <4>2. CASE "done" \notin told
                <5>1. msgs[1] = "done" /\ Head(msgs) = "done" /\ 1 \in 1 .. l
                    BY <1>1, <2>1, <2>9, <3>1, <4>2
                <5>2. ui.cur >= ui.max \/ ui.cur + 1 - 1 >= ui.max
                    BY <3>1, <5>1 DEF EndInv, DoneAtEnd
                <5>3. ui.cur >= ui.max
                    BY <1>1, <5>2
                <5> QED
                    BY <2>9, <3>1, <5>1, <5>3
            <4> QED
                BY <4>1, <4>2
        <3>2. ASSUME Headless, start.notify, NEW k \in 1 .. Len(msgs'), msgs'[k] = "done"
              PROVE  ui'.cur >= ui.max \/ ui'.cur + k - 1 >= ui.max
            <4>1. k + 1 \in 1 .. l /\ msgs[k + 1] = "done" /\ k \in Nat
                BY <1>1, <2>1, <3>2
            <4>2. ui.cur >= ui.max \/ ui.cur + (k + 1) - 1 >= ui.max
                BY <3>2, <4>1 DEF EndInv, DoneAtEnd
            <4> QED
                BY <1>1, <2>3, <4>1, <4>2
        <3> QED
            BY <1>0, <3>1, <3>2 DEF DoneAtEnd
    <2> QED
        BY <1>2, <2>6, <2>7, <2>10, <2>11 DEF EndInv
<1>6. Headless => NoUiLoop
    BY DEF UiLoop, Headless
<1> QED
    BY <1>3, <1>4, <1>5, <1>6 DEF NoUiLoop

\* A process that has just begun.
Fresh ==
    /\ \E st \in Starts, d \in Dirs :
         /\ start = st /\ dir = d /\ sel = Opened(st, d) /\ ui = OpenedUi(st, d)
         /\ thread = ByItself(st) /\ running = ByItself(st)
    /\ worker = Waiting /\ plan = NoPlan /\ msgs = << >> /\ told = {} /\ saved = 0

\* It has nothing to say yet.
LEMMA EndFresh == Fresh => EndInv
<1> SUFFICES ASSUME Fresh PROVE EndInv
    OBVIOUS
<1>1. /\ sel = Announced /\ ui = OpenedUi(start, dir)
      /\ thread = ByItself(start) /\ running = ByItself(start)
    BY DEF Fresh, Announced
<1>2. Headless => thread /\ running
    BY <1>1 DEF Headless, ByItself
<1>3. ui.max = UpdateSteps(start, Announced) /\ ui.cur = 0 /\ ui.on = TRUE
    BY <1>1 DEF OpenedUi, Announced
<1>4. worker.pc = "wait" /\ Len(msgs) = 0 /\ plan = NoPlan /\ told = {} /\ saved = 0
    BY DEF Fresh, Waiting
<1>5. AsAnnounced
    BY <1>1, <1>2, <1>3, <1>4 DEF AsAnnounced, Shaped
<1>6. ClosesFirst /\ SaidWhy /\ DoneAtEnd
    BY <1>2, <1>3, <1>4 DEF ClosesFirst, SaidWhy, DoneAtEnd
<1>7. Counted
    BY <1>3, <1>4 DEF Counted, Heard
<1> QED
    BY <1>5, <1>6, <1>7 DEF EndInv

\* The whole step: a killed process says nothing, a button needs a screen.
LEMMA EndStep == TypeInv /\ AtWork /\ EndInv /\ [Next]_vars => EndInv'
<1> SUFFICES ASSUME TypeInv, AtWork, EndInv, [Next]_vars PROVE EndInv'
    OBVIOUS
<1>1. CASE Worker
    BY <1>1, EndByWorker
<1>2. CASE NoUiLoop \/ UiLoop
    BY <1>2, EndByLoop
<1>3. ASSUME ~alive', Shaped(plan') PROVE EndInv'
    BY <1>3 DEF EndInv, AsAnnounced, ClosesFirst, SaidWhy, DoneAtEnd, Counted, Headless
<1>4. ASSUME UNCHANGED <<start, dir, sel, ui, running, thread, worker, plan, saved, msgs, told, alive>>
      PROVE  EndInv'
    <2>1. /\ Headless' = Headless /\ Announced' = Announced /\ Heads' = Heads
          /\ Base' = Base /\ Rest' = Rest /\ Planned' = Planned
        BY <1>4 DEF Headless, Announced, Heads, Base, Rest, Planned
    <2>2. UpdateSteps(start, Announced)' = UpdateSteps(start, Announced)
        BY <1>4, <2>1 DEF UpdateSteps
    <2>3. AsAnnounced'
        BY <1>4, <2>1, <2>2 DEF EndInv, AsAnnounced
    <2>4. ClosesFirst' /\ SaidWhy' /\ DoneAtEnd'
        BY <1>4, <2>1 DEF EndInv, ClosesFirst, SaidWhy, DoneAtEnd, InQueue
    <2>5. Counted'
        BY <1>4, <2>1 DEF EndInv, Counted, Heard
    <2> QED
        BY <2>3, <2>4, <2>5 DEF EndInv
<1>5. CASE EndProcess \/ Kill
    <2>1. CASE Gone
        BY <1>3, <2>1, PlanForShape DEF Gone, Shaped
    <2>2. CASE /\ alive /\ ~ui.on /\ thread /\ running /\ running' = FALSE
               /\ UNCHANGED <<start, dir, sel, ui, thread, procVars>>
        <3>1. ~Headless /\ UNCHANGED <<start, alive, plan>>
            BY <2>2 DEF EndInv, ClosesFirst, procVars
        <3> QED
            BY <3>1 DEF EndInv, AsAnnounced, ClosesFirst, SaidWhy, DoneAtEnd, Counted, Headless
    <2> QED
        BY <1>5, <2>1, <2>2 DEF EndProcess, Kill
<1>6. CASE Restart
    <2>1. Fresh'
        BY <1>6 DEF Restart, Fresh
    <2>2. Fresh' => EndInv'
        BY EndFresh, PTL
    <2> QED
        BY <2>1, <2>2
<1>7. CASE Button
    <2>1. ~Headless /\ UNCHANGED <<start, alive, plan>>
        BY <1>7, DialogKeeps
        DEF Headless, Button, Dialog, PressUpdate, SelectFile, CancelFile, MoveMenu, OkFirmware,
            CancelFirmware, OkConfirm, CancelConfirm, Exit, Tab, procVars
    <2> QED
        BY <2>1 DEF EndInv, AsAnnounced, ClosesFirst, SaidWhy, DoneAtEnd, Counted, Headless
<1>8. CASE DevLeave \/ DevReturn \/ DevPowerLoss
    BY <1>4, <1>8, DeviceKeeps DEF selVars
<1>9. CASE UNCHANGED vars
    BY <1>4, <1>9 DEF vars, selVars, procVars
<1> QED
    BY <1>1, <1>2, <1>5, <1>6, <1>7, <1>8, <1>9 DEF Next

\* A program without a screen ends only when the server has heard of the end:
\* of an error, or of all the steps that were announced and of the last one.
THEOREM EndHeard == Spec => []EndTold
<1>1. Init => EndInv
    <2>1. Init => Fresh
        BY DEF Init, Begun, Fresh
    <2> QED
        BY <2>1, EndFresh
<1>2. EndInv => EndTold
    BY DEF EndInv, ClosesFirst, SaidWhy, DoneAtEnd, InQueue, Headless, EndTold
<1>3. Spec => [](TypeInv /\ AtWork)
    BY TypesInit, TypesStep, AtWorkInit, AtWorkStep, PTL DEF Spec
<1> QED
    BY <1>1, <1>2, <1>3, EndStep, PTL DEF Spec
=============================================================================
