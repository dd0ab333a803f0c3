----------------------------- MODULE FwSelect -----------------------------
(***************************************************************************)
(* The firmware updater before it touches the device: what the command     *)
(* line and the dialogs select.  sel is the selection cshare keeps, ui the *)
(* state table of cupdater with the menus and the progress bar.  A module  *)
(* that extends this one adds the worker thread and the device.            *)
(***************************************************************************)
EXTENDS RomFile

CONSTANTS
    Items,        \* rom file |-> its items
    RomSize,      \* rom file |-> its size
    MaxItems,     \* the entries of a header, used or not
    BinSize,      \* raw file |-> its size; a .rom that is not one is raw too
    Unlisted,     \* the raw files whose extension is neither .rom nor .bin
    Dirs,         \* the sets of files one directory may hold
    Starts,       \* the ways the program may be started
    SectorSize,   \* the unit of erasing and writing
    NGet, NSet,   \* transactions that read, and that write, all parameters
    Model, Version  \* of the device when its application runs

NoFile == "no file"

Roms == DOMAIN Items
Bins == DOMAIN BinSize

ASSUME FilesAssumption ==
    /\ NoFile \notin Roms \cup Bins
    /\ Roms \cap Bins = {}
    /\ Unlisted \subseteq Bins
    /\ \A d \in Dirs : d \subseteq Roms \cup Bins

ASSUME SizesAssumption ==
    /\ SectorSize \in Nat \ {0}
    /\ NGet \in Nat /\ NSet \in Nat
    /\ \A b \in Bins : BinSize[b] \in Nat
    /\ \A r \in Roms : /\ Items[r] \in Seq([model : Seq(Nat), version : Seq(Nat),
                                            cond : SUBSET {"eq", "neq", "gt", "lt"},
                                            size : Nat, at : Nat])
                       /\ Items[r] # << >>

\* The items lie in their file, and their entries in its header.
ASSUME RomsAssumption ==
    /\ MaxItems \in Nat
    /\ \A r \in Roms :
         /\ RomSize[r] \in Nat /\ Len(Items[r]) <= MaxItems
         /\ \A i \in DOMAIN Items[r] : Items[r][i].at + Items[r][i].size <= RomSize[r]

\* A start: by the coffee manager or by a user, with or without a screen,
\* the file and the firmware index of the command line, from the bootloader
\* or from the application, what to change afterwards, whether the server
\* wants the progress.
ASSUME StartsAssumption ==
    Starts \subseteq [byCf : BOOLEAN, display : BOOLEAN,
                      file : Roms \cup Bins \cup {NoFile},
                      index : Nat \cup {NoItem}, boot : BOOLEAN,
                      inf : BOOLEAN, iso : BOOLEAN, notify : BOOLEAN]

VARIABLES
    start,     \* the start of the running process
    dir,       \* the files of the directory shown in the file menu
    sel,       \* the selection of cshare
    ui,        \* state, menu, progress
    running,   \* m_b_is_running
    thread     \* the update thread has been created

selVars == <<start, dir, sel, ui, running, thread>>

States == {"s_ini", "s_selfile", "s_selfirm", "s_sellast", "s_ing", "s_com"}

Sectors(size) == (size + SectorSize - 1) \div SectorSize

-----------------------------------------------------------------------------
(* The selection.  header is the rom file whose header is loaded, item the *)
(* selected firmware of it, or NoItem for a raw file.                      *)

NoSelection == [path |-> NoFile, header |-> NoFile, upd |-> NoItem,
                item |-> NoItem, size |-> 0]

FwList(s) == IF s.header = NoFile THEN << >> ELSE Items[s.header]

SetPath(s, f) ==
    [s EXCEPT !.path = f, !.size = IF f \in Roms THEN 0 ELSE BinSize[f]]

\* A device that started in its bootloader has told neither model nor version.
UpdateFwList(s, boot) ==
    LET u == IF boot THEN NoItem
             ELSE GetUpdatableItemIndex(Items[s.path], Model, Version)
    IN  IF u = NoItem
          THEN [s EXCEPT !.header = s.path, !.upd = NoItem]
          ELSE [s EXCEPT !.header = s.path, !.upd = u, !.item = u,
                         !.size = Items[s.path][u + 1].size]

\* Mutant of SetFirmware: the size is left as it was.
SetFirmwareKeepSize(s, i) == [s EXCEPT !.item = i]

\* An index outside of the list is stored all the same.
SetFirmware(s, i) ==
    IF i \in 0 .. Len(FwList(s)) - 1
      THEN [s EXCEPT !.item = i, !.size = FwList(s)[i + 1].size]
      ELSE [s EXCEPT !.item = i]

\* What the command line selects, before any dialog.  With a file, its
\* firmware is looked up and then replaced by the given index; without one
\* and without a screen, the rom file of the directory is taken and the
\* given index is not looked at.
Opened(st, d) ==
    LET given == UpdateFwList(SetPath(NoSelection, st.file), st.boot)
        found == {r \in d : r \in Roms}
    IN  CASE st.file \in Roms ->
               IF st.index = NoItem THEN given ELSE SetFirmware(given, st.index)
          [] st.file \in Bins -> SetPath(NoSelection, st.file)
          [] st.file = NoFile /\ ~st.display /\ ~st.byCf /\ found # {} ->
               UpdateFwList(SetPath(NoSelection, CHOOSE r \in found : TRUE), st.boot)
          [] OTHER -> NoSelection

\* The constructor and initial_update succeed: otherwise the program ends.
StartOK(st, d) ==
    LET s == Opened(st, d) IN
    /\ st.byCf => st.file # NoFile
    /\ st.file # NoFile => st.file \in d
    /\ st.file \in Roms =>
         IF st.index = NoItem THEN s.upd # NoItem \/ st.display
                              ELSE st.index < Len(Items[st.file])
    /\ st.file = NoFile /\ ~st.display => d # {} /\ (s.path # NoFile => s.upd # NoItem)

\* Without a user, or by the coffee manager, the update starts by itself.
ByItself(st) == st.byCf \/ ~st.display

\* The number of steps announced for the selection: the bar's right end.
UpdateSteps(st, s) ==
    (IF st.boot THEN 0 ELSE NGet + NSet + 3) + 3 * Sectors(s.size) + 1 + 3
      + (IF st.inf THEN 1 ELSE 0) + (IF st.iso THEN 1 ELSE 0)

OpenedUi(st, d) ==
    [state |-> IF ByItself(st) THEN "s_ing" ELSE "s_ini",
     menu |-> Opened(st, d).item, max |-> UpdateSteps(st, Opened(st, d)),
     cur |-> 0, posted |-> FALSE, quit |-> FALSE, on |-> TRUE]

-----------------------------------------------------------------------------
(* The buttons.  Only the tab of the current state is shown; the loop that *)
(* draws it must still run.                                                *)

Tab(s) == start.display /\ ui.on /\ ~ui.quit /\ ui.state = s

\* A start without a file, or with one of an extension nobody knows, opens
\* the file menu, or does nothing.
PressUpdate ==
    /\ Tab("s_ini")
    /\ sel.path \notin Unlisted
    /\ ui' = [ui EXCEPT !.state = CASE sel.path = NoFile -> "s_selfile"
                                    [] sel.path \in Roms -> "s_selfirm"
                                    [] OTHER -> "s_sellast"]
    /\ UNCHANGED <<start, dir, sel, running, thread>>

SelectFile ==
    /\ Tab("s_selfile")
    /\ \E f \in dir \ Unlisted :
         LET s == IF f \in Roms THEN UpdateFwList(SetPath(sel, f), start.boot)
                                ELSE SetPath(sel, f)
         IN  /\ sel' = s
             /\ ui' = [ui EXCEPT !.state = IF f \in Roms THEN "s_selfirm" ELSE "s_sellast",
                                 !.menu = IF f \in Roms THEN s.item ELSE @,
                                 !.max = UpdateSteps(start, s)]
    /\ UNCHANGED <<start, dir, running, thread>>

CancelFile ==
    /\ Tab("s_selfile")
    /\ ui' = [ui EXCEPT !.state = "s_ini"]
    /\ UNCHANGED <<start, dir, sel, running, thread>>

\* The menu keeps its cursor on an entry of the list, if there is one.
MoveMenu ==
    /\ Tab("s_selfirm")
    /\ \E i \in 0 .. Len(FwList(sel)) - 1 : ui' = [ui EXCEPT !.menu = i]
    /\ UNCHANGED <<start, dir, sel, running, thread>>

OkFirmware ==
    /\ Tab("s_selfirm")
    /\ FwList(sel) # << >> => ui.menu # NoItem
    /\ sel' = SetFirmware(sel, ui.menu)
    /\ ui' = [ui EXCEPT !.state = "s_sellast", !.max = UpdateSteps(start, sel')]
    /\ UNCHANGED <<start, dir, running, thread>>

CancelFirmware ==
    /\ Tab("s_selfirm")
    /\ ui' = [ui EXCEPT !.state = "s_selfile"]
    /\ UNCHANGED <<start, dir, sel, running, thread>>

\* The last confirmation creates the update thread, once.
OkConfirm ==
    /\ Tab("s_sellast")
    /\ ui' = [ui EXCEPT !.state = "s_ing"]
    /\ running' = IF thread THEN running ELSE TRUE
    /\ thread' = TRUE
    /\ UNCHANGED <<start, dir, sel>>

\* Also for a raw file, whose confirmation had no firmware menu before it.
CancelConfirm ==
    /\ Tab("s_sellast")
    /\ ui' = [ui EXCEPT !.state = "s_selfirm"]
    /\ UNCHANGED <<start, dir, sel, running, thread>>

\* The exit buttons of the first and of the last tab.
Exit ==
    /\ Tab("s_ini") \/ Tab("s_com")
    /\ running' = FALSE
    /\ ui' = [ui EXCEPT !.quit = TRUE]
    /\ UNCHANGED <<start, dir, sel, thread>>

Dialog ==
    \/ PressUpdate \/ SelectFile \/ CancelFile \/ MoveMenu \/ OkFirmware
    \/ CancelFirmware \/ OkConfirm \/ CancelConfirm \/ Exit

-----------------------------------------------------------------------------
(* The data a sector is read from: an item of the loaded rom file, or the  *)
(* file itself.  The index of an item is not compared with the list.       *)

Source(s) == IF s.item = NoItem THEN [file |-> s.path, item |-> NoItem]
                                ELSE [file |-> s.header, item |-> s.item]

\* Where an item begins in its file.  The unused entries of a header are
\* zero, as the rom file was made; behind them lies other memory.
Begin(src) ==
    CASE src.item \in 0 .. Len(Items[src.file]) - 1 -> {Items[src.file][src.item + 1].at}
      [] src.item \in Len(Items[src.file]) .. MaxItems - 1 -> {0}
      [] OTHER -> 0 .. RomSize[src.file]

\* How far a source can be read: an item is read on to the end of its file.
\* As long as no rom file is loaded there is none to open.
Remaining(src) ==
    CASE src.file \in Roms /\ src.item # NoItem -> {RomSize[src.file] - b : b \in Begin(src)}
      [] src.file \in Roms /\ src.item = NoItem -> {RomSize[src.file]}
      [] src.file \in Bins -> {BinSize[src.file]}
      [] OTHER -> {0}

\* The size of a firmware; what is none has no size.
SourceSize(src) ==
    CASE src.file \in Roms /\ src.item \in 0 .. Len(Items[src.file]) - 1 ->
           Items[src.file][src.item + 1].size
      [] src.file \in Bins -> BinSize[src.file]
      [] OTHER -> 0
=============================================================================
