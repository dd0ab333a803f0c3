----------------------------- MODULE MCUpdater -----------------------------
(***************************************************************************)
(* Small instances of the firmware updater: a rom file with an item for    *)
(* this reader and one for another, one with an item for this reader only, *)
(* a raw file.  Two bytes stand for a header.                              *)
(***************************************************************************)
EXTENDS Updater

Item(model, major, size, at) ==
    [model |-> <<model>>, version |-> <<major, 4, 0, 0>>, cond |-> {"gt"},
     size |-> size, at |-> at]

MCItems ==
    [r \in {"r"} |-> << Item(1, 1, 3, 2), Item(2, 2, 1, 5) >>]
MCRomSize == [r \in {"r"} |-> 6]
MCBinSize == [b \in {"b"} |-> 2]

MCModel == <<1>>
MCVersion == <<1, 3, 0, 1>>

By(cf, display, file, index, boot) ==
    [byCf |-> cf, display |-> display, file |-> file, index |-> index,
     boot |-> boot, inf |-> FALSE, iso |-> FALSE, notify |-> cf]

\* A directory holds files of one kind: with {"r", "b"} a user can select the
\* rom file, go back and select the raw file, and RunsWhole, PlanFits and
\* KeepsPromise fail.
MCDirs == {{"r"}, {"b"}}

\* The coffee manager's start, without and with a screen, from the
\* application and from the bootloader; a user's.
MCStarts ==
    { [By(TRUE, FALSE, "r", NoItem, FALSE) EXCEPT !.inf = TRUE],
      By(TRUE, FALSE, "r", 0, TRUE),
      By(FALSE, TRUE, NoFile, NoItem, FALSE),
      [By(TRUE, TRUE, "r", NoItem, FALSE) EXCEPT !.iso = TRUE] }

\* Indexes of the command line that end up with another selection.  Of the
\* items of "r" the second is the larger, and "q" has only one of the two
\* entries of its header; the raw file has no header at all.  RunsWhole,
\* PlanFits and KeepsPromise fail here.
ForcedItems ==
    [f \in {"r", "q"} |-> IF f = "r" THEN << Item(1, 1, 1, 2), Item(2, 2, 3, 3) >>
                                     ELSE << Item(1, 1, 3, 2) >>]
ForcedRomSize == [f \in {"r", "q"} |-> IF f = "r" THEN 6 ELSE 5]
ForcedDirs == {{"r", "q"}, {"b"}}
ForcedStarts ==
    { By(FALSE, TRUE, "r", i, boot) : i \in {0, 1}, boot \in BOOLEAN }
      \cup { By(FALSE, TRUE, "b", 3, FALSE) }
=============================================================================
