------------------------------ MODULE RomFile ------------------------------
(***************************************************************************)
(* The firmware container: which of its items a device may be updated to.  *)
(* A rom file is the sequence of its items; an item has the model it is    *)
(* for, its version, the conditions under which it may replace another     *)
(* version, its size and the place in the file where its data begin.       *)
(* Items count from 0 in the code and from 1 here; NoItem is the code's -1.*)
(***************************************************************************)
EXTENDS Integers, Sequences

NoItem == -1

\* The names agree up to the end of the shorter one: the comparison stops at
\* the first terminator of either.
SameModel(m, n) ==
    \A j \in 1 .. (IF Len(m) < Len(n) THEN Len(m) ELSE Len(n)) : m[j] = n[j]

\* The first item whose model agrees with the device's is the only one whose
\* condition is looked at.
ItemOfModel(items, model) ==
    LET first == {i \in 1 .. Len(items) :
                    /\ SameModel(items[i].model, model)
                    /\ \A j \in 1 .. i - 1 : ~SameModel(items[j].model, model)}
    IN  IF first = {} THEN NoItem ELSE (CHOOSE i \in first : TRUE) - 1

\* One part of the item's version is above, or below, the same part of the
\* device's version and the item's conditions allow that direction.
PartAllows(item, version, i) ==
    \/ item.version[i] > version[i] /\ item.cond \cap {"gt", "neq"} # {}
    \/ item.version[i] < version[i] /\ item.cond \cap {"lt", "neq"} # {}

\* The major parts decide; only if they do not allow the item are the other
\* parts tried, each by itself.
ConditionOK(item, version) ==
    \/ PartAllows(item, version, 1)
    \/ item.version = version /\ "eq" \in item.cond
    \/ \E i \in 2 .. Len(version) : PartAllows(item, version, i)

GetUpdatableItemIndex(items, model, version) ==
    LET i == ItemOfModel(items, model)
    IN  IF i # NoItem /\ ConditionOK(items[i + 1], version) THEN i ELSE NoItem
=============================================================================
