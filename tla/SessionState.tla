---------------------------- MODULE SessionState ----------------------------
(***************************************************************************)
(* The state of one client session on one device, and the rule that says   *)
(* whether a device may be opened (class cbase_ctl_fn and its inner        *)
(* _cstate, lib/src/server/mp_cbase_ctl_fn_.cpp).  Pure operators: the     *)
(* device controller of module DevCtl keeps one state for every session.   *)
(***************************************************************************)
EXTENDS Naturals, FiniteSets

\* st_not: the session has not opened the device; st_idl: open, no read
\* outstanding; st_asy: waiting for the answer of a read.
State == {"not", "idl", "asy"}

\* The events of a session: its requests, and a read completed by the device.
Event == {"open", "close", "sync", "asy", "rx"}

\* The actions a client packet can ask of a device, as the controller tells
\* them apart: an open names its mode, and a transmit that carries no data is
\* kept apart because the driver treats it as a bare read.  "unsupported" is
\* any packet the controller turns away before it looks at the session.
Action == {"open", "open_share", "close", "transmit", "transmit_empty",
           "cancel", "write", "read", "unsupported"}

\* get_event_from_request_action
EventOf(act) ==
    CASE act \in {"open", "open_share"} -> "open"
      [] act = "close"                  -> "close"
      [] act = "read"                   -> "asy"
      [] OTHER                          -> "sync"

\* Mutant of NextState: a started read leaves the session idle.
NextStateReadIgnored(st, evt) ==
    IF evt = "open" THEN IF st = "asy" THEN "asy" ELSE "idl"
    ELSE IF evt = "close" \/ st = "not" THEN "not" ELSE "idl"

\* The transition table _m_trans_table_base.
NextState(st, evt) ==
    IF evt = "open" THEN IF st = "asy" THEN "asy" ELSE "idl"
    ELSE IF evt = "close" \/ st = "not" THEN "not"
    ELSE IF evt = "asy" THEN "asy" ELSE "idl"

(***************************************************************************)
(* The controller keeps a map from the sessions that opened the device to  *)
(* their states.  It is represented by a function on all sessions, where   *)
(* "not" stands for a session that is not in the map.                      *)
(***************************************************************************)
OpenSessions(st) == {s \in DOMAIN st : st[s] # "not"}

\* get_combination_state_in_map_except_selected_session: the largest of the
\* other sessions' states, in the order not < idl < asy.
AnotherState(st, sel) ==
    LET others == {st[s] : s \in DOMAIN st \ {sel}}
    IN CASE "asy" \in others -> "asy"
         [] "asy" \notin others /\ "idl" \in others -> "idl"
         [] OTHER -> "not"

\* Mutant of Openable: an exclusive open of an open device is allowed.
OpenableTwice(support, share, count, limit) ==
    /\ count < limit \/ count = 0
    /\ share => support

\* _is_openable: does the device support shared opening, does the client ask
\* for it, how many sessions have the device open, and how many may.
Openable(support, share, count, limit) ==
    /\ count < limit \/ count = 0
    /\ share => support
    /\ count > 0 => share
=============================================================================
