----------------------------- MODULE MsrClient -----------------------------
(***************************************************************************)
(* The libraries that applications read cards with (lpu237_dll) and        *)
(* change a reader's settings with (lpu237_tools): lpu237_of_client over   *)
(* i_device_of_client, the results it waits for (casync_result_manager),   *)
(* the callback that fills them in (ccb_client), the cache of the card     *)
(* read last (cash_msdata) and the settings on their way (cmap_user_cb),   *)
(* for one device that has been opened.                                    *)
(*                                                                         *)
(* An answer of the server does not say which request it answers.  The     *)
(* callback takes it for the answer to the oldest result that is queued,   *)
(* and for the kind of request that was sent last.                         *)
(***************************************************************************)
EXTENDS Integers, Sequences

CONSTANTS
    MaxIndex,  \* _const_max_result_index, 5
    Threads,   \* threads of the application that use the device
    Tracks,    \* the tracks of a card
    Phases,    \* transmits that getting or setting all settings takes
    Alone,     \* no other call is made while settings are on their way
    MaxCalls,  \* bound: requests to the server
    MaxLate    \* bound: requests given up after three seconds

ASSUME ClientAssumption ==
    /\ MaxIndex \in Nat /\ Threads \in Nat \ {0}
    /\ Phases \in Nat \ {0, 1} /\ Alone \in BOOLEAN
    /\ MaxCalls \in Nat \ {0} /\ MaxLate \in Nat

VARIABLES
    app,      \* the thread that holds the device's mutex
    gap,      \* threads between the reset and the request of a call of two
    queue,    \* the result indexes, oldest first
    res,      \* result index |-> result
    counter,  \* the next result index
    last,     \* what was sent last
    sent,     \* the server: requests it has not looked at
    reading,  \* the server: reads that wait for a card
    answers,  \* answers on their way
    cb,       \* the thread that handles the answers
    mine,     \* the application: the wait started last
    cash,     \* the card handed out last, and its tracks not yet taken
    got,      \* history: the data handed out last, and the wait it was for
    calls, late,
    dropped,  \* history: an answer was taken for the answer to nothing
    lib,      \* the library that the application uses
    item,     \* result index |-> the settings' entry in g_map_user_cb
    user,     \* result index |-> the thread of the settings' callback
    todo,     \* phases that are still to be sent
    cancel,   \* LPU237_tools_msr_cancel waits
    early     \* history: a callback came before its entry was filled in

appVars == <<app, gap, counter, calls, late, mine>>
srvVars == <<sent, reading>>
userVars == <<cash, got>>
toolVars == <<lib, item, user, todo, cancel, early>>
vars == <<appVars, queue, res, last, srvVars, answers, cb, userVars, dropped, toolVars>>

\* Requests are numbered.  What an answer holds, a card or the answer of the
\* device, is named by its request; 0 is nothing, and what cannot be decoded.
Index == 0 .. MaxIndex
NoResult == [obj |-> 0, call |-> 0, by |-> 0, ok |-> FALSE, data |-> 0, keep |-> FALSE]
NoApp == [pc |-> "idle", op |-> "none", act |-> "none", idx |-> 0, call |-> 0, ok |-> TRUE]
NoCard == [idx |-> -1, card |-> 0, left |-> {}]
Answer(call, ok, data) == [call |-> call, ok |-> ok, data |-> data]
NoAnswer == Answer(0, FALSE, 0)
NoCb == [pc |-> "idle", ans |-> NoAnswer, act |-> "none", idx |-> 0, obj |-> 0]

Exists(i) == res[i].obj # 0

-----------------------------------------------------------------------------
(* Calls of the library, one at a time under the device's mutex. *)

Request(op) ==
    CASE op \in {"cmd", "bypass", "settings"} -> "transmit"
      [] op = "wait" -> "read"
      [] OTHER       -> "cancel"

\* So many requests fit that no call stops half way at the bound.
Room(n) == calls + n + todo <= MaxCalls

\* Settings, from the first request to the end of the last callback.
OnTheirWay ==
    \/ lib = "tools" /\ gap > 0
    \/ \E i \in Index : item[i] # "none" \/ user[i] # "idle"

\* A reset cancels; so does the beginning of any other call that finds
\* results queued.
Start(op) ==
    app' = [NoApp EXCEPT !.pc = "create", !.op = op,
                         !.act = IF queue # << >> THEN "cancel" ELSE Request(op)]

\* A command of one request or more, a reset (LPU237_cancel_wait_swipe), or
\* the first half of a wait for a swipe, which resets under a lock of its own.
BeginMsr ==
    /\ lib = "dll" /\ app.pc = "idle" /\ gap < Threads /\ Room(3)
    /\ \E op \in {"cmd", "bypass", "reset", "swipe"} : Start(op)
    /\ UNCHANGED <<gap, counter, calls, late, mine, queue, res, last, srvVars,
                   answers, cb, userVars, dropped, toolVars>>

\* A command, or the first half of a start to get or set all settings.
BeginTool ==
    /\ lib = "tools" /\ app.pc = "idle" /\ gap < Threads /\ Room(Phases + 2)
    /\ Alone => ~OnTheirWay
    /\ \E op \in {"cmd", "prepare"} : Start(op)
    /\ UNCHANGED <<gap, counter, calls, late, mine, queue, res, last, srvVars,
                   answers, cb, userVars, dropped, toolVars>>

\* The second half.
BeginSecond ==
    /\ app.pc = "idle" /\ gap > 0
    /\ IF lib = "dll" THEN Room(2) /\ Start("wait")
                      ELSE Room(Phases + 1) /\ Start("settings")
    /\ gap' = gap - 1
    /\ UNCHANGED <<counter, calls, late, mine, queue, res, last, srvVars,
                   answers, cb, userVars, dropped, toolVars>>

\* Mutant of NextIndex: the index wraps around one too late.
NextIndexLate == IF counter > MaxIndex + 1 THEN 0 ELSE counter

NextIndex == IF counter > MaxIndex THEN 0 ELSE counter

\* The request of settings, after the reset if there is one.
ForSettings == app.op = "settings" /\ app.act = "transmit"

\* The result of the request; what had its index before is forgotten.  That
\* of settings is used again for each phase, and its entry waits for it.
Create ==
    /\ app.pc = "create"
    /\ calls' = calls + 1
    /\ counter' = NextIndex + 1
    /\ queue' = Append(queue, NextIndex)
    /\ res' = [res EXCEPT ![NextIndex] =
                 [NoResult EXCEPT !.obj = calls + 1, !.call = calls + 1, !.keep = ForSettings]]
    /\ app' = [app EXCEPT !.pc = "send", !.idx = NextIndex, !.call = calls + 1]
    /\ item' = IF ForSettings THEN [item EXCEPT ![NextIndex] = "new"] ELSE item
    /\ todo' = IF ForSettings THEN Phases - 1 ELSE todo
    /\ UNCHANGED <<gap, late, mine, last, srvVars, answers, cb, userVars, dropped,
                   lib, user, cancel, early>>

Send ==
    /\ app.pc = "send"
    /\ sent' = Append(sent, [call |-> app.call, act |-> app.act])
    /\ app' = [app EXCEPT !.pc = "last"]
    /\ UNCHANGED <<gap, counter, calls, late, mine, queue, res, last, reading,
                   answers, cb, userVars, dropped, toolVars>>

\* Only then is it noted what was sent.  Neither the read of a wait for a
\* swipe nor a phase of settings is waited for.
NoteLast ==
    /\ app.pc = "last"
    /\ last' = app.act
    /\ app' = IF app.op = "phase" \/ (app.op \in {"wait", "settings"} /\ app.act = Request(app.op))
                THEN NoApp ELSE [app EXCEPT !.pc = "wait"]
    /\ mine' = IF app.op = "wait" /\ app.act = "read"
                 THEN [idx |-> app.idx, call |-> app.call] ELSE mine
    /\ user' = IF app.op = "phase" THEN [user EXCEPT ![app.idx] = "idle"] ELSE user
    /\ UNCHANGED <<gap, counter, calls, late, queue, res, srvVars,
                   answers, cb, userVars, dropped, lib, item, todo, cancel, early>>

Waited ==
    /\ app.pc = "wait" /\ res[app.idx].by # 0
    /\ app' = [app EXCEPT !.pc = "remove", !.ok = res[app.idx].ok]
    /\ UNCHANGED <<gap, counter, calls, late, mine, queue, res, last, srvVars,
                   answers, cb, userVars, dropped, toolVars>>

\* A command is waited for three seconds, a reset for ever.
TimeOut ==
    /\ app.pc = "wait" /\ app.act # "cancel" /\ res[app.idx].by = 0
    /\ late < MaxLate
    /\ late' = late + 1
    /\ app' = [app EXCEPT !.pc = "remove", !.ok = FALSE]
    /\ UNCHANGED <<gap, counter, calls, mine, queue, res, last, srvVars,
                   answers, cb, userVars, dropped, toolVars>>

\* The queue without the first of what equals i.
Without(q, i) ==
    IF \E k \in 1 .. Len(q) : q[k] = i
      THEN LET first == CHOOSE k \in 1 .. Len(q) :
                            q[k] = i /\ \A j \in 1 .. k - 1 : q[j] # i
           IN  [k \in 1 .. Len(q) - 1 |-> IF k < first THEN q[k] ELSE q[k + 1]]
      ELSE q

\* What a call does next: after a reset that succeeded its own request, a
\* command perhaps another one, and a bypass reads what its writes bring.
After ==
    IF ~app.ok THEN {"none"}
    ELSE IF app.act = "cancel"
      THEN IF app.op \in {"reset", "swipe", "prepare"} THEN {"none"} ELSE {Request(app.op)}
    ELSE {"none"}
           \cup (IF Room(2) /\ app.act = "transmit" THEN {"transmit"} ELSE {})
           \cup (IF Room(2) /\ app.op = "bypass" /\ late < MaxLate THEN {"read"} ELSE {})

\* Mutant of Remove: the index stays queued.
RemoveResult ==
    /\ app.pc = "remove"
    /\ UNCHANGED queue
    /\ res' = [res EXCEPT ![app.idx] = NoResult]
    /\ \E next \in After :
           app' = IF next = "none" THEN NoApp ELSE [app EXCEPT !.pc = "create", !.act = next]
    /\ gap' = IF app.ok /\ app.op \in {"swipe", "prepare"} THEN gap + 1 ELSE gap
    /\ todo' = IF app'.pc = "idle" /\ app.op \in {"cmd", "bypass"} THEN 0 ELSE todo
    /\ UNCHANGED <<counter, calls, late, mine, last, srvVars, answers, cb, userVars, dropped,
                   lib, item, user, cancel, early>>

\* The result is removed however the request ended.
Remove ==
    /\ app.pc = "remove"
    /\ queue' = Without(queue, app.idx)
    /\ res' = [res EXCEPT ![app.idx] = NoResult]
    /\ \E next \in After :
           app' = IF next = "none" THEN NoApp ELSE [app EXCEPT !.pc = "create", !.act = next]
    /\ gap' = IF app.ok /\ app.op \in {"swipe", "prepare"} THEN gap + 1 ELSE gap
    /\ todo' = IF app'.pc = "idle" /\ app.op \in {"cmd", "bypass"} THEN 0 ELSE todo
    /\ UNCHANGED <<counter, calls, late, mine, last, srvVars, answers, cb, userVars, dropped,
                   lib, item, user, cancel, early>>

-----------------------------------------------------------------------------
(* The server, for this device and client: DevCtl.  A read waits for a     *)
(* card; any other request ends the reads that wait, and then is answered. *)

Cancelled == [k \in 1 .. Len(reading) |-> Answer(reading[k], FALSE, 0)]

ServeRead ==
    /\ sent # << >> /\ Head(sent).act = "read"
    /\ reading' = Append(reading, Head(sent).call)
    /\ sent' = Tail(sent)
    /\ UNCHANGED <<appVars, queue, res, last, answers, cb, userVars, dropped, toolVars>>

\* A command may fail, and then holds nothing.
ServeOther ==
    /\ sent # << >> /\ Head(sent).act # "read"
    /\ \E ok \in {TRUE, Head(sent).act = "cancel"} :
           answers' = answers \o Cancelled \o
               <<Answer(Head(sent).call, ok,
                        IF ok /\ Head(sent).act = "transmit" THEN Head(sent).call ELSE 0)>>
    /\ reading' = << >>
    /\ sent' = Tail(sent)
    /\ UNCHANGED <<appVars, queue, res, last, cb, userVars, dropped, toolVars>>

Swipe ==
    /\ reading # << >>
    /\ \E card \in {0, Head(reading)} :
           answers' = Append(answers, Answer(Head(reading), TRUE, card))
    /\ reading' = Tail(reading)
    /\ UNCHANGED <<appVars, queue, res, last, sent, cb, userVars, dropped, toolVars>>

-----------------------------------------------------------------------------
(* The callback (ccb_client::_read), on the client's own thread. *)

\* An answer that comes before anything is noted as sent is passed over.
TakeAnswer ==
    /\ cb.pc = "idle" /\ answers # << >>
    /\ answers' = Tail(answers)
    /\ IF last = "none"
         THEN dropped' = TRUE /\ UNCHANGED cb
         ELSE /\ cb' = [NoCb EXCEPT !.pc = "pop", !.ans = Head(answers), !.act = last]
              /\ UNCHANGED dropped
    /\ UNCHANGED <<appVars, queue, res, last, srvVars, userVars, toolVars>>

\* The result of settings stays queued, for the phases that follow.
Stays == cb.act = "transmit" /\ res[Head(queue)].keep

\* Mutants of PopResult: the newest result, and the result that stays queued.
PopNewest ==
    /\ cb.pc = "pop"
    /\ IF queue = << >>
         THEN cb' = NoCb /\ UNCHANGED queue
         ELSE /\ queue' = IF Stays THEN queue ELSE SubSeq(queue, 1, Len(queue) - 1)
              /\ cb' = [cb EXCEPT !.pc = "find", !.idx = queue[Len(queue)]]
    /\ UNCHANGED <<appVars, res, last, srvVars, answers, userVars, dropped, toolVars>>
PeekResult ==
    /\ cb.pc = "pop"
    /\ IF queue = << >>
         THEN cb' = NoCb
         ELSE cb' = [cb EXCEPT !.pc = "find", !.idx = Head(queue)]
    /\ UNCHANGED queue
    /\ UNCHANGED <<appVars, res, last, srvVars, answers, userVars, dropped, toolVars>>

PopResult ==
    /\ cb.pc = "pop"
    /\ IF queue = << >>
         THEN cb' = NoCb /\ UNCHANGED queue
         ELSE /\ queue' = IF Stays THEN queue ELSE Tail(queue)
              /\ cb' = [cb EXCEPT !.pc = "find", !.idx = Head(queue)]
    /\ UNCHANGED <<appVars, res, last, srvVars, answers, userVars, dropped, toolVars>>

\* The reference to the result outlives the lock it is found under.  A result
\* that is not found is dereferenced all the same.
FindResult ==
    /\ cb.pc = "find"
    /\ cb' = IF Exists(cb.idx)
               THEN [cb EXCEPT !.pc = "set", !.obj = res[cb.idx].obj]
               ELSE [NoCb EXCEPT !.pc = "crashed"]
    /\ UNCHANGED <<appVars, queue, res, last, srvVars, answers, userVars, dropped, toolVars>>

\* The data is kept of an answer to what is thought a read or a command.  For
\* settings a thread is started, when the one of the phase before has ended.
\* Writing to a result that has been removed may go unnoticed, or not.
SetResult ==
    /\ cb.pc = "set"
    /\ \/ /\ res[cb.idx].obj = cb.obj
          /\ res[cb.idx].keep => user[cb.idx] = "idle"
          /\ res' = [res EXCEPT ![cb.idx] =
                [@ EXCEPT !.by = cb.ans.call, !.ok = cb.ans.ok,
                          !.data = IF cb.act = "cancel" THEN 0 ELSE cb.ans.data]]
          /\ user' = IF res[cb.idx].keep THEN [user EXCEPT ![cb.idx] = "get"] ELSE user
          /\ cb' = NoCb
       \/ /\ res[cb.idx].obj # cb.obj
          /\ cb' \in {NoCb, [NoCb EXCEPT !.pc = "crashed"]}
          /\ UNCHANGED <<res, user>>
    /\ UNCHANGED <<appVars, queue, last, srvVars, answers, userVars, dropped,
                   lib, item, todo, cancel, early>>

-----------------------------------------------------------------------------
(* LPU237_get_data, by the application that its callback has told of the   *)
(* end of its wait: the length of a track, or a copy of it.                *)

Told == lib = "dll" /\ mine.call # 0 /\ res[mine.idx].call = mine.call /\ res[mine.idx].by # 0

\* LPU237_wait_swipe_with_waits removes the result of a wait that failed.
WaitFails ==
    /\ Told /\ ~res[mine.idx].ok
    /\ queue' = Without(queue, mine.idx)
    /\ res' = [res EXCEPT ![mine.idx] = NoResult]
    /\ UNCHANGED <<appVars, last, srvVars, answers, cb, userVars, dropped, toolVars>>

\* A copy takes the track out of the cache.
GetCashed(t, copy) ==
    /\ Told /\ cash.idx = mine.idx
    /\ got' = [for |-> mine.call, card |-> IF t \in cash.left THEN cash.card ELSE 0]
    /\ cash' = IF copy THEN [cash EXCEPT !.left = @ \ {t}]
               ELSE IF t \in cash.left THEN cash ELSE NoCard
    /\ UNCHANGED <<appVars, queue, res, last, srvVars, answers, cb, dropped, toolVars>>

\* The result stays where it is: it is looked for under another device index
\* when it is removed.
GetResult(t, copy) ==
    /\ Told /\ cash.idx # mine.idx
    /\ LET r == res[mine.idx]
           card == IF r.ok THEN r.data ELSE 0
       IN  /\ got' = [for |-> mine.call, card |-> card]
           /\ cash' = IF card = 0 THEN NoCard
                      ELSE [idx |-> mine.idx, card |-> card,
                            left |-> IF copy THEN Tracks \ {t} ELSE Tracks]
    /\ UNCHANGED <<appVars, queue, res, last, srvVars, answers, cb, dropped, toolVars>>

GetData == \E t \in Tracks, copy \in BOOLEAN : GetCashed(t, copy) \/ GetResult(t, copy)

-----------------------------------------------------------------------------
(* Settings of the tools: the thread that each answer starts               *)
(* (_cb_get_set_parameter).                                                *)

phaseVars == <<gap, counter, late, mine, last, srvVars, answers, cb, userVars, dropped, lib>>

\* The start puts the index and the phases into the entry, under a mutex that
\* the callback gets with the entry and does not lock.
FillEntry ==
    \E i \in Index :
        /\ item[i] = "new" /\ ~(app.op = "settings" /\ app.idx = i)
        /\ item' = [item EXCEPT ![i] = "set"]
        /\ UNCHANGED <<phaseVars, app, queue, res, calls, user, todo, cancel, early>>

\* One thread at a time.  An entry without its index ends the settings: the
\* entry is removed, the result is not, and the application is not told.
GetEntry(i) ==
    /\ user[i] = "get" /\ \A j \in Index : user[j] \in {"idle", "get"}
    /\ user' = [user EXCEPT ![i] = IF item[i] # "set" THEN "idle"
                                   ELSE IF cancel THEN "quit" ELSE "process"]
    /\ item' = [item EXCEPT ![i] = IF @ = "set" THEN @ ELSE "none"]
    /\ cancel' = (cancel /\ item[i] # "new")
    /\ early' = (early \/ item[i] = "new")
    /\ UNCHANGED <<phaseVars, app, queue, res, calls, todo>>

\* The answer is decoded under the device's mutex, and the application told.
Process(i) ==
    /\ user[i] = "process" /\ app.pc = "idle"
    /\ \E good \in {FALSE, res[i].ok /\ res[i].data # 0} :
           user' = [user EXCEPT ![i] = IF good THEN "next" ELSE "drop"]
    /\ UNCHANGED <<phaseVars, app, queue, res, calls, item, todo, cancel, early>>

\* The next phase is sent for the same result, if there is one.
NextPhase(i) ==
    /\ user[i] = "next" /\ app.pc = "idle" /\ todo > 0
    /\ calls' = calls + 1
    /\ app' = [NoApp EXCEPT !.pc = "send", !.op = "phase", !.act = "transmit",
                            !.idx = i, !.call = calls + 1]
    /\ res' = [res EXCEPT ![i] = [@ EXCEPT !.call = calls + 1, !.by = 0]]
    /\ todo' = todo - 1
    /\ user' = [user EXCEPT ![i] = "send"]
    /\ UNCHANGED <<phaseVars, queue, item, cancel, early>>

NoPhase(i) ==
    /\ user[i] = "next" /\ app.pc = "idle" /\ todo = 0
    /\ user' = [user EXCEPT ![i] = "drop"]
    /\ UNCHANGED <<phaseVars, app, queue, res, calls, item, todo, cancel, early>>

\* The settings are done, have failed or are cancelled: entry and result are
\* removed, and the cancel returns.
EndPhases(i) ==
    /\ \/ user[i] = "drop"
       \/ user[i] = "quit" /\ app.pc = "idle"
    /\ item' = [item EXCEPT ![i] = "none"]
    /\ queue' = Without(queue, i)
    /\ res' = [res EXCEPT ![i] = NoResult]
    /\ cancel' = (cancel /\ user[i] # "quit")
    /\ user' = [user EXCEPT ![i] = "idle"]
    /\ UNCHANGED <<phaseVars, app, calls, todo, early>>

\* LPU237_tools_msr_cancel, which waits until a callback has seen it.
Cancel ==
    /\ lib = "tools" /\ ~cancel
    /\ cancel' = TRUE
    /\ UNCHANGED <<appVars, queue, res, last, srvVars, answers, cb, userVars, dropped,
                   lib, item, user, todo, early>>

-----------------------------------------------------------------------------
\* LPU237_open (LPU237_tools_open) has opened the device, and resets it.
Init ==
    /\ app = [NoApp EXCEPT !.pc = "create", !.op = "reset", !.act = "cancel"]
    /\ gap = 0 /\ queue = << >> /\ res = [i \in Index |-> NoResult] /\ counter = 0
    /\ last = "none" /\ sent = << >> /\ reading = << >> /\ answers = << >>
    /\ cb = NoCb /\ mine = [idx |-> 0, call |-> 0]
    /\ cash = NoCard /\ got = [for |-> 0, card |-> 0]
    /\ calls = 0 /\ late = 0 /\ dropped = FALSE
    /\ lib \in {"dll", "tools"}
    /\ item = [i \in Index |-> "none"] /\ user = [i \in Index |-> "idle"]
    /\ todo = 0 /\ cancel = FALSE /\ early = FALSE

Call == Create \/ Send \/ NoteLast \/ Waited \/ Remove
Serve == ServeRead \/ ServeOther
Callback == TakeAnswer \/ PopResult \/ FindResult \/ SetResult
Phase ==
    \/ FillEntry
    \/ \E i \in Index :
           GetEntry(i) \/ Process(i) \/ NextPhase(i) \/ NoPhase(i) \/ EndPhases(i)

Next ==
    /\ cb.pc # "crashed"
    /\ \/ BeginMsr \/ BeginTool \/ BeginSecond \/ Call \/ TimeOut
       \/ Serve \/ Swipe
       \/ Callback
       \/ WaitFails \/ GetData
       \/ Phase \/ Cancel

\* The threads and the server run, and the wait for a read ends.  Nobody must
\* call, or swipe a card.
Fairness ==
    /\ WF_vars(Call) /\ WF_vars(Serve) /\ WF_vars(Callback) /\ WF_vars(Phase)
    /\ WF_vars(app.act = "read" /\ TimeOut)

Spec == Init /\ [][Next]_vars
FairSpec == Spec /\ Fairness

-----------------------------------------------------------------------------
(* Properties. *)

Acts == {"cancel", "transmit", "read"}
CallNo == 0 .. MaxCalls
Ops == {"none", "cmd", "bypass", "reset", "swipe", "wait", "prepare", "settings", "phase"}
AnswerType == [call : CallNo, ok : BOOLEAN, data : CallNo]

\* The type of every variable.
TypeOK ==
    /\ app \in [pc : {"idle", "create", "send", "last", "wait", "remove"},
                op : Ops, act : Acts \cup {"none"}, idx : Index, call : CallNo, ok : BOOLEAN]
    /\ gap \in 0 .. Threads
    /\ queue \in Seq(Index) /\ counter \in 0 .. MaxIndex + 1
    /\ res \in [Index -> [obj : CallNo, call : CallNo, by : CallNo, ok : BOOLEAN, data : CallNo,
                       keep : BOOLEAN]]
    /\ last \in Acts \cup {"none"}
    /\ sent \in Seq([call : CallNo, act : Acts]) /\ reading \in Seq(CallNo)
    /\ answers \in Seq(AnswerType)
    /\ cb \in [pc : {"idle", "pop", "find", "set", "crashed"}, ans : AnswerType,
               act : Acts \cup {"none"}, idx : Index, obj : CallNo]
    /\ mine \in [idx : Index, call : CallNo]
    /\ cash \in [idx : Index \cup {-1}, card : CallNo, left : SUBSET Tracks]
    /\ got \in [for : CallNo, card : CallNo]
    /\ calls \in CallNo /\ late \in 0 .. MaxLate /\ dropped \in BOOLEAN
    /\ lib \in {"dll", "tools"} /\ item \in [Index -> {"none", "new", "set"}]
    /\ user \in [Index -> {"idle", "get", "quit", "process", "next", "send", "drop"}]
    /\ todo \in 0 .. Phases - 1 /\ cancel \in BOOLEAN /\ early \in BOOLEAN

\* The calls that an answer to is still to come.
Coming ==
    (IF cb.pc = "pop" THEN {cb.ans.call} ELSE {})
      \cup {answers[k].call : k \in 1 .. Len(answers)}
      \cup {reading[k] : k \in 1 .. Len(reading)}
      \cup {sent[k].call : k \in 1 .. Len(sent)}

\* Every result that is queued exists, and the answer to it is still to come,
\* but for the one that its call is busy to send or to remove: late answers
\* may go to the wrong result, but leave none without an answer, as long as
\* none is passed over.
EachIsAnswered ==
    ~dropped /\ ~early =>
        \A k \in 1 .. Len(queue) :
            /\ Exists(queue[k])
            /\ \/ app.pc \in {"send", "remove"} /\ queue[k] = app.idx
               \/ user[queue[k]] # "idle"
               \/ cb.pc \in {"find", "set"} /\ cb.idx = queue[k]
               \/ res[queue[k]].call \in Coming

\* As long as no request was given up, the result that the callback holds is
\* there, and is the one of the request whose answer it holds.
AnswersGoHome ==
    late = 0 /\ ~dropped /\ ~early /\ cb.pc \in {"find", "set"} =>
        res[cb.idx].call = cb.ans.call

\* The library's calls return, though they wait without a timeout, and settings
\* end, whether cancelled, failed or done, if no answer is passed over and no
\* callback comes too early: late answers do not keep them waiting.
CallsReturn ==
    []~(dropped \/ early \/ cb.pc = "crashed") =>
        []<>(app.pc = "idle" /\ \A i \in Index : item[i] = "none" /\ user[i] = "idle")

\* What LPU237_get_data hands out is from the card that ended the wait.
FreshData == got.card \in {0, got.for}
=============================================================================
