------------------------- MODULE MsrClient_proofs -------------------------
(***************************************************************************)
(* Proofs about the client libraries, for any number of threads, tracks,   *)
(* phases of settings and requests to the server.                          *)
(*                                                                         *)
(* Every result that is queued is answered (EachIsAnswered), although a    *)
(* late answer may be taken for that of a newer request: answers come in   *)
(* the order of the requests (OrderInv), each takes at most one result off *)
(* the queue, and at most one is queued at a time, or two during a reset   *)
(* (Shape).  So the answer to the newest request finds its own result or   *)
(* none.  The argument breaks when an index comes around to a result which *)
(* the callback has looked up and not filled in yet; FreshResult says that *)
(* it does not.  The result that is held is as old as requests were given  *)
(* up or are queued (Young), so that needs as many of these as there are   *)
(* indexes.                                                                *)
(*                                                                         *)
(* If no request was given up, what is to come is for what is queued, and  *)
(* the callback holds the result of the request whose answer it has        *)
(* (HomeInv), which is AnswersGoHome.                                      *)
(*                                                                         *)
(* Both hold as long as no answer was passed over and no callback came too *)
(* early (Clean), as the properties say, and for an application that makes *)
(* no other call while settings are on their way (Alone).                  *)
(***************************************************************************)
EXTENDS MsrClient, SequenceTheorems, TLAPS

-----------------------------------------------------------------------------
(* Types.                                                                   *)

\* The threads in a call, the results, the callback, and the requests on their way.
AppSet == [pc : {"idle", "create", "send", "last", "wait", "remove"},
           op : Ops, act : Acts \cup {"none"}, idx : Index, call : CallNo, ok : BOOLEAN]
Result == [obj : CallNo, call : CallNo, by : CallNo, ok : BOOLEAN, data : CallNo,
           keep : BOOLEAN]
CbSet == [pc : {"idle", "pop", "find", "set", "crashed"}, ans : AnswerType,
          act : Acts \cup {"none"}, idx : Index, obj : CallNo]
Requested == [call : CallNo, act : Acts]

\* The types, for each group of variables.
AppTypes ==
    /\ app \in AppSet /\ gap \in 0 .. Threads /\ counter \in 0 .. MaxIndex + 1
    /\ calls \in CallNo /\ late \in 0 .. MaxLate /\ mine \in [idx : Index, call : CallNo]
ResultTypes == queue \in Seq(Index) /\ res \in [Index -> Result]
ServerTypes ==
    /\ last \in Acts \cup {"none"} /\ sent \in Seq(Requested) /\ reading \in Seq(CallNo)
    /\ answers \in Seq(AnswerType)
CallbackTypes == cb \in CbSet /\ dropped \in BOOLEAN
UserTypes ==
    /\ cash \in [idx : Index \cup {-1}, card : CallNo, left : SUBSET Tracks]
    /\ got \in [for : CallNo, card : CallNo]
ToolTypes ==
    /\ lib \in {"dll", "tools"} /\ item \in [Index -> {"none", "new", "set"}]
    /\ user \in [Index -> {"idle", "get", "quit", "process", "next", "send", "drop"}]
    /\ todo \in 0 .. Phases - 1 /\ cancel \in BOOLEAN /\ early \in BOOLEAN
TypeParts ==
    AppTypes /\ ResultTypes /\ ServerTypes /\ CallbackTypes /\ UserTypes /\ ToolTypes

\* The groups have the types that TypeOK names.
LEMMA PartsAreTypes == TypeParts <=> TypeOK
  BY DEF TypeParts, AppTypes, ResultTypes, ServerTypes, CallbackTypes, UserTypes, ToolTypes,
         TypeOK, AppSet, Result, CbSet, Requested

\* The requests that the call which is being made may still have to send.
Owed(a) ==
    IF a.pc = "idle" THEN 0
    ELSE (IF a.pc = "create" THEN 1 ELSE 0)
         + (IF a.act = "cancel" /\ a.op \notin {"reset", "swipe", "prepare"} THEN 1 ELSE 0)
         + (IF a.op = "settings" /\ (a.act = "cancel" \/ a.pc = "create")
              THEN Phases - 1 ELSE 0)

\* What call is being made, and how far it is.
AppShape ==
    /\ app.pc = "idle" => app = NoApp
    /\ app.pc # "idle" => app.op # "none" /\ app.act # "none"
    /\ app.pc \in {"wait", "remove"} =>
         app.op # "phase" /\ (app.op \in {"wait", "settings"} => app.act = "cancel")
    /\ app.op = "phase" => app.act = "transmit" /\ app.pc \in {"send", "last"}
    /\ app.op \in {"swipe", "prepare", "reset"} => app.act = "cancel"
    /\ app.op = "wait" => app.act # "transmit"
    /\ app.op = "settings" => app.act # "read"
    /\ app.act = "read" => app.op \in {"bypass", "wait"}

\* The calls of one library are not those of the other, and have room for the
\* requests they need.
CallInv ==
    /\ AppShape
    /\ app.op \in {"swipe", "prepare"} => gap < Threads
    /\ app.op \in {"bypass", "swipe", "wait"} => lib = "dll"
    /\ app.op \in {"prepare", "settings", "phase"} => lib = "tools"
    /\ calls + Owed(app) + todo <= MaxCalls
    /\ lib = "dll" => \A i \in Index : item[i] = "none" /\ user[i] = "idle" /\ ~res[i].keep
    /\ lib = "tools" => last # "read" /\ cb.act # "read"

Typed == TypeParts /\ CallInv

\* A call may owe nothing, and one that begins owes its request.
LEMMA OwedIsNat == ASSUME NEW a PROVE Owed(a) \in Nat /\ (a.pc = "create" => Owed(a) >= 1)
  BY ClientAssumption DEF Owed

\* No call is being made.
LEMMA NoAppType == NoApp \in AppSet /\ Owed(NoApp) = 0
<1>1. 0 \in Index /\ 0 \in CallNo
  BY ClientAssumption DEF Index, CallNo
<1> QED BY <1>1 DEF NoApp, AppSet, Owed, Ops

\* The result that a request gets.
LEMMA NewResultType ==
    ASSUME NEW n \in CallNo, NEW keep \in BOOLEAN, NEW r,
           r = [NoResult EXCEPT !.obj = n, !.call = n, !.keep = keep]
    PROVE  /\ r = [obj |-> n, call |-> n, by |-> 0, ok |-> FALSE, data |-> 0, keep |-> keep]
           /\ r \in Result /\ NoResult \in Result
<1>1. 0 \in CallNo
  BY ClientAssumption DEF CallNo
<1>2. r = [obj |-> n, call |-> n, by |-> 0, ok |-> FALSE, data |-> 0, keep |-> keep]
  BY DEF NoResult
<1> QED BY <1>1, <1>2 DEF NoResult, Result

\* What a step leaves alone keeps its types.
LEMMA Untouched ==
    /\ ResultTypes /\ UNCHANGED <<queue, res>> => ResultTypes'
    /\ ServerTypes /\ UNCHANGED <<last, sent, reading, answers>> => ServerTypes'
    /\ CallbackTypes /\ UNCHANGED <<cb, dropped>> => CallbackTypes'
    /\ UserTypes /\ UNCHANGED <<cash, got>> => UserTypes'
    /\ ToolTypes /\ UNCHANGED <<lib, item, user, todo, cancel, early>> => ToolTypes'
    /\ AppTypes /\ UNCHANGED <<app, gap, counter, calls, late, mine>> => AppTypes'
  BY DEF ResultTypes, ServerTypes, CallbackTypes, UserTypes, ToolTypes, AppTypes

\* The index a result gets is one of those there are.
LEMMA NextIsIndex == AppTypes => NextIndex \in Index /\ NextIndex + 1 \in 0 .. MaxIndex + 1
  BY ClientAssumption DEF AppTypes, NextIndex, Index

\* What is left of a queue is a queue.
LEMMA WithoutType ==
    ASSUME NEW S, NEW q \in Seq(S), NEW i
    PROVE  Without(q, i) \in Seq(S)
<1>1. CASE \E k \in 1 .. Len(q) : q[k] = i
  <2> DEFINE first == CHOOSE k \in 1 .. Len(q) : q[k] = i /\ \A j \in 1 .. k - 1 : q[j] # i
             e(k) == IF k < first THEN q[k] ELSE q[k + 1]
  <2>1. Without(q, i) = [k \in 1 .. Len(q) - 1 |-> e(k)]
    BY <1>1 DEF Without
  <2>2. Len(q) \in Nat /\ Len(q) - 1 \in Nat /\ \A k \in 1 .. Len(q) : q[k] \in S
    BY <1>1
  <2>3. \A k \in 1 .. Len(q) - 1 : e(k) \in {q[k], q[k + 1]}
    OBVIOUS
  <2>4. \A k \in 1 .. Len(q) - 1 : k \in 1 .. Len(q) /\ k + 1 \in 1 .. Len(q)
    BY <2>2
  <2>5. \A k \in 1 .. Len(q) - 1 : e(k) \in S
    BY <2>2, <2>3, <2>4
  <2> HIDE DEF e
  <2> QED BY <2>1, <2>2, <2>5
<1>2. CASE ~ \E k \in 1 .. Len(q) : q[k] = i
  BY <1>2 DEF Without
<1> QED BY <1>1, <1>2

\* There is room for a call that owes no more than before, or one request if
\* there is room for two.
LEMMA Fits ==
    ASSUME NEW n \in Nat, NEW o1 \in Nat, NEW o2 \in Nat, NEW t1 \in Nat, NEW t2 \in Nat,
           NEW m \in Nat,
           n + o1 + t1 <= m, t2 <= t1, o2 <= o1 \/ (o2 = 1 /\ n + 2 + t1 <= m)
    PROVE  n + o2 + t2 <= m
  OBVIOUS

\* The beginning of a call.
LEMMA BeginTyped == Typed /\ (BeginMsr \/ BeginTool \/ BeginSecond) => Typed'
<1> SUFFICES ASSUME Typed, BeginMsr \/ BeginTool \/ BeginSecond PROVE Typed'
    OBVIOUS
<1> USE ClientAssumption DEF Typed
<1>1. /\ UNCHANGED <<queue, res, last, sent, reading, answers, cb, dropped, cash, got,
                     lib, item, user, todo, cancel, early, counter, calls, late, mine>>
      /\ app.pc = "idle" /\ gap' \in {gap, gap - 1}
  BY DEF BeginMsr, BeginTool, BeginSecond, TypeParts, AppTypes, srvVars, userVars, toolVars
<1>2. PICK op \in Ops \ {"none", "phase"} :
        /\ app' = [NoApp EXCEPT !.pc = "create", !.op = op,
                         !.act = IF queue # << >> THEN "cancel" ELSE Request(op)]
        /\ \/ lib = "dll" /\ gap < Threads /\ gap' = gap /\ Room(3) /\ op \in {"cmd", "bypass", "reset", "swipe"}
           \/ lib = "tools" /\ gap < Threads /\ gap' = gap /\ Room(Phases + 2) /\ op \in {"cmd", "prepare"}
           \/ lib = "dll" /\ Room(2) /\ op = "wait" /\ gap' = gap - 1 /\ gap > 0
           \/ lib = "tools" /\ Room(Phases + 1) /\ op = "settings" /\ gap' = gap - 1 /\ gap > 0
  BY <1>1 DEF BeginMsr, BeginTool, BeginSecond, Start, Ops, TypeParts, ToolTypes
<1>r. PICK act \in {"cancel", Request(op)} :
        app' = [pc |-> "create", op |-> op, act |-> act, idx |-> 0, call |-> 0, ok |-> TRUE]
  BY <1>2 DEF NoApp
<1>a. Request(op) \in Acts /\ 0 \in Index /\ 0 \in CallNo
  BY <1>2 DEF Request, Ops, Acts, Index, CallNo
<1>3. app' \in AppSet /\ gap' \in 0 .. Threads
  <2>1. gap' \in 0 .. Threads
    BY <1>2 DEF TypeParts, AppTypes
  <2>2. app' \in AppSet
    BY <1>r, <1>a DEF AppSet, Ops, Acts
  <2> QED BY <2>1, <2>2
<1>4. TypeParts'
  BY <1>1, <1>3, Untouched DEF TypeParts, AppTypes
<1>5. AppShape'
  BY <1>2 DEF AppShape, NoApp, Request, Ops
<1>6. calls' + Owed(app') + todo' <= MaxCalls
  <2>1. calls \in Int /\ todo \in Int /\ calls' = calls /\ todo' = todo
    BY <1>1 DEF TypeParts, AppTypes, ToolTypes, CallNo
  <2>2. CASE op \in {"cmd", "bypass", "reset", "swipe", "prepare"}
    <3>1. Owed(app') <= 2 /\ Owed(app') \in Nat
      BY <1>r, <2>2 DEF Owed
    <3>2. calls + 2 + todo <= MaxCalls
      BY <1>2, <2>1, <2>2 DEF Room
    <3> QED BY <2>1, <3>1, <3>2
  <2>3. CASE op = "wait"
    <3>1. Owed(app') <= 2 /\ Owed(app') \in Nat
      BY <1>r, <2>3 DEF Owed
    <3>2. calls + 2 + todo <= MaxCalls
      BY <1>2, <2>3 DEF Room
    <3> QED BY <2>1, <3>1, <3>2
  <2>4. CASE op = "settings"
    <3>1. Owed(app') <= Phases + 1 /\ Owed(app') \in Nat
      BY <1>r, <2>4 DEF Owed
    <3>2. calls + (Phases + 1) + todo <= MaxCalls
      BY <1>2, <2>1, <2>4 DEF Room
    <3> QED BY <2>1, <3>1, <3>2
  <2> QED BY <1>2, <2>2, <2>3, <2>4 DEF Ops
<1> QED BY <1>1, <1>2, <1>4, <1>5, <1>6 DEF CallInv, NoApp

\* A call that goes on, is given up or ends.
LEMMA CallTyped == Typed /\ (Call \/ TimeOut) => Typed'
<1> SUFFICES ASSUME Typed, Call \/ TimeOut PROVE Typed'
    OBVIOUS
<1> USE ClientAssumption DEF Typed
<1>0. /\ app \in AppSet /\ gap \in 0 .. Threads /\ calls \in Nat /\ calls <= MaxCalls
      /\ todo \in Nat /\ todo <= Phases - 1 /\ MaxCalls \in Nat
      /\ calls + Owed(app) + todo <= MaxCalls
      /\ app.pc # "idle"
  <2>1. app \in AppSet /\ gap \in 0 .. Threads /\ calls \in Nat /\ calls <= MaxCalls /\ MaxCalls \in Nat
    BY DEF TypeParts, AppTypes, CallNo
  <2>2. todo \in Nat /\ todo <= Phases - 1
    BY DEF TypeParts, ToolTypes
  <2>3. app.pc # "idle"
    BY DEF Call, Create, Send, NoteLast, Waited, Remove, TimeOut
  <2> QED BY <2>1, <2>2, <2>3 DEF CallInv
<1>t. Owed(app) \in Nat
  BY OwedIsNat
<1>s. calls + todo <= MaxCalls
  BY <1>0, <1>t
<1>1. CASE Create
  <2>1. Owed(app) \in Nat /\ Owed(app) >= 1 /\ calls + 1 \in CallNo
    <3>1. Owed(app) \in Nat /\ Owed(app) >= 1
      BY <1>1, OwedIsNat DEF Create
    <3> QED BY <1>0, <3>1 DEF CallNo
  <2>2. NextIndex \in Index /\ NextIndex + 1 \in 0 .. MaxIndex + 1
    BY NextIsIndex DEF TypeParts
  <2>3. app' = [app EXCEPT !.pc = "send", !.idx = NextIndex, !.call = calls + 1]
        /\ calls' = calls + 1 /\ counter' = NextIndex + 1
        /\ UNCHANGED <<gap, late, mine>>
    BY <1>1 DEF Create
  <2>4. AppTypes'
    BY <1>0, <2>1, <2>2, <2>3 DEF TypeParts, AppTypes, AppSet
  <2>5. queue' \in Seq(Index)
    BY <1>1, <2>2 DEF TypeParts, ResultTypes, Create
  <2>6. res' \in [Index -> Result]
    <3>1. [NoResult EXCEPT !.obj = calls + 1, !.call = calls + 1, !.keep = ForSettings] \in Result
      <4>1. ForSettings \in BOOLEAN
        BY DEF ForSettings
      <4> QED BY <2>1, <4>1, NewResultType
    <3> QED BY <1>1, <2>2, <3>1 DEF TypeParts, ResultTypes, Create
  <2>7. todo' \in 0 .. Phases - 1 /\ item' \in [Index -> {"none", "new", "set"}]
    BY <1>1, <2>2 DEF Create, TypeParts, ToolTypes
  <2>8. TypeParts'
    BY <1>1, <2>4, <2>5, <2>6, <2>7, Untouched
    DEF TypeParts, ResultTypes, ToolTypes, Create, srvVars, userVars
  <2>9. calls' + Owed(app') + todo' <= MaxCalls
    <3>1. CASE ForSettings
      <4>1. Owed(app) = Phases /\ Owed(app') = 0
        BY <1>0, <1>1, <2>3, <3>1 DEF Owed, Create, ForSettings, AppSet
      <4>2. calls' = calls + 1 /\ todo' = Phases - 1
        BY <1>1, <3>1 DEF Create
      <4> QED BY <1>0, <4>1, <4>2
    <3>2. CASE ~ForSettings
      <4>1. Owed(app') = Owed(app) - 1
        <5>1. app.pc = "create" /\ app'.pc = "send" /\ app'.op = app.op /\ app'.act = app.act
          BY <1>0, <1>1, <2>3 DEF Create, AppSet
        <5>2. app.op = "settings" => app.act = "cancel"
          BY <1>0, <3>2 DEF ForSettings, CallInv, AppShape, AppSet, Acts
        <5> QED BY <5>1, <5>2 DEF Owed
      <4>2. calls' = calls + 1 /\ todo' = todo
        BY <1>1, <3>2 DEF Create
      <4> QED BY <1>0, <2>1, <4>1, <4>2
    <3> QED BY <3>1, <3>2
  <2>10. AppShape'
    BY <1>0, <1>1, <2>3 DEF CallInv, AppShape, AppSet, Create
  <2>11. lib' = "dll" => \A i \in Index : item'[i] = "none" /\ user'[i] = "idle" /\ ~res'[i].keep
    <3>1. lib = "dll" => ~ForSettings
      BY DEF CallInv, ForSettings
    <3>2. PICK r \in Result :
            /\ r = [obj |-> calls + 1, call |-> calls + 1, by |-> 0, ok |-> FALSE, data |-> 0,
                     keep |-> ForSettings]
            /\ res' = [res EXCEPT ![NextIndex] = r]
      BY <1>1, <2>1, NewResultType DEF Create, ForSettings
    <3> QED BY <1>1, <2>2, <3>1, <3>2 DEF Create, CallInv, TypeParts, ResultTypes
  <2> QED BY <1>0, <1>1, <2>3, <2>8, <2>9, <2>10, <2>11 DEF CallInv, Create, AppSet
<1>2. CASE Send
  <2>1. /\ app' = [app EXCEPT !.pc = "last"] /\ sent' = Append(sent, [call |-> app.call, act |-> app.act])
        /\ app.pc = "send"
    BY <1>2 DEF Send
  <2>2. [call |-> app.call, act |-> app.act] \in Requested
    BY <1>0, <2>1 DEF AppSet, Requested, CallInv, AppShape
  <2>3. app' \in AppSet
    BY <1>0, <2>1 DEF AppSet
  <2>4. TypeParts'
    BY <1>2, <2>1, <2>2, <2>3, Untouched DEF TypeParts, AppTypes, ServerTypes, Send, userVars, toolVars
  <2>5. Owed(app') = Owed(app)
    BY <1>0, <2>1 DEF Owed, AppSet
  <2>6. AppShape'
    BY <1>0, <2>1 DEF CallInv, AppShape, AppSet
  <2> QED BY <1>0, <1>2, <2>1, <2>4, <2>5, <2>6 DEF CallInv, AppSet, Send, toolVars
<1>3. CASE NoteLast
  <2>1. /\ app.pc = "last" /\ last' = app.act /\ app' \in {NoApp, [app EXCEPT !.pc = "wait"]}
        /\ app' # NoApp => ~(app.op = "phase" \/ (app.op \in {"wait", "settings"} /\ app.act = Request(app.op)))
    BY <1>3 DEF NoteLast
  <2>2. app' \in AppSet /\ app.act \in Acts
    <3>1. app.act \in Acts
      BY <1>0 DEF AppSet, CallInv, AppShape
    <3>2. [app EXCEPT !.pc = "wait"] \in AppSet
      BY <1>0 DEF AppSet
    <3> QED BY <2>1, <3>1, <3>2, NoAppType
  <2>3. mine' \in [idx : Index, call : CallNo]
    BY <1>0, <1>3 DEF NoteLast, TypeParts, AppTypes, AppSet
  <2>4. user' \in [Index -> {"idle", "get", "quit", "process", "next", "send", "drop"}]
    BY <1>0, <1>3 DEF NoteLast, TypeParts, ToolTypes, AppSet
  <2>5. TypeParts'
    BY <1>3, <2>1, <2>2, <2>3, <2>4, Untouched
    DEF TypeParts, AppTypes, ServerTypes, ToolTypes, NoteLast, srvVars, userVars
  <2>6. Owed(app') <= Owed(app) /\ Owed(app') \in Int /\ Owed(app) \in Int
    BY <1>0, <2>1 DEF Owed, AppSet, NoApp
  <2>7. AppShape'
    <3>1. CASE app' = NoApp
      BY <3>1 DEF AppShape, NoApp
    <3>2. CASE app' # NoApp
      <4>1. /\ app'.pc = "wait" /\ app'.op = app.op /\ app'.act = app.act
            /\ app.op \in {"wait", "settings"} => app.act # Request(app.op)
            /\ app.op # "phase" /\ AppShape /\ app.pc = "last" /\ app.act \in Acts
        BY <1>0, <2>1, <2>2, <3>2 DEF CallInv, AppSet
      <4>2. app.op = "wait" => Request(app.op) = "read"
        BY DEF Request
      <4>3. app.op = "settings" => Request(app.op) = "transmit"
        BY DEF Request
      <4> QED BY <4>1, <4>2, <4>3 DEF AppShape, Acts
    <3> QED BY <3>1, <3>2
  <2>8. calls' + Owed(app') + todo' <= MaxCalls
    <3>1. calls' = calls /\ todo' = todo
      BY <1>3 DEF NoteLast
    <3> QED BY <1>0, <2>6, <3>1
  <2>9. lib' = "dll" => \A i \in Index : item'[i] = "none" /\ user'[i] = "idle" /\ ~res'[i].keep
    BY <1>0, <1>3 DEF NoteLast, CallInv, TypeParts, ToolTypes, AppSet
  <2>10. lib' = "tools" => last' # "read" /\ cb'.act # "read"
    BY <1>0, <1>3, <2>1 DEF NoteLast, CallInv, AppShape
  <2> QED BY <1>0, <1>3, <2>1, <2>5, <2>7, <2>8, <2>9, <2>10 DEF CallInv, AppSet, NoApp, NoteLast
<1>4. CASE Waited \/ TimeOut
  <2>1. PICK ok \in BOOLEAN : app' = [app EXCEPT !.pc = "remove", !.ok = ok] /\ app.pc = "wait"
    BY <1>0, <1>4 DEF Waited, TimeOut, TypeParts, ResultTypes, Result, AppSet
  <2>2. late' \in 0 .. MaxLate
    BY <1>4 DEF Waited, TimeOut, TypeParts, AppTypes, appVars
  <2>3. app' \in AppSet
    BY <1>0, <2>1 DEF AppSet
  <2>4. TypeParts'
    BY <1>4, <2>2, <2>3, Untouched
    DEF TypeParts, AppTypes, Waited, TimeOut, srvVars, userVars, toolVars
  <2>5. Owed(app') = Owed(app)
    BY <1>0, <2>1 DEF Owed, AppSet
  <2>6. AppShape'
    BY <1>0, <2>1 DEF CallInv, AppShape, AppSet
  <2> QED BY <1>0, <1>4, <2>1, <2>4, <2>5, <2>6 DEF CallInv, AppSet, Waited, TimeOut, toolVars
<1>5. CASE Remove
  <2>1. PICK next \in After :
           app' = IF next = "none" THEN NoApp ELSE [app EXCEPT !.pc = "create", !.act = next]
    BY <1>5 DEF Remove
  <2>2. next \in Acts \cup {"none"} /\ app.pc = "remove"
    BY <1>5, <2>1 DEF Remove, After, Request, Acts
  <2>3. app' \in AppSet
    <3>1. next \in Acts => [app EXCEPT !.pc = "create", !.act = next] \in AppSet
      BY <1>0 DEF AppSet
    <3> QED BY <2>1, <2>2, <3>1, NoAppType
  <2>4. gap' \in 0 .. Threads
    BY <1>0, <1>5 DEF Remove, CallInv
  <2>5. queue' \in Seq(Index)
    BY <1>5, WithoutType DEF Remove, TypeParts, ResultTypes
  <2>6. NoResult \in Result
    BY <1>0 DEF NoResult, Result, CallNo
  <2>7. res' \in [Index -> Result]
    BY <1>0, <1>5, <2>6 DEF Remove, TypeParts, ResultTypes, AppSet
  <2>8. todo' \in 0 .. Phases - 1 /\ todo' \in Nat /\ todo' <= todo /\ calls' = calls
    BY <1>0, <1>5 DEF Remove
  <2>9. TypeParts'
    BY <1>5, <2>3, <2>4, <2>5, <2>7, <2>8, Untouched
    DEF TypeParts, AppTypes, ResultTypes, ToolTypes, Remove, srvVars, userVars
  <2>10. AppShape'
    BY <1>0, <1>5, <2>1, <2>2 DEF CallInv, AppShape, AppSet, NoApp, Remove, After, Request, Acts
  <2>11. calls' + Owed(app') + todo' <= MaxCalls
    <3>1. CASE next = "none"
      <4>1. Owed(app') = 0
        BY <2>1, <3>1, NoAppType
      <4>2. Owed(app') \in Nat /\ Owed(app') <= Owed(app)
        BY <1>t, <4>1
      <4> QED BY <1>0, <1>t, <2>8, <4>2, Fits
    <3>2. CASE next # "none" /\ app.act = "cancel"
      <4>1. app.op \notin {"reset", "swipe", "prepare"} /\ next = Request(app.op)
        BY <2>1, <3>2 DEF After
      <4>2. next # "cancel"
        BY <1>0, <1>5, <4>1 DEF Request, CallInv, AppShape, Ops, Remove, AppSet
      <4>3. Owed(app') = Owed(app)
        BY <1>0, <2>1, <2>2, <3>2, <4>1, <4>2 DEF Owed, AppSet
      <4> QED BY <1>0, <1>t, <2>8, <4>3, Fits
    <3>3. CASE next # "none" /\ app.act # "cancel"
      <4>1. Room(2) /\ next # "cancel"
        BY <2>1, <3>3 DEF After
      <4>2. app.op # "settings"
        BY <1>0, <2>2, <3>3 DEF CallInv, AppShape
      <4>3. Owed(app') = 1
        BY <1>0, <2>1, <3>3, <4>1, <4>2 DEF Owed, AppSet
      <4>4. calls + 2 + todo <= MaxCalls
        BY <4>1 DEF Room
      <4> QED BY <1>0, <1>t, <2>8, <4>3, <4>4, Fits
    <3> QED BY <3>1, <3>2, <3>3
  <2>12. app'.op \in {"swipe", "prepare"} => gap' < Threads
    <3>1. app'.op \in {"swipe", "prepare"} => app.op = app'.op /\ next # "none"
      BY <1>0, <2>1 DEF AppSet, NoApp
    <3>2. app.op \in {"swipe", "prepare"} => app.act = "cancel"
      BY DEF CallInv, AppShape
    <3>3. app.op \in {"swipe", "prepare"} => next = "none"
      BY <2>1, <3>2 DEF After
    <3> QED BY <3>1, <3>3
  <2>13. lib' = "dll" => \A i \in Index : ~res'[i].keep
    BY <1>5 DEF Remove, CallInv, NoResult, TypeParts, ResultTypes
  <2>14. app'.op \in {app.op, "none"}
    BY <1>0, <2>1 DEF AppSet, NoApp
  <2> QED BY <1>0, <1>5, <2>9, <2>10, <2>11, <2>12, <2>13, <2>14 DEF CallInv, Remove
<1> QED BY <1>1, <1>2, <1>3, <1>4, <1>5 DEF Call

\* The server, which touches only what it has been sent and its answers.
LEMMA ServerTyped == Typed /\ (Serve \/ Swipe) => Typed'
<1> SUFFICES ASSUME Typed, Serve \/ Swipe PROVE Typed'
    OBVIOUS
<1> USE ClientAssumption DEF Typed
<1>0. /\ sent \in Seq(Requested) /\ reading \in Seq(CallNo) /\ answers \in Seq(AnswerType)
      /\ last \in Acts \cup {"none"} /\ 0 \in CallNo
  BY DEF TypeParts, ServerTypes, CallNo
<1>1. UNCHANGED <<appVars, queue, res, last, cb, userVars, dropped, toolVars>>
  BY DEF Serve, ServeRead, ServeOther, Swipe
<1>l. last' = last
  BY <1>1
<1>a. \A n, d \in CallNo, ok \in BOOLEAN : Answer(n, ok, d) \in AnswerType
  BY DEF Answer, AnswerType
<1>2. ASSUME ServeRead \/ ServeOther PROVE ServerTypes'
  <2>1. sent # << >> /\ sent' = Tail(sent) /\ sent' \in Seq(Requested)
        /\ Head(sent) \in Requested
    <3>1. sent # << >> /\ sent' = Tail(sent)
      BY <1>2 DEF ServeRead, ServeOther
    <3> QED BY <1>0, <3>1
  <2>2. CASE ServeRead
    <3>1. reading' \in Seq(CallNo) /\ answers' = answers
      BY <1>0, <2>1, <2>2 DEF ServeRead, Requested
    <3> QED BY <1>0, <1>l, <2>1, <3>1 DEF ServerTypes
  <2>3. CASE ServeOther
    <3>1. Cancelled \in Seq(AnswerType)
      <4>1. Len(reading) \in Nat /\ \A k \in 1 .. Len(reading) : reading[k] \in CallNo
        BY <1>0
      <4>2. \A k \in 1 .. Len(reading) : Answer(reading[k], FALSE, 0) \in AnswerType
        BY <1>0, <1>a, <4>1
      <4> DEFINE a(k) == Answer(reading[k], FALSE, 0)
                 n == Len(reading)
      <4>3. Cancelled = [k \in 1 .. n |-> a(k)]
        BY DEF Cancelled
      <4>4. n \in Nat /\ \A k \in 1 .. n : a(k) \in AnswerType
        BY <4>1, <4>2
      <4> HIDE DEF a, n
      <4> QED BY <4>3, <4>4
    <3>2. PICK ok \in BOOLEAN :
            answers' = answers \o Cancelled \o
               <<Answer(Head(sent).call, ok,
                        IF ok /\ Head(sent).act = "transmit" THEN Head(sent).call ELSE 0)>>
      BY <2>3 DEF ServeOther
    <3>3. Answer(Head(sent).call, ok,
                        IF ok /\ Head(sent).act = "transmit" THEN Head(sent).call ELSE 0)
            \in AnswerType
      BY <1>0, <1>a, <2>1 DEF Requested
    <3>4. answers' \in Seq(AnswerType)
      BY <1>0, <3>1, <3>2, <3>3
    <3>5. reading' = << >>
      BY <2>3 DEF ServeOther
    <3>6. << >> \in Seq(CallNo)
      OBVIOUS
    <3> QED BY <1>0, <1>l, <2>1, <3>4, <3>5, <3>6 DEF ServerTypes
  <2> QED BY <1>2, <2>2, <2>3
<1>3. ASSUME Swipe PROVE ServerTypes'
  <2>1. Head(reading) \in CallNo /\ reading' \in Seq(CallNo) /\ sent' = sent
    BY <1>0, <1>3 DEF Swipe
  <2>2. PICK card \in {0, Head(reading)} :
          answers' = Append(answers, Answer(Head(reading), TRUE, card))
    BY <1>3 DEF Swipe
  <2>3. Answer(Head(reading), TRUE, card) \in AnswerType
    BY <1>0, <1>a, <2>1
  <2>4. PICK a \in AnswerType : answers' = Append(answers, a)
    BY <2>2, <2>3
  <2>5. answers' \in Seq(AnswerType)
    BY <1>0, <2>4
  <2> QED BY <1>0, <1>l, <2>1, <2>5 DEF ServerTypes
<1>4. ServerTypes'
  BY <1>2, <1>3 DEF Serve
<1>5. TypeParts'
  BY <1>1, <1>4, Untouched DEF TypeParts, appVars, userVars, toolVars
<1>6. CallInv'
  BY <1>1 DEF CallInv, AppShape, appVars, toolVars
<1> QED BY <1>5, <1>6

\* The callback.
LEMMA CallbackTyped == Typed /\ Callback => Typed'
<1> SUFFICES ASSUME Typed, Callback PROVE Typed'
    OBVIOUS
<1> USE ClientAssumption DEF Typed
<1>0. /\ cb \in CbSet /\ answers \in Seq(AnswerType) /\ queue \in Seq(Index)
      /\ res \in [Index -> Result] /\ 0 \in CallNo /\ 0 \in Index
      /\ user \in [Index -> {"idle", "get", "quit", "process", "next", "send", "drop"}]
  BY DEF TypeParts, ServerTypes, CallbackTypes, ResultTypes, ToolTypes, CallNo, Index
<1>1. UNCHANGED <<appVars, last, srvVars, userVars, lib, item, todo, cancel, early>>
  BY DEF Callback, TakeAnswer, PopResult, FindResult, SetResult, toolVars
<1>2. NoAnswer \in AnswerType /\ NoCb \in CbSet /\ NoCb.act = "none"
  BY <1>0 DEF NoAnswer, Answer, AnswerType, NoCb, CbSet
<1>3. [NoCb EXCEPT !.pc = "crashed"] \in CbSet /\ [NoCb EXCEPT !.pc = "crashed"].act = "none"
  BY <1>2 DEF CbSet, NoCb
<1>4. CASE TakeAnswer
  <2>1. Head(answers) \in AnswerType /\ answers' \in Seq(AnswerType)
    BY <1>0, <1>4 DEF TakeAnswer
  <2>2. cb' \in CbSet /\ dropped' \in BOOLEAN /\ cb'.act \in {cb.act, last}
    <3>1. CASE last = "none"
      BY <1>0, <1>4, <3>1 DEF TakeAnswer, TypeParts, CallbackTypes
    <3>2. CASE last # "none"
      <4>1. cb' = [NoCb EXCEPT !.pc = "pop", !.ans = Head(answers), !.act = last] /\ dropped' = dropped
        BY <1>4, <3>2 DEF TakeAnswer
      <4>2. cb' = [pc |-> "pop", ans |-> Head(answers), act |-> last, idx |-> 0, obj |-> 0]
        BY <4>1 DEF NoCb
      <4>3. last \in Acts \cup {"none"} /\ dropped \in BOOLEAN
        BY DEF TypeParts, CallbackTypes, ServerTypes
      <4>4. cb' \in CbSet /\ cb'.act = last
        BY <1>0, <2>1, <4>2, <4>3 DEF CbSet
      <4> QED BY <4>1, <4>3, <4>4
    <3> QED BY <3>1, <3>2
  <2>3. TypeParts'
    BY <1>1, <1>4, <2>1, <2>2, Untouched
    DEF TypeParts, CallbackTypes, ServerTypes, TakeAnswer, appVars, srvVars, userVars, toolVars
  <2> QED BY <1>1, <1>4, <2>2, <2>3 DEF CallInv, AppShape, TakeAnswer, appVars, toolVars
<1>5. CASE PopResult
  <2>1. cb' \in CbSet /\ queue' \in Seq(Index) /\ cb'.act \in {cb.act, "none"}
    <3>1. CASE queue = << >>
      BY <1>0, <1>2, <1>5, <3>1 DEF PopResult
    <3>2. CASE queue # << >>
      <4>1. Head(queue) \in Index /\ Tail(queue) \in Seq(Index)
        BY <1>0, <3>2
      <4>2. cb' = [cb EXCEPT !.pc = "find", !.idx = Head(queue)]
        BY <1>5, <3>2 DEF PopResult
      <4>3. cb' \in CbSet /\ cb'.act = cb.act
        BY <1>0, <4>1, <4>2 DEF CbSet
      <4> QED BY <1>0, <1>5, <3>2, <4>1, <4>3 DEF PopResult
    <3> QED BY <3>1, <3>2
  <2>2. TypeParts'
    BY <1>1, <1>5, <2>1, Untouched
    DEF TypeParts, CallbackTypes, ServerTypes, ResultTypes, PopResult, appVars, srvVars, userVars, toolVars
  <2> QED BY <1>1, <1>5, <2>1, <2>2 DEF CallInv, AppShape, PopResult, appVars, toolVars
<1>6. CASE FindResult
  <2>1. cb' \in CbSet /\ cb'.act \in {cb.act, "none"}
    <3>1. cb.idx \in Index /\ res[cb.idx].obj \in CallNo
      BY <1>0 DEF CbSet, Result
    <3>2. [cb EXCEPT !.pc = "set", !.obj = res[cb.idx].obj] \in CbSet
          /\ [cb EXCEPT !.pc = "set", !.obj = res[cb.idx].obj].act = cb.act
      BY <1>0, <3>1 DEF CbSet
    <3> QED BY <1>3, <1>6, <3>2 DEF FindResult
  <2>2. TypeParts'
    BY <1>1, <1>6, <2>1, Untouched
    DEF TypeParts, CallbackTypes, ServerTypes, FindResult, appVars, srvVars, userVars, toolVars
  <2> QED BY <1>1, <1>6, <2>1, <2>2 DEF CallInv, AppShape, FindResult, appVars, toolVars
<1>7. CASE SetResult
  <2>1. cb' \in CbSet /\ cb'.act = "none"
    BY <1>2, <1>3, <1>7 DEF SetResult
  <2>2. /\ res' \in [Index -> Result] /\ \A i \in Index : res'[i].keep = res[i].keep
        /\ user' \in [Index -> {"idle", "get", "quit", "process", "next", "send", "drop"}]
        /\ \A i \in Index : user'[i] = user[i] \/ res[i].keep
    <3>1. CASE res[cb.idx].obj # cb.obj
      BY <1>0, <1>7, <3>1 DEF SetResult
    <3>2. CASE res[cb.idx].obj = cb.obj
      <4>1. cb.idx \in Index /\ cb.ans \in AnswerType
        BY <1>0 DEF CbSet
      <4>2. PICK d \in CallNo : d = IF cb.act = "cancel" THEN 0 ELSE cb.ans.data
        BY <1>0, <4>1 DEF AnswerType
      <4>3. PICK r0 \in Result, a \in AnswerType : r0 = res[cb.idx] /\ a = cb.ans
        BY <1>0, <4>1
      <4>4. PICK r : r = [r0 EXCEPT !.by = a.call, !.ok = a.ok, !.data = d]
        OBVIOUS
      <4>5. r \in Result /\ r.keep = res[cb.idx].keep
        BY <4>3, <4>4 DEF Result, AnswerType
      <4>6. /\ res' = [res EXCEPT ![cb.idx] = r]
            /\ user' = IF res[cb.idx].keep THEN [user EXCEPT ![cb.idx] = "get"] ELSE user
        BY <1>7, <3>2, <4>2, <4>3, <4>4 DEF SetResult
      <4> QED BY <1>0, <4>1, <4>5, <4>6
    <3> QED BY <3>1, <3>2
  <2>3. TypeParts'
    BY <1>1, <1>7, <2>1, <2>2, Untouched
    DEF TypeParts, CallbackTypes, ResultTypes, ToolTypes, SetResult, appVars, srvVars, userVars
  <2> QED BY <1>1, <1>7, <2>1, <2>2, <2>3 DEF CallInv, AppShape, SetResult, appVars
<1> QED BY <1>4, <1>5, <1>6, <1>7 DEF Callback

\* The application that reads a card.
LEMMA DataTyped == Typed /\ (WaitFails \/ GetData \/ Cancel) => Typed'
<1> SUFFICES ASSUME Typed, WaitFails \/ GetData \/ Cancel PROVE Typed'
    OBVIOUS
<1> USE ClientAssumption DEF Typed
<1>0. /\ queue \in Seq(Index) /\ res \in [Index -> Result] /\ mine \in [idx : Index, call : CallNo]
      /\ cash \in [idx : Index \cup {-1}, card : CallNo, left : SUBSET Tracks] /\ 0 \in CallNo
  BY DEF TypeParts, ResultTypes, AppTypes, UserTypes, CallNo
<1>1. CASE WaitFails
  <2>1. queue' \in Seq(Index)
    BY <1>0, <1>1, WithoutType DEF WaitFails
  <2>2. NoResult \in Result /\ ~NoResult.keep
    BY <1>0 DEF NoResult, Result
  <2>3. res' \in [Index -> Result] /\ \A i \in Index : res'[i].keep => res[i].keep
    BY <1>0, <1>1, <2>2 DEF WaitFails
  <2>4. TypeParts'
    BY <1>1, <2>1, <2>3, Untouched DEF TypeParts, WaitFails, ResultTypes, appVars, srvVars, userVars, toolVars
  <2> QED BY <1>1, <2>3, <2>4 DEF CallInv, AppShape, WaitFails, appVars, toolVars
<1>2. CASE GetData
  <2>1. PICK t \in Tracks, copy \in BOOLEAN : GetCashed(t, copy) \/ GetResult(t, copy)
    BY <1>2 DEF GetData
  <2>2. NoCard \in [idx : Index \cup {-1}, card : CallNo, left : SUBSET Tracks]
    BY <1>0 DEF NoCard
  <2>3. CASE GetCashed(t, copy)
    <3>1. got' \in [for : CallNo, card : CallNo]
      BY <1>0, <2>3 DEF GetCashed
    <3>2. cash' \in [idx : Index \cup {-1}, card : CallNo, left : SUBSET Tracks]
      BY <1>0, <2>2, <2>3 DEF GetCashed
    <3> QED
      BY <2>3, <3>1, <3>2, Untouched
      DEF TypeParts, UserTypes, GetCashed, appVars, srvVars, toolVars, CallInv, AppShape
  <2>4. CASE GetResult(t, copy)
    <3>1. PICK card \in CallNo : card = IF res[mine.idx].ok THEN res[mine.idx].data ELSE 0
      BY <1>0 DEF Result
    <3>2. /\ got' = [for |-> mine.call, card |-> card]
          /\ cash' = IF card = 0 THEN NoCard
                      ELSE [idx |-> mine.idx, card |-> card,
                            left |-> IF copy THEN Tracks \ {t} ELSE Tracks]
      BY <2>4, <3>1 DEF GetResult
    <3>3. got' \in [for : CallNo, card : CallNo]
      BY <1>0, <3>2
    <3>4. cash' \in [idx : Index \cup {-1}, card : CallNo, left : SUBSET Tracks]
      BY <1>0, <2>2, <3>2
    <3> QED
      BY <2>4, <3>3, <3>4, Untouched
      DEF TypeParts, UserTypes, GetResult, appVars, srvVars, toolVars, CallInv, AppShape
  <2> QED BY <2>1, <2>3, <2>4
<1>3. CASE Cancel
  <2>1. TypeParts'
    BY <1>3, Untouched DEF TypeParts, ToolTypes, Cancel, appVars, srvVars, userVars
  <2> QED BY <1>3, <2>1 DEF CallInv, AppShape, Cancel, appVars
<1> QED BY <1>1, <1>2, <1>3

\* The threads of the settings.
LEMMA PhaseTyped == Typed /\ Phase => Typed'
<1> SUFFICES ASSUME Typed, Phase PROVE Typed'
    OBVIOUS
<1> USE ClientAssumption DEF Typed
<1>0. /\ queue \in Seq(Index) /\ res \in [Index -> Result]
      /\ item \in [Index -> {"none", "new", "set"}]
      /\ user \in [Index -> {"idle", "get", "quit", "process", "next", "send", "drop"}]
      /\ cancel \in BOOLEAN /\ early \in BOOLEAN /\ todo \in 0 .. Phases - 1
      /\ calls \in Nat /\ calls <= MaxCalls /\ app \in AppSet /\ Owed(app) \in Nat
  BY OwedIsNat DEF TypeParts, ResultTypes, ToolTypes, AppTypes, CallNo
<1>1. UNCHANGED phaseVars
  BY DEF Phase, FillEntry, GetEntry, Process, NextPhase, NoPhase, EndPhases
<1>2. /\ UNCHANGED <<gap, counter, late, mine, last, sent, reading, answers, cb, dropped, cash, got, lib>>
  BY <1>1 DEF phaseVars, srvVars, userVars
<1>3. lib = "tools"
  BY <1>0 DEF TypeParts, ToolTypes, CallInv, Phase, FillEntry, GetEntry, Process, NextPhase, NoPhase, EndPhases
<1>4. CASE NextPhase(0) \/ \E i \in Index : NextPhase(i)
  <2>1. PICK i \in Index : NextPhase(i)
    BY <1>4 DEF Index
  <2>2. app.pc = "idle" /\ todo > 0 /\ calls' = calls + 1 /\ todo' = todo - 1
        /\ UNCHANGED <<queue, item, cancel, early>>
    BY <2>1 DEF NextPhase
  <2>3. app' = [pc |-> "send", op |-> "phase", act |-> "transmit", idx |-> i, call |-> calls + 1, ok |-> TRUE]
    BY <2>1 DEF NextPhase, NoApp
  <2>4. Owed(app') = 0 /\ AppShape'
    BY <2>3 DEF Owed, AppShape
  <2>5. calls' + Owed(app') + todo' <= MaxCalls /\ calls' \in CallNo
    <3>1. calls + Owed(app) + todo <= MaxCalls
      BY DEF CallInv
    <3> QED BY <1>0, <2>2, <2>4, <3>1 DEF CallNo
  <2>6. app' \in AppSet
    BY <2>2, <2>3, <2>5 DEF AppSet, Ops, Acts
  <2>7. /\ res' \in [Index -> Result] /\ todo' \in 0 .. Phases - 1
        /\ user' \in [Index -> {"idle", "get", "quit", "process", "next", "send", "drop"}]
    <3>1. res[i] \in Result /\ 0 \in CallNo
      BY <1>0 DEF CallNo
    <3>2. PICK r : r = [res[i] EXCEPT !.call = calls + 1, !.by = 0]
      OBVIOUS
    <3>3. r \in Result
      BY <2>2, <2>5, <3>1, <3>2 DEF Result
    <3>4. res' = [res EXCEPT ![i] = r]
      BY <2>1, <3>2 DEF NextPhase
    <3> QED BY <1>0, <2>1, <2>2, <3>3, <3>4 DEF NextPhase
  <2>8. TypeParts'
    BY <1>0, <1>2, <2>2, <2>5, <2>6, <2>7, Untouched DEF TypeParts, AppTypes, ResultTypes, ToolTypes
  <2> QED BY <1>2, <1>3, <2>3, <2>4, <2>5, <2>8 DEF CallInv
<1>5. CASE FillEntry \/ \E i \in Index : GetEntry(i) \/ Process(i) \/ NoPhase(i) \/ EndPhases(i)
  <2>1. UNCHANGED <<app, calls, todo>>
    BY <1>5 DEF FillEntry, GetEntry, Process, NoPhase, EndPhases
  <2>2. /\ queue' \in Seq(Index) /\ res' \in [Index -> Result]
        /\ item' \in [Index -> {"none", "new", "set"}]
        /\ user' \in [Index -> {"idle", "get", "quit", "process", "next", "send", "drop"}]
        /\ cancel' \in BOOLEAN /\ early' \in BOOLEAN
    <3>1. CASE FillEntry
      BY <1>0, <3>1 DEF FillEntry
    <3>2. CASE \E i \in Index : GetEntry(i)
      BY <1>0, <3>2 DEF GetEntry
    <3>3. CASE \E i \in Index : Process(i) \/ NoPhase(i)
      BY <1>0, <3>3 DEF Process, NoPhase
    <3>4. ASSUME NEW i \in Index, EndPhases(i)
          PROVE  /\ queue' \in Seq(Index) /\ res' \in [Index -> Result]
                 /\ item' \in [Index -> {"none", "new", "set"}]
                 /\ user' \in [Index -> {"idle", "get", "quit", "process", "next", "send", "drop"}]
                 /\ cancel' \in BOOLEAN /\ early' \in BOOLEAN
      <4>1. Without(queue, i) \in Seq(Index)
        BY <1>0, WithoutType
      <4>2. NoResult \in Result
        BY DEF NoResult, Result, CallNo
      <4> QED BY <1>0, <3>4, <4>1, <4>2 DEF EndPhases
    <3> QED BY <1>5, <3>1, <3>2, <3>3, <3>4
  <2>3. TypeParts'
    BY <1>2, <2>1, <2>2, Untouched DEF TypeParts, AppTypes, ResultTypes, ToolTypes
  <2> QED BY <1>2, <1>3, <2>1, <2>3 DEF CallInv, AppShape
<1> QED BY <1>4, <1>5 DEF Phase

\* The invariant of the types.
LEMMA TypedStep == Typed /\ [Next]_vars => Typed'
<1> SUFFICES ASSUME Typed, [Next]_vars PROVE Typed'
    OBVIOUS
<1>1. CASE Next
  BY <1>1, BeginTyped, CallTyped, ServerTyped, CallbackTyped, DataTyped, PhaseTyped DEF Next
<1>2. CASE UNCHANGED vars
  <2>1. UNCHANGED <<app, gap, counter, calls, late, mine, queue, res, last, sent, reading, answers,
                    cb, cash, got, dropped, lib, item, user, todo, cancel, early>>
    BY <1>2 DEF vars, appVars, srvVars, userVars, toolVars
  <2> QED BY <2>1, Untouched DEF Typed, TypeParts, CallInv, AppShape
<1> QED BY <1>1, <1>2

\* The types and what calls owe hold at first.
LEMMA TypedInit == Init => Typed
<1> SUFFICES ASSUME Init PROVE Typed
    OBVIOUS
<1> USE ClientAssumption
<1>1. 0 \in CallNo /\ 0 \in Index
  BY DEF CallNo, Index
<1>2. app = [pc |-> "create", op |-> "reset", act |-> "cancel", idx |-> 0, call |-> 0, ok |-> TRUE]
  BY DEF Init, NoApp
<1>3. app \in AppSet /\ Owed(app) = 1 /\ AppShape
  BY <1>1, <1>2 DEF AppSet, Owed, AppShape, Ops, Acts
<1>4. NoAnswer \in AnswerType
  BY <1>1 DEF NoAnswer, Answer, AnswerType
<1>5. cb \in CbSet /\ cb.act = "none"
  BY <1>1, <1>4 DEF Init, NoCb, CbSet
<1>6. NoResult \in Result /\ ~NoResult.keep
  BY <1>1 DEF NoResult, Result
<1>7. AppTypes /\ ResultTypes
  BY <1>1, <1>3, <1>6 DEF Init, AppTypes, ResultTypes
<1>8. ServerTypes /\ CallbackTypes /\ ToolTypes
  <2>1. ServerTypes
    BY DEF Init, ServerTypes
  <2>2. CallbackTypes
    BY <1>5 DEF Init, CallbackTypes
  <2>3. ToolTypes
    <3>1. lib \in {"dll", "tools"} /\ cancel \in BOOLEAN /\ early \in BOOLEAN
      BY DEF Init
    <3>2. item = [i \in Index |-> "none"] /\ user = [i \in Index |-> "idle"]
      BY DEF Init
    <3>3. todo \in 0 .. Phases - 1
      BY DEF Init
    <3> QED BY <3>1, <3>2, <3>3 DEF ToolTypes
  <2> QED BY <2>1, <2>2, <2>3
<1>9. UserTypes
  BY <1>1 DEF Init, UserTypes, NoCard
<1>10. CallInv
  BY <1>2, <1>3, <1>5, <1>6 DEF Init, CallInv
<1> QED BY <1>7, <1>8, <1>9, <1>10 DEF Typed, TypeParts

\* TypesInvariant: every variable keeps its type.
THEOREM TypesInvariant == Spec => []TypeOK
<1>1. Typed => TypeOK
  BY PartsAreTypes DEF Typed
<1> QED BY <1>1, TypedInit, TypedStep, PTL DEF Spec

-----------------------------------------------------------------------------
(* What is on its way, in the order of the requests.                       *)

\* The members of a sequence.
In(q) == {q[k] : k \in 1 .. Len(q)}

\* The calls of the answers, of the reads that wait and of the requests that
\* the server has not looked at, as they come.
LineOf(a, r, s) ==
    [k \in 1 .. Len(a) + Len(r) + Len(s) |->
        IF k <= Len(a) THEN a[k].call
        ELSE IF k <= Len(a) + Len(r) THEN r[k - Len(a)]
        ELSE s[k - Len(a) - Len(r)].call]
Line == LineOf(answers, reading, sent)
\* No member comes before a smaller one, or twice.
Rising(q) == \A j, k \in 1 .. Len(q) : j < k => q[j] < q[k]

\* Short sequences.
LEMMA InShort ==
    /\ In(<< >>) = {}
    /\ \A a : In(<<a>>) = {a} /\ Len(<<a>>) = 1 /\ Head(<<a>>) = a /\ Tail(<<a>>) = << >>
    /\ \A a, b : In(<<a, b>>) = {a, b} /\ Len(<<a, b>>) = 2 /\ Head(<<a, b>>) = a
                 /\ Tail(<<a, b>>) = <<b>> /\ Append(<<a>>, b) = <<a, b>>
    /\ \A a : Append(<< >>, a) = <<a>>
<1>1. In(<< >>) = {}
  BY DEF In
<1>2. ASSUME NEW a PROVE In(<<a>>) = {a} /\ Len(<<a>>) = 1 /\ Head(<<a>>) = a /\ Tail(<<a>>) = << >>
  <2>1. Len(<<a>>) = 1 /\ Head(<<a>>) = a /\ Tail(<<a>>) = << >> /\ <<a>>[1] = a
    OBVIOUS
  <2>2. 1 .. 1 = {1}
    OBVIOUS
  <2> QED BY <2>1, <2>2 DEF In
<1>3. ASSUME NEW a, NEW b
      PROVE  In(<<a, b>>) = {a, b} /\ Len(<<a, b>>) = 2 /\ Head(<<a, b>>) = a
             /\ Tail(<<a, b>>) = <<b>> /\ Append(<<a>>, b) = <<a, b>>
  <2>1. Len(<<a, b>>) = 2 /\ <<a, b>>[1] = a /\ <<a, b>>[2] = b
    OBVIOUS
  <2>3. Head(<<a, b>>) = a
    OBVIOUS
  <2>4. Tail(<<a, b>>) = <<b>>
    OBVIOUS
  <2>5. Append(<<a>>, b) = <<a, b>>
    <3> DEFINE S == {a, b}
    <3>1. <<a>> \in Seq(S) /\ b \in S /\ <<a, b>> \in Seq(S)
      OBVIOUS
    <3>2. /\ Append(<<a>>, b) \in Seq(S) /\ Len(Append(<<a>>, b)) = 2
          /\ Append(<<a>>, b)[1] = a /\ Append(<<a>>, b)[2] = b
      <4>1. Len(<<a>>) = 1 /\ <<a>>[1] = a
        OBVIOUS
      <4> HIDE DEF S
      <4> QED BY <3>1, <4>1, AppendProperties
    <3>3. Len(<<a, b>>) = 2 /\ <<a, b>>[1] = a /\ <<a, b>>[2] = b
      OBVIOUS
    <3>4. \A i \in 1 .. 2 : Append(<<a>>, b)[i] = <<a, b>>[i]
      BY <3>2, <3>3
    <3> HIDE DEF S
    <3> QED BY <3>1, <3>2, <3>3, <3>4, SeqEqual
  <2>2. 1 .. 2 = {1, 2}
    OBVIOUS
  <2> QED BY <2>1, <2>2, <2>3, <2>4, <2>5 DEF In
<1>4. \A a : Append(<< >>, a) = <<a>>
  OBVIOUS
<1> QED BY <1>1, <1>2, <1>3, <1>4

\* What the line is.
LEMMA LineIs ==
    ASSUME NEW a \in Seq(AnswerType), NEW r \in Seq(CallNo), NEW s \in Seq(Requested)
    PROVE  /\ Len(LineOf(a, r, s)) = Len(a) + Len(r) + Len(s)
           /\ LineOf(a, r, s) \in Seq(CallNo)
           /\ Len(a) \in Nat /\ Len(r) \in Nat /\ Len(s) \in Nat
           /\ \A k \in 1 .. Len(a) + Len(r) + Len(s) :
                /\ k <= Len(a) => LineOf(a, r, s)[k] = a[k].call
                /\ k > Len(a) /\ k <= Len(a) + Len(r) => LineOf(a, r, s)[k] = r[k - Len(a)]
                /\ k > Len(a) + Len(r) => LineOf(a, r, s)[k] = s[k - Len(a) - Len(r)].call
<1> DEFINE n == Len(a) + Len(r) + Len(s)
           e(k) == IF k <= Len(a) THEN a[k].call
                   ELSE IF k <= Len(a) + Len(r) THEN r[k - Len(a)]
                   ELSE s[k - Len(a) - Len(r)].call
<1>1. Len(a) \in Nat /\ Len(r) \in Nat /\ Len(s) \in Nat
  OBVIOUS
<1>2. ASSUME NEW k \in 1 .. n PROVE e(k) \in CallNo
  <2>1. CASE k <= Len(a)
    <3>1. a[k] \in AnswerType
      BY <1>1, <2>1
    <3> QED BY <2>1, <3>1 DEF AnswerType
  <2>2. CASE k > Len(a) /\ k <= Len(a) + Len(r)
    <3>1. k - Len(a) \in 1 .. Len(r)
      BY <1>1, <2>2
    <3> QED BY <1>1, <2>2, <3>1
  <2>3. CASE k > Len(a) + Len(r)
    <3>1. k - Len(a) - Len(r) \in 1 .. Len(s)
      BY <1>1, <2>3
    <3>2. s[k - Len(a) - Len(r)] \in Requested
      BY <3>1
    <3> QED BY <1>1, <2>3, <3>2 DEF Requested
  <2> QED BY <1>1, <2>1, <2>2, <2>3
<1>3. LineOf(a, r, s) = [k \in 1 .. n |-> e(k)]
  BY DEF LineOf
<1>4. \A k \in 1 .. n :
        /\ k <= Len(a) => e(k) = a[k].call
        /\ k > Len(a) /\ k <= Len(a) + Len(r) => e(k) = r[k - Len(a)]
        /\ k > Len(a) + Len(r) => e(k) = s[k - Len(a) - Len(r)].call
  BY <1>1
<1>5. n \in Nat
  BY <1>1
<1> HIDE DEF e
<1>6. LineOf(a, r, s) \in Seq(CallNo) /\ Len(LineOf(a, r, s)) = n
  <2> HIDE DEF n
  <2> QED BY <1>2, <1>3, <1>5
<1> QED BY <1>1, <1>3, <1>4, <1>6

\* What is still to come is what the callback has taken, and the line.
LEMMA ComingIs ==
    Typed => Coming = (IF cb.pc = "pop" THEN {cb.ans.call} ELSE {}) \cup In(Line)
<1> SUFFICES ASSUME Typed
             PROVE  Coming = (IF cb.pc = "pop" THEN {cb.ans.call} ELSE {}) \cup In(Line)
    OBVIOUS
<1>1. answers \in Seq(AnswerType) /\ reading \in Seq(CallNo) /\ sent \in Seq(Requested)
  BY DEF Typed, TypeParts, ServerTypes
<1> DEFINE la == Len(answers)
           lr == Len(reading)
           ls == Len(sent)
<1>2. /\ la \in Nat /\ lr \in Nat /\ ls \in Nat /\ Len(Line) = la + lr + ls
      /\ \A k \in 1 .. la + lr + ls :
           /\ k <= la => Line[k] = answers[k].call
           /\ k > la /\ k <= la + lr => Line[k] = reading[k - la]
           /\ k > la + lr => Line[k] = sent[k - la - lr].call
  BY <1>1, LineIs DEF Line
<1> DEFINE C == {answers[k].call : k \in 1 .. la} \cup {reading[k] : k \in 1 .. lr}
                  \cup {sent[k].call : k \in 1 .. ls}
<1>3. ASSUME NEW c \in C PROVE c \in In(Line)
  <2>1. CASE \E k \in 1 .. la : c = answers[k].call
    <3>1. PICK k \in 1 .. la : c = answers[k].call
      BY <2>1
    <3>2. k \in 1 .. la + lr + ls /\ Line[k] = c
      BY <1>2, <3>1
    <3> QED BY <1>2, <3>2 DEF In
  <2>2. CASE \E k \in 1 .. lr : c = reading[k]
    <3>1. PICK k \in 1 .. lr : c = reading[k]
      BY <2>2
    <3>2. k + la \in 1 .. la + lr + ls /\ k + la > la /\ k + la <= la + lr /\ (k + la) - la = k
      BY <1>2
    <3>3. Line[k + la] = c
      BY <1>2, <3>1, <3>2
    <3> QED BY <1>2, <3>2, <3>3 DEF In
  <2>3. CASE \E k \in 1 .. ls : c = sent[k].call
    <3>1. PICK k \in 1 .. ls : c = sent[k].call
      BY <2>3
    <3>2. k + la + lr \in 1 .. la + lr + ls /\ k + la + lr > la + lr /\ (k + la + lr) - la - lr = k
      BY <1>2
    <3>3. Line[k + la + lr] = c
      BY <1>2, <3>1, <3>2
    <3> QED BY <1>2, <3>2, <3>3 DEF In
  <2> QED BY <2>1, <2>2, <2>3
<1>4. ASSUME NEW c \in In(Line) PROVE c \in C
  <2>1. PICK k \in 1 .. la + lr + ls : c = Line[k]
    BY <1>2 DEF In
  <2>2. CASE k <= la
    <3>1. k \in 1 .. la /\ c = answers[k].call
      BY <1>2, <2>1, <2>2
    <3> QED BY <3>1
  <2>3. CASE k > la /\ k <= la + lr
    <3>1. k - la \in 1 .. lr /\ c = reading[k - la]
      BY <1>2, <2>1, <2>3
    <3> QED BY <3>1
  <2>4. CASE k > la + lr
    <3>1. k - la - lr \in 1 .. ls /\ c = sent[k - la - lr].call
      BY <1>2, <2>1, <2>4
    <3> QED BY <3>1
  <2> QED BY <1>2, <2>2, <2>3, <2>4
<1>5. Coming = (IF cb.pc = "pop" THEN {cb.ans.call} ELSE {}) \cup C
  BY DEF Coming
<1>6. C = In(Line)
  BY <1>3, <1>4
<1> QED BY <1>5, <1>6

\* The lengths and the members of the line, as it is.
LEMMA LineNow ==
    ASSUME Typed
    PROVE  /\ answers \in Seq(AnswerType) /\ reading \in Seq(CallNo) /\ sent \in Seq(Requested)
           /\ Len(answers) \in Nat /\ Len(reading) \in Nat /\ Len(sent) \in Nat
           /\ Len(Line) = Len(answers) + Len(reading) + Len(sent) /\ Line \in Seq(CallNo)
           /\ \A k \in 1 .. Len(answers) + Len(reading) + Len(sent) :
                /\ k <= Len(answers) => Line[k] = answers[k].call
                /\ k > Len(answers) /\ k <= Len(answers) + Len(reading)
                     => Line[k] = reading[k - Len(answers)]
                /\ k > Len(answers) + Len(reading)
                     => Line[k] = sent[k - Len(answers) - Len(reading)].call
<1>1. answers \in Seq(AnswerType) /\ reading \in Seq(CallNo) /\ sent \in Seq(Requested)
  BY DEF Typed, TypeParts, ServerTypes
<1> QED BY <1>1, LineIs DEF Line

\* A line, with the lengths of its parts.
IsLine(line, a, r, s, la, lr, ls) ==
    /\ Len(line) = la + lr + ls
    /\ \A k \in 1 .. la + lr + ls :
         /\ k <= la => line[k] = a[k].call
         /\ k > la /\ k <= la + lr => line[k] = r[k - la]
         /\ k > la + lr => line[k] = s[k - la - lr].call

\* The line of any three sequences is their line.
LEMMA LineIsLine ==
    ASSUME NEW a \in Seq(AnswerType), NEW r \in Seq(CallNo), NEW s \in Seq(Requested)
    PROVE  /\ IsLine(LineOf(a, r, s), a, r, s, Len(a), Len(r), Len(s))
           /\ LineOf(a, r, s) \in Seq(CallNo)
  BY LineIs DEF IsLine

\* A read begins to wait.
LEMMA ReadWaits ==
    ASSUME NEW a \in Seq(AnswerType), NEW r \in Seq(CallNo), NEW s \in Seq(Requested), s # << >>
    PROVE  LineOf(a, Append(r, Head(s).call), Tail(s)) = LineOf(a, r, s)
<1>1. PICK q : q = Append(r, Head(s).call)
  OBVIOUS
<1>2. PICK t : t = Tail(s)
  OBVIOUS
<1>3. Head(s) \in Requested /\ Head(s) = s[1]
  OBVIOUS
<1>4. Head(s).call \in CallNo
  BY <1>3 DEF Requested
<1>5. q \in Seq(CallNo) /\ t \in Seq(Requested)
  BY <1>1, <1>2, <1>4
<1>6. PICK la \in Nat, lr \in Nat, ls \in Nat : la = Len(a) /\ lr = Len(r) /\ ls = Len(s)
  OBVIOUS
<1>7. /\ Len(q) = lr + 1 /\ Len(t) = ls - 1 /\ ls >= 1
      /\ q[lr + 1] = s[1].call /\ \A j \in 1 .. lr : q[j] = r[j]
      /\ \A j \in 1 .. ls - 1 : t[j] = s[j + 1]
  BY <1>1, <1>2, <1>3, <1>4, <1>6
<1>8. PICK new : new = LineOf(a, q, t)
  OBVIOUS
<1>9. PICK old : old = LineOf(a, r, s)
  OBVIOUS
<1>l. PICK lq \in Nat, lt \in Nat : lq = Len(q) /\ lt = Len(t)
  BY <1>5
<1>m. lq = lr + 1 /\ lt = ls - 1
  BY <1>7, <1>l
<1>t. /\ IsLine(new, a, q, t, Len(a), Len(q), Len(t))
      /\ IsLine(old, a, r, s, Len(a), Len(r), Len(s))
      /\ new \in Seq(CallNo) /\ old \in Seq(CallNo)
  BY <1>5, <1>8, <1>9, LineIsLine, Zenon
<1>u. IsLine(new, a, q, t, la, lq, lt) /\ IsLine(old, a, r, s, la, lr, ls)
  BY <1>6, <1>l, <1>t, Zenon
<1>10. /\ Len(old) = la + lr + ls
       /\ \A k \in 1 .. la + lr + ls :
           /\ k <= la => old[k] = a[k].call
           /\ k > la /\ k <= la + lr => old[k] = r[k - la]
           /\ k > la + lr => old[k] = s[k - la - lr].call
  BY <1>u DEF IsLine
<1>11. /\ Len(new) = la + lq + lt
       /\ \A k \in 1 .. la + lq + lt :
           /\ k <= la => new[k] = a[k].call
           /\ k > la /\ k <= la + lq => new[k] = q[k - la]
           /\ k > la + lq => new[k] = t[k - la - lq].call
  BY <1>u DEF IsLine
<1>12. ASSUME NEW k \in 1 .. la + lr + ls PROVE new[k] = old[k]
  <2>0. k \in 1 .. la + lq + lt
    BY <1>m
  <2>1. CASE k <= la
    BY <1>10, <1>11, <2>0, <2>1
  <2>2. CASE k > la /\ k <= la + lr
    <3>1. k - la \in 1 .. lr /\ k <= la + lq
      BY <1>m, <2>2
    <3>2. q[k - la] = r[k - la]
      BY <1>7, <3>1
    <3> QED BY <1>10, <1>11, <2>0, <2>2, <3>1, <3>2
  <2>3. CASE k = la + lr + 1
    <3>1. k - la = lr + 1 /\ k - la - lr = 1 /\ k > la /\ k <= la + lq /\ k > la + lr
      BY <1>m, <2>3
    <3>2. new[k] = q[lr + 1]
      BY <1>11, <2>0, <3>1
    <3>3. old[k] = s[1].call
      BY <1>10, <3>1
    <3> QED BY <1>7, <3>2, <3>3
  <2>4. CASE k > la + lr + 1
    <3>1. PICK j \in 1 .. ls - 1 : j = k - la - lq
      BY <1>m, <2>4
    <3>2. j + 1 = k - la - lr /\ k > la + lq /\ k > la + lr
      BY <1>m, <2>4, <3>1
    <3>3. new[k] = t[j].call
      BY <1>11, <2>0, <3>1, <3>2
    <3>4. old[k] = s[j + 1].call
      BY <1>10, <3>2
    <3> QED BY <1>7, <3>3, <3>4
  <2>5. k <= la \/ (k > la /\ k <= la + lr) \/ k = la + lr + 1 \/ k > la + lr + 1
    OBVIOUS
  <2> QED BY <2>1, <2>2, <2>3, <2>4, <2>5
<1>13. new \in Seq(CallNo) /\ old \in Seq(CallNo) /\ Len(new) = Len(old) /\ Len(old) = la + lr + ls
  <2>1. new \in Seq(CallNo) /\ old \in Seq(CallNo)
    BY <1>t
  <2> QED BY <1>10, <1>11, <1>m, <2>1
<1>14. new = old
  BY <1>12, <1>13, SeqEqual
<1> QED BY <1>1, <1>2, <1>8, <1>9, <1>14

\* The answers b: those that were there, those of the reads and that of a call.
Answered(b, a, r, call) ==
    /\ Len(b) = Len(a) + Len(r) + 1
    /\ \A k \in 1 .. Len(a) : b[k] = a[k]
    /\ \A j \in 1 .. Len(r) : b[Len(a) + j].call = r[j]
    /\ b[Len(a) + Len(r) + 1].call = call

\* What was asked or read, a, r and s, is answered, and is b, q and t.
Moved(a, r, s, b, q, t) ==
    /\ a \in Seq(AnswerType) /\ r \in Seq(CallNo) /\ s \in Seq(Requested)
    /\ b \in Seq(AnswerType) /\ q \in Seq(CallNo) /\ t \in Seq(Requested)
    /\ q = << >> /\ t = Tail(s) /\ s # << >> /\ Answered(b, a, r, Head(s).call)

\* The reads that wait are answered, and then the first request: none of it
\* changes its place in the line.
LEMMA AllMove ==
    ASSUME NEW a, NEW r, NEW s, NEW b, NEW q, NEW t, Moved(a, r, s, b, q, t)
    PROVE  LineOf(b, q, t) = LineOf(a, r, s)
<1>0. /\ a \in Seq(AnswerType) /\ r \in Seq(CallNo) /\ s \in Seq(Requested)
      /\ b \in Seq(AnswerType) /\ q \in Seq(CallNo) /\ t \in Seq(Requested)
  BY DEF Moved
<1>3. PICK la \in Nat, lr \in Nat, ls \in Nat : la = Len(a) /\ lr = Len(r) /\ ls = Len(s)
  BY <1>0
<1>l. PICK lb \in Nat, lq \in Nat, lt \in Nat : lb = Len(b) /\ lq = Len(q) /\ lt = Len(t)
  BY <1>0
<1>8. PICK new : new = LineOf(b, q, t)
  OBVIOUS
<1>9. PICK old : old = LineOf(a, r, s)
  OBVIOUS
<1>t. /\ IsLine(new, b, q, t, Len(b), Len(q), Len(t)) /\ new \in Seq(CallNo)
      /\ IsLine(old, a, r, s, Len(a), Len(r), Len(s)) /\ old \in Seq(CallNo)
  BY <1>0, <1>8, <1>9, LineIsLine, Zenon
<1>u. IsLine(new, b, q, t, lb, lq, lt) /\ IsLine(old, a, r, s, la, lr, ls)
  BY <1>3, <1>l, <1>t, Zenon
<1>10. /\ Len(old) = la + lr + ls
       /\ \A k \in 1 .. la + lr + ls :
           /\ k <= la => old[k] = a[k].call
           /\ k > la /\ k <= la + lr => old[k] = r[k - la]
           /\ k > la + lr => old[k] = s[k - la - lr].call
  BY <1>u DEF IsLine
<1>11. /\ Len(new) = lb + lq + lt
       /\ \A k \in 1 .. lb + lq + lt :
           /\ k <= lb => new[k] = b[k].call
           /\ k > lb /\ k <= lb + lq => new[k] = q[k - lb]
           /\ k > lb + lq => new[k] = t[k - lb - lq].call
  BY <1>u DEF IsLine
<1>h. /\ q = << >> /\ t = Tail(s) /\ s # << >> /\ Len(b) = Len(a) + Len(r) + 1
      /\ \A k \in 1 .. Len(a) : b[k] = a[k]
      /\ \A j \in 1 .. Len(r) : b[Len(a) + j].call = r[j]
      /\ b[Len(a) + Len(r) + 1].call = Head(s).call
  BY Zenon DEF Moved, Answered
<1>4. /\ \A k \in 1 .. la : b[k] = a[k]
      /\ \A j \in 1 .. lr : b[la + j].call = r[j]
      /\ b[la + lr + 1].call = s[1].call
  <2>1. Head(s) = s[1]
    BY <1>0, <1>h
  <2>2. /\ \A k \in 1 .. la : b[k] = a[k]
        /\ \A j \in 1 .. lr : b[la + j].call = r[j]
        /\ b[la + lr + 1].call = Head(s).call
    BY <1>3, <1>h, Zenon
  <2> QED BY <2>1, <2>2
<1>5. lt = ls - 1 /\ ls >= 1 /\ \A j \in 1 .. ls - 1 : t[j] = s[j + 1]
  BY <1>0, <1>3, <1>l, <1>h
<1>m. lb = la + lr + 1 /\ lq = 0
  BY <1>0, <1>3, <1>l, <1>h
<1>12. ASSUME NEW k \in 1 .. la + lr + ls PROVE new[k] = old[k]
  <2>0. k \in 1 .. lb + lq + lt
    BY <1>m, <1>5
  <2>1. CASE k <= la
    <3>1. k <= lb /\ k \in 1 .. la
      BY <1>m, <2>1
    <3>2. new[k] = b[k].call /\ old[k] = a[k].call
      BY <1>10, <1>11, <2>0, <2>1, <3>1
    <3> QED BY <1>4, <3>1, <3>2
  <2>2. CASE k > la /\ k <= la + lr
    <3>1. PICK j \in 1 .. lr : j = k - la
      BY <2>2
    <3>2. k = la + j /\ k <= lb
      BY <1>m, <2>2, <3>1
    <3>3. new[k] = b[k].call
      BY <1>11, <2>0, <3>2
    <3>4. old[k] = r[j]
      BY <1>10, <2>2, <3>1
    <3> QED BY <1>4, <3>2, <3>3, <3>4
  <2>3. CASE k = la + lr + 1
    <3>1. k - la - lr = 1 /\ k > la + lr /\ k <= lb
      BY <1>m, <2>3
    <3>2. new[k] = b[k].call
      BY <1>11, <2>0, <3>1
    <3>3. old[k] = s[1].call
      BY <1>10, <3>1
    <3> QED BY <1>4, <2>3, <3>2, <3>3
  <2>4. CASE k > la + lr + 1
    <3>1. PICK j \in 1 .. ls - 1 : j = k - lb - lq
      BY <1>m, <2>4
    <3>2. j + 1 = k - la - lr /\ k > lb + lq /\ k > la + lr
      BY <1>m, <2>4, <3>1
    <3>3. new[k] = t[j].call
      BY <1>11, <2>0, <3>1, <3>2
    <3>4. old[k] = s[j + 1].call
      BY <1>10, <3>2
    <3> QED BY <1>5, <3>3, <3>4
  <2>5. k <= la \/ (k > la /\ k <= la + lr) \/ k = la + lr + 1 \/ k > la + lr + 1
    OBVIOUS
  <2> QED BY <2>1, <2>2, <2>3, <2>4, <2>5
<1>13. Len(new) = Len(old) /\ Len(old) = la + lr + ls
  BY <1>10, <1>11, <1>m, <1>5
<1> QED BY <1>8, <1>9, <1>12, <1>13, <1>t, SeqEqual

\* What the answers are joined to.
LEMMA Joined ==
    ASSUME NEW a \in Seq(AnswerType), NEW c \in Seq(AnswerType), NEW x \in AnswerType
    PROVE  /\ a \o c \o <<x>> \in Seq(AnswerType)
           /\ Len(a \o c \o <<x>>) = Len(a) + Len(c) + 1
           /\ \A k \in 1 .. Len(a) : (a \o c \o <<x>>)[k] = a[k]
           /\ \A j \in 1 .. Len(c) : (a \o c \o <<x>>)[Len(a) + j] = c[j]
           /\ (a \o c \o <<x>>)[Len(a) + Len(c) + 1] = x
<1>1. PICK la \in Nat, lc \in Nat : la = Len(a) /\ lc = Len(c)
  OBVIOUS
<1>2. PICK ac : ac = a \o c
  OBVIOUS
<1>3. /\ ac \in Seq(AnswerType) /\ Len(ac) = la + lc
      /\ \A i \in 1 .. la + lc : ac[i] = IF i <= la THEN a[i] ELSE c[i - la]
  BY <1>1, <1>2, ConcatProperties
<1>4. PICK b : b = Append(ac, x)
  OBVIOUS
<1>5. b = a \o c \o <<x>>
  BY <1>2, <1>3, <1>4, AppendIsConcat
<1>6. /\ b \in Seq(AnswerType) /\ Len(b) = la + lc + 1 /\ b[la + lc + 1] = x
      /\ \A i \in 1 .. la + lc : b[i] = ac[i]
  BY <1>3, <1>4, AppendProperties
<1>7. \A k \in 1 .. la : k \in 1 .. la + lc /\ k <= la
  OBVIOUS
<1>8. \A j \in 1 .. lc : la + j \in 1 .. la + lc /\ ~(la + j <= la) /\ la + j - la = j
  OBVIOUS
<1>9. /\ \A k \in 1 .. la : b[k] = a[k]
      /\ \A j \in 1 .. lc : b[la + j] = c[j]
  BY <1>3, <1>6, <1>7, <1>8
<1> QED BY <1>1, <1>5, <1>6, <1>9

\* The first read that waits is answered.
LEMMA FirstAnswered ==
    ASSUME NEW a \in Seq(AnswerType), NEW r \in Seq(CallNo), NEW s \in Seq(Requested), r # << >>,
           NEW x \in AnswerType, x.call = Head(r)
    PROVE  LineOf(Append(a, x), Tail(r), s) = LineOf(a, r, s)
<1>1. PICK b : b = Append(a, x)
  OBVIOUS
<1>2. PICK q : q = Tail(r)
  OBVIOUS
<1>3. PICK la \in Nat, lr \in Nat, ls \in Nat : la = Len(a) /\ lr = Len(r) /\ ls = Len(s)
  OBVIOUS
<1>4. /\ b \in Seq(AnswerType) /\ Len(b) = la + 1 /\ b[la + 1] = x
      /\ \A k \in 1 .. la : b[k] = a[k]
  BY <1>1, <1>3
<1>5. /\ q \in Seq(CallNo) /\ Len(q) = lr - 1 /\ lr >= 1 /\ Head(r) = r[1]
      /\ \A j \in 1 .. lr - 1 : q[j] = r[j + 1]
  BY <1>2, <1>3
<1>8. PICK new : new = LineOf(b, q, s)
  OBVIOUS
<1>9. PICK old : old = LineOf(a, r, s)
  OBVIOUS
<1>l. PICK lb \in Nat, lq \in Nat : lb = Len(b) /\ lq = Len(q)
  BY <1>4, <1>5
<1>m. lb = la + 1 /\ lq = lr - 1
  BY <1>4, <1>5, <1>l
<1>t. /\ IsLine(new, b, q, s, Len(b), Len(q), Len(s))
      /\ IsLine(old, a, r, s, Len(a), Len(r), Len(s))
      /\ new \in Seq(CallNo) /\ old \in Seq(CallNo)
  BY <1>4, <1>5, <1>8, <1>9, LineIsLine, Zenon
<1>u. IsLine(new, b, q, s, lb, lq, ls) /\ IsLine(old, a, r, s, la, lr, ls)
  BY <1>3, <1>l, <1>t, Zenon
<1>10. /\ Len(old) = la + lr + ls
       /\ \A k \in 1 .. la + lr + ls :
           /\ k <= la => old[k] = a[k].call
           /\ k > la /\ k <= la + lr => old[k] = r[k - la]
           /\ k > la + lr => old[k] = s[k - la - lr].call
  BY <1>u DEF IsLine
<1>11. /\ Len(new) = lb + lq + ls
       /\ \A k \in 1 .. lb + lq + ls :
           /\ k <= lb => new[k] = b[k].call
           /\ k > lb /\ k <= lb + lq => new[k] = q[k - lb]
           /\ k > lb + lq => new[k] = s[k - lb - lq].call
  BY <1>u DEF IsLine
<1>12. ASSUME NEW k \in 1 .. la + lr + ls PROVE new[k] = old[k]
  <2>0. k \in 1 .. lb + lq + ls
    BY <1>m
  <2>1. CASE k <= la
    <3>1. k <= lb /\ k \in 1 .. la
      BY <1>m, <2>1
    <3>2. new[k] = b[k].call /\ old[k] = a[k].call
      BY <1>10, <1>11, <2>0, <2>1, <3>1
    <3> QED BY <1>4, <3>1, <3>2
  <2>2. CASE k = la + 1
    <3>1. k <= lb /\ k > la /\ k <= la + lr /\ k - la = 1
      BY <1>5, <1>m, <2>2
    <3>2. new[k] = b[k].call
      BY <1>11, <2>0, <3>1
    <3>3. old[k] = r[1]
      BY <1>10, <3>1
    <3> QED BY <1>4, <1>5, <2>2, <3>2, <3>3
  <2>3. CASE k > la + 1 /\ k <= la + lr
    <3>1. PICK j \in 1 .. lr - 1 : j = k - lb
      BY <1>m, <2>3
    <3>2. j + 1 = k - la /\ k > la /\ k > lb /\ k <= lb + lq
      BY <1>m, <2>3, <3>1
    <3>3. new[k] = q[j]
      BY <1>11, <2>0, <2>3, <3>1, <3>2
    <3>4. old[k] = r[j + 1]
      BY <1>10, <2>3, <3>2
    <3> QED BY <1>5, <3>3, <3>4
  <2>4. CASE k > la + lr
    <3>1. PICK j \in Int : j = k - la - lr
      OBVIOUS
    <3>2. j = k - lb - lq /\ k > lb + lq
      BY <1>m, <2>4, <3>1
    <3>3. new[k] = s[j].call
      BY <1>11, <2>0, <3>2
    <3>4. old[k] = s[j].call
      BY <1>10, <2>4, <3>1
    <3> QED BY <3>3, <3>4
  <2>5. k <= la \/ k = la + 1 \/ (k > la + 1 /\ k <= la + lr) \/ k > la + lr
    OBVIOUS
  <2> QED BY <2>1, <2>2, <2>3, <2>4, <2>5
<1>13. new \in Seq(CallNo) /\ old \in Seq(CallNo) /\ Len(new) = Len(old) /\ Len(old) = la + lr + ls
  <2>1. new \in Seq(CallNo) /\ old \in Seq(CallNo)
    BY <1>t
  <2> QED BY <1>10, <1>11, <1>m, <2>1
<1>14. new = old
  BY <1>12, <1>13, SeqEqual
<1> QED BY <1>1, <1>2, <1>8, <1>9, <1>14

\* The server changes what waits for what, and not its order.
LEMMA ServerLine == Typed /\ (Serve \/ Swipe) => Line' = Line
<1> SUFFICES ASSUME Typed, Serve \/ Swipe PROVE Line' = Line
    OBVIOUS
<1>1. answers \in Seq(AnswerType) /\ reading \in Seq(CallNo) /\ sent \in Seq(Requested)
  BY DEF Typed, TypeParts, ServerTypes
<1>2. Line' = LineOf(answers', reading', sent') /\ Line = LineOf(answers, reading, sent)
  BY DEF Line
<1>a. \A n, d \in CallNo, ok \in BOOLEAN : Answer(n, ok, d) \in AnswerType /\ Answer(n, ok, d).call = n
  BY DEF Answer, AnswerType
<1>z. 0 \in CallNo
  BY ClientAssumption DEF CallNo
<1>3. CASE ServeRead
  BY <1>1, <1>2, <1>3, ReadWaits DEF ServeRead
<1>4. CASE ServeOther
  <2>1. PICK ok \in BOOLEAN, d \in {0, Head(sent).call} :
          /\ sent # << >> /\ reading' = << >> /\ sent' = Tail(sent)
          /\ answers' = answers \o Cancelled \o <<Answer(Head(sent).call, ok, d)>>
    BY <1>4 DEF ServeOther
  <2>2. Head(sent) \in Requested
    BY <1>1, <2>1
  <2>3. Head(sent).call \in CallNo /\ d \in CallNo
    BY <1>z, <2>2 DEF Requested
  <2>4. PICK x \in AnswerType : x = Answer(Head(sent).call, ok, d) /\ x.call = Head(sent).call
    BY <1>a, <2>3
  <2>5. /\ Cancelled \in Seq(AnswerType) /\ Len(Cancelled) = Len(reading)
        /\ \A j \in 1 .. Len(reading) : Cancelled[j].call = reading[j]
    <3> DEFINE e(k) == Answer(reading[k], FALSE, 0)
    <3>1. PICK n \in Nat : n = Len(reading)
      BY <1>1
    <3>2. \A k \in 1 .. n : reading[k] \in CallNo
      BY <1>1, <3>1
    <3>3. \A k \in 1 .. n : e(k) \in AnswerType /\ e(k).call = reading[k]
      BY <1>a, <1>z, <3>2
    <3>4. Cancelled = [k \in 1 .. n |-> e(k)]
      BY <3>1 DEF Cancelled
    <3> HIDE DEF e
    <3>5. Cancelled \in Seq(AnswerType) /\ Len(Cancelled) = n
      BY <3>3, <3>4
    <3> QED BY <3>1, <3>3, <3>4, <3>5
  <2>6. PICK b : b = answers \o Cancelled \o <<x>>
    OBVIOUS
  <2>7. b \in Seq(AnswerType) /\ Answered(b, answers, reading, Head(sent).call)
    <3>1. /\ b \in Seq(AnswerType) /\ Len(b) = Len(answers) + Len(Cancelled) + 1
          /\ \A k \in 1 .. Len(answers) : b[k] = answers[k]
          /\ \A j \in 1 .. Len(Cancelled) : b[Len(answers) + j] = Cancelled[j]
          /\ b[Len(answers) + Len(Cancelled) + 1] = x
      BY <1>1, <2>5, <2>6, Joined, Zenon
    <3> QED BY <2>4, <2>5, <3>1, Zenon DEF Answered
  <2>8. << >> \in Seq(CallNo) /\ Tail(sent) \in Seq(Requested)
    BY <1>1, <2>1
  <2>9. LineOf(b, << >>, Tail(sent)) = LineOf(answers, reading, sent)
    <3>1. PICK q \in Seq(CallNo), t \in Seq(Requested) : q = << >> /\ t = Tail(sent)
      BY <2>8
    <3>2. sent # << >>
      BY <2>1
    <3>3. Moved(answers, reading, sent, b, q, t)
      BY <1>1, <2>7, <3>1, <3>2 DEF Moved
    <3>4. LineOf(b, q, t) = LineOf(answers, reading, sent)
      BY <3>3, AllMove
    <3> QED BY <3>1, <3>4
  <2> QED BY <1>2, <2>1, <2>4, <2>6, <2>9
<1>5. CASE Swipe
  <2>1. PICK card \in {0, Head(reading)} :
          /\ reading # << >> /\ reading' = Tail(reading) /\ sent' = sent
          /\ answers' = Append(answers, Answer(Head(reading), TRUE, card))
    BY <1>5 DEF Swipe
  <2>2. Head(reading) \in CallNo
    BY <1>1, <2>1
  <2>3. PICK x \in AnswerType : x = Answer(Head(reading), TRUE, card) /\ x.call = Head(reading)
    BY <1>a, <1>z, <2>2
  <2>4. LineOf(Append(answers, x), Tail(reading), sent) = LineOf(answers, reading, sent)
    BY <1>1, <2>1, <2>3, FirstAnswered
  <2> QED BY <1>2, <2>1, <2>3, <2>4
<1> QED BY <1>3, <1>4, <1>5 DEF Serve

-----------------------------------------------------------------------------
(* Each result is answered.                                                *)

\* The callback has looked a result up and not filled it in.
Held == cb.pc \in {"find", "set"}
\* The callback has an answer.
Taken == cb.pc \in {"pop", "find", "set"}
\* A call has its result.
Busy == app.pc \in {"send", "last", "wait", "remove"}
\* The index given out last.
Newest == counter - 1

\* How many results are newer than the one with the index i.
Age(i) == IF i < counter THEN counter - 1 - i ELSE counter + MaxIndex - i

\* A callback of settings has begun.
AfterGet == {"get", "process", "next", "drop", "quit"}

\* At most one result is queued, and during a reset the one before it.
TwoQueued ==
    /\ app.act = "cancel" /\ app.pc \in {"send", "last", "wait"}
    /\ \E i \in Index \ {Newest} : queue = <<i, Newest>> /\ Age(i) = 1 /\ res[i].call < calls
Shape ==
    /\ queue = << >> \/ queue = <<Newest>> \/ TwoQueued
    /\ app.pc = "create" /\ app.act # "cancel" => queue = << >>
    /\ app.pc = "remove" /\ app.act = "cancel" => queue = << >>

\* The call is about the newest result, and no call is newer.
CallOf ==
    /\ Busy => app.idx = Newest /\ app.call = calls /\ res[app.idx].call = calls /\ mine.call < calls
    /\ mine.call <= calls
    /\ \A i \in Index : res[i].call <= calls

\* Nothing that is queued has been answered, and what the callback holds is
\* queued only where the result of settings stays.
ResultInv ==
    /\ \A i \in In(queue) : Exists(i) /\ (~res[i].keep => res[i].by = 0)
    /\ Held /\ cb.idx \in In(queue) => res[cb.idx].keep
    /\ cb.pc = "set" /\ cb.idx \in In(queue) => res[cb.idx].obj = cb.obj
    /\ Taken => cb.act # "none"

\* How far settings are, while a call is made and while none is.
Stage(i) ==
    \/ app.pc = "idle" /\ user[i] # "send" /\ (item[i] = "new" => user[i] \in {"idle", "get"})
    \/ /\ app.op = "settings" /\ app.act = "transmit" /\ app.pc \in {"send", "last"}
       /\ item[i] = "new" /\ user[i] \in {"idle", "get"}
    \/ app.op = "phase" /\ app.pc \in {"send", "last"} /\ item[i] = "set" /\ user[i] = "send"

\* Settings have the newest result, which is all that is queued.
SettingsOf(i) ==
    /\ res[i].keep <=> item[i] # "none"
    /\ user[i] # "idle" => item[i] # "none"
    /\ item[i] # "none" =>
         /\ lib = "tools" /\ gap = 0 /\ i = Newest /\ Exists(i) /\ queue \in {<< >>, <<i>>}
         /\ Stage(i)
         /\ user[i] # "idle" /\ Held => cb.idx = i
SettingsInv ==
    /\ lib = "tools" => gap <= 1 /\ (app.pc # "idle" => gap = 0)
    /\ \A i \in Index : SettingsOf(i)

\* Answers come in the order of the requests.
OrderInv ==
    /\ Rising(Line)
    /\ \A c \in In(Line) :
         c <= calls /\ (app.pc = "send" => c < calls) /\ (Taken => cb.ans.call < c)
    /\ Taken => cb.ans.call <= calls /\ (app.pc = "send" => cb.ans.call < calls)

\* The answer to a result that is queued is still to come.
ComeOf(i) ==
    \/ app.pc = "send" /\ i = app.idx
    \/ user[i] \in AfterGet
    \/ Held /\ cb.idx = i
    \/ res[i].call \in Coming
ComeInv == \A i \in In(queue) : ComeOf(i)

Core == Shape /\ CallOf /\ ResultInv /\ SettingsInv /\ OrderInv /\ ComeInv

\* Nothing was passed over, and no callback came too early.
Clean == ~dropped /\ ~early

\* The types that the steps below look at.
LEMMA Kinds ==
    Typed =>
      /\ app.pc \in {"idle", "create", "send", "last", "wait", "remove"}
      /\ app.idx \in Index /\ app.call \in CallNo /\ app.act \in Acts \cup {"none"}
      /\ gap \in Nat /\ counter \in 0 .. MaxIndex + 1 /\ calls \in Nat /\ late \in Nat
      /\ mine.idx \in Index /\ mine.call \in Nat
      /\ queue \in Seq(Index) /\ In(queue) \subseteq Index
      /\ \A i \in Index : /\ res[i].obj \in Nat /\ res[i].call \in Nat /\ res[i].by \in Nat
                          /\ res[i].keep \in BOOLEAN
      /\ cb.pc \in {"idle", "pop", "find", "set", "crashed"} /\ cb.ans \in AnswerType
      /\ cb.ans.call \in Nat /\ cb.idx \in Index /\ cb.act \in Acts \cup {"none"}
      /\ lib \in {"dll", "tools"} /\ item \in [Index -> {"none", "new", "set"}]
      /\ user \in [Index -> {"idle", "get", "quit", "process", "next", "send", "drop"}]
      /\ todo \in Nat /\ early \in BOOLEAN /\ dropped \in BOOLEAN
      /\ DOMAIN res = Index /\ NextIndex \in Index
<1> SUFFICES ASSUME Typed PROVE Kinds!2
    OBVIOUS
<1>1. /\ AppTypes /\ ResultTypes /\ ServerTypes /\ CallbackTypes /\ ToolTypes
  BY DEF Typed, TypeParts
<1>2. CallNo \subseteq Nat
  BY ClientAssumption DEF CallNo
<1>3. app \in AppSet /\ mine \in [idx : Index, call : CallNo] /\ counter \in 0 .. MaxIndex + 1
      /\ calls \in CallNo /\ gap \in 0 .. Threads /\ late \in 0 .. MaxLate
  BY <1>1 DEF AppTypes
<1>4. queue \in Seq(Index) /\ res \in [Index -> Result]
  BY <1>1 DEF ResultTypes
<1>5. In(queue) \subseteq Index
  BY <1>4 DEF In
<1>6. \A i \in Index : /\ res[i].obj \in Nat /\ res[i].call \in Nat /\ res[i].by \in Nat
                       /\ res[i].keep \in BOOLEAN
  BY <1>2, <1>4 DEF Result
<1>7. cb \in CbSet /\ dropped \in BOOLEAN
  BY <1>1 DEF CallbackTypes
<1>8. /\ cb.pc \in {"idle", "pop", "find", "set", "crashed"} /\ cb.ans \in AnswerType
      /\ cb.idx \in Index /\ cb.act \in Acts \cup {"none"}
  BY <1>7 DEF CbSet
<1>9. cb.ans.call \in Nat
  BY <1>2, <1>8 DEF AnswerType
<1>10. /\ app.pc \in {"idle", "create", "send", "last", "wait", "remove"}
       /\ app.idx \in Index /\ app.call \in CallNo /\ app.act \in Acts \cup {"none"}
       /\ mine.idx \in Index /\ mine.call \in Nat
  BY <1>2, <1>3 DEF AppSet
<1>11. gap \in Nat /\ calls \in Nat /\ late \in Nat
  BY <1>2, <1>3
<1>12. /\ lib \in {"dll", "tools"} /\ item \in [Index -> {"none", "new", "set"}]
       /\ user \in [Index -> {"idle", "get", "quit", "process", "next", "send", "drop"}]
       /\ todo \in Nat /\ early \in BOOLEAN
  BY <1>1 DEF ToolTypes
<1>13. NextIndex \in Index
  BY <1>1, NextIsIndex
<1> QED BY <1>3, <1>4, <1>5, <1>6, <1>7, <1>8, <1>9, <1>10, <1>11, <1>12, <1>13

\* How many results are queued, if neither they nor the call change.
LEMMA SameShape == Shape /\ UNCHANGED <<queue, counter, app, res, calls>> => Shape'
  BY DEF Shape, TwoQueued, Newest, Age
\* The call under way, if neither it nor a result changes.
LEMMA SameCall == CallOf /\ UNCHANGED <<app, counter, calls, res, mine>> => CallOf'
  BY DEF CallOf, Busy, Newest
\* What is queued, if neither it nor the callback changes.
LEMMA SameResult == ResultInv /\ UNCHANGED <<queue, res, cb>> => ResultInv'
  BY DEF ResultInv, Held, Taken, Exists
\* Settings, if neither they nor the call change.
LEMMA SameSettings ==
    SettingsInv /\ UNCHANGED <<lib, gap, app, item, user, res, counter, queue, cb>> => SettingsInv'
  BY DEF SettingsInv, SettingsOf, Stage, Held, Newest, Exists
\* The order of the answers, if nothing is sent and nothing comes.
LEMMA SameOrder ==
    OrderInv /\ UNCHANGED <<sent, reading, answers, calls, cb>>
      /\ (app'.pc = "send" => app.pc = "send") => OrderInv'
  BY DEF OrderInv, Line, Taken
\* What is to come depends on the wire and the callback only.
LEMMA SameComing == UNCHANGED <<sent, reading, answers, cb>> => Coming' = Coming
  BY DEF Coming
\* An answer is still to come, if nothing is sent and nothing comes.
LEMMA SameCome ==
    ComeInv /\ UNCHANGED <<sent, reading, answers, cb, queue, res, user>>
      /\ (app.pc = "send" => app' = app) => ComeInv'
  BY DEF ComeInv, ComeOf, Coming, Held

\* The sequences that may be queued.
LEMMA QueueIs ==
    Typed /\ Shape =>
      /\ \/ queue = << >> /\ In(queue) = {} /\ Len(queue) = 0
         \/ queue = <<Newest>> /\ In(queue) = {Newest} /\ Len(queue) = 1 /\ Newest \in Index
         \/ TwoQueued
      /\ app.pc \notin {"send", "last", "wait"} => ~TwoQueued
      /\ TwoQueued => \E i \in Index \ {Newest} :
           /\ queue = <<i, Newest>> /\ In(queue) = {i, Newest} /\ Len(queue) = 2
           /\ Newest \in Index /\ Age(i) = 1 /\ res[i].call < calls
<1> SUFFICES ASSUME Typed, Shape PROVE QueueIs!2
    OBVIOUS
<1>1. In(queue) \subseteq Index
  BY Kinds
<1>2. ASSUME queue = << >> PROVE In(queue) = {} /\ Len(queue) = 0
  BY <1>2, InShort
<1>3. ASSUME queue = <<Newest>> PROVE In(queue) = {Newest} /\ Len(queue) = 1 /\ Newest \in Index
  BY <1>1, <1>3, InShort
<1>4. ASSUME NEW i \in Index, queue = <<i, Newest>>
      PROVE  In(queue) = {i, Newest} /\ Len(queue) = 2 /\ Newest \in Index
  BY <1>1, <1>4, InShort
<1>5. app.pc \notin {"send", "last", "wait"} => ~TwoQueued
  BY DEF TwoQueued
<1>6. queue = << >> \/ queue = <<Newest>> \/ TwoQueued
  BY DEF Shape
<1>7. ASSUME TwoQueued
      PROVE  \E i \in Index \ {Newest} :
               /\ queue = <<i, Newest>> /\ In(queue) = {i, Newest} /\ Len(queue) = 2
               /\ Newest \in Index /\ Age(i) = 1 /\ res[i].call < calls
  <2>1. PICK i \in Index \ {Newest} : queue = <<i, Newest>> /\ Age(i) = 1 /\ res[i].call < calls
    BY <1>7 DEF TwoQueued
  <2> QED BY <1>4, <2>1
<1> QED BY <1>2, <1>3, <1>5, <1>6, <1>7

\* A call begins, and will reset what is queued.
LEMMA BeginCore == Typed /\ Core /\ Alone /\ (BeginMsr \/ BeginTool \/ BeginSecond) => Core'
<1> SUFFICES ASSUME Typed, Core, Alone, BeginMsr \/ BeginTool \/ BeginSecond PROVE Core'
    OBVIOUS
<1>1. PICK op : Start(op)
  BY DEF BeginMsr, BeginTool, BeginSecond
<1>2. /\ app.pc = "idle" /\ app'.pc = "create" /\ app'.act = (IF queue # << >> THEN "cancel" ELSE Request(op))
      /\ UNCHANGED <<counter, calls, late, mine, queue, res, last, srvVars,
                     answers, cb, userVars, dropped, toolVars>>
  BY <1>1 DEF BeginMsr, BeginTool, BeginSecond, Start, NoApp
<1>3. UNCHANGED <<counter, calls, mine, queue, res, sent, reading, answers, cb, lib, item, user>>
  BY <1>2 DEF srvVars, toolVars
<1> USE DEF Core
<1>4. Shape'
  <2>1. queue = << >> \/ queue = <<Newest>>
    BY <1>2 DEF Shape, TwoQueued
  <2> QED BY <1>2, <1>3, <2>1 DEF Shape, Newest
<1>5. CallOf'
  BY <1>2, <1>3 DEF CallOf, Busy
<1>6. ResultInv'
  BY <1>3, SameResult
<1>7. SettingsInv'
  <2>1. \A i \in Index : item[i] = "none" /\ user[i] = "idle" /\ ~res[i].keep
    <3>1. CASE lib = "dll"
      BY <3>1 DEF Typed, CallInv
    <3>2. CASE lib = "tools"
      <4>1. CASE BeginSecond
        BY <4>1, Kinds DEF BeginSecond, SettingsInv, SettingsOf
      <4>2. CASE BeginTool
        BY <4>2, Kinds DEF BeginTool, OnTheirWay, SettingsInv, SettingsOf
      <4> QED BY <3>2, <4>1, <4>2 DEF BeginMsr
    <3> QED BY <3>1, <3>2, Kinds
  <2>2. lib = "tools" => gap' = 0
    <3>1. CASE BeginSecond
      BY <3>1, Kinds DEF BeginSecond, SettingsInv
    <3>2. CASE BeginTool
      BY <3>2, Kinds DEF BeginTool, OnTheirWay
    <3> QED BY <3>1, <3>2 DEF BeginMsr
  <2> QED BY <1>3, <2>1, <2>2 DEF SettingsInv, SettingsOf
<1>8. OrderInv'
  BY <1>2, <1>3, SameOrder
<1>9. ComeInv'
  BY <1>2, <1>3, SameCome
<1> QED BY <1>4, <1>5, <1>6, <1>7, <1>8, <1>9

\* The end of a call, a wait that ends or goes on.
LEMMA NoteCore == Typed /\ Core /\ NoteLast => Core'
<1> SUFFICES ASSUME Typed, Core, NoteLast PROVE Core'
    OBVIOUS
<1> USE DEF Core
<1>1. /\ app.pc = "last"
      /\ UNCHANGED <<gap, counter, calls, queue, res, sent, reading, answers, cb, lib, item>>
  BY DEF NoteLast, srvVars
<1>2. app \in AppSet
  BY DEF Typed, TypeParts, AppTypes
<1>3. CASE app.op = "phase" \/ (app.op \in {"wait", "settings"} /\ app.act = Request(app.op))
  <2>1. app' = NoApp /\ app'.pc = "idle"
    BY <1>3 DEF NoteLast, NoApp
  <2>2. app.act # "cancel"
    BY <1>1, <1>3 DEF Typed, CallInv, AppShape, Request
  <2>3. Shape'
    BY <1>1, <2>1, <2>2 DEF Shape, TwoQueued, Newest
  <2>4. CallOf'
    <3>1. mine'.call <= calls
      <4>1. mine'.call \in {mine.call, app.call}
        BY DEF NoteLast
      <4> QED BY <1>1, <4>1, Kinds DEF CallOf, Busy
    <3> QED BY <1>1, <2>1, <3>1 DEF CallOf, Busy
  <2>5. SettingsInv'
    <3>1. ASSUME NEW i \in Index PROVE SettingsOf(i)'
      <4>1. user'[i] \in {user[i], "idle"}
        BY <1>3, Kinds DEF NoteLast
      <4>2. item[i] # "none" => Stage(i)'
        <5>1. SUFFICES ASSUME item[i] # "none" PROVE user'[i] # "send" /\ (item[i] = "new" => user'[i] \in {"idle", "get"})
          BY <1>1, <2>1 DEF Stage
        <5>2. i = Newest /\ Stage(i)
          BY <5>1 DEF SettingsInv, SettingsOf
        <5>3. CASE app.op = "phase"
          <6>1. user'[i] = "idle"
            BY <1>1, <5>2, <5>3, Kinds DEF NoteLast, CallOf, Busy
          <6> QED BY <6>1
        <5>4. CASE app.op # "phase"
          BY <1>1, <5>2, <5>4 DEF NoteLast, Stage
        <5> QED BY <5>3, <5>4
      <4>3. SettingsOf(i)
        BY DEF SettingsInv
      <4> QED BY <1>1, <4>1, <4>2, <4>3 DEF SettingsOf, Held, Newest, Exists
    <3> QED BY <1>1, <2>1, <3>1 DEF SettingsInv
  <2>6. ComeInv'
    <3>1. SUFFICES ASSUME NEW i \in In(queue) PROVE ComeOf(i)'
      BY <1>1 DEF ComeInv
    <3>2. i \in Index /\ ComeOf(i)
      BY Kinds DEF ComeInv
    <3>3. ASSUME user[i] \in AfterGet PROVE user'[i] \in AfterGet
      <4>1. item[i] # "none"
        BY <3>2, <3>3 DEF AfterGet, SettingsInv, SettingsOf
      <4>2. app.op # "phase"
        BY <1>1, <3>2, <3>3, <4>1 DEF AfterGet, SettingsInv, SettingsOf, Stage
      <4> QED BY <3>3, <4>2 DEF NoteLast
    <3>4. Coming' = Coming
      BY <1>1, SameComing
    <3> QED BY <1>1, <3>2, <3>3, <3>4 DEF ComeOf, Held
  <2> QED BY <1>1, <2>1, <2>3, <2>4, <2>5, <2>6, SameResult, SameOrder
<1>4. CASE ~(app.op = "phase" \/ (app.op \in {"wait", "settings"} /\ app.act = Request(app.op)))
  <2>1. app' = [app EXCEPT !.pc = "wait"]
    BY <1>4, Zenon DEF NoteLast
  <2>2. /\ app'.pc = "wait" /\ app'.idx = app.idx /\ app'.call = app.call /\ app'.act = app.act
        /\ app'.op = app.op
    BY <1>2, <2>1 DEF AppSet
  <2>3. mine' = mine /\ user' = user
    BY <1>4 DEF NoteLast, Request
  <2>4. Shape'
    BY <1>1, <2>2 DEF Shape, TwoQueued, Newest, Age
  <2>5. CallOf'
    BY <1>1, <2>2, <2>3 DEF CallOf, Busy, Newest
  <2>6. SettingsInv'
    <3>1. \A i \in Index : item[i] = "none"
      BY <1>1, <1>4 DEF SettingsInv, SettingsOf, Stage, Request
    <3> QED BY <1>1, <2>2, <2>3, <3>1 DEF SettingsInv, SettingsOf
  <2>7. OrderInv'
    BY <1>1, <2>2, SameOrder
  <2>8. ComeInv'
    BY <1>1, <2>3, SameCome
  <2> QED BY <1>1, <2>4, <2>5, <2>6, <2>7, <2>8, SameResult
<1> QED BY <1>3, <1>4

\* While a call waits, there are no settings.
LEMMA NoItemNow ==
    Typed /\ SettingsInv /\ app.pc \in {"create", "wait", "remove"} =>
        \A i \in Index : item[i] = "none" /\ user[i] = "idle" /\ ~res[i].keep
<1> SUFFICES ASSUME Typed, SettingsInv, app.pc \in {"create", "wait", "remove"}, NEW i \in Index
             PROVE  item[i] = "none" /\ user[i] = "idle" /\ ~res[i].keep
    OBVIOUS
<1>1. SettingsOf(i)
  BY DEF SettingsInv
<1>2. item[i] = "none"
  BY <1>1 DEF SettingsOf, Stage
<1>3. res[i].keep \in BOOLEAN
  BY Kinds
<1> QED BY <1>1, <1>2, <1>3 DEF SettingsOf

\* A wait ends, with an answer or without.
LEMMA WaitCore == Typed /\ Core /\ (Waited \/ TimeOut) => Core'
<1> SUFFICES ASSUME Typed, Core, Waited \/ TimeOut PROVE Core'
    OBVIOUS
<1> USE DEF Core
<1>1. /\ app.pc = "wait" /\ app \in AppSet
      /\ UNCHANGED <<gap, counter, calls, mine, queue, res, sent, reading, answers, cb, lib, item, user>>
  BY DEF Waited, TimeOut, srvVars, toolVars, Typed, TypeParts, AppTypes
<1>2. /\ app'.pc = "remove" /\ app'.idx = app.idx /\ app'.call = app.call /\ app'.act = app.act
      /\ app'.op = app.op
  BY <1>1 DEF Waited, TimeOut, AppSet
<1>3. Shape'
  <2>1. CASE Waited
    <3>1. app.idx = Newest /\ app.idx \in Index /\ res[app.idx].by # 0
      BY <1>1, <2>1, Kinds DEF Waited, CallOf, Busy
    <3>2. Newest \notin In(queue)
      BY <1>1, <3>1, NoItemNow DEF ResultInv
    <3>3. queue = << >>
      BY <3>2, QueueIs
    <3> QED BY <1>1, <1>2, <3>3 DEF Shape
  <2>2. CASE TimeOut
    <3>1. app.act # "cancel"
      BY <2>2 DEF TimeOut
    <3> QED BY <1>1, <1>2, <3>1 DEF Shape, TwoQueued, Newest
  <2> QED BY <2>1, <2>2
<1>4. CallOf'
  BY <1>1, <1>2 DEF CallOf, Busy, Newest
<1>5. SettingsInv'
  <2>1. \A i \in Index : item[i] = "none" /\ user[i] = "idle" /\ ~res[i].keep
    BY <1>1, NoItemNow
  <2> QED BY <1>1, <1>2, <2>1 DEF SettingsInv, SettingsOf
<1>6. OrderInv'
  BY <1>1, <1>2, SameOrder
<1>7. ComeInv'
  BY <1>1, SameCome
<1> QED BY <1>1, <1>3, <1>4, <1>5, <1>6, <1>7, SameResult

\* A result is made anew only when the callback holds no reference to the one
\* that has its index.
FreshResult == ~(app.pc = "create" /\ Held /\ cb.idx = NextIndex)

\* The index of the next result, and how it changes the age of the others.
LEMMA NextAge ==
    ASSUME Typed, MaxIndex >= 2, counter' = NextIndex + 1
    PROVE  /\ Newest' = NextIndex /\ NextIndex # Newest
           /\ \A i \in Index : i = Newest => Age(i)' = 1 /\ Age(i) = 0
           /\ \A i \in Index \ {NextIndex} : Age(i)' = Age(i) + 1
           /\ Age(NextIndex) = MaxIndex
<1>1. counter \in 0 .. MaxIndex + 1 /\ MaxIndex \in Nat /\ NextIndex \in Index
  BY Kinds, ClientAssumption
<1>2. CASE counter > MaxIndex
  <2>1. counter = MaxIndex + 1 /\ NextIndex = 0 /\ counter' = 1
    BY <1>1, <1>2 DEF NextIndex
  <2> QED BY <1>1, <2>1 DEF Newest, Age, Index
<1>3. CASE counter <= MaxIndex
  <2>1. NextIndex = counter /\ counter' = counter + 1
    BY <1>1, <1>3 DEF NextIndex
  <2> QED BY <1>1, <1>3, <2>1 DEF Newest, Age, Index
<1> QED BY <1>1, <1>2, <1>3

\* A result is queued, behind the one that is reset if there is one.
LEMMA CreateCore == Typed /\ Core /\ MaxIndex >= 2 /\ FreshResult /\ Create => Core'
<1> SUFFICES ASSUME Typed, Core, MaxIndex >= 2, FreshResult, Create PROVE Core'
    OBVIOUS
<1> USE DEF Core
<1>1. PICK n \in Index : n = NextIndex
  BY Kinds
<1>2. PICK new : new = [NoResult EXCEPT !.obj = calls + 1, !.call = calls + 1, !.keep = ForSettings]
  OBVIOUS
<1>3. calls \in Nat /\ calls + 1 \in CallNo
  <2>1. calls + Owed(app) + todo <= MaxCalls /\ Owed(app) \in Nat /\ Owed(app) >= 1
    BY OwedIsNat DEF Typed, CallInv, Create
  <2> QED BY <2>1, Kinds, ClientAssumption DEF CallNo
<1>4. /\ new.obj = calls + 1 /\ new.call = calls + 1 /\ new.by = 0 /\ new.keep = ForSettings
  <2>1. PICK keep \in BOOLEAN : keep = ForSettings
    BY DEF ForSettings
  <2>2. new = [NoResult EXCEPT !.obj = calls + 1, !.call = calls + 1, !.keep = keep]
    BY <1>2, <2>1
  <2>3. new = [obj |-> calls + 1, call |-> calls + 1, by |-> 0, ok |-> FALSE, data |-> 0, keep |-> keep]
    BY <2>2 DEF NoResult
  <2> QED BY <2>1, <2>3
<1>5. /\ app.pc = "create" /\ calls' = calls + 1 /\ counter' = n + 1 /\ queue' = Append(queue, n)
      /\ res' = [res EXCEPT ![n] = new]
      /\ item' = IF ForSettings THEN [item EXCEPT ![n] = "new"] ELSE item
      /\ UNCHANGED <<gap, mine, sent, reading, answers, cb, lib, user>>
  BY <1>1, <1>2 DEF Create, srvVars
<1>6. /\ app'.pc = "send" /\ app'.idx = n /\ app'.call = calls + 1 /\ app'.act = app.act
      /\ app'.op = app.op
  <2>1. app \in AppSet /\ app' = [app EXCEPT !.pc = "send", !.idx = n, !.call = calls + 1]
    BY <1>1 DEF Create, Typed, TypeParts, AppTypes
  <2> QED BY <2>1 DEF AppSet
<1>7. /\ Newest' = n /\ n # Newest /\ \A i \in Index : i = Newest => Age(i)' = 1
  BY <1>1, <1>5, NextAge
<1>8. res'[n] = new /\ \A i \in Index \ {n} : res'[i] = res[i]
  BY <1>5, Kinds
<1>9. \A i \in Index : item[i] = "none" /\ user[i] = "idle" /\ ~res[i].keep
  BY <1>5, NoItemNow
<1>10. \/ queue = << >> /\ queue' = <<n>> /\ In(queue) = {} /\ In(queue') = {n}
       \/ /\ queue = <<Newest>> /\ queue' = <<Newest, n>> /\ In(queue) = {Newest}
          /\ In(queue') = {Newest, n} /\ Newest \in Index /\ app.act = "cancel"
  <2>1. CASE queue = << >>
    BY <1>5, <2>1, InShort
  <2>2. CASE queue = <<Newest>>
    <3>1. queue' = <<Newest, n>>
      BY <1>5, <2>2, InShort
    <3>2. app.act = "cancel"
      <4>1. queue # << >>
        BY <2>2
      <4> QED BY <1>5, <4>1 DEF Shape
    <3>3. In(queue) = {Newest} /\ In(queue') = {Newest, n}
      BY <2>2, <3>1, InShort
    <3>4. In(queue) \subseteq Index
      BY Kinds
    <3> QED BY <2>2, <3>1, <3>2, <3>3, <3>4
  <2> QED BY <1>5, <2>1, <2>2 DEF Shape, TwoQueued
<1>11. Shape'
  <2>1. CASE queue' = <<n>>
    BY <1>6, <1>7, <2>1 DEF Shape
  <2>2. CASE /\ queue' = <<Newest, n>> /\ Newest \in Index /\ app.act = "cancel"
    <3>1. PICK old \in Index : old = Newest
      BY <2>2
    <3>2. Age(old)' = 1 /\ old # n
      BY <1>7, <3>1
    <3>3. res'[old].call < calls'
      BY <1>3, <1>5, <1>8, <3>2, Kinds DEF CallOf
    <3>4. old \in Index \ {Newest'} /\ queue' = <<old, Newest'>>
      BY <1>7, <2>2, <3>1, <3>2
    <3>5. TwoQueued'
      BY <1>6, <2>2, <3>2, <3>3, <3>4 DEF TwoQueued
    <3> QED BY <1>6, <3>5 DEF Shape
  <2> QED BY <1>10, <2>1, <2>2
<1>12. CallOf'
  <2>1. \A i \in Index : res'[i].call <= calls + 1
    BY <1>3, <1>4, <1>8, Kinds DEF CallOf
  <2>2. mine'.call < calls + 1
    BY <1>3, <1>5, Kinds DEF CallOf
  <2> QED BY <1>3, <1>4, <1>5, <1>6, <1>7, <1>8, <2>1, <2>2, Kinds DEF CallOf, Busy
<1>13. ResultInv'
  <2>1. \A i \in In(queue') : Exists(i)' /\ (~res'[i].keep => res'[i].by = 0)
    BY <1>3, <1>4, <1>7, <1>8, <1>10 DEF ResultInv, Exists
  <2>2. Held => cb.idx # n
    BY <1>1, <1>5 DEF FreshResult
  <2>3. Held /\ cb.idx \in In(queue') => cb.idx \in In(queue) /\ res'[cb.idx] = res[cb.idx]
    BY <1>8, <1>10, <2>2, Kinds
  <2> QED BY <1>5, <2>1, <2>3 DEF ResultInv, Held, Taken
<1>14. SettingsInv'
  <2>1. ASSUME NEW i \in Index PROVE SettingsOf(i)'
    <3>1. CASE i = n /\ ForSettings
      <4>1. /\ item'[i] = "new" /\ res'[i].keep /\ lib = "tools" /\ app'.op = "settings"
            /\ app'.act = "transmit"
        BY <1>4, <1>5, <1>6, <1>8, <3>1, Kinds DEF ForSettings, Typed, CallInv
      <4>2. queue' = <<n>>
        BY <1>10, <3>1 DEF ForSettings
      <4>3. Stage(i)'
        BY <1>5, <1>6, <1>9, <4>1 DEF Stage
      <4>4. gap' = 0
        BY <1>5, <4>1 DEF SettingsInv
      <4> QED BY <1>3, <1>4, <1>5, <1>7, <1>8, <1>9, <3>1, <4>1, <4>2, <4>3, <4>4 DEF SettingsOf, Exists
    <3>2. CASE ~(i = n /\ ForSettings)
      <4>1. item'[i] = "none"
        BY <1>5, <1>9, <3>2, Kinds
      <4>2. ~res'[i].keep
        BY <1>4, <1>8, <1>9, <3>2
      <4> QED BY <1>5, <1>9, <4>1, <4>2 DEF SettingsOf
    <3> QED BY <3>1, <3>2
  <2> QED BY <1>5, <1>6, <2>1 DEF SettingsInv
<1>15. OrderInv'
  <2>1. Taken => cb.ans.call < calls + 1
    BY <1>3, Kinds DEF OrderInv
  <2>2. \A c \in In(Line) : c < calls + 1 /\ c <= calls + 1
    <3>1. In(Line) \subseteq Nat
      BY LineNow, ClientAssumption DEF In, CallNo
    <3> QED BY <1>3, <3>1 DEF OrderInv
  <2> QED BY <1>3, <1>5, <2>1, <2>2, Kinds DEF OrderInv, Line, Taken
<1>16. ComeInv'
  <2>1. ASSUME NEW i \in In(queue') PROVE ComeOf(i)'
    <3>1. CASE i = n
      BY <1>6, <3>1 DEF ComeOf
    <3>2. CASE i # n
      <4>1. i \in In(queue) /\ i \in Index /\ res'[i] = res[i]
        BY <1>8, <1>10, <3>2
      <4>2. ComeOf(i)
        BY <4>1 DEF ComeInv
      <4>3. Coming' = Coming
        BY <1>5, SameComing
      <4> QED BY <1>5, <4>1, <4>2, <4>3 DEF ComeOf, Held
    <3> QED BY <3>1, <3>2
  <2> QED BY <2>1 DEF ComeInv
<1> QED BY <1>11, <1>12, <1>13, <1>14, <1>15, <1>16

\* A request joins the line.
LEMMA SendLine ==
    ASSUME NEW a \in Seq(AnswerType), NEW r \in Seq(CallNo), NEW s \in Seq(Requested),
           NEW x \in Requested
    PROVE  LineOf(a, r, Append(s, x)) = Append(LineOf(a, r, s), x.call)
<1>1. PICK t \in Seq(Requested) : t = Append(s, x)
  BY AppendProperties
<1>2. PICK la \in Nat, lr \in Nat, ls \in Nat : la = Len(a) /\ lr = Len(r) /\ ls = Len(s)
  OBVIOUS
<1>3. Len(t) = ls + 1 /\ t[ls + 1] = x /\ \A j \in 1 .. ls : t[j] = s[j]
  BY <1>1, <1>2
<1>4. PICK new \in Seq(CallNo) : new = LineOf(a, r, t)
  BY LineIs
<1>5. PICK old \in Seq(CallNo) : old = LineOf(a, r, s)
  BY LineIs
<1>6. x.call \in CallNo
  BY DEF Requested
<1>7. PICK lt \in Nat : lt = Len(t)
  OBVIOUS
<1>8. /\ IsLine(new, a, r, t, Len(a), Len(r), Len(t)) /\ IsLine(old, a, r, s, Len(a), Len(r), Len(s))
  BY <1>4, <1>5, LineIsLine, Zenon
<1>9. IsLine(new, a, r, t, la, lr, lt) /\ IsLine(old, a, r, s, la, lr, ls)
  BY <1>2, <1>7, <1>8, Zenon
<1>10. /\ Len(old) = la + lr + ls
       /\ \A k \in 1 .. la + lr + ls :
           /\ k <= la => old[k] = a[k].call
           /\ k > la /\ k <= la + lr => old[k] = r[k - la]
           /\ k > la + lr => old[k] = s[k - la - lr].call
  BY <1>9 DEF IsLine
<1>11. /\ Len(new) = la + lr + lt
       /\ \A k \in 1 .. la + lr + lt :
           /\ k <= la => new[k] = a[k].call
           /\ k > la /\ k <= la + lr => new[k] = r[k - la]
           /\ k > la + lr => new[k] = t[k - la - lr].call
  BY <1>9 DEF IsLine
<1>12. PICK app1 \in Seq(CallNo) : app1 = Append(old, x.call)
  BY <1>6, AppendProperties
<1>13. /\ Len(app1) = la + lr + ls + 1 /\ app1[la + lr + ls + 1] = x.call
       /\ \A k \in 1 .. la + lr + ls : app1[k] = old[k]
  BY <1>6, <1>10, <1>12
<1>14. ASSUME NEW k \in 1 .. la + lr + ls + 1 PROVE new[k] = app1[k]
  <2>0. k \in 1 .. la + lr + lt /\ lt = ls + 1
    BY <1>3, <1>7
  <2>1. CASE k <= la
    <3>1. new[k] = a[k].call /\ k \in 1 .. la + lr + ls
      BY <1>11, <2>0, <2>1
    <3>2. old[k] = a[k].call /\ app1[k] = old[k]
      BY <1>10, <1>13, <2>1, <3>1
    <3> QED BY <3>1, <3>2
  <2>2. CASE k > la /\ k <= la + lr
    <3>1. new[k] = r[k - la] /\ k \in 1 .. la + lr + ls
      BY <1>11, <2>0, <2>2
    <3>2. old[k] = r[k - la] /\ app1[k] = old[k]
      BY <1>10, <1>13, <2>2, <3>1
    <3> QED BY <3>1, <3>2
  <2>3. CASE k > la + lr /\ k <= la + lr + ls
    <3>1. PICK j \in 1 .. ls : j = k - la - lr
      BY <2>3
    <3>2. new[k] = t[j].call /\ old[k] = s[j].call
      BY <1>10, <1>11, <2>0, <2>3, <3>1
    <3>3. app1[k] = old[k]
      BY <1>13, <2>3
    <3> QED BY <1>3, <3>2, <3>3
  <2>4. CASE k = la + lr + ls + 1
    <3>1. k - la - lr = ls + 1 /\ k > la + lr
      BY <2>4
    <3>2. new[k] = t[ls + 1].call
      BY <1>11, <2>0, <3>1
    <3> QED BY <1>3, <1>13, <2>4, <3>2
  <2> QED BY <2>1, <2>2, <2>3, <2>4
<1>15. Len(new) = Len(app1) /\ Len(new) = la + lr + ls + 1
  BY <1>3, <1>7, <1>11, <1>13
<1>16. new = app1
  BY <1>14, <1>15, SeqEqual
<1> QED BY <1>1, <1>4, <1>5, <1>12, <1>16

\* What rises still rises when something greater is appended.
LEMMA RisingAppend ==
    ASSUME NEW S \in SUBSET Nat, NEW q \in Seq(S), NEW x \in S
    PROVE  /\ In(Append(q, x)) = In(q) \cup {x}
           /\ Rising(q) /\ (\A c \in In(q) : c < x) => Rising(Append(q, x))
<1>1. PICK n \in Nat : n = Len(q)
  OBVIOUS
<1>2. PICK p \in Seq(S) : p = Append(q, x)
  BY AppendProperties
<1>3. Len(p) = n + 1 /\ p[n + 1] = x /\ \A k \in 1 .. n : p[k] = q[k]
  BY <1>1, <1>2, AppendProperties
<1>4. In(p) = In(q) \cup {x}
  <2>1. \A k \in 1 .. n + 1 : k \in 1 .. n \/ k = n + 1
    BY <1>1
  <2>2. \A k \in 1 .. n : k \in 1 .. n + 1
    BY <1>1
  <2>3. n + 1 \in 1 .. n + 1
    BY <1>1
  <2> QED BY <1>1, <1>3, <2>1, <2>2, <2>3 DEF In
<1>5. ASSUME Rising(q), \A c \in In(q) : c < x PROVE Rising(p)
  <2>1. SUFFICES ASSUME NEW j \in 1 .. n + 1, NEW k \in 1 .. n + 1, j < k PROVE p[j] < p[k]
    BY <1>3 DEF Rising
  <2>2. j \in 1 .. n /\ (k \in 1 .. n \/ k = n + 1)
    BY <1>1, <2>1
  <2>3. CASE k \in 1 .. n
    BY <1>1, <1>3, <1>5, <2>1, <2>2, <2>3 DEF Rising
  <2>4. CASE k = n + 1
    <3>1. q[j] \in In(q)
      BY <1>1, <2>2 DEF In
    <3> QED BY <1>3, <1>5, <2>2, <2>4, <3>1
  <2> QED BY <2>2, <2>3, <2>4
<1> QED BY <1>2, <1>4, <1>5

\* What is to come after a step, as members of the line.
LEMMA ComingLater ==
    Typed' => Coming' = (IF cb'.pc = "pop" THEN {cb'.ans.call} ELSE {})
                          \cup In(LineOf(answers', reading', sent'))
<1>1. (Typed => Coming = (IF cb.pc = "pop" THEN {cb.ans.call} ELSE {}) \cup In(Line))'
  BY ComingIs, PTL
<1> QED BY <1>1 DEF Line

\* What is sent is the newest of what is on its way.
LEMMA SendCore == Typed /\ Core /\ Send => Core'
<1> SUFFICES ASSUME Typed, Core, Send PROVE Core'
    OBVIOUS
<1> USE DEF Core
<1>1. /\ app.pc = "send" /\ app \in AppSet /\ app' = [app EXCEPT !.pc = "last"]
      /\ sent' = Append(sent, [call |-> app.call, act |-> app.act])
      /\ UNCHANGED <<gap, counter, calls, mine, queue, res, reading, answers, cb, lib, item, user>>
  BY DEF Send, toolVars, Typed, TypeParts, AppTypes
<1>2. /\ app'.pc = "last" /\ app'.idx = app.idx /\ app'.call = app.call /\ app'.act = app.act
      /\ app'.op = app.op
  BY <1>1 DEF AppSet
<1>3. Shape'
  BY <1>1, <1>2 DEF Shape, TwoQueued, Newest, Age
<1>4. CallOf'
  BY <1>1, <1>2 DEF CallOf, Busy, Newest
<1>5. SettingsInv'
  BY <1>1, <1>2 DEF SettingsInv, SettingsOf, Stage, Held, Newest, Exists
<1>6. PICK line \in Seq(CallNo) : line = Line
  BY LineNow
<1>7. LineOf(answers, reading, sent') = Append(line, app.call)
  <2>1. app.act \in Acts /\ app.call \in CallNo
    BY <1>1, Kinds DEF Typed, CallInv, AppShape, AppSet
  <2>2. PICK x \in Requested : x = [call |-> app.call, act |-> app.act]
    BY <2>1 DEF Requested
  <2>3. x.call = app.call
    BY <2>2
  <2> QED BY <1>1, <1>6, <2>2, <2>3, LineNow, SendLine DEF Line
<1>8. app.call = calls /\ res[app.idx].call = app.call /\ app.call \in CallNo /\ calls \in Nat
  BY <1>1, Kinds DEF CallOf, Busy
<1>9. CallNo \subseteq Nat
  BY ClientAssumption DEF CallNo
<1>10. In(Append(line, app.call)) = In(line) \cup {calls} /\ Rising(Append(line, app.call))
  <2>1. Rising(line) /\ \A c \in In(line) : c < app.call
    BY <1>1, <1>6, <1>8 DEF OrderInv
  <2> QED BY <1>8, <1>9, <2>1, RisingAppend
<1>11. OrderInv'
  <2>1. Rising(Line')
    BY <1>1, <1>7, <1>10 DEF Line
  <2>2. ASSUME NEW c \in In(Line') PROVE c <= calls /\ (Taken => cb.ans.call < c)
    <3>1. c \in In(line) \/ c = calls
      BY <1>1, <1>7, <1>10, <2>2 DEF Line
    <3> QED BY <1>1, <1>6, <1>8, <3>1 DEF OrderInv
  <2> QED BY <1>1, <1>2, <2>1, <2>2 DEF OrderInv, Taken
<1>12. ComeInv'
  <2>1. SUFFICES ASSUME NEW i \in In(queue) PROVE ComeOf(i)'
    BY <1>1 DEF ComeInv
  <2>2. ComeOf(i)
    BY DEF ComeInv
  <2>3. Coming' = Coming \cup {app.call}
    <3>1. Typed'
      <4>1. Call
        BY DEF Call
      <4> QED BY <4>1, CallTyped
    <3>2. Coming' = (IF cb'.pc = "pop" THEN {cb'.ans.call} ELSE {}) \cup In(LineOf(answers', reading', sent'))
      BY <3>1, ComingLater
    <3>3. Coming = (IF cb.pc = "pop" THEN {cb.ans.call} ELSE {}) \cup In(line)
      BY <1>6, ComingIs
    <3> QED BY <1>1, <1>7, <1>8, <1>10, <3>2, <3>3
  <2> QED BY <1>1, <1>8, <2>2, <2>3 DEF ComeOf, Held
<1> QED BY <1>1, <1>3, <1>4, <1>5, <1>11, <1>12, SameResult

\* The result of the call is removed, and nothing is queued.
LEMMA WithoutShort ==
    /\ \A i : Without(<< >>, i) = << >>
    /\ \A i : Without(<<i>>, i) = << >>
    /\ \A S : \A q \in Seq(S) : \A i : i \notin In(q) => Without(q, i) = q
<1>1. \A i : Without(<< >>, i) = << >>
  BY DEF Without
<1>2. ASSUME NEW i PROVE Without(<<i>>, i) = << >>
  <2>1. Len(<<i>>) = 1 /\ <<i>>[1] = i /\ \E k \in 1 .. Len(<<i>>) : <<i>>[k] = i
    OBVIOUS
  <2>2. Without(<<i>>, i) \in Seq({i})
    <3>1. <<i>> \in Seq({i})
      OBVIOUS
    <3> QED BY <3>1, WithoutType
  <2>3. Len(Without(<<i>>, i)) = 0
    <3> DEFINE first == CHOOSE k \in 1 .. Len(<<i>>) :
                           <<i>>[k] = i /\ \A j \in 1 .. k - 1 : <<i>>[j] # i
               e(k) == IF k < first THEN <<i>>[k] ELSE <<i>>[k + 1]
    <3>1. Without(<<i>>, i) = [k \in 1 .. Len(<<i>>) - 1 |-> e(k)]
      BY <2>1 DEF Without
    <3>2. 1 .. Len(<<i>>) - 1 = 1 .. 0
      BY <2>1
    <3> HIDE DEF e
    <3>3. DOMAIN Without(<<i>>, i) = 1 .. 0
      BY <3>1, <3>2
    <3> QED BY <2>2, <3>3
  <2> QED BY <2>2, <2>3
<1>3. ASSUME NEW S, NEW q \in Seq(S), NEW i, i \notin In(q) PROVE Without(q, i) = q
  BY <1>3 DEF Without, In
<1> QED BY <1>1, <1>2, <1>3

\* A call that was answered, or failed, removes its result.
LEMMA RemoveCore == Typed /\ Core /\ Remove => Core'
<1> SUFFICES ASSUME Typed, Core, Remove PROVE Core'
    OBVIOUS
<1> USE DEF Core
<1>1. /\ app.pc = "remove" /\ res' = [res EXCEPT ![app.idx] = NoResult]
      /\ queue' = Without(queue, app.idx)
      /\ UNCHANGED <<counter, calls, mine, sent, reading, answers, cb, lib, item, user>>
  BY DEF Remove, srvVars
<1>2. app.idx = Newest /\ app.idx \in Index
  BY <1>1, Kinds DEF CallOf, Busy
<1>3. queue' = << >> /\ In(queue') = {}
  BY <1>1, <1>2, QueueIs, WithoutShort, InShort
<1>4. PICK next \in After : app' = IF next = "none" THEN NoApp ELSE [app EXCEPT !.pc = "create", !.act = next]
  BY DEF Remove
<1>5. app \in AppSet
  BY DEF Typed, TypeParts, AppTypes
<1>6. app'.pc = IF next = "none" THEN "idle" ELSE "create"
  BY <1>4, <1>5 DEF AppSet, NoApp
<1>7. /\ res'[app.idx] = NoResult /\ \A i \in Index \ {app.idx} : res'[i] = res[i]
  BY <1>1, <1>2, Kinds
<1>8. \A i \in Index : item[i] = "none" /\ user[i] = "idle" /\ ~res[i].keep
  BY <1>1, NoItemNow
<1>9. Shape'
  BY <1>3, <1>6 DEF Shape
<1>10. CallOf'
  <2>1. \A i \in Index : res'[i].call <= calls
    BY <1>7, Kinds DEF NoResult, CallOf
  <2>2. ~Busy'
    BY <1>6 DEF Busy
  <2> QED BY <1>1, <2>1, <2>2 DEF CallOf
<1>11. ResultInv'
  BY <1>1, <1>3 DEF ResultInv, Taken
<1>12. SettingsInv'
  <2>1. \A i \in Index : ~res'[i].keep
    BY <1>7, <1>8 DEF NoResult
  <2>2. lib = "tools" => gap' <= 1 /\ (app'.pc # "idle" => gap' = 0)
    <3>1. lib = "tools" => gap = 0
      BY <1>1 DEF SettingsInv
    <3>2. app.ok /\ app.op \in {"swipe", "prepare"} => next = "none"
      BY <1>1 DEF After, Typed, CallInv, AppShape
    <3>3. gap' = IF app.ok /\ app.op \in {"swipe", "prepare"} THEN gap + 1 ELSE gap
      BY DEF Remove
    <3> QED BY <1>6, <3>1, <3>2, <3>3
  <2> QED BY <1>1, <1>8, <2>1, <2>2 DEF SettingsInv, SettingsOf
<1>13. OrderInv'
  BY <1>1, <1>6, SameOrder
<1>14. ComeInv'
  BY <1>3 DEF ComeInv
<1> QED BY <1>9, <1>10, <1>11, <1>12, <1>13, <1>14

\* The server changes nothing that is known here.
LEMMA ServerCore == Typed /\ Core /\ (Serve \/ Swipe) => Core'
<1> SUFFICES ASSUME Typed, Core, Serve \/ Swipe PROVE Core'
    OBVIOUS
<1> USE DEF Core
<1>1. UNCHANGED <<appVars, queue, res, cb, toolVars>>
  BY DEF Serve, ServeRead, ServeOther, Swipe
<1>2. UNCHANGED <<app, gap, counter, calls, mine, queue, res, cb, lib, item, user>>
  BY <1>1 DEF appVars, toolVars
<1>3. LineOf(answers', reading', sent') = LineOf(answers, reading, sent)
  BY ServerLine DEF Line
<1>4. Typed'
  BY ServerTyped
<1>5. Coming' = Coming
  <2>1. Coming' = (IF cb'.pc = "pop" THEN {cb'.ans.call} ELSE {}) \cup In(LineOf(answers', reading', sent'))
    BY <1>4, ComingLater
  <2>2. Coming = (IF cb.pc = "pop" THEN {cb.ans.call} ELSE {}) \cup In(LineOf(answers, reading, sent))
    BY ComingIs DEF Line
  <2> QED BY <1>2, <1>3, <2>1, <2>2
<1>6. OrderInv'
  BY <1>2, <1>3 DEF OrderInv, Line, Taken
<1>7. ComeInv'
  BY <1>2, <1>5 DEF ComeInv, ComeOf, Held
<1> QED BY <1>2, <1>6, <1>7, SameShape, SameCall, SameResult, SameSettings

\* The first in the line is taken out of it.
LEMMA TakeLine ==
    ASSUME NEW a \in Seq(AnswerType), NEW r \in Seq(CallNo), NEW s \in Seq(Requested), a # << >>
    PROVE  LET old == LineOf(a, r, s) IN
           /\ In(old) = {Head(a).call} \cup In(LineOf(Tail(a), r, s))
           /\ Rising(old) => /\ Rising(LineOf(Tail(a), r, s))
                             /\ \A c \in In(LineOf(Tail(a), r, s)) : Head(a).call < c
<1>1. PICK b \in Seq(AnswerType) : b = Tail(a)
  BY HeadTailProperties
<1>2. PICK la \in Nat, lr \in Nat, ls \in Nat : la = Len(a) /\ lr = Len(r) /\ ls = Len(s)
  OBVIOUS
<1>3. Len(b) = la - 1 /\ la >= 1 /\ Head(a) = a[1] /\ \A j \in 1 .. la - 1 : b[j] = a[j + 1]
  BY <1>1, <1>2
<1>4. PICK new \in Seq(CallNo) : new = LineOf(b, r, s)
  BY LineIs
<1>5. PICK old \in Seq(CallNo) : old = LineOf(a, r, s)
  BY LineIs
<1>6. PICK lb \in Nat : lb = Len(b)
  OBVIOUS
<1>7. /\ IsLine(new, b, r, s, Len(b), Len(r), Len(s)) /\ IsLine(old, a, r, s, Len(a), Len(r), Len(s))
  BY <1>4, <1>5, LineIsLine, Zenon
<1>8. IsLine(new, b, r, s, lb, lr, ls) /\ IsLine(old, a, r, s, la, lr, ls)
  BY <1>2, <1>6, <1>7, Zenon
<1>9. /\ Len(old) = la + lr + ls
      /\ \A k \in 1 .. la + lr + ls :
           /\ k <= la => old[k] = a[k].call
           /\ k > la /\ k <= la + lr => old[k] = r[k - la]
           /\ k > la + lr => old[k] = s[k - la - lr].call
  BY <1>8 DEF IsLine
<1>10. /\ Len(new) = lb + lr + ls
       /\ \A k \in 1 .. lb + lr + ls :
           /\ k <= lb => new[k] = b[k].call
           /\ k > lb /\ k <= lb + lr => new[k] = r[k - lb]
           /\ k > lb + lr => new[k] = s[k - lb - lr].call
  BY <1>8 DEF IsLine
<1>11. PICK n \in Nat : n = lb + lr + ls
  OBVIOUS
<1>12. lb = la - 1 /\ la + lr + ls = n + 1
  BY <1>3, <1>6, <1>11
<1>13. Len(old) = n + 1 /\ Len(new) = n /\ old[1] = Head(a).call
  BY <1>3, <1>9, <1>10, <1>11, <1>12
<1>14. ASSUME NEW k \in 1 .. n PROVE new[k] = old[k + 1]
  <2>0. k \in 1 .. lb + lr + ls /\ k + 1 \in 1 .. la + lr + ls
    BY <1>11, <1>12
  <2>1. CASE k <= lb
    <3>1. new[k] = b[k].call /\ old[k + 1] = a[k + 1].call
      BY <1>9, <1>10, <1>12, <2>0, <2>1
    <3>2. b[k] = a[k + 1]
      BY <1>3, <1>12, <2>1
    <3> QED BY <3>1, <3>2
  <2>2. CASE k > lb /\ k <= lb + lr
    <3>1. PICK j \in Int : j = k - lb
      OBVIOUS
    <3>2. j = k + 1 - la /\ k + 1 > la /\ k + 1 <= la + lr
      BY <1>12, <2>2, <3>1
    <3>3. new[k] = r[j]
      BY <1>10, <2>0, <2>2, <3>1
    <3>4. PICK m \in 1 .. la + lr + ls : m = k + 1
      BY <2>0
    <3>5. old[m] = r[j]
      BY <1>9, <3>2, <3>4
    <3> QED BY <3>3, <3>4, <3>5
  <2>3. CASE k > lb + lr
    <3>1. PICK j \in Int : j = k - lb - lr
      OBVIOUS
    <3>2. j = k + 1 - la - lr /\ k + 1 > la + lr
      BY <1>12, <2>3, <3>1
    <3>3. new[k] = s[j].call
      BY <1>10, <2>0, <2>3, <3>1
    <3>4. PICK m \in 1 .. la + lr + ls : m = k + 1
      BY <2>0
    <3>5. old[m] = s[j].call
      BY <1>9, <3>2, <3>4
    <3> QED BY <3>3, <3>4, <3>5
  <2> QED BY <2>1, <2>2, <2>3
<1>15. In(old) = {old[1]} \cup In(new)
  <2>1. \A k \in 1 .. n + 1 : k = 1 \/ (k - 1 \in 1 .. n /\ (k - 1) + 1 = k)
    OBVIOUS
  <2>2. \A k \in 1 .. n : k + 1 \in 1 .. n + 1
    OBVIOUS
  <2>3. 1 \in 1 .. n + 1
    OBVIOUS
  <2>4. ASSUME NEW c \in In(old) PROVE c = old[1] \/ c \in In(new)
    <3>1. PICK k \in 1 .. n + 1 : c = old[k]
      BY <1>13 DEF In
    <3>2. CASE k # 1
      <4>1. PICK j \in 1 .. n : j + 1 = k
        BY <2>1, <3>2
      <4>2. c = new[j]
        BY <1>14, <3>1, <4>1
      <4> QED BY <1>13, <4>2 DEF In
    <3> QED BY <3>1, <3>2
  <2>5. \A c \in In(new) : c \in In(old)
    BY <1>13, <1>14, <2>2 DEF In
  <2>6. old[1] \in In(old)
    BY <1>13, <2>3 DEF In
  <2> QED BY <2>4, <2>5, <2>6
<1>16. ASSUME Rising(old) PROVE Rising(new) /\ \A c \in In(new) : old[1] < c
  <2>1. \A j, k \in 1 .. n + 1 : j < k => old[j] < old[k]
    BY <1>13, <1>16 DEF Rising
  <2>2. Rising(new)
    <3>1. SUFFICES ASSUME NEW j \in 1 .. n, NEW k \in 1 .. n, j < k PROVE new[j] < new[k]
      BY <1>13 DEF Rising
    <3>2. j + 1 \in 1 .. n + 1 /\ k + 1 \in 1 .. n + 1 /\ j + 1 < k + 1
      BY <3>1
    <3>3. old[j + 1] < old[k + 1]
      BY <2>1, <3>2
    <3> QED BY <1>14, <3>3
  <2>3. ASSUME NEW k \in 1 .. n PROVE old[1] < new[k]
    <3>1. 1 \in 1 .. n + 1 /\ k + 1 \in 1 .. n + 1 /\ 1 < k + 1
      OBVIOUS
    <3>2. old[1] < old[k + 1]
      BY <2>1, <3>1
    <3> QED BY <1>14, <3>2
  <2> QED BY <1>13, <2>2, <2>3 DEF In
<1> QED BY <1>1, <1>4, <1>5, <1>13, <1>15, <1>16

\* An answer is taken out of the line, and is older than what is left.
LEMMA TakeCore == Typed /\ Core /\ Clean' /\ TakeAnswer => Core'
<1> SUFFICES ASSUME Typed, Core, Clean', TakeAnswer PROVE Core'
    OBVIOUS
<1> USE DEF Core
<1>1. /\ cb.pc = "idle" /\ answers # << >> /\ answers' = Tail(answers) /\ last # "none"
      /\ cb' = [NoCb EXCEPT !.pc = "pop", !.ans = Head(answers), !.act = last]
      /\ UNCHANGED <<app, gap, counter, calls, mine, queue, res, sent, reading, lib, item, user>>
  BY DEF TakeAnswer, Clean, appVars, srvVars, toolVars
<1>2. /\ cb'.pc = "pop" /\ cb'.ans = Head(answers) /\ cb'.act = last
  BY <1>1 DEF NoCb
<1>3. PICK c1 : c1 = Head(answers).call
  OBVIOUS
<1>4. PICK rest : rest = LineOf(answers', reading', sent')
  OBVIOUS
<1>5. /\ In(Line) = {c1} \cup In(rest)
      /\ Rising(rest) /\ \A c \in In(rest) : c1 < c
  <2>1. Rising(LineOf(answers, reading, sent))
    BY DEF OrderInv, Line
  <2> QED BY <1>1, <1>3, <1>4, <2>1, LineNow, TakeLine DEF Line
<1>6. ~Held /\ ~Held' /\ ~Taken
  BY <1>1, <1>2 DEF Held, Taken
<1>7. ResultInv'
  BY <1>1, <1>2, <1>6 DEF ResultInv, Exists
<1>8. SettingsInv'
  BY <1>1, <1>6 DEF SettingsInv, SettingsOf, Stage, Newest, Exists
<1>9. OrderInv'
  <2>1. Rising(Line') /\ cb'.ans.call = c1
    BY <1>2, <1>3, <1>4, <1>5 DEF Line
  <2>2. ASSUME NEW c \in In(Line')
        PROVE  c <= calls /\ (app.pc = "send" => c < calls) /\ c1 < c
    <3>1. c \in In(rest) /\ c \in In(Line)
      BY <1>4, <1>5, <2>2 DEF Line
    <3> QED BY <1>5, <3>1 DEF OrderInv
  <2>3. c1 <= calls /\ (app.pc = "send" => c1 < calls)
    BY <1>5 DEF OrderInv
  <2> QED BY <1>1, <2>1, <2>2, <2>3 DEF OrderInv
<1>10. ComeInv'
  <2>1. Coming' = {c1} \cup In(rest)
    <3>1. Typed'
      BY CallbackTyped DEF Callback
    <3> QED BY <1>2, <1>3, <1>4, <3>1, ComingLater
  <2>2. Coming = In(Line)
    BY <1>1, ComingIs
  <2> QED BY <1>1, <1>5, <1>6, <2>1, <2>2 DEF ComeInv, ComeOf
<1> QED BY <1>1, <1>7, <1>8, <1>9, <1>10, SameShape, SameCall

\* When two results are queued, the answer is not the one to the newer one, and
\* neither is that of settings.
LEMMA OlderAnswer ==
    ASSUME Typed, Core, cb.pc = "pop", TwoQueued
    PROVE  /\ res[Newest].call = calls /\ app.idx = Newest /\ cb.ans.call # calls
           /\ \A j \in Index : item[j] = "none" /\ user[j] = "idle" /\ ~res[j].keep
<1> USE DEF Core
<1>1. PICK i \in Index \ {Newest} :
        /\ queue = <<i, Newest>> /\ In(queue) = {i, Newest} /\ Newest \in Index
        /\ Len(queue) = 2 /\ Age(i) = 1 /\ res[i].call < calls
  BY QueueIs
<1>2. ASSUME NEW j \in Index PROVE item[j] = "none" /\ user[j] = "idle" /\ ~res[j].keep
  <2>1. item[j] # "none" => FALSE
    <3>1. item[j] # "none" => queue \in {<< >>, <<j>>}
      BY DEF SettingsInv, SettingsOf
    <3> QED BY <1>1, <3>1, InShort
  <2> QED BY <2>1, Kinds DEF SettingsInv, SettingsOf
<1>3. app.idx = Newest /\ res[Newest].call = calls
  BY DEF TwoQueued, CallOf, Busy
<1>4. res[i].call \in {cb.ans.call} \cup In(Line)
  <2>1. Coming = {cb.ans.call} \cup In(Line)
    BY ComingIs
  <2>2. ComeOf(i) /\ ~Held
    BY <1>1 DEF ComeInv, Held
  <2> QED BY <1>1, <1>2, <1>3, <2>1, <2>2 DEF ComeOf, AfterGet
<1>5. cb.ans.call # calls
  <2>1. In(Line) \subseteq Nat /\ \A c \in In(Line) : cb.ans.call < c
    BY LineNow, ClientAssumption DEF In, CallNo, OrderInv, Taken
  <2> QED BY <1>1, <1>4, <2>1, Kinds
<1> QED BY <1>2, <1>3, <1>5

\* The oldest result gets the answer.  When two are queued they are those of
\* the two requests that are on their way, and the answer is that of the older.
LEMMA PopCore == Typed /\ Core /\ PopResult => Core'
<1> SUFFICES ASSUME Typed, Core, PopResult PROVE Core'
    OBVIOUS
<1> USE DEF Core
<1>1. /\ cb.pc = "pop" /\ cb \in CbSet
      /\ UNCHANGED <<app, gap, counter, calls, mine, res, sent, reading, answers, lib, item, user>>
  BY DEF PopResult, appVars, srvVars, toolVars, Typed, TypeParts, CallbackTypes
<1>2. Coming = {cb.ans.call} \cup In(Line)
  BY <1>1, ComingIs
<1>3. Coming' = (IF cb'.pc = "pop" THEN {cb'.ans.call} ELSE {}) \cup In(Line)
  <2>1. Typed'
    BY CallbackTyped DEF Callback
  <2> QED BY <1>1, <2>1, ComingLater DEF Line
<1>4. CallOf'
  BY <1>1, SameCall
<1>5. CASE queue = << >>
  <2>1. cb' = NoCb /\ queue' = << >>
    BY <1>5 DEF PopResult
  <2>2. cb'.pc = "idle"
    BY <2>1 DEF NoCb
  <2>3. Shape' /\ ComeInv' /\ ResultInv' /\ SettingsInv' /\ OrderInv'
    <3>1. In(queue') = {}
      BY <2>1, InShort
    <3>2. Shape'
      BY <1>1, <1>5, <2>1 DEF Shape
    <3>3. SettingsInv'
      BY <1>1, <1>5, <2>1, <2>2 DEF SettingsInv, SettingsOf, Stage, Held, Newest, Exists
    <3>4. OrderInv'
      BY <1>1, <2>2 DEF OrderInv, Line, Taken
    <3> QED BY <2>2, <3>1, <3>2, <3>3, <3>4 DEF ComeInv, ResultInv, Held, Taken
  <2> QED BY <1>4, <2>3
<1>6. CASE queue # << >>
  <2>1. PICK h \in Index : h = Head(queue)
    BY <1>6, Kinds
  <2>2. /\ queue' = (IF Stays THEN queue ELSE Tail(queue)) /\ cb' = [cb EXCEPT !.pc = "find", !.idx = h]
    BY <1>6, <2>1 DEF PopResult
  <2>3. /\ cb'.pc = "find" /\ cb'.idx = h /\ cb'.ans = cb.ans /\ cb'.act = cb.act
    BY <1>1, <2>2 DEF CbSet
  <2>4. \/ queue = <<h>> /\ h = Newest /\ queue' \in {queue, << >>} /\ In(queue) = {h}
           /\ (queue' = queue => res[h].keep)
        \/ TwoQueued
    <3>1. CASE queue = <<Newest>>
      <4>1. h = Newest /\ Tail(queue) = << >> /\ In(queue) = {h}
        BY <2>1, <3>1, InShort
      <4> QED BY <2>1, <2>2, <3>1, <4>1 DEF Stays
    <3> QED BY <1>6, <3>1 DEF Shape
  <2>5. CASE TwoQueued
    <3>1. PICK i \in Index \ {Newest} :
            /\ queue = <<i, Newest>> /\ In(queue) = {i, Newest} /\ Newest \in Index
            /\ Age(i) = 1 /\ res[i].call < calls
      BY <2>5, QueueIs
    <3>2. h = i /\ Tail(queue) = <<Newest>>
      BY <2>1, <3>1, InShort
    <3>3. /\ res[Newest].call = calls /\ app.idx = Newest /\ cb.ans.call # calls
          /\ \A j \in Index : item[j] = "none" /\ user[j] = "idle" /\ ~res[j].keep
      BY <1>1, <2>5, OlderAnswer
    <3>4. queue' = <<Newest>>
      BY <2>1, <2>2, <3>2, <3>3 DEF Stays
    <3>5. In(queue') = {Newest}
      BY <3>4, InShort
    <3>6. Shape'
      BY <1>1, <2>5, <3>4 DEF Shape, TwoQueued, Newest
    <3>7. ResultInv'
      BY <1>1, <2>3, <3>1, <3>2, <3>5 DEF ResultInv, Held, Taken, Exists
    <3>8. SettingsInv'
      BY <1>1, <3>3 DEF SettingsInv, SettingsOf
    <3>9. OrderInv'
      BY <1>1, <2>3 DEF OrderInv, Line, Taken
    <3>10. ComeInv'
      <4>1. ComeOf(Newest) /\ ~Held
        BY <1>1, <3>1 DEF ComeInv, Held
      <4>7. ComeOf(Newest)'
        BY <1>1, <1>2, <1>3, <2>3, <3>3, <4>1 DEF ComeOf, Newest, AfterGet
      <4> QED BY <1>1, <3>5, <4>7 DEF ComeInv, Newest
    <3> QED BY <1>4, <3>6, <3>7, <3>8, <3>9, <3>10
  <2>6. CASE queue = <<h>> /\ h = Newest /\ queue' \in {queue, << >>} /\ In(queue) = {h}
             /\ (queue' = queue => res[h].keep)
    <3>1. In(queue') = {} \/ (In(queue') = {h} /\ queue' = queue)
      BY <2>6, InShort
    <3>2. Shape'
      BY <1>1, <2>6 DEF Shape, TwoQueued, Newest, Age
    <3>3. ResultInv'
      BY <1>1, <2>3, <2>6, <3>1 DEF ResultInv, Held, Taken, Exists
    <3>4. SettingsInv'
      BY <1>1, <2>3, <2>6 DEF SettingsInv, SettingsOf, Stage, Newest, Exists
    <3>5. OrderInv'
      BY <1>1, <2>3 DEF OrderInv, Line, Taken
    <3>6. ComeInv'
      BY <2>3, <3>1 DEF ComeInv, ComeOf, Held
    <3> QED BY <1>4, <3>2, <3>3, <3>4, <3>5, <3>6
  <2> QED BY <2>4, <2>5, <2>6
<1> QED BY <1>5, <1>6

\* The result is looked for.
LEMMA FindCore == Typed /\ Core /\ FindResult => Core'
<1> SUFFICES ASSUME Typed, Core, FindResult PROVE Core'
    OBVIOUS
<1> USE DEF Core
<1>1. /\ cb.pc = "find" /\ cb \in CbSet
      /\ UNCHANGED <<app, gap, counter, calls, mine, queue, res, sent, reading, answers, lib, item, user>>
  BY DEF FindResult, appVars, srvVars, toolVars, Typed, TypeParts, CallbackTypes
<1>2. Coming' = Coming
  <2>1. cb'.pc # "pop"
    BY <1>1 DEF FindResult, CbSet, NoCb
  <2> QED BY <1>1, <2>1 DEF Coming
<1>3. Shape' /\ CallOf'
  BY <1>1, SameShape, SameCall
<1>4. CASE Exists(cb.idx)
  <2>1. /\ cb' = [cb EXCEPT !.pc = "set", !.obj = res[cb.idx].obj]
    BY <1>4 DEF FindResult
  <2>2. /\ cb'.pc = "set" /\ cb'.idx = cb.idx /\ cb'.ans = cb.ans /\ cb'.act = cb.act
        /\ cb'.obj = res[cb.idx].obj
    BY <1>1, <2>1 DEF CbSet
  <2>3. ResultInv'
    BY <1>1, <2>2 DEF ResultInv, Held, Taken, Exists
  <2>4. SettingsInv'
    BY <1>1, <2>2 DEF SettingsInv, SettingsOf, Stage, Held, Newest, Exists
  <2>5. OrderInv'
    BY <1>1, <2>2 DEF OrderInv, Line, Taken
  <2>6. ComeInv'
    BY <1>1, <1>2, <2>2 DEF ComeInv, ComeOf, Held
  <2> QED BY <1>3, <2>3, <2>4, <2>5, <2>6
<1>5. CASE ~Exists(cb.idx)
  <2>1. cb'.pc = "crashed"
    BY <1>5 DEF FindResult, NoCb
  <2>2. cb.idx \notin In(queue)
    BY <1>5 DEF ResultInv
  <2>3. ResultInv'
    BY <1>1, <2>1 DEF ResultInv, Held, Taken, Exists
  <2>4. SettingsInv'
    BY <1>1, <2>1 DEF SettingsInv, SettingsOf, Stage, Held, Newest, Exists
  <2>5. OrderInv'
    BY <1>1, <2>1 DEF OrderInv, Line, Taken
  <2>6. ComeInv'
    BY <1>1, <1>2, <2>1, <2>2 DEF ComeInv, ComeOf, Held
  <2> QED BY <1>3, <2>3, <2>4, <2>5, <2>6
<1> QED BY <1>4, <1>5

\* The result is filled in: that of settings stays, and its thread begins.
LEMMA SetCore == Typed /\ Core /\ SetResult => Core'
<1> SUFFICES ASSUME Typed, Core, SetResult PROVE Core'
    OBVIOUS
<1> USE DEF Core
<1>1. /\ cb.pc = "set"
      /\ UNCHANGED <<app, gap, counter, calls, mine, queue, sent, reading, answers, lib, item>>
  BY DEF SetResult, appVars, srvVars
<1>2. cb'.pc \in {"idle", "crashed"}
  BY DEF SetResult, NoCb
<1>3. Coming' = Coming
  BY <1>1, <1>2 DEF Coming
<1>4. cb.idx \in Index /\ \A i \in Index : res[i] \in Result
  BY Kinds DEF Typed, TypeParts, ResultTypes
<1>5. OrderInv'
  BY <1>1, <1>2 DEF OrderInv, Line, Taken
<1>6. CASE res[cb.idx].obj # cb.obj
  <2>1. res' = res /\ user' = user
    BY <1>6 DEF SetResult
  <2>2. cb.idx \notin In(queue)
    BY <1>1, <1>6 DEF ResultInv
  <2>3. ResultInv'
    BY <1>1, <1>2, <2>1 DEF ResultInv, Held, Taken, Exists
  <2>4. SettingsInv'
    BY <1>1, <1>2, <2>1 DEF SettingsInv, SettingsOf, Stage, Held, Newest, Exists
  <2>5. ComeInv'
    BY <1>1, <1>2, <1>3, <2>1, <2>2 DEF ComeInv, ComeOf, Held
  <2> QED BY <1>1, <1>5, <2>1, <2>3, <2>4, <2>5, SameShape, SameCall
<1>7. CASE res[cb.idx].obj = cb.obj
  <2>1. PICK d \in CallNo : d = IF cb.act = "cancel" THEN 0 ELSE cb.ans.data
    BY Kinds, ClientAssumption DEF AnswerType, CallNo
  <2>2. PICK new : new = [res[cb.idx] EXCEPT !.by = cb.ans.call, !.ok = cb.ans.ok, !.data = d]
    OBVIOUS
  <2>3. new.keep = res[cb.idx].keep /\ new.obj = res[cb.idx].obj /\ new.call = res[cb.idx].call
    <3>1. PICK r \in Result, a \in AnswerType : r = res[cb.idx] /\ a = cb.ans
      BY <1>4, Kinds
    <3>2. new = [r EXCEPT !.by = a.call, !.ok = a.ok, !.data = d]
      BY <2>2, <3>1
    <3>3. new.keep = r.keep /\ new.obj = r.obj /\ new.call = r.call
      BY <3>2 DEF Result
    <3> QED BY <3>1, <3>3
  <2>4. /\ res' = [res EXCEPT ![cb.idx] = new]
        /\ res[cb.idx].keep => user[cb.idx] = "idle"
        /\ user' = IF res[cb.idx].keep THEN [user EXCEPT ![cb.idx] = "get"] ELSE user
    BY <1>7, <2>1, <2>2 DEF SetResult
  <2>5. /\ \A i \in Index \ {cb.idx} : res'[i] = res[i] /\ user'[i] = user[i]
        /\ res'[cb.idx] = new
        /\ user'[cb.idx] = IF res[cb.idx].keep THEN "get" ELSE user[cb.idx]
    BY <1>4, <2>4, Kinds
  <2>6. \A i \in Index : res'[i].keep = res[i].keep /\ res'[i].obj = res[i].obj /\ res'[i].call = res[i].call
    BY <1>4, <2>3, <2>5
  <2>7. Shape'
    BY <1>1, <2>6 DEF Shape, TwoQueued, Newest, Age
  <2>8. CallOf'
    BY <1>1, <2>6, Kinds DEF CallOf, Busy, Newest
  <2>9. ResultInv'
    <3>1. ASSUME NEW i \in In(queue) PROVE Exists(i)' /\ (~res'[i].keep => res'[i].by = 0)
      <4>1. i \in Index /\ Exists(i) /\ (~res[i].keep => res[i].by = 0)
        BY <3>1, Kinds DEF ResultInv
      <4>2. i = cb.idx => res[i].keep
        BY <1>1, <3>1 DEF ResultInv, Held
      <4>3. i # cb.idx => res'[i].by = res[i].by
        BY <2>5, <4>1
      <4> QED BY <2>6, <4>1, <4>2, <4>3 DEF Exists
    <3> QED BY <1>1, <1>2, <3>1 DEF ResultInv, Held, Taken
  <2>10. SettingsInv'
    <3>1. ASSUME NEW i \in Index PROVE SettingsOf(i)'
      <4>1. SettingsOf(i)
        BY DEF SettingsInv
      <4>2. user'[i] = user[i] \/ (i = cb.idx /\ user[i] = "idle" /\ user'[i] = "get" /\ item[i] # "none")
        BY <2>4, <2>5, <4>1 DEF SettingsOf
      <4>3. Stage(i) => Stage(i)'
        BY <1>1, <4>2 DEF Stage
      <4>4. res'[i].keep <=> item'[i] # "none"
        BY <1>1, <2>6, <4>1 DEF SettingsOf
      <4>5. user'[i] # "idle" => item'[i] # "none"
        BY <1>1, <4>1, <4>2 DEF SettingsOf
      <4> QED BY <1>1, <1>2, <2>6, <4>1, <4>3, <4>4, <4>5 DEF SettingsOf, Held, Newest, Exists
    <3> QED BY <1>1, <3>1 DEF SettingsInv
  <2>11. ComeInv'
    <3>1. SUFFICES ASSUME NEW i \in In(queue) PROVE ComeOf(i)'
      BY <1>1 DEF ComeInv
    <3>2. i \in Index /\ ComeOf(i)
      BY Kinds DEF ComeInv
    <3>3. i = cb.idx => user'[i] = "get"
      BY <1>1, <2>5 DEF ResultInv, Held
    <3>4. i # cb.idx => user'[i] = user[i]
      BY <2>5, <3>2
    <3> QED BY <1>1, <1>3, <2>6, <3>2, <3>3, <3>4 DEF ComeOf, AfterGet
  <2> QED BY <1>5, <2>7, <2>8, <2>9, <2>10, <2>11
<1> QED BY <1>6, <1>7

\* A wait that failed is not queued any more when its result is removed.
LEMMA WaitFailsCore == Typed /\ Core /\ WaitFails => Core'
<1> SUFFICES ASSUME Typed, Core, WaitFails PROVE Core'
    OBVIOUS
<1> USE DEF Core
<1>1. /\ lib = "dll" /\ mine.call # 0 /\ res[mine.idx].call = mine.call /\ res[mine.idx].by # 0
      /\ queue' = Without(queue, mine.idx) /\ res' = [res EXCEPT ![mine.idx] = NoResult]
      /\ UNCHANGED <<app, gap, counter, calls, mine, sent, reading, answers, cb, lib, item, user>>
  BY DEF WaitFails, Told, appVars, srvVars, toolVars
<1>2. mine.idx \in Index /\ queue \in Seq(Index)
  BY Kinds
<1>3. \A i \in Index : item[i] = "none" /\ user[i] = "idle" /\ ~res[i].keep
  BY <1>1 DEF Typed, CallInv
<1>4. mine.idx \notin In(queue)
  BY <1>1, <1>2, <1>3 DEF ResultInv
<1>5. queue' = queue
  BY <1>1, <1>2, <1>4, WithoutShort
<1>6. res'[mine.idx] = NoResult /\ \A i \in Index \ {mine.idx} : res'[i] = res[i]
  BY <1>1, <1>2, Kinds
<1>7. \A i \in In(queue) : res'[i] = res[i]
  BY <1>4, <1>6, Kinds
<1>8. \A i \in Index : res'[i].call <= res[i].call /\ ~res'[i].keep
  BY <1>3, <1>6, Kinds DEF NoResult
<1>9. Shape'
  <2>1. ASSUME TwoQueued PROVE TwoQueued'
    <3>1. PICK i \in Index \ {Newest} : queue = <<i, Newest>> /\ In(queue) = {i, Newest}
                                          /\ Age(i) = 1 /\ res[i].call < calls
      BY <2>1, QueueIs
    <3>2. res'[i].call < calls
      BY <1>7, <3>1
    <3> QED BY <1>1, <1>5, <2>1, <3>1, <3>2 DEF TwoQueued, Age, Newest
  <2> QED BY <1>1, <1>5, <2>1 DEF Shape, Newest
<1>10. CallOf'
  <2>1. \A i \in Index : res'[i].call <= calls
    BY <1>6, Kinds DEF NoResult, CallOf
  <2>2. Busy => app.idx # mine.idx
    BY <1>1, Kinds DEF CallOf
  <2>3. Busy => res'[app.idx] = res[app.idx]
    BY <1>6, <2>2, Kinds
  <2> QED BY <1>1, <2>1, <2>3 DEF CallOf, Busy, Newest
<1>11. ResultInv'
  BY <1>1, <1>5, <1>7 DEF ResultInv, Held, Taken, Exists
<1>12. SettingsInv'
  BY <1>1, <1>3, <1>8 DEF SettingsInv, SettingsOf
<1>13. OrderInv'
  BY <1>1, SameOrder
<1>14. ComeInv'
  <2>1. Coming' = Coming
    BY <1>1, SameComing
  <2> QED BY <1>1, <1>5, <1>7, <2>1 DEF ComeInv, ComeOf, Held
<1> QED BY <1>9, <1>10, <1>11, <1>12, <1>13, <1>14

\* What the application does with data, or to cancel settings, is nothing of
\* what is known here.
LEMMA DataCore == Typed /\ Core /\ (GetData \/ Cancel) => Core'
<1> SUFFICES ASSUME Typed, Core, GetData \/ Cancel PROVE Core'
    OBVIOUS
<1>1. UNCHANGED <<app, gap, counter, calls, mine, queue, res, sent, reading, answers, cb, lib, item, user>>
  BY DEF GetData, GetCashed, GetResult, Cancel, appVars, srvVars, toolVars
<1> QED BY <1>1, SameShape, SameCall, SameResult, SameSettings, SameOrder, SameCome DEF Core

\* The index and the phases are put into the entry.
LEMMA FillCore == Typed /\ Core /\ FillEntry => Core'
<1> SUFFICES ASSUME Typed, Core, FillEntry PROVE Core'
    OBVIOUS
<1> USE DEF Core
<1>1. PICK i \in Index :
        /\ item[i] = "new" /\ ~(app.op = "settings" /\ app.idx = i)
        /\ item' = [item EXCEPT ![i] = "set"]
        /\ UNCHANGED <<app, gap, counter, calls, mine, queue, res, sent, reading, answers, cb, lib, user>>
  BY DEF FillEntry, phaseVars, srvVars
<1>2. item'[i] = "set" /\ \A j \in Index \ {i} : item'[j] = item[j]
  BY <1>1, Kinds
<1>3. SettingsInv'
  <2>1. ASSUME NEW j \in Index PROVE SettingsOf(j)'
    <3>1. SettingsOf(j)
      BY DEF SettingsInv
    <3>2. CASE j = i
      <4>1. Stage(i) /\ i = Newest
        BY <1>1, <3>1, <3>2 DEF SettingsOf
      <4>2. Stage(i)'
        BY <1>1, <1>2, <4>1 DEF Stage, CallOf, Busy
      <4> QED BY <1>1, <1>2, <3>1, <3>2, <4>2 DEF SettingsOf, Held, Newest, Exists
    <3>3. CASE j # i
      <4>1. item'[j] = item[j]
        BY <1>2, <3>3
      <4> QED BY <1>1, <3>1, <4>1 DEF SettingsOf, Stage, Held, Newest, Exists
    <3> QED BY <3>2, <3>3
  <2> QED BY <1>1, <2>1 DEF SettingsInv
<1> QED BY <1>1, <1>3, SameShape, SameCall, SameResult, SameOrder, SameCome

\* The thread of a callback changes nothing but how far it is.
LEMMA StageCore ==
    ASSUME Typed, Core, NEW i \in Index, app.pc = "idle", user[i] \in AfterGet,
           user'[i] \in AfterGet, \A j \in Index \ {i} : user'[j] = user[j],
           item[i] = "set", item' = item,
           UNCHANGED <<app, gap, counter, calls, mine, queue, res, sent, reading, answers, cb, lib>>
    PROVE  Core'
<1> USE DEF Core
<1>1. SettingsInv'
  <2>1. ASSUME NEW j \in Index PROVE SettingsOf(j)'
    <3>1. SettingsOf(j)
      BY DEF SettingsInv
    <3>2. CASE j = i
      <4>1. Stage(i)'
        BY <3>2 DEF Stage, AfterGet
      <4> QED BY <3>1, <3>2, <4>1 DEF SettingsOf, Held, Newest, Exists, AfterGet
    <3>3. CASE j # i
      <4>1. user'[j] = user[j]
        BY <3>3
      <4> QED BY <3>1, <4>1 DEF SettingsOf, Stage, Held, Newest, Exists
    <3> QED BY <3>2, <3>3
  <2> QED BY <2>1 DEF SettingsInv
<1>2. ComeInv'
  <2>1. SUFFICES ASSUME NEW j \in In(queue) PROVE ComeOf(j)'
    BY DEF ComeInv
  <2>2. j \in Index /\ ComeOf(j)
    BY Kinds DEF ComeInv
  <2>3. user[j] \in AfterGet => user'[j] \in AfterGet
    BY <2>2
  <2>4. Coming' = Coming
    BY SameComing
  <2> QED BY <2>2, <2>3, <2>4 DEF ComeOf, Held
<1>3. app'.pc = "send" => app.pc = "send"
  OBVIOUS
<1> QED BY <1>1, <1>2, <1>3, SameShape, SameCall, SameResult, SameOrder

\* The settings that a thread is busy with.
LEMMA SettingsNow ==
    ASSUME Typed, Core, NEW i \in Index, user[i] \in AfterGet \ {"get"}
    PROVE  /\ item[i] = "set" /\ app.pc = "idle" /\ i = Newest /\ lib = "tools" /\ gap = 0
           /\ queue \in {<< >>, <<i>>} /\ Exists(i) /\ (Held => cb.idx = i)
           /\ \A j \in Index \ {i} : item[j] = "none" /\ user[j] = "idle" /\ ~res[j].keep
<1>1. \A j \in Index : SettingsOf(j)
  BY DEF Core, SettingsInv
<1>2. item[i] # "none"
  BY <1>1 DEF SettingsOf, AfterGet
<1>3. Stage(i) /\ i = Newest /\ lib = "tools" /\ gap = 0 /\ queue \in {<< >>, <<i>>} /\ Exists(i)
      /\ (Held => cb.idx = i)
  BY <1>1, <1>2 DEF SettingsOf, AfterGet
<1>4. app.pc = "idle" /\ item[i] # "new"
  BY <1>3 DEF Stage, AfterGet
<1>5. item[i] = "set"
  BY <1>2, <1>4, Kinds
<1>6. ASSUME NEW j \in Index \ {i} PROVE item[j] = "none" /\ user[j] = "idle" /\ ~res[j].keep
  BY <1>1, <1>3, Kinds DEF SettingsOf
<1> QED BY <1>3, <1>4, <1>5, <1>6

\* A thread that begins finds its entry filled in.
LEMMA GetCore == Typed /\ Core /\ Clean' /\ (\E i \in Index : GetEntry(i)) => Core'
<1> SUFFICES ASSUME Typed, Core, Clean', NEW i \in Index, GetEntry(i) PROVE Core'
    OBVIOUS
<1>1. user[i] = "get" /\ item[i] # "new"
  BY DEF GetEntry, Clean
<1>2. item[i] # "none" /\ Stage(i)
  BY <1>1 DEF Core, SettingsInv, SettingsOf
<1>3. item[i] = "set"
  BY <1>1, <1>2, Kinds
<1>4. app.pc = "idle"
  BY <1>1, <1>2, <1>3 DEF Stage
<1>5. item' = item
  <2>1. item' = [item EXCEPT ![i] = IF @ = "set" THEN @ ELSE "none"]
    BY DEF GetEntry
  <2> QED BY <1>3, <2>1, Kinds
<1>6. user' = [user EXCEPT ![i] = IF cancel THEN "quit" ELSE "process"]
  BY <1>3 DEF GetEntry
<1>7. user'[i] \in {"quit", "process"} /\ \A j \in Index \ {i} : user'[j] = user[j]
  BY <1>6, Kinds
<1>8. UNCHANGED <<app, gap, counter, calls, mine, queue, res, sent, reading, answers, cb, lib>>
  BY DEF GetEntry, phaseVars, srvVars
<1>9. user[i] \in AfterGet /\ user'[i] \in AfterGet
  BY <1>1, <1>7 DEF AfterGet
<1> QED BY <1>3, <1>4, <1>5, <1>7, <1>8, <1>9, StageCore

\* The answer is decoded, or there is no phase left.
LEMMA ProcessCore == Typed /\ Core /\ (\E i \in Index : Process(i) \/ NoPhase(i)) => Core'
<1> SUFFICES ASSUME Typed, Core, NEW i \in Index, Process(i) \/ NoPhase(i) PROVE Core'
    OBVIOUS
<1>1. user[i] \in {"process", "next"} /\ app.pc = "idle" /\ item' = item
  BY DEF Process, NoPhase
<1>2. UNCHANGED <<app, gap, counter, calls, mine, queue, res, sent, reading, answers, cb, lib>>
  BY DEF Process, NoPhase, phaseVars, srvVars
<1>3. user'[i] \in {"next", "drop"} /\ \A j \in Index \ {i} : user'[j] = user[j]
  <2>1. PICK s \in {"next", "drop"} : user' = [user EXCEPT ![i] = s]
    BY DEF Process, NoPhase
  <2> QED BY <2>1, Kinds
<1>4. user[i] \in AfterGet \ {"get"} /\ user'[i] \in AfterGet
  BY <1>1, <1>3 DEF AfterGet
<1>5. item[i] = "set"
  BY <1>4, SettingsNow
<1> QED BY <1>1, <1>2, <1>3, <1>4, <1>5, StageCore

\* The next phase is sent for the result that stayed.
LEMMA NextPhaseCore == Typed /\ Core /\ (\E i \in Index : NextPhase(i)) => Core'
<1> SUFFICES ASSUME Typed, Core, NEW i \in Index, NextPhase(i) PROVE Core'
    OBVIOUS
<1> USE DEF Core
<1>1. /\ user[i] = "next" /\ app.pc = "idle" /\ calls' = calls + 1
      /\ app' = [NoApp EXCEPT !.pc = "send", !.op = "phase", !.act = "transmit",
                            !.idx = i, !.call = calls + 1]
      /\ user' = [user EXCEPT ![i] = "send"]
      /\ UNCHANGED <<gap, counter, mine, queue, sent, reading, answers, cb, lib, item>>
  BY DEF NextPhase, phaseVars, srvVars
<1>2. /\ item[i] = "set" /\ i = Newest /\ lib = "tools" /\ gap = 0
      /\ queue \in {<< >>, <<i>>} /\ Exists(i) /\ (Held => cb.idx = i)
      /\ \A j \in Index \ {i} : item[j] = "none" /\ user[j] = "idle" /\ ~res[j].keep
  BY <1>1, SettingsNow DEF AfterGet
<1>3. /\ app'.pc = "send" /\ app'.op = "phase" /\ app'.act = "transmit" /\ app'.idx = i
      /\ app'.call = calls + 1
  BY <1>1 DEF NoApp
<1>4. calls \in Nat /\ res[i] \in Result
  BY Kinds DEF Typed, TypeParts, ResultTypes
<1>5. PICK new : new = [res[i] EXCEPT !.call = calls + 1, !.by = 0]
  OBVIOUS
<1>6. new.call = calls + 1 /\ new.by = 0 /\ new.keep = res[i].keep /\ new.obj = res[i].obj
  BY <1>4, <1>5 DEF Result
<1>7. res' = [res EXCEPT ![i] = new]
  BY <1>5 DEF NextPhase
<1>8. res'[i] = new /\ \A j \in Index \ {i} : res'[j] = res[j]
  BY <1>7, Kinds
<1>9. user'[i] = "send" /\ \A j \in Index \ {i} : user'[j] = user[j]
  BY <1>1, Kinds
<1>10. \A j \in In(queue) : j = i
  BY <1>2, InShort
<1>11. Shape'
  BY <1>1, <1>2, <1>3 DEF Shape, Newest
<1>12. CallOf'
  <2>1. ASSUME NEW j \in Index PROVE res'[j].call <= calls + 1
    <3>1. CASE j = i
      BY <1>4, <1>6, <1>8, <3>1
    <3>2. CASE j # i
      <4>1. res'[j] = res[j] /\ res[j].call <= calls /\ res[j].call \in Nat
        BY <1>8, <3>2, Kinds DEF CallOf
      <4> QED BY <1>4, <4>1
    <3> QED BY <3>1, <3>2
  <2>2. mine.call < calls + 1
    BY <1>4, Kinds DEF CallOf
  <2>3. mine.call <= calls + 1
    BY <1>4, Kinds DEF CallOf
  <2> QED BY <1>1, <1>2, <1>3, <1>6, <1>8, <2>1, <2>2, <2>3 DEF CallOf, Newest
<1>13. ResultInv'
  <2>1. \A j \in Index : res'[j].keep = res[j].keep /\ res'[j].obj = res[j].obj
    BY <1>6, <1>8
  <2>2. \A j \in In(queue) : res'[j].by = 0 /\ res'[j].obj # 0
    BY <1>2, <1>6, <1>8, <1>10 DEF Exists
  <2>3. In(queue) \subseteq Index
    BY Kinds
  <2> QED BY <1>1, <2>1, <2>2, <2>3 DEF ResultInv, Held, Taken, Exists
<1>14. SettingsInv'
  <2>1. SettingsOf(i)'
    <3>1. SettingsOf(i)
      BY DEF SettingsInv
    <3>2. Stage(i)'
      BY <1>1, <1>2, <1>3, <1>9 DEF Stage
    <3> QED BY <1>1, <1>2, <1>6, <1>8, <3>1, <3>2 DEF SettingsOf, Newest, Held, Exists
  <2>2. ASSUME NEW j \in Index \ {i} PROVE SettingsOf(j)'
    <3>1. item'[j] = "none" /\ user'[j] = "idle" /\ ~res'[j].keep
      BY <1>1, <1>2, <1>8, <1>9
    <3> QED BY <3>1 DEF SettingsOf
  <2>3. \A j \in Index : SettingsOf(j)'
    BY <2>1, <2>2
  <2> QED BY <1>1, <1>2, <2>3 DEF SettingsInv
<1>15. OrderInv'
  <2>1. Taken => cb.ans.call < calls + 1
    BY <1>4, Kinds DEF OrderInv
  <2>2. \A c \in In(Line) : c < calls + 1 /\ c <= calls + 1
    <3>1. In(Line) \subseteq Nat
      BY LineNow, ClientAssumption DEF In, CallNo
    <3> QED BY <1>4, <3>1 DEF OrderInv
  <2> QED BY <1>1, <1>4, <2>1, <2>2, Kinds DEF OrderInv, Line, Taken
<1>16. ComeInv'
  BY <1>1, <1>3, <1>10 DEF ComeInv, ComeOf
<1> QED BY <1>11, <1>12, <1>13, <1>14, <1>15, <1>16

\* The end of settings leaves nothing queued.
LEMMA EndCore == Typed /\ Core /\ (\E i \in Index : EndPhases(i)) => Core'
<1> SUFFICES ASSUME Typed, Core, NEW i \in Index, EndPhases(i) PROVE Core'
    OBVIOUS
<1> USE DEF Core
<1>1. /\ user[i] \in {"drop", "quit"} /\ item' = [item EXCEPT ![i] = "none"]
      /\ queue' = Without(queue, i) /\ res' = [res EXCEPT ![i] = NoResult]
      /\ user' = [user EXCEPT ![i] = "idle"]
      /\ UNCHANGED <<app, gap, counter, calls, mine, sent, reading, answers, cb, lib>>
  BY DEF EndPhases, phaseVars, srvVars
<1>2. /\ app.pc = "idle" /\ i = Newest /\ gap = 0 /\ queue \in {<< >>, <<i>>}
      /\ \A j \in Index \ {i} : item[j] = "none" /\ user[j] = "idle" /\ ~res[j].keep
  BY <1>1, SettingsNow DEF AfterGet
<1>3. queue' = << >> /\ In(queue') = {}
  BY <1>1, <1>2, WithoutShort, InShort
<1>4. /\ res'[i] = NoResult /\ user'[i] = "idle" /\ item'[i] = "none"
      /\ \A j \in Index \ {i} : res'[j] = res[j] /\ user'[j] = user[j] /\ item'[j] = item[j]
  BY <1>1, Kinds
<1>5. \A j \in Index : ~res'[j].keep /\ user'[j] = "idle" /\ item'[j] = "none"
  BY <1>2, <1>4 DEF NoResult
<1>6. Shape'
  BY <1>1, <1>2, <1>3 DEF Shape
<1>7. CallOf'
  <2>1. \A j \in Index : res'[j].call <= calls
    BY <1>4, Kinds DEF NoResult, CallOf
  <2> QED BY <1>1, <1>2, <2>1 DEF CallOf, Busy
<1>8. ResultInv'
  BY <1>1, <1>3 DEF ResultInv, Held, Taken
<1>9. SettingsInv'
  BY <1>1, <1>5 DEF SettingsInv, SettingsOf
<1>10. OrderInv'
  BY <1>1, SameOrder
<1>11. ComeInv'
  BY <1>3 DEF ComeInv
<1> QED BY <1>6, <1>7, <1>8, <1>9, <1>10, <1>11

\* No step ends it, as long as a result is made only when it is not held.
LEMMA CoreStep ==
    Typed /\ Core /\ Clean' /\ Alone /\ MaxIndex >= 2 /\ FreshResult /\ [Next]_vars => Core'
<1> SUFFICES ASSUME Typed, Core, Clean', Alone, MaxIndex >= 2, FreshResult, [Next]_vars PROVE Core'
    OBVIOUS
<1>1. CASE BeginMsr \/ BeginTool \/ BeginSecond
  BY <1>1, BeginCore
<1>2. CASE Call \/ TimeOut
  BY <1>2, CreateCore, SendCore, NoteCore, WaitCore, RemoveCore DEF Call
<1>3. CASE Serve \/ Swipe
  BY <1>3, ServerCore
<1>4. CASE Callback
  BY <1>4, TakeCore, PopCore, FindCore, SetCore DEF Callback
<1>5. CASE WaitFails \/ GetData \/ Cancel
  BY <1>5, WaitFailsCore, DataCore
<1>6. CASE Phase
  BY <1>6, FillCore, GetCore, ProcessCore, NextPhaseCore, EndCore DEF Phase
<1>7. CASE UNCHANGED vars
  BY <1>7, SameShape, SameCall, SameResult, SameSettings, SameOrder, SameCome
     DEF Core, vars, appVars, srvVars, userVars, toolVars
<1> QED BY <1>1, <1>2, <1>3, <1>4, <1>5, <1>6, <1>7 DEF Next

\* At first nothing is queued and nothing is to come.
LEMMA CoreInit == Init => Core
<1> SUFFICES ASSUME Init PROVE Core
    OBVIOUS
<1>1. /\ app.pc = "create" /\ app.act = "cancel" /\ gap = 0 /\ queue = << >> /\ calls = 0
      /\ mine.call = 0 /\ cb.pc = "idle" /\ sent = << >> /\ reading = << >> /\ answers = << >>
      /\ \A i \in Index : res[i] = NoResult /\ item[i] = "none" /\ user[i] = "idle"
  BY DEF Init, NoApp, NoCb
<1>2. In(queue) = {}
  BY <1>1, InShort
<1>3. Rising(Line) /\ In(Line) = {}
  <2>1. Typed
    BY TypedInit
  <2>2. Len(Line) = 0
    BY <1>1, <2>1, LineNow
  <2> QED BY <2>2 DEF Rising, In
<1>4. Shape /\ CallOf
  BY <1>1 DEF Shape, CallOf, Busy, NoResult
<1>5. ResultInv /\ ComeInv
  BY <1>1, <1>2 DEF ResultInv, ComeInv, Held, Taken
<1>6. SettingsInv
  BY <1>1 DEF SettingsInv, SettingsOf, NoResult
<1>7. OrderInv
  BY <1>1, <1>3 DEF OrderInv, Taken
<1> QED BY <1>4, <1>5, <1>6, <1>7 DEF Core

\* The result that the callback holds is as old as results were given up or
\* are queued.
Young ==
    Held => /\ Age(cb.idx) <= late + Len(queue)
            /\ app.pc = "remove" /\ app.idx \in In(queue) => Age(cb.idx) < late + Len(queue)

\* An index comes around again only when its result is MaxIndex results old.
LEMMA YoungIsFresh == Typed /\ Core /\ Young /\ late + 2 <= MaxIndex => FreshResult
<1> SUFFICES ASSUME Typed, Core, Young, late + 2 <= MaxIndex,
                    app.pc = "create", Held, cb.idx = NextIndex
             PROVE  FALSE
    BY DEF FreshResult
<1>1. Len(queue) \in {0, 1}
  BY QueueIs DEF Core
<1>2. Age(cb.idx) = MaxIndex
  <2>1. counter \in 0 .. MaxIndex + 1 /\ MaxIndex \in Nat
    BY Kinds, ClientAssumption
  <2> QED BY <2>1 DEF NextIndex, Age
<1>3. late \in Nat /\ MaxIndex \in Nat /\ Age(cb.idx) <= late + Len(queue)
  BY Kinds, ClientAssumption DEF Young
<1>4. PICK n \in {0, 1} : n = Len(queue)
  BY <1>1
<1>5. MaxIndex <= late + n
  BY <1>2, <1>3, <1>4
<1> QED BY <1>3, <1>5

\* What the callback holds grows older only with requests given up or queued.
LEMMA YoungStep ==
    Typed /\ Core /\ Core' /\ Typed' /\ Young /\ MaxIndex >= 2 /\ FreshResult /\ [Next]_vars => Young'
<1> SUFFICES ASSUME Typed, Core, Core', Typed', Young, MaxIndex >= 2, FreshResult, [Next]_vars
             PROVE  Young'
    OBVIOUS
<1>1. \A i \in Index : Age(i) \in Int
  BY Kinds, ClientAssumption DEF Age, Index
<1>2. late \in Nat /\ Len(queue) \in Nat /\ cb.idx \in Index
  BY Kinds
<1>3. ASSUME UNCHANGED <<counter, queue, cb, late>>, app'.pc = "remove" => app' = app PROVE Young'
  BY <1>3 DEF Young, Held, Age
<1>4. CASE BeginMsr \/ BeginTool \/ BeginSecond
  <2>1. app'.pc = "create"
    BY <1>4 DEF BeginMsr, BeginTool, BeginSecond, Start, NoApp
  <2> QED BY <1>3, <1>4, <2>1 DEF BeginMsr, BeginTool, BeginSecond
<1>5. CASE Create
  <2>1. /\ app'.pc = "send" /\ counter' = NextIndex + 1 /\ queue' = Append(queue, NextIndex)
        /\ cb' = cb /\ late' = late
    BY <1>5 DEF Create, Typed, TypeParts, AppTypes, AppSet
  <2>2. Len(queue') = Len(queue) + 1
    BY <2>1, Kinds, AppendProperties
  <2>3. SUFFICES ASSUME Held PROVE Age(cb.idx)' <= late + Len(queue) + 1
    BY <1>2, <2>1, <2>2 DEF Young, Held
  <2>4. cb.idx # NextIndex
    BY <1>5, <2>3 DEF FreshResult, Create
  <2>5. PICK i \in Index : i = cb.idx
    BY <1>2
  <2>6. Age(i)' = Age(i) + 1
    BY <2>1, <2>4, <2>5, NextAge
  <2>7. Age(cb.idx)' = Age(i)'
    BY <2>1, <2>5 DEF Age
  <2> QED BY <1>1, <1>2, <2>3, <2>5, <2>6, <2>7 DEF Young
<1>6. CASE Send \/ NoteLast
  <2>1. app'.pc # "remove"
    BY <1>6 DEF Send, NoteLast, NoApp, Typed, TypeParts, AppTypes, AppSet
  <2> QED BY <1>3, <1>6, <2>1 DEF Send, NoteLast
<1>7. CASE Waited
  <2>1. app'.pc = "remove" /\ app'.idx = app.idx /\ UNCHANGED <<counter, queue, cb, late>>
    BY <1>7 DEF Waited, Typed, TypeParts, AppTypes, AppSet
  <2>2. app.idx \notin In(queue)
    <3>1. app.pc = "wait" /\ app.idx \in Index /\ res[app.idx].by # 0
      BY <1>7, Kinds DEF Waited
    <3> QED BY <3>1, NoItemNow DEF Core, ResultInv
  <2> QED BY <2>1, <2>2 DEF Young, Held, Age
<1>8. CASE TimeOut
  <2>1. UNCHANGED <<counter, queue, cb>> /\ late' = late + 1
    BY <1>8 DEF TimeOut
  <2>2. Held => Age(cb.idx) < late' + Len(queue)
    BY <1>1, <1>2, <2>1 DEF Young
  <2>3. Held => Age(cb.idx)' < late' + Len(queue')
    BY <2>1, <2>2 DEF Age
  <2>4. Age(cb.idx)' \in Int /\ late' \in Nat /\ Len(queue') \in Nat
    <3>1. Age(cb.idx)' = Age(cb.idx)
      BY <2>1 DEF Age
    <3> QED BY <1>1, <1>2, <2>1, <3>1
  <2> QED BY <2>1, <2>3, <2>4 DEF Young, Held
<1>9. CASE Remove
  <2>1. app.pc = "remove" /\ queue' = Without(queue, app.idx) /\ UNCHANGED <<counter, cb, late>>
    BY <1>9 DEF Remove
  <2>2. app.idx = Newest
    BY <2>1 DEF Core, CallOf, Busy
  <2>3. queue' = << >> /\ Len(queue') = 0 /\ app'.pc # "remove"
    <3>1. app'.pc \in {"idle", "create"}
      BY <1>9 DEF Remove, NoApp, Typed, TypeParts, AppTypes, AppSet
    <3>2. queue' = << >>
      BY <2>1, <2>2, QueueIs, WithoutShort DEF Core
    <3> QED BY <3>1, <3>2
  <2>4. Held => Age(cb.idx) <= late
    <3>1. CASE queue = << >>
      BY <1>1, <1>2, <3>1 DEF Young
    <3>2. CASE queue = <<Newest>> /\ In(queue) = {Newest} /\ Len(queue) = 1
      BY <1>1, <1>2, <2>1, <2>2, <3>2 DEF Young
    <3> QED BY <2>1, <3>1, <3>2, QueueIs DEF Core
  <2>5. Age(cb.idx)' = Age(cb.idx)
    BY <2>1 DEF Age
  <2>6. late + 0 = late
    BY <1>2
  <2> QED BY <2>1, <2>3, <2>4, <2>5, <2>6 DEF Young, Held
<1>10. CASE Serve \/ Swipe \/ GetData \/ Cancel
  <2>1. UNCHANGED <<app, counter, queue, cb, late>>
    BY <1>10 DEF Serve, ServeRead, ServeOther, Swipe, GetData, GetCashed, GetResult, Cancel, appVars
  <2> QED BY <1>3, <2>1
<1>11. CASE TakeAnswer \/ SetResult
  <2>1. cb'.pc \in {"pop", "idle", "crashed"}
    <3>1. CASE TakeAnswer
      BY <3>1 DEF TakeAnswer, NoCb
    <3>2. CASE SetResult
      BY <3>2 DEF SetResult, NoCb
    <3> QED BY <1>11, <3>1, <3>2
  <2> QED BY <2>1 DEF Young, Held
<1>12. CASE PopResult
  <2>1. /\ UNCHANGED <<app, counter, late, res>>
    BY <1>12 DEF PopResult, appVars
  <2>2. CASE queue = << >>
    BY <1>12, <2>2 DEF PopResult, NoCb, Young, Held
  <2>3. CASE queue # << >>
    <3>1. /\ queue' \in {queue, Tail(queue)} /\ cb'.pc = "find" /\ cb'.idx = Head(queue)
          /\ (queue' = queue => res[Head(queue)].keep \/ queue' = Tail(queue))
      BY <1>12, <2>3 DEF PopResult, Stays, Typed, TypeParts, CallbackTypes, CbSet
    <3>2. CASE queue = <<Newest>> /\ In(queue) = {Newest} /\ Len(queue) = 1 /\ Newest \in Index
      <4>1. Head(queue) = Newest /\ Tail(queue) = << >>
        BY <3>2, InShort
      <4>2. PICK i \in Index : i = Newest
        BY <3>2
      <4>3. Age(i) = 0
        BY <4>2, Kinds DEF Age, Newest
      <4>5. Age(cb.idx)' = 0
        <5>1. Age(cb.idx)' = Age(i)
          BY <2>1, <3>1, <4>1, <4>2 DEF Age
        <5> QED BY <4>3, <5>1
      <4>6. \/ queue' = << >> /\ In(queue') = {} /\ Len(queue') = 0
            \/ In(queue') = {Newest} /\ Len(queue') = 1
        BY <3>1, <3>2, <4>1, InShort
      <4> QED BY <1>2, <2>1, <4>5, <4>6 DEF Young, Held
    <3>3. CASE TwoQueued
      <4>1. PICK i \in Index \ {Newest} :
              queue = <<i, Newest>> /\ Age(i) = 1
        BY <3>3, QueueIs DEF Core
      <4>2. Head(queue) = i /\ Tail(queue) = <<Newest>> /\ Len(queue) = 2 /\ Len(Tail(queue)) = 1
        BY <4>1, InShort
      <4>3. Age(cb.idx)' = 1
        BY <2>1, <3>1, <4>1, <4>2 DEF Age
      <4>4. app'.pc # "remove"
        BY <2>1, <3>3 DEF TwoQueued
      <4>5. Len(queue') \in {1, 2}
        BY <3>1, <4>2
      <4>6. PICK n \in {1, 2} : n = Len(queue')
        BY <4>5
      <4>7. Age(cb.idx)' <= late' + Len(queue')
        BY <1>2, <2>1, <4>3, <4>6
      <4> QED BY <4>4, <4>7 DEF Young
    <3> QED BY <2>3, <3>2, <3>3, QueueIs DEF Core
  <2> QED BY <2>2, <2>3
<1>13. CASE FindResult
  <2>1. /\ UNCHANGED <<app, counter, late, queue>> /\ cb.pc = "find"
        /\ (cb'.pc = "set" /\ cb'.idx = cb.idx) \/ cb'.pc = "crashed"
    BY <1>13 DEF FindResult, appVars, NoCb, Typed, TypeParts, CallbackTypes, CbSet
  <2> QED BY <2>1 DEF Young, Held, Age
<1>14. CASE WaitFails
  <2>1. /\ lib = "dll" /\ res[mine.idx].by # 0 /\ queue' = Without(queue, mine.idx)
        /\ UNCHANGED <<app, counter, late, cb>>
    BY <1>14 DEF WaitFails, Told, appVars
  <2>2. mine.idx \notin In(queue)
    BY <2>1, Kinds DEF Core, ResultInv, Typed, CallInv
  <2>3. queue' = queue
    BY <2>1, <2>2, Kinds, WithoutShort
  <2> QED BY <1>3, <2>1, <2>3
<1>15. CASE FillEntry \/ \E i \in Index : GetEntry(i) \/ Process(i) \/ NoPhase(i)
  <2>1. UNCHANGED <<app, counter, queue, cb, late>>
    BY <1>15 DEF FillEntry, GetEntry, Process, NoPhase, phaseVars
  <2> QED BY <1>3, <2>1
<1>16. CASE \E i \in Index : NextPhase(i)
  <2>1. UNCHANGED <<counter, queue, cb, late>> /\ app'.pc = "send"
    BY <1>16 DEF NextPhase, phaseVars, NoApp
  <2> QED BY <1>3, <2>1
<1>17. CASE \E i \in Index : EndPhases(i)
  <2>1. PICK i \in Index : EndPhases(i)
    BY <1>17
  <2>2. /\ user[i] \in AfterGet \ {"get"} /\ queue' = Without(queue, i)
        /\ UNCHANGED <<app, counter, cb, late>>
    BY <2>1 DEF EndPhases, AfterGet, phaseVars
  <2>3. app.pc = "idle" /\ i = Newest /\ queue \in {<< >>, <<i>>} /\ (Held => cb.idx = i)
    BY <2>2, SettingsNow
  <2>4. queue' = << >> /\ Len(queue') = 0
    BY <2>2, <2>3, WithoutShort
  <2>5. Age(i) = 0
    BY <2>3, Kinds DEF Age, Newest
  <2>6. Held => Age(cb.idx)' = 0
    BY <2>2, <2>3, <2>5 DEF Age
  <2> QED BY <1>2, <2>2, <2>3, <2>4, <2>6 DEF Young, Held
<1>18. CASE UNCHANGED vars
  BY <1>3, <1>18 DEF vars, appVars
<1> QED BY <1>4, <1>5, <1>6, <1>7, <1>8, <1>9, <1>10, <1>11, <1>12, <1>13, <1>14, <1>15, <1>16,
           <1>17, <1>18 DEF Next, Call, Callback, Phase

\* What the invariant is needed for.
LEMMA CoreIsAnswered == Typed /\ Core => EachIsAnswered
<1> SUFFICES ASSUME Typed, Core, NEW k \in 1 .. Len(queue)
             PROVE  /\ Exists(queue[k])
                    /\ \/ app.pc \in {"send", "remove"} /\ queue[k] = app.idx
                       \/ user[queue[k]] # "idle"
                       \/ cb.pc \in {"find", "set"} /\ cb.idx = queue[k]
                       \/ res[queue[k]].call \in Coming
    BY DEF EachIsAnswered
<1>1. queue[k] \in In(queue)
  BY DEF In
<1>2. Exists(queue[k]) /\ ComeOf(queue[k])
  BY <1>1 DEF Core, ResultInv, ComeInv
<1> QED BY <1>2 DEF ComeOf, AfterGet, Held

\* What was passed over, or came too early, stays so.
LEMMA CleanBefore == [Next]_vars /\ Typed /\ Clean' => Clean
<1> SUFFICES ASSUME [Next]_vars, Typed, Clean' PROVE Clean
    OBVIOUS
<1>1. dropped' = dropped \/ dropped' = TRUE
  BY DEF Next, BeginMsr, BeginTool, BeginSecond, Call, Create, Send, NoteLast, Waited, Remove,
         TimeOut, Serve, ServeRead, ServeOther, Swipe, Callback, TakeAnswer, PopResult,
         FindResult, SetResult, WaitFails, GetData, GetCashed, GetResult, Cancel, Phase,
         FillEntry, GetEntry, Process, NextPhase, NoPhase, EndPhases, phaseVars, vars
<1>2. early' = early \/ \E i \in Index : early' = (early \/ item[i] = "new")
  BY DEF Next, BeginMsr, BeginTool, BeginSecond, Call, Create, Send, NoteLast, Waited, Remove,
         TimeOut, Serve, ServeRead, ServeOther, Swipe, Callback, TakeAnswer, PopResult,
         FindResult, SetResult, WaitFails, GetData, GetCashed, GetResult, Cancel, Phase,
         FillEntry, GetEntry, Process, NextPhase, NoPhase, EndPhases, toolVars, vars
<1> QED BY <1>1, <1>2, Kinds DEF Clean

\* As long as a result is used again only when it is not held, late answers
\* leave none without an answer, however many requests are given up.
THEOREM AnsweredWhenFresh ==
    ASSUME Alone, MaxIndex >= 2
    PROVE  Spec /\ []FreshResult => []EachIsAnswered
<1> DEFINE I == Typed /\ (Clean => Core)
<1>1. Init => I
  BY TypedInit, CoreInit
<1>2. I /\ FreshResult /\ [Next]_vars => I'
  BY TypedStep, CoreStep, CleanBefore
<1>3. I => EachIsAnswered
  <2>1. ~Clean => EachIsAnswered
    BY DEF Clean, EachIsAnswered
  <2> QED BY <2>1, CoreIsAnswered
<1> QED BY <1>1, <1>2, <1>3, PTL DEF Spec

\* That is so if at least three requests fewer are given up than there are indexes:
\* every result that is queued exists, and its answer is still to come.
THEOREM EveryResultAnswered ==
    ASSUME Alone, MaxLate + 2 <= MaxIndex
    PROVE  Spec => []EachIsAnswered
<1> DEFINE I == Typed /\ (Clean => Core /\ Young)
<1>0. MaxIndex >= 2
  BY ClientAssumption
<1>1. Init => I
  BY TypedInit, CoreInit DEF Init, Young, Held, NoCb
<1>2. I /\ [Next]_vars => I'
  <2> SUFFICES ASSUME I, [Next]_vars PROVE I'
      OBVIOUS
  <2>1. Typed'
    BY TypedStep
  <2>2. ASSUME Clean' PROVE Core' /\ Young'
    <3>1. Core /\ Young
      BY <2>2, CleanBefore
    <3>2. late + 2 <= MaxIndex
      BY ClientAssumption DEF Typed, TypeParts, AppTypes
    <3>3. FreshResult
      BY <3>1, <3>2, YoungIsFresh
    <3>4. Core'
      BY <1>0, <2>2, <3>1, <3>3, CoreStep
    <3> QED BY <1>0, <2>1, <3>1, <3>3, <3>4, YoungStep
  <2> QED BY <2>1, <2>2
<1>3. I => EachIsAnswered
  <2>1. ~Clean => EachIsAnswered
    BY DEF Clean, EachIsAnswered
  <2> QED BY <2>1, CoreIsAnswered
<1> QED BY <1>1, <1>2, <1>3, PTL DEF Spec

-----------------------------------------------------------------------------
(* No request is given up: each answer goes home.                          *)

\* What is to come is for something that is queued.
OwnCome == \A c \in Coming : \E i \in In(queue) : res[i].call = c

\* The callback holds the result that its answer is for.
OwnHeld ==
    Held => /\ res[cb.idx].call = cb.ans.call /\ (~res[cb.idx].keep => res[cb.idx].by = 0)
            /\ res[cb.idx].keep /\ cb.act = "transmit" => queue = <<cb.idx>>

\* The result of a call is queued until it is answered.
OwnCall ==
    /\ app.pc = "remove" => res[app.idx].by # 0
    /\ app.pc = "send" => app.idx \in In(queue)
    /\ app.pc = "send" /\ app.op = "settings" => user[app.idx] = "idle"

\* A thread of settings runs when nothing is to come, and goes on only with a
\* result that stayed queued.
OwnUser(i) ==
    /\ user[i] \in AfterGet => Coming = {} /\ ~Held
    /\ user[i] \in {"next", "send"} => queue = <<i>>
    /\ user[i] \in {"get", "process"} /\ res[i].data # 0 => queue = <<i>>
    /\ item[i] # "none" => last = "transmit" \/ app.op = "settings"
    /\ user[i] = "send" /\ cb.pc = "pop" => cb.act = "transmit"

HomeInv == OwnCome /\ OwnHeld /\ OwnCall /\ \A i \in Index : OwnUser(i)

\* What a step leaves alone stays true of the results and their answers.
LEMMA SameHome ==
    HomeInv /\ UNCHANGED <<sent, reading, answers, cb, queue, res, user, item, last>>
      /\ app'.pc \notin {"send", "remove"} /\ (app'.op = app.op \/ \A i \in Index : item[i] = "none")
      => HomeInv'
<1> SUFFICES ASSUME HomeInv, UNCHANGED <<sent, reading, answers, cb, queue, res, user, item, last>>,
                    app'.pc \notin {"send", "remove"},
                    app'.op = app.op \/ \A i \in Index : item[i] = "none"
             PROVE  HomeInv'
    OBVIOUS
<1>1. Coming' = Coming
  BY SameComing
<1>2. OwnCome' /\ OwnHeld' /\ OwnCall'
  BY <1>1 DEF HomeInv, OwnCome, OwnHeld, OwnCall, Held
<1>3. ASSUME NEW i \in Index PROVE OwnUser(i)'
  <2>1. OwnUser(i)
    BY DEF HomeInv
  <2> QED BY <1>1, <2>1 DEF OwnUser, Held
<1> QED BY <1>2, <1>3 DEF HomeInv

\* When there are no settings.
LEMMA NoItemHome ==
    (\A i \in Index : item[i] = "none" /\ user[i] = "idle") => \A i \in Index : OwnUser(i)
  BY DEF OwnUser, AfterGet

\* A call begins.
LEMMA BeginHome ==
    Typed /\ Core /\ Alone /\ HomeInv /\ (BeginMsr \/ BeginTool \/ BeginSecond) => HomeInv'
<1> SUFFICES ASSUME Typed, Core, Alone, HomeInv, BeginMsr \/ BeginTool \/ BeginSecond PROVE HomeInv'
    OBVIOUS
<1>1. /\ app'.pc = "create"
      /\ UNCHANGED <<sent, reading, answers, cb, queue, res, user, item, last>>
  BY DEF BeginMsr, BeginTool, BeginSecond, Start, NoApp, srvVars, toolVars
<1>2. \A i \in Index : item[i] = "none"
  <2>1. Core'
    BY BeginCore
  <2>2. Typed'
    BY BeginTyped
  <2>3. \A i \in Index : item'[i] = "none"
    BY <1>1, <2>1 DEF Core, SettingsInv, SettingsOf, Stage
  <2> QED BY <1>1, <2>3
<1> QED BY <1>1, <1>2, SameHome

\* A result is queued before its request is sent.
LEMMA CreateHome ==
    Typed /\ Core /\ MaxIndex >= 2 /\ FreshResult /\ HomeInv /\ Create => HomeInv'
<1> SUFFICES ASSUME Typed, Core, MaxIndex >= 2, FreshResult, HomeInv, Create PROVE HomeInv'
    OBVIOUS
<1>1. PICK n \in Index : n = NextIndex
  BY Kinds
<1>2. PICK new : res' = [res EXCEPT ![n] = new]
  BY <1>1 DEF Create
<1>3. /\ app.pc = "create" /\ queue' = Append(queue, n) /\ counter' = n + 1
      /\ item' = IF ForSettings THEN [item EXCEPT ![n] = "new"] ELSE item
      /\ UNCHANGED <<sent, reading, answers, cb, user, last>>
  BY <1>1 DEF Create, srvVars
<1>4. app'.pc = "send" /\ app'.idx = n /\ app'.op = app.op
  <2>1. app \in AppSet /\ app' = [app EXCEPT !.pc = "send", !.idx = n, !.call = calls + 1]
    BY <1>1 DEF Create, Typed, TypeParts, AppTypes
  <2> QED BY <2>1 DEF AppSet
<1>5. \A i \in Index : item[i] = "none" /\ user[i] = "idle" /\ ~res[i].keep
  BY <1>3, NoItemNow DEF Core
<1>6. res'[n] = new /\ \A i \in Index \ {n} : res'[i] = res[i]
  BY <1>2, Kinds
<1>7. Coming' = Coming
  BY <1>3, SameComing
<1>8. n # Newest
  BY <1>1, <1>3, NextAge
<1>9. /\ In(queue') = In(queue) \cup {n} /\ n \notin In(queue)
  <2>1. \/ queue = << >> /\ In(queue) = {}
        \/ queue = <<Newest>> /\ In(queue) = {Newest}
    BY <1>3, QueueIs DEF Core
  <2>2. CASE queue = << >>
    BY <1>3, <2>1, <2>2, InShort
  <2>3. CASE queue = <<Newest>> /\ In(queue) = {Newest}
    <3>1. queue' = <<Newest, n>>
      BY <1>3, <2>3, InShort
    <3>2. In(queue') = {Newest, n}
      BY <3>1, InShort
    <3> QED BY <1>8, <2>3, <3>2
  <2> QED BY <2>1, <2>2, <2>3
<1>10. OwnCome'
  <2>1. \A i \in In(queue) : i \in In(queue') /\ res'[i] = res[i]
    BY <1>6, <1>9, Kinds
  <2> QED BY <1>7, <2>1 DEF HomeInv, OwnCome
<1>11. OwnHeld'
  <2>1. Held => cb.idx # n
    BY <1>1, <1>3 DEF FreshResult
  <2>2. Held => res'[cb.idx] = res[cb.idx] /\ ~res[cb.idx].keep
    BY <1>5, <1>6, <2>1, Kinds
  <2> QED BY <1>3, <2>2 DEF HomeInv, OwnHeld, Held
<1>12. OwnCall'
  BY <1>3, <1>4, <1>5, <1>9 DEF OwnCall
<1>13. ASSUME NEW i \in Index PROVE OwnUser(i)'
  <2>1. item'[i] # "none" => app'.op = "settings"
    BY <1>3, <1>4, <1>5, Kinds DEF ForSettings
  <2> QED BY <1>3, <1>5, <2>1 DEF OwnUser, AfterGet
<1> QED BY <1>10, <1>11, <1>12, <1>13 DEF HomeInv

\* The request is sent.
LEMMA SendHome == Typed /\ Core /\ HomeInv /\ Send => HomeInv'
<1> SUFFICES ASSUME Typed, Core, HomeInv, Send PROVE HomeInv'
    OBVIOUS
<1>1. /\ app.pc = "send" /\ app \in AppSet /\ app' = [app EXCEPT !.pc = "last"]
      /\ sent' = Append(sent, [call |-> app.call, act |-> app.act])
      /\ UNCHANGED <<queue, res, reading, answers, cb, item, user, last>>
  BY DEF Send, toolVars, Typed, TypeParts, AppTypes
<1>2. app'.pc = "last" /\ app'.op = app.op
  BY <1>1 DEF AppSet
<1>3. Coming' \subseteq Coming \cup {app.call}
  <2>1. app.act \in Acts /\ app.call \in CallNo /\ sent \in Seq(Requested)
    BY <1>1, Kinds, LineNow DEF Typed, CallInv, AppShape, AppSet
  <2>a. PICK x \in Requested : x = [call |-> app.call, act |-> app.act]
    BY <2>1 DEF Requested
  <2>2. x = [call |-> app.call, act |-> app.act] /\ x.call = app.call
    BY <2>a
  <2>3. PICK n \in Nat : n = Len(sent)
    BY <2>1
  <2>4. Len(sent') = n + 1 /\ sent'[n + 1] = x /\ \A k \in 1 .. n : sent'[k] = sent[k]
    BY <1>1, <2>1, <2>2, <2>3, AppendProperties
  <2>5. \A k \in 1 .. n + 1 : k \in 1 .. n \/ k = n + 1
    OBVIOUS
  <2>6. {sent'[k].call : k \in 1 .. Len(sent')} \subseteq {sent[k].call : k \in 1 .. Len(sent)} \cup {app.call}
    BY <2>2, <2>3, <2>4, <2>5
  <2> QED BY <1>1, <2>6 DEF Coming
<1>4. app.idx \in In(queue) /\ res[app.idx].call = app.call /\ app.idx = Newest /\ app.idx \in Index
  BY <1>1, Kinds DEF HomeInv, OwnCall, Core, CallOf, Busy
<1>5. OwnCome' /\ OwnHeld' /\ OwnCall'
  BY <1>1, <1>2, <1>3, <1>4 DEF HomeInv, OwnCome, OwnHeld, OwnCall, Held
<1>6. ASSUME NEW i \in Index PROVE OwnUser(i)'
  <2>1. OwnUser(i) /\ SettingsOf(i)
    BY DEF HomeInv, Core, SettingsInv
  <2>2. user[i] \notin AfterGet
    <3>1. SUFFICES ASSUME user[i] \in AfterGet PROVE FALSE
      OBVIOUS
    <3>2. i = Newest /\ Stage(i)
      BY <2>1, <3>1 DEF SettingsOf, AfterGet
    <3>3. app.op = "settings"
      BY <1>1, <3>1, <3>2 DEF Stage, AfterGet
    <3> QED BY <1>1, <1>4, <3>1, <3>2, <3>3 DEF HomeInv, OwnCall, AfterGet
  <2> QED BY <1>1, <1>2, <2>1, <2>2 DEF OwnUser, AfterGet
<1> QED BY <1>5, <1>6 DEF HomeInv

\* It is noted what was sent.
LEMMA NoteHome == Typed /\ Core /\ HomeInv /\ NoteLast => HomeInv'
<1> SUFFICES ASSUME Typed, Core, HomeInv, NoteLast PROVE HomeInv'
    OBVIOUS
<1>1. /\ app.pc = "last" /\ last' = app.act
      /\ user' = IF app.op = "phase" THEN [user EXCEPT ![app.idx] = "idle"] ELSE user
      /\ UNCHANGED <<queue, res, sent, reading, answers, cb, item>>
  BY DEF NoteLast, srvVars
<1>2. app'.pc \in {"idle", "wait"}
  BY DEF NoteLast, NoApp, Typed, TypeParts, AppTypes, AppSet
<1>3. Coming' = Coming
  BY <1>1, SameComing
<1>4. OwnCome' /\ OwnHeld' /\ OwnCall'
  BY <1>1, <1>2, <1>3 DEF HomeInv, OwnCome, OwnHeld, OwnCall, Held
<1>5. ASSUME NEW i \in Index PROVE OwnUser(i)'
  <2>1. OwnUser(i) /\ SettingsOf(i)
    BY DEF HomeInv, Core, SettingsInv
  <2>2. user'[i] = user[i] \/ user'[i] = "idle"
    BY <1>1, Kinds
  <2>3. item[i] # "none" => app.act = "transmit"
    BY <1>1, <2>1 DEF SettingsOf, Stage, Typed, CallInv, AppShape
  <2> QED BY <1>1, <1>3, <2>1, <2>2, <2>3 DEF OwnUser, Held, AfterGet
<1> QED BY <1>4, <1>5 DEF HomeInv

\* The answer has come, and so the result is no longer queued.
LEMMA WaitedHome == Typed /\ Core /\ HomeInv /\ Waited => HomeInv'
<1> SUFFICES ASSUME Typed, Core, HomeInv, Waited PROVE HomeInv'
    OBVIOUS
<1>1. /\ app.pc = "wait" /\ app \in AppSet /\ res[app.idx].by # 0
      /\ app' = [app EXCEPT !.pc = "remove", !.ok = res[app.idx].ok]
      /\ UNCHANGED <<queue, res, sent, reading, answers, cb, item, user, last>>
  BY DEF Waited, srvVars, toolVars, Typed, TypeParts, AppTypes
<1>2. app'.pc = "remove" /\ app'.idx = app.idx /\ app'.op = app.op
  BY <1>1 DEF AppSet
<1>3. Coming' = Coming
  BY <1>1, SameComing
<1>4. OwnCome' /\ OwnHeld' /\ OwnCall'
  BY <1>1, <1>2, <1>3 DEF HomeInv, OwnCome, OwnHeld, OwnCall, Held
<1>5. ASSUME NEW i \in Index PROVE OwnUser(i)'
  <2>1. OwnUser(i)
    BY DEF HomeInv
  <2> QED BY <1>1, <1>2, <1>3, <2>1 DEF OwnUser, Held
<1> QED BY <1>4, <1>5 DEF HomeInv

\* The result that is removed has been answered, so that nothing is to come for it.
LEMMA RemoveHome == Typed /\ Core /\ HomeInv /\ Remove => HomeInv'
<1> SUFFICES ASSUME Typed, Core, HomeInv, Remove PROVE HomeInv'
    OBVIOUS
<1>1. /\ app.pc = "remove" /\ res' = [res EXCEPT ![app.idx] = NoResult]
      /\ queue' = Without(queue, app.idx)
      /\ UNCHANGED <<sent, reading, answers, cb, item, user>>
  BY DEF Remove, srvVars
<1>2. app.idx = Newest /\ app.idx \in Index /\ res[app.idx].by # 0
  BY <1>1, Kinds DEF Core, CallOf, Busy, HomeInv, OwnCall
<1>3. \A i \in Index : item[i] = "none" /\ user[i] = "idle" /\ ~res[i].keep
  BY <1>1, NoItemNow DEF Core
<1>4. Newest \notin In(queue)
  BY <1>2, <1>3 DEF Core, ResultInv
<1>5. queue = << >> /\ In(queue) = {}
  BY <1>1, <1>4, QueueIs DEF Core
<1>6. Coming' = Coming /\ Coming = {}
  BY <1>1, <1>5, SameComing DEF HomeInv, OwnCome
<1>7. res'[app.idx] = NoResult /\ \A i \in Index \ {app.idx} : res'[i] = res[i]
  BY <1>1, <1>2, Kinds
<1>8. OwnHeld'
  <2>1. Held => cb.idx # app.idx
    BY <1>2, <1>3 DEF HomeInv, OwnHeld
  <2>2. Held => res'[cb.idx] = res[cb.idx] /\ ~res[cb.idx].keep
    BY <1>3, <1>7, <2>1, Kinds
  <2> QED BY <1>1, <2>2 DEF HomeInv, OwnHeld, Held
<1>9. OwnCall'
  <2>1. app'.pc \in {"idle", "create"}
    BY DEF Remove, NoApp, Typed, TypeParts, AppTypes, AppSet
  <2> QED BY <2>1 DEF OwnCall
<1>10. \A i \in Index : OwnUser(i)'
  BY <1>1, <1>3 DEF OwnUser, AfterGet
<1>11. OwnCome'
  BY <1>6 DEF OwnCome
<1> QED BY <1>8, <1>9, <1>10, <1>11 DEF HomeInv

\* The server changes nothing that is to come.
LEMMA ServerHome == Typed /\ Core /\ HomeInv /\ (Serve \/ Swipe) => HomeInv'
<1> SUFFICES ASSUME Typed, Core, HomeInv, Serve \/ Swipe PROVE HomeInv'
    OBVIOUS
<1>1. UNCHANGED <<app, queue, res, cb, item, user, last>>
  BY DEF Serve, ServeRead, ServeOther, Swipe, appVars, toolVars
<1>2. Coming' = Coming
  <2>1. Typed' /\ LineOf(answers', reading', sent') = LineOf(answers, reading, sent)
    BY ServerTyped, ServerLine DEF Line
  <2>2. Coming' = (IF cb'.pc = "pop" THEN {cb'.ans.call} ELSE {}) \cup In(LineOf(answers', reading', sent'))
    BY <2>1, ComingLater
  <2>3. Coming = (IF cb.pc = "pop" THEN {cb.ans.call} ELSE {}) \cup In(LineOf(answers, reading, sent))
    BY ComingIs DEF Line
  <2> QED BY <1>1, <2>1, <2>2, <2>3
<1>3. OwnCome' /\ OwnHeld' /\ OwnCall'
  BY <1>1, <1>2 DEF HomeInv, OwnCome, OwnHeld, OwnCall, Held
<1>4. ASSUME NEW i \in Index PROVE OwnUser(i)'
  <2>1. OwnUser(i)
    BY DEF HomeInv
  <2> QED BY <1>1, <1>2, <2>1 DEF OwnUser, Held
<1> QED BY <1>3, <1>4 DEF HomeInv

\* An answer is taken for what was sent last.
LEMMA TakeHome == Typed /\ Core /\ Clean' /\ HomeInv /\ TakeAnswer => HomeInv'
<1> SUFFICES ASSUME Typed, Core, Clean', HomeInv, TakeAnswer PROVE HomeInv'
    OBVIOUS
<1>1. /\ cb.pc = "idle" /\ answers # << >> /\ answers' = Tail(answers) /\ last # "none"
      /\ cb' = [NoCb EXCEPT !.pc = "pop", !.ans = Head(answers), !.act = last]
      /\ UNCHANGED <<app, queue, res, sent, reading, item, user, last>>
  BY DEF TakeAnswer, Clean, appVars, srvVars, toolVars
<1>2. /\ cb'.pc = "pop" /\ cb'.ans = Head(answers) /\ cb'.act = last
  BY <1>1 DEF NoCb
<1>3. Coming' = Coming
  <2>1. Typed'
    BY CallbackTyped DEF Callback
  <2>2. In(LineOf(answers, reading, sent)) = {Head(answers).call} \cup In(LineOf(answers', reading', sent'))
    BY <1>1, LineNow, TakeLine
  <2>3. Coming' = {Head(answers).call} \cup In(LineOf(answers', reading', sent'))
    BY <1>2, <2>1, ComingLater
  <2>4. Coming = In(LineOf(answers, reading, sent))
    BY <1>1, ComingIs DEF Line
  <2> QED BY <2>2, <2>3, <2>4
<1>4. OwnCome' /\ OwnHeld' /\ OwnCall'
  BY <1>1, <1>2, <1>3 DEF HomeInv, OwnCome, OwnHeld, OwnCall, Held
<1>5. ASSUME NEW i \in Index PROVE OwnUser(i)'
  <2>1. OwnUser(i) /\ SettingsOf(i)
    BY DEF HomeInv, Core, SettingsInv
  <2>2. user[i] = "send" => last = "transmit"
    <3>1. SUFFICES ASSUME user[i] = "send" PROVE last = "transmit"
      OBVIOUS
    <3>2. item[i] # "none" /\ Stage(i)
      BY <2>1, <3>1 DEF SettingsOf
    <3>3. app.op # "settings"
      BY <3>1, <3>2 DEF Stage, Typed, CallInv, AppShape, NoApp
    <3> QED BY <2>1, <3>2, <3>3 DEF OwnUser
  <2> QED BY <1>1, <1>2, <1>3, <2>1, <2>2 DEF OwnUser, Held
<1> QED BY <1>4, <1>5 DEF HomeInv

\* The oldest result is the one that the answer is for.
LEMMA PopHome == Typed /\ Core /\ HomeInv /\ PopResult => HomeInv'
<1> SUFFICES ASSUME Typed, Core, HomeInv, PopResult PROVE HomeInv'
    OBVIOUS
<1>1. /\ cb.pc = "pop" /\ cb \in CbSet
      /\ UNCHANGED <<app, res, sent, reading, answers, item, user, last>>
  BY DEF PopResult, appVars, srvVars, toolVars, Typed, TypeParts, CallbackTypes
<1>2. Coming = {cb.ans.call} \cup In(Line) /\ \A c \in In(Line) : c \in Nat /\ cb.ans.call < c
  <2>1. In(Line) \subseteq Nat
    BY LineNow, ClientAssumption DEF In, CallNo
  <2> QED BY <1>1, <2>1, ComingIs DEF Core, OrderInv, Taken
<1>3. PICK k \in In(queue) : res[k].call = cb.ans.call
  BY <1>2 DEF HomeInv, OwnCome
<1>4. queue # << >>
  BY <1>3, InShort
<1>5. PICK h \in Index : h = Head(queue)
  BY <1>4, Kinds
<1>6. /\ queue' = (IF Stays THEN queue ELSE Tail(queue)) /\ cb' = [cb EXCEPT !.pc = "find", !.idx = h]
  BY <1>4, <1>5 DEF PopResult
<1>7. /\ cb'.pc = "find" /\ cb'.idx = h /\ cb'.ans = cb.ans /\ cb'.act = cb.act
  BY <1>1, <1>6 DEF CbSet
<1>8. Coming' = In(Line)
  <2>1. Typed'
    BY CallbackTyped DEF Callback
  <2> QED BY <1>1, <1>7, <2>1, ComingLater DEF Line
<1>9. cb.ans.call \in Nat /\ calls \in Nat
  BY Kinds
<1>10. ASSUME queue = <<Newest>>, In(queue) = {Newest} PROVE HomeInv'
  <2>1. h = Newest /\ Tail(queue) = << >> /\ k = h
    BY <1>3, <1>5, <1>10, InShort
  <2>2. Coming' = {}
    <3>1. ASSUME NEW c \in In(Line) PROVE FALSE
      <4>1. res[h].call = c
        BY <1>2, <1>10, <2>1, <3>1 DEF HomeInv, OwnCome
      <4> QED BY <1>2, <1>3, <1>9, <2>1, <3>1, <4>1
    <3> QED BY <1>8, <3>1
  <2>3. OwnHeld'
    <3>1. res[h].call = cb.ans.call /\ (~res[h].keep => res[h].by = 0)
      BY <1>3, <2>1 DEF Core, ResultInv
    <3>2. res[h].keep /\ cb.act = "transmit" => queue' = <<h>>
      BY <1>5, <1>6, <1>10, <2>1 DEF Stays
    <3> QED BY <1>1, <1>7, <3>1, <3>2 DEF OwnHeld
  <2>4. app.pc # "send"
    <3>1. app.pc = "send" => res[h].call = calls /\ cb.ans.call < calls
      BY <1>1, <2>1 DEF Core, CallOf, Busy, OrderInv, Taken
    <3> QED BY <1>3, <1>9, <2>1, <3>1
  <2>5. OwnCall'
    BY <1>1, <2>4 DEF HomeInv, OwnCall
  <2>6. ASSUME NEW i \in Index PROVE OwnUser(i)'
    <3>1. OwnUser(i) /\ SettingsOf(i)
      BY DEF HomeInv, Core, SettingsInv
    <3>2. user[i] \notin AfterGet
      BY <1>2, <3>1 DEF OwnUser
    <3>3. user[i] = "send" => queue' = queue
      <4>1. SUFFICES ASSUME user[i] = "send" PROVE Stays
        BY <1>6
      <4>2. queue = <<i>> /\ cb.act = "transmit"
        BY <1>1, <3>1, <4>1 DEF OwnUser
      <4>3. res[i].keep /\ Head(queue) = i
        BY <3>1, <4>1, <4>2, InShort DEF SettingsOf
      <4> QED BY <4>2, <4>3 DEF Stays
    <3> QED BY <1>1, <1>7, <3>1, <3>2, <3>3 DEF OwnUser, AfterGet
  <2> QED BY <2>2, <2>3, <2>5, <2>6 DEF HomeInv, OwnCome
<1>11. ASSUME TwoQueued PROVE HomeInv'
  <2>1. PICK i \in Index \ {Newest} : queue = <<i, Newest>> /\ In(queue) = {i, Newest}
    BY <1>11, QueueIs DEF Core
  <2>2. /\ res[Newest].call = calls /\ app.idx = Newest /\ cb.ans.call # calls
        /\ \A j \in Index : item[j] = "none" /\ user[j] = "idle" /\ ~res[j].keep
    BY <1>1, <1>11, OlderAnswer
  <2>3. h = i /\ queue' = <<Newest>> /\ In(queue') = {Newest}
    <3>1. h = i /\ Tail(queue) = <<Newest>>
      BY <1>5, <2>1, InShort
    <3>2. ~Stays
      BY <1>5, <2>2 DEF Stays
    <3>3. queue' = <<Newest>>
      BY <1>6, <3>1, <3>2
    <3> QED BY <3>1, <3>3, InShort
  <2>4. res[i].call = cb.ans.call
    BY <1>3, <2>1, <2>2
  <2>5. OwnCome'
    <3>1. ASSUME NEW c \in In(Line) PROVE res[Newest].call = c
      BY <1>2, <1>9, <2>1, <2>4, <3>1 DEF HomeInv, OwnCome
    <3> QED BY <1>1, <1>8, <2>3, <3>1 DEF OwnCome
  <2>6. OwnHeld'
    <3>1. res[h].call = cb.ans.call /\ ~res[h].keep /\ res[h].by = 0
      BY <2>1, <2>2, <2>3, <2>4 DEF Core, ResultInv
    <3> QED BY <1>1, <1>7, <3>1 DEF OwnHeld
  <2>7. OwnCall'
    BY <1>1, <2>2, <2>3 DEF HomeInv, OwnCall
  <2>8. \A j \in Index : OwnUser(j)'
    BY <1>1, <2>2 DEF OwnUser, AfterGet
  <2> QED BY <2>5, <2>6, <2>7, <2>8 DEF HomeInv
<1> QED BY <1>4, <1>10, <1>11, QueueIs DEF Core

\* The result is looked for.
LEMMA FindHome == Typed /\ Core /\ HomeInv /\ FindResult => HomeInv'
<1> SUFFICES ASSUME Typed, Core, HomeInv, FindResult PROVE HomeInv'
    OBVIOUS
<1>1. /\ cb.pc = "find" /\ cb \in CbSet
      /\ UNCHANGED <<app, queue, res, sent, reading, answers, item, user, last>>
  BY DEF FindResult, appVars, srvVars, toolVars, Typed, TypeParts, CallbackTypes
<1>2. \/ cb'.pc = "crashed"
      \/ cb'.pc = "set" /\ cb'.idx = cb.idx /\ cb'.ans = cb.ans /\ cb'.act = cb.act
  BY <1>1 DEF FindResult, NoCb, CbSet
<1>3. Coming' = Coming
  BY <1>1, <1>2 DEF Coming
<1>4. OwnCome' /\ OwnHeld' /\ OwnCall'
  BY <1>1, <1>2, <1>3 DEF HomeInv, OwnCome, OwnHeld, OwnCall, Held
<1>5. ASSUME NEW i \in Index PROVE OwnUser(i)'
  <2>1. OwnUser(i)
    BY DEF HomeInv
  <2> QED BY <1>1, <1>2, <1>3, <2>1 DEF OwnUser, Held
<1> QED BY <1>4, <1>5 DEF HomeInv

\* The result is filled in; that of settings is all that was to come.
LEMMA SetHome == Typed /\ Core /\ HomeInv /\ SetResult => HomeInv'
<1> SUFFICES ASSUME Typed, Core, HomeInv, SetResult PROVE HomeInv'
    OBVIOUS
<1>1. /\ cb.pc = "set" /\ Held /\ Taken
      /\ UNCHANGED <<app, queue, sent, reading, answers, item, last>>
  BY DEF SetResult, appVars, srvVars, Held, Taken
<1>2. cb'.pc \in {"idle", "crashed"} /\ ~Held'
  BY DEF SetResult, NoCb, Held
<1>3. Coming' = Coming
  BY <1>1, <1>2 DEF Coming
<1>4. OwnHeld'
  BY <1>2 DEF OwnHeld
<1>5. cb.idx \in Index /\ \A i \in Index : res[i] \in Result
  BY Kinds DEF Typed, TypeParts, ResultTypes
<1>6. CASE res[cb.idx].obj # cb.obj
  <2>1. res' = res /\ user' = user
    BY <1>6 DEF SetResult
  <2>2. OwnCome' /\ OwnCall'
    BY <1>1, <1>3, <2>1 DEF HomeInv, OwnCome, OwnCall
  <2>3. ASSUME NEW i \in Index PROVE OwnUser(i)'
    <3>1. OwnUser(i)
      BY DEF HomeInv
    <3> QED BY <1>1, <1>2, <1>3, <2>1, <3>1 DEF OwnUser
  <2> QED BY <1>4, <2>2, <2>3 DEF HomeInv
<1>7. CASE res[cb.idx].obj = cb.obj
  <2>1. PICK d \in CallNo : d = IF cb.act = "cancel" THEN 0 ELSE cb.ans.data
    BY Kinds, ClientAssumption DEF AnswerType, CallNo
  <2>2. PICK new : new = [res[cb.idx] EXCEPT !.by = cb.ans.call, !.ok = cb.ans.ok, !.data = d]
    OBVIOUS
  <2>3. new.call = res[cb.idx].call /\ new.data = d
    <3>1. PICK r \in Result, a \in AnswerType : r = res[cb.idx] /\ a = cb.ans
      BY <1>5, Kinds
    <3>2. new = [r EXCEPT !.by = a.call, !.ok = a.ok, !.data = d]
      BY <2>2, <3>1
    <3>3. new.call = r.call /\ new.data = d
      BY <3>2 DEF Result
    <3> QED BY <3>1, <3>3
  <2>4. /\ res' = [res EXCEPT ![cb.idx] = new]
        /\ res[cb.idx].keep => user[cb.idx] = "idle"
        /\ user' = IF res[cb.idx].keep THEN [user EXCEPT ![cb.idx] = "get"] ELSE user
    BY <1>7, <2>1, <2>2 DEF SetResult
  <2>5. /\ \A i \in Index \ {cb.idx} : res'[i] = res[i] /\ user'[i] = user[i]
        /\ res'[cb.idx] = new
        /\ user'[cb.idx] = IF res[cb.idx].keep THEN "get" ELSE user[cb.idx]
    BY <1>5, <2>4, Kinds
  <2>6. \A i \in Index : res'[i].call = res[i].call
    BY <2>3, <2>5
  <2>7. OwnCome'
    BY <1>1, <1>3, <2>6, Kinds DEF HomeInv, OwnCome
  <2>8. res[cb.idx].call = cb.ans.call /\ (~res[cb.idx].keep => res[cb.idx].by = 0)
    BY <1>1 DEF HomeInv, OwnHeld
  <2>9. OwnCall'
    <3>1. app.pc = "remove" => app.idx # cb.idx
      <4>1. app.pc = "remove" => ~res[cb.idx].keep
        BY <1>5, NoItemNow DEF Core
      <4> QED BY <2>8, <4>1 DEF HomeInv, OwnCall
    <3>2. app.pc = "send" => app.idx # cb.idx
      <4>1. app.pc = "send" => res[app.idx].call = calls /\ cb.ans.call < calls
        BY <1>1 DEF Core, CallOf, Busy, OrderInv
      <4> QED BY <2>8, <4>1, Kinds
    <3>3. app.idx \in Index
      BY Kinds
    <3> QED BY <1>1, <2>5, <3>1, <3>2, <3>3 DEF HomeInv, OwnCall
  <2>10. ASSUME NEW i \in Index PROVE OwnUser(i)'
    <3>1. OwnUser(i) /\ SettingsOf(i)
      BY DEF HomeInv, Core, SettingsInv
    <3>2. CASE i = cb.idx /\ res[i].keep
      <4>1. /\ user[i] = "idle" /\ item[i] # "none" /\ lib = "tools" /\ i = Newest
            /\ queue \in {<< >>, <<i>>}
        BY <2>4, <3>1, <3>2 DEF SettingsOf
      <4>2. Coming = {}
        <5>1. Coming = In(Line)
          BY <1>1, ComingIs
        <5>2. ASSUME NEW c \in In(Line) PROVE FALSE
          <6>1. c \in Nat /\ cb.ans.call < c
            BY <1>1, LineNow, ClientAssumption DEF In, CallNo, Core, OrderInv
          <6>2. res[i].call = c
            BY <4>1, <5>1, InShort DEF HomeInv, OwnCome
          <6> QED BY <2>8, <3>2, <6>1, <6>2, Kinds
        <5> QED BY <5>1, <5>2
      <4>3. d # 0 => queue = <<i>>
        <5>1. cb.act # "none" /\ cb.act # "read"
          BY <1>1, <4>1 DEF Core, ResultInv, Typed, CallInv
        <5>2. cb.act \in {"cancel", "transmit"}
          BY <5>1, Kinds DEF Acts
        <5> QED BY <1>1, <2>1, <3>2, <5>2 DEF HomeInv, OwnHeld
      <4> QED BY <1>1, <1>2, <1>3, <2>3, <2>5, <3>1, <3>2, <4>1, <4>2, <4>3 DEF OwnUser, AfterGet
    <3>3. CASE i = cb.idx /\ ~res[i].keep
      <4>1. item[i] = "none" /\ user[i] = "idle" /\ user'[i] = "idle"
        BY <2>5, <3>1, <3>3 DEF SettingsOf
      <4> QED BY <1>1, <4>1 DEF OwnUser, AfterGet
    <3>4. CASE i # cb.idx
      <4>1. res'[i] = res[i] /\ user'[i] = user[i]
        BY <2>5, <3>4
      <4> QED BY <1>1, <1>2, <1>3, <3>1, <4>1 DEF OwnUser
    <3> QED BY <3>2, <3>3, <3>4
  <2> QED BY <1>4, <2>7, <2>9, <2>10 DEF HomeInv
<1> QED BY <1>6, <1>7

\* What a wait that failed had is neither queued nor held.
LEMMA WaitFailsHome == Typed /\ Core /\ HomeInv /\ WaitFails => HomeInv'
<1> SUFFICES ASSUME Typed, Core, HomeInv, WaitFails PROVE HomeInv'
    OBVIOUS
<1>1. /\ lib = "dll" /\ mine.call # 0 /\ res[mine.idx].call = mine.call /\ res[mine.idx].by # 0
      /\ queue' = Without(queue, mine.idx) /\ res' = [res EXCEPT ![mine.idx] = NoResult]
      /\ UNCHANGED <<app, sent, reading, answers, cb, item, user, last>>
  BY DEF WaitFails, Told, appVars, srvVars, toolVars
<1>2. mine.idx \in Index /\ queue \in Seq(Index) /\ In(queue) \subseteq Index
  BY Kinds
<1>3. \A i \in Index : item[i] = "none" /\ user[i] = "idle" /\ ~res[i].keep
  BY <1>1 DEF Typed, CallInv
<1>4. mine.idx \notin In(queue)
  BY <1>1, <1>2, <1>3 DEF Core, ResultInv
<1>5. queue' = queue
  BY <1>1, <1>2, <1>4, WithoutShort
<1>6. \A i \in Index \ {mine.idx} : res'[i] = res[i]
  BY <1>1, <1>2, Kinds
<1>7. Held => cb.idx # mine.idx /\ cb.idx \in Index
  BY <1>1, <1>3, Kinds DEF HomeInv, OwnHeld
<1>8. OwnCome'
  <2>1. \A i \in In(queue) : res'[i] = res[i]
    BY <1>2, <1>4, <1>6
  <2>2. Coming' = Coming
    BY <1>1, SameComing
  <2> QED BY <1>5, <2>1, <2>2 DEF HomeInv, OwnCome
<1>9. OwnHeld'
  <2>1. Held => res'[cb.idx] = res[cb.idx]
    BY <1>6, <1>7
  <2> QED BY <1>1, <1>5, <2>1 DEF HomeInv, OwnHeld, Held
<1>10. OwnCall'
  <2>1. app.pc = "remove" => app.idx # mine.idx /\ app.idx \in Index
    BY <1>1, Kinds DEF Core, CallOf, Busy
  <2>2. app.pc = "remove" => res'[app.idx] = res[app.idx]
    BY <1>6, <2>1
  <2> QED BY <1>1, <1>5, <2>2 DEF HomeInv, OwnCall
<1>11. \A i \in Index : OwnUser(i)'
  BY <1>1, <1>3 DEF OwnUser, AfterGet
<1> QED BY <1>8, <1>9, <1>10, <1>11 DEF HomeInv

\* Taking the data of a card, and cancelling, change no result.
LEMMA DataHome == Typed /\ Core /\ HomeInv /\ (GetData \/ Cancel \/ UNCHANGED vars) => HomeInv'
<1> SUFFICES ASSUME Typed, Core, HomeInv, GetData \/ Cancel \/ UNCHANGED vars PROVE HomeInv'
    OBVIOUS
<1>1. UNCHANGED <<app, queue, res, sent, reading, answers, cb, item, user, last>>
  BY DEF GetData, GetCashed, GetResult, Cancel, appVars, srvVars, toolVars, vars
<1>2. Coming' = Coming
  BY <1>1, SameComing
<1>3. OwnCome' /\ OwnHeld' /\ OwnCall'
  BY <1>1, <1>2 DEF HomeInv, OwnCome, OwnHeld, OwnCall, Held
<1>4. ASSUME NEW i \in Index PROVE OwnUser(i)'
  <2>1. OwnUser(i)
    BY DEF HomeInv
  <2> QED BY <1>1, <1>2, <2>1 DEF OwnUser, Held
<1> QED BY <1>3, <1>4 DEF HomeInv

\* The threads of settings, but for the next phase and the end.
LEMMA StageHome ==
    ASSUME Typed, Core, HomeInv, NEW i \in Index,
           \A j \in Index : user'[j] = user[j] \/ (j = i /\ user[i] \in AfterGet),
           user'[i] # user[i] =>
             /\ app.pc = "idle" /\ user'[i] \in AfterGet \ {"get"}
             /\ user'[i] = "next" => user[i] = "process" /\ res[i].data # 0
             /\ user'[i] = "process" => user[i] = "get",
           \A j \in Index : item'[j] # "none" => item[j] # "none",
           UNCHANGED <<app, queue, res, sent, reading, answers, cb, last>>
    PROVE  HomeInv'
<1>1. Coming' = Coming
  BY SameComing
<1>2. OwnCome' /\ OwnHeld'
  BY <1>1 DEF HomeInv, OwnCome, OwnHeld, Held
<1>3. OwnCall'
  <2>1. app.pc = "send" => user'[app.idx] = user[app.idx]
    BY Kinds
  <2> QED BY <2>1 DEF HomeInv, OwnCall
<1>4. ASSUME NEW j \in Index PROVE OwnUser(j)'
  <2>1. OwnUser(j)
    BY DEF HomeInv
  <2>2. CASE user'[j] = user[j]
    BY <1>1, <2>1, <2>2 DEF OwnUser, Held
  <2>3. CASE user'[j] # user[j]
    <3>1. j = i /\ user[i] \in AfterGet /\ user'[i] \in AfterGet \ {"get"}
      BY <2>3
    <3> QED BY <1>1, <2>1, <2>3, <3>1 DEF OwnUser, Held, AfterGet
  <2> QED BY <2>2, <2>3
<1> QED BY <1>2, <1>3, <1>4 DEF HomeInv

\* The steps of the threads of settings that send nothing.
LEMMA ThreadHome ==
    Typed /\ Core /\ Clean' /\ HomeInv
      /\ (FillEntry \/ \E i \in Index : GetEntry(i) \/ Process(i) \/ NoPhase(i)) => HomeInv'
<1> SUFFICES ASSUME Typed, Core, Clean', HomeInv,
                    FillEntry \/ \E i \in Index : GetEntry(i) \/ Process(i) \/ NoPhase(i)
             PROVE  HomeInv'
    OBVIOUS
<1>1. ASSUME FillEntry PROVE HomeInv'
  <2>1. PICK i \in Index : item[i] = "new" /\ item' = [item EXCEPT ![i] = "set"]
    BY <1>1 DEF FillEntry
  <2>2. UNCHANGED <<app, queue, res, sent, reading, answers, cb, last, user>>
    BY <1>1 DEF FillEntry, phaseVars, srvVars
  <2>3. \A j \in Index : item'[j] # "none" => item[j] # "none"
    BY <2>1, Kinds
  <2> QED BY <2>2, <2>3, StageHome
<1>2. ASSUME NEW i \in Index, GetEntry(i) PROVE HomeInv'
  <2>1. user[i] = "get" /\ item[i] # "new"
    BY <1>2 DEF GetEntry, Clean
  <2>2. item[i] # "none" /\ Stage(i)
    BY <2>1 DEF Core, SettingsInv, SettingsOf
  <2>3. item[i] = "set" /\ app.pc = "idle"
    BY <2>1, <2>2, Kinds DEF Stage
  <2>4. user' = [user EXCEPT ![i] = IF cancel THEN "quit" ELSE "process"]
    BY <1>2, <2>3 DEF GetEntry
  <2>5. user'[i] \in {"quit", "process"} /\ \A j \in Index : user'[j] = user[j] \/ j = i
    BY <2>4, Kinds
  <2>6. \A j \in Index : item'[j] # "none" => item[j] # "none"
    <3>1. item' = [item EXCEPT ![i] = IF @ = "set" THEN @ ELSE "none"]
      BY <1>2 DEF GetEntry
    <3> QED BY <3>1, Kinds
  <2>7. UNCHANGED <<app, queue, res, sent, reading, answers, cb, last>>
    BY <1>2 DEF GetEntry, phaseVars, srvVars
  <2> QED BY <2>1, <2>3, <2>5, <2>6, <2>7, StageHome DEF AfterGet
<1>3. ASSUME NEW i \in Index, Process(i) \/ NoPhase(i) PROVE HomeInv'
  <2>1. /\ user[i] \in {"process", "next"} /\ app.pc = "idle" /\ item' = item
        /\ UNCHANGED <<app, queue, res, sent, reading, answers, cb, last>>
    BY <1>3 DEF Process, NoPhase, phaseVars, srvVars
  <2>2. PICK s \in {"next", "drop"} :
          /\ user' = [user EXCEPT ![i] = s]
          /\ s = "next" => user[i] = "process" /\ res[i].data # 0
    BY <1>3 DEF Process, NoPhase
  <2>3. user'[i] = s /\ \A j \in Index : user'[j] = user[j] \/ j = i
    BY <2>2, Kinds
  <2> QED BY <2>1, <2>2, <2>3, StageHome DEF AfterGet
<1> QED BY <1>1, <1>2, <1>3

\* The next phase is sent when nothing is to come, for a result that is queued.
LEMMA NextPhaseHome == Typed /\ Core /\ HomeInv /\ (\E i \in Index : NextPhase(i)) => HomeInv'
<1> SUFFICES ASSUME Typed, Core, HomeInv, NEW i \in Index, NextPhase(i) PROVE HomeInv'
    OBVIOUS
<1>1. /\ user[i] = "next" /\ app.pc = "idle"
      /\ app' = [NoApp EXCEPT !.pc = "send", !.op = "phase", !.act = "transmit",
                            !.idx = i, !.call = calls + 1]
      /\ user' = [user EXCEPT ![i] = "send"]
      /\ UNCHANGED <<last, queue, sent, reading, answers, cb, item>>
  BY DEF NextPhase, phaseVars, srvVars
<1>2. app'.pc = "send" /\ app'.op = "phase" /\ app'.idx = i
  BY <1>1 DEF NoApp
<1>3. Coming = {} /\ ~Held /\ queue = <<i>> /\ (item[i] # "none" => last = "transmit" \/ app.op = "settings")
  BY <1>1 DEF HomeInv, OwnUser, AfterGet
<1>4. Coming' = {} /\ ~Held' /\ cb.pc # "pop"
  BY <1>1, <1>3, SameComing DEF Held, Coming
<1>5. /\ item[i] = "set"
      /\ \A j \in Index \ {i} : item[j] = "none" /\ user[j] = "idle" /\ ~res[j].keep
  BY <1>1, SettingsNow DEF AfterGet
<1>6. last = "transmit"
  <2>1. app.op = "none"
    BY <1>1 DEF Typed, CallInv, AppShape, NoApp
  <2> QED BY <1>3, <1>5, <2>1
<1>7. i \in In(queue)
  BY <1>3, InShort
<1>8. user'[i] = "send" /\ \A j \in Index \ {i} : user'[j] = "idle"
  BY <1>1, <1>5, Kinds
<1>9. OwnCome' /\ OwnHeld' /\ OwnCall'
  BY <1>1, <1>2, <1>4, <1>7 DEF OwnCome, OwnHeld, OwnCall
<1>10. ASSUME NEW j \in Index PROVE OwnUser(j)'
  <2>1. CASE j = i
    BY <1>1, <1>3, <1>4, <1>6, <1>8, <2>1 DEF OwnUser, AfterGet
  <2>2. CASE j # i
    BY <1>1, <1>5, <1>8, <2>2 DEF OwnUser, AfterGet
  <2> QED BY <2>1, <2>2
<1> QED BY <1>9, <1>10 DEF HomeInv

\* Settings end when nothing is to come.
LEMMA EndHome == Typed /\ Core /\ HomeInv /\ (\E i \in Index : EndPhases(i)) => HomeInv'
<1> SUFFICES ASSUME Typed, Core, HomeInv, NEW i \in Index, EndPhases(i) PROVE HomeInv'
    OBVIOUS
<1>1. /\ user[i] \in {"drop", "quit"} /\ item' = [item EXCEPT ![i] = "none"]
      /\ user' = [user EXCEPT ![i] = "idle"]
      /\ UNCHANGED <<app, sent, reading, answers, cb>>
  BY DEF EndPhases, phaseVars, srvVars
<1>2. /\ app.pc = "idle"
      /\ \A j \in Index \ {i} : item[j] = "none" /\ user[j] = "idle"
  BY <1>1, SettingsNow DEF AfterGet
<1>3. Coming' = {} /\ ~Held'
  BY <1>1, SameComing DEF HomeInv, OwnUser, AfterGet, Held
<1>4. \A j \in Index : item'[j] = "none" /\ user'[j] = "idle"
  BY <1>1, <1>2, Kinds
<1> QED BY <1>1, <1>2, <1>3, <1>4 DEF HomeInv, OwnCome, OwnHeld, OwnCall, OwnUser, AfterGet

\* Every step keeps each answer with its result, while none is given up.
LEMMA HomeStep ==
    Typed /\ Core /\ HomeInv /\ Clean' /\ late' = 0 /\ Alone /\ MaxIndex >= 2 /\ FreshResult
      /\ [Next]_vars => HomeInv'
<1> SUFFICES ASSUME Typed, Core, HomeInv, Clean', late' = 0, Alone, MaxIndex >= 2, FreshResult,
                    [Next]_vars
             PROVE  HomeInv'
    OBVIOUS
<1>1. ~TimeOut
  BY Kinds DEF TimeOut
<1>2. CASE BeginMsr \/ BeginTool \/ BeginSecond
  BY <1>2, BeginHome
<1>3. CASE Call
  BY <1>3, CreateHome, SendHome, NoteHome, WaitedHome, RemoveHome DEF Call
<1>4. CASE Serve \/ Swipe
  BY <1>4, ServerHome
<1>5. CASE Callback
  BY <1>5, TakeHome, PopHome, FindHome, SetHome DEF Callback
<1>6. CASE WaitFails \/ GetData \/ Cancel \/ UNCHANGED vars
  BY <1>6, WaitFailsHome, DataHome
<1>7. CASE Phase
  BY <1>7, ThreadHome, NextPhaseHome, EndHome DEF Phase
<1> QED BY <1>1, <1>2, <1>3, <1>4, <1>5, <1>6, <1>7 DEF Next

\* As long as no request was given up, the result that the callback holds is
\* that of the request whose answer it holds.
THEOREM AnswerGoesHome ==
    ASSUME Alone, MaxIndex >= 2
    PROVE  Spec => []AnswersGoHome
<1> DEFINE I == Typed /\ (Clean /\ late = 0 => Core /\ Young /\ HomeInv)
<1>1. Init => I
  <2> SUFFICES ASSUME Init PROVE I
      OBVIOUS
  <2>1. Typed /\ Core /\ Young
    BY TypedInit, CoreInit DEF Init, Young, Held, NoCb
  <2>2. Coming = {} /\ ~Held /\ app.pc = "create"
    <3>1. answers = << >> /\ reading = << >> /\ sent = << >> /\ cb.pc = "idle" /\ app.pc = "create"
      BY DEF Init, NoCb, NoApp
    <3>2. Len(<< >>) = 0 /\ 1 .. 0 = {}
      OBVIOUS
    <3> QED BY <3>1, <3>2 DEF Coming, Held
  <2>3. HomeInv
    BY <2>2 DEF Init, HomeInv, OwnCome, OwnHeld, OwnCall, OwnUser, AfterGet
  <2> QED BY <2>1, <2>3
<1>2. I /\ [Next]_vars => I'
  <2> SUFFICES ASSUME I, [Next]_vars PROVE I'
      OBVIOUS
  <2>1. Typed'
    BY TypedStep
  <2>2. ASSUME Clean', late' = 0 PROVE Core' /\ Young' /\ HomeInv'
    <3>1. late = 0
      <4>1. late' = late \/ late' = late + 1
        BY DEF Next, BeginMsr, BeginTool, BeginSecond, Call, Create, Send, NoteLast, Waited, Remove,
               TimeOut, Serve, ServeRead, ServeOther, Swipe, Callback, TakeAnswer, PopResult,
               FindResult, SetResult, WaitFails, GetData, GetCashed, GetResult, Cancel, Phase,
               FillEntry, GetEntry, Process, NextPhase, NoPhase, EndPhases, phaseVars, appVars, vars
      <4> QED BY <2>2, <4>1, Kinds
    <3>2. Core /\ Young /\ HomeInv
      BY <2>2, <3>1, CleanBefore
    <3>3. FreshResult
      BY <3>1, <3>2, YoungIsFresh
    <3>4. Core'
      BY <2>2, <3>2, <3>3, CoreStep
    <3> QED BY <2>1, <2>2, <3>2, <3>3, <3>4, YoungStep, HomeStep
  <2> QED BY <2>1, <2>2
<1>3. I => AnswersGoHome
  BY DEF AnswersGoHome, HomeInv, OwnHeld, Held, Clean
<1> QED BY <1>1, <1>2, <1>3, PTL DEF Spec

=============================================================================
