------------------------- MODULE ConnectionProofs -------------------------
(***************************************************************************)
(* Of Connection, for every size of the pool and every number of failures  *)
(* and open callbacks: its types, and that a healthy connection is kept.   *)
(***************************************************************************)
EXTENDS Connection, TLAPS

\* What the program believes of a connection that has been opened is right,
\* except while reconnect() is replacing it.
StatusKnown == net \in {"open", "mute"} => status = "Open" \/ manager = "stop"

IInv == TypeOK /\ Tasks <= MaxTasks /\ StatusKnown

\* A callback that goes from one step to another is neither lost nor doubled.
LEMMA MovesKeeps ==
    ASSUME tasks \in [Step -> 0 .. MaxTasks], Tasks <= MaxTasks, Running <= PoolSize,
           NEW from \in Step, NEW to \in Step, from # to, Moves(from, to),
           from = "queued" => ThreadFree
    PROVE  /\ tasks' \in [Step -> 0 .. MaxTasks]
           /\ Tasks' <= MaxTasks
           /\ Running' <= PoolSize
<1> USE ConnectionAssumption
<1>1. \A s \in Step : tasks[s] \in 0 .. MaxTasks
  OBVIOUS
<1>2. /\ "queued" \in Step /\ "ticker" \in Step /\ "depth" \in Step
      /\ "backfill" \in Step /\ "OHLC" \in Step
  BY DEF Step
<1>3. tasks[to] + tasks[from] <= MaxTasks
  BY <1>1, <1>2 DEF Step, Tasks
<1>4. tasks' \in [Step -> 0 .. MaxTasks]
  BY <1>1, <1>3 DEF Moves
<1>5. Tasks' = Tasks
  BY <1>1, <1>2 DEF Moves, Tasks, Step
<1>6. tasks'["queued"] = IF from = "queued" THEN tasks["queued"] - 1
                         ELSE IF to = "queued" THEN tasks["queued"] + 1
                         ELSE tasks["queued"]
  BY <1>1, <1>2 DEF Moves, Step
<1>7. Running' <= PoolSize
  BY <1>1, <1>2, <1>5, <1>6 DEF Running, ThreadFree, Tasks
<1> QED
  BY <1>4, <1>5, <1>7

LEMMA InitInv == Init => IInv
<1> SUFFICES ASSUME Init PROVE IInv
  OBVIOUS
<1> USE ConnectionAssumption DEF Init
<1>1. /\ tasks \in [Step -> 0 .. MaxTasks]
      /\ \A s \in Step : tasks[s] = 0
  OBVIOUS
<1>2. Tasks = 0 /\ Running = 0
  <2>1. /\ tasks["queued"] = 0 /\ tasks["ticker"] = 0 /\ tasks["depth"] = 0
        /\ tasks["backfill"] = 0 /\ tasks["OHLC"] = 0
    BY <1>1 DEF Step
  <2> QED
    BY <2>1 DEF Tasks, Running
<1>3. TypeOK
  <2>1. /\ warmUp \in 0 .. MaxWarmUp /\ failures \in 0 .. MaxFailures
        /\ Running <= PoolSize
    BY <1>2
  <2>2. /\ heard \in BOOLEAN /\ pinged \in BOOLEAN /\ depth \in BOOLEAN
        /\ signal \in BOOLEAN /\ late \in BOOLEAN
        /\ subs \subseteq Stream /\ refused \subseteq Stream /\ channels \subseteq {"OHLC"}
    OBVIOUS
  <2> QED
    BY <1>1, <2>1, <2>2 DEF TypeOK, Manager, Trader
<1> QED
  BY <1>2, <1>3 DEF IInv, StatusKnown

\* A step that leaves the open callbacks alone disturbs neither their types nor
\* the number of threads they take.
LEMMA TasksStay ==
    ASSUME IInv, UNCHANGED tasks
    PROVE  /\ tasks' \in [Step -> 0 .. MaxTasks]
           /\ Tasks' <= MaxTasks /\ Running' <= PoolSize
BY DEF IInv, TypeOK, Tasks, Running

LEMMA StepInv == IInv /\ [Next]_vars => IInv'
<1> SUFFICES ASSUME IInv, [Next]_vars PROVE IInv'
  OBVIOUS
<1> USE ConnectionAssumption
<1> USE DEF Stream, Manager
<1>1. CASE ConnectionThread
  <2>1. UNCHANGED tasks
    BY <1>1 DEF ConnectionThread, Started, WarmedUp, Ping, Check, ClearTick,
                ClearDepth, LockAndReset, Reconnect, dataVars
  <2>2. StatusKnown'
    BY <1>1 DEF ConnectionThread, Started, WarmedUp, Ping, Check, ClearTick,
                ClearDepth, LockAndReset, Reconnect, dataVars, IInv, StatusKnown
  <2>3. warmUp' \in 0 .. MaxWarmUp
    BY <1>1 DEF ConnectionThread, Started, WarmedUp, Ping, Check, ClearTick,
                ClearDepth, LockAndReset, Reconnect, dataVars, IInv, TypeOK
  <2>4. /\ tasks' \in [Step -> 0 .. MaxTasks] /\ Running' <= PoolSize
    BY <2>1, TasksStay
  <2>5. /\ manager' \in Manager
        /\ status' \in {"Open", "Closed", "Failed", "Connecting"}
        /\ net' \in {"none", "connecting", "open", "mute"}
        /\ pinged' \in BOOLEAN /\ depth' \in BOOLEAN
        /\ subs' \subseteq Stream /\ refused' \subseteq Stream /\ late' \in BOOLEAN
        /\ tick' \in {"unset", "old", "fresh"}
        /\ UNCHANGED <<failures, heard, channels, signal, trader>>
    <3> USE DEF IInv, TypeOK, dataVars, feedVars
    <3>0. CASE Check
      BY <3>0 DEF Check
    <3>1. CASE Started
      BY <3>1 DEF Started
    <3>4. CASE WarmedUp
      BY <3>4 DEF WarmedUp
    <3>2. CASE Ping
      BY <3>2 DEF Ping
    <3>5. CASE ClearTick \/ ClearDepth
      BY <3>5 DEF ClearTick, ClearDepth
    <3>3. CASE LockAndReset \/ Reconnect
      BY <3>3 DEF LockAndReset, Reconnect, Loses
    <3> QED
      BY <1>1, <3>0, <3>1, <3>2, <3>3, <3>4, <3>5 DEF ConnectionThread
  <2>6. TypeOK'
    BY <2>3, <2>4, <2>5 DEF IInv, TypeOK
  <2> QED
    BY <2>1, <2>2, <2>6, TasksStay DEF IInv
<1>2. CASE Endpoint
  <2>1. CASE OnOpen
    <3>1. /\ \A s \in Step : tasks[s] \in 0 .. MaxTasks
          /\ tasks["queued"] + 1 \in 0 .. MaxTasks
          /\ tasks' = [tasks EXCEPT !["queued"] = @ + 1]
          /\ \A s \in Step : tasks'[s] = IF s = "queued" THEN tasks[s] + 1 ELSE tasks[s]
      BY <2>1 DEF OnOpen, IInv, TypeOK, Tasks, Step
    <3>2. tasks' \in [Step -> 0 .. MaxTasks]
      BY <3>1 DEF IInv, TypeOK
    <3>3. Tasks' = Tasks + 1 /\ Running' = Running
      <4>1. /\ tasks'["queued"] = tasks["queued"] + 1
            /\ UNCHANGED <<tasks["ticker"], tasks["depth"], tasks["backfill"], tasks["OHLC"]>>
            /\ tasks["queued"] \in Int /\ tasks["ticker"] \in Int
            /\ tasks["depth"] \in Int /\ tasks["backfill"] \in Int /\ tasks["OHLC"] \in Int
        BY <3>1 DEF Step
      <4> QED
        BY <4>1 DEF Tasks, Running
    <3>4. Tasks' <= MaxTasks /\ Running' <= PoolSize
      BY <2>1, <3>1, <3>3 DEF OnOpen, IInv, TypeOK, Tasks, Step
    <3>5. TypeOK'
      BY <2>1, <3>2, <3>4 DEF OnOpen, IInv, TypeOK, managerVars, dataVars, feedVars
    <3> QED
      BY <2>1, <3>4, <3>5 DEF OnOpen, IInv, StatusKnown
  <2>2. CASE OnFail \/ OnClose \/ GoesMute
    <3>1. UNCHANGED tasks
      BY <2>2 DEF OnFail, OnClose, GoesMute
    <3>2. failures' \in 0 .. MaxFailures
      BY <2>2 DEF OnFail, OnClose, GoesMute, Fails, IInv, TypeOK
    <3>3. TypeOK'
      <4>1. /\ tasks' \in [Step -> 0 .. MaxTasks] /\ Running' <= PoolSize
        BY <3>1, TasksStay
      <4>2. /\ status' \in {"Open", "Closed", "Failed", "Connecting"}
            /\ net' \in {"none", "connecting", "open", "mute"}
            /\ pinged' \in BOOLEAN
            /\ subs' \subseteq Stream /\ refused' \subseteq Stream /\ late' \in BOOLEAN
            /\ UNCHANGED <<managerVars, heard, channels, dataVars, trader>>
        BY <2>2 DEF OnFail, OnClose, GoesMute, Loses, feedVars, IInv, TypeOK
      <4> QED
        BY <3>2, <4>1, <4>2 DEF IInv, TypeOK, managerVars, dataVars
    <3>4. StatusKnown'
      BY <2>2 DEF OnFail, OnClose, GoesMute, IInv, StatusKnown, managerVars
    <3> QED
      BY <3>1, <3>3, <3>4, TasksStay DEF IInv
  <2> QED
    BY <1>2, <2>1, <2>2 DEF Endpoint
<1>3. CASE OpenCallback
  <2>1. /\ tasks' \in [Step -> 0 .. MaxTasks]
        /\ Tasks' <= MaxTasks /\ Running' <= PoolSize
    <3> USE DEF IInv, TypeOK
    <3>0. /\ "queued" \in Step /\ "ticker" \in Step /\ "depth" \in Step
          /\ "backfill" \in Step /\ "OHLC" \in Step
      BY DEF Step
    <3>1. CASE TakeTask
      BY <3>0, <3>1, MovesKeeps DEF TakeTask
    <3>2. CASE SubscribeTicker
      BY <3>0, <3>2, MovesKeeps DEF SubscribeTicker
    <3>3. CASE SubscribeDepth
      BY <3>0, <3>3, MovesKeeps DEF SubscribeDepth
    <3>4. CASE EndBackfill
      BY <3>0, <3>4, MovesKeeps DEF EndBackfill
    <3>5. CASE SubscribeOHLC
      <4>1. /\ \A s \in Step : tasks[s] \in 0 .. MaxTasks
            /\ tasks["OHLC"] - 1 \in 0 .. MaxTasks
            /\ tasks' = [tasks EXCEPT !["OHLC"] = @ - 1]
            /\ \A s \in Step : tasks'[s] = IF s = "OHLC" THEN tasks[s] - 1 ELSE tasks[s]
        BY <3>5 DEF SubscribeOHLC, Step
      <4>2. tasks' \in [Step -> 0 .. MaxTasks]
        BY <4>1
      <4>3. Tasks' = Tasks - 1 /\ Running' = Running - 1
        BY <4>1 DEF Tasks, Running, Step
      <4> QED
        BY <4>1, <4>2, <4>3 DEF Tasks, Running, Step
    <3> QED
      BY <1>3, <3>1, <3>2, <3>3, <3>4, <3>5 DEF OpenCallback
  <2>2. /\ UNCHANGED <<managerVars, status, net, heard, pinged, channels, tick, depth, trader>>
        /\ subs' \subseteq Stream /\ refused' \subseteq Stream /\ late' \in BOOLEAN
        /\ signal' \in BOOLEAN /\ failures' \in 0 .. MaxFailures
    <3> USE DEF IInv, TypeOK, feedVars
    <3>1. CASE TakeTask
      BY <3>1 DEF TakeTask, dataVars
    <3>2. CASE SubscribeTicker
      BY <3>2 DEF SubscribeTicker, Subscribe, dataVars
    <3>3. CASE SubscribeDepth
      BY <3>3 DEF SubscribeDepth, Subscribe, dataVars
    <3>4. CASE EndBackfill
      <4>1. failures' \in 0 .. MaxFailures
        BY <3>4 DEF EndBackfill, Fails
      <4>2. signal' \in BOOLEAN
        BY <3>4 DEF EndBackfill
      <4> QED
        BY <3>4, <4>1, <4>2 DEF EndBackfill
    <3>5. CASE SubscribeOHLC
      BY <3>5 DEF SubscribeOHLC, Subscribe, dataVars
    <3> QED
      BY <1>3, <3>1, <3>2, <3>3, <3>4, <3>5 DEF OpenCallback
  <2>3. TypeOK'
    BY <2>1, <2>2 DEF IInv, TypeOK, managerVars
  <2> QED
    BY <2>1, <2>2, <2>3 DEF IInv, StatusKnown, managerVars
<1>4. CASE OnMessage
  <2>1. /\ UNCHANGED <<managerVars, status, net, tasks, signal, trader>>
        /\ heard' \in BOOLEAN /\ pinged' \in BOOLEAN /\ channels' \subseteq {"OHLC"}
        /\ tick' \in {"unset", "old", "fresh"} /\ depth' \in BOOLEAN
        /\ subs' \subseteq Stream /\ refused' \subseteq Stream /\ late' \in BOOLEAN
        /\ failures' \in 0 .. MaxFailures
    <3> USE DEF IInv, TypeOK, Handle, feedVars
    <3>1. ASSUME NEW stream \in Stream, Confirmation(stream)
          PROVE  <2>1!:
      BY <3>1 DEF Confirmation, Message
    <3>2. ASSUME NEW stream \in Stream, Refusal(stream)
          PROVE  <2>1!:
      <4>1. failures' \in 0 .. MaxFailures
        BY <3>2 DEF Refusal, Fails
      <4> QED
        BY <3>2, <4>1 DEF Refusal
    <3>3. ASSUME NEW stream \in Stream, LateMessage(stream)
          PROVE  <2>1!:
      BY <3>3 DEF LateMessage
    <3>4. CASE TickerMessage \/ DepthMessage \/ Pong
      BY <3>4 DEF TickerMessage, DepthMessage, Pong, Message
    <3> QED
      BY <1>4, <3>1, <3>2, <3>3, <3>4 DEF OnMessage
  <2>2. TypeOK'
    BY <2>1, TasksStay DEF IInv, TypeOK, managerVars
  <2> QED
    BY <2>1, <2>2, TasksStay DEF IInv, StatusKnown, managerVars
<1>5. CASE MinutePasses \/ TickAges \/ PositionThread
  <2>1. /\ UNCHANGED <<managerVars, status, net, pinged, tasks, feedVars, channels, depth, signal>>
        /\ heard' \in BOOLEAN /\ failures' \in 0 .. MaxFailures
        /\ tick' \in {"unset", "old", "fresh"}
        /\ trader' \in Trader
    <3> USE DEF IInv, TypeOK
    <3>1. CASE MinutePasses
      <4>1. failures' \in 0 .. MaxFailures
        BY <3>1 DEF MinutePasses, Fails
      <4> QED
        BY <3>1, <4>1 DEF MinutePasses, dataVars
    <3>2. CASE TickAges
      BY <3>2 DEF TickAges
    <3>3. CASE PositionThread
      BY <3>3 DEF PositionThread, StartTrading, BeginPass, TestTick, CallLimit, EndPass,
                  Trader, dataVars
    <3> QED
      BY <1>5, <3>1, <3>2, <3>3
  <2>2. TypeOK'
    BY <2>1, TasksStay DEF IInv, TypeOK, managerVars, feedVars
  <2> QED
    BY <2>1, <2>2, TasksStay DEF IInv, StatusKnown, managerVars
<1>6. CASE UNCHANGED vars
  BY <1>6 DEF vars, managerVars, dataVars, feedVars, IInv, TypeOK, StatusKnown, Tasks, Running
<1> QED
  BY <1>1, <1>2, <1>3, <1>4, <1>5, <1>6 DEF Next

-----------------------------------------------------------------------------
(* The theorems *)

\* Every variable keeps its type; the open callbacks never take more threads than
\* the pool has, and the warm-up time stops growing at its limit.
THEOREM ConnectionTypeCorrect == Spec => []TypeOK
<1>1. IInv => TypeOK
  BY DEF IInv
<1> QED
  BY InitInv, StepInv, <1>1, PTL DEF Spec

\* A connection that is open, with a message in the last minute, is not given up,
\* however late the thread of an endpoint that was replaced reports.
THEOREM HealthyConnectionKept == Spec => HealthyKept
<1>1. IInv /\ [Next]_vars =>
        [manager = "check" /\ manager' = "clear" => ~(net = "open" /\ heard)]_vars
  <2> SUFFICES ASSUME IInv, [Next]_vars, manager = "check", manager' = "clear"
               PROVE  ~(net = "open" /\ heard)
    OBVIOUS
  <2>1. Check
    BY DEF Next, vars, ConnectionThread, Started, WarmedUp, Ping, ClearTick,
           ClearDepth, LockAndReset, Reconnect, Endpoint, OnOpen, OnFail, OnClose, GoesMute,
           OpenCallback, TakeTask, SubscribeTicker, SubscribeDepth, EndBackfill,
           SubscribeOHLC, Subscribe, OnMessage, Confirmation, TickerMessage,
           DepthMessage, Pong, Message, Refusal, LateMessage, Handle, MinutePasses,
           TickAges, PositionThread, StartTrading, BeginPass, TestTick, CallLimit,
           EndPass, managerVars
  <2> QED
    BY <2>1 DEF Check, IInv, StatusKnown
<1> QED
  BY InitInv, StepInv, <1>1, PTL DEF Spec, HealthyKept

=============================================================================
