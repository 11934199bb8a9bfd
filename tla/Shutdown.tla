----------------------------- MODULE Shutdown -----------------------------
(***************************************************************************)
(* The life of the program from BitcoinTrader::start() to the return of    *)
(* main(): the console that is told to quit, the two threads that          *)
(* ~BitcoinTrader joins, the endpoint thread that ~websocket joins, the    *)
(* pool that goes last, and the members that are destroyed in between      *)
(* while callbacks still run.                                              *)
(*                                                                         *)
(* Of the connection it has what decides how a shutdown goes; Connection   *)
(* is about how it is kept.                                                *)
(***************************************************************************)
EXTENDS ThreadPool

CONSTANT MaxReconnects \* bound: reconnections
ASSUME ReconnectsAssumption == MaxReconnects \in Nat

\* What is pushed: open callbacks, and messages, here of the OHLC channel.
ASSUME FunctionAssumption == Function = {"open", "OHLC"}

VARIABLES
    main,       \* what the main thread does next
    destroyed,  \* members that are gone, see Member
    done,       \* BitcoinTrader::done
    manager,    \* where the connection thread is
    trader,     \* where the position thread is
    status,     \* websocket::status
    net,        \* the connection of the endpoint
    endpoint,   \* the endpoint's thread
    perpetual,  \* the endpoint keeps running without a connection
    subscribed, \* the exchange sends bars on the connection
    reconnects  \* how many reconnections there were

mainVars == <<main, destroyed, done, perpetual>>
wsVars   == <<status, net, endpoint, subscribed>>
vars == <<poolVars, mainVars, manager, trader, wsVars, reconnects>>

\* The handler's market data, tick and depth; the channels and callbacks of the
\* exchange; the callbacks and the endpoint of the websocket.
Member == {"data", "exchange", "callbacks"}

MainAt == {"console", "join", "data", "exchange", "perpetual", "close", "endpoint",
           "stop", "notify", "threads", "exited"}

Init == /\ PoolInit
        /\ main = "console" /\ destroyed = {} /\ done = FALSE
        /\ manager = "setup" /\ trader = "waiting"
        /\ status = "Connecting" /\ net = "none" /\ endpoint = "none"
        /\ perpetual = TRUE /\ subscribed = FALSE /\ reconnects = 0

-----------------------------------------------------------------------------
(* The main thread *)

\* "quit" ends main(), and ~BitcoinTrader begins.
Quit ==
    /\ main = "console"
    /\ main' = "join" /\ done' = TRUE
    /\ UNCHANGED <<poolVars, destroyed, perpetual, manager, trader, wsVars, reconnects>>

\* The recurring threads are joined, and then destruction goes on to the members.
JoinRecurring ==
    /\ main = "join" /\ manager = "ended" /\ trader = "ended"
    /\ main' = "data"
    /\ UNCHANGED <<poolVars, destroyed, done, perpetual, manager, trader, wsVars, reconnects>>

\* The handler's members go in the reverse order of their declaration, mktdata
\* before exchange; then those of the exchange, its channels before its websocket.
Destroy(member, then) ==
    /\ main = member
    /\ main' = then
    /\ destroyed' = destroyed \union {member}
    /\ UNCHANGED <<poolVars, done, perpetual, manager, trader, wsVars, reconnects>>

DestroyMembers == Destroy("data", "exchange") \/ Destroy("exchange", "perpetual")

\* ~websocket: teardown() lets the endpoint end when it has nothing to do.
StopPerpetual ==
    /\ main = "perpetual"
    /\ main' = "close"
    /\ perpetual' = FALSE
    /\ UNCHANGED <<poolVars, destroyed, done, manager, trader, wsVars, reconnects>>

\* It closes the connection if the status is Open now, and only now; closing a
\* connection that is not open is an error that is logged.
CloseIfOpen ==
    /\ main = "close"
    /\ main' = "endpoint"
    /\ net' = IF status = "Open" /\ net = "open" THEN "closing" ELSE net
    /\ UNCHANGED <<poolVars, destroyed, done, perpetual, manager, trader, status,
                   endpoint, subscribed, reconnects>>

\* When the endpoint's thread has ended, the members of the websocket go, its
\* pool, which was declared first, as the last.
JoinEndpoint ==
    /\ main = "endpoint" /\ endpoint = "ended"
    /\ main' = "stop"
    /\ destroyed' = destroyed \union {"callbacks"}
    /\ UNCHANGED <<poolVars, done, perpetual, manager, trader, wsVars, reconnects>>

StopPool(from, then) ==
    /\ main = from
    /\ main' = then
    /\ UNCHANGED <<destroyed, done, perpetual, manager, trader, wsVars, reconnects>>

DestroyPool == \/ StopPool("stop", "notify") /\ SetDone
               \/ StopPool("notify", "threads") /\ NotifyAll
               \/ StopPool("threads", "exited") /\ JoinThreads

Main == \/ JoinRecurring \/ DestroyMembers \/ StopPerpetual
        \/ CloseIfOpen \/ JoinEndpoint \/ DestroyPool

-----------------------------------------------------------------------------
(* The connection thread *)

\* set_up_and_start() constructs the exchange with its websocket, and connects.
SetUp ==
    /\ manager = "setup"
    /\ manager' = "asleep"
    /\ net' = "connecting" /\ endpoint' = "running"
    /\ UNCHANGED <<poolVars, mainVars, trader, status, subscribed, reconnects>>

\* After its sleep at the end of a round the thread tests done.
NextRound ==
    /\ manager = "asleep"
    /\ manager' = IF done THEN "ended" ELSE "check"
    /\ UNCHANGED <<poolVars, mainVars, trader, wsVars, reconnects>>

\* A connection that is not open, or was silent for a minute, is replaced; beyond
\* MaxReconnects it is left alone.
Check ==
    /\ manager = "check"
    /\ \/ /\ (status = "Open" \/ reconnects = MaxReconnects)
          /\ manager' = "asleep" /\ UNCHANGED <<status, reconnects>>
       \/ /\ reconnects < MaxReconnects
          /\ manager' = "reconnect" /\ status' = "Connecting"
          /\ reconnects' = reconnects + 1
    /\ UNCHANGED <<poolVars, mainVars, trader, net, endpoint, subscribed>>

\* The old endpoint is stopped; its thread ends after the handler it is in, and is
\* joined; a new one connects.
Reconnect ==
    /\ manager = "reconnect" /\ notifying = 0
    /\ manager' = "asleep"
    /\ net' = "connecting" /\ endpoint' = "running" /\ subscribed' = FALSE
    /\ UNCHANGED <<poolVars, mainVars, trader, status, reconnects>>

ConnectionThread == SetUp \/ NextRound \/ Check \/ Reconnect

-----------------------------------------------------------------------------
(* The position thread *)

\* Mutant: can_open_positions() does not look at done.
WaitsForConditions ==
    /\ trader = "waiting" /\ status = "Open"
    /\ trader' = IF done THEN "ended" ELSE "pass"
    /\ UNCHANGED <<poolVars, mainVars, manager, wsVars, reconnects>>

\* The wait for the conditions to trade ends when they hold, or with done.
LeaveWait ==
    /\ trader = "waiting"
    /\ \/ done /\ trader' = "ended"
       \/ ~done /\ status = "Open" /\ trader' = "pass"
    /\ UNCHANGED <<poolVars, mainVars, manager, wsVars, reconnects>>

\* A pass comes to its end by itself, and done is tested only after its sleep.
EndPass ==
    /\ trader = "pass"
    /\ trader' = "asleep"
    /\ UNCHANGED <<poolVars, mainVars, manager, wsVars, reconnects>>

NextPass ==
    /\ trader = "asleep"
    /\ \/ done /\ trader' = "ended"
       \/ ~done /\ status = "Open" /\ trader' = "pass"
    /\ UNCHANGED <<poolVars, mainVars, manager, wsVars, reconnects>>

PositionThread == LeaveWait \/ EndPass \/ NextPass

-----------------------------------------------------------------------------
(* The endpoint's thread: one handler at a time, which ends with its push() *)

\* Mutant: two threads run the endpoint.
HandlesTwo == endpoint = "running"

Handles == endpoint = "running" /\ notifying = 0

OnOpen ==
    /\ Handles /\ net = "connecting"
    /\ net' = "open" /\ status' = "Open"
    /\ Push("open")
    /\ UNCHANGED <<mainVars, manager, trader, endpoint, subscribed, reconnects>>

OnFail ==
    /\ Handles /\ net = "connecting"
    /\ net' = "none" /\ status' = "Failed"
    /\ UNCHANGED <<poolVars, mainVars, manager, trader, endpoint, subscribed, reconnects>>

OnMessage ==
    /\ Handles /\ net = "open" /\ subscribed
    /\ Push("OHLC")
    /\ UNCHANGED <<mainVars, manager, trader, wsVars, reconnects>>

\* Closed by the exchange, or closed by the program and confirmed or timed out.
OnClose ==
    /\ Handles /\ net \in {"open", "closing"}
    /\ net' = "none" /\ status' = "Closed" /\ subscribed' = FALSE
    /\ UNCHANGED <<poolVars, mainVars, manager, trader, endpoint, reconnects>>

\* run() returns: nothing is connected and the endpoint is not perpetual.
EndpointEnds ==
    /\ Handles /\ net = "none" /\ ~perpetual
    /\ endpoint' = "ended"
    /\ UNCHANGED <<poolVars, mainVars, manager, trader, status, net, subscribed,
                   reconnects>>

Endpoint == OnOpen \/ OnFail \/ OnMessage \/ OnClose \/ EndpointEnds

-----------------------------------------------------------------------------
(* The pool: an open callback subscribes, if the connection is open.  What it does *)
(* with market data that is destroyed is undefined, and it may get there or not.   *)

Subscribes(t) ==
    /\ Run(t)
    /\ IF doing[t] = "open" /\ net = "open"
       THEN subscribed' \in IF "data" \in destroyed THEN BOOLEAN ELSE {TRUE}
       ELSE UNCHANGED subscribed
    /\ UNCHANGED <<mainVars, manager, trader, status, net, endpoint, reconnects>>

Others == <<mainVars, manager, trader, wsVars, reconnects>>

PoolStep(t) == \/ Subscribes(t)
               \/ (Pop(t) \/ Lock(t) \/ Test(t)) /\ UNCHANGED Others

Pool == \/ Notify /\ UNCHANGED Others
        \/ \E t \in Thread : PoolStep(t)
        \/ \E t \in Thread : WakeSpuriously(t) /\ UNCHANGED Others

\* The process is gone.
Exited == main = "exited" /\ UNCHANGED vars

Next == \/ Quit \/ Main \/ ConnectionThread \/ PositionThread \/ Endpoint
        \/ Pool \/ Exited

Spec == Init /\ [][Next]_vars

\* Every thread runs, sleeps and passes end, the functions that are pushed return,
\* an attempt to connect succeeds or fails, and closing is confirmed or times out.
\* Who waits for the pool's mutex gets it, however often others do: that is strong
\* fairness, needed only because of spurious wakeups without end.
\* Nobody need ever type "quit", and the exchange need not close a connection.
Fairness ==
    /\ SF_vars(Main)
    /\ WF_vars(ConnectionThread) /\ WF_vars(PositionThread)
    /\ WF_vars(OnOpen \/ OnFail) /\ WF_vars(net = "closing" /\ OnClose)
    /\ WF_vars(EndpointEnds)
    /\ SF_vars(Notify /\ UNCHANGED Others)
    /\ \A t \in Thread : SF_vars(PoolStep(t))

FairSpec == Spec /\ Fairness

-----------------------------------------------------------------------------
(* Properties *)

\* Every variable has its type, and no two pushes are ever under way: the endpoint
\* of a replaced connection has ended its last handler.
TypeOK ==
    /\ PoolTypeOK /\ notifying <= 1
    /\ main \in MainAt /\ destroyed \subseteq Member
    /\ done \in BOOLEAN /\ perpetual \in BOOLEAN /\ subscribed \in BOOLEAN
    /\ manager \in {"setup", "asleep", "check", "reconnect", "ended"}
    /\ trader \in {"waiting", "pass", "asleep", "ended"}
    /\ status \in {"Open", "Closed", "Failed", "Connecting"}
    /\ net \in {"none", "connecting", "open", "closing"}
    /\ endpoint \in {"none", "running", "ended"}
    /\ reconnects \in 0 .. MaxReconnects

\* "the destructor waits for all the functions in the queue to be finished": when
\* the pool is gone, everything that was ever pushed has run.
QueueServed == main = "exited" => ran = pushed

\* What is pushed is run, be it that the program quits meanwhile.
PushedRuns == \A n \in 1 .. MaxPushed : pushed >= n ~> ran >= n

\* After "quit" the program ends, wherever its threads are, unless the connection
\* opens when teardown() has looked at its status: then main() waits for the
\* endpoint until the exchange closes it.
QuitEnds ==
    main # "console" ~> main = "exited" \/ (main = "endpoint" /\ net = "open")

=============================================================================
