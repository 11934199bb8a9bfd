---------------------------- MODULE Connection ----------------------------
(***************************************************************************)
(* Keeping one exchange connected: the connection thread of                *)
(* BitcoinTrader::manage_connections, the websocket whose endpoint thread  *)
(* reports openings, failures and closings, the open callback that         *)
(* subscribes and backfills on a pool thread, the handlers of what the     *)
(* exchange sends, and what the position thread asks of all that.          *)
(*                                                                         *)
(* The exchange and the network misbehave MaxFailures times, then never    *)
(* again, so that one can say what must come back.                         *)
(***************************************************************************)
EXTENDS Integers

CONSTANTS
    PoolSize,    \* threads of the pool: 4
    MaxWarmUp,   \* how often the warm-up time doubles: 4, from 20s to 320s
    Enough,      \* doublings after which the exchange has answered
    MaxFailures, \* bound: failures of the exchange or the network
    MaxTasks     \* bound: open callbacks that are queued or running

ASSUME ConnectionAssumption ==
    /\ PoolSize \in Nat \ {0} /\ MaxTasks \in Nat \ {0} /\ MaxFailures \in Nat
    /\ MaxWarmUp \in Nat /\ Enough \in 0 .. MaxWarmUp

VARIABLES
    manager,  \* where the connection thread is
    warmUp,   \* how often warm_up_time has doubled
    status,   \* websocket::status
    net,      \* the connection of the current endpoint
    failures, \* failures still to come
    heard,    \* ts_since_last is less than a minute ago
    pinged,   \* the exchange owes a pong
    tasks,    \* how many open callbacks are at which of their steps
    subs,     \* what the current connection is subscribed to
    refused,  \* the subscriptions that the exchange refused on it
    late,     \* a message of an earlier connection waits in the pool's queue
    channels, \* OKCoin::channels: of the subscriptions ever confirmed, those asked about
    tick,     \* the handler's tick: not set, older than 30s, or fresh
    depth,    \* the handler's depth has been set
    signal,   \* the strategies' signals have been set
    trader    \* where the position thread is

managerVars == <<manager, warmUp>>
dataVars    == <<tick, depth, signal>>
feedVars    == <<subs, refused, late>>
vars == <<manager, warmUp, status, net, failures, heard, pinged, tasks, subs,
          refused, late, channels, tick, depth, signal, trader>>

Stream  == {"ticker", "depth", "OHLC"}
Step    == {"queued", "ticker", "depth", "backfill", "OHLC"}
Manager == {"starting", "ping", "check", "clear", "clearDepth", "lock", "stop", "warm"}
Trader  == {"waiting", "idle", "pass", "plan"}

-----------------------------------------------------------------------------
(* Helpers *)

Tasks   == tasks["queued"] + tasks["ticker"] + tasks["depth"]
             + tasks["backfill"] + tasks["OHLC"]
Running == Tasks - tasks["queued"]
ThreadFree == Running < PoolSize

\* send() waits while reconnect() holds reconnect_lock.
LockFree == manager # "stop"

\* One more failure happens.
Fails == failures > 0 /\ failures' = failures - 1

\* An open callback goes from one step to the next.
Moves(from, to) ==
    /\ tasks[from] > 0
    /\ tasks' = [tasks EXCEPT ![from] = @ - 1, ![to] = @ + 1]

\* The connection is gone, with its subscriptions; a message it brought (one at a
\* time is enough) may still wait in the pool's queue, when every thread is busy.
Loses ==
    /\ subs' = {} /\ refused' = {}
    /\ \/ late' = late
       \/ subs # {} /\ ~ThreadFree /\ late' = TRUE

\* A sleep of the connection thread: the exchange may need longer than it
\* takes, but after Enough doublings the attempt to connect has come to an end,
\* and if it succeeded the open callbacks are through and a message has come.
Slept == \/ warmUp < Enough
         \/ net \in {"none", "mute"}
         \/ net = "open" /\ heard /\ Tasks = 0

Init == /\ manager = "starting" /\ warmUp = 0
        /\ status = "Connecting" /\ net = "connecting"
        /\ failures = MaxFailures
        /\ heard = FALSE /\ pinged = FALSE
        /\ tasks = [s \in Step |-> 0]
        /\ subs = {} /\ refused = {} /\ late = FALSE /\ channels = {}
        /\ tick = "unset" /\ depth = FALSE /\ signal = FALSE
        /\ trader = "waiting"

-----------------------------------------------------------------------------
(* The connection thread *)

\* The 20 seconds after set_up_and_start().
Started ==
    /\ manager = "starting" /\ Slept
    /\ manager' = "ping"
    /\ UNCHANGED <<warmUp, status, net, failures, heard, pinged, tasks, feedVars,
                   channels, dataVars, trader>>

\* Mutant: the warm-up time stays what it is.
WarmedUpAgain ==
    /\ manager = "warm" /\ Slept
    /\ manager' = "ping"
    /\ UNCHANGED <<warmUp, status, net, failures, heard, pinged, tasks, feedVars,
                   channels, dataVars, trader>>

\* Mutant: nothing limits the warm-up time.
WarmedUpLonger ==
    /\ manager = "warm" /\ Slept
    /\ manager' = "ping"
    /\ warmUp' = warmUp + 1
    /\ UNCHANGED <<status, net, failures, heard, pinged, tasks, feedVars, channels,
                   dataVars, trader>>

\* The warm-up is over, and the next one will take twice the time.
WarmedUp ==
    /\ manager = "warm" /\ Slept
    /\ manager' = "ping"
    /\ warmUp' = IF warmUp < MaxWarmUp THEN warmUp + 1 ELSE warmUp
    /\ UNCHANGED <<status, net, failures, heard, pinged, tasks, feedVars, channels,
                   dataVars, trader>>

Ping ==
    /\ manager = "ping"
    /\ manager' = "check"
    /\ pinged' = (net = "open")
    /\ UNCHANGED <<warmUp, status, net, failures, heard, tasks, feedVars, channels,
                   dataVars, trader>>

\* Nothing heard for a minute, or the websocket is not open: reconnect.
Check ==
    /\ manager = "check"
    /\ IF ~heard \/ status # "Open"
       THEN manager' = "clear" /\ UNCHANGED warmUp
       ELSE manager' = "ping" /\ warmUp' = 0
    /\ UNCHANGED <<status, net, failures, heard, pinged, tasks, feedVars, channels,
                   dataVars, trader>>

\* reconnect_exchange() clears the tick first, and then the depth.
ClearTick ==
    /\ manager = "clear"
    /\ manager' = "clearDepth"
    /\ tick' = "unset"
    /\ UNCHANGED <<warmUp, status, net, failures, heard, pinged, tasks, feedVars,
                   channels, depth, signal, trader>>

ClearDepth ==
    /\ manager = "clearDepth"
    /\ manager' = "lock"
    /\ depth' = FALSE
    /\ UNCHANGED <<warmUp, status, net, failures, heard, pinged, tasks, feedVars,
                   channels, tick, signal, trader>>

\* reconnect() takes reconnect_lock and resets the status, while the thread of
\* the old endpoint may still report.
LockAndReset ==
    /\ manager = "lock"
    /\ manager' = "stop"
    /\ status' = "Connecting"
    /\ UNCHANGED <<warmUp, net, failures, heard, pinged, tasks, feedVars, channels,
                   dataVars, trader>>

\* The old endpoint is stopped and its thread joined, a new one connects, and
\* the lock is released; nothing that the program believes about channels changes.
Reconnect ==
    /\ manager = "stop"
    /\ manager' = "warm"
    /\ net' = "connecting"
    /\ pinged' = FALSE /\ Loses
    /\ UNCHANGED <<warmUp, status, failures, heard, tasks, channels, dataVars, trader>>

ConnectionThread == \/ Started \/ WarmedUp \/ Ping \/ Check
                    \/ ClearTick \/ ClearDepth \/ LockAndReset \/ Reconnect

-----------------------------------------------------------------------------
(* The endpoint's thread *)

\* Mutant: on_open() leaves the status alone.
OpensQuietly ==
    /\ net = "connecting" /\ Tasks < MaxTasks
    /\ net' = "open"
    /\ tasks' = [tasks EXCEPT !["queued"] = @ + 1]
    /\ UNCHANGED <<managerVars, status, failures, heard, pinged, feedVars, channels,
                   dataVars, trader>>

OnOpen ==
    /\ net = "connecting" /\ Tasks < MaxTasks
    /\ net' = "open" /\ status' = "Open"
    /\ tasks' = [tasks EXCEPT !["queued"] = @ + 1]
    /\ UNCHANGED <<managerVars, failures, heard, pinged, feedVars, channels, dataVars, trader>>

OnFail ==
    /\ net = "connecting" /\ Fails
    /\ net' = "none" /\ status' = "Failed"
    /\ UNCHANGED <<managerVars, heard, pinged, tasks, feedVars, channels, dataVars, trader>>

OnClose ==
    /\ net = "open" /\ Fails
    /\ net' = "none" /\ status' = "Closed"
    /\ pinged' = FALSE /\ Loses
    /\ UNCHANGED <<managerVars, heard, tasks, channels, dataVars, trader>>

\* The connection is dead and nobody is told.
GoesMute ==
    /\ net = "open" /\ Fails
    /\ net' = "mute"
    /\ UNCHANGED <<managerVars, status, heard, pinged, tasks, feedVars, channels,
                   dataVars, trader>>

Endpoint == OnOpen \/ OnFail \/ OnClose \/ GoesMute

-----------------------------------------------------------------------------
(* The open callback *)

TakeTask ==
    /\ ThreadFree
    /\ Moves("queued", "ticker")
    /\ UNCHANGED <<managerVars, status, net, failures, heard, pinged, feedVars,
                   channels, dataVars, trader>>

\* Its sends go to whatever connection is the current one, and are lost with an
\* error when that is not open.
Subscribe(stream) ==
    /\ LockFree
    /\ IF net = "open"
       THEN subs' = subs \union {stream} /\ refused' = refused \ {stream}
       ELSE UNCHANGED <<subs, refused>>
    /\ UNCHANGED <<managerVars, status, net, failures, heard, pinged, late, channels,
                   dataVars, trader>>

SubscribeTicker == Moves("ticker", "depth") /\ Subscribe("ticker")
SubscribeDepth  == Moves("depth", "backfill") /\ Subscribe("depth")

\* Mutant: a backfill that is given up is the end of the callback.
EndBackfillOrCallback ==
    /\ \/ Moves("backfill", "OHLC") /\ (signal' = TRUE \/ UNCHANGED signal) /\ UNCHANGED failures
       \/ tasks["backfill"] > 0 /\ tasks' = [tasks EXCEPT !["backfill"] = @ - 1]
          /\ Fails /\ UNCHANGED signal
    /\ UNCHANGED <<managerVars, status, net, heard, pinged, feedVars, channels,
                   tick, depth, trader>>

\* The backfill gives the strategies their signals, if the averages have crossed,
\* or fails until it is given up.
EndBackfill ==
    /\ Moves("backfill", "OHLC")
    /\ \/ (signal' = TRUE \/ UNCHANGED signal) /\ UNCHANGED failures
       \/ Fails /\ UNCHANGED signal
    /\ UNCHANGED <<managerVars, status, net, heard, pinged, feedVars, channels,
                   tick, depth, trader>>

SubscribeOHLC ==
    /\ tasks["OHLC"] > 0
    /\ tasks' = [tasks EXCEPT !["OHLC"] = @ - 1]
    /\ Subscribe("OHLC")

OpenCallback == TakeTask \/ SubscribeTicker \/ SubscribeDepth
                         \/ EndBackfill \/ SubscribeOHLC

-----------------------------------------------------------------------------
(* What the exchange sends, and a pool thread handles *)

Handle ==
    /\ ThreadFree
    /\ heard' = TRUE
    /\ UNCHANGED <<managerVars, status, net, tasks, signal, trader>>

Message == net = "open" /\ Handle /\ UNCHANGED <<failures, feedVars>>

Confirmation(stream) ==
    /\ stream \in subs
    /\ Message
    /\ channels' = channels \union ({stream} \intersect {"OHLC"})
    /\ UNCHANGED <<pinged, tick, depth>>

\* A subscription that is refused is logged and not asked for again.
Refusal(stream) ==
    /\ stream \in subs
    /\ net = "open" /\ Handle /\ Fails
    /\ subs' = subs \ {stream} /\ refused' = refused \union {stream}
    /\ UNCHANGED <<pinged, late, channels, tick, depth>>

TickerMessage ==
    /\ "ticker" \in subs
    /\ Message
    /\ tick' = "fresh"
    /\ UNCHANGED <<pinged, channels, depth>>

DepthMessage ==
    /\ "depth" \in subs
    /\ Message
    /\ depth' = TRUE
    /\ UNCHANGED <<pinged, channels, tick>>

Pong ==
    /\ pinged
    /\ Message
    /\ pinged' = FALSE
    /\ UNCHANGED <<channels, tick, depth>>

\* A ticker or depth message, or the confirmation for the bars, of an earlier
\* connection is handled like any other, whichever connection there is now; its
\* time is that of its handling.
LateMessage(stream) ==
    /\ late
    /\ Handle
    /\ late' = FALSE
    /\ tick' = IF stream = "ticker" THEN "fresh" ELSE tick
    /\ depth' = (depth \/ stream = "depth")
    /\ channels' = channels \union ({stream} \intersect {"OHLC"})
    /\ UNCHANGED <<failures, pinged, subs, refused>>

OnMessage == \/ \E stream \in Stream :
                   Confirmation(stream) \/ Refusal(stream) \/ LateMessage(stream)
             \/ TickerMessage \/ DepthMessage \/ Pong

-----------------------------------------------------------------------------
(* Time *)

\* A minute without a message: nothing is connected, or nothing is asked for, or,
\* as one more failure, slow backfills keep every thread of the pool.
MinutePasses ==
    /\ \/ net # "open" /\ UNCHANGED failures
       \/ manager = "warm" /\ subs = {} /\ UNCHANGED failures
       \/ ~ThreadFree /\ Fails
    /\ heard' = FALSE
    /\ UNCHANGED <<managerVars, status, net, pinged, tasks, feedVars, channels,
                   dataVars, trader>>

\* Thirty seconds without a ticker message; nobody asks for that before trading starts.
TickAges ==
    /\ tick = "fresh" /\ trader # "waiting"
    /\ tick' = "old"
    /\ UNCHANGED <<managerVars, status, net, failures, heard, pinged, tasks, feedVars,
                   channels, depth, signal, trader>>

-----------------------------------------------------------------------------
(* The position thread *)

\* can_open_positions(), which is asked until it is true, and then never again.
StartTrading ==
    /\ trader = "waiting"
    /\ "OHLC" \in channels /\ signal /\ tick # "unset" /\ depth
    /\ trader' = "idle"
    /\ UNCHANGED <<managerVars, status, net, failures, heard, pinged, tasks, feedVars,
                   channels, dataVars>>

BeginPass ==
    /\ trader = "idle" /\ status = "Open"
    /\ trader' = "pass"
    /\ UNCHANGED <<managerVars, status, net, failures, heard, pinged, tasks, feedVars,
                   channels, dataVars>>

\* manage_positions() gets the tick, and goes on to its plan unless that is stale.
TestTick ==
    /\ trader = "pass" /\ tick = "fresh"
    /\ trader' = "plan"
    /\ UNCHANGED <<managerVars, status, net, failures, heard, pinged, tasks, feedVars,
                   channels, dataVars>>

\* The plan comes to its last call of limit().  No call of limit() tests anything, and
\* one before the last changes nothing here but the time that has passed.
CallLimit ==
    /\ trader = "plan"
    /\ trader' = "idle"
    /\ UNCHANGED <<managerVars, status, net, failures, heard, pinged, tasks, feedVars,
                   channels, dataVars>>

\* No userinfo, a stale tick, or nothing to do.
EndPass ==
    /\ trader = "pass"
    /\ trader' = "idle"
    /\ UNCHANGED <<managerVars, status, net, failures, heard, pinged, tasks, feedVars,
                   channels, dataVars>>

PositionThread == StartTrading \/ BeginPass \/ TestTick \/ CallLimit \/ EndPass

-----------------------------------------------------------------------------
Next == \/ ConnectionThread \/ Endpoint \/ OpenCallback \/ OnMessage
        \/ MinutePasses \/ TickAges \/ PositionThread

\* Threads run, sleeps end, attempts to connect and requests are answered, and
\* what is subscribed to is sent.
Fairness ==
    /\ WF_vars(ConnectionThread)
    /\ WF_vars(OnOpen)
    /\ WF_vars(OpenCallback)
    /\ WF_vars(Confirmation("OHLC"))
    /\ WF_vars(TickerMessage) /\ WF_vars(DepthMessage) /\ WF_vars(Pong)
    /\ WF_vars(MinutePasses)
    /\ WF_vars(StartTrading)

Spec == Init /\ [][Next]_vars
FairSpec == Spec /\ Fairness

-----------------------------------------------------------------------------
(* Properties *)

\* Every variable has its type; the pool never runs more than it has threads, and
\* the warm-up time stops growing.
TypeOK ==
    /\ manager \in Manager /\ warmUp \in 0 .. MaxWarmUp
    /\ status \in {"Open", "Closed", "Failed", "Connecting"}
    /\ net \in {"none", "connecting", "open", "mute"}
    /\ failures \in 0 .. MaxFailures
    /\ heard \in BOOLEAN /\ pinged \in BOOLEAN
    /\ tasks \in [Step -> 0 .. MaxTasks] /\ Running <= PoolSize
    /\ subs \subseteq Stream /\ refused \subseteq Stream /\ late \in BOOLEAN
    /\ channels \subseteq {"OHLC"}
    /\ tick \in {"unset", "old", "fresh"}
    /\ depth \in BOOLEAN /\ signal \in BOOLEAN
    /\ trader \in Trader

\* Once the failures are over, the program comes to a connection that it keeps,
\* with every subscription made on it, except what the exchange refuses: each warm-up
\* gives it twice the time, so that no reconnection is too early for ever, and no
\* message of an earlier connection hides for ever that the current one is dead.
Recovers ==
    <>[](net = "open" /\ status = "Open" /\ subs \union refused = Stream)

\* Once the strategies have their signals, the position thread comes to trade:
\* whatever was lost, every one of its conditions is met again at one time, and no
\* reconnection keeps clearing one of them, unless a subscription is refused.
TradingStarts == signal ~> trader # "waiting" \/ refused # {}

\* A connection that is open, and on which a message came within the last
\* minute, is not given up: whatever the thread of an earlier endpoint reported.
HealthyKept ==
    [][manager = "check" /\ manager' = "clear" => ~(net = "open" /\ heard)]_vars

\* "we can open positions if / we're subscribed to every OHLC period / ... and we
\* have a tick set / and we have the depth set": that was so once, and of what limit()
\* takes from the handler itself, the depth, it is so whenever limit() starts.
OpensOnlyWhenReady == [][CallLimit => depth /\ "OHLC" \in channels]_vars

=============================================================================
