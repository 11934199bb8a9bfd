---------------------------- MODULE LimitOrder ----------------------------
(***************************************************************************)
(* One limit order of OKCoinFutsHandler::limit() and everything that moves *)
(* it: the position thread that waits in limit(), the pool threads that    *)
(* run OKCoin::on_message() and, inside it, the trade and orderinfo        *)
(* callbacks, and the exchange with its account.                           *)
(*                                                                         *)
(* A call of limit() is a number, 1 for the first.  The call number is     *)
(* also the number of the order it sends and names its stack frame, its    *)
(* closure and its deadline (cancel_time): one call starts only after the  *)
(* one before it returned, so deadlines pass in the order of the calls,    *)
(* and the clock is the number of deadlines that have passed.              *)
(***************************************************************************)
EXTENDS PositionPlan, Sequences, FiniteSets

CONSTANTS
    MaxCalls,     \* bound: calls of limit() in a behaviour
    PoolSize,     \* threads of the pool that runs on_message()
    MaxPolls,     \* bound: orderinfo requests of one activation
    Pace,         \* what is done before anyone's sleep ends, see TimeMayPass
    Lossy         \* an answer may be lost with the connection

ASSUME CallsAssumption == MaxCalls \in Nat /\ MaxPolls \in Nat
ASSUME PoolAssumption == PoolSize \in Nat \ {0}
ASSUME EnvironmentAssumption ==
    Pace \in {"prompt", "swift", "any"} /\ Lossy \in BOOLEAN

VARIABLES
    called,      \* how many calls of limit() have started
    expired,     \* how many of their deadlines have passed
    frame,       \* the call whose stack frame is live, 0 when none is
    result,      \* what the last limit() returned
    tradingDone, \* the flag trading_done in the live frame
    tradeCb,     \* the call whose closure is in trade_callback, 0 if empty
    infoCb,      \* the activation whose closure is in orderinfo_callback
    timeout,     \* channel_timeouts: the call whose deadline is stored, or 0
    act,         \* for each order, the run of the trade callback on its answer
    requests,    \* requests on their way to the exchange
    inbox,       \* messages on their way to, or queued in, the pool
    order,       \* the exchange's order book
    held         \* the contracts in the exchange's account

posVars  == <<called, frame, result, tradingDone>>
exchVars == <<order, held>>
limitVars == <<called, expired, frame, result, tradingDone, tradeCb, infoCb,
               timeout, act, requests, inbox, order, held>>

-----------------------------------------------------------------------------
(* Data *)

Call      == 1 .. MaxCalls
OrderType == {"OpenLong", "OpenShort", "CloseLong", "CloseShort"}
Channel   == {"trade", "orderinfo"}

\* OrderStatus as the callbacks tell it apart: "open" is Unfilled,
\* PartiallyFilled or CancelRequest, and "failed" also the initial final_info.
Status == {"failed", "open", "full", "cancelled"}

\* unsent, on its way, in the book, then one of three ends.
OrderState == {"none", "sent", "open", "full", "cancelled", "rejected"}

\* none yet, about to poll, asleep between polls, back in on_message(), ended
ActAt == {"none", "start", "sleep", "erase", "ended"}

Activation == [at : ActAt, call : 0 .. MaxCalls, info : Status,
               stop : BOOLEAN, polls : 0 .. MaxPolls]

Order == [state : OrderState, type : OrderType, amount : Nat, filled : Nat]

TradeAnswer == [kind : {"trade"}, order : Call, ok : BOOLEAN]
InfoAnswer  == [kind : {"orderinfo"}, order : Call, info : Status]

OrderRequest == [kind : {"order", "cancel"}, order : Call]
InfoRequest  == [kind : {"orderinfo"}, order : Call, poll : 1 .. MaxPolls]

NoActivation == [at |-> "none", call |-> 0, info |-> "failed",
                 stop |-> FALSE, polls |-> 0]
NoOrder == [state |-> "none", type |-> "OpenLong", amount |-> 0, filled |-> 0]

Left(n)      == order[n].amount - order[n].filled
Unsettled(n) == order[n].state \in {"sent", "open"}
Running(n)   == act[n].at \notin {"none", "ended"}
Past(n)      == n <= expired

\* a thread of the pool is free to take the next message
ThreadFree == Cardinality({n \in Call : Running(n)}) < PoolSize

\* Nothing is in flight that a thread of the pool could take.
NetworkQuiet == requests = {} /\ (inbox = <<>> \/ ~ThreadFree)

\* Whoever is at work in the program is asleep.
ProgramQuiet == /\ \A n \in Call : act[n].at \in {"none", "sleep", "ended"}
                /\ frame # 0 => ~tradingDone /\ ~Past(frame)

\* Sleeps and deadlines outlast, with Pace
\*   "prompt": the program's own steps and the exchange's answers;
\*   "swift":  the program's own steps, however slow the network is;
\*   "any":    nothing: every thread and every message may be delayed.
TimeMayPass == /\ Pace = "prompt" => NetworkQuiet
               /\ Pace # "any" => ProgramQuiet

\* The answer m goes to the pool, or is lost with the connection.
Answer(m) == \/ inbox' = Append(inbox, m)
             \/ Lossy /\ inbox' = inbox

-----------------------------------------------------------------------------
LimitInit ==
    /\ called = 0 /\ expired = 0 /\ frame = 0
    /\ result = FALSE /\ tradingDone = FALSE
    /\ tradeCb = 0 /\ infoCb = 0
    /\ timeout = [c \in Channel |-> 0]
    /\ act = [n \in Call |-> NoActivation]
    /\ requests = {} /\ inbox = <<>>
    /\ order = [n \in Call |-> NoOrder]
    /\ held \in [long : 0 .. MaxContracts, short : 0 .. MaxContracts]
    /\ held.long = 0 \/ held.short = 0

-----------------------------------------------------------------------------
(* The position thread *)

\* Mutant: set_trade_callback() is not called again.
LimitKeepsCallback(type, amount) ==
    /\ frame = 0 /\ called < MaxCalls
    /\ called' = called + 1 /\ frame' = called + 1
    /\ tradingDone' = FALSE /\ result' = FALSE
    /\ tradeCb' = IF tradeCb = 0 THEN called + 1 ELSE tradeCb
    /\ timeout' = [timeout EXCEPT !["trade"] = called + 1]
    /\ order' = [order EXCEPT ![called + 1] =
                   [state |-> "sent", type |-> type, amount |-> amount, filled |-> 0]]
    /\ requests' = requests \union {[kind |-> "order", order |-> called + 1]}
    /\ UNCHANGED <<expired, infoCb, act, inbox, held>>

\* Mutant: a deadline that is already stored is not replaced.
LimitKeepsDeadline(type, amount) ==
    /\ frame = 0 /\ called < MaxCalls
    /\ called' = called + 1 /\ frame' = called + 1
    /\ tradingDone' = FALSE /\ result' = FALSE
    /\ tradeCb' = called + 1
    /\ timeout' = [timeout EXCEPT !["trade"] = IF @ = 0 THEN called + 1 ELSE @]
    /\ order' = [order EXCEPT ![called + 1] =
                   [state |-> "sent", type |-> type, amount |-> amount, filled |-> 0]]
    /\ requests' = requests \union {[kind |-> "order", order |-> called + 1]}
    /\ UNCHANGED <<expired, infoCb, act, inbox, held>>

\* limit() up to its wait: it installs its closure, and order() stores the
\* deadline of the trade channel and sends the request.
Limit(type, amount) ==
    /\ frame = 0 /\ called < MaxCalls
    /\ called' = called + 1
    /\ frame' = called + 1
    /\ tradingDone' = FALSE /\ result' = FALSE
    /\ tradeCb' = called + 1
    /\ timeout' = [timeout EXCEPT !["trade"] = called + 1]
    /\ order' = [order EXCEPT ![called + 1] =
                   [state |-> "sent", type |-> type, amount |-> amount, filled |-> 0]]
    /\ requests' = requests \union {[kind |-> "order", order |-> called + 1]}
    /\ UNCHANGED <<expired, infoCb, act, inbox, held>>

\* check_until() looks at the clock first, and at trading_done only in time.
Return(value) ==
    /\ frame' = 0
    /\ result' = value
    /\ tradingDone' = FALSE
    /\ UNCHANGED <<called, expired, tradeCb, infoCb, timeout, act, requests,
                   inbox, order, held>>

\* Mutant: limit() waits for trading_done even when its time has passed.
LimitWaitsForDone == frame # 0 /\ Past(frame) /\ tradingDone /\ Return(FALSE)

LimitReturnsTrue  == frame # 0 /\ ~Past(frame) /\ tradingDone /\ Return(TRUE)
LimitReturnsFalse == frame # 0 /\ Past(frame) /\ Return(FALSE)
LimitReturns      == LimitReturnsTrue \/ LimitReturnsFalse

\* The clock reaches the next deadline.
DeadlinePasses ==
    /\ expired < called
    /\ TimeMayPass
    /\ expired' = expired + 1
    /\ UNCHANGED <<posVars, tradeCb, infoCb, timeout, act, requests, inbox, exchVars>>

-----------------------------------------------------------------------------
(* The pool: on_message() for the one-off channels *)

\* The callback of a channel runs without a stored deadline, or before it.
WillCallback(channel) == timeout[channel] = 0 \/ ~Past(timeout[channel])

\* A message whose stored deadline has passed is dropped, and the deadline kept.
DropMessage ==
    /\ inbox # <<>> /\ ThreadFree
    /\ ~WillCallback(Head(inbox).kind)
    /\ inbox' = Tail(inbox)
    /\ UNCHANGED <<posVars, expired, tradeCb, infoCb, timeout, act, requests, exchVars>>

\* trading_done = true in the closure of call c.  When c has returned, its flag
\* was on a dead frame: the write is lost, or hits the flag of the call that is
\* now on that stack.
SetDone(c) ==
    tradingDone' \in IF c = frame THEN {TRUE} ELSE {tradingDone, frame # 0}

\* Mutant: the trade callback polls for a failed order, too.
OnAnyTradeAnswer ==
    /\ inbox # <<>> /\ ThreadFree
    /\ LET m == Head(inbox) IN
       /\ m.kind = "trade"
       /\ WillCallback("trade")
       /\ act' = [act EXCEPT ![m.order].at = "start", ![m.order].call = tradeCb]
       /\ infoCb' = m.order
    /\ inbox' = Tail(inbox)
    /\ UNCHANGED <<posVars, expired, tradeCb, timeout, requests, exchVars>>

\* The answer to order m.order runs whatever closure trade_callback holds now:
\* for "failed" it only sets the flag, otherwise it installs its own orderinfo
\* callback and enters the polling loop.
OnTradeAnswer ==
    /\ inbox # <<>> /\ ThreadFree
    /\ LET m == Head(inbox) IN
       /\ m.kind = "trade"
       /\ WillCallback("trade")
       /\ act' = [act EXCEPT ![m.order].at = IF m.ok THEN "start" ELSE "erase",
                             ![m.order].call = tradeCb]
       /\ \/ m.ok /\ infoCb' = m.order /\ UNCHANGED tradingDone
          \/ ~m.ok /\ SetDone(tradeCb) /\ UNCHANGED infoCb
    /\ inbox' = Tail(inbox)
    /\ UNCHANGED <<called, frame, result, expired, tradeCb, timeout, requests, exchVars>>

\* Mutant: any status ends the polling.
InformedOnce(a, info) ==
    IF info = "failed" THEN [a EXCEPT !.stop = TRUE]
    ELSE [a EXCEPT !.info = info, !.stop = TRUE]

\* What the orderinfo callback does to the locals of its activation.
Informed(a, info) ==
    IF info = "failed" THEN [a EXCEPT !.stop = TRUE]
    ELSE [a EXCEPT !.info = info, !.stop = @ \/ info = "full"]

\* An orderinfo answer reaches the activation installed last, whichever order it
\* is about.  Once that activation has ended the callback writes to a dead frame
\* of a pool thread, which nobody reads.
OnInfoAnswer ==
    /\ inbox # <<>> /\ ThreadFree
    /\ LET m == Head(inbox) IN
       /\ m.kind = "orderinfo"
       /\ WillCallback("orderinfo")
       /\ act' = IF infoCb # 0 /\ Running(infoCb)
                 THEN [act EXCEPT ![infoCb] = Informed(@, m.info)] ELSE act
    /\ timeout' = [timeout EXCEPT !["orderinfo"] = 0]
    /\ inbox' = Tail(inbox)
    /\ UNCHANGED <<posVars, expired, tradeCb, infoCb, requests, exchVars>>

-----------------------------------------------------------------------------
(* The pool: the trade callback, one activation per answered order *)

\* The calls whose cancel_time and trading_done an activation may be using: its
\* own, and, once set_trade_callback() has freed the closure it runs in, those
\* of the closure allocated since.
Closure(n) == {act[n].call, tradeCb}

\* The first test of the loop comes at once, the others after sleep_for(1s).
AtLoopTest(n) == \/ act[n].at = "start"
                 \/ act[n].at = "sleep" /\ TimeMayPass

\* Another round: orderinfo() stores the deadline of its channel and asks.
Poll(n) ==
    /\ AtLoopTest(n) /\ ~act[n].stop /\ act[n].polls < MaxPolls
    /\ \E c \in Closure(n) :
          /\ ~Past(c)
          /\ timeout' = [timeout EXCEPT !["orderinfo"] = c]
    /\ requests' = requests \union
         {[kind |-> "orderinfo", order |-> n, poll |-> act[n].polls + 1]}
    /\ act' = [act EXCEPT ![n].at = "sleep", ![n].polls = @ + 1]
    /\ UNCHANGED <<posVars, expired, tradeCb, infoCb, inbox, exchVars>>

\* The loop of the trade callback is left, and the order cancelled or not.
LeaveAnd(n, cancel) ==
    /\ requests' = IF cancel THEN requests \union {[kind |-> "cancel", order |-> n]}
                   ELSE requests
    /\ act' = [act EXCEPT ![n] = [at |-> "erase", call |-> act[n].call,
                 info |-> "failed", stop |-> FALSE, polls |-> 0]]
    /\ SetDone(act[n].call)
    /\ UNCHANGED <<called, frame, result, expired, tradeCb, infoCb, timeout,
                   inbox, exchVars>>

\* Mutant: the deadline does not end the loop.
LeaveWhenStopped(n) ==
    /\ AtLoopTest(n) /\ act[n].stop
    /\ LeaveAnd(n, act[n].info \notin {"failed", "full"})

\* Mutant: what was not filled at the first look is cancelled.
LeaveAtOnce(n) ==
    /\ AtLoopTest(n)
    /\ LeaveAnd(n, act[n].info \notin {"failed", "full"})

\* Mutant: the test of the status is the wrong way round.
LeaveWithoutCancel(n) ==
    /\ AtLoopTest(n)
    /\ act[n].stop \/ \E c \in Closure(n) : Past(c)
    /\ LeaveAnd(n, act[n].info = "cancelled")

\* The loop ends: an order that final_info knows, and not as fully filled, is
\* cancelled; the locals go out of scope, and trading_done is set.
LeaveLoop(n) ==
    /\ AtLoopTest(n)
    /\ act[n].stop \/ \E c \in Closure(n) : Past(c)
    /\ LeaveAnd(n, act[n].info \notin {"failed", "full"})

\* Back in on_message(): the deadline of the channel is erased, whoever's it is.
EraseTrade(n) ==
    /\ act[n].at = "erase"
    /\ act' = [act EXCEPT ![n].at = "ended"]
    /\ timeout' = [timeout EXCEPT !["trade"] = 0]
    /\ UNCHANGED <<posVars, expired, tradeCb, infoCb, requests, inbox, exchVars>>

-----------------------------------------------------------------------------
(* The exchange *)

Accept(r) ==
    /\ r.kind = "order"
    /\ order' = [order EXCEPT ![r.order].state = "open"]
    /\ requests' = requests \ {r}
    /\ Answer([kind |-> "trade", order |-> r.order, ok |-> TRUE])
    /\ UNCHANGED <<posVars, expired, tradeCb, infoCb, timeout, act, held>>

Reject(r) ==
    /\ r.kind = "order"
    /\ order' = [order EXCEPT ![r.order].state = "rejected"]
    /\ requests' = requests \ {r}
    /\ Answer([kind |-> "trade", order |-> r.order, ok |-> FALSE])
    /\ UNCHANGED <<posVars, expired, tradeCb, infoCb, timeout, act, held>>

AnswerInfo(r) ==
    /\ r.kind = "orderinfo"
    /\ requests' = requests \ {r}
    /\ Answer([kind |-> "orderinfo", order |-> r.order, info |-> order[r.order].state])
    /\ UNCHANGED <<posVars, expired, tradeCb, infoCb, timeout, act, exchVars>>

\* The answer to a cancel request is only logged, and left out.
Cancel(r) ==
    /\ r.kind = "cancel"
    /\ requests' = requests \ {r}
    /\ order' = [order EXCEPT ![r.order].state = IF @ = "open" THEN "cancelled" ELSE @]
    /\ UNCHANGED <<posVars, expired, tradeCb, infoCb, timeout, act, inbox, held>>

\* What k contracts traded under an order of a type do to an account.
Traded(account, type, k) ==
    CASE type = "OpenLong"   -> [account EXCEPT !.long = @ + k]
      [] type = "OpenShort"  -> [account EXCEPT !.short = @ + k]
      [] type = "CloseLong"  -> [account EXCEPT !.long = @ - k]
      [] type = "CloseShort" -> [account EXCEPT !.short = @ - k]

\* An order in the book trades k contracts; a close never more than are held.
Fill(n, k) ==
    /\ order[n].state = "open"
    /\ order[n].type = "CloseLong" => k <= held.long
    /\ order[n].type = "CloseShort" => k <= held.short
    /\ held' = Traded(held, order[n].type, k)
    /\ order' = [order EXCEPT ![n].filled = @ + k,
                              ![n].state = IF k = Left(n) THEN "full" ELSE @]
    /\ UNCHANGED <<posVars, expired, tradeCb, infoCb, timeout, act, requests, inbox>>

-----------------------------------------------------------------------------
OnMessage == DropMessage \/ OnTradeAnswer \/ OnInfoAnswer

Callback(n) == Poll(n) \/ LeaveLoop(n) \/ EraseTrade(n)

Serve(r) == Accept(r) \/ Reject(r) \/ AnswerInfo(r) \/ Cancel(r)

\* Everything but the position thread.
Surroundings ==
    \/ DeadlinePasses
    \/ OnMessage
    \/ \E n \in Call : Callback(n)
    \/ \E r \in requests : Serve(r)
    \/ \E n \in Call : \E k \in 1 .. Left(n) : Fill(n, k)

-----------------------------------------------------------------------------
\* The types of the variables.
LimitTypeOK ==
    /\ called \in 0 .. MaxCalls /\ expired \in 0 .. called
    /\ frame \in 0 .. called /\ tradeCb \in 0 .. called /\ infoCb \in 0 .. called
    /\ result \in BOOLEAN /\ tradingDone \in BOOLEAN
    /\ timeout \in [Channel -> 0 .. MaxCalls]
    /\ act \in [Call -> Activation]
    /\ requests \subseteq (OrderRequest \union InfoRequest)
    /\ inbox \in Seq(TradeAnswer \union InfoAnswer)
    /\ order \in [Call -> Order]
    /\ held \in [long : Nat, short : Nat]

\* No deadline, closure, activation, order, request or message belongs to a call that
\* has not been made.
CallsMade ==
    /\ timeout \in [Channel -> 0 .. called]
    /\ \A n \in Call : act[n].call <= called
    /\ \A n \in Call : n > called => order[n].state = "none" /\ act[n].at = "none"
    /\ \A r \in requests : r.order <= called
    /\ \A i \in 1 .. Len(inbox) : inbox[i].order <= called

=============================================================================
