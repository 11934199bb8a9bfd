-------------------------- MODULE ManagePositions --------------------------
(***************************************************************************)
(* The position thread of one exchange: OKCoinFutsHandler::manage_positions*)
(* called every ten seconds by BitcoinTrader::position_management, on top  *)
(* of the limit orders of LimitOrder.  A pass fetches the position, then   *)
(* the account and the tick, plans from them, and places at most two limit *)
(* orders: one that closes and, when limit() returned true, one that opens.*)
(***************************************************************************)
EXTENDS LimitOrder, Functions

CONSTANTS
    SignalSteps, \* signals and weights are multiples of 1/SignalSteps
    Weight,      \* the weights of the strategies, all different
    Exposure     \* with the option "equity", leverage * equity * last price can
                 \* be these, in dollars; {} with the option "contracts"

ASSUME SignalAssumption == SignalSteps \in Nat \ {0}
ASSUME WeightAssumption == IsFiniteSet(Weight)
ASSUME ExposureAssumption == Exposure \subseteq 0 .. 100 * MaxContracts

\* What the strategies may signal: each its weight, or its negation, or 0.
Signals == {s \in [Weight -> -SignalSteps .. SignalSteps] :
               \A w \in Weight : s[w] \in {-w, 0, w}}

TotalSignal(s) == SumFunction(s)

VARIABLES
    at,       \* where the position thread is
    position, \* its local copy of the position, while it needs it
    toOpen,   \* its local contracts_to_open
    slack     \* history: the most that was unsettled at a fetch of the position

passVars == <<at, position, toOpen, slack>>
vars == <<limitVars, passVars>>

NoPosition == [long |-> 0, short |-> 0]

PassAt == {"idle", "account", "closing", "opening"}

Net(account) == account.long - account.short

\* The contracts still to be traded under orders that are not settled.
UnsettledContracts ==
    SumFunction([n \in Call |-> IF Unsettled(n) THEN Left(n) ELSE 0])

\* Nobody is at work for an earlier order.
Rested == /\ requests = {} /\ inbox = <<>>
          /\ \A n \in Call : ~Running(n)

\* The ten seconds between two passes are long enough, for a prompt exchange, to
\* finish all work on earlier orders, and for a swift program to notice whatever
\* has arrived and whichever deadline has passed.
PauseIsOver ==
    /\ Pace = "prompt" => Rested
    /\ Pace = "swift" => \A n \in Call : Running(n) =>
          act[n].at = "sleep" /\ ~act[n].stop /\ ~Past(act[n].call)

-----------------------------------------------------------------------------
Init == /\ LimitInit
        /\ at = "idle"
        /\ position = NoPosition
        /\ toOpen = 0
        /\ slack = 0

\* positions() over REST; a pass for which it fails changes nothing.
FetchPosition ==
    /\ at = "idle"
    /\ PauseIsOver
    /\ position' = held
    /\ slack' = IF UnsettledContracts > slack THEN UnsettledContracts ELSE slack
    /\ at' = "account"
    /\ UNCHANGED <<limitVars, toOpen>>

\* No userinfo before its deadline, a tick older than 30s, or nothing to do.
GiveUp ==
    /\ at = "account"
    /\ at' = "idle"
    /\ position' = NoPosition
    /\ UNCHANGED <<limitVars, toOpen, slack>>

\* Mutant: the sum is not clamped.
BlendedSum(s) == TotalSignal(s)

\* blend_signals(): the sum, clamped to [-1, 1].
Blended(s) ==
    IF TotalSignal(s) > SignalSteps THEN SignalSteps
    ELSE IF TotalSignal(s) < -SignalSteps THEN -SignalSteps ELSE TotalSignal(s)

\* The contracts that a blended signal may ask for; leverage above 20 is given up.
Desired(num) ==
    IF Exposure = {} THEN {DesiredContracts(num, SignalSteps)}
    ELSE {DesiredOfExposure(num, SignalSteps, e) : e \in Exposure}

\* The plan, and the call of limit() that it starts with.  A plan that needs two
\* calls is left to behaviours whose bound MaxCalls has room for both.
Trade(desired) ==
    LET current == Net(position)
        close   == ContractsToClose(current, desired)
        open    == ContractsToOpen(current, desired)
    IN
    /\ at = "account"
    /\ open = 0 \/ close = 0 \/ called + 2 <= MaxCalls
    /\ \/ /\ close # 0
          /\ Limit(ClosingType(close), Abs(close))
          /\ at' = "closing" /\ toOpen' = open
       \/ /\ close = 0 /\ open # 0
          /\ Limit(OpeningType(open), Abs(open))
          /\ at' = "opening" /\ toOpen' = 0
    /\ position' = NoPosition
    /\ UNCHANGED slack

\* Mutant: the result of closing is not looked at.
OpensAnyway ==
    /\ at = "closing" /\ frame = 0
    /\ IF toOpen # 0
       THEN Limit(OpeningType(toOpen), Abs(toOpen)) /\ at' = "opening"
       ELSE at' = "idle" /\ UNCHANGED limitVars
    /\ toOpen' = 0
    /\ UNCHANGED <<position, slack>>

\* limit() is back with the close: open what is planned, unless it failed.
CloseReturned ==
    /\ at = "closing" /\ frame = 0
    /\ IF result /\ toOpen # 0
       THEN /\ Limit(OpeningType(toOpen), Abs(toOpen))
            /\ at' = "opening"
       ELSE /\ at' = "idle"
            /\ UNCHANGED limitVars
    /\ toOpen' = 0
    /\ UNCHANGED <<position, slack>>

\* limit() is back with the open: its result is not looked at.
OpenReturned ==
    /\ at = "opening" /\ frame = 0
    /\ at' = "idle"
    /\ UNCHANGED <<limitVars, position, toOpen, slack>>

Pass == \/ FetchPosition \/ GiveUp
        \/ \E desired \in UNION {Desired(Blended(s)) : s \in Signals} : Trade(desired)
        \/ CloseReturned \/ OpenReturned

Next == \/ Pass
        \/ LimitReturns /\ UNCHANGED passVars
        \/ Surroundings /\ UNCHANGED passVars

Spec == Init /\ [][Next]_vars

\* The position thread returns from check_until() and goes on; a pool thread
\* takes the next message and runs its callback; clocks run and sleeps end.
Fairness ==
    /\ WF_vars((CloseReturned \/ OpenReturned \/ GiveUp))
    /\ WF_vars(LimitReturns /\ UNCHANGED passVars)
    /\ WF_vars(OnMessage /\ UNCHANGED passVars)
    /\ WF_vars(DeadlinePasses /\ UNCHANGED passVars)
    /\ \A n \in Call : WF_vars(Callback(n) /\ UNCHANGED passVars)

FairSpec == Spec /\ Fairness

\* A prompt exchange also answers whatever it is asked.
PromptSpec ==
    FairSpec /\ WF_vars((\E r \in requests : Serve(r)) /\ UNCHANGED passVars)

-----------------------------------------------------------------------------
(* Properties *)

\* Every variable of the position thread, the pool, the channels and the exchange
\* stays in its type, and nothing belongs to a call of limit() that is not made yet.
TypeOK ==
    /\ LimitTypeOK /\ CallsMade
    /\ at \in PassAt
    /\ position \in [long : Nat, short : Nat]
    /\ toOpen \in Int

\* With a prompt exchange the account's net position stays within the option
\* "contracts", although every order is sized from an earlier snapshot, may
\* trade in parts, may be rejected, and is cancelled by another thread.
NetWithinMax == Abs(Net(held)) <= MaxContracts

\* limit() "opens a limit that closes after some time": when its deadline has
\* passed and nobody is at work any more, the order is not in the book.
NoOrphanOrder == Rested => \A n \in Call : Past(n) => ~Unsettled(n)

\* The trade callback runs in the closure of the call whose order is answered,
\* although all calls share one trade_callback and one channel.
OwnAnswer == \A n \in Call : act[n].at # "none" => act[n].call = n

\* At any pace an answer that is late runs in the closure of a later call, never in
\* that of an earlier one; and until the first deadline has passed none is late: every
\* answer runs in the closure of its own call, however its messages are delayed, and
\* limit() returns true only when the callback for its own order is through.
OwnUntilTimeout ==
    /\ \A n \in Call : act[n].at # "none" => act[n].call >= n
    /\ expired = 0 => /\ \A n \in Call : act[n].at # "none" => act[n].call = n
                      /\ result => act[called].at \in {"erase", "ended"}

\* An activation ends its polling early only because its own order is filled
\* for the entire amount.
EarlyStopMeansFilled == \A n \in Call : act[n].stop => order[n].state = "full"

\* "given the limit enough time, cancel it": no order is cancelled before the
\* time it was given has passed.
CancelOnlyAfterDeadline ==
    \A r \in requests : r.kind = "cancel" => Past(r.order)

\* Whatever is late, lost or misattributed, the net position exceeds the maximum
\* by no more than what was unsettled when some pass fetched the position.
ExposureAccounted == Abs(Net(held)) <= MaxContracts + slack

\* The answer to an order that comes before the order's own deadline is never
\* dropped, although all orders share the one stored deadline of the channel.
TimelyTradeAnswerKept ==
    [][DropMessage /\ Head(inbox).kind = "trade" => Past(Head(inbox).order)]_vars

\* "the time that the channel message callback will be invalid and no longer
\* called": no callback runs on an answer after the deadline given with the order.
NoCallbackAfterTimeout ==
    [][OnTradeAnswer \/ OnInfoAnswer => ~Past(Head(inbox).order)]_vars

\* A pass always comes to its end: the position thread is never stuck in limit().
PassEnds == at # "idle" ~> at = "idle"

\* A pool thread that runs the trade callback is given back to the pool.
PoolThreadReleased == \A n \in Call : Running(n) ~> ~Running(n)

\* "if we've failed to close, discontinue": what a pass opens after closing, it
\* opens only after its closing order is filled.
DiscontinueAfterFailedClose ==
    [][at = "closing" /\ at' = "opening" => order[called].state = "full"]_vars

\* The call whose order is working, if any: with a prompt exchange the last one.
WorkingOrder ==
    IF called # 0 /\ Unsettled(called)
    THEN [type |-> order[called].type, left |-> Left(called)]
    ELSE [type |-> "OpenLong", left |-> 0]

\* With a prompt exchange all of this machinery implements the promise: one
\* working order at a time, sized by the position actually held.
Promise == INSTANCE PositionPromise
             WITH account <- held, working <- WorkingOrder,
                  next <- IF at = "closing" THEN toOpen ELSE 0

KeepsPromise == Promise!Spec

=============================================================================
