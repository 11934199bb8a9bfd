----------------------- MODULE ManagePositionsProofs -----------------------
(***************************************************************************)
(* For every number of calls, polls, pool threads, contracts and signals,  *)
(* and every pace of the program and the network: the position thread and  *)
(* all that moves its orders keep their types, and the answer to an order  *)
(* is not dropped before that order's deadline; and the net position is    *)
(* off by no more than what was unsettled when a pass fetched it.          *)
(*                                                                         *)
(* With a prompt exchange: every callback serves its own order, none is    *)
(* forgotten or cancelled early, and the position thread implements the    *)
(* promise of PositionPromise, whose net position stays within the maximum.*)
(***************************************************************************)
EXTENDS ManagePositions, LimitOrderProofs, SumTheorems

PromiseProofs == INSTANCE PositionPromiseProofs
             WITH account <- held, working <- WorkingOrder,
                  next <- IF at = "closing" THEN toOpen ELSE 0

USE CallsAssumption DEF LimitInv, Call

PassTypeOK == /\ at \in PassAt
              /\ position \in [long : Nat, short : Nat]
              /\ toOpen \in Int

IInv == LimitInv /\ PassTypeOK

-----------------------------------------------------------------------------
(* The plan *)

\* Rounding a part of the maximum towards zero gives a number of contracts.
LEMMA TruncatedType ==
    ASSUME NEW a \in Int, NEW b \in Nat \ {0}
    PROVE  Truncated(a, b) \in Int
  BY DEF Truncated

\* The signals of any number of strategies add up, and their sum is clamped.
LEMMA BlendedWithin ==
    ASSUME NEW s \in Signals
    PROVE  Blended(s) \in -SignalSteps .. SignalSteps
<1>1. DOMAIN s = Weight /\ \A w \in Weight : s[w] \in Int
  BY SignalAssumption DEF Signals
<1>2. TotalSignal(s) \in Int
  BY <1>1, WeightAssumption, SumIsInt DEF TotalSignal, SumFunction
<1> QED
  BY <1>2, SignalAssumption DEF Blended

\* Whatever the strategies signal asks for a number of contracts.
LEMMA DesiredType ==
    ASSUME NEW s \in Signals
    PROVE  Desired(Blended(s)) \subseteq Int
<1>1. Blended(s) \in Int
  BY BlendedWithin, SignalAssumption
<1>2. ASSUME NEW num \in Int
      PROVE  DesiredContracts(num, SignalSteps) \in Int
  <2>1. num * MaxContracts \in Int
    BY ContractsAssumption
  <2> QED
    BY <2>1, SignalAssumption, TruncatedType DEF DesiredContracts
<1>3. ASSUME NEW num \in Int, NEW e \in Exposure
      PROVE  DesiredOfExposure(num, SignalSteps, e) \in Int
  <2>1. num * e \in Int /\ SignalSteps * 100 \in Nat \ {0}
    BY ExposureAssumption, ContractsAssumption, SignalAssumption
  <2> QED
    BY <2>1, TruncatedType DEF DesiredOfExposure
<1> QED
  BY <1>1, <1>2, <1>3 DEF Desired

\* What is planned is a pair of signed amounts, ordered with types the exchange has.
LEMMA PlanTypes ==
    ASSUME NEW current \in Int, NEW desired \in Int
    PROVE  /\ ContractsToClose(current, desired) \in Int
           /\ ContractsToOpen(current, desired) \in Int
  BY DEF ContractsToClose, ContractsToOpen, Abs

\* A signed amount is ordered with a type and an amount that the exchange has.
LEMMA OrderTypes ==
    ASSUME NEW contracts \in Int
    PROVE  /\ ClosingType(contracts) \in OrderType /\ OpeningType(contracts) \in OrderType
           /\ Abs(contracts) \in Nat
  BY DEF ClosingType, OpeningType, OrderType, Abs

-----------------------------------------------------------------------------
\* The program starts with no order, no callback and no pass.
LEMMA InitInvariant == Init => IInv
<1> SUFFICES ASSUME Init
             PROVE  IInv
  OBVIOUS
<1>1. LimitInv
  BY LimitInitInvariant DEF Init
<1>2. PassTypeOK
  BY DEF Init, PassTypeOK, PassAt, NoPosition
<1> QED
  BY <1>1, <1>2 DEF IInv

\* A plan calls limit() with one of its two amounts and remembers the other.
LEMMA TradeInvariant ==
    ASSUME IInv, NEW desired \in Int, Trade(desired)
    PROVE  IInv'
<1> DEFINE current == Net(position)
           close   == ContractsToClose(current, desired)
           open    == ContractsToOpen(current, desired)
<1>1. current \in Int /\ desired \in Int
  BY DEF IInv, PassTypeOK, Net
<1>2. close \in Int /\ open \in Int
  <2> HIDE DEF current
  <2> QED
    BY <1>1, PlanTypes
<1>3. \/ /\ Limit(ClosingType(close), Abs(close))
         /\ at' = "closing" /\ toOpen' = open
      \/ /\ Limit(OpeningType(open), Abs(open))
         /\ at' = "opening" /\ toOpen' = 0
  BY DEF Trade
<1>4. LimitInv'
  <2> HIDE DEF close, open
  <2>1. CASE Limit(ClosingType(close), Abs(close))
    BY <1>2, <2>1, OrderTypes, LimitInvariant DEF IInv
  <2>2. CASE Limit(OpeningType(open), Abs(open))
    BY <1>2, <2>2, OrderTypes, LimitInvariant DEF IInv
  <2> QED
    BY <1>3, <2>1, <2>2
<1>5. PassTypeOK'
  <2>1. position' = NoPosition
    BY DEF Trade
  <2> HIDE DEF close, open
  <2> QED
    BY <1>2, <1>3, <2>1 DEF PassTypeOK, PassAt, NoPosition
<1> QED
  BY <1>4, <1>5 DEF IInv

\* Every step of the position thread and of its surroundings keeps the types.
LEMMA StepInvariant == IInv /\ [Next]_vars => IInv'
<1> SUFFICES ASSUME IInv, [Next]_vars
             PROVE  IInv'
  OBVIOUS
<1>1. CASE FetchPosition
  <2>1. LimitInv'
    BY <1>1, LimitStutters DEF FetchPosition, IInv
  <2>2. PassTypeOK'
    <3>1. held \in [long : Nat, short : Nat]
      BY DEF IInv, LimitInv, LimitTypeOK
    <3> QED
      BY <1>1, <3>1 DEF FetchPosition, IInv, PassTypeOK, PassAt
  <2> QED
    BY <2>1, <2>2 DEF IInv
<1>2. CASE GiveUp
  <2>1. LimitInv'
    BY <1>2, LimitStutters DEF GiveUp, IInv
  <2>2. PassTypeOK'
    BY <1>2 DEF GiveUp, IInv, PassTypeOK, PassAt, NoPosition
  <2> QED
    BY <2>1, <2>2 DEF IInv
<1>3. ASSUME NEW s \in Signals, NEW desired \in Desired(Blended(s)), Trade(desired)
      PROVE  IInv'
  BY <1>3, DesiredType, TradeInvariant
<1>4. CASE CloseReturned
  <2>1. LimitInv'
    <3>1. toOpen \in Int
      BY DEF IInv, PassTypeOK
    <3>2. CASE Limit(OpeningType(toOpen), Abs(toOpen))
      BY <3>1, <3>2, OrderTypes, LimitInvariant DEF IInv
    <3>3. CASE UNCHANGED limitVars
      BY <3>3, LimitStutters DEF IInv
    <3> QED
      BY <1>4, <3>2, <3>3 DEF CloseReturned
  <2>2. PassTypeOK'
    BY <1>4 DEF CloseReturned, IInv, PassTypeOK, PassAt
  <2> QED
    BY <2>1, <2>2 DEF IInv
<1>5. CASE OpenReturned
  <2>1. LimitInv'
    BY <1>5, LimitStutters DEF OpenReturned, IInv
  <2>2. PassTypeOK'
    BY <1>5 DEF OpenReturned, IInv, PassTypeOK, PassAt
  <2> QED
    BY <2>1, <2>2 DEF IInv
<1>6. CASE LimitReturns /\ UNCHANGED passVars
  BY <1>6, ReturnInvariant DEF IInv, PassTypeOK, passVars
<1>7. CASE Surroundings /\ UNCHANGED passVars
  BY <1>7, SurroundingsInvariant DEF IInv, PassTypeOK, passVars
<1>8. CASE UNCHANGED vars
  BY <1>8, LimitStutters DEF IInv, PassTypeOK, vars, passVars
<1> QED
  BY <1>1, <1>2, <1>3, <1>4, <1>5, <1>6, <1>7, <1>8 DEF Next, Pass

-----------------------------------------------------------------------------
(* Any pace *)

\* Every answer has its place with respect to the calls, whatever a pass does.
LEMMA AnswersStep == IInv /\ AnswerInv /\ [Next]_vars => AnswerInv'
<1> SUFFICES ASSUME IInv, AnswerInv, [Next]_vars
             PROVE  AnswerInv'
  OBVIOUS
<1>1. LimitInv
  BY DEF IInv
<1>2. CASE UNCHANGED limitVars
  BY <1>2, AnswerStutters
<1>3. ASSUME NEW s \in Signals, NEW desired \in Desired(Blended(s)), Trade(desired)
      PROVE  AnswerInv'
  <2>1. desired \in Int /\ Net(position) \in Int
    BY DesiredType DEF IInv, PassTypeOK, Net
  <2> DEFINE close == ContractsToClose(Net(position), desired)
             open  == ContractsToOpen(Net(position), desired)
  <2>2. close \in Int /\ open \in Int
    BY <2>1, PlanTypes
  <2>3. \/ Limit(ClosingType(close), Abs(close))
        \/ Limit(OpeningType(open), Abs(open))
    BY <1>3 DEF Trade
  <2> HIDE DEF close, open
  <2> QED
    BY <1>1, <2>2, <2>3, OrderTypes, LimitAnswerInv
<1>4. CASE CloseReturned
  <2>1. toOpen \in Int
    BY DEF IInv, PassTypeOK
  <2> QED
    BY <1>1, <1>2, <1>4, <2>1, OrderTypes, LimitAnswerInv DEF CloseReturned
<1>5. CASE LimitReturns
  BY <1>1, <1>5, ReturnAnswerInv
<1>6. CASE Surroundings
  BY <1>1, <1>6, SurroundingsAnswerInv
<1> QED
  BY <1>2, <1>3, <1>4, <1>5, <1>6
     DEF Next, Pass, FetchPosition, GiveUp, OpenReturned, vars

LEMMA AnswersAlways == Spec => [](IInv /\ AnswerInv)
<1>1. Init => IInv /\ AnswerInv
  BY InitInvariant, InitAnswerInv DEF Init
<1> QED
  BY <1>1, StepInvariant, AnswersStep, PTL DEF Spec

\* The position thread, the pool, the channels and the exchange stay in their types,
\* and no frame, closure, deadline, order or message is of a call not yet made.
THEOREM TypeCorrect == Spec => []TypeOK
<1>1. IInv /\ AnswerInv => TypeOK
  BY NothingUncalled DEF IInv, TypeOK, PassTypeOK
<1> QED
  BY AnswersAlways, <1>1, PTL

\* At any pace a late answer runs in the closure of a later call only; and until a
\* deadline has passed each runs in its own, and limit() returns true only for it.
THEOREM OwnAnswersUntilTimeout == Spec => []OwnUntilTimeout
<1>1. IInv /\ AnswerInv => OwnUntilTimeout
  <2> SUFFICES ASSUME IInv, AnswerInv
               PROVE  OwnUntilTimeout
    OBVIOUS
  <2>1. called \in 0 .. MaxCalls
    BY DEF IInv, LimitTypeOK
  <2>2. \A n \in Call : act[n].at # "none" => act[n].call >= n
    BY <2>1 DEF AnswerInv, ClosureForward
  <2>3. ASSUME expired = 0
        PROVE  /\ \A n \in Call : act[n].at # "none" => act[n].call = n
               /\ result => act[called].at \in {"erase", "ended"}
    BY <2>1, <2>3 DEF AnswerInv, NoneLate, Through
  <2> QED
    BY <2>2, <2>3 DEF OwnUntilTimeout
<1> QED
  BY AnswersAlways, <1>1, PTL

\* The one deadline that the trade channel stores for all orders never makes
\* on_message() drop the answer to an order whose own deadline has not passed,
\* whichever handler erased or replaced it before.
THEOREM TimelyTradeAnswers == Spec => TimelyTradeAnswerKept
<1>1. IInv /\ DropMessage /\ Head(inbox).kind = "trade" => Past(Head(inbox).order)
  <2> SUFFICES ASSUME IInv, DropMessage, Head(inbox).kind = "trade"
               PROVE  Past(Head(inbox).order)
    OBVIOUS
  <2>1. called \in Nat /\ expired \in Nat /\ inbox \in Seq(Message) /\ inbox # <<>>
    BY CallsAssumption DEF IInv, LimitInv, LimitTypeOK, Message, DropMessage
  <2>2. timeout["trade"] = called /\ called <= expired
    BY DEF DropMessage, WillCallback, Past, IInv, LimitInv, LastDeadline
  <2>3. Head(inbox).order \in 1 .. called
    BY <2>1, TailMessages DEF IInv, LimitInv, AnswersSent
  <2> QED
    BY <2>1, <2>2, <2>3 DEF Past
<1>2. IInv /\ [Next]_vars =>
        [DropMessage /\ Head(inbox).kind = "trade" => Past(Head(inbox).order)]_vars
  BY <1>1
<1> QED
  BY InitInvariant, StepInvariant, <1>2, PTL DEF Spec, TimelyTradeAnswerKept

-----------------------------------------------------------------------------
(* A prompt exchange: the inductive invariant *)

\* The pause between two passes is long enough for all work on the last order.
LEMMA RestAfterPause ==
    ASSUME PromptInv, Rested
    PROVE  AtRest
<1>1. requests = {} /\ Len(inbox) = 0
  BY DEF Rested
<1>2. ASSUME called # 0
      PROVE  Over(called)
  <2>1. Phase(called) /\ called \in Call
    BY <1>2, InFlight DEF PromptInv, OneAtATime
  <2>2. act[called].at \in {"none", "ended"}
    BY <2>1 DEF Rested, Running
  <2>3. ~Placing(called)
    BY <1>1 DEF Placing
  <2>4. ~Answered(called)
    BY <1>1 DEF Answered
  <2> QED
    BY <2>1, <2>2, <2>3, <2>4 DEF Phase, Begun, Asked, Told, Waits, AtWork
<1> QED
  BY <1>1, <1>2 DEF AtRest, Over

\* The position thread runs between calls, and what it plans from is still true.
PassInTime ==
    /\ at \in {"idle", "account"} => frame = 0
    /\ at = "account" => position = held /\ AtRest

PromptIInv == IInv /\ PromptInv /\ PassInTime

\* At the start there is no order, and no pass.
LEMMA PromptInit == Init => PromptIInv
<1> SUFFICES ASSUME Init
             PROVE  PromptIInv
  OBVIOUS
<1>1. IInv
  BY InitInvariant
<1>2. OneAtATime
  BY DEF Init, LimitInit, OneAtATime, Quiet
<1>3. Own /\ NoneOverfilled
  BY DEF Init, LimitInit, Own, NoneOverfilled, NoActivation, NoOrder, Unsettled
<1>4. PassInTime
  BY DEF Init, LimitInit, PassInTime
<1> QED
  BY <1>1, <1>2, <1>3, <1>4 DEF PromptIInv, PromptInv, IInv

\* A call is made only at rest, so the last order is the only one.
LEMMA PromptTrade ==
    ASSUME PromptIInv, NEW desired \in Int, Trade(desired)
    PROVE  PromptInv'
<1> DEFINE current == Net(position)
           close   == ContractsToClose(current, desired)
           open    == ContractsToOpen(current, desired)
<1>1. current \in Int /\ AtRest /\ PromptInv
  BY DEF PromptIInv, IInv, PassTypeOK, Net, PassInTime, Trade
<1>2. close \in Int /\ open \in Int
  <2> HIDE DEF current
  <2> QED
    BY <1>1, PlanTypes
<1>3. \/ close # 0 /\ Limit(ClosingType(close), Abs(close))
      \/ open # 0 /\ Limit(OpeningType(open), Abs(open))
  BY DEF Trade
<1> HIDE DEF close, open
<1>4. ASSUME NEW x \in Int, x # 0
      PROVE  /\ Abs(x) \in Nat \ {0}
             /\ ClosingType(x) \in OrderType /\ OpeningType(x) \in OrderType
  BY <1>4 DEF Abs, ClosingType, OpeningType, OrderType
<1> QED
  BY <1>1, <1>2, <1>3, <1>4, LimitAdvances

\* What is opened after a close is ordered at rest: limit() returned true, so that
\* the close is settled and its callback done with it.
LEMMA PromptCloseReturned ==
    ASSUME PromptIInv, CloseReturned
    PROVE  PromptInv' /\ (result /\ toOpen # 0 => AtRest)
<1>1. PromptInv /\ frame = 0 /\ toOpen \in Int
  BY DEF PromptIInv, IInv, PassTypeOK, CloseReturned
<1>2. CASE result /\ toOpen # 0
  <2>1. AtRest
    BY <1>1, <1>2, RestAfterSuccess
  <2>2. Limit(OpeningType(toOpen), Abs(toOpen))
    BY <1>2 DEF CloseReturned
  <2>3. Abs(toOpen) \in Nat \ {0} /\ OpeningType(toOpen) \in OrderType
    BY <1>1, <1>2 DEF Abs, OpeningType, OrderType
  <2> QED
    BY <1>1, <2>1, <2>2, <2>3, LimitAdvances
<1>3. CASE ~(result /\ toOpen # 0)
  BY <1>1, <1>3, PromptStutters DEF CloseReturned
<1> QED
  BY <1>2, <1>3

\* Every step of the position thread and of its surroundings keeps the invariant.
LEMMA PromptStep ==
    ASSUME PromptExchange, PromptIInv, [Next]_vars
    PROVE  PromptIInv'
<1>1. IInv'
  BY StepInvariant DEF PromptIInv
<1>2. PromptInv /\ PassInTime
  BY DEF PromptIInv
<1>3. CASE FetchPosition
  <2>1. PromptInv'
    BY <1>2, <1>3, PromptStutters DEF FetchPosition
  <2>2. AtRest
    BY <1>2, <1>3, RestAfterPause DEF FetchPosition, PauseIsOver, PromptExchange
  <2>3. AtRest'
    BY <1>3, <2>2 DEF FetchPosition, limitVars, AtRest, Over, Settled, Past
  <2>4. PassInTime'
    BY <1>2, <1>3, <2>3 DEF FetchPosition, PassInTime, limitVars
  <2> QED
    BY <1>1, <2>1, <2>4 DEF PromptIInv
<1>4. CASE GiveUp
  <2>1. PromptInv'
    BY <1>2, <1>4, PromptStutters DEF GiveUp
  <2>2. PassInTime'
    BY <1>2, <1>4 DEF GiveUp, PassInTime, limitVars
  <2> QED
    BY <1>1, <2>1, <2>2 DEF PromptIInv
<1>5. ASSUME NEW s \in Signals, NEW desired \in Desired(Blended(s)), Trade(desired)
      PROVE  PromptIInv'
  <2>1. PromptInv'
    BY <1>5, DesiredType, PromptTrade
  <2>2. PassInTime'
    BY <1>5 DEF Trade, PassInTime
  <2> QED
    BY <1>1, <2>1, <2>2 DEF PromptIInv
<1>6. CASE CloseReturned
  <2>1. PromptInv'
    BY <1>6, PromptCloseReturned
  <2>2. PassInTime'
    BY <1>6 DEF CloseReturned, PassInTime, limitVars
  <2> QED
    BY <1>1, <2>1, <2>2 DEF PromptIInv
<1>7. CASE OpenReturned
  <2>1. PromptInv'
    BY <1>2, <1>7, PromptStutters DEF OpenReturned
  <2>2. PassInTime'
    BY <1>7 DEF OpenReturned, PassInTime, limitVars
  <2> QED
    BY <1>1, <2>1, <2>2 DEF PromptIInv
<1>8. CASE LimitReturns /\ UNCHANGED passVars
  <2>1. PromptInv' /\ frame' = 0 /\ frame # 0
    BY <1>2, <1>8, ReturnAdvances
       DEF LimitReturns, LimitReturnsTrue, LimitReturnsFalse
  <2>2. PassInTime'
    BY <1>2, <1>8, <2>1 DEF PassInTime, passVars
  <2> QED
    BY <1>1, <2>1, <2>2 DEF PromptIInv
<1>9. CASE Surroundings /\ UNCHANGED passVars
  <2>1. PromptInv'
    BY <1>2, <1>9, SurroundingsAdvance
  <2>2. AtRest /\ frame = 0 => AtRest' /\ held' = held
    BY <1>2, <1>9, RestRemains
  <2>3. PassInTime'
    BY <1>2, <1>9, <2>2, FrameStays DEF PassInTime, passVars
  <2> QED
    BY <1>1, <2>1, <2>3 DEF PromptIInv
<1>10. CASE UNCHANGED vars
  <2>1. PromptInv'
    BY <1>2, <1>10, PromptStutters DEF vars
  <2>2. PassInTime'
    BY <1>2, <1>10
       DEF vars, passVars, limitVars, PassInTime, AtRest, Over, Settled, Past
  <2> QED
    BY <1>1, <2>1, <2>2 DEF PromptIInv
<1> QED
  BY <1>3, <1>4, <1>5, <1>6, <1>7, <1>8, <1>9, <1>10 DEF Next, Pass

\* So it always holds with a prompt exchange.
LEMMA PromptInvariant == PromptExchange => (Spec => []PromptIInv)
<1>1. PromptExchange /\ PromptIInv /\ [Next]_vars => PromptIInv'
  BY PromptStep
<1> SUFFICES ASSUME PromptExchange PROVE Spec => []PromptIInv
  OBVIOUS
<1>2. PromptIInv /\ [Next]_vars => PromptIInv'
  BY <1>1
<1> QED
  BY <1>2, PromptInit, PTL DEF Spec

\* With a prompt exchange every run of the one shared trade_callback is for the
\* order of the call that installed it.
THEOREM OwnAnswers ==
    ASSUME PromptExchange
    PROVE  Spec => []OwnAnswer
<1>1. PromptIInv => OwnAnswer
  BY DEF PromptIInv, PromptInv, Own, OwnAnswer
<1> QED
  BY PromptInvariant, <1>1, PTL

\* With a prompt exchange the polling for an order ends early only because that
\* order is filled for the entire amount.
THEOREM StopsWhenFilled ==
    ASSUME PromptExchange
    PROVE  Spec => []EarlyStopMeansFilled
<1>1. PromptIInv => EarlyStopMeansFilled
  <2> SUFFICES ASSUME PromptIInv, NEW n \in Call, act[n].stop
               PROVE  order[n].state = "full"
    BY DEF EarlyStopMeansFilled
  <2>1. PromptInv
    BY DEF PromptIInv
  <2>2. n = called
    BY <2>1 DEF PromptInv, OneAtATime, LimitTypeOK, NoActivation
  <2>3. Phase(n)
    BY <2>1, <2>2 DEF PromptInv, OneAtATime
  <2> QED
    BY <2>3 DEF Phase, Placing, Answered, Begun, Asked, Told, Waits, Over, AtWork,
                NoActivation
<1> QED
  BY PromptInvariant, <1>1, PTL

\* With a prompt exchange no order is cancelled before the time it was given has
\* passed.
THEOREM CancelsInTime ==
    ASSUME PromptExchange
    PROVE  Spec => []CancelOnlyAfterDeadline
<1>1. PromptIInv => CancelOnlyAfterDeadline
  <2> SUFFICES ASSUME PromptIInv, NEW r \in requests, r.kind = "cancel"
               PROVE  Past(r.order)
    BY DEF CancelOnlyAfterDeadline
  <2>1. r.order = called /\ Over(called)
    BY InFlight DEF PromptIInv
  <2> QED
    BY <2>1 DEF Over
<1> QED
  BY PromptInvariant, <1>1, PTL

\* With a prompt exchange no order is left in the book when its deadline has passed
\* and nobody is at work for it any more.
THEOREM NoOrphans ==
    ASSUME PromptExchange
    PROVE  Spec => []NoOrphanOrder
<1>1. PromptIInv => NoOrphanOrder
  <2> SUFFICES ASSUME PromptIInv, Rested, NEW n \in Call, Unsettled(n)
               PROVE  ~Past(n)
    BY DEF NoOrphanOrder
  <2>1. PromptInv /\ AtRest
    BY RestAfterPause DEF PromptIInv
  <2>2. ~Settled(n) /\ called \in Nat
    BY DEF Settled, Unsettled, PromptIInv, PromptInv, LimitTypeOK
  <2>3. ~(n < called) /\ n # called
    BY <2>1, <2>2 DEF PromptInv, OneAtATime, AtRest
  <2>4. n > called
    BY <2>2, <2>3
  <2> QED
    BY <2>1, <2>4 DEF PromptInv, OrdersKnown, Unsettled
<1> QED
  BY PromptInvariant, <1>1, PTL

\* With a prompt exchange no callback runs on an answer whose time has passed, though
\* the stored time that should prevent it is erased by every answer: no answer is late.
THEOREM NoLateCallbacks ==
    ASSUME PromptExchange
    PROVE  Spec => NoCallbackAfterTimeout
<1>1. PromptIInv /\ (OnTradeAnswer \/ OnInfoAnswer) => ~Past(Head(inbox).order)
  <2> SUFFICES ASSUME PromptInv, OnTradeAnswer \/ OnInfoAnswer
               PROVE  ~Past(Head(inbox).order)
    BY DEF PromptIInv
  <2>1. Answered(called) \/ Told(called)
    BY InFlight DEF OnTradeAnswer, OnInfoAnswer
  <2> QED
    BY <2>1 DEF Answered, Told, InTime
<1>2. PromptIInv /\ [Next]_vars =>
        [OnTradeAnswer \/ OnInfoAnswer => ~Past(Head(inbox).order)]_vars
  BY <1>1
<1> QED
  BY PromptInvariant, <1>2, PTL DEF Spec, NoCallbackAfterTimeout

-----------------------------------------------------------------------------
(* A prompt exchange: the promise is kept *)

\* Whatever the strategies signal asks for no more than the maximum.
LEMMA DesiredWithin ==
    ASSUME NEW s \in Signals
    PROVE  Desired(Blended(s)) \subseteq -MaxContracts .. MaxContracts
<1>1. Blended(s) \in -SignalSteps .. SignalSteps
  BY BlendedWithin
<1>2. ASSUME NEW num \in -SignalSteps .. SignalSteps
      PROVE  /\ DesiredContracts(num, SignalSteps) \in -MaxContracts .. MaxContracts
             /\ \A e \in 0 .. 100 * MaxContracts :
                  DesiredOfExposure(num, SignalSteps, e) \in -MaxContracts .. MaxContracts
  BY SignalAssumption, ContractsAssumption, PromiseProofs!DesiredWithinMax
     DEF PromiseProofs!DesiredContracts, PromiseProofs!DesiredOfExposure,
         PromiseProofs!Truncated, DesiredContracts, DesiredOfExposure, Truncated
<1> QED
  BY <1>1, <1>2, ExposureAssumption DEF Desired

\* At rest no order is working.
LEMMA NothingAtRest ==
    ASSUME PromptInv, AtRest
    PROVE  WorkingOrder = Promise!Nothing
  BY DEF AtRest, Settled, WorkingOrder, Unsettled, Promise!Nothing

\* A call of limit() makes its order the working one.
LEMMA LimitWorks ==
    ASSUME PromptInv, NEW type \in OrderType, NEW amount \in Nat \ {0}, Limit(type, amount)
    PROVE  WorkingOrder' = Promise!Working(type, amount) /\ held' = held
<1> DEFINE n == called + 1
<1>1. /\ called' = n /\ n \in Call /\ n # 0 /\ held' = held
      /\ order'[n] = [state |-> "sent", type |-> type, amount |-> amount, filled |-> 0]
  BY DEF Limit, PromptInv, LimitTypeOK
<1> QED
  BY <1>1 DEF WorkingOrder, Unsettled, Left, Promise!Working

\* A pass that starts an order plans: from the account as it is now, which has not
\* changed since the position was fetched.
LEMMA TradeKeepsPromise ==
    ASSUME PromptIInv, NEW desired \in -MaxContracts .. MaxContracts, Trade(desired)
    PROVE  Promise!Plan(desired)
<1> DEFINE current == Net(position)
           close   == ContractsToClose(current, desired)
           open    == ContractsToOpen(current, desired)
<1>1. /\ current \in Int /\ desired \in Int /\ PromptInv
      /\ AtRest /\ at = "account" /\ current = Promise!NetOf(held)
  BY ContractsAssumption
     DEF PromptIInv, IInv, PassTypeOK, Net, Promise!NetOf, PassInTime, Trade
<1>2. close \in Int /\ open \in Int
  <2> HIDE DEF current
  <2> QED
    BY <1>1, PlanTypes
<1>3. /\ close = Promise!ContractsToClose(Promise!NetOf(held), desired)
      /\ open = Promise!ContractsToOpen(Promise!NetOf(held), desired)
  BY <1>1 DEF ContractsToClose, ContractsToOpen, Reverses, Abs,
       Promise!ContractsToClose, Promise!ContractsToOpen, Promise!Reverses, Promise!Abs
<1>4. \/ /\ close # 0 /\ Limit(ClosingType(close), Abs(close))
         /\ at' = "closing" /\ toOpen' = open
      \/ /\ close = 0 /\ open # 0 /\ Limit(OpeningType(open), Abs(open))
         /\ at' = "opening" /\ toOpen' = 0
  BY DEF Trade
<1>5. WorkingOrder = Promise!Nothing
  BY <1>1, NothingAtRest
<1> HIDE DEF current, close, open
<1>6. ASSUME NEW x \in Int
      PROVE  /\ Abs(x) = Promise!Abs(x) /\ ClosingType(x) = Promise!ClosingType(x)
             /\ OpeningType(x) = Promise!OpeningType(x)
             /\ ClosingType(x) \in OrderType /\ OpeningType(x) \in OrderType
             /\ x # 0 => Abs(x) \in Nat \ {0}
  BY DEF Abs, ClosingType, OpeningType, OrderType,
         Promise!Abs, Promise!ClosingType, Promise!OpeningType
<1>7. CASE close # 0
  <2>1. /\ Limit(ClosingType(close), Abs(close)) /\ at' = "closing" /\ toOpen' = open
    BY <1>4, <1>7
  <2>2. WorkingOrder' = Promise!Working(ClosingType(close), Abs(close)) /\ held' = held
    BY <1>1, <1>2, <1>6, <1>7, <2>1, LimitWorks
  <2> QED
    BY <1>1, <1>2, <1>3, <1>5, <1>6, <1>7, <2>1, <2>2 DEF Promise!Plan
<1>8. CASE close = 0
  <2>1. /\ Limit(OpeningType(open), Abs(open)) /\ at' = "opening" /\ open # 0
    BY <1>4, <1>8
  <2>2. WorkingOrder' = Promise!Working(OpeningType(open), Abs(open)) /\ held' = held
    BY <1>1, <1>2, <1>6, <1>8, <2>1, LimitWorks
  <2> QED
    BY <1>1, <1>2, <1>3, <1>5, <1>6, <1>8, <2>1, <2>2 DEF Promise!Plan
<1> QED
  BY <1>7, <1>8

\* After its close a pass opens what it planned, when the close is filled, and
\* abandons it otherwise.
LEMMA CloseReturnedKeepsPromise ==
    ASSUME PromptIInv, CloseReturned
    PROVE  Promise!OpenNext \/ Promise!Abandon \/ UNCHANGED Promise!promiseVars
<1>1. PromptInv /\ frame = 0 /\ toOpen \in Int /\ at = "closing"
  BY DEF PromptIInv, IInv, PassTypeOK, CloseReturned
<1>2. CASE result /\ toOpen # 0
  <2>1. WorkingOrder = Promise!Nothing
    BY <1>1, <1>2, RestAfterSuccess, NothingAtRest
  <2>2. Limit(OpeningType(toOpen), Abs(toOpen)) /\ at' = "opening"
    BY <1>2 DEF CloseReturned
  <2>3. Abs(toOpen) \in Nat \ {0} /\ OpeningType(toOpen) \in OrderType
        /\ Abs(toOpen) = Promise!Abs(toOpen)
        /\ OpeningType(toOpen) = Promise!OpeningType(toOpen)
    BY <1>1, <1>2 DEF Abs, OpeningType, OrderType, Promise!Abs, Promise!OpeningType
  <2>4. WorkingOrder' = Promise!Working(OpeningType(toOpen), Abs(toOpen)) /\ held' = held
    BY <1>1, <2>2, <2>3, LimitWorks
  <2>5. Promise!OpenNext
    BY <1>1, <1>2, <2>1, <2>2, <2>3, <2>4 DEF Promise!OpenNext
  <2> QED
    BY <2>5
<1>3. CASE ~(result /\ toOpen # 0)
  <2>1. UNCHANGED limitVars /\ at' = "idle"
    BY <1>3 DEF CloseReturned
  <2>2. WorkingOrder' = WorkingOrder /\ held' = held
    BY <2>1 DEF limitVars, WorkingOrder, Unsettled, Left
  <2> QED
    BY <1>1, <2>1, <2>2 DEF Promise!Abandon, Promise!promiseVars
<1> QED
  BY <1>2, <1>3

\* What trades, trades under the working order.
LEMMA FillKeepsPromise ==
    ASSUME PromptIInv, NEW n \in Call, NEW k \in 1 .. Left(n), Fill(n, k), UNCHANGED passVars
    PROVE  k \in 1 .. WorkingOrder.left /\ Promise!Fill(k)
<1>1. PromptInv
  BY DEF PromptIInv
<1>2. /\ n = called /\ n # 0 /\ Unsettled(n)
      /\ order'[n].type = order[n].type /\ order'[n].amount = order[n].amount
      /\ order'[n].filled = order[n].filled + k
      /\ order'[n].state = IF k = Left(n) THEN "full" ELSE "open"
      /\ called' = called
      /\ held' = Traded(held, order[n].type, k)
      /\ at' = at /\ toOpen' = toOpen
  <2>1. /\ n = called /\ Unsettled(n)
        /\ order'[n].type = order[n].type /\ order'[n].amount = order[n].amount
        /\ order'[n].filled = order[n].filled + k
        /\ order'[n].state = IF k = Left(n) THEN "full" ELSE "open"
    BY <1>1, FillAdvances
  <2>2. called' = called /\ held' = Traded(held, order[n].type, k)
        /\ at' = at /\ toOpen' = toOpen
    BY DEF Fill, posVars, passVars
  <2> QED
    BY <2>1, <2>2
<1>3. /\ order[n].type \in OrderType
      /\ order[n].amount \in Nat /\ order[n].filled \in Nat
      /\ held \in [long : Nat, short : Nat]
  BY <1>1 DEF PromptInv, LimitTypeOK, Order
<1>4. WorkingOrder = [type |-> order[n].type, left |-> Left(n)]
  BY <1>2 DEF WorkingOrder
<1>5. held' = Promise!After(held, order[n].type, k)
  BY SMTT(30), <1>2, <1>3 DEF Traded, Promise!After, OrderType
<1>6. WorkingOrder' = Promise!Working(order[n].type, Left(n) - k)
  BY <1>2, <1>3 DEF WorkingOrder, Promise!Working, Promise!Nothing, Left, Unsettled
<1>7. k \in Int /\ k <= Left(n)
  BY <1>2, <1>3 DEF Left
<1> QED
  BY <1>2, <1>4, <1>5, <1>6, <1>7 DEF Promise!Fill

\* A rejected or cancelled order is dropped; other answers change nothing.
LEMMA ServeKeepsPromise ==
    ASSUME PromptIInv, NEW r \in requests, Serve(r), UNCHANGED passVars
    PROVE  Promise!Drop \/ UNCHANGED Promise!promiseVars
<1> DEFINE n == r.order
<1>1. /\ PromptInv /\ n = called /\ n \in Call /\ n # 0
      /\ order[n] \in Order /\ order \in [Call -> Order]
  BY InFlight DEF PromptIInv, PromptInv, LimitTypeOK
<1>2. called' = called /\ held' = held /\ at' = at /\ toOpen' = toOpen
  BY DEF Serve, Accept, Reject, AnswerInfo, Cancel, posVars, exchVars, passVars
<1>3. \/ order'[n] = order[n]
      \/ /\ order'[n].type = order[n].type /\ order'[n].amount = order[n].amount
         /\ order'[n].filled = order[n].filled
         /\ \/ Unsettled(n) /\ Unsettled(n)'
            \/ Unsettled(n) /\ ~Unsettled(n)'
  <2>1. CASE Accept(r)
    <3>1. order[n].state = "sent"
      BY <1>1, <2>1, InFlight DEF Accept, Placing
    <3> QED
      BY <1>1, <2>1, <3>1 DEF Accept, Order, Unsettled
  <2>2. CASE Reject(r)
    <3>1. order[n].state = "sent"
      BY <1>1, <2>2, InFlight DEF Reject, Placing
    <3> QED
      BY <1>1, <2>2, <3>1 DEF Reject, Order, Unsettled
  <2>3. CASE AnswerInfo(r)
    BY <2>3 DEF AnswerInfo, exchVars
  <2>4. CASE Cancel(r)
    BY <1>1, <2>4 DEF Cancel, Order, Unsettled
  <2> QED
    BY <2>1, <2>2, <2>3, <2>4 DEF Serve
<1>4. Unsettled(n) => Left(n) # 0
  BY <1>1 DEF PromptInv, NoneOverfilled, Left, Order
<1>5. CASE Unsettled(n) /\ ~Unsettled(n)'
  <2>1. WorkingOrder # Promise!Nothing
    BY <1>1, <1>4, <1>5 DEF WorkingOrder, Promise!Nothing
  <2>2. WorkingOrder' = Promise!Nothing
    BY <1>1, <1>2, <1>5 DEF WorkingOrder, Promise!Nothing
  <2>3. Promise!Drop
    BY <1>2, <2>1, <2>2 DEF Promise!Drop
  <2> QED
    BY <2>3
<1>6. CASE ~(Unsettled(n) /\ ~Unsettled(n)')
  <2>1. WorkingOrder' = WorkingOrder
    BY <1>1, <1>2, <1>3, <1>6 DEF WorkingOrder, Left, Unsettled
  <2> QED
    BY <1>2, <2>1 DEF Promise!promiseVars
<1> QED
  BY <1>5, <1>6

\* Every step of the machinery is a step of the promise, or changes nothing of it.
LEMMA StepKeepsPromise ==
    ASSUME PromptExchange, PromptIInv, [Next]_vars
    PROVE  [Promise!Next]_(Promise!promiseVars)
<1>1. ASSUME UNCHANGED <<called, order, held>>, UNCHANGED toOpen,
             at' = "closing" <=> at = "closing"
      PROVE  UNCHANGED Promise!promiseVars
  BY <1>1 DEF Promise!promiseVars, WorkingOrder, Unsettled, Left
<1>2. CASE FetchPosition \/ GiveUp \/ OpenReturned
  BY <1>1, <1>2 DEF FetchPosition, GiveUp, OpenReturned, limitVars
<1>3. ASSUME NEW s \in Signals, NEW desired \in Desired(Blended(s)), Trade(desired)
      PROVE  Promise!Next
  <2>1. desired \in -MaxContracts .. MaxContracts
    BY DesiredWithin
  <2> QED
    BY <1>3, <2>1, TradeKeepsPromise DEF Promise!Next
<1>4. CASE CloseReturned
  BY <1>4, CloseReturnedKeepsPromise DEF Promise!Next
<1>5. CASE LimitReturns /\ UNCHANGED passVars
  BY <1>1, <1>5 DEF LimitReturns, LimitReturnsTrue, LimitReturnsFalse, Return, passVars
<1>6. CASE Surroundings /\ UNCHANGED passVars
  <2>1. CASE OnMessage
    BY <1>1, <1>6, <2>1
       DEF OnMessage, DropMessage, OnTradeAnswer, OnInfoAnswer, posVars, exchVars, passVars
  <2>2. ASSUME NEW n \in Call, Callback(n)
        PROVE  UNCHANGED Promise!promiseVars
    BY <1>1, <1>6, <2>2
       DEF Callback, Poll, LeaveLoop, LeaveAnd, EraseTrade, posVars, exchVars, passVars
  <2>3. ASSUME NEW r \in requests, Serve(r)
        PROVE  [Promise!Next]_(Promise!promiseVars)
    BY <1>6, <2>3, ServeKeepsPromise DEF Promise!Next
  <2>4. ASSUME NEW n \in Call, NEW k \in 1 .. Left(n), Fill(n, k)
        PROVE  Promise!Next
    BY <1>6, <2>4, FillKeepsPromise DEF Promise!Next
  <2>5. CASE DeadlinePasses
    BY <1>1, <1>6, <2>5 DEF DeadlinePasses, posVars, exchVars, passVars
  <2> QED
    BY <1>6, <2>1, <2>2, <2>3, <2>4, <2>5 DEF Surroundings
<1>7. CASE UNCHANGED vars
  BY <1>1, <1>7 DEF vars, limitVars, passVars
<1> QED
  BY <1>2, <1>3, <1>4, <1>5, <1>6, <1>7 DEF Next, Pass

\* The initial states are those of the promise.
LEMMA InitKeepsPromise == Init => Promise!Init
  BY DEF Init, LimitInit, Promise!Init, Promise!Nothing, WorkingOrder

\* With a prompt exchange the position thread, the pool, the channels and their
\* callbacks implement the promise: one working order at a time, sized by the
\* position that is held, and an open only after its close is gone.
THEOREM PromiseKept ==
    ASSUME PromptExchange
    PROVE  Spec => KeepsPromise
<1>1. PromptIInv /\ [Next]_vars => [Promise!Next]_(Promise!promiseVars)
  BY StepKeepsPromise
<1> QED
  BY PromptInvariant, InitKeepsPromise, <1>1, PTL DEF Spec, KeepsPromise, Promise!Spec

\* With a prompt exchange the net position stays within the option "contracts",
\* because the promise keeps it there, whatever is signalled, rejected, filled in
\* part or cancelled.
THEOREM StaysWithinMax ==
    ASSUME PromptExchange
    PROVE  Spec => []NetWithinMax
<1>1. /\ Promise!Init => PromiseProofs!Init
      /\ [Promise!Next]_(Promise!promiseVars) => [PromiseProofs!Next]_(PromiseProofs!promiseVars)
  BY DEF Promise!Init, Promise!Next, Promise!Plan, Promise!Fill, Promise!Drop,
         Promise!OpenNext, Promise!Abandon, Promise!Working, Promise!Nothing,
         Promise!After, Promise!NetOf, Promise!promiseVars, Promise!Abs,
         Promise!ContractsToClose, Promise!ContractsToOpen, Promise!Reverses,
         Promise!ClosingType, Promise!OpeningType,
         PromiseProofs!Init, PromiseProofs!Next, PromiseProofs!Plan, PromiseProofs!Fill,
         PromiseProofs!Drop, PromiseProofs!OpenNext, PromiseProofs!Abandon,
         PromiseProofs!Working, PromiseProofs!Nothing, PromiseProofs!After,
         PromiseProofs!NetOf, PromiseProofs!promiseVars, PromiseProofs!Abs,
         PromiseProofs!ContractsToClose, PromiseProofs!ContractsToOpen,
         PromiseProofs!Reverses, PromiseProofs!ClosingType, PromiseProofs!OpeningType
<1>2. KeepsPromise => PromiseProofs!Spec
  BY <1>1, PTL DEF KeepsPromise, Promise!Spec, PromiseProofs!Spec
<1>3. PromiseProofs!Spec => []PromiseProofs!NetWithinMax
  BY ContractsAssumption, PromiseProofs!PromiseNetWithinMax
<1>4. PromiseProofs!NetWithinMax => NetWithinMax
  BY DEF PromiseProofs!NetWithinMax, NetWithinMax, PromiseProofs!Abs, Abs,
         PromiseProofs!NetOf, Net
<1> QED
  BY PromiseKept, <1>2, <1>3, <1>4, PTL

-----------------------------------------------------------------------------
(* Any exchange: how far the position may be off *)

\* The two directions in which the net position may exceed the maximum, the orders
\* that move it there, and a number of contracts seen in that direction.
Directions == {"up", "down"}
Towards(d) == IF d = "up" THEN {"OpenLong", "CloseShort"} ELSE {"OpenShort", "CloseLong"}
Signed(d, x) == IF d = "up" THEN x ELSE -x

\* The contracts that order n may still move the net position in a direction.
MayMove(d) == [n \in Call |->
    IF Unsettled(n) /\ order[n].type \in Towards(d) THEN Left(n) ELSE 0]
ToCome(d) == SumFunction(MayMove(d))

\* The contracts the pass will open in a direction after its close.
Meant(d) == IF Signed(d, toOpen) > 0 THEN Signed(d, toOpen) ELSE 0

NeverOverfilled == \A n \in Call : order[n].filled <= order[n].amount

\* Even if all that moves the net position one way trades, and nothing that moves
\* it the other way, the maximum is exceeded by no more than the slack.
DirectionsBounded ==
    \A d \in Directions :
        Signed(d, Net(held)) + ToCome(d) + Meant(d) <= MaxContracts + slack

\* Since the position was fetched, it has moved, and may still move, by no more
\* than what was unsettled then.
SnapshotBounds ==
    at = "account" =>
        \A d \in Directions :
            Signed(d, Net(held)) + ToCome(d) <= Signed(d, Net(position)) + slack

ExposureInv == /\ IInv /\ slack \in Nat /\ NeverOverfilled
               /\ DirectionsBounded /\ SnapshotBounds

\* There are finitely many orders to add up.
LEMMA CallsFinite == IsFiniteSet(Call)
  BY FS_Interval

\* What may still move the net position one way is not more than all that is
\* unsettled.
LEMMA ToComeType ==
    ASSUME LimitInv, NeverOverfilled, NEW d \in Directions
    PROVE  /\ ToCome(d) \in Nat /\ UnsettledContracts \in Nat
           /\ ToCome(d) <= UnsettledContracts
           /\ \A n \in Call : MayMove(d)[n] \in Nat /\ Left(n) \in Nat
<1> DEFINE all == [n \in Call |-> IF Unsettled(n) THEN Left(n) ELSE 0]
           some == MayMove(d)
<1>1. IsFiniteSet(Call)
  BY FS_Interval
<1>2. \A n \in Call : Left(n) \in Nat
  BY DEF LimitTypeOK, Order, NeverOverfilled, Left
<1>3. \A n \in Call : all[n] \in Nat /\ some[n] \in Nat /\ some[n] <= all[n]
  BY <1>2 DEF MayMove
<1>4. DOMAIN all = Call /\ DOMAIN some = Call
  BY DEF MayMove
<1> HIDE DEF all, some
<1>5. SumFunction(all) \in Nat /\ SumFunction(some) \in Nat
  BY <1>1, <1>3, <1>4, SumNotNegative DEF SumFunction
<1>6. SumFunction(some) <= SumFunction(all)
  BY <1>1, <1>3, <1>4, SumAtMost DEF SumFunction
<1> QED
  BY <1>2, <1>3, <1>5, <1>6 DEF ToCome, UnsettledContracts, some, all

\* Where the book does not change, nothing else is to come.
LEMMA SameToCome ==
    ASSUME order' = order, NEW d \in Directions
    PROVE  ToCome(d)' = ToCome(d)
  BY DEF ToCome, MayMove, Unsettled, Left

\* An order that changes changes what is to come by as much; the other ones do not.
LEMMA OneOrderMoves ==
    ASSUME LimitInv, NeverOverfilled, LimitInv', NeverOverfilled', NEW d \in Directions,
           NEW n \in Call, \A c \in Call \ {n} : order'[c] = order[c]
    PROVE  ToCome(d)' = ToCome(d) - MayMove(d)[n] + MayMove(d)'[n]
<1> DEFINE f == MayMove(d)
           g == MayMove(d)'
<1>1. IsFiniteSet(Call)
  BY CallsFinite
<1>2. DOMAIN f = Call /\ DOMAIN g = Call
  BY DEF MayMove
<1>3. \A c \in Call : f[c] \in Int
  BY ToComeType
<1>4. \A c \in Call : g[c] \in Int
  <2>1. order' \in [Call -> Order]
    BY DEF LimitTypeOK
  <2>2. \A c \in Call : order'[c].amount - order'[c].filled \in Int
    BY <2>1 DEF Order
  <2> QED
    BY <2>2 DEF MayMove, Left
<1>5. \A c \in Call \ {n} : g[c] = f[c]
  BY DEF MayMove, Unsettled, Left
<1>6. ToCome(d) = SumFunctionOnSet(f, Call) /\ ToCome(d)' = SumFunctionOnSet(g, Call)
  BY <1>2 DEF ToCome, SumFunction
<1> HIDE DEF f, g
<1>7. SumFunctionOnSet(g, Call) = SumFunctionOnSet(f, Call) - f[n] + g[n]
  BY <1>1, <1>3, <1>4, <1>5, SumChanges
<1> QED
  BY <1>6, <1>7 DEF f, g

\* The net position of an account is a number of contracts.
LEMMA NetType ==
    ASSUME NEW a \in [long : Nat, short : Nat], NEW d \in Directions
    PROVE  Net(a) \in Int /\ Signed(d, Net(a)) \in Int
  BY DEF Net, Signed

\* The exchange does not move the net position when it serves a request; what it
\* rejects or cancels is no longer to come.
LEMMA ServeMovesNothing ==
    ASSUME LimitInv, NeverOverfilled, NEW r \in requests, Serve(r), NEW d \in Directions
    PROVE  /\ NeverOverfilled' /\ held' = held
           /\ ToCome(d)' \in Int /\ ToCome(d)' <= ToCome(d)
<1> DEFINE n == r.order
<1>1. n \in Call /\ order \in [Call -> Order] /\ LimitInv'
  BY ServeInvariant DEF LimitTypeOK, OrderRequest, InfoRequest
<1>2. held' = held
  BY DEF Serve, Accept, Reject, AnswerInfo, Cancel, exchVars
<1>3. /\ order'[n].type = order[n].type /\ order'[n].amount = order[n].amount
      /\ order'[n].filled = order[n].filled
      /\ Unsettled(n)' => Unsettled(n)
      /\ \A c \in Call \ {n} : order'[c] = order[c]
  <2>1. CASE Accept(r)
    <3>1. order[n].state = "sent"
      BY <2>1 DEF Accept, OrdersKnown
    <3> QED
      BY <1>1, <2>1, <3>1 DEF Accept, Order, Unsettled
  <2>2. CASE Reject(r)
    BY <1>1, <2>2 DEF Reject, Order, Unsettled
  <2>3. CASE AnswerInfo(r)
    BY <2>3 DEF AnswerInfo, exchVars, Unsettled
  <2>4. CASE Cancel(r)
    BY <1>1, <2>4 DEF Cancel, Order, Unsettled
  <2> QED
    BY <2>1, <2>2, <2>3, <2>4 DEF Serve
<1> HIDE DEF n
<1>4. NeverOverfilled'
  BY <1>1, <1>3 DEF NeverOverfilled
<1>5. ToCome(d)' = ToCome(d) - MayMove(d)[n] + MayMove(d)'[n]
  BY <1>1, <1>3, <1>4, OneOrderMoves
<1>6. /\ MayMove(d)[n] \in Nat /\ Left(n) \in Nat
      /\ ToCome(d) \in Nat
  BY <1>1, ToComeType
<1>7. MayMove(d)'[n] \in Nat /\ MayMove(d)'[n] <= MayMove(d)[n]
  BY <1>1, <1>3, <1>6 DEF MayMove, Left
<1> QED
  BY <1>2, <1>4, <1>5, <1>6, <1>7

\* What trades one way was to come that way.
LEMMA FillMoves ==
    ASSUME LimitInv, NeverOverfilled, NEW n \in Call, NEW k \in 1 .. Left(n), Fill(n, k),
           NEW d \in Directions
    PROVE  /\ NeverOverfilled' /\ ToCome(d)' \in Int
           /\ Signed(d, Net(held')) + ToCome(d)' <= Signed(d, Net(held)) + ToCome(d)
<1>1. /\ LimitInv' /\ order \in [Call -> Order] /\ order[n] \in Order
      /\ held \in [long : Nat, short : Nat]
      /\ Left(n) \in Nat /\ MayMove(d)[n] \in Nat /\ ToCome(d) \in Nat
  BY FillInvariant, ToComeType DEF LimitTypeOK
<1>2. /\ order[n].state = "open" /\ k \in Nat /\ k <= Left(n)
      /\ held' = Traded(held, order[n].type, k)
      /\ order' = [order EXCEPT ![n].filled = @ + k,
                               ![n].state = IF k = Left(n) THEN "full" ELSE @]
  BY <1>1 DEF Fill
<1>3. /\ order'[n].type = order[n].type /\ order'[n].amount = order[n].amount
      /\ order'[n].filled = order[n].filled + k
      /\ order'[n].state = IF k = Left(n) THEN "full" ELSE "open"
      /\ \A c \in Call \ {n} : order'[c] = order[c]
  BY <1>1, <1>2 DEF Order
<1>4. order[n].amount \in Nat /\ order[n].filled \in Nat /\ order[n].type \in OrderType
  BY <1>1 DEF Order
<1>5. NeverOverfilled'
  BY <1>1, <1>2, <1>3, <1>4 DEF NeverOverfilled, Left
<1>6. ToCome(d)' = ToCome(d) - MayMove(d)[n] + MayMove(d)'[n]
  BY <1>1, <1>3, <1>5, OneOrderMoves
<1>7. /\ MayMove(d)[n] = IF order[n].type \in Towards(d) THEN Left(n) ELSE 0
      /\ MayMove(d)'[n] = IF order[n].type \in Towards(d) THEN Left(n) - k ELSE 0
  <2>1. Unsettled(n)
    BY <1>2 DEF Unsettled
  <2>2. Left(n)' = Left(n) - k
    BY <1>3, <1>4 DEF Left
  <2>3. Unsettled(n)' <=> k # Left(n)
    BY <1>3 DEF Unsettled
  <2>4. MayMove(d)'[n] = IF Unsettled(n)' /\ order'[n].type \in Towards(d)
                         THEN Left(n)' ELSE 0
    BY DEF MayMove, Towards
  <2> QED
    BY <1>1, <1>2, <1>3, <2>1, <2>2, <2>3, <2>4 DEF MayMove
<1>8. Signed(d, Net(held')) = IF order[n].type \in Towards(d)
                              THEN Signed(d, Net(held)) + k ELSE Signed(d, Net(held)) - k
  BY SMTT(30), <1>1, <1>2, <1>4 DEF Traded, Net, Signed, Towards, Directions, OrderType
<1>9. Signed(d, Net(held)) \in Int
  BY <1>1, NetType
<1> QED
  BY <1>1, <1>2, <1>5, <1>6, <1>7, <1>8, <1>9

\* What the net position can come to in a direction only ever shrinks while no call
\* of limit() is made: a fill that way was to come, and all else takes away from it.
LEMMA SurroundingsMove ==
    ASSUME LimitInv, NeverOverfilled, Surroundings, NEW d \in Directions
    PROVE  /\ NeverOverfilled' /\ ToCome(d)' \in Int
           /\ Signed(d, Net(held')) + ToCome(d)' <= Signed(d, Net(held)) + ToCome(d)
<1>1. /\ held \in [long : Nat, short : Nat] /\ Signed(d, Net(held)) \in Int
      /\ ToCome(d) \in Nat
  BY ToComeType, NetType DEF LimitTypeOK
<1>2. ASSUME order' = order, held' = held
      PROVE  /\ NeverOverfilled' /\ ToCome(d)' \in Int
             /\ Signed(d, Net(held')) + ToCome(d)' <= Signed(d, Net(held)) + ToCome(d)
  BY <1>1, <1>2, SameToCome DEF NeverOverfilled
<1>3. CASE DeadlinePasses
  BY <1>2, <1>3 DEF DeadlinePasses, exchVars
<1>4. CASE OnMessage
  BY <1>2, <1>4 DEF OnMessage, DropMessage, OnTradeAnswer, OnInfoAnswer, exchVars
<1>5. ASSUME NEW n \in Call, Callback(n)
      PROVE  order' = order /\ held' = held
  BY <1>5 DEF Callback, Poll, LeaveLoop, LeaveAnd, EraseTrade, exchVars
<1>6. ASSUME NEW r \in requests, Serve(r)
      PROVE  /\ NeverOverfilled' /\ ToCome(d)' \in Int
             /\ Signed(d, Net(held')) + ToCome(d)' <= Signed(d, Net(held)) + ToCome(d)
  <2>1. /\ NeverOverfilled' /\ held' = held
        /\ ToCome(d)' \in Int /\ ToCome(d)' <= ToCome(d)
    BY <1>6, ServeMovesNothing
  <2> QED
    BY <1>1, <2>1
<1>7. ASSUME NEW n \in Call, NEW k \in 1 .. Left(n), Fill(n, k)
      PROVE  /\ NeverOverfilled' /\ ToCome(d)' \in Int
             /\ Signed(d, Net(held')) + ToCome(d)' <= Signed(d, Net(held)) + ToCome(d)
  BY <1>7, FillMoves
<1> QED
  BY <1>2, <1>3, <1>4, <1>5, <1>6, <1>7 DEF Surroundings

\* A call of limit() adds its amount to what is to come in the direction of its order.
LEMMA LimitAdds ==
    ASSUME LimitInv, NeverOverfilled, NEW type \in OrderType, NEW amount \in Nat,
           Limit(type, amount), NEW d \in Directions
    PROVE  /\ NeverOverfilled' /\ held' = held
           /\ ToCome(d)' = ToCome(d) + (IF type \in Towards(d) THEN amount ELSE 0)
<1>0. PICK n \in Call : n = called + 1
  BY DEF Limit, LimitTypeOK
<1>1. /\ order[n].state = "none" /\ held' = held
      /\ order'[n] = [state |-> "sent", type |-> type, amount |-> amount, filled |-> 0]
      /\ \A c \in Call \ {n} : order'[c] = order[c]
  BY <1>0 DEF Limit, LimitTypeOK, OrdersKnown
<1>2. LimitInv'
  BY LimitInvariant
<1>3. NeverOverfilled'
  BY <1>1 DEF NeverOverfilled
<1>4. ToCome(d)' = ToCome(d) - MayMove(d)[n] + MayMove(d)'[n]
  BY <1>1, <1>2, <1>3, OneOrderMoves
<1>5. MayMove(d)[n] = 0
  BY <1>1 DEF MayMove, Unsettled
<1>6. MayMove(d)'[n] = IF type \in Towards(d) THEN amount ELSE 0
  <2>1. MayMove(d)'[n] = IF Unsettled(n)' /\ order'[n].type \in Towards(d)
                         THEN Left(n)' ELSE 0
    BY <1>1 DEF MayMove, Towards
  <2>2. Unsettled(n)' /\ Left(n)' = amount
    BY <1>1 DEF Unsettled, Left
  <2> QED
    BY <1>1, <2>1, <2>2
<1>7. ToCome(d) \in Nat
  BY ToComeType
<1> QED
  BY <1>1, <1>3, <1>4, <1>5, <1>6, <1>7

\* A plan closes and opens in one direction, the one from the position it was made
\* from to the desired one, which is within the maximum.
LEMMA PlanGoesOneWay ==
    ASSUME NEW current \in Int, NEW desired \in -MaxContracts .. MaxContracts,
           NEW d \in Directions
    PROVE  LET close == ContractsToClose(current, desired)
               open  == ContractsToOpen(current, desired)
               toClose == IF close # 0 /\ ClosingType(close) \in Towards(d)
                          THEN Abs(close) ELSE 0
               toOpenThen == IF Signed(d, open) > 0 THEN Signed(d, open) ELSE 0
           IN  \/ toClose = 0 /\ toOpenThen = 0
               \/ Signed(d, current) + toClose + toOpenThen <= MaxContracts
<1>1. MaxContracts \in Nat /\ desired \in Int
  BY ContractsAssumption
<1>2. CASE d = "up"
  BY <1>1, <1>2 DEF ContractsToClose, ContractsToOpen, Reverses, Abs, ClosingType,
                    Towards, Signed
<1>3. CASE d = "down"
  BY <1>1, <1>3 DEF ContractsToClose, ContractsToOpen, Reverses, Abs, ClosingType,
                    Towards, Signed
<1> QED
  BY <1>2, <1>3 DEF Directions

\* An opening order of the planned contracts goes in the direction of their sign.
LEMMA OpensTowards ==
    ASSUME NEW contracts \in Int, contracts # 0, NEW d \in Directions
    PROVE  (IF OpeningType(contracts) \in Towards(d) THEN Abs(contracts) ELSE 0)
              = (IF Signed(d, contracts) > 0 THEN Signed(d, contracts) ELSE 0)
  BY DEF OpeningType, Towards, Signed, Abs, Directions

-----------------------------------------------------------------------------
(* Any exchange: the inductive invariant *)

\* At the start nothing is to come, and the position is within the maximum.
LEMMA ExposureInit == Init => ExposureInv
<1> SUFFICES ASSUME Init
             PROVE  ExposureInv
  OBVIOUS
<1>1. IInv /\ slack = 0 /\ toOpen = 0 /\ at = "idle"
  BY InitInvariant DEF Init
<1>2. \A n \in Call : order[n] = NoOrder
  BY DEF Init, LimitInit
<1>3. NeverOverfilled
  BY <1>2 DEF NeverOverfilled, NoOrder
<1>4. ASSUME NEW d \in Directions
      PROVE  ToCome(d) = 0
  <2>1. DOMAIN MayMove(d) = Call /\ \A n \in Call : MayMove(d)[n] = 0
    BY <1>2 DEF MayMove, Unsettled, NoOrder
  <2> QED
    BY <2>1, CallsFinite, SumOfZeros DEF ToCome, SumFunction
<1>5. ASSUME NEW d \in Directions
      PROVE  Signed(d, Net(held)) <= MaxContracts
  BY ContractsAssumption DEF Init, LimitInit, Signed, Net
<1>6. ASSUME NEW d \in Directions
      PROVE  Signed(d, Net(held)) + ToCome(d) + Meant(d) <= MaxContracts + slack
  <2>1. Meant(d) = 0
    BY <1>1 DEF Meant, Signed
  <2>2. Signed(d, Net(held)) \in Int
    BY <1>1, NetType DEF IInv, LimitTypeOK
  <2> QED
    BY <1>1, <1>4, <1>5, <2>1, <2>2, ContractsAssumption
<1> QED
  BY <1>1, <1>3, <1>6 DEF ExposureInv, DirectionsBounded, SnapshotBounds

\* The numbers that the invariant compares.
LEMMA ExposureTypes ==
    ASSUME ExposureInv, NEW d \in Directions
    PROVE  /\ LimitInv /\ NeverOverfilled /\ slack \in Nat /\ MaxContracts \in Nat
           /\ Signed(d, Net(held)) \in Int /\ Net(position) \in Int
           /\ Signed(d, Net(position)) \in Int
           /\ ToCome(d) \in Nat /\ Meant(d) \in Nat
           /\ Signed(d, Net(held)) + ToCome(d) + Meant(d) <= MaxContracts + slack
<1>1. /\ LimitInv /\ NeverOverfilled /\ slack \in Nat /\ MaxContracts \in Nat
      /\ held \in [long : Nat, short : Nat] /\ position \in [long : Nat, short : Nat]
      /\ toOpen \in Int
  BY ContractsAssumption DEF ExposureInv, IInv, PassTypeOK, LimitTypeOK
<1>2. Meant(d) \in Nat
  BY <1>1 DEF Meant, Signed
<1>3. Signed(d, Net(held)) + ToCome(d) + Meant(d) <= MaxContracts + slack
  BY DEF ExposureInv, DirectionsBounded
<1> QED
  BY <1>1, <1>2, <1>3, ToComeType, NetType

\* A pass plans from what it fetched; what has happened since is in the slack.
LEMMA TradeExposes ==
    ASSUME ExposureInv, NEW desired \in -MaxContracts .. MaxContracts, Trade(desired),
           NEW d \in Directions
    PROVE  /\ NeverOverfilled'
           /\ Signed(d, Net(held')) + ToCome(d)' + Meant(d)' <= MaxContracts + slack
<1> DEFINE current == Net(position)
           close   == ContractsToClose(current, desired)
           open    == ContractsToOpen(current, desired)
           toClose == IF close # 0 /\ ClosingType(close) \in Towards(d) THEN Abs(close) ELSE 0
           thenOpen == IF Signed(d, open) > 0 THEN Signed(d, open) ELSE 0
<1>1. /\ LimitInv /\ NeverOverfilled /\ slack \in Nat /\ MaxContracts \in Nat
      /\ Signed(d, Net(held)) \in Int /\ current \in Int /\ Signed(d, current) \in Int
      /\ ToCome(d) \in Nat /\ Meant(d) \in Nat
      /\ Signed(d, Net(held)) + ToCome(d) + Meant(d) <= MaxContracts + slack
      /\ desired \in Int
  BY ExposureTypes, ContractsAssumption
<1>2. Signed(d, Net(held)) + ToCome(d) <= Signed(d, current) + slack
  BY DEF ExposureInv, SnapshotBounds, Trade
<1>3. close \in Int /\ open \in Int
  <2> HIDE DEF current
  <2> QED
    BY <1>1, PlanTypes
<1>4. \/ toClose = 0 /\ thenOpen = 0
      \/ Signed(d, current) + toClose + thenOpen <= MaxContracts
  <2> HIDE DEF current
  <2> QED
    BY <1>1, PlanGoesOneWay
<1>5. \/ /\ close # 0 /\ Limit(ClosingType(close), Abs(close)) /\ toOpen' = open
      \/ /\ close = 0 /\ open # 0 /\ Limit(OpeningType(open), Abs(open)) /\ toOpen' = 0
  BY DEF Trade
<1> HIDE DEF current, close, open
<1>6. toClose \in Nat /\ thenOpen \in Nat
  BY <1>3 DEF Abs, Signed
<1>7. CASE close # 0
  <2>1. Limit(ClosingType(close), Abs(close)) /\ toOpen' = open
    BY <1>5, <1>7
  <2>2. /\ NeverOverfilled' /\ held' = held
        /\ ToCome(d)' = ToCome(d) + toClose
    BY <1>1, <1>3, <1>7, <2>1, OrderTypes, LimitAdds
  <2>3. Meant(d)' = thenOpen
    BY <2>1 DEF Meant, Signed
  <2> HIDE DEF toClose, thenOpen
  <2> QED
    BY <1>1, <1>2, <1>4, <1>6, <2>2, <2>3
<1>8. CASE close = 0
  <2>1. Limit(OpeningType(open), Abs(open)) /\ toOpen' = 0 /\ open # 0
    BY <1>5, <1>8
  <2>2. /\ NeverOverfilled' /\ held' = held
        /\ ToCome(d)' = ToCome(d) + thenOpen
    BY <1>1, <1>3, <2>1, OrderTypes, OpensTowards, LimitAdds
  <2>3. Meant(d)' = 0
    BY <2>1 DEF Meant, Signed
  <2>4. toClose = 0
    BY <1>8
  <2> HIDE DEF toClose, thenOpen
  <2> QED
    BY <1>1, <1>2, <1>4, <1>6, <2>2, <2>3, <2>4
<1> QED
  BY <1>7, <1>8

\* What a pass meant to open is now to come, or abandoned.
LEMMA CloseReturnedExposes ==
    ASSUME ExposureInv, CloseReturned, NEW d \in Directions
    PROVE  /\ NeverOverfilled'
           /\ Signed(d, Net(held')) + ToCome(d)' + Meant(d)' <= MaxContracts + slack
<1>1. /\ LimitInv /\ NeverOverfilled /\ slack \in Nat /\ MaxContracts \in Nat
      /\ Signed(d, Net(held)) \in Int
      /\ ToCome(d) \in Nat /\ Meant(d) \in Nat
      /\ Signed(d, Net(held)) + ToCome(d) + Meant(d) <= MaxContracts + slack
  BY ExposureTypes
<1>2. toOpen \in Int /\ toOpen' = 0
  BY DEF CloseReturned, ExposureInv, IInv, PassTypeOK
<1>3. Meant(d)' = 0
  BY <1>2 DEF Meant, Signed
<1>4. CASE result /\ toOpen # 0
  <2>1. Limit(OpeningType(toOpen), Abs(toOpen))
    BY <1>4 DEF CloseReturned
  <2>2. /\ NeverOverfilled' /\ held' = held
        /\ ToCome(d)' = ToCome(d) + Meant(d)
    BY <1>1, <1>2, <1>4, <2>1, OrderTypes, OpensTowards, LimitAdds DEF Meant
  <2> QED
    BY <1>1, <1>3, <2>2
<1>5. CASE ~(result /\ toOpen # 0)
  <2>1. order' = order /\ held' = held
    BY <1>5 DEF CloseReturned, limitVars
  <2>2. NeverOverfilled' /\ ToCome(d)' = ToCome(d)
    BY <1>1, <2>1, SameToCome DEF NeverOverfilled
  <2> QED
    BY <1>1, <1>3, <2>1, <2>2
<1> QED
  BY <1>4, <1>5

\* Every step of the position thread and of its surroundings keeps the invariant.
LEMMA ExposureStep == ExposureInv /\ [Next]_vars => ExposureInv'
<1> SUFFICES ASSUME ExposureInv, [Next]_vars
             PROVE  ExposureInv'
  OBVIOUS
<1>1. IInv /\ IInv'
  BY StepInvariant DEF ExposureInv
<1>2. ASSUME NEW d \in Directions
      PROVE  /\ LimitInv /\ NeverOverfilled /\ slack \in Nat /\ MaxContracts \in Nat
             /\ Signed(d, Net(held)) \in Int /\ Signed(d, Net(position)) \in Int
             /\ ToCome(d) \in Nat /\ Meant(d) \in Nat
             /\ Signed(d, Net(held)) + ToCome(d) + Meant(d) <= MaxContracts + slack
  BY ExposureTypes
<1>3. LimitInv /\ NeverOverfilled /\ slack \in Nat
  BY DEF ExposureInv, IInv
<1>4. ASSUME order' = order, held' = held, toOpen' = toOpen, slack' = slack,
             at' = "account" => at = "account" /\ position' = position
      PROVE  ExposureInv'
  <2>1. \A d \in Directions : ToCome(d)' = ToCome(d) /\ Meant(d)' = Meant(d)
    BY <1>4, SameToCome DEF Meant, Signed
  <2>2. NeverOverfilled'
    BY <1>3, <1>4 DEF NeverOverfilled
  <2>3. DirectionsBounded'
    BY <1>4, <2>1 DEF ExposureInv, DirectionsBounded, Signed, Net
  <2>4. SnapshotBounds'
    BY <1>4, <2>1 DEF ExposureInv, SnapshotBounds, Signed, Net
  <2> QED
    BY <1>1, <1>3, <1>4, <2>2, <2>3, <2>4 DEF ExposureInv
<1>5. CASE FetchPosition
  <2>1. /\ order' = order /\ held' = held /\ position' = held /\ toOpen' = toOpen
        /\ slack' = IF UnsettledContracts > slack THEN UnsettledContracts ELSE slack
    BY <1>5 DEF FetchPosition, limitVars
  <2>2. NeverOverfilled'
    BY <1>3, <2>1 DEF NeverOverfilled
  <2>3. ASSUME NEW d \in Directions
        PROVE  /\ ToCome(d)' = ToCome(d) /\ Meant(d)' = Meant(d)
               /\ ToCome(d) <= slack' /\ slack <= slack' /\ slack' \in Nat
    BY <1>3, <2>1, SameToCome, ToComeType DEF Meant, Signed
  <2>4. slack' \in Nat
    BY <2>3 DEF Directions
  <2>5. ASSUME NEW d \in Directions
        PROVE  Signed(d, Net(held')) + ToCome(d)' + Meant(d)' <= MaxContracts + slack'
    <3> HIDE DEF LimitInv
    <3> QED
      BY <1>2, <2>1, <2>3
  <2>6. ASSUME NEW d \in Directions
        PROVE  Signed(d, Net(held')) + ToCome(d)' <= Signed(d, Net(position')) + slack'
    <3> HIDE DEF LimitInv
    <3> QED
      BY <1>2, <2>1, <2>3
  <2>7. DirectionsBounded' /\ SnapshotBounds'
    BY <2>5, <2>6 DEF DirectionsBounded, SnapshotBounds, Signed
  <2> QED
    BY <1>1, <2>2, <2>4, <2>7 DEF ExposureInv
<1>6. CASE GiveUp \/ OpenReturned
  BY <1>4, <1>6 DEF GiveUp, OpenReturned, limitVars
<1>7. ASSUME slack' = slack, at' # "account",
             \A d \in Directions :
               /\ NeverOverfilled'
               /\ Signed(d, Net(held')) + ToCome(d)' + Meant(d)' <= MaxContracts + slack
      PROVE  ExposureInv'
  <2>1. NeverOverfilled'
    BY <1>7 DEF Directions
  <2>2. DirectionsBounded' /\ SnapshotBounds'
    BY <1>7 DEF DirectionsBounded, SnapshotBounds, Signed
  <2> QED
    BY <1>1, <1>3, <1>7, <2>1, <2>2 DEF ExposureInv
<1>8. ASSUME NEW s \in Signals, NEW desired \in Desired(Blended(s)), Trade(desired)
      PROVE  ExposureInv'
  <2>1. desired \in -MaxContracts .. MaxContracts
    BY DesiredWithin
  <2>2. slack' = slack /\ at' # "account"
    BY <1>8 DEF Trade
  <2> QED
    BY <1>7, <1>8, <2>1, <2>2, TradeExposes
<1>9. CASE CloseReturned
  <2>1. slack' = slack /\ at' # "account"
    BY <1>9 DEF CloseReturned
  <2> QED
    BY <1>7, <1>9, <2>1, CloseReturnedExposes
<1>10. CASE LimitReturns /\ UNCHANGED passVars
  BY <1>4, <1>10 DEF LimitReturns, LimitReturnsTrue, LimitReturnsFalse, Return, passVars
<1>11. CASE Surroundings /\ UNCHANGED passVars
  <2>1. UNCHANGED <<at, position, toOpen, slack>>
    BY <1>11 DEF passVars
  <2>2. ASSUME NEW d \in Directions
        PROVE  /\ NeverOverfilled' /\ ToCome(d)' \in Int
               /\ Signed(d, Net(held')) + ToCome(d)' <= Signed(d, Net(held)) + ToCome(d)
    BY <1>3, <1>11, SurroundingsMove
  <2>3. ASSUME NEW d \in Directions
        PROVE  Meant(d)' = Meant(d) /\ Signed(d, Net(held')) \in Int
    <3>1. Meant(d)' = Meant(d)
      BY <2>1 DEF Meant, Signed
    <3>2. held' \in [long : Nat, short : Nat]
      BY <1>1 DEF IInv, LimitTypeOK
    <3>3. Signed(d, Net(held')) \in Int
      BY <3>2, NetType
    <3> QED
      BY <3>1, <3>3
  <2>4. DirectionsBounded'
    BY <1>2, <2>1, <2>2, <2>3 DEF DirectionsBounded, Signed
  <2>5. SnapshotBounds'
    BY <1>2, <2>1, <2>2, <2>3 DEF SnapshotBounds, ExposureInv, Signed
  <2>6. NeverOverfilled'
    BY <2>2 DEF Directions
  <2> QED
    BY <1>1, <1>3, <2>1, <2>4, <2>5, <2>6 DEF ExposureInv
<1>12. CASE UNCHANGED vars
  BY <1>4, <1>12 DEF vars, limitVars, passVars
<1> QED
  BY <1>5, <1>6, <1>8, <1>9, <1>10, <1>11, <1>12 DEF Next, Pass

\* However slow or lossy the network, and however the threads interleave: the net
\* position is never further from the maximum than what was unsettled when some
\* pass fetched the position that it planned from.
THEOREM ExposureBounded == Spec => []ExposureAccounted
<1>1. ExposureInv => ExposureAccounted
  <2> SUFFICES ASSUME ExposureInv
               PROVE  Abs(Net(held)) <= MaxContracts + slack
    BY DEF ExposureAccounted
  <2>1. "up" \in Directions /\ "down" \in Directions
    BY DEF Directions
  <2>2. \A d \in Directions : Signed(d, Net(held)) <= MaxContracts + slack
    <3> SUFFICES ASSUME NEW d \in Directions
                 PROVE  Signed(d, Net(held)) <= MaxContracts + slack
      OBVIOUS
    <3> HIDE DEF LimitInv
    <3> QED
      BY ExposureTypes
  <2>3. Net(held) <= MaxContracts + slack /\ -Net(held) <= MaxContracts + slack
    BY <2>1, <2>2 DEF Signed
  <2> QED
    BY <2>3 DEF Abs
<1> QED
  BY ExposureInit, ExposureStep, <1>1, PTL DEF Spec

=============================================================================
