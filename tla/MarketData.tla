---------------------------- MODULE MarketData ----------------------------
(***************************************************************************)
(* The bars of one period (MktData) and a strategy that lives on them, the *)
(* crossover of two averages or the Bollinger bands.  Bars come from the   *)
(* kline channel, handled by the pool threads in any order, late, twice or *)
(* never, and from the backfill that the open callback adds bar by bar on  *)
(* a pool thread of its own; ticks come from the ticker channel.           *)
(* MktData::lock makes each add() one step, and strategies on the same     *)
(* bars know nothing of each other, so that one of them is enough.         *)
(*                                                                         *)
(* Time is counted in periods.  Prices are whole numbers of 1/Unit; a stop *)
(* is kept in hundredths of that, because it is 1% off a close.            *)
(***************************************************************************)
EXTENDS Integers, Sequences, SequencesExt

CONSTANTS
    Capacity, \* bars kept: 2000 in the code
    Fast,     \* periods of the two moving averages: 30
    Slow,     \* and 150
    Period,   \* periods of the Bollinger bands: 20
    Sd,       \* and how many standard deviations wide they are: 2
    Unit,     \* price units in a dollar
    Price,    \* the prices there are, in whole units
    MaxTime,  \* bound: the bars there will ever be
    MaxLate   \* bound: periods by which a kline message may be handled late

ASSUME BarsAssumption == Capacity \in Nat \ {0} /\ MaxTime \in Nat \ {0} /\ MaxLate \in Nat
ASSUME AveragesAssumption == Fast \in 1 .. Slow /\ Slow \in 1 .. Capacity
ASSUME BandsAssumption == Period \in 2 .. Capacity /\ Sd \in Nat \ {0}
ASSUME PriceAssumption == Unit \in Nat \ {0} /\ Price \subseteq Nat \ {0}

VARIABLES
    kind,     \* the class of the strategy; never changes
    clock,   \* the bar that is being formed at the exchange
    bars,    \* MktData::bars, oldest first
    signal,  \* SignalStrategy::signal
    stop,    \* SignalStrategy::stop, 0 when it is cleared
    crossed, \* the position of the last cross: crossed_above and crossed_below,
             \* of which never both are set, by what SMACrossover or BBands does then
    quote,   \* the quote in the last ticker message handled
    fill,    \* the backfill under way: the bars still to be added
    alone    \* history: no kline bar was added since the backfill began

strategyVars == <<signal, stop, crossed>>
vars == <<kind, clock, bars, signal, stop, crossed, quote, fill, alone>>

Time   == 1 .. MaxTime
Bar    == [time : Time, close : Price]
Quote  == {q \in [last : Price, buy : Price, sell : Price] : q.buy <= q.sell}
Signal == {"unset", "long", "flat", "short"}

\* No backfill is under way when nothing is left of it.
Idle == [next |-> 1, last |-> 0]

-----------------------------------------------------------------------------
(* The strategy *)

\* ticker_handler() builds Ticker(last, bid, ask) where the constructor takes
\* the bid, the ask and the last price, in this order.
TickerOf(q) == [bid |-> q.last, ask |-> q.buy]

\* The fake tick that stands for a whole bar.
TickerOfBar(low, high) == [bid |-> low, ask |-> high]

StopHit(s, t) == \/ s.signal = "long" /\ 100 * t.bid < s.stop
                 \/ s.signal = "short" /\ 100 * t.ask > s.stop

\* Mutant: the signal is flattened and the stop left in place.
StopKept(s, t) ==
    IF s.stop # 0 /\ StopHit(s, t) THEN [s EXCEPT !.signal = "flat"] ELSE s

\* process_stop(): being stopped out flattens the signal and clears the stop.
ProcessStop(s, t) ==
    IF s.stop # 0 /\ StopHit(s, t)
    THEN [s EXCEPT !.signal = "flat", !.stop = 0] ELSE s

\* Where the last n bars are.
Recent(bs, n) == Len(bs) - n + 1 .. Len(bs)

\* MovingAverage::calculate() accumulates into an int, so that every close
\* loses its part of a dollar.  The average is this sum over the period n.
Sum(bs, n) == SumFunction([i \in Recent(bs, n) |-> bs[i].close \div Unit])

\* BollingerBands::calculate(): how far the last close is below the average, and
\* whether that is more than Sd times the deviation.  Multiplied out, with the sum
\* and the sum of squares for what welfords_algorithm() comes to.
Below(bs)   == SumFunction([i \in Recent(bs, Period) |-> bs[i].close - Last(bs).close])
Squares(bs) == SumFunction([i \in Recent(bs, Period) |->
                               (bs[i].close - Last(bs).close) ^ 2])
Outside(bs) == Below(bs) ^ 2 * (Period - 1)
                   > Sd ^ 2 * Period * (Period * Squares(bs) - Below(bs) ^ 2)

AllIndisSet(bs) == Len(bs) >= IF kind = "BBands" THEN Period ELSE Slow
FastAbove(bs) == Sum(bs, Fast) * Slow > Sum(bs, Slow) * Fast
FastBelow(bs) == Sum(bs, Fast) * Slow < Sum(bs, Slow) * Fast

\* What a strategy goes long and short on.
LongCross(bs)  == IF kind = "BBands" THEN Outside(bs) /\ Below(bs) > 0 ELSE FastAbove(bs)
ShortCross(bs) == IF kind = "BBands" THEN Outside(bs) /\ Below(bs) < 0 ELSE FastBelow(bs)

GoLong(close)  == [signal |-> "long", stop |-> 99 * close, crossed |-> "long"]
GoShort(close) == [signal |-> "short", stop |-> 101 * close, crossed |-> "short"]

\* Mutant: a strategy that is in a position waits for its stop.
CrossFromFlat(s, bs) ==
    IF ~AllIndisSet(bs) \/ s.signal \in {"long", "short"} THEN s
    ELSE IF LongCross(bs) /\ s.crossed # "long" THEN GoLong(Last(bs).close)
    ELSE IF ShortCross(bs) /\ s.crossed # "short" THEN GoShort(Last(bs).close)
    ELSE s

\* The second half of apply(): enter on a new cross.
Cross(s, bs) ==
    IF ~AllIndisSet(bs) THEN s
    ELSE IF LongCross(bs) /\ s.crossed # "long" THEN GoLong(Last(bs).close)
    ELSE IF ShortCross(bs) /\ s.crossed # "short" THEN GoShort(Last(bs).close)
    ELSE s

Strategy == [signal |-> signal, stop |-> stop, crossed |-> crossed]

BecomesStrategy(s) ==
    /\ signal' = s.signal
    /\ stop' = s.stop
    /\ crossed' = s.crossed

-----------------------------------------------------------------------------
(* The bars *)

Found(bs, time) == \E i \in 1 .. Len(bs) : bs[i].time = time

\* Mutant: the buffer grows past its capacity.
PushUnbounded(bs, bar) == Append(bs, bar)

\* push_back() of a circular buffer drops the oldest bar when it is full.
Push(bs, bar) == IF Len(bs) < Capacity THEN Append(bs, bar)
                 ELSE Append(Tail(bs), bar)

\* Mutant: old data stays when the new bar does not continue it.
PushAnyway(bs, bar) == Push(bs, bar)

\* A bar that does not continue the bars makes them useless.
PushContiguous(bs, bar) ==
    IF bs # <<>> /\ bar.time # Last(bs).time + 1 THEN <<bar>> ELSE Push(bs, bar)

\* MktData::add(const OHLC&): a bar whose time is there already is ignored.
Add(time, low, high, close) ==
    LET new == PushContiguous(bars, [time |-> time, close |-> close]) IN
    IF Found(bars, time) THEN UNCHANGED <<bars, strategyVars>>
    ELSE /\ bars' = new
         /\ BecomesStrategy(Cross(ProcessStop(Strategy, TickerOfBar(low, high)), new))

AddSome(time) ==
    \E low, close, high \in Price :
        low <= close /\ close <= high /\ Add(time, low, high, close)

-----------------------------------------------------------------------------
Init == /\ kind \in {"SMACrossover", "BBands"}
        /\ clock = 1
        /\ bars = <<>>
        /\ signal = "unset" /\ stop = 0 /\ crossed = "none"
        /\ quote \in Quote
        /\ fill = Idle
        /\ alone = FALSE

\* A new bar begins.
ClockTicks ==
    /\ clock < MaxTime
    /\ clock' = clock + 1
    /\ UNCHANGED <<bars, strategyVars, quote, fill, alone>>

\* A pool thread handles a kline message.
OnBar(time) ==
    /\ time >= clock - MaxLate
    /\ AddSome(time)
    /\ alone' = FALSE
    /\ UNCHANGED <<clock, quote, fill>>

\* A pool thread handles a ticker message.
OnTicker(q) ==
    /\ quote' = q
    /\ BecomesStrategy(ProcessStop(Strategy, TickerOf(q)))
    /\ UNCHANGED <<clock, bars, fill, alone>>

\* Mutant: the backfill asks for one bar less than fits.
FewerRequested == [next |-> IF clock < Capacity THEN 1 ELSE clock - Capacity + 2,
                   last |-> clock]

\* What backfill_OHLC(period, bars.capacity()) asks for, and the exchange has.
Requested == [next |-> IF clock < Capacity THEN 1 ELSE clock - Capacity + 1,
              last |-> clock]

\* The response to the backfill is there, and the open callback starts to add it.
\* A request that fails leaves no trace.
Backfill ==
    /\ fill = Idle
    /\ fill' = Requested
    /\ alone' = TRUE
    /\ UNCHANGED <<clock, bars, strategyVars, quote>>

BackfillBar ==
    /\ fill.next <= fill.last
    /\ AddSome(fill.next)
    /\ fill' = [fill EXCEPT !.next = @ + 1]
    /\ UNCHANGED <<clock, quote, alone>>

\* All bars are added, or one that cannot be read threw: the rest is lost, what
\* was added stays, and the open callback asks again or gives up.
BackfillEnds ==
    /\ fill # Idle
    /\ fill' = Idle
    /\ alone' = FALSE
    /\ UNCHANGED <<clock, bars, strategyVars, quote>>

Next == /\ \/ ClockTicks
           \/ \E time \in 1 .. clock : OnBar(time)
           \/ \E q \in Quote : OnTicker(q)
           \/ Backfill \/ BackfillBar \/ BackfillEnds
        /\ UNCHANGED kind

Spec == Init /\ [][Next]_vars

-----------------------------------------------------------------------------
(* Properties *)

\* The buffer never outgrows its capacity, and every value has its type.
TypeOK ==
    /\ kind \in {"SMACrossover", "BBands"}
    /\ clock \in Time
    /\ bars \in Seq(Bar) /\ Len(bars) <= Capacity
    /\ signal \in Signal /\ stop \in Nat
    /\ crossed \in {"none", "long", "short"}
    /\ quote \in Quote
    /\ fill \in [next : Nat, last : Nat]
    /\ alone \in BOOLEAN

\* The averages are never taken over a gap: whatever is late, repeated, out of
\* order or cut off by a backfill, each bar follows the one before it.
Contiguous ==
    \A i \in 1 .. Len(bars) - 1 : bars[i + 1].time = bars[i].time + 1

\* A strategy in a position has a stop, and in no other state; and it is in the
\* position of the last cross, so that it re-enters only on the opposite one.
PositionHasStop ==
    /\ stop # 0 <=> signal \in {"long", "short"}
    /\ signal = "long" => crossed = "long"
    /\ signal = "short" => crossed = "short"

\* No cross is missed: the averages, or the bands, over the bars that are held now,
\* even after a gap threw the earlier ones away, say what was last acted on.
CrossNotMissed ==
    AllIndisSet(bars) => /\ LongCross(bars) => crossed = "long"
                         /\ ShortCross(bars) => crossed = "short"

\* A backfill that no kline message interrupts leaves all it fetched in the
\* buffer, whatever the buffer held before, so that the averages can be taken
\* over as many bars as fit.
BackfillRestores ==
    fill # Idle /\ alone /\ fill.next > fill.last =>
        \A time \in Time : time <= fill.last /\ time > fill.last - Capacity => Found(bars, time)

\* "if we are long and the bid is less than the stop price / or if we are short
\* and the ask is greater than the stop price": such a quote stops it out.
StopsOnBidOrAsk ==
    [][quote' # quote /\ ( \/ signal = "long" /\ 100 * quote'.buy < stop
                           \/ signal = "short" /\ 100 * quote'.sell > stop )
         => signal' = "flat"]_vars

=============================================================================
