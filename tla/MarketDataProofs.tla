------------------------- MODULE MarketDataProofs -------------------------
(***************************************************************************)
(* For every capacity, period and set of prices: the bars are contiguous   *)
(* and within the capacity, a strategy in a position has a stop, and an    *)
(* uninterrupted backfill fills the buffer.                                *)
(***************************************************************************)
EXTENDS MarketData, SumTheorems

\* Contiguous, counted from the first bar.
Numbered(bs) == \A i \in 1 .. Len(bs) : bs[i].time = bs[1].time + i - 1

\* Where the backfill that ends at last began.
Start(last) == IF last < Capacity THEN 1 ELSE last - Capacity + 1

FillBounds ==
    fill # Idle => /\ fill.last \in 1 .. clock
                   /\ fill.next \in Start(fill.last) .. fill.last + 1

\* What an uninterrupted backfill has added is there, and nothing is missing
\* between its first bar and the next one.
FillCovers ==
    fill # Idle /\ alone /\ fill.next > Start(fill.last) =>
        /\ bars # <<>>
        /\ bars[1].time <= Start(fill.last)
        /\ Last(bars).time >= fill.next - 1

StrategyOK(s) ==
    /\ s \in [signal : Signal, stop : Nat, crossed : {"none", "long", "short"}]
    /\ s.stop # 0 <=> s.signal \in {"long", "short"}
    /\ s.signal = "long" => s.crossed = "long"
    /\ s.signal = "short" => s.crossed = "short"

IInv == TypeOK /\ Numbered(bars) /\ StrategyOK(Strategy) /\ FillBounds /\ FillCovers

-----------------------------------------------------------------------------
(* The buffer *)

LEMMA BarTimes ==
    ASSUME NEW bs \in Seq(Bar)
    PROVE  \A i \in 1 .. Len(bs) : bs[i] \in Bar /\ bs[i].time \in Int
<1>1. \A bar \in Bar : bar.time \in Int
  BY BarsAssumption DEF Bar, Time
<1> QED
  BY <1>1

\* Appending a bar with the next time, dropping the oldest bar when it is full.
LEMMA PushNumbered ==
    ASSUME NEW bs \in Seq(Bar), Len(bs) <= Capacity, Numbered(bs), bs # <<>>,
           NEW bar \in Bar, bar.time = Last(bs).time + 1
    PROVE  /\ Push(bs, bar) \in Seq(Bar) /\ Push(bs, bar) # <<>>
           /\ Len(Push(bs, bar)) <= Capacity
           /\ Numbered(Push(bs, bar))
           /\ Last(Push(bs, bar)) = bar
           /\ \/ Push(bs, bar)[1].time = bs[1].time
              \/ Push(bs, bar)[1].time = bar.time - Capacity + 1
<1>1. /\ Len(bs) \in Nat \ {0} /\ Capacity \in Nat \ {0}
      /\ \A i \in 1 .. Len(bs) : bs[i] \in Bar
  BY BarsAssumption
<1>2. /\ \A i \in 1 .. Len(bs) : bs[i].time \in Int
      /\ bar.time = bs[1].time + Len(bs)
  <2>1. \A i \in 1 .. Len(bs) : bs[i].time \in Int
    BY BarTimes
  <2>2. bs[Len(bs)].time = bs[1].time + Len(bs) - 1
    BY <1>1 DEF Numbered
  <2> QED
    BY SMTT(30), <1>1, <2>1, <2>2 DEF Last
<1>3. CASE Len(bs) < Capacity
  <2> DEFINE new == Append(bs, bar)
  <2>1. /\ new \in Seq(Bar) /\ Len(new) = Len(bs) + 1
        /\ \A i \in 1 .. Len(bs) : new[i] = bs[i]
        /\ new[Len(bs) + 1] = bar
    BY <1>1
  <2>2. Push(bs, bar) = new
    BY <1>3 DEF Push
  <2> HIDE DEF new
  <2>3. new[1] = bs[1] /\ Last(new) = bar /\ new # <<>>
    BY <1>1, <2>1 DEF Last
  <2>4. \A i \in 1 .. Len(new) : new[i].time = new[1].time + i - 1
    <3> TAKE i \in 1 .. Len(new)
    <3>1. CASE i \in 1 .. Len(bs)
      BY <3>1, <2>1, <2>3 DEF Numbered
    <3>2. CASE i = Len(bs) + 1
      BY <1>1, <1>2, <3>2, <2>1, <2>3
    <3> QED
      BY <1>1, <2>1, <3>1, <3>2
  <2> QED
    BY <1>1, <1>3, <2>1, <2>2, <2>3, <2>4 DEF Numbered
<1>4. CASE Len(bs) = Capacity
  <2> DEFINE new == Append(Tail(bs), bar)
  <2>1. /\ new \in Seq(Bar) /\ Len(new) = Len(bs)
        /\ \A i \in 1 .. Len(bs) - 1 : new[i] = bs[i + 1]
        /\ new[Len(bs)] = bar
    BY <1>1
  <2>2. Push(bs, bar) = new
    BY <1>1, <1>4 DEF Push
  <2> HIDE DEF new
  <2>3. Last(new) = bar /\ new # <<>>
    BY <1>1, <2>1 DEF Last
  <2>4. \A i \in 1 .. Len(new) : new[i].time = bs[1].time + i
    <3> TAKE i \in 1 .. Len(new)
    <3>1. CASE i \in 1 .. Len(bs) - 1
      <4>1. i + 1 \in 1 .. Len(bs)
        BY <1>1, <3>1
      <4>2. bs[i + 1].time = bs[1].time + (i + 1) - 1
        BY <4>1 DEF Numbered
      <4> QED
        BY <1>1, <1>2, <3>1, <4>1, <4>2, <2>1
    <3>2. CASE i = Len(bs)
      BY <1>1, <1>2, <3>2, <2>1
    <3> QED
      BY <1>1, <2>1, <3>1, <3>2
  <2>5. Numbered(new) /\ new[1].time = bar.time - Capacity + 1
    <3>1. Len(new) \in Nat \ {0} /\ bs[1].time \in Int
      BY <1>1, <1>2, <2>1
    <3>2. new[1].time = bs[1].time + 1
      BY <2>4, <3>1
    <3>3. Numbered(new)
      BY <2>4, <3>1, <3>2 DEF Numbered
    <3>4. Len(bs) = Capacity /\ bar.time = bs[1].time + Len(bs)
      BY <1>1, <1>2, <1>4 DEF Numbered
    <3> QED
      BY <1>1, <3>1, <3>2, <3>3, <3>4
  <2> QED
    BY <1>1, <1>4, <2>1, <2>2, <2>3, <2>5
<1> QED
  BY <1>1, <1>3, <1>4

\* Whatever the buffer holds, a bar that is not in it becomes its last one; the
\* first one is the bar itself, the one before, or a buffer's length earlier.
LEMMA AddNumbered ==
    ASSUME NEW bs \in Seq(Bar), Len(bs) <= Capacity, Numbered(bs), NEW bar \in Bar
    PROVE  LET new == PushContiguous(bs, bar) IN
           /\ new \in Seq(Bar) /\ new # <<>> /\ Len(new) <= Capacity
           /\ Numbered(new)
           /\ Last(new) = bar
           /\ \/ /\ new[1].time = bar.time
                 /\ bs = <<>> \/ bar.time # Last(bs).time + 1
              \/ bs # <<>> /\ new[1].time = bs[1].time /\ bar.time = Last(bs).time + 1
              \/ new[1].time = bar.time - Capacity + 1
<1>1. Capacity \in Nat \ {0} /\ bar.time \in Int
  BY BarsAssumption DEF Bar, Time
<1>2. /\ <<bar>> \in Seq(Bar) /\ <<bar>> # <<>> /\ Len(<<bar>>) = 1
      /\ <<bar>>[1] = bar /\ Last(<<bar>>) = bar /\ Numbered(<<bar>>)
  BY <1>1 DEF Last, Numbered
<1>3. CASE bs # <<>> /\ bar.time # Last(bs).time + 1
  <2>1. PushContiguous(bs, bar) = <<bar>>
    BY <1>3 DEF PushContiguous
  <2> QED
    BY <1>1, <1>2, <1>3, <2>1
<1>4. CASE bs # <<>> /\ bar.time = Last(bs).time + 1
  <2>1. PushContiguous(bs, bar) = Push(bs, bar)
    BY <1>4 DEF PushContiguous
  <2> QED
    BY <1>4, <2>1, PushNumbered
<1>5. CASE bs = <<>>
  <2>1. PushContiguous(bs, bar) = <<bar>>
    BY <1>1, <1>5 DEF PushContiguous, Push
  <2> DEFINE new == PushContiguous(bs, bar)
  <2>2. /\ new \in Seq(Bar) /\ new # <<>> /\ Len(new) = 1
        /\ Numbered(new) /\ Last(new) = bar /\ new[1] = bar
    BY <1>2, <2>1
  <2>3. Len(new) <= Capacity /\ new[1].time = bar.time
    BY <1>1, <2>2
  <2> HIDE DEF new
  <2> SUFFICES /\ new \in Seq(Bar) /\ new # <<>> /\ Len(new) <= Capacity
               /\ Numbered(new) /\ Last(new) = bar /\ new[1].time = bar.time
    BY <1>5 DEF new
  <2> QED
    BY <2>2, <2>3
<1> QED
  BY <1>3, <1>4, <1>5

\* A time is found exactly when it is between the first and the last.
LEMMA FoundBetween ==
    ASSUME NEW bs \in Seq(Bar), Numbered(bs), bs # <<>>, NEW time \in Int
    PROVE  Found(bs, time) <=> bs[1].time <= time /\ time <= Last(bs).time
<1>1. Len(bs) \in Nat \ {0} /\ \A i \in 1 .. Len(bs) : bs[i].time \in Int
  BY BarTimes
<1>2. Last(bs).time = bs[1].time + Len(bs) - 1
  BY <1>1 DEF Last, Numbered
<1>3. ASSUME bs[1].time <= time, time <= Last(bs).time
      PROVE  Found(bs, time)
  <2> DEFINE i == time - bs[1].time + 1
  <2>1. i \in 1 .. Len(bs)
    BY <1>1, <1>2, <1>3
  <2>2. bs[i].time = time
    BY SMTT(30), <1>1, <2>1 DEF Numbered
  <2> QED
    BY <2>1, <2>2 DEF Found
<1>4. ASSUME Found(bs, time)
      PROVE  bs[1].time <= time /\ time <= Last(bs).time
  BY <1>1, <1>2, <1>4 DEF Found, Numbered
<1> QED
  BY <1>3, <1>4

-----------------------------------------------------------------------------
(* The strategy *)

LEMMA ProcessStopOK ==
    ASSUME NEW s, StrategyOK(s), NEW t
    PROVE  StrategyOK(ProcessStop(s, t))
<1>1. CASE s.stop # 0 /\ StopHit(s, t)
  <2>1. ProcessStop(s, t) = [s EXCEPT !.signal = "flat", !.stop = 0]
    BY <1>1 DEF ProcessStop
  <2>2. ProcessStop(s, t) = [signal |-> "flat", stop |-> 0, crossed |-> s.crossed]
    BY <2>1 DEF StrategyOK
  <2> QED
    BY <2>2 DEF StrategyOK, Signal
<1>2. CASE ~(s.stop # 0 /\ StopHit(s, t))
  BY <1>2 DEF ProcessStop
<1> QED
  BY <1>1, <1>2

LEMMA CrossOK ==
    ASSUME NEW s, StrategyOK(s), NEW bs, Last(bs) \in Bar
    PROVE  StrategyOK(Cross(s, bs))
<1>1. Last(bs).close \in Nat \ {0}
  BY PriceAssumption DEF Bar
<1>2. StrategyOK(GoLong(Last(bs).close)) /\ StrategyOK(GoShort(Last(bs).close))
  BY <1>1 DEF GoLong, GoShort, StrategyOK, Signal
<1>3. Cross(s, bs) \in {s, GoLong(Last(bs).close), GoShort(Last(bs).close)}
  BY DEF Cross
<1> QED
  BY <1>2, <1>3

\* The three variables of the strategy become those of s.
LEMMA StrategyBecomes ==
    ASSUME NEW s, BecomesStrategy(s), StrategyOK(s)
    PROVE  StrategyOK(Strategy')
<1>1. Strategy' = [signal |-> s.signal, stop |-> s.stop, crossed |-> s.crossed]
  BY DEF Strategy, BecomesStrategy
<1> QED
  BY <1>1 DEF StrategyOK

\* What add() does to the buffer and the strategy, whatever bar is added.
LEMMA AddInvariant ==
    ASSUME TypeOK, Numbered(bars), StrategyOK(Strategy), NEW time \in Time, AddSome(time)
    PROVE  /\ bars' \in Seq(Bar) /\ Len(bars') <= Capacity /\ Numbered(bars')
           /\ StrategyOK(Strategy')
           /\ bars' # <<>>
           /\ \/ Found(bars, time) /\ bars' = bars
              \/ /\ ~Found(bars, time) /\ Last(bars').time = time
                 /\ \/ /\ bars'[1].time = time
                       /\ bars = <<>> \/ time # Last(bars).time + 1
                    \/ /\ bars # <<>> /\ bars'[1].time = bars[1].time
                       /\ time = Last(bars).time + 1
                    \/ bars'[1].time = time - Capacity + 1
<1>1. PICK low, close, high \in Price : Add(time, low, high, close)
  BY DEF AddSome
<1> DEFINE bar == [time |-> time, close |-> close]
           new == PushContiguous(bars, bar)
           s   == Cross(ProcessStop(Strategy, TickerOfBar(low, high)), new)
<1>2. bar \in Bar /\ bar.time = time
  BY DEF Bar
<1>3. CASE Found(bars, time)
  <2>1. bars' = bars /\ Strategy' = Strategy
    BY <1>1, <1>3 DEF Add, strategyVars, Strategy
  <2>2. bars # <<>>
    BY <1>3 DEF Found
  <2> QED
    BY <1>3, <2>1, <2>2 DEF TypeOK
<1>4. CASE ~Found(bars, time)
  <2>1. bars' = new /\ BecomesStrategy(s)
    BY <1>1, <1>4 DEF Add
  <2>2. /\ new \in Seq(Bar) /\ new # <<>> /\ Len(new) <= Capacity
        /\ Numbered(new)
        /\ Last(new) = bar
        /\ \/ /\ new[1].time = time
              /\ bars = <<>> \/ time # Last(bars).time + 1
           \/ bars # <<>> /\ new[1].time = bars[1].time /\ time = Last(bars).time + 1
           \/ new[1].time = time - Capacity + 1
    <3> HIDE DEF bar
    <3> QED
      BY <1>2, AddNumbered DEF TypeOK
  <2>3. StrategyOK(s)
    <3> HIDE DEF bar, new
    <3> QED
      BY <1>2, <2>2, ProcessStopOK, CrossOK
  <2>4. StrategyOK(Strategy')
    <3> HIDE DEF s
    <3> QED
      BY <2>1, <2>3, StrategyBecomes
  <2> HIDE DEF bar, new, s
  <2> QED
    BY <1>2, <1>4, <2>1, <2>2, <2>4
<1> QED
  BY <1>3, <1>4

-----------------------------------------------------------------------------
(* The steps *)

LEMMA InitInvariant == Init => IInv
<1> SUFFICES ASSUME Init
             PROVE  IInv
  OBVIOUS
<1>1. TypeOK
  <2>1. alone \in BOOLEAN
    BY DEF Init
  <2>2. bars \in Seq(Bar) /\ Len(bars) <= Capacity
    BY BarsAssumption DEF Init
  <2> QED
    BY BarsAssumption, <2>1, <2>2 DEF Init, TypeOK, Time, Signal, Idle
<1>2. Numbered(bars)
  BY DEF Init, Numbered
<1>3. StrategyOK(Strategy)
  BY DEF Init, StrategyOK, Strategy, Signal
<1>4. FillBounds /\ FillCovers
  BY DEF Init, FillBounds, FillCovers
<1> QED
  BY <1>1, <1>2, <1>3, <1>4 DEF IInv

LEMMA StartBounds ==
    ASSUME NEW last \in Nat \ {0}
    PROVE  Start(last) \in 1 .. last /\ last - Capacity + 1 <= Start(last)
  BY BarsAssumption DEF Start

LEMMA BarInvariant ==
    ASSUME IInv, NEW time \in 1 .. clock, OnBar(time), kind' = kind
    PROVE  IInv'
<1>1. time \in Time
  BY BarsAssumption DEF IInv, TypeOK, Time
<1>2. /\ bars' \in Seq(Bar) /\ Len(bars') <= Capacity
      /\ Numbered(bars') /\ StrategyOK(Strategy')
  BY <1>1, AddInvariant DEF IInv, OnBar
<1>3. TypeOK'
  <2>1. (signal \in Signal /\ stop \in Nat /\ crossed \in {"none", "long", "short"})'
    BY <1>2 DEF StrategyOK, Strategy
  <2>2. alone' \in BOOLEAN
    BY DEF OnBar
  <2> QED
    BY <1>2, <2>1, <2>2 DEF IInv, TypeOK, OnBar
<1>4. FillBounds' /\ FillCovers'
  BY DEF IInv, OnBar, FillBounds, FillCovers
<1> QED
  BY <1>2, <1>3, <1>4 DEF IInv

LEMMA BackfillBarInvariant ==
    ASSUME IInv, BackfillBar, kind' = kind
    PROVE  IInv'
<1> DEFINE time == fill.next
           start == Start(fill.last)
<1>1. /\ fill # Idle /\ fill \in [next : Nat, last : Nat]
      /\ fill.last \in 1 .. clock /\ time \in start .. fill.last
      /\ start \in 1 .. fill.last /\ fill.last - Capacity + 1 <= start
      /\ clock \in 1 .. MaxTime /\ MaxTime \in Nat /\ Capacity \in Nat \ {0}
  BY BarsAssumption, StartBounds DEF IInv, TypeOK, BackfillBar, FillBounds, Idle, Time
<1>2. time \in Time
  BY <1>1 DEF Time
<1>3. /\ bars' \in Seq(Bar) /\ Len(bars') <= Capacity
      /\ Numbered(bars') /\ StrategyOK(Strategy') /\ bars' # <<>>
      /\ \/ Found(bars, time) /\ bars' = bars
         \/ /\ ~Found(bars, time) /\ Last(bars').time = time
            /\ \/ /\ bars'[1].time = time
                  /\ bars = <<>> \/ time # Last(bars).time + 1
               \/ /\ bars # <<>> /\ bars'[1].time = bars[1].time
                  /\ time = Last(bars).time + 1
               \/ bars'[1].time = time - Capacity + 1
  <2> HIDE DEF time
  <2> QED
    BY <1>2, AddInvariant DEF IInv, BackfillBar, time
<1>4. fill' = [next |-> time + 1, last |-> fill.last]
  BY <1>1 DEF BackfillBar
<1>5. TypeOK'
  <2>1. (signal \in Signal /\ stop \in Nat /\ crossed \in {"none", "long", "short"})'
    BY <1>3 DEF StrategyOK, Strategy
  <2>2. alone' \in BOOLEAN
    BY DEF BackfillBar, IInv, TypeOK
  <2> QED
    BY SMTT(30), <1>1, <1>3, <1>4, <2>1, <2>2 DEF IInv, TypeOK, BackfillBar
<1>6. FillBounds'
  BY <1>1, <1>4 DEF FillBounds, BackfillBar
<1>7. FillCovers'
  <2> SUFFICES ASSUME alone
               PROVE  bars'[1].time <= start /\ Last(bars').time >= time
    BY <1>3, <1>4, <1>1 DEF FillCovers, BackfillBar
  <2>1. bars' # <<>> => bars'[1].time \in Int /\ Last(bars').time \in Int
    BY <1>3, BarTimes DEF Last
  <2>2. bars # <<>> => /\ bars[1].time \in Int /\ Last(bars).time \in Int
                       /\ bars[1].time <= Last(bars).time
                       /\ Found(bars, time) <=>
                             bars[1].time <= time /\ time <= Last(bars).time
    <3> SUFFICES ASSUME bars # <<>>
                 PROVE  /\ bars[1].time \in Int /\ Last(bars).time \in Int
                        /\ bars[1].time <= Last(bars).time
                        /\ Found(bars, time) <=>
                              bars[1].time <= time /\ time <= Last(bars).time
      OBVIOUS
    <3>1. bars \in Seq(Bar) /\ Numbered(bars) /\ Len(bars) \in Nat \ {0}
      BY DEF IInv, TypeOK
    <3>2. bars[1].time \in Int /\ Last(bars).time = bars[1].time + Len(bars) - 1
      BY <3>1, BarTimes DEF Numbered, Last
    <3> QED
      BY <1>1, <3>1, <3>2, FoundBetween
  <2>3. time > start => /\ bars # <<>> /\ bars[1].time <= start
                        /\ Last(bars).time >= time - 1
    BY <1>1 DEF IInv, FillCovers
  <2> HIDE DEF time, start
  <2>4. CASE Found(bars, time) /\ bars' = bars
    BY <1>1, <1>3, <2>2, <2>3, <2>4
  <2>5. CASE ~Found(bars, time)
    <3>1. Last(bars').time = time
      BY <1>3, <2>5
    <3>2. CASE time = start
      BY <1>1, <1>3, <2>1, <2>2, <2>5, <3>1, <3>2
    <3>3. CASE time > start
      <4>1. bars # <<>> /\ bars[1].time <= start /\ time = Last(bars).time + 1
        BY <1>1, <2>2, <2>3, <2>5, <3>3
      <4>2. \/ bars'[1].time = bars[1].time
            \/ bars'[1].time = time - Capacity + 1
        BY <1>3, <2>5, <4>1
      <4>3. /\ bars[1].time \in Int /\ bars[1].time <= start
            /\ time <= fill.last /\ fill.last - Capacity + 1 <= start
            /\ time \in Int /\ fill.last \in Int /\ start \in Int /\ Capacity \in Int
        BY <1>1, <2>2, <4>1
      <4>4. time - Capacity + 1 <= start
        BY <4>3
      <4>5. bars'[1].time <= start
        BY <4>2, <4>3, <4>4
      <4> QED
        BY <1>1, <3>1, <4>5
    <3> QED
      BY <1>1, <3>2, <3>3
  <2> QED
    BY <1>3, <2>4, <2>5
<1> QED
  BY <1>3, <1>5, <1>6, <1>7 DEF IInv

LEMMA StepInvariant == IInv /\ [Next]_vars => IInv'
<1> SUFFICES ASSUME IInv, [Next]_vars
             PROVE  IInv'
  OBVIOUS
<1>0. kind' = kind
  BY DEF Next, vars
<1>1. ASSUME UNCHANGED <<bars, strategyVars>>
      PROVE  Numbered(bars') /\ StrategyOK(Strategy')
  BY <1>1 DEF IInv, strategyVars, Strategy
<1>2. CASE ClockTicks
  <2>1. alone' \in BOOLEAN
    BY <1>2 DEF ClockTicks, IInv, TypeOK
  <2>2. TypeOK'
    BY <1>0, <1>2, <2>1, BarsAssumption DEF ClockTicks, IInv, TypeOK, Time, strategyVars
  <2>3. FillBounds'
    BY <1>2, BarsAssumption DEF ClockTicks, IInv, TypeOK, Time, FillBounds
  <2>4. FillCovers'
    BY <1>2 DEF ClockTicks, IInv, FillCovers
  <2> QED
    BY <1>1, <1>2, <2>2, <2>3, <2>4 DEF ClockTicks, IInv
<1>3. ASSUME NEW time \in 1 .. clock, OnBar(time)
      PROVE  IInv'
  BY <1>0, <1>3, BarInvariant
<1>4. ASSUME NEW q \in Quote, OnTicker(q)
      PROVE  IInv'
  <2>1. StrategyOK(Strategy')
    BY <1>4, ProcessStopOK, StrategyBecomes DEF OnTicker, IInv
  <2>2. alone' \in BOOLEAN
    BY <1>4 DEF OnTicker, IInv, TypeOK
  <2>3. (signal \in Signal /\ stop \in Nat /\ crossed \in {"none", "long", "short"})'
    BY <2>1 DEF StrategyOK, Strategy
  <2>4. TypeOK'
    BY <1>0, <1>4, <2>2, <2>3 DEF OnTicker, IInv, TypeOK
  <2> QED
    BY <1>4, <2>1, <2>4 DEF OnTicker, IInv, FillBounds, FillCovers
<1>5. CASE Backfill
  <2>1. alone' \in BOOLEAN
    BY <1>5 DEF Backfill
  <2>2. /\ clock \in Nat \ {0} /\ Capacity \in Nat \ {0}
        /\ fill' = [next |-> Start(clock), last |-> clock]
    BY <1>5, BarsAssumption DEF Backfill, IInv, TypeOK, Time, Requested, Start
  <2>3. Start(clock) \in 1 .. clock
    BY <2>2, StartBounds
  <2>4. TypeOK'
    BY <1>0, <1>5, <2>1, <2>2, <2>3 DEF Backfill, IInv, TypeOK, strategyVars
  <2>5. FillBounds' /\ FillCovers'
    BY <1>5, <2>2, <2>3 DEF Backfill, FillBounds, FillCovers
  <2> QED
    BY <1>1, <1>5, <2>4, <2>5 DEF Backfill, IInv
<1>6. CASE BackfillBar
  BY <1>0, <1>6, BackfillBarInvariant
<1>7. CASE BackfillEnds
  <2>1. alone' \in BOOLEAN
    BY <1>7 DEF BackfillEnds
  <2>2. TypeOK'
    BY <1>0, <1>7, <2>1 DEF BackfillEnds, IInv, TypeOK, strategyVars, Idle
  <2> QED
    BY <1>1, <1>7, <2>2 DEF BackfillEnds, IInv, FillBounds, FillCovers
<1>8. CASE UNCHANGED vars
  <2>1. alone' \in BOOLEAN
    BY <1>8 DEF vars, IInv, TypeOK
  <2>2. TypeOK'
    BY <1>8, <2>1 DEF vars, IInv, TypeOK
  <2>3. FillBounds' /\ FillCovers'
    BY <1>8 DEF vars, IInv, FillBounds, FillCovers
  <2> QED
    BY <1>1, <1>8, <2>2, <2>3 DEF vars, strategyVars, IInv
<1> QED
  BY <1>2, <1>3, <1>4, <1>5, <1>6, <1>7, <1>8 DEF Next

-----------------------------------------------------------------------------
(* The crosses *)

\* Both averages, and the distance from the bands, are integers, so that at most
\* one of the two crosses is there.
LEMMA AtMostOneCross ==
    ASSUME NEW bs \in Seq(Bar), AllIndisSet(bs)
    PROVE  ~(LongCross(bs) /\ ShortCross(bs))
<1>1. ASSUME NEW n \in 1 .. Len(bs)
      PROVE  /\ IsFiniteSet(Recent(bs, n))
             /\ \A i \in Recent(bs, n) : bs[i].close \in Nat
             /\ Last(bs).close \in Nat
  <2>1. Recent(bs, n) \subseteq 1 .. Len(bs) /\ IsFiniteSet(Recent(bs, n))
    <3>1. Len(bs) \in Nat /\ n \in Int /\ Len(bs) - n + 1 >= 1
      OBVIOUS
    <3> QED
      BY <3>1, FS_Interval DEF Recent
  <2>2. \A i \in 1 .. Len(bs) : bs[i].close \in Nat
    <3>1. \A bar \in Bar : bar.close \in Nat
      BY PriceAssumption DEF Bar
    <3> QED
      BY <3>1
  <2>3. Last(bs).close \in Nat
    BY <2>2 DEF Last
  <2> QED
    BY <2>1, <2>2, <2>3
<1>2. ASSUME NEW n \in 1 .. Len(bs)
      PROVE  Sum(bs, n) \in Int
  <2> DEFINE f == [i \in Recent(bs, n) |-> bs[i].close \div Unit]
  <2>1. \A i \in Recent(bs, n) : f[i] \in Int
    BY <1>1, PriceAssumption
  <2>2. DOMAIN f = Recent(bs, n)
    OBVIOUS
  <2> HIDE DEF f
  <2>3. SumFunction(f) \in Int
    BY <1>1, <2>1, <2>2, SumIsInt DEF SumFunction
  <2> QED
    BY <2>3 DEF f, Sum
<1>3. ASSUME Period \in 1 .. Len(bs)
      PROVE  Below(bs) \in Int
  <2> DEFINE f == [i \in Recent(bs, Period) |-> bs[i].close - Last(bs).close]
  <2>1. \A i \in Recent(bs, Period) : f[i] \in Int
    BY <1>1, <1>3
  <2>2. DOMAIN f = Recent(bs, Period)
    OBVIOUS
  <2> HIDE DEF f
  <2>3. SumFunction(f) \in Int
    BY <1>1, <1>3, <2>1, <2>2, SumIsInt DEF SumFunction
  <2> QED
    BY <2>3 DEF f, Below
<1>4. CASE kind = "BBands"
  <2>1. Below(bs) \in Int
    BY <1>3, <1>4, BandsAssumption DEF AllIndisSet
  <2> QED
    BY <1>4, <2>1 DEF LongCross, ShortCross
<1>5. CASE kind # "BBands"
  <2>1. Fast \in 1 .. Len(bs) /\ Slow \in 1 .. Len(bs)
    BY <1>5, AveragesAssumption DEF AllIndisSet
  <2>2. Sum(bs, Fast) * Slow \in Int /\ Sum(bs, Slow) * Fast \in Int
    BY <1>2, <2>1
  <2> QED
    BY <1>5, <2>2 DEF LongCross, ShortCross, FastAbove, FastBelow
<1> QED
  BY <1>4, <1>5

\* After apply() the position of the last cross is the one the bars ask for.
LEMMA CrossFollowed ==
    ASSUME NEW s, NEW bs \in Seq(Bar), AllIndisSet(bs)
    PROVE  /\ LongCross(bs) => Cross(s, bs).crossed = "long"
           /\ ShortCross(bs) => Cross(s, bs).crossed = "short"
  BY AtMostOneCross DEF Cross, GoLong, GoShort

\* A bar that is added is acted on in the same step.
LEMMA AddFollowed ==
    ASSUME IInv, CrossNotMissed, NEW time \in Time, AddSome(time), kind' = kind
    PROVE  CrossNotMissed'
<1>1. PICK low, close, high \in Price : Add(time, low, high, close)
  BY DEF AddSome
<1>2. CASE Found(bars, time)
  BY <1>1, <1>2 DEF Add, strategyVars, CrossNotMissed, AllIndisSet, LongCross, ShortCross
<1>3. CASE ~Found(bars, time)
  <2> DEFINE s == ProcessStop(Strategy, TickerOfBar(low, high))
             new == PushContiguous(bars, [time |-> time, close |-> close])
  <2>1. bars' = new /\ crossed' = Cross(s, new).crossed
    BY <1>1, <1>3 DEF Add, BecomesStrategy
  <2>2. new \in Seq(Bar)
    BY <2>1, AddInvariant DEF IInv
  <2> HIDE DEF s, new
  <2>3. AllIndisSet(new) =>
          /\ LongCross(new) => Cross(s, new).crossed = "long"
          /\ ShortCross(new) => Cross(s, new).crossed = "short"
    BY <2>2, CrossFollowed
  <2> QED
    BY <2>1, <2>3 DEF CrossNotMissed, AllIndisSet, LongCross, ShortCross
<1> QED
  BY <1>2, <1>3

-----------------------------------------------------------------------------
\* For every capacity and every order in which bars arrive, MktData::add() keeps
\* the buffer within its capacity and each value in its type.
THEOREM MarketTypeCorrect == Spec => []TypeOK
<1>1. IInv => TypeOK
  BY DEF IInv
<1> QED
  BY InitInvariant, StepInvariant, <1>1, PTL DEF Spec

\* No two neighbouring bars of the buffer ever have a gap between them.
THEOREM BarsContiguous == Spec => []Contiguous
<1>1. IInv => Contiguous
  <2> SUFFICES ASSUME IInv, NEW i \in 1 .. Len(bars) - 1
               PROVE  bars[i + 1].time = bars[i].time + 1
    BY DEF Contiguous
  <2>1. bars \in Seq(Bar) /\ Len(bars) \in Nat /\ Numbered(bars)
    BY DEF IInv, TypeOK
  <2>2. 1 \in 1 .. Len(bars) /\ i \in 1 .. Len(bars) /\ i + 1 \in 1 .. Len(bars)
    BY <2>1
  <2>3. bars[1].time \in Int
    BY <2>1, <2>2, BarTimes
  <2> QED
    BY <2>1, <2>2, <2>3 DEF Numbered
<1> QED
  BY InitInvariant, StepInvariant, <1>1, PTL DEF Spec

\* A strategy has a stop exactly while it is in a position, and the position is
\* the one of its last cross.
THEOREM PositionAlwaysHasStop == Spec => []PositionHasStop
<1>1. IInv => PositionHasStop
  BY DEF IInv, StrategyOK, Strategy, PositionHasStop
<1> QED
  BY InitInvariant, StepInvariant, <1>1, PTL DEF Spec

\* Whatever bars come in which order, and whichever are thrown away at a gap, the
\* last cross that the strategy acted on is the one that the bars it holds show: one
\* that came while a stop was hit, or while bars were replaced, is not missed.
THEOREM NoCrossMissed == Spec => []CrossNotMissed
<1>1. Init => CrossNotMissed
  BY AveragesAssumption, BandsAssumption DEF Init, CrossNotMissed, AllIndisSet
<1>2. IInv /\ CrossNotMissed /\ [Next]_vars => CrossNotMissed'
  <2> SUFFICES ASSUME IInv, CrossNotMissed, [Next]_vars
               PROVE  CrossNotMissed'
    OBVIOUS
  <2>1. kind' = kind /\ clock \in Time
    BY DEF Next, vars, IInv, TypeOK
  <2>2. ASSUME UNCHANGED <<bars, crossed>>
        PROVE  CrossNotMissed'
    BY <2>1, <2>2 DEF CrossNotMissed, AllIndisSet, LongCross, ShortCross
  <2>3. ASSUME NEW time \in 1 .. clock, OnBar(time)
        PROVE  CrossNotMissed'
    <3>1. time \in Time
      BY <2>1, BarsAssumption DEF Time
    <3> QED
      BY <2>1, <2>3, <3>1, AddFollowed DEF OnBar
  <2>4. CASE BackfillBar
    <3>1. fill.next \in Time
      <4>1. fill # Idle /\ fill.next \in Nat \ {0} /\ fill.last \in 1 .. clock
        BY <2>1, <2>4, StartBounds DEF BackfillBar, Idle, IInv, FillBounds, TypeOK, Time
      <4> QED
        BY <2>1, <2>4, <4>1, BarsAssumption DEF BackfillBar, Time
    <3> QED
      BY <2>1, <2>4, <3>1, AddFollowed DEF BackfillBar
  <2>5. ASSUME NEW q \in Quote, OnTicker(q)
        PROVE  CrossNotMissed'
    <3>1. crossed' = crossed
      BY <2>5 DEF OnTicker, BecomesStrategy, ProcessStop, Strategy
    <3> QED
      BY <2>2, <2>5, <3>1 DEF OnTicker
  <2>6. CASE ClockTicks \/ Backfill \/ BackfillEnds \/ UNCHANGED vars
    BY <2>2, <2>6 DEF ClockTicks, Backfill, BackfillEnds, vars, strategyVars
  <2> QED
    BY <2>3, <2>4, <2>5, <2>6 DEF Next
<1> QED
  BY InitInvariant, StepInvariant, <1>1, <1>2, PTL DEF Spec

\* Whatever the buffer held, an uninterrupted backfill leaves all its bars there.
THEOREM BackfillAlwaysRestores == Spec => []BackfillRestores
<1>1. IInv => BackfillRestores
  <2> SUFFICES ASSUME IInv, fill # Idle, alone, fill.next > fill.last,
                      NEW time \in Time, time <= fill.last, time > fill.last - Capacity
               PROVE  Found(bars, time)
    BY DEF BackfillRestores
  <2>1. /\ fill.last \in Nat \ {0} /\ fill.next = fill.last + 1 /\ time \in Nat \ {0}
        /\ Capacity \in Nat \ {0}
    <3>1. /\ clock \in Nat /\ fill.last \in Nat \ {0} /\ Capacity \in Nat \ {0}
          /\ time \in Nat \ {0}
      BY BarsAssumption DEF IInv, FillBounds, TypeOK, Time
    <3>2. fill.next \in Start(fill.last) .. fill.last + 1 /\ Start(fill.last) \in Int
      BY <3>1, StartBounds DEF IInv, FillBounds
    <3> QED
      BY <3>1, <3>2
  <2>2. Start(fill.last) \in 1 .. fill.last /\ Start(fill.last) <= time
    BY <2>1 DEF Start
  <2>3. /\ bars # <<>> /\ bars[1].time <= Start(fill.last)
        /\ Last(bars).time >= fill.last
    BY <2>1, <2>2 DEF IInv, FillCovers
  <2>4. bars \in Seq(Bar) /\ Numbered(bars) /\ Len(bars) \in Nat \ {0}
    BY <2>3 DEF IInv, TypeOK
  <2>5. bars[1].time \in Int /\ Last(bars).time \in Int
    BY <2>4, BarTimes DEF Last
  <2>6. bars[1].time <= time /\ time <= Last(bars).time
    BY <2>1, <2>2, <2>3, <2>5
  <2> QED
    BY <2>1, <2>3, <2>4, <2>6, FoundBetween
<1> QED
  BY InitInvariant, StepInvariant, <1>1, PTL DEF Spec

=============================================================================
