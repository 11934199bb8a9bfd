----------------------- MODULE PositionPromiseProofs -----------------------
(***************************************************************************)
(* For every maximum: the plan of manage_positions() leads to the desired  *)
(* position, and an exchange that lets at most one order work at a time    *)
(* never takes the net position past the maximum.                          *)
(***************************************************************************)
EXTENDS PositionPromise, TLAPS

-----------------------------------------------------------------------------
(* The plan *)

\* A plan's two orders, filled completely, lead exactly to the desired position,
\* and a plan that needs no order is made only at the desired position.
THEOREM PlanReachesDesired ==
    ASSUME NEW current \in Int, NEW desired \in Int
    PROVE  current - ContractsToClose(current, desired)
                   + ContractsToOpen(current, desired) = desired
  BY DEF ContractsToClose, ContractsToOpen, Reverses, Abs

\* A close is never larger than the position and has its sign, and an open goes
\* in the direction of the desired position: manage_positions() never asks the
\* exchange to close contracts that are not held.
LEMMA CloseWithinPosition ==
    ASSUME NEW current \in Int, NEW desired \in Int
    PROVE  LET close == ContractsToClose(current, desired) IN
           /\ close \in Int
           /\ close > 0 => close <= current
           /\ close < 0 => current <= close
           /\ current - close \in Int
  BY DEF ContractsToClose, Reverses, Abs

\* Between the position held and the desired one lies every position that the
\* two orders of a plan, filled in any part, can produce.
LEMMA PlanStaysWithin ==
    ASSUME NEW max \in Nat, NEW current \in -max .. max, NEW desired \in -max .. max
    PROVE  LET close == ContractsToClose(current, desired)
               open  == ContractsToOpen(current, desired) IN
           /\ open \in Int
           /\ current - close \in -max .. max
           /\ current + open \in -max .. max
           /\ current - close + open \in -max .. max
  BY DEF ContractsToClose, ContractsToOpen, Reverses, Abs

\* A quotient that is within a maximum stays within it when it is rounded to zero.
LEMMA TruncatedWithin ==
    ASSUME NEW max \in Nat, NEW den \in Nat \ {0}, NEW x \in Int,
           x <= den * max, -x <= den * max
    PROVE  Truncated(x, den) \in -max .. max
<1>1. ASSUME NEW a \in Nat, a <= den * max
      PROVE  a \div den \in 0 .. max
  BY <1>1
<1>2. CASE x >= 0
  BY <1>1, <1>2 DEF Truncated
<1>3. CASE x < 0
  <2>1. -x \in Nat
    BY <1>3
  <2>2. (-x) \div den \in 0 .. max
    BY <1>1, <2>1
  <2> QED
    BY <1>3, <2>2 DEF Truncated
<1> QED
  BY <1>2, <1>3

\* What a signal between -1 and 1 asks for is within the maximum, with the option
\* "contracts" and with the option "equity".
THEOREM DesiredWithinMax ==
    ASSUME NEW den \in Nat \ {0}, NEW num \in -den .. den
    PROVE  /\ DesiredContracts(num, den) \in -MaxContracts .. MaxContracts
           /\ \A e \in 0 .. 100 * MaxContracts :
                 DesiredOfExposure(num, den, e) \in -MaxContracts .. MaxContracts
<1>1. MaxContracts \in Nat
  BY ContractsAssumption
<1>2. DesiredContracts(num, den) \in -MaxContracts .. MaxContracts
  <2>1. /\ num * MaxContracts \in Int
        /\ num * MaxContracts <= den * MaxContracts
        /\ -(num * MaxContracts) <= den * MaxContracts
    BY <1>1
  <2> QED
    BY <1>1, <2>1, TruncatedWithin DEF DesiredContracts
<1>3. ASSUME NEW e \in 0 .. 100 * MaxContracts
      PROVE  DesiredOfExposure(num, den, e) \in -MaxContracts .. MaxContracts
  <2>1. /\ num * e \in Int /\ e \in Nat
        /\ num * e <= den * e
        /\ -(num * e) <= den * e
    BY <1>1
  <2>2. den * e <= den * (100 * MaxContracts)
    BY <1>1, <2>1
  <2>3. den * (100 * MaxContracts) = (den * 100) * MaxContracts
    BY <1>1
  <2>4. /\ den * e \in Int /\ (den * 100) * MaxContracts \in Int
        /\ den * 100 \in Nat \ {0}
    BY <1>1, <2>1
  <2>5. /\ num * e <= (den * 100) * MaxContracts
        /\ -(num * e) <= (den * 100) * MaxContracts
    BY <2>1, <2>2, <2>3, <2>4
  <2> QED
    BY <1>1, <2>1, <2>4, <2>5, TruncatedWithin DEF DesiredOfExposure
<1> QED
  BY <1>2, <1>3

-----------------------------------------------------------------------------
(* The inductive invariant *)

\* What the working order does to the net position when it trades completely.
Effect(w) == IF w.type \in {"OpenLong", "CloseShort"} THEN w.left ELSE -w.left

Within(x) == x \in -MaxContracts .. MaxContracts

\* The net position is within the maximum now, when the working order has traded,
\* when the pass's open has traded, and when both have: whatever is dropped or
\* abandoned, and wherever an order stops half way, is between these.
WithinMax ==
    /\ Within(NetOf(account))
    /\ Within(NetOf(account) + Effect(working))
    /\ Within(NetOf(account) + next)
    /\ Within(NetOf(account) + Effect(working) + next)

IInv == TypeOK /\ WithinMax

LEMMA InitInvariant == Init => IInv
  BY ContractsAssumption
     DEF Init, IInv, TypeOK, WithinMax, Within, NetOf, Effect, Nothing, Side

\* A pass starts with nothing working, so its orders are sized by the account.
LEMMA PlanInvariant ==
    ASSUME IInv, NEW desired \in -MaxContracts .. MaxContracts, Plan(desired)
    PROVE  IInv'
<1> DEFINE net   == NetOf(account)
           close == ContractsToClose(net, desired)
           open  == ContractsToOpen(net, desired)
<1>1. /\ account \in [long : Nat, short : Nat]
      /\ net \in -MaxContracts .. MaxContracts
      /\ net = account.long - account.short
      /\ working = Nothing /\ next = 0 /\ account' = account
      /\ MaxContracts \in Nat
  BY ContractsAssumption DEF IInv, TypeOK, WithinMax, Within, Plan, NetOf
<1>2. /\ open \in Int
      /\ Within(net - close) /\ Within(net + open) /\ Within(net - close + open)
  BY <1>1, PlanStaysWithin DEF Within
<1>3. /\ close \in Int
      /\ close > 0 => close <= net
      /\ close < 0 => net <= close
  <2>1. net \in Int /\ desired \in Int
    BY <1>1
  <2> HIDE DEF net
  <2> QED
    BY <2>1, CloseWithinPosition
<1>4. CASE close # 0
  <2>1. working' = Working(ClosingType(close), Abs(close)) /\ next' = open
    BY <1>4 DEF Plan
  <2>2. Abs(close) \in Nat /\ Abs(close) # 0
    BY <1>3, <1>4 DEF Abs
  <2>3. working' = [type |-> ClosingType(close), left |-> Abs(close)]
    BY <2>1, <2>2 DEF Working
  <2>4. TypeOK'
    BY <1>1, <1>2, <1>3, <1>4, <2>1, <2>2, <2>3 DEF TypeOK, ClosingType, Abs, Side, NetOf
  <2>5. Effect(working') = -close
    BY <1>3, <1>4, <2>3 DEF Effect, ClosingType, Abs
  <2>6. NetOf(account') = net /\ next' = open
    BY <1>1, <2>1
  <2>7. WithinMax'
    BY <1>1, <1>2, <1>3, <2>5, <2>6 DEF WithinMax, Within
  <2> QED
    BY <2>4, <2>7 DEF IInv
<1>5. CASE close = 0
  <2>1. working' = Working(OpeningType(open), Abs(open)) /\ next' = 0
    BY <1>5 DEF Plan
  <2>2. Abs(open) \in Nat /\ (Abs(open) = 0 <=> open = 0)
    BY <1>2 DEF Abs
  <2>3. working' = IF open = 0 THEN Nothing
                   ELSE [type |-> OpeningType(open), left |-> Abs(open)]
    BY <2>1, <2>2 DEF Working
  <2>4. TypeOK'
    BY <1>1, <1>2, <2>1, <2>2, <2>3 DEF TypeOK, OpeningType, Side, Nothing
  <2>5. Effect(working') = open
    BY <1>2, <2>3 DEF Effect, OpeningType, Abs, Nothing
  <2>6. NetOf(account') = net /\ next' = 0
    BY <1>1, <2>1
  <2>7. WithinMax'
    BY <1>1, <1>2, <2>5, <2>6 DEF WithinMax, Within
  <2> QED
    BY <2>4, <2>7 DEF IInv
<1> QED
  BY <1>4, <1>5

\* k contracts of the working order move the net position k towards its effect.
LEMMA FillInvariant ==
    ASSUME IInv, NEW k \in 1 .. working.left, Fill(k)
    PROVE  IInv'
<1>1. /\ account \in [long : Nat, short : Nat]
      /\ working \in [type : Side, left : Nat]
      /\ next \in Int /\ next' = next
      /\ account' = After(account, working.type, k)
      /\ working' = Working(working.type, working.left - k)
      /\ k \in Nat /\ k <= working.left /\ MaxContracts \in Nat
      /\ working.type = "CloseLong" => working.left <= account.long
      /\ working.type = "CloseShort" => working.left <= account.short
  BY ContractsAssumption DEF IInv, TypeOK, Fill
<1>2. /\ account' \in [long : Nat, short : Nat]
      /\ NetOf(account') = NetOf(account) + (Effect(working) - Effect(working'))
      /\ working.type = "CloseLong" => working.left - k <= account'.long
      /\ working.type = "CloseShort" => working.left - k <= account'.short
  BY <1>1 DEF After, NetOf, Effect, Working, Nothing, Side
<1>3. /\ NetOf(account) \in Int
      /\ \/ 0 <= Effect(working') /\ Effect(working') <= Effect(working)
         \/ Effect(working) <= Effect(working') /\ Effect(working') <= 0
      /\ Effect(working) \in Int /\ Effect(working') \in Int
  BY <1>1 DEF NetOf, Effect, Working, Nothing, Side
<1>4. TypeOK'
  BY <1>1, <1>2 DEF TypeOK, Working, Nothing, Side
<1>5. WithinMax'
  BY <1>1, <1>2, <1>3 DEF IInv, WithinMax, Within
<1> QED
  BY <1>4, <1>5 DEF IInv

LEMMA StepInvariant == IInv /\ [Next]_promiseVars => IInv'
<1> SUFFICES ASSUME IInv, [Next]_promiseVars
             PROVE  IInv'
  OBVIOUS
<1>1. ASSUME NEW desired \in -MaxContracts .. MaxContracts, Plan(desired)
      PROVE  IInv'
  BY <1>1, PlanInvariant
<1>2. ASSUME NEW k \in 1 .. working.left, Fill(k)
      PROVE  IInv'
  BY <1>2, FillInvariant
<1>3. CASE Drop
  <2>1. TypeOK'
    BY <1>3 DEF IInv, TypeOK, Drop, Nothing, Side
  <2>2. WithinMax'
    BY <1>3, ContractsAssumption
       DEF IInv, TypeOK, WithinMax, Within, Drop, Nothing, Effect, NetOf
  <2> QED
    BY <2>1, <2>2 DEF IInv
<1>4. CASE OpenNext
  <2>1. Abs(next) \in Nat /\ Abs(next) # 0
    BY <1>4 DEF IInv, TypeOK, OpenNext, Abs
  <2>2. working' = [type |-> OpeningType(next), left |-> Abs(next)]
    BY <1>4, <2>1 DEF OpenNext, Working
  <2>3. TypeOK'
    BY <1>4, <2>1, <2>2 DEF IInv, TypeOK, OpenNext, OpeningType, Side
  <2>4. Effect(working') = next
    BY <1>4, <2>2 DEF IInv, TypeOK, OpenNext, Effect, OpeningType, Abs
  <2>5. WithinMax'
    BY <1>4, <2>4 DEF IInv, TypeOK, WithinMax, Within, OpenNext, NetOf
  <2> QED
    BY <2>3, <2>5 DEF IInv
<1>5. CASE Abandon
  <2>1. TypeOK'
    BY <1>5 DEF IInv, TypeOK, Abandon
  <2>2. WithinMax'
    BY <1>5 DEF IInv, TypeOK, WithinMax, Within, Abandon, NetOf, Effect, Side
  <2> QED
    BY <2>1, <2>2 DEF IInv
<1>6. CASE UNCHANGED promiseVars
  BY <1>6 DEF IInv, TypeOK, WithinMax, promiseVars
<1> QED
  BY <1>1, <1>2, <1>3, <1>4, <1>5, <1>6 DEF Next

-----------------------------------------------------------------------------
\* The account and the working order are always well formed; in particular no
\* order closes more contracts than are held.
THEOREM PromiseTypeCorrect == Spec => []TypeOK
<1>1. IInv => TypeOK
  BY DEF IInv
<1> QED
  BY InitInvariant, StepInvariant, <1>1, PTL DEF Spec

\* Whichever signals come, and whichever orders are filled in part, rejected,
\* cancelled or abandoned, the net position stays within the maximum.
THEOREM PromiseNetWithinMax == Spec => []NetWithinMax
<1>1. IInv => NetWithinMax
  BY ContractsAssumption DEF IInv, WithinMax, Within, NetWithinMax, Abs, TypeOK, NetOf
<1> QED
  BY InitInvariant, StepInvariant, <1>1, PTL DEF Spec

=============================================================================
