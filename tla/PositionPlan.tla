--------------------------- MODULE PositionPlan ---------------------------
(***************************************************************************)
(* The arithmetic of OKCoinFutsHandler::manage_positions(): how many       *)
(* contracts a signal asks for, and which orders lead there from the       *)
(* position that is held.  Negative contracts are short contracts.         *)
(***************************************************************************)
EXTENDS Integers

CONSTANT MaxContracts \* the option "contracts", or the most that "equity" allows
ASSUME ContractsAssumption == MaxContracts \in Nat

Abs(x) == IF x < 0 THEN -x ELSE x

\* static_cast<int> of the quotient a / b, b > 0: rounded towards zero.
Truncated(a, b) == IF a >= 0 THEN a \div b ELSE -((-a) \div b)

\* The option "contracts": the signal num/den, in [-1, 1], scales the maximum.
DesiredContracts(num, den) == Truncated(num * MaxContracts, den)

\* The option "equity": it scales an exposure in dollars, 100 for a contract.
DesiredOfExposure(num, den, exposure) == Truncated(num * exposure, den * 100)

\* The position goes through zero, or to zero.
Reverses(current, desired) ==
    \/ current > 0 /\ desired <= 0
    \/ current < 0 /\ desired >= 0

\* Mutant: a position that goes through zero is closed by the whole difference.
ClosesDifference(current, desired) ==
    IF Reverses(current, desired) \/ Abs(desired) < Abs(current)
    THEN current - desired ELSE 0

ContractsToClose(current, desired) ==
    IF Reverses(current, desired) THEN current
    ELSE IF Abs(desired) < Abs(current) THEN current - desired ELSE 0

\* Mutant: what is already held is not subtracted.
OpensDesired(current, desired) ==
    IF ~Reverses(current, desired) /\ Abs(desired) < Abs(current) THEN 0 ELSE desired

ContractsToOpen(current, desired) ==
    IF Reverses(current, desired) THEN desired
    ELSE IF Abs(desired) < Abs(current) THEN 0 ELSE desired - current

ClosingType(contracts) == IF contracts >= 0 THEN "CloseLong" ELSE "CloseShort"
OpeningType(contracts) == IF contracts >= 0 THEN "OpenLong" ELSE "OpenShort"

=============================================================================
