-------------------------- MODULE PositionPromise --------------------------
(***************************************************************************)
(* What managing a position promises, without threads, callbacks, messages *)
(* or clocks: at most one order is working at a time, it was sized by the  *)
(* position held when nothing was working, and of the contracts a pass     *)
(* still means to open after its close either all are ordered or none.     *)
(***************************************************************************)
EXTENDS PositionPlan

VARIABLES
    account, \* the contracts held, long and short
    working, \* the working order and what is left of it
    next     \* contracts the pass opens when its closing order is gone

promiseVars == <<account, working, next>>

Side == {"OpenLong", "OpenShort", "CloseLong", "CloseShort"}
Nothing == [type |-> "OpenLong", left |-> 0]

\* An order of an amount; none when there is nothing to trade.
Working(type, left) == IF left = 0 THEN Nothing ELSE [type |-> type, left |-> left]

NetOf(a) == a.long - a.short

Init == /\ account \in [long : 0 .. MaxContracts, short : 0 .. MaxContracts]
        /\ account.long = 0 \/ account.short = 0
        /\ working = Nothing
        /\ next = 0

\* A pass plans from the position that is held, and sends its first order.
Plan(desired) ==
    LET close == ContractsToClose(NetOf(account), desired)
        open  == ContractsToOpen(NetOf(account), desired)
    IN
    /\ working = Nothing /\ next = 0
    /\ IF close # 0
       THEN working' = Working(ClosingType(close), Abs(close)) /\ next' = open
       ELSE working' = Working(OpeningType(open), Abs(open)) /\ next' = 0
    /\ UNCHANGED account

After(a, type, k) ==
    [long  |-> CASE type = "OpenLong"  -> a.long + k
                 [] type = "CloseLong" -> a.long - k
                 [] OTHER              -> a.long,
     short |-> CASE type = "OpenShort"  -> a.short + k
                 [] type = "CloseShort" -> a.short - k
                 [] OTHER               -> a.short]

Fill(k) ==
    /\ k <= working.left
    /\ account' = After(account, working.type, k)
    /\ working' = Working(working.type, working.left - k)
    /\ UNCHANGED next

\* The working order is rejected or cancelled.
Drop == /\ working # Nothing
        /\ working' = Nothing
        /\ UNCHANGED <<account, next>>

OpenNext == /\ working = Nothing /\ next # 0
            /\ working' = Working(OpeningType(next), Abs(next))
            /\ next' = 0
            /\ UNCHANGED account

Abandon == /\ next # 0
           /\ next' = 0
           /\ UNCHANGED <<account, working>>

Next == \/ \E desired \in -MaxContracts .. MaxContracts : Plan(desired)
        \/ \E k \in 1 .. working.left : Fill(k)
        \/ Drop \/ OpenNext \/ Abandon

Spec == Init /\ [][Next]_promiseVars

-----------------------------------------------------------------------------
\* Properties

\* An order closes no more than is held, and nothing else is left when it is gone.
TypeOK ==
    /\ account \in [long : Nat, short : Nat]
    /\ working \in [type : Side, left : Nat]
    /\ next \in Int
    /\ working.left = 0 => working = Nothing
    /\ working.type = "CloseLong" => working.left <= account.long
    /\ working.type = "CloseShort" => working.left <= account.short

\* The net position never exceeds the configured maximum, whatever part of an
\* order trades and whichever orders are rejected or cancelled.
NetWithinMax == Abs(NetOf(account)) <= MaxContracts

=============================================================================
