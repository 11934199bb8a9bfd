------------------------- MODULE LimitOrderProofs -------------------------
(***************************************************************************)
(* The inductive invariant of the limit orders: the types, which orders the*)
(* messages in flight can be about, and whose deadline the trade channel   *)
(* stores.  One lemma per action of LimitOrder.  On top of it, whose closure*)
(* the answer to an order runs in, at any pace.                            *)
(*                                                                         *)
(* The second half is about a prompt exchange: there the last order goes   *)
(* through seven phases while no other one is left, and again each action  *)
(* has its lemma.                                                          *)
(***************************************************************************)
EXTENDS LimitOrder, FiniteSetTheorems, TLAPS

\* The exchange has accepted the order, so its number may be asked about.
Known(n) == order[n].state \in {"open", "full", "cancelled"}

\* An order is asked about, answered and polled for only after it was accepted,
\* and a request to place one is on its way only while it is "sent".
OrdersKnown ==
    /\ \A n \in Call : n > called => order[n].state = "none"
    /\ \A r \in requests :
         IF r.kind = "order" THEN order[r.order].state = "sent" ELSE Known(r.order)
    /\ \A i \in 1 .. Len(inbox) :
         inbox[i].kind = "trade" /\ inbox[i].ok => Known(inbox[i].order)
    /\ \A n \in Call : act[n].at \in {"start", "sleep"} => Known(n)

\* Answers are to orders that were sent.
AnswersSent == \A i \in 1 .. Len(inbox) : inbox[i].order \in 1 .. called

\* The deadline stored for the trade channel is the one of the last call.
LastDeadline == timeout["trade"] \in {0, called}

LimitInv == LimitTypeOK /\ OrdersKnown /\ AnswersSent /\ LastDeadline

Message == TradeAnswer \union InfoAnswer

USE CallsAssumption DEF LimitInv, Call

-----------------------------------------------------------------------------
(* The queue of the pool *)

\* What is said of every message in flight stays true when one is taken or added.
LEMMA TailMessages ==
    ASSUME NEW q \in Seq(Message), q # <<>>
    PROVE  /\ Tail(q) \in Seq(Message)
           /\ Head(q) \in Message /\ Head(q) = q[1] /\ Len(q) >= 1
           /\ \A i \in 1 .. Len(Tail(q)) : i + 1 \in 1 .. Len(q) /\ Tail(q)[i] = q[i + 1]
  OBVIOUS

LEMMA AppendMessage ==
    ASSUME NEW q \in Seq(Message), NEW m \in Message
    PROVE  /\ Append(q, m) \in Seq(Message)
           /\ \A i \in 1 .. Len(Append(q, m)) :
                \/ i \in 1 .. Len(q) /\ Append(q, m)[i] = q[i]
                \/ Append(q, m)[i] = m
  OBVIOUS

\* A step of the exchange that answers with m about a known or refused order.
LEMMA AnswerInvariant ==
    ASSUME LimitInv, NEW m \in Message, Answer(m),
           m.order \in 1 .. called
    PROVE  /\ inbox' \in Seq(Message)
           /\ \A i \in 1 .. Len(inbox') :
                \/ i \in 1 .. Len(inbox) /\ inbox'[i] = inbox[i]
                \/ inbox'[i] = m
           /\ \A i \in 1 .. Len(inbox') : inbox'[i].order \in 1 .. called
<1>1. inbox \in Seq(Message)
  BY DEF LimitTypeOK, Message
<1>2. CASE inbox' = Append(inbox, m)
  BY <1>1, <1>2, AppendMessage DEF AnswersSent
<1>3. CASE inbox' = inbox
  BY <1>1, <1>3 DEF AnswersSent
<1> QED
  BY <1>2, <1>3 DEF Answer

-----------------------------------------------------------------------------
(* The position thread *)

LEMMA LimitInitInvariant == LimitInit => LimitInv
<1> SUFFICES ASSUME LimitInit
             PROVE  LimitInv
  OBVIOUS
<1>1. NoActivation \in Activation /\ NoOrder \in Order
  BY DEF NoActivation, Activation, NoOrder, Order, ActAt, Status, OrderState, OrderType
<1>2. held \in [long : Nat, short : Nat]
  BY ContractsAssumption DEF LimitInit
<1>3. LimitTypeOK
  <2>1. result \in BOOLEAN /\ tradingDone \in BOOLEAN
    BY DEF LimitInit
  <2>2. inbox \in Seq(Message) /\ requests \subseteq (OrderRequest \union InfoRequest)
    BY DEF LimitInit
  <2> QED
    BY <1>1, <1>2, <2>1, <2>2 DEF LimitInit, LimitTypeOK, Channel, Message
<1>4. OrdersKnown
  BY DEF LimitInit, OrdersKnown, NoActivation, NoOrder
<1>5. AnswersSent /\ LastDeadline
  BY DEF LimitInit, AnswersSent, LastDeadline, Channel
<1> QED
  BY <1>3, <1>4, <1>5

LEMMA LimitInvariant ==
    ASSUME LimitInv, NEW type \in OrderType, NEW amount \in Nat, Limit(type, amount)
    PROVE  LimitInv'
<1> DEFINE n == called + 1
<1>1. /\ n \in Call /\ order[n].state = "none"
      /\ called' = n /\ act' = act /\ inbox' = inbox /\ infoCb' = infoCb
      /\ requests' = requests \union {[kind |-> "order", order |-> n]}
      /\ \A c \in Call \ {n} : order'[c] = order[c]
      /\ order'[n] = [state |-> "sent", type |-> type, amount |-> amount, filled |-> 0]
  BY DEF Limit, LimitTypeOK, OrdersKnown
<1>2. LimitTypeOK'
  <2>1. order' \in [Call -> Order]
    BY <1>1 DEF Limit, LimitTypeOK, Order, OrderState
  <2>2. requests' \subseteq (OrderRequest \union InfoRequest)
    BY <1>1 DEF LimitTypeOK, OrderRequest
  <2>3. timeout' \in [Channel -> 0 .. MaxCalls]
    BY <1>1 DEF Limit, LimitTypeOK, Channel
  <2> QED
    <3>1. result' \in BOOLEAN /\ tradingDone' \in BOOLEAN
      BY DEF Limit
    <3>2. /\ called' \in 0 .. MaxCalls /\ expired' \in 0 .. called'
          /\ frame' \in 0 .. called' /\ tradeCb' \in 0 .. called'
          /\ infoCb' \in 0 .. called'
      BY <1>1 DEF Limit, LimitTypeOK
    <3>3. UNCHANGED <<act, inbox, held>>
      BY DEF Limit
    <3> QED
      BY <2>1, <2>2, <2>3, <3>1, <3>2, <3>3 DEF LimitTypeOK
<1>3. OrdersKnown'
  <2>1. \A c \in Call : c > called' => order'[c].state = "none"
    <3> SUFFICES ASSUME NEW c \in Call, c > called' PROVE order'[c].state = "none"
      OBVIOUS
    <3>1. c > called /\ c \in Call \ {n}
      BY <1>1 DEF LimitTypeOK
    <3>2. order'[c] = order[c]
      BY <1>1, <3>1
    <3> QED
      BY <3>1, <3>2 DEF OrdersKnown
  <2>2. \A r \in requests : r.order \in Call
    BY DEF LimitTypeOK, OrderRequest, InfoRequest
  <2>3. \A r \in requests' : IF r.kind = "order" THEN order'[r.order].state = "sent"
                                                ELSE Known(r.order)'
    BY <1>1, <2>2 DEF OrdersKnown, Known
  <2>4. \A i \in 1 .. Len(inbox') : inbox'[i].kind = "trade" /\ inbox'[i].ok
                                      => Known(inbox[i].order)'
    <3> SUFFICES ASSUME NEW i \in 1 .. Len(inbox), inbox[i].kind = "trade", inbox[i].ok
                 PROVE  Known(inbox[i].order)'
      BY <1>1
    <3>1. inbox[i].order \in 1 .. called /\ called \in Nat
      BY <1>1 DEF AnswersSent, LimitTypeOK
    <3>2. inbox[i].order \in Call \ {n}
      BY <1>1, <3>1
    <3> QED
      BY <1>1, <3>2 DEF OrdersKnown, Known
  <2>5. \A c \in Call : act'[c].at \in {"start", "sleep"} => Known(c)'
    BY <1>1 DEF OrdersKnown, Known
  <2> QED
    BY <1>1, <2>1, <2>3, <2>4, <2>5 DEF OrdersKnown
<1>4. AnswersSent' /\ LastDeadline'
  BY SMTT(30), <1>1 DEF Limit, AnswersSent, LastDeadline, LimitTypeOK, Channel
<1> QED
  BY <1>2, <1>3, <1>4

LEMMA ReturnInvariant == LimitInv /\ LimitReturns => LimitInv'
<1> SUFFICES ASSUME LimitInv, NEW value \in BOOLEAN, Return(value)
             PROVE  LimitInv'
  BY DEF LimitReturns, LimitReturnsTrue, LimitReturnsFalse
<1>1. LimitTypeOK'
  <2>1. result' \in BOOLEAN /\ tradingDone' \in BOOLEAN
    BY DEF Return
  <2> QED
    BY <2>1 DEF Return, LimitTypeOK
<1>2. OrdersKnown' /\ AnswersSent' /\ LastDeadline'
  BY DEF Return, OrdersKnown, Known, AnswersSent, LastDeadline
<1> QED
  BY <1>1, <1>2

LEMMA DeadlineInvariant == LimitInv /\ DeadlinePasses => LimitInv'
  BY DEF DeadlinePasses, posVars, exchVars, LimitTypeOK, OrdersKnown, Known,
         AnswersSent, LastDeadline

-----------------------------------------------------------------------------
(* The pool *)

LEMMA DropInvariant == LimitInv /\ DropMessage => LimitInv'
<1> SUFFICES ASSUME LimitInv, DropMessage
             PROVE  LimitInv'
  OBVIOUS
<1>1. inbox \in Seq(Message) /\ inbox # <<>> /\ inbox' = Tail(inbox)
  BY DEF DropMessage, LimitTypeOK, Message
<1>2. UNCHANGED <<called, expired, frame, result, tradingDone, tradeCb, infoCb,
                  timeout, act, requests, order, held>>
  BY DEF DropMessage, posVars, exchVars
<1>3. LimitTypeOK'
  BY <1>1, <1>2, TailMessages DEF LimitTypeOK, Message
<1>4. OrdersKnown' /\ AnswersSent' /\ LastDeadline'
  BY <1>1, <1>2, TailMessages DEF OrdersKnown, Known, AnswersSent, LastDeadline
<1> QED
  BY <1>3, <1>4

LEMMA TradeAnswerInvariant == LimitInv /\ OnTradeAnswer => LimitInv'
<1> SUFFICES ASSUME LimitInv, OnTradeAnswer
             PROVE  LimitInv'
  OBVIOUS
<1> DEFINE m == Head(inbox)
<1>1. /\ inbox \in Seq(Message) /\ inbox # <<>> /\ inbox' = Tail(inbox)
      /\ m \in Message /\ m.kind = "trade"
  BY TailMessages DEF OnTradeAnswer, LimitTypeOK, Message
<1>2. m \in TradeAnswer /\ m.order \in 1 .. called /\ m.ok \in BOOLEAN
      /\ (m.ok => Known(m.order))
  BY <1>1, TailMessages DEF Message, TradeAnswer, InfoAnswer, AnswersSent, OrdersKnown
<1>3. /\ UNCHANGED <<called, expired, frame, result, tradeCb, timeout, requests,
                     order, held>>
      /\ infoCb' \in {infoCb, m.order}
      /\ tradingDone' \in BOOLEAN
      /\ act' = [act EXCEPT ![m.order].at = IF m.ok THEN "start" ELSE "erase",
                            ![m.order].call = tradeCb]
  BY <1>2 DEF OnTradeAnswer, exchVars, SetDone, LimitTypeOK
<1>4. /\ act' \in [Call -> Activation]
      /\ \A n \in Call : act'[n].at \in {"start", "sleep"} =>
           act[n].at \in {"start", "sleep"} \/ (n = m.order /\ m.ok)
  <2>1. m.order \in Call /\ act[m.order] \in Activation /\ tradeCb \in 0 .. MaxCalls
    BY <1>2 DEF LimitTypeOK
  <2>2. act' = [act EXCEPT ![m.order] =
                  [act[m.order] EXCEPT !.at = IF m.ok THEN "start" ELSE "erase",
                                       !.call = tradeCb]]
    BY <1>3, <2>1 DEF LimitTypeOK, Activation
  <2>3. [act[m.order] EXCEPT !.at = IF m.ok THEN "start" ELSE "erase",
                             !.call = tradeCb] \in Activation
    BY <2>1 DEF Activation, ActAt
  <2> QED
    <3> DEFINE a == [act[m.order] EXCEPT !.at = IF m.ok THEN "start" ELSE "erase",
                                        !.call = tradeCb]
    <3>1. a \in Activation /\ (a.at \in {"start", "sleep"} => m.ok)
      BY <2>1, <2>3 DEF Activation
    <3>2. act \in [Call -> Activation] /\ act' = [act EXCEPT ![m.order] = a]
      BY <2>2 DEF LimitTypeOK
    <3> HIDE DEF a
    <3>3. act' \in [Call -> Activation] /\ act'[m.order] = a
          /\ \A n \in Call \ {m.order} : act'[n] = act[n]
      BY <2>1, <3>1, <3>2
    <3> QED
      BY <3>1, <3>3
<1>5. LimitTypeOK'
  <2>1. inbox' \in Seq(Message)
    BY <1>1, TailMessages
  <2>2. infoCb' \in 0 .. called
    BY <1>2, <1>3 DEF LimitTypeOK
  <2>3. UNCHANGED <<called, expired, frame, result, tradeCb, timeout, requests, order, held>>
    BY <1>3
  <2>4. tradingDone' \in BOOLEAN /\ act' \in [Call -> Activation]
    BY <1>3, <1>4
  <2> QED
    BY <2>1, <2>2, <2>3, <2>4 DEF LimitTypeOK, Message
<1>6. OrdersKnown'
  <2>0. order' = order /\ called' = called /\ requests' = requests
    BY <1>3
  <2>1. /\ \A n \in Call : n > called' => order'[n].state = "none"
        /\ \A r \in requests' :
             IF r.kind = "order" THEN order'[r.order].state = "sent" ELSE Known(r.order)'
    BY <2>0 DEF OrdersKnown, Known
  <2>2. \A i \in 1 .. Len(inbox') :
             inbox'[i].kind = "trade" /\ inbox'[i].ok => Known(inbox[i].order)'
    <3> SUFFICES ASSUME NEW i \in 1 .. Len(inbox'), inbox'[i].kind = "trade", inbox'[i].ok
                 PROVE  Known(inbox[i].order)'
      OBVIOUS
    <3>1. i + 1 \in 1 .. Len(inbox) /\ inbox'[i] = inbox[i + 1]
      BY <1>1, TailMessages
    <3>2. Known(inbox[i + 1].order)
      BY <3>1 DEF OrdersKnown
    <3> QED
      BY <2>0, <3>1, <3>2 DEF Known
  <2>3. \A n \in Call : act'[n].at \in {"start", "sleep"} => Known(n)'
    <3> SUFFICES ASSUME NEW n \in Call, act'[n].at \in {"start", "sleep"}
                 PROVE  Known(n)'
      OBVIOUS
    <3>1. act[n].at \in {"start", "sleep"} \/ (n = m.order /\ m.ok)
      BY <1>4
    <3>2. Known(n)
      BY <1>2, <3>1 DEF OrdersKnown
    <3> QED
      BY <2>0, <3>2 DEF Known
  <2> QED
    BY <2>1, <2>2, <2>3 DEF OrdersKnown
<1>7. AnswersSent' /\ LastDeadline'
  BY <1>1, <1>3, TailMessages DEF AnswersSent, LastDeadline
<1> QED
  BY <1>5, <1>6, <1>7

LEMMA InfoAnswerInvariant == LimitInv /\ OnInfoAnswer => LimitInv'
<1> SUFFICES ASSUME LimitInv, OnInfoAnswer
             PROVE  LimitInv'
  OBVIOUS
<1> DEFINE m == Head(inbox)
<1>1. /\ inbox \in Seq(Message) /\ inbox # <<>> /\ inbox' = Tail(inbox)
      /\ m \in Message /\ m.kind = "orderinfo"
  BY TailMessages DEF OnInfoAnswer, LimitTypeOK, Message
<1>2. m.info \in Status
  BY <1>1 DEF Message, TradeAnswer, InfoAnswer
<1>3. /\ UNCHANGED <<called, expired, frame, result, tradingDone, tradeCb, infoCb,
                     requests, order, held>>
      /\ timeout' = [timeout EXCEPT !["orderinfo"] = 0]
      /\ \/ act' = act
         \/ infoCb \in Call /\ act' = [act EXCEPT ![infoCb] = Informed(@, m.info)]
  BY DEF OnInfoAnswer, posVars, exchVars, LimitTypeOK
<1>4. /\ act' \in [Call -> Activation]
      /\ \A n \in Call : act'[n].at = act[n].at
  <2>1. ASSUME NEW a \in Activation
        PROVE  Informed(a, m.info) \in Activation /\ Informed(a, m.info).at = a.at
    BY <1>2, <2>1 DEF Activation, Informed
  <2> QED
    <3> HIDE DEF m
    <3>1. act \in [Call -> Activation]
      BY DEF LimitTypeOK
    <3>2. CASE act' = act
      BY <3>1, <3>2
    <3>3. CASE infoCb \in Call /\ act' = [act EXCEPT ![infoCb] = Informed(@, m.info)]
      BY <2>1, <3>1, <3>3
    <3> QED
      BY <1>3, <3>2, <3>3
<1>5. LimitTypeOK'
  BY <1>1, <1>3, <1>4, TailMessages DEF LimitTypeOK, Message, Channel
<1>6. OrdersKnown'
  BY <1>1, <1>3, <1>4, TailMessages DEF OrdersKnown, Known
<1>7. AnswersSent' /\ LastDeadline'
  BY <1>1, <1>3, TailMessages DEF AnswersSent, LastDeadline, LimitTypeOK, Channel
<1> QED
  BY <1>5, <1>6, <1>7

-----------------------------------------------------------------------------
(* The trade callback *)

\* The calls whose deadline an activation can read are calls that were made.
LEMMA ClosureCalls ==
    ASSUME LimitInv, NEW n \in Call
    PROVE  Closure(n) \subseteq 0 .. MaxCalls
  BY DEF Closure, LimitTypeOK, Activation

LEMMA ActivationMoves ==
    ASSUME NEW a \in Activation, NEW where \in ActAt, NEW polls \in 0 .. MaxPolls
    PROVE  [a EXCEPT !.at = where, !.polls = polls] \in Activation
  BY DEF Activation

LEMMA PollInvariant ==
    ASSUME LimitInv, NEW n \in Call, Poll(n)
    PROVE  LimitInv'
<1>1. /\ UNCHANGED <<called, expired, frame, result, tradingDone, tradeCb, infoCb,
                     inbox, order, held>>
      /\ act[n] \in Activation /\ act \in [Call -> Activation]
      /\ act[n].at \in {"start", "sleep"}
      /\ act[n].polls + 1 \in 1 .. MaxPolls
  BY SMTT(30) DEF Poll, posVars, exchVars, AtLoopTest, LimitTypeOK, Activation
<1>2. PICK c \in Closure(n) : timeout' = [timeout EXCEPT !["orderinfo"] = c]
  BY DEF Poll
<1>3. c \in 0 .. MaxCalls
  BY <1>2, ClosureCalls
<1>4. act' = [act EXCEPT ![n] = [act[n] EXCEPT !.at = "sleep", !.polls = act[n].polls + 1]]
  BY <1>1 DEF Poll, Activation
<1>5. /\ act' \in [Call -> Activation]
      /\ \A k \in Call \ {n} : act'[k] = act[k]
  <2>1. "sleep" \in ActAt /\ act[n].polls + 1 \in 0 .. MaxPolls
    BY <1>1 DEF ActAt
  <2>2. [act[n] EXCEPT !.at = "sleep", !.polls = act[n].polls + 1] \in Activation
    BY <1>1, <2>1, ActivationMoves
  <2> QED
    BY <1>1, <1>4, <2>2
<1>6. requests' = requests \union
        {[kind |-> "orderinfo", order |-> n, poll |-> act[n].polls + 1]}
  BY DEF Poll
<1>7. LimitTypeOK'
  <2>1. requests' \subseteq (OrderRequest \union InfoRequest)
    BY <1>1, <1>6 DEF LimitTypeOK, InfoRequest
  <2>2. timeout' \in [Channel -> 0 .. MaxCalls]
    BY <1>2, <1>3 DEF LimitTypeOK, Channel
  <2> QED
    BY <1>1, <1>5, <2>1, <2>2 DEF LimitTypeOK
<1>8. OrdersKnown'
  BY <1>1, <1>5, <1>6 DEF OrdersKnown, Known
<1>9. AnswersSent' /\ LastDeadline'
  BY <1>1, <1>2 DEF AnswersSent, LastDeadline, LimitTypeOK, Channel
<1> QED
  BY <1>7, <1>8, <1>9

LEMMA LeaveLoopInvariant ==
    ASSUME LimitInv, NEW n \in Call, LeaveLoop(n)
    PROVE  LimitInv'
<1>1. /\ UNCHANGED <<called, expired, frame, result, tradeCb, infoCb, timeout,
                     inbox, order, held>>
      /\ act[n] \in Activation /\ act \in [Call -> Activation]
      /\ act[n].at \in {"start", "sleep"}
      /\ tradingDone' \in BOOLEAN
  BY DEF LeaveLoop, LeaveAnd, exchVars, AtLoopTest, SetDone, LimitTypeOK, Activation
<1>2. requests' \subseteq requests \union {[kind |-> "cancel", order |-> n]}
  BY DEF LeaveLoop, LeaveAnd
<1>3. /\ act' \in [Call -> Activation]
      /\ act'[n].at = "erase"
      /\ \A k \in Call \ {n} : act'[k] = act[k]
  <2> DEFINE a == [at |-> "erase", call |-> act[n].call, info |-> "failed",
                   stop |-> FALSE, polls |-> 0]
  <2>1. a \in Activation /\ a.at = "erase"
    BY <1>1 DEF Activation, ActAt, Status
  <2>2. act' = [act EXCEPT ![n] = a]
    BY DEF LeaveLoop, LeaveAnd
  <2> HIDE DEF a
  <2> QED
    BY <1>1, <2>1, <2>2
<1>4. LimitTypeOK'
  <2>1. requests' \subseteq (OrderRequest \union InfoRequest)
    BY <1>2 DEF LimitTypeOK, OrderRequest
  <2> QED
    BY <1>1, <1>3, <2>1 DEF LimitTypeOK
<1>5. OrdersKnown'
  BY <1>1, <1>2, <1>3 DEF OrdersKnown, Known
<1>6. AnswersSent' /\ LastDeadline'
  BY <1>1 DEF AnswersSent, LastDeadline
<1> QED
  BY <1>4, <1>5, <1>6

LEMMA EraseInvariant ==
    ASSUME LimitInv, NEW n \in Call, EraseTrade(n)
    PROVE  LimitInv'
<1>1. /\ UNCHANGED <<called, expired, frame, result, tradingDone, tradeCb, infoCb,
                     requests, inbox, order, held>>
      /\ act' = [act EXCEPT ![n].at = "ended"]
      /\ timeout' = [timeout EXCEPT !["trade"] = 0]
  BY DEF EraseTrade, posVars, exchVars
<1>2. /\ act' \in [Call -> Activation]
      /\ act'[n].at = "ended"
      /\ \A k \in Call \ {n} : act'[k] = act[k]
  BY <1>1 DEF LimitTypeOK, Activation, ActAt
<1>3. LimitTypeOK'
  BY <1>1, <1>2 DEF LimitTypeOK, Channel
<1>4. OrdersKnown'
  BY <1>1, <1>2 DEF OrdersKnown, Known
<1>5. AnswersSent' /\ LastDeadline'
  BY <1>1 DEF AnswersSent, LastDeadline, LimitTypeOK, Channel
<1> QED
  BY <1>3, <1>4, <1>5

-----------------------------------------------------------------------------
(* The exchange *)

\* Settling an order that was sent: the book changes for this order only, and an
\* answer about it goes out.
LEMMA PlacedInvariant ==
    ASSUME LimitInv, NEW r \in requests, r.kind = "order",
           NEW ok \in BOOLEAN,
           order' = [order EXCEPT ![r.order].state = IF ok THEN "open" ELSE "rejected"],
           requests' = requests \ {r},
           Answer([kind |-> "trade", order |-> r.order, ok |-> ok]),
           UNCHANGED <<called, expired, frame, result, tradingDone, tradeCb, infoCb,
                       timeout, act, held>>
    PROVE  LimitInv'
<1> DEFINE n == r.order
           m == [kind |-> "trade", order |-> n, ok |-> ok]
<1>1. /\ n \in Call /\ order[n].state = "sent" /\ n \in 1 .. called
      /\ order \in [Call -> Order] /\ r \in OrderRequest
  <2>1. r \in OrderRequest
    BY DEF LimitTypeOK, InfoRequest
  <2>2. n \in Call /\ order[n].state = "sent"
    BY <2>1 DEF OrdersKnown, OrderRequest
  <2>3. ~(n > called) /\ called \in Nat
    BY <2>2 DEF OrdersKnown, LimitTypeOK
  <2> QED
    BY <2>1, <2>2, <2>3 DEF LimitTypeOK
<1>2. /\ order' \in [Call -> Order]
      /\ order'[n].state = IF ok THEN "open" ELSE "rejected"
      /\ \A k \in Call \ {n} : order'[k] = order[k]
  BY <1>1, SMTT(30) DEF Order, OrderState
<1>3. m \in Message
  BY <1>1 DEF Message, TradeAnswer
<1>4. /\ inbox' \in Seq(Message)
      /\ \A i \in 1 .. Len(inbox') :
           \/ i \in 1 .. Len(inbox) /\ inbox'[i] = inbox[i]
           \/ inbox'[i] = m
      /\ \A i \in 1 .. Len(inbox') : inbox'[i].order \in 1 .. called
  BY <1>1, <1>3, AnswerInvariant
<1>5. LimitTypeOK'
  BY <1>2, <1>4 DEF LimitTypeOK, Message
<1>6. OrdersKnown'
  <2>1. \A k \in Call : k > called' => order'[k].state = "none"
    BY <1>1, <1>2 DEF OrdersKnown, LimitTypeOK
  <2>2. ASSUME NEW q \in requests'
        PROVE  IF q.kind = "order" THEN order'[q.order].state = "sent" ELSE Known(q.order)'
    <3>1. q \in requests /\ q # r /\ q.order \in Call
      BY DEF LimitTypeOK, OrderRequest, InfoRequest
    <3>2. q.order # n
      <4>1. CASE q.kind = "order"
        <5>1. q \in OrderRequest
          BY <3>1, <4>1 DEF LimitTypeOK, InfoRequest
        <5> QED
          BY <1>1, <3>1, <4>1, <5>1 DEF OrderRequest
      <4>2. CASE q.kind # "order"
        BY <1>1, <3>1, <4>2 DEF OrdersKnown, Known
      <4> QED
        BY <4>1, <4>2
    <3> QED
      BY <1>2, <3>1, <3>2 DEF OrdersKnown, Known
  <2>3. ASSUME NEW k \in Call, Known(k)
        PROVE  Known(k)'
    BY <1>1, <1>2, <2>3 DEF Known
  <2>4. ASSUME NEW i \in 1 .. Len(inbox'), inbox'[i].kind = "trade", inbox'[i].ok
        PROVE  order'[inbox'[i].order].state \in {"open", "full", "cancelled"}
    <3>1. CASE inbox'[i] = m
      BY <1>2, <2>4, <3>1
    <3>2. CASE i \in 1 .. Len(inbox) /\ inbox'[i] = inbox[i]
      <4>1. Known(inbox[i].order) /\ inbox[i].order \in Call
        BY <2>4, <3>2, SMTT(30) DEF OrdersKnown, AnswersSent, LimitTypeOK
      <4> QED
        BY <2>3, <3>2, <4>1 DEF Known
    <3> QED
      BY <1>4, <3>1, <3>2
  <2>5. \A k \in Call : act'[k].at \in {"start", "sleep"} => Known(k)'
    BY <2>3 DEF OrdersKnown
  <2> QED
    BY <2>1, <2>2, <2>4, <2>5 DEF OrdersKnown, Known
<1>7. AnswersSent' /\ LastDeadline'
  BY <1>4 DEF AnswersSent, LastDeadline
<1> QED
  BY <1>5, <1>6, <1>7

\* A change of the book that leaves known orders known and unsent ones unsent
\* disturbs nothing that is said of the messages.
LEMMA BookChange ==
    ASSUME LimitInv, UNCHANGED <<called, act, inbox>>, requests' \subseteq requests,
           \A k \in Call :
             /\ order[k].state \in {"none", "sent"} => order'[k].state = order[k].state
             /\ Known(k) => Known(k)'
    PROVE  OrdersKnown'
<1>1. \A r \in requests : r.order \in Call
  BY DEF LimitTypeOK, OrderRequest, InfoRequest
<1>2. \A i \in 1 .. Len(inbox) : inbox[i].order \in Call
  BY DEF AnswersSent, LimitTypeOK
<1> QED
  BY <1>1, <1>2 DEF OrdersKnown, Known

LEMMA ServeInvariant ==
    ASSUME LimitInv, NEW r \in requests, Serve(r)
    PROVE  LimitInv'
<1>1. CASE Accept(r)
  <2>1. order' = [order EXCEPT ![r.order].state = IF TRUE THEN "open" ELSE "rejected"]
    BY <1>1 DEF Accept
  <2> QED
    BY <1>1, <2>1, PlacedInvariant DEF Accept, posVars
<1>2. CASE Reject(r)
  <2>1. order' = [order EXCEPT ![r.order].state = IF FALSE THEN "open" ELSE "rejected"]
    BY <1>2 DEF Reject
  <2> QED
    BY <1>2, <2>1, PlacedInvariant DEF Reject, posVars
<1>3. CASE AnswerInfo(r)
  <2> DEFINE m == [kind |-> "orderinfo", order |-> r.order, info |-> order[r.order].state]
  <2>1. /\ r.order \in Call /\ Known(r.order) /\ r.order \in 1 .. called
        /\ requests' \subseteq requests
        /\ UNCHANGED <<called, expired, frame, result, tradingDone, tradeCb, infoCb,
                       timeout, act, order, held>>
    <3>1. r.order \in Call /\ Known(r.order)
      BY <1>3 DEF AnswerInfo, LimitTypeOK, OrdersKnown, OrderRequest, InfoRequest
    <3>2. ~(r.order > called) /\ called \in Nat
      BY <3>1 DEF OrdersKnown, Known, LimitTypeOK
    <3> QED
      BY <1>3, <3>1, <3>2 DEF AnswerInfo, posVars, exchVars
  <2>2. m \in Message /\ m.kind = "orderinfo"
    BY <2>1 DEF Message, InfoAnswer, Known, Status
  <2>3. /\ inbox' \in Seq(Message)
        /\ \A i \in 1 .. Len(inbox') :
             \/ i \in 1 .. Len(inbox) /\ inbox'[i] = inbox[i]
             \/ inbox'[i] = m
        /\ \A i \in 1 .. Len(inbox') : inbox'[i].order \in 1 .. called
    BY <1>3, <2>1, <2>2, AnswerInvariant DEF AnswerInfo
  <2>4. LimitTypeOK'
    BY <2>1, <2>3 DEF LimitTypeOK, Message
  <2>5. OrdersKnown'
    BY <2>1, <2>2, <2>3 DEF OrdersKnown, Known
  <2>6. AnswersSent' /\ LastDeadline'
    BY <2>1, <2>3 DEF AnswersSent, LastDeadline
  <2> QED
    BY <2>4, <2>5, <2>6
<1>4. CASE Cancel(r)
  <2>1. /\ r.order \in Call /\ Known(r.order)
        /\ requests' \subseteq requests
        /\ UNCHANGED <<called, expired, frame, result, tradingDone, tradeCb, infoCb,
                       timeout, act, inbox, held>>
    BY <1>4 DEF Cancel, posVars, LimitTypeOK, OrdersKnown, OrderRequest, InfoRequest
  <2>2. /\ order' \in [Call -> Order]
        /\ order'[r.order].state = IF order[r.order].state = "open" THEN "cancelled"
                                   ELSE order[r.order].state
        /\ \A k \in Call \ {r.order} : order'[k] = order[k]
    <3> DEFINE state == IF order[r.order].state = "open" THEN "cancelled"
                        ELSE order[r.order].state
               new == [order[r.order] EXCEPT !.state = state]
    <3>1. /\ order \in [Call -> Order] /\ order[r.order] \in Order
          /\ order' = [order EXCEPT ![r.order] = new]
      BY <1>4, <2>1 DEF Cancel, LimitTypeOK
    <3>2. new \in Order /\ new.state = state
      BY <3>1 DEF Order, OrderState
    <3> HIDE DEF new, state
    <3>3. /\ order' \in [Call -> Order] /\ order'[r.order].state = state
          /\ \A k \in Call \ {r.order} : order'[k] = order[k]
      BY <2>1, <3>1, <3>2
    <3> QED
      BY <3>3 DEF state
  <2>3. ASSUME NEW k \in Call
        PROVE  /\ order[k].state \in {"none", "sent"} => order'[k].state = order[k].state
               /\ Known(k) => Known(k)'
    BY <2>1, <2>2 DEF Known
  <2>4. LimitTypeOK'
    BY <2>1, <2>2 DEF LimitTypeOK
  <2>5. OrdersKnown'
    BY <2>1, <2>3, BookChange
  <2>6. AnswersSent' /\ LastDeadline'
    BY <2>1 DEF AnswersSent, LastDeadline
  <2> QED
    BY <2>4, <2>5, <2>6
<1> QED
  BY <1>1, <1>2, <1>3, <1>4 DEF Serve

LEMMA FillInvariant ==
    ASSUME LimitInv, NEW n \in Call, NEW k \in 1 .. Left(n), Fill(n, k)
    PROVE  LimitInv'
<1>1. /\ order[n] \in Order /\ order \in [Call -> Order]
      /\ order[n].state = "open" /\ k \in Nat
      /\ held \in [long : Nat, short : Nat]
      /\ UNCHANGED <<called, expired, frame, result, tradingDone, tradeCb, infoCb,
                     timeout, act, requests, inbox>>
  BY SMTT(30) DEF Fill, posVars, LimitTypeOK, Order, Left
<1>2. held' \in [long : Nat, short : Nat]
  BY SMTT(30), <1>1 DEF Fill, Traded, Order, OrderType
<1>3. /\ order' \in [Call -> Order]
      /\ order'[n].state \in {"open", "full"}
      /\ \A c \in Call \ {n} : order'[c] = order[c]
  <2> DEFINE o == [order[n] EXCEPT !.filled = order[n].filled + k,
                                   !.state = IF k = Left(n) THEN "full" ELSE "open"]
  <2>1. order' = [order EXCEPT ![n] = o]
    BY <1>1 DEF Fill, Order
  <2>2. o \in Order /\ o.state \in {"open", "full"}
    <3> DEFINE filled == order[n].filled + k
               state  == IF k = Left(n) THEN "full" ELSE "open"
    <3>1. filled \in Nat /\ state \in {"open", "full"} /\ state \in OrderState
      BY <1>1 DEF Order, OrderState
    <3> HIDE DEF filled, state
    <3>2. [order[n] EXCEPT !.filled = filled, !.state = state] \in Order
      BY <1>1, <3>1 DEF Order
    <3>3. [order[n] EXCEPT !.filled = filled, !.state = state].state = state
      BY <1>1 DEF Order
    <3> QED
      BY <3>1, <3>2, <3>3 DEF filled, state
  <2> HIDE DEF o
  <2> QED
    BY <1>1, <2>1, <2>2
<1>4. ASSUME NEW c \in Call
      PROVE  /\ order[c].state \in {"none", "sent"} => order'[c].state = order[c].state
             /\ Known(c) => Known(c)'
  BY <1>1, <1>3 DEF Known
<1>5. LimitTypeOK'
  BY <1>1, <1>2, <1>3 DEF LimitTypeOK
<1>6. OrdersKnown'
  BY <1>1, <1>4, BookChange
<1>7. AnswersSent' /\ LastDeadline'
  BY <1>1 DEF AnswersSent, LastDeadline
<1> QED
  BY <1>5, <1>6, <1>7

-----------------------------------------------------------------------------
\* Whatever the pool, the clock and the exchange do keeps the invariant.
LEMMA SurroundingsInvariant == LimitInv /\ Surroundings => LimitInv'
<1> SUFFICES ASSUME LimitInv, Surroundings
             PROVE  LimitInv'
  OBVIOUS
<1>1. CASE DeadlinePasses
  BY <1>1, DeadlineInvariant
<1>2. CASE OnMessage
  BY <1>2, DropInvariant, TradeAnswerInvariant, InfoAnswerInvariant DEF OnMessage
<1>3. ASSUME NEW n \in Call, Callback(n)
      PROVE  LimitInv'
  BY <1>3, PollInvariant, LeaveLoopInvariant, EraseInvariant DEF Callback
<1>4. ASSUME NEW r \in requests, Serve(r)
      PROVE  LimitInv'
  BY <1>4, ServeInvariant
<1>5. ASSUME NEW n \in Call, NEW k \in 1 .. Left(n), Fill(n, k)
      PROVE  LimitInv'
  BY <1>5, FillInvariant
<1> QED
  BY <1>1, <1>2, <1>3, <1>4, <1>5 DEF Surroundings

\* What the position thread does between two calls of limit() leaves the rest alone.
LEMMA LimitStutters ==
    ASSUME LimitInv, UNCHANGED limitVars
    PROVE  LimitInv'
<1>1. (result \in BOOLEAN /\ tradingDone \in BOOLEAN)'
  BY Zenon DEF limitVars, LimitTypeOK
<1>2. LimitTypeOK'
  <2> DEFINE booleans == result \in BOOLEAN /\ tradingDone \in BOOLEAN
  <2>1. booleans'
    BY <1>1
  <2> HIDE DEF booleans
  <2> QED
    BY <2>1 DEF limitVars, LimitTypeOK
<1>3. OrdersKnown' /\ AnswersSent' /\ LastDeadline'
  BY DEF limitVars, OrdersKnown, Known, AnswersSent, LastDeadline, WillCallback, Past
<1> QED
  BY <1>2, <1>3

-----------------------------------------------------------------------------
(* Answers and the calls whose closures they run in, at any pace *)

\* The trade callback for order n has set trading_done.
Through(n) == act[n].at \in {"erase", "ended"}

\* An order is answered once: its answer is not there before the exchange has decided
\* about it, is in flight only once, and not any more when its activation has begun.
AnsweredOnce ==
    /\ \A n \in Call : order[n].state \in {"none", "sent"} =>
          /\ act[n].at = "none"
          /\ \A i \in 1 .. Len(inbox) : inbox[i].kind = "trade" => inbox[i].order # n
    /\ \A i, j \in 1 .. Len(inbox) :
          inbox[i].kind = "trade" /\ inbox[j].kind = "trade"
            /\ inbox[i].order = inbox[j].order => i = j
    /\ \A i \in 1 .. Len(inbox) :
          inbox[i].kind = "trade" => act[inbox[i].order].at = "none"

\* The closure installed is that of the last call, so answers run in their own call's
\* closure or in a later one.
ClosureForward ==
    /\ tradeCb = called /\ frame \in {0, called}
    /\ \A n \in Call : IF act[n].at = "none" THEN act[n].call = 0
                       ELSE act[n].call \in n .. called

\* Until a deadline has passed, only the call that waits may lack its answer.
NoneLate ==
    /\ result => frame = 0 /\ called # 0
    /\ tradingDone => frame # 0
    /\ expired = 0 =>
         /\ \A n \in Call : act[n].at # "none" => act[n].call = n
         /\ \A n \in 1 .. called : n = frame \/ Through(n)
         /\ tradingDone => Through(frame)

InfoDeadline == timeout["orderinfo"] \in 0 .. called

AnswerInv == AnsweredOnce /\ ClosureForward /\ NoneLate /\ InfoDeadline

LEMMA InitAnswerInv == LimitInit => AnswerInv
  BY DEF LimitInit, AnswerInv, AnsweredOnce, ClosureForward, NoneLate, InfoDeadline,
         NoActivation, Channel

\* A step that answers no order: nothing new is in flight about one, and activations go
\* on with their closures.
LEMMA NoAnswer ==
    ASSUME LimitInv, AnswerInv,
           UNCHANGED <<called, frame, tradeCb, result>>,
           expired' = 0 => expired = 0,
           \A n \in Call : /\ act'[n].call = act[n].call
                           /\ act'[n].at = "none" <=> act[n].at = "none"
                           /\ Through(n) => Through(n)',
           \A n \in Call : order'[n].state \in {"none", "sent"} =>
                             order[n].state \in {"none", "sent"},
           NEW d \in {0, 1},
           \A i \in 1 .. Len(inbox') : inbox'[i].kind = "trade" =>
              i + d \in 1 .. Len(inbox) /\ inbox'[i] = inbox[i + d],
           tradingDone' => tradingDone \/ (frame # 0 /\ (expired = 0 => Through(frame)')),
           timeout'["orderinfo"] \in 0 .. called
    PROVE  AnswerInv'
<1>1. \A i \in 1 .. Len(inbox) : inbox[i].order \in Call
  BY DEF AnswersSent, LimitTypeOK
<1>2. AnsweredOnce'
  <2>1. ASSUME NEW i \in 1 .. Len(inbox'), inbox'[i].kind = "trade"
        PROVE  /\ i + d \in 1 .. Len(inbox) /\ inbox'[i] = inbox[i + d]
               /\ inbox'[i].order \in Call /\ act[inbox'[i].order].at = "none"
               /\ order[inbox'[i].order].state \notin {"none", "sent"}
    BY <1>1, <2>1 DEF AnswerInv, AnsweredOnce
  <2>2. ASSUME NEW i \in 1 .. Len(inbox'), NEW j \in 1 .. Len(inbox'),
               inbox'[i].kind = "trade", inbox'[j].kind = "trade",
               inbox'[i].order = inbox'[j].order
        PROVE  i = j
    <3>1. /\ i + d \in 1 .. Len(inbox) /\ j + d \in 1 .. Len(inbox)
          /\ inbox[i + d].kind = "trade" /\ inbox[j + d].kind = "trade"
          /\ inbox[i + d].order = inbox[j + d].order
      BY <2>1, <2>2
    <3>2. i + d = j + d
      BY <3>1 DEF AnswerInv, AnsweredOnce
    <3> QED
      BY <3>2
  <2> QED
    BY <2>1, <2>2 DEF AnswerInv, AnsweredOnce
<1>3. ClosureForward'
  BY DEF AnswerInv, ClosureForward
<1>4. NoneLate'
  <2>1. frame # 0 => frame \in Call
    BY DEF LimitTypeOK
  <2>2. \A n \in 1 .. called : n \in Call
    BY DEF LimitTypeOK
  <2> QED
    BY <2>1, <2>2 DEF AnswerInv, NoneLate
<1>5. InfoDeadline'
  BY DEF InfoDeadline
<1> QED
  BY <1>2, <1>3, <1>4, <1>5 DEF AnswerInv

\* A closure of a call that was made sets trading_done in a live frame or nowhere.
LEMMA DoneInFrame ==
    ASSUME LimitInv, AnswerInv, NEW c \in 1 .. called, SetDone(c), tradingDone'
    PROVE  frame # 0
<1>1. c # 0 /\ (tradingDone => frame # 0)
  BY DEF AnswerInv, NoneLate, LimitTypeOK
<1>2. CASE c = frame
  BY <1>1, <1>2
<1>3. CASE c # frame
  <2>1. tradingDone' = tradingDone \/ tradingDone' = (frame # 0)
    BY <1>3 DEF SetDone
  <2> QED
    BY <1>1, <2>1
<1> QED
  BY <1>2, <1>3

LEMMA LimitAnswerInv ==
    ASSUME LimitInv, AnswerInv, NEW type \in OrderType, NEW amount \in Nat,
           Limit(type, amount)
    PROVE  AnswerInv'
<1> DEFINE n == called + 1
<1>1. /\ n \in Call /\ called \in Nat /\ called' = n /\ frame' = n /\ tradeCb' = n
      /\ frame = 0 /\ ~tradingDone' /\ ~result'
      /\ UNCHANGED <<expired, act, inbox>>
      /\ timeout'["orderinfo"] = timeout["orderinfo"]
      /\ order[n].state = "none"
      /\ \A c \in Call \ {n} : order'[c] = order[c]
  BY DEF Limit, LimitTypeOK, OrdersKnown, Channel
<1>2. act[n].at = "none"
        /\ \A i \in 1 .. Len(inbox) : inbox[i].kind = "trade" => inbox[i].order # n
  BY <1>1 DEF AnswerInv, AnsweredOnce
<1>3. AnsweredOnce'
  BY <1>1, <1>2 DEF AnswerInv, AnsweredOnce
<1>4. ClosureForward'
  BY <1>1 DEF AnswerInv, ClosureForward
<1>5. NoneLate'
  BY <1>1 DEF AnswerInv, NoneLate, Through
<1>6. InfoDeadline'
  BY <1>1 DEF AnswerInv, InfoDeadline
<1> QED
  BY <1>3, <1>4, <1>5, <1>6 DEF AnswerInv

LEMMA ReturnAnswerInv == ASSUME LimitInv, AnswerInv, LimitReturns PROVE AnswerInv'
<1>1. /\ frame # 0 /\ frame' = 0 /\ ~tradingDone'
      /\ UNCHANGED <<called, expired, tradeCb, timeout, act, inbox, order>>
      /\ \/ tradingDone
         \/ frame <= expired /\ ~result'
  BY DEF LimitReturns, LimitReturnsTrue, LimitReturnsFalse, Return, Past
<1>2. frame = called /\ called \in Nat \ {0} /\ expired \in Nat
  BY <1>1 DEF AnswerInv, ClosureForward, LimitTypeOK
<1>3. AnsweredOnce'
  BY <1>1 DEF AnswerInv, AnsweredOnce
<1>4. ClosureForward' /\ InfoDeadline'
  BY <1>1 DEF AnswerInv, ClosureForward, InfoDeadline
<1>5. NoneLate'
  BY <1>1, <1>2 DEF AnswerInv, NoneLate, Through
<1> QED
  BY <1>3, <1>4, <1>5 DEF AnswerInv

LEMMA TradeAnswerAnswerInv ==
    ASSUME LimitInv, AnswerInv, OnTradeAnswer
    PROVE  AnswerInv'
<1> DEFINE n == Head(inbox).order
<1>1. /\ inbox \in Seq(Message) /\ inbox # <<>> /\ inbox' = Tail(inbox)
      /\ Head(inbox) = inbox[1] /\ 1 \in 1 .. Len(inbox) /\ inbox[1].kind = "trade"
      /\ \A i \in 1 .. Len(inbox') : i + 1 \in 1 .. Len(inbox) /\ inbox'[i] = inbox[i + 1]
  <2>1. inbox \in Seq(Message) /\ inbox # <<>> /\ inbox' = Tail(inbox)
        /\ Head(inbox).kind = "trade"
    BY DEF OnTradeAnswer, LimitTypeOK, Message
  <2> QED
    BY <2>1, TailMessages
<1>2. /\ n \in 1 .. called /\ n \in Call /\ called \in Nat /\ act[n].at = "none"
      /\ order[n].state \notin {"none", "sent"}
  BY <1>1 DEF AnswersSent, AnswerInv, AnsweredOnce, LimitTypeOK
<1>3. /\ UNCHANGED <<called, frame, result, expired, tradeCb, timeout, order>>
      /\ act'[n].at \in {"start", "erase"} /\ act'[n].call = tradeCb
      /\ \A k \in Call \ {n} : act'[k] = act[k]
      /\ \/ UNCHANGED tradingDone
         \/ SetDone(tradeCb) /\ act'[n].at = "erase"
  <2>1. act \in [Call -> Activation] /\ act[n] \in Activation
    BY <1>2 DEF LimitTypeOK
  <2> HIDE DEF n
  <2>2. act' = [act EXCEPT ![n].at = IF Head(inbox).ok THEN "start" ELSE "erase",
                           ![n].call = tradeCb]
    BY DEF OnTradeAnswer, n
  <2>3. /\ act'[n].at = IF Head(inbox).ok THEN "start" ELSE "erase"
        /\ act'[n].call = tradeCb
        /\ \A k \in Call \ {n} : act'[k] = act[k]
    BY <1>2, <2>1, <2>2 DEF Activation
  <2> QED
    BY <2>3 DEF OnTradeAnswer, exchVars
<1> HIDE DEF n
<1>4. AnsweredOnce'
  <2>1. ASSUME NEW i \in 1 .. Len(inbox'), inbox'[i].kind = "trade"
        PROVE  /\ i + 1 \in 1 .. Len(inbox) /\ inbox'[i] = inbox[i + 1]
               /\ inbox'[i].order # n /\ act'[inbox'[i].order].at = "none"
               /\ order[inbox'[i].order].state \notin {"none", "sent"}
    <3>1. /\ i + 1 \in 1 .. Len(inbox) /\ inbox'[i] = inbox[i + 1] /\ i + 1 # 1
          /\ inbox[i + 1].order \in Call
      BY <1>1, <1>2 DEF AnswersSent, LimitTypeOK
    <3>2. inbox[i + 1].order # n
      BY <1>1, <2>1, <3>1 DEF AnswerInv, AnsweredOnce, n
    <3> QED
      BY <1>3, <2>1, <3>1, <3>2 DEF AnswerInv, AnsweredOnce
  <2>2. ASSUME NEW i \in 1 .. Len(inbox'), NEW j \in 1 .. Len(inbox'),
               inbox'[i].kind = "trade", inbox'[j].kind = "trade",
               inbox'[i].order = inbox'[j].order
        PROVE  i = j
    <3>1. i + 1 = j + 1
      BY <2>1, <2>2, SMTT(30) DEF AnswerInv, AnsweredOnce
    <3> QED
      BY <3>1
  <2>3. \A k \in Call : order'[k].state \in {"none", "sent"} => act'[k].at = "none"
    BY <1>2, <1>3 DEF AnswerInv, AnsweredOnce
  <2>4. \A i \in 1 .. Len(inbox') : \A k \in Call :
           inbox'[i].kind = "trade" /\ order'[k].state \in {"none", "sent"}
             => inbox'[i].order # k
    BY <1>3, <2>1
  <2> QED
    BY <2>1, <2>2, <2>3, <2>4 DEF AnsweredOnce
<1>5. ClosureForward'
  BY <1>2, <1>3 DEF AnswerInv, ClosureForward
<1>6. NoneLate'
  <2>1. (result => frame = 0 /\ called # 0)'
    BY <1>3 DEF AnswerInv, NoneLate
  <2>4. tradingDone' => frame # 0
    <3>1. CASE UNCHANGED tradingDone
      BY <3>1 DEF AnswerInv, NoneLate
    <3>2. CASE SetDone(tradeCb)
      BY <1>2, <3>2, DoneInFrame DEF AnswerInv, ClosureForward
    <3> QED
      BY <1>3, <3>1, <3>2
  <2>2. ASSUME expired = 0
        PROVE  n = frame /\ frame = called
    BY <1>2, <2>2 DEF AnswerInv, NoneLate, ClosureForward, Through
  <2>3. ASSUME expired = 0
        PROVE  /\ \A k \in Call : act'[k].at # "none" => act'[k].call = k
               /\ \A k \in 1 .. called : k = frame \/ Through(k)'
               /\ tradingDone' => Through(frame)'
    <3>1. \A k \in Call : act'[k].at # "none" => act'[k].call = k
      BY <1>3, <2>2, <2>3 DEF AnswerInv, NoneLate, ClosureForward
    <3>2. \A k \in 1 .. called : k = frame \/ Through(k)'
      BY <1>2, <1>3, <2>2, <2>3 DEF AnswerInv, NoneLate, Through, LimitTypeOK
    <3>3. ~tradingDone
      BY <1>2, <2>2, <2>3 DEF AnswerInv, NoneLate, Through
    <3>4. tradingDone' => Through(frame)'
      <4>1. CASE UNCHANGED tradingDone
        BY <3>3, <4>1
      <4>2. CASE act'[n].at = "erase"
        BY <1>3, <2>2, <2>3, <4>2 DEF Through
      <4> QED
        BY <1>3, <4>1, <4>2
    <3> QED
      BY <3>1, <3>2, <3>4
  <2> QED
    BY <1>3, <2>1, <2>3, <2>4 DEF NoneLate
<1>7. InfoDeadline'
  BY <1>3 DEF AnswerInv, InfoDeadline
<1> QED
  BY <1>4, <1>5, <1>6, <1>7 DEF AnswerInv

LEMMA DropInfoAnswerInv ==
    ASSUME LimitInv, AnswerInv, DropMessage \/ OnInfoAnswer
    PROVE  AnswerInv'
<1>1. \A i \in 1 .. Len(inbox') : i + 1 \in 1 .. Len(inbox) /\ inbox'[i] = inbox[i + 1]
  <2>1. inbox \in Seq(Message) /\ inbox # <<>> /\ inbox' = Tail(inbox)
    BY DEF DropMessage, OnInfoAnswer, LimitTypeOK, Message
  <2> QED
    BY <2>1, TailMessages
<1>2. /\ UNCHANGED <<called, expired, frame, result, tradingDone, tradeCb, order>>
      /\ timeout'["orderinfo"] \in {0, timeout["orderinfo"]}
  BY DEF DropMessage, OnInfoAnswer, posVars, exchVars, LimitTypeOK, Channel
<1>3. \A n \in Call : act'[n].at = act[n].at /\ act'[n].call = act[n].call
  <2>1. ASSUME NEW a \in Activation, NEW info \in Status
        PROVE  Informed(a, info).at = a.at /\ Informed(a, info).call = a.call
    BY <2>1 DEF Activation, Informed
  <2>2. act \in [Call -> Activation]
    BY DEF LimitTypeOK
  <2>3. CASE act' = act
    BY <2>3
  <2>4. ASSUME NEW info \in Status, infoCb \in Call,
               act' = [act EXCEPT ![infoCb] = Informed(@, info)]
        PROVE  \A n \in Call : act'[n].at = act[n].at /\ act'[n].call = act[n].call
    <3>1. act'[infoCb] = Informed(act[infoCb], info)
          /\ \A n \in Call \ {infoCb} : act'[n] = act[n]
      BY <2>2, <2>4
    <3> QED
      BY <2>1, <2>2, <2>4, <3>1
  <2>5. CASE OnInfoAnswer
    <3>1. inbox \in Seq(Message) /\ Head(inbox) \in Message /\ Head(inbox).kind = "orderinfo"
      BY <2>5, TailMessages DEF OnInfoAnswer, LimitTypeOK, Message
    <3>2. Head(inbox).info \in Status
      BY <3>1 DEF Message, TradeAnswer, InfoAnswer
    <3>3. infoCb # 0 => infoCb \in Call
      BY DEF LimitTypeOK
    <3> QED
      BY <2>3, <2>4, <2>5, <3>2, <3>3 DEF OnInfoAnswer
  <2>6. CASE DropMessage
    BY <2>3, <2>6 DEF DropMessage
  <2> QED
    BY <2>5, <2>6
<1>4. timeout'["orderinfo"] \in 0 .. called
  BY <1>2 DEF AnswerInv, InfoDeadline, LimitTypeOK
<1> QED
  BY <1>1, <1>2, <1>3, <1>4, NoAnswer DEF Through

LEMMA CallbackAnswerInv ==
    ASSUME LimitInv, AnswerInv, NEW n \in Call, Callback(n)
    PROVE  AnswerInv'
<1>1. act \in [Call -> Activation] /\ act[n] \in Activation /\ called \in Nat
  BY DEF LimitTypeOK
<1>2. \A i \in 1 .. Len(inbox) : i + 0 \in 1 .. Len(inbox) /\ inbox[i] = inbox[i + 0]
  OBVIOUS
<1>3. CASE Poll(n)
  <2>1. /\ UNCHANGED <<called, expired, frame, result, tradingDone, tradeCb, inbox, order>>
        /\ act[n].at \in {"start", "sleep"}
    BY <1>3 DEF Poll, posVars, exchVars, AtLoopTest
  <2>2. /\ act'[n].at = "sleep" /\ act'[n].call = act[n].call
        /\ \A k \in Call \ {n} : act'[k] = act[k]
    BY <1>1, <1>3 DEF Poll, Activation
  <2>3. timeout'["orderinfo"] \in Closure(n)
    BY <1>3 DEF Poll, LimitTypeOK, Channel
  <2>4. timeout'["orderinfo"] \in 0 .. called
    BY <1>1, <2>1, <2>3 DEF Closure, AnswerInv, ClosureForward
  <2> QED
    BY <1>2, <2>1, <2>2, <2>4, NoAnswer DEF Through
<1>4. CASE LeaveLoop(n)
  <2>1. /\ UNCHANGED <<called, expired, frame, result, tradeCb, timeout, inbox, order>>
        /\ act[n].at \in {"start", "sleep"} /\ SetDone(act[n].call)
    BY <1>4 DEF LeaveLoop, LeaveAnd, exchVars, AtLoopTest
  <2>2. /\ act'[n].at = "erase" /\ act'[n].call = act[n].call
        /\ \A k \in Call \ {n} : act'[k] = act[k]
    BY <1>1, <1>4 DEF LeaveLoop, LeaveAnd
  <2>3. act[n].call \in 1 .. called
    BY <1>1, <2>1 DEF AnswerInv, ClosureForward
  <2>4. ASSUME tradingDone', ~tradingDone
        PROVE  frame # 0 /\ (expired = 0 => Through(frame)')
    <3>1. frame # 0
      BY <2>1, <2>3, <2>4, DoneInFrame
    <3>2. ASSUME expired = 0
          PROVE  n = frame
      <4>1. n \in 1 .. called
        BY <1>1, <2>1 DEF AnswerInv, ClosureForward
      <4> QED
        BY <2>1, <3>2, <4>1 DEF AnswerInv, NoneLate, Through
    <3>3. ASSUME expired = 0
          PROVE  Through(frame)'
      BY <2>1, <2>2, <3>2, <3>3 DEF Through
    <3> QED
      BY <3>1, <3>3
  <2> QED
    BY <1>2, <2>1, <2>2, <2>4, NoAnswer DEF Through, AnswerInv, InfoDeadline
<1>5. CASE EraseTrade(n)
  <2>1. /\ UNCHANGED <<called, expired, frame, result, tradingDone, tradeCb, inbox, order>>
        /\ act[n].at = "erase"
        /\ timeout'["orderinfo"] = timeout["orderinfo"]
    BY <1>5 DEF EraseTrade, posVars, exchVars, LimitTypeOK, Channel
  <2>2. /\ act'[n].at = "ended" /\ act'[n].call = act[n].call
        /\ \A k \in Call \ {n} : act'[k] = act[k]
    BY <1>1, <1>5 DEF EraseTrade, Activation
  <2> QED
    BY <1>2, <2>1, <2>2, NoAnswer DEF Through, AnswerInv, InfoDeadline
<1> QED
  BY <1>3, <1>4, <1>5 DEF Callback

\* The exchange decides about an order, and answers it.
LEMMA PlacedAnswerInv ==
    ASSUME LimitInv, AnswerInv, NEW r \in requests, Accept(r) \/ Reject(r)
    PROVE  AnswerInv'
<1> DEFINE n == r.order
<1>1. n \in Call /\ order[n].state = "sent" /\ act[n].at = "none"
      /\ \A i \in 1 .. Len(inbox) : inbox[i].kind = "trade" => inbox[i].order # n
  <2>1. n \in Call /\ order[n].state = "sent"
    BY DEF Accept, Reject, OrdersKnown, LimitTypeOK, OrderRequest, InfoRequest
  <2> QED
    BY <2>1 DEF AnswerInv, AnsweredOnce
<1>2. /\ UNCHANGED <<called, expired, frame, result, tradingDone, tradeCb, timeout, act>>
      /\ order'[n].state \in {"open", "rejected"}
      /\ \A k \in Call \ {n} : order'[k] = order[k]
  <2>1. order \in [Call -> Order] /\ order[n] \in Order
    BY <1>1 DEF LimitTypeOK
  <2>2. \E s \in {"open", "rejected"} : order' = [order EXCEPT ![n].state = s]
    BY DEF Accept, Reject
  <2> QED
    BY <1>1, <2>1, <2>2 DEF Accept, Reject, posVars, Order
<1>3. PICK ok \in BOOLEAN : Answer([kind |-> "trade", order |-> n, ok |-> ok])
  BY DEF Accept, Reject
<1> DEFINE m == [kind |-> "trade", order |-> n, ok |-> ok]
<1>4. /\ \A i \in 1 .. Len(inbox') :
            \/ i \in 1 .. Len(inbox) /\ inbox'[i] = inbox[i]
            \/ i = Len(inbox) + 1 /\ inbox'[i] = m
      /\ Len(inbox) \in Nat
  <2>1. inbox \in Seq(Message) /\ m \in Message
    BY <1>1 DEF LimitTypeOK, Message, TradeAnswer
  <2> HIDE DEF m
  <2> QED
    BY <1>3, <2>1 DEF Answer, m
<1>5. m.order = n /\ m.kind = "trade"
  OBVIOUS
<1> HIDE DEF m, n
<1>6. AnsweredOnce'
  <2>1. ASSUME NEW i \in 1 .. Len(inbox'), NEW j \in 1 .. Len(inbox'),
               inbox'[i].kind = "trade", inbox'[j].kind = "trade",
               inbox'[i].order = inbox'[j].order
        PROVE  i = j
    BY <1>1, <1>4, <1>5, <2>1 DEF AnswerInv, AnsweredOnce
  <2>2. ASSUME NEW i \in 1 .. Len(inbox'), inbox'[i].kind = "trade"
        PROVE  /\ act'[inbox'[i].order].at = "none"
               /\ \A k \in Call : order'[k].state \in {"none", "sent"} => inbox'[i].order # k
    <3>1. CASE i \in 1 .. Len(inbox) /\ inbox'[i] = inbox[i]
      BY <1>2, <2>2, <3>1 DEF AnswerInv, AnsweredOnce
    <3>2. CASE inbox'[i] = m
      BY <1>1, <1>2, <1>5, <3>2
    <3> QED
      BY <1>4, <3>1, <3>2
  <2>3. \A k \in Call : order'[k].state \in {"none", "sent"} => act'[k].at = "none"
    BY <1>2 DEF AnswerInv, AnsweredOnce
  <2> QED
    BY <2>1, <2>2, <2>3 DEF AnsweredOnce
<1> QED
  BY <1>2, <1>6 DEF AnswerInv, ClosureForward, NoneLate, Through, InfoDeadline

\* The exchange tells of an order, takes one out of the book, or trades.
LEMMA ExchangeAnswerInv ==
    ASSUME LimitInv, AnswerInv,
           \/ \E r \in requests : AnswerInfo(r) \/ Cancel(r)
           \/ \E n \in Call : \E k \in 1 .. Left(n) : Fill(n, k)
    PROVE  AnswerInv'
<1>1. \A i \in 1 .. Len(inbox) : i + 0 \in 1 .. Len(inbox) /\ inbox[i] = inbox[i + 0]
  OBVIOUS
<1>2. order \in [Call -> Order]
  BY DEF LimitTypeOK
<1>3. ASSUME NEW r \in requests, AnswerInfo(r)
      PROVE  AnswerInv'
  <2>1. UNCHANGED <<called, expired, frame, result, tradingDone, tradeCb, timeout, act,
                    order>>
    BY <1>3 DEF AnswerInfo, posVars, exchVars
  <2>2. \A i \in 1 .. Len(inbox') : inbox'[i].kind = "trade" =>
           i + 0 \in 1 .. Len(inbox) /\ inbox'[i] = inbox[i + 0]
    <3> DEFINE m == [kind |-> "orderinfo", order |-> r.order, info |-> order[r.order].state]
    <3>1. Answer(m) /\ m.kind = "orderinfo" /\ inbox \in Seq(Message)
      BY <1>3 DEF AnswerInfo, LimitTypeOK, Message
    <3> HIDE DEF m
    <3>2. ASSUME inbox' = Append(inbox, m), NEW i \in 1 .. Len(inbox')
          PROVE  (i \in 1 .. Len(inbox) /\ inbox'[i] = inbox[i]) \/ inbox'[i] = m
      BY <3>1, <3>2
    <3> QED
      BY <3>1, <3>2 DEF Answer
  <2> QED
    BY <2>1, <2>2, NoAnswer DEF Through, AnswerInv, InfoDeadline
<1>4. ASSUME NEW r \in requests, Cancel(r)
      PROVE  AnswerInv'
  <2>1. UNCHANGED <<called, expired, frame, result, tradingDone, tradeCb, timeout, act,
                    inbox>>
    BY <1>4 DEF Cancel, posVars
  <2>2. r.order \in Call /\ order[r.order] \in Order
    BY <1>2 DEF LimitTypeOK, OrderRequest, InfoRequest
  <2>3. \A k \in Call : order'[k].state \in {"none", "sent"}
                          => order[k].state \in {"none", "sent"}
    <3>1. /\ order'[r.order].state = IF order[r.order].state = "open" THEN "cancelled"
                                     ELSE order[r.order].state
          /\ \A k \in Call \ {r.order} : order'[k] = order[k]
      BY <1>2, <1>4, <2>2 DEF Cancel, Order
    <3> QED
      BY <3>1
  <2> QED
    BY <1>1, <2>1, <2>3, NoAnswer DEF Through, AnswerInv, InfoDeadline
<1>5. ASSUME NEW n \in Call, NEW k \in 1 .. Left(n), Fill(n, k)
      PROVE  AnswerInv'
  <2>1. UNCHANGED <<called, expired, frame, result, tradingDone, tradeCb, timeout, act,
                    inbox>>
    BY <1>5 DEF Fill, posVars
  <2>2. \A c \in Call : order'[c].state \in {"none", "sent"}
                          => order[c].state \in {"none", "sent"}
    <3>1. order[n] \in Order /\ order[n].state = "open"
      BY <1>2, <1>5 DEF Fill
    <3>2. /\ order'[n].state \in {"open", "full"}
          /\ \A c \in Call \ {n} : order'[c] = order[c]
      BY <1>2, <1>5, <3>1 DEF Fill, Order
    <3> QED
      BY <3>2
  <2> QED
    BY <1>1, <2>1, <2>2, NoAnswer DEF Through, AnswerInv, InfoDeadline
<1> QED
  BY <1>3, <1>4, <1>5

LEMMA DeadlineAnswerInv ==
    ASSUME LimitInv, AnswerInv, DeadlinePasses
    PROVE  AnswerInv'
<1>1. expired' = 0 => expired = 0
  BY DEF DeadlinePasses, LimitTypeOK
<1>2. \A i \in 1 .. Len(inbox) : i + 0 \in 1 .. Len(inbox) /\ inbox[i] = inbox[i + 0]
  OBVIOUS
<1>3. UNCHANGED <<called, frame, result, tradingDone, tradeCb, timeout, act, inbox, order>>
  BY DEF DeadlinePasses, posVars, exchVars
<1> QED
  BY <1>1, <1>2, <1>3, NoAnswer DEF Through, AnswerInv, InfoDeadline

LEMMA SurroundingsAnswerInv ==
    ASSUME LimitInv, AnswerInv, Surroundings
    PROVE  AnswerInv'
  BY DeadlineAnswerInv, DropInfoAnswerInv, TradeAnswerAnswerInv, CallbackAnswerInv,
     PlacedAnswerInv, ExchangeAnswerInv DEF Surroundings, OnMessage, Serve

LEMMA AnswerStutters ==
    ASSUME AnswerInv, UNCHANGED limitVars
    PROVE  AnswerInv'
  BY DEF limitVars, AnswerInv, AnsweredOnce, ClosureForward, NoneLate, Through,
         InfoDeadline

\* So nothing belongs to a call that has not been made.
LEMMA NothingUncalled == LimitInv /\ AnswerInv => CallsMade
<1> SUFFICES ASSUME LimitInv, AnswerInv
             PROVE  CallsMade
  OBVIOUS
<1>1. called \in Nat /\ order \in [Call -> Order]
  BY DEF LimitTypeOK
<1>2. timeout \in [Channel -> 0 .. called]
  BY <1>1 DEF LimitTypeOK, Channel, LastDeadline, AnswerInv, InfoDeadline
<1>3. \A n \in Call : act[n].call <= called
  BY <1>1 DEF AnswerInv, ClosureForward
<1>4. \A n \in Call : n > called => order[n].state = "none" /\ act[n].at = "none"
  BY DEF OrdersKnown, AnswerInv, AnsweredOnce
<1>5. \A r \in requests : r.order <= called
  <2> SUFFICES ASSUME NEW r \in requests, r.order > called
               PROVE  FALSE
    BY <1>1 DEF LimitTypeOK, OrderRequest, InfoRequest
  <2>1. r.order \in Call
    BY DEF LimitTypeOK, OrderRequest, InfoRequest
  <2>2. order[r.order].state = "none"
    BY <2>1 DEF OrdersKnown
  <2> QED
    BY <2>2 DEF OrdersKnown, Known
<1>6. \A i \in 1 .. Len(inbox) : inbox[i].order <= called
  BY <1>1 DEF AnswersSent
<1> QED
  BY <1>2, <1>3, <1>4, <1>5, <1>6 DEF CallsMade

-----------------------------------------------------------------------------
(* A prompt exchange *)

\* Every request is answered, and the program has done all it can, before a sleep
\* or a deadline ends; no answer is lost.  And the pool has a second thread (the
\* code starts four): the only one would be held by the polling trade callback,
\* and the answer to its orderinfo request would wait for the callback to end.
PromptExchange == Pace = "prompt" /\ ~Lossy /\ PoolSize # 1

Settled(n) == order[n].state \in {"full", "cancelled", "rejected"}

\* limit() waits in the frame of call n, and has time left.
InTime(n) == ~Past(n) /\ frame = n /\ ~tradingDone

Quiet == requests = {} /\ Len(inbox) = 0

\* The request to place order n is on its way.
Placing(n) ==
    /\ act[n] = NoActivation /\ InTime(n)
    /\ requests = {[kind |-> "order", order |-> n]} /\ Len(inbox) = 0
    /\ order[n].state = "sent"

\* The exchange has accepted or rejected it.
Answered(n) ==
    /\ act[n] = NoActivation /\ InTime(n)
    /\ requests = {} /\ Len(inbox) = 1
    /\ Head(inbox).kind = "trade" /\ Head(inbox).order = n
    /\ order[n].state \in IF Head(inbox).ok THEN {"open", "full"} ELSE {"rejected"}

\* The trade callback runs for order n, and gets the orderinfo answers.
AtWork(n, where) ==
    /\ act[n].at = where /\ infoCb = n
    /\ order[n].state \in {"open", "full"}
    /\ act[n].stop => order[n].state = "full"

Begun(n) == AtWork(n, "start") /\ ~act[n].stop /\ InTime(n) /\ Quiet

\* Its orderinfo request is on the way to the exchange,
Asked(n) ==
    /\ AtWork(n, "sleep") /\ ~act[n].stop /\ InTime(n)
    /\ timeout["orderinfo"] = n
    /\ Len(inbox) = 0
    /\ \E r \in requests : requests = {r} /\ r.kind = "orderinfo" /\ r.order = n

\* and the answer on the way back.
Told(n) ==
    /\ AtWork(n, "sleep") /\ ~act[n].stop /\ InTime(n)
    /\ timeout["orderinfo"] = n
    /\ requests = {} /\ Len(inbox) = 1
    /\ Head(inbox).kind = "orderinfo" /\ Head(inbox).order = n
    /\ Head(inbox).info \in {"open", "full"}
    /\ Head(inbox).info = "full" => order[n].state = "full"

\* It sleeps, and final_info is what was told; limit() may have timed out by now.
Waits(n) ==
    /\ AtWork(n, "sleep") /\ Quiet
    /\ act[n].info = IF act[n].stop THEN "full" ELSE "open"
    /\ InTime(n) \/ (Past(n) /\ (frame = 0 => ~result))

\* It has left its loop.  A request to cancel is sent only after the deadline, when
\* limit() has returned false; otherwise the order is settled.
Over(n) ==
    /\ act[n].at \in {"erase", "ended"} /\ ~act[n].stop
    /\ Len(inbox) = 0
    /\ \/ requests = {} /\ Settled(n)
       \/ /\ requests = {[kind |-> "cancel", order |-> n]}
          /\ order[n].state \in {"open", "full"}
          /\ frame = 0 /\ Past(n) /\ ~result
    /\ frame = 0 \/ (tradingDone /\ ~Past(n))

Phase(n) == \/ Placing(n) \/ Answered(n) \/ Begun(n) \/ Asked(n) \/ Told(n)
            \/ Waits(n) \/ Over(n)

\* Only the last order is in a phase that is not over, and nothing that is on its
\* way belongs to another one.
OneAtATime ==
    /\ \A n \in Call : n < called =>
          Settled(n) /\ act[n].at \in {"erase", "ended"} /\ ~act[n].stop
    /\ \A n \in Call : n > called => act[n] = NoActivation
    /\ IF called = 0 THEN Quiet ELSE Phase(called)
    /\ tradeCb = called /\ frame \in {0, called}

\* The trade callback runs in the closure of the call that sent the order.
Own == \A n \in Call : act[n].at # "none" => act[n].call = n

NoneOverfilled == \A n \in Call : Unsettled(n) => order[n].filled < order[n].amount

PromptInv == LimitInv /\ OneAtATime /\ Own /\ NoneOverfilled

\* A message that is queued when no other one is, is the only one.
LEMMA OneMessage ==
    ASSUME NEW q \in Seq(Message), Len(q) = 0, NEW m \in Message
    PROVE  Len(Append(q, m)) = 1 /\ Head(Append(q, m)) = m
  OBVIOUS

\* Whatever is in flight, and whichever callback is at work, belongs to the last
\* order and tells the phase it is in.
LEMMA InFlight ==
    ASSUME PromptInv
    PROVE  /\ called # 0 => called \in Call
           /\ \A r \in requests :
                /\ called # 0 /\ r.order = called
                /\ r.kind = "order" => Placing(called)
                /\ r.kind = "orderinfo" => Asked(called)
                /\ r.kind = "cancel" => Over(called)
           /\ inbox # <<>> =>
                /\ called # 0 /\ Len(Tail(inbox)) = 0
                /\ Head(inbox).kind = "trade" => Answered(called)
                /\ Head(inbox).kind = "orderinfo" => Told(called)
                /\ Head(inbox).kind \in {"trade", "orderinfo"}
           /\ \A n \in Call :
                /\ act[n].at = "start" => n = called /\ Begun(n)
                /\ act[n].at = "sleep" => n = called /\ (Asked(n) \/ Told(n) \/ Waits(n))
<1>1. called # 0 => called \in Call
  BY DEF PromptInv, LimitTypeOK
<1>2. called = 0 => Quiet
  BY DEF PromptInv, OneAtATime
<1>3. called # 0 => Phase(called)
  BY DEF PromptInv, OneAtATime
<1>4. ASSUME NEW r \in requests
      PROVE  /\ called # 0 /\ r.order = called
             /\ r.kind = "order" => Placing(called)
             /\ r.kind = "orderinfo" => Asked(called)
             /\ r.kind = "cancel" => Over(called)
  <2>1. called # 0
    BY <1>2, <1>4 DEF Quiet
  <2>2. CASE Placing(called)
    <3>1. r.kind = "order" /\ r.order = called
      BY <1>4, <2>2 DEF Placing
    <3> QED
      BY <2>1, <2>2, <3>1
  <2>3. CASE Asked(called)
    <3>1. r.kind = "orderinfo" /\ r.order = called
      BY <1>4, <2>3 DEF Asked
    <3> QED
      BY <2>1, <2>3, <3>1
  <2>4. CASE Over(called)
    <3>1. r.kind = "cancel" /\ r.order = called
      BY <1>4, <2>4 DEF Over
    <3> QED
      BY <2>1, <2>4, <3>1
  <2> QED
    BY <1>3, <1>4, <2>1, <2>2, <2>3, <2>4 DEF Phase, Answered, Begun, Told, Waits, Quiet
<1>5. ASSUME inbox # <<>>
      PROVE  /\ called # 0 /\ Len(Tail(inbox)) = 0
             /\ Head(inbox).kind = "trade" => Answered(called)
             /\ Head(inbox).kind = "orderinfo" => Told(called)
             /\ Head(inbox).kind \in {"trade", "orderinfo"}
  <2>1. inbox \in Seq(Message) /\ Len(inbox) # 0
    BY <1>5, TailMessages DEF PromptInv, LimitTypeOK, Message
  <2>2. called # 0
    BY <1>2, <2>1 DEF Quiet
  <2>3. Answered(called) \/ Told(called)
    BY <1>3, <2>1, <2>2 DEF Phase, Placing, Begun, Asked, Waits, Over, Quiet
  <2>4. Len(inbox) = 1
    BY <2>3 DEF Answered, Told
  <2>5. Len(Tail(inbox)) = 0
    BY <1>5, <2>1, <2>4
  <2> QED
    BY <2>2, <2>3, <2>5 DEF Answered, Told
<1>6. ASSUME NEW n \in Call, act[n].at \in {"start", "sleep"}
      PROVE  n = called
  <2>1. ~(n < called)
    BY <1>6 DEF PromptInv, OneAtATime
  <2>2. ~(n > called)
    BY <1>6 DEF PromptInv, OneAtATime, NoActivation
  <2> QED
    BY <2>1, <2>2 DEF PromptInv, LimitTypeOK
<1>7. ASSUME NEW n \in Call
      PROVE  /\ act[n].at = "start" => n = called /\ Begun(n)
             /\ act[n].at = "sleep" => n = called /\ (Asked(n) \/ Told(n) \/ Waits(n))
  <2>1. CASE act[n].at \in {"start", "sleep"}
    <3>1. n = called /\ called # 0
      BY <1>6, <2>1
    <3> QED
      BY <1>3, <2>1, <3>1 DEF Phase, Placing, Answered, Begun, Asked, Told, Waits, Over,
                             AtWork, NoActivation
  <2> QED
    BY <2>1
<1> QED
  BY <1>1, <1>4, <1>5, <1>7

\* When a sleep or a deadline ends, nothing is in flight: the last order is polled
\* for or over, and limit() has seen all there is to see.
LEMMA WhenTimePasses ==
    ASSUME PromptInv, PromptExchange, TimeMayPass
    PROVE  /\ Quiet
           /\ called # 0 => Waits(called) \/ Over(called)
           /\ frame # 0 => ~tradingDone /\ ~Past(frame)
<1>1. NetworkQuiet /\ ProgramQuiet
  BY DEF TimeMayPass, PromptExchange
<1>2. ThreadFree
  <2> DEFINE busy == {n \in Call : Running(n)}
  <2>1. busy \subseteq {called}
    <3> SUFFICES ASSUME NEW n \in Call, Running(n) PROVE n = called
      OBVIOUS
    <3>1. act[n].at = "sleep"
      BY <1>1 DEF ProgramQuiet, Running
    <3> QED
      BY <3>1, InFlight
  <2>2. IsFiniteSet({called}) /\ Cardinality({called}) = 1
    BY FS_Singleton
  <2>3. Cardinality(busy) <= 1
    BY <2>1, <2>2, FS_Subset
  <2>4. IsFiniteSet(busy)
    BY <2>1, <2>2, FS_Subset
  <2>5. Cardinality(busy) \in Nat
    BY <2>4, FS_CardinalityType
  <2> HIDE DEF busy
  <2>6. Cardinality(busy) < PoolSize
    BY <2>3, <2>5, PoolAssumption DEF PromptExchange
  <2> QED
    BY <2>6 DEF ThreadFree, busy
<1>3. Quiet
  BY <1>1, <1>2 DEF NetworkQuiet, Quiet
<1>4. ASSUME called # 0
      PROVE  Waits(called) \/ Over(called)
  <2>1. Phase(called) /\ called \in Call
    BY <1>4, InFlight DEF PromptInv, OneAtATime
  <2>2. act[called].at \in {"none", "sleep", "ended"}
    BY <1>1, <2>1 DEF ProgramQuiet
  <2>3. ~Placing(called) /\ ~Asked(called)
    BY <1>3 DEF Placing, Asked, Quiet
  <2>4. ~Answered(called) /\ ~Told(called)
    BY <1>3 DEF Answered, Told, Quiet
  <2>5. ~Begun(called)
    BY <2>2 DEF Begun, AtWork
  <2> QED
    BY <2>1, <2>3, <2>4, <2>5 DEF Phase
<1> QED
  BY <1>1, <1>3, <1>4 DEF ProgramQuiet

-----------------------------------------------------------------------------
(* Every step of the last order leads to one of its phases *)

\* A step that leads the last order to a phase, and leaves the other ones alone.
LEMMA Advance ==
    ASSUME PromptInv, LimitInv', called # 0, UNCHANGED <<called, tradeCb>>,
           frame' \in {0, frame},
           \A n \in Call \ {called} : act'[n] = act[n] /\ order'[n] = order[n],
           Phase(called)',
           act'[called].at # "none" => act'[called].call = called,
           Unsettled(called)' => order'[called].filled < order'[called].amount
    PROVE  PromptInv'
<1>1. called \in Call /\ called' = called
  BY InFlight
<1>2. OneAtATime'
  <2>1. ASSUME NEW n \in Call, n < called
        PROVE  Settled(n)' /\ act'[n].at \in {"erase", "ended"} /\ ~act'[n].stop
    <3>1. Settled(n) /\ act[n].at \in {"erase", "ended"} /\ ~act[n].stop
      BY <2>1 DEF PromptInv, OneAtATime
    <3>2. act'[n] = act[n] /\ order'[n] = order[n]
      BY <1>1, <2>1
    <3> QED
      BY <3>1, <3>2 DEF Settled
  <2>2. ASSUME NEW n \in Call, n > called
        PROVE  act'[n] = NoActivation
    BY <1>1, <2>2 DEF PromptInv, OneAtATime
  <2>3. tradeCb' = called' /\ frame' \in {0, called'}
    BY <1>1 DEF PromptInv, OneAtATime
  <2> QED
    BY <1>1, <2>1, <2>2, <2>3 DEF OneAtATime
<1>3. Own'
  BY <1>1 DEF PromptInv, Own
<1>4. NoneOverfilled'
  <2> SUFFICES ASSUME NEW n \in Call, Unsettled(n)'
               PROVE  (order[n].filled < order[n].amount)'
    BY DEF NoneOverfilled
  <2>1. CASE n # called
    BY <2>1 DEF PromptInv, NoneOverfilled, Unsettled
  <2>2. CASE n = called
    BY <1>1, <2>2
  <2> QED
    BY <2>1, <2>2
<1> QED
  BY <1>2, <1>3, <1>4 DEF PromptInv

\* The exchange answers the one request to place an order, and nothing is lost.
LEMMA PlacedAdvances ==
    ASSUME PromptInv, PromptExchange, NEW r \in requests, Accept(r) \/ Reject(r)
    PROVE  PromptInv'
<1> DEFINE n == called
<1>1. n \in Call /\ n # 0 /\ r.order = n /\ Placing(n)
  BY InFlight DEF Accept, Reject
<1>2. LimitInv'
  BY ServeInvariant DEF Serve, PromptInv
<1>3. PICK ok \in BOOLEAN :
        /\ order' = [order EXCEPT ![n].state = IF ok THEN "open" ELSE "rejected"]
        /\ Answer([kind |-> "trade", order |-> n, ok |-> ok])
        /\ requests' = requests \ {r}
        /\ UNCHANGED <<called, expired, frame, result, tradingDone, tradeCb, infoCb,
                       timeout, act, held>>
  <2>1. CASE Accept(r)
    BY <1>1, <2>1 DEF Accept, posVars
  <2>2. CASE Reject(r)
    BY <1>1, <2>2 DEF Reject, posVars
  <2> QED
    BY <2>1, <2>2
<1> DEFINE m == [kind |-> "trade", order |-> n, ok |-> ok]
<1>4. requests' = {}
  BY <1>1, <1>3 DEF Placing
<1>5. Len(inbox') = 1 /\ Head(inbox') = m
  <2>1. m \in Message /\ inbox \in Seq(Message)
    BY <1>1 DEF Message, TradeAnswer, PromptInv, LimitTypeOK
  <2>2. Answer(m)
    BY <1>3
  <2> HIDE DEF m
  <2> QED
    BY <1>1, <2>1, <2>2, OneMessage DEF Placing, Answer, PromptExchange
<1>6. /\ order'[n].state = IF ok THEN "open" ELSE "rejected"
      /\ order'[n].filled = order[n].filled /\ order'[n].amount = order[n].amount
      /\ \A k \in Call \ {n} : order'[k] = order[k]
  BY <1>1, <1>3 DEF PromptInv, LimitTypeOK, Order
<1>7. Answered(n)'
  BY <1>1, <1>3, <1>4, <1>5, <1>6 DEF Placing, Answered, InTime, Past
<1>8. order[n].filled < order[n].amount
  BY <1>1 DEF Placing, PromptInv, NoneOverfilled, Unsettled
<1> QED
  BY <1>1, <1>2, <1>3, <1>6, <1>7, <1>8, Advance DEF Phase, PromptInv, Own

\* The orderinfo answer is about the order that was asked about, as it is now.
LEMMA InfoAnswerAdvances ==
    ASSUME PromptInv, PromptExchange, NEW r \in requests, AnswerInfo(r)
    PROVE  PromptInv'
<1> DEFINE n == called
           m == [kind |-> "orderinfo", order |-> n, info |-> order[n].state]
<1>1. n \in Call /\ n # 0 /\ r.order = n /\ Asked(n)
  BY InFlight DEF AnswerInfo
<1>2. LimitInv'
  BY ServeInvariant DEF Serve, PromptInv
<1>3. /\ UNCHANGED <<called, expired, frame, result, tradingDone, tradeCb, infoCb,
                     timeout, act, order, held>>
      /\ Answer(m) /\ requests' = requests \ {r}
  BY <1>1 DEF AnswerInfo, posVars, exchVars
<1>4. requests' = {}
  BY <1>1, <1>3 DEF Asked
<1>5. Len(inbox') = 1 /\ Head(inbox') = m
  <2>1. m \in Message /\ inbox \in Seq(Message)
    BY <1>1 DEF Message, InfoAnswer, Status, Asked, AtWork, PromptInv, LimitTypeOK
  <2> HIDE DEF m
  <2> QED
    BY <1>1, <1>3, <2>1, OneMessage DEF Asked, Answer, PromptExchange
<1>6. Told(n)'
  BY <1>1, <1>3, <1>4, <1>5 DEF Asked, Told, AtWork, InTime, Past
<1> QED
  BY <1>1, <1>2, <1>3, <1>6, Advance DEF Phase, PromptInv, Own, NoneOverfilled, Unsettled

\* A cancelled order is settled; one that was filled meanwhile is, too.
LEMMA CancelAdvances ==
    ASSUME PromptInv, PromptExchange, NEW r \in requests, Cancel(r)
    PROVE  PromptInv'
<1> DEFINE n == called
<1>1. n \in Call /\ n # 0 /\ r.order = n /\ Over(n)
  BY InFlight DEF Cancel
<1>2. LimitInv'
  BY ServeInvariant DEF Serve, PromptInv
<1>3. /\ UNCHANGED <<called, expired, frame, result, tradingDone, tradeCb, infoCb,
                     timeout, act, inbox, held>>
      /\ order' = [order EXCEPT ![n].state = IF @ = "open" THEN "cancelled" ELSE @]
      /\ requests' = requests \ {r}
  BY <1>1 DEF Cancel, posVars
<1>4. requests' = {} /\ order[n].state \in {"open", "full"}
  BY <1>1, <1>3 DEF Over
<1>5. /\ order'[n].state \in {"cancelled", "full"}
      /\ \A k \in Call \ {n} : order'[k] = order[k]
  BY <1>1, <1>3, <1>4 DEF PromptInv, LimitTypeOK, Order
<1>6. Over(n)'
  BY <1>1, <1>3, <1>4, <1>5 DEF Over, Settled, Past
<1> QED
  BY <1>1, <1>2, <1>3, <1>5, <1>6, Advance DEF Phase, PromptInv, Own, Unsettled

\* Contracts trade only under the last order, whose phase does not depend on
\* how much of it is filled.
LEMMA FillAdvances ==
    ASSUME PromptInv, NEW n \in Call, NEW k \in 1 .. Left(n), Fill(n, k)
    PROVE  /\ n = called /\ Unsettled(n) /\ PromptInv'
           /\ order'[n].type = order[n].type /\ order'[n].amount = order[n].amount
           /\ order'[n].filled = order[n].filled + k
           /\ order'[n].state = IF k = Left(n) THEN "full" ELSE "open"
<1>1. n = called /\ n # 0
  <2>1. ~(n > called)
    BY DEF Fill, PromptInv, OrdersKnown
  <2>2. ~(n < called)
    BY DEF Fill, PromptInv, OneAtATime, Settled
  <2> QED
    BY <2>1, <2>2 DEF PromptInv, LimitTypeOK
<1>2. LimitInv'
  BY FillInvariant DEF PromptInv
<1>3. /\ UNCHANGED <<called, expired, frame, result, tradingDone, tradeCb, infoCb,
                     timeout, act, requests, inbox>>
      /\ order[n].state = "open"
      /\ order' = [order EXCEPT ![n].filled = @ + k,
                               ![n].state = IF k = Left(n) THEN "full" ELSE @]
  BY DEF Fill, posVars
<1>4. /\ order'[n].type = order[n].type /\ order'[n].amount = order[n].amount
      /\ order'[n].filled = order[n].filled + k
      /\ order'[n].state = IF k = Left(n) THEN "full" ELSE "open"
      /\ \A c \in Call \ {n} : order'[c] = order[c]
      /\ order[n].amount \in Nat /\ order[n].filled \in Nat
  BY <1>3 DEF PromptInv, LimitTypeOK, Order
<1>5. Phase(n)'
  <2>1. Phase(n)
    BY <1>1 DEF PromptInv, OneAtATime
  <2>2. CASE Answered(n)
    BY <1>3, <1>4, <2>2 DEF Phase, Answered, InTime, Past
  <2>3. CASE Begun(n)
    BY <1>3, <1>4, <2>3 DEF Phase, Begun, AtWork, InTime, Past, Quiet
  <2>4. CASE Asked(n)
    BY <1>3, <1>4, <2>4 DEF Phase, Asked, AtWork, InTime, Past
  <2>5. CASE Told(n)
    BY <1>3, <1>4, <2>5 DEF Phase, Told, AtWork, InTime, Past
  <2>6. CASE Waits(n)
    BY <1>3, <1>4, <2>6 DEF Phase, Waits, AtWork, InTime, Past, Quiet
  <2>7. CASE Over(n)
    BY <1>3, <1>4, <2>7 DEF Phase, Over, Settled, Past
  <2> QED
    BY <1>3, <2>1, <2>2, <2>3, <2>4, <2>5, <2>6, <2>7 DEF Phase, Placing
<1>6. Unsettled(n)' => order'[n].filled < order'[n].amount
  BY <1>4 DEF Unsettled, Left
<1> QED
  BY <1>1, <1>2, <1>3, <1>4, <1>5, <1>6, Advance DEF PromptInv, Own, Unsettled

-----------------------------------------------------------------------------
(* The pool *)

\* The deadline that a channel stores when an answer comes is the one of the order
\* that is answered, and it has not passed: on_message() drops nothing.
LEMMA NothingDropped ==
    ASSUME PromptInv
    PROVE  ~DropMessage
<1> SUFFICES ASSUME DropMessage
             PROVE  FALSE
  OBVIOUS
<1>1. inbox # <<>> /\ ~WillCallback(Head(inbox).kind)
  BY DEF DropMessage
<1>2. CASE Answered(called)
  BY <1>1, <1>2 DEF Answered, InTime, WillCallback, Past, PromptInv, LastDeadline
<1>3. CASE Told(called)
  BY <1>1, <1>3 DEF Told, InTime, WillCallback, Past
<1> QED
  BY <1>1, <1>2, <1>3, InFlight

\* The answer runs the closure of its own call: a rejected order sets the flag that
\* limit() waits for, an accepted one is polled for.
LEMMA TradeAnswerAdvances ==
    ASSUME PromptInv, OnTradeAnswer
    PROVE  PromptInv'
<1> DEFINE n == called
           m == Head(inbox)
<1>1. /\ n \in Call /\ n # 0 /\ Answered(n) /\ Len(Tail(inbox)) = 0
      /\ m.order = n /\ m.kind = "trade"
  BY InFlight DEF OnTradeAnswer, Answered
<1>2. LimitInv'
  BY TradeAnswerInvariant DEF PromptInv
<1>3. /\ UNCHANGED <<called, expired, frame, result, tradeCb, timeout, requests,
                     order, held>>
      /\ Len(inbox') = 0 /\ tradeCb = n /\ frame = n
      /\ act' = [act EXCEPT ![n].at = IF m.ok THEN "start" ELSE "erase", ![n].call = n]
      /\ \/ m.ok /\ infoCb' = n /\ tradingDone' = tradingDone
         \/ ~m.ok /\ tradingDone' = TRUE /\ infoCb' = infoCb
  BY <1>1 DEF OnTradeAnswer, SetDone, exchVars, PromptInv, OneAtATime, Answered, InTime
<1>4. /\ act'[n].at = IF m.ok THEN "start" ELSE "erase"
      /\ act'[n].call = n /\ ~act'[n].stop
      /\ \A k \in Call \ {n} : act'[k] = act[k]
  BY <1>1, <1>3 DEF PromptInv, LimitTypeOK, Activation, Answered, NoActivation
<1>5. ASSUME m.ok PROVE Phase(n)'
  <2>1. Begun(n)'
    BY <1>1, <1>3, <1>4, <1>5 DEF Answered, Begun, AtWork, InTime, Past, Quiet
  <2> QED
    BY <2>1 DEF Phase
<1>6. ASSUME ~m.ok PROVE Phase(n)'
  <2>1. Over(n)'
    BY <1>1, <1>3, <1>4, <1>6 DEF Answered, Over, Settled, InTime, Past
  <2> QED
    BY <2>1 DEF Phase
<1>7. Phase(n)'
  BY <1>5, <1>6
<1> QED
  BY <1>1, <1>2, <1>3, <1>4, <1>7, Advance DEF PromptInv, NoneOverfilled, Unsettled

\* The orderinfo answer reaches the callback that asked for it.
LEMMA InfoAdvances ==
    ASSUME PromptInv, OnInfoAnswer
    PROVE  PromptInv'
<1> DEFINE n == called
           m == Head(inbox)
<1>1. n \in Call /\ n # 0 /\ Told(n) /\ Len(Tail(inbox)) = 0
  BY InFlight DEF OnInfoAnswer
<1>2. LimitInv'
  BY InfoAnswerInvariant DEF PromptInv
<1>3. /\ UNCHANGED <<called, expired, frame, result, tradingDone, tradeCb, infoCb,
                     requests, order, held>>
      /\ Len(inbox') = 0
      /\ act' = [act EXCEPT ![n] = Informed(@, m.info)]
  BY <1>1 DEF OnInfoAnswer, posVars, exchVars, Told, AtWork, Running
<1>4. /\ act'[n] = Informed(act[n], m.info)
      /\ \A k \in Call \ {n} : act'[k] = act[k]
  BY <1>1, <1>3 DEF PromptInv, LimitTypeOK
<1>5. act[n] \in Activation /\ m.info \in {"open", "full"}
  BY <1>1 DEF PromptInv, LimitTypeOK, Told
<1>6. /\ act'[n].at = act[n].at /\ act'[n].call = act[n].call
      /\ act'[n].info = m.info /\ act'[n].stop = (act[n].stop \/ m.info = "full")
  BY <1>4, <1>5 DEF Informed, Activation
<1>7. Waits(n)'
  BY <1>1, <1>3, <1>5, <1>6 DEF Told, Waits, AtWork, InTime, Past, Quiet
<1> QED
  BY <1>1, <1>2, <1>3, <1>4, <1>6, <1>7, Advance
     DEF Phase, PromptInv, Own, NoneOverfilled, Unsettled

-----------------------------------------------------------------------------
(* The trade callback *)

\* The loop is tested when the callback begins, or when all is quiet, and then by
\* its own deadline, before limit() has returned or after it has timed out.
LEMMA LoopTest ==
    ASSUME PromptInv, PromptExchange, NEW n \in Call, AtLoopTest(n)
    PROVE  /\ n = called /\ Closure(n) = {n} /\ Quiet
           /\ act[n].call = n
           /\ \/ Begun(n)
              \/ Waits(n) /\ (frame # 0 => ~Past(n))
<1>1. n = called /\ act[n].at \in {"start", "sleep"}
  BY InFlight DEF AtLoopTest
<1>2. act[n].call = n /\ Closure(n) = {n}
  BY <1>1 DEF Closure, PromptInv, Own, OneAtATime
<1>3. CASE act[n].at = "start"
  BY <1>1, <1>2, <1>3, InFlight DEF Begun
<1>4. CASE act[n].at = "sleep"
  <2>1. TimeMayPass
    BY <1>4 DEF AtLoopTest
  <2>2. Quiet /\ Waits(n) /\ (frame # 0 => ~Past(n))
    BY <1>1, <1>4, <2>1, WhenTimePasses DEF Over, PromptInv, OneAtATime
  <2> QED
    BY <1>1, <1>2, <2>2
<1> QED
  BY <1>1, <1>3, <1>4

\* It asks once a second, and never twice before it is told.
LEMMA PollAdvances ==
    ASSUME PromptInv, PromptExchange, NEW n \in Call, Poll(n)
    PROVE  PromptInv'
<1>1. /\ n = called /\ n # 0 /\ Closure(n) = {n} /\ Quiet /\ act[n].call = n
      /\ Begun(n) \/ Waits(n)
  BY LoopTest DEF Poll
<1>2. LimitInv'
  BY PollInvariant DEF PromptInv
<1>3. /\ UNCHANGED <<called, expired, frame, result, tradingDone, tradeCb, infoCb,
                     inbox, order, held>>
      /\ ~Past(n) /\ ~act[n].stop
      /\ timeout' = [timeout EXCEPT !["orderinfo"] = n]
      /\ requests' = requests \union
           {[kind |-> "orderinfo", order |-> n, poll |-> act[n].polls + 1]}
      /\ act' = [act EXCEPT ![n].at = "sleep", ![n].polls = @ + 1]
  BY <1>1 DEF Poll, posVars, exchVars
<1>4. /\ act'[n].at = "sleep" /\ act'[n].call = n /\ ~act'[n].stop
      /\ timeout'["orderinfo"] = n
      /\ \A k \in Call \ {n} : act'[k] = act[k]
  BY <1>1, <1>3 DEF PromptInv, LimitTypeOK, Activation, Channel
<1>5. \E r \in requests' : requests' = {r} /\ r.kind = "orderinfo" /\ r.order = n
  BY <1>1, <1>3 DEF Quiet
<1>6. InTime(n) /\ AtWork(n, act[n].at) /\ Len(inbox) = 0
  BY <1>1, <1>3 DEF Begun, Waits, AtWork, Quiet
<1>7. Asked(n)'
  BY <1>3, <1>4, <1>5, <1>6 DEF Asked, AtWork, InTime, Past
<1> QED
  BY <1>1, <1>2, <1>3, <1>4, <1>7, Advance DEF Phase, PromptInv, NoneOverfilled, Unsettled

\* It leaves the loop with a filled order in time, or to cancel one after limit()
\* has timed out.
LEMMA LeaveLoopAdvances ==
    ASSUME PromptInv, PromptExchange, NEW n \in Call, LeaveLoop(n)
    PROVE  PromptInv'
<1>1. /\ n = called /\ n # 0 /\ Quiet /\ act[n].call = n
      /\ Waits(n) /\ (frame # 0 => ~Past(n))
      /\ ~act[n].stop => Past(n)
  BY LoopTest DEF LeaveLoop, Begun, InTime
<1>2. LimitInv'
  BY LeaveLoopInvariant DEF PromptInv
<1>3. /\ UNCHANGED <<called, expired, frame, result, tradeCb, infoCb, timeout,
                     inbox, order, held>>
      /\ requests' = IF act[n].stop THEN {} ELSE {[kind |-> "cancel", order |-> n]}
      /\ SetDone(n)
      /\ act' = [act EXCEPT ![n] = [at |-> "erase", call |-> act[n].call,
                   info |-> "failed", stop |-> FALSE, polls |-> 0]]
  BY <1>1 DEF LeaveLoop, LeaveAnd, exchVars, Waits, Quiet
<1>4. /\ act'[n].at = "erase" /\ act'[n].call = n /\ ~act'[n].stop
      /\ \A k \in Call \ {n} : act'[k] = act[k]
  BY <1>1, <1>3 DEF PromptInv, LimitTypeOK
<1>5. frame \in {0, n} /\ (frame = n => tradingDone' = TRUE)
  BY <1>1, <1>3 DEF SetDone, PromptInv, OneAtATime
<1>6. Over(n)'
  BY <1>1, <1>3, <1>4, <1>5 DEF Waits, AtWork, InTime, Quiet, Over, Settled, Past
<1> QED
  BY <1>1, <1>2, <1>3, <1>4, <1>6, Advance DEF Phase, PromptInv, NoneOverfilled, Unsettled

\* The callback of an earlier order that comes back to on_message() late disturbs
\* the last order in no phase: its deadline is not looked at by then.
LEMMA EraseAdvances ==
    ASSUME PromptInv, NEW n \in Call, EraseTrade(n)
    PROVE  PromptInv'
<1>1. /\ UNCHANGED <<called, expired, frame, result, tradingDone, tradeCb, infoCb,
                     requests, inbox, order, held>>
      /\ act[n].at = "erase"
      /\ act' = [act EXCEPT ![n].at = "ended"]
  BY DEF EraseTrade, posVars, exchVars
<1>2. LimitInv'
  BY EraseInvariant DEF PromptInv
<1>3. /\ act'[n].at = "ended" /\ act'[n].stop = act[n].stop /\ act'[n].call = act[n].call
      /\ \A k \in Call \ {n} : act'[k] = act[k]
  BY <1>1 DEF PromptInv, LimitTypeOK, Activation
<1>4. ~(n > called)
  BY <1>1 DEF PromptInv, OneAtATime, NoActivation
<1>5. called \in Nat /\ called # 0
  BY <1>4 DEF PromptInv, LimitTypeOK
<1>6. CASE n = called
  <2>1. Over(n)
    BY <1>1, <1>5, <1>6 DEF PromptInv, OneAtATime, Phase, Placing, Answered, Begun,
                      Asked, Told, Waits, AtWork, NoActivation
  <2>2. Over(n)'
    BY <1>1, <1>3, <2>1 DEF Over, Settled, Past
  <2> QED
    BY <1>1, <1>2, <1>3, <1>5, <1>6, <2>2, Advance
       DEF Phase, PromptInv, Own, NoneOverfilled, Unsettled
<1>7. CASE n # called
  <2>1. \A k \in Call : k < called =>
          Settled(k)' /\ act'[k].at \in {"erase", "ended"} /\ ~act'[k].stop
    BY <1>1, <1>3 DEF PromptInv, OneAtATime, Settled
  <2>2. \A k \in Call : k > called => act'[k] = NoActivation
    BY <1>3, <1>4 DEF PromptInv, OneAtATime
  <2>3. act'[called] = act[called] /\ Phase(called)
    BY <1>3, <1>5, <1>7, InFlight DEF PromptInv, OneAtATime
  <2>4. timeout'["orderinfo"] = timeout["orderinfo"]
    BY DEF EraseTrade, PromptInv, LimitTypeOK, Channel
  <2>5. Phase(called)'
    BY <1>1, <2>3, <2>4 DEF Phase, Placing, Answered, Begun, Asked, Told, Waits, Over,
                      AtWork, InTime, Quiet, Settled, Past
  <2>6. OneAtATime'
    BY <1>1, <1>5, <2>1, <2>2, <2>5 DEF PromptInv, OneAtATime
  <2>7. Own' /\ NoneOverfilled'
    BY <1>1, <1>3 DEF PromptInv, Own, NoneOverfilled, Unsettled
  <2> QED
    BY <1>2, <2>6, <2>7 DEF PromptInv
<1> QED
  BY <1>6, <1>7

-----------------------------------------------------------------------------
(* The clock *)

\* A deadline passes only while the order waits for it, or after limit() has
\* returned.
LEMMA DeadlineAdvances ==
    ASSUME PromptInv, PromptExchange, DeadlinePasses
    PROVE  PromptInv'
<1>1. /\ UNCHANGED <<called, frame, result, tradingDone, tradeCb, infoCb,
                     timeout, act, requests, inbox, order, held>>
      /\ expired' = expired + 1 /\ expired < called /\ TimeMayPass
  BY DEF DeadlinePasses, posVars, exchVars
<1>2. called \in Call /\ called # 0 /\ expired \in Nat /\ called \in Nat
  BY <1>1 DEF PromptInv, LimitTypeOK
<1>3. LimitInv'
  BY DeadlineInvariant DEF PromptInv
<1>4. /\ Waits(called) \/ Over(called)
      /\ frame # 0 => ~tradingDone /\ ~Past(frame)
  BY <1>1, <1>2, WhenTimePasses
<1>5. ASSUME Waits(called) PROVE Phase(called)'
  <2>1. Waits(called)'
    BY <1>1, <1>2, <1>5 DEF Waits, AtWork, InTime, Quiet, Past
  <2> QED
    BY <2>1 DEF Phase
<1>6. ASSUME Over(called) PROVE Phase(called)'
  <2>1. frame = 0
    BY <1>4, <1>6 DEF Over
  <2>2. Over(called)'
    BY <1>1, <1>2, <1>6, <2>1 DEF Over, Settled, Past
  <2> QED
    BY <2>2 DEF Phase
<1>7. Phase(called)'
  BY <1>4, <1>5, <1>6
<1> QED
  BY <1>1, <1>2, <1>3, <1>7, Advance DEF PromptInv, Own, NoneOverfilled, Unsettled

\* Whatever the pool, the clock and the exchange do leads the last order on.
LEMMA SurroundingsAdvance ==
    ASSUME PromptInv, PromptExchange, Surroundings
    PROVE  PromptInv'
<1>1. CASE OnMessage
  BY <1>1, NothingDropped, TradeAnswerAdvances, InfoAdvances DEF OnMessage
<1>2. ASSUME NEW n \in Call, Callback(n)
      PROVE  PromptInv'
  BY <1>2, PollAdvances, LeaveLoopAdvances, EraseAdvances DEF Callback
<1>3. ASSUME NEW r \in requests, Serve(r)
      PROVE  PromptInv'
  BY <1>3, PlacedAdvances, InfoAnswerAdvances, CancelAdvances DEF Serve
<1>4. ASSUME NEW n \in Call, NEW k \in 1 .. Left(n), Fill(n, k)
      PROVE  PromptInv'
  BY <1>4, FillAdvances
<1> QED
  BY <1>1, <1>2, <1>3, <1>4, DeadlineAdvances DEF Surroundings

-----------------------------------------------------------------------------
(* The position thread *)

\* The last order is settled, and its callback has left the loop.
AtRest == requests = {} /\ (called # 0 => Over(called) /\ Settled(called))

\* When limit() has returned true, nothing is at work, although the trade callback
\* set the flag before it was done.
LEMMA RestAfterSuccess ==
    ASSUME PromptInv, frame = 0, result
    PROVE  AtRest
<1>1. CASE called = 0
  BY <1>1 DEF AtRest, PromptInv, OneAtATime, Quiet
<1>2. CASE called # 0
  <2>1. Phase(called) /\ called \in Call
    BY <1>2, InFlight DEF PromptInv, OneAtATime
  <2>2. ~InTime(called)
    BY <1>2 DEF InTime
  <2>3. Over(called) /\ requests = {}
    BY <2>1, <2>2 DEF Phase, Placing, Answered, Begun, Asked, Told, Waits, Over
  <2> QED
    BY <1>2, <2>3 DEF AtRest, Over
<1> QED
  BY <1>1, <1>2

\* A call of limit() that is made at rest begins the phases of the next order.
LEMMA LimitAdvances ==
    ASSUME PromptInv, AtRest, NEW type \in OrderType, NEW amount \in Nat \ {0},
           Limit(type, amount)
    PROVE  PromptInv'
<1> DEFINE n == called + 1
<1>1. /\ n \in Call /\ called \in Nat /\ expired \in Nat /\ expired <= called
      /\ called' = n /\ frame' = n /\ tradeCb' = n
      /\ tradingDone' = FALSE
      /\ UNCHANGED <<expired, act, inbox>>
      /\ requests' = requests \union {[kind |-> "order", order |-> n]}
      /\ order' = [order EXCEPT ![n] =
                     [state |-> "sent", type |-> type, amount |-> amount, filled |-> 0]]
  BY DEF Limit, PromptInv, LimitTypeOK
<1>2. LimitInv'
  BY LimitInvariant DEF PromptInv
<1>3. /\ order'[n] = [state |-> "sent", type |-> type, amount |-> amount, filled |-> 0]
      /\ \A c \in Call \ {n} : order'[c] = order[c]
  BY <1>1 DEF PromptInv, LimitTypeOK
<1>4. act[n] = NoActivation
  BY <1>1 DEF PromptInv, OneAtATime
<1>5. Len(inbox) = 0
  BY <1>1 DEF AtRest, Over, PromptInv, OneAtATime, Quiet
<1>6. Placing(called)'
  <2>1. requests' = {[kind |-> "order", order |-> n]}
    BY <1>1 DEF AtRest
  <2> QED
    BY <1>1, <1>3, <1>4, <1>5, <2>1 DEF Placing, InTime, Past
<1>7. ASSUME NEW c \in Call, c < n
      PROVE  Settled(c)' /\ act'[c].at \in {"erase", "ended"} /\ ~act'[c].stop
  <2>1. order'[c] = order[c] /\ act'[c] = act[c]
    BY <1>1, <1>3, <1>7
  <2>2. CASE c < called
    BY <2>1, <2>2 DEF PromptInv, OneAtATime, Settled
  <2>3. CASE c = called
    BY <1>1, <2>1, <2>3 DEF AtRest, Over, Settled
  <2> QED
    BY <1>1, <1>7, <2>2, <2>3
<1>8. ASSUME NEW c \in Call, c > n
      PROVE  act'[c] = NoActivation
  BY <1>1, <1>8 DEF PromptInv, OneAtATime
<1>9. OneAtATime'
  <2>1. Phase(called)'
    BY <1>6 DEF Phase
  <2> QED
    BY <1>1, <1>7, <1>8, <2>1 DEF OneAtATime
<1>10. Own'
  BY <1>1 DEF PromptInv, Own
<1>11. NoneOverfilled'
  BY <1>1, <1>3 DEF PromptInv, NoneOverfilled, Unsettled
<1> QED
  BY <1>2, <1>9, <1>10, <1>11 DEF PromptInv

\* limit() returns in time when the order is over, and late while it is polled for.
LEMMA ReturnAdvances ==
    ASSUME PromptInv, LimitReturns
    PROVE  PromptInv' /\ frame' = 0
<1>1. /\ frame = called /\ called # 0 /\ called \in Call /\ frame' = 0
      /\ UNCHANGED <<called, expired, tradeCb, infoCb, timeout, act, requests,
                     inbox, order, held>>
      /\ \/ ~Past(called) /\ tradingDone
         \/ Past(called) /\ result' = FALSE
  BY InFlight
     DEF LimitReturns, LimitReturnsTrue, LimitReturnsFalse, Return, PromptInv, OneAtATime
<1>2. LimitInv'
  BY ReturnInvariant DEF PromptInv
<1>3. Phase(called) /\ ~InTime(called)
  BY <1>1 DEF PromptInv, OneAtATime, InTime
<1>4. CASE Waits(called)
  <2>1. Past(called) /\ result' = FALSE
    BY <1>1, <1>3, <1>4 DEF Waits
  <2>2. Waits(called)'
    BY <1>1, <1>4, <2>1 DEF Waits, AtWork, Quiet, Past, InTime
  <2> QED
    BY <1>1, <1>2, <2>2, Advance DEF Phase, PromptInv, Own, NoneOverfilled, Unsettled
<1>5. CASE Over(called)
  <2>1. Over(called)'
    BY <1>1, <1>5 DEF Over, Settled, Past
  <2> QED
    BY <1>1, <1>2, <2>1, Advance DEF Phase, PromptInv, Own, NoneOverfilled, Unsettled
<1> QED
  BY <1>3, <1>4, <1>5 DEF Phase, Placing, Answered, Begun, Asked, Told

\* What the position thread does between two calls changes no phase.
LEMMA PromptStutters ==
    ASSUME PromptInv, UNCHANGED limitVars
    PROVE  PromptInv'
<1>1. LimitInv'
  BY LimitStutters DEF PromptInv
<1>2. Phase(called) => Phase(called)'
  BY DEF limitVars, Phase, Placing, Answered, Begun, Asked, Told, Waits, Over,
         AtWork, InTime, Quiet, Settled, Past
<1>3. OneAtATime'
  BY <1>2 DEF PromptInv, OneAtATime, limitVars, Settled, Quiet
<1>4. Own' /\ NoneOverfilled'
  BY DEF PromptInv, Own, NoneOverfilled, limitVars, Unsettled
<1> QED
  BY <1>1, <1>3, <1>4 DEF PromptInv

\* While nothing is at work, the surroundings change neither that nor the account:
\* what a pass fetched is still true when it plans from it.
LEMMA RestRemains ==
    ASSUME PromptInv, PromptExchange, AtRest, frame = 0, Surroundings
    PROVE  AtRest' /\ held' = held
<1>1. ~OnMessage
  <2> SUFFICES ASSUME OnMessage PROVE FALSE
    OBVIOUS
  <2>1. inbox # <<>>
    BY DEF OnMessage, DropMessage, OnTradeAnswer, OnInfoAnswer
  <2>2. called # 0 /\ Over(called) /\ (Answered(called) \/ Told(called))
    BY <2>1, InFlight DEF AtRest
  <2> QED
    BY <2>2 DEF Over, Answered, Told
<1>2. CASE DeadlinePasses
  <2>1. /\ UNCHANGED <<called, frame, act, inbox, requests, order, held>>
        /\ called \in Nat /\ expired \in Nat /\ expired' = expired + 1
    BY <1>2 DEF DeadlinePasses, posVars, exchVars, PromptInv, LimitTypeOK
  <2> QED
    BY <2>1 DEF AtRest, Over, Settled
<1>3. ASSUME NEW n \in Call, Callback(n)
      PROVE  AtRest' /\ held' = held
  <2>1. ~AtLoopTest(n)
    <3> SUFFICES ASSUME AtLoopTest(n) PROVE FALSE
      OBVIOUS
    <3>1. n = called /\ n # 0 /\ act[n].at \in {"start", "sleep"}
      BY LoopTest DEF AtLoopTest
    <3> QED
      BY <3>1 DEF AtRest, Over
  <2>2. EraseTrade(n)
    BY <1>3, <2>1 DEF Callback, Poll, LeaveLoop
  <2>3. /\ UNCHANGED <<called, expired, frame, result, tradingDone, inbox,
                       requests, order, held>>
        /\ act' = [act EXCEPT ![n].at = "ended"] /\ act[n].at = "erase"
    BY <2>2 DEF EraseTrade, posVars, exchVars
  <2>4. ASSUME called # 0
        PROVE  act'[called].at \in {"erase", "ended"} /\ ~act'[called].stop
    BY <2>3, <2>4, InFlight DEF AtRest, Over, PromptInv, LimitTypeOK, Activation
  <2> QED
    BY <2>3, <2>4 DEF AtRest, Over, Settled, Past
<1>4. ASSUME NEW r \in requests
      PROVE  FALSE
  BY <1>4 DEF AtRest
<1>5. ASSUME NEW n \in Call, NEW k \in 1 .. Left(n), Fill(n, k)
      PROVE  FALSE
  <2>1. n = called /\ Unsettled(n) /\ n # 0
    BY <1>5, FillAdvances
  <2> QED
    BY <2>1 DEF AtRest, Settled, Unsettled
<1> QED
  BY <1>1, <1>2, <1>3, <1>4, <1>5 DEF Surroundings

\* Only the position thread calls limit() and returns from it.
LEMMA FrameStays ==
    ASSUME Surroundings
    PROVE  UNCHANGED <<called, frame, result>>
<1>1. OnMessage => UNCHANGED <<called, frame, result>>
  BY DEF OnMessage, DropMessage, OnTradeAnswer, OnInfoAnswer, posVars
<1>2. \A n \in Call : Callback(n) => UNCHANGED <<called, frame, result>>
  BY DEF Callback, Poll, LeaveLoop, LeaveAnd, EraseTrade, posVars
<1>3. \A r \in requests : Serve(r) => UNCHANGED <<called, frame, result>>
  BY DEF Serve, Accept, Reject, AnswerInfo, Cancel, posVars
<1>4. \A n \in Call : \A k \in 1 .. Left(n) :
        Fill(n, k) => UNCHANGED <<called, frame, result>>
  BY DEF Fill, posVars
<1> QED
  BY <1>1, <1>2, <1>3, <1>4 DEF Surroundings, DeadlinePasses, posVars

=============================================================================
