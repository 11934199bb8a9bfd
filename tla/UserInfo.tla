----------------------------- MODULE UserInfo -----------------------------
(***************************************************************************)
(* get_userinfo(), with which every pass of the position thread asks for   *)
(* the equity of the account: it installs a callback that writes to one of *)
(* its locals, asks the exchange, and waits ten seconds for the local to   *)
(* be set.  The answer is handled by a thread of the pool, which tests the *)
(* deadline of the channel, runs the callback, and erases the deadline.    *)
(*                                                                         *)
(* A call is a number, 1 for the first, that also names its frame, its     *)
(* closure, its request with the answer, and its deadline; as in           *)
(* LimitOrder the clock is the number of deadlines that have passed.       *)
(***************************************************************************)
EXTENDS Integers, Sequences, FiniteSets

CONSTANTS
    MaxCalls, \* bound: calls of get_userinfo() in a behaviour
    PoolSize  \* threads of the pool that runs on_message()

ASSUME CallsAssumption == MaxCalls \in Nat
ASSUME PoolAssumption == PoolSize \in Nat \ {0}

VARIABLES
    called,   \* how many calls have started
    expired,  \* how many of their deadlines have passed
    frame,    \* the call whose frame is live, 0 when none is
    asked,    \* the live call has sent its request
    info,     \* userinfo_a in the live frame: whose answer it holds, or 0
    returned, \* history: whose answer each call returned, 0 for none
    callback, \* userinfo_callback: whose closure it holds, 0 for none
    timeout,  \* channel_timeouts: whose deadline is stored for the channel, or 0
    requests, \* calls whose request is on its way to the exchange
    inbox,    \* answers on their way to, or queued in, the pool
    handler,  \* where the handler of each answer is
    target,   \* the call in whose closure each handler runs, 0 before it does
    older,    \* history: whose answers were still to come when the live call began
    wrote     \* history: what the write of each answer came to

callVars == <<called, frame, asked, returned, older>>
poolVars == <<handler, target, wrote>>
vars == <<callVars, expired, info, callback, timeout, requests, inbox, poolVars>>

Call == 1 .. MaxCalls

\* An answer; one with an error, or of an account that is not in cross margin
\* mode, is not ok.
Answer == [call : Call, ok : BOOLEAN]

\* Not yet there; about to run the callback; in it, about to write; about to erase
\* the deadline; ended.
HandlerAt == {"none", "call", "write", "erase", "ended"}

\* Not done; to the local of its closure's call; to a frame that is gone, where it is
\* lost, or hits the local of the call that is on that stack now.
Effect == {"none", "own", "lost", "hit"}

Past(n)  == n <= expired
Finished == {n \in 1 .. called : n # frame}

ThreadFree == Cardinality({n \in Call : handler[n] \in {"call", "write", "erase"}})
                < PoolSize

\* The answer to n may still be handled.
Pending(n) == \/ n \in requests \/ handler[n] \in {"call", "write"}
              \/ \E i \in 1 .. Len(inbox) : inbox[i].call = n

Init == /\ called = 0 /\ expired = 0 /\ frame = 0 /\ asked = FALSE /\ info = 0
        /\ returned = [n \in Call |-> 0]
        /\ callback = 0 /\ timeout = 0
        /\ requests = {} /\ inbox = <<>>
        /\ handler = [n \in Call |-> "none"] /\ target = [n \in Call |-> 0]
        /\ older = {} /\ wrote = [n \in Call |-> "none"]

-----------------------------------------------------------------------------
(* The position thread *)

\* Mutant: a callback that is already installed is not replaced.
InstallOnce ==
    /\ frame = 0 /\ called < MaxCalls
    /\ called' = called + 1 /\ frame' = called + 1
    /\ callback' = IF callback = 0 THEN called + 1 ELSE callback
    /\ info' = 0
    /\ older' = {n \in Call : Pending(n)}
    /\ UNCHANGED <<expired, asked, returned, timeout, requests, inbox, poolVars>>

\* Mutant: userinfo_a is not a local, and keeps what it was set to.
InstallKeepsInfo ==
    /\ frame = 0 /\ called < MaxCalls
    /\ called' = called + 1 /\ frame' = called + 1
    /\ callback' = called + 1
    /\ info' = IF called = 0 THEN 0 ELSE returned[called]
    /\ older' = {n \in Call : Pending(n)}
    /\ UNCHANGED <<expired, asked, returned, timeout, requests, inbox, poolVars>>

\* The deadline is computed, the local is new, and the callback set.
Install ==
    /\ frame = 0 /\ called < MaxCalls
    /\ called' = called + 1 /\ frame' = called + 1
    /\ callback' = called + 1
    /\ info' = 0
    /\ older' = {n \in Call : Pending(n)}
    /\ UNCHANGED <<expired, asked, returned, timeout, requests, inbox, poolVars>>

\* Mutant: a deadline that is already stored is not replaced.
AskKeepsDeadline ==
    /\ frame # 0 /\ ~asked
    /\ asked' = TRUE
    /\ timeout' = IF timeout = 0 THEN frame ELSE timeout
    /\ requests' = requests \union {frame}
    /\ UNCHANGED <<called, expired, frame, info, returned, older, callback, inbox,
                   poolVars>>

\* userinfo() stores the deadline, and sends.
Ask ==
    /\ frame # 0 /\ ~asked
    /\ asked' = TRUE
    /\ timeout' = frame
    /\ requests' = requests \union {frame}
    /\ UNCHANGED <<called, expired, frame, info, returned, older, callback, inbox,
                   poolVars>>

\* check_until() looks at the clock first, and at userinfo_a only in time.
Return ==
    /\ frame # 0 /\ asked
    /\ Past(frame) \/ info # 0
    /\ returned' = [returned EXCEPT ![frame] = IF Past(frame) THEN 0 ELSE info]
    /\ frame' = 0 /\ asked' = FALSE /\ info' = 0 /\ older' = {}
    /\ UNCHANGED <<called, expired, callback, timeout, requests, inbox, poolVars>>

DeadlinePasses ==
    /\ expired < called
    /\ expired' = expired + 1
    /\ UNCHANGED <<callVars, info, callback, timeout, requests, inbox, poolVars>>

-----------------------------------------------------------------------------
(* The pool: on_message() for the userinfo channel *)

WillCallback == timeout = 0 \/ ~Past(timeout)

\* An answer that is admitted; without equity only the deadline is erased.
Admit ==
    /\ inbox # <<>> /\ ThreadFree /\ WillCallback
    /\ LET m == Head(inbox) IN
       handler' = [handler EXCEPT ![m.call] = IF m.ok THEN "call" ELSE "erase"]
    /\ inbox' = Tail(inbox)
    /\ UNCHANGED <<callVars, expired, info, callback, timeout, requests, target, wrote>>

Drop ==
    /\ inbox # <<>> /\ ThreadFree /\ ~WillCallback
    /\ handler' = [handler EXCEPT ![Head(inbox).call] = "ended"]
    /\ inbox' = Tail(inbox)
    /\ UNCHANGED <<callVars, expired, info, callback, timeout, requests, target, wrote>>

\* The callback that is installed now begins.
Start(n) ==
    /\ handler[n] = "call"
    /\ handler' = [handler EXCEPT ![n] = "write"]
    /\ target' = [target EXCEPT ![n] = callback]
    /\ UNCHANGED <<callVars, expired, info, callback, timeout, requests, inbox, wrote>>

\* Mutant: what is written to outlives the call.
WriteAnyway(n) ==
    /\ handler[n] = "write"
    /\ handler' = [handler EXCEPT ![n] = "erase"]
    /\ info' = n /\ wrote' = [wrote EXCEPT ![n] = "own"]
    /\ UNCHANGED <<callVars, expired, callback, timeout, requests, inbox, target>>

\* It sets userinfo_a, in the frame it refers to, which may be gone meanwhile.
Write(n) ==
    /\ handler[n] = "write"
    /\ handler' = [handler EXCEPT ![n] = "erase"]
    /\ \/ target[n] = frame
          /\ info' = n /\ wrote' = [wrote EXCEPT ![n] = "own"]
       \/ target[n] # frame
          /\ info' = info /\ wrote' = [wrote EXCEPT ![n] = "lost"]
       \/ target[n] # frame /\ frame # 0
          /\ info' = n /\ wrote' = [wrote EXCEPT ![n] = "hit"]
    /\ UNCHANGED <<callVars, expired, callback, timeout, requests, inbox, target>>

\* The deadline of the channel is erased, whoever's it is.
Erase(n) ==
    /\ handler[n] = "erase"
    /\ handler' = [handler EXCEPT ![n] = "ended"]
    /\ timeout' = 0
    /\ UNCHANGED <<callVars, expired, info, callback, requests, inbox, target, wrote>>

-----------------------------------------------------------------------------
(* The exchange answers, in any order, or the answer or the request is lost. *)

Serve(n) ==
    /\ n \in requests
    /\ requests' = requests \ {n}
    /\ \/ \E ok \in BOOLEAN : inbox' = Append(inbox, [call |-> n, ok |-> ok])
       \/ inbox' = inbox
    /\ UNCHANGED <<callVars, expired, info, callback, timeout, poolVars>>

GetUserinfo == Install \/ Ask \/ Return
OnMessage   == Admit \/ Drop \/ \E n \in Call : Start(n) \/ Write(n) \/ Erase(n)

Next == \/ GetUserinfo \/ DeadlinePasses \/ OnMessage
        \/ \E n \in Call : Serve(n)

Spec == Init /\ [][Next]_vars

-----------------------------------------------------------------------------
(* Properties *)

\* The types of the variables; nothing belongs to a call that is not made yet, and
\* the local does not outlive its frame.
TypeOK ==
    /\ called \in 0 .. MaxCalls /\ expired \in 0 .. called
    /\ frame \in {0, called} /\ asked \in BOOLEAN
    /\ info \in 0 .. called /\ (frame = 0 => info = 0 /\ ~asked)
    /\ returned \in [Call -> 0 .. called]
    /\ callback \in 0 .. called /\ timeout \in 0 .. called
    /\ requests \subseteq 1 .. called
    /\ inbox \in Seq(Answer)
    /\ handler \in [Call -> HandlerAt] /\ target \in [Call -> 0 .. called]
    /\ older \subseteq 1 .. called - 1 /\ wrote \in [Call -> Effect]

\* The calls that ran into their deadline.
TimedOut == {n \in Finished : returned[n] = 0}

\* Whatever is late, lost or out of order, and however many deadlines have passed:
\* what a pass is about to plan with is the answer to its own request, or one that
\* was still to come when it asked, and no other pass has planned with it.  So an
\* answer that was left over by a timeout is taken for another at most once, and once
\* none is left over each pass has its own again.
OwnInfo ==
    info # 0 => /\ info = frame \/ info \in older
                /\ \A n \in Finished : returned[n] # info

\* The callback stays installed after its frame is gone, with its deadline erased: but
\* no more writes are lost in frames that are gone than calls have run into their
\* deadlines, and before the first of those each goes to the frame it is meant for.
FrameAlive ==
    /\ Cardinality({n \in Call : wrote[n] = "lost"}) <= Cardinality(TimedOut)
    /\ TimedOut = {} => \A n \in Call : wrote[n] \in {"none", "own"}

\* An answer that comes before the deadline of its own request is not dropped,
\* although handlers of other answers erase, and later calls replace, the one
\* deadline that is stored.
TimelyInfoKept == [][Drop => Past(Head(inbox).call)]_vars

=============================================================================
