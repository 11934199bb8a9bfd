---------------------------- MODULE ThreadPool ----------------------------
(***************************************************************************)
(* ctpl::thread_pool as the websocket uses it: functions are pushed by one *)
(* thread at a time, its threads run them, and its destructor stops it by  *)
(* stop(true).  The queue has a mutex of its own, so that a push or a pop  *)
(* is one step; the other mutex and the condition variable are what the    *)
(* steps below are about.                                                  *)
(*                                                                         *)
(* A thread holds that mutex exactly while it is at "test", between having *)
(* found the queue empty and going to sleep or ending.                     *)
(***************************************************************************)
EXTENDS Integers, Sequences, FiniteSets

CONSTANTS
    Thread,   \* the threads of the pool
    Function, \* what is pushed
    MaxPushed \* bound: functions pushed in a behaviour

ASSUME ThreadAssumption == IsFiniteSet(Thread) /\ Thread # {}
ASSUME PushedAssumption == MaxPushed \in Nat

VARIABLES
    at,        \* where each thread is
    doing,     \* the function that a running thread has popped
    queue,     \* q
    notifying, \* pushes that have not notified yet
    isDone,    \* the destructor has begun
    pushed,    \* history: functions pushed
    ran        \* history: functions that have returned

threadVars == <<at, doing>>
poolVars   == <<at, doing, queue, notifying, isDone, pushed, ran>>

\* About to pop; running a function; about to take the mutex, for the first time
\* or woken; found the queue empty; asleep in cv.wait(); ended.
ThreadAt == {"pop", "run", "lock", "test", "wait", "ended"}

Nothing == "nothing"

MutexFree == \A t \in Thread : at[t] # "test"

\* Threads that will look at the queue before they sleep.
Looking == {t \in Thread : at[t] \in {"pop", "lock"}}
Busy    == {t \in Thread : at[t] = "run"}

PoolInit == /\ at = [t \in Thread |-> "pop"]
            /\ doing = [t \in Thread |-> Nothing]
            /\ queue = <<>> /\ notifying = 0
            /\ isDone = FALSE
            /\ pushed = 0 /\ ran = 0

-----------------------------------------------------------------------------
(* push() *)

\* Mutant: nobody is notified.
PushQuietly(f) ==
    /\ pushed < MaxPushed
    /\ queue' = Append(queue, f)
    /\ pushed' = pushed + 1
    /\ UNCHANGED <<threadVars, notifying, isDone, ran>>

\* push() up to its mutex: the function is in the queue, and may be popped.
Push(f) ==
    /\ pushed < MaxPushed
    /\ queue' = Append(queue, f)
    /\ notifying' = notifying + 1
    /\ pushed' = pushed + 1
    /\ UNCHANGED <<threadVars, isDone, ran>>

\* Mutant: a sleeping thread is notified only of the first function in the queue.
NotifyOfFirst ==
    /\ notifying > 0 /\ MutexFree
    /\ notifying' = notifying - 1
    /\ \/ \E t \in Thread : /\ at[t] = "wait" /\ Len(queue) = 1
                            /\ at' = [at EXCEPT ![t] = "lock"]
       \/ (Len(queue) # 1 \/ \A t \in Thread : at[t] # "wait") /\ at' = at
    /\ UNCHANGED <<doing, queue, isDone, pushed, ran>>

\* notify_one(): some sleeping thread is woken, if there is one.
Notify ==
    /\ notifying > 0 /\ MutexFree
    /\ notifying' = notifying - 1
    /\ \/ \E t \in Thread : at[t] = "wait" /\ at' = [at EXCEPT ![t] = "lock"]
       \/ (\A t \in Thread : at[t] # "wait") /\ at' = at
    /\ UNCHANGED <<doing, queue, isDone, pushed, ran>>

-----------------------------------------------------------------------------
(* A thread of the pool *)

\* It takes the first function of the queue.
Take(t) ==
    /\ queue # <<>>
    /\ at' = [at EXCEPT ![t] = "run"]
    /\ doing' = [doing EXCEPT ![t] = Head(queue)]
    /\ queue' = Tail(queue)

\* pop() without the mutex.
Pop(t) ==
    /\ at[t] = "pop"
    /\ \/ Take(t)
       \/ /\ queue = <<>>
          /\ at' = [at EXCEPT ![t] = "lock"]
          /\ UNCHANGED <<doing, queue>>
    /\ UNCHANGED <<notifying, isDone, pushed, ran>>

\* The function runs and returns.
Run(t) ==
    /\ at[t] = "run"
    /\ at' = [at EXCEPT ![t] = "pop"]
    /\ doing' = [doing EXCEPT ![t] = Nothing]
    /\ ran' = ran + 1
    /\ UNCHANGED <<queue, notifying, isDone, pushed>>

\* Mutant: the predicate tests isDone before it pops.
LockUnlessDone(t) ==
    /\ at[t] = "lock" /\ MutexFree
    /\ \/ ~isDone /\ Take(t)
       \/ /\ (isDone \/ queue = <<>>)
          /\ at' = [at EXCEPT ![t] = "test"]
          /\ UNCHANGED <<doing, queue>>
    /\ UNCHANGED <<notifying, isDone, pushed, ran>>

\* With the mutex, the predicate of cv.wait() pops again.
Lock(t) ==
    /\ at[t] = "lock" /\ MutexFree
    /\ \/ Take(t)
       \/ /\ queue = <<>>
          /\ at' = [at EXCEPT ![t] = "test"]
          /\ UNCHANGED <<doing, queue>>
    /\ UNCHANGED <<notifying, isDone, pushed, ran>>

\* Then it tests isDone: the thread ends, or sleeps and gives the mutex back.
Test(t) ==
    /\ at[t] = "test"
    /\ at' = [at EXCEPT ![t] = IF isDone THEN "ended" ELSE "wait"]
    /\ UNCHANGED <<doing, queue, notifying, isDone, pushed, ran>>

\* A condition variable may wake a thread without being notified.
WakeSpuriously(t) ==
    /\ at[t] = "wait"
    /\ at' = [at EXCEPT ![t] = "lock"]
    /\ UNCHANGED <<doing, queue, notifying, isDone, pushed, ran>>

-----------------------------------------------------------------------------
(* The destructor: stop(true) *)

\* isDone is set without the mutex.
SetDone ==
    /\ isDone' = TRUE
    /\ UNCHANGED <<threadVars, queue, notifying, pushed, ran>>

NotifyAll ==
    /\ MutexFree
    /\ at' = [t \in Thread |-> IF at[t] = "wait" THEN "lock" ELSE at[t]]
    /\ UNCHANGED <<doing, queue, notifying, isDone, pushed, ran>>

\* Every thread is joined, and what is left in the queue deleted.
JoinThreads ==
    /\ \A t \in Thread : at[t] = "ended"
    /\ queue' = <<>>
    /\ UNCHANGED <<threadVars, notifying, isDone, pushed, ran>>

-----------------------------------------------------------------------------
(* Properties *)

\* The types of the variables.
PoolTypeOK ==
    /\ at \in [Thread -> ThreadAt]
    /\ doing \in [Thread -> Function \union {Nothing}]
    /\ queue \in Seq(Function)
    /\ notifying \in Nat /\ isDone \in BOOLEAN
    /\ pushed \in 0 .. MaxPushed /\ ran \in Nat

\* While a thread of the pool sleeps, every function in the queue has a thread
\* that is about to look, or a notification that is under way: no wakeup is lost,
\* and no message waits for a slow backfill as long as somebody is idle.
WorkConserving ==
    (\E t \in Thread : at[t] = "wait")
        => Len(queue) <= Cardinality(Looking) + notifying

=============================================================================
